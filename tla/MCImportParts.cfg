\* Scripts with words behind a table constraint.
CONSTANTS
    None = None
    Blank <- MCBlank
    Lower <- MCLower
    MaxNumber = 25
    MaxLength = 4
    MaxPrecision = 4
    GridColumns = 2
    GridWidth = 4
    GridHeight = 6
    Families <- MCTails
SPECIFICATION Spec
INVARIANTS
    PartsGivenUpAreNamed
CHECK_DEADLOCK FALSE
