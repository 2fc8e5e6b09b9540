\* Drawings, documents and files by families; numerals up to 25.
CONSTANTS
    None = None
    Blank <- MCBlank
    Lower <- MCLower
    MaxNumber = 25
    MaxLength = 4
    MaxPrecision = 4
    GridColumns = 2
    GridWidth = 4
    GridHeight = 6
    Families <- MCFamilies
SPECIFICATION Spec
INVARIANTS
    EveryLegKeepsTheDrawing
    ScriptReadsBack
    ComparisonIsExact
    ReadsWhatWasWritten
CHECK_DEADLOCK FALSE
