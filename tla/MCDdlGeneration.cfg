SPECIFICATION Spec
CONSTANTS
  Payloads <- MCPayloads
  None = None
  Blank = Blank
  Lower <- MCLower
  MaxLength = 3
  MaxPrecision = 2
  Prefix <- MCPrefix
INVARIANTS
  VerifiedScriptRuns CatalogMatchesDrawing EveryTableFillable
  RelationshipsEnforced DirectionDoesNotMatter
CHECK_DEADLOCK FALSE
