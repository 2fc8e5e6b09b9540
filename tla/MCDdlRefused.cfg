SPECIFICATION Spec
CONSTANTS
  Payloads <- MCPayloads
  None = None
  Blank = Blank
  Lower <- MCLower
  MaxLength = 3
  MaxPrecision = 2
  Prefix <- MCPrefix
INVARIANT ReferencedColumnsUnique
CHECK_DEADLOCK FALSE
