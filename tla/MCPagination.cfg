SPECIFICATION ListingSpec
CONSTANTS
  HalfWord = 32
  DefaultPerPage = 3
  MaxPerPage = 6
  NoPage = NoPage
  MaxTotal = 13
INVARIANTS PagesCoverTable LinksLeadToRows
CHECK_DEADLOCK FALSE
