SPECIFICATION Spec
CONSTANTS
  Clients = {c1, c2}
  Ids = {1, 2, 3, 4}
  MaxClock = 1
  NoTime = NoTime
  HalfWord = 1000
  DefaultPerPage = 10
  MaxPerPage = 100
  NoPage = NoPage
  PerPage = 2
  IdBefore <- MCIdBefore
SYMMETRY Symmetry
INVARIANTS QuietWalkShowsEachOnce NothingHidden
