SPECIFICATION Spec
CONSTANTS
  Clients = {c1, c2}
  Owners = {o1, o2}
  Names <- MCNames
  BadNames = {""}
  Ids = {i1, i2}
  Keys <- MCKeys
  Lower <- MCLower
  LockKey <- MCLockKey
  MaxConnections = 2
  MaxClock = 1
  Nobody = Nobody
  NoRow = NoRow
  NotUuid = NotUuid
  NoId = NoId
  NoName = NoName
  NoRequest = NoRequest
SYMMETRY Symmetry
INVARIANTS TypeOK NoOrphans UpdatedAfterCreated
PROPERTIES OnlyOwnerTouches ImplementsCatalog ImplementsListing
