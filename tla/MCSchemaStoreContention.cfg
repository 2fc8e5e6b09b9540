SPECIFICATION FairSpec
CONSTANTS
  Clients = {c1, c2, c3}
  Owners = {o1}
  Names = {"a", "A"}
  BadNames = {}
  Ids = {i1, i2}
  Keys <- MCKeys
  Lower <- MCLower
  LockKey <- MCLockKey
  MaxConnections = 2
  MaxClock = 0
  Nobody = Nobody
  NoRow = NoRow
  NotUuid = NotUuid
  NoId = NoId
  NoName = NoName
  NoRequest = NoRequest
INVARIANTS UniqueNames NoWaitCycle
PROPERTIES EveryCallEnds
