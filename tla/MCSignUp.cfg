SPECIFICATION FairSpec
CONSTANTS
  Clients = {c1, c2}
  Emails = {"ada", "Ada"}
  Clean <- MCClean
  UserNames = {"ada", "Ada", "boss"}
  Profiles = {p1, p2}
  Ids = {u1, u2}
  NoUser = NoUser
  NoId = NoId
  NoRequest = NoRequest
INVARIANTS TypeOK SameAddressSameAccount RolesWithAccount
PROPERTIES DeletedSampleStaysDeleted EveryCallEnds
