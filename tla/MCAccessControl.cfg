SPECIFICATION Spec
CONSTANTS
  Clients = {"c1", "c2"}
  Ids = {"u1", "u2", "u3"}
  Roles = {"Admin", "Developer"}
  Values <- MCValues
  Departments = {"1", "2"}
  Strong <- MCStrong
  Keep = Keep
  NoRow = NoRow
  NoId = NoId
  Requests <- MCRequests
  Actions = {"Users.View All", "Schemas.View All", "Schemas.Create", "Schemas.Update", "Schemas.Delete"}
  Grants <- MCGrants
  SuperRole = "Admin"
  SeedUsers <- MCSeedUsers
  SeedRoles <- MCSeedRoles
  TokenTtl = 0
  RefreshTtl = 1
  MaxNow = 1
  MaxSignIns = 2
INVARIANTS TypeOK ServedCallsWereEntitled EntitledThroughoutIsServed
PROPERTIES PatchIsAtomic SelfServiceKeepsPrivileges
