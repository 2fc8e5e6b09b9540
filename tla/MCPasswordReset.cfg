SPECIFICATION Spec
CONSTANTS
  Clients = {c1, c2, c3}
  Accounts = {"ada"}
  Emails = {"ada@x", "new@x"}
  Tokens = {t1, t2}
  Ttl = 0
  MaxClock = 1
  NoToken = NoToken
  NoEmail = NoEmail
  InitialEmail <- MCInitialEmail
SYMMETRY Symmetry
INVARIANTS TypeOK SpentTokensStaySpent RecoveriesInTurnKeepOne
