--------------------------- MODULE AccessControl ----------------------------
(***************************************************************************)
(* Who may call what: the gRPC guard (rpc_auth), the HTTP middlewares      *)
(* authenticate and rbac_guard with the route tables, AuthService's tokens *)
(* and RbacEngine, in front of the handlers of Users.                      *)
(*                                                                         *)
(* A guarded call reads the account, then its roles for the super role,    *)
(* then its permissions, in statements of their own, and only then runs    *)
(* its handler, while other calls commit changes to the same tables.       *)
(*                                                                         *)
(* The schema handlers are SchemaStore's; here they only answer. held and  *)
(* failed are history: what the caller was entitled to since it called.    *)
(***************************************************************************)
EXTENDS Users

CONSTANTS
  Requests(_), \* the calls that may arrive at a task, without their token
  Actions,     \* permissions, written "resource.name"
  Grants,      \* iam.role_has_permissions, as the migrations fill it
  SuperRole,   \* RbacEngine::super_role
  SeedUsers, SeedRoles,  \* the accounts there are to begin with
  TokenTtl, RefreshTtl,  \* lifetimes of the two tokens of a sign in
  MaxNow,      \* bound: how far the clock runs
  MaxSignIns   \* bound: how many pairs of tokens are issued

\* A JWT, by the claims that are read back. No operation tells an access
\* token from a refresh token.
Token   == [sub : Ids, exp : 0 .. MaxNow + TokenTtl + RefreshTtl]
NoToken == [sub |-> NoId, exp |-> 0]

\* Role names are exact, and the migrations grant the super role everything.
ASSUME AccessAssumption ==
  /\ Grants \in [Roles -> SUBSET Actions] /\ SuperRole \in Roles
  /\ Grants[SuperRole] = Actions
  /\ {"Users.View All", "Schemas.View All", "Schemas.Create", "Schemas.Update", "Schemas.Delete"} \subseteq Actions
  /\ SeedUsers \in [Ids -> Row \cup {NoRow}] /\ SeedRoles \in [Ids -> SUBSET Roles]
  /\ {TokenTtl, RefreshTtl, MaxNow, MaxSignIns} \subseteq Nat
  /\ IsFiniteSet(Clients)

\* What the extractors let through: an id where the route's path has one, and
\* every column of an account that is created.
ASSUME RequestsAssumption ==
  \A c \in Clients : \A r \in Requests(c) :
    /\ r \in [op : STRING, target : Ids \cup {NoId}, fields : Fields]
    /\ r.op \in {"get", "patch", "delete"} => r.target \in Ids
    /\ r.op = "create" => r.fields.set \in Row

VARIABLES
  now,     \* the clock
  tokens,  \* every token that was issued
  signIns, \* how many pairs were issued
  seen,    \* the password hash a sign in read
  held,    \* was the caller entitled at some moment, and at every moment?
  failed   \* a query of the guard failed

clock == <<now, tokens, signIns>>
past  == <<held, failed>>
vars  == <<users, roles, tx, pc, call, who, answer, clock, seen, past>>

Open          == [kind |-> "open", action |-> "none"]
Authenticated == [kind |-> "authenticated", action |-> "none"]
Denied        == [kind |-> "denied", action |-> "none"]
Requires(a)   == [kind |-> "requires", action |-> a]

\* access_for and the two route tables. An RPC of SchemaService that is not
\* listed is "unlisted"; "schemas" is any HTTP route of /v1/schemas.
AccessFor(op) ==
  CASE op \in {"login", "refresh_token"} -> Open
    [] op \in {"GetSchema", "ListSchemas", "ValidateSchema", "CompareSchemas", "GenerateDdl",
               "ExportSchema"}           -> Requires("Schemas.View All")
    [] op \in {"CreateSchema", "ImportSchema"} -> Requires("Schemas.Create")
    [] op = "UpdateSchema"               -> Requires("Schemas.Update")
    [] op = "DeleteSchema"               -> Requires("Schemas.Delete")
    [] op = "index"                      -> Requires("Users.View All")
    [] op = "unlisted"                   -> Denied
    [] OTHER                             -> Authenticated

\* The reference for the guard: the permission iam.permissions has for what
\* the call does.
Permission(op) ==
  CASE op \in {"GetSchema", "ListSchemas", "ValidateSchema", "CompareSchemas", "GenerateDdl",
               "ExportSchema"} -> "Schemas.View All"
    [] op \in {"CreateSchema", "ImportSchema"} -> "Schemas.Create"
    [] op = "UpdateSchema" -> "Schemas.Update" [] op = "DeleteSchema" -> "Schemas.Delete"
    [] op = "index" -> "Users.View All" [] OTHER -> "none"

\* has_permission and get_roles, each one SELECT.
HasPermission(rs, u, a) == \E r \in rs[u] : a \in Grants[r]
RoleBypass(rs, u)       == SuperRole \in rs[u]

\* The caller named by the token may do what the call asks for.
Entitled(rs, r) ==
  \/ Permission(r.op) = "none"
  \/ r.sub # NoId /\ (RoleBypass(rs, r.sub) \/ HasPermission(rs, r.sub, Permission(r.op)))

\* validate_token: signed here and not past its second, with no leeway.
Valid(token) == token # NoToken /\ now <= token.exp

\* A call with the account its token names, and whether that token was one
\* issued here and not expired when the call arrived (history).
NoCall == [op |-> "none", sub |-> NoId, fresh |-> FALSE, target |-> NoId, fields |-> NoFields]
Unheld == [ever |-> FALSE, always |-> FALSE]

Init ==
  /\ users = SeedUsers /\ roles = SeedRoles
  /\ now = 0 /\ tokens = {} /\ signIns = 0
  /\ pc = [c \in Clients |-> "idle"] /\ tx = [c \in Clients |-> NoTx]
  /\ call = [c \in Clients |-> NoCall]
  /\ who = [c \in Clients |-> NoId] /\ answer = [c \in Clients |-> "none"]
  /\ seen = [c \in Clients |-> Keep]
  /\ held = [c \in Clients |-> Unheld]
  /\ failed = [c \in Clients |-> FALSE]

\* History: entitlement is watched at every change of the roles.
Observe ==
  held' = [c \in Clients |-> IF call[c] = NoCall THEN Unheld ELSE
    [ever |-> held[c].ever \/ Entitled(roles', call[c]), always |-> held[c].always /\ Entitled(roles', call[c])]]

-----------------------------------------------------------------------------
(* The guard. Reading the header and the token awaits nothing, so it is    *)
(* one step with the call's arrival.                                       *)

Arrive(c, r, token) ==
  LET full   == [op |-> r.op, sub |-> token.sub, fresh |-> token # NoToken /\ now <= token.exp,
                 target |-> r.target, fields |-> r.fields]
      access == AccessFor(r.op).kind
      reads  == access \in {"authenticated", "requires"} \/ r.op = "refresh_token"
  IN
  /\ pc[c] = "idle"
  /\ call' = [call EXCEPT ![c] = full]
  /\ held' = [held EXCEPT ![c] = [ever |-> Entitled(roles, full), always |-> Entitled(roles, full)]]
  /\ UNCHANGED failed
  /\ \/ access = "denied" /\ Finish(c, "unauthorized") /\ UNCHANGED who
     \/ access = "open" /\ ~reads /\ Goto(c, "handler") /\ UNCHANGED <<who, answer, tx>>
     \/ reads /\ ~Valid(token) /\ Finish(c, "unauthorized") /\ UNCHANGED who
     \/ /\ reads /\ Valid(token)
        /\ who' = [who EXCEPT ![c] = token.sub]
        /\ Goto(c, "find") /\ UNCHANGED <<answer, tx>>
  /\ UNCHANGED <<tables, clock, seen>>

Refuse(c, broke) ==
  /\ Finish(c, "unauthorized")
  /\ failed' = [failed EXCEPT ![c] = broke]

\* get_identity: find_user_by_id, then enrich reads the roles, which only
\* GetCurrentUser and the claims show. Every failure is one refusal.
GetIdentity(c) ==
  /\ pc[c] = "find"
  /\ \/ /\ users[who[c]] # NoRow
        /\ Goto(c, IF AccessFor(call[c].op).kind = "requires" THEN "bypass" ELSE "handler")
        /\ UNCHANGED <<answer, tx, failed>>
     \/ Refuse(c, TRUE)
  /\ UNCHANGED <<tables, call, who, clock, seen, held>>

\* Mutant: a failing query lets the call through.
BypassOnFailure(c) ==
  /\ pc[c] = "bypass"
  /\ \/ Goto(c, IF RoleBypass(roles, who[c]) THEN "handler" ELSE "permission") /\ UNCHANGED failed
     \/ Goto(c, "handler") /\ failed' = [failed EXCEPT ![c] = TRUE]
  /\ UNCHANGED <<tables, tx, call, who, answer, clock, seen, held>>

\* role_bypass: a failing query counts as not having the super role.
Bypass(c) ==
  /\ pc[c] = "bypass"
  /\ \/ Goto(c, IF RoleBypass(roles, who[c]) THEN "handler" ELSE "permission") /\ UNCHANGED failed
     \/ Goto(c, "permission") /\ failed' = [failed EXCEPT ![c] = TRUE]
  /\ UNCHANGED <<tables, tx, call, who, answer, clock, seen, held>>

\* Mutant: only the super role passes.
CanOnlyBypass(c) ==
  /\ pc[c] = "permission" /\ Refuse(c, failed[c])
  /\ UNCHANGED <<tables, call, who, clock, seen, held>>

\* The rest of can: a failing query counts as not permitted.
Can(c) ==
  /\ pc[c] = "permission"
  /\ LET allowed == HasPermission(roles, who[c], AccessFor(call[c].op).action) IN
     \/ allowed /\ Goto(c, "handler") /\ UNCHANGED <<answer, tx, failed>>
     \/ ~allowed /\ Refuse(c, failed[c])
     \/ Refuse(c, TRUE)
  /\ UNCHANGED <<tables, call, who, clock, seen, held>>

-----------------------------------------------------------------------------
(* The handlers that are not Users': signing in, and answering.            *)

\* generate_tokens: an access and a refresh token for the account.
Issue(c, u) ==
  /\ tokens' = tokens \cup {[sub |-> u, exp |-> now + ttl] : ttl \in {TokenTtl, RefreshTtl}}
  /\ signIns' = signIns + 1
  /\ Finish(c, "tokens")
  /\ UNCHANGED now

\* AuthService::generate_token: find_user_by_email reads the row, ...
FindByEmail(c) ==
  /\ pc[c] = "handler" /\ call[c].op = "login"
  /\ \/ /\ \A u \in Rows : users[u]["email"] # call[c].fields.set["email"]
        /\ Finish(c, "unauthorized") /\ UNCHANGED <<who, seen>>
     \/ \E u \in Rows :
          /\ users[u]["email"] = call[c].fields.set["email"]
          /\ who' = [who EXCEPT ![c] = u] /\ seen' = [seen EXCEPT ![c] = users[u]["password"]]
          /\ Goto(c, "password") /\ UNCHANGED <<answer, tx>>
  /\ UNCHANGED <<tables, call, clock, past>>

\* ... enrich its roles, and the password is compared with the row as read.
CheckPassword(c) ==
  /\ pc[c] = "password"
  /\ \/ seen[c] # call[c].fields.set["password"] /\ Finish(c, "unauthorized") /\ UNCHANGED clock
     \/ seen[c] = call[c].fields.set["password"] /\ Issue(c, who[c])
  /\ UNCHANGED <<tables, call, who, seen, past>>

\* AuthService::refresh_token, past require_user_by_id.
RefreshToken(c) ==
  /\ pc[c] = "handler" /\ call[c].op = "refresh_token"
  /\ Issue(c, who[c])
  /\ UNCHANGED <<tables, call, who, seen, past>>

\* Handlers that change nothing here: the lists, GetCurrentUser, the schemas.
Serve(c) ==
  /\ pc[c] = "handler" /\ call[c].op \notin OneUser \cup {"create", "login", "refresh_token"}
  /\ Finish(c, "ok")
  /\ UNCHANGED <<tables, call, who, clock, seen, past>>

\* The answer goes out and the task is free again.
Return(c) ==
  /\ pc[c] = "done" /\ Goto(c, "idle")
  /\ call' = [call EXCEPT ![c] = NoCall] /\ who' = [who EXCEPT ![c] = NoId]
  /\ answer' = [answer EXCEPT ![c] = "none"] /\ seen' = [seen EXCEPT ![c] = Keep]
  /\ held' = [held EXCEPT ![c] = Unheld]
  /\ failed' = [failed EXCEPT ![c] = FALSE]
  /\ UNCHANGED <<tables, tx, clock>>

Tick ==
  /\ now < MaxNow /\ now' = now + 1
  /\ UNCHANGED <<users, roles, tx, pc, call, who, answer, tokens, signIns, seen, past>>

Guard(c)  == GetIdentity(c) \/ Bypass(c) \/ Can(c)
SignIn(c) == FindByEmail(c) \/ CheckPassword(c) \/ RefreshToken(c)

\* A step of a handler of Users, in this module's state.
InUsers(step) == step /\ Observe /\ UNCHANGED <<call, who, clock, seen, failed>>

\* Bound: the sign ins that are answered and in progress.
SignInsLeft ==
  signIns + Cardinality({c \in Clients : pc[c] \notin {"idle", "done"} /\ AccessFor(call[c].op) = Open}) < MaxSignIns

Advance(c) == Return(c) \/ Guard(c) \/ SignIn(c) \/ Serve(c) \/ InUsers(Require(c) \/ Waits(c) \/ Commit(c))

Next ==
  \/ \E c \in Clients :
       \/ \E r \in Requests(c), token \in tokens \cup {NoToken} :
            (AccessFor(r.op) = Open => SignInsLeft) /\ Arrive(c, r, token)
       \/ Advance(c) \/ InUsers(Fail(c))
  \/ Tick

Spec == Init /\ [][Next]_vars

-----------------------------------------------------------------------------
(* What a caller gets.                                                     *)

Handling == {"handler", "columns", "add", "remove", "commit"}

\* A handler runs only for the account the token names, whose token had not
\* expired when the call arrived, and who held the permission, or the super
\* role, at some moment between the call's arrival and the handler's start:
\* whatever other calls committed while the guard was reading.
ServedCallsWereEntitled ==
  \A c \in Clients : (pc[c] \in Handling /\ call[c].op # "login") =>
    /\ call[c].fresh /\ who[c] = call[c].sub /\ users[who[c]] # NoRow
    /\ held[c].ever

\* Who is entitled all through a call is not refused, unless a query failed:
\* the two reads of can never fall on either side of a change that swaps the
\* super role for another role with the permission, or back.
EntitledThroughoutIsServed ==
  \A c \in Clients :
    (pc[c] = "done" /\ answer[c] = "unauthorized" /\ call[c].op \notin {"login", "unlisted"}
      /\ call[c].fresh /\ ~failed[c])
    => ~held[c].always

\* Rows, transactions and tokens are whole: a partial UPDATE never leaves a
\* row with a column unset, and a call names an account a token was issued
\* to, if any.
TypeOK ==
  /\ users \in [Ids -> Row \cup {NoRow}] /\ roles \in [Ids -> SUBSET Roles]
  /\ tx \in [Clients -> Tx] /\ who \in [Clients -> Ids \cup {NoId}]
  /\ \A c \in Clients : call[c].sub \in {token.sub : token \in tokens} \cup {NoId}
  /\ tokens \subseteq Token /\ now \in 0 .. MaxNow /\ signIns \in 0 .. MaxSignIns
=============================================================================
