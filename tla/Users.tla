------------------------------- MODULE Users --------------------------------
(***************************************************************************)
(* Accounts as they are administered: UserServiceImpl over                 *)
(* PgUserRepository, called by the handlers of /v1/users.                  *)
(*                                                                         *)
(* A call is an async task that gives way at every statement. What a       *)
(* transaction wrote is kept in tx and reaches the tables at COMMIT; a     *)
(* statement that needs a row or key another open transaction wrote waits  *)
(* for it. Statements read what is committed when they run (READ           *)
(* COMMITTED), so a change of roles is fixed statement by statement.       *)
(*                                                                         *)
(* A row is a function on its columns. avatar, first and last name are one *)
(* column, profile: no operation treats them apart.                        *)
(***************************************************************************)
EXTENDS Naturals, FiniteSets

CONSTANTS
  Clients,      \* tasks that serve calls, one call at a time each
  Ids,          \* the UUIDs of accounts
  Roles,        \* iam.roles by name
  Values,       \* what a column can hold
  Departments,  \* iam.departments by id, among Values
  Strong(_),    \* password_checker and strong_password accept it
  Keep,         \* Option::None: the column is left as it is
  NoRow,        \* no account under this id
  NoId          \* nobody was identified

Columns == {"user_name", "email", "password", "status", "department", "profile"}
Row     == [Columns -> Values]

\* UserStatus::id_of knows these two.
Statuses == {"Active", "Deleted"}

\* UpdateUser: the columns to set and the roles to add and to take away.
Change   == [Columns -> Values \cup {Keep}]
NoChange == [k \in Columns |-> Keep]
Fields   == [set : Change, add : SUBSET Roles, remove : SUBSET Roles]
NoFields == [set |-> NoChange, add |-> {}, remove |-> {}]

\* A transaction: the row it works on and what it wrote so far.
Tx   == [user : Ids \cup {NoId}, set : Change, add : SUBSET Roles, del : SUBSET Roles]
NoTx == [user |-> NoId, set |-> NoChange, add |-> {}, del |-> {}]

ASSUME UsersAssumption ==
  /\ Keep \notin Values /\ NoRow \notin Row /\ NoId \notin Ids
  /\ Departments \subseteq Values /\ Statuses \subseteq Values

VARIABLES
  users,   \* iam.users: a row under each id, or NoRow
  roles,   \* iam.user_has_roles: the roles of each account
  tx,      \* the transaction each client has open
  pc,      \* where each client's call stands
  call,    \* the call it serves
  who,     \* AuthUser: the account the call acts for
  answer   \* what the call returned

tables == <<users, roles>>

Rows == {u \in Ids : users[u] # NoRow}
Goto(c, step) == pc' = [pc EXCEPT ![c] = step]

\* The call is answered, and a transaction it left open is rolled back.
Finish(c, result) ==
  /\ Goto(c, "done")
  /\ answer' = [answer EXCEPT ![c] = result]
  /\ tx' = [tx EXCEPT ![c] = NoTx]

\* UpdateUser::has_no_column_changes.
HasNoColumnChanges(f) == f.set = NoChange

\* Mutant: the status is kept with the columns a person may change.
RestrictedToSelfAndStatus(f) ==
  [NoFields EXCEPT !.set = [k \in Columns |-> IF k \in {"profile", "department", "status"} THEN f.set[k] ELSE Keep]]

\* UpdateUser::restricted_to_self.
RestrictedToSelf(f) ==
  [NoFields EXCEPT !.set = [k \in Columns |-> IF k \in {"profile", "department"} THEN f.set[k] ELSE Keep]]

\* get_my_user and patch_my_user take the caller, the others the path's id.
Target(c) == IF call[c].op \in {"get_my_user", "patch_my_user"} THEN who[c] ELSE call[c].target

\* What the service is asked to change; delete is an UPDATE of one column.
Wanted(c) ==
  CASE call[c].op = "patch_my_user" -> RestrictedToSelf(call[c].fields)
    [] call[c].op = "delete"        -> [NoFields EXCEPT !.set["status"] = "Deleted"]
    [] OTHER                        -> call[c].fields

\* Another transaction wrote the row, or holds one of the two unique keys.
RowHeld(c, u) == \E d \in Clients \ {c} : tx[d].user = u /\ tx[d].set # NoChange
KeyHeld(c, set) ==
  \E d \in Clients \ {c}, k \in {"user_name", "email"} : set[k] # Keep /\ tx[d].set[k] = set[k]

\* A committed row other than u has one of the unique keys.
Duplicate(u, set) ==
  \E v \in Rows \ {u}, k \in {"user_name", "email"} : users[v][k] = set[k]

\* A row of user_has_roles that another transaction inserted or deleted.
RoleHeld(c, u, rs) ==
  \E d \in Clients \ {c} : tx[d].user = u /\ (tx[d].add \cup tx[d].del) \cap rs # {}

-----------------------------------------------------------------------------
(* UserServiceImpl, statement by statement.                                *)

OneUser == {"get", "get_my_user", "patch", "patch_my_user", "delete"}

\* require_user: find_by_id answers the row and hydrate adds its roles, which
\* only get shows. A new password is checked before a transaction begins.
Require(c) ==
  /\ pc[c] = "handler" /\ call[c].op \in OneUser
  /\ LET password == Wanted(c).set["password"] IN
     \/ users[Target(c)] = NoRow /\ Finish(c, "not_found")
     \/ users[Target(c)] # NoRow /\ call[c].op \in {"get", "get_my_user"} /\ Finish(c, "ok")
     \/ users[Target(c)] # NoRow /\ password # Keep /\ ~Strong(password) /\ Finish(c, "invalid")
     \/ /\ users[Target(c)] # NoRow /\ call[c].op \notin {"get", "get_my_user"}
        /\ password # Keep => Strong(password)
        /\ Goto(c, "columns") /\ UNCHANGED <<answer, tx>>
  /\ UNCHANGED tables

\* create: INSERT INTO iam.users, under an id the database draws.
InsertUser(c) ==
  /\ pc[c] = "handler" /\ call[c].op = "create"
  /\ LET set == [call[c].fields.set EXCEPT !["status"] = "Active"] IN
     \/ ~Strong(set["password"]) /\ Finish(c, "invalid")
     \/ /\ Strong(set["password"]) /\ ~KeyHeld(c, set)
        /\ \/ Duplicate(NoId, set) /\ Finish(c, "unprocessable")
           \/ ~Duplicate(NoId, set) /\ set["department"] \notin Departments /\ Finish(c, "invalid")
           \/ /\ ~Duplicate(NoId, set) /\ set["department"] \in Departments
              /\ \E u \in Ids \ (Rows \cup {tx[d].user : d \in Clients}) :
                   tx' = [tx EXCEPT ![c] = [NoTx EXCEPT !.user = u, !.set = set]]
              /\ Goto(c, "add") /\ UNCHANGED answer
  /\ UNCHANGED tables

\* partial_update and delete: UPDATE iam.users. An unknown status is refused
\* before the statement is sent.
UpdateColumns(c) ==
  /\ pc[c] = "columns"
  /\ LET u == Target(c) set == Wanted(c).set IN
     \/ /\ HasNoColumnChanges(Wanted(c))
        /\ tx' = [tx EXCEPT ![c].user = u] /\ Goto(c, "add") /\ UNCHANGED answer
     \/ set["status"] \notin Statuses \cup {Keep} /\ Finish(c, "invalid")
     \/ /\ ~HasNoColumnChanges(Wanted(c)) /\ set["status"] \in Statuses \cup {Keep}
        /\ ~RowHeld(c, u) /\ ~KeyHeld(c, set)
        /\ \/ Duplicate(u, set) /\ Finish(c, "unprocessable")
           \/ ~Duplicate(u, set) /\ set["department"] \notin Departments \cup {Keep} /\ Finish(c, "invalid")
           \/ /\ ~Duplicate(u, set) /\ set["department"] \in Departments \cup {Keep}
              /\ tx' = [tx EXCEPT ![c].user = u, ![c].set = set]
              /\ Goto(c, "add") /\ UNCHANGED answer
  /\ UNCHANGED tables

\* Mutant: the roles are inserted on the pool, outside the transaction.
AddUserRolesOnPool(c) ==
  /\ pc[c] = "add"
  /\ roles' = [roles EXCEPT ![tx[c].user] = @ \cup Wanted(c).add]
  /\ Goto(c, "remove")
  /\ UNCHANGED <<answer, tx, users>>

\* add_user_roles: ON CONFLICT DO NOTHING, so only rows not there are new.
AddUserRoles(c) ==
  /\ pc[c] = "add"
  /\ ~RoleHeld(c, tx[c].user, Wanted(c).add)
  /\ tx' = [tx EXCEPT ![c].add = Wanted(c).add \ roles[tx[c].user]]
  /\ Goto(c, "remove")
  /\ UNCHANGED <<answer, tables>>

\* remove_user_roles: the committed rows it sees and its own. create and
\* delete ask for none, and no statement is sent.
RemoveUserRoles(c) ==
  /\ pc[c] = "remove"
  /\ ~RoleHeld(c, tx[c].user, Wanted(c).remove \cap roles[tx[c].user])
  /\ tx' = [tx EXCEPT ![c].add = @ \ Wanted(c).remove,
                      ![c].del = Wanted(c).remove \cap roles[tx[c].user]]
  /\ Goto(c, "commit")
  /\ UNCHANGED <<answer, tables>>

\* Mutant: the UPDATE sets every column, given or not.
WrittenAll(t) == t.set

\* The row as the UPDATE or the INSERT left it.
Written(t) ==
  [k \in Columns |-> IF t.set[k] = Keep THEN users[t.user][k] ELSE t.set[k]]

Commit(c) ==
  /\ pc[c] = "commit"
  /\ LET t == tx[c] IN
     /\ users' = [users EXCEPT ![t.user] = Written(t)]
     /\ roles' = [roles EXCEPT ![t.user] = (@ \cup t.add) \ t.del]
  /\ Finish(c, "ok")

\* A query of the handler fails, and an open transaction rolls back.
Fail(c) ==
  /\ pc[c] \in {"handler", "columns", "add", "remove", "commit"}
  /\ Finish(c, "unknown")
  /\ UNCHANGED tables

Waits(c) == InsertUser(c) \/ UpdateColumns(c) \/ AddUserRoles(c) \/ RemoveUserRoles(c)

-----------------------------------------------------------------------------
(* What a change of an account may be.                                     *)

\* An account changes only when a call on it commits, and then as a whole:
\* every column the call sets has its value, and the roles change by what the
\* statements of this one call wrote. A call that is answered with an error
\* changes nothing, whichever statement of it failed.
PatchIsAtomic ==
  [][\A u \in Ids : (users[u]' # users[u] \/ roles[u]' # roles[u]) =>
       \E c \in Clients :
         /\ pc[c] = "commit" /\ answer'[c] = "ok" /\ tx[c].user = u
         /\ \A k \in Columns : users'[u][k] = IF tx[c].set[k] # Keep THEN tx[c].set[k] ELSE users[u][k]
         /\ roles'[u] \ roles[u] \subseteq Wanted(c).add
         /\ roles[u] \ roles'[u] \subseteq Wanted(c).remove]_tables

\* patch_my_user takes a whole UpdateUser from the caller: none of it reaches
\* another account, and of the caller's own neither the login (user_name, email
\* and password), the status nor the roles ("restricting_to_self_drops_
\* privileged_fields"). What is left are the profile and the department. On two
\* columns the code and openapi.yaml differ, and the property follows the code:
\* the operation's description (334-336) has `department_id` dropped "so a user
\* cannot promote themselves", but restricted_to_self keeps it, so a person can
\* move to another department; UpdateMyUser (956-963) offers `email`, but
\* restricted_to_self drops it, so it never changes here.
SelfServiceKeepsPrivileges ==
  [][\A c \in Clients : (pc[c] = "commit" /\ pc'[c] = "done" /\ call[c].op = "patch_my_user") =>
       /\ roles' = roles
       /\ \A u \in Ids : users'[u] # users[u] =>
            /\ u = who[c]
            /\ \A k \in {"user_name", "email", "password", "status"} : users'[u][k] = users[u][k]]_tables
=============================================================================
