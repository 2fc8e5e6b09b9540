-------------------------- MODULE MCAccessControl ---------------------------
(* AccessControl with an administrator, a developer and room for one more  *)
(* account. The calls are those whose steps can disturb one another.       *)
EXTENDS AccessControl, TLC

MCValues == {"nobody", "admin", "dev", "new", "strong", "weak", "Active", "Deleted", "Asleep", "1", "2", "9", "x", "y"}
MCStrong(p) == p = "strong"
MCGrants == [r \in Roles |-> Actions]

Person(name) ==
  [user_name |-> name, email |-> name, password |-> "strong", status |-> "Active", department |-> "1", profile |-> "x"]
MCSeedUsers == [u \in Ids |-> CASE u = "u1" -> Person("admin") [] u = "u2" -> Person("dev") [] OTHER -> NoRow]
MCSeedRoles == [u \in Ids |-> CASE u = "u1" -> {"Admin"} [] u = "u2" -> {"Developer"} [] OTHER -> {}]

Ask(op, target, fields) == [op |-> op, target |-> target, fields |-> fields]
Plain(op)               == Ask(op, NoId, NoFields)
Patch(set)              == Ask("patch", "u2", [NoFields EXCEPT !.set = set @@ NoChange])
Make(row)               == Ask("create", NoId, [set |-> row, add |-> {"Developer"}, remove |-> {}])
LogIn(name, password)   ==
  Ask("login", NoId, [NoFields EXCEPT !.set = [email |-> name, password |-> password] @@ NoChange])

Promote == Ask("patch", "u2", [NoFields EXCEPT !.add = {"Admin"}, !.remove = {"Developer"}])
Demote  == Ask("patch", "u2", [NoFields EXCEPT !.add = {"Developer"}, !.remove = {"Admin"}])
Strip   == Ask("patch", "u2", [NoFields EXCEPT !.remove = Roles])
Myself  ==
  Ask("patch_my_user", NoId,
      [set |-> [status |-> "Deleted", email |-> "new", department |-> "2", profile |-> "x"] @@ NoChange,
       add |-> {"Admin"}, remove |-> {}])

\* Sign ins and guarded calls on the one task, changes of accounts on both.
MCRequests(c) ==
  {Demote} \cup
  IF c = "c1"
    THEN {LogIn("dev", "strong"), LogIn("dev", "weak"), LogIn("nobody", "weak"), Myself}
         \cup {Plain(op) : op \in {"refresh_token", "DeleteSchema", "unlisted", "get_my_user"}}
    ELSE {Promote, Strip, Patch([status |-> "Asleep"]), Patch([email |-> "admin"]), Patch([department |-> "9"]),
          Patch([password |-> "weak"]), Ask("delete", "u2", NoFields), Ask("get", "u3", NoFields),
          Make(Person("new")), Make(Person("admin")), Make([Person("new") EXCEPT !.department = "9"]),
          Make([Person("new") EXCEPT !.password = "weak"])}
=============================================================================
