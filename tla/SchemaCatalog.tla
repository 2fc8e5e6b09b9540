--------------------------- MODULE SchemaCatalog ---------------------------
(***************************************************************************)
(* What SchemaRepository promises its callers (core/ports.rs), with no     *)
(* transaction, lock or pool in sight: a table of schemas, each of one     *)
(* owner, on which every call takes effect at one instant between its      *)
(* arrival and its answer.                                                 *)
(*                                                                         *)
(* A schema of someone else reads as missing. A save is refused when       *)
(* another schema of the caller has the name in any case, and only then.   *)
(* A storage failure says nothing about whether the call took effect.      *)
(***************************************************************************)
CONSTANTS Clients, Owners, Names, Ids, Lower(_), NoRow, NotUuid, NoId, NoName, NoRequest

VARIABLES
  table,    \* the schemas, by id
  request,  \* the call each client waits on
  answer    \* what its last call returned

vars == <<table, request, answer>>

Request ==
  [op : {"create", "replace", "delete", "find"},
   owner : Owners, name : Names \cup {NoName}, id : Ids \cup {NotUuid, NoId}]

Init ==
  /\ table   = [i \in Ids |-> NoRow]
  /\ request = [c \in Clients |-> NoRequest]
  /\ answer  = [c \in Clients |-> "none"]

Mine(owner, i) == i \in Ids /\ table[i] # NoRow /\ table[i].owner = owner

NameFree(owner, name, except) ==
  \A i \in Ids \ {except} : Mine(owner, i) => Lower(table[i].name) # Lower(name)

Waiting(c, op) == request[c] # NoRequest /\ request[c].op = op

Reply(c, results) ==
  /\ request' = [request EXCEPT ![c] = NoRequest]
  /\ \E a \in results : answer' = [answer EXCEPT ![c] = a]

\* A call arrives.
Ask(c) ==
  /\ request[c] = NoRequest
  /\ \E r \in Request : request' = [request EXCEPT ![c] = r]
  /\ answer' = [answer EXCEPT ![c] = "none"]
  /\ UNCHANGED table

\* A call that is not well formed is turned away on arrival.
TurnAway(c) ==
  /\ request[c] = NoRequest
  /\ \E a \in {"invalid", "not_found"} : answer' = [answer EXCEPT ![c] = a]
  /\ UNCHANGED <<table, request>>

Create(c) ==
  /\ Waiting(c, "create")
  /\ NameFree(request[c].owner, request[c].name, NoId)
  /\ \E i \in Ids :
       /\ table[i] = NoRow
       /\ table' = [table EXCEPT ![i] = [owner |-> request[c].owner, name |-> request[c].name]]
  /\ Reply(c, {"ok", "storage"})

Replace(c) ==
  /\ Waiting(c, "replace")
  /\ Mine(request[c].owner, request[c].id)
  /\ NameFree(request[c].owner, request[c].name, request[c].id)
  /\ table' = [table EXCEPT ![request[c].id] =
                [owner |-> request[c].owner, name |-> request[c].name]]
  /\ Reply(c, {"ok", "storage"})

Delete(c) ==
  /\ Waiting(c, "delete")
  /\ Mine(request[c].owner, request[c].id)
  /\ table' = [table EXCEPT ![request[c].id] = NoRow]
  /\ Reply(c, {"ok", "storage"})

Find(c) ==
  /\ Waiting(c, "find")
  /\ Mine(request[c].owner, request[c].id)
  /\ Reply(c, {"ok"})
  /\ UNCHANGED table

Conflict(c) ==
  /\ Waiting(c, "create") \/ Waiting(c, "replace")
  /\ ~NameFree(request[c].owner, request[c].name, request[c].id)
  /\ Reply(c, {"conflict"})
  /\ UNCHANGED table

Missing(c) ==
  /\ Waiting(c, "replace") \/ Waiting(c, "delete") \/ Waiting(c, "find")
  /\ ~Mine(request[c].owner, request[c].id)
  /\ Reply(c, {"not_found"})
  /\ UNCHANGED table

Fail(c) ==
  /\ request[c] # NoRequest
  /\ Reply(c, {"storage"})
  /\ UNCHANGED table

Next ==
  \E c \in Clients :
    \/ Ask(c) \/ TurnAway(c)
    \/ Create(c) \/ Replace(c) \/ Delete(c) \/ Find(c)
    \/ Conflict(c) \/ Missing(c) \/ Fail(c)

Spec == Init /\ [][Next]_vars
=============================================================================
