---------------------------- MODULE SchemaStore ----------------------------
(***************************************************************************)
(* The schema store: SchemaServiceImpl (create, replace, delete,           *)
(* find_by_id) over PgSchemaRepository, as many callers use it at once.    *)
(*                                                                         *)
(* A call runs in an async task of its own and every await on the database *)
(* is a point where other tasks run, so there is one action per statement. *)
(* PostgreSQL runs the transactions at READ COMMITTED: a statement sees    *)
(* what was committed when it started, writes become visible at commit,    *)
(* an updated row stays locked until its transaction ends.                 *)
(*                                                                         *)
(* Of a draft only the name steers the control; description, entities and  *)
(* relationships are written and read as a whole with it.                  *)
(***************************************************************************)
EXTENDS Naturals, FiniteSets

CONSTANTS
  Clients,         \* tasks that serve calls; one call at a time each
  Owners,          \* the users calls are made for
  Names,           \* the schema names drafts carry
  BadNames,        \* those check_draft refuses (blank, or over 120 characters)
  Ids,             \* the UUIDs uuid_generate_v4 hands out
  Keys,            \* the values hashtext returns
  Lower(_),        \* LOWER(name)
  LockKey(_, _),   \* hashtext(owner || ':' || LOWER(name)); it may collide
  MaxConnections,  \* size of the sqlx pool
  MaxClock,        \* bound: the latest time NOW() returns
  Nobody,          \* no client, no owner
  NoRow,           \* no row under this id
  NotUuid,         \* an id that does not parse as a UUID
  NoId,            \* no id: the call names none, or none was drawn yet
  NoName,          \* no name: the call carries no draft
  NoRequest        \* no call is being served

\* A row of schemaforge.schemas.
Row == [name : Names, created : Nat, updated : Nat]

ASSUME ConstantsAssumption ==
  /\ BadNames \subseteq Names
  /\ MaxConnections \in Nat \ {0}
  /\ MaxClock \in Nat
  /\ Nobody \notin Clients \cup Owners
  /\ {NotUuid, NoId} \cap Ids = {}
  /\ NotUuid # NoId
  /\ NoName \notin Names
  /\ NoRow \notin Row \cup [owner : Owners, name : Names]
  /\ NoRow \notin Nat

ASSUME LockKeyAssumption ==
  \A o \in Owners, n \in Names : LockKey(o, Lower(n)) \in Keys

VARIABLES
  schemas,   \* schemaforge.schemas, the committed rows
  links,     \* schemaforge.user_schemas, the committed owner of each schema
  drawn,     \* the UUIDs handed out so far
  clock,     \* the latest time a transaction read from NOW()
  pc,        \* where each client's call stands
  req,       \* the call it serves
  stamp,     \* NOW() of its transaction, fixed at BEGIN
  newId,     \* the id of the row it inserted
  advisory,  \* who holds pg_advisory_xact_lock on each key
  rowLock,   \* who holds the row lock of each schema
  answer     \* what its last call returned

tables == <<schemas, links>>
locks  == <<advisory, rowLock>>
vars   == <<schemas, links, drawn, clock, pc, req, stamp, newId, advisory, rowLock, answer>>

Saves == {"create", "replace"}

\* What a caller can ask. Only the two saves carry a draft, only create no id.
Request ==
  [op : {"create", "replace", "delete", "find"},
   owner : Owners, name : Names \cup {NoName}, id : Ids \cup {NotUuid, NoId}]

ASSUME NoRequestAssumption == \A r \in Request : r # NoRequest

Answers == {"none", "ok", "invalid", "not_found", "conflict", "storage"}

\* Steps during which a call holds a connection of the pool.
OnConnection ==
  {"begun", "locked", "reserved", "inserted", "linked", "updated", "deleting"}

\* Steps of a transaction that holds the advisory lock of its name.
HoldsName == {"locked", "reserved", "inserted", "linked", "updated"}

\* Steps after reserve_name found the name free.
NameChecked == {"reserved", "inserted", "linked", "updated"}

Init ==
  /\ schemas  = [i \in Ids |-> NoRow]
  /\ links    = [i \in Ids |-> Nobody]
  /\ drawn    = {}
  /\ clock    = 0
  /\ pc       = [c \in Clients |-> "idle"]
  /\ req      = [c \in Clients |-> NoRequest]
  /\ stamp    = [c \in Clients |-> 0]
  /\ newId    = [c \in Clients |-> NoId]
  /\ advisory = [k \in Keys |-> Nobody]
  /\ rowLock  = [i \in Ids |-> Nobody]
  /\ answer   = [c \in Clients |-> "none"]

-----------------------------------------------------------------------------
(* What the steps are made of.                                             *)

Goto(c, step) == pc' = [pc EXCEPT ![c] = step]

\* Mutant: the lock tells two spellings of one name apart.
NameKeyExact(c) == LockKey(req[c].owner, req[c].name)

NameKey(c) == LockKey(req[c].owner, Lower(req[c].name))

PoolHasRoom == Cardinality({c \in Clients : pc[c] \in OnConnection}) < MaxConnections

\* Mutant: the check does not leave out the schema being replaced.
TakenByAnyRow(owner, name, except) ==
  \E i \in Ids : links[i] = owner /\ Lower(schemas[i].name) = Lower(name)

\* The EXISTS of reserve_name: another schema of this owner has the name.
Taken(owner, name, except) ==
  \E i \in Ids : /\ i # except
                 /\ links[i] = owner
                 /\ Lower(schemas[i].name) = Lower(name)

\* Mutant: a session lock, which COMMIT and ROLLBACK do not release.
FinishKeepingName(c, result) ==
  /\ Goto(c, "idle")
  /\ answer'   = [answer EXCEPT ![c] = result]
  /\ rowLock'  = [i \in Ids |-> IF rowLock[i] = c THEN Nobody ELSE rowLock[i]]
  /\ req'      = [req EXCEPT ![c] = NoRequest]
  /\ stamp'    = [stamp EXCEPT ![c] = 0]
  /\ newId'    = [newId EXCEPT ![c] = NoId]
  /\ UNCHANGED <<drawn, clock, advisory>>

\* The end of a transaction, committed or rolled back: PostgreSQL drops its
\* locks, the connection goes back to the pool and the caller has an answer.
Finish(c, result) ==
  /\ Goto(c, "idle")
  /\ answer'   = [answer EXCEPT ![c] = result]
  /\ advisory' = [k \in Keys |-> IF advisory[k] = c THEN Nobody ELSE advisory[k]]
  /\ rowLock'  = [i \in Ids |-> IF rowLock[i] = c THEN Nobody ELSE rowLock[i]]
  /\ req'      = [req EXCEPT ![c] = NoRequest]
  /\ stamp'    = [stamp EXCEPT ![c] = 0]
  /\ newId'    = [newId EXCEPT ![c] = NoId]
  /\ UNCHANGED <<drawn, clock>>

\* An id a caller can know: it was drawn, and no open transaction still hides it.
Known == drawn \ {newId[c] : c \in Clients}

\* Bound: creates are accepted while an id is left for each of them.
IdsLeft ==
  Cardinality({c \in Clients : pc[c] # "idle" /\ req[c].op = "create" /\ newId[c] = NoId})
    < Cardinality(Ids \ drawn)

-----------------------------------------------------------------------------
(* A call arrives. The draft and the id are checked before the database is *)
(* asked anything, so both refusals leave no trace.                        *)

\* check_draft refuses the name.
RefuseDraft(c) ==
  /\ pc[c] = "idle"
  /\ BadNames # {}
  /\ answer' = [answer EXCEPT ![c] = "invalid"]
  /\ UNCHANGED <<schemas, links, drawn, clock, pc, req, stamp, newId, advisory, rowLock>>

\* parse_id refuses the id: it cannot name a row, so it reads as missing.
RefuseId(c) ==
  /\ pc[c] = "idle"
  /\ answer' = [answer EXCEPT ![c] = "not_found"]
  /\ UNCHANGED <<schemas, links, drawn, clock, pc, req, stamp, newId, advisory, rowLock>>

\* The call is well formed and asks the pool for a connection.
Accept(c, r) ==
  /\ pc[c] = "idle"
  /\ r.op = "create" => IdsLeft
  /\ Goto(c, "acquire")
  /\ req'    = [req EXCEPT ![c] = r]
  /\ answer' = [answer EXCEPT ![c] = "none"]
  /\ UNCHANGED <<schemas, links, drawn, clock, stamp, newId, advisory, rowLock>>

AcceptCreate(c) ==
  \E o \in Owners, n \in Names \ BadNames :
    Accept(c, [op |-> "create", owner |-> o, name |-> n, id |-> NoId])

AcceptReplace(c) ==
  \E o \in Owners, n \in Names \ BadNames, i \in Known :
    Accept(c, [op |-> "replace", owner |-> o, name |-> n, id |-> i])

AcceptDelete(c) ==
  \E o \in Owners, i \in Known :
    Accept(c, [op |-> "delete", owner |-> o, name |-> NoName, id |-> i])

AcceptFind(c) ==
  \E o \in Owners, i \in Known :
    Accept(c, [op |-> "find", owner |-> o, name |-> NoName, id |-> i])

\* acquire_timeout passed while every connection was in use.
AcquireTimeout(c) ==
  /\ pc[c] = "acquire"
  /\ ~PoolHasRoom
  /\ Finish(c, "storage")
  /\ UNCHANGED tables

-----------------------------------------------------------------------------
(* create and replace: BEGIN, reserve_name, the writes, COMMIT.            *)

\* Mutant: the transaction is stamped one tick early.
BeginStampedEarly(c) ==
  /\ pc[c] = "acquire"
  /\ req[c].op \in Saves
  /\ PoolHasRoom
  /\ Goto(c, "begun")
  /\ \E now \in {clock, clock + 1} : /\ now <= MaxClock
                                   /\ clock' = now
                                   /\ stamp' = [stamp EXCEPT ![c] = now - 1]
  /\ UNCHANGED <<schemas, links, drawn, req, newId, advisory, rowLock, answer>>

\* NOW() is the time the transaction starts, for all its statements. Two
\* transactions can start within one tick of it.
Begin(c) ==
  /\ pc[c] = "acquire"
  /\ req[c].op \in Saves
  /\ PoolHasRoom
  /\ Goto(c, "begun")
  /\ \E now \in {clock, clock + 1} : /\ now <= MaxClock
                                   /\ clock' = now
                                   /\ stamp' = [stamp EXCEPT ![c] = now]
  /\ UNCHANGED <<schemas, links, drawn, req, newId, advisory, rowLock, answer>>

\* Mutant: replace locks the row first and the name second.
LockNameAfterRow(c) ==
  /\ pc[c] = "begun"
  /\ \/ /\ req[c].op = "replace"
        /\ rowLock[req[c].id] = Nobody
        /\ rowLock' = [rowLock EXCEPT ![req[c].id] = c]
        /\ UNCHANGED <<advisory, pc>>
     \/ /\ advisory[NameKey(c)] = Nobody
        /\ advisory' = [advisory EXCEPT ![NameKey(c)] = c]
        /\ Goto(c, "locked")
        /\ UNCHANGED rowLock
  /\ UNCHANGED <<schemas, links, drawn, clock, req, stamp, newId, answer>>

\* pg_advisory_xact_lock: waits while another transaction holds the key.
LockName(c) ==
  /\ pc[c] = "begun"
  /\ advisory[NameKey(c)] = Nobody
  /\ advisory' = [advisory EXCEPT ![NameKey(c)] = c]
  /\ Goto(c, "locked")
  /\ UNCHANGED <<schemas, links, drawn, clock, req, stamp, newId, rowLock, answer>>

\* The EXISTS check of reserve_name, a statement with a snapshot of its own.
CheckName(c) ==
  /\ pc[c] = "locked"
  /\ IF Taken(req[c].owner, req[c].name, req[c].id)
       THEN Finish(c, "conflict")
       ELSE /\ Goto(c, "reserved")
            /\ UNCHANGED <<drawn, clock, req, stamp, newId, advisory, rowLock, answer>>
  /\ UNCHANGED tables

\* Mutant: the first INSERT runs outside the transaction.
InsertSchemaAtOnce(c) ==
  /\ pc[c] = "reserved"
  /\ req[c].op = "create"
  /\ \E i \in Ids \ drawn :
       /\ drawn'   = drawn \cup {i}
       /\ newId'   = [newId EXCEPT ![c] = i]
       /\ schemas' = [schemas EXCEPT ![i] =
                       [name |-> req[c].name, created |-> stamp[c], updated |-> stamp[c]]]
  /\ Goto(c, "inserted")
  /\ UNCHANGED <<links, clock, req, stamp, advisory, rowLock, answer>>

\* create: INSERT INTO schemas, which draws the id.
InsertSchema(c) ==
  /\ pc[c] = "reserved"
  /\ req[c].op = "create"
  /\ \E i \in Ids \ drawn : /\ drawn' = drawn \cup {i}
                            /\ newId' = [newId EXCEPT ![c] = i]
  /\ Goto(c, "inserted")
  /\ UNCHANGED <<schemas, links, clock, req, stamp, advisory, rowLock, answer>>

\* create: INSERT INTO user_schemas, still inside the transaction.
InsertLink(c) ==
  /\ pc[c] = "inserted"
  /\ Goto(c, "linked")
  /\ UNCHANGED <<schemas, links, drawn, clock, req, stamp, newId, advisory, rowLock, answer>>

\* Mutant: the UPDATE asks for the id alone.
UpdateSchemaOfAnyone(c) ==
  /\ pc[c] = "reserved"
  /\ req[c].op = "replace"
  /\ IF links[req[c].id] # Nobody
       THEN /\ rowLock[req[c].id] = Nobody
            /\ rowLock' = [rowLock EXCEPT ![req[c].id] = c]
            /\ Goto(c, "updated")
            /\ UNCHANGED <<drawn, clock, req, stamp, newId, advisory, answer>>
       ELSE Finish(c, "not_found")
  /\ UNCHANGED tables

\* replace: UPDATE ... WHERE us.user_id = owner. It waits for the row while
\* another transaction holds it, and finds nothing when the row is gone or
\* someone else's.
UpdateSchema(c) ==
  /\ pc[c] = "reserved"
  /\ req[c].op = "replace"
  /\ IF links[req[c].id] = req[c].owner
       THEN /\ rowLock[req[c].id] = Nobody
            /\ rowLock' = [rowLock EXCEPT ![req[c].id] = c]
            /\ Goto(c, "updated")
            /\ UNCHANGED <<drawn, clock, req, stamp, newId, advisory, answer>>
       ELSE Finish(c, "not_found")
  /\ UNCHANGED tables

\* COMMIT: the writes become visible and the locks go at once. When the
\* answer to COMMIT is lost the caller is told of a failure all the same.
CommitCreate(c) ==
  /\ pc[c] = "linked"
  /\ schemas' = [schemas EXCEPT ![newId[c]] =
                   [name |-> req[c].name, created |-> stamp[c], updated |-> stamp[c]]]
  /\ links'   = [links EXCEPT ![newId[c]] = req[c].owner]
  /\ \E result \in {"ok", "storage"} : Finish(c, result)

\* Mutant: the UPDATE sets created_at in place of updated_at.
CommitReplaceOfCreated(c) ==
  /\ pc[c] = "updated"
  /\ schemas' = [schemas EXCEPT ![req[c].id] =
                   [name |-> req[c].name, created |-> stamp[c], updated |-> @.updated]]
  /\ \E result \in {"ok", "storage"} : Finish(c, result)
  /\ UNCHANGED links

CommitReplace(c) ==
  /\ pc[c] = "updated"
  /\ schemas' = [schemas EXCEPT ![req[c].id] =
                   [name |-> req[c].name, created |-> @.created, updated |-> stamp[c]]]
  /\ \E result \in {"ok", "storage"} : Finish(c, result)
  /\ UNCHANGED links

\* A statement fails, or the task is dropped with its caller: sqlx rolls back.
Rollback(c) ==
  /\ pc[c] \in OnConnection
  /\ Finish(c, "storage")
  /\ UNCHANGED tables

-----------------------------------------------------------------------------
(* delete and find_by_id: one statement each, on a connection of its own.  *)

StartDelete(c) ==
  /\ pc[c] = "acquire"
  /\ req[c].op = "delete"
  /\ PoolHasRoom
  /\ Goto(c, "deleting")
  /\ UNCHANGED <<schemas, links, drawn, clock, req, stamp, newId, advisory, rowLock, answer>>

\* DELETE FROM schemas, which cascades to user_schemas. Like UPDATE it waits
\* for the row, and like COMMIT its answer can be lost.
DeleteSchema(c) ==
  /\ pc[c] = "deleting"
  /\ IF links[req[c].id] = req[c].owner
       THEN /\ rowLock[req[c].id] = Nobody
            /\ schemas' = [schemas EXCEPT ![req[c].id] = NoRow]
            /\ links'   = [links EXCEPT ![req[c].id] = Nobody]
            /\ \E result \in {"ok", "storage"} : Finish(c, result)
       ELSE /\ Finish(c, "not_found")
            /\ UNCHANGED tables

\* The SELECT or the reading of its row may fail.
FindSchema(c) ==
  /\ pc[c] = "acquire"
  /\ req[c].op = "find"
  /\ PoolHasRoom
  /\ \/ Finish(c, IF links[req[c].id] = req[c].owner THEN "ok" ELSE "not_found")
     \/ Finish(c, "storage")
  /\ UNCHANGED tables

-----------------------------------------------------------------------------

\* The steps of an accepted call that nobody else can hold up ...
Advance(c) ==
  \/ Begin(c) \/ StartDelete(c) \/ FindSchema(c) \/ AcquireTimeout(c)
  \/ CheckName(c) \/ InsertSchema(c) \/ InsertLink(c)
  \/ CommitCreate(c) \/ CommitReplace(c)

\* ... and those that may have to wait for a lock.
Contend(c) == LockName(c) \/ UpdateSchema(c) \/ DeleteSchema(c)

Arrive(c) ==
  \/ RefuseDraft(c) \/ RefuseId(c)
  \/ AcceptCreate(c) \/ AcceptReplace(c) \/ AcceptDelete(c) \/ AcceptFind(c)

Next == \E c \in Clients : Arrive(c) \/ Advance(c) \/ Contend(c) \/ Rollback(c)

Spec == Init /\ [][Next]_vars

\* The tasks are polled while they can run. PostgreSQL grants advisory and
\* row locks to waiters in the order they came, so a lock that keeps coming
\* free is granted in the end; the pool answers within acquire_timeout.
\* Nothing makes a call arrive, and nothing makes a statement fail.
Fairness == \A c \in Clients : WF_vars(Advance(c)) /\ SF_vars(Contend(c))

FairSpec == Spec /\ Fairness

-----------------------------------------------------------------------------
(* Properties.                                                             *)

TypeOK ==
  /\ schemas  \in [Ids -> Row \cup {NoRow}]
  /\ links    \in [Ids -> Owners \cup {Nobody}]
  /\ drawn    \subseteq Ids
  /\ clock    \in Nat
  /\ pc       \in [Clients -> OnConnection \cup {"idle", "acquire"}]
  /\ req      \in [Clients -> Request \cup {NoRequest}]
  /\ stamp    \in [Clients -> Nat]
  /\ newId    \in [Clients -> Ids \cup {NoId}]
  /\ advisory \in [Keys -> Clients \cup {Nobody}]
  /\ rowLock  \in [Ids -> Clients \cup {Nobody}]
  /\ answer   \in [Clients -> Answers]

\* No owner has two schemas whose names differ at most in case. No index
\* says so: it rests on the advisory lock and the check in reserve_name,
\* whatever keys hashtext collides on.
UniqueNames ==
  \A i, j \in Ids :
    /\ links[i] # Nobody /\ links[i] = links[j]
    /\ Lower(schemas[i].name) = Lower(schemas[j].name)
    => i = j

\* create writes two tables and delete cascades from one to the other: a
\* stored schema has an owner and an owner's link leads to a stored schema,
\* wherever a transaction stopped.
NoOrphans == \A i \in Ids : schemas[i] = NoRow <=> links[i] = Nobody

\* c waits for d: for the lock on its name, or for the row d has updated.
WaitsFor(c, d) ==
  \/ pc[c] = "begun" /\ advisory[NameKey(c)] = d
  \/ /\ \/ pc[c] = "reserved" /\ req[c].op = "replace"
        \/ pc[c] = "deleting"
     /\ links[req[c].id] = req[c].owner
     /\ rowLock[req[c].id] = d

\* Calls never wait for one another in a circle. Every transaction takes the
\* lock on its name before it touches a row, so each group of calls has one
\* that waits for none of the group.
NoWaitCycle ==
  \A group \in (SUBSET Clients) \ {{}} :
    \E c \in group : \A d \in group : ~WaitsFor(c, d)

\* A stored schema is only ever changed or removed by a call made for its
\* owner, although the owner is checked in the WHERE of one statement and
\* the change is committed by a later one.
OnlyOwnerTouches ==
  [][\A i \in Ids :
       schemas[i] # NoRow /\ (schemas'[i] # schemas[i] \/ links'[i] # links[i])
       => \E c \in Clients : /\ pc[c] # "idle" /\ pc'[c] = "idle"
                             /\ req[c].id = i /\ req[c].owner = links[i]]_vars

\* A schema is never dated to have changed before it was made, although each
\* transaction is dated when it starts and not when it commits: a caller can
\* only name a schema whose creation was committed, so its own transaction
\* starts later.
UpdatedAfterCreated ==
  \A i \in Ids : schemas[i] # NoRow => schemas[i].created <= schemas[i].updated

\* Every accepted call ends, also when calls contend for a name, for a row
\* or for the last connection of the pool.
EveryCallEnds == \A c \in Clients : pc[c] # "idle" ~> pc[c] = "idle"

-----------------------------------------------------------------------------
(* Why the properties hold: what a call knows at each of its steps.        *)

\* The call in progress is what arrived, and each step belongs to its kind.
CallShape ==
  \A c \in Clients :
    IF pc[c] = "idle" THEN req[c] = NoRequest ELSE
      /\ req[c] \in Request
      /\ pc[c] \in HoldsName \cup {"begun"} => req[c].op \in Saves
      /\ pc[c] \in {"inserted", "linked"} => req[c].op = "create"
      /\ pc[c] = "updated" => req[c].op = "replace"
      /\ pc[c] = "deleting" => req[c].op = "delete"
      /\ req[c].op \in Saves => req[c].name \in Names
      /\ IF req[c].op = "create" THEN req[c].id = NoId ELSE req[c].id \in Ids

\* Past LockName a transaction holds the lock on its name until it ends.
NameLocked == \A c \in Clients : pc[c] \in HoldsName => advisory[NameKey(c)] = c

\* Whoever holds an advisory lock is past LockName.
NameLockHeld == \A k \in Keys : advisory[k] # Nobody => pc[advisory[k]] \in HoldsName

\* A transaction that updated a row holds it, and its owner keeps it stored.
RowLocked ==
  \A c \in Clients :
    pc[c] = "updated" => /\ rowLock[req[c].id] = c
                         /\ links[req[c].id] = req[c].owner

\* Whoever holds a row lock has updated the row and only has to commit.
RowLockHeld == \A i \in Ids : rowLock[i] # Nobody => pc[rowLock[i]] = "updated"

\* An inserted row is nobody's until its transaction commits.
FreshIds ==
  /\ \A i \in Ids : links[i] # Nobody => i \in drawn
  /\ \A c \in Clients :
       IF pc[c] \in {"inserted", "linked"}
         THEN newId[c] \in drawn /\ links[newId[c]] = Nobody
         ELSE newId[c] = NoId
  /\ \A c, d \in Clients : c # d /\ newId[c] # NoId => newId[c] # newId[d]

\* A name found free stays free: who could take it waits for the lock.
StillFree ==
  \A c \in Clients :
    pc[c] \in NameChecked => ~Taken(req[c].owner, req[c].name, req[c].id)

\* A call for a schema names one whose creation was committed ...
NamesCommitted ==
  \A c, d \in Clients :
    pc[c] # "idle" /\ req[c].op # "create" => req[c].id \in drawn /\ req[c].id # newId[d]

\* ... so its transaction started no earlier than the one that made it.
StartedLater ==
  /\ \A c \in Clients : stamp[c] <= clock
  /\ \A i \in Ids : schemas[i] # NoRow => schemas[i].created <= clock
  /\ \A c \in Clients :
       /\ pc[c] \in HoldsName \cup {"begun"} /\ req[c].op = "replace"
       /\ schemas[req[c].id] # NoRow
       => schemas[req[c].id].created <= stamp[c]

TimeInv == NamesCommitted /\ StartedLater /\ UpdatedAfterCreated

StoreInv ==
  /\ TypeOK /\ CallShape
  /\ NameLocked /\ NameLockHeld /\ RowLocked /\ RowLockHeld
  /\ FreshIds /\ StillFree /\ NoOrphans /\ UniqueNames

-----------------------------------------------------------------------------
(* The store seen from outside: the committed rows joined with their       *)
(* owners, and the calls.                                                  *)

Table ==
  [i \in Ids |-> IF links[i] = Nobody
                 THEN NoRow
                 ELSE [owner |-> links[i], name |-> schemas[i].name]]

Catalog == INSTANCE SchemaCatalog WITH table <- Table, request <- req

\* The statements of concurrent transactions add up to calls that take effect
\* one at a time: a conflict answers to a name that was taken, a save that
\* succeeds found its name still free at the moment it was committed, and a
\* refused or missing call changed nothing.
ImplementsCatalog == Catalog!Spec

\* What the listing of owner o can show, and the creates about to add to it.
\* The code sorts by the date of the link, which create writes with the date
\* of the schema and nothing changes after that; the schema's own stands for
\* it.
Listed(o) == [i \in Ids |-> IF links[i] = o THEN schemas[i].created ELSE NoRow]

OpenCreates(o) ==
  [c \in Clients |-> IF /\ pc[c] \in HoldsName \cup {"begun"}
                        /\ req[c].op = "create" /\ req[c].owner = o
                     THEN stamp[c] ELSE NoRow]

Listing(o) == INSTANCE SchemaListing
                WITH listed <- Listed(o), open <- OpenCreates(o), NoTime <- NoRow

\* The store is what SchemaPaging takes it to be, for every owner: rows appear
\* under the time their transaction started, and replace never moves a row.
ImplementsListing ==
  /\ \A o \in Owners : Listing(o)!StoreInit
  /\ [][\A o \in Owners : Listing(o)!StoreNext \/ UNCHANGED Listing(o)!storeVars]_vars
=============================================================================
