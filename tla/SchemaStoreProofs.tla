------------------------- MODULE SchemaStoreProofs -------------------------
(***************************************************************************)
(* The schema store keeps its promises for every number of clients, owners *)
(* and names, every pool size and every hash function: the inductive       *)
(* invariant StoreInv is preserved by each action.                         *)
(***************************************************************************)
EXTENDS SchemaStore, TLAPS

\* The steps of a call, as the provers need to see them.
USE DEF OnConnection, HoldsName, NameChecked, Saves

\* The part of the state that the end of a transaction puts in order.
LEMMA FinishTypes ==
  ASSUME TypeOK, NEW c \in Clients, NEW result \in Answers, Finish(c, result)
  PROVE  /\ drawn' \subseteq Ids /\ clock' \in Nat
         /\ pc' \in [Clients -> OnConnection \cup {"idle", "acquire"}]
         /\ req' \in [Clients -> Request \cup {NoRequest}]
         /\ stamp' \in [Clients -> Nat]
         /\ newId' \in [Clients -> Ids \cup {NoId}]
         /\ advisory' \in [Keys -> Clients \cup {Nobody}]
         /\ rowLock' \in [Ids -> Clients \cup {Nobody}]
         /\ answer' \in [Clients -> Answers]
  BY DEF TypeOK, Finish, Goto

\* What other calls hold is not touched when a call ends.
LEMMA FinishLocks ==
  ASSUME TypeOK, CallShape, NameLocked, NameLockHeld, RowLockHeld,
         NEW c \in Clients, NEW result \in Answers, Finish(c, result)
  PROVE  CallShape' /\ NameLocked' /\ NameLockHeld' /\ RowLockHeld'
<1>1. CallShape'
  BY DEF TypeOK, CallShape, Finish, Goto
<1>2. NameLocked'
  <2> SUFFICES ASSUME NEW d \in Clients, pc'[d] \in HoldsName
               PROVE  advisory'[NameKey(d)'] = d
    BY DEF NameLocked
  <2>1. d # c /\ pc[d] = pc'[d] /\ req'[d] = req[d]
    BY DEF TypeOK, Finish, Goto
  <2>2. NameKey(d)' = NameKey(d)
    BY <2>1 DEF NameKey
  <2>3. NameKey(d) \in Keys
    BY <2>1, LockKeyAssumption DEF NameKey, CallShape, Request
  <2>4. advisory[NameKey(d)] = d
    BY <2>1 DEF NameLocked
  <2> QED BY <2>1, <2>2, <2>3, <2>4 DEF Finish
<1>3. NameLockHeld'
  BY ConstantsAssumption DEF TypeOK, NameLockHeld, Finish, Goto
<1>4. RowLockHeld'
  BY ConstantsAssumption DEF TypeOK, RowLockHeld, Finish, Goto
<1> QED BY <1>1, <1>2, <1>3, <1>4

\* A call that ends without writing: refused, missing, failed or only read.
LEMMA FinishKeepsInv ==
  ASSUME StoreInv, NEW c \in Clients, NEW result \in Answers, Finish(c, result), UNCHANGED tables
  PROVE  StoreInv'
<1>1. TypeOK'
  BY FinishTypes DEF StoreInv, TypeOK, tables
<1>2. CallShape' /\ NameLocked' /\ NameLockHeld' /\ RowLockHeld'
  BY FinishLocks DEF StoreInv
<1>3. RowLocked'
  BY DEF StoreInv, TypeOK, CallShape, RowLocked, Finish, Goto, tables
<1>4. FreshIds'
  BY DEF StoreInv, TypeOK, FreshIds, Finish, Goto, tables
<1>5. StillFree'
  BY DEF StoreInv, TypeOK, StillFree, Taken, Finish, Goto, tables
<1>6. NoOrphans' /\ UniqueNames'
  BY DEF StoreInv, NoOrphans, UniqueNames, tables
<1> QED BY <1>1, <1>2, <1>3, <1>4, <1>5, <1>6 DEF StoreInv

-----------------------------------------------------------------------------
(* The steps that write nothing anyone else can see.                       *)

\* A call that arrives is well formed, and holds nothing yet.
LEMMA ArriveKeepsInv ==
  ASSUME StoreInv, NEW c \in Clients, Arrive(c)
  PROVE  StoreInv'
<1>1. CASE RefuseDraft(c) \/ RefuseId(c)
  BY <1>1 DEF RefuseDraft, RefuseId, StoreInv, TypeOK, Answers, CallShape, NameLocked,
     NameLockHeld, RowLocked, RowLockHeld, FreshIds, StillFree, Taken, NoOrphans,
     UniqueNames, NameKey
<1>2. ASSUME NEW r \in Request, Accept(c, r),
             r.op \in Saves => r.name \in Names,
             IF r.op = "create" THEN r.id = NoId ELSE r.id \in Ids
      PROVE  StoreInv'
  <2>1. TypeOK' /\ CallShape'
    BY <1>2 DEF Accept, Goto, StoreInv, TypeOK, CallShape, Answers
  <2>2. \A d \in Clients : pc'[d] \in OnConnection =>
          pc'[d] = pc[d] /\ req'[d] = req[d]
    BY <1>2 DEF Accept, Goto, StoreInv, TypeOK
  <2>3. NameLocked' /\ StillFree' /\ RowLocked'
    BY <1>2, <2>2 DEF Accept, StoreInv, NameLocked, StillFree, RowLocked, Taken, NameKey
  <2>4. NameLockHeld' /\ RowLockHeld'
    BY <1>2 DEF Accept, Goto, StoreInv, TypeOK, NameLockHeld, RowLockHeld
  <2>5. FreshIds' /\ NoOrphans' /\ UniqueNames'
    BY <1>2 DEF Accept, Goto, StoreInv, TypeOK, FreshIds, NoOrphans, UniqueNames
  <2> QED BY <2>1, <2>3, <2>4, <2>5 DEF StoreInv
<1>3. Known \subseteq Ids
  BY DEF Known, StoreInv, TypeOK
<1>4. CASE AcceptCreate(c)
  BY <1>2, <1>4 DEF AcceptCreate, Request
<1>5. CASE AcceptReplace(c)
  BY <1>2, <1>3, <1>5 DEF AcceptReplace, Request
<1>6. CASE AcceptDelete(c)
  BY <1>2, <1>3, <1>6 DEF AcceptDelete, Request
<1>7. CASE AcceptFind(c)
  BY <1>2, <1>3, <1>7 DEF AcceptFind, Request
<1> QED BY <1>1, <1>4, <1>5, <1>6, <1>7 DEF Arrive

\* BEGIN, and the start of a delete: a connection, and no lock yet.
LEMMA StartKeepsInv ==
  ASSUME StoreInv, NEW c \in Clients, Begin(c) \/ StartDelete(c)
  PROVE  StoreInv'
<1>1. TypeOK' /\ CallShape'
  BY DEF Begin, StartDelete, Goto, StoreInv, TypeOK, CallShape
<1>2. \A d \in Clients : pc'[d] \in HoldsName => pc'[d] = pc[d]
  BY DEF Begin, StartDelete, Goto, StoreInv, TypeOK
<1>3. UNCHANGED <<schemas, links, drawn, req, newId, advisory, rowLock>>
  BY DEF Begin, StartDelete
<1>4. NameLocked' /\ RowLocked' /\ StillFree'
  BY <1>2, <1>3 DEF StoreInv, NameLocked, RowLocked, StillFree, Taken, NameKey
<1>5. NameLockHeld' /\ RowLockHeld' /\ FreshIds'
  BY DEF Begin, StartDelete, Goto, StoreInv, TypeOK, NameLockHeld, RowLockHeld, FreshIds
<1>6. NoOrphans' /\ UniqueNames'
  BY <1>3 DEF StoreInv, NoOrphans, UniqueNames
<1> QED BY <1>1, <1>4, <1>5, <1>6 DEF StoreInv

\* The advisory lock goes to a transaction only while nobody has it.
LEMMA LockNameKeepsInv ==
  ASSUME StoreInv, NEW c \in Clients, LockName(c)
  PROVE  StoreInv'
<1>1. NameKey(c) \in Keys
  BY LockKeyAssumption DEF LockName, NameKey, StoreInv, CallShape, Request
<1>2. TypeOK' /\ CallShape'
  BY <1>1 DEF LockName, Goto, StoreInv, TypeOK, CallShape
<1>3. NameLocked'
  <2> SUFFICES ASSUME NEW d \in Clients, pc'[d] \in HoldsName
               PROVE  advisory'[NameKey(d)'] = d
    BY DEF NameLocked
  <2>1. NameKey(d)' = NameKey(d)
    BY DEF LockName, NameKey
  <2>2. CASE d = c
    BY <1>1, <2>1, <2>2 DEF LockName, StoreInv, TypeOK
  <2>3. CASE d # c
    <3>1. pc[d] \in HoldsName
      BY <2>3 DEF LockName, Goto, StoreInv, TypeOK
    <3>2. advisory[NameKey(d)] = d
      BY <3>1 DEF StoreInv, NameLocked
    <3>3. NameKey(d) # NameKey(c)
      BY <3>2, ConstantsAssumption DEF LockName
    <3> QED BY <2>1, <3>2, <3>3 DEF LockName, StoreInv, TypeOK
  <2> QED BY <2>2, <2>3
<1>4. NameLockHeld' /\ RowLockHeld'
  BY <1>1, ConstantsAssumption DEF LockName, Goto, StoreInv, TypeOK, NameLockHeld, RowLockHeld
<1>5. RowLocked' /\ FreshIds' /\ StillFree' /\ NoOrphans' /\ UniqueNames'
  BY DEF LockName, Goto, StoreInv, TypeOK, RowLocked, FreshIds, StillFree, Taken, NoOrphans,
         UniqueNames
<1> QED BY <1>2, <1>3, <1>4, <1>5 DEF StoreInv

\* A name found free is remembered as free.
LEMMA CheckNameKeepsInv ==
  ASSUME StoreInv, NEW c \in Clients, CheckName(c)
  PROVE  StoreInv'
<1>1. CASE Taken(req[c].owner, req[c].name, req[c].id)
  BY <1>1, FinishKeepsInv DEF CheckName, Answers
<1>2. CASE ~Taken(req[c].owner, req[c].name, req[c].id)
  <2>1. /\ pc[c] = "locked" /\ Goto(c, "reserved")
        /\ UNCHANGED <<schemas, links, drawn, clock, req, stamp, newId, advisory, rowLock, answer>>
    BY <1>2 DEF CheckName, tables
  <2>2. TypeOK' /\ CallShape'
    BY <2>1 DEF Goto, StoreInv, TypeOK, CallShape
  <2>3. NameLocked' /\ NameLockHeld'
    BY <2>1, ConstantsAssumption DEF Goto, StoreInv, TypeOK, NameLocked, NameLockHeld, NameKey
  <2>4. RowLocked' /\ RowLockHeld' /\ FreshIds' /\ NoOrphans' /\ UniqueNames'
    BY <2>1 DEF Goto, StoreInv, TypeOK, RowLocked, RowLockHeld, FreshIds, NoOrphans, UniqueNames
  <2>5. StillFree'
    BY <1>2, <2>1 DEF Goto, StoreInv, TypeOK, StillFree, Taken
  <2> QED BY <2>2, <2>3, <2>4, <2>5 DEF StoreInv
<1> QED BY <1>1, <1>2

\* The id an INSERT draws was never drawn before, so no link leads to it.
LEMMA InsertKeepsInv ==
  ASSUME StoreInv, NEW c \in Clients, InsertSchema(c) \/ InsertLink(c)
  PROVE  StoreInv'
<1>1. TypeOK' /\ CallShape'
  BY DEF InsertSchema, InsertLink, Goto, StoreInv, TypeOK, CallShape
<1>2. NameLocked' /\ NameLockHeld'
  BY ConstantsAssumption
  DEF InsertSchema, InsertLink, Goto, StoreInv, TypeOK, NameLocked, NameLockHeld, NameKey
<1>3. RowLocked' /\ RowLockHeld' /\ NoOrphans' /\ UniqueNames' /\ StillFree'
  BY DEF InsertSchema, InsertLink, Goto, StoreInv, TypeOK, RowLocked, RowLockHeld, NoOrphans,
         UniqueNames, StillFree, Taken
<1>4. FreshIds'
  <2>1. CASE InsertSchema(c)
    <3>1. PICK i \in Ids \ drawn : drawn' = drawn \cup {i} /\ newId' = [newId EXCEPT ![c] = i]
      BY <2>1 DEF InsertSchema
    <3>2. \A d \in Clients : newId[d] # i
      BY <3>1, ConstantsAssumption DEF StoreInv, FreshIds
    <3>3. links[i] = Nobody
      BY <3>1 DEF StoreInv, FreshIds
    <3> QED BY <2>1, <3>1, <3>2, <3>3 DEF InsertSchema, Goto, StoreInv, TypeOK, FreshIds
  <2>2. CASE InsertLink(c)
    BY <2>2 DEF InsertLink, Goto, StoreInv, TypeOK, FreshIds
  <2> QED BY <2>1, <2>2
<1> QED BY <1>1, <1>2, <1>3, <1>4 DEF StoreInv

\* The row lock goes to a transaction only while nobody has it.
LEMMA UpdateSchemaKeepsInv ==
  ASSUME StoreInv, NEW c \in Clients, UpdateSchema(c)
  PROVE  StoreInv'
<1>1. CASE links[req[c].id] # req[c].owner
  BY <1>1, FinishKeepsInv DEF UpdateSchema, Answers
<1>2. CASE links[req[c].id] = req[c].owner
  <2>1. /\ pc[c] = "reserved" /\ req[c].op = "replace" /\ rowLock[req[c].id] = Nobody
        /\ rowLock' = [rowLock EXCEPT ![req[c].id] = c] /\ Goto(c, "updated")
        /\ UNCHANGED <<schemas, links, drawn, clock, req, stamp, newId, advisory, answer>>
    BY <1>2 DEF UpdateSchema, tables
  <2>2. req[c].id \in Ids
    BY <2>1 DEF StoreInv, CallShape
  <2>3. TypeOK' /\ CallShape'
    BY <2>1, <2>2 DEF Goto, StoreInv, TypeOK, CallShape
  <2>4. NameLocked' /\ NameLockHeld'
    BY <2>1, ConstantsAssumption DEF Goto, StoreInv, TypeOK, NameLocked, NameLockHeld, NameKey
  <2>5. RowLocked' /\ RowLockHeld'
    BY <1>2, <2>1, <2>2, ConstantsAssumption
    DEF Goto, StoreInv, TypeOK, CallShape, RowLocked, RowLockHeld
  <2>6. FreshIds' /\ NoOrphans' /\ UniqueNames' /\ StillFree'
    BY <2>1 DEF Goto, StoreInv, TypeOK, FreshIds, NoOrphans, UniqueNames, StillFree, Taken
  <2> QED BY <2>3, <2>4, <2>5, <2>6 DEF StoreInv
<1> QED BY <1>1, <1>2

-----------------------------------------------------------------------------
(* The steps whose writes become visible.                                  *)

\* Two transactions past reserve_name never want the same name for one owner:
\* equal names fold to equal keys, and a key has one holder.
LEMMA SameNameSameCall ==
  ASSUME StoreInv, NEW c \in Clients, NEW d \in Clients,
         pc[c] \in HoldsName, pc[d] \in HoldsName,
         req[c].owner = req[d].owner, Lower(req[c].name) = Lower(req[d].name)
  PROVE  c = d
<1>1. NameKey(c) = NameKey(d)
  BY DEF NameKey
<1> QED BY <1>1 DEF StoreInv, NameLocked

\* A committed row takes no name from another transaction that found it free.
LEMMA CommitKeepsStillFree ==
  ASSUME StoreInv, NEW c \in Clients, NEW i \in Ids, NEW result \in Answers,
         pc[c] \in NameChecked, Finish(c, result),
         \A j \in Ids \ {i} : schemas'[j] = schemas[j] /\ links'[j] = links[j],
         links'[i] = req[c].owner, schemas'[i].name = req[c].name
  PROVE  StillFree'
<1> SUFFICES ASSUME NEW d \in Clients, pc'[d] \in NameChecked,
                    Taken(req[d].owner, req[d].name, req[d].id)'
             PROVE  FALSE
  BY DEF StillFree
<1>1. d # c /\ pc[d] = pc'[d] /\ req'[d] = req[d]
  BY DEF Finish, Goto, StoreInv, TypeOK
<1>2. ~Taken(req[d].owner, req[d].name, req[d].id)
  BY <1>1 DEF StoreInv, StillFree
<1>3. PICK j \in Ids : /\ j # req[d].id /\ links'[j] = req[d].owner
                       /\ Lower(schemas'[j].name) = Lower(req[d].name)
  BY <1>1 DEF Taken
<1>4. CASE j = i
  BY <1>1, <1>3, <1>4, SameNameSameCall
<1>5. CASE j # i
  BY <1>2, <1>3, <1>5 DEF Taken
<1> QED BY <1>4, <1>5

\* create commits a row under an id nobody else uses, and a name that is
\* still free.
LEMMA CommitCreateKeepsInv ==
  ASSUME StoreInv, NEW c \in Clients, CommitCreate(c)
  PROVE  StoreInv'
<1> DEFINE i == newId[c]
           row == [name |-> req[c].name, created |-> stamp[c], updated |-> stamp[c]]
<1>1. PICK result \in Answers : Finish(c, result)
  BY DEF CommitCreate, Answers
<1>2. i \in Ids /\ i \in drawn /\ links[i] = Nobody
  BY ConstantsAssumption DEF CommitCreate, StoreInv, FreshIds, TypeOK
<1>3. req[c].op = "create" /\ req[c].name \in Names /\ req[c].owner \in Owners /\ req[c].id = NoId
  BY DEF CommitCreate, StoreInv, CallShape, Request
<1>4. row \in Row /\ row # NoRow /\ req[c].owner # Nobody
  BY <1>3, ConstantsAssumption DEF StoreInv, TypeOK, Row
<1>5. /\ schemas' = [schemas EXCEPT ![i] = row]
      /\ links' = [links EXCEPT ![i] = req[c].owner]
      /\ pc[c] = "linked"
  BY DEF CommitCreate
<1>6. schemas'[i] = row /\ links'[i] = req[c].owner
  BY <1>2, <1>5 DEF StoreInv, TypeOK
<1>7. \A j \in Ids \ {i} : schemas'[j] = schemas[j] /\ links'[j] = links[j]
  BY <1>5 DEF StoreInv, TypeOK
<1>8. TypeOK'
  <2>1. schemas' \in [Ids -> Row \cup {NoRow}] /\ links' \in [Ids -> Owners \cup {Nobody}]
    BY <1>3, <1>4, <1>5 DEF StoreInv, TypeOK
  <2> QED BY <1>1, <2>1, FinishTypes DEF StoreInv, TypeOK
<1>9. CallShape' /\ NameLocked' /\ NameLockHeld' /\ RowLockHeld'
  BY <1>1, FinishLocks DEF StoreInv
<1>10. RowLocked'
  <2> SUFFICES ASSUME NEW d \in Clients, pc'[d] = "updated"
               PROVE  rowLock'[req'[d].id] = d /\ links'[req'[d].id] = req'[d].owner
    BY DEF RowLocked
  <2>1. d # c /\ pc[d] = "updated" /\ req'[d] = req[d]
    BY <1>1 DEF Finish, Goto, StoreInv, TypeOK
  <2>2. rowLock[req[d].id] = d /\ links[req[d].id] = req[d].owner /\ req[d].id \in Ids
    BY <2>1 DEF StoreInv, RowLocked, CallShape
  <2>3. req[d].owner # Nobody
    BY <2>1, ConstantsAssumption DEF StoreInv, CallShape, Request
  <2> QED BY <1>1, <1>2, <1>7, <2>1, <2>2, <2>3 DEF Finish
<1>11. FreshIds'
  <2>1. \A j \in Ids : links'[j] # Nobody => j \in drawn'
    BY <1>1, <1>2, <1>7 DEF Finish, StoreInv, FreshIds
  <2>2. \A d \in Clients : d # c => newId[d] # i
    BY <1>2, ConstantsAssumption DEF StoreInv, FreshIds
  <2>3. \A d \in Clients \ {c} : pc'[d] = pc[d] /\ newId'[d] = newId[d]
    BY <1>1 DEF Finish, Goto, StoreInv, TypeOK
  <2>4. pc'[c] = "idle" /\ newId'[c] = NoId
    BY <1>1 DEF Finish, Goto, StoreInv, TypeOK
  <2>5. \A d \in Clients : IF pc'[d] \in {"inserted", "linked"}
                           THEN newId'[d] \in drawn' /\ links'[newId'[d]] = Nobody
                           ELSE newId'[d] = NoId
    <3> SUFFICES ASSUME NEW d \in Clients \ {c}
                 PROVE  IF pc'[d] \in {"inserted", "linked"}
                        THEN newId'[d] \in drawn' /\ links'[newId'[d]] = Nobody
                        ELSE newId'[d] = NoId
      BY <2>4
    <3>1. CASE pc[d] \in {"inserted", "linked"}
      <4>1. newId[d] \in drawn /\ newId[d] \in Ids \ {i} /\ links[newId[d]] = Nobody
        BY <2>2, <3>1 DEF StoreInv, FreshIds, TypeOK
      <4> QED BY <1>1, <1>7, <2>3, <3>1, <4>1 DEF Finish
    <3>2. CASE pc[d] \notin {"inserted", "linked"}
      BY <2>3, <3>2 DEF StoreInv, FreshIds
    <3> QED BY <3>1, <3>2
  <2>6. \A d, e \in Clients : d # e /\ newId'[d] # NoId => newId'[d] # newId'[e]
    BY <2>3, <2>4 DEF StoreInv, FreshIds
  <2> QED BY <2>1, <2>5, <2>6 DEF FreshIds
<1>12. StillFree'
  BY <1>1, <1>2, <1>5, <1>6, <1>7, CommitKeepsStillFree
<1>13. NoOrphans'
  BY <1>4, <1>6, <1>7 DEF StoreInv, NoOrphans
<1>14. UniqueNames'
  <2>1. ~Taken(req[c].owner, req[c].name, req[c].id)
    BY <1>5 DEF StoreInv, StillFree
  <2>2. \A j \in Ids \ {i} :
          ~(links[j] = req[c].owner /\ Lower(schemas[j].name) = Lower(req[c].name))
    BY <1>3, <2>1, ConstantsAssumption DEF Taken
  <2>3. \A j, k \in Ids \ {i} :
          /\ links'[j] # Nobody /\ links'[j] = links'[k]
          /\ Lower(schemas'[j].name) = Lower(schemas'[k].name)
          => j = k
    BY <1>7 DEF StoreInv, UniqueNames
  <2> QED BY <1>6, <1>7, <2>2, <2>3 DEF UniqueNames
<1> QED BY <1>8, <1>9, <1>10, <1>11, <1>12, <1>13, <1>14 DEF StoreInv

\* replace commits a new name for a row its owner still has.
LEMMA CommitReplaceKeepsInv ==
  ASSUME StoreInv, NEW c \in Clients, CommitReplace(c)
  PROVE  StoreInv'
<1> DEFINE i == req[c].id
           row == [name |-> req[c].name, created |-> schemas[i].created, updated |-> stamp[c]]
<1>1. PICK result \in Answers : Finish(c, result)
  BY DEF CommitReplace, Answers
<1>2. /\ pc[c] = "updated" /\ i \in Ids /\ links[i] = req[c].owner
      /\ req[c].name \in Names /\ req[c].owner \in Owners
  BY DEF CommitReplace, StoreInv, CallShape, RowLocked, Request
<1>3. schemas[i] \in Row
  BY <1>2, ConstantsAssumption DEF StoreInv, NoOrphans, TypeOK
<1>4. row \in Row /\ row # NoRow
  BY <1>2, <1>3, ConstantsAssumption DEF StoreInv, TypeOK, Row
<1>5. schemas' = [schemas EXCEPT ![i] = row] /\ links' = links
  BY DEF CommitReplace
<1>6. schemas'[i] = row /\ \A j \in Ids \ {i} : schemas'[j] = schemas[j]
  BY <1>2, <1>5 DEF StoreInv, TypeOK
<1>7. TypeOK'
  <2>1. schemas' \in [Ids -> Row \cup {NoRow}]
    BY <1>4, <1>5 DEF StoreInv, TypeOK
  <2> QED BY <1>1, <1>5, <2>1, FinishTypes DEF StoreInv, TypeOK
<1>8. CallShape' /\ NameLocked' /\ NameLockHeld' /\ RowLockHeld'
  BY <1>1, FinishLocks DEF StoreInv
<1>9. RowLocked' /\ FreshIds'
  BY <1>1, <1>5 DEF StoreInv, TypeOK, CallShape, RowLocked, FreshIds, Finish, Goto
<1>10. StillFree'
  BY <1>1, <1>2, <1>5, <1>6, CommitKeepsStillFree
<1>11. NoOrphans'
  BY <1>2, <1>4, <1>5, <1>6, ConstantsAssumption DEF StoreInv, NoOrphans
<1>12. UniqueNames'
  <2>1. ~Taken(req[c].owner, req[c].name, i)
    BY <1>2 DEF StoreInv, StillFree
  <2>2. \A j \in Ids \ {i} :
          ~(links[j] = req[c].owner /\ Lower(schemas[j].name) = Lower(req[c].name))
    BY <2>1 DEF Taken
  <2>3. \A j, k \in Ids \ {i} :
          /\ links'[j] # Nobody /\ links'[j] = links'[k]
          /\ Lower(schemas'[j].name) = Lower(schemas'[k].name)
          => j = k
    BY <1>5, <1>6 DEF StoreInv, UniqueNames
  <2> QED BY <1>2, <1>5, <1>6, <2>2, <2>3 DEF UniqueNames
<1> QED BY <1>7, <1>8, <1>9, <1>10, <1>11, <1>12 DEF StoreInv

\* delete removes a row no transaction has updated, and frees its name.
LEMMA DeleteSchemaKeepsInv ==
  ASSUME StoreInv, NEW c \in Clients, DeleteSchema(c)
  PROVE  StoreInv'
<1> DEFINE i == req[c].id
<1>1. CASE links[i] # req[c].owner
  BY <1>1, FinishKeepsInv DEF DeleteSchema, Answers
<1>2. CASE links[i] = req[c].owner
  <2>1. PICK result \in Answers : Finish(c, result)
    BY <1>2 DEF DeleteSchema, Answers
  <2>2. /\ rowLock[i] = Nobody /\ i \in Ids
        /\ schemas' = [schemas EXCEPT ![i] = NoRow]
        /\ links' = [links EXCEPT ![i] = Nobody]
    BY <1>2 DEF DeleteSchema, StoreInv, CallShape
  <2>3. /\ schemas'[i] = NoRow /\ links'[i] = Nobody
        /\ \A j \in Ids \ {i} : schemas'[j] = schemas[j] /\ links'[j] = links[j]
    BY <2>2 DEF StoreInv, TypeOK
  <2>4. TypeOK'
    <3>1. schemas' \in [Ids -> Row \cup {NoRow}] /\ links' \in [Ids -> Owners \cup {Nobody}]
      BY <2>2 DEF StoreInv, TypeOK
    <3> QED BY <2>1, <3>1, FinishTypes DEF StoreInv, TypeOK
  <2>5. CallShape' /\ NameLocked' /\ NameLockHeld' /\ RowLockHeld'
    BY <2>1, FinishLocks DEF StoreInv
  <2>6. RowLocked'
    <3> SUFFICES ASSUME NEW d \in Clients, pc'[d] = "updated"
                 PROVE  rowLock'[req'[d].id] = d /\ links'[req'[d].id] = req'[d].owner
      BY DEF RowLocked
    <3>1. d # c /\ pc[d] = "updated" /\ req'[d] = req[d]
      BY <2>1 DEF Finish, Goto, StoreInv, TypeOK
    <3>2. rowLock[req[d].id] = d /\ links[req[d].id] = req[d].owner /\ req[d].id \in Ids
      BY <3>1 DEF StoreInv, RowLocked, CallShape
    <3>3. req[d].id # i
      BY <2>2, <3>2, ConstantsAssumption
    <3> QED BY <2>1, <2>3, <3>1, <3>2, <3>3 DEF Finish
  <2>7. FreshIds'
    BY <2>1, <2>2 DEF StoreInv, TypeOK, FreshIds, Finish, Goto
  <2>8. StillFree'
    <3> SUFFICES ASSUME NEW d \in Clients, pc'[d] \in NameChecked,
                        Taken(req[d].owner, req[d].name, req[d].id)'
                 PROVE  FALSE
      BY DEF StillFree
    <3>1. pc[d] \in NameChecked /\ req'[d] = req[d]
      BY <2>1 DEF Finish, Goto, StoreInv, TypeOK
    <3>2. req[d].owner # Nobody /\ ~Taken(req[d].owner, req[d].name, req[d].id)
      BY <3>1, ConstantsAssumption DEF StoreInv, CallShape, Request, StillFree
    <3> QED BY <2>3, <3>1, <3>2 DEF Taken
  <2>9. NoOrphans' /\ UniqueNames'
    BY <2>3 DEF StoreInv, NoOrphans, UniqueNames
  <2> QED BY <2>4, <2>5, <2>6, <2>7, <2>8, <2>9 DEF StoreInv
<1> QED BY <1>1, <1>2

-----------------------------------------------------------------------------
(* The theorems.                                                           *)

\* An empty store without calls.
LEMMA InitInv == Init => StoreInv
<1> SUFFICES ASSUME Init PROVE StoreInv
  OBVIOUS
<1>1. TypeOK
  BY DEF Init, TypeOK, Answers
<1> QED
  BY <1>1, ConstantsAssumption
  DEF Init, StoreInv, CallShape, NameLocked, NameLockHeld, RowLocked, RowLockHeld, FreshIds,
      StillFree, NoOrphans, UniqueNames

\* Every step keeps the invariant.
LEMMA NextInv == StoreInv /\ [Next]_vars => StoreInv'
<1> SUFFICES ASSUME StoreInv, [Next]_vars PROVE StoreInv'
  OBVIOUS
<1>1. CASE UNCHANGED vars
  BY <1>1 DEF vars, StoreInv, TypeOK, CallShape, NameLocked, NameLockHeld, RowLocked, RowLockHeld,
              FreshIds, StillFree, Taken, NoOrphans, UniqueNames, NameKey
<1>2. ASSUME NEW c \in Clients, Arrive(c) PROVE StoreInv'
  BY <1>2, ArriveKeepsInv
<1>3. ASSUME NEW c \in Clients, Advance(c) PROVE StoreInv'
  <2>1. CASE Begin(c) \/ StartDelete(c)
    BY <2>1, StartKeepsInv
  <2>2. CASE FindSchema(c)
    BY <2>2, FinishKeepsInv DEF FindSchema, Answers
  <2>3. CASE AcquireTimeout(c)
    BY <2>3, FinishKeepsInv DEF AcquireTimeout, Answers
  <2>4. CASE CheckName(c)
    BY <2>4, CheckNameKeepsInv
  <2>5. CASE InsertSchema(c) \/ InsertLink(c)
    BY <2>5, InsertKeepsInv
  <2>6. CASE CommitCreate(c)
    BY <2>6, CommitCreateKeepsInv
  <2>7. CASE CommitReplace(c)
    BY <2>7, CommitReplaceKeepsInv
  <2> QED BY <1>3, <2>1, <2>2, <2>3, <2>4, <2>5, <2>6, <2>7 DEF Advance
<1>4. ASSUME NEW c \in Clients, Contend(c) PROVE StoreInv'
  BY <1>4, LockNameKeepsInv, UpdateSchemaKeepsInv, DeleteSchemaKeepsInv DEF Contend
<1>5. ASSUME NEW c \in Clients, Rollback(c) PROVE StoreInv'
  BY <1>5, FinishKeepsInv DEF Rollback, Answers
<1> QED BY <1>1, <1>2, <1>3, <1>4, <1>5 DEF Next

\* What a call knows at each of its steps (locks held, name found free, id
\* still hidden) is true in every reachable state.
THEOREM StoreCorrect == Spec => []StoreInv
<1> QED BY InitInv, NextInv, PTL DEF Spec

\* Every variable keeps its type.
THEOREM TypeCorrect == Spec => []TypeOK
<1>1. StoreInv => TypeOK
  BY DEF StoreInv
<1> QED BY <1>1, StoreCorrect, PTL

\* No owner ever has two schemas with one name, without an index that says so.
THEOREM NamesStayUnique == Spec => []UniqueNames
<1>1. StoreInv => UniqueNames
  BY DEF StoreInv
<1> QED BY <1>1, StoreCorrect, PTL

\* schemas and user_schemas never disagree on which schemas there are.
THEOREM TablesAgree == Spec => []NoOrphans
<1>1. StoreInv => NoOrphans
  BY DEF StoreInv
<1> QED BY <1>1, StoreCorrect, PTL

\* A group of calls always has one that waits for none of the group: one that
\* has updated its row; without such a one, one that waits for a row; without
\* such a one too, any that waits for its name.
LEMMA SomeoneCanMove ==
  ASSUME StoreInv, NEW group \in (SUBSET Clients) \ {{}}
  PROVE  \E c \in group : \A d \in group : ~WaitsFor(c, d)
<1>1. CASE \E c \in group : pc[c] \notin {"begun", "reserved", "deleting"}
  BY <1>1 DEF WaitsFor
<1>2. CASE /\ \A c \in group : pc[c] \in {"begun", "reserved", "deleting"}
           /\ \E c \in group : pc[c] \in {"reserved", "deleting"}
  <2>1. PICK c \in group : pc[c] \in {"reserved", "deleting"}
    BY <1>2
  <2>2. SUFFICES ASSUME NEW d \in group, WaitsFor(c, d) PROVE FALSE
    BY <2>1
  <2>3. rowLock[req[c].id] = d /\ (pc[c] = "deleting" \/ req[c].op = "replace")
    BY <2>1, <2>2 DEF WaitsFor
  <2>4. req[c].id \in Ids /\ d # Nobody
    BY <2>1, <2>3, ConstantsAssumption DEF StoreInv, CallShape
  <2>5. pc[d] = "updated"
    BY <2>3, <2>4 DEF StoreInv, RowLockHeld
  <2> QED BY <1>2, <2>5
<1>3. CASE \A c \in group : pc[c] = "begun"
  <2>1. PICK c \in group : TRUE
    OBVIOUS
  <2>2. SUFFICES ASSUME NEW d \in group, WaitsFor(c, d) PROVE FALSE
    BY <2>1
  <2>3. pc[c] = "begun" /\ pc[d] = "begun" /\ d # Nobody
    BY <1>3, ConstantsAssumption
  <2>4. advisory[NameKey(c)] = d
    BY <2>2, <2>3 DEF WaitsFor
  <2>5. NameKey(c) \in Keys
    BY <2>3, LockKeyAssumption DEF NameKey, StoreInv, CallShape, Request
  <2> QED BY <2>3, <2>4, <2>5 DEF StoreInv, NameLockHeld
<1> QED BY <1>1, <1>2, <1>3

\* The lock order of create, replace and delete rules out deadlock, for every
\* number of calls and whatever keys hashtext collides on.
THEOREM NoDeadlock == Spec => []NoWaitCycle
<1>1. StoreInv => NoWaitCycle
  BY SomeoneCanMove DEF NoWaitCycle
<1> QED BY <1>1, StoreCorrect, PTL

\* Nobody's call changes or removes someone else's schema.
THEOREM OwnersOnly == Spec => OnlyOwnerTouches
<1> DEFINE Touched(i) == schemas[i] # NoRow /\ (schemas'[i] # schemas[i] \/ links'[i] # links[i])
           ByOwner(i) == \E c \in Clients : /\ pc[c] # "idle" /\ pc'[c] = "idle"
                                            /\ req[c].id = i /\ req[c].owner = links[i]
<1>1. ASSUME StoreInv, Next, NEW i \in Ids, Touched(i) PROVE ByOwner(i)
  <2>1. PICK c \in Clients : Arrive(c) \/ Advance(c) \/ Contend(c) \/ Rollback(c)
    BY <1>1 DEF Next
  <2>2. UNCHANGED tables \/ CommitCreate(c) \/ CommitReplace(c) \/ DeleteSchema(c)
    BY <2>1 DEF Arrive, Advance, Contend, RefuseDraft, RefuseId, AcceptCreate, AcceptReplace,
       AcceptDelete, AcceptFind, Accept, Begin, StartDelete, FindSchema, AcquireTimeout, CheckName,
       InsertSchema, InsertLink, LockName, UpdateSchema, Rollback, tables
  <2>3. ~UNCHANGED tables
    BY <1>1 DEF tables
  <2>4. ~CommitCreate(c)
    BY <1>1 DEF CommitCreate, StoreInv, TypeOK, FreshIds, NoOrphans
  <2>5. CASE CommitReplace(c)
    BY <1>1, <2>5 DEF CommitReplace, Finish, Goto, StoreInv, TypeOK, RowLocked
  <2>6. CASE DeleteSchema(c)
    BY <1>1, <2>3, <2>6 DEF DeleteSchema, Finish, Goto, StoreInv, TypeOK
  <2> QED BY <2>2, <2>3, <2>4, <2>5, <2>6
<1>2. StoreInv /\ [Next]_vars => [\A i \in Ids : Touched(i) => ByOwner(i)]_vars
  BY <1>1
<1> QED BY <1>2, StoreCorrect, PTL DEF Spec, OnlyOwnerTouches

-----------------------------------------------------------------------------
(* The dates of a schema.                                                  *)

\* A step that writes no row and starts no transaction leaves the dates alone.
LEMMA SameDates ==
  ASSUME StoreInv, StoreInv', TimeInv, schemas' = schemas, clock' = clock,
         \A c \in Clients : stamp'[c] = stamp[c] \/ stamp'[c] = 0,
         \A c \in Clients : pc'[c] \in HoldsName \cup {"begun"} =>
            /\ pc[c] \in HoldsName \cup {"begun"}
            /\ req'[c] = req[c] /\ stamp'[c] = stamp[c]
  PROVE  StartedLater' /\ UpdatedAfterCreated'
  BY DEF StoreInv, TypeOK, TimeInv, StartedLater, UpdatedAfterCreated

\* Ids of requests stay drawn, and no INSERT draws one of them again.
LEMMA RequestsKeepNames ==
  ASSUME StoreInv, TimeInv,
         drawn \subseteq drawn',
         \A c \in Clients : pc'[c] # "idle" =>
            \/ pc[c] # "idle" /\ req'[c] = req[c]
            \/ req'[c].op # "create" =>
                 req'[c].id \in drawn /\ \A d \in Clients : req'[c].id # newId[d],
         \A d \in Clients : newId'[d] \in {newId[d], NoId} \cup (Ids \ drawn)
  PROVE  NamesCommitted'
<1> SUFFICES ASSUME NEW c \in Clients, NEW d \in Clients, pc'[c] # "idle", req'[c].op # "create"
             PROVE  req'[c].id \in drawn' /\ req'[c].id # newId'[d]
  BY DEF NamesCommitted
<1>1. req'[c].id \in drawn /\ req'[c].id # newId[d]
  BY DEF TimeInv, NamesCommitted
<1>2. drawn \subseteq Ids /\ NoId \notin Ids
  BY ConstantsAssumption DEF StoreInv, TypeOK
<1> QED BY <1>1, <1>2

\* Answering a call changes no date.
LEMMA FinishKeepsDates ==
  ASSUME StoreInv, StoreInv', TimeInv, NEW c \in Clients, NEW result, Finish(c, result)
  PROVE  /\ NamesCommitted'
         /\ schemas' = schemas => StartedLater' /\ UpdatedAfterCreated'
<1>1. NamesCommitted'
  BY ConstantsAssumption DEF StoreInv, TypeOK, TimeInv, NamesCommitted, Finish, Goto
<1>2. ASSUME schemas' = schemas PROVE StartedLater' /\ UpdatedAfterCreated'
  BY <1>2, SameDates DEF Finish, Goto, StoreInv, TypeOK
<1> QED BY <1>1, <1>2

\* A call names a schema that was committed before it arrived.
LEMMA ArriveKeepsDates ==
  ASSUME StoreInv, StoreInv', TimeInv, NEW c \in Clients, Arrive(c)
  PROVE  TimeInv'
<1>1. CASE RefuseDraft(c) \/ RefuseId(c)
  BY <1>1 DEF RefuseDraft, RefuseId, TimeInv, NamesCommitted, StartedLater, UpdatedAfterCreated
<1>2. ASSUME NEW r, Accept(c, r), r.op # "create" => r.id \in Known
      PROVE  TimeInv'
  <2>1. \A d \in Clients : r.op # "create" => r.id \in drawn /\ r.id # newId[d]
    BY <1>2 DEF Known
  <2>2. NamesCommitted'
    BY <1>2, <2>1 DEF Accept, Goto, StoreInv, TypeOK, TimeInv, NamesCommitted
  <2>3. StartedLater' /\ UpdatedAfterCreated'
    BY <1>2, SameDates DEF Accept, Goto, StoreInv, TypeOK
  <2> QED BY <2>2, <2>3 DEF TimeInv
<1> QED
  BY <1>1, <1>2 DEF Arrive, AcceptCreate, AcceptReplace, AcceptDelete, AcceptFind

\* BEGIN takes the time of the transaction.
LEMMA BeginKeepsDates ==
  ASSUME StoreInv, StoreInv', TimeInv, NEW c \in Clients, Begin(c)
  PROVE  TimeInv'
<1>1. NamesCommitted' /\ UpdatedAfterCreated'
  BY DEF Begin, Goto, StoreInv, TypeOK, TimeInv, NamesCommitted, UpdatedAfterCreated
<1>2. PICK now \in {clock, clock + 1} : clock' = now /\ stamp' = [stamp EXCEPT ![c] = now]
  BY DEF Begin
<1>3. clock \in Nat /\ now \in Nat /\ clock <= now
  BY <1>2 DEF StoreInv, TypeOK
<1>4. \A i \in Ids : schemas[i] # NoRow => schemas[i].created \in Nat
  BY DEF StoreInv, TypeOK, Row
<1>5. \A d \in Clients : stamp'[d] <= clock'
  BY <1>2, <1>3 DEF StoreInv, TypeOK, TimeInv, StartedLater
<1>6. \A i \in Ids : schemas'[i] # NoRow => schemas'[i].created <= clock'
  BY <1>2, <1>3, <1>4 DEF Begin, TimeInv, StartedLater
<1>7. ASSUME NEW d \in Clients, pc'[d] \in HoldsName \cup {"begun"}, req'[d].op = "replace",
             schemas'[req'[d].id] # NoRow
      PROVE  schemas'[req'[d].id].created <= stamp'[d]
  <2>1. req'[d].id \in Ids
    BY <1>7 DEF StoreInv, CallShape
  <2>2. CASE d = c
    BY <1>2, <1>6, <1>7, <2>1, <2>2 DEF StoreInv, TypeOK
  <2>3. CASE d # c
    BY <1>2, <1>7, <2>3 DEF Begin, Goto, StoreInv, TypeOK, TimeInv, StartedLater
  <2> QED BY <2>2, <2>3
<1> QED BY <1>1, <1>5, <1>6, <1>7 DEF TimeInv, StartedLater

\* The steps inside a transaction.
LEMMA MoveKeepsDates ==
  ASSUME StoreInv, StoreInv', TimeInv, NEW c \in Clients,
         StartDelete(c) \/ InsertSchema(c) \/ InsertLink(c) \/ LockName(c)
  PROVE  TimeInv'
<1>1. StartedLater' /\ UpdatedAfterCreated'
  BY SameDates DEF StartDelete, InsertSchema, InsertLink, LockName, Goto, StoreInv, TypeOK
<1>2. NamesCommitted'
  BY RequestsKeepNames DEF StartDelete, InsertSchema, InsertLink, LockName, Goto, StoreInv, TypeOK
<1> QED BY <1>1, <1>2 DEF TimeInv

\* A created schema carries the time of its BEGIN twice.
LEMMA CommitCreateKeepsDates ==
  ASSUME StoreInv, StoreInv', TimeInv, NEW c \in Clients, CommitCreate(c)
  PROVE  TimeInv'
<1>1. PICK result : Finish(c, result)
  BY DEF CommitCreate
<1>2. newId[c] \in Ids /\ stamp[c] \in Nat /\ stamp[c] <= clock /\ clock' = clock
  BY <1>1, ConstantsAssumption
  DEF CommitCreate, Finish, StoreInv, FreshIds, TypeOK, TimeInv, StartedLater
<1>3. /\ schemas'[newId[c]].created = stamp[c] /\ schemas'[newId[c]].updated = stamp[c]
      /\ \A i \in Ids \ {newId[c]} : schemas'[i] = schemas[i]
  BY <1>2 DEF CommitCreate, StoreInv, TypeOK
<1>4. NamesCommitted'
  BY <1>1, FinishKeepsDates
<1>5. UpdatedAfterCreated'
  BY <1>2, <1>3 DEF UpdatedAfterCreated, TimeInv
<1>6. \A d \in Clients : stamp'[d] <= clock'
  BY <1>1, <1>2 DEF Finish, StoreInv, TypeOK, TimeInv, StartedLater
<1>7. \A i \in Ids : schemas'[i] # NoRow => schemas'[i].created <= clock'
  BY <1>2, <1>3 DEF TimeInv, StartedLater
<1>8. ASSUME NEW d \in Clients, pc'[d] \in HoldsName \cup {"begun"}, req'[d].op = "replace",
             schemas'[req'[d].id] # NoRow
      PROVE  schemas'[req'[d].id].created <= stamp'[d]
  <2>1. d # c /\ pc[d] = pc'[d] /\ req'[d] = req[d] /\ stamp'[d] = stamp[d]
    BY <1>1, <1>8 DEF Finish, Goto, StoreInv, TypeOK
  <2>2. req[d].id \in Ids \ {newId[c]}
    BY <1>8, <2>1 DEF StoreInv, CallShape, TimeInv, NamesCommitted
  <2> QED BY <1>3, <1>8, <2>1, <2>2 DEF TimeInv, StartedLater
<1> QED BY <1>4, <1>5, <1>6, <1>7, <1>8 DEF TimeInv, StartedLater

\* A replace began after the creation it changes was committed.
LEMMA CommitReplaceKeepsDates ==
  ASSUME StoreInv, StoreInv', TimeInv, NEW c \in Clients, CommitReplace(c)
  PROVE  TimeInv'
<1> DEFINE i == req[c].id
<1>1. PICK result : Finish(c, result)
  BY DEF CommitReplace
<1>2. i \in Ids /\ schemas[i] # NoRow /\ schemas[i].created <= stamp[c]
  BY ConstantsAssumption DEF CommitReplace, StoreInv, CallShape, RowLocked, NoOrphans, Request,
     TimeInv, StartedLater
<1>3. /\ schemas'[i].created = schemas[i].created /\ schemas'[i].updated = stamp[c]
      /\ \A j \in Ids \ {i} : schemas'[j] = schemas[j]
  BY <1>2 DEF CommitReplace, StoreInv, TypeOK
<1>4. NamesCommitted'
  BY <1>1, FinishKeepsDates
<1>5. UpdatedAfterCreated'
  BY <1>2, <1>3 DEF UpdatedAfterCreated, TimeInv
<1>6. \A j \in Ids : schemas'[j] # NoRow =>
        schemas[j] # NoRow /\ schemas'[j].created = schemas[j].created
  BY <1>2, <1>3
<1>7. clock' = clock /\ \A d \in Clients : stamp'[d] <= clock'
  BY <1>1 DEF Finish, StoreInv, TypeOK, TimeInv, StartedLater
<1>8. ASSUME NEW d \in Clients, pc'[d] \in HoldsName \cup {"begun"}, req'[d].op = "replace",
             schemas'[req'[d].id] # NoRow
      PROVE  schemas'[req'[d].id].created <= stamp'[d]
  <2>1. d # c /\ pc[d] = pc'[d] /\ req'[d] = req[d] /\ stamp'[d] = stamp[d]
    BY <1>1, <1>8 DEF Finish, Goto, StoreInv, TypeOK
  <2>2. req[d].id \in Ids
    BY <1>8, <2>1 DEF StoreInv, CallShape
  <2> QED BY <1>6, <1>8, <2>1, <2>2 DEF TimeInv, StartedLater
<1> QED BY <1>4, <1>5, <1>6, <1>7, <1>8 DEF TimeInv, StartedLater

\* A deleted schema leaves the dates of the others alone.
LEMMA DeleteSchemaKeepsDates ==
  ASSUME StoreInv, StoreInv', TimeInv, NEW c \in Clients, DeleteSchema(c)
  PROVE  TimeInv'
<1>1. PICK result : Finish(c, result)
  BY DEF DeleteSchema
<1>2. NamesCommitted'
  BY <1>1, FinishKeepsDates
<1>3. \A j \in Ids : schemas'[j] # NoRow => schemas'[j] = schemas[j]
  BY DEF DeleteSchema, tables, StoreInv, TypeOK
<1>4. UpdatedAfterCreated'
  BY <1>3 DEF UpdatedAfterCreated, TimeInv
<1>5. clock' = clock /\ \A d \in Clients : stamp'[d] <= clock'
  BY <1>1 DEF Finish, StoreInv, TypeOK, TimeInv, StartedLater
<1>6. ASSUME NEW d \in Clients, pc'[d] \in HoldsName \cup {"begun"}, req'[d].op = "replace",
             schemas'[req'[d].id] # NoRow
      PROVE  schemas'[req'[d].id].created <= stamp'[d]
  <2>1. d # c /\ pc[d] = pc'[d] /\ req'[d] = req[d] /\ stamp'[d] = stamp[d]
    BY <1>1, <1>6 DEF Finish, Goto, StoreInv, TypeOK
  <2>2. req[d].id \in Ids
    BY <1>6, <2>1 DEF StoreInv, CallShape
  <2> QED BY <1>3, <1>6, <2>1, <2>2 DEF TimeInv, StartedLater
<1> QED BY <1>2, <1>3, <1>4, <1>5, <1>6 DEF TimeInv, StartedLater

\* Every step keeps the dates in order.
LEMMA NextKeepsDates == StoreInv /\ StoreInv' /\ TimeInv /\ [Next]_vars => TimeInv'
<1> SUFFICES ASSUME StoreInv, StoreInv', TimeInv, [Next]_vars PROVE TimeInv'
  OBVIOUS
<1>1. CASE UNCHANGED vars
  BY <1>1 DEF vars, TimeInv, NamesCommitted, StartedLater, UpdatedAfterCreated
<1>2. ASSUME NEW c \in Clients, NEW result, Finish(c, result), UNCHANGED tables
      PROVE  TimeInv'
  BY <1>2, FinishKeepsDates DEF tables, TimeInv
<1>3. ASSUME NEW c \in Clients, NEW step, pc[c] \in {"locked", "reserved"},
             step \in {"reserved", "updated"}, Goto(c, step),
             UNCHANGED <<schemas, links, drawn, clock, req, stamp, newId>>
      PROVE  TimeInv'
  <2>1. StartedLater' /\ UpdatedAfterCreated'
    BY <1>3, SameDates DEF Goto, StoreInv, TypeOK
  <2>2. NamesCommitted'
    BY <1>3, RequestsKeepNames DEF Goto, StoreInv, TypeOK
  <2> QED BY <2>1, <2>2 DEF TimeInv
<1>4. ASSUME NEW c \in Clients, Arrive(c) PROVE TimeInv'
  BY <1>4, ArriveKeepsDates
<1>5. ASSUME NEW c \in Clients, Advance(c) PROVE TimeInv'
  <2>1. CASE Begin(c)
    BY <2>1, BeginKeepsDates
  <2>2. CASE StartDelete(c) \/ InsertSchema(c) \/ InsertLink(c)
    BY <2>2, MoveKeepsDates
  <2>3. CASE FindSchema(c) \/ AcquireTimeout(c)
    BY <2>3, <1>2 DEF FindSchema, AcquireTimeout
  <2>4. CASE CheckName(c)
    BY <2>4, <1>2, <1>3 DEF CheckName, tables
  <2>5. CASE CommitCreate(c) \/ CommitReplace(c)
    BY <2>5, CommitCreateKeepsDates, CommitReplaceKeepsDates
  <2> QED BY <1>5, <2>1, <2>2, <2>3, <2>4, <2>5 DEF Advance
<1>6. ASSUME NEW c \in Clients, Contend(c) PROVE TimeInv'
  <2>1. CASE UpdateSchema(c)
    BY <2>1, <1>2, <1>3 DEF UpdateSchema, tables
  <2> QED BY <1>6, <2>1, MoveKeepsDates, DeleteSchemaKeepsDates DEF Contend
<1>7. ASSUME NEW c \in Clients, Rollback(c) PROVE TimeInv'
  BY <1>7, <1>2 DEF Rollback
<1> QED BY <1>1, <1>4, <1>5, <1>6, <1>7 DEF Next

\* No schema is ever dated to have changed before it was made.
THEOREM DatesInOrder == Spec => []UpdatedAfterCreated
<1>1. Init => TimeInv
  BY DEF Init, TimeInv, NamesCommitted, StartedLater, UpdatedAfterCreated
<1>2. TimeInv => UpdatedAfterCreated
  BY DEF TimeInv
<1> QED BY <1>1, <1>2, NextKeepsDates, StoreCorrect, PTL DEF Spec

-----------------------------------------------------------------------------
(* Every step of the store is a step of the catalog, or invisible in it.   *)

\* A schema is the caller's in the catalog when the link table says so.
LEMMA MineMeansLinked ==
  ASSUME StoreInv, NEW i \in Ids, NEW o \in Owners
  PROVE  Catalog!Mine(o, i) <=> links[i] = o
<1>1. links[i] # Nobody => schemas[i] \in Row
  BY DEF StoreInv, NoOrphans, TypeOK
<1>2. links[i] # Nobody => [owner |-> links[i], name |-> schemas[i].name] # NoRow
  BY <1>1, ConstantsAssumption DEF StoreInv, TypeOK, Row
<1> QED BY <1>2, ConstantsAssumption DEF Catalog!Mine, Table

\* reserve_name asks the question the catalog asks.
LEMMA FreeMeansNotTaken ==
  ASSUME StoreInv, NEW o \in Owners, NEW name, NEW except
  PROVE  Catalog!NameFree(o, name, except) <=> ~Taken(o, name, except)
<1>1. \A i \in Ids : links[i] = o => Table[i].name = schemas[i].name
  BY ConstantsAssumption DEF Table
<1> QED BY <1>1, MineMeansLinked DEF Catalog!NameFree, Taken

\* The end of a call is the catalog's reply.
LEMMA FinishIsReply ==
  ASSUME NEW c \in Clients, NEW result, NEW results, result \in results, Finish(c, result)
  PROVE  Catalog!Reply(c, results)
  BY DEF Finish, Catalog!Reply

\* A call that is served is one the catalog waits to answer.
LEMMA ServedIsWaiting ==
  ASSUME StoreInv, NEW c \in Clients, pc[c] # "idle"
  PROVE  /\ req[c] \in Request /\ req[c] # NoRequest /\ req[c].owner \in Owners
         /\ Catalog!Waiting(c, req[c].op)
  BY NoRequestAssumption DEF StoreInv, CallShape, Catalog!Waiting, Request

\* The abstract table is that of the committed rows.
LEMMA SameTables ==
  ASSUME UNCHANGED tables
  PROVE  Table' = Table
  BY DEF tables, Table

\* An arriving call is asked or turned away.
LEMMA ArriveRefines ==
  ASSUME StoreInv, NEW c \in Clients, Arrive(c)
  PROVE  Catalog!Ask(c) \/ Catalog!TurnAway(c)
<1>1. Table' = Table
  BY SameTables DEF Arrive, RefuseDraft, RefuseId, AcceptCreate, AcceptReplace, AcceptDelete,
     AcceptFind, Accept, tables
<1>2. pc[c] = "idle" /\ req[c] = NoRequest
  BY DEF Arrive, RefuseDraft, RefuseId, AcceptCreate, AcceptReplace, AcceptDelete, AcceptFind,
     Accept, StoreInv, CallShape
<1>3. CASE RefuseDraft(c) \/ RefuseId(c)
  BY <1>1, <1>2, <1>3 DEF RefuseDraft, RefuseId, Catalog!TurnAway
<1>4. ASSUME NEW r \in Request, Accept(c, r) PROVE Catalog!Ask(c)
  BY <1>1, <1>2, <1>4 DEF Accept, Catalog!Ask, Request, Catalog!Request
<1>5. Known \subseteq Ids
  BY DEF Known, StoreInv, TypeOK
<1>6. CASE AcceptCreate(c)
  BY <1>4, <1>6 DEF AcceptCreate, Request
<1>7. CASE AcceptReplace(c)
  BY <1>4, <1>5, <1>7 DEF AcceptReplace, Request
<1>8. CASE AcceptDelete(c) \/ AcceptFind(c)
  BY <1>4, <1>5, <1>8 DEF AcceptDelete, AcceptFind, Request
<1> QED BY <1>3, <1>6, <1>7, <1>8 DEF Arrive

\* A call that fails is the catalog's failure, which may strike at any time.
LEMMA FailureRefines ==
  ASSUME StoreInv, NEW c \in Clients, pc[c] # "idle", Finish(c, "storage"), UNCHANGED tables
  PROVE  Catalog!Fail(c)
  BY ServedIsWaiting, FinishIsReply, SameTables DEF Catalog!Fail

\* find is answered at its SELECT, or fails.
LEMMA FindRefines ==
  ASSUME StoreInv, NEW c \in Clients, FindSchema(c)
  PROVE  Catalog!Find(c) \/ Catalog!Missing(c) \/ Catalog!Fail(c)
<1>1. /\ req[c].owner \in Owners /\ Catalog!Waiting(c, "find") /\ req[c].id \in Ids
      /\ Table' = Table
  BY ServedIsWaiting, SameTables DEF FindSchema, StoreInv, CallShape
<1>2. CASE links[req[c].id] = req[c].owner /\ Finish(c, "ok")
  <2>1. Catalog!Reply(c, {"ok"})
    BY <1>2, FinishIsReply
  <2> QED BY <1>1, <1>2, <2>1, MineMeansLinked DEF Catalog!Find
<1>3. CASE links[req[c].id] # req[c].owner /\ Finish(c, "not_found")
  <2>1. Catalog!Reply(c, {"not_found"})
    BY <1>3, FinishIsReply
  <2> QED BY <1>1, <1>3, <2>1, MineMeansLinked DEF Catalog!Missing
<1>4. CASE Finish(c, "storage")
  BY <1>4, FailureRefines DEF FindSchema
<1> QED BY <1>2, <1>3, <1>4 DEF FindSchema

\* A name that is taken is a conflict at the SELECT under the lock.
LEMMA CheckNameRefines ==
  ASSUME StoreInv, NEW c \in Clients, CheckName(c)
  PROVE  Catalog!Conflict(c) \/ UNCHANGED Catalog!vars
<1>1. /\ req[c].owner \in Owners /\ Table' = Table
      /\ Catalog!Waiting(c, "create") \/ Catalog!Waiting(c, "replace")
  BY ServedIsWaiting, SameTables DEF CheckName, StoreInv, CallShape
<1>2. CASE Taken(req[c].owner, req[c].name, req[c].id)
  <2>1. Catalog!Reply(c, {"conflict"})
    BY <1>2, FinishIsReply DEF CheckName
  <2> QED BY <1>1, <1>2, <2>1, FreeMeansNotTaken DEF Catalog!Conflict
<1>3. CASE ~Taken(req[c].owner, req[c].name, req[c].id)
  BY <1>1, <1>3 DEF CheckName, Catalog!vars
<1> QED BY <1>2, <1>3

\* A replace whose UPDATE hits no row finds the schema missing.
LEMMA UpdateSchemaRefines ==
  ASSUME StoreInv, NEW c \in Clients, UpdateSchema(c)
  PROVE  Catalog!Missing(c) \/ UNCHANGED Catalog!vars
<1>1. /\ req[c].owner \in Owners /\ Table' = Table /\ req[c].id \in Ids
      /\ Catalog!Waiting(c, "replace")
  BY ServedIsWaiting, SameTables DEF UpdateSchema, StoreInv, CallShape
<1>2. CASE links[req[c].id] # req[c].owner
  <2>1. Catalog!Reply(c, {"not_found"})
    BY <1>2, FinishIsReply DEF UpdateSchema
  <2> QED BY <1>1, <1>2, <2>1, MineMeansLinked DEF Catalog!Missing
<1>3. CASE links[req[c].id] = req[c].owner
  BY <1>1, <1>3 DEF UpdateSchema, Catalog!vars
<1> QED BY <1>2, <1>3

\* A create happens at its COMMIT.
LEMMA CommitCreateRefines ==
  ASSUME StoreInv, NEW c \in Clients, CommitCreate(c)
  PROVE  Catalog!Create(c)
<1>1. /\ pc[c] = "linked" /\ req[c].op = "create" /\ req[c].id = NoId
      /\ req[c].owner \in Owners /\ Catalog!Waiting(c, "create")
  BY ServedIsWaiting DEF CommitCreate, StoreInv, CallShape
<1>2. newId[c] \in Ids /\ links[newId[c]] = Nobody
  BY <1>1, ConstantsAssumption DEF StoreInv, FreshIds, TypeOK
<1>3. Table[newId[c]] = NoRow
  BY <1>2 DEF Table
<1>4. Table' = [Table EXCEPT ![newId[c]] = [owner |-> req[c].owner, name |-> req[c].name]]
  BY <1>1, <1>2, ConstantsAssumption DEF CommitCreate, Table, StoreInv, TypeOK
<1>5. Catalog!NameFree(req[c].owner, req[c].name, NoId)
  BY <1>1, FreeMeansNotTaken DEF StoreInv, StillFree
<1>6. Catalog!Reply(c, {"ok", "storage"})
  BY FinishIsReply DEF CommitCreate
<1> QED BY <1>1, <1>2, <1>3, <1>4, <1>5, <1>6 DEF Catalog!Create

\* A replace happens at its COMMIT.
LEMMA CommitReplaceRefines ==
  ASSUME StoreInv, NEW c \in Clients, CommitReplace(c)
  PROVE  Catalog!Replace(c)
<1>1. /\ pc[c] = "updated" /\ req[c].op = "replace" /\ req[c].id \in Ids
      /\ req[c].owner \in Owners /\ Catalog!Waiting(c, "replace")
      /\ links[req[c].id] = req[c].owner
  BY ServedIsWaiting DEF CommitReplace, StoreInv, CallShape, RowLocked
<1>2. Table' = [Table EXCEPT ![req[c].id] = [owner |-> req[c].owner, name |-> req[c].name]]
  BY <1>1, ConstantsAssumption DEF CommitReplace, Table, StoreInv, TypeOK
<1>3. Catalog!NameFree(req[c].owner, req[c].name, req[c].id)
  BY <1>1, FreeMeansNotTaken DEF StoreInv, StillFree
<1>4. Catalog!Reply(c, {"ok", "storage"})
  BY FinishIsReply DEF CommitReplace
<1> QED BY <1>1, <1>2, <1>3, <1>4, MineMeansLinked DEF Catalog!Replace

\* A delete happens at its statement.
LEMMA DeleteSchemaRefines ==
  ASSUME StoreInv, NEW c \in Clients, DeleteSchema(c)
  PROVE  Catalog!Delete(c) \/ Catalog!Missing(c)
<1>1. /\ req[c].id \in Ids /\ req[c].owner \in Owners /\ Catalog!Waiting(c, "delete")
  BY ServedIsWaiting DEF DeleteSchema, StoreInv, CallShape
<1>2. CASE links[req[c].id] = req[c].owner
  <2>1. Table' = [Table EXCEPT ![req[c].id] = NoRow]
    BY <1>1, <1>2 DEF DeleteSchema, Table, StoreInv, TypeOK
  <2>2. Catalog!Reply(c, {"ok", "storage"})
    BY <1>2, FinishIsReply DEF DeleteSchema
  <2> QED BY <1>1, <1>2, <2>1, <2>2, MineMeansLinked DEF Catalog!Delete
<1>3. CASE links[req[c].id] # req[c].owner
  <2>1. Catalog!Reply(c, {"not_found"})
    BY <1>3, FinishIsReply DEF DeleteSchema
  <2>2. Table' = Table
    BY <1>3, SameTables DEF DeleteSchema
  <2> QED BY <1>1, <1>3, <2>1, <2>2, MineMeansLinked DEF Catalog!Missing
<1> QED BY <1>2, <1>3

\* The statements of concurrent transactions add up to calls that take effect
\* one at a time.
THEOREM StoreRefinesCatalog == Spec => ImplementsCatalog
<1>1. Init => Catalog!Init
  BY DEF Init, Catalog!Init, Table
<1>2. StoreInv /\ [Next]_vars => [Catalog!Next]_(Catalog!vars)
  <2> SUFFICES ASSUME StoreInv, [Next]_vars
               PROVE  Catalog!Next \/ UNCHANGED Catalog!vars
    OBVIOUS
  <2>1. CASE UNCHANGED vars
    BY <2>1, SameTables DEF vars, tables, Catalog!vars
  <2>2. ASSUME NEW c \in Clients, Arrive(c) PROVE Catalog!Next
    BY <2>2, ArriveRefines DEF Catalog!Next
  <2>3. ASSUME NEW c \in Clients, Advance(c) PROVE Catalog!Next \/ UNCHANGED Catalog!vars
    <3>1. CASE Begin(c) \/ StartDelete(c) \/ InsertSchema(c) \/ InsertLink(c)
      BY <3>1, SameTables
      DEF Begin, StartDelete, InsertSchema, InsertLink, tables, Catalog!vars
    <3>2. CASE FindSchema(c)
      BY <3>2, FindRefines DEF Catalog!Next
    <3>3. CASE AcquireTimeout(c)
      BY <3>3, FailureRefines DEF AcquireTimeout, Catalog!Next
    <3>4. CASE CheckName(c)
      BY <3>4, CheckNameRefines DEF Catalog!Next
    <3>5. CASE CommitCreate(c)
      BY <3>5, CommitCreateRefines DEF Catalog!Next
    <3>6. CASE CommitReplace(c)
      BY <3>6, CommitReplaceRefines DEF Catalog!Next
    <3> QED BY <2>3, <3>1, <3>2, <3>3, <3>4, <3>5, <3>6 DEF Advance
  <2>4. ASSUME NEW c \in Clients, Contend(c) PROVE Catalog!Next \/ UNCHANGED Catalog!vars
    <3>1. CASE LockName(c)
      BY <3>1, SameTables DEF LockName, tables, Catalog!vars
    <3>2. CASE UpdateSchema(c)
      BY <3>2, UpdateSchemaRefines DEF Catalog!Next
    <3>3. CASE DeleteSchema(c)
      BY <3>3, DeleteSchemaRefines DEF Catalog!Next
    <3> QED BY <2>4, <3>1, <3>2, <3>3 DEF Contend
  <2>5. ASSUME NEW c \in Clients, Rollback(c) PROVE Catalog!Next
    BY <2>5, FailureRefines DEF Rollback, Catalog!Next
  <2> QED BY <2>1, <2>2, <2>3, <2>4, <2>5 DEF Next
<1> QED BY <1>1, <1>2, StoreCorrect, PTL DEF Spec, ImplementsCatalog, Catalog!Spec

-----------------------------------------------------------------------------
(* Every step of the store is a step of each owner's listing, or invisible *)
(* in it.                                                                  *)

\* The create of this owner that client c has open.
Creating(o, c) ==
  /\ pc[c] \in HoldsName \cup {"begun"}
  /\ req[c].op = "create" /\ req[c].owner = o

\* An open create has a date.
LEMMA OpenIsDated ==
  ASSUME StoreInv, NEW o \in Owners, NEW c \in Clients
  PROVE  /\ OpenCreates(o)[c] = IF Creating(o, c) THEN stamp[c] ELSE NoRow
         /\ OpenCreates(o)[c] # NoRow <=> Creating(o, c)
  BY ConstantsAssumption DEF OpenCreates, Creating, StoreInv, TypeOK

\* A stored schema has a date.
LEMMA ListedIsDated ==
  ASSUME StoreInv, NEW o \in Owners, NEW i \in Ids
  PROVE  Listed(o)[i] # NoRow <=> links[i] = o
<1>1. links[i] = o => schemas[i] \in Row
  BY ConstantsAssumption DEF StoreInv, NoOrphans, TypeOK
<1> QED BY <1>1, ConstantsAssumption DEF Listed, Row

\* What the listing shows depends on the link and the date of creation alone.
LEMMA SameListed ==
  ASSUME NEW o \in Owners,
         \A i \in Ids : links'[i] = links[i] /\ schemas'[i].created = schemas[i].created
  PROVE  Listed(o)' = Listed(o)
  BY DEF Listed

\* A step that neither starts nor ends a transaction is invisible.
LEMMA MoveIsQuiet ==
  ASSUME StoreInv, NEW o \in Owners, NEW c \in Clients, NEW step,
         Goto(c, step), UNCHANGED <<schemas, links, clock, req, stamp>>,
         step \in HoldsName \cup {"begun"} <=> pc[c] \in HoldsName \cup {"begun"}
  PROVE  UNCHANGED Listing(o)!storeVars
<1>1. OpenCreates(o)' = OpenCreates(o)
  BY DEF Goto, OpenCreates, StoreInv, TypeOK
<1> QED BY <1>1, SameListed DEF Listing!storeVars

\* The calls of the others are as they were when a call ends.
LEMMA FinishClosesOne ==
  ASSUME StoreInv, NEW o \in Owners, NEW c \in Clients, NEW result, Finish(c, result)
  PROVE  OpenCreates(o)' = [OpenCreates(o) EXCEPT ![c] = NoRow]
<1>1. pc'[c] = "idle" /\ \A d \in Clients \ {c} :
        pc'[d] = pc[d] /\ req'[d] = req[d] /\ stamp'[d] = stamp[d]
  BY DEF Finish, Goto, StoreInv, TypeOK
<1> QED BY <1>1 DEF OpenCreates

\* A call that ends without writing was a create that is given up, or it is
\* not of this listing.
LEMMA EndIsGiveUp ==
  ASSUME StoreInv, NEW o \in Owners, NEW c \in Clients, NEW result, Finish(c, result),
         \A i \in Ids : links'[i] = links[i] /\ schemas'[i].created = schemas[i].created
  PROVE  Listing(o)!GiveUp(c) \/ UNCHANGED Listing(o)!storeVars
<1>1. OpenCreates(o)' = [OpenCreates(o) EXCEPT ![c] = NoRow] /\ clock' = clock
  BY FinishClosesOne DEF Finish
<1>2. Listed(o)' = Listed(o)
  BY SameListed
<1>3. CASE OpenCreates(o)[c] # NoRow
  BY <1>1, <1>2, <1>3 DEF Listing!GiveUp
<1>4. CASE OpenCreates(o)[c] = NoRow
  BY <1>1, <1>2, <1>4 DEF OpenCreates, Listing!storeVars
<1> QED BY <1>3, <1>4

\* A call that arrives has no transaction yet.
LEMMA ArriveIsQuiet ==
  ASSUME StoreInv, NEW o \in Owners, NEW c \in Clients, Arrive(c)
  PROVE  UNCHANGED Listing(o)!storeVars
<1>1. /\ UNCHANGED <<schemas, links, clock, stamp>> /\ pc[c] = "idle"
      /\ pc' = pc \/ Goto(c, "acquire")
      /\ \A d \in Clients \ {c} : req'[d] = req[d]
  BY DEF Arrive, RefuseDraft, RefuseId, AcceptCreate, AcceptReplace, AcceptDelete, AcceptFind,
     Accept, StoreInv, TypeOK
<1>2. OpenCreates(o)' = OpenCreates(o)
  BY <1>1 DEF Goto, OpenCreates, StoreInv, TypeOK
<1> QED BY <1>1, <1>2, SameListed DEF Listing!storeVars

\* BEGIN opens a create of this owner, or it lists nothing for it.
LEMMA BeginOpens ==
  ASSUME StoreInv, NEW o \in Owners, NEW c \in Clients, Begin(c)
  PROVE  Listing(o)!Open(c) \/ Listing(o)!TimePasses \/ UNCHANGED Listing(o)!storeVars
<1>1. /\ clock' \in {clock, clock + 1} /\ clock' <= MaxClock /\ pc[c] = "acquire"
      /\ stamp' = [stamp EXCEPT ![c] = clock'] /\ pc' = [pc EXCEPT ![c] = "begun"]
      /\ UNCHANGED <<schemas, links, req>>
  BY DEF Begin, Goto
<1>2. Listed(o)' = Listed(o)
  BY <1>1, SameListed
<1>3. \A d \in Clients \ {c} : pc'[d] = pc[d] /\ stamp'[d] = stamp[d]
  BY <1>1 DEF StoreInv, TypeOK
<1>4. pc'[c] = "begun" /\ stamp'[c] = clock'
  BY <1>1 DEF StoreInv, TypeOK
<1>5. OpenCreates(o)[c] = NoRow
  BY <1>1 DEF OpenCreates
<1>6. CASE req[c].op = "create" /\ req[c].owner = o
  <2>1. OpenCreates(o)' = [OpenCreates(o) EXCEPT ![c] = clock']
    <3>1. OpenCreates(o)'[c] = clock'
      BY <1>1, <1>4, <1>6 DEF OpenCreates
    <3>2. ASSUME NEW d \in Clients \ {c} PROVE OpenCreates(o)'[d] = OpenCreates(o)[d]
      BY <1>1, <1>3 DEF OpenCreates
    <3>3. /\ OpenCreates(o)' = [d \in Clients |-> OpenCreates(o)'[d]]
          /\ DOMAIN OpenCreates(o) = Clients
      BY DEF OpenCreates
    <3> QED BY <3>1, <3>2, <3>3
  <2> QED BY <1>1, <1>2, <1>5, <2>1 DEF Listing!Open
<1>7. CASE ~(req[c].op = "create" /\ req[c].owner = o)
  <2>1. OpenCreates(o)' = OpenCreates(o)
    BY <1>1, <1>3, <1>5, <1>7 DEF OpenCreates
  <2> QED BY <1>1, <1>2, <2>1 DEF Listing!TimePasses, Listing!storeVars
<1> QED BY <1>6, <1>7

\* The commit of a create of this owner shows its row, under the date its
\* transaction started.
LEMMA CommitCreateAppears ==
  ASSUME StoreInv, NEW o \in Owners, NEW c \in Clients, CommitCreate(c)
  PROVE  Listing(o)!Appear(c) \/ UNCHANGED Listing(o)!storeVars
<1> DEFINE i == newId[c]
<1>1. PICK result : Finish(c, result)
  BY DEF CommitCreate
<1>2. i \in Ids /\ links[i] = Nobody /\ pc[c] = "linked" /\ req[c].op = "create"
  BY ConstantsAssumption DEF CommitCreate, StoreInv, FreshIds, TypeOK, CallShape
<1>3. /\ schemas'[i].created = stamp[c] /\ links'[i] = req[c].owner
      /\ \A j \in Ids \ {i} : schemas'[j] = schemas[j] /\ links'[j] = links[j]
  BY <1>2 DEF CommitCreate, StoreInv, TypeOK
<1>4. OpenCreates(o)' = [OpenCreates(o) EXCEPT ![c] = NoRow] /\ clock' = clock
  BY <1>1, FinishClosesOne DEF Finish
<1>5. Listed(o)[i] = NoRow
  BY <1>2, ConstantsAssumption DEF Listed
<1>6. CASE req[c].owner = o
  <2>1. OpenCreates(o)[c] = stamp[c] /\ OpenCreates(o)[c] # NoRow
    BY <1>2, <1>6, OpenIsDated DEF Creating
  <2>2. Listed(o)' = [Listed(o) EXCEPT ![i] = OpenCreates(o)[c]]
    BY <1>2, <1>3, <1>6, <2>1 DEF Listed
  <2> QED BY <1>2, <1>4, <1>5, <2>1, <2>2 DEF Listing!Appear
<1>7. CASE req[c].owner # o
  <2>1. Listed(o)' = Listed(o)
    BY <1>2, <1>3, <1>5, <1>7 DEF Listed
  <2>2. OpenCreates(o)' = OpenCreates(o)
    BY <1>4, <1>7 DEF OpenCreates
  <2> QED BY <1>4, <2>1, <2>2 DEF Listing!storeVars
<1> QED BY <1>6, <1>7

\* A replace leaves the date of creation alone, so no row moves in the listing.
LEMMA CommitReplaceIsQuiet ==
  ASSUME StoreInv, NEW o \in Owners, NEW c \in Clients, CommitReplace(c)
  PROVE  Listing(o)!GiveUp(c) \/ UNCHANGED Listing(o)!storeVars
<1>1. PICK result : Finish(c, result)
  BY DEF CommitReplace
<1>2. req[c].id \in Ids
  BY DEF CommitReplace, StoreInv, CallShape
<1>3. \A i \in Ids : links'[i] = links[i] /\ schemas'[i].created = schemas[i].created
  BY <1>2 DEF CommitReplace, StoreInv, TypeOK
<1> QED BY <1>1, <1>3, EndIsGiveUp

\* A delete takes the row of its owner out of the listing.
LEMMA DeleteDisappears ==
  ASSUME StoreInv, NEW o \in Owners, NEW c \in Clients, DeleteSchema(c)
  PROVE  \/ Listing(o)!Disappear(req[c].id)
         \/ Listing(o)!GiveUp(c) \/ UNCHANGED Listing(o)!storeVars
<1> DEFINE i == req[c].id
<1>1. PICK result : Finish(c, result)
  BY DEF DeleteSchema
<1>2. i \in Ids /\ pc[c] = "deleting"
  BY DEF DeleteSchema, StoreInv, CallShape
<1>3. CASE links[i] # req[c].owner
  BY <1>1, <1>3, EndIsGiveUp DEF DeleteSchema, tables
<1>4. CASE links[i] = req[c].owner
  <2>1. /\ links'[i] = Nobody
        /\ \A j \in Ids \ {i} : schemas'[j] = schemas[j] /\ links'[j] = links[j]
    BY <1>2, <1>4 DEF DeleteSchema, StoreInv, TypeOK
  <2>2. OpenCreates(o)' = OpenCreates(o) /\ clock' = clock
    <3>1. OpenCreates(o)[c] = NoRow
      BY <1>2 DEF OpenCreates
    <3>2. OpenCreates(o)' = [OpenCreates(o) EXCEPT ![c] = NoRow] /\ clock' = clock
      BY <1>1, FinishClosesOne DEF Finish
    <3> QED BY <3>1, <3>2 DEF OpenCreates
  <2>3. CASE req[c].owner = o
    <3>1. Listed(o)[i] # NoRow
      BY <1>2, <1>4, <2>3, ListedIsDated
    <3>2. Listed(o)' = [Listed(o) EXCEPT ![i] = NoRow]
      BY <1>2, <2>1, ConstantsAssumption DEF Listed
    <3> QED BY <2>2, <3>1, <3>2 DEF Listing!Disappear
  <2>4. CASE req[c].owner # o
    <3>1. Listed(o)' = Listed(o)
      BY <1>2, <1>4, <2>1, <2>4, ConstantsAssumption DEF Listed
    <3> QED BY <2>2, <3>1 DEF Listing!storeVars
  <2> QED BY <2>3, <2>4
<1> QED BY <1>3, <1>4

\* SchemaPaging's reader may take the store for SchemaListing, whatever calls
\* run at once: for each owner a row appears under the date its transaction
\* started, and nothing but a delete moves it from there.
THEOREM StoreRefinesListing == Spec => ImplementsListing
<1>1. Init => \A o \in Owners : Listing(o)!StoreInit
  BY ConstantsAssumption DEF Init, Listing!StoreInit, Listed, OpenCreates
<1>2. StoreInv /\ [Next]_vars =>
        \A o \in Owners : Listing(o)!StoreNext \/ UNCHANGED Listing(o)!storeVars
  <2> SUFFICES ASSUME StoreInv, [Next]_vars, NEW o \in Owners
               PROVE  Listing(o)!StoreNext \/ UNCHANGED Listing(o)!storeVars
    OBVIOUS
  <2>1. CASE UNCHANGED vars
    BY <2>1 DEF vars, Listing!storeVars, Listed, OpenCreates
  <2>2. ASSUME NEW c \in Clients, NEW result, Finish(c, result), UNCHANGED tables
        PROVE  Listing(o)!StoreNext \/ UNCHANGED Listing(o)!storeVars
    BY <2>2, EndIsGiveUp DEF tables, Listing!StoreNext
  <2>3. ASSUME NEW c \in Clients, Advance(c)
        PROVE  Listing(o)!StoreNext \/ UNCHANGED Listing(o)!storeVars
    <3>1. CASE Begin(c)
      BY <3>1, BeginOpens DEF Listing!StoreNext
    <3>2. CASE StartDelete(c) \/ InsertSchema(c) \/ InsertLink(c)
      BY <3>2, MoveIsQuiet DEF StartDelete, InsertSchema, InsertLink
    <3>3. CASE FindSchema(c) \/ AcquireTimeout(c)
      BY <3>3, <2>2 DEF FindSchema, AcquireTimeout
    <3>4. CASE CheckName(c)
      BY <3>4, <2>2, MoveIsQuiet DEF CheckName, tables
    <3>5. CASE CommitCreate(c)
      BY <3>5, CommitCreateAppears DEF Listing!StoreNext
    <3>6. CASE CommitReplace(c)
      BY <3>6, CommitReplaceIsQuiet DEF Listing!StoreNext
    <3> QED BY <2>3, <3>1, <3>2, <3>3, <3>4, <3>5, <3>6 DEF Advance
  <2>4. ASSUME NEW c \in Clients, Contend(c)
        PROVE  Listing(o)!StoreNext \/ UNCHANGED Listing(o)!storeVars
    <3>1. CASE LockName(c)
      BY <3>1, MoveIsQuiet DEF LockName
    <3>2. CASE UpdateSchema(c)
      BY <3>2, <2>2, MoveIsQuiet DEF UpdateSchema, tables
    <3>3. CASE DeleteSchema(c)
      <4>1. req[c].id \in Ids
        BY <3>3 DEF DeleteSchema, StoreInv, CallShape
      <4> QED BY <3>3, <4>1, DeleteDisappears DEF Listing!StoreNext
    <3> QED BY <2>4, <3>1, <3>2, <3>3 DEF Contend
  <2>5. ASSUME NEW c \in Clients, Rollback(c)
        PROVE  Listing(o)!StoreNext \/ UNCHANGED Listing(o)!storeVars
    BY <2>5, <2>2 DEF Rollback
  <2>6. ASSUME NEW c \in Clients, Arrive(c) PROVE UNCHANGED Listing(o)!storeVars
    BY <2>6, ArriveIsQuiet
  <2> QED BY <2>1, <2>3, <2>4, <2>5, <2>6 DEF Next
<1> QED BY <1>1, <1>2, StoreCorrect, PTL DEF Spec, ImplementsListing
=============================================================================
