------------------------ MODULE AccessControlProofs -------------------------
(***************************************************************************)
(* The guard and the handlers of Users keep their promises for every       *)
(* number of tasks, accounts and roles, whatever calls arrive: the         *)
(* inductive invariant AccessInv is preserved by each action.              *)
(***************************************************************************)
EXTENDS AccessControl, FiniteSetTheorems, TLAPS

Steps   == {"idle", "find", "bypass", "permission", "password", "done"} \cup Handling
Writing == {"add", "remove", "commit"}
Guarded == {"find", "bypass", "permission"} \cup Handling
Updates == {"patch", "patch_my_user", "delete"}

Answers == {"none", "ok", "tokens", "unauthorized", "not_found", "invalid", "unprocessable", "unknown"}
Calls   == [op : STRING \cup {"none"}, sub : Ids \cup {NoId}, fresh : BOOLEAN,
            target : Ids \cup {NoId}, fields : Fields]
History == [ever : BOOLEAN, always : BOOLEAN]

\* What TypeOK leaves open.
Shapes ==
  /\ pc \in [Clients -> Steps] /\ call \in [Clients -> Calls]
  /\ answer \in [Clients -> Answers] /\ seen \in [Clients -> Values \cup {Keep}]
  /\ held \in [Clients -> History] /\ failed \in [Clients -> BOOLEAN]

\* A call has what the extractors check.
Asked(c) ==
  /\ call[c].op \in {"get", "patch", "delete"} => call[c].target \in Ids
  /\ call[c].op = "create" => call[c].fields.set \in Row

\* Past the token, the caller is the account it names; past get_identity that
\* account has a row, which no operation takes away.
Known(c) ==
  (pc[c] \in Guarded /\ call[c].op # "login") =>
    /\ call[c].fresh /\ who[c] = call[c].sub /\ who[c] \in Ids
    /\ pc[c] # "find" => who[c] \in Rows

\* Which calls come to which step.
Stage(c) ==
  /\ pc[c] \in {"bypass", "permission"} => AccessFor(call[c].op).kind = "requires"
  /\ pc[c] = "password" => call[c].op = "login" /\ who[c] \in Ids
  /\ pc[c] = "columns" => call[c].op \in Updates /\ Target(c) \in Rows
  /\ pc[c] \in Writing => call[c].op \in Updates \cup {"create"}

\* An open transaction holds what its own call asks for and nothing else.
Writes(c) ==
  /\ pc[c] \notin Writing => tx[c] = NoTx
  /\ pc[c] \in Writing =>
       /\ tx[c].user \in Ids
       /\ tx[c].add \subseteq Wanted(c).add /\ tx[c].del \subseteq Wanted(c).remove
       /\ call[c].op = "create" => tx[c].set \in Row
       /\ call[c].op # "create" => tx[c].user = Target(c) /\ Target(c) \in Rows /\ tx[c].set = Wanted(c).set

\* The history covers the present, and a handler's caller was seen entitled.
Watched(c) ==
  /\ call[c] # NoCall => /\ Entitled(roles, call[c]) => held[c].ever
                         /\ held[c].always => Entitled(roles, call[c])
  /\ (pc[c] \in Handling /\ call[c].op # "login") => held[c].ever

\* The one task of EntitledThroughoutIsServed.
RightlyRefused(c) ==
  (/\ pc[c] = "done" /\ answer[c] = "unauthorized" /\ call[c].op \notin {"login", "unlisted"}
   /\ call[c].fresh /\ ~failed[c])
  => ~held[c].always

CallOK(c) == Asked(c) /\ Known(c) /\ Stage(c) /\ Writes(c) /\ Watched(c) /\ RightlyRefused(c)

\* The tasks that may still issue a pair of tokens.
Signing == {c \in Clients : pc[c] \notin {"idle", "done"} /\ AccessFor(call[c].op) = Open}
Budget  == signIns + Cardinality(Signing) <= MaxSignIns

AccessInv == TypeOK /\ Shapes /\ (\A c \in Clients : CallOK(c)) /\ Budget

USE DEF Steps, Writing, Guarded, Updates, Handling, Answers

-----------------------------------------------------------------------------
(* The guard's tables.                                                     *)

\* access_for names the permission of the call, and asks for one whenever
\* there is one.
LEMMA AccessFacts ==
  ASSUME NEW op
  PROVE  /\ AccessFor(op).kind = "requires" <=> Permission(op) # "none"
         /\ AccessFor(op).kind = "requires" => /\ AccessFor(op).action = Permission(op)
                                               /\ Permission(op) \in Actions
                                               /\ op \notin {"login", "refresh_token"}
         /\ AccessFor(op).kind = "denied" <=> op = "unlisted"
         /\ AccessFor(op).kind = "open" <=> op \in {"login", "refresh_token"}
         /\ AccessFor(op) = Open <=> op \in {"login", "refresh_token"}
         /\ AccessFor(op).kind \in {"open", "authenticated", "requires", "denied"}
BY AccessAssumption DEF AccessFor, Permission, Open, Authenticated, Denied, Requires

\* The super role has every permission, so at any one moment has_permission
\* alone decides.
LEMMA SuperRoleIsGranted ==
  ASSUME NEW rs, NEW r, AccessFor(r.op).kind = "requires", Entitled(rs, r)
  PROVE  HasPermission(rs, r.sub, Permission(r.op))
<1>1. Permission(r.op) # "none" /\ Permission(r.op) \in Actions
  BY AccessFacts
<1> QED BY <1>1, AccessAssumption DEF Entitled, HasPermission, RoleBypass

\* What either read of the guard finds is entitlement.
LEMMA ReadsEntitle ==
  ASSUME NEW rs, NEW r, r.sub # NoId,
         RoleBypass(rs, r.sub) \/ HasPermission(rs, r.sub, AccessFor(r.op).action),
         AccessFor(r.op).kind = "requires"
  PROVE  Entitled(rs, r)
BY AccessFacts DEF Entitled

\* An operation that asks for no permission is open to every account.
LEMMA NeedsNone ==
  ASSUME NEW rs, NEW r, AccessFor(r.op).kind # "requires"
  PROVE  Entitled(rs, r)
BY AccessFacts DEF Entitled

-----------------------------------------------------------------------------
(* Steps as they look to one task.                                         *)

RowsStay == \A u \in Ids : users[u] # NoRow => users'[u] # NoRow

\* held of one task, after a step that left the roles and it alone, or one of
\* Users.
HeldStep(c) ==
  \/ roles' = roles /\ held'[c] = held[c]
  \/ held'[c] = IF call[c] = NoCall THEN Unheld
                ELSE [ever |-> held[c].ever \/ Entitled(roles', call[c]),
                      always |-> held[c].always /\ Entitled(roles', call[c])]

\* What the history says of a call only grows.
LEMMA HeldGrows ==
  ASSUME NEW c \in Clients, Shapes, CallOK(c), call'[c] = call[c], HeldStep(c)
  PROVE  /\ held'[c].always => held[c].always
         /\ call[c] # NoCall => (held[c].ever => held'[c].ever)
         /\ call[c] # NoCall => /\ Entitled(roles', call[c]) => held'[c].ever
                                /\ held'[c].always => Entitled(roles', call[c])
<1> USE DEF Shapes, History, HeldStep, Unheld
<1>1. held[c].ever \in BOOLEAN /\ held[c].always \in BOOLEAN
  OBVIOUS
<1>2. Entitled(roles', call[c]) \in BOOLEAN
  BY DEF Entitled, RoleBypass, HasPermission
<1>3. CASE roles' = roles /\ held'[c] = held[c]
  BY <1>3 DEF CallOK, Watched
<1>4. CASE call[c] = NoCall /\ held'[c] = Unheld
  BY <1>4
<1>5. CASE held'[c] = [ever |-> held[c].ever \/ Entitled(roles', call[c]),
                       always |-> held[c].always /\ Entitled(roles', call[c])]
  BY <1>1, <1>2, <1>5
<1> QED BY <1>3, <1>4, <1>5

\* A task whose call did not move.
LEMMA OtherKeeps ==
  ASSUME Shapes, NEW d \in Clients, CallOK(d), RowsStay, HeldStep(d),
         pc'[d] = pc[d], call'[d] = call[d], who'[d] = who[d], tx'[d] = tx[d],
         answer'[d] = answer[d], failed'[d] = failed[d]
  PROVE  CallOK(d)'
<1>1. Rows \subseteq Rows'
  BY DEF Rows, RowsStay
<1>2. Target(d)' = Target(d) /\ Wanted(d)' = Wanted(d)
  BY DEF Target, Wanted
<1>3. Asked(d)' /\ Known(d)' /\ Stage(d)'
  BY <1>1, <1>2 DEF CallOK, Asked, Known, Stage
<1>4. Writes(d)'
  BY <1>1, <1>2 DEF CallOK, Writes
<1>5. pc[d] \in Handling /\ call[d].op # "login" => call[d] # NoCall
  BY DEF CallOK, Known, NoCall
<1>6. Watched(d)'
  BY <1>5, HeldGrows DEF CallOK, Watched
<1>7. RightlyRefused(d)'
  BY HeldGrows DEF CallOK, RightlyRefused
<1> QED BY <1>3, <1>4, <1>6, <1>7 DEF CallOK

\* A task whose call was answered.
LEMMA DoneKeeps ==
  ASSUME Shapes, NEW c \in Clients, CallOK(c), HeldStep(c), call'[c] = call[c],
         pc'[c] = "done", tx'[c] = NoTx,
         \/ answer'[c] # "unauthorized" \/ call[c].op \in {"login", "unlisted"}
         \/ ~call[c].fresh \/ failed'[c] \/ ~held'[c].always
  PROVE  CallOK(c)'
<1>1. Asked(c)' /\ Known(c)' /\ Stage(c)' /\ Writes(c)'
  BY DEF CallOK, Asked, Known, Stage, Writes
<1>2. Watched(c)'
  BY HeldGrows DEF Watched
<1>3. RightlyRefused(c)'
  BY DEF RightlyRefused
<1> QED BY <1>1, <1>2, <1>3 DEF CallOK

\* The two flags of a history, put together.
LEMMA HistoryPair ==
  ASSUME NEW a \in BOOLEAN, NEW b \in BOOLEAN
  PROVE  [ever |-> a, always |-> b] \in History
BY DEF History

\* The lifetimes and the bounds are numbers.
LEMMA Bounds == TokenTtl \in Nat /\ RefreshTtl \in Nat /\ MaxNow \in Nat /\ MaxSignIns \in Nat
BY AccessAssumption

\* Neither form of history loses its shape.
LEMMA HistoryKept ==
  ASSUME Shapes, UNCHANGED <<roles, held>> \/ Observe
  PROVE  held' \in [Clients -> History] /\ \A d \in Clients : HeldStep(d)
<1>1. CASE UNCHANGED <<roles, held>>
  BY <1>1 DEF Shapes, HeldStep
<1>2. CASE Observe
  <2>1. \A d \in Clients :
          held'[d] = IF call[d] = NoCall THEN Unheld
                     ELSE [ever |-> held[d].ever \/ Entitled(roles', call[d]),
                           always |-> held[d].always /\ Entitled(roles', call[d])]
    BY <1>2 DEF Observe
  <2>2. ASSUME NEW d \in Clients PROVE held'[d] \in History
    <3>1. (held[d].ever \/ Entitled(roles', call[d])) \in BOOLEAN
          /\ (held[d].always /\ Entitled(roles', call[d])) \in BOOLEAN
      OBVIOUS
    <3>2. CASE call[d] = NoCall
      BY <2>1, <3>2, HistoryPair DEF Unheld
    <3>3. CASE call[d] # NoCall
      BY <2>1, <3>1, <3>3, HistoryPair
    <3> QED BY <3>2, <3>3
  <2> QED BY <1>2, <2>1, <2>2 DEF Observe, HeldStep
<1> QED BY <1>1, <1>2

\* A step of one task: the others stand where they stood.
Alone(c) ==
  \A d \in Clients \ {c} :
    /\ pc'[d] = pc[d] /\ call'[d] = call[d] /\ who'[d] = who[d] /\ tx'[d] = tx[d]
    /\ answer'[d] = answer[d] /\ failed'[d] = failed[d] /\ HeldStep(d)

\* A task's step that leaves the tables alone is seen by its own call only.
LEMMA OneTask ==
  ASSUME AccessInv, NEW c \in Clients, Alone(c), RowsStay,
         TypeOK', Shapes', CallOK(c)', Budget'
  PROVE  AccessInv'
<1>1. \A d \in Clients \ {c} : CallOK(d)'
  BY OtherKeeps DEF AccessInv, Alone
<1> QED BY <1>1 DEF AccessInv

\* There are finitely many sign ins under way, for Budget to count.
LEMMA SigningIsFinite ==
  IsFiniteSet(Signing) /\ IsFiniteSet(Signing') /\ Cardinality(Signing) \in Nat /\ Cardinality(Signing') \in Nat
<1>1. Signing \in SUBSET Clients /\ Signing' \in SUBSET Clients
  BY DEF Signing
<1>2. IsFiniteSet(Signing) /\ IsFiniteSet(Signing')
  BY <1>1, FS_Subset, AccessAssumption
<1> QED BY <1>2, FS_CardinalityType

\* No pair of tokens is issued and no sign in begins.
LEMMA BudgetKept ==
  ASSUME AccessInv, NEW c \in Clients, Alone(c), signIns' = signIns,
         pc'[c] \notin {"idle", "done"} => pc[c] \notin {"idle", "done"} /\ call'[c] = call[c]
  PROVE  Budget'
<1>1. Signing' \in SUBSET Signing
  BY DEF Signing, Alone
<1>2. Cardinality(Signing') <= Cardinality(Signing)
  BY <1>1, FS_Subset, SigningIsFinite
<1>3. signIns \in Nat /\ MaxSignIns \in Nat
  BY Bounds DEF AccessInv, TypeOK
<1>4. signIns + Cardinality(Signing) <= MaxSignIns
  BY DEF AccessInv, Budget
<1> QED BY <1>2, <1>3, <1>4, SigningIsFinite DEF Budget

-----------------------------------------------------------------------------
(* A call is answered, or goes on to its next step.                        *)

\* Answering a call keeps its fields in their types.
LEMMA FinishMoves ==
  ASSUME TypeOK, Shapes, NEW c \in Clients, NEW result \in Answers, Finish(c, result)
  PROVE  /\ pc' \in [Clients -> Steps] /\ tx' \in [Clients -> Tx] /\ answer' \in [Clients -> Answers]
         /\ pc'[c] = "done" /\ tx'[c] = NoTx /\ answer'[c] = result
         /\ \A d \in Clients \ {c} : pc'[d] = pc[d] /\ tx'[d] = tx[d] /\ answer'[d] = answer[d]
<1>1. NoTx \in Tx
  BY DEF NoTx, Tx, NoChange, Change
<1> QED BY <1>1 DEF Finish, Goto, TypeOK, Shapes

\* A call that is answered.
LEMMA AnswerKeepsInv ==
  ASSUME AccessInv, NEW c \in Clients, NEW result \in Answers, Finish(c, result),
         UNCHANGED <<users, roles, call, who, seen, clock>>,
         UNCHANGED held \/ Observe,
         failed' \in [Clients -> BOOLEAN], \A d \in Clients \ {c} : failed'[d] = failed[d],
         \/ result # "unauthorized" \/ call[c].op \in {"login", "unlisted"}
         \/ ~call[c].fresh \/ failed'[c] \/ ~held'[c].always
  PROVE  AccessInv'
<1>0. TypeOK /\ Shapes /\ CallOK(c)
  BY DEF AccessInv
<1>1. held' \in [Clients -> History] /\ \A d \in Clients : HeldStep(d)
  BY <1>0, HistoryKept
<1>2. /\ pc' \in [Clients -> Steps] /\ tx' \in [Clients -> Tx] /\ answer' \in [Clients -> Answers]
      /\ pc'[c] = "done" /\ tx'[c] = NoTx /\ answer'[c] = result
      /\ \A d \in Clients \ {c} : pc'[d] = pc[d] /\ tx'[d] = tx[d] /\ answer'[d] = answer[d]
  BY <1>0, FinishMoves
<1>3. Alone(c)
  BY <1>1, <1>2 DEF Alone
<1>4. CallOK(c)'
  BY <1>0, <1>1, <1>2, DoneKeeps
<1>5. TypeOK' /\ Shapes'
  BY <1>0, <1>1, <1>2 DEF TypeOK, Shapes, clock
<1>6. Budget'
  BY <1>2, <1>3, BudgetKept DEF clock
<1> QED BY <1>3, <1>4, <1>5, <1>6, OneTask DEF RowsStay

\* The call moves on; what its next step relies on is left to the action.
LEMMA MoveKeepsInv ==
  ASSUME AccessInv, NEW c \in Clients, NEW step \in Steps, Goto(c, step),
         pc[c] \notin {"idle", "done"},
         UNCHANGED <<users, roles, call, answer, clock>>,
         UNCHANGED held \/ Observe,
         failed' \in [Clients -> BOOLEAN], who' \in [Clients -> Ids \cup {NoId}],
         tx' \in [Clients -> Tx], seen' \in [Clients -> Values \cup {Keep}],
         \A d \in Clients \ {c} : failed'[d] = failed[d] /\ who'[d] = who[d] /\ tx'[d] = tx[d],
         CallOK(c)'
  PROVE  AccessInv'
<1>0. TypeOK /\ Shapes /\ CallOK(c)
  BY DEF AccessInv
<1>1. held' \in [Clients -> History] /\ \A d \in Clients : HeldStep(d)
  BY <1>0, HistoryKept
<1>2. pc' \in [Clients -> Steps] /\ \A d \in Clients \ {c} : pc'[d] = pc[d]
  BY <1>0 DEF Goto, Shapes
<1>3. Alone(c)
  BY <1>1, <1>2 DEF Alone
<1>4. TypeOK' /\ Shapes'
  BY <1>0, <1>1, <1>2 DEF TypeOK, Shapes, clock
<1>5. Budget'
  BY <1>2, <1>3, BudgetKept DEF clock
<1> QED BY <1>3, <1>4, <1>5, OneTask DEF RowsStay

-----------------------------------------------------------------------------
(* Arrival, the guard, and the answer.                                     *)

\* A call that may issue tokens begins only when there is a pair left.
LEMMA ArriveKeepsBudget ==
  ASSUME AccessInv, NEW c \in Clients, Alone(c), signIns' = signIns,
         AccessFor(call'[c].op) = Open => SignInsLeft
  PROVE  Budget'
<1>1. signIns \in Nat /\ MaxSignIns \in Nat
  BY Bounds DEF AccessInv, TypeOK
<1>2. CASE c \in Signing'
  <2>1. Signing' \in SUBSET (Signing \cup {c})
    BY DEF Signing, Alone
  <2>2. /\ IsFiniteSet(Signing \cup {c}) /\ Cardinality(Signing \cup {c}) \in Nat
        /\ Cardinality(Signing \cup {c}) <= Cardinality(Signing) + 1
    <3>1. IsFiniteSet(Signing \cup {c})
          /\ Cardinality(Signing \cup {c}) = IF c \in Signing THEN Cardinality(Signing)
                                             ELSE Cardinality(Signing) + 1
      BY SigningIsFinite, FS_AddElement
    <3> QED BY <3>1, SigningIsFinite
  <2>3. Cardinality(Signing') <= Cardinality(Signing \cup {c})
    BY <2>1, <2>2, FS_Subset
  <2>4. SignInsLeft
    BY <1>2 DEF Signing
  <2>5. signIns + Cardinality(Signing) < MaxSignIns
    BY <2>4 DEF SignInsLeft, Signing
  <2> QED BY <1>1, <2>2, <2>3, <2>5, SigningIsFinite DEF Budget
<1>3. CASE c \notin Signing'
  <2>1. Signing' \in SUBSET Signing
    BY <1>3 DEF Signing, Alone
  <2>2. Cardinality(Signing') <= Cardinality(Signing)
    BY <2>1, FS_Subset, SigningIsFinite
  <2>3. signIns + Cardinality(Signing) <= MaxSignIns
    BY DEF AccessInv, Budget
  <2> QED BY <1>1, <2>2, <2>3, SigningIsFinite DEF Budget
<1> QED BY <1>2, <1>3

\* The token is the caller's word for who it is: only a valid one leads on.
LEMMA ArriveKeepsInv ==
  ASSUME AccessInv, NEW c \in Clients, NEW r \in Requests(c), NEW token \in tokens \cup {NoToken},
         AccessFor(r.op) = Open => SignInsLeft, Arrive(c, r, token)
  PROVE  AccessInv'
<1> DEFINE full == [op |-> r.op, sub |-> token.sub, fresh |-> token # NoToken /\ now <= token.exp,
                    target |-> r.target, fields |-> r.fields]
           entitled == Entitled(roles, full)
<1>0. TypeOK /\ Shapes /\ CallOK(c) /\ pc[c] = "idle" /\ tx[c] = NoTx
  BY DEF AccessInv, Arrive, CallOK, Writes
<1>1. /\ call' = [call EXCEPT ![c] = full]
      /\ held' = [held EXCEPT ![c] = [ever |-> entitled, always |-> entitled]]
      /\ UNCHANGED <<users, roles, now, tokens, signIns, seen, failed>>
  BY DEF Arrive, tables, clock
<1>2. /\ r.op \in STRING /\ r.target \in Ids \cup {NoId} /\ r.fields \in Fields
      /\ r.op \in {"get", "patch", "delete"} => r.target \in Ids
      /\ r.op = "create" => r.fields.set \in Row
  BY RequestsAssumption
<1>3. token.sub \in Ids \cup {NoId} /\ (token # NoToken => token \in tokens /\ token.sub \in Ids)
  BY <1>0 DEF TypeOK, Token, NoToken
<1>4. full \in Calls
  <2>1. (token # NoToken /\ now <= token.exp) \in BOOLEAN
    OBVIOUS
  <2> QED BY <1>2, <1>3, <2>1 DEF Calls
<1>5. entitled \in BOOLEAN
  BY DEF Entitled, RoleBypass, HasPermission
<1>6. \/ /\ pc' = [pc EXCEPT ![c] = "done"] /\ tx' = [tx EXCEPT ![c] = NoTx]
         /\ answer' = [answer EXCEPT ![c] = "unauthorized"] /\ who' = who
         /\ r.op = "unlisted" \/ ~Valid(token)
      \/ pc' = [pc EXCEPT ![c] = "handler"] /\ r.op = "login" /\ UNCHANGED <<who, answer, tx>>
      \/ /\ pc' = [pc EXCEPT ![c] = "find"] /\ Valid(token) /\ who' = [who EXCEPT ![c] = token.sub]
         /\ UNCHANGED <<answer, tx>>
  BY AccessFacts DEF Arrive, Finish, Goto
<1>7. /\ pc' \in [Clients -> Steps] /\ answer' \in [Clients -> Answers] /\ tx' \in [Clients -> Tx]
      /\ who' \in [Clients -> Ids \cup {NoId}] /\ tx'[c] = NoTx
      /\ \A d \in Clients \ {c} : pc'[d] = pc[d] /\ tx'[d] = tx[d] /\ answer'[d] = answer[d] /\ who'[d] = who[d]
  <2>1. NoTx \in Tx
    BY <1>0 DEF TypeOK
  <2>2. \E step \in {"done", "handler", "find"} : pc' = [pc EXCEPT ![c] = step]
    BY <1>6
  <2>3. pc' \in [Clients -> Steps] /\ \A d \in Clients \ {c} : pc'[d] = pc[d]
    BY <1>0, <2>2 DEF Shapes
  <2>4. answer' = answer \/ answer' = [answer EXCEPT ![c] = "unauthorized"]
    BY <1>6
  <2>5. answer' \in [Clients -> Answers] /\ \A d \in Clients \ {c} : answer'[d] = answer[d]
    BY <1>0, <2>4 DEF Shapes
  <2>6. tx' = tx \/ tx' = [tx EXCEPT ![c] = NoTx]
    BY <1>6
  <2>7. tx' \in [Clients -> Tx] /\ tx'[c] = NoTx /\ \A d \in Clients \ {c} : tx'[d] = tx[d]
    BY <1>0, <2>1, <2>6 DEF TypeOK
  <2>8. who' = who \/ who' = [who EXCEPT ![c] = token.sub]
    BY <1>6
  <2>9. who' \in [Clients -> Ids \cup {NoId}] /\ \A d \in Clients \ {c} : who'[d] = who[d]
    BY <1>0, <1>3, <2>8 DEF TypeOK
  <2> QED BY <2>7, <2>9, <2>3, <2>5
<1>8. /\ call' \in [Clients -> Calls] /\ call'[c] = full
      /\ \A d \in Clients \ {c} : call'[d] = call[d]
  BY <1>0, <1>1, <1>4 DEF Shapes
<1>9. /\ held' \in [Clients -> History] /\ held'[c] = [ever |-> entitled, always |-> entitled]
      /\ \A d \in Clients \ {c} : held'[d] = held[d]
  BY <1>0, <1>1, <1>5, HistoryPair DEF Shapes
<1> HIDE DEF entitled
<1>10. Alone(c)
  BY <1>1, <1>7, <1>8, <1>9 DEF Alone, HeldStep
<1>11. TypeOK'
  <2>1. \A d \in Clients : call'[d].sub \in {t.sub : t \in tokens} \cup {NoId}
    <3>1. full.sub \in {t.sub : t \in tokens} \cup {NoId}
      BY <1>3 DEF NoToken
    <3> QED BY <1>0, <1>8, <3>1 DEF TypeOK
  <2> QED BY <1>0, <1>1, <1>7, <2>1 DEF TypeOK
<1>12. Shapes'
  BY <1>0, <1>1, <1>7, <1>8, <1>9 DEF Shapes
<1>13. CallOK(c)'
  <2>1. Asked(c)'
    BY <1>2, <1>8 DEF Asked
  <2>2. Known(c)'
    <3>1. pc'[c] = "find" => Valid(token) /\ who'[c] = token.sub
      BY <1>0, <1>6 DEF Shapes, TypeOK
    <3>2. pc'[c] \in {"done", "find"} \/ (pc'[c] = "handler" /\ r.op = "login")
      BY <1>0, <1>6 DEF Shapes
    <3>3. Valid(token) => full.fresh = TRUE /\ full.sub = token.sub /\ token.sub \in Ids
      BY <1>3 DEF Valid
    <3> HIDE DEF full
    <3>4. full.op = r.op
      BY DEF full
    <3> QED BY <1>8, <3>1, <3>2, <3>3, <3>4 DEF Known
  <2>3. Stage(c)' /\ Writes(c)'
    BY <1>0, <1>6, <1>7 DEF Stage, Writes, Shapes
  <2>4. Watched(c)'
    <3>1. Entitled(roles', call'[c]) = entitled
      BY <1>1, <1>8 DEF entitled
    <3>2. pc'[c] \in Handling => r.op = "login"
      BY <1>0, <1>6 DEF Shapes
    <3>3. held'[c].ever = entitled /\ held'[c].always = entitled /\ call'[c].op = r.op
      BY <1>8, <1>9
    <3> HIDE DEF full
    <3> QED BY <1>5, <3>1, <3>2, <3>3 DEF Watched
  <2>5. RightlyRefused(c)'
    <3>1. pc'[c] = "done" => r.op = "unlisted" \/ ~Valid(token)
      BY <1>0, <1>6 DEF Shapes
    <3>2. ~Valid(token) => full.fresh = FALSE
      BY DEF Valid
    <3>3. call'[c].op = r.op /\ call'[c].fresh = full.fresh
      BY <1>8
    <3> HIDE DEF full
    <3> QED BY <3>1, <3>2, <3>3 DEF RightlyRefused
  <2> QED BY <2>1, <2>2, <2>3, <2>4, <2>5 DEF CallOK
<1>14. Budget'
  BY <1>1, <1>8, <1>10, ArriveKeepsBudget
<1> QED BY <1>1, <1>10, <1>11, <1>12, <1>13, <1>14, OneTask DEF RowsStay

\* A refusal of the guard: a query failed, or the caller is not entitled now.
LEMMA RefuseKeepsInv ==
  ASSUME AccessInv, NEW c \in Clients, NEW broke \in BOOLEAN, Refuse(c, broke),
         UNCHANGED <<users, roles, call, who, seen, clock, held>>,
         broke \/ ~held[c].always
  PROVE  AccessInv'
<1>1. /\ Finish(c, "unauthorized") /\ failed' \in [Clients -> BOOLEAN] /\ failed'[c] = broke
      /\ \A d \in Clients \ {c} : failed'[d] = failed[d]
  BY DEF Refuse, AccessInv, Shapes
<1> QED BY <1>1, AnswerKeepsInv

\* get_identity reads the account of the token's subject.
LEMMA GetIdentityKeepsInv ==
  ASSUME AccessInv, NEW c \in Clients, GetIdentity(c)
  PROVE  AccessInv'
<1>0. TypeOK /\ Shapes /\ CallOK(c) /\ pc[c] = "find"
  BY DEF AccessInv, GetIdentity
<1>1. CASE Refuse(c, TRUE)
  BY <1>1, RefuseKeepsInv DEF GetIdentity, tables
<1>2. CASE ~Refuse(c, TRUE)
  <2> DEFINE step == IF AccessFor(call[c].op).kind = "requires" THEN "bypass" ELSE "handler"
  <2>1. /\ users[who[c]] # NoRow /\ Goto(c, step)
        /\ UNCHANGED <<users, roles, tx, call, who, answer, clock, seen, held, failed>>
    BY <1>2 DEF GetIdentity, tables
  <2>2. step \in Steps /\ pc'[c] = step
    BY <1>0, <2>1 DEF Goto, Shapes
  <2>3. Asked(c)' /\ RightlyRefused(c)'
    BY <1>0, <2>1, <2>2 DEF CallOK, Asked, RightlyRefused
  <2>4. Known(c)'
    BY <1>0, <2>1, <2>2 DEF CallOK, Known, Rows
  <2>5. Stage(c)' /\ Writes(c)'
    BY <1>0, <2>1, <2>2 DEF CallOK, Stage, Writes
  <2>6. Watched(c)'
    <3>1. step = "handler" => Entitled(roles, call[c])
      BY NeedsNone
    <3>2. call[c].op # "login" => call[c] # NoCall
      BY <1>0 DEF CallOK, Known, NoCall
    <3> QED BY <1>0, <2>1, <2>2, <3>1, <3>2 DEF CallOK, Watched
  <2> QED BY <1>0, <2>1, <2>2, <2>3, <2>4, <2>5, <2>6, MoveKeepsInv DEF CallOK, TypeOK, Shapes
<1> QED BY <1>1, <1>2

\* The two reads of RbacEngine::can on the way to the handler.
LEMMA GuardMoveKeepsInv ==
  ASSUME AccessInv, NEW c \in Clients, pc[c] \in {"bypass", "permission"},
         NEW step \in {"permission", "handler"}, Goto(c, step),
         step = "handler" => Entitled(roles, call[c]),
         failed' \in [Clients -> BOOLEAN], \A d \in Clients \ {c} : failed'[d] = failed[d],
         UNCHANGED <<users, roles, tx, call, who, answer, clock, seen, held>>
  PROVE  AccessInv'
<1>0. TypeOK /\ Shapes /\ CallOK(c) /\ pc'[c] = step
  BY DEF AccessInv, Goto, Shapes
<1>1. call[c] # NoCall
  <2>1. call[c].op # "login"
    BY <1>0, AccessFacts DEF CallOK, Stage
  <2> QED BY <1>0, <2>1 DEF CallOK, Known, NoCall
<1>2. Asked(c)' /\ RightlyRefused(c)' /\ Known(c)' /\ Stage(c)' /\ Writes(c)'
  BY <1>0 DEF CallOK, Asked, RightlyRefused, Known, Stage, Writes, Rows
<1>3. Watched(c)'
  BY <1>0, <1>1 DEF CallOK, Watched
<1> QED BY <1>0, <1>2, <1>3, MoveKeepsInv DEF CallOK, TypeOK, Shapes

\* role_bypass asks for the super role.
LEMMA BypassKeepsInv ==
  ASSUME AccessInv, NEW c \in Clients, Bypass(c)
  PROVE  AccessInv'
<1>0. Shapes /\ CallOK(c) /\ pc[c] = "bypass"
  BY DEF AccessInv, Bypass
<1>1. /\ AccessFor(call[c].op).kind = "requires" /\ who[c] = call[c].sub /\ call[c].sub # NoId
      /\ call[c].op # "login"
  BY <1>0, AccessFacts, UsersAssumption DEF CallOK, Known, Stage
<1>2. CASE RoleBypass(roles, who[c]) /\ Goto(c, "handler") /\ UNCHANGED failed
  <2>1. Entitled(roles, call[c])
    BY <1>1, <1>2, ReadsEntitle
  <2> QED BY <1>0, <1>2, <2>1, GuardMoveKeepsInv DEF Bypass, tables, Shapes
<1>3. CASE Goto(c, "permission") /\ UNCHANGED failed
  BY <1>0, <1>3, GuardMoveKeepsInv DEF Bypass, tables, Shapes
<1>4. CASE Goto(c, "permission") /\ failed' = [failed EXCEPT ![c] = TRUE]
  <2>1. failed' \in [Clients -> BOOLEAN] /\ \A d \in Clients \ {c} : failed'[d] = failed[d]
    BY <1>0, <1>4 DEF Shapes
  <2> QED BY <1>0, <1>4, <2>1, GuardMoveKeepsInv DEF Bypass, tables
<1> QED BY <1>2, <1>3, <1>4 DEF Bypass

\* Not permitted now is not entitled now, so not entitled throughout.
LEMMA CanKeepsInv ==
  ASSUME AccessInv, NEW c \in Clients, Can(c)
  PROVE  AccessInv'
<1> DEFINE allowed == HasPermission(roles, who[c], AccessFor(call[c].op).action)
<1>0. Shapes /\ CallOK(c) /\ pc[c] = "permission" /\ failed[c] \in BOOLEAN
  BY DEF AccessInv, Can, Shapes
<1>1. /\ AccessFor(call[c].op).kind = "requires" /\ who[c] = call[c].sub /\ call[c].sub # NoId
      /\ call[c].op # "login" /\ call[c] # NoCall
  BY <1>0, AccessFacts, UsersAssumption DEF CallOK, Known, Stage, NoCall
<1>2. CASE allowed /\ Goto(c, "handler") /\ UNCHANGED <<answer, tx, failed>>
  <2>1. Entitled(roles, call[c])
    BY <1>1, <1>2, ReadsEntitle
  <2> QED BY <1>0, <1>2, <2>1, GuardMoveKeepsInv DEF Can, tables, Shapes
<1>3. CASE ~allowed /\ Refuse(c, failed[c])
  <2>1. ~Entitled(roles, call[c])
    BY <1>1, <1>3, SuperRoleIsGranted, AccessFacts
  <2>2. ~held[c].always
    BY <1>0, <1>1, <2>1 DEF CallOK, Watched
  <2> QED BY <1>0, <1>3, <2>2, RefuseKeepsInv DEF Can, tables
<1>4. CASE Refuse(c, TRUE)
  BY <1>4, RefuseKeepsInv DEF Can, tables
<1> QED BY <1>2, <1>3, <1>4 DEF Can

\* A call that was answered makes room for the next.
LEMMA ReturnKeepsInv ==
  ASSUME AccessInv, NEW c \in Clients, Return(c)
  PROVE  AccessInv'
<1>0. TypeOK /\ Shapes /\ CallOK(c) /\ pc[c] = "done" /\ tx[c] = NoTx
  BY DEF AccessInv, Return, CallOK, Writes
<1>1. /\ pc' \in [Clients -> Steps] /\ answer' \in [Clients -> Answers]
      /\ failed' \in [Clients -> BOOLEAN] /\ pc'[c] = "idle"
      /\ \A d \in Clients \ {c} : pc'[d] = pc[d] /\ answer'[d] = answer[d] /\ failed'[d] = failed[d]
  BY <1>0 DEF Return, Goto, Shapes
<1>2. /\ who' \in [Clients -> Ids \cup {NoId}] /\ seen' \in [Clients -> Values \cup {Keep}]
      /\ \A d \in Clients \ {c} : who'[d] = who[d]
  BY <1>0 DEF Return, Shapes, TypeOK
<1>3. /\ call' \in [Clients -> Calls] /\ call'[c] = NoCall
      /\ \A d \in Clients \ {c} : call'[d] = call[d]
  <2>1. NoCall \in Calls
    BY DEF NoCall, Calls, NoFields, Fields, NoChange, Change
  <2> QED BY <1>0, <2>1 DEF Return, Shapes
<1>4. /\ held' \in [Clients -> History] /\ held'[c] = Unheld
      /\ \A d \in Clients \ {c} : held'[d] = held[d]
  <2>1. Unheld \in History
    BY HistoryPair DEF Unheld
  <2> QED BY <1>0, <2>1 DEF Return, Shapes
<1>5. UNCHANGED <<users, roles, tx, now, tokens, signIns>>
  BY DEF Return, tables, clock
<1>6. Alone(c)
  BY <1>1, <1>2, <1>3, <1>4, <1>5 DEF Alone, HeldStep
<1>7. TypeOK'
  <2>1. \A d \in Clients : call'[d].sub \in {t.sub : t \in tokens} \cup {NoId}
    BY <1>0, <1>3 DEF TypeOK, NoCall
  <2> QED BY <1>0, <1>2, <1>5, <2>1 DEF TypeOK
<1>8. Shapes'
  BY <1>1, <1>2, <1>3, <1>4 DEF Shapes
<1>9. CallOK(c)'
  BY <1>0, <1>1, <1>3, <1>5
     DEF CallOK, Asked, Known, Stage, Writes, Watched, RightlyRefused, NoCall
<1>10. Budget'
  BY <1>1, <1>5, <1>6, BudgetKept
<1> QED BY <1>5, <1>6, <1>7, <1>8, <1>9, <1>10, OneTask DEF RowsStay

\* A handler that changes no account.
LEMMA ServeKeepsInv ==
  ASSUME AccessInv, NEW c \in Clients, Serve(c)
  PROVE  AccessInv'
<1>1. failed' \in [Clients -> BOOLEAN] /\ \A d \in Clients \ {c} : failed'[d] = failed[d]
  BY DEF AccessInv, Shapes, Serve, past
<1> QED BY <1>1, AnswerKeepsInv DEF Serve, tables, past

\* Time passes, and tokens expire.
LEMMA TickKeepsInv ==
  ASSUME AccessInv, Tick
  PROVE  AccessInv'
<1>0. TypeOK /\ Shapes
  BY DEF AccessInv
<1>1. /\ UNCHANGED <<users, roles, tx, pc, call, who, answer, tokens, signIns, seen, held, failed>>
      /\ now' \in 0 .. MaxNow
  BY <1>0, Bounds DEF Tick, past, TypeOK
<1>2. TypeOK' /\ Shapes'
  BY <1>0, <1>1 DEF TypeOK, Shapes
<1>3. \A d \in Clients : CallOK(d)'
  BY <1>0, <1>1, OtherKeeps DEF AccessInv, RowsStay, HeldStep
<1>4. Budget'
  BY <1>1 DEF AccessInv, Budget, Signing
<1> QED BY <1>2, <1>3, <1>4 DEF AccessInv

-----------------------------------------------------------------------------
(* Signing in.                                                             *)

\* A sign in looks for its account.
LEMMA FindByEmailKeepsInv ==
  ASSUME AccessInv, NEW c \in Clients, FindByEmail(c)
  PROVE  AccessInv'
<1>0. /\ TypeOK /\ Shapes /\ CallOK(c) /\ pc[c] = "handler" /\ call[c].op = "login"
      /\ UNCHANGED <<users, roles, call, clock, held, failed>>
  BY DEF AccessInv, FindByEmail, tables, past
<1>1. CASE Finish(c, "unauthorized") /\ UNCHANGED <<who, seen>>
  BY <1>0, <1>1, AnswerKeepsInv DEF Shapes
<1>2. ASSUME NEW u \in Rows, Goto(c, "password"), UNCHANGED <<answer, tx>>,
             who' = [who EXCEPT ![c] = u], seen' = [seen EXCEPT ![c] = users[u]["password"]]
      PROVE  AccessInv'
  <2>1. u \in Ids /\ users[u]["password"] \in Values
    BY <1>0 DEF Rows, TypeOK, Row, Columns
  <2>2. /\ who' \in [Clients -> Ids \cup {NoId}] /\ seen' \in [Clients -> Values \cup {Keep}]
        /\ who'[c] = u /\ pc'[c] = "password" /\ \A d \in Clients \ {c} : who'[d] = who[d]
    BY <1>0, <1>2, <2>1 DEF TypeOK, Shapes, Goto
  <2>3. CallOK(c)'
    BY <1>0, <1>2, <2>1, <2>2 DEF CallOK, Asked, Known, Stage, Writes, Watched, RightlyRefused
  <2> QED BY <1>0, <1>2, <2>2, <2>3, MoveKeepsInv DEF TypeOK, Shapes
<1> QED BY <1>1, <1>2 DEF FindByEmail

\* The pair is one of those the bound counted when the call came in.
LEMMA IssueKeepsInv ==
  ASSUME AccessInv, NEW c \in Clients, c \in Signing, NEW u \in Ids, Issue(c, u),
         UNCHANGED <<users, roles, call, who, seen, held, failed>>
  PROVE  AccessInv'
<1>0. TypeOK /\ Shapes /\ CallOK(c)
  BY DEF AccessInv
<1>1. /\ pc' \in [Clients -> Steps] /\ tx' \in [Clients -> Tx] /\ answer' \in [Clients -> Answers]
      /\ pc'[c] = "done" /\ tx'[c] = NoTx /\ answer'[c] = "tokens"
      /\ \A d \in Clients \ {c} : pc'[d] = pc[d] /\ tx'[d] = tx[d] /\ answer'[d] = answer[d]
  BY <1>0, FinishMoves DEF Issue
<1>2. Alone(c)
  BY <1>1 DEF Alone, HeldStep
<1>3. CallOK(c)'
  BY <1>0, <1>1, DoneKeeps DEF HeldStep
<1>4. signIns' = signIns + 1 /\ signIns \in Nat /\ MaxSignIns \in Nat
  BY <1>0, Bounds DEF Issue, TypeOK
<1>5. Budget' /\ signIns' \in 0 .. MaxSignIns
  <2>1. Signing' \in SUBSET (Signing \ {c})
    BY <1>1, <1>2 DEF Signing, Alone
  <2>2. IsFiniteSet(Signing \ {c}) /\ Cardinality(Signing \ {c}) = Cardinality(Signing) - 1
    BY SigningIsFinite, FS_RemoveElement
  <2>3. Cardinality(Signing') <= Cardinality(Signing \ {c})
    BY <2>1, <2>2, FS_Subset
  <2>4. signIns + Cardinality(Signing) <= MaxSignIns
    BY DEF AccessInv, Budget
  <2> QED BY <1>4, <2>2, <2>3, <2>4, SigningIsFinite DEF Budget
<1>6. tokens' \subseteq Token /\ tokens \subseteq tokens'
  <2>1. \A ttl \in {TokenTtl, RefreshTtl} : [sub |-> u, exp |-> now + ttl] \in Token
    BY <1>0, Bounds DEF TypeOK, Token
  <2> QED BY <1>0, <2>1 DEF TypeOK, Issue
<1>7. TypeOK'
  <2>1. \A d \in Clients : call'[d].sub \in {t.sub : t \in tokens'} \cup {NoId}
    BY <1>0, <1>6 DEF TypeOK
  <2> QED BY <1>0, <1>1, <1>5, <1>6, <2>1 DEF TypeOK, Issue
<1>8. Shapes'
  BY <1>0, <1>1 DEF Shapes
<1> QED BY <1>2, <1>3, <1>5, <1>7, <1>8, OneTask DEF RowsStay

\* generate_token issues both tokens.
LEMMA SignInKeepsInv ==
  ASSUME AccessInv, NEW c \in Clients, SignIn(c)
  PROVE  AccessInv'
<1>0. TypeOK /\ Shapes /\ CallOK(c)
  BY DEF AccessInv
<1>1. CASE FindByEmail(c)
  BY <1>1, FindByEmailKeepsInv
<1>2. CASE CheckPassword(c)
  <2>1. call[c].op = "login" /\ who[c] \in Ids /\ pc[c] = "password"
    BY <1>0, <1>2 DEF CheckPassword, CallOK, Stage
  <2>2. c \in Signing
    BY <2>1, AccessFacts DEF Signing
  <2>3. CASE Finish(c, "unauthorized") /\ UNCHANGED clock
    BY <1>0, <1>2, <2>1, <2>3, AnswerKeepsInv DEF CheckPassword, tables, past, Shapes
  <2>4. CASE Issue(c, who[c])
    BY <1>2, <2>1, <2>2, <2>4, IssueKeepsInv DEF CheckPassword, tables, past
  <2> QED BY <1>2, <2>3, <2>4 DEF CheckPassword
<1>3. CASE RefreshToken(c)
  <2>1. call[c].op = "refresh_token" /\ pc[c] = "handler" /\ who[c] \in Ids
    BY <1>0, <1>3 DEF RefreshToken, CallOK, Known
  <2>2. c \in Signing
    BY <2>1, AccessFacts DEF Signing
  <2> QED BY <1>3, <2>1, <2>2, IssueKeepsInv DEF RefreshToken, tables, past
<1> QED BY <1>1, <1>2, <1>3 DEF SignIn

-----------------------------------------------------------------------------
(* The statements of Users.                                                *)

\* What is asked for has the form of an UpdateUser; of one's own account it
\* leaves the login, the status and the roles alone.
LEMMA WantedFacts ==
  ASSUME Shapes, NEW c \in Clients
  PROVE  /\ Wanted(c) \in Fields
         /\ call[c].op = "patch_my_user" =>
              /\ Wanted(c).add = {} /\ Wanted(c).remove = {}
              /\ \A k \in {"user_name", "email", "password", "status"} : Wanted(c).set[k] = Keep
<1>1. call[c].fields \in Fields
  BY DEF Shapes, Calls
<1>2. NoFields \in Fields
  BY DEF NoFields, Fields, NoChange, Change
<1>3. CASE call[c].op = "patch_my_user"
  <2>1. Wanted(c) = RestrictedToSelf(call[c].fields)
    BY <1>3 DEF Wanted
  <2>2. Wanted(c) = [set |-> [k \in Columns |-> IF k \in {"profile", "department"}
                                                 THEN call[c].fields.set[k] ELSE Keep],
                     add |-> {}, remove |-> {}]
    BY <2>1 DEF RestrictedToSelf, NoFields
  <2> QED BY <1>1, <2>2 DEF Fields, Change, Columns
<1>4. CASE call[c].op = "delete"
  <2>1. Wanted(c) = [NoFields EXCEPT !.set["status"] = "Deleted"]
    BY <1>4 DEF Wanted
  <2>2. Wanted(c) = [set |-> [NoChange EXCEPT !["status"] = "Deleted"], add |-> {}, remove |-> {}]
    BY <2>1 DEF NoFields
  <2>3. "Deleted" \in Values
    BY UsersAssumption DEF Statuses
  <2>4. [NoChange EXCEPT !["status"] = "Deleted"] \in Change
    BY <2>3 DEF NoChange, Change
  <2> QED BY <1>4, <2>2, <2>4 DEF Fields
<1>5. CASE call[c].op \notin {"patch_my_user", "delete"}
  BY <1>1, <1>5 DEF Wanted
<1> QED BY <1>3, <1>4, <1>5

\* The account a call is about.
LEMMA TargetIsId ==
  ASSUME AccessInv, NEW c \in Clients, pc[c] \in Handling, call[c].op \in OneUser
  PROVE  Target(c) \in Ids
BY DEF AccessInv, CallOK, Known, Asked, OneUser, Target

\* A handler goes on to its next statement.
LEMMA StatementKeepsInv ==
  ASSUME AccessInv, NEW c \in Clients, pc[c] \in Handling, call[c].op # "login",
         NEW step \in {"columns", "add", "remove", "commit"}, Goto(c, step), Observe,
         UNCHANGED <<users, roles, call, who, answer, clock, seen, failed>>,
         tx' \in [Clients -> Tx], \A d \in Clients \ {c} : tx'[d] = tx[d],
         Stage(c)', Writes(c)'
  PROVE  AccessInv'
<1>0. TypeOK /\ Shapes /\ CallOK(c) /\ pc'[c] = step
  BY DEF AccessInv, Goto, Shapes
<1>1. HeldStep(c) /\ call[c] # NoCall
  BY <1>0, HistoryKept DEF CallOK, Known, NoCall
<1>2. Asked(c)' /\ RightlyRefused(c)'
  BY <1>0 DEF CallOK, Asked, RightlyRefused
<1>3. Known(c)'
  BY <1>0 DEF CallOK, Known, Rows
<1>4. Watched(c)'
  <2>1. /\ held[c].ever => held'[c].ever
        /\ Entitled(roles', call[c]) => held'[c].ever
        /\ held'[c].always => Entitled(roles', call[c])
    BY <1>0, <1>1, HeldGrows
  <2> QED BY <1>0, <2>1 DEF CallOK, Watched
<1>5. CallOK(c)'
  BY <1>2, <1>3, <1>4 DEF CallOK
<1> QED BY <1>0, <1>5, MoveKeepsInv DEF TypeOK, Shapes

\* A handler answers, and not with a refusal of the guard.
LEMMA HandlerAnswers ==
  ASSUME AccessInv, NEW c \in Clients, NEW result \in Answers \ {"unauthorized"}, Finish(c, result), Observe,
         UNCHANGED <<users, roles, call, who, clock, seen, failed>>
  PROVE  AccessInv'
<1>1. failed' \in [Clients -> BOOLEAN] /\ \A d \in Clients \ {c} : failed'[d] = failed[d]
  BY DEF AccessInv, Shapes
<1> QED BY <1>1, AnswerKeepsInv

\* The handler reads the account it is about to change.
LEMMA RequireKeepsInv ==
  ASSUME AccessInv, NEW c \in Clients, Require(c), Observe, UNCHANGED <<call, who, clock, seen, failed>>
  PROVE  AccessInv'
<1>0. /\ TypeOK /\ Shapes /\ CallOK(c) /\ pc[c] = "handler" /\ call[c].op \in OneUser
      /\ UNCHANGED <<users, roles>>
  BY DEF AccessInv, Require, tables
<1>1. CASE \E result \in {"not_found", "ok", "invalid"} : Finish(c, result)
  BY <1>0, <1>1, HandlerAnswers
<1>2. CASE /\ users[Target(c)] # NoRow /\ call[c].op \notin {"get", "get_my_user"}
           /\ Goto(c, "columns") /\ UNCHANGED <<answer, tx>>
  <2>1. Target(c) \in Rows /\ call[c].op \in Updates
    BY <1>0, <1>2, TargetIsId DEF Rows, OneUser
  <2>2. pc'[c] = "columns" /\ Target(c)' = Target(c) /\ Rows' = Rows
    BY <1>0, <1>2 DEF Goto, Shapes, Target, Rows
  <2>3. Stage(c)' /\ Writes(c)'
    BY <1>0, <1>2, <2>1, <2>2 DEF CallOK, Stage, Writes
  <2> QED BY <1>0, <1>2, <2>1, <2>3, StatementKeepsInv DEF TypeOK
<1> QED BY <1>1, <1>2 DEF Require

\* A transaction that wrote a row and no role yet.
TxOn(t, u, set) == t \in Tx /\ t.user = u /\ t.set = set /\ t.add = {} /\ t.del = {}

\* What a transaction has written when it begins.
LEMMA NewTx ==
  ASSUME NEW u \in Ids, NEW set \in Change
  PROVE  TxOn([NoTx EXCEPT !.user = u, !.set = set], u, set)
<1>1. NoChange \in Change
  BY DEF NoChange, Change
<1> QED BY <1>1 DEF NoTx, Tx, TxOn

\* INSERT of an account, in its transaction.
LEMMA InsertUserKeepsInv ==
  ASSUME AccessInv, NEW c \in Clients, InsertUser(c), Observe, UNCHANGED <<call, who, clock, seen, failed>>
  PROVE  AccessInv'
<1> DEFINE set == [call[c].fields.set EXCEPT !["status"] = "Active"]
<1>0. /\ TypeOK /\ Shapes /\ CallOK(c) /\ pc[c] = "handler" /\ call[c].op = "create"
      /\ UNCHANGED <<users, roles>>
  BY DEF AccessInv, InsertUser, tables
<1>1. CASE \E result \in {"invalid", "unprocessable"} : Finish(c, result)
  BY <1>0, <1>1, HandlerAnswers
<1>2. ASSUME NEW u \in Ids, tx' = [tx EXCEPT ![c] = [NoTx EXCEPT !.user = u, !.set = set]],
             Goto(c, "add"), UNCHANGED answer
      PROVE  AccessInv'
  <2>1. set \in Row /\ Row \subseteq Change
    <3>1. call[c].fields.set \in Row /\ "Active" \in Values
      BY <1>0, UsersAssumption DEF CallOK, Asked, Statuses
    <3> QED BY <3>1 DEF Row, Change
  <2> DEFINE t == [NoTx EXCEPT !.user = u, !.set = set]
  <2>2. TxOn(t, u, set)
    BY <2>1, NewTx
  <2>3. tx' \in [Clients -> Tx] /\ tx'[c] = t /\ \A d \in Clients \ {c} : tx'[d] = tx[d]
    BY <1>0, <1>2, <2>2 DEF TypeOK, TxOn
  <2>4. pc'[c] = "add"
    BY <1>0, <1>2 DEF Goto, Shapes
  <2> HIDE DEF t, set
  <2>5. Stage(c)' /\ Writes(c)'
    BY <1>0, <2>1, <2>2, <2>3, <2>4 DEF Stage, Writes, TxOn
  <2> QED BY <1>0, <1>2, <2>3, <2>5, StatementKeepsInv
<1> QED BY <1>1, <1>2 DEF InsertUser

\* UPDATE of an account's columns, in its transaction.
LEMMA UpdateColumnsKeepsInv ==
  ASSUME AccessInv, NEW c \in Clients, UpdateColumns(c), Observe, UNCHANGED <<call, who, clock, seen, failed>>
  PROVE  AccessInv'
<1>0. /\ TypeOK /\ Shapes /\ CallOK(c) /\ pc[c] = "columns" /\ tx[c] = NoTx
      /\ UNCHANGED <<users, roles>>
  BY DEF AccessInv, UpdateColumns, tables, CallOK, Writes
<1>1. call[c].op \in Updates /\ Target(c) \in Rows /\ Target(c) \in Ids /\ Wanted(c).set \in Change
  BY <1>0, WantedFacts DEF CallOK, Stage, Rows, Fields
<1>2. CASE \E result \in {"invalid", "unprocessable"} : Finish(c, result)
  BY <1>0, <1>2, HandlerAnswers
<1>3. ASSUME NEW set \in Change, set = Wanted(c).set, Goto(c, "add"), UNCHANGED answer,
             TxOn(tx'[c], Target(c), set), tx' \in [Clients -> Tx], \A d \in Clients \ {c} : tx'[d] = tx[d]
      PROVE  AccessInv'
  <2>1. pc'[c] = "add" /\ Target(c)' = Target(c) /\ Wanted(c)' = Wanted(c) /\ Rows' = Rows
    BY <1>0, <1>3 DEF Goto, Shapes, Target, Wanted, Rows
  <2>2. Stage(c)' /\ Writes(c)'
    BY <1>0, <1>1, <1>3, <2>1 DEF Stage, Writes, TxOn
  <2> QED BY <1>0, <1>1, <1>3, <2>2, StatementKeepsInv
<1>4. NoTx \in Tx /\ NoChange \in Change
  BY <1>0 DEF TypeOK, NoChange, Change
<1>5. CASE HasNoColumnChanges(Wanted(c)) /\ tx' = [tx EXCEPT ![c].user = Target(c)]
           /\ Goto(c, "add") /\ UNCHANGED answer
  <2>1. /\ tx' \in [Clients -> Tx] /\ \A d \in Clients \ {c} : tx'[d] = tx[d]
        /\ TxOn(tx'[c], Target(c), NoChange)
    BY <1>0, <1>1, <1>4, <1>5 DEF TypeOK, NoTx, Tx, TxOn
  <2> QED BY <1>3, <1>4, <1>5, <2>1 DEF HasNoColumnChanges
<1>6. CASE tx' = [tx EXCEPT ![c].user = Target(c), ![c].set = Wanted(c).set] /\ Goto(c, "add") /\ UNCHANGED answer
  <2> DEFINE t == [NoTx EXCEPT !.user = Target(c), !.set = Wanted(c).set]
  <2>1. tx' = [tx EXCEPT ![c] = t] /\ TxOn(t, Target(c), Wanted(c).set)
    BY <1>0, <1>1, <1>6, NewTx
  <2> HIDE DEF t
  <2>2. tx' \in [Clients -> Tx] /\ tx'[c] = t /\ \A d \in Clients \ {c} : tx'[d] = tx[d]
    BY <1>0, <2>1 DEF TypeOK, TxOn
  <2> QED BY <1>1, <1>3, <1>6, <2>1, <2>2
<1> QED BY <1>2, <1>5, <1>6 DEF UpdateColumns

\* add_user_roles, in its transaction.
LEMMA AddUserRolesKeepsInv ==
  ASSUME AccessInv, NEW c \in Clients, AddUserRoles(c), Observe, UNCHANGED <<call, who, clock, seen, failed>>
  PROVE  AccessInv'
<1> DEFINE add == Wanted(c).add \ roles[tx[c].user]
<1>0. /\ TypeOK /\ Shapes /\ CallOK(c) /\ pc[c] = "add" /\ tx' = [tx EXCEPT ![c].add = add]
      /\ Goto(c, "remove") /\ UNCHANGED <<users, roles, answer>>
  BY DEF AccessInv, AddUserRoles, tables
<1>1. add \subseteq Wanted(c).add /\ add \in SUBSET Roles /\ tx[c] \in Tx
  BY <1>0, WantedFacts DEF Fields, TypeOK
<1> HIDE DEF add
<1>2. /\ tx' \in [Clients -> Tx] /\ \A d \in Clients \ {c} : tx'[d] = tx[d]
      /\ tx'[c].user = tx[c].user /\ tx'[c].set = tx[c].set /\ tx'[c].add = add /\ tx'[c].del = tx[c].del
  BY <1>0, <1>1 DEF TypeOK, Tx
<1>3. pc'[c] = "remove" /\ Target(c)' = Target(c) /\ Wanted(c)' = Wanted(c) /\ Rows' = Rows
  BY <1>0 DEF Goto, Shapes, Target, Wanted, Rows
<1>4. Stage(c)' /\ Writes(c)'
  BY <1>0, <1>1, <1>2, <1>3 DEF CallOK, Stage, Writes
<1>5. call[c].op # "login"
  BY <1>0 DEF CallOK, Stage
<1> QED BY <1>0, <1>2, <1>4, <1>5, StatementKeepsInv

\* remove_user_roles, in its transaction.
LEMMA RemoveUserRolesKeepsInv ==
  ASSUME AccessInv, NEW c \in Clients, RemoveUserRoles(c), Observe, UNCHANGED <<call, who, clock, seen, failed>>
  PROVE  AccessInv'
<1> DEFINE del == Wanted(c).remove \cap roles[tx[c].user]
           add == tx[c].add \ Wanted(c).remove
<1>0. /\ TypeOK /\ Shapes /\ CallOK(c) /\ pc[c] = "remove"
      /\ tx' = [tx EXCEPT ![c].add = add, ![c].del = del]
      /\ Goto(c, "commit") /\ UNCHANGED <<users, roles, answer>>
  BY DEF AccessInv, RemoveUserRoles, tables
<1>1. /\ del \subseteq Wanted(c).remove /\ del \in SUBSET Roles /\ tx[c] \in Tx
      /\ add \subseteq tx[c].add /\ add \in SUBSET Roles
  BY <1>0, WantedFacts DEF Fields, TypeOK, Tx
<1> HIDE DEF add, del
<1>2. tx' = [tx EXCEPT ![c] = [tx[c] EXCEPT !.add = add, !.del = del]]
  BY <1>0
<1>3. LET t == [tx[c] EXCEPT !.add = add, !.del = del]
      IN  t \in Tx /\ t.user = tx[c].user /\ t.set = tx[c].set /\ t.add = add /\ t.del = del
  BY <1>1 DEF Tx
<1>4. /\ tx' \in [Clients -> Tx] /\ \A d \in Clients \ {c} : tx'[d] = tx[d]
      /\ tx'[c].user = tx[c].user /\ tx'[c].set = tx[c].set /\ tx'[c].add = add /\ tx'[c].del = del
  BY <1>0, <1>2, <1>3 DEF TypeOK
<1>5. pc'[c] = "commit" /\ Target(c)' = Target(c) /\ Wanted(c)' = Wanted(c) /\ Rows' = Rows
  BY <1>0 DEF Goto, Shapes, Target, Wanted, Rows
<1>6. Stage(c)' /\ Writes(c)'
  BY <1>0, <1>1, <1>4, <1>5 DEF CallOK, Stage, Writes
<1>7. call[c].op # "login"
  BY <1>0 DEF CallOK, Stage
<1> QED BY <1>0, <1>4, <1>6, <1>7, StatementKeepsInv

\* What COMMIT leaves in the two tables.
LEMMA CommitEffect ==
  ASSUME AccessInv, NEW c \in Clients, Commit(c)
  PROVE  /\ tx[c].user \in Ids /\ tx[c] \in Tx /\ Written(tx[c]) \in Row
         /\ users' \in [Ids -> Row \cup {NoRow}] /\ roles' \in [Ids -> SUBSET Roles]
         /\ users'[tx[c].user] = Written(tx[c])
         /\ roles'[tx[c].user] = (roles[tx[c].user] \cup tx[c].add) \ tx[c].del
         /\ \A u \in Ids \ {tx[c].user} : users'[u] = users[u] /\ roles'[u] = roles[u]
<1>0. TypeOK /\ Shapes /\ CallOK(c) /\ pc[c] = "commit"
  BY DEF AccessInv, Commit
<1>1. tx[c] \in Tx /\ tx[c].user \in Ids
  BY <1>0 DEF TypeOK, CallOK, Writes
<1>2. tx[c].add \in SUBSET Roles /\ tx[c].del \in SUBSET Roles /\ tx[c].set \in [Columns -> Values \cup {Keep}]
  BY <1>1 DEF Tx, Change
<1>3. ASSUME NEW k \in Columns, tx[c].set[k] = Keep PROVE users[tx[c].user][k] \in Values
  <2>1. call[c].op # "create"
    BY <1>0, <1>3, UsersAssumption DEF CallOK, Writes, Row
  <2>2. users[tx[c].user] \in Row
    BY <1>0, <1>1, <2>1 DEF CallOK, Writes, Rows, TypeOK
  <2> QED BY <2>2 DEF Row
<1>4. Written(tx[c]) \in Row
  BY <1>2, <1>3 DEF Written, Row
<1>5. /\ users' = [users EXCEPT ![tx[c].user] = Written(tx[c])]
      /\ roles' = [roles EXCEPT ![tx[c].user] = (@ \cup tx[c].add) \ tx[c].del]
  BY DEF Commit
<1> HIDE DEF Written
<1>6. users' \in [Ids -> Row \cup {NoRow}] /\ users'[tx[c].user] = Written(tx[c])
      /\ \A u \in Ids \ {tx[c].user} : users'[u] = users[u]
  BY <1>0, <1>1, <1>4, <1>5 DEF TypeOK
<1>7. roles' \in [Ids -> SUBSET Roles] /\ roles'[tx[c].user] = (roles[tx[c].user] \cup tx[c].add) \ tx[c].del
      /\ \A u \in Ids \ {tx[c].user} : roles'[u] = roles[u]
  BY <1>0, <1>1, <1>2, <1>5 DEF TypeOK
<1> QED BY <1>1, <1>4, <1>6, <1>7

\* COMMIT makes a transaction's writes visible: the history moves with them.
LEMMA CommitKeepsInv ==
  ASSUME AccessInv, NEW c \in Clients, Commit(c), Observe, UNCHANGED <<call, who, clock, seen, failed>>
  PROVE  AccessInv'
<1>0. TypeOK /\ Shapes /\ CallOK(c) /\ Finish(c, "ok")
  BY DEF AccessInv, Commit
<1>1. /\ pc' \in [Clients -> Steps] /\ tx' \in [Clients -> Tx] /\ answer' \in [Clients -> Answers]
      /\ pc'[c] = "done" /\ tx'[c] = NoTx /\ answer'[c] = "ok"
      /\ \A d \in Clients \ {c} : pc'[d] = pc[d] /\ tx'[d] = tx[d] /\ answer'[d] = answer[d]
  BY <1>0, FinishMoves
<1>2. held' \in [Clients -> History] /\ \A d \in Clients : HeldStep(d)
  BY <1>0, HistoryKept
<1>3. Alone(c)
  BY <1>1, <1>2 DEF Alone
<1>4. CallOK(c)'
  BY <1>0, <1>1, <1>2, DoneKeeps
<1>5. RowsStay
  <2>1. NoRow \notin Row
    BY UsersAssumption
  <2> QED BY <2>1, CommitEffect DEF RowsStay
<1>6. TypeOK'
  BY <1>0, <1>1, CommitEffect DEF TypeOK, clock
<1>7. Shapes'
  BY <1>0, <1>1, <1>2 DEF Shapes
<1>8. Budget'
  BY <1>1, <1>3, BudgetKept DEF clock
<1> QED BY <1>3, <1>4, <1>5, <1>6, <1>7, <1>8, OneTask

-----------------------------------------------------------------------------
(* The invariant.                                                          *)

\* The server starts with nobody in a call.
LEMMA InitInv == Init => AccessInv
<1> SUFFICES ASSUME Init PROVE AccessInv
  OBVIOUS
<1>1. NoTx \in Tx
  BY DEF NoTx, Tx, NoChange, Change
<1>2. TypeOK
  <2>1. users \in [Ids -> Row \cup {NoRow}] /\ roles \in [Ids -> SUBSET Roles]
    BY AccessAssumption DEF Init
  <2>2. tx \in [Clients -> Tx] /\ who \in [Clients -> Ids \cup {NoId}]
    BY <1>1 DEF Init
  <2>3. \A c \in Clients : call[c].sub \in {token.sub : token \in tokens} \cup {NoId}
    BY DEF Init, NoCall
  <2>4. tokens \subseteq Token /\ now \in 0 .. MaxNow /\ signIns \in 0 .. MaxSignIns
    BY Bounds DEF Init
  <2> QED BY <2>1, <2>2, <2>3, <2>4 DEF TypeOK
<1>3. Shapes
  <2>1. NoCall \in Calls
    BY DEF NoCall, Calls, NoFields, Fields, NoChange, Change
  <2>2. Unheld \in History
    BY HistoryPair DEF Unheld
  <2> QED BY <2>1, <2>2 DEF Init, Shapes
<1>4. \A c \in Clients : CallOK(c)
  BY DEF Init, CallOK, Asked, Known, Stage, Writes, Watched, RightlyRefused, NoCall
<1>5. Budget
  <2>1. Signing = {}
    BY DEF Signing, Init
  <2> QED BY <2>1, FS_EmptySet, Bounds DEF Budget, Init
<1> QED BY <1>2, <1>3, <1>4, <1>5 DEF AccessInv

\* Every step of the handlers of Users.
LEMMA UsersStepKeepsInv ==
  ASSUME AccessInv, NEW c \in Clients,
         InUsers(Require(c) \/ Waits(c) \/ Commit(c)) \/ InUsers(Fail(c))
  PROVE  AccessInv'
<1>0. Observe /\ UNCHANGED <<call, who, clock, seen, failed>>
  BY DEF InUsers
<1>1. CASE Fail(c)
  BY <1>0, <1>1, HandlerAnswers DEF Fail, tables
<1>2. CASE Require(c)
  BY <1>0, <1>2, RequireKeepsInv
<1>3. CASE Waits(c)
  BY <1>0, <1>3, InsertUserKeepsInv, UpdateColumnsKeepsInv, AddUserRolesKeepsInv, RemoveUserRolesKeepsInv DEF Waits
<1>4. CASE Commit(c)
  BY <1>0, <1>4, CommitKeepsInv
<1> QED BY <1>1, <1>2, <1>3, <1>4 DEF InUsers

\* Every step.
LEMMA NextInv ==
  ASSUME AccessInv, [Next]_vars
  PROVE  AccessInv'
<1>1. ASSUME NEW c \in Clients, NEW r \in Requests(c), NEW token \in tokens \cup {NoToken},
             AccessFor(r.op) = Open => SignInsLeft, Arrive(c, r, token)
      PROVE  AccessInv'
  BY <1>1, ArriveKeepsInv
<1>2. ASSUME NEW c \in Clients, Advance(c) \/ InUsers(Fail(c)) PROVE AccessInv'
  <2>1. CASE Guard(c)
    BY <2>1, GetIdentityKeepsInv, BypassKeepsInv, CanKeepsInv DEF Guard
  <2>2. CASE InUsers(Require(c) \/ Waits(c) \/ Commit(c)) \/ InUsers(Fail(c))
    BY <2>2, UsersStepKeepsInv
  <2> QED BY <1>2, <2>1, <2>2, ReturnKeepsInv, SignInKeepsInv, ServeKeepsInv DEF Advance
<1>3. CASE Tick
  BY <1>3, TickKeepsInv
<1>4. CASE UNCHANGED vars
  <2>1. UNCHANGED <<users, roles, tx, pc, call, who, answer, now, tokens, signIns, seen, held, failed>>
    BY <1>4 DEF vars, clock, past
  <2>2. TypeOK' /\ Shapes' /\ Budget'
    BY <2>1 DEF AccessInv, TypeOK, Shapes, Budget, Signing
  <2>3. \A d \in Clients : CallOK(d)'
    BY <2>1, OtherKeeps DEF AccessInv, RowsStay, HeldStep
  <2> QED BY <2>2, <2>3 DEF AccessInv
<1> QED BY <1>1, <1>2, <1>3, <1>4 DEF Next

\* The invariant holds throughout.
LEMMA Invariance == Spec => []AccessInv
<1>1. AccessInv /\ [Next]_vars => AccessInv'
  BY NextInv
<1> QED BY <1>1, InitInv, PTL DEF Spec

\* The accounts and their roles are well-formed at every moment, and so are
\* tokens, transactions and calls.
THEOREM AccessTypes == Spec => []TypeOK
<1>1. AccessInv => TypeOK
  BY DEF AccessInv
<1> QED BY <1>1, Invariance, PTL

\* No handler runs for a call whose token had expired when it came, for
\* someone without a row, or for someone who did not hold the permission or
\* the super role at any moment since: rpc_auth and rbac_guard cannot be
\* overtaken by changes of roles.
THEOREM HandlersServeTheEntitled == Spec => []ServedCallsWereEntitled
<1>1. AccessInv => ServedCallsWereEntitled
  BY DEF AccessInv, ServedCallsWereEntitled, CallOK, Known, Watched, Rows
<1> QED BY <1>1, Invariance, PTL

\* RbacEngine::can reads the super role and the permissions apart; whoever is
\* entitled at every moment of the call still passes, unless a query fails.
THEOREM TheEntitledAreServed == Spec => []EntitledThroughoutIsServed
<1>1. AccessInv => EntitledThroughoutIsServed
  BY DEF AccessInv, EntitledThroughoutIsServed, CallOK, RightlyRefused
<1> QED BY <1>1, Invariance, PTL

-----------------------------------------------------------------------------
(* What a step may do to the tables.                                       *)

\* The tables change at a COMMIT and nowhere else.
LEMMA OnlyCommitWrites ==
  ASSUME [Next]_vars, ~UNCHANGED tables
  PROVE  \E c \in Clients : Commit(c) /\ UNCHANGED <<call, who>>
<1>1. ASSUME NEW c \in Clients, NEW r \in Requests(c), NEW token \in tokens \cup {NoToken}, Arrive(c, r, token)
      PROVE  UNCHANGED tables
  BY <1>1 DEF Arrive
<1>2. ASSUME NEW c \in Clients, Advance(c) \/ InUsers(Fail(c)), ~Commit(c) PROVE UNCHANGED tables
  <2>1. CASE Return(c) \/ Guard(c) \/ SignIn(c) \/ Serve(c)
    BY <2>1 DEF Return, Guard, GetIdentity, Bypass, Can, SignIn, FindByEmail, CheckPassword, RefreshToken, Serve
  <2>2. CASE Require(c) \/ Waits(c) \/ Fail(c)
    BY <2>2 DEF Require, Waits, InsertUser, UpdateColumns, AddUserRoles, RemoveUserRoles, Fail
  <2> QED BY <1>2, <2>1, <2>2 DEF Advance, InUsers
<1>3. ASSUME NEW c \in Clients, Advance(c) \/ InUsers(Fail(c)), Commit(c)
      PROVE  UNCHANGED <<call, who>> \/ UNCHANGED tables
  <2>1. CASE InUsers(Require(c) \/ Waits(c) \/ Commit(c)) \/ InUsers(Fail(c))
    BY <2>1 DEF InUsers
  <2>2. CASE Return(c) \/ Guard(c) \/ SignIn(c) \/ Serve(c)
    BY <2>2 DEF Return, Guard, GetIdentity, Bypass, Can, SignIn, FindByEmail, CheckPassword, RefreshToken, Serve
  <2> QED BY <1>3, <2>1, <2>2 DEF Advance
<1>4. CASE Tick \/ UNCHANGED vars
  BY <1>4 DEF Tick, vars, tables
<1> QED BY <1>1, <1>2, <1>3, <1>4 DEF Next

\* An account changes only by the COMMIT of a call on it, by exactly the
\* columns the call sets and the roles it names: partial_update cannot be
\* seen half done or mixed with another call.
THEOREM ChangesAreAtomic == Spec => PatchIsAtomic
<1> DEFINE Whole ==
      \A u \in Ids : (users[u]' # users[u] \/ roles[u]' # roles[u]) =>
        \E c \in Clients :
          /\ pc[c] = "commit" /\ answer'[c] = "ok" /\ tx[c].user = u
          /\ \A k \in Columns : users'[u][k] = IF tx[c].set[k] # Keep THEN tx[c].set[k] ELSE users[u][k]
          /\ roles'[u] \ roles[u] \subseteq Wanted(c).add
          /\ roles[u] \ roles'[u] \subseteq Wanted(c).remove
<1>1. AccessInv /\ [Next]_vars => [Whole]_tables
  <2> SUFFICES ASSUME AccessInv, [Next]_vars, ~UNCHANGED tables,
                      NEW u \in Ids, users[u]' # users[u] \/ roles[u]' # roles[u]
               PROVE  \E c \in Clients :
                        /\ pc[c] = "commit" /\ answer'[c] = "ok" /\ tx[c].user = u
                        /\ \A k \in Columns : users'[u][k] = IF tx[c].set[k] # Keep
                                                             THEN tx[c].set[k] ELSE users[u][k]
                        /\ roles'[u] \ roles[u] \subseteq Wanted(c).add
                        /\ roles[u] \ roles'[u] \subseteq Wanted(c).remove
    OBVIOUS
  <2>1. PICK c \in Clients : Commit(c)
    BY OnlyCommitWrites
  <2>2. TypeOK /\ Shapes /\ CallOK(c) /\ pc[c] = "commit" /\ answer'[c] = "ok"
    BY <2>1 DEF AccessInv, Commit, Finish, Shapes
  <2>3. tx[c].user = u
    BY <2>1, CommitEffect
  <2>4. ASSUME NEW k \in Columns
        PROVE  users'[u][k] = IF tx[c].set[k] # Keep THEN tx[c].set[k] ELSE users[u][k]
    <3>1. users'[u] = Written(tx[c])
      BY <2>1, <2>3, CommitEffect
    <3> QED BY <2>3, <3>1 DEF Written
  <2>5. tx[c].add \subseteq Wanted(c).add /\ tx[c].del \subseteq Wanted(c).remove
    BY <2>2 DEF CallOK, Writes
  <2>6. roles'[u] = (roles[u] \cup tx[c].add) \ tx[c].del
    BY <2>1, <2>3, CommitEffect
  <2> QED BY <2>2, <2>3, <2>4, <2>5, <2>6
<1> QED BY <1>1, Invariance, PTL DEF Spec, PatchIsAtomic

\* Whatever a caller puts into the UpdateUser of patch_my_user, it reaches no
\* other account and neither login, password, status nor roles of its own. The
\* department, which restricted_to_self keeps, is not among what is kept out.
THEOREM SelfServiceIsHarmless == Spec => SelfServiceKeepsPrivileges
<1> DEFINE Harmless ==
      \A c \in Clients : (pc[c] = "commit" /\ pc'[c] = "done" /\ call[c].op = "patch_my_user") =>
        /\ roles' = roles
        /\ \A u \in Ids : users'[u] # users[u] =>
             /\ u = who[c]
             /\ \A k \in {"user_name", "email", "password", "status"} : users'[u][k] = users[u][k]
<1>1. AccessInv /\ [Next]_vars => [Harmless]_tables
  <2> SUFFICES ASSUME AccessInv, [Next]_vars, ~UNCHANGED tables, NEW c \in Clients,
                      pc[c] = "commit", pc'[c] = "done", call[c].op = "patch_my_user"
               PROVE  /\ roles' = roles
                      /\ \A u \in Ids : users'[u] # users[u] =>
                           /\ u = who[c]
                           /\ \A k \in {"user_name", "email", "password", "status"} : users'[u][k] = users[u][k]
    OBVIOUS
  <2>1. PICK d \in Clients : Commit(d)
    BY OnlyCommitWrites
  <2>2. TypeOK /\ Shapes /\ CallOK(c)
    BY DEF AccessInv
  <2>3. d = c
    BY <2>1, <2>2 DEF Commit, Finish, Goto, Shapes
  <2>4. /\ tx[c].user = who[c] /\ tx[c].add = {} /\ tx[c].del = {}
        /\ \A k \in {"user_name", "email", "password", "status"} : tx[c].set[k] = Keep
    BY <2>2, WantedFacts DEF CallOK, Writes, Target
  <2>5. roles' = roles
    <3>1. \A u \in Ids : roles'[u] = roles[u]
      BY <2>1, <2>3, <2>4, CommitEffect
    <3> QED BY <2>1, <2>2, <2>3, <3>1, CommitEffect DEF TypeOK
  <2>6. ASSUME NEW u \in Ids, users'[u] # users[u],
               NEW k \in {"user_name", "email", "password", "status"}
        PROVE  u = who[c] /\ users'[u][k] = users[u][k]
    <3>1. u = tx[c].user /\ users'[u] = Written(tx[c])
      BY <2>1, <2>3, <2>6, CommitEffect
    <3> QED BY <2>4, <3>1 DEF Written, Columns
  <2> QED BY <2>5, <2>6
<1> QED BY <1>1, Invariance, PTL DEF Spec, SelfServiceKeepsPrivileges
=============================================================================
