------------------------ MODULE PasswordResetProofs ------------------------
(***************************************************************************)
(* Password recovery keeps what it can keep without transactions, for any  *)
(* number of clients, accounts, addresses and tokens: the inductive        *)
(* invariant ResetInv is preserved by each statement.                      *)
(***************************************************************************)
EXTENDS PasswordReset, TLAPS

USE DEF Recovering, Resetting

\* Who recovers was recovering before, the same address: races are still known.
LEMMA SameRecoveries ==
  ASSUME RacesRecorded, raced' = raced,
         \A d \in Clients : pc'[d] \in Recovering => pc[d] \in Recovering /\ address'[d] = address[d]
  PROVE  RacesRecorded'
<1> SUFFICES ASSUME NEW c \in Clients, NEW d \in Clients, c # d, pc'[c] \in Recovering,
                    pc'[d] \in Recovering, address'[c] = address'[d]
             PROVE  address'[c] \in raced
  BY DEF RacesRecorded
<1>1. pc[c] \in Recovering /\ pc[d] \in Recovering /\ address[c] = address[d]
  OBVIOUS
<1> QED BY <1>1 DEF RacesRecorded

\* No request and no call at the start.
LEMMA InitInv == Init => ResetInv
  BY PasswordResetAssumption
     DEF Init, ResetInv, TypeOK, CallShape, RowsDrawn, SeenAtAddress, RacesRecorded, StillCleared,
         SpentTokensStaySpent, RecoveriesInTurnKeepOne, Pending

\* A call ends and writes nothing.
LEMMA FinishKeepsInv ==
  ASSUME ResetInv, NEW c \in Clients,
         NEW result \in {"none", "ok", "not_found", "bad_request", "unknown"}, Finish(c, result),
         mailed' \subseteq Tokens,
         UNCHANGED <<tables, drawn, clock, spent, used, raced>>
  PROVE  ResetInv'
<1>1. TypeOK'
  BY DEF ResetInv, TypeOK, Finish, Goto, tables
<1>2. \A d \in Clients \ {c} : /\ pc'[d] = pc[d] /\ address'[d] = address[d]
                               /\ token'[d] = token[d] /\ seen'[d] = seen[d]
  BY DEF ResetInv, TypeOK, Finish, Goto
<1>3. pc'[c] = "idle" /\ seen'[c] = {}
  BY DEF ResetInv, TypeOK, Finish, Goto
<1>4. CallShape' /\ RacesRecorded'
  <2>1. CallShape'
    BY <1>2, <1>3 DEF ResetInv, CallShape
  <2>2. RacesRecorded'
    <3>1. \A d \in Clients : pc'[d] \in Recovering => pc[d] \in Recovering /\ address'[d] = address[d]
      BY <1>2, <1>3
    <3>2. RacesRecorded /\ raced' = raced
      BY DEF ResetInv
    <3> QED BY <3>1, <3>2, SameRecoveries
  <2> QED BY <2>1, <2>2
<1>5. RowsDrawn' /\ SpentTokensStaySpent' /\ RecoveriesInTurnKeepOne'
  BY DEF ResetInv, RowsDrawn, SpentTokensStaySpent, RecoveriesInTurnKeepOne, tables
<1>6. SeenAtAddress'
  BY <1>2, <1>3 DEF ResetInv, SeenAtAddress, tables
<1>7. StillCleared'
  BY <1>2, <1>3 DEF ResetInv, StillCleared, Pending, tables
<1> QED BY <1>1, <1>4, <1>5, <1>6, <1>7 DEF ResetInv

\* password_recovery looks for the account.
LEMMA AskRecoveryKeepsInv ==
  ASSUME ResetInv, NEW c \in Clients, AskRecovery(c)
  PROVE  ResetInv'
<1> PICK e \in Emails :
      /\ address' = [address EXCEPT ![c] = e]
      /\ raced' = IF \E d \in Clients : pc[d] \in Recovering /\ address[d] = e
                    THEN raced \cup {e} ELSE raced
  BY DEF AskRecovery
<1>1. TypeOK'
  BY DEF AskRecovery, ResetInv, TypeOK, Goto, tables
<1>2. \A d \in Clients \ {c} : pc'[d] = pc[d] /\ address'[d] = address[d]
  BY DEF AskRecovery, ResetInv, TypeOK, Goto
<1>3. pc'[c] = "find account" /\ address'[c] = e /\ raced \subseteq raced'
  BY DEF AskRecovery, ResetInv, TypeOK, Goto
<1>4. CallShape'
  BY <1>2, <1>3 DEF AskRecovery, ResetInv, CallShape
<1>5. RacesRecorded'
  <2>1. \A d \in Clients : pc[d] \in Recovering /\ address[d] = e => e \in raced'
    OBVIOUS
  <2>2. pc[c] \notin Recovering
    BY DEF AskRecovery
  <2> HIDE DEF Recovering
  <2> SUFFICES ASSUME NEW x \in Clients, NEW y \in Clients, x # y,
                      pc'[x] \in Recovering, pc'[y] \in Recovering, address'[x] = address'[y]
               PROVE  address'[x] \in raced'
    BY DEF RacesRecorded
  <2>3. CASE x = c \/ y = c
    BY <1>2, <1>3, <2>1, <2>3
  <2>4. CASE x # c /\ y # c
    BY <1>2, <1>3, <2>4 DEF ResetInv, RacesRecorded
  <2> QED BY <2>3, <2>4
<1>6. RowsDrawn' /\ SpentTokensStaySpent'
  BY DEF AskRecovery, ResetInv, RowsDrawn, SpentTokensStaySpent, tables
<1>7. RecoveriesInTurnKeepOne'
  BY <1>3 DEF AskRecovery, ResetInv, RecoveriesInTurnKeepOne, tables
<1>8. SeenAtAddress'
  <2>1. seen[c] = {}
    BY DEF AskRecovery, ResetInv, SeenAtAddress
  <2> QED BY <1>2, <2>1 DEF AskRecovery, ResetInv, SeenAtAddress, tables
<1>9. StillCleared'
  <2> SUFFICES ASSUME NEW d \in Clients, pc'[d] = "store", address'[d] \notin raced'
               PROVE  {r \in resets : r.email = address'[d]} = {}
    BY DEF AskRecovery, StillCleared, Pending, tables
  <2>1. d # c
    BY <1>3
  <2>2. pc[d] = "store" /\ address'[d] = address[d] /\ address[d] \notin raced
    BY <1>2, <1>3, <2>1
  <2> QED BY <2>2 DEF ResetInv, StillCleared, Pending
<1> QED BY <1>1, <1>4, <1>5, <1>6, <1>7, <1>8, <1>9 DEF ResetInv

\* A recovery moves on: its next step is no longer, or not yet, the insert.
LEMMA FindAccountKeepsInv ==
  ASSUME ResetInv, NEW c \in Clients, FindAccount(c)
  PROVE  ResetInv'
<1>1. CASE Holders(address[c]) = {}
  BY <1>1, FinishKeepsInv DEF FindAccount, ResetInv, TypeOK
<1>2. CASE Holders(address[c]) # {}
  <2>1. Goto(c, "clear") /\ UNCHANGED <<tables, drawn, mailed, clock, token, address, answer, history>>
    BY <1>2 DEF FindAccount, history
  <2>2. TypeOK' /\ pc'[c] = "clear" /\ \A d \in Clients \ {c} : pc'[d] = pc[d]
    BY <2>1 DEF ResetInv, TypeOK, Goto, tables, history
  <2>3. CallShape' /\ RacesRecorded'
    BY <1>2, <2>1, <2>2 DEF FindAccount, ResetInv, CallShape, RacesRecorded, history
  <2>4. RowsDrawn' /\ SpentTokensStaySpent' /\ RecoveriesInTurnKeepOne'
    BY <2>1 DEF ResetInv, RowsDrawn, SpentTokensStaySpent, RecoveriesInTurnKeepOne, tables, history
  <2>5. SeenAtAddress' /\ StillCleared'
    BY <2>1, <2>2 DEF FindAccount, ResetInv, SeenAtAddress, StillCleared, Pending, tables, history
  <2> QED BY <2>2, <2>3, <2>4, <2>5 DEF ResetInv
<1> QED BY <1>1, <1>2

\* The old requests of the address are deleted.
LEMMA ClearRequestsKeepsInv ==
  ASSUME ResetInv, NEW c \in Clients, ClearRequests(c)
  PROVE  ResetInv'
<1>1. resets' = resets \ Pending(address[c]) /\ resets' \subseteq resets
  BY DEF ClearRequests, Without
<1>2. TypeOK' /\ pc'[c] = "store" /\ \A d \in Clients \ {c} : pc'[d] = pc[d]
  BY <1>1 DEF ClearRequests, ResetInv, TypeOK, Goto, history
<1>3. CallShape' /\ RacesRecorded'
  BY <1>2 DEF ClearRequests, ResetInv, CallShape, RacesRecorded, history
<1>4. RowsDrawn' /\ SpentTokensStaySpent' /\ RecoveriesInTurnKeepOne'
  BY <1>1 DEF ClearRequests, ResetInv, RowsDrawn, SpentTokensStaySpent, RecoveriesInTurnKeepOne, history
<1>5. SeenAtAddress'
  BY <1>1, <1>2 DEF ClearRequests, ResetInv, SeenAtAddress, history
<1>6. StillCleared'
  <2> SUFFICES ASSUME NEW d \in Clients, pc'[d] = "store", address[d] \notin raced
               PROVE  {r \in resets' : r.email = address[d]} = {}
    BY DEF StillCleared, Pending, ClearRequests, history
  <2>1. CASE d = c
    BY <1>1, <2>1 DEF Pending
  <2>2. CASE d # c
    BY <1>1, <1>2, <2>2 DEF ResetInv, StillCleared, Pending
  <2> QED BY <2>1, <2>2
<1> QED BY <1>2, <1>3, <1>4, <1>5, <1>6 DEF ResetInv

\* The row goes to an address that has none, or for which a race is recorded.
LEMMA StoreRequestKeepsInv ==
  ASSUME ResetInv, NEW c \in Clients, StoreRequest(c)
  PROVE  ResetInv'
<1> DEFINE e == address[c]
<1> PICK t \in Tokens \ drawn :
      /\ drawn'  = drawn \cup {t}
      /\ token'  = [token EXCEPT ![c] = t]
      /\ resets' = resets \cup {Request(e, t)}
  BY DEF StoreRequest
<1> DEFINE row == Request(e, t)
<1>0. e \in Emails /\ pc[c] = "store" /\ UNCHANGED <<email, mailed, clock, address, answer, history>>
  BY DEF StoreRequest, ResetInv, CallShape
<1>1. row \in Reset /\ row.email = e /\ row.token = t
  BY <1>0 DEF Request, Reset, ResetInv, TypeOK
<1> HIDE DEF row
<1>2. /\ pc' = [pc EXCEPT ![c] = "mail"]
      /\ pc'[c] = "mail" /\ token'[c] = t
      /\ \A d \in Clients \ {c} : pc'[d] = pc[d] /\ token'[d] = token[d]
  BY DEF StoreRequest, ResetInv, TypeOK, Goto
<1>3. resets' = resets \cup {row}
  BY DEF row
<1>4. TypeOK'
  BY <1>0, <1>1, <1>2, <1>3 DEF ResetInv, TypeOK, history
<1>5. CallShape' /\ RacesRecorded'
  <2>1. CallShape'
    BY <1>0, <1>2 DEF ResetInv, CallShape
  <2>2. RacesRecorded'
    <3>1. \A d \in Clients : pc'[d] \in Recovering => pc[d] \in Recovering /\ address'[d] = address[d]
      BY <1>0, <1>2
    <3>2. RacesRecorded /\ raced' = raced
      BY <1>0 DEF ResetInv, history
    <3> QED BY <3>1, <3>2, SameRecoveries
  <2> QED BY <2>1, <2>2
<1>6. RowsDrawn' /\ SpentTokensStaySpent'
  BY <1>0, <1>1, <1>3 DEF ResetInv, RowsDrawn, SpentTokensStaySpent, history
<1>7. RecoveriesInTurnKeepOne'
  <2>1. e \notin raced => \A r \in resets : r.email # e
    BY <1>0 DEF ResetInv, StillCleared, Pending
  <2> QED BY <1>0, <1>1, <1>3, <2>1 DEF ResetInv, RecoveriesInTurnKeepOne, history
<1>8. SeenAtAddress'
  BY <1>0, <1>1, <1>2, <1>3 DEF ResetInv, SeenAtAddress, history
<1>9. StillCleared'
  <2> SUFFICES ASSUME NEW d \in Clients, pc'[d] = "store", address[d] \notin raced
               PROVE  {r \in resets' : r.email = address[d]} = {}
    BY <1>0 DEF StillCleared, Pending, history
  <2>1. d # c /\ pc[d] = "store" /\ address[d] # e
    BY <1>0, <1>2 DEF ResetInv, RacesRecorded
  <2> QED BY <1>1, <1>3, <2>1 DEF ResetInv, StillCleared, Pending
<1> QED BY <1>4, <1>5, <1>6, <1>7, <1>8, <1>9 DEF ResetInv

\* reset_password looks for the request of its token.
LEMMA AskResetKeepsInv ==
  ASSUME ResetInv, NEW c \in Clients, AskReset(c)
  PROVE  ResetInv'
<1> PICK t \in mailed : token' = [token EXCEPT ![c] = t]
  BY DEF AskReset
<1>1. TypeOK' /\ pc'[c] = "find reset" /\ token'[c] \in Tokens
  BY DEF AskReset, ResetInv, TypeOK, Goto, tables, history
<1>2. \A d \in Clients \ {c} : pc'[d] = pc[d] /\ token'[d] = token[d]
  BY DEF AskReset, ResetInv, TypeOK, Goto
<1>3. CallShape' /\ RacesRecorded'
  BY <1>1, <1>2 DEF AskReset, ResetInv, CallShape, RacesRecorded, history
<1>4. RowsDrawn' /\ SpentTokensStaySpent' /\ RecoveriesInTurnKeepOne'
  BY DEF AskReset, ResetInv, RowsDrawn, SpentTokensStaySpent, RecoveriesInTurnKeepOne, tables, history
<1>5. SeenAtAddress' /\ StillCleared'
  <2>1. SeenAtAddress'
    BY <1>1, <1>2 DEF AskReset, ResetInv, SeenAtAddress, tables, history
  <2>2. StillCleared'
    <3>1. \A d \in Clients : pc'[d] = "store" => pc[d] = "store" /\ address'[d] = address[d]
      BY <1>1, <1>2 DEF AskReset
    <3>2. resets' = resets /\ raced' = raced
      BY DEF AskReset, tables, history
    <3> QED BY <3>1, <3>2 DEF ResetInv, StillCleared, Pending
  <2> QED BY <2>1, <2>2
<1> QED BY <1>1, <1>3, <1>4, <1>5 DEF ResetInv

\* The tokens found with the row are those of its address.
LEMMA FindResetKeepsInv ==
  ASSUME ResetInv, NEW c \in Clients, FindReset(c)
  PROVE  ResetInv'
<1>1. CASE Finish(c, "bad_request")
  BY <1>1, FinishKeepsInv DEF FindReset, ResetInv, TypeOK
<1>2. ASSUME NEW r \in resets,
             address' = [address EXCEPT ![c] = r.email],
             seen' = [seen EXCEPT ![c] = {s.token : s \in Pending(r.email)}],
             Goto(c, "set password"), UNCHANGED <<token, answer>>
      PROVE  ResetInv'
  <2> DEFINE found == {s.token : s \in Pending(r.email)}
  <2>0. UNCHANGED <<tables, drawn, mailed, clock, spent, used, raced>> /\ pc[c] = "find reset"
    BY DEF FindReset
  <2>1. r.email \in Emails /\ found \subseteq drawn /\ found \subseteq Tokens
    <3>1. r \in Reset /\ drawn \subseteq Tokens
      BY DEF ResetInv, TypeOK
    <3>2. r.email \in Emails
      BY <3>1 DEF Reset
    <3>3. \A s \in Pending(r.email) : s.token \in drawn
      BY DEF ResetInv, RowsDrawn, Pending
    <3> QED BY <3>1, <3>2, <3>3
  <2>2. \A s \in resets : s.token \in found => s.email = r.email
    BY DEF ResetInv, RowsDrawn, Pending
  <2> HIDE DEF found
  <2>3. TypeOK'
    BY <1>2, <2>0, <2>1 DEF ResetInv, TypeOK, Goto, tables, found
  <2>4. pc'[c] = "set password" /\ address'[c] = r.email /\ seen'[c] = found
    BY <1>2 DEF ResetInv, TypeOK, Goto, found
  <2>5. \A d \in Clients \ {c} : pc'[d] = pc[d] /\ address'[d] = address[d] /\ seen'[d] = seen[d]
    BY <1>2 DEF ResetInv, TypeOK, Goto
  <2>6. CallShape'
    BY <1>2, <2>0, <2>1, <2>4, <2>5 DEF ResetInv, CallShape
  <2>10. RacesRecorded'
    BY <2>0, <2>4, <2>5 DEF ResetInv, RacesRecorded
  <2>7. RowsDrawn' /\ SpentTokensStaySpent' /\ RecoveriesInTurnKeepOne'
    BY <2>0 DEF ResetInv, RowsDrawn, SpentTokensStaySpent, RecoveriesInTurnKeepOne, tables
  <2>8. SeenAtAddress'
    BY <2>0, <2>1, <2>2, <2>4, <2>5 DEF ResetInv, SeenAtAddress, tables
  <2>9. StillCleared'
    BY <2>0, <2>4, <2>5 DEF ResetInv, StillCleared, Pending, tables
  <2> QED BY <2>3, <2>6, <2>7, <2>8, <2>9, <2>10 DEF ResetInv
<1> QED BY <1>1, <1>2 DEF FindReset

\* The password is set by address.
LEMMA SetPasswordKeepsInv ==
  ASSUME ResetInv, NEW c \in Clients, SetPassword(c)
  PROVE  ResetInv'
<1>0. token[c] \in Tokens /\ pc[c] = "set password"
  BY DEF SetPassword, ResetInv, CallShape
<1>1. TypeOK'
  BY <1>0 DEF SetPassword, ResetInv, TypeOK, Goto, tables
<1>2. pc'[c] = "consume" /\ \A d \in Clients \ {c} : pc'[d] = pc[d]
  BY DEF SetPassword, ResetInv, TypeOK, Goto
<1>3. CallShape' /\ RacesRecorded'
  BY <1>0, <1>2 DEF SetPassword, ResetInv, CallShape, RacesRecorded
<1>4. RowsDrawn' /\ SpentTokensStaySpent' /\ RecoveriesInTurnKeepOne'
  BY DEF SetPassword, ResetInv, RowsDrawn, SpentTokensStaySpent, RecoveriesInTurnKeepOne, tables
<1>5. SeenAtAddress' /\ StillCleared'
  BY <1>2 DEF SetPassword, ResetInv, SeenAtAddress, StillCleared, Pending, tables
<1> QED BY <1>1, <1>3, <1>4, <1>5 DEF ResetInv

\* Deleting by address takes every token the reset has seen.
LEMMA ConsumeTokensKeepsInv ==
  ASSUME ResetInv, NEW c \in Clients, ConsumeTokens(c)
  PROVE  ResetInv'
<1>1. resets' = resets \ Pending(address[c]) /\ resets' \subseteq resets
  BY DEF ConsumeTokens, Without
<1>2. spent \subseteq spent' /\ spent' \subseteq spent \cup seen[c]
  BY DEF ConsumeTokens
<1>3. TypeOK'
  BY <1>1, <1>2 DEF ConsumeTokens, ResetInv, TypeOK, Finish, Goto
<1>4. pc'[c] = "idle" /\ seen'[c] = {}
  BY DEF ConsumeTokens, ResetInv, TypeOK, Finish, Goto
<1>5. \A d \in Clients \ {c} : /\ pc'[d] = pc[d] /\ address'[d] = address[d]
                               /\ token'[d] = token[d] /\ seen'[d] = seen[d]
  BY DEF ConsumeTokens, ResetInv, TypeOK, Finish, Goto
<1>6. CallShape' /\ RacesRecorded'
  <2>1. CallShape'
    BY <1>4, <1>5 DEF ResetInv, CallShape
  <2>2. RacesRecorded'
    <3>1. \A d \in Clients : pc'[d] \in Recovering => pc[d] \in Recovering /\ address'[d] = address[d]
      BY <1>4, <1>5
    <3>2. RacesRecorded /\ raced' = raced
      BY DEF ResetInv, ConsumeTokens
    <3> QED BY <3>1, <3>2, SameRecoveries
  <2> QED BY <2>1, <2>2
<1>7. SpentTokensStaySpent'
  BY <1>1, <1>2 DEF ResetInv, SpentTokensStaySpent, SeenAtAddress, Pending
<1>8. RowsDrawn' /\ RecoveriesInTurnKeepOne'
  BY <1>1, <1>2 DEF ConsumeTokens, ResetInv, RowsDrawn, SeenAtAddress, RecoveriesInTurnKeepOne
<1>9. SeenAtAddress'
  BY <1>1, <1>4, <1>5 DEF ConsumeTokens, ResetInv, SeenAtAddress
<1>10. StillCleared'
  BY <1>1, <1>4, <1>5 DEF ConsumeTokens, ResetInv, StillCleared, Pending
<1> QED BY <1>3, <1>6, <1>7, <1>8, <1>9, <1>10 DEF ResetInv

\* Every step.
LEMMA NextInv == ResetInv /\ [Next]_vars => ResetInv'
<1> SUFFICES ASSUME ResetInv, [Next]_vars PROVE ResetInv'
  OBVIOUS
<1>1. ASSUME NEW c \in Clients, Recover(c) PROVE ResetInv'
  <2>1. CASE SendMail(c)
    <3>1. token[c] \in Tokens
      BY <2>1 DEF SendMail, ResetInv, CallShape
    <3> QED BY <2>1, <3>1, FinishKeepsInv DEF SendMail, ResetInv, TypeOK
  <2> QED BY <1>1, <2>1, AskRecoveryKeepsInv, FindAccountKeepsInv, ClearRequestsKeepsInv,
             StoreRequestKeepsInv DEF Recover
<1>2. ASSUME NEW c \in Clients, ResetPassword(c) PROVE ResetInv'
  BY <1>2, AskResetKeepsInv, FindResetKeepsInv, SetPasswordKeepsInv, ConsumeTokensKeepsInv
     DEF ResetPassword
<1>3. ASSUME NEW c \in Clients, Abandon(c) PROVE ResetInv'
  BY <1>3, FinishKeepsInv DEF Abandon, ResetInv, TypeOK
<1>4. CASE Tick \/ UNCHANGED vars \/ \E a \in Accounts, e \in Emails : AdminChangesEmail(a, e)
  <2>1. UNCHANGED <<resets, drawn, mailed, calls, history>>
    BY <1>4 DEF Tick, vars, AdminChangesEmail, tables, calls, history
  <2>2. TypeOK'
    <3>0. clock \in Nat /\ email \in [Accounts -> Emails]
      BY DEF ResetInv, TypeOK
    <3>1. clock' \in Nat
      BY <1>4, <3>0 DEF Tick, vars, AdminChangesEmail
    <3>2. email' \in [Accounts -> Emails]
      BY <1>4, <3>0 DEF Tick, vars, AdminChangesEmail, tables
    <3> QED BY <2>1, <3>1, <3>2 DEF ResetInv, TypeOK, calls, history
  <2>3. CallShape' /\ RacesRecorded' /\ SeenAtAddress' /\ StillCleared'
    BY <2>1 DEF ResetInv, CallShape, RacesRecorded, SeenAtAddress, StillCleared, Pending, calls, history
  <2>4. RowsDrawn' /\ SpentTokensStaySpent' /\ RecoveriesInTurnKeepOne'
    BY <2>1 DEF ResetInv, RowsDrawn, SpentTokensStaySpent, RecoveriesInTurnKeepOne, history
  <2> QED BY <2>2, <2>3, <2>4 DEF ResetInv
<1> QED BY <1>1, <1>2, <1>3, <1>4 DEF Next

\* The inductive invariant of recoveries and resets.
THEOREM ResetCorrect == Spec => []ResetInv
  BY InitInv, NextInv, PTL DEF Spec

\* What a reset that was answered has used up never comes back, although its
\* three statements and those of recoveries interleave freely.
THEOREM SpentForGood == Spec => []SpentTokensStaySpent
<1>1. ResetInv => SpentTokensStaySpent
  BY DEF ResetInv
<1> QED BY <1>1, ResetCorrect, PTL

\* Recoveries of an address that do not overlap leave one request for it.
THEOREM OneRequestInTurn == Spec => []RecoveriesInTurnKeepOne
<1>1. ResetInv => RecoveriesInTurnKeepOne
  BY DEF ResetInv
<1> QED BY <1>1, ResetCorrect, PTL

\* Requests, mail and calls stay whole, whichever statement fails.
THEOREM ResetTypes == Spec => []TypeOK
<1>1. ResetInv => TypeOK
  BY DEF ResetInv
<1> QED BY <1>1, ResetCorrect, PTL
=============================================================================
