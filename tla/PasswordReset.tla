--------------------------- MODULE PasswordReset ---------------------------
(***************************************************************************)
(* AuthService::password_recovery and reset_password over                  *)
(* PostgresAuthStore, while an administrator edits accounts.               *)
(*                                                                         *)
(* No statement here runs in a transaction with another: each commits on   *)
(* its own and other calls run in between, so there is one action per      *)
(* statement. A token is the random string that is mailed; the table holds *)
(* its digest, and a digest names one token. A call whose caller is gone   *)
(* ends when the statement it had sent has ended. Passwords are abstracted *)
(* to the tokens that have set one.                                        *)
(***************************************************************************)
EXTENDS Naturals

CONSTANTS
  Clients,    \* tasks that serve calls; one call at a time each
  Accounts,   \* the rows of iam.users
  Emails,     \* addresses
  Tokens,     \* what random_token draws
  Ttl,        \* PASSWORD_RESET_TTL_MINUTES, in ticks of the clock
  MaxClock,   \* bound: how far the clock runs
  NoToken,    \* no token: the call is a recovery that drew none yet
  NoEmail,    \* no address: the call is a reset that found none yet
  InitialEmail(_)   \* the address of each account to begin with

\* A row of iam.password_resets.
Reset == [email : Emails, token : Tokens, at : Nat]

ASSUME PasswordResetAssumption ==
  /\ Ttl \in Nat /\ MaxClock \in Nat
  /\ NoToken \notin Tokens /\ NoEmail \notin Emails
  /\ \A a \in Accounts : InitialEmail(a) \in Emails
  /\ \A a, b \in Accounts : InitialEmail(a) = InitialEmail(b) => a = b

VARIABLES
  email,      \* the email column, unique
  resets,     \* iam.password_resets
  drawn,      \* the tokens drawn so far
  mailed,     \* the tokens that reached a mailbox
  clock,      \* the time
  pc,         \* where each client's call stands
  token,      \* the token the call drew or was given
  address,    \* the address the call was given or found
  answer,     \* what its last call returned
  seen,       \* the tokens of its address that were stored when a reset began
  spent,      \* the tokens that completed resets have used up
  used,       \* the tokens that have set a password
  raced       \* the addresses two recoveries were under way for at once

tables  == <<email, resets>>
calls   == <<pc, token, address, answer>>
history == <<seen, spent, used, raced>>
vars    == <<email, resets, drawn, mailed, clock, pc, token, address, answer,
             seen, spent, used, raced>>

\* Steps of password_recovery and of reset_password.
Recovering == {"find account", "clear", "store", "mail"}
Resetting  == {"find reset", "set password", "consume"}

Init ==
  /\ email    = [a \in Accounts |-> InitialEmail(a)]
  /\ resets   = {}
  /\ drawn    = {}
  /\ mailed   = {}
  /\ clock    = 0
  /\ pc       = [c \in Clients |-> "idle"]
  /\ token    = [c \in Clients |-> NoToken]
  /\ address  = [c \in Clients |-> NoEmail]
  /\ answer   = [c \in Clients |-> "none"]
  /\ seen     = [c \in Clients |-> {}]
  /\ spent    = {}
  /\ used     = {}
  /\ raced    = {}

-----------------------------------------------------------------------------
(* What the steps are made of.                                             *)

Goto(c, step) == pc' = [pc EXCEPT ![c] = step]

Finish(c, result) ==
  /\ Goto(c, "idle")
  /\ token'   = [token EXCEPT ![c] = NoToken]
  /\ address' = [address EXCEPT ![c] = NoEmail]
  /\ seen'    = [seen EXCEPT ![c] = {}]
  /\ answer'  = [answer EXCEPT ![c] = result]

\* find_user_by_email and the UPDATE of reset_password: at most one account.
Holders(e) == {a \in Accounts : email[a] = e}

Pending(e) == {r \in resets : r.email = e}

\* created_at + TTL < now.
Expired(r) == r.at + Ttl < clock

\* Mutant: the rows of the token alone.
WithoutUsed(e, t) == {r \in resets : r.token # t}

\* delete_password_reset: every row of the address goes.
Without(e, t) == resets \ Pending(e)

-----------------------------------------------------------------------------
(* password_recovery.                                                      *)

AskRecovery(c) ==
  /\ pc[c] = "idle"
  /\ \E e \in Emails :
       /\ address' = [address EXCEPT ![c] = e]
       /\ raced' = IF \E d \in Clients : pc[d] \in Recovering /\ address[d] = e
                     THEN raced \cup {e} ELSE raced
  /\ Goto(c, "find account")
  /\ answer' = [answer EXCEPT ![c] = "none"]
  /\ UNCHANGED <<tables, drawn, mailed, clock, token, seen, spent, used>>

FindAccount(c) ==
  /\ pc[c] = "find account"
  /\ IF Holders(address[c]) = {}
       THEN Finish(c, "not_found")
       ELSE Goto(c, "clear") /\ UNCHANGED <<token, address, answer, seen>>
  /\ UNCHANGED <<tables, drawn, mailed, clock, spent, used, raced>>

\* Mutant: earlier requests are left.
ClearNothing(c) ==
  /\ pc[c] = "clear"
  /\ Goto(c, "store")
  /\ UNCHANGED <<tables, drawn, mailed, clock, token, address, answer, history>>

ClearRequests(c) ==
  /\ pc[c] = "clear"
  /\ resets' = Without(address[c], NoToken)
  /\ Goto(c, "store")
  /\ UNCHANGED <<email, drawn, mailed, clock, token, address, answer, history>>

\* Mutant: the two text arguments are swapped.
RequestSwapped(e, t) == [email |-> t, token |-> e, at |-> clock]

\* The row create_password_reset inserts.
Request(e, t) == [email |-> e, token |-> t, at |-> clock]

\* create_password_reset with a fresh token.
StoreRequest(c) ==
  /\ pc[c] = "store"
  /\ \E t \in Tokens \ drawn :
       /\ drawn'  = drawn \cup {t}
       /\ token'  = [token EXCEPT ![c] = t]
       /\ resets' = resets \cup {Request(address[c], t)}
  /\ Goto(c, "mail")
  /\ UNCHANGED <<email, mailed, clock, address, answer, history>>

\* send_html. A mail can arrive although the transport reports a failure.
SendMail(c) ==
  /\ pc[c] = "mail"
  /\ mailed' = mailed \cup {token[c]}
  /\ \E result \in {"ok", "unknown"} : Finish(c, result)
  /\ UNCHANGED <<tables, drawn, clock, spent, used, raced>>

-----------------------------------------------------------------------------
(* reset_password.                                                         *)

\* Only a mailed token is known to anyone; others are found nowhere.
AskReset(c) ==
  /\ pc[c] = "idle"
  /\ \E t \in mailed : token' = [token EXCEPT ![c] = t]
  /\ Goto(c, "find reset")
  /\ answer' = [answer EXCEPT ![c] = "none"]
  /\ UNCHANGED <<tables, drawn, mailed, clock, address, history>>

\* find_password_by_token and the check of its age.
FindReset(c) ==
  /\ pc[c] = "find reset"
  /\ \/ /\ \A r \in resets : r.token = token[c] => Expired(r)
        /\ Finish(c, "bad_request")
     \/ \E r \in resets :
          /\ r.token = token[c] /\ ~Expired(r)
          /\ address' = [address EXCEPT ![c] = r.email]
          /\ seen'    = [seen EXCEPT ![c] = {s.token : s \in Pending(r.email)}]
          /\ Goto(c, "set password")
          /\ UNCHANGED <<token, answer>>
  /\ UNCHANGED <<tables, drawn, mailed, clock, spent, used, raced>>

\* UPDATE iam.users ... WHERE email: no row is no error.
SetPassword(c) ==
  /\ pc[c] = "set password"
  /\ used' = used \cup {token[c] : a \in Holders(address[c])}
  /\ Goto(c, "consume")
  /\ UNCHANGED <<tables, drawn, mailed, clock, token, address, answer, seen, spent, raced>>

ConsumeTokens(c) ==
  /\ pc[c] = "consume"
  /\ resets' = Without(address[c], token[c])
  /\ \/ Finish(c, "ok") /\ spent' = spent \cup seen[c]
     \/ Finish(c, "unknown") /\ UNCHANGED spent
  /\ UNCHANGED <<email, drawn, mailed, clock, used, raced>>

-----------------------------------------------------------------------------

\* A statement fails, or the task is dropped: what was committed stays.
Abandon(c) ==
  /\ pc[c] # "idle"
  /\ Finish(c, "unknown")
  /\ UNCHANGED <<tables, drawn, mailed, clock, spent, used, raced>>

Tick ==
  /\ clock < MaxClock
  /\ clock' = clock + 1
  /\ UNCHANGED <<tables, drawn, mailed, calls, history>>

\* UserServiceImpl::partial_update with an email nobody else has.
AdminChangesEmail(a, e) ==
  /\ Holders(e) = {}
  /\ email' = [email EXCEPT ![a] = e]
  /\ UNCHANGED <<resets, drawn, mailed, clock, calls, history>>

Recover(c) ==
  AskRecovery(c) \/ FindAccount(c) \/ ClearRequests(c) \/ StoreRequest(c) \/ SendMail(c)

ResetPassword(c) == AskReset(c) \/ FindReset(c) \/ SetPassword(c) \/ ConsumeTokens(c)

Next ==
  \/ \E c \in Clients : Recover(c) \/ ResetPassword(c) \/ Abandon(c)
  \/ \E a \in Accounts, e \in Emails : AdminChangesEmail(a, e)
  \/ Tick

Spec == Init /\ [][Next]_vars

-----------------------------------------------------------------------------
(* Properties.                                                             *)

TypeOK ==
  /\ email    \in [Accounts -> Emails]
  /\ resets   \subseteq Reset
  /\ drawn    \subseteq Tokens /\ mailed \subseteq Tokens
  /\ clock    \in Nat
  /\ pc       \in [Clients -> Recovering \cup Resetting \cup {"idle"}]
  /\ token    \in [Clients -> Tokens \cup {NoToken}]
  /\ address  \in [Clients -> Emails \cup {NoEmail}]
  /\ answer   \in [Clients -> {"none", "ok", "not_found", "bad_request", "unknown"}]
  /\ seen     \in [Clients -> SUBSET Tokens]
  /\ spent    \subseteq Tokens
  /\ used     \subseteq Tokens
  /\ raced    \subseteq Emails

\* A reset that was answered has used up its token and every other token its
\* address had when it began, whatever recoveries ran beside it: none of them
\* is ever found again.
SpentTokensStaySpent == \A r \in resets : r.token \notin spent

\* Recoveries that come one after the other leave one request per address,
\* also when some of them fail half way. Of two that overlap both may stay,
\* although "Only one pending request per address is kept"
\* (password_recovery).
RecoveriesInTurnKeepOne ==
  \A r, s \in resets : r.email = s.email /\ r.email \notin raced => r = s

-----------------------------------------------------------------------------
(* Why the properties hold.                                                *)

\* Every row and every spent token was drawn, and a token has one row.
RowsDrawn ==
  /\ spent \subseteq drawn
  /\ \A r \in resets : r.token \in drawn
  /\ \A r, s \in resets : r.token = s.token => r = s

\* The tokens a reset found beside its own have no row of another address.
SeenAtAddress ==
  \A c \in Clients :
    /\ seen[c] \subseteq drawn
    /\ pc[c] \notin {"set password", "consume"} => seen[c] = {}
    /\ \A r \in resets : r.token \in seen[c] => r.email = address[c]

\* Two recoveries of one address at once are on record.
RacesRecorded ==
  \A c, d \in Clients :
    /\ c # d /\ pc[c] \in Recovering /\ pc[d] \in Recovering
    /\ address[c] = address[d]
    => address[c] \in raced

\* A recovery that has the address to itself finds it still cleared.
StillCleared ==
  \A c \in Clients :
    pc[c] = "store" /\ address[c] \notin raced => Pending(address[c]) = {}

\* A call has the address and the token its next step uses.
CallShape ==
  \A c \in Clients :
    /\ pc[c] \in Recovering \cup {"set password", "consume"} => address[c] \in Emails
    /\ pc[c] \in Resetting \cup {"mail"} => token[c] \in Tokens

ResetInv ==
  /\ TypeOK /\ CallShape /\ RowsDrawn /\ SeenAtAddress
  /\ RacesRecorded /\ StillCleared /\ SpentTokensStaySpent /\ RecoveriesInTurnKeepOne
=============================================================================
