------------------------------- MODULE SignUp -------------------------------
(***************************************************************************)
(* How accounts come to be: AuthService::register and login_with_google    *)
(* over PostgresAuthStore, as several people and one administrator use     *)
(* them at once.                                                           *)
(*                                                                         *)
(* A call is an async task and gives way at every await on the database,   *)
(* so there is one action per statement whose order matters. create_user   *)
(* is the one transaction: its row is visible from COMMIT on, and an       *)
(* INSERT with the same key waits until it ends.                           *)
(*                                                                         *)
(* Of an account the model keeps its two unique columns, the role sign up  *)
(* gives, and the name and photo as one profile. The sample schema is      *)
(* stored by SchemaService::create, one step as SchemaCatalog allows.      *)
(***************************************************************************)
EXTENDS Naturals, FiniteSets

CONSTANTS
  Clients,     \* tasks that serve calls; one call at a time each
  Emails,      \* spellings of addresses
  Clean(_),    \* clean_email: trimmed and in lower case
  UserNames,   \* what the user_name column holds
  Profiles,    \* name and photo
  Ids,         \* the UUIDs of accounts
  NoUser,      \* no row under this id
  NoId,        \* no account: none was found or inserted yet
  NoRequest    \* no call is being served

\* A row of iam.users with its row of iam.user_has_roles, and who made it.
\* The role is "none" until it was given once.
Account ==
  [email : Emails, user_name : UserNames, profile : Profiles,
   role : {"none", "held", "taken"}, made : {"sign up", "administrator"}]

Request == [op : {"register", "google"}, email : Emails, profile : Profiles]

ASSUME SignUpAssumption ==
  /\ \A e \in Emails : Clean(e) \in Emails /\ Clean(Clean(e)) = Clean(e)
  /\ Emails \subseteq UserNames
  /\ NoId \notin Ids
  /\ NoUser \notin Account
  /\ NoRequest \notin Request

VARIABLES
  users,    \* iam.users, the committed rows
  sample,   \* the sample schema of each account: "none", "stored" or "deleted"
  own,      \* the accounts that saved a schema of the sample's name themselves
  pc,       \* where each client's call stands
  req,      \* the call it serves
  uid,      \* the account it found or inserted
  answer,   \* what its last call returned
  issued,   \* the accounts that tokens were handed out for, by address
  renamed   \* the accounts whose email an administrator changed

calls == <<pc, req, uid, answer>>
vars  == <<users, sample, own, pc, req, uid, answer, issued, renamed>>

Answers == {"none", "tokens", "invalid", "unauthorized", "conflict", "unknown"}

\* Steps of a create_user transaction that inserted its row.
OpenInsert == {"roles", "commit"}

Init ==
  /\ users   = [u \in Ids |-> NoUser]
  /\ sample  = [u \in Ids |-> "none"]
  /\ own     = {}
  /\ pc      = [c \in Clients |-> "idle"]
  /\ req     = [c \in Clients |-> NoRequest]
  /\ uid     = [c \in Clients |-> NoId]
  /\ answer  = [c \in Clients |-> "none"]
  /\ issued  = {}
  /\ renamed = {}

-----------------------------------------------------------------------------
(* What the steps are made of.                                             *)

Goto(c, step) == pc' = [pc EXCEPT ![c] = step]

Rows == {u \in Ids : users[u] # NoUser}

\* Ids uuid_generate_v4 can draw: no row and no open transaction has them.
Free == Ids \ (Rows \cup {uid[c] : c \in Clients})

\* Bound: calls are accepted while an id is left for each.
IdsLeft == Cardinality({c \in Clients : pc[c] # "idle" /\ uid[c] = NoId}) < Cardinality(Free)

\* find_user_by_email: the column is compared as it is spelled.
ByEmail(email) == {u \in Rows : users[u].email = email}

\* The unique columns user_name and email of the committed rows.
Clash(user_name, email) ==
  \E u \in Rows : users[u].user_name = user_name \/ users[u].email = email

\* An open INSERT holds the key: whoever needs it waits for its transaction.
KeyHeld(c, email) ==
  \E d \in Clients \ {c} : pc[d] \in OpenInsert /\ req[d].email = email

\* The call is over: answered, failed, or dropped with its caller.
Finish(c, result) ==
  /\ Goto(c, "idle")
  /\ req'    = [req EXCEPT ![c] = NoRequest]
  /\ uid'    = [uid EXCEPT ![c] = NoId]
  /\ answer' = [answer EXCEPT ![c] = result]

\* Mutant: the account is taken from the call, which may not have it yet.
IssueForCall(c, u) ==
  /\ Finish(c, "tokens")
  /\ issued' = issued \cup {[address |-> Clean(req[c].email), id |-> uid[c]]}

\* generate_tokens.
Issue(c, u) ==
  /\ Finish(c, "tokens")
  /\ issued' = issued \cup {[address |-> Clean(req[c].email), id |-> u]}

\* follow_google_profile: the row is only written when it differs.
SignIn(c, u) ==
  IF users[u].profile = req[c].profile
    THEN Issue(c, u)
    ELSE /\ Goto(c, "profile")
         /\ uid' = [uid EXCEPT ![c] = u]
         /\ UNCHANGED <<req, answer, issued>>

-----------------------------------------------------------------------------
(* A call arrives.                                                         *)

Accept(c, r) ==
  /\ pc[c] = "idle"
  /\ IdsLeft
  /\ Goto(c, "lookup")
  /\ req'    = [req EXCEPT ![c] = r]
  /\ answer' = [answer EXCEPT ![c] = "none"]
  /\ UNCHANGED <<users, sample, own, uid, issued, renamed>>

Register(c) ==
  \E e \in Emails, p \in Profiles :
    Accept(c, [op |-> "register", email |-> Clean(e), profile |-> p])

\* Mutant: the address is taken as Google spells it.
GoogleEmailAsSpelled(email) == email

GoogleEmail(email) == Clean(email)

\* Google vouched for the address.
LoginWithGoogle(c) ==
  \E e \in Emails, p \in Profiles :
    Accept(c, [op |-> "google", email |-> GoogleEmail(e), profile |-> p])

\* check_registration refuses the form, or Google the code or the address:
\* the store is not asked anything.
Refuse(c) ==
  /\ pc[c] = "idle"
  /\ \E result \in {"invalid", "unauthorized", "unknown"} :
       answer' = [answer EXCEPT ![c] = result]
  /\ UNCHANGED <<users, sample, own, pc, req, uid, issued, renamed>>

-----------------------------------------------------------------------------
(* The steps of a call.                                                    *)

LookUp(c) ==
  /\ pc[c] = "lookup"
  /\ \/ /\ ByEmail(req[c].email) = {}
        /\ Goto(c, "insert")
        /\ UNCHANGED <<req, uid, answer, issued>>
     \/ \E u \in ByEmail(req[c].email) :
          IF req[c].op = "register"
            THEN Finish(c, "conflict") /\ UNCHANGED issued
            ELSE SignIn(c, u)
  /\ UNCHANGED <<users, sample, own, renamed>>

\* INSERT INTO iam.users, the address as user_name too. A lost race is a
\* conflict for register; a Google sign in looks for the row it lost to.
InsertUser(c) ==
  /\ pc[c] = "insert"
  /\ ~KeyHeld(c, req[c].email)
  /\ \/ /\ Clash(req[c].email, req[c].email)
        /\ IF req[c].op = "register"
             THEN Finish(c, "conflict")
             ELSE Goto(c, "refind") /\ UNCHANGED <<req, uid, answer>>
     \/ /\ ~Clash(req[c].email, req[c].email)
        /\ \E u \in Free : uid' = [uid EXCEPT ![c] = u]
        /\ Goto(c, "roles")
        /\ UNCHANGED <<req, answer>>
  /\ UNCHANGED <<users, sample, own, issued, renamed>>

\* The row as create_user writes it.
NewAccount(c, role) ==
  [email |-> req[c].email, user_name |-> req[c].email, profile |-> req[c].profile,
   role |-> role, made |-> "sign up"]

\* Mutant: the row is committed before the roles are inserted.
InsertRolesLater(c) ==
  /\ pc[c] = "roles"
  /\ users' = [users EXCEPT ![uid[c]] = NewAccount(c, "none")]
  /\ Goto(c, "commit")
  /\ UNCHANGED <<sample, own, req, uid, answer, issued, renamed>>

\* INSERT INTO iam.user_has_roles, still inside the transaction.
InsertRoles(c) ==
  /\ pc[c] = "roles"
  /\ Goto(c, "commit")
  /\ UNCHANGED <<users, sample, own, req, uid, answer, issued, renamed>>

\* COMMIT. When its answer is lost the call fails although the row is stored.
CommitUser(c) ==
  /\ pc[c] = "commit"
  /\ users' = [users EXCEPT ![uid[c]] = NewAccount(c, "held")]
  /\ \/ Goto(c, "seed") /\ UNCHANGED <<req, uid, answer>>
     \/ Finish(c, "unknown")
  /\ UNCHANGED <<sample, own, issued, renamed>>

\* seed: SchemaService::create, which refuses a name the account already has
\* and can store the sample although its answer is lost.
Seed(c) ==
  /\ pc[c] = "seed"
  /\ IF sample[uid[c]] = "stored" \/ uid[c] \in own
       THEN Finish(c, "conflict") /\ UNCHANGED sample
       ELSE /\ sample' = [sample EXCEPT ![uid[c]] = "stored"]
            /\ \/ Goto(c, "require") /\ UNCHANGED <<req, uid, answer>>
               \/ Finish(c, "unknown")
  /\ UNCHANGED <<users, own, issued, renamed>>

\* require_user_by_id: rows are never removed, so it is there.
Require(c) ==
  /\ pc[c] = "require"
  /\ Issue(c, uid[c])
  /\ UNCHANGED <<users, sample, own, renamed>>

\* Mutant: a sign in that lost the race goes on like the one that won it.
FindAgainAndSeed(c) ==
  /\ pc[c] = "refind"
  /\ \/ /\ ByEmail(req[c].email) = {}
        /\ Finish(c, "unknown")
     \/ \E u \in ByEmail(req[c].email) : /\ uid' = [uid EXCEPT ![c] = u]
                                         /\ Goto(c, "seed")
                                         /\ UNCHANGED <<req, answer>>
  /\ UNCHANGED <<users, sample, own, issued, renamed>>

\* Mutant: a sign in that lost the race starts over.
FindAgainFromStart(c) ==
  /\ pc[c] = "refind"
  /\ Goto(c, "lookup")
  /\ UNCHANGED <<users, sample, own, req, uid, answer, issued, renamed>>

\* After a lost insert: the row it lost to is looked up by its email.
FindAgain(c) ==
  /\ pc[c] = "refind"
  /\ \/ /\ ByEmail(req[c].email) = {}
        /\ Finish(c, "unknown")
        /\ UNCHANGED issued
     \/ \E u \in ByEmail(req[c].email) : SignIn(c, u)
  /\ UNCHANGED <<users, sample, own, renamed>>

\* update_profile, by id.
UpdateProfile(c) ==
  /\ pc[c] = "profile"
  /\ users' = [users EXCEPT ![uid[c]].profile = req[c].profile]
  /\ Issue(c, uid[c])
  /\ UNCHANGED <<sample, own, renamed>>

\* A statement fails, or the task is dropped with its caller. An open
\* transaction is rolled back; what was committed stays.
Abandon(c) ==
  /\ pc[c] # "idle"
  /\ Finish(c, "unknown")
  /\ UNCHANGED <<users, sample, own, issued, renamed>>

-----------------------------------------------------------------------------
(* Meanwhile: an administrator (UserServiceImpl::create, partial_update,   *)
(* each a transaction that takes effect at its COMMIT) and the people who  *)
(* hold tokens.                                                            *)

\* Addresses an administrator enters are stored as spelled.
AdminCreates(u, user_name, email) ==
  /\ u \in Free /\ IdsLeft
  /\ ~Clash(user_name, email)
  /\ \A c \in Clients : pc[c] \in OpenInsert => req[c].email \notin {user_name, email}
  /\ \E role \in {"none", "held"}, p \in Profiles :
       users' = [users EXCEPT ![u] =
         [email |-> email, user_name |-> user_name, profile |-> p,
          role |-> role, made |-> "administrator"]]
  /\ UNCHANGED <<sample, own, calls, issued, renamed>>

\* The email changes, the user_name stays.
AdminChangesEmail(u, email) ==
  /\ u \in Rows
  /\ ByEmail(email) = {}
  /\ \A c \in Clients : pc[c] \in OpenInsert => req[c].email # email
  /\ users'   = [users EXCEPT ![u].email = email]
  /\ renamed' = renamed \cup {u}
  /\ UNCHANGED <<sample, own, calls, issued>>

AdminChangesRoles(u) ==
  /\ u \in Rows
  /\ \/ users' = [users EXCEPT ![u].role = "held"]
     \/ /\ users[u].role = "held"
        /\ users' = [users EXCEPT ![u].role = "taken"]
  /\ UNCHANGED <<sample, own, calls, issued, renamed>>

SignedIn(u) == \E token \in issued : token.id = u

UserDeletesSample(u) ==
  /\ SignedIn(u) /\ sample[u] = "stored"
  /\ sample' = [sample EXCEPT ![u] = "deleted"]
  /\ UNCHANGED <<users, own, calls, issued, renamed>>

\* A schema of the sample's name, when no schema of the account has it.
UserSavesSchema(u) ==
  /\ SignedIn(u) /\ sample[u] # "stored" /\ u \notin own
  /\ own' = own \cup {u}
  /\ UNCHANGED <<users, sample, calls, issued, renamed>>

-----------------------------------------------------------------------------

Advance(c) ==
  \/ LookUp(c) \/ InsertRoles(c) \/ CommitUser(c) \/ Seed(c) \/ Require(c)
  \/ FindAgain(c) \/ UpdateProfile(c)

Arrive(c) == Register(c) \/ LoginWithGoogle(c) \/ Refuse(c)

Others(u) ==
  \/ \E n \in UserNames, e \in Emails : AdminCreates(u, n, e)
  \/ \E e \in Emails : AdminChangesEmail(u, e)
  \/ AdminChangesRoles(u)
  \/ UserDeletesSample(u) \/ UserSavesSchema(u)

Next ==
  \/ \E c \in Clients : Arrive(c) \/ Advance(c) \/ InsertUser(c) \/ Abandon(c)
  \/ \E u \in Ids : Others(u)

Spec == Init /\ [][Next]_vars

\* The tasks are polled while they can run. An INSERT that waits for a key is
\* woken whenever the transaction it waits for ends.
Fairness == \A c \in Clients : WF_vars(Advance(c)) /\ SF_vars(InsertUser(c))

FairSpec == Spec /\ Fairness

-----------------------------------------------------------------------------
(* Properties.                                                             *)

TypeOK ==
  /\ users   \in [Ids -> Account \cup {NoUser}]
  /\ sample  \in [Ids -> {"none", "stored", "deleted"}]
  /\ own     \subseteq Ids
  /\ pc      \in [Clients -> {"idle", "lookup", "insert", "roles", "commit", "seed",
                              "require", "refind", "profile"}]
  /\ req     \in [Clients -> Request \cup {NoRequest}]
  /\ uid     \in [Clients -> Ids \cup {NoId}]
  /\ answer  \in [Clients -> Answers]
  /\ issued  \subseteq [address : Emails, id : Ids]
  /\ renamed \subseteq Ids

\* However people register and sign in with Google, in whatever spelling and
\* whichever of two racing calls wins, an address leads to one account; the
\* exception is an account whose email an administrator changed.
SameAddressSameAccount ==
  \A s, t \in issued :
    s.address = t.address /\ {s.id, t.id} \cap renamed = {} => s.id = t.id

\* "Only creation seeds: a sample the user deleted stays deleted" (seed),
\* also when the account is signed into while it is being created.
DeletedSampleStaysDeleted ==
  [][\A u \in Ids : sample[u] = "deleted" => sample'[u] = "deleted"]_vars

\* An account made by signing up has the role that lets it use the product
\* from the moment anyone can find it, until an administrator takes it.
RolesWithAccount == \A u \in Rows : users[u].made = "sign up" => users[u].role # "none"

\* Every accepted call ends, also when it keeps losing a key.
EveryCallEnds == \A c \in Clients : pc[c] # "idle" ~> pc[c] = "idle"

-----------------------------------------------------------------------------
(* Why the properties hold: what a call knows at each of its steps.        *)

\* Steps of a call that creates its account.
Creating == OpenInsert \cup {"seed", "require"}

\* The call in progress is what arrived, with its address cleaned, and it
\* knows its account once it inserted or found one.
CallShape ==
  \A c \in Clients :
    /\ IF pc[c] = "idle" THEN req[c] = NoRequest
       ELSE req[c] \in Request /\ Clean(req[c].email) = req[c].email
    /\ IF pc[c] \in Creating \cup {"profile"} THEN uid[c] \in Ids ELSE uid[c] = NoId
    /\ pc[c] \in OpenInsert => users[uid[c]] = NoUser
    /\ pc[c] \in {"seed", "require", "profile"} => users[uid[c]] # NoUser

\* Each account is created by one call.
OneCreator ==
  \A c, d \in Clients :
    c # d /\ pc[c] \in Creating /\ pc[d] \in Creating => uid[c] # uid[d]

\* Until its creator seeds it an account has no sample, and only rows have one.
SeedPending ==
  /\ \A c \in Clients : pc[c] \in OpenInsert \cup {"seed"} => sample[uid[c]] = "none"
  /\ \A u \in Ids : sample[u] # "none" => users[u] # NoUser

\* The unique index on email, the open inserts included.
EmailsUnique ==
  /\ \A u, v \in Rows : users[u].email = users[v].email => u = v
  /\ \A c \in Clients, u \in Rows :
       pc[c] \in OpenInsert => users[u].email # req[c].email
  /\ \A c, d \in Clients :
       c # d /\ pc[c] \in OpenInsert /\ pc[d] \in OpenInsert => req[c].email # req[d].email

\* Tokens, and calls about to issue them, belong to the row with the address.
TokensMatch ==
  /\ \A t \in issued :
       t.id \in Rows /\ (t.id \notin renamed => users[t.id].email = t.address)
  /\ \A c \in Clients :
       pc[c] \in {"seed", "require", "profile"} /\ uid[c] \notin renamed
       => users[uid[c]].email = req[c].email
  /\ renamed \subseteq Rows

SignUpInv ==
  /\ TypeOK /\ CallShape /\ OneCreator /\ SeedPending
  /\ EmailsUnique /\ TokensMatch /\ RolesWithAccount
=============================================================================
