---------------------------- MODULE SignUpProofs ----------------------------
(***************************************************************************)
(* Signing up keeps its promises for every number of clients, addresses    *)
(* and accounts: the inductive invariant SignUpInv is preserved by each    *)
(* action.                                                                 *)
(***************************************************************************)
EXTENDS SignUp, TLAPS

\* The steps of a call, as the provers need to see them.
USE DEF OpenInsert, Creating

\* Rows, keys and roles stay while no row is written and no insert is opened.
LEMMA SameEmails ==
  ASSUME EmailsUnique, RolesWithAccount, users' = users,
         \A d \in Clients : pc'[d] \in OpenInsert => pc[d] \in OpenInsert /\ req'[d] = req[d]
  PROVE  EmailsUnique' /\ RolesWithAccount'
<1>1. Rows' = Rows
  BY DEF Rows
<1>2. RolesWithAccount'
  BY <1>1 DEF RolesWithAccount
<1>3. \A u, v \in Rows : users[u].email = users[v].email => u = v
  BY DEF EmailsUnique
<1>4. ASSUME NEW c \in Clients, NEW u \in Rows, pc'[c] \in OpenInsert
      PROVE  users[u].email # req'[c].email
  BY <1>4 DEF EmailsUnique
<1>5. ASSUME NEW c \in Clients, NEW d \in Clients, c # d,
             pc'[c] \in OpenInsert, pc'[d] \in OpenInsert
      PROVE  req'[c].email # req'[d].email
  BY <1>5 DEF EmailsUnique
<1> QED BY <1>1, <1>2, <1>3, <1>4, <1>5 DEF EmailsUnique

\* The same for the accounts that tokens are or will be issued for.
LEMMA SameTokens ==
  ASSUME TokensMatch, UNCHANGED <<users, issued, renamed>>,
         \A d \in Clients :
           pc'[d] \in {"seed", "require", "profile"} =>
             /\ pc[d] \in {"seed", "require", "profile"}
             /\ req'[d] = req[d] /\ uid'[d] = uid[d]
  PROVE  TokensMatch'
<1>1. Rows' = Rows
  BY DEF Rows
<1> QED BY <1>1 DEF TokensMatch

\* A call that ends without writing.
LEMMA FinishKeepsInv ==
  ASSUME SignUpInv, NEW c \in Clients, NEW result \in Answers, Finish(c, result),
         UNCHANGED <<users, sample, own, issued, renamed>>
  PROVE  SignUpInv'
<1>1. TypeOK'
  BY DEF SignUpInv, TypeOK, Finish, Goto
<1>2. \A d \in Clients \ {c} : pc'[d] = pc[d] /\ req'[d] = req[d] /\ uid'[d] = uid[d]
  BY DEF SignUpInv, TypeOK, Finish, Goto
<1>3. pc'[c] = "idle" /\ req'[c] = NoRequest /\ uid'[c] = NoId
  BY DEF SignUpInv, TypeOK, Finish, Goto
<1>4. CallShape'
  BY <1>2, <1>3 DEF SignUpInv, CallShape
<1>5. OneCreator' /\ SeedPending'
  BY <1>2, <1>3 DEF SignUpInv, OneCreator, SeedPending
<1>6. EmailsUnique' /\ TokensMatch' /\ RolesWithAccount'
  BY <1>2, <1>3, SameEmails, SameTokens DEF SignUpInv
<1> QED BY <1>1, <1>4, <1>5, <1>6 DEF SignUpInv

\* Tokens go to the row that had the address.
LEMMA IssueKeepsInv ==
  ASSUME SignUpInv, NEW c \in Clients, pc[c] # "idle", NEW u \in Rows,
         u \notin renamed => users[u].email = req[c].email,
         Issue(c, u), UNCHANGED <<users, sample, own, renamed>>
  PROVE  SignUpInv'
<1>0. u \in Ids /\ req[c] \in Request /\ Clean(req[c].email) = req[c].email
  BY DEF SignUpInv, CallShape, Rows
<1>1. TypeOK'
  BY <1>0 DEF SignUpInv, TypeOK, Issue, Finish, Goto, Answers, Request
<1>2. \A d \in Clients \ {c} : pc'[d] = pc[d] /\ req'[d] = req[d] /\ uid'[d] = uid[d]
  BY DEF SignUpInv, TypeOK, Issue, Finish, Goto
<1>3. pc'[c] = "idle" /\ req'[c] = NoRequest /\ uid'[c] = NoId
  BY DEF SignUpInv, TypeOK, Issue, Finish, Goto
<1>4. CallShape'
  BY <1>2, <1>3 DEF SignUpInv, CallShape
<1>5. OneCreator' /\ SeedPending'
  BY <1>2, <1>3 DEF SignUpInv, OneCreator, SeedPending
<1>6. EmailsUnique' /\ RolesWithAccount'
  BY <1>2, <1>3, SameEmails DEF SignUpInv
<1>7. TokensMatch'
  BY <1>0, <1>2, <1>3 DEF SignUpInv, TokensMatch, Rows, Issue
<1> QED BY <1>1, <1>4, <1>5, <1>6, <1>7 DEF SignUpInv

\* A Google sign in into a row it found by the address.
LEMMA SignInKeepsInv ==
  ASSUME SignUpInv, NEW c \in Clients, pc[c] \in {"lookup", "refind"},
         NEW u \in ByEmail(req[c].email), SignIn(c, u),
         UNCHANGED <<users, sample, own, renamed>>
  PROVE  SignUpInv'
<1>0. u \in Rows /\ u \in Ids /\ users[u].email = req[c].email
  BY DEF ByEmail, Rows
<1>1. CASE users[u].profile = req[c].profile
  BY <1>0, <1>1, IssueKeepsInv DEF SignIn
<1>2. CASE users[u].profile # req[c].profile
  <2>1. /\ Goto(c, "profile") /\ uid' = [uid EXCEPT ![c] = u]
        /\ UNCHANGED <<users, sample, own, req, answer, issued, renamed>>
    BY <1>2 DEF SignIn
  <2>2. TypeOK'
    BY <1>0, <2>1 DEF SignUpInv, TypeOK, Goto
  <2>3. \A d \in Clients \ {c} : pc'[d] = pc[d] /\ uid'[d] = uid[d]
    BY <2>1 DEF SignUpInv, TypeOK, Goto
  <2>4. pc'[c] = "profile" /\ uid'[c] = u
    BY <2>1 DEF SignUpInv, TypeOK, Goto
  <2>5. CallShape'
    BY <1>0, <2>1, <2>3, <2>4 DEF SignUpInv, CallShape, Rows
  <2>6. OneCreator' /\ SeedPending'
    BY <2>1, <2>3, <2>4 DEF SignUpInv, OneCreator, SeedPending
  <2>7. EmailsUnique' /\ RolesWithAccount'
    BY <2>1, <2>3, <2>4, SameEmails DEF SignUpInv
  <2>8. TokensMatch'
    BY <1>0, <2>1, <2>3, <2>4 DEF SignUpInv, TokensMatch, Rows
  <2> QED BY <2>2, <2>5, <2>6, <2>7, <2>8 DEF SignUpInv
<1> QED BY <1>1, <1>2

\* A call moves on and knows no more about any account.
LEMMA MoveKeepsInv ==
  ASSUME SignUpInv, NEW c \in Clients, NEW step,
         \/ pc[c] \in {"lookup", "insert"} /\ step \in {"insert", "refind"}
         \/ pc[c] = "roles" /\ step = "commit",
         Goto(c, step), UNCHANGED <<users, sample, own, req, uid, answer, issued, renamed>>
  PROVE  SignUpInv'
<1>1. TypeOK'
  BY DEF SignUpInv, TypeOK, Goto
<1>2. \A d \in Clients \ {c} : pc'[d] = pc[d]
  BY DEF SignUpInv, TypeOK, Goto
<1>3. pc'[c] = step
  BY DEF SignUpInv, TypeOK, Goto
<1>4. CallShape'
  BY <1>2, <1>3 DEF SignUpInv, CallShape
<1>5. OneCreator' /\ SeedPending'
  BY <1>2, <1>3 DEF SignUpInv, OneCreator, SeedPending
<1>6. EmailsUnique' /\ TokensMatch' /\ RolesWithAccount'
  BY <1>2, <1>3, SameEmails, SameTokens DEF SignUpInv
<1> QED BY <1>1, <1>4, <1>5, <1>6 DEF SignUpInv

-----------------------------------------------------------------------------
(* The steps of a call.                                                    *)

\* A sign up or a Google sign in arrives.
LEMMA ArriveKeepsInv ==
  ASSUME SignUpInv, NEW c \in Clients, Arrive(c)
  PROVE  SignUpInv'
<1>1. CASE Refuse(c)
  <2>1. TypeOK' /\ CallShape' /\ OneCreator' /\ SeedPending'
    BY <1>1 DEF Refuse, SignUpInv, TypeOK, Answers, CallShape, OneCreator, SeedPending
  <2>2. EmailsUnique' /\ TokensMatch' /\ RolesWithAccount'
    BY <1>1, SameEmails, SameTokens DEF Refuse, SignUpInv
  <2> QED BY <2>1, <2>2 DEF SignUpInv
<1>2. ASSUME NEW r \in Request, Clean(r.email) = r.email, Accept(c, r)
      PROVE  SignUpInv'
  <2>1. TypeOK'
    BY <1>2 DEF Accept, Goto, SignUpInv, TypeOK, Answers
  <2>2. \A d \in Clients \ {c} : pc'[d] = pc[d] /\ req'[d] = req[d]
    BY <1>2 DEF Accept, Goto, SignUpInv, TypeOK
  <2>3. pc[c] = "idle" /\ pc'[c] = "lookup" /\ req'[c] = r
    BY <1>2 DEF Accept, Goto, SignUpInv, TypeOK
  <2>4. UNCHANGED <<users, sample, own, uid, issued, renamed>>
    BY <1>2 DEF Accept
  <2>5. CallShape'
    BY <1>2, <2>2, <2>3, <2>4 DEF SignUpInv, CallShape
  <2>6. OneCreator' /\ SeedPending'
    BY <2>2, <2>3, <2>4 DEF SignUpInv, OneCreator, SeedPending
  <2>7. EmailsUnique' /\ TokensMatch' /\ RolesWithAccount'
    BY <2>2, <2>3, <2>4, SameEmails, SameTokens DEF SignUpInv
  <2> QED BY <2>1, <2>5, <2>6, <2>7 DEF SignUpInv
<1>3. CASE Register(c)
  BY <1>2, <1>3, SignUpAssumption DEF Register, Request
<1>4. CASE LoginWithGoogle(c)
  BY <1>2, <1>4, SignUpAssumption DEF LoginWithGoogle, GoogleEmail, Request
<1> QED BY <1>1, <1>3, <1>4 DEF Arrive

\* The account is looked up, before and after a lost race.
LEMMA LookUpKeepsInv ==
  ASSUME SignUpInv, NEW c \in Clients, LookUp(c) \/ FindAgain(c)
  PROVE  SignUpInv'
<1>1. CASE LookUp(c)
  BY <1>1, FinishKeepsInv, SignInKeepsInv, MoveKeepsInv DEF LookUp, Answers
<1>2. CASE FindAgain(c)
  BY <1>2, FinishKeepsInv, SignInKeepsInv DEF FindAgain, Answers
<1> QED BY <1>1, <1>2

\* The row that is inserted has a key nobody else has or is about to have.
LEMMA InsertUserKeepsInv ==
  ASSUME SignUpInv, NEW c \in Clients, InsertUser(c)
  PROVE  SignUpInv'
<1>1. CASE Clash(req[c].email, req[c].email)
  BY <1>1, FinishKeepsInv, MoveKeepsInv DEF InsertUser, Answers
<1>2. CASE ~Clash(req[c].email, req[c].email)
  <2>1. PICK u \in Free : uid' = [uid EXCEPT ![c] = u]
    BY <1>2 DEF InsertUser
  <2>2. /\ pc[c] = "insert" /\ Goto(c, "roles")
        /\ UNCHANGED <<users, sample, own, req, answer, issued, renamed>>
    BY <1>2 DEF InsertUser
  <2>3. u \in Ids /\ users[u] = NoUser /\ sample[u] = "none" /\ \A d \in Clients : uid[d] # u
    BY <2>1 DEF Free, Rows, SignUpInv, SeedPending
  <2>4. TypeOK'
    BY <2>1, <2>2, <2>3 DEF SignUpInv, TypeOK, Goto
  <2>5. \A d \in Clients \ {c} : pc'[d] = pc[d] /\ uid'[d] = uid[d]
    BY <2>1, <2>2 DEF SignUpInv, TypeOK, Goto
  <2>6. pc'[c] = "roles" /\ uid'[c] = u
    BY <2>1, <2>2 DEF SignUpInv, TypeOK, Goto
  <2>7. CallShape'
    BY <2>2, <2>3, <2>5, <2>6 DEF SignUpInv, CallShape
  <2>8. OneCreator' /\ SeedPending'
    BY <2>2, <2>3, <2>5, <2>6 DEF SignUpInv, OneCreator, SeedPending
  <2>9. EmailsUnique'
    BY <1>2, <2>2, <2>5, <2>6 DEF InsertUser, KeyHeld, Clash, SignUpInv, EmailsUnique, Rows
  <2>10. TokensMatch' /\ RolesWithAccount'
    BY <2>2, <2>5, <2>6 DEF SignUpInv, TokensMatch, RolesWithAccount, Rows
  <2> QED BY <2>4, <2>7, <2>8, <2>9, <2>10 DEF SignUpInv
<1> QED BY <1>1, <1>2

\* COMMIT: the row appears with its roles, and is its creator's to seed.
LEMMA CommitUserKeepsInv ==
  ASSUME SignUpInv, NEW c \in Clients, CommitUser(c)
  PROVE  SignUpInv'
<1> DEFINE u == uid[c]
           row == NewAccount(c, "held")
<1>1. u \in Ids /\ users[u] = NoUser /\ sample[u] = "none" /\ req[c] \in Request
  BY DEF CommitUser, SignUpInv, CallShape, SeedPending
<1>2. row \in Account /\ row # NoUser /\ row.email = req[c].email /\ row.role = "held"
  <2>1. req[c].email \in UserNames
    BY <1>1, SignUpAssumption DEF Request
  <2>2. row \in Account
    BY <1>1, <2>1 DEF NewAccount, Account, Request
  <2> QED BY <2>2, SignUpAssumption DEF NewAccount
<1>3. /\ pc[c] = "commit" /\ users' = [users EXCEPT ![u] = row]
      /\ UNCHANGED <<sample, own, issued, renamed>>
  BY DEF CommitUser
<1>4. /\ Rows' = Rows \cup {u} /\ u \notin Rows
      /\ \A v \in Rows : users'[v] = users[v]
      /\ users'[u] = row
  BY <1>1, <1>2, <1>3 DEF Rows, SignUpInv, TypeOK
<1>5. \A d \in Clients \ {c} : pc'[d] = pc[d] /\ req'[d] = req[d] /\ uid'[d] = uid[d]
  BY DEF CommitUser, Finish, Goto, SignUpInv, TypeOK
<1>6. \/ pc'[c] = "seed" /\ req'[c] = req[c] /\ uid'[c] = u
      \/ pc'[c] = "idle" /\ req'[c] = NoRequest /\ uid'[c] = NoId
  BY DEF CommitUser, Finish, Goto, SignUpInv, TypeOK
<1>7. TypeOK'
  <2>1. users' \in [Ids -> Account \cup {NoUser}]
    BY <1>1, <1>2, <1>3 DEF SignUpInv, TypeOK
  <2>2. /\ pc' \in [Clients -> {"idle", "lookup", "insert", "roles", "commit", "seed",
                                "require", "refind", "profile"}]
        /\ req' \in [Clients -> Request \cup {NoRequest}]
        /\ uid' \in [Clients -> Ids \cup {NoId}] /\ answer' \in [Clients -> Answers]
    BY DEF CommitUser, Finish, Goto, SignUpInv, TypeOK, Answers
  <2> QED BY <1>3, <2>1, <2>2 DEF SignUpInv, TypeOK
<1>8. CallShape'
  <2> SUFFICES ASSUME NEW d \in Clients
               PROVE /\ IF pc'[d] = "idle" THEN req'[d] = NoRequest
                        ELSE req'[d] \in Request /\ Clean(req'[d].email) = req'[d].email
                     /\ IF pc'[d] \in Creating \cup {"profile"} THEN uid'[d] \in Ids
                        ELSE uid'[d] = NoId
                     /\ pc'[d] \in OpenInsert => users'[uid'[d]] = NoUser
                     /\ pc'[d] \in {"seed", "require", "profile"} => users'[uid'[d]] # NoUser
    BY DEF CallShape
  <2>1. CASE d = c
    BY <1>1, <1>2, <1>3, <1>4, <1>6, <2>1 DEF SignUpInv, CallShape
  <2>2. CASE d # c
    <3>1. pc[d] \in OpenInsert => uid[d] # u
      BY <1>3, <2>2 DEF SignUpInv, OneCreator
    <3> QED BY <1>1, <1>3, <1>4, <1>5, <2>2, <3>1 DEF SignUpInv, CallShape, Rows, TypeOK
  <2> QED BY <2>1, <2>2
<1>9. OneCreator' /\ SeedPending'
  BY <1>1, <1>3, <1>4, <1>5, <1>6 DEF SignUpInv, OneCreator, SeedPending, Rows, TypeOK
<1>10. EmailsUnique'
  BY <1>2, <1>3, <1>4, <1>5, <1>6 DEF SignUpInv, EmailsUnique
<1>11. TokensMatch'
  BY <1>2, <1>3, <1>4, <1>5, <1>6 DEF SignUpInv, TokensMatch, CallShape, Rows
<1>12. RolesWithAccount'
  BY <1>2, <1>4 DEF SignUpInv, RolesWithAccount
<1> QED BY <1>7, <1>8, <1>9, <1>10, <1>11, <1>12 DEF SignUpInv

\* Only the creator seeds, and only once.
LEMMA SeedKeepsInv ==
  ASSUME SignUpInv, NEW c \in Clients, Seed(c)
  PROVE  SignUpInv'
<1> DEFINE u == uid[c]
<1>1. CASE sample[u] = "stored" \/ u \in own
  BY <1>1, FinishKeepsInv DEF Seed, Answers
<1>2. CASE ~(sample[u] = "stored" \/ u \in own)
  <2>1. u \in Ids /\ users[u] # NoUser /\ pc[c] = "seed"
    BY DEF Seed, SignUpInv, CallShape
  <2>2. /\ sample' = [sample EXCEPT ![u] = "stored"]
        /\ UNCHANGED <<users, own, issued, renamed>>
    BY <1>2 DEF Seed
  <2>3. \A d \in Clients \ {c} : pc'[d] = pc[d] /\ req'[d] = req[d] /\ uid'[d] = uid[d]
    BY <1>2 DEF Seed, Finish, Goto, SignUpInv, TypeOK
  <2>4. \/ pc'[c] = "require" /\ req'[c] = req[c] /\ uid'[c] = u
        \/ pc'[c] = "idle" /\ req'[c] = NoRequest /\ uid'[c] = NoId
    BY <1>2 DEF Seed, Finish, Goto, SignUpInv, TypeOK
  <2>5. TypeOK'
    BY <1>2, <2>1 DEF Seed, Finish, Goto, SignUpInv, TypeOK, Answers
  <2>6. CallShape'
    BY <2>1, <2>2, <2>3, <2>4 DEF SignUpInv, CallShape
  <2>7. OneCreator'
    BY <2>1, <2>3, <2>4 DEF SignUpInv, OneCreator
  <2>8. SeedPending'
    BY <2>1, <2>2, <2>3, <2>4 DEF SignUpInv, SeedPending, OneCreator, TypeOK
  <2>9. EmailsUnique' /\ TokensMatch' /\ RolesWithAccount'
    BY <2>1, <2>2, <2>3, <2>4, SameEmails, SameTokens DEF SignUpInv
  <2> QED BY <2>5, <2>6, <2>7, <2>8, <2>9 DEF SignUpInv
<1> QED BY <1>1, <1>2

\* A write to a row that leaves its email and never takes back its role.
LEMMA RowWriteKeepsInv ==
  ASSUME SignUpInv, NEW u \in Rows, NEW row \in Account,
         users' = [users EXCEPT ![u] = row],
         row.email = users[u].email, row.made = users[u].made,
         row.role = "none" => users[u].role = "none",
         UNCHANGED <<sample, own, calls, issued, renamed>>
  PROVE  SignUpInv'
<1>1. u \in Ids /\ users[u] # NoUser /\ row # NoUser
  BY SignUpAssumption DEF Rows
<1>2. /\ Rows' = Rows /\ users'[u] = row
      /\ \A v \in Ids : users'[v] = NoUser <=> users[v] = NoUser
      /\ \A v \in Ids \ {u} : users'[v] = users[v]
  BY <1>1 DEF Rows, SignUpInv, TypeOK
<1>3. \A v \in Rows : /\ users'[v].email = users[v].email
                      /\ users'[v].made = users[v].made
                      /\ users'[v].role = "none" => users[v].role = "none"
  BY <1>2 DEF Rows
<1>4. TypeOK'
  BY DEF SignUpInv, TypeOK, calls
<1>5. CallShape' /\ OneCreator' /\ SeedPending'
  BY <1>2 DEF SignUpInv, CallShape, OneCreator, SeedPending, calls
<1>6. EmailsUnique'
  BY <1>2, <1>3 DEF SignUpInv, EmailsUnique, calls
<1>7. RolesWithAccount'
  BY <1>2, <1>3 DEF SignUpInv, RolesWithAccount
<1>8. TokensMatch'
  BY <1>2, <1>3 DEF SignUpInv, TokensMatch, CallShape, Rows, calls
<1> QED BY <1>4, <1>5, <1>6, <1>7, <1>8 DEF SignUpInv

\* The profile is written and the tokens are issued.
LEMMA UpdateProfileKeepsInv ==
  ASSUME SignUpInv, NEW c \in Clients, UpdateProfile(c)
  PROVE  SignUpInv'
<1> DEFINE u == uid[c]
           row == [users[u] EXCEPT !.profile = req[c].profile]
<1>1. /\ pc[c] = "profile" /\ users' = [users EXCEPT ![u] = row] /\ Issue(c, u)
      /\ UNCHANGED <<sample, own, renamed>>
  BY DEF UpdateProfile
<1>2. /\ u \in Rows /\ u \in Ids /\ users[u] \in Account /\ req[c] \in Request
      /\ Clean(req[c].email) = req[c].email
      /\ u \notin renamed => users[u].email = req[c].email
  BY <1>1 DEF SignUpInv, CallShape, TokensMatch, Rows, TypeOK
<1>3. /\ row \in Account /\ row # NoUser /\ row.email = users[u].email
      /\ row.made = users[u].made /\ row.role = users[u].role
  BY <1>2, SignUpAssumption DEF Account, Request
<1>4. /\ Rows' = Rows /\ users'[u] = row
      /\ \A v \in Ids : users'[v] = NoUser <=> users[v] = NoUser
      /\ \A v \in Ids \ {u} : users'[v] = users[v]
  BY <1>1, <1>2, <1>3 DEF Rows, SignUpInv, TypeOK
<1>5. \A v \in Rows : /\ users'[v].email = users[v].email
                      /\ users'[v].made = users[v].made
                      /\ users'[v].role = users[v].role
  BY <1>3, <1>4 DEF Rows
<1>6. \A d \in Clients \ {c} : pc'[d] = pc[d] /\ req'[d] = req[d] /\ uid'[d] = uid[d]
  BY <1>1 DEF SignUpInv, TypeOK, Issue, Finish, Goto
<1>7. pc'[c] = "idle" /\ req'[c] = NoRequest /\ uid'[c] = NoId
  BY <1>1 DEF SignUpInv, TypeOK, Issue, Finish, Goto
<1>8. TypeOK'
  <2>1. users' \in [Ids -> Account \cup {NoUser}]
    BY <1>1, <1>2, <1>3 DEF SignUpInv, TypeOK
  <2>2. issued' \subseteq [address : Emails, id : Ids]
    BY <1>1, <1>2 DEF SignUpInv, TypeOK, Issue, Request
  <2> QED BY <1>1, <2>1, <2>2 DEF SignUpInv, TypeOK, Issue, Finish, Goto, Answers
<1>9. CallShape' /\ OneCreator' /\ SeedPending'
  BY <1>1, <1>4, <1>6, <1>7 DEF SignUpInv, CallShape, OneCreator, SeedPending
<1>10. EmailsUnique'
  BY <1>4, <1>5, <1>6, <1>7 DEF SignUpInv, EmailsUnique
<1>11. RolesWithAccount'
  BY <1>4, <1>5 DEF SignUpInv, RolesWithAccount
<1>12. TokensMatch'
  BY <1>1, <1>2, <1>4, <1>5, <1>6, <1>7 DEF SignUpInv, TokensMatch, CallShape, Rows, Issue
<1> QED BY <1>8, <1>9, <1>10, <1>11, <1>12 DEF SignUpInv

-----------------------------------------------------------------------------
(* The administrator and the people who hold tokens.                       *)

\* An administrator creates an account beside them.
LEMMA AdminCreatesKeepsInv ==
  ASSUME SignUpInv, NEW u \in Ids, NEW n \in UserNames, NEW e \in Emails, AdminCreates(u, n, e)
  PROVE  SignUpInv'
<1>1. PICK role \in {"none", "held"}, p \in Profiles :
        users' = [users EXCEPT ![u] =
          [email |-> e, user_name |-> n, profile |-> p, role |-> role, made |-> "administrator"]]
  BY DEF AdminCreates
<1> DEFINE row == [email |-> e, user_name |-> n, profile |-> p, role |-> role,
                   made |-> "administrator"]
<1>2. row \in Account /\ row # NoUser /\ row.made = "administrator"
  <2>1. row \in Account
    BY DEF Account
  <2> QED BY <2>1, SignUpAssumption
<1>3. UNCHANGED <<sample, own, pc, req, uid, answer, issued, renamed>>
  BY DEF AdminCreates, calls
<1>4. /\ users[u] = NoUser /\ \A d \in Clients : uid[d] # u
      /\ \A v \in Rows : users[v].email # e
      /\ \A d \in Clients : pc[d] \in OpenInsert => req[d].email # e
  BY DEF AdminCreates, Free, Rows, Clash
<1>5. /\ Rows' = Rows \cup {u} /\ u \notin Rows /\ users'[u] = row
      /\ \A v \in Ids \ {u} : users'[v] = users[v]
  BY <1>1, <1>2, <1>4 DEF Rows, SignUpInv, TypeOK
<1>6. TypeOK'
  BY <1>1, <1>2, <1>3 DEF SignUpInv, TypeOK
<1>7. CallShape' /\ OneCreator' /\ SeedPending'
  BY <1>2, <1>3, <1>4, <1>5 DEF SignUpInv, CallShape, OneCreator, SeedPending
<1>8. EmailsUnique'
  BY <1>3, <1>4, <1>5 DEF SignUpInv, EmailsUnique, Rows
<1>9. RolesWithAccount'
  BY <1>2, <1>5 DEF SignUpInv, RolesWithAccount, Rows
<1>10. TokensMatch'
  BY <1>3, <1>4, <1>5 DEF SignUpInv, TokensMatch, CallShape, Rows
<1> QED BY <1>6, <1>7, <1>8, <1>9, <1>10 DEF SignUpInv

\* The one write that moves an email, to one no row has or is about to have.
LEMMA AdminChangesEmailKeepsInv ==
  ASSUME SignUpInv, NEW u \in Ids, NEW e \in Emails, AdminChangesEmail(u, e)
  PROVE  SignUpInv'
<1> DEFINE row == [users[u] EXCEPT !.email = e]
<1>1. /\ users' = [users EXCEPT ![u] = row] /\ renamed' = renamed \cup {u}
      /\ UNCHANGED <<sample, own, pc, req, uid, answer, issued>>
  BY DEF AdminChangesEmail, calls
<1>2. u \in Rows /\ users[u] \in Account
  BY DEF AdminChangesEmail, Rows, SignUpInv, TypeOK
<1>3. /\ row \in Account /\ row # NoUser /\ row.email = e
      /\ row.made = users[u].made /\ row.role = users[u].role
  BY <1>2, SignUpAssumption DEF Account
<1>4. /\ \A v \in Rows : users[v].email # e
      /\ \A d \in Clients : pc[d] \in OpenInsert => req[d].email # e
  BY DEF AdminChangesEmail, ByEmail
<1>5. /\ Rows' = Rows /\ users'[u] = row
      /\ \A v \in Ids \ {u} : users'[v] = users[v]
  BY <1>1, <1>2, <1>3 DEF Rows, SignUpInv, TypeOK
<1>6. TypeOK'
  BY <1>1, <1>2, <1>3 DEF SignUpInv, TypeOK, Rows
<1>7. CallShape' /\ OneCreator' /\ SeedPending'
  BY <1>1, <1>2, <1>3, <1>5 DEF SignUpInv, CallShape, OneCreator, SeedPending, Rows
<1>8. EmailsUnique'
  BY <1>1, <1>3, <1>4, <1>5 DEF SignUpInv, EmailsUnique, Rows
<1>9. RolesWithAccount'
  BY <1>3, <1>5 DEF SignUpInv, RolesWithAccount, Rows
<1>10. TokensMatch'
  BY <1>1, <1>2, <1>5 DEF SignUpInv, TokensMatch, CallShape, Rows
<1> QED BY <1>6, <1>7, <1>8, <1>9, <1>10 DEF SignUpInv

\* An administrator changes roles.
LEMMA AdminChangesRolesKeepsInv ==
  ASSUME SignUpInv, NEW u \in Ids, AdminChangesRoles(u)
  PROVE  SignUpInv'
<1>1. u \in Rows /\ users[u] \in Account
  BY DEF AdminChangesRoles, Rows, SignUpInv, TypeOK
<1>2. PICK role \in {"held", "taken"} : users' = [users EXCEPT ![u].role = role]
  BY DEF AdminChangesRoles
<1> DEFINE row == [users[u] EXCEPT !.role = role]
<1>3. /\ row \in Account /\ row.email = users[u].email /\ row.made = users[u].made
      /\ row.role # "none"
  BY <1>1 DEF Account
<1>4. users' = [users EXCEPT ![u] = row]
  BY <1>2
<1> QED BY <1>1, <1>3, <1>4, RowWriteKeepsInv DEF AdminChangesRoles

\* An account holder deletes the sample or saves a schema.
LEMMA UserKeepsInv ==
  ASSUME SignUpInv, NEW u \in Ids, UserDeletesSample(u) \/ UserSavesSchema(u)
  PROVE  SignUpInv'
<1>1. UNCHANGED <<users, pc, req, uid, answer, issued, renamed>>
  BY DEF UserDeletesSample, UserSavesSchema, calls
<1>2. TypeOK'
  BY DEF UserDeletesSample, UserSavesSchema, calls, SignUpInv, TypeOK
<1>3. CallShape' /\ OneCreator'
  BY <1>1 DEF SignUpInv, CallShape, OneCreator
<1>4. SeedPending'
  <2>1. CASE UserDeletesSample(u)
    BY <2>1, <1>1 DEF UserDeletesSample, SignUpInv, TypeOK, SeedPending
  <2>2. CASE UserSavesSchema(u)
    BY <2>2, <1>1 DEF UserSavesSchema, SignUpInv, SeedPending
  <2> QED BY <2>1, <2>2
<1>5. EmailsUnique' /\ TokensMatch' /\ RolesWithAccount'
  BY <1>1, SameEmails, SameTokens DEF SignUpInv
<1> QED BY <1>2, <1>3, <1>4, <1>5 DEF SignUpInv

-----------------------------------------------------------------------------

\* No account and no call at the start.
LEMMA InitInv == Init => SignUpInv
<1> SUFFICES ASSUME Init PROVE SignUpInv
  OBVIOUS
<1>1. Rows = {}
  BY DEF Init, Rows
<1>2. TypeOK /\ CallShape /\ OneCreator /\ SeedPending
  BY DEF Init, TypeOK, Answers, CallShape, OneCreator, SeedPending
<1>3. EmailsUnique /\ TokensMatch /\ RolesWithAccount
  BY <1>1 DEF Init, EmailsUnique, TokensMatch, RolesWithAccount
<1> QED BY <1>2, <1>3 DEF SignUpInv

\* Every step.
LEMMA NextInv == SignUpInv /\ [Next]_vars => SignUpInv'
<1> SUFFICES ASSUME SignUpInv, [Next]_vars PROVE SignUpInv'
  OBVIOUS
<1>1. ASSUME NEW c \in Clients, Arrive(c) PROVE SignUpInv'
  BY <1>1, ArriveKeepsInv
<1>2. ASSUME NEW c \in Clients, Advance(c) PROVE SignUpInv'
  <2>1. CASE LookUp(c) \/ FindAgain(c)
    BY <2>1, LookUpKeepsInv
  <2>2. CASE InsertRoles(c)
    BY <2>2, MoveKeepsInv DEF InsertRoles
  <2>3. CASE CommitUser(c)
    BY <2>3, CommitUserKeepsInv
  <2>4. CASE Seed(c)
    BY <2>4, SeedKeepsInv
  <2>5. CASE Require(c)
    <3>1. /\ pc[c] # "idle" /\ uid[c] \in Rows
          /\ uid[c] \notin renamed => users[uid[c]].email = req[c].email
      BY <2>5 DEF Require, SignUpInv, CallShape, TokensMatch, Rows
    <3> QED BY <2>5, <3>1, IssueKeepsInv DEF Require
  <2>6. CASE UpdateProfile(c)
    BY <2>6, UpdateProfileKeepsInv
  <2> QED BY <1>2, <2>1, <2>2, <2>3, <2>4, <2>5, <2>6 DEF Advance
<1>3. ASSUME NEW c \in Clients, InsertUser(c) PROVE SignUpInv'
  BY <1>3, InsertUserKeepsInv
<1>4. ASSUME NEW c \in Clients, Abandon(c) PROVE SignUpInv'
  BY <1>4, FinishKeepsInv DEF Abandon, Answers
<1>5. ASSUME NEW u \in Ids, Others(u) PROVE SignUpInv'
  BY <1>5, AdminCreatesKeepsInv, AdminChangesEmailKeepsInv, AdminChangesRolesKeepsInv,
     UserKeepsInv DEF Others
<1>6. CASE UNCHANGED vars
  <2>1. TypeOK' /\ CallShape' /\ OneCreator' /\ SeedPending'
    BY <1>6 DEF vars, SignUpInv, TypeOK, CallShape, OneCreator, SeedPending
  <2>2. EmailsUnique' /\ TokensMatch' /\ RolesWithAccount'
    BY <1>6, SameEmails, SameTokens DEF vars, SignUpInv
  <2> QED BY <2>1, <2>2 DEF SignUpInv
<1> QED BY <1>1, <1>2, <1>3, <1>4, <1>5, <1>6 DEF Next

\* The inductive invariant: what each call knows of its account at each step.
THEOREM SignUpCorrect == Spec => []SignUpInv
  BY InitInv, NextInv, PTL DEF Spec

\* However register and login_with_google race, an address leads to one
\* account, unless an administrator moved the address.
THEOREM OneAccountPerAddress == Spec => []SameAddressSameAccount
<1>1. SignUpInv => SameAddressSameAccount
  BY DEF SignUpInv, TokensMatch, EmailsUnique, SameAddressSameAccount
<1> QED BY <1>1, SignUpCorrect, PTL

\* create_user stores the row and its roles as one.
THEOREM RolesComeWithAccount == Spec => []RolesWithAccount
<1>1. SignUpInv => RolesWithAccount
  BY DEF SignUpInv
<1> QED BY <1>1, SignUpCorrect, PTL

\* seed never brings a deleted sample back.
THEOREM NoSecondSample == Spec => DeletedSampleStaysDeleted
<1>1. SignUpInv /\ [Next]_vars =>
        [\A u \in Ids : sample[u] = "deleted" => sample'[u] = "deleted"]_vars
  <2> SUFFICES ASSUME SignUpInv, [Next]_vars, NEW u \in Ids, sample[u] = "deleted"
               PROVE  sample'[u] = "deleted"
    OBVIOUS
  <2>1. CASE sample' = sample
    BY <2>1
  <2>2. ASSUME NEW c \in Clients, Seed(c) PROVE sample'[u] = "deleted"
    <3>1. pc[c] = "seed" /\ sample[uid[c]] = "none" /\ uid[c] # u
      BY <2>2 DEF Seed, SignUpInv, SeedPending
    <3> QED BY <2>2, <3>1 DEF Seed, SignUpInv, TypeOK
  <2>3. ASSUME NEW v \in Ids, UserDeletesSample(v) PROVE sample'[u] = "deleted"
    BY <2>3 DEF UserDeletesSample, SignUpInv, TypeOK
  <2>4. sample' = sample \/ (\E c \in Clients : Seed(c)) \/ (\E v \in Ids : UserDeletesSample(v))
    BY DEF vars, Next, Arrive, Register, LoginWithGoogle, Accept, Refuse, Advance, LookUp,
       InsertRoles, CommitUser, Require, FindAgain, UpdateProfile, InsertUser, Abandon,
       Others, AdminCreates, AdminChangesEmail, AdminChangesRoles, UserSavesSchema
  <2> QED BY <2>1, <2>2, <2>3, <2>4
<1> QED BY <1>1, SignUpCorrect, PTL DEF Spec, DeletedSampleStaysDeleted

\* Accounts, keys and calls stay whole, whoever loses a race or gives up.
THEOREM SignUpTypes == Spec => []TypeOK
<1>1. SignUpInv => TypeOK
  BY DEF SignUpInv
<1> QED BY <1>1, SignUpCorrect, PTL
=============================================================================
