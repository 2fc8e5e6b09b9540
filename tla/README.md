# Verification of SchemaForgeBackend

TLA+ models of the backend's core, checked with TLC on small instances, and
theorems about them proved with TLAPS for every size. Every model is translated
from the Rust source; `PROJECT.json` maps each definition to the lines it stands
for, each property to a mutant that breaks it, and each hazard to the properties
that would catch it.

## 1. The system

SchemaForgeBackend serves a database schema designer over JSON (axum) and gRPC
(tonic) from one set of services. Every request is an async task. The only state
that outlives a request is in PostgreSQL, reached through one `sqlx` pool of
limited size with an acquire timeout of five seconds; there is no cache and no
background job. Tasks of one process, and of several processes on one database,
interleave at every `await` on a statement, at READ COMMITTED.

| Component | State | Operations | Talks to |
| --- | --- | --- | --- |
| Schema repository and service (`module/schema`) | `schemaforge.schemas`, `schemaforge.user_schemas` | `create`, `replace`, `delete`, `find_by_id`; each save takes an advisory lock on owner and lower-cased name | pool, verifier (draft check) |
| Schema listing | the same tables, read | `index`: a count and a page, two statements | `package/pagination` |
| Signing up (`package/auth`) | `iam.users`, `iam.user_has_roles` | `register`, `login_with_google`, `generate_token`, `refresh_token` | schema service (sample), Google, JWT |
| Password recovery (`package/auth`) | `iam.password_resets`, the password column | `password_recovery`, `reset_password` | mail |
| Tokens and access control (`server/middlewares`, `package/rbac`, `package/jwt`) | none; reads accounts and roles on each call | `identify`, `get_identity`, `role_bypass`, `can`, `permissions_of` | `iam` tables |
| Users and permissions (`module/iam`) | `iam.users`, roles, statuses | `index`, `create`, `find_by_id`, `partial_update` (for others and for oneself), `delete`, permissions' list | pool |
| Mapper, verifier, generator (`module/schema`) | none: functions of one schema | `validate`, `generate_ddl` | the database its user runs the script on |
| Exchange and comparison | none: pure functions of a schema | `export`, `import` (JSON and SQL), `compare`, `compare_sql` | the generator's script, the client's files |
| HTTP and gRPC adapters | none | drafts from and to two wire formats, choice of a target, answers | all services |
| Configuration, logging, mail, docs | none of interest | I/O | all |

What is hard here, and what makes each part correct:

- **Schema repository.** A save checks a name and stores it in separate
  statements. It is correct when no owner ever has one name twice (in any case),
  when the two tables agree although they are written one after the other, when
  nobody's call touches another's schema, when no calls wait for one another in
  a circle (an advisory lock, row locks, a limited pool), and when all of that
  adds up to calls that take effect one at a time, also when the answer to
  COMMIT is lost.
- **Listing.** Pages are cut by OFFSET out of a table that changes, and rows
  appear later than the time they are sorted by. Arithmetic on pages has edges
  and a width.
- **Signing up.** Two people, or one person twice, sign up at the same moment,
  by form or by Google; a lost race must end in the same account, with its
  role, and must not disturb what its owner has done meanwhile.
- **Password recovery.** Two or three statements without a transaction around
  them, with mail in between and a time limit.
- **Access control.** A call's account, super role and permissions are read one
  after the other, and the effect comes later still, while others give and take
  roles. It is correct when whoever is served was entitled at some moment of the
  call, whoever was entitled throughout is not refused, and a failing read is a
  refusal.
- **Users.** A patch writes a row and two sets of roles in one transaction, for
  others and, restricted, for oneself.
- **Verifier and generator.** `generate_ddl` hands out a script only for a
  schema the verifier passed; that is right when the two agree with each other
  and with PostgreSQL about names, keys, uniqueness, NULLs, types and order.
  Cycle detection is a recursion over shared arrays, run twice.
- **Adapters and exchange.** One schema passes five encodings, each with its own
  spelling and its own idea of what may be absent; a sequence of calls must not
  wear it down. The SQL reader takes scripts back in that the generator wrote or
  that somebody wrote by hand, where constraints stand apart from columns and
  names come with and without quotes and schemas.
- **Comparison.** Pairs by name without case, counted in both directions.

The full list of hazards, with lines, is in `PROJECT.json`.

## 2. Modules

| Module | Models | Built on |
| --- | --- | --- |
| `SchemaStore` | the schema service and repository, one action per statement | implements `SchemaCatalog` and `SchemaListing` |
| `SchemaCatalog` | what `SchemaRepository` promises: calls that take effect at one instant | abstract |
| `SchemaListing` | the store as the listing of one owner sees it | abstract |
| `Pagination` | `package/pagination.rs` in words of limited width | |
| `SchemaPaging` | a reader who follows `next_page` while the store changes | `SchemaListing`, `Pagination` |
| `SignUp` | `register` and `login_with_google`, with an administrator and account holders beside them | |
| `PasswordReset` | `password_recovery` and `reset_password`, with an administrator beside them | |
| `Cycles` | what a group of tables that depend on one another is, without an algorithm | reference |
| `CycleCheck` | `verifier/cycles.rs`: Tarjan's algorithm with its call stack, twice, and the report | `Cycles` |
| `Diagram` | the domain's schema, its look-ups and types, and how the mappers read a drawing | |
| `Verifier` | the ten checks, in order, as operators | `Diagram`, `Cycles` |
| `Generator` | the statements of the script, in order | `Diagram` |
| `Postgres` | what PostgreSQL does with each statement | external |
| `DdlGeneration` | `generate_ddl` from the drawing to the database | `Verifier`, `Generator`, `Postgres` |
| `Users` | `UserServiceImpl` over `PgUserRepository`, one action per statement | |
| `AccessControl` | tokens, the guards of both ports and `RbacEngine` in front of the handlers of `Users` | `Users` |
| `SqlScan`, `SqlTable`, `SqlRead` | `exchange/sql`: the scanner, the reader of one table, the reader of a script | `Diagram`, `Documents` |
| `SqlText` | the generator's script as text | `SqlTable` |
| `Documents` | a schema on the wire, in its row and in a JSON file, and back | `Diagram` |
| `Comparing` | `compare`, with the counts of `domain/comparison.rs` | `Diagram` |
| `SqlMeaning` | a handwritten CREATE TABLE and what PostgreSQL makes of it | external, reference |
| `SchemaJourney` | every call of the schema service through both doors, with a client, a row and a file | `Verifier`, `SqlRead`, `SqlMeaning`, `Comparing` |
| `SchemaStoreProofs`, `SignUpProofs`, `PasswordResetProofs`, `AccessControlProofs`, `CycleCheckProofs` | the theorems | the module they are named after |
| `ListingProofs` | the arithmetic of pages; the theorems about `MCPagination` and `SchemaPaging` | `MCPagination`, `SchemaPaging` |
| `Lemmas` | what joined, filtered and picked-from sequences hold, and facts on groups and sorting | `Cycles` |
| `DdlProofs` | the theorems about `DdlGeneration` | `DdlGeneration`, `Lemmas` |
| `MC...` | constants, symmetry and the inputs: requests for `Pagination`, graphs for `CycleCheck`, drawings for `DdlGeneration`, calls for `AccessControl`, drawings and files for `SchemaJourney` | the module they are named after |

Definitions named in a comment as mutants are wrong versions of the definition
below them; no specification uses them.

### SchemaStore

`pc` says which statement of its call each client stands before; `req` is the
call; `schemas` and `links` are the committed tables; `advisory` and `rowLock`
are the locks PostgreSQL holds; `stamp` is `NOW()`, fixed at BEGIN.

| Action | Code |
| --- | --- |
| `RefuseDraft`, `RefuseId` | `check_draft`, `parse_id`: answered before any statement |
| `AcceptCreate`, `AcceptReplace`, `AcceptDelete`, `AcceptFind` | the service method is called |
| `AcquireTimeout`, `Begin` | the pool is full for too long, or `begin()` succeeds |
| `LockName`, `CheckName` | the two statements of `reserve_name` |
| `InsertSchema`, `InsertLink`, `UpdateSchema` | the writes of `create` and `replace`; an UPDATE waits for the row and looks at it again |
| `CommitCreate`, `CommitReplace` | COMMIT; its answer can be lost |
| `Rollback` | any failing statement, or a dropped task |
| `StartDelete`, `DeleteSchema`, `FindSchema` | single statements on a connection of the pool |

Uncommitted writes live in `pc`, `req` and `newId` only: no other transaction
can see them. `hashtext` is `LockKey`, about which nothing is assumed but its
range, so different names may share a key. A failing statement is always
possible and never required.

### SignUp

One action per statement whose order matters: `LookUp`, `InsertUser`,
`InsertRoles`, `CommitUser`, `Seed`, `Require`, `FindAgain`, `UpdateProfile`.
A row is visible from `CommitUser` on; an INSERT with a key that an open
transaction inserted waits for it (`KeyHeld`). `clean_email` is the constant
`Clean`; the model assumes that cleaning twice changes nothing. An
administrator's `create` and `partial_update` are transactions and take effect
as one step; addresses entered there are stored as spelled, as the code does.
Storing the sample is one step, which `SchemaCatalog` allows.

### PasswordReset

One action per statement, none in a transaction with another. `drawn`, `mailed`
and `resets` follow a token from `random_token` through the mail to the table.
Passwords are abstracted to the tokens that have set one (`used`).
The database's `NOW()` and the process's `Utc::now()` are one clock; hosts whose
clocks differ shift the expiry by the difference and change nothing else.
`seen`, `spent` and `raced` are history: they appear in properties and in no
guard.

### CycleCheck

`calls` is the stack of `visit`: one frame per call, with the foreign keys it has
still to deal with, which it takes in their order (an adjacency list is kept as
the keys behind it: `KeysOf`, `Target`). `Enter` is a call's first five lines; `VisitNeighbour`,
`LowerToNeighbour` and `SkipNeighbour` are the three arms of its match;
`LeaveOpen` and `PopComponent` its two ends, each with the return to the caller
and the caller's `low` (`Return`). `NextRoot` is the loop of
`strongly_connected`; `FinishRequired` starts the second run on fresh arrays and
`FinishAll` writes the report. `entities` keeps of an attribute its reference
and whether it is nullable; components are sets, since the code sorts them.
`Cycles` says what the groups are without following edges one by one: a table
reaches another when no set that nothing leads out of holds the first and not
the second. That form can be reasoned about without induction.

### Diagram, Verifier, Generator, DdlGeneration

A request goes through `RefusePayload` (the mapper finds an id or a name blank,
or half a reference), `OtherDialect`, `NoSuchSchema`, or `VerifySchema`, and
then `Withhold` or `GenerateDdl`; `RunStatement` is the user's database taking
the script. A diagnostic is its code, severity and the ids it blames, in the
order of the code. `check_cycles` appears in `Verifier` as what it computes,
which is what `CycleCheck` shows of the algorithm. Names stand for their
trimmed spelling; `Lower` folds them and `Prefix` gives the first 63 bytes of
the long ones. Both mappers refuse blank names, so `CheckNames` reports nothing
here; it is the verifier's own guard.

### Users and AccessControl

`users` and `roles` are the committed tables, `tx` what a transaction wrote so
far, `pc` the statement a call stands before, `who` the account it acts for.

| Action | Code |
| --- | --- |
| `Arrive` | `AuthGuard::call` and `authenticate` up to the first await: `access_for` or the route table, header, `validate_token` |
| `GetIdentity`, `Bypass`, `Can` | `get_identity`, `role_bypass`, `can`: one SELECT each; a failing one refuses, or counts as not having the role |
| `FindByEmail`, `CheckPassword`, `RefreshToken` | `generate_token`, `refresh_token`, with `generate_tokens` (`Issue`) |
| `Require` | `require_user` and the check of a new password |
| `InsertUser`, `UpdateColumns`, `AddUserRoles`, `RemoveUserRoles`, `Commit` | the statements of `create`, `partial_update` and `delete` |
| `Fail` | a failing statement rolls back |
| `Serve`, `Return` | handlers that change nothing here; the task is free again |

A statement waits for a row, a unique key or a role another transaction wrote
(`RowHeld`, `KeyHeld`, `RoleHeld`). An access and a refresh token are alike: the
code reads the same two claims of both, so either opens a call. `held` and
`failed` are history, used by the properties alone.

### SchemaJourney

`canvas` is the document the client holds and the door it came through, `stored`
the row, `file` a JSON file or a script, `answer` what the last call returned
beside a schema. Each carrier also has `of`, the drawing it stands for, handed
on without being encoded; no call reads it. One schema is stored at a time and
calls do not overlap: owners, names and interleavings are `SchemaStore`'s.

| Action | Code |
| --- | --- |
| `Create`, `Replace`, `Get`, `Delete` | the handlers of both doors with `draft_from`, `check_draft`, the `Stored...` records and the answer |
| `Validate`, `GenerateDdl`, `Export`, `Compare` | `target_from` (HTTP) or `target_of` (gRPC), `resolve`, and the service method |
| `Import`, `CompareSql` | `exchange::import` of a JSON file or a script; `compare_sql` exists over HTTP only |
| `Draw`, `Name` | the client's edits |

`SqlScan` works on symbols: a word, a numeral, a blank or a mark is one symbol,
so that quoting, escapes, comments, dollar quotes and layout lines keep all of
their control and words are not spelled out. Coordinates are in half units,
which tells a rounded position from one that is not. Ids an import makes up
(`FreshId`) are taken from places in the file: different from one another, as
UUIDs are.

## 3. Runs

Passing runs. Deadlock is checked in all of them except `pagination`, whose
walk ends where there are no more links, `ddl_generation`, whose request
ends with an answer or a script that has run, and `schema_journey`, whose
journeys end after a number of calls.

| Run | Instance | Shows |
| --- | --- | --- |
| `schema_store` | 2 calls, 2 owners, names in both cases, 2 ids, 2 connections, 2 times | the tables agree, dates are in order, only owners change a schema, and the store implements the catalogue and the listing |
| `schema_store_contention` | 3 calls of 1 owner, one name in two spellings, 2 ids, 2 connections | names stay unique, no circle of waiting calls, every accepted call ends |
| `pagination` | all requests in a word of 64 values, tables up to 13 rows | counted pages show each row once, links lead to rows |
| `schema_paging` | 4 schemas, pages of 2, 2 creating calls, 2 times | an undisturbed walk shows each schema once; new schemas alone hide none |
| `sign_up` | 2 calls, 2 spellings of one address, 1 more user name, 2 profiles, 2 accounts | an address leads to one account; roles come with it; a deleted sample stays deleted; every accepted call ends |
| `password_reset` | 3 calls, 1 account, 2 addresses, 2 tokens, 2 times, no tolerance | used-up tokens stay gone; recoveries in turn leave one request |
| `cycle_check` | every graph of 3 tables with no key, either kind or both between any two, columns in both orders; every graph of 4 tables; references to oneself and to nothing | the report names exactly the groups that reach one another, errors are exactly those with tables that can never take a first row, and a component is popped only when it is whole |
| `ddl_generation` | five families of drawings, each varying one concern in full: flags and references, circles of 3 tables, names, types, lines | a script that was handed out runs to its end, leaves the database that was drawn (a UNIQUE that a composite key hides excepted), every table of it can take a row, 1:1 and 1:N lines hold in it, and the verdict does not depend on how a line was drawn |
| `access_control` | 2 tasks, 3 accounts, 2 roles with the same permissions, 2 sign ins, a token that ends at once and one that ends a tick later | who is served was entitled during the call, who was entitled throughout is served, patches take effect whole, self-service keeps login, status and roles, and changes no more than profile and department |
| `schema_journey` | nine families: shops with marks in every name and text, a plain shop for longer journeys, all kinds, malformed documents, variants to compare, spaces around ids, JSON files, handwritten scripts, odd scripts; up to 4 calls each | each carrier gives back what was drawn; a generated script, imported, draws it again; a comparison finds exactly the differences and mirrors when its sides change; a handwritten table means what it means to PostgreSQL |

Runs that TLC must refute, each a statement the repository makes about itself
(the quotations are in `PROJECT.json`, "findings"):

| Run | Statement | What happens |
| --- | --- | --- |
| `ddl_reference` | a foreign key only points at columns with a unique constraint | one column of a composite key is marked unique: the verifier takes a reference to it, the generator leaves its UNIQUE off |
| `import_parts_named` | a file that could only partly be read opens "with the parts it gave up on named" | words behind a table constraint end the reading of the table; the columns after them are neither drawn nor reported |

More disagreements are kept as exceptions of passing properties, where they can
be read off the definition. Two recoveries that both clear before
either stores leave two requests, although a comment says that only one pending
request is kept (`RecoveriesInTurnKeepOne` excepts `raced`). A page number far
past the end wraps the offset around, although a test says that a page past the
end is empty (`LinksLeadToRows` excepts what does not satisfy `Fits`). A create that
commits between two pages shows a schema twice, although the migration says that
paging cannot (`QuietWalkShowsEachOnce` is about undisturbed walks). An N:M line
leaves nothing in the script, although "the generator has to synthesise" a join
table for it (`domain/relationship.rs:23-25`) and it "becomes a join table"
(`verifier/references.rs:128`): `RelationshipsEnforced` is about the other lines,
and `CatalogMatchesDrawing` finds the drawn tables and no more. And a person may
move to another department with `patch_my_user`, although `server/openapi.yaml`
(334-336) says that the field is dropped "so a user cannot promote themselves",
and may not change the email, although `UpdateMyUser` (956-963) offers it:
`SelfServiceKeepsPrivileges` follows `restricted_to_self` on both.

**Bounds.** Two calls are enough for every race between two statements; three
are used where a third party matters: one that waits for a lock while another
waits for a connection (contention), and two recoveries beside a reset
(recovery). Two owners tell one's own schema from another's. Two ids leave
room for a replace onto the name of another schema. Two times tell earlier
from later, which is all the properties compare. Three tables are the fewest
with a circle inside a larger one, and four the fewest with two circles, one of
which refers to the other.
In `access_control` the two roles carry the same permissions, so that an account
can be moved from one to the other without ever losing its right: the case in
which two reads could fall on either side of the move. Calls that can disturb
one another are put on different tasks (`MCRequests`); a third account is there
to be created. In `schema_journey` a family varies one concern and leaves the
rest plain: the rules of a column in every order, constraints in every place,
every name of every type with the numbers it may carry between and
behind its words, and types the domain lacks. Four calls take a drawing from a door into the
row, out through the other door into a file and back. The numbers a type may
carry end at 25 (`MaxNumber`), the first at which a `float` is no longer a `real`.
`MaxLength` and `MaxPrecision` stand for the limits of `varchar` and `numeric`,
with values on both sides of each. `MaxClock`, `MaxTotal`,
`HalfWord`, `MaxNow`, `MaxSignIns`, `Ids`, `Tokens` and a family's `legs` are
the bounds; a model stops accepting calls (`IdsLeft` in `SignUp`) or draws no more when one is used up, and the calls in
progress still end. The proofs need none of the bounds.

**Symmetry.** Clients, owners, ids, profiles and tokens are permuted where they
are model values no definition tells apart. The two runs that check liveness use none.

**Fairness.** `SchemaStore` and `SignUp` assume weak fairness of the steps that
wait for nothing: tokio polls a task that is ready. They assume strong fairness
of a step that waits for a lock or a connection: PostgreSQL grants locks in the
order they were asked for and `sqlx` hands out connections in that order, so a
resource that comes free again and again is granted in the end. Nothing is
assumed about calls arriving, statements failing or an administrator acting.

## 4. Proofs

The proof modules are checked from nothing by `tlapm`; they use the assumptions
on constants named in the component modules and no bound. These assumptions say
of what type a constant is (`ConstantsAssumption`, `NoRequestAssumption`,
`SignUpAssumption`, `PasswordResetAssumption`, `UsersAssumption`), and where
more is needed what the code guarantees: lock keys are of a range
(`LockKeyAssumption`); the super role is granted everything, and requests are
what the extractors let through (`AccessAssumption`, `RequestsAssumption`); page
sizes and totals are positive and fit the word (`PaginationAssumption`,
`MaxTotalAssumption`, `PerPageAssumption`); ids are strictly ordered and fewer
than a `bigint` counts (`IdsAssumption`); schemas and their references are
sequences (`SchemasAssumption`); a payload has the fields of its type and a
known cardinality (`PayloadsAssumption`).

**SchemaStoreProofs.** `UniqueNames` is not inductive: that a committing save
finds its name still free depends on who holds which lock. `StoreInv` adds
(1) who is past `LockName` holds the key of its name, and whoever holds a key
is past `LockName` (`NameLocked`, `NameLockHeld`); (2) the same for row locks;
(3) `StillFree`: a name found free stays free until commit, since anyone who
could take it for the same owner needs the same key; (4) an inserted id is
nobody's until its commit (`FreshIds`). `NamesStayUnique`, `TablesAgree`,
`OwnersOnly` and `TypeCorrect` follow. `NoDeadlock` follows from the order of
resources: whoever holds a row lock only has to commit. `DatesInOrder` adds
`TimeInv`: a call can only name a schema whose creation was committed, so its
transaction started no earlier. `StoreRefinesCatalog` maps each COMMIT and each
single statement to the call's instant and every other step to a stutter.
`StoreRefinesListing` maps the same store, owner by owner, to `SchemaListing`:
a create is open there from BEGIN to COMMIT, so what `ListingProofs` shows
of a reader holds beside this store.

**SignUpProofs.** `SignUpInv` adds to the properties what a call knows at each
step (`CallShape`), that an account has one creator (`OneCreator`), that until
its creator seeds it an account has no sample (`SeedPending`, which is why
`Seed` cannot bring back a deleted one), that the unique index covers open
inserts too (`EmailsUnique`), and that whoever is about to issue tokens holds
the row with the address (`TokensMatch`). `SignUpTypes` is its first conjunct,
as `ResetTypes` is of `ResetInv`.

**PasswordResetProofs.** `SpentTokensStaySpent` needs that the tokens a reset
saw with its own have no row under another address (`SeenAtAddress`), so that
deleting by address takes them all, and that tokens are drawn once
(`RowsDrawn`). `RecoveriesInTurnKeepOne` needs `StillCleared`: between clearing
and storing only another recovery of the address can store, and then the race
is on record (`RacesRecorded`).

**AccessControlProofs.** A call reads its account, the super role and the
permission in three statements, and the properties compare that with the history
`held`. `AccessInv` adds, for each call: who it acts for (`Known`), which calls
come to which statement (`Stage`), that an open transaction holds what its own
call asked for (`Writes`), that the history covers the present and that whoever
is in a handler was entitled at some moment (`Watched`). The last is what makes
`HandlersServeTheEntitled` inductive: a read that finds the right finds it in the
present, which the history has. `TheEntitledAreServed` needs the other direction,
that the super role has every permission, so that a role moved between the two
reads cannot fall between them. `Budget` counts the sign ins under way and keeps
the token counter in its type. `ChangesAreAtomic` and `SelfServiceIsHarmless` are
action properties: only `Commit` writes, and it writes what `Writes` says.

**ListingProofs, the pages.** `%` and `\div` are described once by
quotient and rest; from there, pages counted by `total_pages` start below the
total (`CountedPages`), and the rows of a page are an interval (`RowsOfPage`)
as long as the offset does not leave the word. `EachRowOnOnePage` and
`LinksHaveRows` are stated for every word size; in the code it is 64 bits.

**ListingProofs, the reader.** `PagingInv` says what has been shown when the reader
stands before a page: while nothing moved, exactly the schemas placed before it,
each once (`Quiet`); while nothing was removed, all of the old schemas placed
before it (`Kept`). `Kept` survives a create because an old schema's place, the
number of schemas before it, can only grow. Walks end at a page past the count,
which by then has covered every place.

**CycleCheckProofs.** The correctness of Tarjan's algorithm as `visit` writes it,
for schemas of any size. `TarjanInv` says: the stack is in the order of the
indices and has what is indexed and in no component (`Stacked`); each pending
call waits at the key that led to the next (`Framed`); a table on the stack
reaches the pending call it was found under, and is reached by it (`Connected`);
`low` is the index of something reached on the stack (`LowReached`) and no
higher than what the tables found under a call refer to (`LowCovers`). When a
call ends with `low` = `index`, nothing the tables from there on refer to lies
further down (`LowCovers`) and all of them reach one another (`Connected`), so
they are one group: `WholeGroups`, `PoppedForGood`. `StuckSeen` follows tables
that wait for one another: a component of one cannot be the first of them to be
popped. At the end of a run the stack is empty and every table has an index, so
the components are all groups. `CyclesAreFound` also needs that the groups can be
sorted (`GroupsAreSorted`: a group's place is the number of groups with a lower
first table); `ErrorsAreReal` that a group of the NOT NULL graph lies inside one
of the whole graph and leaves each of its tables waiting (`GroupIsStuck`).

**DdlProofs.** A request for DDL, for drawings of any size. The properties speak
of the database, the checks of the drawing, and the proof goes from one to the
other in four steps.

1. *The report.* A report is the findings of nested loops, joined. `ValidLoop`
   and `ValidNested` turn "the joined list has no error" into "no round found
   one", for any loop; with them each check says what a schema that passes it is
   (`NamesChecked`, `ForeignKeysChecked`, `CyclesChecked`, ...), and `Verified`
   sums up: a schema without errors is `Sound`. The look for equal names is the
   hardest: its groups are found by their first member (`GroupsOfNames`).
2. *The script.* The script of a sound schema is its tables in order, then one
   statement for every reference that was drawn, no two the same, then comments
   (`ScriptShape`).
3. *The run.* `Holds(schema, script, at, catalog)` says that the catalog has
   exactly the tables among the first `at` statements, each with the columns and
   keys of its CREATE TABLE and the references added so far. It is the part of
   `DdlInv` that makes the rest inductive: each statement keeps it
   (`StatementKeeps`), and because tables come first, a reference finds both its
   tables (`ReferenceAccepted`). `AcceptedToTheLast` needs the three exceptions of
   `VerifiedScriptRuns`; the theorems about a whole script need none on names and
   types (`LinesAreEnforced` only the unique column inside a composite key,
   `DatabaseIsTheDrawing` that exception for the unique keys of the one table,
   `KeyHidesUnique`), since
   a statement that is not accepted ends the run and `Holds` follows from those
   that were.
4. *The end.* `AfterTheRun` compares the catalog of a whole script with the
   drawing. `DatabaseIsTheDrawing` reads it off. `LinesAreEnforced` adds that the
   verifier's idea of a unique key is the database's (`UniqueDrawn`).
   `TablesCanBeFilled` turns a circle of NOT NULL references in the database into
   a group of `Dependencies`, which `Sound` excludes. `EitherEndFirst` needs no
   database: the checks on lines find the same in both directions, so the two
   reports are equal.

`TablesCanBeFilled` has the hypothesis `DistinctIds`. The proof fails without it,
and for a reason in the code: `check_cycles` finds a table by id in a map that
keeps the last with the id (`IndexOf`), `Schema::resolve` takes the first
(`FirstWithId`), and nothing refuses a drawing with two. The check may then
follow a reference to another table than the one the script refers to.

**Lemmas.** The provers do not see inside `FlattenSeq`, which is a fold, or a
sorted sequence, and induction over data is not available to them as a theorem
with an operator parameter. What these operators return is shown by a least
counterexample (`LeastNumber`): the partial results are a recursive function on
numbers, and the first number at which a claim would fail contradicts its
defining equation. `FlattenedMembers` (what a joined list contains),
`Joined` and the lemmas on graphs are then cited by `CycleCheckProofs` and
`DdlProofs`.

Only model-checked: liveness (`EveryCallEnds`), which is out of the prover's
reach, and the invariants of `SchemaJourney` (`EveryLegKeepsTheDrawing`,
`ScriptReadsBack`, `ComparisonIsExact`, `ReadsWhatWasWritten`): its reader is
recursive, and what it makes of a text is an induction over the text. That
`Verifier!CheckCycles`, by which `DdlProofs` argues, is what the algorithm
computes is what `CyclesAreFound` and `ErrorsAreReal` say.

## 5. Not modelled

- In `SchemaStore` the draft check is a choice of the caller.
- Of the verifier: messages and the wording of locations. Whether a default value
  is one (it is written as typed; "the database has the last word"). Drawings with two entities of one id: nothing refuses them, and the
  cycle check and the look-up then mean different tables.
- `VerifiedScriptRuns` excepts three kinds of drawing that the verifier passes
  and PostgreSQL does not: a unique column inside a composite key (the run
  `ddl_reference`), names that are one name after 63 bytes (`NamesSurviveCut`),
  and types of one family that do not compare, or keys that cannot be indexed
  (`TypesAgree`). `CatalogMatchesDrawing` compares the unique keys with the flags
  of the drawing, except in a table with a composite key over a unique column:
  there the UNIQUE is lost (`KeyHidesUnique`). `RelationshipsEnforced` excepts
  N:M lines, for which the generator makes no join table, and drawings with such
  a column. `DirectionDoesNotMatter` excepts a line whose two columns
  refer to each other.
- A sign up that stops between the account's COMMIT and its sample leaves an
  account without one, a Google sign in whose address is someone's `user_name`
  finds no account, and two overlapping resets can both use a token: `SignUp`
  and `PasswordReset` contain these behaviours, and no property excludes them.
- `EveryLegKeepsTheDrawing` excepts drafts with a blank name that came from a
  file, which no door takes back, exported files whose lines join tables
  that are not drawn, which an import refuses, and files of drawings with spaces
  around an id (`IdsTrimmed`): `identity` in `exchange/json.rs` trims ids, while
  references, the ends of lines, both mappers and the row keep them as they are,
  so a reference leads nowhere afterwards and a line makes the import fail.
  `ScriptReadsBack` is about
  drawings a script can hold (`Carried`): `render` parts `::` and `||`, a line
  break in a name ends its layout line, and a dot in a column's name moves the
  border between table and column of a comment. A line comes back as 1:N, and
  only where there is a foreign key. `ReadsWhatWasWritten` is about tables the
  reader follows (`Followed`): ON DELETE SET NULL on a column makes it nullable,
  a key that stands before its columns is dropped silently. Three types are read
  as another one than PostgreSQL makes of them (`TypeFollowed`): `timestamp(n)
  with time zone` and `time(n) with time zone` lose their zone, because the words
  behind the numbers are dropped; `float(n)` up to 24 becomes DOUBLE PRECISION;
  a bare `bpchar` becomes CHAR, which is one character long. What a type means to
  PostgreSQL is `PgKind`, after PostgreSQL's manual and apart from the reader's table.
- Smaller differences from the code, none of which a property depends on. The
  listing sorts by the date of the link; `SchemaStore` keeps one date for the
  link and its schema, which `create` writes alike and no statement changes, so
  the mutant of `ImplementsListing`, which changes the schema's date, moves a row
  that only a second mistake would move in the code. `ConstraintName` cuts a name
  where the table's or the column's is long by itself, the code wherever the
  joined name is. `Postgres` accepts more than PostgreSQL: it has no limits on
  the numbers of a type, no system columns, and no names that tables and indexes
  share. `CheckPassword` has no account without a password, which
  `generate_token` refuses like a wrong one. `GetIdentity` answers a missing
  account and a failing query alike, where `refresh_token` tells them apart.
- The text level of JSON, which is serde's; the file name of an export.
- `can_any`, which has no caller, the lists of users and of permissions, and the
  columns of `permissions_of`: reads that only feed an answer.
- Request contexts, body framing, configuration, logging, templates,
  documentation, health, start up: no state and no control worth a model.
- PostgreSQL, `sqlx`, Google and SMTP are external: modelled by what the code
  relies on.
- `SchemaRepository::find_by_name` has no caller outside the tests.
- A lost update between two replaces of one schema: the interface has no
  version to detect it with.

## 6. Plan

1. `SchemaStore`, `SchemaCatalog` and their proofs: done.
2. `SchemaListing`, `SchemaPaging`, `Pagination`: done.
3. `SignUp`, `PasswordReset` and their proofs: done.
4. `Users`, `AccessControl`: done.
5. `CycleCheck`, `Verifier`, `Generator`, `DdlGeneration`: done.
6. `Documents`, the SQL modules, `Comparing`, `SchemaJourney`: done.
7. Proofs of access control, paging, the listing's refinement and the cycle
   check: done.
8. Proofs about `DdlGeneration`, with the lemmas on sequences: done.
