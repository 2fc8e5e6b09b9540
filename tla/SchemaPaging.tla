---------------------------- MODULE SchemaPaging ----------------------------
(***************************************************************************)
(* A caller reads the listing of its schemas page by page while other      *)
(* calls of the same owner create and delete schemas.                      *)
(*                                                                         *)
(* SchemaServiceImpl::index asks PgSchemaRepository::index, which sends    *)
(* two statements outside any transaction: the count the metadata is made  *)
(* of, and the rows of the page. The caller then follows next_page.        *)
(***************************************************************************)
EXTENDS SchemaListing, Pagination, FiniteSets

CONSTANTS
  PerPage,         \* the page size the caller asks for
  IdBefore(_, _)   \* the order of UUIDs

ASSUME PerPageAssumption == PerPage \in 1..MaxPerPage

\* The order of UUIDs is strict, and there are fewer than a bigint counts.
ASSUME IdsAssumption ==
  /\ \A i \in Ids : ~IdBefore(i, i)
  /\ IsFiniteSet(Ids) /\ Cardinality(Ids) + 2 < HalfWord

VARIABLES
  walk,      \* where the caller stands: "idle", "count", "rows" or "done"
  page,      \* the page it asks for
  total,     \* the count of the call in progress
  times,     \* how often each schema was shown so far
  present,   \* the schemas stored when the walk began
  moved,     \* a schema was stored or removed since then
  removed,   \* a schema was removed since then
  torn       \* a schema was stored between the two statements of one call

walkVars == <<walk, page, total, times, present, moved, removed, torn>>
vars     == <<storeVars, walkVars>>

-----------------------------------------------------------------------------
(* What the listing shows.                                                 *)

Stored == {i \in Ids : listed[i] # NoTime}

\* Mutant: the id does not break ties, so that schemas made in the same
\* instant come in an order that changes from one page to the next.
PositionByDate(i) ==
  Cardinality({j \in Stored : \/ listed[j] < listed[i]
                              \/ /\ listed[j] = listed[i]
                                 /\ IF page = 1 THEN IdBefore(j, i) ELSE IdBefore(i, j)})

\* ORDER BY us.created_at, us.schema_id.
Position(i) ==
  Cardinality({j \in Stored : \/ listed[j] < listed[i]
                              \/ listed[j] = listed[i] /\ IdBefore(j, i)})

ThisPage == Normalize(page, PerPage)

Rows == {i \in Stored : Position(i) \in Positions(Cardinality(Stored), ThisPage)}

-----------------------------------------------------------------------------

Init ==
  /\ StoreInit
  /\ walk = "idle" /\ page = 1 /\ total = 0
  /\ times = [i \in Ids |-> 0]
  /\ present = {}
  /\ moved = FALSE /\ removed = FALSE /\ torn = FALSE

StartWalk ==
  /\ walk = "idle"
  /\ walk' = "count"
  /\ present' = Stored
  /\ UNCHANGED <<storeVars, page, total, times, moved, removed, torn>>

\* SELECT COUNT ... WHERE user_id = owner.
CountRows ==
  /\ walk = "count"
  /\ total' = Cardinality(Stored)
  /\ walk' = "rows"
  /\ UNCHANGED <<storeVars, page, times, present, moved, removed, torn>>

\* The rows of the page, and the answer: the caller follows next_page.
FetchRows ==
  /\ walk = "rows"
  /\ times' = [i \in Ids |-> times[i] + (IF i \in Rows THEN 1 ELSE 0)]
  /\ LET next == NextPage(total, ThisPage)
     IN  IF next = NoPage
         THEN walk' = "done" /\ UNCHANGED page
         ELSE walk' = "count" /\ page' = next
  /\ UNCHANGED <<storeVars, total, present, moved, removed, torn>>

\* A statement fails or finds no connection in time: the caller gets an error
\* and asks for the page again.
ListFails ==
  /\ walk \in {"count", "rows"}
  /\ walk' = "count"
  /\ UNCHANGED <<storeVars, page, total, times, present, moved, removed, torn>>

\* A step of the store, and what it does to a walk under way.
Serve ==
  /\ StoreNext
  /\ LET stored  == \E i \in Ids : listed[i] = NoTime /\ listed'[i] # NoTime
         deleted == \E i \in Ids : listed[i] # NoTime /\ listed'[i] = NoTime
         reading == walk \in {"count", "rows"}
     IN  /\ moved'   = (moved \/ (reading /\ (stored \/ deleted)))
         /\ removed' = (removed \/ (reading /\ deleted))
         /\ torn'    = (torn \/ (walk = "rows" /\ stored))
  /\ UNCHANGED <<walk, page, total, times, present>>

Next == StartWalk \/ CountRows \/ FetchRows \/ ListFails \/ Serve

Spec == Init /\ [][Next]_vars

-----------------------------------------------------------------------------
(* Properties.                                                             *)

\* A listing read while nothing is stored or removed shows every schema once,
\* also when several were made in one instant. It takes index, offset and
\* Data::new to agree on where a page ends.
QuietWalkShowsEachOnce ==
  walk = "done" /\ ~moved => \A i \in Ids : times[i] = IF i \in present THEN 1 ELSE 0

\* New schemas alone never hide an old one from a reader: they push it to a
\* page still to come. The exception is a schema stored between the two
\* statements of one call, which the count does not know of.
NothingHidden ==
  walk = "done" /\ ~removed /\ ~torn => \A i \in present : times[i] > 0
=============================================================================
