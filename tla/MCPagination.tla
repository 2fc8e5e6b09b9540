---------------------------- MODULE MCPagination ----------------------------
(* Pagination over every request and every table size within the bounds: a *)
(* listing is asked for and then followed along its page links.            *)
EXTENDS Pagination, FiniteSets

CONSTANT MaxTotal   \* bound: rows of a table

\* COUNT is a bigint, read into an i64.
ASSUME MaxTotalAssumption == MaxTotal \in 0..(HalfWord - 1)

VARIABLES
  count,    \* COUNT
  request   \* the page being shown

listingVars == <<count, request>>

ListingInit ==
  /\ count \in 0..MaxTotal
  /\ \E page, per_page \in Word : request = Normalize(page, per_page)

Follow(page) ==
  /\ page # NoPage
  /\ request' = Normalize(page, request.per_page)
  /\ UNCHANGED count

ListingNext == Follow(NextPage(count, request)) \/ Follow(PreviousPage(count, request))

ListingSpec == ListingInit /\ [][ListingNext]_listingVars

OnPage(page) == [request EXCEPT !.page = page]

\* The pages the metadata counts show every row of the table exactly once,
\* whatever page size the caller asked for.
PagesCoverTable ==
  \A p \in 0..(count - 1) :
    Cardinality({k \in 1..TotalPages(count, request.per_page) :
                   p \in Positions(count, OnPage(k))}) = 1

\* The rows of the page and of the next have numbers the code can compute.
Fits == (request.page + 1) * request.per_page < HalfWord

\* A page holds at most MAX_PER_PAGE rows, and a link leads to a page that
\* holds some: next_page and previous_page never lead past the table. It takes
\* a page number that fits: the offset of another is no i64 any more.
LinksLeadToRows ==
  Fits =>
  /\ Cardinality(Positions(count, request)) <= MaxPerPage
  /\ \A page \in {NextPage(count, request), PreviousPage(count, request)} \ {NoPage} :
       Positions(count, OnPage(page)) # {}
=============================================================================
