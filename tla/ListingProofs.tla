--------------------------- MODULE ListingProofs ---------------------------
(***************************************************************************)
(* Listings: what package/pagination.rs computes, for every word and page  *)
(* size; that the pages of one listing fit together, for every request and *)
(* every number of rows an i64 can count; and what a reader of the schema  *)
(* listing sees, for every number of schemas, every page size and every    *)
(* run of creates and deletes around the walk.                             *)
(***************************************************************************)
EXTENDS MCPagination, SchemaPaging, FiniteSetTheorems, TLAPS

-----------------------------------------------------------------------------
(* The arithmetic. The argument is division with rest: page k shows the    *)
(* rows from (k - 1) * per_page up to, not including, k * per_page, and an *)
(* offset below the number of rows, which is an i64, does not wrap around. *)

\* The word and the page sizes are numbers, and a page fits a word.
LEMMA Words ==
  /\ HalfWord \in Nat \ {0} /\ MaxPerPage \in Nat \ {0} /\ MaxPerPage < HalfWord
  /\ DefaultPerPage \in 1..MaxPerPage /\ NoPage \notin Int
BY PaginationAssumption

\* A number of the machine's range is kept, and any other becomes one.
LEMMA WrapFacts ==
  ASSUME NEW n \in Int
  PROVE  Wrap(n) \in Word /\ (n \in Word => Wrap(n) = n)
<1>1. HalfWord \in Nat \ {0}
  BY Words
<1>2. (n + HalfWord) % (2 * HalfWord) \in 0..(2 * HalfWord - 1)
  BY <1>1
<1>3. n \in Word => (n + HalfWord) % (2 * HalfWord) = n + HalfWord
  BY <1>1 DEF Word
<1> QED BY <1>1, <1>2, <1>3 DEF Wrap, Word

\* Division with rest.
LEMMA Rest ==
  ASSUME NEW a \in Nat, NEW b \in Nat \ {0}
  PROVE  /\ a \div b \in Nat /\ a % b \in 0..(b - 1)
         /\ a = (a \div b) * b + (a % b)
OBVIOUS

\* Multiples of a page size are that size apart.
LEMMA Steps ==
  ASSUME NEW i \in Int, NEW j \in Int, NEW b \in Nat \ {0}
  PROVE  /\ i * b \in Int /\ j * b \in Int
         /\ i < j => i * b + b <= j * b
         /\ i * b < j * b => i < j
OBVIOUS

\* total_pages is the number of the last page with a row: the rows before
\* page k are fewer than the table's exactly when k is counted.
LEMMA CountedPages ==
  ASSUME NEW n \in Nat, NEW size \in Nat \ {0}, NEW k \in Nat \ {0}
  PROVE  TotalPages(n, size) \in Nat /\ (k <= TotalPages(n, size) <=> (k - 1) * size < n)
<1> DEFINE q == n \div size
           r == n % size
<1>1. q \in Nat /\ r \in 0..(size - 1) /\ n = q * size + r
  BY Rest
<1>2. TotalPages(n, size) = q + (IF r = 0 THEN 0 ELSE 1)
  BY DEF TotalPages
<1> HIDE DEF q, r
<1>3. CASE r = 0
  BY <1>1, <1>2, <1>3, Steps
<1>4. CASE r # 0
  <2>1. k - 1 \in Int /\ TotalPages(n, size) = q + 1
    BY <1>2, <1>4
  <2>2. k - 1 <= q => (k - 1) * size < n
    <3>1. k - 1 <= q => (k - 1) * size <= q * size
      BY <1>1, <2>1, Steps
    <3> QED BY <1>1, <1>4, <2>1, <3>1
  <2>3. q < k - 1 => n < (k - 1) * size
    <3>1. q < k - 1 => q * size + size <= (k - 1) * size
      BY <1>1, <2>1, Steps
    <3> QED BY <1>1, <2>1, <3>1
  <2>4. n \in Int /\ (k - 1) * size \in Int /\ q \in Int
    BY <1>1, <2>1
  <2> QED BY <1>1, <2>1, <2>2, <2>3, <2>4
<1> QED BY <1>1, <1>3, <1>4

\* The rows of a page whose offset can be computed.
LEMMA RowsOfPage ==
  ASSUME NEW n \in Nat, NEW r \in Paged, r.page >= 1, r.per_page >= 1,
         (r.page - 1) * r.per_page < HalfWord
  PROVE  /\ Offset(r) = (r.page - 1) * r.per_page /\ Offset(r) \in Nat
         /\ \A p \in 0..(n - 1) :
              p \in Positions(n, r) <=> (r.page - 1) * r.per_page <= p /\ p < (r.page - 1) * r.per_page + r.per_page
<1>1. r.page \in Int /\ r.per_page \in Int /\ HalfWord \in Nat \ {0}
  BY Words DEF Paged, Word
<1>2. (r.page - 1) * r.per_page \in Nat
  BY <1>1
<1>3. (r.page - 1) * r.per_page \in Word
  BY <1>1, <1>2 DEF Word
<1>4. Offset(r) = (r.page - 1) * r.per_page
  BY <1>2, <1>3, WrapFacts DEF Offset
<1> QED BY <1>2, <1>4 DEF Positions

-----------------------------------------------------------------------------
(* One listing and its links. normalize keeps a request within limits, and *)
(* the lemmas above say which rows a page shows.                           *)

\* What normalize leaves of any request.
Normal(r) == r.page \in 1..(HalfWord - 1) /\ r.per_page \in 1..MaxPerPage

ListingInv == count \in 0..MaxTotal /\ request \in Paged /\ Normal(request)

\* The same for the pages of the listing that total_pages counts.
LEMMA RowsOnPage ==
  ASSUME ListingInv, NEW k \in Nat \ {0}, k <= TotalPages(count, request.per_page)
  PROVE  /\ (k - 1) * request.per_page < count
         /\ \A p \in 0..(count - 1) :
              p \in Positions(count, OnPage(k)) <=>
                (k - 1) * request.per_page <= p /\ p < (k - 1) * request.per_page + request.per_page
<1> DEFINE size == request.per_page
<1>1. count \in Nat /\ count < HalfWord /\ size \in Nat \ {0} /\ HalfWord \in Nat
  BY Words, MaxTotalAssumption DEF ListingInv, Normal
<1>2. (k - 1) * size < count
  BY <1>1, CountedPages
<1>3. k - 1 <= (k - 1) * size /\ (k - 1) * size \in Nat
  BY <1>1
<1>4. k \in Word
  BY <1>1, <1>2, <1>3 DEF Word
<1>5. OnPage(k) \in Paged /\ OnPage(k).page = k /\ OnPage(k).per_page = size
  BY <1>4 DEF ListingInv, Paged, OnPage
<1> HIDE DEF size
<1>6. OnPage(k).page >= 1 /\ OnPage(k).per_page >= 1 /\ (OnPage(k).page - 1) * OnPage(k).per_page < HalfWord
  BY <1>1, <1>2, <1>3, <1>5
<1>7. \A p \in 0..(count - 1) :
        p \in Positions(count, OnPage(k)) <=>
          /\ (OnPage(k).page - 1) * OnPage(k).per_page <= p
          /\ p < (OnPage(k).page - 1) * OnPage(k).per_page + OnPage(k).per_page
  BY <1>1, <1>5, <1>6, RowsOfPage
<1> QED BY <1>2, <1>5, <1>7 DEF size

-----------------------------------------------------------------------------
(* The invariant.                                                          *)

\* normalize makes any two words a request within limits.
LEMMA NormalizeFacts ==
  ASSUME NEW k \in Word, NEW size \in Word
  PROVE  Normalize(k, size) \in Paged /\ Normal(Normalize(k, size))
BY Words DEF Normalize, Paged, Normal, Word

\* next_page and previous_page are words or absent.
LEMMA LinksAreWords ==
  ASSUME ListingInv
  PROVE  /\ NextPage(count, request) \in Word \cup {NoPage}
         /\ PreviousPage(count, request) \in Word \cup {NoPage}
<1>1. request.page + 1 \in Int /\ request.page - 1 \in Int
  BY DEF ListingInv, Normal
<1> QED BY <1>1, WrapFacts DEF NextPage, PreviousPage

\* A request stays within limits along the links.
LEMMA ListingInvariance == ListingSpec => []ListingInv
<1>1. ListingInit => ListingInv
  BY NormalizeFacts DEF ListingInit, ListingInv
<1>2. ListingInv /\ [ListingNext]_listingVars => ListingInv'
  <2> SUFFICES ASSUME ListingInv, [ListingNext]_listingVars PROVE ListingInv'
    OBVIOUS
  <2>1. request.per_page \in Word
    BY DEF ListingInv, Paged
  <2>2. ASSUME NEW k \in Word \cup {NoPage}, Follow(k) PROVE ListingInv'
    BY <2>1, <2>2, NormalizeFacts DEF Follow, ListingInv
  <2>3. CASE ListingNext
    BY <2>2, <2>3, LinksAreWords DEF ListingNext
  <2>4. CASE UNCHANGED listingVars
    BY <2>4 DEF listingVars, ListingInv
  <2> QED BY <2>3, <2>4
<1> QED BY <1>1, <1>2, PTL DEF ListingSpec

-----------------------------------------------------------------------------

\* Whatever page and size a caller asks for, the pages that Data::new counts
\* show each row of the table on exactly one of them: normalize, offset and
\* total_pages agree on where pages end, up to the largest i64.
THEOREM EachRowOnOnePage == ListingSpec => []PagesCoverTable
<1>1. ListingInv => PagesCoverTable
  <2> SUFFICES ASSUME ListingInv, NEW p \in 0..(count - 1)
               PROVE  Cardinality({k \in 1..TotalPages(count, request.per_page) :
                                     p \in Positions(count, OnPage(k))}) = 1
    BY DEF PagesCoverTable
  <2> DEFINE size == request.per_page
             q == p \div size
             pages == {k \in 1..TotalPages(count, size) : p \in Positions(count, OnPage(k))}
  <2>1. count \in Nat /\ size \in Nat \ {0} /\ p \in Nat /\ p < count
    BY Words, MaxTotalAssumption DEF ListingInv, Normal
  <2>2. q \in Nat /\ q * size <= p /\ p < q * size + size
    <3>1. q \in Nat /\ p % size \in 0..(size - 1) /\ p = q * size + (p % size)
      BY <2>1, Rest
    <3> HIDE DEF q, size
    <3>2. q * size \in Nat
      BY <2>1, <3>1
    <3> QED BY <2>1, <3>1, <3>2
  <2> HIDE DEF q
  <2>3. TotalPages(count, size) \in Nat /\ q + 1 <= TotalPages(count, size)
    <3>1. q + 1 \in Nat \ {0} /\ (q + 1) - 1 = q /\ q * size \in Nat
      BY <2>1, <2>2
    <3>2. (q + 1 <= TotalPages(count, size) <=> ((q + 1) - 1) * size < count) /\ TotalPages(count, size) \in Nat
      BY <2>1, <3>1, CountedPages
    <3> QED BY <2>1, <2>2, <3>1, <3>2
  <2>4. ASSUME NEW k \in 1..TotalPages(count, size)
        PROVE  p \in Positions(count, OnPage(k)) <=> k = q + 1
    <3>1. k \in Nat \ {0} /\ k <= TotalPages(count, size)
      BY <2>3
    <3>2. p \in Positions(count, OnPage(k)) <=> (k - 1) * size <= p /\ p < (k - 1) * size + size
      BY <3>1, RowsOnPage
    <3> DEFINE j == k - 1
    <3>3. j \in Int /\ q \in Int /\ size \in Nat \ {0} /\ p \in Int
      BY <2>1, <2>2, <3>1
    <3>4. k = q + 1 <=> j = q
      BY <2>2, <3>1
    <3> HIDE DEF size, j
    <3>5. /\ j * size \in Int /\ q * size \in Int
          /\ j < q => j * size + size <= q * size
          /\ q < j => q * size + size <= j * size
      BY <3>3, Steps
    <3>6. j = q => j * size = q * size
      OBVIOUS
    <3> DEFINE a == j * size
               b == q * size
    <3>7. /\ a \in Int /\ b \in Int /\ b <= p /\ p < b + size
          /\ j < q => a + size <= b
          /\ q < j => b + size <= a
          /\ j = q => a = b
      BY <2>2, <3>5, <3>6
    <3>8. p \in Positions(count, OnPage(k)) <=> a <= p /\ p < a + size
      BY <3>2 DEF j
    <3> HIDE DEF a, b
    <3>9. (a <= p /\ p < a + size) <=> j = q
      BY <3>3, <3>7
    <3> QED BY <3>4, <3>8, <3>9
  <2>5. pages = {q + 1}
    BY <2>2, <2>3, <2>4
  <2> QED BY <2>5, FS_Singleton
<1> QED BY <1>1, ListingInvariance, PTL

\* A page never holds more than MAX_PER_PAGE rows, and following next_page or
\* previous_page from a page within the i64 range leads to a page with rows.
THEOREM LinksHaveRows == ListingSpec => []LinksLeadToRows
<1>1. ListingInv => LinksLeadToRows
  <2> SUFFICES ASSUME ListingInv, Fits
               PROVE  /\ Cardinality(Positions(count, request)) <= MaxPerPage
                      /\ \A k \in {NextPage(count, request), PreviousPage(count, request)} \ {NoPage} :
                           Positions(count, OnPage(k)) # {}
    BY DEF LinksLeadToRows
  <2> DEFINE size == request.per_page
             here == request.page
  <2>1. /\ count \in Nat /\ size \in 1..MaxPerPage /\ size \in Nat \ {0} /\ here \in Nat \ {0}
        /\ HalfWord \in Nat \ {0} /\ MaxPerPage \in Nat /\ NoPage \notin Int /\ request \in Paged
    BY Words, MaxTotalAssumption DEF ListingInv, Normal
  <2>2. (here + 1) * size < HalfWord /\ (here - 1) * size \in Nat
    BY <2>1 DEF Fits
  <2>3. (here - 1) * size < HalfWord /\ here + 1 < HalfWord
    <3>1. (here + 1) * size = (here - 1) * size + 2 * size /\ here + 1 <= (here + 1) * size
      BY <2>1
    <3> QED BY <2>1, <2>2, <3>1
  <2>4. Cardinality(Positions(count, request)) <= MaxPerPage
    <3> DEFINE first == (here - 1) * size
    <3>1. Positions(count, request) \in SUBSET (first..(first + size - 1))
      <4>1. \A p \in 0..(count - 1) : p \in Positions(count, request) <=> first <= p /\ p < first + size
        BY <2>1, <2>3, RowsOfPage
      <4>2. Positions(count, request) \subseteq 0..(count - 1)
        BY DEF Positions
      <4> QED BY <2>1, <2>2, <4>1, <4>2
    <3> HIDE DEF first
    <3>2. first \in Int /\ first + size - 1 \in Int /\ ~(first > first + size - 1)
          /\ (first + size - 1) - first + 1 = size
      BY <2>1, <2>2 DEF first
    <3>3. IsFiniteSet(first..(first + size - 1)) /\ Cardinality(first..(first + size - 1)) = size
      BY <3>2, FS_Interval
    <3>4. Cardinality(Positions(count, request)) <= size /\ Cardinality(Positions(count, request)) \in Nat
      BY <3>1, <3>3, FS_Subset, FS_CardinalityType
    <3> QED BY <2>1, <3>4
  <2>5. ASSUME NEW k \in Nat \ {0}, k <= TotalPages(count, size)
        PROVE  Positions(count, OnPage(k)) # {}
    <3>1. (k - 1) * size < count /\ (k - 1) * size \in Nat
      BY <2>1, <2>5, RowsOnPage
    <3>2. (k - 1) * size \in Positions(count, OnPage(k))
      BY <2>1, <2>5, <3>1, RowsOnPage
    <3> QED BY <3>2
  <2>6. Wrap(here + 1) = here + 1 /\ Wrap(here - 1) = here - 1
    BY <2>1, <2>3, WrapFacts DEF Word
  <2>7. NextPage(count, request) # NoPage =>
          NextPage(count, request) \in Nat \ {0} /\ NextPage(count, request) <= TotalPages(count, size)
    BY <2>1, <2>6 DEF NextPage
  <2>8. PreviousPage(count, request) # NoPage =>
          PreviousPage(count, request) \in Nat \ {0} /\ PreviousPage(count, request) <= TotalPages(count, size)
    BY <2>1, <2>6 DEF PreviousPage
  <2> QED BY <2>4, <2>5, <2>7, <2>8
<1> QED BY <1>1, ListingInvariance, PTL

-----------------------------------------------------------------------------
(* A walk along the listing while the store changes. PagingInv says what   *)
(* the pages read so far have shown: while nothing moves, exactly the      *)
(* schemas placed before the page to come; while only new ones appear, all *)
(* of the old ones placed before it, since an old schema is only ever      *)
(* pushed back.                                                            *)

Reading == walk \in {"count", "rows"}

Types ==
  /\ listed \in [Ids -> Nat \cup {NoTime}] /\ open \in [Clients -> Nat \cup {NoTime}] /\ clock \in Nat
  /\ walk \in {"idle", "count", "rows", "done"} /\ page \in Nat \ {0} /\ total \in 0..Cardinality(Ids)
  /\ times \in [Ids -> Nat] /\ present \subseteq Ids
  /\ moved \in BOOLEAN /\ removed \in BOOLEAN /\ torn \in BOOLEAN

\* The page to come starts within the rows there can be.
PageInRange == (page - 1) * PerPage <= Cardinality(Ids)

NotBegun == walk = "idle" => page = 1 /\ \A i \in Ids : times[i] = 0

\* Nothing was stored or removed: exactly the schemas before this page were shown.
Quiet ==
  (Reading /\ ~moved) =>
    /\ present = Stored /\ (walk = "rows" => total = Cardinality(Stored))
    /\ \A i \in Ids : times[i] = IF i \in present /\ Position(i) < (page - 1) * PerPage THEN 1 ELSE 0

\* Nothing was removed: of the old schemas, those before this page were shown.
Kept ==
  (Reading /\ ~removed /\ ~torn) =>
    /\ present \subseteq Stored /\ (walk = "rows" => total = Cardinality(Stored))
    /\ \A i \in present : times[i] > 0 \/ (page - 1) * PerPage <= Position(i)

PagingInv ==
  /\ Types /\ PageInRange /\ NotBegun /\ Quiet /\ Kept
  /\ QuietWalkShowsEachOnce /\ NothingHidden

-----------------------------------------------------------------------------
(* Where a schema stands in the listing.                                   *)

Before(i) == {j \in Stored : \/ listed[j] < listed[i]
                             \/ listed[j] = listed[i] /\ IdBefore(j, i)}

\* There are finitely many schemas, no more than ids.
LEMMA StoredIsFinite ==
  /\ IsFiniteSet(Ids) /\ Cardinality(Ids) \in Nat
  /\ IsFiniteSet(Stored) /\ Cardinality(Stored) \in 0..Cardinality(Ids)
<1>1. IsFiniteSet(Ids) /\ Cardinality(Ids) \in Nat
  BY IdsAssumption, FS_CardinalityType
<1>2. Stored \in SUBSET Ids
  BY DEF Stored
<1>3. IsFiniteSet(Stored) /\ Cardinality(Stored) <= Cardinality(Ids)
  BY <1>1, <1>2, FS_Subset
<1>4. Cardinality(Stored) \in Nat
  BY <1>3, FS_CardinalityType
<1> QED BY <1>1, <1>3, <1>4

\* Positions are counted from zero, so the last is below the count.
LEMMA PositionInTable ==
  ASSUME Types, NEW i \in Stored
  PROVE  Position(i) \in Nat /\ Position(i) < Cardinality(Stored)
<1>1. Before(i) \in SUBSET (Stored \ {i})
  <2>1. i \in Ids /\ listed[i] \in Nat
    BY DEF Stored, Types
  <2> QED BY <2>1, IdsAssumption DEF Before, Stored
<1>2. IsFiniteSet(Stored \ {i}) /\ Cardinality(Stored \ {i}) = Cardinality(Stored) - 1
  BY StoredIsFinite, FS_RemoveElement
<1>3. IsFiniteSet(Before(i)) /\ Cardinality(Before(i)) <= Cardinality(Stored \ {i})
  BY <1>1, <1>2, FS_Subset
<1>4. Cardinality(Before(i)) \in Nat /\ Cardinality(Stored) \in Nat
  BY <1>3, StoredIsFinite, FS_CardinalityType
<1>5. Position(i) = Cardinality(Before(i))
  BY DEF Position, Before
<1> QED BY <1>2, <1>3, <1>4, <1>5

\* Rows that appear push a schema back, or leave it where it is.
LEMMA PushedBack ==
  ASSUME Types, Types', NEW i \in Stored, \A j \in Stored : listed'[j] = listed[j]
  PROVE  Position(i) <= Position(i)'
<1>1. Stored \subseteq Stored'
  BY DEF Stored
<1>2. Before(i) \in SUBSET Before(i)'
  BY <1>1 DEF Before
<1>3. IsFiniteSet(Stored')
  <2>1. Stored' \in SUBSET Ids
    BY DEF Stored
  <2> QED BY <2>1, StoredIsFinite, FS_Subset
<1>4. IsFiniteSet(Before(i)')
  <2>1. Before(i)' \in SUBSET Stored'
    BY DEF Before
  <2> QED BY <1>3, <2>1, FS_Subset
<1>5. Cardinality(Before(i)) <= Cardinality(Before(i)')
  BY <1>2, <1>4, FS_Subset
<1> QED BY <1>5 DEF Position, Before

\* While nothing is stored or removed, every schema keeps its place.
LEMMA SamePositions ==
  ASSUME UNCHANGED listed
  PROVE  Stored' = Stored /\ \A i \in Ids : Position(i)' = Position(i)
BY DEF Stored, Position

-----------------------------------------------------------------------------
(* The page that is read.                                                  *)

\* The page size and the number of ids are numbers that fit a word.
LEMMA Sizes ==
  /\ PerPage \in Nat \ {0} /\ PerPage \in Word /\ HalfWord \in Nat /\ NoPage \notin Int
  /\ PerPage <= MaxPerPage /\ MaxPerPage \in Nat /\ Cardinality(Ids) \in Nat /\ Cardinality(Ids) + 2 < HalfWord
BY PerPageAssumption, IdsAssumption, Words, StoredIsFinite DEF Word

\* The numbers of this page and the next can be computed.
LEMMA PageFits ==
  ASSUME Types, PageInRange
  PROVE  /\ page \in Nat \ {0} /\ (page - 1) * PerPage \in Nat /\ (page - 1) * PerPage < HalfWord
         /\ page \in Word /\ page + 1 \in Word
         /\ ThisPage = [page |-> page, per_page |-> PerPage] /\ ThisPage \in Paged
<1>1. page \in Nat \ {0} /\ (page - 1) * PerPage <= Cardinality(Ids)
  BY DEF Types, PageInRange
<1>2. (page - 1) * PerPage \in Nat /\ page - 1 <= (page - 1) * PerPage
  BY <1>1, Sizes
<1>3. page + 1 < HalfWord /\ (page - 1) * PerPage < HalfWord
  BY <1>1, <1>2, Sizes
<1>4. page \in Word /\ page + 1 \in Word
  BY <1>1, <1>3, Sizes DEF Word
<1>5. ThisPage = [page |-> page, per_page |-> PerPage]
  <2>1. ~(page < 1) /\ ~(PerPage < 1 \/ PerPage > MaxPerPage)
    BY <1>1, Sizes
  <2> QED BY <2>1 DEF ThisPage, Normalize
<1> QED BY <1>1, <1>2, <1>3, <1>4, <1>5, Sizes DEF Paged

\* The rows of the page are the schemas placed on it.
LEMMA RowsAreThePage ==
  ASSUME Types, PageInRange, NEW i \in Ids
  PROVE  i \in Rows <=> /\ i \in Stored
                        /\ (page - 1) * PerPage <= Position(i)
                        /\ Position(i) < (page - 1) * PerPage + PerPage
<1>1. CASE i \notin Stored
  BY <1>1 DEF Rows
<1>2. CASE i \in Stored
  <2> DEFINE n == Cardinality(Stored)
  <2>1. Position(i) \in 0..(n - 1) /\ n \in Nat
    BY <1>2, PositionInTable, StoredIsFinite
  <2>2. ThisPage.page = page /\ ThisPage.per_page = PerPage /\ ThisPage \in Paged
    BY PageFits
  <2> HIDE DEF n
  <2>3. Position(i) \in Positions(n, ThisPage) <=>
          (page - 1) * PerPage <= Position(i) /\ Position(i) < (page - 1) * PerPage + PerPage
    BY <2>1, <2>2, PageFits, Sizes, RowsOfPage
  <2> QED BY <1>2, <2>3 DEF Rows, n
<1> QED BY <1>1, <1>2

\* next_page is the page after this one, unless no row is left for it.
LEMMA NextPageFacts ==
  ASSUME Types, PageInRange
  PROVE  \/ NextPage(total, ThisPage) = NoPage /\ total <= (page - 1) * PerPage + PerPage
         \/ NextPage(total, ThisPage) = page + 1 /\ (page - 1) * PerPage + PerPage < total
<1>1. ThisPage.page = page /\ ThisPage.per_page = PerPage /\ page \in Nat \ {0} /\ page + 1 \in Nat \ {0}
  BY PageFits
<1>2. Wrap(page + 1) = page + 1
  BY PageFits, WrapFacts
<1>3. NextPage(total, ThisPage) = IF page + 1 <= TotalPages(total, PerPage) THEN page + 1 ELSE NoPage
  BY <1>1, <1>2 DEF NextPage
<1>4. total \in Nat
  BY DEF Types
<1>5. (page + 1) - 1 = page /\ page * PerPage = (page - 1) * PerPage + PerPage /\ page * PerPage \in Nat
  BY <1>1, Sizes
<1>6. page + 1 <= TotalPages(total, PerPage) <=> ((page + 1) - 1) * PerPage < total
  BY <1>1, <1>4, Sizes, CountedPages
<1> QED BY <1>3, <1>4, <1>5, <1>6

-----------------------------------------------------------------------------
(* The invariant.                                                          *)

\* Nobody has begun to read.
LEMMA InitPaging == Init => PagingInv
<1> SUFFICES ASSUME Init PROVE PagingInv
  OBVIOUS
<1>1. Types
  <2>1. listed \in [Ids -> Nat \cup {NoTime}] /\ open \in [Clients -> Nat \cup {NoTime}] /\ times \in [Ids -> Nat]
    BY DEF Init, StoreInit
  <2>2. clock \in Nat /\ page \in Nat \ {0} /\ total \in 0..Cardinality(Ids)
    BY Sizes DEF Init, StoreInit
  <2>3. moved \in BOOLEAN /\ removed \in BOOLEAN /\ torn \in BOOLEAN
    BY DEF Init
  <2> QED BY <2>1, <2>2, <2>3 DEF Init, Types
<1>2. NotBegun /\ Quiet /\ Kept
  BY DEF Init, NotBegun, Quiet, Kept, Reading
<1>3. PageInRange
  BY Sizes DEF Init, PageInRange
<1> QED BY <1>1, <1>2, <1>3 DEF Init, PagingInv, QuietWalkShowsEachOnce, NothingHidden

\* The reader asks for the first page.
LEMMA StartWalkKeepsInv ==
  ASSUME PagingInv, StartWalk
  PROVE  PagingInv'
<1>0. /\ walk' = "count" /\ present' = Stored /\ page = 1 /\ \A i \in Ids : times[i] = 0
      /\ UNCHANGED <<listed, open, clock, page, total, times, moved, removed, torn>>
  BY DEF StartWalk, PagingInv, NotBegun, storeVars
<1>1. Types' /\ PageInRange' /\ NotBegun'
  BY <1>0 DEF PagingInv, Types, PageInRange, NotBegun, Stored
<1>2. (page - 1) * PerPage = 0
  BY <1>0, Sizes
<1>3. Stored' = Stored /\ \A i \in Ids : Position(i)' = Position(i)
  BY <1>0, SamePositions
<1>4. \A i \in Stored : Position(i) \in Nat
  BY PositionInTable DEF PagingInv
<1>5. Quiet'
  BY <1>0, <1>2, <1>3, <1>4 DEF Quiet, Reading, Stored
<1>6. Kept'
  BY <1>0, <1>2, <1>3, <1>4 DEF Kept, Reading, Stored
<1> QED BY <1>0, <1>1, <1>5, <1>6 DEF PagingInv, QuietWalkShowsEachOnce, NothingHidden

\* Counting, and asking again after an error.
LEMMA CountKeepsInv ==
  ASSUME PagingInv, Reading, CountRows \/ ListFails
  PROVE  PagingInv'
<1>0. /\ walk' \in {"count", "rows"} /\ total' \in {total, Cardinality(Stored)}
      /\ walk' = "rows" => total' = Cardinality(Stored)
      /\ UNCHANGED <<listed, open, clock, page, times, present, moved, removed, torn>>
  BY DEF CountRows, ListFails, storeVars
<1>1. Types' /\ PageInRange' /\ NotBegun'
  BY <1>0, StoredIsFinite DEF PagingInv, Types, PageInRange, NotBegun
<1>2. Stored' = Stored /\ \A i \in Ids : Position(i)' = Position(i)
  BY <1>0, SamePositions
<1>3. Quiet'
  BY <1>0, <1>2 DEF PagingInv, Quiet, Reading
<1>4. Kept'
  BY <1>0, <1>2 DEF PagingInv, Kept, Reading, Types
<1> QED BY <1>0, <1>1, <1>3, <1>4 DEF PagingInv, QuietWalkShowsEachOnce, NothingHidden

\* The next page begins where this one ends; after the last no row is left.
LEMMA FetchKeepsInv ==
  ASSUME PagingInv, FetchRows
  PROVE  PagingInv'
<1> DEFINE first == (page - 1) * PerPage
<1>0. /\ Types /\ PageInRange /\ walk = "rows" /\ Reading
      /\ times' = [i \in Ids |-> times[i] + (IF i \in Rows THEN 1 ELSE 0)]
      /\ UNCHANGED <<listed, open, clock, total, present, moved, removed, torn>>
  BY DEF FetchRows, PagingInv, storeVars, Reading
<1>1. /\ first \in Nat /\ PerPage \in Nat /\ page \in Nat \ {0}
      /\ total \in 0..Cardinality(Ids) /\ Cardinality(Ids) \in Nat
  BY <1>0, PageFits, Sizes DEF Types
<1>2. \/ walk' = "done" /\ page' = page /\ total <= first + PerPage
      \/ walk' = "count" /\ page' = page + 1 /\ (page' - 1) * PerPage = first + PerPage /\ first + PerPage < total
  <2>1. ((page + 1) - 1) * PerPage = first + PerPage
    BY <1>1
  <2>2. page + 1 # NoPage
    BY <1>1, Sizes
  <2> QED BY <1>0, <2>1, <2>2, NextPageFacts DEF FetchRows
<1>3. \A i \in Ids : i \in Rows <=> i \in Stored /\ first <= Position(i) /\ Position(i) < first + PerPage
  BY <1>0, RowsAreThePage
<1>4. Stored' = Stored /\ \A i \in Ids : Position(i)' = Position(i)
  BY <1>0, SamePositions
<1>5. \A i \in Stored : i \in Ids /\ Position(i) \in Nat /\ Position(i) < Cardinality(Stored)
  BY <1>0, PositionInTable DEF Stored
<1>6. \A i \in Ids : times[i] \in Nat /\ times'[i] = times[i] + (IF i \in Rows THEN 1 ELSE 0)
  BY <1>0 DEF Types
<1>7. times' \in [Ids -> Nat]
  BY <1>0, <1>6
<1>8. Types' /\ PageInRange' /\ NotBegun'
  <2>1. walk' \in {"count", "done"} /\ page' \in Nat \ {0}
    BY <1>1, <1>2
  <2>2. PageInRange'
    BY <1>0, <1>1, <1>2 DEF PageInRange
  <2> QED BY <1>0, <1>7, <2>1, <2>2 DEF Types, NotBegun
<1>9. Cardinality(Stored) \in Nat
  BY StoredIsFinite
<1> HIDE DEF first
<1>10. ASSUME ~moved
       PROVE  /\ present = Stored /\ total = Cardinality(Stored)
              /\ \A i \in Ids : times'[i] = IF i \in present /\ Position(i) < first + PerPage THEN 1 ELSE 0
  <2>1. /\ present = Stored /\ total = Cardinality(Stored)
        /\ \A i \in Ids : times[i] = IF i \in present /\ Position(i) < first THEN 1 ELSE 0
    BY <1>0, <1>10 DEF PagingInv, Quiet, first
  <2>2. ASSUME NEW i \in Ids
        PROVE  times'[i] = IF i \in present /\ Position(i) < first + PerPage THEN 1 ELSE 0
    <3>1. CASE i \in Stored
      BY <1>1, <1>3, <1>5, <1>6, <2>1, <3>1
    <3>2. CASE i \notin Stored
      BY <1>3, <1>6, <2>1, <3>2
    <3> QED BY <3>1, <3>2
  <2> QED BY <2>1, <2>2
<1>11. ASSUME ~removed, ~torn
       PROVE  /\ present \subseteq Stored /\ total = Cardinality(Stored)
              /\ \A i \in present : times'[i] > 0 \/ first + PerPage <= Position(i)
  <2>1. /\ present \subseteq Stored /\ total = Cardinality(Stored)
        /\ \A i \in present : times[i] > 0 \/ first <= Position(i)
    BY <1>0, <1>11 DEF PagingInv, Kept, first
  <2>2. ASSUME NEW i \in present PROVE times'[i] > 0 \/ first + PerPage <= Position(i)
    BY <1>1, <1>3, <1>5, <1>6, <2>1
  <2> QED BY <2>1, <2>2
<1>12. Quiet'
  BY <1>0, <1>2, <1>4, <1>10 DEF Quiet, Reading
<1>13. Kept'
  BY <1>0, <1>2, <1>4, <1>11 DEF Kept, Reading, Types
<1>14. QuietWalkShowsEachOnce'
  <2> SUFFICES ASSUME walk' = "done", ~moved, NEW i \in Ids
               PROVE  times'[i] = IF i \in present THEN 1 ELSE 0
    BY <1>0 DEF QuietWalkShowsEachOnce
  <2>1. Cardinality(Stored) <= first + PerPage
    BY <1>2, <1>10
  <2> QED BY <1>1, <1>5, <1>9, <1>10, <2>1
<1>15. NothingHidden'
  <2> SUFFICES ASSUME walk' = "done", ~removed, ~torn, NEW i \in present
               PROVE  times'[i] > 0
    BY <1>0 DEF NothingHidden
  <2>1. Cardinality(Stored) <= first + PerPage
    BY <1>2, <1>11
  <2> QED BY <1>1, <1>5, <1>9, <1>11, <2>1
<1> QED BY <1>8, <1>12, <1>13, <1>14, <1>15 DEF PagingInv

\* What a step of the store does to the rows of the owner.
LEMMA StoreStep ==
  ASSUME Types, StoreNext
  PROVE  /\ listed' \in [Ids -> Nat \cup {NoTime}] /\ open' \in [Clients -> Nat \cup {NoTime}] /\ clock' \in Nat
         /\ \A i \in Ids : listed'[i] # listed[i] => listed[i] = NoTime \/ listed'[i] = NoTime
<1>1. ASSUME NEW c \in Clients, Open(c)
      PROVE  UNCHANGED listed /\ open' \in [Clients -> Nat \cup {NoTime}] /\ clock' \in Nat
  BY <1>1 DEF Open, Types
<1>2. ASSUME NEW c \in Clients, Appear(c)
      PROVE  /\ listed' \in [Ids -> Nat \cup {NoTime}] /\ open' \in [Clients -> Nat \cup {NoTime}] /\ clock' \in Nat
             /\ \A i \in Ids : listed'[i] # listed[i] => listed[i] = NoTime
  BY <1>2 DEF Appear, Types
<1>3. ASSUME NEW c \in Clients, GiveUp(c)
      PROVE  UNCHANGED listed /\ open' \in [Clients -> Nat \cup {NoTime}] /\ clock' \in Nat
  BY <1>3 DEF GiveUp, Types
<1>4. ASSUME NEW i \in Ids, Disappear(i)
      PROVE  /\ listed' \in [Ids -> Nat \cup {NoTime}] /\ UNCHANGED <<open, clock>>
             /\ \A j \in Ids : listed'[j] # listed[j] => listed'[j] = NoTime
  BY <1>4 DEF Disappear, Types
<1>5. CASE TimePasses
  BY <1>5 DEF TimePasses, Types
<1> QED BY <1>1, <1>2, <1>3, <1>4, <1>5 DEF StoreNext, Types

\* Other calls create and delete schemas around the walk.
LEMMA ServeKeepsInv ==
  ASSUME PagingInv, Serve
  PROVE  PagingInv'
<1> DEFINE stored  == \E i \in Ids : listed[i] = NoTime /\ listed'[i] # NoTime
           deleted == \E i \in Ids : listed[i] # NoTime /\ listed'[i] = NoTime
<1>0. Types /\ StoreNext /\ UNCHANGED <<walk, page, total, times, present>>
  BY DEF PagingInv, Serve
<1>1. /\ moved'   = (moved \/ (walk \in {"count", "rows"} /\ (stored \/ deleted)))
      /\ removed' = (removed \/ (walk \in {"count", "rows"} /\ deleted))
      /\ torn'    = (torn \/ (walk = "rows" /\ stored))
  BY DEF Serve
<1>2. /\ listed' \in [Ids -> Nat \cup {NoTime}]
      /\ \A i \in Ids : listed'[i] # listed[i] => listed[i] = NoTime \/ listed'[i] = NoTime
  BY <1>0, StoreStep
<1>3. Types' /\ PageInRange' /\ NotBegun'
  BY <1>0, <1>1, StoreStep DEF PagingInv, Types, PageInRange, NotBegun
<1>4. (~moved' => ~moved) /\ (~removed' => ~removed) /\ (~torn' => ~torn)
  BY <1>0, <1>1 DEF Types
<1>5. Reading /\ ~moved' => listed' = listed
  <2>1. Reading /\ ~moved' => ~stored /\ ~deleted
    BY <1>0, <1>1 DEF Reading, Types
  <2>2. ~stored /\ ~deleted => \A i \in Ids : listed'[i] = listed[i]
    BY <1>2
  <2> HIDE DEF stored, deleted
  <2> QED BY <1>0, <1>2, <2>1, <2>2 DEF Types
<1>6. Quiet'
  BY <1>0, <1>4, <1>5, SamePositions DEF PagingInv, Quiet, Reading
<1>7. ASSUME Reading, ~removed', ~torn'
      PROVE  /\ present \subseteq Stored' /\ (walk = "rows" => total = Cardinality(Stored'))
             /\ \A i \in present : times[i] > 0 \/ (page - 1) * PerPage <= Position(i)'
  <2>1. /\ present \subseteq Stored /\ (walk = "rows" => total = Cardinality(Stored))
        /\ \A i \in present : times[i] > 0 \/ (page - 1) * PerPage <= Position(i)
    BY <1>4, <1>7 DEF PagingInv, Kept
  <2>2. ~deleted
    BY <1>0, <1>1, <1>7 DEF Reading, Types
  <2>3. \A j \in Stored : listed'[j] = listed[j]
    BY <1>2, <2>2 DEF Stored
  <2>4. Stored \subseteq Stored'
    BY <2>3 DEF Stored
  <2>5. walk = "rows" => Stored' = Stored
    <3>1. walk = "rows" => ~stored
      BY <1>0, <1>1, <1>7 DEF Types
    <3> QED BY <2>4, <3>1 DEF Stored
  <2>6. ASSUME NEW i \in present, ~(times[i] > 0) PROVE (page - 1) * PerPage <= Position(i)'
    <3>1. i \in Stored /\ (page - 1) * PerPage <= Position(i)
      BY <2>1, <2>6
    <3>2. Position(i) <= Position(i)'
      BY <1>0, <1>3, <2>3, <3>1, PushedBack
    <3>3. Position(i) \in Nat /\ Position(i)' \in Nat
      <4>1. i \in Stored'
        BY <2>4, <3>1
      <4>2. ASSUME Types', i \in Stored' PROVE Position(i)' \in Nat
        <5>1. IsFiniteSet(Stored') /\ Before(i)' \in SUBSET Stored'
          <6>1. Stored' \in SUBSET Ids /\ Before(i)' \in SUBSET Stored'
            BY DEF Stored, Before
          <6> QED BY <6>1, StoredIsFinite, FS_Subset
        <5>2. Cardinality(Before(i)') \in Nat
          BY <5>1, FS_Subset, FS_CardinalityType
        <5> QED BY <5>2 DEF Position, Before
      <4> QED BY <1>0, <1>3, <3>1, <4>1, <4>2, PositionInTable
    <3>4. (page - 1) * PerPage \in Nat
      BY <1>0, PageFits DEF PagingInv
    <3> QED BY <3>1, <3>2, <3>3, <3>4
  <2> QED BY <2>1, <2>4, <2>5, <2>6
<1>8. Kept'
  BY <1>0, <1>7 DEF Kept, Reading
<1>9. QuietWalkShowsEachOnce' /\ NothingHidden'
  BY <1>0, <1>4 DEF PagingInv, QuietWalkShowsEachOnce, NothingHidden
<1> QED BY <1>3, <1>6, <1>8, <1>9 DEF PagingInv

\* What the pages have shown, throughout.
LEMMA PagingInvariance == Spec => []PagingInv
<1>1. PagingInv /\ [Next]_vars => PagingInv'
  <2> SUFFICES ASSUME PagingInv, [Next]_vars PROVE PagingInv'
    OBVIOUS
  <2>1. CASE CountRows \/ ListFails
    BY <2>1, CountKeepsInv DEF CountRows, ListFails, Reading
  <2>2. CASE UNCHANGED vars
    <3>1. UNCHANGED <<listed, open, clock, walk, page, total, times, present, moved, removed, torn>>
      BY <2>2 DEF vars, storeVars, walkVars
    <3>2. Types' /\ PageInRange' /\ NotBegun' /\ QuietWalkShowsEachOnce' /\ NothingHidden'
      BY <3>1 DEF PagingInv, Types, PageInRange, NotBegun, QuietWalkShowsEachOnce, NothingHidden
    <3>3. Quiet' /\ Kept'
      BY <3>1, SamePositions DEF PagingInv, Quiet, Kept, Reading, Types
    <3> QED BY <3>2, <3>3 DEF PagingInv
  <2> QED BY <2>1, <2>2, StartWalkKeepsInv, FetchKeepsInv, ServeKeepsInv DEF Next
<1> QED BY <1>1, InitPaging, PTL DEF Spec

\* index, offset and Data::new agree on where a page ends: a reader who
\* follows next_page to the end while nothing moves has seen every schema of
\* the owner once, also those made in the same instant.
THEOREM QuietWalks == Spec => []QuietWalkShowsEachOnce
<1>1. PagingInv => QuietWalkShowsEachOnce
  BY DEF PagingInv
<1> QED BY <1>1, PagingInvariance, PTL

\* However many schemas are stored while a reader follows next_page, and in
\* whatever order their transactions commit, none of the old ones is passed
\* over, unless one is stored between the two statements of PgSchemaRepository::index.
THEOREM NewSchemasHideNone == Spec => []NothingHidden
<1>1. PagingInv => NothingHidden
  BY DEF PagingInv
<1> QED BY <1>1, PagingInvariance, PTL
=============================================================================
