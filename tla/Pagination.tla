----------------------------- MODULE Pagination -----------------------------
(***************************************************************************)
(* package/pagination.rs: which rows a page shows and what its metadata    *)
(* says. The numbers are i64 in the code; the release profile sets no      *)
(* overflow-checks, so arithmetic wraps around.                            *)
(***************************************************************************)
EXTENDS Integers

CONSTANTS
  HalfWord,        \* 2^63 for i64: a number lies in -HalfWord .. HalfWord - 1
  DefaultPerPage,  \* DEFAULT_PER_PAGE
  MaxPerPage,      \* MAX_PER_PAGE
  NoPage           \* None: there is no next or no previous page

ASSUME PaginationAssumption ==
  /\ HalfWord \in Nat \ {0}
  /\ DefaultPerPage \in 1..MaxPerPage
  /\ MaxPerPage \in 1..(HalfWord - 1)
  /\ NoPage \notin Int

Word == -HalfWord .. HalfWord - 1

Wrap(n) == ((n + HalfWord) % (2 * HalfWord)) - HalfWord

Paged == [page : Word, per_page : Word]

\* Mutant: only the lower limit of per_page is kept.
NormalizeBelow(page, per_page) ==
  [page     |-> IF page < 1 THEN 1 ELSE page,
   per_page |-> IF per_page < 1 THEN DefaultPerPage ELSE per_page]

\* ListRequest::normalize. A size out of range is replaced, not clamped.
Normalize(page, per_page) ==
  [page     |-> IF page < 1 THEN 1 ELSE page,
   per_page |-> IF per_page < 1 \/ per_page > MaxPerPage THEN DefaultPerPage ELSE per_page]

\* ListRequest::offset.
Offset(request) == Wrap((request.page - 1) * request.per_page)

\* Mutant: a last page that is not full is not counted.
TotalPagesRoundedDown(total, per_page) == total \div per_page

\* The whole pages, and one more for a rest (Data::new).
TotalPages(total, per_page) ==
  total \div per_page + (IF total % per_page = 0 THEN 0 ELSE 1)

NextPage(total, request) ==
  LET next == Wrap(request.page + 1)
  IN  IF next <= TotalPages(total, request.per_page) THEN next ELSE NoPage

PreviousPage(total, request) ==
  LET previous == Wrap(request.page - 1)
  IN  IF previous >= 1 /\ previous <= TotalPages(total, request.per_page)
      THEN previous ELSE NoPage

\* LIMIT per_page OFFSET offset: PostgreSQL refuses a negative offset.
Refused(request) == Offset(request) < 0

\* The positions, counted from zero, of the rows a page of a table shows.
Positions(total, request) ==
  {p \in 0..(total - 1) : Offset(request) <= p /\ p < Offset(request) + request.per_page}
=============================================================================
