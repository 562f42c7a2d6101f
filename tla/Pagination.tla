----------------------------- MODULE Pagination -----------------------------
(***************************************************************************)
(* The buttons below a table of the dashboard                              *)
(* (dashboard/src/components/pagination.rs): previous, next and a window   *)
(* of page numbers, for an offset that comes from the URL and a total that *)
(* comes with every answer of the server.                                  *)
(***************************************************************************)
EXTENDS Integers, Sequences, SequencesExt

CONSTANTS
  PageLimit,  \* records on a page
  MaxTotal    \* bound: records, and the offset somebody types

ASSUME PaginationAssumption == PageLimit \in Nat \ {0} /\ MaxTotal \in Nat

VARIABLES
  offset,  \* of the first record on the page
  total    \* records there are

numberVars == <<offset, total>>

PaginationTypeOK == offset \in Nat /\ total \in Nat

TotalPages == IF total = 0 THEN 1 ELSE (total + PageLimit - 1) \div PageLimit

CurrentPage == offset \div PageLimit + 1

PrevDisabled == offset = 0
NextDisabled == offset + PageLimit >= total

Gap == 0

PagesFrom(first, last) == [i \in 1 .. last - first + 1 |-> first + i - 1]

\* Mutant: the gap before the last page appears one page early.
PageWindowWide(current, pages) ==
  IF pages <= 7 THEN PagesFrom(1, pages)
  ELSE LET first == IF current - 1 < 2 THEN 2 ELSE current - 1
           last  == IF current + 1 < pages - 1 THEN current + 1 ELSE pages - 1 IN
       <<1>> \o (IF current > 3 THEN <<Gap>> ELSE <<>>) \o PagesFrom(first, last)
         \o (IF current < pages - 1 THEN <<Gap>> ELSE <<>>) \o <<pages>>

\* page_window: first page, last page, current page and its neighbours.
PageWindow(current, pages) ==
  IF pages <= 7 THEN PagesFrom(1, pages)
  ELSE LET first == IF current - 1 < 2 THEN 2 ELSE current - 1
           last  == IF current + 1 < pages - 1 THEN current + 1 ELSE pages - 1 IN
       <<1>> \o (IF current > 3 THEN <<Gap>> ELSE <<>>) \o PagesFrom(first, last)
         \o (IF current < pages - 2 THEN <<Gap>> ELSE <<>>) \o <<pages>>

Numbers == PageWindow(CurrentPage, TotalPages)

\* on_prev: saturating_sub.
OnPrev ==
  /\ ~PrevDisabled
  /\ offset' = IF offset < PageLimit THEN 0 ELSE offset - PageLimit
  /\ UNCHANGED total

OnNext ==
  /\ ~NextDisabled
  /\ offset' = offset + PageLimit
  /\ UNCHANGED total

GoToPage ==
  /\ \E p \in ToSet(Numbers) \ {Gap, CurrentPage} : offset' = (p - 1) * PageLimit
  /\ UNCHANGED total

\* The answer for another page, or a later one, brings another total.
NewTotal ==
  /\ total' \in 0 .. MaxTotal
  /\ UNCHANGED offset

PaginationInit == offset \in 0 .. MaxTotal /\ total \in 0 .. MaxTotal

PaginationNext == OnPrev \/ OnNext \/ GoToPage \/ NewTotal

PaginationSpec == PaginationInit /\ [][PaginationNext]_numberVars

-----------------------------------------------------------------------------

\* From any offset, also one that no page begins at or that is beyond the last
\* record, the numbers lead to pages that exist, among them the first, the last
\* and those next to the current one; they are in their order, and dots stand
\* where pages are left out and nowhere else.
WindowTrue ==
  LET window == Numbers
      shown  == ToSet(window) \ {Gap}
      all    == 1 .. TotalPages IN
  /\ shown \subseteq all
  /\ {1, TotalPages} \cup ({CurrentPage - 1, CurrentPage, CurrentPage + 1} \cap all) \subseteq shown
  /\ window[1] # Gap /\ window[Len(window)] # Gap
  /\ \A i \in 1 .. Len(window) - 1 : window[i] # Gap =>
       IF window[i + 1] = Gap THEN window[i + 2] > window[i] + 1
       ELSE window[i + 1] = window[i] + 1

=============================================================================
