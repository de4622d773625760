----------------------------- MODULE OwnerLedger ----------------------------
(***************************************************************************)
(* A paged list of the owner's console (Issues and Customers): the first   *)
(* page is read again by a poll, by focus and by the owner, further pages  *)
(* are appended, and a changed search starts over after a short delay.     *)
(* Answers arrive in any order, or not at all.  A row is its position in   *)
(* the server's order, newest first; a query matches a set of rows.        *)
(***************************************************************************)
EXTENDS Integers, Sequences, Functions

CONSTANTS
  Queries,
  Matches,       \* the rows each query matches, in order: positions, 1 for the newest
  PageSize,
  MaxRequests,   \* bound on first pages on their way
  MaxChanges     \* bound on changes of the query

(* What the values of the constants must satisfy.                            *)
ListAssumption ==
  /\ Matches \in [Queries -> Seq(Nat \ {0})]
  /\ \A q \in Queries : \A i, j \in DOMAIN Matches[q] : i < j => Matches[q][i] < Matches[q][j]
  /\ PageSize \in Nat

VARIABLES
  query,            \* what the owner searches for
  queryGeneration,
  rows,             \* the rows shown, in order
  cursor,           \* the last row of the last page, 0 when there is no more
  loadedMore,       \* whether pages were appended
  firstPageCount,
  liveGeneration,   \* generationRef of the live first page
  firsts,           \* first pages on their way: their generation and rows
  mores,            \* further pages on their way
  due,              \* whether the delayed refresh of a changed query waits
  failed            \* whether the newest first page failed

listVars ==
  <<query, queryGeneration, rows, cursor, loadedMore, firstPageCount, liveGeneration, firsts,
    mores, due, failed>>

(* What is left of a sequence of the members of a set, in order.             *)
Keep(list, S) ==
  LET kept[i \in 0..Len(list)] ==
        IF i = 0 THEN <<>>
        ELSE IF list[i] \in S THEN Append(kept[i - 1], list[i]) ELSE kept[i - 1]
  IN kept[Len(list)]

Page(q, after) ==
  LET later == Keep(Matches[q], {r \in Range(Matches[q]) : r > after})
  IN SubSeq(later, 1, IF Len(later) < PageSize THEN Len(later) ELSE PageSize)

(* The cursor a page brings: its last row, if more follow.                   *)
CursorOf(q, page) ==
  IF page # <<>> /\ \E r \in Range(Matches[q]) : r > page[Len(page)] THEN page[Len(page)] ELSE 0

ListInit ==
  /\ query \in Queries
  /\ queryGeneration = 1
  /\ rows = <<>>
  /\ cursor = 0
  /\ loadedMore = FALSE
  /\ firstPageCount = 0
  /\ liveGeneration = 1
  /\ firsts = {[live |-> 1, query |-> query]}
  /\ mores = {}
  /\ due = FALSE
  /\ failed = FALSE

(* refresh: a newer request outdates the ones before it.                     *)
RefreshList ==
  /\ liveGeneration < MaxRequests
  /\ liveGeneration' = liveGeneration + 1
  /\ firsts' = firsts \cup {[live |-> liveGeneration + 1, query |-> query]}
  /\ UNCHANGED <<query, queryGeneration, rows, cursor, loadedMore, firstPageCount, mores, failed>>

Poll == RefreshList /\ UNCHANGED due
DelayEnds == due /\ due' = FALSE /\ RefreshList

NewestAny(f) == TRUE
Newest(f) == f.live = liveGeneration

(* The rows kept behind a new first page.                                    *)
KeptTail == IF loadedMore THEN SubSeq(rows, firstPageCount + 1, Len(rows)) ELSE <<>>

FirstArrives(f) ==
  LET page == Page(f.query, 0) IN
  /\ firsts' = firsts \ {f}
  /\ IF Newest(f)
     THEN /\ rows' = page \o Keep(KeptTail, Range(KeptTail) \ Range(page))
          /\ firstPageCount' = Len(page)
          /\ cursor' = IF loadedMore THEN cursor ELSE CursorOf(f.query, page)
          /\ failed' = FALSE
     ELSE UNCHANGED <<rows, firstPageCount, cursor, failed>>
  /\ UNCHANGED <<query, queryGeneration, loadedMore, liveGeneration, mores, due>>

FirstFails(f) ==
  /\ firsts' = firsts \ {f}
  /\ failed' = (failed \/ Newest(f))
  /\ UNCHANGED <<query, queryGeneration, rows, cursor, loadedMore, firstPageCount, liveGeneration,
                 mores, due>>

(* The effect of a changed search: start over, refresh after a delay.        *)
ChangeQuery(q) ==
  /\ q # query
  /\ queryGeneration <= MaxChanges
  /\ query' = q
  /\ queryGeneration' = queryGeneration + 1
  /\ loadedMore' = FALSE /\ firstPageCount' = 0
  /\ rows' = <<>> /\ cursor' = 0
  /\ due' = TRUE
  /\ UNCHANGED <<liveGeneration, firsts, mores, failed>>

LoadMore ==
  /\ cursor # 0
  /\ mores' = mores \cup {[generation |-> queryGeneration, query |-> query, after |-> cursor]}
  /\ UNCHANGED <<query, queryGeneration, rows, cursor, loadedMore, firstPageCount, liveGeneration,
                 firsts, due, failed>>

SameQuery(m) == m.generation = queryGeneration

MoreArrives(m) ==
  LET page == Page(m.query, m.after) IN
  /\ mores' = mores \ {m}
  /\ IF SameQuery(m)
     THEN /\ rows' = rows \o Keep(page, Range(page) \ Range(rows))
          /\ loadedMore' = TRUE
          /\ cursor' = CursorOf(m.query, page)
     ELSE UNCHANGED <<rows, loadedMore, cursor>>
  /\ UNCHANGED <<query, queryGeneration, firstPageCount, liveGeneration, firsts, due, failed>>

MoreFails(m) ==
  /\ mores' = mores \ {m}
  /\ UNCHANGED <<query, queryGeneration, rows, cursor, loadedMore, firstPageCount, liveGeneration,
                 firsts, due, failed>>

ListNext ==
  \/ Poll \/ DelayEnds
  \/ \E f \in firsts : FirstArrives(f) \/ FirstFails(f)
  \/ \E q \in Queries : ChangeQuery(q)
  \/ LoadMore
  \/ \E m \in mores : MoreArrives(m) \/ MoreFails(m)

ListSpec == ListInit /\ [][ListNext]_listVars

-----------------------------------------------------------------------------
(* Properties.                                                               *)

(* Once the list has settled it shows rows of what the owner searches for,   *)
(* each once, whichever pages of earlier searches arrived late.              *)
Settled == ~due /\ firsts = {} /\ ~failed
ListIsOfQuery ==
  /\ IsInjective(rows)
  /\ Settled => Range(rows) \subseteq Range(Matches[query])
=============================================================================
