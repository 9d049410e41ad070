------------------------------ MODULE PagedLists ------------------------------
(***************************************************************************)
(* A client that follows has_next through the pages of a list while the    *)
(* list changes under it.  The lists of users, of comments and of issues   *)
(* are read the same way: a COUNT, then a SELECT with OFFSET and LIMIT,    *)
(* each seeing what is committed by then.  They differ in the order of     *)
(* created_at and in how rows come and go.                                 *)
(*                                                                         *)
(* created_at is the time at which the inserting transaction began, so a   *)
(* row may become visible after rows that carry a later time.  Rows are    *)
(* numbered in the order of (created_at, id).                              *)
(***************************************************************************)
EXTENDS Integers, FiniteSets

CONSTANTS
  MaxRows,   \* bound: rows whose insertion ever begins
  Limit,     \* the page size the client asks for
  Lists      \* the lists in question, a subset of Kinds

\* users: oldest first, and an account's row stays.  comments: oldest first, and a
\* comment may be deleted.  issues: newest first; a change of its status, severity
\* or assignee takes an issue out of a filtered list, and another brings it back.
Kinds == {"users", "comments", "issues"}

NoRow == 0   \* none has come, or left

ASSUME SizeAssumption  == MaxRows \in Nat /\ Limit \in Nat \ {0}
ASSUME ListsAssumption == Lists \subseteq Kinds

Row == 1..MaxRows

VARIABLES
  list,      \* which list the client walks through
  begun,     \* how many insertions have begun
  there,     \* the rows a query finds now
  gone,      \* the comments deleted
  pc,        \* the client's request: "idle", "count", "read", "over"
  skip,      \* its offset
  total,     \* what its COUNT returned
  shown,     \* the rows the client has been shown in this walk
  twice,     \* those it has been shown more than once
  (* history of this walk *)
  stayed,    \* the rows that have been there all the time
  firstCame, \* of the rows that have come since it began, the first in the order
  firstLeft, \* of the rows that have left, the first in the order
  raced      \* has a row come since the last COUNT?

rows  == <<begun, there, gone>>
walk  == <<pc, skip, total, shown, twice>>
past  == <<stayed, firstCame, firstLeft, raced>>
pvars == <<list, rows, walk, past>>

-------------------------------------------------------------------------------
(* The queries *)

\* ORDER BY created_at, id  --  ORDER BY created_at DESC, id for issues.
Before(m, n) == IF list = "issues" THEN m > n ELSE m < n

Ahead(n) == {m \in there : Before(m, n)}

\* Mutant: OFFSET is one short.
SliceOverlapping(offset) ==
  LET from == IF offset = 0 THEN 0 ELSE offset - 1 IN
    {n \in there : Cardinality(Ahead(n)) \in from..(from + Limit - 1)}

\* Mutant: LIMIT limit + 1, to see whether there is more.
SliceAndNext(offset) ==
  {n \in there : Cardinality(Ahead(n)) \in offset..(offset + Limit)}

\* OFFSET offset LIMIT Limit
Slice(offset) ==
  {n \in there : Cardinality(Ahead(n)) \in offset..(offset + Limit - 1)}

\* Mutant: the index of the last row is compared with the number of rows.
HasNextAfterLast(offset, items, count) == offset + Cardinality(items) < count - 1

\* PaginatedResponse.create
HasNext(offset, items, count) == offset + Cardinality(items) < count

-------------------------------------------------------------------------------
(* Rows come and go *)

Walking == pc \in {"count", "read"}

FirstOf(m, n) == IF m = NoRow \/ Before(n, m) THEN n ELSE m

\* A request that inserts a row begins: the row's created_at is fixed.
BeginInsert ==
  /\ begun < MaxRows
  /\ begun' = begun + 1
  /\ UNCHANGED <<list, there, gone, walk, past>>

\* Its commit, whenever it comes; or an issue matches the filter again.
Come(n) ==
  /\ n \in (1..begun) \ (there \cup gone)
  /\ there' = there \cup {n}
  /\ firstCame' = IF Walking THEN FirstOf(firstCame, n) ELSE firstCame
  /\ raced' = (raced \/ pc = "read")
  /\ UNCHANGED <<list, begun, gone, walk, stayed, firstLeft>>

Leave(n) ==
  /\ n \in there
  /\ there' = there \ {n}
  /\ stayed'    = IF Walking THEN stayed \ {n} ELSE stayed
  /\ firstLeft' = IF Walking THEN FirstOf(firstLeft, n) ELSE firstLeft
  /\ UNCHANGED <<list, begun, walk, firstCame, raced>>

\* A comment is deleted.  No endpoint deletes a user.
Delete(n) ==
  /\ list = "comments"
  /\ Leave(n)
  /\ gone' = gone \cup {n}

\* An issue does not match the filter any more; one that is deleted does not
\* match again.
Unmatch(n) ==
  /\ list = "issues"
  /\ Leave(n)
  /\ UNCHANGED gone

-------------------------------------------------------------------------------
(* The client *)

StartWalk ==
  /\ ~Walking
  /\ pc' = "count"
  /\ skip' = 0
  /\ shown' = {} /\ twice' = {}
  /\ stayed' = there /\ firstCame' = NoRow /\ firstLeft' = NoRow /\ raced' = FALSE
  /\ UNCHANGED <<list, rows, total>>

\* SELECT count(*)
Count ==
  /\ pc = "count"
  /\ pc' = "read"
  /\ total' = Cardinality(there)
  /\ raced' = FALSE
  /\ UNCHANGED <<list, rows, skip, shown, twice, stayed, firstCame, firstLeft>>

\* Mutant: a page past the end of the list is an error, and is asked for again.
ReadOrNotFound ==
  /\ pc = "read"
  /\ LET items == Slice(skip) IN
       /\ shown' = shown \cup items
       /\ twice' = twice \cup (shown \cap items)
       /\ CASE items = {} -> pc' = "count" /\ skip' = skip
            [] items # {} /\ HasNext(skip, items, total)
                 -> pc' = "count" /\ skip' = skip + Limit
            [] items # {} /\ ~HasNext(skip, items, total)
                 -> pc' = "over" /\ skip' = skip
  /\ UNCHANGED <<list, rows, total, past>>

\* The page, its envelope, and what the client does with has_next.
Read ==
  /\ pc = "read"
  /\ LET items == Slice(skip) IN
       /\ shown' = shown \cup items
       /\ twice' = twice \cup (shown \cap items)
       /\ IF HasNext(skip, items, total)
            THEN pc' = "count" /\ skip' = skip + Limit
            ELSE pc' = "over"  /\ skip' = skip
  /\ UNCHANGED <<list, rows, total, past>>

-------------------------------------------------------------------------------
PageInit ==
  /\ list \in Lists
  /\ begun \in 0..MaxRows
  /\ there = 1..begun
  /\ gone = {}
  /\ pc = "idle" /\ skip = 0 /\ total = 0
  /\ shown = {} /\ twice = {}
  /\ stayed = {} /\ firstCame = NoRow /\ firstLeft = NoRow /\ raced = FALSE

PageNext ==
  \/ BeginInsert
  \/ \E n \in Row : Come(n) \/ Delete(n) \/ Unmatch(n)
  \/ StartWalk \/ Count \/ Read

PageSpec == PageInit /\ [][PageNext]_pvars

\* The client that has begun a walk goes on with it, and its requests are served.
FairPageSpec == PageSpec /\ WF_pvars(Count) /\ WF_pvars(Read)

-------------------------------------------------------------------------------
(* Properties *)

\* The list, the walk and its history are well typed, and no page is longer than
\* the client asked for.
PageTypeOK ==
  /\ list \in Lists
  /\ begun \in 0..MaxRows
  /\ there \subseteq 1..begun /\ gone \subseteq (1..begun) \ there
  /\ pc \in {"idle", "count", "read", "over"}
  /\ skip \in Nat /\ total \in 0..MaxRows
  /\ shown \subseteq Row /\ twice \subseteq shown
  /\ stayed \subseteq Row /\ {firstCame, firstLeft} \subseteq Row \cup {NoRow}
  /\ raced \in BOOLEAN
  /\ Cardinality(Slice(skip)) <= Limit

\* Whoever walks to the end is shown every row that was there all the time,
\* unless a row listed before it left meanwhile, so that it moved to a page
\* already read, or a row came between the COUNT and the SELECT of the last
\* page, so that has_next was FALSE too early.
MissedOnlyBy ==
  pc = "over" =>
    \A n \in stayed \ shown : raced \/ (firstLeft # NoRow /\ Before(firstLeft, n))

\* A row is shown twice only if one listed before it came during the walk.  In
\* the list of issues any new one does that; in the lists that are oldest first
\* only an insertion that began before the row's own and was committed late.
TwiceOnlyBy ==
  \A n \in twice : firstCame # NoRow /\ Before(firstCame, n)

\* Once no insertion begins any more, every walk ends, whatever rows still come,
\* leave and come again: every page read, an empty one too, takes the client a page
\* further, and past the rows there ever were has_next is FALSE.  (While a page of
\* rows is inserted for every page read, a walk goes on; MaxRows rules that out here.)
WalkEnds == <>[][~BeginInsert]_pvars => (Walking ~> pc = "over")
=============================================================================
