--------------------------- MODULE PagedListsProofs ---------------------------
(***************************************************************************)
(* What a walk through a changing list can miss or repeat, for any number  *)
(* of rows and any page size.                                              *)
(***************************************************************************)
EXTENDS PagedLists, FiniteSetTheorems, TLAPS

USE SizeAssumption

-------------------------------------------------------------------------------
(* The place of a row in an ordered list, whatever list and whatever rows *)

Prior(l, m, n) == IF l = "issues" THEN m > n ELSE m < n

AheadOf(l, S, n) == {m \in S : Prior(l, m, n)}

SliceOf(l, S, a, b) == {n \in S : Cardinality(AheadOf(l, S, n)) \in a..b}

LEMMA RowsFinite ==
  ASSUME NEW S \in SUBSET Row
  PROVE  IsFiniteSet(S) /\ Cardinality(S) \in 0..MaxRows
<1>1. IsFiniteSet(Row) /\ Cardinality(Row) = MaxRows
  BY FS_Interval DEF Row
<1>2. IsFiniteSet(S) /\ Cardinality(S) <= MaxRows
  BY <1>1, FS_Subset
<1> QED BY <1>2, FS_CardinalityType

\* More rows, more ahead.
LEMMA AheadMonotone ==
  ASSUME NEW l, NEW n, NEW T \in SUBSET Row, NEW S \in SUBSET T
  PROVE  /\ Cardinality(AheadOf(l, S, n)) \in Nat
         /\ Cardinality(AheadOf(l, T, n)) \in Nat
         /\ Cardinality(AheadOf(l, S, n)) <= Cardinality(AheadOf(l, T, n))
<1>1. /\ AheadOf(l, S, n) \in SUBSET AheadOf(l, T, n)
      /\ AheadOf(l, T, n) \in SUBSET Row /\ AheadOf(l, S, n) \in SUBSET Row
  BY DEF AheadOf
<1>2. IsFiniteSet(AheadOf(l, T, n))
  BY <1>1, RowsFinite
<1>3. Cardinality(AheadOf(l, S, n)) <= Cardinality(AheadOf(l, T, n))
  BY <1>1, <1>2, FS_Subset
<1> QED BY <1>1, <1>3, RowsFinite

\* A row that comes or leaves moves only the rows it is ahead of.
LEMMA AheadUnmoved ==
  ASSUME NEW l, NEW n, NEW m, NEW S, ~Prior(l, m, n)
  PROVE  /\ AheadOf(l, S \cup {m}, n) = AheadOf(l, S, n)
         /\ AheadOf(l, S \ {m}, n) = AheadOf(l, S, n)
BY DEF AheadOf

\* Of two rows, the one ahead has fewer ahead of it.
LEMMA AheadStrict ==
  ASSUME NEW l, NEW S \in SUBSET Row, NEW m \in S, NEW n \in S, Prior(l, m, n)
  PROVE  Cardinality(AheadOf(l, S, m)) < Cardinality(AheadOf(l, S, n))
<1> S \subseteq Int
  BY DEF Row
<1>1. m \notin AheadOf(l, S, m)
  BY DEF AheadOf, Prior
<1>2. AheadOf(l, S, m) \cup {m} \in SUBSET AheadOf(l, S, n)
  <2>1. m \in AheadOf(l, S, n)
    BY DEF AheadOf
  <2>2. ASSUME NEW x \in AheadOf(l, S, m) PROVE x \in AheadOf(l, S, n)
    <3>1. x \in S /\ Prior(l, x, m) /\ {x, m, n} \subseteq Int
      BY DEF AheadOf
    <3>2. Prior(l, x, n)
      BY <3>1 DEF Prior
    <3> QED BY <3>1, <3>2 DEF AheadOf
  <2> QED BY <2>1, <2>2
<1>3. IsFiniteSet(AheadOf(l, S, n)) /\ IsFiniteSet(AheadOf(l, S, m))
  BY RowsFinite DEF AheadOf
<1>4. /\ Cardinality(AheadOf(l, S, m)) \in Nat
      /\ Cardinality(AheadOf(l, S, n)) \in Nat
  BY <1>3, FS_CardinalityType
<1>5. Cardinality(AheadOf(l, S, m) \cup {m}) = Cardinality(AheadOf(l, S, m)) + 1
  BY <1>1, <1>3, FS_AddElement
<1>6. Cardinality(AheadOf(l, S, m) \cup {m}) <= Cardinality(AheadOf(l, S, n))
  BY <1>2, <1>3, FS_Subset
<1> QED BY <1>4, <1>5, <1>6

\* A row of the list has fewer rows ahead of it than the list has.
LEMMA AheadFewer ==
  ASSUME NEW l, NEW S \in SUBSET Row, NEW n \in S
  PROVE  Cardinality(AheadOf(l, S, n)) < Cardinality(S)
<1> S \subseteq Int
  BY DEF Row
<1>1. IsFiniteSet(S) /\ Cardinality(S) \in Nat
  BY RowsFinite
<1>2. AheadOf(l, S, n) \in SUBSET S /\ n \notin AheadOf(l, S, n)
  BY DEF AheadOf, Prior
<1>3. Cardinality(AheadOf(l, S, n)) <= Cardinality(S)
      /\ (Cardinality(S) = Cardinality(AheadOf(l, S, n)) => S = AheadOf(l, S, n))
  BY <1>1, <1>2, FS_Subset
<1>4. Cardinality(AheadOf(l, S, n)) \in Nat
  BY <1>2, RowsFinite
<1> QED BY <1>1, <1>2, <1>3, <1>4

\* No page holds more rows than it has places: no two rows share a place.
LEMMA SliceBounded ==
  ASSUME NEW l, NEW S \in SUBSET Row, NEW a \in Nat
  PROVE  /\ IsFiniteSet(SliceOf(l, S, a, a + Limit - 1))
         /\ Cardinality(SliceOf(l, S, a, a + Limit - 1)) \in 0..Limit
<1> DEFINE page  == SliceOf(l, S, a, a + Limit - 1)
           place == [n \in page |-> Cardinality(AheadOf(l, S, n))]
<1> S \subseteq Int /\ page \subseteq S
  BY DEF Row, SliceOf
<1>1. place \in [page -> a..(a + Limit - 1)]
  BY DEF SliceOf
<1>2. ASSUME NEW m \in page, NEW n \in page, m # n PROVE place[m] # place[n]
  <2>1. m \in S /\ n \in S /\ m \in Int /\ n \in Int
    BY DEF SliceOf
  <2>2. Prior(l, m, n) \/ Prior(l, n, m)
    BY <1>2, <2>1 DEF Prior
  <2>3. /\ place[m] = Cardinality(AheadOf(l, S, m)) /\ place[m] \in Int
        /\ place[n] = Cardinality(AheadOf(l, S, n)) /\ place[n] \in Int
    BY <1>1
  <2>4. place[m] < place[n] \/ place[n] < place[m]
    BY <2>1, <2>2, <2>3, AheadStrict
  <2> QED BY <2>3, <2>4
<1>3. place \in Injection(page, a..(a + Limit - 1))
  BY <1>1, <1>2 DEF Injection, IsInjective
<1>4. IsFiniteSet(a..(a + Limit - 1)) /\ Cardinality(a..(a + Limit - 1)) = Limit
  BY FS_Interval
<1>5. IsFiniteSet(page) /\ Cardinality(page) <= Limit
  BY <1>3, <1>4, FS_Injection
<1> QED BY <1>5, FS_CardinalityType
-------------------------------------------------------------------------------
(* The walk *)

\* Rows ahead of n came, or left; the first of them is f.
Shifted(l, f, n) == f # NoRow /\ Prior(l, f, n)

Place(l, S, n) == Cardinality(AheadOf(l, S, n))

(* A row that stays and is not shown yet is still to come, and one that was
   shown is behind, unless a row ahead of it left or came. *)
Unshown ==
  Walking => /\ stayed \subseteq there
             /\ \A n \in stayed \ shown :
                  Shifted(list, firstLeft, n) \/ Place(list, there, n) >= skip

Behind ==
  Walking => \A n \in shown :
               Shifted(list, firstCame, n) \/ Place(list, there, n) < skip

\* The total is out of date in one direction only, if no row came since.
TotalEnough ==
  pc = "read" /\ ~raced => Cardinality(there) <= total

\* What the two properties say.
Missed ==
  pc = "over" => \A n \in stayed \ shown : raced \/ Shifted(list, firstLeft, n)

Twice == \A n \in twice : Shifted(list, firstCame, n)

\* The types, without the page.
Typed ==
  /\ list \in Lists /\ begun \in 0..MaxRows
  /\ there \in SUBSET (1..begun) /\ gone \subseteq (1..begun) \ there
  /\ pc \in {"idle", "count", "read", "over"}
  /\ skip \in Nat /\ total \in 0..MaxRows
  /\ shown \subseteq Row /\ twice \subseteq shown /\ stayed \subseteq Row
  /\ firstCame \in Row \cup {NoRow} /\ firstLeft \in Row \cup {NoRow}
  /\ raced \in BOOLEAN

WalkInv == Typed /\ Unshown /\ Behind /\ TotalEnough /\ Missed /\ Twice

\* The queries and the properties in these terms.
LEMMA InTheseTerms ==
  /\ Slice(skip) = SliceOf(list, there, skip, skip + Limit - 1)
  /\ Slice(skip)' = SliceOf(list', there', skip', skip' + Limit - 1)
  /\ Missed <=> MissedOnlyBy
  /\ Twice <=> TwiceOnlyBy
BY DEF Slice, SliceOf, Ahead, AheadOf, Before, Prior, Missed, Twice, MissedOnlyBy,
       TwiceOnlyBy, Shifted

\* Rows are rows, places are numbers, and pages are short enough.
LEMMA Measured ==
  ASSUME NEW l, NEW b \in 0..MaxRows, NEW S \in SUBSET (1..b), NEW offset \in Nat
  PROVE  /\ S \in SUBSET Row
         /\ IsFiniteSet(S) /\ Cardinality(S) \in 0..MaxRows
         /\ \A n : Place(l, S, n) \in Nat
         /\ Cardinality(SliceOf(l, S, offset, offset + Limit - 1)) \in 0..Limit
<1>1. S \in SUBSET Row
  BY DEF Row
<1> QED BY <1>1, RowsFinite, AheadMonotone, SliceBounded DEF Place

\* The first of the rows that came or left stands for all of them.
LEMMA FirstStands ==
  ASSUME NEW m \in Row \cup {NoRow}, NEW n \in Row
  PROVE  /\ FirstOf(m, n) \in Row
         /\ \A x \in Row : Prior(list, n, x) => Shifted(list, FirstOf(m, n), x)
         /\ \A x \in Row : Shifted(list, m, x) => Shifted(list, FirstOf(m, n), x)
BY DEF FirstOf, Before, Prior, Shifted, Row, NoRow

-------------------------------------------------------------------------------
(* Rows come and go *)

LEMMA PageInitInv == PageInit => WalkInv
<1> SUFFICES ASSUME PageInit PROVE WalkInv
  OBVIOUS
<1>1. Typed
  <2>1. /\ there \in SUBSET (1..begun) /\ gone \subseteq (1..begun) \ there
        /\ shown \subseteq Row /\ twice \subseteq shown /\ stayed \subseteq Row
    BY DEF PageInit
  <2>2. skip \in Nat /\ total \in 0..MaxRows
    BY SizeAssumption DEF PageInit
  <2> QED BY <2>1, <2>2 DEF PageInit, Typed
<1> QED BY <1>1 DEF PageInit, WalkInv, Unshown, Behind, TotalEnough, Missed, Twice, Walking

LEMMA BeginInsertKeeps ==
  ASSUME WalkInv, BeginInsert
  PROVE  WalkInv'
<1>1. UNCHANGED <<list, there, gone, walk, past>>
  BY DEF BeginInsert
<1>2. Typed'
  BY <1>1 DEF WalkInv, BeginInsert, walk, past, Typed
<1> QED BY <1>1, <1>2 DEF WalkInv, Unshown, Behind, TotalEnough, Missed, Twice, Walking,
                          walk, past

LEMMA ComeKeeps ==
  ASSUME WalkInv, NEW m \in Row, Come(m)
  PROVE  WalkInv'
<1>1. /\ there' = there \cup {m} /\ m \notin there /\ m \in 1..begun /\ m \notin gone
      /\ UNCHANGED <<list, begun, gone, pc, skip, total, shown, twice, stayed, firstLeft>>
      /\ firstCame' = (IF Walking THEN FirstOf(firstCame, m) ELSE firstCame)
      /\ raced' = (raced \/ pc = "read")
  BY DEF Come, walk
<1>2. /\ begun \in 0..MaxRows /\ there \in SUBSET (1..begun) /\ skip \in Nat
      /\ firstCame \in Row \cup {NoRow}
      /\ stayed \subseteq Row /\ shown \subseteq Row /\ twice \subseteq shown
  BY DEF WalkInv, Typed
<1>3. Typed'
  BY <1>1, FirstStands DEF WalkInv, Typed
<1>4. \A n : /\ Place(list, there, n) \in Nat /\ Place(list, there', n) \in Nat
             /\ Place(list, there, n) <= Place(list, there', n)
  BY <1>1, <1>2, Measured, AheadMonotone DEF Place
<1>5. \A n : ~Prior(list, m, n) => Place(list, there', n) = Place(list, there, n)
  BY <1>1, AheadUnmoved DEF Place
<1>6. \A n \in Row : Shifted(list, firstCame, n) => Shifted(list, firstCame', n)
  BY <1>1, <1>2, FirstStands
<1>7. Unshown'
  BY <1>1, <1>2, <1>4 DEF WalkInv, Unshown, Walking
<1>8. Behind'
  <2> SUFFICES ASSUME Walking, NEW n \in shown
               PROVE  Shifted(list, firstCame', n) \/ Place(list, there', n) < skip
    BY <1>1 DEF Behind, Walking
  <2>1. Shifted(list, firstCame, n) \/ Place(list, there, n) < skip
    BY DEF WalkInv, Behind
  <2>2. Prior(list, m, n) => Shifted(list, firstCame', n)
    BY <1>1, <1>2, FirstStands
  <2> QED BY <1>2, <1>5, <1>6, <2>1, <2>2
<1>9. TotalEnough'
  BY <1>1 DEF TotalEnough
<1>10. Missed' /\ Twice'
  BY <1>1, <1>2, <1>6 DEF WalkInv, Missed, Twice
<1> QED BY <1>3, <1>7, <1>8, <1>9, <1>10 DEF WalkInv

LEMMA LeaveKeeps ==
  ASSUME WalkInv, NEW m \in Row, Leave(m),
         gone' \subseteq gone \cup {m}
  PROVE  WalkInv'
<1>1. /\ there' = there \ {m} /\ m \in there
      /\ UNCHANGED <<list, begun, pc, skip, total, shown, twice, firstCame, raced>>
      /\ stayed' = (IF Walking THEN stayed \ {m} ELSE stayed)
      /\ firstLeft' = (IF Walking THEN FirstOf(firstLeft, m) ELSE firstLeft)
  BY DEF Leave, walk
<1>2. /\ begun \in 0..MaxRows /\ there \in SUBSET (1..begun) /\ skip \in Nat
      /\ there' \in SUBSET there /\ total \in 0..MaxRows
      /\ firstLeft \in Row \cup {NoRow}
      /\ stayed \subseteq Row /\ shown \subseteq Row /\ twice \subseteq shown
  BY <1>1 DEF WalkInv, Typed
<1>3. Typed'
  BY <1>1, FirstStands DEF WalkInv, Typed
<1>4. \A n : /\ Place(list, there, n) \in Nat /\ Place(list, there', n) \in Nat
             /\ Place(list, there', n) <= Place(list, there, n)
  BY <1>1, <1>2, Measured, AheadMonotone DEF Place
<1>5. \A n : ~Prior(list, m, n) => Place(list, there', n) = Place(list, there, n)
  BY <1>1, AheadUnmoved DEF Place
<1>6. \A n \in Row : Shifted(list, firstLeft, n) => Shifted(list, firstLeft', n)
  BY <1>1, <1>2, FirstStands
<1>7. Unshown'
  <2> SUFFICES ASSUME Walking
               PROVE  /\ stayed \ {m} \subseteq there'
                      /\ \A n \in (stayed \ {m}) \ shown :
                           Shifted(list, firstLeft', n) \/ Place(list, there', n) >= skip
    BY <1>1 DEF Unshown, Walking
  <2>1. stayed \ {m} \subseteq there'
    BY <1>1 DEF WalkInv, Unshown
  <2>2. ASSUME NEW n \in (stayed \ {m}) \ shown
        PROVE  Shifted(list, firstLeft', n) \/ Place(list, there', n) >= skip
    <3>1. Shifted(list, firstLeft, n) \/ Place(list, there, n) >= skip
      BY DEF WalkInv, Unshown
    <3>2. Prior(list, m, n) => Shifted(list, firstLeft', n)
      BY <1>1, <1>2, FirstStands
    <3> QED BY <1>2, <1>5, <1>6, <3>1, <3>2
  <2> QED BY <2>1, <2>2
<1>8. Behind'
  BY <1>1, <1>2, <1>4 DEF WalkInv, Behind, Walking
<1>9. TotalEnough'
  <2>1. /\ Cardinality(there') <= Cardinality(there)
        /\ Cardinality(there') \in Nat /\ Cardinality(there) \in Nat
    <3>1. IsFiniteSet(there)
      BY <1>2, Measured
    <3>2. IsFiniteSet(there') /\ Cardinality(there') <= Cardinality(there)
      BY <1>2, <3>1, FS_Subset
    <3> QED BY <3>1, <3>2, FS_CardinalityType
  <2> QED BY <1>1, <1>2, <2>1 DEF WalkInv, TotalEnough
<1>10. Missed' /\ Twice'
  BY <1>1, <1>2 DEF WalkInv, Missed, Twice, Walking
<1> QED BY <1>3, <1>7, <1>8, <1>9, <1>10 DEF WalkInv

-------------------------------------------------------------------------------
(* The client *)

LEMMA StartWalkKeeps ==
  ASSUME WalkInv, StartWalk
  PROVE  WalkInv'
<1>1. /\ pc' = "count" /\ skip' = 0 /\ shown' = {} /\ twice' = {}
      /\ stayed' = there /\ firstCame' = NoRow /\ firstLeft' = NoRow /\ raced' = FALSE
      /\ UNCHANGED <<list, begun, there, gone, total>>
  BY DEF StartWalk, rows
<1>2. begun \in 0..MaxRows /\ there \in SUBSET (1..begun)
  BY DEF WalkInv, Typed
<1>3. there \subseteq Row /\ \A n : Place(list, there, n) \in Nat
  BY <1>2, Measured
<1>4. Typed'
  BY <1>1, <1>3 DEF WalkInv, Typed
<1> QED BY <1>1, <1>3, <1>4 DEF WalkInv, Unshown, Behind, TotalEnough, Missed, Twice

LEMMA CountKeeps ==
  ASSUME WalkInv, Count
  PROVE  WalkInv'
<1>1. /\ pc = "count" /\ pc' = "read" /\ total' = Cardinality(there) /\ raced' = FALSE
      /\ UNCHANGED <<list, begun, there, gone, skip, shown, twice, stayed, firstCame,
                     firstLeft>>
  BY DEF Count, rows
<1>2. begun \in 0..MaxRows /\ there \in SUBSET (1..begun)
  BY DEF WalkInv, Typed
<1>3. Cardinality(there) \in 0..MaxRows
  BY <1>2, Measured
<1>4. Typed'
  BY <1>1, <1>3 DEF WalkInv, Typed
<1> QED BY <1>1, <1>3, <1>4 DEF WalkInv, Unshown, Behind, TotalEnough, Missed, Twice, Walking

(* The page shows what is between its offset and the next.  When has_next is
   FALSE and no row came since the count, nothing is left behind it: a row at or
   past the next offset would make the list longer than the total. *)
LEMMA ReadKeeps ==
  ASSUME WalkInv, Read
  PROVE  WalkInv'
<1> DEFINE items == SliceOf(list, there, skip, skip + Limit - 1)
           next  == HasNext(skip, items, total)
<1>1. /\ pc = "read"
      /\ shown' = shown \cup items /\ twice' = twice \cup (shown \cap items)
      /\ pc' = (IF next THEN "count" ELSE "over")
      /\ skip' = (IF next THEN skip + Limit ELSE skip)
      /\ UNCHANGED <<list, begun, there, gone, total, stayed, firstCame, firstLeft, raced>>
  BY InTheseTerms DEF Read, rows, past
<1>2. /\ begun \in 0..MaxRows /\ there \in SUBSET (1..begun) /\ skip \in Nat
      /\ total \in 0..MaxRows /\ stayed \subseteq Row
  BY DEF WalkInv, Typed
<1>3. /\ there \in SUBSET Row /\ Cardinality(there) \in 0..MaxRows
      /\ \A n : Place(list, there, n) \in Nat
      /\ Cardinality(items) \in 0..Limit
  BY <1>2, Measured
<1>4. \A n \in items : n \in Row /\ Place(list, there, n) \in skip..(skip + Limit - 1)
  BY <1>3 DEF SliceOf, Place
<1>5. \A n \in there \ items : ~(Place(list, there, n) \in skip..(skip + Limit - 1))
  BY DEF SliceOf, Place
<1>6. Typed'
  <2>1. skip' \in Nat
    BY <1>1, <1>2
  <2> QED BY <1>1, <1>4, <2>1 DEF WalkInv, Typed
<1>7. /\ stayed \subseteq there
      /\ \A n \in stayed \ shown : Shifted(list, firstLeft, n) \/ Place(list, there, n) >= skip
      /\ \A n \in shown : Shifted(list, firstCame, n) \/ Place(list, there, n) < skip
  BY <1>1 DEF WalkInv, Unshown, Behind, Walking
<1>8. \A n \in stayed \ (shown \cup items) :
        Shifted(list, firstLeft, n) \/ Place(list, there, n) >= skip + Limit
  BY <1>2, <1>3, <1>5, <1>7
<1>9. Unshown'
  BY <1>1, <1>7, <1>8 DEF Unshown, Walking
<1>10. Behind'
  <2> SUFFICES ASSUME next, NEW n \in shown \cup items
               PROVE  Shifted(list, firstCame, n) \/ Place(list, there, n) < skip + Limit
    BY <1>1 DEF Behind, Walking
  <2> QED BY <1>2, <1>3, <1>4, <1>7
<1>11. TotalEnough'
  BY <1>1 DEF TotalEnough
<1>12. Missed'
  <2> SUFFICES ASSUME ~next, NEW n \in stayed \ (shown \cup items), ~raced,
                      ~Shifted(list, firstLeft, n)
               PROVE  FALSE
    BY <1>1 DEF Missed
  <2>1. Cardinality(there) <= total
    BY <1>1 DEF WalkInv, TotalEnough
  <2>2. Place(list, there, n) >= skip + Limit
    BY <1>8
  <2>3. Place(list, there, n) < Cardinality(there)
    BY <1>3, <1>7, AheadFewer DEF Place
  <2>4. skip + Cardinality(items) >= total
    BY <1>2, <1>3 DEF HasNext
  <2> QED BY <1>2, <1>3, <2>1, <2>2, <2>3, <2>4
<1>13. Twice'
  <2>1. \A n \in shown \cap items : Shifted(list, firstCame, n)
    BY <1>2, <1>3, <1>4, <1>7
  <2> QED BY <1>1, <2>1 DEF WalkInv, Twice
<1> QED BY <1>6, <1>9, <1>10, <1>11, <1>12, <1>13 DEF WalkInv

-------------------------------------------------------------------------------
(* The invariant *)

LEMMA PageStepInv == WalkInv /\ [PageNext]_pvars => WalkInv'
<1> SUFFICES ASSUME WalkInv, [PageNext]_pvars PROVE WalkInv'
  OBVIOUS
<1>1. ASSUME NEW n \in Row, Delete(n) \/ Unmatch(n) PROVE WalkInv'
  BY <1>1, LeaveKeeps DEF Delete, Unmatch
<1>2. CASE UNCHANGED pvars
  BY <1>2 DEF pvars, rows, walk, past, WalkInv, Unshown, Behind, TotalEnough, Typed,
                           Missed, Twice, Walking
<1> QED BY <1>1, <1>2, BeginInsertKeeps, ComeKeeps, StartWalkKeeps, CountKeeps, ReadKeeps
        DEF PageNext

THEOREM WalkInvariant == PageSpec => []WalkInv
BY PageInitInv, PageStepInv, PTL DEF PageSpec

\* The list and the walk are well typed, and no page is longer than its limit.
THEOREM ListsTyped == PageSpec => []PageTypeOK
<1>1. WalkInv => PageTypeOK
  <2> SUFFICES ASSUME Typed PROVE PageTypeOK
    BY DEF WalkInv
  <2>1. Cardinality(Slice(skip)) \in 0..Limit
    BY Measured, InTheseTerms DEF Typed
  <2> QED BY <2>1, SizeAssumption DEF Typed, PageTypeOK
<1> QED BY <1>1, WalkInvariant, PTL

\* Whatever comes and goes, a walk misses a row that stayed for two reasons only.
THEOREM MissedForCause == PageSpec => []MissedOnlyBy
<1>1. WalkInv => MissedOnlyBy
  BY InTheseTerms DEF WalkInv
<1> QED BY <1>1, WalkInvariant, PTL

\* And it repeats a row for one reason only.
THEOREM TwiceForCause == PageSpec => []TwiceOnlyBy
<1>1. WalkInv => TwiceOnlyBy
  BY InTheseTerms DEF WalkInv
<1> QED BY <1>1, WalkInvariant, PTL
=============================================================================
