-------------------------- MODULE EquipmentListProofs --------------------------
(***************************************************************************)
(* Proofs about EquipmentList: serial numbers stay unique, pages lead      *)
(* through the whole list, and a stale page in the cache has one of the    *)
(* named causes, for any number of assets, serial numbers, cache keys and  *)
(* workers.                                                                *)
(***************************************************************************)
EXTENDS EquipmentList, SequenceTheorems, FiniteSetTheorems, TLAPS

\* What the rows and the requests of writes look like between two steps.
ListTyped ==
  /\ equipment \in Seq(Asset)
  /\ DOMAIN cache = Key /\ excused \in [Key -> BOOLEAN] /\ DOMAIN req = Worker
  /\ \A w \in Worker : req[w].pc = "commit" =>
       /\ req[w].n \in 1..Len(equipment)
       /\ \A row \in Asset : Overlay(row, req[w].cols) \in Asset

-------------------------------------------------------------------------------
(* Rows *)

\* The columns one asset differs in from another, laid over a third, make an asset.
LEMMA OverlayType ==
  ASSUME NEW row \in Asset, NEW old \in Asset, NEW new \in Asset
  PROVE  Overlay(row, Changed(old, new)) \in Asset
BY DEF Overlay, Changed, Asset

\* The table after the row at n became new.
LEMMA RowReplaced ==
  ASSUME equipment \in Seq(Asset), NEW n \in 1..Len(equipment), NEW new \in Asset,
         equipment' = [equipment EXCEPT ![n] = new]
  PROVE  /\ equipment' \in Seq(Asset) /\ Len(equipment') = Len(equipment)
         /\ equipment'[n] = new
         /\ \A m \in 1..Len(equipment) : m # n => equipment'[m] = equipment[m]
BY ExceptSeq

\* A row whose serial number is free may take its place.
LEMMA ReplaceUnique ==
  ASSUME equipment \in Seq(Asset), SerialUnique,
         NEW n \in 1..Len(equipment), NEW new \in Asset, SerialFree(new.serial, n),
         equipment' = [equipment EXCEPT ![n] = new]
  PROVE  SerialUnique'
BY RowReplaced DEF SerialUnique, SerialFree

\* A row that keeps its serial number disturbs nothing.
LEMMA KeepUnique ==
  ASSUME equipment \in Seq(Asset), SerialUnique, NEW n \in 1..Len(equipment),
         NEW new \in Asset, new.serial = equipment[n].serial,
         equipment' = [equipment EXCEPT ![n] = new]
  PROVE  SerialUnique'
BY RowReplaced DEF SerialUnique

-------------------------------------------------------------------------------
(* Serial numbers *)

SerialInv == ListTyped /\ SerialUnique

LEMMA SerialInit == ListInit => SerialInv
BY DEF ListInit, SerialInv, ListTyped, SerialUnique

\* A step that leaves the rows alone, and begins no commit, keeps the invariant.
LEMMA SerialFrame ==
  ASSUME SerialInv, equipment' = equipment, DOMAIN cache' = Key,
         excused' \in [Key -> BOOLEAN], NEW w \in Worker, NEW r, Goto(w, r),
         r.pc # "commit"
  PROVE  SerialInv'
BY DEF SerialInv, ListTyped, SerialUnique, Goto

\* The rows are what they were, and whoever was about to commit still is, or is not.
LEMMA SerialStutter ==
  ASSUME SerialInv, equipment' = equipment, DOMAIN cache' = Key,
         excused' \in [Key -> BOOLEAN], UNCHANGED req
  PROVE  SerialInv'
BY DEF SerialInv, ListTyped, SerialUnique

\* A request that will change the row at n begins.
LEMMA SerialBegins ==
  ASSUME SerialInv, UNCHANGED <<equipment, cache, excused>>, NEW w \in Worker,
         NEW n, Reachable(n), NEW new \in Asset,
         Goto(w, [pc |-> "commit", n |-> n, cols |-> Changed(equipment[n], new)])
  PROVE  SerialInv'
<1>1. n \in 1..Len(equipment) /\ equipment[n] \in Asset
  BY ElementOfSeq DEF SerialInv, ListTyped, Reachable
<1>2. \A row \in Asset : Overlay(row, Changed(equipment[n], new)) \in Asset
  BY <1>1, OverlayType
<1>3. /\ DOMAIN req' = Worker
      /\ \A v \in Worker :
           req'[v] = IF v = w THEN [pc |-> "commit", n |-> n,
                                    cols |-> Changed(equipment[n], new)]
                             ELSE req[v]
  BY DEF SerialInv, ListTyped, Goto
<1>4. ListTyped'
  BY <1>1, <1>2, <1>3 DEF SerialInv, ListTyped
<1> QED BY <1>4 DEF SerialInv, SerialUnique

LEMMA SerialUpdate ==
  ASSUME SerialInv, NEW w \in Worker, NEW n, NEW s \in Statuses,
         NEW serial \in Serial \cup {NoSerial}, BeginUpdate(w, n, s, serial)
  PROVE  SerialInv'
<1>1. equipment[n] \in Asset
  BY ElementOfSeq DEF SerialInv, ListTyped, BeginUpdate, Reachable
<1>2. [equipment[n] EXCEPT !.status = s, !.serial = serial] \in Asset
  BY <1>1 DEF Asset
<1> QED BY <1>2, SerialBegins DEF BeginUpdate

LEMMA SerialDelete ==
  ASSUME SerialInv, NEW w \in Worker, NEW n, BeginDelete(w, n)
  PROVE  SerialInv'
<1>1. equipment[n] \in Asset
  BY ElementOfSeq DEF SerialInv, ListTyped, BeginDelete, Reachable
<1>2. [equipment[n] EXCEPT !.deleted = TRUE] \in Asset
  BY <1>1 DEF Asset
<1> QED BY <1>2, SerialBegins DEF BeginDelete

\* The unique index holds for a new row.
LEMMA SerialCreate ==
  ASSUME SerialInv, NEW w \in Worker, NEW s \in Statuses,
         NEW serial \in Serial \cup {NoSerial}, CreateEquipment(w, s, serial)
  PROVE  SerialInv'
<1> DEFINE row == [status |-> s, serial |-> serial, deleted |-> FALSE]
<1>1. row \in Asset
  BY DEF Asset
<1>2. /\ equipment \in Seq(Asset) /\ SerialUnique /\ equipment' = Append(equipment, row)
      /\ \A m \in 1..Len(equipment) : equipment[m].serial = serial => serial = NoSerial
      /\ UNCHANGED <<cache, excused>> /\ Goto(w, [pc |-> "scan"])
  BY DEF SerialInv, ListTyped, CreateEquipment, SerialFree
<1>3. /\ equipment' \in Seq(Asset) /\ Len(equipment') = Len(equipment) + 1
      /\ \A m \in 1..Len(equipment) : equipment'[m] = equipment[m]
      /\ equipment'[Len(equipment) + 1] = row
      /\ Len(equipment) \in Nat
  BY <1>1, <1>2, AppendProperties
<1>4. SerialUnique'
  <2> SUFFICES ASSUME NEW m \in 1..Len(equipment'), NEW n \in 1..Len(equipment'),
                      equipment'[m].serial = equipment'[n].serial,
                      equipment'[m].serial # NoSerial
               PROVE  m = n
    BY DEF SerialUnique
  <2> QED BY <1>2, <1>3 DEF SerialUnique
<1>5. ListTyped'
  BY <1>2, <1>3 DEF SerialInv, ListTyped, Goto
<1> QED BY <1>4, <1>5 DEF SerialInv

\* The table after a row was replaced by another of its kind.
LEMMA TypedReplaced ==
  ASSUME ListTyped, NEW n \in 1..Len(equipment), NEW new \in Asset,
         equipment' = [equipment EXCEPT ![n] = new],
         DOMAIN cache' = Key, excused' \in [Key -> BOOLEAN], DOMAIN req' = Worker,
         \A v \in Worker : req'[v] = req[v] \/ req'[v].pc # "commit"
  PROVE  ListTyped'
<1>1. equipment' \in Seq(Asset) /\ Len(equipment') = Len(equipment)
  BY RowReplaced DEF ListTyped
<1> QED BY <1>1 DEF ListTyped

LEMMA SerialCommit ==
  ASSUME SerialInv, NEW w \in Worker, CommitWrite(w)
  PROVE  SerialInv'
<1> DEFINE n   == req[w].n
           new == Overlay(equipment[n], req[w].cols)
<1>1. /\ ListTyped /\ SerialUnique /\ equipment \in Seq(Asset)
      /\ n \in 1..Len(equipment) /\ new \in Asset
      /\ UNCHANGED <<cache, excused>>
  BY ElementOfSeq DEF SerialInv, ListTyped, CommitWrite
<1>2. CASE /\ SerialFree(new.serial, n)
           /\ equipment' = [equipment EXCEPT ![n] = new]
           /\ Goto(w, [pc |-> "scan"])
  <2>1. SerialUnique'
    BY <1>1, <1>2, ReplaceUnique
  <2>2. DOMAIN req' = Worker /\ \A v \in Worker : req'[v] = req[v] \/ req'[v].pc # "commit"
    BY <1>1, <1>2 DEF ListTyped, Goto
  <2>3. ListTyped'
    BY <1>1, <1>2, <2>2, TypedReplaced DEF ListTyped
  <2> QED BY <2>1, <2>3 DEF SerialInv
<1>3. CASE UNCHANGED equipment /\ Finish(w)
  BY <1>1, <1>3, SerialFrame DEF Finish, ListTyped
<1> QED BY <1>2, <1>3 DEF CommitWrite

LEMMA SerialFlip ==
  ASSUME SerialInv, NEW n, MaintenanceFlip(n)
  PROVE  SerialInv'
<1>1. PICK s \in Statuses : equipment' = [equipment EXCEPT ![n].status = s]
  BY DEF MaintenanceFlip
<1> DEFINE new == [equipment[n] EXCEPT !.status = s]
<1>2. /\ equipment \in Seq(Asset) /\ n \in 1..Len(equipment) /\ equipment[n] \in Asset
      /\ UNCHANGED <<cache, req>> /\ excused' \in [Key -> BOOLEAN]
  BY ElementOfSeq DEF SerialInv, ListTyped, MaintenanceFlip, Reachable, Stale
<1>3. new \in Asset /\ new.serial = equipment[n].serial
  BY <1>2 DEF Asset
<1>4. equipment' = [equipment EXCEPT ![n] = new]
  BY <1>1, <1>2
<1>5. SerialUnique' /\ ListTyped'
  BY <1>2, <1>3, <1>4, KeepUnique, TypedReplaced DEF SerialInv, ListTyped
<1> QED BY <1>5 DEF SerialInv

LEMMA SerialStep == SerialInv /\ [ListNext]_lvars => SerialInv'
<1> SUFFICES ASSUME SerialInv, [ListNext]_lvars PROVE SerialInv'
  OBVIOUS
<1>0. DOMAIN cache = Key /\ excused \in [Key -> BOOLEAN]
  BY DEF SerialInv, ListTyped
<1>1. ASSUME NEW w \in Worker, Arrive(w) PROVE SerialInv'
  <2>1. ASSUME NEW k \in Key, BeginList(w, k) PROVE SerialInv'
    BY <1>0, <2>1, SerialFrame DEF BeginList
  <2> QED BY <1>1, <2>1, SerialCreate, SerialUpdate, SerialDelete DEF Arrive
<1>2. ASSUME NEW w \in Worker, Proceed(w) PROVE SerialInv'
  <2>1. CASE CountRows(w)
    BY <1>0, <2>1, SerialFrame DEF CountRows
  <2>2. CASE ReadRows(w)
    BY <1>0, <2>2, SerialFrame DEF ReadRows
  <2>3. CASE StorePage(w)
    BY <1>0, <2>3, SerialFrame DEF StorePage, Finish, Overtaken
  <2>4. CASE CommitWrite(w)
    BY <2>4, SerialCommit
  <2>5. CASE ScanKeys(w)
    BY <1>0, <2>5, SerialFrame DEF ScanKeys, Finish
  <2>6. CASE PurgeKey(w)
    BY <1>0, <2>6, SerialFrame DEF PurgeKey, Finish
  <2> QED BY <1>2, <2>1, <2>2, <2>3, <2>4, <2>5, <2>6 DEF Proceed
<1>3. ASSUME NEW w \in Worker, Fail(w) PROVE SerialInv'
  BY <1>0, <1>3, SerialFrame DEF Fail, Finish, Stale
<1>4. ASSUME NEW k \in Key, Expire(k) PROVE SerialInv'
  BY <1>0, <1>4, SerialStutter DEF Expire
<1>5. CASE UNCHANGED lvars
  BY <1>0, <1>5, SerialStutter DEF lvars
<1> QED BY <1>1, <1>2, <1>3, <1>4, <1>5, SerialFlip DEF ListNext

LEMMA SerialInvariant == ListSpec => []SerialInv
BY SerialInit, SerialStep, PTL DEF ListSpec

\* However creations, edits and deletes race, no two assets have one serial number.
THEOREM SerialsUnique == ListSpec => []SerialUnique
<1>1. SerialInv => SerialUnique
  BY DEF SerialInv
<1> QED BY <1>1, SerialInvariant, PTL

-------------------------------------------------------------------------------
(* Places in the list *)

\* What the list is made of.
Rows == equipment \in Seq(Asset) /\ Len(equipment) <= MaxAssets

\* The matching rows are finitely many rows of the table.
LEMMA MatchingRows ==
  ASSUME Rows, NEW f
  PROVE  /\ Matching(f) \subseteq 1..Len(equipment) /\ Matching(f) \subseteq 1..MaxAssets
         /\ IsFiniteSet(Matching(f))
         /\ Total(f) \in 0..MaxAssets
<1>1. Len(equipment) \in Nat /\ MaxAssets \in Nat
  BY BoundsAssumption DEF Rows
<1>2. Matching(f) \in SUBSET (1..Len(equipment)) /\ Matching(f) \in SUBSET (1..MaxAssets)
  BY <1>1 DEF Matching, Rows
<1>3. IsFiniteSet(1..MaxAssets) /\ Cardinality(1..MaxAssets) = MaxAssets
  BY <1>1, FS_Interval
<1>4. IsFiniteSet(Matching(f)) /\ Cardinality(Matching(f)) <= MaxAssets
  BY <1>2, <1>3, FS_Subset
<1>5. Cardinality(Matching(f)) \in Nat
  BY <1>4, FS_CardinalityType
<1> QED BY <1>1, <1>2, <1>4, <1>5 DEF Total

\* A place is a number below the total, and the order of the rows is that of their places.
LEMMA PlaceBelow ==
  ASSUME Rows, NEW f, NEW n \in Matching(f)
  PROVE  Place(n, f) \in 0..(Total(f) - 1)
<1> DEFINE ahead == {m \in Matching(f) : m < n}
<1>1. /\ IsFiniteSet(Matching(f)) /\ Matching(f) \subseteq Nat
      /\ Total(f) = Cardinality(Matching(f)) /\ Total(f) \in Nat
  BY MatchingRows, BoundsAssumption DEF Total
<1>2. ahead \in SUBSET Matching(f) /\ n \notin ahead
  BY <1>1
<1>3. /\ IsFiniteSet(ahead) /\ Cardinality(ahead) <= Cardinality(Matching(f))
      /\ (Cardinality(Matching(f)) = Cardinality(ahead) => Matching(f) = ahead)
  BY <1>1, <1>2, FS_Subset
<1>4. Cardinality(ahead) \in Nat
  BY <1>3, FS_CardinalityType
<1>5. Place(n, f) = Cardinality(ahead)
  BY DEF Place
<1> QED BY <1>1, <1>2, <1>3, <1>4, <1>5

LEMMA PlaceGrows ==
  ASSUME Rows, NEW f, NEW m \in Matching(f), NEW n \in Matching(f), m < n
  PROVE  Place(m, f) < Place(n, f)
<1> DEFINE ahead(x) == {y \in Matching(f) : y < x}
<1>1. IsFiniteSet(Matching(f)) /\ Matching(f) \subseteq Nat
  BY MatchingRows, BoundsAssumption
<1>2. ahead(m) \cup {m} \in SUBSET ahead(n) /\ m \notin ahead(m)
  BY <1>1
<1>3. ahead(m) \in SUBSET Matching(f) /\ ahead(n) \in SUBSET Matching(f)
  OBVIOUS
<1>4. IsFiniteSet(ahead(m)) /\ IsFiniteSet(ahead(n))
  BY <1>1, <1>3, FS_Subset
<1>5. Cardinality(ahead(m) \cup {m}) = Cardinality(ahead(m)) + 1
  BY <1>2, <1>4, FS_AddElement
<1>6. Cardinality(ahead(m) \cup {m}) <= Cardinality(ahead(n))
  BY <1>2, <1>4, FS_Subset
<1>7. Cardinality(ahead(m)) \in Nat /\ Cardinality(ahead(n)) \in Nat
  BY <1>4, FS_CardinalityType
<1>8. Place(m, f) = Cardinality(ahead(m)) /\ Place(n, f) = Cardinality(ahead(n))
  BY DEF Place
<1> HIDE DEF ahead
<1> QED BY <1>5, <1>6, <1>7, <1>8

LEMMA PlacesDiffer ==
  ASSUME Rows, NEW f, NEW m \in Matching(f), NEW n \in Matching(f),
         Place(m, f) = Place(n, f)
  PROVE  m = n
<1>1. m \in Int /\ n \in Int /\ Place(m, f) \in Int /\ Place(n, f) \in Int
  BY MatchingRows, PlaceBelow, BoundsAssumption
<1> QED BY <1>1, PlaceGrows

\* Every place below the total is taken.
LEMMA PlaceTaken ==
  ASSUME Rows, NEW f, NEW j \in 0..(Total(f) - 1)
  PROVE  \E n \in Matching(f) : Place(n, f) = j
<1> DEFINE places == [n \in Matching(f) |-> Place(n, f)]
           below  == 0..(Total(f) - 1)
<1>1. Total(f) \in Nat /\ Total(f) = Cardinality(Matching(f))
  BY MatchingRows, BoundsAssumption DEF Total
<1>2. places \in Injection(Matching(f), below)
  <2>1. places \in [Matching(f) -> below]
    BY PlaceBelow
  <2>2. \A m, n \in Matching(f) : places[m] = places[n] => m = n
    BY PlacesDiffer
  <2> QED BY <2>1, <2>2 DEF Injection, IsInjective
<1>3. IsFiniteSet(below) /\ Cardinality(below) = Total(f)
  BY <1>1, FS_Interval
<1>4. places \in Surjection(Matching(f), below)
  <2> HIDE DEF places, below
  <2> QED BY <1>1, <1>2, <1>3, FS_Injection
<1> QED BY <1>4 DEF Surjection

-------------------------------------------------------------------------------
(* Pages *)

\* The ids in a page.
LEMMA SliceIds ==
  ASSUME NEW f, NEW skip, NEW limit
  PROVE  \A n : n \in DOMAIN Slice(f, skip, limit)
                 <=> n \in Matching(f) /\ Place(n, f) \in skip..(skip + limit - 1)
BY DEF Slice

\* A page is full, or reaches the end of the list, or begins behind it.
LEMMA SliceCount ==
  ASSUME Rows, NEW f, NEW skip \in Nat, NEW limit \in Nat \ {0}
  PROVE  /\ IsFiniteSet(DOMAIN Slice(f, skip, limit))
         /\ Shown(Slice(f, skip, limit)) =
              IF Total(f) <= skip THEN 0
              ELSE IF Total(f) - skip < limit THEN Total(f) - skip ELSE limit
<1> DEFINE ids    == DOMAIN Slice(f, skip, limit)
           last   == IF Total(f) <= skip + limit THEN Total(f) - 1 ELSE skip + limit - 1
           places == [n \in ids |-> Place(n, f)]
<1>1. Total(f) \in Nat
  BY MatchingRows, BoundsAssumption
<1>2. /\ \A n : n \in ids <=> /\ n \in Matching(f)
                             /\ Place(n, f) \in skip..(skip + limit - 1)
      /\ last \in Int
  BY <1>1, SliceIds
<1>3. \A n \in ids : n \in Matching(f) /\ Place(n, f) \in skip..last
  <2> SUFFICES ASSUME NEW n \in ids PROVE n \in Matching(f) /\ Place(n, f) \in skip..last
    OBVIOUS
  <2>1. n \in Matching(f) /\ Place(n, f) \in skip..(skip + limit - 1)
    BY <1>2
  <2>2. Place(n, f) \in 0..(Total(f) - 1)
    BY <2>1, PlaceBelow
  <2> QED BY <1>1, <2>1, <2>2
<1>4. places \in Injection(ids, skip..last)
  <2>1. places \in [ids -> skip..last]
    BY <1>3
  <2>2. \A m, n \in ids : places[m] = places[n] => m = n
    BY <1>3, PlacesDiffer
  <2> QED BY <2>1, <2>2 DEF Injection, IsInjective
<1>5. places \in Surjection(ids, skip..last)
  <2>1. ASSUME NEW j \in skip..last PROVE \E n \in ids : places[n] = j
    <3>1. j \in 0..(Total(f) - 1) /\ j \in skip..(skip + limit - 1)
      BY <1>1
    <3>2. PICK n \in Matching(f) : Place(n, f) = j
      BY <3>1, PlaceTaken
    <3>3. n \in ids
      BY <1>2, <3>1, <3>2
    <3> QED BY <3>2, <3>3
  <2>2. places \in [ids -> skip..last]
    BY <1>3
  <2> QED BY <2>1, <2>2 DEF Surjection
<1>6. /\ IsFiniteSet(skip..last)
      /\ Cardinality(skip..last) = IF skip > last THEN 0 ELSE last - skip + 1
  <2> HIDE DEF ids, places, last
  <2> QED BY <1>2, FS_Interval
<1>7. IsFiniteSet(ids) /\ Cardinality(ids) = Cardinality(skip..last)
  <2> HIDE DEF ids, places, last
  <2> QED BY <1>4, <1>5, <1>6, FS_Injection
<1> QED BY <1>1, <1>6, <1>7 DEF Shown

\* Whatever the total says, a page has rows of the table and no more than its limit.
LEMMA PageFits ==
  ASSUME Rows, NEW k \in Key, NEW total \in 0..MaxAssets
  PROVE  PageOK(Page(k.skip, total, Slice(k.status, k.skip, k.limit)), k)
<1> DEFINE items == Slice(k.status, k.skip, k.limit)
<1>1. k.skip \in Nat /\ k.limit \in Nat \ {0}
  BY KeyAssumption
<1>2. Total(k.status) \in Nat
  BY MatchingRows, BoundsAssumption
<1>3. Shown(items) \in 0..k.limit
  BY <1>1, <1>2, SliceCount
<1>4. ASSUME NEW n \in DOMAIN items PROVE n \in 1..MaxAssets /\ items[n] \in Asset
  <2>1. n \in Matching(k.status) /\ items[n] = equipment[n]
    BY DEF Slice
  <2>2. n \in 1..Len(equipment) /\ n \in 1..MaxAssets
    BY <2>1, MatchingRows
  <2> QED BY <2>1, <2>2, ElementOfSeq DEF Rows
<1>5. PICK page : page = Page(k.skip, total, items)
  OBVIOUS
<1>6. page.total = total /\ page.items = items /\ page.hasNext \in BOOLEAN
  <2> HIDE DEF items
  <2> QED BY <1>5 DEF Page
<1>7. PageOK(page, k)
  <2> HIDE DEF items
  <2> QED BY <1>3, <1>4, <1>6 DEF PageOK
<1> QED BY <1>5, <1>7

\* From a page that begins in the list, hasNext says whether the next one would.
LEMMA NextPage ==
  ASSUME Rows, NEW f, NEW skip \in Nat, NEW limit \in Nat \ {0}
  PROVE  Page(skip, Total(f), Slice(f, skip, limit)).hasNext <=> skip + limit < Total(f)
<1>1. Total(f) \in Nat
  BY MatchingRows, BoundsAssumption
<1> DEFINE items == Slice(f, skip, limit)
<1>2. Shown(items) = IF Total(f) <= skip THEN 0
                     ELSE IF Total(f) - skip < limit THEN Total(f) - skip ELSE limit
  BY SliceCount
<1>3. Page(skip, Total(f), items).hasNext <=> skip + Shown(items) < Total(f)
  BY DEF Page
<1> HIDE DEF items
<1>4. skip + Shown(items) < Total(f) <=> skip + limit < Total(f)
  BY <1>1, <1>2
<1> QED BY <1>3, <1>4 DEF items

-------------------------------------------------------------------------------
(* The walk *)

LEMMA Multiples ==
  ASSUME NEW l \in Nat \ {0}, NEW p \in Nat, NEW q \in Nat, p < q
  PROVE  /\ (p + 1) * l \in Nat /\ q * l \in Nat /\ p * l \in Nat
         /\ (p + 1) * l = p * l + l
         /\ (p + 1) * l <= q * l
<1> DEFINE d == q - p - 1
<1>1. d \in Nat /\ q = (p + 1) + d
  OBVIOUS
<1>2. d * l \in Nat /\ p * l \in Nat /\ (p+1) * l = p * l + l
  BY <1>1
<1>3. q * l = (p + 1) * l + d * l
  <2> HIDE DEF d
  <2> QED BY <1>1
<1> QED BY <1>2, <1>3

LEMMA Division ==
  ASSUME NEW l \in Nat \ {0}, NEW n \in Nat
  PROVE  \E q \in 0..n : q * l <= n /\ n < q * l + l
<1> DEFINE q == n \div l
<1>1. q \in Nat /\ n = q * l + (n % l) /\ (n % l) \in 0..(l-1)
  OBVIOUS
<1> HIDE DEF q
<1>2. q * l \in Nat /\ q * l <= n /\ n < q * l + l
  BY <1>1
<1>3. q <= q * l
  BY <1>1
<1>4. q \in 0..n
  BY <1>1, <1>2, <1>3
<1> QED BY <1>2, <1>4

\* Whoever follows hasNext through one table sees all of it.
LEMMA WalkInOneTable ==
  ASSUME Rows
  PROVE  WalkSeesAll
<1> SUFFICES ASSUME NEW f \in Statuses \cup {AnyStatus}, NEW limit \in 1..MaxAssets
    PROVE
      LET page == [q \in 0..MaxAssets |-> Page(q * limit, Total(f), Slice(f, q * limit, limit))]
          ids  == [q \in 0..MaxAssets |-> DOMAIN page[q].items]
          walk == {q \in 0..MaxAssets : \A p \in 0..MaxAssets : p < q => page[p].hasNext}
      IN  /\ \E q \in walk : ~page[q].hasNext
          /\ \A q \in walk \ {0} : ids[q] # {}
          /\ \A p, q \in walk : \A m \in ids[p], n \in ids[q] : p < q => m < n
          /\ \A n \in Matching(f) : \E q \in walk : n \in ids[q]
  BY DEF WalkSeesAll
<1> DEFINE page == [q \in 0..MaxAssets |-> Page(q * limit, Total(f), Slice(f, q * limit, limit))]
           ids  == [q \in 0..MaxAssets |-> DOMAIN page[q].items]
           walk == {q \in 0..MaxAssets : \A p \in 0..MaxAssets : p < q => page[p].hasNext}
           all  == Total(f)
<1>1. /\ MaxAssets \in Nat /\ limit \in Nat \ {0} /\ all \in 0..MaxAssets
      /\ Matching(f) \subseteq Nat
  BY MatchingRows, BoundsAssumption
<1>2. ASSUME NEW q \in 0..MaxAssets
      PROVE  /\ q * limit \in Nat
             /\ page[q].hasNext <=> q * limit + limit < all
             /\ \A n : n \in ids[q] <=> /\ n \in Matching(f)
                                       /\ Place(n, f) \in (q * limit)..(q * limit + limit - 1)
  <2>1. q * limit \in Nat
    BY <1>1
  <2>2. page[q] = Page(q * limit, Total(f), Slice(f, q * limit, limit))
    OBVIOUS
  <2>3. page[q].hasNext <=> q * limit + limit < all
    BY <1>1, <2>1, <2>2, NextPage
  <2>4. ids[q] = DOMAIN Slice(f, q * limit, limit)
    BY <2>2 DEF Page
  <2>5. \A n : n \in ids[q] <=> /\ n \in Matching(f)
                               /\ Place(n, f) \in (q * limit)..(q * limit + limit - 1)
    <3> HIDE DEF ids
    <3> QED BY <2>4, SliceIds
  <2> QED BY <2>1, <2>3, <2>5
<1>3. ASSUME NEW p \in 0..MaxAssets, NEW q \in 0..MaxAssets, p < q
      PROVE  p * limit + limit <= q * limit
  BY <1>1, <1>3, Multiples
<1>4. \A q \in 0..MaxAssets : q \in walk <=> \A p \in 0..MaxAssets : p < q => page[p].hasNext
  OBVIOUS
<1> HIDE DEF page, ids, walk, all
<1>0. \A j \in Nat : \E q \in 0..j : q * limit <= j /\ j < q * limit + limit
  BY <1>1, Division
\* A page is in the walk if it begins in the list.
<1>5. ASSUME NEW q \in 0..MaxAssets, q * limit < all PROVE q \in walk
  <2> SUFFICES ASSUME NEW p \in 0..MaxAssets, p < q PROVE p * limit + limit < all
    BY <1>2, <1>4
  <2>1. /\ p * limit + limit <= q * limit
        /\ p * limit \in Nat /\ q * limit \in Nat
    BY <1>2, <1>3
  <2> QED BY <1>1, <1>5, <2>1
\* And any but the first begins there.
<1>6. ASSUME NEW q \in walk \ {0} PROVE q \in 1..MaxAssets /\ q * limit < all
  <2>1. q \in 1..MaxAssets /\ q - 1 \in 0..MaxAssets /\ q - 1 < q
    BY <1>1, <1>6 DEF walk
  <2>2. (q - 1) * limit + limit < all
    BY <1>2, <1>4, <2>1
  <2>3. (q - 1) * limit + limit = q * limit
    BY <1>1, <2>1
  <2> QED BY <2>1, <2>2, <2>3
<1>7. \E q \in walk : ~page[q].hasNext
  <2>1. CASE all = 0
    <3>1. 0 \in walk
      BY <1>1, <1>4
    <3>2. ~page[0].hasNext
      BY <1>1, <1>2, <2>1
    <3> QED BY <3>1, <3>2
  <2>2. CASE all # 0
    <3>1. PICK q \in 0..(all - 1) : q * limit <= all - 1 /\ all - 1 < q * limit + limit
      <4>1. all - 1 \in Nat
        BY <1>1, <2>2
      <4> QED BY <1>0, <4>1, Zenon
    <3>2. q \in 0..MaxAssets /\ q * limit \in Nat
      BY <1>1, <1>2, <3>1
    <3>3. q \in walk
      BY <1>1, <1>5, <3>1, <3>2
    <3>4. ~page[q].hasNext
      BY <1>1, <1>2, <3>1, <3>2
    <3> QED BY <3>3, <3>4
  <2> QED BY <2>1, <2>2
<1>8. ASSUME NEW q \in walk \ {0} PROVE ids[q] # {}
  <2>1. q \in 0..MaxAssets /\ q * limit \in 0..(all - 1)
    BY <1>1, <1>2, <1>6
  <2>2. PICK n \in Matching(f) : Place(n, f) = q * limit
    BY <2>1, PlaceTaken DEF all
  <2>3. n \in ids[q]
    BY <1>1, <1>2, <2>1, <2>2
  <2> QED BY <2>3
<1>9. ASSUME NEW p \in walk, NEW q \in walk, NEW m \in ids[p], NEW n \in ids[q], p < q
      PROVE  m < n
  <2>1. p \in 0..MaxAssets /\ q \in 0..MaxAssets
    BY DEF walk
  <2>2. /\ m \in Matching(f) /\ n \in Matching(f)
        /\ Place(m, f) <= p * limit + limit - 1 /\ q * limit <= Place(n, f)
        /\ p * limit \in Nat /\ q * limit \in Nat
    BY <1>2, <2>1
  <2>3. Place(m, f) \in Nat /\ Place(n, f) \in Nat /\ m \in Nat /\ n \in Nat
    BY <1>1, <2>2, PlaceBelow DEF all
  <2>4. Place(m, f) < Place(n, f)
    BY <1>1, <1>3, <1>9, <2>1, <2>2, <2>3
  <2> QED BY <2>2, <2>3, <2>4, PlaceGrows
<1>10. ASSUME NEW n \in Matching(f) PROVE \E q \in walk : n \in ids[q]
  <2>1. Place(n, f) \in 0..(all - 1)
    BY PlaceBelow DEF all
  <2>2. PICK q \in 0..Place(n, f) :
          q * limit <= Place(n, f) /\ Place(n, f) < q * limit + limit
    <3>1. Place(n, f) \in Nat
      BY <1>1, <2>1
    <3> QED BY <1>0, <3>1, Zenon
  <2>3. q \in 0..MaxAssets /\ q * limit \in Nat
    BY <1>1, <1>2, <2>1, <2>2
  <2>4. q \in walk
    BY <1>1, <1>5, <2>1, <2>2, <2>3
  <2>5. n \in ids[q]
    BY <1>1, <1>2, <2>1, <2>2, <2>3
  <2> QED BY <2>4, <2>5
<1> QED BY <1>7, <1>8, <1>9, <1>10 DEF page, ids, walk

-------------------------------------------------------------------------------
(* The invariant *)

\* What a request has read is well typed,
RequestOK(w) ==
  /\ req[w].pc \in {"done", "count", "read", "store", "commit", "scan", "purge"}
  /\ req[w].pc \in {"count", "read", "store"} => req[w].key \in Key
  /\ req[w].pc \in {"read", "store"} => req[w].asOf \in 0..writes
  /\ req[w].pc = "read" => req[w].total \in 0..MaxAssets
  /\ req[w].pc = "store" => PageOK(req[w].page, req[w].key)

\* and it is what a query would return, unless a write came since.
UpToDate(w) ==
  ~Overtaken(w) => \A k \in Key : req[w].key = k =>
    /\ req[w].pc = "read" => req[w].total = Total(k.status)
    /\ req[w].pc = "store" => req[w].page = TruePage(k)

ListInv ==
  /\ SerialInv
  /\ Len(equipment) <= MaxAssets /\ writes \in 0..MaxWrites
  /\ \A k \in Cached : PageOK(cache[k], k)
  /\ \A w \in Worker : RequestOK(w) /\ UpToDate(w)

LEMMA ListStart == ListInit => ListInv
<1> SUFFICES ASSUME ListInit PROVE ListInv
  OBVIOUS
<1>1. SerialInv
  BY SerialInit
<1>2. Len(equipment) <= MaxAssets /\ writes \in 0..MaxWrites
  BY BoundsAssumption DEF ListInit
<1>3. Cached = {}
  BY DEF ListInit, Cached
<1>4. \A w \in Worker : req[w].pc = "done"
  BY DEF ListInit
<1>5. \A w \in Worker : RequestOK(w) /\ UpToDate(w)
  BY <1>4 DEF RequestOK, UpToDate
<1> QED BY <1>1, <1>2, <1>3, <1>5 DEF ListInv

\* The table is as the queries need it.
LEMMA InvRows == ListInv => Rows
BY DEF ListInv, SerialInv, ListTyped, Rows

\* The pages the rows give.
LEMMA SamePages ==
  ASSUME equipment' = equipment
  PROVE  \A k : TruePage(k)' = TruePage(k) /\ Total(k.status)' = Total(k.status)
BY DEF TruePage, Page, Total, Slice, Matching, Place, Shown

\* The table stays as it is, or a write is counted.
Counted == \/ UNCHANGED <<equipment, writes>>
           \/ Len(equipment') <= MaxAssets /\ writes < MaxWrites /\ writes' = writes + 1

\* A request that rests keeps what it has read.
LEMMA RequestRests ==
  ASSUME ListInv, Counted, NEW v \in Worker, req'[v] = req[v]
  PROVE  RequestOK(v)' /\ UpToDate(v)'
<1>1. /\ RequestOK(v) /\ UpToDate(v)
      /\ writes \in Nat /\ writes' \in Nat /\ writes <= writes'
  BY BoundsAssumption DEF ListInv, Counted
<1>2. RequestOK(v)'
  BY <1>1 DEF RequestOK
<1>3. UpToDate(v)'
  <2> SUFFICES ASSUME writes' = req[v].asOf, NEW k \in Key, req[v].key = k
               PROVE  /\ req[v].pc = "read" => req[v].total = Total(k.status)'
                      /\ req[v].pc = "store" => req[v].page = TruePage(k)'
    BY DEF UpToDate, Overtaken
  <2>1. CASE UNCHANGED <<equipment, writes>>
    BY <1>1, <2>1, SamePages DEF UpToDate, Overtaken
  <2>2. CASE writes' = writes + 1
    <3>1. req[v].pc \notin {"read", "store"}
      BY <1>1, <2>2 DEF RequestOK
    <3> QED BY <3>1
  <2> QED BY <2>1, <2>2 DEF Counted
<1> QED BY <1>2, <1>3

\* A step of w, when what w goes on with is right and so is the cache.
LEMMA ListFrame ==
  ASSUME ListInv, SerialInv', Counted, NEW w \in Worker, NEW r, Goto(w, r),
         RequestOK(w)', UpToDate(w)', \A k \in Cached' : PageOK(cache'[k], k)
  PROVE  ListInv'
<1>1. \A v \in Worker : v # w => req'[v] = req[v]
  BY DEF ListInv, SerialInv, ListTyped, Goto
<1>2. \A v \in Worker : RequestOK(v)' /\ UpToDate(v)'
  BY <1>1, RequestRests
<1>3. Len(equipment)' <= MaxAssets /\ writes' \in 0..MaxWrites
  BY BoundsAssumption DEF ListInv, Counted
<1> QED BY <1>2, <1>3 DEF ListInv

\* A step after which w holds nothing it read of the list.
LEMMA ListReadsNothing ==
  ASSUME ListInv, SerialInv', Counted, NEW w \in Worker, NEW r, Goto(w, r),
         r.pc \in {"done", "commit", "scan", "purge"},
         \A k \in Key : cache'[k] = cache[k] \/ cache'[k] = None
  PROVE  ListInv'
<1>1. req'[w] = r
  BY DEF ListInv, SerialInv, ListTyped, Goto
<1>2. RequestOK(w)' /\ UpToDate(w)'
  BY <1>1 DEF RequestOK, UpToDate
<1>3. \A k \in Cached' : PageOK(cache'[k], k)
  BY DEF ListInv, Cached
<1> QED BY <1>2, <1>3, ListFrame

\* A step of nobody.
LEMMA ListAround ==
  ASSUME ListInv, SerialInv', Counted, UNCHANGED req,
         \A k \in Key : cache'[k] = cache[k] \/ cache'[k] = None
  PROVE  ListInv'
<1>1. \A v \in Worker : RequestOK(v)' /\ UpToDate(v)'
  BY RequestRests
<1>2. Len(equipment)' <= MaxAssets /\ writes' \in 0..MaxWrites
  BY BoundsAssumption DEF ListInv, Counted
<1> QED BY <1>1, <1>2 DEF ListInv, Cached

LEMMA ListBegins ==
  ASSUME ListInv, SerialInv', NEW w \in Worker, NEW k \in Key, BeginList(w, k)
  PROVE  ListInv'
<1>1. Counted /\ Goto(w, [pc |-> "count", key |-> k]) /\ UNCHANGED cache
  BY DEF BeginList, Counted
<1>2. req'[w] = [pc |-> "count", key |-> k]
  BY <1>1 DEF ListInv, SerialInv, ListTyped, Goto
<1>3. RequestOK(w)' /\ UpToDate(w)'
  BY <1>2 DEF RequestOK, UpToDate
<1> QED BY <1>1, <1>3, ListFrame DEF ListInv, Cached

\* The COUNT is right when it is made,
LEMMA ListCounts ==
  ASSUME ListInv, SerialInv', NEW w \in Worker, CountRows(w)
  PROVE  ListInv'
<1>1. PICK k : k = req[w].key
  OBVIOUS
<1>2. PICK r : r = [pc |-> "read", key |-> k, asOf |-> writes, total |-> Total(k.status)]
  OBVIOUS
<1>3. Goto(w, r) /\ UNCHANGED <<equipment, cache, writes>>
  BY <1>1, <1>2 DEF CountRows
<1>4. k \in Key /\ Total(k.status) \in 0..MaxAssets /\ writes \in Nat
  BY <1>1, InvRows, MatchingRows, BoundsAssumption DEF ListInv, RequestOK, CountRows
<1>5. req'[w] = r
  BY <1>3 DEF ListInv, SerialInv, ListTyped, Goto
<1>6. /\ r.pc = "read" /\ r.key = k /\ r.asOf = writes /\ r.total = Total(k.status)
  BY <1>2
<1>7. RequestOK(w)'
  BY <1>3, <1>4, <1>5, <1>6 DEF RequestOK
<1>8. UpToDate(w)'
  BY <1>3, <1>5, <1>6, SamePages DEF UpToDate
<1> QED BY <1>3, <1>7, <1>8, ListFrame DEF Counted, ListInv, Cached

\* and the page with it if nothing came in between.
LEMMA ListReads ==
  ASSUME ListInv, SerialInv', NEW w \in Worker, ReadRows(w)
  PROVE  ListInv'
<1>1. PICK k, total, asOf : k = req[w].key /\ total = req[w].total /\ asOf = req[w].asOf
  OBVIOUS
<1>2. PICK page : page = Page(k.skip, total, Slice(k.status, k.skip, k.limit))
  OBVIOUS
<1>3. PICK r : r = [pc |-> "store", key |-> k, asOf |-> asOf, page |-> page]
  OBVIOUS
<1>4. Goto(w, r) /\ UNCHANGED <<equipment, cache, writes>>
  BY <1>1, <1>2, <1>3 DEF ReadRows
<1>5. /\ k \in Key /\ total \in 0..MaxAssets /\ asOf \in 0..writes
      /\ asOf = writes => total = Total(k.status)
  BY <1>1 DEF ListInv, RequestOK, UpToDate, Overtaken, ReadRows
<1>6. PageOK(page, k)
  BY <1>2, <1>5, InvRows, PageFits
<1>7. asOf = writes => page = TruePage(k)
  BY <1>2, <1>5 DEF TruePage
<1>8. req'[w] = r
  BY <1>4 DEF ListInv, SerialInv, ListTyped, Goto
<1>9. r.pc = "store" /\ r.key = k /\ r.asOf = asOf /\ r.page = page
  BY <1>3
<1>10. RequestOK(w)'
  BY <1>4, <1>5, <1>6, <1>8, <1>9 DEF RequestOK
<1>11. UpToDate(w)'
  BY <1>4, <1>7, <1>8, <1>9, SamePages DEF UpToDate, Overtaken
<1> QED BY <1>4, <1>10, <1>11, ListFrame DEF Counted, ListInv, Cached

LEMMA ListStores ==
  ASSUME ListInv, SerialInv', NEW w \in Worker, StorePage(w)
  PROVE  ListInv'
<1>1. /\ Counted /\ Goto(w, [pc |-> "done"])
      /\ cache' = [cache EXCEPT ![req[w].key] = req[w].page]
  BY DEF StorePage, Finish, Counted
<1>2. req'[w] = [pc |-> "done"]
  BY <1>1 DEF ListInv, SerialInv, ListTyped, Goto
<1>3. RequestOK(w)' /\ UpToDate(w)'
  BY <1>2 DEF RequestOK, UpToDate
<1>4. PageOK(req[w].page, req[w].key)
  BY DEF ListInv, RequestOK, StorePage
<1>5. \A k \in Cached' : PageOK(cache'[k], k)
  BY <1>1, <1>4 DEF ListInv, SerialInv, ListTyped, Cached
<1> QED BY <1>1, <1>3, <1>5, ListFrame

\* A write is counted.
LEMMA ListWrites ==
  ASSUME ListInv, SerialInv', NEW w \in Worker,
         \/ \E s, serial : CreateEquipment(w, s, serial)
         \/ CommitWrite(w)
  PROVE  ListInv'
<1>1. equipment \in Seq(Asset)
  BY DEF ListInv, SerialInv, ListTyped
<1>2. ASSUME NEW s, NEW serial, CreateEquipment(w, s, serial) PROVE ListInv'
  <2>1. PICK row : equipment' = Append(equipment, row)
    BY <1>2 DEF CreateEquipment
  <2>2. Len(equipment') = Len(equipment) + 1 /\ Len(equipment) \in Nat
    BY <1>1, <2>1
  <2>3. Counted
    BY <1>2, <2>2, BoundsAssumption DEF CreateEquipment, Counted
  <2> QED BY <1>2, <2>3, ListReadsNothing DEF CreateEquipment
<1>3. CASE CommitWrite(w)
  <2>1. Counted
    <3>1. CASE UNCHANGED <<equipment, writes>>
      BY <3>1 DEF Counted
    <3>2. CASE /\ writes < MaxWrites /\ writes' = writes + 1
               /\ \E new : equipment' = [equipment EXCEPT ![req[w].n] = new]
      <4>1. Len(equipment') = Len(equipment)
        BY <1>1, <3>2
      <4> QED BY <3>2, <4>1 DEF Counted, ListInv
    <3> QED BY <1>3, <3>1, <3>2 DEF CommitWrite
  <2> QED BY <1>3, <2>1, ListReadsNothing DEF CommitWrite, Finish
<1> QED BY <1>2, <1>3

LEMMA ListFlips ==
  ASSUME ListInv, SerialInv', NEW n, MaintenanceFlip(n)
  PROVE  ListInv'
<1>1. PICK s \in Statuses : equipment' = [equipment EXCEPT ![n].status = s]
  BY DEF MaintenanceFlip
<1>2. equipment \in Seq(Asset) /\ Len(equipment) <= MaxAssets
  BY DEF ListInv, SerialInv, ListTyped
<1>3. PICK new : equipment' = [equipment EXCEPT ![n] = new]
  BY <1>1
<1>4. Len(equipment') = Len(equipment)
  BY <1>2, <1>3
<1> QED BY <1>2, <1>4, ListAround DEF MaintenanceFlip, Counted

LEMMA ListStep == ListInv /\ SerialInv' /\ [ListNext]_lvars => ListInv'
<1> SUFFICES ASSUME ListInv, SerialInv', [ListNext]_lvars PROVE ListInv'
  OBVIOUS
<1>0. DOMAIN cache = Key
  BY DEF ListInv, SerialInv, ListTyped
<1>1. ASSUME NEW w \in Worker, Arrive(w) PROVE ListInv'
  <2>1. ASSUME NEW n, NEW s, NEW serial, BeginUpdate(w, n, s, serial) PROVE ListInv'
    BY <2>1, ListReadsNothing DEF BeginUpdate, Counted
  <2>2. ASSUME NEW n, BeginDelete(w, n) PROVE ListInv'
    BY <2>2, ListReadsNothing DEF BeginDelete, Counted
  <2> QED BY <1>1, <2>1, <2>2, ListBegins, ListWrites DEF Arrive
<1>2. ASSUME NEW w \in Worker, Proceed(w) PROVE ListInv'
  <2>1. CASE ScanKeys(w)
    BY <2>1, ListReadsNothing DEF ScanKeys, Finish, Counted
  <2>2. CASE PurgeKey(w)
    <3>1. PICK k : /\ cache' = [cache EXCEPT ![k] = None]
                   /\ Finish(w) \/ Goto(w, [pc |-> "purge", keys |-> req[w].keys \ {k}])
      BY <2>2 DEF PurgeKey
    <3>2. \A d \in Key : cache'[d] = cache[d] \/ cache'[d] = None
      BY <1>0, <3>1
    <3>3. Counted
      BY <2>2 DEF PurgeKey, Counted
    <3> QED BY <3>1, <3>2, <3>3, ListReadsNothing DEF Finish
  <2> QED BY <1>2, <2>1, <2>2, ListCounts, ListReads, ListStores, ListWrites DEF Proceed
<1>3. ASSUME NEW w \in Worker, Fail(w) PROVE ListInv'
  BY <1>3, ListReadsNothing DEF Fail, Finish, Counted
<1>4. ASSUME NEW k \in Key, Expire(k) PROVE ListInv'
  BY <1>0, <1>4, ListAround DEF Expire, Counted
<1>5. CASE UNCHANGED lvars
  BY <1>5, ListAround DEF lvars, Counted
<1> QED BY <1>1, <1>2, <1>3, <1>4, <1>5, ListFlips DEF ListNext

LEMMA ListInvariant == ListSpec => []ListInv
BY ListStart, ListStep, SerialInvariant, PTL DEF ListSpec

\* The rows, the cached pages and what the requests hold are well typed, and no
\* page is longer than its limit, for any keys and page sizes.
THEOREM ListTyping == ListSpec => []ListTypeOK
<1>1. ListInv => ListTypeOK
  <2> SUFFICES ASSUME ListInv PROVE ListTypeOK
    OBVIOUS
  <2>1. \A n \in 1..Len(equipment) : equipment[n] \in Asset
    BY ElementOfSeq DEF ListInv, SerialInv, ListTyped
  <2>2. excused \in [Key -> BOOLEAN]
    BY DEF ListInv, SerialInv, ListTyped
  <2> QED BY <2>1, <2>2 DEF ListInv, RequestOK, ListTypeOK
<1> QED BY <1>1, ListInvariant, PTL

\* In whatever table the requests leave, hasNext leads through every matching row.
THEOREM WalksSeeAll == ListSpec => []WalkSeesAll
<1>1. ListInv => WalkSeesAll
  BY InvRows, WalkInOneTable
<1> QED BY <1>1, ListInvariant, PTL

-------------------------------------------------------------------------------
(* Stale pages *)

\* A purge that k can wait for.
PurgeDue(k) ==
  \E w \in Worker : \/ req[w].pc = "scan"
                     \/ (req[w].pc = "purge" /\ k \in req[w].keys)

LEMMA SameStale ==
  ASSUME equipment' = equipment, NEW k \in Key, cache'[k] = cache[k]
  PROVE  Stale(k)' <=> Stale(k)
BY SamePages DEF Stale, Cached

LEMMA StaleInit == ListInit => StaleExcused
BY DEF ListInit, StaleExcused, Stale, Cached

\* A step of w that was not purging, and leaves rows and cache alone.
LEMMA StaleFrame ==
  ASSUME ListTyped, StaleExcused, UNCHANGED <<equipment, cache, excused>>,
         NEW w \in Worker, NEW r, Goto(w, r), req[w].pc \notin {"scan", "purge"}
  PROVE  StaleExcused'
<1> SUFFICES ASSUME NEW k \in Key, Stale(k)' PROVE excused'[k] \/ PurgeDue(k)'
  BY DEF StaleExcused, PurgeDue
<1>1. Stale(k)
  BY SameStale
<1>2. excused[k] \/ PurgeDue(k)
  BY <1>1 DEF StaleExcused, PurgeDue
<1>3. ASSUME NEW v \in Worker, v # w PROVE req'[v] = req[v]
  BY <1>3 DEF ListTyped, Goto
<1> QED BY <1>2, <1>3 DEF PurgeDue

\* After a commit of w every stale page is about to be purged.
LEMMA StaleScanned ==
  ASSUME ListTyped, NEW w \in Worker, Goto(w, [pc |-> "scan"])
  PROVE  StaleExcused'
BY DEF ListTyped, Goto, StaleExcused

\* What is stored from reads that no write overtook is the page the rows give.
LEMMA StaleStore ==
  ASSUME ListTyped, StaleExcused, NEW w \in Worker, UpToDate(w), StorePage(w)
  PROVE  StaleExcused'
<1> SUFFICES ASSUME NEW k \in Key, Stale(k)' PROVE excused'[k] \/ PurgeDue(k)'
  BY DEF StaleExcused, PurgeDue
<1>0. equipment' = equipment /\ DOMAIN cache = Key /\ DOMAIN excused = Key
  BY DEF StorePage, ListTyped
<1>1. CASE k = req[w].key
  <2>1. cache'[k] = req[w].page /\ excused'[k] = Overtaken(w)
    BY <1>0, <1>1 DEF StorePage
  <2>2. cache'[k] # TruePage(k)
    BY <1>0, SamePages DEF Stale
  <2>3. Overtaken(w)
    BY <1>1, <2>1, <2>2 DEF UpToDate, StorePage
  <2> QED BY <2>1, <2>3
<1>2. CASE k # req[w].key
  <2>1. cache'[k] = cache[k] /\ excused'[k] = excused[k]
    BY <1>0, <1>2 DEF StorePage
  <2>2. Stale(k)
    BY <1>0, <2>1, SameStale
  <2>3. excused[k] \/ PurgeDue(k)
    BY <2>2 DEF StaleExcused, PurgeDue
  <2>4. ASSUME NEW v \in Worker, v # w PROVE req'[v] = req[v]
    BY <2>4 DEF ListTyped, StorePage, Finish, Goto
  <2> QED BY <2>1, <2>3, <2>4 DEF PurgeDue, StorePage
<1> QED BY <1>1, <1>2

LEMMA StaleScan ==
  ASSUME ListTyped, StaleExcused, NEW w \in Worker, ScanKeys(w)
  PROVE  StaleExcused'
<1> SUFFICES ASSUME NEW k \in Key, Stale(k)' PROVE PurgeDue(k)'
  BY DEF StaleExcused, PurgeDue
<1>1. k \in Cached
  BY DEF ScanKeys, Stale, Cached
<1>2. req'[w] = [pc |-> "purge", keys |-> Cached]
  BY <1>1 DEF ScanKeys, ListTyped, Goto
<1> QED BY <1>1, <1>2 DEF PurgeDue

LEMMA StalePurge ==
  ASSUME ListTyped, StaleExcused, NEW w \in Worker, PurgeKey(w)
  PROVE  StaleExcused'
<1> SUFFICES ASSUME NEW k \in Key, Stale(k)' PROVE excused'[k] \/ PurgeDue(k)'
  BY DEF StaleExcused, PurgeDue
<1>1. PICK d \in req[w].keys :
        /\ cache' = [cache EXCEPT ![d] = None]
        /\ excused' = [excused EXCEPT ![d] = FALSE]
        /\ IF req[w].keys = {d} THEN Finish(w)
                                ELSE Goto(w, [pc |-> "purge", keys |-> req[w].keys \ {d}])
  BY DEF PurgeKey
<1>2. k # d
  BY <1>1 DEF ListTyped, Stale, Cached
<1>3. cache'[k] = cache[k] /\ excused'[k] = excused[k]
  BY <1>1, <1>2 DEF ListTyped
<1>4. excused[k] \/ PurgeDue(k)
  BY <1>3, SameStale DEF PurgeKey, StaleExcused, PurgeDue
<1>5. ASSUME NEW v \in Worker, v # w PROVE req'[v] = req[v]
  BY <1>1, <1>5 DEF ListTyped, Finish, Goto
<1>6. k \in req[w].keys => req'[w] = [pc |-> "purge", keys |-> req[w].keys \ {d}]
  <2> DEFINE rest == req[w].keys \ {d}
  <2> SUFFICES ASSUME k \in req[w].keys PROVE req'[w] = [pc |-> "purge", keys |-> rest]
    OBVIOUS
  <2>1. Goto(w, [pc |-> "purge", keys |-> rest])
    BY <1>1, <1>2
  <2> HIDE DEF rest
  <2> QED BY <2>1 DEF ListTyped, Goto
<1>7. req[w].pc = "purge"
  BY DEF PurgeKey
<1> QED BY <1>2, <1>3, <1>4, <1>5, <1>6, <1>7 DEF PurgeDue

LEMMA StaleFail ==
  ASSUME ListTyped, StaleExcused, NEW w \in Worker, Fail(w)
  PROVE  StaleExcused'
<1> SUFFICES ASSUME NEW k \in Key, Stale(k)' PROVE excused'[k] \/ PurgeDue(k)'
  BY DEF StaleExcused, PurgeDue
<1>1. Stale(k)
  BY SameStale DEF Fail
<1>2. excused[k] \/ PurgeDue(k)
  BY <1>1 DEF StaleExcused, PurgeDue
<1>3. ASSUME NEW v \in Worker, v # w PROVE req'[v] = req[v]
  BY <1>3 DEF ListTyped, Fail, Finish, Goto
<1>4. excused[k] => excused'[k]
  BY Zenon DEF Fail
<1>5. req[w].pc = "scan" \/ (req[w].pc = "purge" /\ k \in req[w].keys) => excused'[k]
  BY <1>1, Zenon DEF Fail
<1> QED BY <1>2, <1>3, <1>4, <1>5 DEF PurgeDue

LEMMA StaleAround ==
  ASSUME ListTyped, StaleExcused,
         (\E k \in Key : Expire(k)) \/ (\E n \in 1..MaxAssets : MaintenanceFlip(n))
           \/ UNCHANGED lvars
  PROVE  StaleExcused'
<1> SUFFICES ASSUME NEW k \in Key, Stale(k)' PROVE excused'[k] \/ PurgeDue(k)'
  BY DEF StaleExcused, PurgeDue
<1>1. req' = req /\ (Stale(k) => excused[k] \/ PurgeDue(k))
  BY DEF Expire, MaintenanceFlip, lvars, StaleExcused, PurgeDue
<1>2. ASSUME NEW d \in Key, Expire(d) PROVE excused'[k] \/ PurgeDue(k)'
  <2>1. k # d
    BY <1>2 DEF ListTyped, Expire, Stale, Cached
  <2>2. cache'[k] = cache[k] /\ excused'[k] = excused[k]
    BY <1>2, <2>1 DEF ListTyped, Expire
  <2> QED BY <1>1, <1>2, <2>2, SameStale DEF Expire, PurgeDue
<1>3. ASSUME NEW n \in 1..MaxAssets, MaintenanceFlip(n) PROVE excused'[k] \/ PurgeDue(k)'
  <2>1. excused'[k] <=> excused[k] \/ (Stale(k)' /\ ~Stale(k))
    BY <1>3 DEF MaintenanceFlip
  <2> QED BY <1>1, <2>1 DEF PurgeDue
<1>4. CASE UNCHANGED lvars
  BY <1>1, <1>4, SameStale DEF lvars, PurgeDue
<1> QED BY <1>2, <1>3, <1>4

LEMMA StaleStep == ListInv /\ StaleExcused /\ [ListNext]_lvars => StaleExcused'
<1> SUFFICES ASSUME ListTyped, \A w \in Worker : UpToDate(w), StaleExcused, [ListNext]_lvars
             PROVE  StaleExcused'
  BY DEF ListInv, SerialInv
<1>1. ASSUME NEW w \in Worker, Arrive(w) PROVE StaleExcused'
  <2>1. ASSUME NEW k \in Key, BeginList(w, k) PROVE StaleExcused'
    BY <2>1, StaleFrame DEF BeginList, Free
  <2>2. ASSUME NEW s, NEW serial, CreateEquipment(w, s, serial) PROVE StaleExcused'
    BY <2>2, StaleScanned DEF CreateEquipment
  <2>3. ASSUME NEW n, NEW s, NEW serial, BeginUpdate(w, n, s, serial) PROVE StaleExcused'
    BY <2>3, StaleFrame DEF BeginUpdate, Free
  <2>4. ASSUME NEW n, BeginDelete(w, n) PROVE StaleExcused'
    BY <2>4, StaleFrame DEF BeginDelete, Free
  <2> QED BY <1>1, <2>1, <2>2, <2>3, <2>4 DEF Arrive
<1>2. ASSUME NEW w \in Worker, Proceed(w) PROVE StaleExcused'
  <2>1. CASE CountRows(w)
    BY <2>1, StaleFrame DEF CountRows
  <2>2. CASE ReadRows(w)
    BY <2>2, StaleFrame DEF ReadRows
  <2>3. CASE CommitWrite(w)
    <3>1. CASE Goto(w, [pc |-> "scan"])
      BY <3>1, StaleScanned
    <3>2. CASE Finish(w) /\ UNCHANGED <<equipment, writes>>
      BY <2>3, <3>2, StaleFrame DEF CommitWrite, Finish
    <3> QED BY <2>3, <3>1, <3>2 DEF CommitWrite
  <2> QED BY <1>2, <2>1, <2>2, <2>3, StaleStore, StaleScan, StalePurge DEF Proceed
<1> QED BY <1>1, <1>2, StaleFail, StaleAround DEF ListNext

\* A stale page has one of the causes that are named, whatever is cached and
\* whoever reads, writes and fails.
THEOREM StaleForCause == ListSpec => []StaleExcused
BY StaleInit, StaleStep, ListInvariant, PTL DEF ListSpec
=============================================================================
