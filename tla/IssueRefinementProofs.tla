------------------------- MODULE IssueRefinementProofs -------------------------
(***************************************************************************)
(* The statements of the endpoints implement the atomic tracker, for       *)
(* careful clients (OneWriter) and any number of requests in flight.       *)
(*                                                                         *)
(* What a request read when it arrived is still true when it commits: the  *)
(* other writes under way are about other assets, assignments change no    *)
(* column that a check reads, and nobody uses an issue before its creation *)
(* is answered.                                                            *)
(***************************************************************************)
EXTENDS IssueRequestsProofs

-------------------------------------------------------------------------------
(* The invariant *)

Writing(w) == req[w] # Idle /\ req[w].op \in WriterOps

\* No two writing requests are about one asset.
Apart ==
  \A v, w \in Worker : v # w /\ Writing(v) /\ Writing(w) => req[v].e # req[w].e

\* The foreign key of issues; no asset's row is ever removed.
IssuesOnAssets == \A i \in Live(issue) : issue[i].equipment \in Live(equipment)

\* The issues as a request sees them in its own transaction.
SeenIn(r) ==
  IF r.op = "transition"
    THEN [issue EXCEPT ![r.i] = Overlay(@, r.writes)]
    ELSE issue

\* The issue of a request is stored, and on the asset the request names.
OnItsAsset(r) == r.i \in Live(issue) /\ issue[r.i].equipment = r.e

\* What the steps of a sync have found out is true.
SyncTrue(r) ==
  /\ r.pc \in {"flush"} \cup Holding =>
       "eqSeen" \in DOMAIN r /\ r.eqSeen = equipment[r.e].status
  /\ r.pc = "count" => Reachable(r.e) /\ r.eqSeen # "decommissioned"
  /\ "target" \in DOMAIN r => r.pc = "commit"
  /\ r.pc = "commit" =>
       IF Reachable(r.e) /\ r.eqSeen # "decommissioned"
         THEN /\ "target" \in DOMAIN r
              /\ r.target = SyncTarget(r.eqSeen, HasActiveCritical(SeenIn(r), r.e))
         ELSE "target" \notin DOMAIN r

\* The issue in creation is as it was inserted, on an asset in use.
CreationTrue(r) ==
  /\ Reachable(r.e) /\ equipment[r.e].status # "decommissioned"
  /\ r.pc # "insert" => issue[r.i] = r.row
  /\ \E u \in User, sev \in Severities :
       /\ user[u].active /\ r.row = NewIssue(u, r.e, sev)
       /\ r.pc \notin {"insert", "reload"} => sev = "critical"

\* The move is still legal, and its columns are what the move would change now.
MoveTrue(r) ==
  /\ user[r.actor].active /\ Cardinality(r.notes) <= 1
  /\ \E to \in IssueStatus :
       /\ MayMove(user[r.actor].role, issue[r.i].status, to)
       /\ r.writes = TransitionWrites(issue[r.i], to, r.actor)

\* The edit of a severity is still rightful, and still an edit of one column.
EditTrue(r) ==
  \E u \in User, sev \in Severities :
    CanAccess(u, r.i) /\ r.writes = NetChange(issue[r.i], [issue[r.i] EXCEPT !.severity = sev])

AssignmentTrue(r) ==
  \E u, a \in User :
    /\ HasRole(u, STAFF_AND_UP) /\ HasRole(a, STAFF_AND_UP)
    /\ \A f \in DOMAIN r.writes : r.writes[f] = a

AssetEditTrue(r) ==
  /\ Reachable(r.e)
  /\ r.op = "updateEquipment" =>
       \E u \in User, s \in EquipmentStatus :
         /\ HasRole(u, MANAGER_AND_UP)
         /\ r.writes = NetChange(equipment[r.e], [equipment[r.e] EXCEPT !.status = s])
  /\ r.op = "deleteEquipment" =>
       \E u \in User :
         /\ HasRole(u, {"admin"})
         /\ r.writes = NetChange(equipment[r.e], [equipment[r.e] EXCEPT !.deleted = TRUE])

CommentTrue(r) ==
  /\ r.op = "addComment" =>
       \E u \in User, i \in IssueId, internal \in BOOLEAN :
         /\ r.row = NewComment(u, i, internal)
         /\ internal => user[u].role \in STAFF_AND_UP
         /\ issue[i] # NotYet /\ ~Unanswered(i)
         /\ i \in Live(issue) => CanAccess(u, i)
  /\ r.op = "editComment" => user[r.actor].active
  /\ r.op = "deleteComment" =>
       \E u \in User :
         /\ user[u].active /\ r.c \notin Unused(comment)
         /\ r.c \in Live(comment) =>
              comment[r.c].author = u \/ user[u].role \in MANAGER_AND_UP

\* Whatever a request goes by is true.
StillTrue(r) ==
  /\ r.op \in Syncing => SyncTrue(r)
  /\ r.op \in OnIssue \ {"createIssue"} => ~Unanswered(r.i)
  /\ r.op \in {"transition", "updateIssue", "deleteIssue"} => OnItsAsset(r)
  /\ r.op = "createIssue" => CreationTrue(r)
  /\ r.op = "transition" => MoveTrue(r)
  /\ r.op = "updateIssue" => EditTrue(r)
  /\ r.op = "assignIssue" => AssignmentTrue(r)
  /\ r.op = "deleteIssue" => \E u \in User : HasRole(u, {"admin"})
  /\ r.op \in EquipmentEdits => AssetEditTrue(r)
  /\ CommentTrue(r)

CareInv ==
  /\ Apart /\ IssuesOnAssets
  /\ \A w \in Worker : req[w] # Idle => StillTrue(req[w])

-------------------------------------------------------------------------------
(* Rows that differ in their assignee only *)

Twin(a, b) ==
  a = b \/ (a \in IssueRow /\ b \in IssueRow
            /\ \A f \in IssueColumns \ {"assignee"} : a[f] = b[f])

\* One issue, as the count of active critical issues sees it.
Counts(row, e) == row \notin {NotYet, Gone} /\ row.equipment = e /\ ActiveCritical(row)

LEMMA CountsDecide ==
  ASSUME NEW rows, NEW rows2, NEW e, DOMAIN rows = DOMAIN rows2,
         \A i \in DOMAIN rows : Counts(rows[i], e) <=> Counts(rows2[i], e)
  PROVE  HasActiveCritical(rows, e) <=> HasActiveCritical(rows2, e)
BY DEF HasActiveCritical, Live, Counts

LEMMA TwinCounts ==
  ASSUME NEW a, NEW b, Twin(a, b), NEW e
  PROVE  Counts(a, e) <=> Counts(b, e)
BY SentinelAssumption DEF Twin, Counts, ActiveCritical, IssueColumns

LEMMA TwinOverlaid ==
  ASSUME NEW a, NEW b, Twin(a, b), a \in IssueRow,
         NEW writes, IssueWritesOK(writes, IssueColumns)
  PROVE  Twin(Overlay(a, writes), Overlay(b, writes))
<1>1. b \in IssueRow
  BY DEF Twin
<1>2. Overlay(a, writes) \in IssueRow /\ Overlay(b, writes) \in IssueRow
  BY <1>1, OverlayIssue
<1>3. DOMAIN a = IssueColumns /\ DOMAIN b = IssueColumns
  BY <1>1 DEF IssueRow, IssueColumns
<1>4. \A f \in IssueColumns \ {"assignee"} : Overlay(a, writes)[f] = Overlay(b, writes)[f]
  BY <1>3 DEF Twin, Overlay
<1> QED BY <1>2, <1>4 DEF Twin

LEMMA TwinMoves ==
  ASSUME NEW a \in IssueRow, NEW b, Twin(a, b), NEW to \in IssueStatus, NEW u \in User
  PROVE  TransitionWrites(a, to, u) = TransitionWrites(b, to, u)
<1> DEFINE na == Moved(a, to, u, NoUser)
           nb == Moved(b, to, u, NoUser)
           ca == {f \in DOMAIN a : na[f] # a[f]}
                   \cup (IF to = "resolved" THEN {"resolvedAt"} ELSE {})
           cb == {f \in DOMAIN b : nb[f] # b[f]}
                   \cup (IF to = "resolved" THEN {"resolvedAt"} ELSE {})
<1>1. b \in IssueRow /\ \A f \in IssueColumns \ {"assignee"} : a[f] = b[f]
  BY DEF Twin
<1>2. DOMAIN a = IssueColumns /\ DOMAIN b = IssueColumns
  BY <1>1 DEF IssueRow, IssueColumns
<1>3. \A f \in IssueColumns \ {"assignee"} : na[f] = nb[f]
  BY <1>1, <1>2 DEF Moved, IssueColumns, IssueRow
<1>4. na["assignee"] = a["assignee"] /\ nb["assignee"] = b["assignee"]
  BY <1>1 DEF Moved, IssueRow
<1> HIDE DEF na, nb
<1>5. ca = cb /\ ca \subseteq IssueColumns \ {"assignee"}
  BY <1>1, <1>2, <1>3, <1>4 DEF IssueColumns
<1>6. [f \in ca |-> na[f]] = [f \in cb |-> nb[f]]
  BY <1>3, <1>5
<1> QED BY <1>6 DEF TransitionWrites, na, nb

LEMMA TwinEdits ==
  ASSUME NEW a \in IssueRow, NEW b, Twin(a, b), NEW sev \in Severities
  PROVE  NetChange(a, [a EXCEPT !.severity = sev]) = NetChange(b, [b EXCEPT !.severity = sev])
<1> DEFINE na == [a EXCEPT !.severity = sev]
           nb == [b EXCEPT !.severity = sev]
           ca == {f \in DOMAIN a : na[f] # a[f]}
           cb == {f \in DOMAIN b : nb[f] # b[f]}
<1>1. b \in IssueRow /\ \A f \in IssueColumns \ {"assignee"} : a[f] = b[f]
  BY DEF Twin
<1>2. DOMAIN a = IssueColumns /\ DOMAIN b = IssueColumns
  BY <1>1 DEF IssueRow, IssueColumns
<1>3. \A f \in IssueColumns : /\ na[f] = IF f = "severity" THEN sev ELSE a[f]
                              /\ nb[f] = IF f = "severity" THEN sev ELSE b[f]
  BY <1>2
<1> HIDE DEF na, nb
<1>4. ca = cb /\ ca \subseteq {"severity"}
  BY <1>1, <1>2, <1>3 DEF IssueColumns
<1>5. [f \in ca |-> na[f]] = [f \in cb |-> nb[f]]
  BY <1>3, <1>4, <1>2
<1> QED BY <1>5 DEF NetChange, na, nb

-------------------------------------------------------------------------------
(* What a step of one worker leaves to the others *)

\* An issue is left alone, or assigned, or written by whoever writes its asset.
IssueFrame(W, i) ==
  \/ issue'[i] = issue[i]
  \/ i \in Live(issue) /\ ~Unanswered(i) /\ Twin(issue[i], issue'[i])
  \/ \E w \in W :
       /\ Writing(w)
       /\ issue[i] = NotYet /\ issue'[i] \in IssueRow /\ issue'[i].equipment = req[w].e
  \/ \E w \in W :
       /\ Writing(w)
       /\ i \in Live(issue) /\ ~Unanswered(i) /\ issue[i].equipment = req[w].e
       /\ \/ issue'[i] = Gone
          \/ /\ issue'[i] \in IssueRow /\ issue'[i].equipment = req[w].e
             /\ issue'[i].reporter = issue[i].reporter

\* W is the worker that makes the step, or nobody.
Frame(W) ==
  /\ user' = user
  /\ \A e \in Live(equipment) :
       equipment'[e] = equipment[e] \/ \E w \in W : Writing(w) /\ req[w].e = e
  /\ \A i \in IssueId : IssueFrame(W, i) /\ (Unanswered(i)' => Unanswered(i) \/ issue[i] = NotYet)
  /\ \A c \in CommentId : comment[c] # NotYet =>
       /\ comment'[c] # NotYet
       /\ c \in Live(comment') => c \in Live(comment) /\ comment'[c].author = comment[c].author

\* The columns a request may write are columns.
LEMMA WritableColumns ==
  ASSUME NEW op, NEW writes, IssueWritesOK(writes, WritableBy(op))
  PROVE  IssueWritesOK(writes, IssueColumns)
BY DEF IssueWritesOK, WritableBy, IssueColumns

\* The asset of a writing request is stored.
LEMMA OnStoredAsset ==
  ASSUME RaceInv, CareInv, NEW v \in Worker, Writing(v)
  PROVE  req[v].e \in Live(equipment)
<1>1. StillTrue(req[v]) /\ Known(req[v], equipment, issue) /\ req[v].op \in WriterOps
  BY DEF RaceInv, Requests, CareInv, Writing
<1> QED BY <1>1 DEF StillTrue, Known, CreationTrue, OnItsAsset, Reachable, EquipmentEdits,
                    WriterOps, CareInv, IssuesOnAssets

\* Another's step leaves the count of active critical issues of an asset as it is.
LEMMA OthersCounts ==
  ASSUME RaceInv, RaceInv', NEW W \in SUBSET Worker, Frame(W), NEW e,
         \A w \in W : Writing(w) => req[w].e # e, NEW i \in IssueId
  PROVE  Counts(issue[i], e) <=> Counts(issue'[i], e)
<1>1. IssueFrame(W, i)
  BY DEF Frame
<1>2. CASE issue'[i] = issue[i]
  BY <1>2
<1>3. CASE i \in Live(issue) /\ ~Unanswered(i) /\ Twin(issue[i], issue'[i])
  BY <1>3, TwinCounts
<1>4. CASE ~Counts(issue[i], e) /\ ~Counts(issue'[i], e)
  BY <1>4
<1> QED BY <1>1, <1>2, <1>3, <1>4, SentinelAssumption DEF IssueFrame, Counts

\* Nobody else writes the issue of a request that writes on its asset.
LEMMA OthersTwin ==
  ASSUME RaceInv, CareInv, NEW W \in SUBSET Worker, NEW v \in Worker \ W, Frame(W),
         Writing(v), OnItsAsset(req[v])
  PROVE  /\ req[v].i \in IssueId /\ issue[req[v].i] \in IssueRow
         /\ Twin(issue[req[v].i], issue'[req[v].i])
<1>1. req[v].i \in IssueId /\ issue[req[v].i] \in IssueRow /\ issue[req[v].i] # NotYet
  BY StoredRows DEF OnItsAsset, RaceInv, Live
<1>2. ~\E w \in W : Writing(w) /\ issue[req[v].i].equipment = req[w].e
  BY DEF OnItsAsset, CareInv, Apart
<1> QED BY <1>1, <1>2 DEF Frame, IssueFrame, Twin

LEMMA OthersSync ==
  ASSUME RaceInv, RaceInv', CareInv, NEW W \in SUBSET Worker, NEW v \in Worker \ W, Frame(W),
         NEW r, r = req[v], r # Idle, r.op \in Syncing
  PROVE  SyncTrue(r)'
<1>1. Writing(v) /\ StillTrue(r) /\ Meant(r)
  BY DEF Writing, Syncing, WriterOps, CareInv, RaceInv, Requests
<1>2. r.e \in Live(equipment) /\ ~\E w \in W : Writing(w) /\ req[w].e = r.e
  BY <1>1, OnStoredAsset DEF CareInv, Apart
<1>3. /\ equipment'[r.e] = equipment[r.e]
      /\ DOMAIN equipment' = DOMAIN equipment
  BY <1>2 DEF Frame, RaceInv, TypeOK
<1>4. Reachable(r.e)' <=> Reachable(r.e)
  BY <1>2, <1>3 DEF Reachable, Live
<1>5. DOMAIN issue = IssueId /\ DOMAIN issue' = IssueId
  BY DEF RaceInv, TypeOK
<1>6. HasActiveCritical(SeenIn(r)', r.e) <=> HasActiveCritical(SeenIn(r), r.e)
  <2>1. CASE r.op # "transition"
    <3>1. SeenIn(r) = issue /\ SeenIn(r)' = issue'
      BY <2>1 DEF SeenIn
    <3>2. \A i \in IssueId : Counts(issue[i], r.e) <=> Counts(issue'[i], r.e)
      BY <1>2, OthersCounts
    <3> QED BY <1>5, <3>1, <3>2, CountsDecide
  <2>2. CASE r.op = "transition"
    <3> DEFINE s == [issue EXCEPT ![r.i] = Overlay(@, r.writes)]
               t == [issue' EXCEPT ![r.i] = Overlay(@, r.writes)]
    <3>1. SeenIn(r) = s /\ SeenIn(r)' = t
      BY <2>2 DEF SeenIn
    <3>2. /\ r.i \in IssueId /\ issue[r.i] \in IssueRow /\ Twin(issue[r.i], issue'[r.i])
          /\ IssueWritesOK(r.writes, IssueColumns)
      BY <1>1, <2>2, OthersTwin, WritableColumns DEF StillTrue, Meant
    <3>3. Twin(s[r.i], t[r.i])
      BY <1>5, <3>2, TwinOverlaid
    <3>4. ASSUME NEW i \in IssueId
          PROVE  Counts(s[i], r.e) <=> Counts(t[i], r.e)
      <4>1. CASE i = r.i
        BY <3>3, <4>1, TwinCounts
      <4>2. CASE i # r.i
        BY <1>2, <1>5, <4>2, OthersCounts
      <4> QED BY <4>1, <4>2
    <3>5. DOMAIN s = IssueId /\ DOMAIN t = IssueId
      BY <1>5
    <3> HIDE DEF s, t
    <3> QED BY <3>1, <3>4, <3>5, CountsDecide
  <2> QED BY <2>1, <2>2
<1>7. HasActiveCritical(SeenIn(r)', r.e) = HasActiveCritical(SeenIn(r), r.e)
  BY <1>6 DEF HasActiveCritical
<1>8. HasActiveCritical(SeenIn(r), r.e)' = HasActiveCritical(SeenIn(r)', r.e)
  BY DEF HasActiveCritical, Live
<1>9. SyncTrue(r)
  BY <1>1 DEF StillTrue
<1> QED BY <1>3, <1>4, <1>7, <1>8, <1>9 DEF SyncTrue

\* What another request goes by stays true.
LEMMA OthersKeep ==
  ASSUME RaceInv, RaceInv', CareInv, NEW W \in SUBSET Worker, NEW v \in Worker \ W, Frame(W),
         NEW r, r = req[v], r # Idle
  PROVE  StillTrue(r)'
<1>1. /\ StillTrue(r) /\ Meant(r) /\ Placed(r) /\ Known(r, equipment, issue) /\ user' = user
      /\ r.op \in WriterOps <=> Writing(v)
  BY DEF RaceInv, Requests, CareInv, Writing, Frame
<1>2. r.op \in WriterOps =>
        /\ r.e \in Live(equipment) /\ equipment'[r.e] = equipment[r.e]
        /\ Reachable(r.e)' <=> Reachable(r.e)
  <2>1. r.op \in WriterOps => /\ r.e \in Live(equipment)
                              /\ ~\E w \in W : Writing(w) /\ req[w].e = r.e
    BY <1>1, OnStoredAsset DEF CareInv, Apart
  <2>2. r.op \in WriterOps => equipment'[r.e] = equipment[r.e]
    BY <2>1 DEF Frame
  <2>3. DOMAIN equipment' = DOMAIN equipment
    BY DEF RaceInv, TypeOK
  <2> QED BY <2>1, <2>2, <2>3 DEF Reachable, Live
<1>3. r.op \in {"transition", "updateIssue", "deleteIssue"} =>
        /\ OnItsAsset(r) /\ r.i \in IssueId
        /\ issue[r.i] \in IssueRow /\ Twin(issue[r.i], issue'[r.i])
  BY <1>1, OthersTwin DEF StillTrue, WriterOps
<1>4. r.op \in OnIssue \ {"createIssue"} => ~Unanswered(r.i)'
  <2> SUFFICES ASSUME r.op \in OnIssue \ {"createIssue"} PROVE ~Unanswered(r.i)'
    OBVIOUS
  <2>1. r.i \in IssueId /\ ~Unanswered(r.i) /\ issue[r.i] # NotYet
    BY <1>1 DEF StillTrue, Meant, Field, Known, Placed, OnIssue
  <2> QED BY <2>1 DEF Frame
<1>5. r.op \in {"transition", "updateIssue", "deleteIssue"} => OnItsAsset(r)'
  <2> SUFFICES ASSUME r.op \in {"transition", "updateIssue", "deleteIssue"}
               PROVE  OnItsAsset(r)'
    OBVIOUS
  <2>1. issue'[r.i] \in IssueRow /\ issue'[r.i].equipment = r.e /\ DOMAIN issue' = IssueId
    BY <1>3 DEF Twin, OnItsAsset, IssueColumns, RaceInv, TypeOK
  <2> QED BY <1>3, <2>1, SentinelAssumption DEF OnItsAsset, Live
<1>6. r.op = "createIssue" => CreationTrue(r)'
  <2> SUFFICES ASSUME r.op = "createIssue" PROVE CreationTrue(r)'
    OBVIOUS
  <2>1. CreationTrue(r) /\ r.i \in IssueId
    BY <1>1 DEF StillTrue, Meant, Field, OnIssue
  <2>2. r.pc # "insert" => Unanswered(r.i) /\ issue[r.i] # NotYet
    BY <1>1 DEF Unanswered, Doing, At, Known, OnIssue
  <2>3. r.pc # "insert" => issue'[r.i] = issue[r.i]
    BY <2>1, <2>2 DEF Frame, IssueFrame
  <2> QED BY <1>1, <1>2, <2>1, <2>3 DEF CreationTrue, WriterOps
<1>7. r.op = "transition" => MoveTrue(r)'
  <2> SUFFICES ASSUME r.op = "transition" PROVE MoveTrue(r)'
    OBVIOUS
  <2>1. PICK to \in IssueStatus :
          /\ MayMove(user[r.actor].role, issue[r.i].status, to)
          /\ r.writes = TransitionWrites(issue[r.i], to, r.actor)
    BY <1>1 DEF StillTrue, MoveTrue
  <2>2. issue'[r.i].status = issue[r.i].status
    BY <1>3 DEF Twin, IssueColumns
  <2>3. TransitionWrites(issue[r.i], to, r.actor) = TransitionWrites(issue'[r.i], to, r.actor)
    BY <1>1, <1>3, TwinMoves DEF Meant, Field
  <2>4. \A x : TransitionWrites(issue[r.i], x, r.actor)'
                 = TransitionWrites(issue'[r.i], x, r.actor)
    BY DEF TransitionWrites
  <2>5. user[r.actor].active /\ Cardinality(r.notes) <= 1
    BY <1>1 DEF StillTrue, MoveTrue
  <2> QED BY <1>1, <2>1, <2>2, <2>3, <2>4, <2>5 DEF MoveTrue
<1>8. r.op = "updateIssue" => EditTrue(r)'
  <2> SUFFICES ASSUME r.op = "updateIssue" PROVE EditTrue(r)'
    OBVIOUS
  <2>1. PICK u \in User, sev \in Severities :
          /\ CanAccess(u, r.i)
          /\ r.writes = NetChange(issue[r.i], [issue[r.i] EXCEPT !.severity = sev])
    BY <1>1 DEF StillTrue, EditTrue
  <2>2. issue'[r.i].reporter = issue[r.i].reporter
    BY <1>3 DEF Twin, IssueColumns
  <2>3. r.writes = NetChange(issue'[r.i], [issue'[r.i] EXCEPT !.severity = sev])
    BY <1>3, <2>1, TwinEdits
  <2>4. CanAccess(u, r.i)'
    BY <1>1, <2>1, <2>2 DEF CanAccess, CanAccessIssue
  <2>5. NetChange(issue[r.i], [issue[r.i] EXCEPT !.severity = sev])'
          = NetChange(issue'[r.i], [issue'[r.i] EXCEPT !.severity = sev])
    BY DEF NetChange
  <2> QED BY <2>3, <2>4, <2>5 DEF EditTrue
<1>9. r.op = "assignIssue" => AssignmentTrue(r)'
  BY <1>1 DEF StillTrue, AssignmentTrue, HasRole
<1>10. r.op = "deleteIssue" => (\E u \in User : HasRole(u, {"admin"}))'
  BY <1>1 DEF StillTrue, HasRole
<1>11. r.op \in EquipmentEdits => AssetEditTrue(r)'
  <2> SUFFICES ASSUME r.op \in EquipmentEdits PROVE AssetEditTrue(r)'
    OBVIOUS
  <2>1. AssetEditTrue(r) /\ equipment'[r.e] = equipment[r.e] /\ Reachable(r.e)'
    BY <1>1, <1>2 DEF StillTrue, EquipmentEdits, WriterOps, AssetEditTrue
  <2>2. \A u, roles : HasRole(u, roles)' <=> HasRole(u, roles)
    BY <1>1 DEF HasRole
  <2>3. CASE r.op = "updateEquipment"
    <3>1. PICK u \in User, s \in EquipmentStatus :
            /\ HasRole(u, MANAGER_AND_UP)
            /\ r.writes = NetChange(equipment[r.e], [equipment[r.e] EXCEPT !.status = s])
      BY <2>1, <2>3 DEF AssetEditTrue
    <3>2. r.writes = NetChange(equipment[r.e], [equipment[r.e] EXCEPT !.status = s])'
      BY <2>1, <3>1 DEF NetChange
    <3> QED BY <2>1, <2>2, <2>3, <3>1, <3>2 DEF AssetEditTrue
  <2>4. CASE r.op = "deleteEquipment"
    <3>1. PICK u \in User :
            /\ HasRole(u, {"admin"})
            /\ r.writes = NetChange(equipment[r.e], [equipment[r.e] EXCEPT !.deleted = TRUE])
      BY <2>1, <2>4 DEF AssetEditTrue
    <3>2. r.writes = NetChange(equipment[r.e], [equipment[r.e] EXCEPT !.deleted = TRUE])'
      BY <2>1, <3>1 DEF NetChange
    <3> QED BY <2>1, <2>2, <2>4, <3>1, <3>2 DEF AssetEditTrue
  <2> QED BY <2>3, <2>4 DEF EquipmentEdits
<1>12. CommentTrue(r)'
  <2>1. r.op = "addComment" => CommentTrue(r)'
    <3> SUFFICES ASSUME r.op = "addComment" PROVE CommentTrue(r)'
      OBVIOUS
    <3>1. PICK u \in User, i \in IssueId, internal \in BOOLEAN :
            /\ r.row = NewComment(u, i, internal)
            /\ internal => user[u].role \in STAFF_AND_UP
            /\ issue[i] # NotYet /\ ~Unanswered(i)
            /\ i \in Live(issue) => CanAccess(u, i)
      BY <1>1 DEF StillTrue, CommentTrue
    <3>2. IssueFrame(W, i) /\ ~Unanswered(i)'
      BY <3>1 DEF Frame
    <3>3. /\ issue'[i] # NotYet
          /\ i \in Live(issue') => i \in Live(issue) /\ issue'[i].reporter = issue[i].reporter
      BY <3>1, <3>2, SentinelAssumption
      DEF IssueFrame, Twin, IssueColumns, Live, RaceInv, TypeOK
    <3>4. i \in Live(issue') => CanAccess(u, i)'
      BY <1>1, <3>1, <3>3 DEF CanAccess, CanAccessIssue
    <3> QED BY <1>1, <3>1, <3>2, <3>3, <3>4 DEF CommentTrue
  <2>2. r.op = "editComment" => CommentTrue(r)'
    BY <1>1 DEF StillTrue, CommentTrue
  <2>3. r.op = "deleteComment" => CommentTrue(r)'
    <3> SUFFICES ASSUME r.op = "deleteComment" PROVE CommentTrue(r)'
      OBVIOUS
    <3>1. PICK u \in User :
            /\ user[u].active /\ r.c \notin Unused(comment)
            /\ r.c \in Live(comment) =>
                 comment[r.c].author = u \/ user[u].role \in MANAGER_AND_UP
      BY <1>1 DEF StillTrue, CommentTrue
    <3>2. r.c \in CommentId /\ comment[r.c] # NotYet
      BY <1>1, <3>1 DEF Meant, Field, OnComment, Unused, RaceInv, TypeOK
    <3>3. /\ r.c \notin Unused(comment')
          /\ r.c \in Live(comment') =>
               r.c \in Live(comment) /\ comment'[r.c].author = comment[r.c].author
      BY <3>2 DEF Frame, Unused
    <3> QED BY <1>1, <3>1, <3>3 DEF CommentTrue
  <2>4. r.op \notin {"addComment", "editComment", "deleteComment"} => CommentTrue(r)'
    BY DEF CommentTrue
  <2> QED BY <2>1, <2>2, <2>3, <2>4
<1>13. r.op \in Syncing => SyncTrue(r)'
  BY OthersSync
<1> QED
  BY <1>4, <1>5, <1>6, <1>7, <1>8, <1>9, <1>10, <1>11, <1>12, <1>13 DEF StillTrue

\* So a step of those in W keeps the invariant if it keeps what they go by.
LEMMA CareStep ==
  ASSUME RaceInv, RaceInv', CareInv, NEW W \in SUBSET Worker, Frame(W),
         Live(equipment) \subseteq Live(equipment'),
         \A v \in Worker \ W : req'[v] = req[v],
         \A w \in W : req'[w] # Idle => StillTrue(req[w])',
         \A w \in W, v \in Worker :
           v # w /\ Writing(w)' /\ Writing(v)' => req'[v].e # req'[w].e
  PROVE  CareInv'
<1>1. Apart'
  BY DEF CareInv, Apart, Writing
<1>2. ASSUME NEW v \in Worker, req'[v] # Idle
      PROVE  StillTrue(req[v])'
  <2>1. CASE v \in W
    BY <1>2, <2>1
  <2>2. CASE v \notin W
    <3>1. PICK r : r = req[v] /\ r = req'[v] /\ r # Idle
      BY <1>2, <2>2
    <3>2. StillTrue(r)'
      BY <2>2, <3>1, OthersKeep
    <3> QED BY <3>1, <3>2 DEF StillTrue
  <2> QED BY <2>1, <2>2
<1>3. IssuesOnAssets'
  <2> SUFFICES ASSUME NEW i \in Live(issue') PROVE issue'[i].equipment \in Live(equipment')
    BY DEF IssuesOnAssets
  <2>1. i \in IssueId /\ issue'[i] # NotYet /\ issue'[i] # Gone /\ DOMAIN issue = IssueId
    BY DEF RaceInv, TypeOK, Live
  <2>2. IssueFrame(W, i)
    BY <2>1 DEF Frame
  <2>3. CASE i \in Live(issue) /\ issue'[i].equipment = issue[i].equipment
    BY <2>3 DEF CareInv, IssuesOnAssets
  <2>4. CASE \E w \in W : Writing(w) /\ issue'[i].equipment = req[w].e
    BY <2>4, OnStoredAsset
  <2>5. CASE issue'[i] = issue[i]
    BY <2>1, <2>3, <2>5 DEF Live
  <2>6. CASE i \in Live(issue) /\ Twin(issue[i], issue'[i])
    BY <2>3, <2>6 DEF Twin, IssueColumns
  <2> QED BY <2>1, <2>2, <2>4, <2>5, <2>6 DEF IssueFrame
<1> QED BY <1>1, <1>2, <1>3 DEF CareInv

\* While the tables stay, so does what a request goes by.
LEMMA SameTables ==
  ASSUME UNCHANGED <<user, equipment, issue, comment>>,
         \A i : Unanswered(i)' => Unanswered(i), NEW r, StillTrue(r)
  PROVE  StillTrue(r)'
<1>1. SyncTrue(r)' <=> SyncTrue(r)
  BY DEF SyncTrue, SeenIn, HasActiveCritical, Reachable, Live
<1>2. CreationTrue(r)' <=> CreationTrue(r)
  BY DEF CreationTrue, Reachable, Live
<1>3. MoveTrue(r)' <=> MoveTrue(r)
  BY DEF MoveTrue, TransitionWrites
<1>4. EditTrue(r)' <=> EditTrue(r)
  BY DEF EditTrue, CanAccess, NetChange
<1>5. AssignmentTrue(r)' <=> AssignmentTrue(r)
  BY DEF AssignmentTrue, HasRole
<1>6. AssetEditTrue(r)' <=> AssetEditTrue(r)
  BY DEF AssetEditTrue, Reachable, Live, HasRole, NetChange
<1>7. CommentTrue(r) => CommentTrue(r)'
  BY DEF CommentTrue, Live, CanAccess, Unused
<1>8. OnItsAsset(r)' <=> OnItsAsset(r)
  BY DEF OnItsAsset, Live
<1>9. (\E u \in User : HasRole(u, {"admin"}))' <=> \E u \in User : HasRole(u, {"admin"})
  BY DEF HasRole
<1> QED BY <1>1, <1>2, <1>3, <1>4, <1>5, <1>6, <1>7, <1>8, <1>9 DEF StillTrue

\* A step that leaves the tables alone.
LEMMA CareQuiet ==
  ASSUME RaceInv, RaceInv', CareInv, NEW w \in Worker, UNCHANGED tables,
         NEW r2, req' = [req EXCEPT ![w] = r2],
         r2 # Idle => StillTrue(r2),
         r2 # Idle /\ r2.op = "createIssue" /\ r2.pc # "insert" =>
           Doing(w, "createIssue") /\ ~At(w, "insert") /\ req[w].i = r2.i,
         r2 # Idle /\ r2.op \in WriterOps =>
           \A v \in Worker : v # w /\ Writing(v) => req[v].e # r2.e
  PROVE  CareInv'
<1>1. UNCHANGED <<user, equipment, issue, comment>>
  BY DEF tables, vars
<1>2. \A v \in Worker : req'[v] = IF v = w THEN r2 ELSE req[v]
  BY DEF RaceInv, Requests
<1>3. \A i : Unanswered(i)' => Unanswered(i)
  BY <1>2 DEF Unanswered, Doing, At
<1>4. Frame({w})
  BY <1>1, <1>3 DEF Frame, IssueFrame, Live
<1>5. r2 # Idle => StillTrue(r2)'
  BY <1>1, <1>3, SameTables
<1>6. req'[w] # Idle => StillTrue(req[w])'
  BY <1>2, <1>5 DEF StillTrue
<1>7. \A v \in Worker : v # w /\ Writing(w)' /\ Writing(v)' => req'[v].e # req'[w].e
  BY <1>2 DEF Writing
<1>8. Live(equipment) \subseteq Live(equipment')
  BY <1>1
<1> QED BY <1>2, <1>4, <1>6, <1>7, <1>8, CareStep

-------------------------------------------------------------------------------
(* Requests arrive with what is true *)

LEMMA CareBegins ==
  ASSUME RaceInv, RaceInv', CareInv, OneWriter, NEW w \in Worker, NEW r, Begin(w, r),
         StillTrue(r), r.op \in WriterOps => FreeToWrite(r.e),
         r.op = "createIssue" => r.pc = "insert"
  PROVE  CareInv'
<1>1. UNCHANGED tables /\ req' = [req EXCEPT ![w] = r]
  BY DEF Begin
<1>2. r.op \in WriterOps => \A v \in Worker : v # w /\ Writing(v) => req[v].e # r.e
  BY DEF FreeToWrite, Writing
<1> QED BY <1>1, <1>2, CareQuiet

LEMMA CareArrives ==
  ASSUME RaceInv, RaceInv', CareInv, OneWriter, NEW w \in Worker, Arrive(w)
  PROVE  CareInv'
<1> PICK u \in User :
    \/ \E e \in EquipmentId :
         \/ \E i \in IssueId, sev \in Severities : BeginCreateIssue(w, u, i, e, sev)
         \/ \E s \in EquipmentStatus : BeginUpdateEquipment(w, u, e, s)
         \/ BeginDeleteEquipment(w, u, e)
    \/ \E i \in IssueId :
         \/ \E to \in IssueStatus, notes \in SUBSET CommentId :
              BeginTransition(w, u, i, to, notes)
         \/ \E sev \in Severities : BeginUpdateIssue(w, u, i, sev)
         \/ \E a \in User : BeginAssignIssue(w, u, i, a)
         \/ BeginDeleteIssue(w, u, i)
         \/ \E c \in CommentId, internal \in BOOLEAN : BeginAddComment(w, u, c, i, internal)
    \/ \E c \in CommentId : BeginEditComment(w, u, c) \/ BeginDeleteComment(w, u, c)
  BY DEF Arrive
<1> USE DEF OnIssue, Syncing, Holding, WriterOps, EquipmentEdits
<1>1. ASSUME NEW e \in EquipmentId, NEW i \in IssueId, NEW sev \in Severities,
             BeginCreateIssue(w, u, i, e, sev)
      PROVE  CareInv'
  <2> DEFINE r == [op |-> "createIssue", pc |-> "insert", i |-> i, e |-> e,
                   row |-> NewIssue(u, e, sev)]
  <2>1. /\ Begin(w, r) /\ FreeToWrite(e) /\ user[u].active
        /\ Reachable(e) /\ equipment[e].status # "decommissioned"
    BY <1>1 DEF BeginCreateIssue
  <2>2. CreationTrue(r)
    BY <2>1 DEF CreationTrue
  <2>3. StillTrue(r)
    BY <2>2 DEF StillTrue, SyncTrue, CommentTrue
  <2> QED BY <2>1, <2>3, CareBegins
<1>2. ASSUME NEW e \in EquipmentId, NEW s \in EquipmentStatus, BeginUpdateEquipment(w, u, e, s)
      PROVE  CareInv'
  <2> DEFINE wr == NetChange(equipment[e], [equipment[e] EXCEPT !.status = s])
             r  == [op |-> "updateEquipment", pc |-> "commit", e |-> e, writes |-> wr]
  <2>1. Begin(w, r) /\ FreeToWrite(e) /\ Reachable(e) /\ HasRole(u, MANAGER_AND_UP)
    BY <1>2 DEF BeginUpdateEquipment
  <2>2. AssetEditTrue(r)
    BY <2>1 DEF AssetEditTrue
  <2> HIDE DEF wr
  <2>3. StillTrue(r)
    BY <2>2 DEF StillTrue, CommentTrue
  <2> QED BY <2>1, <2>3, CareBegins
<1>3. ASSUME NEW e \in EquipmentId, BeginDeleteEquipment(w, u, e)
      PROVE  CareInv'
  <2> DEFINE wr == NetChange(equipment[e], [equipment[e] EXCEPT !.deleted = TRUE])
             r  == [op |-> "deleteEquipment", pc |-> "commit", e |-> e, writes |-> wr]
  <2>1. Begin(w, r) /\ FreeToWrite(e) /\ Reachable(e) /\ HasRole(u, {"admin"})
    BY <1>3 DEF BeginDeleteEquipment
  <2>2. AssetEditTrue(r)
    BY <2>1 DEF AssetEditTrue
  <2> HIDE DEF wr
  <2>3. StillTrue(r)
    BY <2>2 DEF StillTrue, CommentTrue
  <2> QED BY <2>1, <2>3, CareBegins
<1>4. ASSUME NEW i \in IssueId, NEW to \in IssueStatus, NEW notes \in SUBSET CommentId,
             BeginTransition(w, u, i, to, notes)
      PROVE  CareInv'
  <2> DEFINE wr == TransitionWrites(issue[i], to, u)
             r  == [op |-> "transition", pc |-> "loadEq", actor |-> u, i |-> i,
                    e |-> issue[i].equipment, notes |-> notes, writes |-> wr]
  <2>1. /\ Begin(w, r) /\ FreeToWrite(issue[i].equipment) /\ ~Unanswered(i)
        /\ i \in Live(issue) /\ user[u].active /\ Cardinality(notes) <= 1
        /\ MayMove(user[u].role, issue[i].status, to)
    BY <1>4 DEF BeginTransition, FreeToUse
  <2>2. MoveTrue(r)
    BY <2>1 DEF MoveTrue
  <2> HIDE DEF wr
  <2>3. StillTrue(r)
    BY <2>1, <2>2 DEF StillTrue, SyncTrue, CommentTrue, OnItsAsset
  <2> QED BY <2>1, <2>3, CareBegins
<1>5. ASSUME NEW i \in IssueId, NEW sev \in Severities, BeginUpdateIssue(w, u, i, sev)
      PROVE  CareInv'
  <2> DEFINE wr == NetChange(issue[i], [issue[i] EXCEPT !.severity = sev])
             r  == [op |-> "updateIssue", pc |-> "commit", i |-> i, e |-> issue[i].equipment,
                    writes |-> wr]
  <2>1. /\ Begin(w, r) /\ FreeToWrite(issue[i].equipment) /\ ~Unanswered(i)
        /\ i \in Live(issue) /\ CanAccess(u, i)
    BY <1>5 DEF BeginUpdateIssue, FreeToUse
  <2>2. EditTrue(r)
    BY <2>1 DEF EditTrue
  <2> HIDE DEF wr
  <2>3. StillTrue(r)
    BY <2>1, <2>2 DEF StillTrue, CommentTrue, OnItsAsset
  <2> QED BY <2>1, <2>3, CareBegins
<1>6. ASSUME NEW i \in IssueId, NEW a \in User, BeginAssignIssue(w, u, i, a)
      PROVE  CareInv'
  <2> DEFINE wr == NetChange(issue[i], [issue[i] EXCEPT !.assignee = a])
             r  == [op |-> "assignIssue", pc |-> "commit", i |-> i, writes |-> wr]
  <2>1. /\ Begin(w, r) /\ ~Unanswered(i) /\ i \in Live(issue)
        /\ HasRole(u, STAFF_AND_UP) /\ HasRole(a, STAFF_AND_UP)
    BY <1>6 DEF BeginAssignIssue, FreeToUse
  <2>2. \A f \in DOMAIN wr : wr[f] = a
    BY DEF NetChange
  <2> HIDE DEF wr
  <2>3. AssignmentTrue(r)
    BY <2>1, <2>2 DEF AssignmentTrue
  <2>4. StillTrue(r)
    BY <2>1, <2>3 DEF StillTrue, CommentTrue
  <2> QED BY <2>1, <2>4, CareBegins
<1>7. ASSUME NEW i \in IssueId, BeginDeleteIssue(w, u, i)
      PROVE  CareInv'
  <2> DEFINE r == [op |-> "deleteIssue", pc |-> "commit", i |-> i, e |-> issue[i].equipment]
  <2>1. /\ Begin(w, r) /\ FreeToWrite(issue[i].equipment) /\ ~Unanswered(i)
        /\ i \in Live(issue) /\ HasRole(u, {"admin"})
    BY <1>7 DEF BeginDeleteIssue, FreeToUse
  <2>2. StillTrue(r)
    BY <2>1 DEF StillTrue, CommentTrue, OnItsAsset
  <2> QED BY <2>1, <2>2, CareBegins
<1>8. ASSUME NEW i \in IssueId, NEW c \in CommentId, NEW internal \in BOOLEAN,
             BeginAddComment(w, u, c, i, internal)
      PROVE  CareInv'
  <2> DEFINE r == [op |-> "addComment", pc |-> "commit", c |-> c,
                   row |-> NewComment(u, i, internal)]
  <2>1. /\ Begin(w, r) /\ ~Unanswered(i) /\ i \in Live(issue) /\ CanAccess(u, i)
        /\ internal => user[u].role \in STAFF_AND_UP
    BY <1>8 DEF BeginAddComment, FreeToUse
  <2>2. CommentTrue(r)
    BY <2>1 DEF CommentTrue, Live
  <2>3. StillTrue(r)
    BY <2>1, <2>2 DEF StillTrue
  <2> QED BY <2>1, <2>3, CareBegins
<1>9. ASSUME NEW c \in CommentId, BeginEditComment(w, u, c)
      PROVE  CareInv'
  <2> DEFINE r == [op |-> "editComment", pc |-> "commit", actor |-> u, c |-> c]
  <2>1. Begin(w, r) /\ user[u].active
    BY <1>9 DEF BeginEditComment
  <2>2. StillTrue(r)
    BY <2>1 DEF StillTrue, CommentTrue
  <2> QED BY <2>1, <2>2, CareBegins
<1>10. ASSUME NEW c \in CommentId, BeginDeleteComment(w, u, c)
      PROVE  CareInv'
  <2> DEFINE r == [op |-> "deleteComment", pc |-> "commit", c |-> c]
  <2>1. /\ Begin(w, r) /\ user[u].active /\ c \in Live(comment)
        /\ comment[c].author = u \/ user[u].role \in MANAGER_AND_UP
    BY <1>10 DEF BeginDeleteComment
  <2>2. CommentTrue(r)
    BY <2>1 DEF CommentTrue, Live, Unused
  <2>3. StillTrue(r)
    BY <2>2 DEF StillTrue
  <2> QED BY <2>1, <2>3, CareBegins
<1> QED
  BY <1>1, <1>2, <1>3, <1>4, <1>5, <1>6, <1>7, <1>8, <1>9, <1>10

-------------------------------------------------------------------------------
(* A sync finds out what is true *)

\* A request on its way to a sync goes by the same facts, but for its place.
LEMMA SameGrounds ==
  ASSUME RaceInv, CommentRace, CareInv, NEW w \in Worker, req[w] # Idle,
         req[w].op \in Syncing, NEW r2,
         DOMAIN req[w] \subseteq DOMAIN r2,
         \A f \in DOMAIN req[w] \ {"pc", "eqSeen", "target"} : r2[f] = req[w][f],
         SyncTrue(r2), req[w].op = "createIssue" => req[w].pc # "insert",
         req[w].op = "createIssue" /\ r2.pc # "reload" =>
           req[w].pc # "reload" \/ req[w].row.severity = "critical"
  PROVE  StillTrue(r2) /\ r2.op = req[w].op /\ r2.i = req[w].i /\ r2.e = req[w].e
<1>1. /\ StillTrue(req[w]) /\ Meant(req[w]) /\ Grounded(req[w])
  BY DEF RaceInv, Requests, CommentRace, CareInv
<1>2. /\ r2.op = req[w].op /\ r2.i = req[w].i /\ r2.e = req[w].e
      /\ r2.op = "createIssue" => r2.row = req[w].row
      /\ r2.op = "transition" => /\ r2.actor = req[w].actor /\ r2.notes = req[w].notes
                                 /\ r2.writes = req[w].writes
  BY <1>1 DEF Meant, Field, Grounded, Syncing, OnIssue, WriterOps
<1>3. r2.op = "createIssue" => CreationTrue(r2)
  <2> SUFFICES ASSUME r2.op = "createIssue" PROVE CreationTrue(r2)
    OBVIOUS
  <2>1. CreationTrue(req[w])
    BY <1>1, <1>2 DEF StillTrue
  <2>2. PICK u \in User, sev \in Severities :
          /\ user[u].active /\ req[w].row = NewIssue(u, req[w].e, sev)
          /\ req[w].pc \notin {"insert", "reload"} => sev = "critical"
    BY <2>1 DEF CreationTrue
  <2>3. req[w].row.severity = sev
    BY <2>2 DEF NewIssue
  <2>4. r2.pc \notin {"insert", "reload"} => sev = "critical"
    BY <1>2, <2>2, <2>3
  <2> QED BY <1>2, <2>1, <2>2, <2>4 DEF CreationTrue
<1>4. r2.op = "transition" => MoveTrue(r2) /\ OnItsAsset(r2) /\ ~Unanswered(r2.i)
  BY <1>1, <1>2 DEF StillTrue, MoveTrue, OnItsAsset, OnIssue
<1> QED
  BY <1>2, <1>3, <1>4 DEF StillTrue, CommentTrue, Syncing, OnIssue, EquipmentEdits

\* So a step of a sync that leaves the tables alone keeps the invariant.
LEMMA SyncGoesOn ==
  ASSUME RaceInv, RaceInv', CommentRace, CareInv, NEW w \in Worker, req[w] # Idle,
         UNCHANGED tables, req[w].op \in Syncing,
         NEW r2, req' = [req EXCEPT ![w] = r2],
         DOMAIN req[w] \subseteq DOMAIN r2,
         \A f \in DOMAIN req[w] \ {"pc", "eqSeen", "target"} : r2[f] = req[w][f],
         SyncTrue(r2), req[w].op = "createIssue" => req[w].pc # "insert",
         req[w].op = "createIssue" /\ r2.pc # "reload" =>
           req[w].pc # "reload" \/ req[w].row.severity = "critical"
  PROVE  CareInv'
<1>1. StillTrue(r2) /\ r2.op = req[w].op /\ r2.i = req[w].i /\ r2.e = req[w].e
  BY SameGrounds
<1>2. Writing(w) /\ \A v \in Worker : v # w /\ Writing(v) => req[v].e # r2.e
  BY <1>1 DEF Writing, Syncing, WriterOps, CareInv, Apart
<1> QED BY <1>1, <1>2, CareQuiet DEF Doing, At

\* A request that is over leaves the tables as they are.
LEMMA QuietEnd ==
  ASSUME RaceInv, RaceInv', CareInv, NEW w \in Worker, Finish(w), UNCHANGED tables
  PROVE  CareInv'
BY CareQuiet DEF Finish

LEMMA CareGoesOn ==
  ASSUME RaceInv, RaceInv', CommentRace, CareInv, NEW w \in Worker,
         \/ ReloadIssue(w) \/ LoadEquipment(w) \/ FlushIssue(w)
         \/ SelectEquipment(w) \/ CountCritical(w) \/ FlushEquipment(w) \/ Fail(w)
  PROVE  CareInv'
<1>1. /\ UNCHANGED tables /\ req[w] # Idle /\ DOMAIN req = Worker
      /\ Meant(req[w]) /\ Placed(req[w]) /\ StillTrue(req[w])
  BY DEF ReloadIssue, LoadEquipment, FlushIssue, SelectEquipment, CountCritical,
         FlushEquipment, Fail, At, RaceInv, Requests, CareInv
<1>2. CASE Finish(w)
  BY <1>1, <1>2, QuietEnd
<1>3. ASSUME NEW step \in Steps, Goto(w, step), req[w].op \in Syncing,
             step # "insert", req[w].pc # "insert",
             req[w].op = "createIssue" /\ req[w].pc = "reload" =>
               req[w].row.severity = "critical",
             SyncTrue([req[w] EXCEPT !.pc = step])
      PROVE  CareInv'
  <2>1. PICK r2 : r2 = [req[w] EXCEPT !.pc = step]
    OBVIOUS
  <2>2. req' = [req EXCEPT ![w] = r2]
    BY <2>1, <1>3 DEF Goto
  <2>3. SyncTrue(r2)
    BY <1>3, <2>1
  <2> QED BY <1>1, <1>3, <2>1, <2>2, <2>3, SyncGoesOn
<1> USE DEF At, Field, Syncing, Holding, Steps
<1>4. CASE ReloadIssue(w)
  <2>1. CASE Finish(w)
    BY <1>2, <2>1
  <2>2. CASE Goto(w, "loadEq") /\ issue[req[w].i].severity = "critical"
    <3>1. /\ req[w].op = "createIssue" /\ req[w].pc = "reload"
          /\ req[w].row.severity = "critical" /\ SyncTrue(req[w])
      BY <1>1, <1>4, <2>2 DEF ReloadIssue, Placed, StillTrue, CreationTrue
    <3>2. SyncTrue([req[w] EXCEPT !.pc = "loadEq"])
      BY <1>1, <3>1 DEF SyncTrue
    <3> QED BY <1>3, <2>2, <3>1, <3>2
  <2> QED BY <1>4, <2>1, <2>2 DEF ReloadIssue
<1>5. CASE FlushIssue(w)
  <2>1. CASE Finish(w)
    BY <1>2, <2>1
  <2>2. CASE Goto(w, "selectEq")
    <3>1. req[w].op = "transition" /\ req[w].pc = "flush" /\ SyncTrue(req[w])
      BY <1>1, <1>5 DEF FlushIssue, Placed, StillTrue
    <3>2. SyncTrue([req[w] EXCEPT !.pc = "selectEq"])
      BY <1>1, <3>1 DEF SyncTrue, Meant, WriterOps
    <3> QED BY <1>3, <2>2, <3>1, <3>2
  <2> QED BY <1>5, <2>1, <2>2 DEF FlushIssue
<1>6. CASE SelectEquipment(w)
  <2>1. req[w].op \in Syncing /\ req[w].pc = "selectEq" /\ SyncTrue(req[w])
    BY <1>1, <1>6 DEF SelectEquipment, Placed, StillTrue
  <2>2. CASE Reachable(req[w].e) /\ req[w].eqSeen # "decommissioned"
    <3>1. Goto(w, "count")
      BY <1>6, <2>2 DEF SelectEquipment
    <3>2. SyncTrue([req[w] EXCEPT !.pc = "count"])
      BY <1>1, <2>1, <2>2 DEF SyncTrue, Meant, WriterOps
    <3> QED BY <1>3, <2>1, <3>1, <3>2
  <2>3. CASE ~(Reachable(req[w].e) /\ req[w].eqSeen # "decommissioned")
    <3>1. Goto(w, "commit")
      BY <1>6, <2>3 DEF SelectEquipment
    <3>2. SyncTrue([req[w] EXCEPT !.pc = "commit"])
      BY <1>1, <2>1, <2>3 DEF SyncTrue, Meant, WriterOps
    <3> QED BY <1>3, <2>1, <3>1, <3>2
  <2> QED BY <2>2, <2>3
<1>7. CASE LoadEquipment(w)
  <2>1. PICK r2 : /\ req' = [req EXCEPT ![w] = r2]
                  /\ r2 = [f \in DOMAIN req[w] \cup {"eqSeen"} |->
                             CASE f = "eqSeen" -> equipment[req[w].e].status
                               [] f = "pc"     -> IF Doing(w, "transition") THEN "flush"
                                                                            ELSE "selectEq"
                               [] OTHER        -> req[w][f]]
    BY <1>1, <1>7 DEF LoadEquipment
  <2>2. req[w].op \in Syncing /\ req[w].pc = "loadEq" /\ SyncTrue(req[w])
    BY <1>1, <1>7 DEF LoadEquipment, Placed, StillTrue
  <2>3. /\ r2.pc \in {"flush", "selectEq"} /\ r2.eqSeen = equipment[req[w].e].status
        /\ DOMAIN r2 = DOMAIN req[w] \cup {"eqSeen"}
        /\ \A f \in DOMAIN req[w] \ {"pc", "eqSeen"} : r2[f] = req[w][f]
    BY <1>1, <2>1 DEF Placed
  <2>4. r2.e = req[w].e /\ "target" \notin DOMAIN r2
    BY <1>1, <2>2, <2>3 DEF Meant, WriterOps, SyncTrue
  <2>5. SyncTrue(r2)
    BY <2>3, <2>4 DEF SyncTrue
  <2> QED BY <1>1, <2>1, <2>2, <2>3, <2>5, SyncGoesOn
<1>8. CASE CountCritical(w)
  <2>1. PICK r2 : /\ req' = [req EXCEPT ![w] = r2]
                  /\ r2 = [f \in DOMAIN req[w] \cup {"target"} |->
                             CASE f = "target" -> SyncTarget(req[w].eqSeen,
                                                    HasActiveCritical(SeenBy(w), req[w].e))
                               [] f = "pc"     -> "commit"
                               [] OTHER        -> req[w][f]]
    BY <1>1, <1>8 DEF CountCritical
  <2>2. /\ req[w].op \in Syncing /\ req[w].pc = "count" /\ SyncTrue(req[w])
        /\ Reachable(req[w].e) /\ req[w].eqSeen # "decommissioned" /\ "eqSeen" \in DOMAIN req[w]
    BY <1>1, <1>8 DEF CountCritical, Placed, StillTrue, SyncTrue
  <2>3. /\ r2.pc = "commit"
        /\ r2.target = SyncTarget(req[w].eqSeen, HasActiveCritical(SeenBy(w), req[w].e))
        /\ DOMAIN r2 = DOMAIN req[w] \cup {"target"}
        /\ \A f \in DOMAIN req[w] \ {"pc", "target"} : r2[f] = req[w][f]
    BY <1>1, <2>1 DEF Placed
  <2>4. /\ r2.e = req[w].e /\ r2.eqSeen = req[w].eqSeen /\ r2.op = req[w].op
        /\ r2.op = "transition" => r2.writes = req[w].writes /\ r2.i = req[w].i
    BY <1>1, <2>2, <2>3 DEF Meant, WriterOps, OnIssue
  <2>5. SeenIn(r2) = SeenBy(w)
    BY <1>1, <2>4 DEF SeenIn, SeenBy, Doing
  <2>6. SyncTrue(r2)
    BY <2>2, <2>3, <2>4, <2>5 DEF SyncTrue
  <2> QED BY <1>1, <2>1, <2>2, <2>3, <2>6, SyncGoesOn
<1>9. CASE FlushEquipment(w)
  <2>1. PICK r2 : /\ req' = [req EXCEPT ![w] = r2]
                  /\ DOMAIN r2 = DOMAIN req[w] \cup {"holds"}
                  /\ \A f \in DOMAIN req[w] : r2[f] = req[w][f]
    BY <1>9, FlushHolds
  <2>2. req[w].pc = "commit" /\ req[w].op \in Syncing \cup EquipmentEdits
    BY <1>1, <1>9 DEF FlushEquipment, WritesAsset, Doing, Placed, EquipmentEdits
  <2>3. /\ r2.op = req[w].op /\ r2.pc = "commit" /\ r2.e = req[w].e
        /\ r2.op \in Syncing => r2.i = req[w].i
        /\ r2.op = "createIssue" => r2.row = req[w].row
        /\ r2.op \in {"transition"} \cup EquipmentEdits => r2.writes = req[w].writes
    <3>1. {"op", "pc", "e"} \subseteq DOMAIN req[w]
      BY <1>1, <2>2 DEF Meant, Placed, Field, Syncing, WriterOps, EquipmentEdits
    <3>2. req[w].op \in Syncing => "i" \in DOMAIN req[w]
      BY <1>1 DEF Meant, Field, Syncing, OnIssue
    <3>3. req[w].op = "createIssue" => "row" \in DOMAIN req[w]
      BY <1>1 DEF Meant, Field
    <3>4. req[w].op \in {"transition"} \cup EquipmentEdits => "writes" \in DOMAIN req[w]
      BY <1>1 DEF Meant
    <3>5. r2.op = req[w].op /\ r2.pc = "commit" /\ r2.e = req[w].e
      BY <2>1, <2>2, <3>1
    <3> QED BY <2>1, <3>2, <3>3, <3>4, <3>5
  <2>4. CASE req[w].op \in Syncing
    <3>1. SyncTrue(req[w]) /\ SeenIn(r2) = SeenIn(req[w])
      BY <1>1, <2>3, <2>4 DEF StillTrue, SeenIn
    <3>2. /\ "eqSeen" \in DOMAIN r2 /\ r2.eqSeen = req[w].eqSeen
          /\ "target" \in DOMAIN r2 <=> "target" \in DOMAIN req[w]
          /\ "target" \in DOMAIN req[w] => r2.target = req[w].target
      BY <2>1, <2>2, <3>1 DEF SyncTrue, Holding
    <3>3. SyncTrue(r2)
      BY <2>2, <2>3, <3>1, <3>2 DEF SyncTrue
    <3> QED BY <1>1, <2>1, <2>2, <2>4, <3>3, SyncGoesOn
  <2>5. CASE req[w].op \in EquipmentEdits
    <3>1. AssetEditTrue(req[w])
      BY <1>1, <2>5 DEF StillTrue
    <3>2. AssetEditTrue(r2)
      BY <2>3, <2>5, <3>1 DEF AssetEditTrue
    <3>3. StillTrue(r2)
      BY <2>3, <2>5, <3>2 DEF StillTrue, CommentTrue, OnIssue, EquipmentEdits
    <3>4. Writing(w) /\ \A v \in Worker : v # w /\ Writing(v) => req[v].e # r2.e
      BY <1>1, <2>3, <2>5 DEF Writing, EquipmentEdits, WriterOps, CareInv, Apart
    <3> QED BY <1>1, <2>1, <2>3, <2>5, <3>3, <3>4, CareQuiet DEF EquipmentEdits
  <2> QED BY <2>2, <2>4, <2>5
<1>10. CASE Fail(w)
  BY <1>2, <1>10 DEF Fail
<1> QED BY <1>4, <1>5, <1>6, <1>7, <1>8, <1>9, <1>10

-------------------------------------------------------------------------------
(* Requests write what they mean to *)

LEMMA CareInserts ==
  ASSUME RaceInv, RaceInv', CareInv, NEW w \in Worker, InsertIssue(w)
  PROVE  CareInv'
<1> DEFINE i == req[w].i
<1>1. /\ req[w] # Idle /\ req[w].pc = "insert" /\ req[w].op = "createIssue"
      /\ Meant(req[w]) /\ Placed(req[w]) /\ Known(req[w], equipment, issue)
      /\ StillTrue(req[w]) /\ DOMAIN req = Worker
      /\ issue' = [issue EXCEPT ![i] = req[w].row]
      /\ UNCHANGED <<user, equipment, comment>>
  BY DEF InsertIssue, At, RaceInv, Requests, Placed, CareInv
<1>2. /\ i \in IssueId /\ req[w].row \in IssueRow /\ issue[i] = NotYet
      /\ CreationTrue(req[w]) /\ SyncTrue(req[w]) /\ Writing(w)
  BY <1>1 DEF Meant, Field, Known, OnIssue, Syncing, WriterOps, StillTrue, Writing
<1>3. PICK r2 : r2 = [req[w] EXCEPT !.pc = "reload"]
  OBVIOUS
<1>4. req' = [req EXCEPT ![w] = r2]
  BY <1>3 DEF InsertIssue, Goto
<1>5. /\ r2.pc = "reload" /\ DOMAIN r2 = DOMAIN req[w]
      /\ r2.op = "createIssue" /\ r2.i = i /\ r2.e = req[w].e /\ r2.row = req[w].row
  BY <1>1, <1>3 DEF Placed, Meant, Field, OnIssue, WriterOps
<1>6. \A v \in Worker : req'[v] = IF v = w THEN r2 ELSE req[v]
  BY <1>1, <1>4
<1>7. /\ issue'[i] = req[w].row /\ \A j \in IssueId : j # i => issue'[j] = issue[j]
  BY <1>1, <1>2 DEF RaceInv, TypeOK
<1>8. req[w].row.equipment = req[w].e
  BY <1>2 DEF CreationTrue, NewIssue
<1> HIDE DEF i
<1>9. \A j \in IssueId : IssueFrame({w}, j)
  BY <1>2, <1>7, <1>8 DEF IssueFrame
<1>10. \A j \in IssueId : Unanswered(j)' => Unanswered(j) \/ issue[j] = NotYet
  BY <1>2, <1>5, <1>6 DEF Unanswered, Doing, At
<1>11. Frame({w})
  BY <1>1, <1>9, <1>10 DEF Frame, Live
<1>12. StillTrue(r2)'
  <2>1. CreationTrue(r2)'
    BY <1>1, <1>2, <1>5, <1>7 DEF CreationTrue, Reachable, Live
  <2>2. SyncTrue(r2)'
    BY <1>1, <1>2, <1>5 DEF SyncTrue, Holding
  <2> QED BY <1>5, <2>1, <2>2 DEF StillTrue, CommentTrue, OnIssue, EquipmentEdits
<1>13. req'[w] # Idle => StillTrue(req[w])'
  BY <1>6, <1>12 DEF StillTrue
<1>14. \A v \in Worker : v # w /\ Writing(w)' /\ Writing(v)' => req'[v].e # req'[w].e
  BY <1>2, <1>5, <1>6 DEF Writing, CareInv, Apart
<1>15. Live(equipment) \subseteq Live(equipment')
  BY <1>1
<1> QED BY <1>6, <1>11, <1>13, <1>14, <1>15, CareStep

\* A request that is over, having written only what a frame allows.
LEMMA CareEnds ==
  ASSUME RaceInv, RaceInv', CareInv, NEW w \in Worker, Finish(w), user' = user,
         \A e \in Live(equipment) :
           equipment'[e] = equipment[e] \/ (Writing(w) /\ req[w].e = e),
         Live(equipment) \subseteq Live(equipment'),
         \A i \in IssueId : IssueFrame({w}, i),
         \A c \in CommentId : comment[c] # NotYet =>
           /\ comment'[c] # NotYet
           /\ c \in Live(comment') => c \in Live(comment) /\ comment'[c].author = comment[c].author
  PROVE  CareInv'
<1>1. \A v \in Worker : req'[v] = IF v = w THEN Idle ELSE req[v]
  BY DEF Finish, RaceInv, Requests
<1>2. \A i : Unanswered(i)' => Unanswered(i)
  BY <1>1 DEF Unanswered, Doing, At
<1>3. Frame({w})
  BY <1>2 DEF Frame
<1>4. ~Writing(w)' /\ req'[w] = Idle
  BY <1>1 DEF Writing
<1> QED BY <1>1, <1>3, <1>4, CareStep

\* What a move, an edit or an assignment does to the issues.
LEMMA OverlaidFrame ==
  ASSUME RaceInv, CareInv, NEW w \in Worker, req[w] # Idle, req[w].i \in Live(issue),
         req[w].op \in {"transition", "updateIssue", "assignIssue"},
         issue' = [issue EXCEPT ![req[w].i] = Overlay(@, req[w].writes)]
  PROVE  \A i \in IssueId : IssueFrame({w}, i)
<1> DEFINE i == req[w].i
<1>1. /\ i \in IssueId /\ issue[i] \in IssueRow /\ StillTrue(req[w]) /\ ~Unanswered(i)
      /\ IssueWritesOK(req[w].writes, WritableBy(req[w].op))
      /\ issue'[i] = Overlay(issue[i], req[w].writes)
      /\ \A j \in IssueId : j # i => issue'[j] = issue[j]
  BY StoredRows DEF RaceInv, Requests, Meant, CareInv, StillTrue, OnIssue, TypeOK
<1> HIDE DEF i
<1>2. issue'[i] \in IssueRow
  BY <1>1, WritableColumns, OverlayIssue
<1>3. \A f \in IssueColumns : f \notin WritableBy(req[w].op) => issue'[i][f] = issue[i][f]
  BY <1>1 DEF Overlay, IssueWritesOK, IssueRow, IssueColumns
<1>4. IssueFrame({w}, i)
  <2>1. CASE req[w].op = "assignIssue"
    <3>1. Twin(issue[i], issue'[i])
      BY <1>1, <1>2, <1>3, <2>1 DEF Twin, WritableBy
    <3> QED BY <1>1, <3>1 DEF IssueFrame, i
  <2>2. CASE req[w].op \in {"transition", "updateIssue"}
    <3>1. Writing(w) /\ issue[i].equipment = req[w].e
      BY <1>1, <2>2 DEF Writing, WriterOps, StillTrue, OnItsAsset, i
    <3>2. issue'[i].equipment = issue[i].equipment /\ issue'[i].reporter = issue[i].reporter
      BY <1>3, <2>2 DEF WritableBy, IssueColumns
    <3> QED BY <1>1, <1>2, <3>1, <3>2 DEF IssueFrame, i
  <2> QED BY <2>1, <2>2
<1> QED BY <1>1, <1>4 DEF IssueFrame

LEMMA CareCommits ==
  ASSUME RaceInv, RaceInv', CommentRace, CareInv, NEW w \in Worker,
         \/ CommitNewIssueSync(w) \/ CommitTransition(w)
         \/ CommitIssueEdit(w) \/ CommitDeleteIssue(w) \/ CommitEquipmentEdit(w)
         \/ CommitAddComment(w) \/ CommitCommentEdit(w)
  PROVE  CareInv'
<1>1. /\ req[w] # Idle /\ req[w].pc = "commit" /\ Finish(w) /\ UNCHANGED user
      /\ Meant(req[w]) /\ Placed(req[w]) /\ Known(req[w], equipment, issue)
      /\ StillTrue(req[w]) /\ Grounded(req[w])
  BY DEF CommitNewIssueSync, CommitTransition, CommitIssueEdit, CommitDeleteIssue,
         CommitEquipmentEdit, CommitAddComment, CommitCommentEdit, At, RaceInv, Requests,
         CareInv, CommentRace
<1>2. issue' = issue => \A i \in IssueId : IssueFrame({w}, i)
  BY DEF IssueFrame
<1>3. ASSUME req[w].op \in Syncing, equipment' = EquipmentAfterSync(w)
      PROVE  /\ \A e \in Live(equipment) :
                  equipment'[e] = equipment[e] \/ (Writing(w) /\ req[w].e = e)
             /\ Live(equipment) \subseteq Live(equipment')
  <2>1. Writing(w)
    BY <1>1, <1>3 DEF Writing, Syncing, WriterOps
  <2> QED BY <1>1, <1>3, <2>1, SyncKeeps DEF EquipmentAfterSync
<1>4. CASE CommitNewIssueSync(w)
  BY <1>1, <1>2, <1>3, <1>4, CareEnds DEF CommitNewIssueSync, Doing, Syncing, Live
<1>5. CASE CommitTransition(w)
  <2>1. /\ req[w].op = "transition" /\ req[w].i \in Live(issue)
        /\ issue' = [issue EXCEPT ![req[w].i] = Overlay(@, req[w].writes)]
    BY <1>1, <1>5 DEF CommitTransition, Doing, SeenBy, Known, Holding
  <2>2. \A c \in CommentId : comment[c] # NotYet => comment'[c] = comment[c]
    BY <1>1, <1>5, <2>1 DEF CommitTransition, Grounded, Drawn, Unused
  <2>3. \A c \in CommentId : comment[c] # NotYet =>
          /\ comment'[c] # NotYet
          /\ c \in Live(comment') => c \in Live(comment) /\ comment'[c].author = comment[c].author
    BY <2>2 DEF Live, RaceInv, TypeOK
  <2> QED BY <1>1, <1>3, <1>5, <2>1, <2>3, OverlaidFrame, CareEnds
          DEF CommitTransition, Syncing
<1>6. CASE CommitIssueEdit(w)
  <2>1. \A i \in IssueId : IssueFrame({w}, i)
    BY <1>1, <1>2, <1>6, OverlaidFrame DEF CommitIssueEdit, Doing
  <2> QED BY <1>1, <1>6, <2>1, CareEnds DEF CommitIssueEdit, Live
<1>7. CASE CommitDeleteIssue(w)
  <2>1. /\ OnItsAsset(req[w]) /\ ~Unanswered(req[w].i) /\ Writing(w) /\ req[w].i \in IssueId
        /\ issue' = [issue EXCEPT ![req[w].i] = Gone]
        /\ comment' = CommentsWithout(req[w].i)
    BY <1>1, <1>7
    DEF CommitDeleteIssue, Doing, StillTrue, OnIssue, Writing, WriterOps, Meant, Field
  <2>2. \A i \in IssueId : IssueFrame({w}, i)
    BY <2>1 DEF IssueFrame, OnItsAsset, RaceInv, TypeOK
  <2>3. \A c \in CommentId : comment[c] # NotYet =>
          /\ comment'[c] # NotYet
          /\ c \in Live(comment') => c \in Live(comment) /\ comment'[c].author = comment[c].author
    BY <2>1, SentinelAssumption DEF CommentsWithout, Live, RaceInv, TypeOK
  <2> QED BY <1>1, <1>7, <2>2, <2>3, CareEnds DEF CommitDeleteIssue, Live
<1>8. CASE CommitEquipmentEdit(w)
  <2>1. /\ req[w].e \in Live(equipment) /\ EquipmentWritesOK(req[w].writes) /\ Writing(w)
    BY <1>1, <1>8
    DEF CommitEquipmentEdit, Doing, Meant, Known, EquipmentEdits, Writing, WriterOps
  <2>2. req[w].e \in EquipmentId /\ equipment[req[w].e] \in EquipmentRow
    BY <2>1, StoredRows DEF RaceInv
  <2>3. Overlay(equipment[req[w].e], req[w].writes) \in EquipmentRow
    BY <2>1, <2>2, OverlayEquipment
  <2>4. /\ Live(equipment) \subseteq Live(equipment')
        /\ \A e \in Live(equipment) : equipment'[e] = equipment[e] \/ req[w].e = e
    BY <1>8, <2>2, <2>3, SentinelAssumption
    DEF CommitEquipmentEdit, RaceInv, TypeOK, Live
  <2> QED BY <1>1, <1>2, <1>8, <2>1, <2>4, CareEnds DEF CommitEquipmentEdit, Live
<1>9. CASE CommitAddComment(w)
  <2>1. comment[req[w].c] = NotYet
    BY <1>1, <1>9 DEF CommitAddComment, Doing, Grounded, Drawn, Unused
  <2>2. \A c \in CommentId : comment[c] # NotYet => comment'[c] = comment[c]
    BY <1>9, <2>1 DEF CommitAddComment
  <2>3. \A c \in CommentId : comment[c] # NotYet =>
          /\ comment'[c] # NotYet
          /\ c \in Live(comment') => c \in Live(comment) /\ comment'[c].author = comment[c].author
    BY <2>2 DEF Live, RaceInv, TypeOK
  <2> QED BY <1>1, <1>2, <1>9, <2>3, CareEnds DEF CommitAddComment, Live
<1>10. CASE CommitCommentEdit(w)
  <2>1. ASSUME NEW c \in CommentId, comment[c] # NotYet
        PROVE  /\ comment'[c] # NotYet
               /\ c \in Live(comment') =>
                    c \in Live(comment) /\ comment'[c].author = comment[c].author
    <3>1. c \in Live(comment) => comment[c] \in CommentRow
      BY StoredRows DEF RaceInv
    <3>2. DOMAIN comment = CommentId /\ DOMAIN comment' = CommentId
      BY DEF RaceInv, TypeOK
    <3>3. CASE comment'[c] = comment[c]
      BY <2>1, <3>2, <3>3 DEF Live
    <3>4. CASE comment'[c] = Gone
      BY <3>4, SentinelAssumption DEF Live
    <3>5. CASE c \in Live(comment) /\ comment'[c] = [comment[c] EXCEPT !.words = req[w].actor]
      <4>1. comment'[c].author = comment[c].author /\ comment'[c] # NotYet
        <5>1. DOMAIN comment'[c] = DOMAIN comment[c] /\ comment'[c].author = comment[c].author
          BY <3>1, <3>5 DEF CommentRow
        <5>2. Doing(w, "editComment") => comment'[c] \in CommentRow
          BY <1>1, <3>1, <3>5 DEF Doing, Meant, Field, CommentRow
        <5>3. c = req[w].c => Doing(w, "editComment") \/ Doing(w, "deleteComment")
          BY <1>10 DEF CommitCommentEdit
        <5> QED BY <1>10, <3>1, <3>5, <5>1, <5>2, <5>3, SentinelAssumption
            DEF CommitCommentEdit, Live, Doing
      <4> QED BY <3>5, <4>1
    <3> QED BY <1>10, <3>2, <3>3, <3>4, <3>5 DEF CommitCommentEdit
  <2> QED BY <1>1, <1>2, <1>10, <2>1, CareEnds DEF CommitCommentEdit
<1> QED BY <1>4, <1>5, <1>6, <1>7, <1>8, <1>9, <1>10

-------------------------------------------------------------------------------
(* The invariant holds *)

LEMMA CareStart == RequestInit => CareInv
BY DEF RequestInit, Init, CareInv, Apart, Writing, IssuesOnAssets, Live

LEMMA CareNext ==
  ASSUME RaceInv, RaceInv', CommentRace, CareInv, OneWriter, [RequestNext]_rvars
  PROVE  CareInv'
<1>1. ASSUME NEW w \in Worker, Arrive(w) PROVE CareInv'
  BY <1>1, CareArrives
<1>2. ASSUME NEW w \in Worker, Proceed(w) PROVE CareInv'
  BY <1>2, CareInserts, CareGoesOn, CareCommits DEF Proceed
<1>3. ASSUME NEW w \in Worker, Fail(w) PROVE CareInv'
  BY <1>3, CareGoesOn
<1>4. ASSUME UNCHANGED <<user, issue, comment, req>>,
             \A e \in Live(equipment) : equipment'[e] = equipment[e],
             DOMAIN equipment' = DOMAIN equipment
      PROVE  CareInv'
  <2>1. \A i : Unanswered(i)' <=> Unanswered(i)
    BY <1>4 DEF Unanswered, Doing, At
  <2>2. Frame({})
    BY <1>4, <2>1 DEF Frame, IssueFrame, Live
  <2>3. Live(equipment) \subseteq Live(equipment')
    BY <1>4 DEF Live
  <2> QED BY <1>4, <2>2, <2>3, CareStep
<1>5. ASSUME NEW u \in User, NEW e \in EquipmentId, NEW s \in EquipmentStatus,
             CreateEquipmentNow(u, e, s)
      PROVE  CareInv'
  BY <1>4, <1>5 DEF CreateEquipmentNow, CreateEquipment, Unused, Live
<1>6. CASE UNCHANGED rvars
  BY <1>4, <1>6 DEF rvars
<1> QED BY <1>1, <1>2, <1>3, <1>5, <1>6 DEF RequestNext

\* For careful clients, what a request in flight goes by stays true until it
\* commits: nobody else writes its asset, the issues of that asset are still
\* counted alike, and its own issue has only been assigned.
THEOREM CareInvariant ==
  ASSUME OneWriter PROVE RequestSpec => [](RaceInv /\ CommentRace /\ CareInv)
<1>1. OneWriter
  OBVIOUS
<1>2. RaceInv /\ RaceInv' /\ CommentRace /\ CareInv /\ [RequestNext]_rvars => CareInv'
  BY <1>1, CareNext
<1> QED BY <1>2, CareStart, CommentStart, CommentsGoOn, RaceInvariant, PTL DEF RequestSpec

-------------------------------------------------------------------------------
(* The atomic tracker's operators, on the issues that show *)

LEMMA AtomicReads ==
  /\ \A t : Atomic!Live(t) = Live(t) /\ Atomic!Unused(t) = Unused(t)
  /\ \A e : Atomic!Reachable(e) <=> Reachable(e)
  /\ \A u, roles : Atomic!HasRole(u, roles) <=> HasRole(u, roles)
  /\ \A u, e, sev : Atomic!NewIssue(u, e, sev) = NewIssue(u, e, sev)
  /\ \A u, i, internal : Atomic!NewComment(u, i, internal) = NewComment(u, i, internal)
  /\ \A i : Atomic!CommentsWithout(i) = CommentsWithout(i)
<1>1. \A t : Atomic!Live(t) = Live(t)
  BY DEF Atomic!Live, Live
<1>2. \A t : Atomic!Unused(t) = Unused(t)
  BY DEF Atomic!Unused, Unused
<1>3. \A e : Atomic!Reachable(e) <=> Reachable(e)
  BY <1>1 DEF Atomic!Reachable, Reachable
<1>4. \A u, roles : Atomic!HasRole(u, roles) <=> HasRole(u, roles)
  BY DEF Atomic!HasRole, HasRole
<1>5. \A u, e, sev : Atomic!NewIssue(u, e, sev) = NewIssue(u, e, sev)
  BY DEF Atomic!NewIssue, NewIssue
<1>6. \A u, i, internal : Atomic!NewComment(u, i, internal) = NewComment(u, i, internal)
  BY DEF Atomic!NewComment, NewComment
<1>7. \A i : Atomic!CommentsWithout(i) = CommentsWithout(i)
  BY <1>1 DEF Atomic!CommentsWithout, CommentsWithout
<1> QED BY <1>1, <1>2, <1>3, <1>4, <1>5, <1>6, <1>7

LEMMA AtomicRules ==
  /\ \A role, from, to : Atomic!MayMove(role, from, to) <=> MayMove(role, from, to)
  /\ \A row, to, u : Atomic!Moved(row, to, u, NoUser) = Moved(row, to, u, NoUser)
  /\ \A s, active : Atomic!SyncTarget(s, active) = SyncTarget(s, active)
  /\ \A role, u, row : Atomic!CanAccessIssue(role, u, row) <=> CanAccessIssue(role, u, row)
  /\ \A rows, e : Atomic!HasActiveCritical(rows, e) <=> HasActiveCritical(rows, e)
<1>1. Atomic!STAFF_AND_UP = STAFF_AND_UP /\ Atomic!MANAGER_AND_UP = MANAGER_AND_UP
  BY DEF Atomic!STAFF_AND_UP, STAFF_AND_UP, Atomic!MANAGER_AND_UP, MANAGER_AND_UP
<1>2. Atomic!TRANSITIONS = TRANSITIONS
  BY <1>1 DEF Atomic!TRANSITIONS, TRANSITIONS, Atomic!StaffMoves, StaffMoves,
              Atomic!ManagerMoves, ManagerMoves
<1>3. \A role, from, to : Atomic!MayMove(role, from, to) <=> MayMove(role, from, to)
  BY <1>2 DEF Atomic!MayMove, MayMove
<1>4. \A row, to, u : Atomic!Moved(row, to, u, NoUser) = Moved(row, to, u, NoUser)
  BY DEF Atomic!Moved, Moved
<1>5. \A s, active : Atomic!SyncTarget(s, active) = SyncTarget(s, active)
  BY DEF Atomic!SyncTarget, SyncTarget
<1>6. \A role, u, row : Atomic!CanAccessIssue(role, u, row) <=> CanAccessIssue(role, u, row)
  BY <1>1 DEF Atomic!CanAccessIssue, CanAccessIssue
<1>7. \A row : Atomic!ActiveCritical(row) <=> ActiveCritical(row)
  BY DEF Atomic!ActiveCritical, ActiveCritical, Atomic!ActiveStatuses, ActiveStatuses
<1>8. \A rows, e : Atomic!HasActiveCritical(rows, e) <=> HasActiveCritical(rows, e)
  BY <1>7, AtomicReads DEF Atomic!HasActiveCritical, HasActiveCritical
<1> QED BY <1>3, <1>4, <1>5, <1>6, <1>8

LEMMA AtomicSize == \A S : Atomic!Cardinality(S) = Cardinality(S)
BY DEF Atomic!Cardinality, Cardinality

LEMMA AtomicSync ==
  ASSUME NEW rows, NEW e
  PROVE  Atomic!SyncedEquipment(rows, e) = SyncedEquipment(rows, e)
<1>1. Atomic!HasActiveCritical(rows, e) = HasActiveCritical(rows, e)
  BY AtomicRules DEF Atomic!HasActiveCritical, HasActiveCritical
<1>2. \A s : Atomic!SyncTarget(s, Atomic!HasActiveCritical(rows, e))
               = SyncTarget(s, HasActiveCritical(rows, e))
  BY <1>1, AtomicRules
<1>3. Atomic!Reachable(e) <=> Reachable(e)
  BY AtomicReads
<1> QED BY <1>2, <1>3 DEF Atomic!SyncedEquipment, SyncedEquipment

\* An issue shows as it is stored, once its creation is over.
LEMMA ShownRows ==
  /\ DOMAIN Shown = IssueId
  /\ \A i \in IssueId : /\ Unanswered(i) => Shown[i] = NotYet
                        /\ ~Unanswered(i) => Shown[i] = issue[i]
BY DEF Shown

LEMMA ShownRowsNext ==
  /\ Shown' \in [IssueId -> {Shown'[i] : i \in IssueId}]
  /\ \A i \in IssueId : /\ Unanswered(i)' => Shown'[i] = NotYet
                        /\ ~Unanswered(i)' => Shown'[i] = issue'[i]
BY DEF Shown

\* While no creation ends and no issue that shows is written, nothing shows.
LEMMA NothingShows ==
  ASSUME \A i \in IssueId : /\ Unanswered(i)' <=> Unanswered(i)
                            /\ ~Unanswered(i) => issue'[i] = issue[i]
  PROVE  Shown' = Shown
<1>1. ASSUME NEW i \in IssueId PROVE Shown'[i] = Shown[i]
  BY ShownRows, ShownRowsNext
<1>2. Shown = [i \in IssueId |-> Shown[i]]
  BY DEF Shown
<1>3. Shown' = [i \in IssueId |-> Shown'[i]]
  BY DEF Shown
<1> QED BY <1>1, <1>2, <1>3

\* One issue that shows is written, and no creation ends.
LEMMA OneShows ==
  ASSUME NEW i \in IssueId, NEW row,
         \A j \in IssueId : /\ j # i => (Unanswered(j)' <=> Unanswered(j))
                            /\ j # i /\ ~Unanswered(j) => issue'[j] = issue[j],
         ~Unanswered(i)', issue'[i] = row
  PROVE  Shown' = [Shown EXCEPT ![i] = row]
<1>1. ASSUME NEW j \in IssueId, j # i PROVE Shown'[j] = Shown[j]
  BY <1>1, ShownRows, ShownRowsNext
<1>2. Shown'[i] = row
  BY ShownRowsNext
<1>3. Shown' = [j \in IssueId |-> Shown'[j]]
  BY DEF Shown
<1>4. [Shown EXCEPT ![i] = row] = [j \in IssueId |-> IF j = i THEN row ELSE Shown[j]]
  BY ShownRows
<1> QED BY <1>1, <1>2, <1>3, <1>4

\* A stored issue in creation is on the asset its request names.
LEMMA CreatedOnAsset ==
  ASSUME CareInv, NEW v \in Worker, Doing(v, "createIssue"), ~At(v, "insert")
  PROVE  issue[req[v].i] = req[v].row /\ req[v].row.equipment = req[v].e
<1>1. CreationTrue(req[v]) /\ req[v].pc # "insert"
  BY DEF Doing, At, CareInv, StillTrue
<1> QED BY <1>1 DEF CreationTrue, NewIssue

\* Two careful creations are of two issues.
LEMMA OneCreator ==
  ASSUME CareInv, NEW v \in Worker, NEW w \in Worker, v # w,
         Doing(v, "createIssue"), Doing(w, "createIssue"), ~At(v, "insert"), ~At(w, "insert")
  PROVE  req[v].i # req[w].i
<1>1. req[v].e # req[w].e
  BY DEF CareInv, Apart, Writing, Doing, WriterOps
<1> QED BY <1>1, CreatedOnAsset

\* The end of any other request, or of a creation that had stored nothing.
LEMMA OthersUnanswered ==
  ASSUME RaceInv, NEW w \in Worker, req[w] # Idle, Finish(w),
         ~Doing(w, "createIssue") \/ At(w, "insert"), NEW i
  PROVE  Unanswered(i)' <=> Unanswered(i)
<1>1. \A v \in Worker : req'[v] = IF v = w THEN Idle ELSE req[v]
  BY DEF Finish, RaceInv, Requests
<1> QED BY <1>1 DEF Unanswered, Doing, At

\* The end of a creation: its issue shows from now on.
LEMMA Answered ==
  ASSUME RaceInv, CareInv, NEW w \in Worker, Finish(w), UNCHANGED issue,
         Doing(w, "createIssue"), ~At(w, "insert")
  PROVE  /\ req[w].i \in IssueId /\ Shown[req[w].i] = NotYet
         /\ Shown' = [Shown EXCEPT ![req[w].i] = req[w].row]
<1>0. PICK i : i = req[w].i
  OBVIOUS
<1>1. /\ i \in IssueId /\ issue[i] = req[w].row /\ Unanswered(i)
  BY <1>0, CreatedOnAsset DEF RaceInv, Requests, Meant, Field, OnIssue, Doing, Unanswered
<1>2. \A v \in Worker : req'[v] = IF v = w THEN Idle ELSE req[v]
  BY DEF Finish, RaceInv, Requests
<1>3. ~Unanswered(i)'
  BY <1>0, <1>2, OneCreator DEF Unanswered, Doing, At
<1>4. \A j : j # i => (Unanswered(j)' <=> Unanswered(j))
  BY <1>0, <1>2 DEF Unanswered, Doing, At
<1> QED BY <1>0, <1>1, <1>3, <1>4, OneShows, ShownRows

\* What does not show of an asset's issues does not count when its writer commits.
LEMMA ShownCounts ==
  ASSUME RaceInv, CareInv, NEW w \in Worker, Writing(w), Finish(w),
         req[w].op \in Syncing, issue' = SeenBy(w)
  PROVE  HasActiveCritical(Shown', req[w].e) = HasActiveCritical(SeenIn(req[w]), req[w].e)
<1>1. SeenIn(req[w]) = SeenBy(w)
  BY DEF SeenIn, SeenBy, Doing, Writing
<1>2. \A v \in Worker : req'[v] = IF v = w THEN Idle ELSE req[v]
  BY DEF Finish, RaceInv, Requests
<1>3. DOMAIN issue = IssueId /\ DOMAIN issue' = IssueId
  BY DEF RaceInv, TypeOK, SeenBy
<1>4. ASSUME NEW i \in IssueId, Unanswered(i)'
      PROVE  ~Counts(issue'[i], req[w].e)
  <2>1. PICK v \in Worker :
          v # w /\ Doing(v, "createIssue") /\ ~At(v, "insert") /\ req[v].i = i
    BY <1>2, <1>4 DEF Unanswered, Doing, At
  <2>2. req[v].e # req[w].e
    BY <2>1 DEF CareInv, Apart, Writing, Doing, WriterOps
  <2>3. issue[i].equipment = req[v].e
    BY <2>1, CreatedOnAsset
  <2>4. issue'[i] = issue[i]
    <3>1. Unanswered(i)
      BY <2>1 DEF Unanswered
    <3>2. Doing(w, "transition") => req[w].i # i
      BY <3>1 DEF Doing, CareInv, StillTrue, OnIssue
    <3> QED BY <3>2 DEF SeenBy
  <2> QED BY <2>2, <2>3, <2>4 DEF Counts
<1>5. \A i \in IssueId : Counts(Shown'[i], req[w].e) <=> Counts(issue'[i], req[w].e)
  BY <1>4, ShownRowsNext DEF Counts
<1>6. DOMAIN Shown' = IssueId
  BY DEF Shown
<1>7. HasActiveCritical(Shown', req[w].e) <=> HasActiveCritical(issue', req[w].e)
  BY <1>3, <1>5, <1>6, CountsDecide
<1> QED BY <1>1, <1>7 DEF HasActiveCritical

\* A sync does to the equipment what the atomic one does.
LEMMA SyncIsAtomic ==
  ASSUME RaceInv, CareInv, NEW w \in Worker, At(w, "commit"), Finish(w),
         req[w].op \in Syncing, issue' = SeenBy(w)
  PROVE  EquipmentAfterSync(w) = Atomic!SyncedEquipment(Shown', req[w].e)
<1> DEFINE e   == req[w].e
           hac == HasActiveCritical(SeenIn(req[w]), e)
<1>1. SyncTrue(req[w]) /\ Writing(w) /\ req[w].pc = "commit" /\ e \in Live(equipment)
  BY OnStoredAsset DEF At, CareInv, StillTrue, Writing, Syncing, WriterOps
<1>2. e \in EquipmentId /\ equipment[e] \in EquipmentRow
  BY <1>1, StoredRows DEF RaceInv
<1>3. HasActiveCritical(Shown', e) = hac
  BY <1>1, ShownCounts
<1>4. /\ req[w].eqSeen = equipment[e].status
      /\ IF Reachable(e) /\ equipment[e].status # "decommissioned"
           THEN "target" \in DOMAIN req[w] /\ req[w].target = SyncTarget(equipment[e].status, hac)
           ELSE "target" \notin DOMAIN req[w]
  BY <1>1 DEF SyncTrue, Holding
<1>5. SyncedEquipment(Shown', e) =
        IF Reachable(e) THEN [equipment EXCEPT ![e].status = SyncTarget(@, hac)] ELSE equipment
  BY <1>3 DEF SyncedEquipment
<1> HIDE DEF hac, e
<1>6. ASSUME NEW s, s = equipment[e].status
      PROVE  [equipment EXCEPT ![e].status = s] = equipment
  BY <1>2, <1>6 DEF EquipmentRow, RaceInv, TypeOK
<1>7. EquipmentAfterSync(w) = SyncedEquipment(Shown', e)
  <2>1. CASE ~Reachable(e)
    BY <1>4, <1>5, <2>1 DEF EquipmentAfterSync
  <2>2. CASE Reachable(e) /\ equipment[e].status = "decommissioned"
    <3>1. SyncTarget(equipment[e].status, hac) = equipment[e].status
      BY <2>2 DEF SyncTarget
    <3> QED BY <1>4, <1>5, <1>6, <2>2, <3>1 DEF EquipmentAfterSync
  <2>3. CASE Reachable(e) /\ equipment[e].status # "decommissioned"
    <3>1. req[w].target = SyncTarget(equipment[e].status, hac) /\ "target" \in DOMAIN req[w]
      BY <1>4, <2>3
    <3>2. CASE req[w].target = req[w].eqSeen
      BY <1>4, <1>5, <1>6, <2>3, <3>1, <3>2 DEF EquipmentAfterSync
    <3>3. CASE req[w].target # req[w].eqSeen
      BY <1>4, <1>5, <2>3, <3>1, <3>3 DEF EquipmentAfterSync, e
    <3> QED BY <3>2, <3>3
  <2> QED BY <2>1, <2>2, <2>3
<1> QED BY <1>7, AtomicSync DEF e

-------------------------------------------------------------------------------
(* Every step is an atomic one, or shows nothing *)

\* All the tables as the atomic tracker has them.
Unseen == UNCHANGED <<user, equipment, Shown, comment>>

\* An UPDATE of the columns a request changes stores the row as it would be now.
LEMMA ChangeApplied ==
  ASSUME NEW row, NEW new, DOMAIN new = DOMAIN row, row = [f \in DOMAIN row |-> row[f]],
         new = [f \in DOMAIN new |-> new[f]]
  PROVE  Overlay(row, NetChange(row, new)) = new
BY DEF Overlay, NetChange

LEMMA MoveApplied ==
  ASSUME NEW row \in IssueRow, NEW to \in IssueStatus, NEW u \in User
  PROVE  Overlay(row, TransitionWrites(row, to, u)) = Moved(row, to, u, NoUser)
<1> DEFINE new  == Moved(row, to, u, NoUser)
           cols == {f \in DOMAIN row : new[f] # row[f]}
                     \cup (IF to = "resolved" THEN {"resolvedAt"} ELSE {})
<1>1. DOMAIN row = IssueColumns /\ DOMAIN new = IssueColumns
  BY DEF IssueRow, IssueColumns, Moved
<1>2. new = [f \in IssueColumns |-> new[f]]
  BY <1>1 DEF Moved, IssueRow
<1>3. TransitionWrites(row, to, u) = [f \in cols |-> new[f]]
  BY DEF TransitionWrites
<1> HIDE DEF new
<1>4. Overlay(row, [f \in cols |-> new[f]]) = [f \in IssueColumns |-> new[f]]
  BY <1>1 DEF Overlay
<1> QED BY <1>2, <1>3, <1>4 DEF new

\* An issue that comes to show as inserted, and no sync with it.
LEMMA CreationSeen ==
  ASSUME RaceInv, CareInv, NEW w \in Worker, Doing(w, "createIssue"),
         UNCHANGED <<user, equipment, comment>>, req[w].i \in IssueId,
         Shown[req[w].i] = NotYet, Shown' = [Shown EXCEPT ![req[w].i] = req[w].row]
  PROVE  Atomic!Next
<1>1. CreationTrue(req[w])
  BY DEF Doing, CareInv, StillTrue
<1>2. PICK i, e : i = req[w].i /\ e = req[w].e
  OBVIOUS
<1>3. e \in EquipmentId
  BY <1>2 DEF RaceInv, Requests, Meant, Field, Doing, WriterOps
<1>4. PICK u \in User, sev \in Severities : user[u].active /\ req[w].row = NewIssue(u, e, sev)
  BY <1>1, <1>2 DEF CreationTrue
<1>5. /\ Reachable(e) /\ equipment[e].status # "decommissioned" /\ i \in Unused(Shown)
      /\ i \in IssueId /\ Shown' = [Shown EXCEPT ![i] = NewIssue(u, e, sev)]
  BY <1>1, <1>2, <1>4, ShownRows DEF CreationTrue, Unused
<1>6. CASE sev = "critical"
  <2>1. Atomic!CreateIssueUnsynced(u, i, e)
    BY <1>4, <1>5, <1>6, AtomicReads DEF Atomic!CreateIssueUnsynced
  <2> QED BY <1>3, <1>5, <1>6, <2>1 DEF Atomic!Next, Atomic!IssueStep
<1>7. CASE sev # "critical"
  <2>1. Atomic!CreateIssue(u, i, e, sev)
    BY <1>4, <1>5, <1>7, AtomicReads DEF Atomic!CreateIssue
  <2> QED BY <1>3, <1>5, <2>1 DEF Atomic!Next, Atomic!IssueStep
<1> QED BY <1>6, <1>7

\* The end of a creation that is not synced: nothing was to be synced, or the
\* server failed.
LEMMA CreationShows ==
  ASSUME RaceInv, CareInv, NEW w \in Worker, Finish(w), UNCHANGED tables,
         Doing(w, "createIssue"), ~At(w, "insert")
  PROVE  Atomic!Next
<1>1. UNCHANGED <<user, equipment, issue, comment>>
  BY DEF tables, vars
<1> QED BY <1>1, Answered, CreationSeen

LEMMA CreationSyncs ==
  ASSUME RaceInv, CareInv, NEW w \in Worker, CommitNewIssueSync(w)
  PROVE  Atomic!Next
<1>1. /\ At(w, "commit") /\ Doing(w, "createIssue") /\ ~At(w, "insert") /\ Finish(w)
      /\ equipment' = EquipmentAfterSync(w) /\ UNCHANGED <<user, issue, comment>>
      /\ CreationTrue(req[w])
  BY DEF CommitNewIssueSync, At, Doing, CareInv, StillTrue
<1>2. PICK i : i = req[w].i
  OBVIOUS
<1>3. i \in IssueId /\ Shown[i] = NotYet /\ Shown' = [Shown EXCEPT ![i] = req[w].row]
  BY <1>1, <1>2, Answered
<1>4. PICK e : e = req[w].e
  OBVIOUS
<1>5. e \in EquipmentId
  BY <1>1, <1>4 DEF RaceInv, Requests, Meant, Field, Doing, WriterOps
<1>6. PICK u \in User, sev \in Severities :
        user[u].active /\ req[w].row = NewIssue(u, e, sev) /\ sev = "critical"
  BY <1>1, <1>4 DEF CreationTrue, At
<1>7. Reachable(e) /\ equipment[e].status # "decommissioned" /\ i \in Unused(Shown)
  BY <1>1, <1>3, <1>4, ShownRows DEF CreationTrue, Unused
<1>8. equipment' = Atomic!SyncedEquipment(Shown', e)
  <2>1. issue' = SeenBy(w) /\ req[w].op \in Syncing
    BY <1>1 DEF SeenBy, Doing, Syncing
  <2> QED BY <1>1, <1>4, <2>1, SyncIsAtomic
<1>9. Atomic!CreateIssue(u, i, e, sev)
  BY <1>1, <1>3, <1>6, <1>7, <1>8, AtomicReads DEF Atomic!CreateIssue
<1> QED BY <1>3, <1>5, <1>9 DEF Atomic!Next, Atomic!IssueStep

\* A request that writes an issue that shows, seen in the atomic tracker.
LEMMA WriteShows ==
  ASSUME RaceInv, CareInv, NEW w \in Worker, req[w] # Idle, Finish(w),
         req[w].op \in OnIssue \ {"createIssue"}, NEW i, i = req[w].i, NEW row,
         issue' = [issue EXCEPT ![i] = row]
  PROVE  /\ i \in IssueId /\ Shown[i] = issue[i]
         /\ Shown' = [Shown EXCEPT ![i] = row]
<1>1. i \in IssueId /\ ~Unanswered(i)
  BY DEF RaceInv, Requests, Meant, Field, CareInv, StillTrue
<1>2. \A j : Unanswered(j)' <=> Unanswered(j)
  BY OthersUnanswered DEF Doing, OnIssue
<1>3. issue'[i] = row /\ \A j \in IssueId : j # i => issue'[j] = issue[j]
  BY <1>1 DEF RaceInv, TypeOK
<1> QED BY <1>1, <1>2, <1>3, OneShows, ShownRows

\* A transition that commits makes a legal move of the issue as it is stored now.
LEMMA MoveStores ==
  ASSUME RaceInv, CareInv, NEW w \in Worker, CommitTransition(w)
  PROVE  \E i \in Live(issue), u \in User, to \in IssueStatus :
           /\ i = req[w].i /\ u = req[w].actor
           /\ issue[i] \in IssueRow /\ issue[i].equipment = req[w].e
           /\ MayMove(user[u].role, issue[i].status, to)
           /\ issue' = [issue EXCEPT ![i] = Moved(issue[i], to, u, NoUser)]
<1>1. /\ req[w] # Idle /\ req[w].op = "transition" /\ issue' = SeenBy(w)
      /\ MoveTrue(req[w]) /\ OnItsAsset(req[w]) /\ req[w].actor \in User
  BY DEF CommitTransition, At, Doing, CareInv, StillTrue, RaceInv, Requests, Meant, Field
<1>2. PICK i, u : i = req[w].i /\ u = req[w].actor
  OBVIOUS
<1>3. PICK to \in IssueStatus :
        /\ MayMove(user[u].role, issue[i].status, to)
        /\ req[w].writes = TransitionWrites(issue[i], to, u)
  BY <1>1, <1>2 DEF MoveTrue
<1>4. i \in Live(issue) /\ issue[i] \in IssueRow /\ issue[i].equipment = req[w].e /\ u \in User
  BY <1>1, <1>2, StoredRows DEF OnItsAsset, RaceInv
<1>5. issue' = [issue EXCEPT ![i] = Moved(issue[i], to, u, NoUser)]
  BY <1>1, <1>2, <1>3, <1>4, MoveApplied DEF SeenBy, Doing
<1> QED BY <1>2, <1>3, <1>4, <1>5

LEMMA MoveShows ==
  ASSUME RaceInv, CommentRace, CareInv, NEW w \in Worker, CommitTransition(w)
  PROVE  Atomic!Next
<1>1. /\ At(w, "commit") /\ req[w] # Idle /\ req[w].op = "transition" /\ Finish(w)
      /\ issue' = SeenBy(w) /\ equipment' = EquipmentAfterSync(w)
      /\ MoveTrue(req[w]) /\ Grounded(req[w]) /\ user' = user
  BY DEF CommitTransition, Doing, CareInv, CommentRace, StillTrue
<1>2. PICK e, notes : e = req[w].e /\ notes = req[w].notes
  OBVIOUS
<1>3. PICK i \in Live(issue), u \in User, to \in IssueStatus :
        /\ i = req[w].i /\ u = req[w].actor /\ issue[i].equipment = req[w].e
        /\ MayMove(user[u].role, issue[i].status, to)
        /\ issue' = [issue EXCEPT ![i] = Moved(issue[i], to, u, NoUser)]
  BY MoveStores
<1>4. i = req[w].i /\ i \in Live(issue) /\ issue[i].equipment = e /\ u \in User
  BY <1>2, <1>3
<1>5. issue' = [issue EXCEPT ![i] = Moved(issue[i], to, u, NoUser)]
  BY <1>3
<1>6. /\ i \in IssueId /\ Shown[i] = issue[i]
      /\ Shown' = [Shown EXCEPT ![i] = Moved(issue[i], to, u, NoUser)]
  <2>1. PICK row : row = Moved(issue[i], to, u, NoUser)
    OBVIOUS
  <2>2. req[w].op \in OnIssue \ {"createIssue"} /\ issue' = [issue EXCEPT ![i] = row]
    BY <1>1, <1>5, <2>1 DEF OnIssue
  <2>3. /\ i \in IssueId /\ Shown[i] = issue[i]
        /\ Shown' = [Shown EXCEPT ![i] = row]
    <3>1. req[w] # Idle /\ Finish(w) /\ i = req[w].i
      BY <1>1, <1>4
    <3> QED BY <2>2, <3>1, WriteShows
  <2> QED BY <2>1, <2>3
<1>7. equipment' = Atomic!SyncedEquipment(Shown', e)
  BY <1>1, <1>2, SyncIsAtomic DEF Syncing
<1>8. /\ comment' = [c \in CommentId |-> IF c \in notes THEN NewComment(u, i, TRUE)
                                                        ELSE comment[c]]
      /\ notes \subseteq Unused(comment) /\ notes \in SUBSET CommentId
      /\ Cardinality(notes) <= 1 /\ user[u].active
  BY <1>1, <1>2, <1>3 DEF CommitTransition, Grounded, Drawn, MoveTrue, Unused, RaceInv, TypeOK
<1>9. i \in Live(Shown)
  BY <1>4, <1>6, ShownRows DEF Live
<1>10. Atomic!Transition(u, i, to, notes)
  <2>1. Shown' = [Shown EXCEPT ![i] = Atomic!Moved(@, to, u, NoUser)]
    BY <1>6, AtomicRules
  <2>2. equipment' = Atomic!SyncedEquipment(Shown', Shown[i].equipment)
    BY <1>4, <1>6, <1>7
  <2>3. Atomic!MayMove(user[u].role, Shown[i].status, to)
    BY <1>3, <1>6, AtomicRules
  <2>4. i \in Atomic!Live(Shown) /\ notes \subseteq Atomic!Unused(comment)
    BY <1>8, <1>9, AtomicReads
  <2>5. comment' = [c \in CommentId |-> IF c \in notes THEN Atomic!NewComment(u, i, TRUE)
                                                       ELSE comment[c]]
    BY <1>8, AtomicReads
  <2>6. Atomic!Cardinality(notes) <= 1
    BY <1>8, AtomicSize
  <2> QED BY <1>1, <1>8, <2>1, <2>2, <2>3, <2>4, <2>5, <2>6 DEF Atomic!Transition
<1>11. to \in Atomic!IssueStatus
  BY DEF Atomic!IssueStatus, IssueStatus
<1> QED BY <1>4, <1>6, <1>8, <1>10, <1>11 DEF Atomic!Next, Atomic!IssueStep

\* An edit or an assignment of an issue that is still stored.
LEMMA IssueEditShows ==
  ASSUME RaceInv, CareInv, NEW w \in Worker, CommitIssueEdit(w)
  PROVE  Atomic!Next \/ Unseen
<1>1. /\ req[w] # Idle /\ req[w].op \in {"updateIssue", "assignIssue"} /\ Finish(w)
      /\ StillTrue(req[w]) /\ Meant(req[w])
      /\ UNCHANGED <<user, equipment, comment>>
  BY DEF CommitIssueEdit, Doing, CareInv, RaceInv, Requests
<1>2. PICK i, writes : i = req[w].i /\ writes = req[w].writes
  OBVIOUS
<1>3. \A j : Unanswered(j)' <=> Unanswered(j)
  BY <1>1, OthersUnanswered DEF Doing
<1>4. CASE issue' = issue
  BY <1>1, <1>3, <1>4, NothingShows DEF Unseen
<1>5. CASE i \in Live(issue)
  <2>1. /\ i \in IssueId /\ issue[i] \in IssueRow
        /\ issue' = [issue EXCEPT ![i] = Overlay(@, writes)]
    BY <1>2, <1>5, StoredRows DEF CommitIssueEdit, RaceInv
  <2>2. DOMAIN issue[i] = IssueColumns /\ issue[i] = [f \in IssueColumns |-> issue[i][f]]
    BY <2>1 DEF IssueRow, IssueColumns
  <2>3. PICK row : row = Overlay(issue[i], writes)
    OBVIOUS
  <2>4. Shown[i] = issue[i] /\ Shown' = [Shown EXCEPT ![i] = row]
    <3>1. req[w].op \in OnIssue \ {"createIssue"} /\ issue' = [issue EXCEPT ![i] = row]
      BY <1>1, <2>1, <2>3 DEF OnIssue
    <3> QED BY <1>1, <1>2, <3>1, WriteShows
  <2>5. i \in Atomic!Live(Shown)
    BY <1>5, <2>1, <2>4, ShownRows, AtomicReads DEF Live
  <2>6. CASE req[w].op = "updateIssue"
    <3>1. PICK u \in User, sev \in Severities :
            /\ CanAccess(u, i)
            /\ writes = NetChange(issue[i], [issue[i] EXCEPT !.severity = sev])
      BY <1>1, <1>2, <2>6 DEF StillTrue, EditTrue
    <3>2. PICK new : new = [issue[i] EXCEPT !.severity = sev]
      OBVIOUS
    <3>3. DOMAIN new = IssueColumns /\ new = [f \in IssueColumns |-> new[f]]
      BY <2>2, <3>2
    <3>4. row = [issue[i] EXCEPT !.severity = sev]
      BY <2>2, <2>3, <3>1, <3>2, <3>3, ChangeApplied
    <3>5. Atomic!CanAccess(u, i)
      BY <2>4, <3>1, AtomicRules DEF Atomic!CanAccess, CanAccess
    <3>6. Atomic!UpdateIssue(u, i, sev)
      BY <1>1, <2>4, <2>5, <3>4, <3>5 DEF Atomic!UpdateIssue
    <3> QED BY <2>1, <3>6 DEF Atomic!Next, Atomic!IssueStep
  <2>7. CASE req[w].op = "assignIssue"
    <3>1. PICK u \in User, a \in User :
            /\ HasRole(u, STAFF_AND_UP) /\ HasRole(a, STAFF_AND_UP)
            /\ \A f \in DOMAIN writes : writes[f] = a
      BY <1>1, <1>2, <2>7 DEF StillTrue, AssignmentTrue
    <3>2. DOMAIN writes \subseteq {"assignee"}
      BY <1>1, <1>2, <2>7 DEF Meant, IssueWritesOK, WritableBy
    <3>3. CASE "assignee" \notin DOMAIN writes
      <4>1. row = [f \in IssueColumns |-> issue[i][f]]
        BY <2>2, <2>3, <3>2, <3>3 DEF Overlay
      <4>2. issue' = issue
        BY <2>1, <2>2, <2>3, <4>1 DEF RaceInv, TypeOK
      <4> QED BY <1>4, <4>2
    <3>4. CASE "assignee" \in DOMAIN writes
      <4>1. row = [f \in IssueColumns |-> IF f = "assignee" THEN a ELSE issue[i][f]]
        BY <2>2, <2>3, <3>1, <3>2, <3>4 DEF Overlay
      <4>2. row = [issue[i] EXCEPT !.assignee = a]
        BY <2>2, <4>1
      <4>3. Atomic!HasRole(u, Atomic!STAFF_AND_UP) /\ Atomic!HasRole(a, Atomic!STAFF_AND_UP)
        BY <3>1, AtomicReads DEF Atomic!STAFF_AND_UP, STAFF_AND_UP
      <4>4. Atomic!AssignIssue(u, i, a)
        BY <1>1, <2>4, <2>5, <4>2, <4>3 DEF Atomic!AssignIssue
      <4> QED BY <2>1, <4>4 DEF Atomic!Next, Atomic!IssueStep
    <3> QED BY <3>3, <3>4
  <2> QED BY <1>1, <2>6, <2>7
<1> QED BY <1>2, <1>4, <1>5 DEF CommitIssueEdit

LEMMA DeleteShows ==
  ASSUME RaceInv, CareInv, NEW w \in Worker, CommitDeleteIssue(w)
  PROVE  Atomic!Next
<1>1. /\ req[w] # Idle /\ req[w].op = "deleteIssue" /\ Finish(w) /\ OnItsAsset(req[w])
      /\ issue' = [issue EXCEPT ![req[w].i] = Gone] /\ comment' = CommentsWithout(req[w].i)
      /\ UNCHANGED <<user, equipment>>
  BY DEF CommitDeleteIssue, Doing, CareInv, StillTrue
<1>2. PICK i : i = req[w].i
  OBVIOUS
<1>3. PICK u \in User : HasRole(u, {"admin"})
  BY <1>1 DEF CareInv, StillTrue
<1>4. i \in IssueId /\ Shown[i] = issue[i] /\ Shown' = [Shown EXCEPT ![i] = Gone]
  BY <1>1, <1>2, WriteShows DEF OnIssue
<1>5. i \in Atomic!Live(Shown)
  BY <1>1, <1>2, <1>4, ShownRows, AtomicReads DEF OnItsAsset, Live
<1>6. Atomic!DeleteIssue(u, i)
  BY <1>1, <1>2, <1>3, <1>4, <1>5, AtomicReads DEF Atomic!DeleteIssue
<1> QED BY <1>4, <1>6 DEF Atomic!Next, Atomic!IssueStep

\* A request that writes no issue.
LEMMA NoIssueShows ==
  ASSUME RaceInv, NEW w \in Worker, req[w] # Idle, Finish(w), UNCHANGED issue,
         ~Doing(w, "createIssue") \/ At(w, "insert")
  PROVE  Shown' = Shown
<1>1. \A j : Unanswered(j)' <=> Unanswered(j)
  BY OthersUnanswered
<1> QED BY <1>1, NothingShows

LEMMA EquipmentEditShows ==
  ASSUME RaceInv, CareInv, NEW w \in Worker, CommitEquipmentEdit(w)
  PROVE  Atomic!Next
<1>1. /\ req[w] # Idle /\ req[w].op \in EquipmentEdits /\ Finish(w)
      /\ AssetEditTrue(req[w]) /\ Meant(req[w])
      /\ equipment' = [equipment EXCEPT ![req[w].e] = Overlay(@, req[w].writes)]
      /\ UNCHANGED <<user, issue, comment>>
  BY DEF CommitEquipmentEdit, Doing, EquipmentEdits, CareInv, RaceInv, Requests, StillTrue
<1>2. PICK e, writes : e = req[w].e /\ writes = req[w].writes
  OBVIOUS
<1>3. e \in EquipmentId /\ equipment[e] \in EquipmentRow /\ Atomic!Reachable(e)
  BY <1>1, <1>2, StoredRows, AtomicReads DEF AssetEditTrue, RaceInv
<1>4. Shown' = Shown
  BY <1>1, NoIssueShows DEF Doing, EquipmentEdits
<1>5. ASSUME NEW new, DOMAIN new = DOMAIN equipment[e], new = [f \in DOMAIN new |-> new[f]],
             writes = NetChange(equipment[e], new)
      PROVE  equipment' = [equipment EXCEPT ![e] = new]
  <2>1. PICK row : row = equipment[e]
    OBVIOUS
  <2>2. row = [f \in DOMAIN row |-> row[f]]
    BY <1>3, <2>1 DEF EquipmentRow
  <2>3. Overlay(row, writes) = new
    BY <1>5, <2>1, <2>2, ChangeApplied
  <2> QED BY <1>1, <1>2, <2>1, <2>3
<1>6. CASE req[w].op = "updateEquipment"
  <2>1. PICK u \in User, s \in EquipmentStatus :
          /\ HasRole(u, MANAGER_AND_UP)
          /\ writes = NetChange(equipment[e], [equipment[e] EXCEPT !.status = s])
    BY <1>1, <1>2, <1>6 DEF AssetEditTrue
  <2>2. PICK new : new = [equipment[e] EXCEPT !.status = s]
    OBVIOUS
  <2>3. DOMAIN new = DOMAIN equipment[e] /\ new = [f \in DOMAIN new |-> new[f]]
    BY <1>3, <2>2 DEF EquipmentRow
  <2>4. equipment' = [equipment EXCEPT ![e].status = s]
    BY <1>5, <2>1, <2>2, <2>3
  <2>5. Atomic!HasRole(u, Atomic!MANAGER_AND_UP)
    BY <2>1, AtomicReads DEF Atomic!MANAGER_AND_UP, MANAGER_AND_UP
  <2>6. Atomic!UpdateEquipment(u, e, s)
    BY <1>1, <1>3, <1>4, <2>4, <2>5 DEF Atomic!UpdateEquipment
  <2>7. s \in Atomic!EquipmentStatus
    BY DEF Atomic!EquipmentStatus, EquipmentStatus
  <2> QED BY <1>3, <2>6, <2>7 DEF Atomic!Next, Atomic!EquipmentStep
<1>7. CASE req[w].op = "deleteEquipment"
  <2>1. PICK u \in User :
          /\ HasRole(u, {"admin"})
          /\ writes = NetChange(equipment[e], [equipment[e] EXCEPT !.deleted = TRUE])
    BY <1>1, <1>2, <1>7 DEF AssetEditTrue
  <2>2. PICK new : new = [equipment[e] EXCEPT !.deleted = TRUE]
    OBVIOUS
  <2>3. DOMAIN new = DOMAIN equipment[e] /\ new = [f \in DOMAIN new |-> new[f]]
    BY <1>3, <2>2 DEF EquipmentRow
  <2>4. equipment' = [equipment EXCEPT ![e].deleted = TRUE]
    BY <1>5, <2>1, <2>2, <2>3
  <2>5. Atomic!DeleteEquipment(u, e)
    BY <1>1, <1>3, <1>4, <2>1, <2>4, AtomicReads DEF Atomic!DeleteEquipment
  <2> QED BY <1>3, <2>5 DEF Atomic!Next, Atomic!EquipmentStep
<1> QED BY <1>1, <1>6, <1>7 DEF EquipmentEdits

LEMMA AddCommentShows ==
  ASSUME RaceInv, CommentRace, CareInv, NEW w \in Worker, CommitAddComment(w)
  PROVE  Atomic!Next \/ Unseen
<1>1. /\ req[w] # Idle /\ req[w].op = "addComment" /\ Finish(w)
      /\ CommentTrue(req[w]) /\ Meant(req[w]) /\ Grounded(req[w])
      /\ UNCHANGED <<user, equipment, issue>>
  BY DEF CommitAddComment, Doing, CareInv, CommentRace, RaceInv, Requests, StillTrue
<1>2. PICK c : c = req[w].c
  OBVIOUS
<1>3. PICK u \in User, i \in IssueId, internal \in BOOLEAN :
        /\ req[w].row = NewComment(u, i, internal)
        /\ internal => user[u].role \in STAFF_AND_UP
        /\ issue[i] # NotYet /\ ~Unanswered(i)
        /\ i \in Live(issue) => CanAccess(u, i)
  BY <1>1 DEF CommentTrue
<1>4. Shown' = Shown /\ Shown[i] = issue[i]
  BY <1>1, <1>3, NoIssueShows, ShownRows DEF Doing
<1>5. req[w].row.issue = i
  BY <1>3 DEF NewComment
<1>6. CASE i \notin Live(issue)
  BY <1>1, <1>4, <1>5, <1>6 DEF CommitAddComment, Unseen
<1>7. CASE i \in Live(issue)
  <2>1. comment' = [comment EXCEPT ![c] = NewComment(u, i, internal)]
    BY <1>2, <1>3, <1>5, <1>7 DEF CommitAddComment
  <2>2. c \in CommentId /\ c \in Unused(comment)
    BY <1>1, <1>2 DEF Meant, Field, OnComment, Grounded, Drawn
  <2>3. Atomic!CanAccess(u, i)
    BY <1>3, <1>4, <1>7, AtomicRules DEF Atomic!CanAccess, CanAccess
  <2>4. i \in Atomic!Live(Shown)
    BY <1>4, <1>7, ShownRows, AtomicReads DEF Live
  <2>5. internal => user[u].role \in Atomic!STAFF_AND_UP
    BY <1>3 DEF Atomic!STAFF_AND_UP, STAFF_AND_UP
  <2>6. Atomic!AddComment(u, c, i, internal)
    BY <1>1, <1>4, <2>1, <2>2, <2>3, <2>4, <2>5, AtomicReads DEF Atomic!AddComment
  <2> QED BY <2>2, <2>6 DEF Atomic!Next, Atomic!CommentStep
<1> QED BY <1>6, <1>7

LEMMA CommentEditShows ==
  ASSUME RaceInv, CommentRace, CareInv, NEW w \in Worker, CommitCommentEdit(w)
  PROVE  Atomic!Next \/ Unseen
<1>1. /\ req[w] # Idle /\ req[w].op \in {"editComment", "deleteComment"} /\ Finish(w)
      /\ CommentTrue(req[w]) /\ Meant(req[w]) /\ Grounded(req[w])
      /\ UNCHANGED <<user, equipment, issue>>
  BY DEF CommitCommentEdit, Doing, CareInv, CommentRace, RaceInv, Requests, StillTrue
<1>2. PICK c : c = req[w].c
  OBVIOUS
<1>3. Shown' = Shown
  BY <1>1, NoIssueShows DEF Doing
<1>4. CASE c \notin Live(comment)
  BY <1>1, <1>2, <1>3, <1>4 DEF CommitCommentEdit, Unseen
<1>5. CASE c \in Live(comment) /\ req[w].op = "editComment"
  <2>1. PICK u \in User : u = req[w].actor
    BY <1>1, <1>5 DEF Meant, Field
  <2>2. comment' = [comment EXCEPT ![c].words = u]
    BY <1>2, <1>5, <2>1 DEF CommitCommentEdit, Doing
  <2>3. user[u].active /\ comment[c].author = u /\ c \in CommentId
    BY <1>1, <1>2, <1>5, <2>1 DEF CommentTrue, Grounded, Meant, Field, OnComment
  <2>4. Atomic!EditComment(u, c)
    BY <1>1, <1>3, <1>5, <2>2, <2>3, AtomicReads DEF Atomic!EditComment
  <2> QED BY <2>3, <2>4 DEF Atomic!Next, Atomic!CommentStep
<1>6. CASE c \in Live(comment) /\ req[w].op = "deleteComment"
  <2>1. PICK u \in User :
          user[u].active /\ (comment[c].author = u \/ user[u].role \in MANAGER_AND_UP)
    BY <1>1, <1>2, <1>6 DEF CommentTrue
  <2>2. comment' = [comment EXCEPT ![c] = Gone] /\ c \in CommentId
    BY <1>1, <1>2, <1>6 DEF CommitCommentEdit, Doing, Meant, Field, OnComment
  <2>3. comment[c].author = u \/ user[u].role \in Atomic!MANAGER_AND_UP
    BY <2>1 DEF Atomic!MANAGER_AND_UP, MANAGER_AND_UP
  <2>4. Atomic!DeleteComment(u, c)
    BY <1>1, <1>3, <1>6, <2>1, <2>2, <2>3, AtomicReads DEF Atomic!DeleteComment
  <2> QED BY <2>2, <2>4 DEF Atomic!Next, Atomic!CommentStep
<1> QED BY <1>1, <1>4, <1>5, <1>6

\* A request that arrives shows nothing.
LEMMA ArrivalShowsNothing ==
  ASSUME RaceInv, NEW w \in Worker, Arrive(w)
  PROVE  Unseen
<1> DEFINE Silent == /\ req[w] = Idle /\ \A v \in Worker : v # w => req'[v] = req[v]
                     /\ Doing(w, "createIssue")' => At(w, "insert")'
<1>1. ASSUME NEW r, Begin(w, r), r.op # "createIssue" \/ r.pc = "insert"
      PROVE  Silent
  BY <1>1 DEF Begin, Doing, At, RaceInv, Requests
<1> HIDE DEF Silent
<1>2. \A u, i, e, sev : BeginCreateIssue(w, u, i, e, sev) => Silent
  BY <1>1 DEF BeginCreateIssue
<1>3. \A u, e, s : BeginUpdateEquipment(w, u, e, s) => Silent
  BY <1>1 DEF BeginUpdateEquipment
<1>4. \A u, e : BeginDeleteEquipment(w, u, e) => Silent
  BY <1>1 DEF BeginDeleteEquipment
<1>5. \A u, i, to, notes : BeginTransition(w, u, i, to, notes) => Silent
  BY <1>1 DEF BeginTransition
<1>6. \A u, i, sev : BeginUpdateIssue(w, u, i, sev) => Silent
  BY <1>1 DEF BeginUpdateIssue
<1>7. \A u, i, a : BeginAssignIssue(w, u, i, a) => Silent
  BY <1>1 DEF BeginAssignIssue
<1>8. \A u, i : BeginDeleteIssue(w, u, i) => Silent
  BY <1>1 DEF BeginDeleteIssue
<1>9. \A u, c, i, internal : BeginAddComment(w, u, c, i, internal) => Silent
  BY <1>1 DEF BeginAddComment
<1>10. \A u, c : BeginEditComment(w, u, c) => Silent
  BY <1>1 DEF BeginEditComment
<1>11. \A u, c : BeginDeleteComment(w, u, c) => Silent
  BY <1>1 DEF BeginDeleteComment
<1>12. Silent
  BY <1>2, <1>3, <1>4, <1>5, <1>6, <1>7, <1>8, <1>9, <1>10, <1>11 DEF Arrive
<1>13. \A i : Unanswered(i)' <=> Unanswered(i)
  BY <1>12 DEF Silent, Unanswered, Doing, At
<1>14. UNCHANGED <<user, equipment, issue, comment>>
  BY ArriveQuiet DEF tables, vars
<1> QED BY <1>13, <1>14, NothingShows DEF Unseen

\* Nor does the INSERT of an issue, before its creation is answered.  (Were Idle
\* the record of a creation, it would be answered at once.)
LEMMA InsertShows ==
  ASSUME RaceInv, CareInv, NEW w \in Worker, InsertIssue(w)
  PROVE  Atomic!Next \/ Unseen
<1>1. /\ Doing(w, "createIssue") /\ At(w, "insert")
      /\ req[w].i \in IssueId /\ issue[req[w].i] = NotYet
      /\ {"pc", "op", "i"} \subseteq DOMAIN req[w] /\ DOMAIN req = Worker
      /\ issue' = [issue EXCEPT ![req[w].i] = req[w].row]
      /\ UNCHANGED <<user, equipment, comment>>
  BY DEF InsertIssue, At, RaceInv, Requests, Placed, Known, Meant, Field, OnIssue, Doing
<1>2. PICK r2, i : r2 = [req[w] EXCEPT !.pc = "reload"] /\ i = req[w].i
  OBVIOUS
<1>3. req' = [req EXCEPT ![w] = r2]
  BY <1>2 DEF InsertIssue, Goto
<1>4. r2.pc = "reload" /\ r2.op = "createIssue" /\ r2.i = i
  BY <1>1, <1>2 DEF Doing
<1>5. \A v \in Worker : req'[v] = IF v = w THEN r2 ELSE req[v]
  BY <1>1, <1>3
<1>6. \A j : j # i => (Unanswered(j)' <=> Unanswered(j))
  BY <1>1, <1>2, <1>4, <1>5 DEF Unanswered, Doing, At
<1>7. ~Unanswered(i)
  <2>1. ASSUME NEW v \in Worker, Doing(v, "createIssue"), ~At(v, "insert")
        PROVE  issue[req[v].i] # NotYet
    BY <2>1 DEF RaceInv, Requests, Known, OnIssue, Doing, At
  <2> QED BY <1>1, <1>2, <2>1 DEF Unanswered
<1>8. Shown[i] = NotYet /\ i \in IssueId
  BY <1>1, <1>2, <1>7, ShownRows
<1>9. /\ issue'[i] = req[w].row
      /\ \A j \in IssueId : j # i => issue'[j] = issue[j]
  BY <1>1, <1>2 DEF RaceInv, TypeOK
<1>10. CASE r2 # Idle
  <2>1. Unanswered(i)'
    BY <1>4, <1>5, <1>10 DEF Unanswered, Doing, At
  <2>2. ASSUME NEW j \in IssueId PROVE Shown'[j] = Shown[j]
    BY <1>6, <1>8, <1>9, <2>1, ShownRows, ShownRowsNext
  <2>3. Shown = [j \in IssueId |-> Shown[j]] /\ Shown' = [j \in IssueId |-> Shown'[j]]
    BY DEF Shown
  <2>4. Shown' = Shown
    BY <2>2, <2>3
  <2> QED BY <1>1, <2>4 DEF Unseen
<1>11. CASE r2 = Idle
  <2>1. ~Unanswered(i)'
    BY <1>1, <1>2, <1>5, <1>7, <1>11 DEF Unanswered, Doing, At
  <2>2. Shown' = [Shown EXCEPT ![i] = req[w].row]
    BY <1>6, <1>8, <1>9, <2>1, OneShows
  <2> QED BY <1>1, <1>2, <1>8, <2>2, CreationSeen
<1> QED BY <1>10, <1>11

\* A step between the statements shows at most an issue whose creation is over.
LEMMA QuietStepShows ==
  ASSUME RaceInv, RaceInv', CareInv, NEW w \in Worker,
         \/ ReloadIssue(w) \/ LoadEquipment(w) \/ FlushIssue(w)
         \/ SelectEquipment(w) \/ CountCritical(w) \/ FlushEquipment(w) \/ Fail(w)
  PROVE  Atomic!Next \/ Unseen
<1>1. UNCHANGED tables /\ UNCHANGED <<user, equipment, issue, comment>> /\ req[w] # Idle
  BY QuietShape
  DEF tables, vars, ReloadIssue, LoadEquipment, FlushIssue, SelectEquipment, CountCritical,
      FlushEquipment, Fail, At
<1>2. PICK r2 : /\ req' = [req EXCEPT ![w] = r2]
                /\ r2 # Idle =>
                     /\ DOMAIN req[w] \subseteq DOMAIN r2
                     /\ \A f \in DOMAIN req[w] \ {"pc", "eqSeen", "target"} : r2[f] = req[w][f]
  BY QuietShape
<1>3. CASE r2 = Idle
  <2>1. Finish(w)
    BY <1>2, <1>3 DEF Finish
  <2>2. CASE Doing(w, "createIssue") /\ ~At(w, "insert")
    BY <1>1, <2>1, <2>2, CreationShows
  <2>3. CASE ~Doing(w, "createIssue") \/ At(w, "insert")
    BY <1>1, <2>1, <2>3, NoIssueShows DEF Unseen
  <2> QED BY <2>2, <2>3
<1>4. CASE r2 # Idle
  <2>1. \A v \in Worker : req'[v] = IF v = w THEN r2 ELSE req[v]
    BY <1>2 DEF RaceInv, Requests
  <2>2. /\ r2.op = req[w].op
        /\ r2.op = "createIssue" => r2.i = req[w].i
    BY <1>1, <1>2, <1>4 DEF RaceInv, Requests, Meant, Field, OnIssue
  <2>3. r2.op = "createIssue" => (r2.pc = "insert" <=> req[w].pc = "insert")
    <3>1. Known(req[w], equipment, issue) /\ Known(r2, equipment', issue')
      BY <1>1, <1>4, <2>1 DEF RaceInv, Requests
    <3> QED BY <1>1, <2>2, <3>1 DEF Known, OnIssue
  <2>4. \A i : Unanswered(i)' <=> Unanswered(i)
    BY <1>1, <1>4, <2>1, <2>2, <2>3 DEF Unanswered, Doing, At
  <2> QED BY <1>1, <2>4, NothingShows DEF Unseen
<1> QED BY <1>3, <1>4

LEMMA StepIsAtomic ==
  ASSUME RaceInv, RaceInv', CommentRace, CareInv, [RequestNext]_rvars
  PROVE  Atomic!Next \/ Unseen
<1>1. ASSUME NEW w \in Worker, Arrive(w) PROVE Unseen
  BY <1>1, ArrivalShowsNothing
<1>2. ASSUME NEW w \in Worker, Proceed(w) PROVE Atomic!Next \/ Unseen
  BY <1>2, InsertShows, QuietStepShows, CreationSyncs, MoveShows, IssueEditShows,
     DeleteShows, EquipmentEditShows, AddCommentShows, CommentEditShows DEF Proceed
<1>3. ASSUME NEW w \in Worker, Fail(w) PROVE Atomic!Next \/ Unseen
  BY <1>3, QuietStepShows
<1>4. ASSUME UNCHANGED <<issue, req>> PROVE Shown' = Shown
  <2>1. \A i : Unanswered(i)' <=> Unanswered(i)
    BY <1>4 DEF Unanswered, Doing, At
  <2> QED BY <1>4, <2>1, NothingShows
<1>5. ASSUME NEW u \in User, NEW e \in EquipmentId, NEW s \in EquipmentStatus,
             CreateEquipmentNow(u, e, s)
      PROVE  Atomic!Next
  <2>1. CreateEquipment(u, e, s) /\ Shown' = Shown
    BY <1>4, <1>5 DEF CreateEquipmentNow, CreateEquipment
  <2>2. Atomic!HasRole(u, Atomic!MANAGER_AND_UP) /\ e \in Atomic!Unused(equipment)
    BY <2>1, AtomicReads DEF CreateEquipment, Atomic!MANAGER_AND_UP, MANAGER_AND_UP
  <2>3. Atomic!CreateEquipment(u, e, s)
    BY <2>1, <2>2 DEF CreateEquipment, Atomic!CreateEquipment
  <2>4. s \in Atomic!EquipmentStatus
    BY DEF Atomic!EquipmentStatus, EquipmentStatus
  <2> QED BY <2>3, <2>4 DEF Atomic!Next, Atomic!EquipmentStep
<1>6. CASE UNCHANGED rvars
  BY <1>4, <1>6 DEF rvars, Unseen
<1> QED BY <1>1, <1>2, <1>3, <1>5, <1>6 DEF RequestNext

LEMMA StartIsAtomic == RequestInit => Atomic!Init
<1> SUFFICES ASSUME RequestInit PROVE Atomic!Init
  OBVIOUS
<1>1. Init /\ Shown = [i \in IssueId |-> NotYet]
  BY DEF RequestInit, Init, Shown
<1>2. Atomic!Role = Role
  BY DEF Atomic!Role, Role
<1> QED BY <1>1, <1>2 DEF Init, Atomic!Init

\* For clients that do not race writes to one asset and wait for the answer to a
\* POST, any number of requests in flight, failing or not, are the atomic tracker:
\* every commit is one of its actions, on the issues that show.
THEOREM RequestsAreAtomic ==
  ASSUME OneWriter PROVE RequestSpec => AtomicSpec
<1>1. RequestSpec => [](RaceInv /\ CommentRace /\ CareInv)
  BY CareInvariant
<1>2. RaceInv /\ RaceInv' /\ CommentRace /\ CareInv /\ [RequestNext]_rvars
        => [Atomic!Next]_Atomic!vars
  BY StepIsAtomic DEF Unseen, Atomic!vars
<1> QED BY <1>1, <1>2, StartIsAtomic, PTL DEF RequestSpec, AtomicSpec, Atomic!Spec

=============================================================================
