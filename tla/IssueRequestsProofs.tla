-------------------------- MODULE IssueRequestsProofs --------------------------
(***************************************************************************)
(* What survives any race of any number of requests: types, the time of a  *)
(* resolution, and every column another request stored.                    *)
(*                                                                         *)
(* The invariant says what a request in flight means to do (Meant), where  *)
(* it can be (Placed), and what the tables have kept of what it saw        *)
(* (Known).                                                                *)
(***************************************************************************)
EXTENDS IssueRequests, TLAPS

USE DEF IssueStatus, EquipmentStatus

-------------------------------------------------------------------------------
(* The invariant *)

OnIssue   == {"createIssue", "transition", "updateIssue", "assignIssue", "deleteIssue"}
OnComment == {"addComment", "editComment", "deleteComment"}
Syncing   == {"createIssue", "transition"}
Holding   == {"selectEq", "count", "commit"}
EquipmentEdits == {"updateEquipment", "deleteEquipment"}

Field(r, f, S) == f \in DOMAIN r /\ r[f] \in S

\* The columns of an issue that an operation may write.
WritableBy(op) ==
  CASE op = "transition"  -> {"status", "resolvedAt", "resolvedBy"}
    [] op = "updateIssue" -> {"severity"}
    [] op = "assignIssue" -> {"assignee"}
    [] OTHER              -> {}

IssueWritesOK(writes, columns) ==
  \A f \in DOMAIN writes : f \in columns /\ writes[f] \in IssueColumn(f)

EquipmentWritesOK(writes) ==
  \A f \in DOMAIN writes : \/ f = "status" /\ writes[f] \in EquipmentStatus
                           \/ f = "deleted" /\ writes[f] \in BOOLEAN

\* A transition writes its status, and the time with it where that is "resolved".
MovesWhole(writes) ==
  /\ "status" \in DOMAIN writes
  /\ writes["status"] = "resolved" => "resolvedAt" \in DOMAIN writes /\ writes["resolvedAt"]

\* What a request is to do, settled when it arrived.
Meant(r) ==
  /\ Field(r, "op", Endpoints)
  /\ r.op \in OnIssue => Field(r, "i", IssueId)
  /\ r.op \in WriterOps => Field(r, "e", EquipmentId)
  /\ r.op = "createIssue" => Field(r, "row", IssueRow) /\ r.row.status = "open"
  /\ r.op = "addComment" => Field(r, "row", CommentRow)
  /\ r.op \in OnComment => Field(r, "c", CommentId)
  /\ r.op \in {"transition", "editComment"} => Field(r, "actor", User)
  /\ r.op = "transition" => MovesWhole(r.writes)
  /\ r.op \in {"transition", "updateIssue", "assignIssue"} =>
       "writes" \in DOMAIN r /\ IssueWritesOK(r.writes, WritableBy(r.op))
  /\ r.op \in EquipmentEdits =>
       "writes" \in DOMAIN r /\ EquipmentWritesOK(r.writes)

\* Where it is, and what it means to make of its equipment.
Placed(r) ==
  /\ Field(r, "pc", Steps)
  /\ r.pc \in {"insert", "reload"} => r.op = "createIssue"
  /\ r.pc \in {"loadEq", "selectEq", "count"} => r.op \in Syncing
  /\ r.pc = "flush" => r.op = "transition"
  /\ "target" \in DOMAIN r => r.target \in EquipmentStatus /\ r.op \in Syncing

\* What the tables still hold of it.
Known(r, assets, issues) ==
  /\ r.op \in EquipmentEdits => r.e \in Live(assets)
  /\ r.pc = "count" \/ "target" \in DOMAIN r => r.e \in Live(assets)
  /\ r.op \in OnIssue => (issues[r.i] = NotYet <=> r.pc = "insert")
  /\ r.op = "transition" /\ r.pc \in Holding => r.i \in Live(issues)

Requests ==
  /\ DOMAIN req = Worker
  /\ \A w \in Worker :
       req[w] # Idle => /\ Meant(req[w]) /\ Placed(req[w])
                        /\ Known(req[w], equipment, issue)
  /\ \A v, w \in Worker :
       v # w /\ Doing(v, "createIssue") /\ Doing(w, "createIssue") /\ At(w, "insert")
         => req[v].i # req[w].i

RaceInv == TypeOK /\ ResolvedHasTime /\ Requests

-------------------------------------------------------------------------------
(* Rows *)

LEMMA OverlayIssue ==
  ASSUME NEW row \in IssueRow, NEW writes, IssueWritesOK(writes, IssueColumns)
  PROVE  Overlay(row, writes) \in IssueRow
BY DEF Overlay, IssueRow, IssueWritesOK, IssueColumns, IssueColumn

LEMMA OverlayTime ==
  ASSUME NEW row \in IssueRow, NEW writes, MovesWhole(writes)
  PROVE  Overlay(row, writes).status = "resolved" => Overlay(row, writes).resolvedAt
BY DEF Overlay, IssueRow, MovesWhole

LEMMA OverlayEquipment ==
  ASSUME NEW row \in EquipmentRow, NEW writes, EquipmentWritesOK(writes)
  PROVE  Overlay(row, writes) \in EquipmentRow
BY DEF Overlay, EquipmentRow, EquipmentWritesOK

\* A transition's columns: the loaded row and the move decide.
LEMMA MoveWrites ==
  ASSUME NEW row \in IssueRow, NEW to \in IssueStatus, NEW u \in User, row.status # to
  PROVE  LET writes == TransitionWrites(row, to, u) IN
           MovesWhole(writes) /\ IssueWritesOK(writes, WritableBy("transition"))
<1> DEFINE new  == Moved(row, to, u, NoUser)
           cols == {f \in DOMAIN row : new[f] # row[f]}
                     \cup (IF to = "resolved" THEN {"resolvedAt"} ELSE {})
<1>1. /\ new.status = to /\ new.resolvedAt \in BOOLEAN /\ new.resolvedBy \in User \cup {NoUser}
      /\ to = "resolved" => new.resolvedAt
      /\ new.severity = row.severity /\ new.equipment = row.equipment
      /\ new.reporter = row.reporter /\ new.assignee = row.assignee
  BY DEF Moved, IssueRow
<1>2. DOMAIN row = IssueColumns
  BY DEF IssueRow, IssueColumns
<1>3. cols \subseteq {"status", "resolvedAt", "resolvedBy"} /\ "status" \in cols
  BY <1>1, <1>2 DEF IssueColumns
<1>4. TransitionWrites(row, to, u) = [f \in cols |-> new[f]]
  BY DEF TransitionWrites
<1> HIDE DEF new, cols
<1>5. to = "resolved" => "resolvedAt" \in cols
  BY DEF cols
<1> QED BY <1>1, <1>3, <1>4, <1>5 DEF MovesWhole, IssueWritesOK, WritableBy, IssueColumn

\* The one column an edit or an assignment changes.
LEMMA EditWrites ==
  ASSUME NEW row \in IssueRow, NEW sev \in Severities, NEW a \in User
  PROVE  /\ IssueWritesOK(NetChange(row, [row EXCEPT !.severity = sev]),
                          WritableBy("updateIssue"))
         /\ IssueWritesOK(NetChange(row, [row EXCEPT !.assignee = a]),
                          WritableBy("assignIssue"))
<1>1. \A f \in DOMAIN row : /\ f # "severity" => [row EXCEPT !.severity = sev][f] = row[f]
                            /\ f # "assignee" => [row EXCEPT !.assignee = a][f] = row[f]
  BY DEF IssueRow
<1>2. /\ "severity" \in DOMAIN row => [row EXCEPT !.severity = sev]["severity"] = sev
      /\ "assignee" \in DOMAIN row => [row EXCEPT !.assignee = a]["assignee"] = a
  OBVIOUS
<1>3. IssueWritesOK(NetChange(row, [row EXCEPT !.severity = sev]), WritableBy("updateIssue"))
  <2> DEFINE new == [row EXCEPT !.severity = sev]
  <2>1. \A f \in DOMAIN row : f # "severity" => new[f] = row[f]
    BY <1>1
  <2>2. "severity" \in DOMAIN row => new["severity"] \in Severities
    BY <1>2
  <2> HIDE DEF new
  <2> QED BY <2>1, <2>2 DEF NetChange, IssueWritesOK, WritableBy, IssueColumn
<1>4. IssueWritesOK(NetChange(row, [row EXCEPT !.assignee = a]), WritableBy("assignIssue"))
  <2> DEFINE new == [row EXCEPT !.assignee = a]
  <2>1. \A f \in DOMAIN row : f # "assignee" => new[f] = row[f]
    BY <1>1
  <2>2. "assignee" \in DOMAIN row => new["assignee"] \in User
    BY <1>2
  <2> HIDE DEF new
  <2> QED BY <2>1, <2>2 DEF NetChange, IssueWritesOK, WritableBy, IssueColumn
<1> QED BY <1>3, <1>4

LEMMA StatusWrites ==
  ASSUME NEW row \in EquipmentRow, NEW s \in EquipmentStatus
  PROVE  /\ EquipmentWritesOK(NetChange(row, [row EXCEPT !.status = s]))
         /\ EquipmentWritesOK(NetChange(row, [row EXCEPT !.deleted = TRUE]))
BY DEF EquipmentRow, NetChange, EquipmentWritesOK

\* What is stored is a row.
LEMMA StoredRows ==
  ASSUME TypeOK
  PROVE  /\ \A i \in Live(issue) : i \in IssueId /\ issue[i] \in IssueRow
         /\ \A e \in Live(equipment) : e \in EquipmentId /\ equipment[e] \in EquipmentRow
         /\ \A c \in Live(comment) : c \in CommentId /\ comment[c] \in CommentRow
         /\ \A e : Reachable(e) => e \in Live(equipment)
BY DEF TypeOK, Live, Reachable

-------------------------------------------------------------------------------
(* Requests arrive *)

LEMMA BeginKeeps ==
  ASSUME RaceInv, NEW w \in Worker, NEW r, Begin(w, r), Meant(r), Placed(r),
         Known(r, equipment, issue), "target" \notin DOMAIN r,
         r.op = "createIssue" => r.pc = "insert" /\ FreshIssue(r.i)
  PROVE  RaceInv'
<1>1. /\ UNCHANGED <<user, equipment, issue, comment>> /\ req[w] = Idle
      /\ req' = [req EXCEPT ![w] = r]
  BY DEF Begin, tables, vars
<1>2. TypeOK' /\ ResolvedHasTime'
  BY <1>1 DEF RaceInv, TypeOK, ResolvedHasTime, Live
<1>3. DOMAIN req' = Worker /\ \A v \in Worker : req'[v] = IF v = w THEN r ELSE req[v]
  BY <1>1 DEF RaceInv, Requests
<1>4. \A v \in Worker :
        req'[v] # Idle => /\ Meant(req'[v]) /\ Placed(req'[v])
                          /\ Known(req'[v], equipment', issue')
  BY <1>1, <1>3 DEF RaceInv, Requests
<1>6. ASSUME NEW u \in Worker, NEW v \in Worker, u # v, Doing(u, "createIssue")',
             Doing(v, "createIssue")', At(v, "insert")'
      PROVE  req'[u].i # req'[v].i
  <2>1. CASE v = w
    BY <1>3, <1>6, <2>1 DEF Doing, FreshIssue
  <2>2. CASE u = w
    <3>1. FreshIssue(r.i) /\ Doing(v, "createIssue") /\ req'[v] = req[v]
      BY <1>3, <1>6, <2>2 DEF Doing
    <3> QED BY <1>3, <1>6, <2>2, <3>1 DEF FreshIssue
  <2>3. CASE u # w /\ v # w
    BY <1>3, <1>6, <2>3 DEF Doing, At, RaceInv, Requests
  <2> QED BY <2>1, <2>2, <2>3
<1> QED BY <1>2, <1>3, <1>4, <1>6 DEF RaceInv, Requests

LEMMA ArriveQuiet ==
  ASSUME NEW w \in Worker, Arrive(w)
  PROVE  UNCHANGED tables
<1>1. \A r : Begin(w, r) => UNCHANGED tables
  BY DEF Begin
<1>2. \A u, i, e, sev : BeginCreateIssue(w, u, i, e, sev) => UNCHANGED tables
  BY <1>1 DEF BeginCreateIssue
<1>3. \A u, e, s : BeginUpdateEquipment(w, u, e, s) => UNCHANGED tables
  BY <1>1 DEF BeginUpdateEquipment
<1>4. \A u, e : BeginDeleteEquipment(w, u, e) => UNCHANGED tables
  BY <1>1 DEF BeginDeleteEquipment
<1>5. \A u, i, to, notes : BeginTransition(w, u, i, to, notes) => UNCHANGED tables
  BY <1>1 DEF BeginTransition
<1>6. \A u, i, sev : BeginUpdateIssue(w, u, i, sev) => UNCHANGED tables
  BY <1>1 DEF BeginUpdateIssue
<1>7. \A u, i, a : BeginAssignIssue(w, u, i, a) => UNCHANGED tables
  BY <1>1 DEF BeginAssignIssue
<1>8. \A u, i : BeginDeleteIssue(w, u, i) => UNCHANGED tables
  BY <1>1 DEF BeginDeleteIssue
<1>9. \A u, c, i, internal : BeginAddComment(w, u, c, i, internal) => UNCHANGED tables
  BY <1>1 DEF BeginAddComment
<1>10. \A u, c : BeginEditComment(w, u, c) => UNCHANGED tables
  BY <1>1 DEF BeginEditComment
<1>11. \A u, c : BeginDeleteComment(w, u, c) => UNCHANGED tables
  BY <1>1 DEF BeginDeleteComment
<1> QED
  BY <1>2, <1>3, <1>4, <1>5, <1>6, <1>7, <1>8, <1>9, <1>10, <1>11 DEF Arrive

LEMMA ArriveKeeps ==
  ASSUME RaceInv, NEW w \in Worker, Arrive(w)
  PROVE  RaceInv'
<1> PICK u \in User :
    \/ \E e \in EquipmentId :
         \/ \E i \in IssueId, sev \in Severities : BeginCreateIssue(w, u, i, e, sev)
         \/ \E s \in EquipmentStatus : BeginUpdateEquipment(w, u, e, s)
         \/ BeginDeleteEquipment(w, u, e)
    \/ \E i \in IssueId :
         \/ \E to \in IssueStatus, notes \in SUBSET CommentId :
              BeginTransition(w, u, i, to, notes)
         \/ \E sev \in Severities : BeginUpdateIssue(w, u, i, sev)
         \/ \E a \in User : BeginAssignIssue(w, u, i, a)
         \/ BeginDeleteIssue(w, u, i)
         \/ \E c \in CommentId, internal \in BOOLEAN : BeginAddComment(w, u, c, i, internal)
    \/ \E c \in CommentId : BeginEditComment(w, u, c) \/ BeginDeleteComment(w, u, c)
  BY DEF Arrive
<1> USE DEF Field, OnIssue, OnComment, Syncing, Holding, Steps, WriterOps,
            EquipmentEdits
<1>0. /\ TypeOK
      /\ \A i \in Live(issue) : /\ i \in IssueId /\ issue[i] \in IssueRow /\ issue[i] # NotYet
                               /\ issue[i].equipment \in EquipmentId
      /\ \A e : Reachable(e) => equipment[e] \in EquipmentRow /\ e \in Live(equipment)
  BY StoredRows DEF RaceInv, IssueRow, Live
<1>1. ASSUME NEW e \in EquipmentId, NEW i \in IssueId, NEW sev \in Severities,
             BeginCreateIssue(w, u, i, e, sev)
      PROVE  RaceInv'
  <2> DEFINE r == [op |-> "createIssue", pc |-> "insert", i |-> i, e |-> e,
                   row |-> NewIssue(u, e, sev)]
  <2>1. Begin(w, r) /\ FreshIssue(i) /\ Reachable(e)
    BY <1>1 DEF BeginCreateIssue
  <2>2. NewIssue(u, e, sev) \in IssueRow /\ NewIssue(u, e, sev).status = "open"
    BY DEF NewIssue, IssueRow
  <2>3. Meant(r)
    BY <2>1, <2>2 DEF Meant, Begin
  <2>4. Placed(r) /\ Known(r, equipment, issue)
    BY <1>0, <2>1 DEF Placed, Known, FreshIssue, Unused
  <2> QED BY <2>1, <2>3, <2>4, BeginKeeps
<1>2. ASSUME NEW e \in EquipmentId, NEW s \in EquipmentStatus, BeginUpdateEquipment(w, u, e, s)
      PROVE  RaceInv'
  <2> DEFINE wr == NetChange(equipment[e], [equipment[e] EXCEPT !.status = s])
             r  == [op |-> "updateEquipment", pc |-> "commit", e |-> e, writes |-> wr]
  <2>1. Begin(w, r) /\ Reachable(e)
    BY <1>2 DEF BeginUpdateEquipment
  <2>2. EquipmentWritesOK(wr)
    BY <1>0, <2>1, StatusWrites
  <2> HIDE DEF wr
  <2>3. Meant(r) /\ Placed(r) /\ Known(r, equipment, issue)
    BY <1>0, <2>1, <2>2 DEF Meant, Begin, Placed, Known
  <2> QED BY <2>1, <2>3, BeginKeeps
<1>3. ASSUME NEW e \in EquipmentId, BeginDeleteEquipment(w, u, e)
      PROVE  RaceInv'
  <2> DEFINE wr == NetChange(equipment[e], [equipment[e] EXCEPT !.deleted = TRUE])
             r  == [op |-> "deleteEquipment", pc |-> "commit", e |-> e, writes |-> wr]
  <2>1. Begin(w, r) /\ Reachable(e)
    BY <1>3 DEF BeginDeleteEquipment
  <2>2. EquipmentWritesOK(wr)
    BY <1>0, <2>1, StatusWrites
  <2> HIDE DEF wr
  <2>3. Meant(r) /\ Placed(r) /\ Known(r, equipment, issue)
    BY <1>0, <2>1, <2>2 DEF Meant, Begin, Placed, Known
  <2> QED BY <2>1, <2>3, BeginKeeps
<1>4. ASSUME NEW i \in IssueId, NEW to \in IssueStatus, NEW notes \in SUBSET CommentId,
             BeginTransition(w, u, i, to, notes)
      PROVE  RaceInv'
  <2> DEFINE wr == TransitionWrites(issue[i], to, u)
             r  == [op |-> "transition", pc |-> "loadEq", actor |-> u, i |-> i,
                    e |-> issue[i].equipment, notes |-> notes, writes |-> wr]
  <2>1. Begin(w, r) /\ i \in Live(issue) /\ MayMove(user[u].role, issue[i].status, to)
    BY <1>4 DEF BeginTransition
  <2>2. issue[i].status # to
    BY <2>1 DEF MayMove, TRANSITIONS, StaffMoves, ManagerMoves
  <2>3. MovesWhole(wr) /\ IssueWritesOK(wr, WritableBy("transition"))
    BY <1>0, <2>1, <2>2, MoveWrites
  <2> HIDE DEF wr
  <2>4. Meant(r)
    BY <1>0, <2>1, <2>3 DEF Meant, Begin
  <2>5. Placed(r) /\ Known(r, equipment, issue)
    BY <1>0, <2>1 DEF Placed, Known
  <2> QED BY <2>1, <2>4, <2>5, BeginKeeps
<1>5. ASSUME NEW i \in IssueId, NEW sev \in Severities, BeginUpdateIssue(w, u, i, sev)
      PROVE  RaceInv'
  <2> DEFINE wr == NetChange(issue[i], [issue[i] EXCEPT !.severity = sev])
             r  == [op |-> "updateIssue", pc |-> "commit", i |-> i, e |-> issue[i].equipment,
                    writes |-> wr]
  <2>1. Begin(w, r) /\ i \in Live(issue)
    BY <1>5 DEF BeginUpdateIssue
  <2>2. IssueWritesOK(wr, WritableBy("updateIssue"))
    <3> PICK a \in User : TRUE
      OBVIOUS
    <3> QED BY <1>0, <2>1, EditWrites
  <2> HIDE DEF wr
  <2>3. Meant(r) /\ Placed(r) /\ Known(r, equipment, issue)
    BY <1>0, <2>1, <2>2 DEF Meant, Begin, Placed, Known
  <2> QED BY <2>1, <2>3, BeginKeeps
<1>6. ASSUME NEW i \in IssueId, NEW a \in User, BeginAssignIssue(w, u, i, a)
      PROVE  RaceInv'
  <2> DEFINE wr == NetChange(issue[i], [issue[i] EXCEPT !.assignee = a])
             r  == [op |-> "assignIssue", pc |-> "commit", i |-> i, writes |-> wr]
  <2>1. Begin(w, r) /\ i \in Live(issue)
    BY <1>6 DEF BeginAssignIssue
  <2>2. IssueWritesOK(wr, WritableBy("assignIssue"))
    <3>1. issue[i].severity \in Severities
      BY <1>0, <2>1 DEF IssueRow
    <3> QED BY <1>0, <2>1, <3>1, EditWrites
  <2> HIDE DEF wr
  <2>3. Meant(r) /\ Placed(r) /\ Known(r, equipment, issue)
    BY <1>0, <2>1, <2>2 DEF Meant, Begin, Placed, Known
  <2> QED BY <2>1, <2>3, BeginKeeps
<1>7. ASSUME NEW i \in IssueId, BeginDeleteIssue(w, u, i)
      PROVE  RaceInv'
  <2> DEFINE r == [op |-> "deleteIssue", pc |-> "commit", i |-> i, e |-> issue[i].equipment]
  <2>1. Begin(w, r) /\ i \in Live(issue)
    BY <1>7 DEF BeginDeleteIssue
  <2>2. Meant(r) /\ Placed(r) /\ Known(r, equipment, issue)
    BY <1>0, <2>1 DEF Meant, Begin, Placed, Known
  <2> QED BY <2>1, <2>2, BeginKeeps
<1>8. ASSUME NEW i \in IssueId, NEW c \in CommentId, NEW internal \in BOOLEAN,
             BeginAddComment(w, u, c, i, internal)
      PROVE  RaceInv'
  <2> DEFINE r == [op |-> "addComment", pc |-> "commit", c |-> c,
                   row |-> NewComment(u, i, internal)]
  <2>1. Begin(w, r)
    BY <1>8 DEF BeginAddComment
  <2>2. NewComment(u, i, internal) \in CommentRow
    BY DEF NewComment, CommentRow
  <2>3. Meant(r) /\ Placed(r) /\ Known(r, equipment, issue)
    BY <2>1, <2>2 DEF Meant, Begin, Placed, Known
  <2> QED BY <2>1, <2>3, BeginKeeps
<1>9. ASSUME NEW c \in CommentId, BeginEditComment(w, u, c) \/ BeginDeleteComment(w, u, c)
      PROVE  RaceInv'
  <2>1. CASE BeginEditComment(w, u, c)
    <3> DEFINE r == [op |-> "editComment", pc |-> "commit", actor |-> u, c |-> c]
    <3>1. Begin(w, r)
      BY <2>1 DEF BeginEditComment
    <3>2. Meant(r) /\ Placed(r) /\ Known(r, equipment, issue)
      BY <3>1 DEF Meant, Begin, Placed, Known
    <3> QED BY <3>1, <3>2, BeginKeeps
  <2>2. CASE BeginDeleteComment(w, u, c)
    <3> DEFINE r == [op |-> "deleteComment", pc |-> "commit", c |-> c]
    <3>1. Begin(w, r)
      BY <2>2 DEF BeginDeleteComment
    <3>2. Meant(r) /\ Placed(r) /\ Known(r, equipment, issue)
      BY <3>1 DEF Meant, Begin, Placed, Known
    <3> QED BY <3>1, <3>2, BeginKeeps
  <2> QED BY <1>9, <2>1, <2>2
<1> QED BY <1>1, <1>2, <1>3, <1>4, <1>5, <1>6, <1>7, <1>8, <1>9

-------------------------------------------------------------------------------
(* Requests go on *)

\* A request that kept all but its step and what it saw means what it meant.
LEMMA SameMeaning ==
  ASSUME NEW r, Meant(r), NEW r2, DOMAIN r \subseteq DOMAIN r2,
         \A f \in DOMAIN r \ {"pc", "eqSeen", "target"} : r2[f] = r[f]
  PROVE  Meant(r2) /\ r2.op = r.op
<1>1. r2.op = r.op
  BY DEF Meant, Field
<1> QED
  BY <1>1 DEF Meant, Field, OnIssue, OnComment, WriterOps, EquipmentEdits

\* The worker's request becomes r2 (or ends), and the tables keep what the
\* others have seen.
LEMMA StepKeeps ==
  ASSUME RaceInv, NEW w \in Worker, req[w] # Idle, NEW r2,
         req' = [req EXCEPT ![w] = r2],
         r2 # Idle => Meant(r2) /\ Placed(r2) /\ Known(r2, equipment', issue'),
         r2 # Idle => r2.pc # "insert",
         TypeOK', ResolvedHasTime',
         Live(equipment) \subseteq Live(equipment'),
         \A v \in Worker : v # w /\ req[v] # Idle /\ req[v].op \in OnIssue =>
           (issue'[req[v].i] = NotYet <=> issue[req[v].i] = NotYet),
         \A v \in Worker : v # w /\ Doing(v, "transition") /\ req[v].pc \in Holding
             /\ req[v].i \in Live(issue) => req[v].i \in Live(issue')
  PROVE  RaceInv'
<1>1. DOMAIN req' = Worker /\ \A v \in Worker : req'[v] = IF v = w THEN r2 ELSE req[v]
  BY DEF RaceInv, Requests
<1>2. ASSUME NEW v \in Worker, req'[v] # Idle
      PROVE  Meant(req'[v]) /\ Placed(req'[v]) /\ Known(req'[v], equipment', issue')
  <2>1. CASE v = w
    BY <1>1, <1>2, <2>1
  <2>2. CASE v # w
    BY <1>1, <1>2, <2>2 DEF RaceInv, Requests, Known, Doing
  <2> QED BY <2>1, <2>2
<1>3. ASSUME NEW u \in Worker, NEW v \in Worker, u # v, Doing(u, "createIssue")',
             Doing(v, "createIssue")', At(v, "insert")'
      PROVE  req'[u].i # req'[v].i
  <2>1. v # w /\ req'[v] = req[v] /\ Doing(v, "createIssue") /\ At(v, "insert")
    BY <1>1, <1>3 DEF Doing, At
  <2>2. CASE u # w
    BY <1>1, <1>3, <2>1, <2>2 DEF Doing, RaceInv, Requests
  <2>3. CASE u = w
    <3>1. issue'[req[v].i] = NotYet /\ issue'[r2.i] # NotYet
      BY <1>1, <1>3, <2>1, <2>3 DEF RaceInv, Requests, Known, Doing, At, OnIssue
    <3> QED BY <1>1, <2>1, <2>3, <3>1
  <2> QED BY <2>2, <2>3
<1> QED BY <1>1, <1>2, <1>3 DEF RaceInv, Requests

\* A step that leaves the tables alone.
LEMMA QuietStepKeeps ==
  ASSUME RaceInv, NEW w \in Worker, req[w] # Idle, NEW r2, UNCHANGED tables,
         req' = [req EXCEPT ![w] = r2],
         r2 # Idle => /\ Meant(r2) /\ Placed(r2) /\ Known(r2, equipment, issue)
                      /\ r2.pc # "insert"
  PROVE  RaceInv'
<1>1. UNCHANGED <<user, equipment, issue, comment>>
  BY DEF tables, vars
<1>2. TypeOK' /\ ResolvedHasTime' /\ Live(equipment') = Live(equipment)
      /\ Live(issue') = Live(issue)
  BY <1>1 DEF RaceInv, TypeOK, ResolvedHasTime, Live
<1> QED BY <1>1, <1>2, StepKeeps

\* A request that flushes its equipment only gains the lock.
LEMMA FlushHolds ==
  ASSUME RaceInv, NEW w \in Worker, FlushEquipment(w)
  PROVE  \E r2 : /\ req' = [req EXCEPT ![w] = r2]
                 /\ DOMAIN r2 = DOMAIN req[w] \cup {"holds"}
                 /\ \A f \in DOMAIN req[w] : r2[f] = req[w][f]
<1>1. "holds" \notin DOMAIN req[w] /\ DOMAIN req = Worker
  BY DEF FlushEquipment, At, HoldsAsset, RaceInv, Requests
<1>2. PICK r2 : r2 = [f \in DOMAIN req[w] \cup {"holds"} |->
                        IF f = "holds" THEN "asset" ELSE req[w][f]]
  OBVIOUS
<1>3. req' = [req EXCEPT ![w] = r2]
  BY <1>1, <1>2 DEF FlushEquipment
<1>4. DOMAIN r2 = DOMAIN req[w] \cup {"holds"} /\ \A f \in DOMAIN req[w] : r2[f] = req[w][f]
  BY <1>1, <1>2
<1> QED BY <1>3, <1>4

LEMMA QuietKeeps ==
  ASSUME RaceInv, NEW w \in Worker,
         \/ ReloadIssue(w) \/ LoadEquipment(w) \/ FlushIssue(w)
         \/ SelectEquipment(w) \/ CountCritical(w) \/ FlushEquipment(w) \/ Fail(w)
  PROVE  RaceInv'
<1>1. /\ UNCHANGED tables /\ req[w] # Idle
      /\ Meant(req[w]) /\ Placed(req[w]) /\ Known(req[w], equipment, issue)
  BY DEF ReloadIssue, LoadEquipment, FlushIssue, SelectEquipment, CountCritical,
         FlushEquipment, Fail, At, RaceInv, Requests
<1>2. CASE Finish(w)
  BY <1>1, <1>2, QuietStepKeeps DEF Finish
<1>3. ASSUME NEW step \in Steps, Goto(w, step), step # "insert",
             Placed([req[w] EXCEPT !.pc = step]),
             Known([req[w] EXCEPT !.pc = step], equipment, issue)
      PROVE  RaceInv'
  <2>1. PICK r2 : r2 = [req[w] EXCEPT !.pc = step]
    OBVIOUS
  <2>2. Meant(r2)
    BY <1>1, <2>1, SameMeaning
  <2>3. req' = [req EXCEPT ![w] = r2] /\ r2.pc # "insert"
    BY <1>1, <1>3, <2>1 DEF Goto, Placed, Field
  <2> QED BY <1>1, <1>3, <2>1, <2>2, <2>3, QuietStepKeeps
<1> USE DEF At, Field, Syncing, Holding, OnIssue, EquipmentEdits, Steps
<1>4. CASE ReloadIssue(w)
  BY <1>1, <1>2, <1>3, <1>4 DEF ReloadIssue, Placed, Known
<1>5. CASE FlushIssue(w)
  BY <1>1, <1>2, <1>3, <1>5 DEF FlushIssue, Placed, Known
<1>6. CASE SelectEquipment(w)
  <2>1. CASE Reachable(req[w].e) /\ req[w].eqSeen # "decommissioned"
    <3>1. Goto(w, "count") /\ req[w].e \in Live(equipment)
      BY <1>6, <2>1 DEF SelectEquipment, Reachable
    <3>2. req[w].pc = "selectEq"
      BY <1>6 DEF SelectEquipment
    <3> QED BY <1>1, <1>3, <3>1, <3>2 DEF Placed, Known
  <2>2. CASE ~(Reachable(req[w].e) /\ req[w].eqSeen # "decommissioned")
    <3>1. Goto(w, "commit") /\ req[w].pc = "selectEq"
      BY <1>6, <2>2 DEF SelectEquipment
    <3> QED BY <1>1, <1>3, <3>1 DEF Placed, Known
  <2> QED BY <2>1, <2>2
<1>7. CASE LoadEquipment(w)
  <2>1. PICK r2 : /\ req' = [req EXCEPT ![w] = r2]
                  /\ r2 = [f \in DOMAIN req[w] \cup {"eqSeen"} |->
                             CASE f = "eqSeen" -> equipment[req[w].e].status
                               [] f = "pc"     -> IF Doing(w, "transition") THEN "flush"
                                                                            ELSE "selectEq"
                               [] OTHER        -> req[w][f]]
    BY <1>7 DEF LoadEquipment, RaceInv, Requests
  <2>2. Meant(r2) /\ r2.op = req[w].op
    BY <1>1, <2>1, SameMeaning
  <2>3. /\ r2.pc \in {"flush", "selectEq"} /\ (r2.pc = "flush" <=> req[w].op = "transition")
        /\ DOMAIN r2 = DOMAIN req[w] \cup {"eqSeen"}
        /\ \A f \in DOMAIN req[w] \ {"pc", "eqSeen"} : r2[f] = req[w][f]
    BY <1>1, <2>1 DEF Placed, Doing
  <2>4. Placed(r2) /\ Known(r2, equipment, issue)
    BY <1>1, <1>7, <2>2, <2>3 DEF Placed, Known, LoadEquipment, Meant, WriterOps
  <2> QED BY <1>1, <2>1, <2>2, <2>3, <2>4, QuietStepKeeps
<1>8. CASE CountCritical(w)
  <2>1. PICK r2 : /\ req' = [req EXCEPT ![w] = r2]
                  /\ r2 = [f \in DOMAIN req[w] \cup {"target"} |->
                             CASE f = "target" -> SyncTarget(req[w].eqSeen,
                                                    HasActiveCritical(SeenBy(w), req[w].e))
                               [] f = "pc"     -> "commit"
                               [] OTHER        -> req[w][f]]
    BY <1>8 DEF CountCritical, RaceInv, Requests
  <2>2. Meant(r2) /\ r2.op = req[w].op
    BY <1>1, <2>1, SameMeaning
  <2>3. \A s, b : b \in BOOLEAN => SyncTarget(s, b) \in EquipmentStatus
    BY DEF SyncTarget
  <2>4. HasActiveCritical(SeenBy(w), req[w].e) \in BOOLEAN
    BY DEF HasActiveCritical
  <2>5. /\ r2.pc = "commit" /\ r2.target \in EquipmentStatus
        /\ DOMAIN r2 = DOMAIN req[w] \cup {"target"}
        /\ \A f \in DOMAIN req[w] \ {"pc", "target"} : r2[f] = req[w][f]
    BY <1>1, <2>1, <2>3, <2>4 DEF Placed
  <2>6. Placed(r2) /\ Known(r2, equipment, issue)
    BY <1>1, <1>8, <2>2, <2>5 DEF Placed, Known, CountCritical, Meant, WriterOps
  <2> QED BY <1>1, <2>1, <2>2, <2>5, <2>6, QuietStepKeeps
<1>9. CASE FlushEquipment(w)
  <2>1. PICK r2 : /\ req' = [req EXCEPT ![w] = r2]
                  /\ DOMAIN r2 = DOMAIN req[w] \cup {"holds"}
                  /\ \A f \in DOMAIN req[w] : r2[f] = req[w][f]
    BY <1>9, FlushHolds
  <2>2. Meant(r2) /\ r2.op = req[w].op
    BY <1>1, <2>1, SameMeaning
  <2>3. r2.pc = "commit" /\ Placed(r2) /\ Known(r2, equipment, issue)
    BY <1>1, <1>9, <2>1, <2>2 DEF FlushEquipment, Placed, Known, Meant, WriterOps
  <2> QED BY <1>1, <2>1, <2>2, <2>3, QuietStepKeeps
<1>10. CASE Fail(w)
  BY <1>2, <1>10 DEF Fail
<1> QED BY <1>4, <1>5, <1>6, <1>7, <1>8, <1>9, <1>10

-------------------------------------------------------------------------------
(* Requests commit *)

\* A worker that is done, having kept the tables well typed and taken from no
\* other request what it counts on.
LEMMA EndKeeps ==
  ASSUME RaceInv, NEW w \in Worker, req[w] # Idle, Finish(w),
         TypeOK', ResolvedHasTime',
         Live(equipment) \subseteq Live(equipment'),
         \A i \in IssueId : issue'[i] = NotYet <=> issue[i] = NotYet,
         \A i \in Live(issue) : Locked(i) => i \in Live(issue')
  PROVE  RaceInv'
<1>1. \A v \in Worker : req[v] # Idle /\ req[v].op \in OnIssue => req[v].i \in IssueId
  BY DEF RaceInv, Requests, Meant, Field
<1>2. \A v \in Worker : Doing(v, "transition") /\ req[v].pc \in Holding => Locked(req[v].i)
  BY DEF Locked, Holding
<1> QED BY <1>1, <1>2, StepKeeps DEF Finish

\* Issues that are only overlaid stay issues.
LEMMA OverlayKeeps ==
  ASSUME RaceInv, NEW i \in Live(issue), NEW writes, IssueWritesOK(writes, IssueColumns),
         issue' = [issue EXCEPT ![i] = Overlay(@, writes)],
         "status" \in DOMAIN writes \/ "resolvedAt" \in DOMAIN writes => MovesWhole(writes)
  PROVE  /\ issue' \in [IssueId -> IssueRow \cup {NotYet, Gone}]
         /\ ResolvedHasTime'
         /\ Live(issue') = Live(issue)
         /\ \A j \in IssueId : issue'[j] = NotYet <=> issue[j] = NotYet
<1>1. i \in IssueId /\ issue[i] \in IssueRow
  BY StoredRows DEF RaceInv
<1>2. Overlay(issue[i], writes) \in IssueRow
  BY <1>1, OverlayIssue
<1>3. /\ issue'[i] = Overlay(issue[i], writes)
      /\ \A j \in IssueId : j # i => issue'[j] = issue[j]
      /\ DOMAIN issue = IssueId /\ DOMAIN issue' = IssueId
  BY <1>1 DEF RaceInv, TypeOK
<1>4. issue'[i] \notin {NotYet, Gone} /\ issue[i] \notin {NotYet, Gone}
  BY <1>1, <1>2, <1>3, SentinelAssumption
<1>5. Live(issue') = Live(issue)
  BY <1>3, <1>4 DEF Live
<1>6. issue'[i].status = "resolved" => issue'[i].resolvedAt
  <2>1. CASE MovesWhole(writes)
    BY <1>1, <1>3, <2>1, OverlayTime
  <2>2. CASE ~("status" \in DOMAIN writes \/ "resolvedAt" \in DOMAIN writes)
    <3>1. issue'[i].status = issue[i].status /\ issue'[i].resolvedAt = issue[i].resolvedAt
      BY <1>1, <1>3, <2>2 DEF Overlay, IssueRow
    <3> QED BY <3>1 DEF RaceInv, ResolvedHasTime
  <2> QED BY <2>1, <2>2
<1>7. ResolvedHasTime'
  <2> SUFFICES ASSUME NEW j \in Live(issue)', issue'[j].status = "resolved"
               PROVE  issue'[j].resolvedAt
    BY DEF ResolvedHasTime
  <2>1. j \in Live(issue) /\ j \in IssueId
    BY <1>3, <1>5 DEF Live
  <2> QED BY <1>3, <1>6, <2>1 DEF RaceInv, ResolvedHasTime
<1> QED BY <1>1, <1>2, <1>3, <1>4, <1>5, <1>7 DEF RaceInv, TypeOK

\* The equipment of a sync.
LEMMA SyncKeeps ==
  ASSUME RaceInv, NEW w \in Worker, req[w] # Idle
  PROVE  /\ EquipmentAfterSync(w) \in [EquipmentId -> EquipmentRow \cup {NotYet}]
         /\ Live(equipment) \subseteq Live(EquipmentAfterSync(w))
<1>1. CASE "target" \in DOMAIN req[w] /\ req[w].target # req[w].eqSeen
  <2> DEFINE e == req[w].e
             row == [equipment[e] EXCEPT !.status = req[w].target]
  <2>1. e \in Live(equipment) /\ req[w].target \in EquipmentStatus
    BY <1>1 DEF RaceInv, Requests, Placed, Known
  <2>2. e \in EquipmentId /\ equipment[e] \in EquipmentRow
    BY <2>1, StoredRows DEF RaceInv
  <2>3. row \in EquipmentRow
    BY <2>1, <2>2 DEF EquipmentRow
  <2>4. EquipmentAfterSync(w) = [equipment EXCEPT ![e] = row]
    BY <1>1 DEF EquipmentAfterSync
  <2> HIDE DEF e, row
  <2> QED BY <2>2, <2>3, <2>4, SentinelAssumption DEF RaceInv, TypeOK, Live
<1>2. CASE ~("target" \in DOMAIN req[w] /\ req[w].target # req[w].eqSeen)
  BY <1>2 DEF EquipmentAfterSync, RaceInv, TypeOK
<1> QED BY <1>1, <1>2

LEMMA InsertKeeps ==
  ASSUME RaceInv, NEW w \in Worker, InsertIssue(w)
  PROVE  RaceInv'
<1> DEFINE i == req[w].i
<1>1. /\ req[w] # Idle /\ req[w].pc = "insert" /\ req[w].op = "createIssue"
      /\ Meant(req[w]) /\ Placed(req[w]) /\ Known(req[w], equipment, issue)
      /\ issue' = [issue EXCEPT ![i] = req[w].row]
      /\ UNCHANGED <<user, equipment, comment>>
  BY DEF InsertIssue, At, RaceInv, Requests, Placed
<1>2. /\ i \in IssueId /\ req[w].row \in IssueRow /\ req[w].row.status = "open"
      /\ issue[i] = NotYet
  BY <1>1 DEF Meant, Field, Known, OnIssue, WriterOps
<1>3. PICK r2 : r2 = [req[w] EXCEPT !.pc = "reload"]
  OBVIOUS
<1>4. req' = [req EXCEPT ![w] = r2]
  BY <1>3 DEF InsertIssue, Goto
<1>5. Meant(r2) /\ r2.op = "createIssue"
  BY <1>1, <1>3, SameMeaning
<1>6. /\ r2.pc = "reload" /\ DOMAIN r2 = DOMAIN req[w]
      /\ \A f \in DOMAIN req[w] : f # "pc" => r2[f] = req[w][f]
  BY <1>1, <1>3 DEF Placed, Field
<1>7. /\ issue'[i] = req[w].row
      /\ \A j \in IssueId : j # i => issue'[j] = issue[j]
      /\ DOMAIN issue = IssueId /\ DOMAIN issue' = IssueId
      /\ issue'[i] \notin {NotYet, Gone}
  BY <1>1, <1>2, SentinelAssumption DEF RaceInv, TypeOK
<1>8. Placed(r2)
  BY <1>1, <1>5, <1>6 DEF Placed, Field, Steps, Syncing
<1>9. r2.i = i /\ r2.e = req[w].e
  BY <1>1, <1>6 DEF Meant, Field, OnIssue, WriterOps
<1>10. Known(r2, equipment', issue')
  BY <1>1, <1>5, <1>6, <1>7, <1>9 DEF Known, EquipmentEdits
<1>11. TypeOK'
  BY <1>1, <1>2 DEF RaceInv, TypeOK
<1>12. ResolvedHasTime'
  BY <1>2, <1>7 DEF RaceInv, ResolvedHasTime, Live
<1>13. ASSUME NEW v \in Worker, v # w, req[v] # Idle, req[v].op \in OnIssue
       PROVE  req[v].i \in IssueId /\ req[v].i # i
  <2>1. req[v].i \in IssueId
    BY <1>13 DEF RaceInv, Requests, Meant, Field
  <2>2. req[v].i = i => req[v].pc = "insert" /\ req[v].op = "createIssue"
    BY <1>2, <1>13 DEF RaceInv, Requests, Known, Placed
  <2> QED BY <1>1, <1>13, <2>1, <2>2 DEF RaceInv, Requests, Doing, At
<1>14. \A j \in Live(issue) : j \in Live(issue')
  BY <1>2, <1>7 DEF Live
<1> HIDE DEF i
<1> QED BY <1>1, <1>4, <1>5, <1>6, <1>7, <1>8, <1>10, <1>11, <1>12, <1>13, <1>14, StepKeeps

LEMMA CommitKeeps ==
  ASSUME RaceInv, NEW w \in Worker,
         \/ CommitNewIssueSync(w) \/ CommitTransition(w)
         \/ CommitIssueEdit(w) \/ CommitDeleteIssue(w) \/ CommitEquipmentEdit(w)
         \/ CommitAddComment(w) \/ CommitCommentEdit(w)
  PROVE  RaceInv'
<1>1. /\ req[w] # Idle /\ req[w].pc = "commit" /\ Finish(w) /\ UNCHANGED user
      /\ Meant(req[w]) /\ Placed(req[w]) /\ Known(req[w], equipment, issue)
  BY DEF CommitNewIssueSync, CommitTransition, CommitIssueEdit, CommitDeleteIssue,
         CommitEquipmentEdit, CommitAddComment, CommitCommentEdit, At, RaceInv, Requests
<1>2. issue' = issue => /\ \A j \in IssueId : issue'[j] = NotYet <=> issue[j] = NotYet
                        /\ Live(issue') = Live(issue)
                        /\ ResolvedHasTime'
  BY DEF RaceInv, ResolvedHasTime, Live
<1>3. CASE CommitNewIssueSync(w)
  <2>1. TypeOK'
    BY <1>1, <1>3, SyncKeeps DEF CommitNewIssueSync, RaceInv, TypeOK
  <2> QED BY <1>1, <1>2, <1>3, <2>1, SyncKeeps, EndKeeps DEF CommitNewIssueSync
<1>4. CASE CommitTransition(w)
  <2>1. /\ req[w].op = "transition" /\ req[w].actor \in User /\ req[w].i \in Live(issue)
        /\ IssueWritesOK(req[w].writes, IssueColumns) /\ MovesWhole(req[w].writes)
    BY <1>1, <1>4 DEF CommitTransition, Doing, Meant, Known, Field, Holding, IssueWritesOK,
       WritableBy, IssueColumns
  <2>2. issue' = [issue EXCEPT ![req[w].i] = Overlay(@, req[w].writes)]
    BY <1>4 DEF CommitTransition, SeenBy
  <2>3. /\ issue' \in [IssueId -> IssueRow \cup {NotYet, Gone}]
        /\ ResolvedHasTime' /\ Live(issue') = Live(issue)
        /\ \A j \in IssueId : issue'[j] = NotYet <=> issue[j] = NotYet
    BY <2>1, <2>2, OverlayKeeps
  <2>4. NewComment(req[w].actor, req[w].i, TRUE) \in CommentRow
    BY <2>1, StoredRows DEF NewComment, CommentRow, RaceInv
  <2>5. TypeOK'
    BY <1>1, <1>4, <2>3, <2>4, SyncKeeps DEF CommitTransition, RaceInv, TypeOK
  <2> QED BY <1>1, <1>4, <2>3, <2>5, SyncKeeps, EndKeeps DEF CommitTransition
<1>5. CASE CommitIssueEdit(w)
  <2>1. /\ IssueWritesOK(req[w].writes, IssueColumns)
        /\ "status" \notin DOMAIN req[w].writes /\ "resolvedAt" \notin DOMAIN req[w].writes
    BY <1>1, <1>5 DEF CommitIssueEdit, Doing, Meant, IssueWritesOK, WritableBy, IssueColumns
  <2>2. CASE req[w].i \in Live(issue)
    <3>1. issue' = [issue EXCEPT ![req[w].i] = Overlay(@, req[w].writes)]
      BY <1>5, <2>2 DEF CommitIssueEdit
    <3>2. /\ issue' \in [IssueId -> IssueRow \cup {NotYet, Gone}]
          /\ ResolvedHasTime' /\ Live(issue') = Live(issue)
          /\ \A j \in IssueId : issue'[j] = NotYet <=> issue[j] = NotYet
      BY <2>1, <2>2, <3>1, OverlayKeeps
    <3>3. TypeOK'
      BY <1>1, <1>5, <3>2 DEF CommitIssueEdit, RaceInv, TypeOK
    <3> QED BY <1>1, <1>5, <3>2, <3>3, EndKeeps DEF CommitIssueEdit
  <2>3. CASE req[w].i \notin Live(issue)
    <3>1. TypeOK'
      BY <1>1, <1>5, <2>3 DEF CommitIssueEdit, RaceInv, TypeOK
    <3> QED BY <1>1, <1>2, <1>5, <2>3, <3>1, EndKeeps DEF CommitIssueEdit
  <2> QED BY <2>2, <2>3
<1>6. CASE CommitDeleteIssue(w)
  <2> DEFINE i == req[w].i
  <2>1. i \in IssueId /\ issue[i] # NotYet /\ ~Locked(i)
    BY <1>1, <1>6 DEF CommitDeleteIssue, Doing, Meant, Known, Field, OnIssue
  <2>2. issue' = [issue EXCEPT ![i] = Gone] /\ equipment' = equipment
    BY <1>6 DEF CommitDeleteIssue
  <2>3. CommentsWithout(i) \in [CommentId -> CommentRow \cup {NotYet, Gone}]
    BY DEF CommentsWithout, RaceInv, TypeOK
  <2>4. /\ issue'[i] = Gone /\ \A j \in IssueId : j # i => issue'[j] = issue[j]
        /\ DOMAIN issue = IssueId /\ DOMAIN issue' = IssueId
    BY <2>1, <2>2 DEF RaceInv, TypeOK
  <2>5. TypeOK'
    BY <1>1, <1>6, <2>2, <2>3 DEF CommitDeleteIssue, RaceInv, TypeOK
  <2>6. ResolvedHasTime'
    BY <2>4 DEF RaceInv, ResolvedHasTime, Live
  <2>7. /\ \A j \in IssueId : issue'[j] = NotYet <=> issue[j] = NotYet
        /\ \A j \in Live(issue) : Locked(j) => j \in Live(issue')
    BY <2>1, <2>4, SentinelAssumption DEF Live
  <2> QED BY <1>1, <2>2, <2>5, <2>6, <2>7, EndKeeps
<1>7. CASE CommitEquipmentEdit(w)
  <2>1. req[w].e \in Live(equipment) /\ EquipmentWritesOK(req[w].writes)
    BY <1>1, <1>7 DEF CommitEquipmentEdit, Doing, Meant, Known, EquipmentEdits
  <2>2. req[w].e \in EquipmentId /\ equipment[req[w].e] \in EquipmentRow
    BY <2>1, StoredRows DEF RaceInv
  <2>3. Overlay(equipment[req[w].e], req[w].writes) \in EquipmentRow
    BY <2>1, <2>2, OverlayEquipment
  <2>4. TypeOK' /\ Live(equipment) \subseteq Live(equipment')
    BY <1>1, <1>7, <2>2, <2>3, SentinelAssumption
    DEF CommitEquipmentEdit, RaceInv, TypeOK, Live
  <2> QED BY <1>1, <1>2, <1>7, <2>4, EndKeeps DEF CommitEquipmentEdit
<1>8. CASE CommitAddComment(w)
  <2>1. req[w].row \in CommentRow
    BY <1>1, <1>8 DEF CommitAddComment, Doing, Meant, Field
  <2>2. TypeOK'
    BY <1>1, <1>8, <2>1 DEF CommitAddComment, RaceInv, TypeOK
  <2> QED BY <1>1, <1>2, <1>8, <2>2, EndKeeps DEF CommitAddComment
<1>9. CASE CommitCommentEdit(w)
  <2>1. /\ Doing(w, "editComment") \/ Doing(w, "deleteComment")
        /\ req[w].op = "editComment" => req[w].actor \in User
    BY <1>1, <1>9 DEF CommitCommentEdit, Meant, Field
  <2>2. req[w].c \in Live(comment) => comment[req[w].c] \in CommentRow
    BY StoredRows DEF RaceInv
  <2>3. comment' \in [CommentId -> CommentRow \cup {NotYet, Gone}]
    BY <1>9, <2>1, <2>2 DEF CommitCommentEdit, Doing, RaceInv, TypeOK, CommentRow
  <2>4. TypeOK'
    BY <1>1, <1>9, <2>3 DEF CommitCommentEdit, RaceInv, TypeOK
  <2> QED BY <1>1, <1>2, <1>9, <2>4, EndKeeps DEF CommitCommentEdit
<1> QED BY <1>3, <1>4, <1>5, <1>6, <1>7, <1>8, <1>9

-------------------------------------------------------------------------------
(* The theorems *)

LEMMA RaceInit == RequestInit => RaceInv
BY SentinelAssumption
   DEF RequestInit, Init, RaceInv, TypeOK, Account, ResolvedHasTime, Live, Requests, Doing

LEMMA RaceStep == RaceInv /\ [RequestNext]_rvars => RaceInv'
<1> SUFFICES ASSUME RaceInv, [RequestNext]_rvars PROVE RaceInv'
  OBVIOUS
<1>1. ASSUME NEW w \in Worker, Arrive(w) PROVE RaceInv'
  BY <1>1, ArriveKeeps
<1>2. ASSUME NEW w \in Worker, Proceed(w) PROVE RaceInv'
  BY <1>2, InsertKeeps, QuietKeeps, CommitKeeps DEF Proceed
<1>3. ASSUME NEW w \in Worker, Fail(w) PROVE RaceInv'
  BY <1>3, QuietKeeps
<1>4. ASSUME NEW u \in User, NEW e \in EquipmentId, NEW s \in EquipmentStatus,
             CreateEquipmentNow(u, e, s)
      PROVE  RaceInv'
  <2>1. /\ UNCHANGED <<user, issue, comment, req>>
        /\ equipment' = [equipment EXCEPT ![e] = [status |-> s, deleted |-> FALSE]]
    BY <1>4 DEF CreateEquipmentNow, CreateEquipment
  <2>2. [status |-> s, deleted |-> FALSE] \in EquipmentRow
    BY DEF EquipmentRow
  <2>3. TypeOK' /\ ResolvedHasTime' /\ Live(equipment) \subseteq Live(equipment')
    BY <2>1, <2>2, SentinelAssumption DEF RaceInv, TypeOK, ResolvedHasTime, Live
  <2>4. Requests'
    BY <2>1, <2>3 DEF RaceInv, Requests, Known, Doing, At
  <2> QED BY <2>3, <2>4 DEF RaceInv
<1>5. CASE UNCHANGED rvars
  BY <1>5 DEF rvars, RaceInv, TypeOK, ResolvedHasTime, Requests, Live, Doing, At
<1> QED BY <1>1, <1>2, <1>3, <1>4, <1>5 DEF RequestNext

\* In every race of any number of requests, what a request means to do, where it
\* is and what the tables have kept of what it saw fit together.
THEOREM RaceInvariant == RequestSpec => []RaceInv
<1> QED BY RaceInit, RaceStep, PTL DEF RequestSpec

\* The tables stay well typed, and a transition, an edit or an assignment
\* flushes only columns of an issue, with values they can hold.
THEOREM RequestsTyped == RequestSpec => []RequestTypeOK
<1>1. RaceInv => RequestTypeOK
  <2> SUFFICES ASSUME RaceInv PROVE RequestTypeOK
    OBVIOUS
  <2>1. ASSUME NEW w \in Worker, req[w] # Idle
        PROVE  /\ req[w].op \in Endpoints /\ req[w].pc \in Steps
               /\ req[w].op \in {"transition", "updateIssue", "assignIssue"} =>
                    IssueWritesOK(req[w].writes, WritableBy(req[w].op))
    BY <2>1 DEF RaceInv, Requests, Meant, Placed, Field
  <2> QED BY <2>1 DEF RequestTypeOK, RaceInv, IssueWritesOK, WritableBy, IssueColumns
<1> QED BY <1>1, RaceInvariant, PTL

\* However transitions race, an issue that is resolved has its time.
THEOREM TimeKept == RequestSpec => []ResolvedHasTime
<1>1. RaceInv => ResolvedHasTime
  BY DEF RaceInv
<1> QED BY <1>1, RaceInvariant, PTL

\* However requests race, a column of an issue is written only by a request that
\* means to: nothing stored is taken back by an edit from a stale copy.
THEOREM ColumnsKept == RequestSpec => NoColumnLost
<1>1. ASSUME RaceInv, [RequestNext]_rvars
      PROVE  [\A i \in Live(issue) : i \in Live(issue)' =>
                \A f \in DOMAIN issue[i] : issue'[i][f] # issue[i][f] =>
                  \E w \in Worker :
                    /\ req[w] # Idle /\ req'[w] = Idle /\ req[w].i = i
                    /\ CASE f = "severity" -> req[w].op = "updateIssue"
                         [] f = "assignee" -> req[w].op = "assignIssue"
                         [] f \in {"status", "resolvedAt", "resolvedBy"} ->
                              req[w].op = "transition"
                         [] f \in {"equipment", "reporter"} -> FALSE]_rvars
  <2> SUFFICES ASSUME NEW i \in Live(issue), i \in Live(issue)',
                      NEW f \in DOMAIN issue[i], issue'[i][f] # issue[i][f]
               PROVE  \E w \in Worker :
                        /\ req[w] # Idle /\ req'[w] = Idle /\ req[w].i = i
                        /\ CASE f = "severity" -> req[w].op = "updateIssue"
                             [] f = "assignee" -> req[w].op = "assignIssue"
                             [] f \in {"status", "resolvedAt", "resolvedBy"} ->
                                  req[w].op = "transition"
                             [] f \in {"equipment", "reporter"} -> FALSE
    OBVIOUS
  <2>1. /\ i \in IssueId /\ issue[i] \in IssueRow /\ issue[i] # NotYet /\ issue'[i] # Gone
        /\ DOMAIN issue = IssueId /\ f \in IssueColumns /\ issue' # issue
    BY <1>1, StoredRows DEF RaceInv, TypeOK, Live, IssueRow, IssueColumns
  <2>2. PICK w \in Worker : \/ InsertIssue(w) \/ CommitTransition(w)
                            \/ CommitIssueEdit(w) \/ CommitDeleteIssue(w)
    <3>1. ~UNCHANGED tables
      BY <2>1 DEF tables, vars
    <3>2. ~UNCHANGED rvars
      BY <2>1 DEF rvars
    <3>3. \A w \in Worker : ~Arrive(w)
      BY <3>1, ArriveQuiet
    <3> QED BY <1>1, <2>1, <3>1, <3>2, <3>3
        DEF RequestNext, Proceed, CreateEquipmentNow, CreateEquipment, ReloadIssue,
            LoadEquipment, FlushIssue, SelectEquipment, CountCritical, FlushEquipment,
            CommitNewIssueSync, CommitEquipmentEdit, CommitAddComment, CommitCommentEdit, Fail
  <2>3. /\ req[w] # Idle /\ DOMAIN req = Worker
        /\ Meant(req[w]) /\ Placed(req[w]) /\ Known(req[w], equipment, issue)
    BY <1>1, <2>2 DEF InsertIssue, CommitTransition, CommitIssueEdit, CommitDeleteIssue, At,
                      RaceInv, Requests
  <2>4. ~InsertIssue(w)
    BY <2>1, <2>3 DEF InsertIssue, At, Placed, Known, OnIssue
  <2>5. ~CommitDeleteIssue(w)
    BY <2>1 DEF CommitDeleteIssue
  <2>6. /\ req[w].op \in {"transition", "updateIssue", "assignIssue"} /\ req[w].i = i
        /\ req'[w] = Idle
        /\ issue'[i] = Overlay(issue[i], req[w].writes)
    BY <2>1, <2>2, <2>3, <2>4, <2>5
    DEF CommitTransition, SeenBy, CommitIssueEdit, Doing, Finish
  <2>7. f \in WritableBy(req[w].op)
    BY <2>3, <2>6 DEF Overlay, Meant, IssueWritesOK
  <2> QED BY <2>1, <2>3, <2>6, <2>7 DEF WritableBy, IssueColumns
<1> QED BY <1>1, RaceInvariant, PTL DEF RequestSpec, NoColumnLost

-------------------------------------------------------------------------------
(* Comments under races *)

\* The ids of the comments a request will insert.
Drawn(r) ==
  CASE r.op = "addComment" -> {r.c}
    [] r.op = "transition" -> r.notes
    [] OTHER               -> {}

\* What a request knows of comments: its ids are still unused, a new comment is
\* in its author's words, and whoever edits one is its author.
Grounded(r) ==
  /\ Drawn(r) \subseteq Unused(comment)
  /\ r.op = "transition" => "notes" \in DOMAIN r
  /\ r.op = "addComment" => r.row.words = r.row.author
  /\ r.op = "editComment" =>
       /\ r.c \notin Unused(comment)
       /\ r.c \in Live(comment) => comment[r.c].author = r.actor

CommentRace ==
  /\ CommentsIntact
  /\ \A w \in Worker : req[w] # Idle => Grounded(req[w])
  /\ \A v, w \in Worker :
       v # w /\ req[v] # Idle /\ req[w] # Idle => Drawn(req[v]) \cap Drawn(req[w]) = {}

LEMMA BeginGrounded ==
  ASSUME RaceInv, CommentRace, NEW w \in Worker, NEW r, Begin(w, r), Grounded(r),
         \A c \in Drawn(r) : FreshComment(c)
  PROVE  CommentRace'
<1>1. UNCHANGED <<user, equipment, issue, comment>>
  BY DEF Begin, tables, vars
<1>2. \A v \in Worker : req'[v] = IF v = w THEN r ELSE req[v]
  BY DEF Begin, RaceInv, Requests
<1>3. CommentsIntact'
  BY <1>1 DEF CommentRace, CommentsIntact, Live
<1>4. \A v \in Worker : req'[v] # Idle => Grounded(req[v])'
  BY <1>1, <1>2 DEF CommentRace, Grounded, Unused, Live
<1>5. \A v \in Worker : req[v] # Idle => Drawn(req[v]) \cap Drawn(r) = {}
  BY DEF Drawn, FreshComment, Doing
<1>6. \A v, x \in Worker :
        v # x /\ req'[v] # Idle /\ req'[x] # Idle => Drawn(req'[v]) \cap Drawn(req'[x]) = {}
  BY <1>2, <1>5 DEF CommentRace
<1> QED BY <1>3, <1>4, <1>6 DEF CommentRace

LEMMA ArriveGrounded ==
  ASSUME RaceInv, CommentRace, NEW w \in Worker, Arrive(w)
  PROVE  CommentRace'
<1>1. ASSUME NEW r, Begin(w, r), r.op \notin {"transition", "addComment", "editComment"}
      PROVE  CommentRace'
  BY <1>1, BeginGrounded DEF Grounded, Drawn
<1>2. \A u, i, e, sev : BeginCreateIssue(w, u, i, e, sev) => CommentRace'
  BY <1>1 DEF BeginCreateIssue
<1>3. \A u, e, s : BeginUpdateEquipment(w, u, e, s) => CommentRace'
  BY <1>1 DEF BeginUpdateEquipment
<1>4. \A u, e : BeginDeleteEquipment(w, u, e) => CommentRace'
  BY <1>1 DEF BeginDeleteEquipment
<1>5. ASSUME NEW u, NEW i, NEW to, NEW notes, BeginTransition(w, u, i, to, notes)
      PROVE  CommentRace'
  <2> DEFINE r == [op |-> "transition", pc |-> "loadEq", actor |-> u, i |-> i,
                   e |-> issue[i].equipment, notes |-> notes,
                   writes |-> TransitionWrites(issue[i], to, u)]
  <2>1. Begin(w, r) /\ \A c \in notes : FreshComment(c)
    BY <1>5 DEF BeginTransition
  <2>2. Drawn(r) = notes /\ Grounded(r)
    BY <2>1 DEF Drawn, Grounded, FreshComment
  <2> HIDE DEF r
  <2> QED BY <2>1, <2>2, BeginGrounded
<1>6. \A u, i, sev : BeginUpdateIssue(w, u, i, sev) => CommentRace'
  BY <1>1 DEF BeginUpdateIssue
<1>7. \A u, i, a : BeginAssignIssue(w, u, i, a) => CommentRace'
  BY <1>1 DEF BeginAssignIssue
<1>8. \A u, i : BeginDeleteIssue(w, u, i) => CommentRace'
  BY <1>1 DEF BeginDeleteIssue
<1>9. ASSUME NEW u, NEW c, NEW i, NEW internal, BeginAddComment(w, u, c, i, internal)
      PROVE  CommentRace'
  <2> DEFINE r == [op |-> "addComment", pc |-> "commit", c |-> c,
                   row |-> NewComment(u, i, internal)]
  <2>1. Begin(w, r) /\ FreshComment(c)
    BY <1>9 DEF BeginAddComment
  <2>2. Drawn(r) = {c} /\ Grounded(r)
    BY <2>1 DEF Drawn, Grounded, FreshComment, NewComment
  <2> HIDE DEF r
  <2> QED BY <2>1, <2>2, BeginGrounded
<1>10. ASSUME NEW u, NEW c, BeginEditComment(w, u, c)
       PROVE  CommentRace'
  <2> DEFINE r == [op |-> "editComment", pc |-> "commit", actor |-> u, c |-> c]
  <2>1. Begin(w, r) /\ c \in Live(comment) /\ comment[c].author = u
    BY <1>10 DEF BeginEditComment
  <2>2. Drawn(r) = {} /\ Grounded(r)
    BY <2>1 DEF Drawn, Grounded, Live, Unused
  <2> HIDE DEF r
  <2> QED BY <2>1, <2>2, BeginGrounded
<1>11. \A u, c : BeginDeleteComment(w, u, c) => CommentRace'
  BY <1>1 DEF BeginDeleteComment
<1> QED
  BY <1>2, <1>3, <1>4, <1>5, <1>6, <1>7, <1>8, <1>9, <1>10, <1>11 DEF Arrive

\* A step that only goes on, with the request it leaves.
LEMMA QuietShape ==
  ASSUME RaceInv, NEW w \in Worker,
         \/ ReloadIssue(w) \/ LoadEquipment(w) \/ FlushIssue(w)
         \/ SelectEquipment(w) \/ CountCritical(w) \/ FlushEquipment(w) \/ Fail(w)
  PROVE  /\ UNCHANGED tables
         /\ \E r2 : /\ req' = [req EXCEPT ![w] = r2]
                    /\ r2 # Idle =>
                         /\ DOMAIN req[w] \subseteq DOMAIN r2
                         /\ \A f \in DOMAIN req[w] \ {"pc", "eqSeen", "target"} :
                              r2[f] = req[w][f]
<1>1. UNCHANGED tables /\ DOMAIN req = Worker
  BY DEF ReloadIssue, LoadEquipment, FlushIssue, SelectEquipment, CountCritical,
         FlushEquipment, Fail, RaceInv, Requests
<1> DEFINE Shape == \E r2 : /\ req' = [req EXCEPT ![w] = r2]
                            /\ r2 # Idle =>
                                 /\ DOMAIN req[w] \subseteq DOMAIN r2
                                 /\ \A f \in DOMAIN req[w] \ {"pc", "eqSeen", "target"} :
                                      r2[f] = req[w][f]
<1>2. ASSUME NEW r2, req' = [req EXCEPT ![w] = r2], DOMAIN req[w] \subseteq DOMAIN r2,
             \A f \in DOMAIN req[w] \ {"pc", "eqSeen", "target"} : r2[f] = req[w][f]
      PROVE  Shape
  BY <1>2
<1>3. Finish(w) => Shape
  BY DEF Finish
<1>4. ASSUME NEW step, Goto(w, step) PROVE Shape
  <2>1. PICK r2 : r2 = [req[w] EXCEPT !.pc = step]
    OBVIOUS
  <2>2. req' = [req EXCEPT ![w] = r2]
    BY <1>4, <2>1 DEF Goto
  <2> QED BY <1>2, <2>1, <2>2
<1>5. LoadEquipment(w) => Shape
  <2> SUFFICES ASSUME LoadEquipment(w) PROVE Shape
    OBVIOUS
  <2>1. PICK r2 : /\ req' = [req EXCEPT ![w] = r2]
                  /\ r2 = [f \in DOMAIN req[w] \cup {"eqSeen"} |->
                             CASE f = "eqSeen" -> equipment[req[w].e].status
                               [] f = "pc"     -> IF Doing(w, "transition") THEN "flush"
                                                                            ELSE "selectEq"
                               [] OTHER        -> req[w][f]]
    BY <1>1 DEF LoadEquipment
  <2> QED BY <1>2, <2>1
<1>6. CountCritical(w) => Shape
  <2> SUFFICES ASSUME CountCritical(w) PROVE Shape
    OBVIOUS
  <2>1. PICK r2 : /\ req' = [req EXCEPT ![w] = r2]
                  /\ r2 = [f \in DOMAIN req[w] \cup {"target"} |->
                             CASE f = "target" -> SyncTarget(req[w].eqSeen,
                                                    HasActiveCritical(SeenBy(w), req[w].e))
                               [] f = "pc"     -> "commit"
                               [] OTHER        -> req[w][f]]
    BY <1>1 DEF CountCritical
  <2> QED BY <1>2, <2>1
<1>7. FlushEquipment(w) => Shape
  <2> SUFFICES ASSUME FlushEquipment(w) PROVE Shape
    OBVIOUS
  <2>1. PICK r2 : /\ req' = [req EXCEPT ![w] = r2]
                  /\ DOMAIN r2 = DOMAIN req[w] \cup {"holds"}
                  /\ \A f \in DOMAIN req[w] : r2[f] = req[w][f]
    BY FlushHolds
  <2> QED BY <1>2, <2>1
<1> HIDE DEF Shape
<1>8. Shape
  BY <1>3, <1>4, <1>5, <1>6, <1>7 DEF ReloadIssue, FlushIssue, SelectEquipment, Fail
<1> QED BY <1>1, <1>8 DEF Shape

\* A step that leaves the comments alone and deletes no issue.
LEMMA QuietGrounded ==
  ASSUME RaceInv, CommentRace, NEW w \in Worker, req[w] # Idle, UNCHANGED comment,
         NEW r2, req' = [req EXCEPT ![w] = r2],
         r2 # Idle => /\ DOMAIN req[w] \subseteq DOMAIN r2
                      /\ \A f \in DOMAIN req[w] \ {"pc", "eqSeen", "target"} :
                           r2[f] = req[w][f],
         Live(issue) \subseteq Live(issue')
  PROVE  CommentRace'
<1>1. \A v \in Worker : req'[v] = IF v = w THEN r2 ELSE req[v]
  BY DEF RaceInv, Requests
<1>2. CommentsIntact'
  BY DEF CommentRace, CommentsIntact, Live
<1>3. r2 # Idle => /\ r2.op = req[w].op
                   /\ r2.op \in {"addComment", "editComment"} => r2.c = req[w].c
                   /\ r2.op = "addComment" => r2.row = req[w].row
                   /\ r2.op = "transition" => r2.notes = req[w].notes /\ "notes" \in DOMAIN r2
                   /\ r2.op = "editComment" => r2.actor = req[w].actor
  BY DEF RaceInv, Requests, Meant, Field, OnComment, CommentRace, Grounded
<1>4. r2 # Idle => Drawn(r2) = Drawn(req[w])
  BY <1>3 DEF Drawn
<1>5. r2 # Idle => Grounded(r2)
  BY <1>3, <1>4 DEF CommentRace, Grounded
<1>6. \A v \in Worker : req'[v] # Idle => Grounded(req[v])'
  BY <1>1, <1>5 DEF CommentRace, Grounded, Unused, Live
<1>7. \A v, x \in Worker :
        v # x /\ req'[v] # Idle /\ req'[x] # Idle => Drawn(req'[v]) \cap Drawn(req'[x]) = {}
  BY <1>1, <1>4 DEF CommentRace
<1> QED BY <1>2, <1>6, <1>7 DEF CommentRace

\* A request that ends with a change of comments: it inserts only its own, and
\* the authors of the others stay.
LEMMA EndGrounded ==
  ASSUME RaceInv, CommentRace, NEW w \in Worker, req[w] # Idle, Finish(w), CommentsIntact',
         DOMAIN comment' = DOMAIN comment,
         \A c \in DOMAIN comment : c \notin Drawn(req[w]) =>
           /\ comment'[c] = NotYet <=> comment[c] = NotYet
           /\ c \in Live(comment') =>
                c \in Live(comment) /\ comment'[c].author = comment[c].author
  PROVE  CommentRace'
<1>1. \A v \in Worker : req'[v] = IF v = w THEN Idle ELSE req[v]
  BY DEF Finish, RaceInv, Requests
<1>2. ASSUME NEW v \in Worker, v # w, req[v] # Idle
      PROVE  Grounded(req[v])'
  <2>1. Grounded(req[v]) /\ Grounded(req[w]) /\ Drawn(req[v]) \cap Drawn(req[w]) = {}
    BY <1>2 DEF CommentRace
  <2>2. PICK r : r = req[v] /\ req'[v] = r
    BY <1>1, <1>2
  <2>3. Drawn(r) \subseteq Unused(comment')
    BY <2>1, <2>2 DEF Grounded, Unused
  <2>4. ASSUME r.op = "editComment"
        PROVE  /\ r.c \notin Unused(comment')
               /\ r.c \in Live(comment') => comment'[r.c].author = r.actor
    <3>1. r.c \notin Unused(comment) /\ (r.c \in Live(comment) => comment[r.c].author = r.actor)
      BY <2>1, <2>2, <2>4 DEF Grounded
    <3>2. r.c \notin Drawn(req[w])
      BY <2>1, <3>1 DEF Grounded
    <3> QED BY <3>1, <3>2 DEF Unused, Live
  <2>5. Grounded(r)'
    BY <2>1, <2>2, <2>3, <2>4 DEF Grounded
  <2> QED BY <2>2, <2>5 DEF Grounded
<1>3. \A v \in Worker : req'[v] # Idle => Grounded(req[v])'
  BY <1>1, <1>2
<1>4. \A v, x \in Worker :
        v # x /\ req'[v] # Idle /\ req'[x] # Idle => Drawn(req'[v]) \cap Drawn(req'[x]) = {}
  BY <1>1 DEF CommentRace
<1> QED BY <1>3, <1>4 DEF CommentRace

\* What a step other than the delete does to the issues leaves them stored.
LEMMA IssuesStay ==
  ASSUME RaceInv, NEW w \in Worker, InsertIssue(w) \/ CommitTransition(w) \/ CommitIssueEdit(w)
  PROVE  Live(issue) \subseteq Live(issue')
<1>1. /\ req[w] # Idle /\ Meant(req[w]) /\ Placed(req[w]) /\ Known(req[w], equipment, issue)
  BY DEF InsertIssue, CommitTransition, CommitIssueEdit, At, RaceInv, Requests
<1>2. CASE InsertIssue(w)
  <2>1. /\ req[w].op = "createIssue" /\ req[w].i \in IssueId
        /\ req[w].row \in IssueRow
        /\ issue' = [issue EXCEPT ![req[w].i] = req[w].row]
    BY <1>1, <1>2 DEF InsertIssue, At, Placed, Meant, Field, OnIssue
  <2> QED BY <2>1, SentinelAssumption DEF RaceInv, TypeOK, Live
<1>3. CASE CommitTransition(w)
  <2>1. /\ req[w].i \in Live(issue)
        /\ IssueWritesOK(req[w].writes, IssueColumns) /\ MovesWhole(req[w].writes)
    BY <1>1, <1>3 DEF CommitTransition, Doing, At, Meant, Known, Holding, IssueWritesOK,
       WritableBy, IssueColumns
  <2>2. issue' = [issue EXCEPT ![req[w].i] = Overlay(@, req[w].writes)]
    BY <1>3 DEF CommitTransition, SeenBy
  <2> QED BY <2>1, <2>2, OverlayKeeps
<1>4. CASE CommitIssueEdit(w)
  <2>1. /\ IssueWritesOK(req[w].writes, IssueColumns)
        /\ "status" \notin DOMAIN req[w].writes /\ "resolvedAt" \notin DOMAIN req[w].writes
    BY <1>1, <1>4 DEF CommitIssueEdit, Doing, Meant, IssueWritesOK, WritableBy, IssueColumns
  <2>2. \/ issue' = issue
        \/ /\ req[w].i \in Live(issue)
           /\ issue' = [issue EXCEPT ![req[w].i] = Overlay(@, req[w].writes)]
    BY <1>4 DEF CommitIssueEdit
  <2> QED BY <2>1, <2>2, OverlayKeeps
<1> QED BY <1>2, <1>3, <1>4

LEMMA StepGrounded ==
  ASSUME RaceInv, CommentRace, NEW w \in Worker, Proceed(w) \/ Fail(w)
  PROVE  CommentRace'
<1>1. /\ req[w] # Idle /\ Meant(req[w]) /\ Grounded(req[w]) /\ DOMAIN req = Worker
      /\ comment \in [CommentId -> CommentRow \cup {NotYet, Gone}]
      /\ \A c \in Live(comment) : /\ c \in CommentId /\ comment[c] \in CommentRow
                                  /\ comment[c].issue \in Live(issue)
                                  /\ comment[c].words = comment[c].author
  BY StoredRows
  DEF Proceed, InsertIssue, ReloadIssue, LoadEquipment, FlushIssue, SelectEquipment,
      CountCritical, FlushEquipment, CommitNewIssueSync, CommitTransition, CommitIssueEdit,
      CommitDeleteIssue, CommitEquipmentEdit, CommitAddComment, CommitCommentEdit, Fail, At, RaceInv, Requests,
      TypeOK, CommentRace, CommentsIntact
<1>2. ASSUME Finish(w), UNCHANGED comment, Live(issue) \subseteq Live(issue')
      PROVE  CommentRace'
  BY <1>1, <1>2, QuietGrounded DEF Finish
<1>3. CASE \/ ReloadIssue(w) \/ LoadEquipment(w) \/ FlushIssue(w)
           \/ SelectEquipment(w) \/ CountCritical(w) \/ FlushEquipment(w) \/ Fail(w)
  <2>1. UNCHANGED <<comment, issue>>
    BY <1>3, QuietShape DEF tables, vars
  <2> QED BY <1>1, <1>3, <2>1, QuietShape, QuietGrounded
<1>4. CASE InsertIssue(w)
  <2>1. PICK r2 : r2 = [req[w] EXCEPT !.pc = "reload"]
    OBVIOUS
  <2>2. req' = [req EXCEPT ![w] = r2] /\ UNCHANGED comment
    BY <1>4, <2>1 DEF InsertIssue, Goto
  <2>3. Live(issue) \subseteq Live(issue')
    BY <1>4, IssuesStay
  <2> QED BY <1>1, <2>1, <2>2, <2>3, QuietGrounded
<1>5. CASE CommitNewIssueSync(w) \/ CommitEquipmentEdit(w)
  BY <1>2, <1>5 DEF CommitNewIssueSync, CommitEquipmentEdit
<1>6. CASE CommitIssueEdit(w)
  BY <1>2, <1>6, IssuesStay DEF CommitIssueEdit
<1>7. CASE CommitTransition(w)
  <2> DEFINE new == NewComment(req[w].actor, req[w].i, TRUE)
  <2>1. /\ Drawn(req[w]) = req[w].notes /\ Finish(w)
        /\ comment' = [c \in CommentId |-> IF c \in req[w].notes THEN new ELSE comment[c]]
    BY <1>7 DEF CommitTransition, Doing, Drawn
  <2>2. Live(issue) \subseteq Live(issue') /\ req[w].i \in Live(issue)
    BY <1>7, IssuesStay
    DEF CommitTransition, At, Doing, RaceInv, Requests, Known, Holding
  <2>3. new.issue = req[w].i /\ new.words = new.author
    BY DEF NewComment
  <2> HIDE DEF new
  <2>4. CommentsIntact'
    BY <1>1, <2>1, <2>2, <2>3 DEF CommentsIntact, Live
  <2> QED BY <1>1, <2>1, <2>4, EndGrounded DEF Live
<1>8. CASE CommitDeleteIssue(w)
  <2>1. /\ Finish(w) /\ comment' = CommentsWithout(req[w].i)
        /\ issue' = [issue EXCEPT ![req[w].i] = Gone]
    BY <1>8 DEF CommitDeleteIssue
  <2>2. CommentsIntact'
    BY <1>1, <2>1 DEF CommentsWithout, CommentsIntact, Live
  <2>3. /\ DOMAIN comment' = DOMAIN comment
        /\ \A c \in DOMAIN comment :
             /\ comment'[c] = NotYet <=> comment[c] = NotYet
             /\ c \in Live(comment') =>
                  c \in Live(comment) /\ comment'[c].author = comment[c].author
    BY <1>1, <2>1, SentinelAssumption DEF CommentsWithout, Live
  <2> QED BY <1>1, <2>1, <2>2, <2>3, EndGrounded
<1>9. CASE CommitAddComment(w)
  <2>1. /\ Drawn(req[w]) = {req[w].c} /\ req[w].c \in CommentId /\ req[w].row \in CommentRow
        /\ req[w].row.words = req[w].row.author /\ Finish(w) /\ issue' = issue
        /\ comment' = IF req[w].row.issue \in Live(issue)
                        THEN [comment EXCEPT ![req[w].c] = req[w].row]
                        ELSE comment
    BY <1>1, <1>9 DEF CommitAddComment, Doing, Drawn, Meant, Grounded, Field, OnComment
  <2>2. CommentsIntact'
    BY <1>1, <2>1 DEF CommentsIntact, Live
  <2> QED BY <1>1, <2>1, <2>2, EndGrounded DEF Live
<1>10. CASE CommitCommentEdit(w)
  <2> DEFINE c == req[w].c
  <2>1. /\ Drawn(req[w]) = {} /\ Finish(w) /\ issue' = issue /\ c \in CommentId
        /\ Doing(w, "editComment") /\ c \in Live(comment) => comment[c].author = req[w].actor
    BY <1>1, <1>10 DEF CommitCommentEdit, Doing, Drawn, Meant, Grounded, Field, OnComment
  <2>2. \/ comment' = comment
        \/ c \in Live(comment) /\ comment' = [comment EXCEPT ![c] = Gone]
        \/ /\ c \in Live(comment) /\ comment' = [comment EXCEPT ![c].words = req[w].actor]
           /\ Doing(w, "editComment")
    BY <1>10 DEF CommitCommentEdit
  <2> HIDE DEF c
  <2>3. CASE comment' = comment
    BY <1>2, <2>1, <2>3
  <2>4. CASE c \in Live(comment) /\ comment' = [comment EXCEPT ![c] = Gone]
    <3>1. CommentsIntact'
      BY <1>1, <2>1, <2>4 DEF CommentsIntact, Live
    <3> QED BY <1>1, <2>1, <2>4, <3>1, SentinelAssumption, EndGrounded DEF Live
  <2>5. CASE /\ c \in Live(comment) /\ comment' = [comment EXCEPT ![c].words = req[w].actor]
             /\ Doing(w, "editComment")
    <3>1. PICK row : row = [comment[c] EXCEPT !.words = req[w].actor]
      OBVIOUS
    <3>2. /\ comment' = [comment EXCEPT ![c] = row]
          /\ row.words = row.author /\ row.issue = comment[c].issue
          /\ row.author = comment[c].author
      BY <1>1, <2>1, <2>5, <3>1 DEF CommentRow
    <3>3. row \notin {NotYet, Gone} /\ comment[c] \notin {NotYet, Gone}
      <4>1. row \in CommentRow
        BY <1>1, <2>1, <2>5, <3>1 DEF CommentRow
      <4> QED BY <2>5, <4>1, SentinelAssumption DEF Live
    <3>4. CommentsIntact'
      BY <1>1, <2>1, <3>2, <3>3 DEF CommentsIntact, Live
    <3> QED BY <1>1, <2>1, <3>2, <3>3, <3>4, EndGrounded DEF Live
  <2> QED BY <2>2, <2>3, <2>4, <2>5
<1> QED
  BY <1>3, <1>4, <1>5, <1>6, <1>7, <1>8, <1>9, <1>10 DEF Proceed

LEMMA CommentStart == RequestInit => CommentRace
BY DEF RequestInit, Init, CommentRace, CommentsIntact, Live

LEMMA CommentsGoOn == RaceInv /\ CommentRace /\ [RequestNext]_rvars => CommentRace'
<1> SUFFICES ASSUME RaceInv, CommentRace, [RequestNext]_rvars PROVE CommentRace'
  OBVIOUS
<1>1. ASSUME UNCHANGED <<issue, comment, req>> PROVE CommentRace'
  BY <1>1 DEF CommentRace, CommentsIntact, Grounded, Live, Unused
<1> QED BY <1>1, ArriveGrounded, StepGrounded
        DEF RequestNext, CreateEquipmentNow, CreateEquipment, rvars

\* However new comments, edits and deletes race with each other and with the
\* deletion of the issue, a stored comment's issue is stored and its words are
\* its author's.
THEOREM CommentsKept == RequestSpec => []CommentsIntact
<1>1. CommentRace => CommentsIntact
  BY DEF CommentRace
<1> QED BY <1>1, CommentStart, CommentsGoOn, RaceInvariant, PTL DEF RequestSpec

-------------------------------------------------------------------------------
(* Assets under races *)

\* What a request may make of its asset: an edit its own column, a deletion never
\* taken back; a sync a status that is in service, from one that was.
Gentle(r) ==
  /\ r.pc \in {"flush", "selectEq", "count"} => "eqSeen" \in DOMAIN r
  /\ r.pc = "count" => r.eqSeen # "decommissioned"
  /\ "target" \in DOMAIN r => /\ r.pc = "commit" /\ "eqSeen" \in DOMAIN r
                              /\ "decommissioned" \notin {r.eqSeen, r.target}
  /\ r.op = "updateEquipment" => \A f \in DOMAIN r.writes : f = "status"
  /\ r.op = "deleteEquipment" => \A f \in DOMAIN r.writes : f = "deleted" /\ r.writes[f]

AssetRace == \A w \in Worker : req[w] # Idle => Gentle(req[w])

\* The one column a PATCH or a deletion of an asset flushes.
LEMMA AssetWrites ==
  ASSUME NEW row \in EquipmentRow, NEW s \in EquipmentStatus
  PROVE  /\ \A f \in DOMAIN NetChange(row, [row EXCEPT !.status = s]) : f = "status"
         /\ \A f \in DOMAIN NetChange(row, [row EXCEPT !.deleted = TRUE]) :
              f = "deleted" /\ NetChange(row, [row EXCEPT !.deleted = TRUE])[f]
BY DEF EquipmentRow, NetChange

LEMMA ArriveGentle ==
  ASSUME RaceInv, AssetRace, NEW w \in Worker, Arrive(w)
  PROVE  AssetRace'
<1>1. ASSUME NEW r, Begin(w, r), Gentle(r) PROVE AssetRace'
  BY <1>1 DEF Begin, AssetRace, RaceInv, Requests
<1>2. ASSUME NEW r, Begin(w, r), r.pc \notin {"flush", "selectEq", "count"},
             "target" \notin DOMAIN r, r.op \notin EquipmentEdits
      PROVE  AssetRace'
  BY <1>1, <1>2 DEF Gentle, EquipmentEdits
<1>3. \A u, i, e, sev : BeginCreateIssue(w, u, i, e, sev) => AssetRace'
  BY <1>2 DEF BeginCreateIssue, EquipmentEdits
<1>4. ASSUME NEW u, NEW e, NEW s \in EquipmentStatus, BeginUpdateEquipment(w, u, e, s)
      PROVE  AssetRace'
  <2> DEFINE wr == NetChange(equipment[e], [equipment[e] EXCEPT !.status = s])
             r  == [op |-> "updateEquipment", pc |-> "commit", e |-> e, writes |-> wr]
  <2>1. Begin(w, r) /\ equipment[e] \in EquipmentRow
    BY <1>4, StoredRows DEF BeginUpdateEquipment, RaceInv
  <2>2. \A f \in DOMAIN wr : f = "status"
    BY <2>1, AssetWrites
  <2> HIDE DEF wr
  <2>3. Gentle(r)
    BY <2>2 DEF Gentle
  <2> QED BY <1>1, <2>1, <2>3
<1>5. ASSUME NEW u, NEW e, BeginDeleteEquipment(w, u, e)
      PROVE  AssetRace'
  <2> DEFINE wr == NetChange(equipment[e], [equipment[e] EXCEPT !.deleted = TRUE])
             r  == [op |-> "deleteEquipment", pc |-> "commit", e |-> e, writes |-> wr]
  <2>1. Begin(w, r) /\ equipment[e] \in EquipmentRow
    BY <1>5, StoredRows DEF BeginDeleteEquipment, RaceInv
  <2>2. \A f \in DOMAIN wr : f = "deleted" /\ wr[f]
    BY <2>1, AssetWrites
  <2> HIDE DEF wr
  <2>3. Gentle(r)
    BY <2>2 DEF Gentle
  <2> QED BY <1>1, <2>1, <2>3
<1>6. \A u, i, to, notes : BeginTransition(w, u, i, to, notes) => AssetRace'
  BY <1>2 DEF BeginTransition, EquipmentEdits
<1>7. \A u, i, sev : BeginUpdateIssue(w, u, i, sev) => AssetRace'
  BY <1>2 DEF BeginUpdateIssue, EquipmentEdits
<1>8. \A u, i, a : BeginAssignIssue(w, u, i, a) => AssetRace'
  BY <1>2 DEF BeginAssignIssue, EquipmentEdits
<1>9. \A u, i : BeginDeleteIssue(w, u, i) => AssetRace'
  BY <1>2 DEF BeginDeleteIssue, EquipmentEdits
<1>10. \A u, c, i, internal : BeginAddComment(w, u, c, i, internal) => AssetRace'
  BY <1>2 DEF BeginAddComment, EquipmentEdits
<1>11. \A u, c : BeginEditComment(w, u, c) => AssetRace'
  BY <1>2 DEF BeginEditComment, EquipmentEdits
<1>12. \A u, c : BeginDeleteComment(w, u, c) => AssetRace'
  BY <1>2 DEF BeginDeleteComment, EquipmentEdits
<1> QED
  BY <1>3, <1>4, <1>5, <1>6, <1>7, <1>8, <1>9, <1>10, <1>11, <1>12 DEF Arrive

\* A request that goes on learns the status of its asset, and settles on a target
\* only where that status is in service.
LEMMA ProceedGentle ==
  ASSUME RaceInv, AssetRace, NEW w \in Worker, Proceed(w) \/ Fail(w)
  PROVE  AssetRace'
<1>1. /\ req[w] # Idle /\ DOMAIN req = Worker /\ Gentle(req[w])
      /\ Meant(req[w]) /\ Placed(req[w])
  BY DEF Proceed, InsertIssue, ReloadIssue, LoadEquipment, FlushIssue, SelectEquipment,
         CountCritical, FlushEquipment, CommitNewIssueSync, CommitTransition,
         CommitIssueEdit, CommitDeleteIssue, CommitEquipmentEdit, CommitAddComment, CommitCommentEdit, Fail,
         At, RaceInv, Requests, AssetRace
<1>2. ASSUME NEW r2, req' = [req EXCEPT ![w] = r2], r2 # Idle => Gentle(r2)
      PROVE  AssetRace'
  BY <1>1, <1>2 DEF AssetRace
<1>3. CASE Finish(w)
  BY <1>2, <1>3 DEF Finish
<1>4. ASSUME NEW step, Goto(w, step),
             step \in {"flush", "selectEq", "count"} => "eqSeen" \in DOMAIN req[w],
             step = "count" => req[w].eqSeen # "decommissioned",
             req[w].pc # "commit"
      PROVE  AssetRace'
  <2>1. PICK r2 : r2 = [req[w] EXCEPT !.pc = step]
    OBVIOUS
  <2>2. /\ req' = [req EXCEPT ![w] = r2] /\ DOMAIN r2 = DOMAIN req[w]
        /\ r2.pc = step
        /\ \A f \in DOMAIN req[w] : f # "pc" => r2[f] = req[w][f]
    BY <1>1, <1>4, <2>1 DEF Goto, Placed, Field
  <2>3. Gentle(r2)
    BY <1>1, <1>4, <2>2 DEF Gentle, Meant, Field, EquipmentEdits
  <2> QED BY <1>2, <2>2, <2>3
<1>5. CASE InsertIssue(w) \/ ReloadIssue(w) \/ FlushIssue(w)
  BY <1>1, <1>3, <1>4, <1>5 DEF InsertIssue, ReloadIssue, FlushIssue, At, Gentle
<1>6. CASE LoadEquipment(w)
  <2>1. PICK r2 : /\ req' = [req EXCEPT ![w] = r2]
                  /\ r2 = [f \in DOMAIN req[w] \cup {"eqSeen"} |->
                             CASE f = "eqSeen" -> equipment[req[w].e].status
                               [] f = "pc"     -> IF Doing(w, "transition") THEN "flush"
                                                                            ELSE "selectEq"
                               [] OTHER        -> req[w][f]]
    BY <1>1, <1>6 DEF LoadEquipment
  <2>2. /\ r2.pc \in {"flush", "selectEq"} /\ "target" \notin DOMAIN r2
        /\ "eqSeen" \in DOMAIN r2 /\ r2.op = req[w].op /\ r2.op \in Syncing
    BY <1>1, <1>6, <2>1 DEF LoadEquipment, At, Gentle, Placed, Meant, Field, Doing, Syncing
  <2> QED BY <1>2, <2>1, <2>2 DEF Gentle, Syncing
<1>7. CASE SelectEquipment(w)
  <2>1. req[w].pc = "selectEq" /\ "eqSeen" \in DOMAIN req[w]
    BY <1>1, <1>7 DEF SelectEquipment, At, Gentle
  <2>2. CASE Goto(w, "count") /\ req[w].eqSeen # "decommissioned"
    BY <1>4, <2>1, <2>2
  <2>3. CASE Goto(w, "commit")
    BY <1>4, <2>1, <2>3
  <2> QED BY <1>7, <2>2, <2>3 DEF SelectEquipment
<1>8. CASE CountCritical(w)
  <2>1. PICK r2 : /\ req' = [req EXCEPT ![w] = r2]
                  /\ r2 = [f \in DOMAIN req[w] \cup {"target"} |->
                             CASE f = "target" -> SyncTarget(req[w].eqSeen,
                                                    HasActiveCritical(SeenBy(w), req[w].e))
                               [] f = "pc"     -> "commit"
                               [] OTHER        -> req[w][f]]
    BY <1>1, <1>8 DEF CountCritical
  <2>2. req[w].eqSeen # "decommissioned" /\ "eqSeen" \in DOMAIN req[w]
    BY <1>1, <1>8 DEF CountCritical, At, Gentle
  <2>3. \A b \in BOOLEAN : SyncTarget(req[w].eqSeen, b) # "decommissioned"
    BY <2>2 DEF SyncTarget
  <2>4. HasActiveCritical(SeenBy(w), req[w].e) \in BOOLEAN
    BY DEF HasActiveCritical
  <2>5. /\ r2.pc = "commit" /\ r2.eqSeen = req[w].eqSeen /\ "eqSeen" \in DOMAIN r2
        /\ r2.target # "decommissioned"
        /\ r2.op = req[w].op /\ r2.op \in Syncing
    BY <1>1, <1>8, <2>1, <2>2, <2>3, <2>4 DEF CountCritical, At, Placed, Meant, Field
  <2> QED BY <1>2, <2>1, <2>2, <2>5 DEF Gentle, Syncing
<1>9. CASE FlushEquipment(w)
  <2>1. PICK r2 : /\ req' = [req EXCEPT ![w] = r2]
                  /\ DOMAIN r2 = DOMAIN req[w] \cup {"holds"}
                  /\ \A f \in DOMAIN req[w] : r2[f] = req[w][f]
    BY <1>9, FlushHolds
  <2>2. r2.op = req[w].op /\ r2.pc = "commit"
    BY <1>1, <1>9, <2>1 DEF FlushEquipment, At, Meant, Placed, Field
  <2>3. r2.op \in EquipmentEdits => r2.writes = req[w].writes
    BY <1>1, <2>1, <2>2 DEF Meant
  <2>4. Gentle(r2)
    BY <1>1, <2>1, <2>2, <2>3 DEF Gentle, EquipmentEdits, Placed
  <2> QED BY <1>2, <2>1, <2>4
<1> QED
  BY <1>3, <1>5, <1>6, <1>7, <1>8, <1>9
  DEF Proceed, CommitNewIssueSync, CommitTransition, CommitIssueEdit, CommitDeleteIssue,
      CommitEquipmentEdit, CommitAddComment, CommitCommentEdit, Fail

LEMMA AssetStart == RequestInit => AssetRace
BY DEF RequestInit, AssetRace

LEMMA AssetsGoOn == RaceInv /\ AssetRace /\ [RequestNext]_rvars => AssetRace'
BY ArriveGentle, ProceedGentle DEF RequestNext, CreateEquipmentNow, AssetRace, rvars

\* A request that ends, changing an asset, changes its own, and as it may.
LEMMA CommitTouches ==
  ASSUME RaceInv, AssetRace, NEW w \in Worker, NEW e \in Live(equipment),
         equipment'[e] # equipment[e],
         CommitNewIssueSync(w) \/ CommitTransition(w) \/ CommitEquipmentEdit(w)
  PROVE  TouchedBy(w, e) /\ (equipment[e].deleted => equipment'[e].deleted)
<1>1. /\ req[w] # Idle /\ req'[w] = Idle /\ DOMAIN req = Worker /\ Gentle(req[w])
      /\ Placed(req[w]) /\ Known(req[w], equipment, issue)
  BY DEF CommitNewIssueSync, CommitTransition, CommitEquipmentEdit, Finish, At,
         RaceInv, Requests, AssetRace
<1>2. e \in EquipmentId /\ equipment[e] \in EquipmentRow /\ DOMAIN equipment = EquipmentId
  BY StoredRows DEF RaceInv, TypeOK
<1>3. CASE CommitNewIssueSync(w) \/ CommitTransition(w)
  <2>1. equipment' = EquipmentAfterSync(w) /\ req[w].op \in {"createIssue", "transition"}
    BY <1>3 DEF CommitNewIssueSync, CommitTransition, Doing
  <2>2. /\ "target" \in DOMAIN req[w]
        /\ equipment' = [equipment EXCEPT ![req[w].e].status = req[w].target]
    BY <2>1 DEF EquipmentAfterSync
  <2>3. req[w].e = e /\ equipment'[e] = [equipment[e] EXCEPT !.status = req[w].target]
    BY <1>2, <2>2
  <2>4. /\ equipment'[e].deleted = equipment[e].deleted
        /\ equipment'[e].status = req[w].target
    BY <1>2, <2>3 DEF EquipmentRow
  <2> QED BY <1>1, <2>1, <2>2, <2>3, <2>4 DEF Gentle, TouchedBy
<1>4. CASE CommitEquipmentEdit(w)
  <2>1. /\ equipment' = [equipment EXCEPT ![req[w].e] = Overlay(@, req[w].writes)]
        /\ req[w].op \in {"updateEquipment", "deleteEquipment"}
    BY <1>4 DEF CommitEquipmentEdit, Doing
  <2>2. req[w].e = e /\ equipment'[e] = Overlay(equipment[e], req[w].writes)
    BY <1>2, <2>1
  <2>3. DOMAIN equipment[e] = {"status", "deleted"}
    BY <1>2 DEF EquipmentRow
  <2>4. CASE req[w].op = "updateEquipment"
    <3>1. equipment'[e].deleted = equipment[e].deleted
      BY <1>1, <2>2, <2>3, <2>4 DEF Overlay, Gentle
    <3> QED BY <1>1, <2>2, <2>4, <3>1 DEF TouchedBy
  <2>5. CASE req[w].op = "deleteEquipment"
    <3>1. /\ equipment'[e].status = equipment[e].status
          /\ equipment[e].deleted => equipment'[e].deleted
      BY <1>1, <2>2, <2>3, <2>5 DEF Overlay, Gentle
    <3> QED BY <1>1, <2>2, <2>5, <3>1 DEF TouchedBy
  <2> QED BY <2>1, <2>4, <2>5
<1> QED BY <1>3, <1>4

\* However PATCHes, deletions and syncs of one asset race, none takes back what
\* another wrote in a column that it does not mean to write; a deletion is final, and
\* a sync leaves alone an asset that it did not find in service.
THEOREM AssetColumnsKept == RequestSpec => AssetColumnOnly
<1>1. ASSUME RaceInv, AssetRace, [RequestNext]_rvars
      PROVE  [\A e \in Live(equipment) :
                /\ equipment[e].deleted => equipment'[e].deleted
                /\ equipment'[e] # equipment[e] => \E w \in Worker : TouchedBy(w, e)]_rvars
  <2> SUFFICES ASSUME NEW e \in Live(equipment), equipment'[e] # equipment[e]
               PROVE  /\ equipment[e].deleted => equipment'[e].deleted
                      /\ \E w \in Worker : TouchedBy(w, e)
    OBVIOUS
  <2>1. ~UNCHANGED tables /\ ~UNCHANGED rvars
    BY DEF tables, vars, rvars
  <2>2. ASSUME NEW u, NEW a \in EquipmentId, NEW s, CreateEquipmentNow(u, a, s) PROVE FALSE
    <3>1. a # e /\ equipment' = [equipment EXCEPT ![a] = [status |-> s, deleted |-> FALSE]]
      BY <2>2 DEF CreateEquipmentNow, CreateEquipment, Unused, Live
    <3> QED BY <3>1 DEF Live
  <2>3. PICK w \in Worker :
          CommitNewIssueSync(w) \/ CommitTransition(w) \/ CommitEquipmentEdit(w)
    BY <1>1, <2>1, <2>2, ArriveQuiet
    DEF RequestNext, Proceed, InsertIssue, ReloadIssue, LoadEquipment, FlushIssue,
        SelectEquipment, CountCritical, FlushEquipment, CommitIssueEdit, CommitDeleteIssue,
        CommitAddComment, CommitCommentEdit, Fail
  <2> QED BY <1>1, <2>3, CommitTouches
<1> QED
  BY <1>1, AssetStart, AssetsGoOn, RaceInvariant, PTL DEF RequestSpec, AssetColumnOnly
=============================================================================
