-------------------------- MODULE IssueTrackerProofs --------------------------
(***************************************************************************)
(* The safety of IssueTracker for every set of accounts, equipment, issues *)
(* and comments.                                                           *)
(***************************************************************************)
EXTENDS IssueTracker, TLAPS

USE DEF Role, IssueStatus, EquipmentStatus

-------------------------------------------------------------------------------
(* What the domain rules preserve *)

\* A moved row is a row.
LEMMA MovedType ==
  ASSUME NEW row \in IssueRow, NEW to \in IssueStatus, NEW u \in User
  PROVE  Moved(row, to, u, NoUser) \in IssueRow
BY DEF Moved, IssueRow

\* A synced equipment table is an equipment table.
LEMMA SyncedType ==
  ASSUME TypeOK, NEW rows, NEW e \in EquipmentId
  PROVE  SyncedEquipment(rows, e) \in [EquipmentId -> EquipmentRow \cup {NotYet}]
<1>1. CASE Reachable(e)
  <2>1. equipment[e] \in EquipmentRow
    BY <1>1 DEF Reachable, Live, TypeOK
  <2>2. SyncTarget(equipment[e].status, HasActiveCritical(rows, e)) \in EquipmentStatus
    BY <2>1 DEF SyncTarget, EquipmentRow
  <2> QED BY <1>1, <2>1, <2>2 DEF SyncedEquipment, TypeOK, EquipmentRow
<1>2. CASE ~Reachable(e)
  BY <1>2 DEF SyncedEquipment, TypeOK
<1> QED BY <1>1, <1>2

\* A new issue and a new comment are rows.
LEMMA NewRowType ==
  ASSUME NEW u \in User, NEW e \in EquipmentId, NEW sev \in Severities,
         NEW i \in IssueId, NEW internal \in BOOLEAN
  PROVE  /\ NewIssue(u, e, sev) \in IssueRow
         /\ NewComment(u, i, internal) \in CommentRow
BY DEF NewIssue, NewComment, IssueRow, CommentRow

-------------------------------------------------------------------------------
(* Type correctness *)

LEMMA InitType == Init => TypeOK
BY DEF Init, TypeOK, Account

LEMMA AccountStepType ==
  ASSUME TypeOK, AccountStep PROVE TypeOK'
<1> PICK u \in User, t \in User :
      (\E r \in Role : ChangeUserRole(u, t, r)) \/ DeactivateUser(u, t)
  BY DEF AccountStep
<1>1. ASSUME NEW r \in Role, ChangeUserRole(u, t, r) PROVE TypeOK'
  BY <1>1 DEF ChangeUserRole, TypeOK, Account
<1>2. ASSUME DeactivateUser(u, t) PROVE TypeOK'
  BY <1>2 DEF DeactivateUser, TypeOK, Account
<1> QED BY <1>1, <1>2

LEMMA EquipmentStepType ==
  ASSUME TypeOK, EquipmentStep PROVE TypeOK'
<1> PICK u \in User, e \in EquipmentId :
      \/ \E s \in EquipmentStatus : CreateEquipment(u, e, s) \/ UpdateEquipment(u, e, s)
      \/ DeleteEquipment(u, e)
  BY DEF EquipmentStep
<1>1. ASSUME NEW s \in EquipmentStatus, CreateEquipment(u, e, s) PROVE TypeOK'
  BY <1>1 DEF CreateEquipment, TypeOK, EquipmentRow
<1>2. Reachable(e) => equipment[e] \in EquipmentRow
  BY DEF Reachable, Live, TypeOK
<1>3. ASSUME NEW s \in EquipmentStatus, UpdateEquipment(u, e, s) PROVE TypeOK'
  BY <1>2, <1>3 DEF UpdateEquipment, TypeOK, EquipmentRow
<1>4. ASSUME DeleteEquipment(u, e) PROVE TypeOK'
  BY <1>2, <1>4 DEF DeleteEquipment, TypeOK, EquipmentRow
<1> QED BY <1>1, <1>3, <1>4

LEMMA IssueStepType ==
  ASSUME TypeOK, IssueStep PROVE TypeOK'
<1> PICK u \in User, i \in IssueId :
      \/ \E e \in EquipmentId, sev \in Severities : CreateIssue(u, i, e, sev)
      \/ \E e \in EquipmentId : "critical" \in Severities /\ CreateIssueUnsynced(u, i, e)
      \/ \E sev \in Severities : UpdateIssue(u, i, sev)
      \/ \E a \in User : AssignIssue(u, i, a)
      \/ DeleteIssue(u, i)
      \/ \E to \in IssueStatus, notes \in SUBSET CommentId : Transition(u, i, to, notes)
  BY DEF IssueStep
<1>0. i \in Live(issue) => issue[i] \in IssueRow
  BY DEF Live, TypeOK
<1>1. ASSUME NEW e \in EquipmentId, NEW sev \in Severities, CreateIssue(u, i, e, sev)
      PROVE  TypeOK'
  <2>1. NewIssue(u, e, sev) \in IssueRow
    BY NewRowType DEF NewIssue, IssueRow
  <2>2. issue' \in [IssueId -> IssueRow \cup {NotYet, Gone}]
    BY <1>1, <2>1 DEF CreateIssue, TypeOK
  <2>3. equipment' \in [EquipmentId -> EquipmentRow \cup {NotYet}]
    BY <1>1, SyncedType DEF CreateIssue, TypeOK
  <2> QED BY <1>1, <2>2, <2>3 DEF CreateIssue, TypeOK
<1>2. ASSUME NEW e \in EquipmentId, "critical" \in Severities, CreateIssueUnsynced(u, i, e)
      PROVE  TypeOK'
  <2>1. NewIssue(u, e, "critical") \in IssueRow
    BY <1>2 DEF NewIssue, IssueRow
  <2> QED BY <1>2, <2>1 DEF CreateIssueUnsynced, TypeOK
<1>3. ASSUME NEW sev \in Severities, UpdateIssue(u, i, sev) PROVE TypeOK'
  BY <1>0, <1>3 DEF UpdateIssue, TypeOK, IssueRow
<1>4. ASSUME NEW a \in User, AssignIssue(u, i, a) PROVE TypeOK'
  BY <1>0, <1>4 DEF AssignIssue, TypeOK, IssueRow
<1>5. ASSUME DeleteIssue(u, i) PROVE TypeOK'
  BY <1>5 DEF DeleteIssue, CommentsWithout, TypeOK
<1>6. ASSUME NEW to \in IssueStatus, NEW notes \in SUBSET CommentId,
             Transition(u, i, to, notes)
      PROVE  TypeOK'
  <2>1. Moved(issue[i], to, u, NoUser) \in IssueRow
    BY <1>0, <1>6, MovedType DEF Transition
  <2>2. issue' \in [IssueId -> IssueRow \cup {NotYet, Gone}]
    BY <1>6, <2>1 DEF Transition, TypeOK
  <2>3. issue[i].equipment \in EquipmentId
    BY <1>0, <1>6 DEF Transition, IssueRow
  <2>4. equipment' \in [EquipmentId -> EquipmentRow \cup {NotYet}]
    BY <1>6, <2>3, SyncedType DEF Transition
  <2>5. NewComment(u, i, TRUE) \in CommentRow
    BY DEF NewComment, CommentRow
  <2> QED BY <1>6, <2>2, <2>4, <2>5 DEF Transition, TypeOK
<1> QED BY <1>1, <1>2, <1>3, <1>4, <1>5, <1>6

LEMMA CommentStepType ==
  ASSUME TypeOK, CommentStep PROVE TypeOK'
<1> PICK u \in User, c \in CommentId :
      \/ \E i \in IssueId, internal \in BOOLEAN : AddComment(u, c, i, internal)
      \/ EditComment(u, c)
      \/ DeleteComment(u, c)
  BY DEF CommentStep
<1>1. ASSUME NEW i \in IssueId, NEW internal \in BOOLEAN, AddComment(u, c, i, internal)
      PROVE  TypeOK'
  BY <1>1 DEF AddComment, NewComment, CommentRow, TypeOK
<1>2. ASSUME EditComment(u, c) PROVE TypeOK'
  <2>1. comment[c] \in CommentRow
    BY <1>2 DEF EditComment, Live, TypeOK
  <2> QED BY <1>2, <2>1 DEF EditComment, CommentRow, TypeOK
<1>3. ASSUME DeleteComment(u, c) PROVE TypeOK'
  BY <1>3 DEF DeleteComment, TypeOK
<1> QED BY <1>1, <1>2, <1>3

\* Every stored row keeps the columns and the values of its table, through
\* every endpoint.
THEOREM TypeCorrect == Spec => []TypeOK
<1>1. TypeOK /\ [Next]_vars => TypeOK'
  <2> SUFFICES ASSUME TypeOK, [Next]_vars PROVE TypeOK'
    OBVIOUS
  <2>1. CASE UNCHANGED vars
    BY <2>1 DEF TypeOK, vars
  <2> QED BY <2>1, AccountStepType, EquipmentStepType, IssueStepType, CommentStepType
          DEF Next
<1> QED BY <1>1, InitType, PTL DEF Spec

-------------------------------------------------------------------------------
(* What one step may do to one issue *)

\* The row an issue may have after a step that changes it.
RowSuccessor(i, row) ==
  \/ /\ issue[i] = NotYet
     /\ \E u \in User, e \in EquipmentId, sev \in Severities : row = NewIssue(u, e, sev)
  \/ /\ i \in Live(issue)
     /\ row = Gone
  \/ /\ i \in Live(issue)
     /\ \E sev \in Severities : row = [issue[i] EXCEPT !.severity = sev]
  \/ /\ i \in Live(issue)
     /\ \E a \in User : row = [issue[i] EXCEPT !.assignee = a]
  \/ /\ i \in Live(issue)
     /\ \E u \in User, to \in IssueStatus :
          /\ MayMove(user[u].role, issue[i].status, to)
          /\ row = Moved(issue[i], to, u, NoUser)

\* A step changes an issue in one of these five ways, or not at all.
LEMMA IssueLifecycle ==
  ASSUME TypeOK, [Next]_vars, NEW j \in IssueId
  PROVE  issue'[j] = issue[j] \/ RowSuccessor(j, issue'[j])
<1>1. CASE UNCHANGED issue
  BY <1>1
<1>2. CASE IssueStep
  <2> PICK u \in User, i \in IssueId :
        \/ \E e \in EquipmentId, sev \in Severities : CreateIssue(u, i, e, sev)
        \/ \E e \in EquipmentId : "critical" \in Severities /\ CreateIssueUnsynced(u, i, e)
        \/ \E sev \in Severities : UpdateIssue(u, i, sev)
        \/ \E a \in User : AssignIssue(u, i, a)
        \/ DeleteIssue(u, i)
        \/ \E to \in IssueStatus, notes \in SUBSET CommentId : Transition(u, i, to, notes)
    BY <1>2 DEF IssueStep
  <2> SUFFICES ASSUME j = i PROVE RowSuccessor(i, issue'[i])
    BY DEF TypeOK, CreateIssue, CreateIssueUnsynced, UpdateIssue, AssignIssue,
           DeleteIssue, Transition
  <2>0. issue \in [IssueId -> IssueRow \cup {NotYet, Gone}]
    BY DEF TypeOK
  <2>1. ASSUME NEW e \in EquipmentId, NEW sev \in Severities, CreateIssue(u, i, e, sev)
        PROVE  RowSuccessor(i, issue'[i])
    BY <2>0, <2>1 DEF CreateIssue, Unused, RowSuccessor
  <2>2. ASSUME NEW e \in EquipmentId, "critical" \in Severities, CreateIssueUnsynced(u, i, e)
        PROVE  RowSuccessor(i, issue'[i])
    BY <2>0, <2>2 DEF CreateIssueUnsynced, Unused, RowSuccessor
  <2>3. ASSUME NEW sev \in Severities, UpdateIssue(u, i, sev)
        PROVE  RowSuccessor(i, issue'[i])
    BY <2>0, <2>3 DEF UpdateIssue, RowSuccessor
  <2>4. ASSUME NEW a \in User, AssignIssue(u, i, a) PROVE RowSuccessor(i, issue'[i])
    BY <2>0, <2>4 DEF AssignIssue, RowSuccessor
  <2>5. ASSUME DeleteIssue(u, i) PROVE RowSuccessor(i, issue'[i])
    BY <2>0, <2>5 DEF DeleteIssue, RowSuccessor
  <2>6. ASSUME NEW to \in IssueStatus, NEW notes \in SUBSET CommentId,
               Transition(u, i, to, notes)
        PROVE  RowSuccessor(i, issue'[i])
    BY <2>0, <2>6 DEF Transition, RowSuccessor
  <2> QED BY <2>1, <2>2, <2>3, <2>4, <2>5, <2>6
<1>3. CASE AccountStep
  BY <1>1, <1>3 DEF AccountStep, ChangeUserRole, DeactivateUser
<1>4. CASE EquipmentStep
  BY <1>1, <1>4 DEF EquipmentStep, CreateEquipment, UpdateEquipment, DeleteEquipment
<1>5. CASE CommentStep
  BY <1>1, <1>5 DEF CommentStep, AddComment, EditComment, DeleteComment
<1> QED BY <1>1, <1>2, <1>3, <1>4, <1>5 DEF Next, vars

\* The moves of the table: none leaves "closed".
LEMMA MoveTable ==
  ASSUME NEW role, NEW from, NEW to, MayMove(role, from, to)
  PROVE  /\ from # "closed"
         /\ to = "closed" => from = "resolved"
         /\ to = "in_progress" => from = "open"
BY DEF MayMove, TRANSITIONS, StaffMoves, ManagerMoves

-------------------------------------------------------------------------------
(* The resolution stamps *)

\* The stamps of one row.
RowStamped(row) ==
  LET done == row.status \in {"resolved", "closed"} IN
  /\ row.resolvedAt <=> done
  /\ row.resolvedBy # NoUser <=> done

LEMMA StampsStep ==
  ASSUME TypeOK, StampsMatchStatus, [Next]_vars
  PROVE  StampsMatchStatus'
<1> SUFFICES ASSUME NEW j \in Live(issue)' PROVE RowStamped(issue'[j])
  BY DEF StampsMatchStatus, RowStamped
<1>1. TypeOK'
  BY AccountStepType, EquipmentStepType, IssueStepType, CommentStepType DEF Next, vars, TypeOK
<1>2. j \in IssueId /\ issue'[j] # NotYet /\ issue'[j] # Gone
  BY <1>1 DEF Live, TypeOK
<1>3. j \in Live(issue) => issue[j] \in IssueRow /\ RowStamped(issue[j])
  BY DEF StampsMatchStatus, RowStamped, Live, TypeOK
<1>4. CASE issue'[j] = issue[j]
  BY <1>2, <1>3, <1>4 DEF Live, TypeOK
<1>5. ASSUME NEW u \in User, NEW e \in EquipmentId, NEW sev \in Severities,
             issue'[j] = NewIssue(u, e, sev)
      PROVE  RowStamped(issue'[j])
  BY <1>5 DEF NewIssue, RowStamped
<1>6. ASSUME j \in Live(issue), NEW sev \in Severities,
             issue'[j] = [issue[j] EXCEPT !.severity = sev]
      PROVE  RowStamped(issue'[j])
  BY <1>3, <1>6 DEF RowStamped, IssueRow
<1>7. ASSUME j \in Live(issue), NEW a \in User,
             issue'[j] = [issue[j] EXCEPT !.assignee = a]
      PROVE  RowStamped(issue'[j])
  BY <1>3, <1>7 DEF RowStamped, IssueRow
<1>8. ASSUME j \in Live(issue), NEW u \in User, NEW to \in IssueStatus,
             MayMove(user[u].role, issue[j].status, to),
             issue'[j] = Moved(issue[j], to, u, NoUser)
      PROVE  RowStamped(issue'[j])
  <2>1. /\ to = "closed" => issue[j].status = "resolved"
        /\ to = "in_progress" => issue[j].status = "open"
    BY <1>8, MoveTable
  <2>2. u # NoUser
    BY NoUserAssumption
  <2>3. /\ issue'[j].status = to
        /\ issue'[j].resolvedAt = ((to = "resolved") \/ (to # "open" /\ issue[j].resolvedAt))
        /\ to = "resolved" => issue'[j].resolvedBy = u
        /\ to = "open" => issue'[j].resolvedBy = NoUser
        /\ to \in {"closed", "in_progress"} => issue'[j].resolvedBy = issue[j].resolvedBy
    BY <1>3, <1>8 DEF IssueRow, Moved
  <2>4. CASE to \in {"resolved", "open"}
    BY <2>2, <2>3, <2>4 DEF RowStamped
  <2>5. CASE to \in {"closed", "in_progress"}
    BY <1>3, <1>8, <2>1, <2>3, <2>5 DEF RowStamped
  <2> QED BY <2>4, <2>5
<1> QED BY <1>2, <1>4, <1>5, <1>6, <1>7, <1>8, IssueLifecycle DEF RowSuccessor

\* One request at a time, the guards of change_user_role and deactivate_user are
\* enough: the admin who acts is still an admin after the step.
THEOREM AdminKept == Spec => []AdminRemains
<1>1. Init => AdminRemains
  BY DEF Init, AdminRemains, HasRole
<1>2. ASSUME TypeOK, AdminRemains, [Next]_vars PROVE AdminRemains'
  <2>1. CASE user' = user
    BY <1>2, <2>1 DEF AdminRemains, HasRole
  <2>2. CASE AccountStep
    <3> PICK u \in User, t \in User :
          (\E r \in Role : ChangeUserRole(u, t, r)) \/ DeactivateUser(u, t)
      BY <2>2 DEF AccountStep
    <3>1. HasRole(u, {"admin"}) /\ t # u
      BY DEF ChangeUserRole, DeactivateUser
    <3>2. user'[u] = user[u]
      BY <1>2, <3>1 DEF ChangeUserRole, DeactivateUser, TypeOK
    <3> QED BY <3>1, <3>2 DEF AdminRemains, HasRole
  <2> QED
    BY <1>2, <2>1, <2>2 DEF Next, vars, EquipmentStep, IssueStep, CommentStep,
       CreateEquipment, UpdateEquipment, DeleteEquipment, CreateIssue,
       CreateIssueUnsynced, UpdateIssue, AssignIssue, DeleteIssue, Transition,
       AddComment, EditComment, DeleteComment
<1> QED BY <1>1, <1>2, TypeCorrect, PTL DEF Spec

\* An issue carries both resolution stamps exactly while it is resolved or
\* closed.  Inductive together with the types.
THEOREM StampsInvariant == Spec => []StampsMatchStatus
<1>1. Init => StampsMatchStatus
  BY DEF Init, StampsMatchStatus, Live
<1>2. TypeOK /\ StampsMatchStatus /\ [Next]_vars => StampsMatchStatus'
  BY StampsStep
<1> QED BY <1>1, <1>2, TypeCorrect, PTL DEF Spec

\* No endpoint moves a closed issue: it stays closed or is deleted.
THEOREM ClosedForGood == Spec => ClosedIsTerminal
<1>1. ASSUME TypeOK, [Next]_vars
      PROVE  [\A i \in Live(issue) : issue[i].status = "closed"
                => issue'[i] = Gone \/ issue'[i].status = "closed"]_vars
  <2> SUFFICES ASSUME NEW i \in Live(issue), issue[i].status = "closed"
               PROVE  issue'[i] = Gone \/ issue'[i].status = "closed"
    OBVIOUS
  <2>1. i \in IssueId /\ issue[i] \in IssueRow /\ issue[i] # NotYet
    BY <1>1 DEF Live, TypeOK
  <2>2. ASSUME NEW u \in User, NEW to \in IssueStatus
        PROVE  ~MayMove(user[u].role, issue[i].status, to)
    BY MoveTable
  <2>3. issue'[i] = issue[i] \/ RowSuccessor(i, issue'[i])
    BY <1>1, <2>1, IssueLifecycle
  <2> QED BY <2>1, <2>2, <2>3 DEF RowSuccessor, IssueRow
<1> QED BY <1>1, TypeCorrect, PTL DEF Spec, ClosedIsTerminal

-------------------------------------------------------------------------------
(* The maintenance rule *)

\* Issue traffic never brings decommissioned equipment back to service.
THEOREM DecommissionedForGood == Spec => DecommissionedLeftAlone
<1>1. ASSUME TypeOK, [Next]_vars
      PROVE  [\A e \in Live(equipment) :
                equipment[e].status = "decommissioned" /\ equipment'[e].status # "decommissioned"
                  => \E u \in User, s \in EquipmentStatus : UpdateEquipment(u, e, s)]_vars
  <2> SUFFICES ASSUME NEW e \in Live(equipment),
                      equipment[e].status = "decommissioned",
                      equipment'[e].status # "decommissioned"
               PROVE  \E u \in User, s \in EquipmentStatus : UpdateEquipment(u, e, s)
    OBVIOUS
  <2>1. e \in EquipmentId /\ equipment[e] \in EquipmentRow /\ equipment[e] # NotYet
    BY <1>1 DEF Live, TypeOK
  <2>2. ASSUME NEW rows, NEW d \in EquipmentId
        PROVE  SyncedEquipment(rows, d)[e].status = "decommissioned"
    BY <1>1, <2>1 DEF SyncedEquipment, SyncTarget, TypeOK, EquipmentRow
  <2>3. ~IssueStep
    <3> SUFFICES ASSUME NEW u \in User, NEW i \in IssueId,
          \/ \E d \in EquipmentId, sev \in Severities : CreateIssue(u, i, d, sev)
          \/ \E d \in EquipmentId : CreateIssueUnsynced(u, i, d)
          \/ \E sev \in Severities : UpdateIssue(u, i, sev)
          \/ \E a \in User : AssignIssue(u, i, a)
          \/ DeleteIssue(u, i)
          \/ \E to \in IssueStatus, notes \in SUBSET CommentId : Transition(u, i, to, notes)
                 PROVE  FALSE
      BY DEF IssueStep
    <3>1. i \in Live(issue) => issue[i].equipment \in EquipmentId
      BY <1>1 DEF Live, TypeOK, IssueRow
    <3>2. \A d \in EquipmentId, sev \in Severities : ~CreateIssue(u, i, d, sev)
      BY <2>2 DEF CreateIssue
    <3>3. ASSUME NEW to \in IssueStatus, NEW notes \in SUBSET CommentId,
                 Transition(u, i, to, notes)
          PROVE  FALSE
      <4>1. /\ issue[i].equipment \in EquipmentId
            /\ equipment' = SyncedEquipment(issue', issue[i].equipment)
        BY <3>1, <3>3 DEF Transition
      <4> QED BY <2>2, <4>1
    <3> QED BY <3>2, <3>3 DEF CreateIssueUnsynced, UpdateIssue, AssignIssue, DeleteIssue
  <2>4. equipment' # equipment
    OBVIOUS
  <2>5. EquipmentStep
    BY <1>1, <2>3, <2>4 DEF Next, vars, AccountStep, CommentStep, ChangeUserRole,
       DeactivateUser, AddComment, EditComment, DeleteComment
  <2>6. PICK u \in User, d \in EquipmentId :
          \/ \E s \in EquipmentStatus : CreateEquipment(u, d, s) \/ UpdateEquipment(u, d, s)
          \/ DeleteEquipment(u, d)
    BY <2>5 DEF EquipmentStep
  <2>7. ASSUME NEW s \in EquipmentStatus, CreateEquipment(u, d, s) PROVE FALSE
    BY <1>1, <2>1, <2>7 DEF CreateEquipment, Unused, TypeOK
  <2>8. ~DeleteEquipment(u, d)
    BY <1>1, <2>1 DEF DeleteEquipment, TypeOK, EquipmentRow
  <2>9. ASSUME NEW s \in EquipmentStatus, UpdateEquipment(u, d, s) PROVE d = e
    BY <1>1, <2>1, <2>9 DEF UpdateEquipment, TypeOK, EquipmentRow
  <2> QED BY <2>6, <2>7, <2>8, <2>9
<1> QED BY <1>1, TypeCorrect, PTL DEF Spec, DecommissionedLeftAlone

\* A sync leaves the equipment it is called for in sync, whatever its status was.
LEMMA SyncSyncs ==
  ASSUME TypeOK, TypeOK', NEW e \in EquipmentId, equipment' = SyncedEquipment(issue', e)
  PROVE  InSync(e)'
<1>1. CASE Reachable(e)
  <2>1. equipment[e] \in EquipmentRow /\ equipment \in [EquipmentId -> EquipmentRow \cup {NotYet}]
    BY <1>1 DEF Reachable, Live, TypeOK
  <2>2. equipment'[e].status = SyncTarget(equipment[e].status, HasActiveCritical(issue', e))
    BY <1>1, <2>1 DEF SyncedEquipment, EquipmentRow
  <2>3. HasActiveCritical(issue, e)' <=> HasActiveCritical(issue', e)
    BY DEF HasActiveCritical, Live, ActiveCritical
  <2> QED BY <2>1, <2>2, <2>3 DEF InSync, SyncTarget, EquipmentRow
<1>2. CASE ~Reachable(e)
  BY <1>2 DEF SyncedEquipment, InSync, Reachable, Live
<1> QED BY <1>1, <1>2

\* After a status transition the equipment of the moved issue is in sync,
\* however it had got out of it.
THEOREM TransitionSyncs == Spec => TransitionRestoresSync
<1>1. ASSUME TypeOK, TypeOK', [Next]_vars
      PROVE  [\A i \in Live(issue), e \in EquipmentId :
                i \in Live(issue)' /\ issue'[i].status # issue[i].status
                     /\ issue[i].equipment = e
                  => InSync(e)']_vars
  <2> SUFFICES ASSUME NEW j \in Live(issue), NEW e \in EquipmentId, j \in Live(issue)',
                      issue'[j].status # issue[j].status, issue[j].equipment = e
               PROVE  InSync(e)'
    OBVIOUS
  <2>1. /\ j \in IssueId /\ issue[j] \in IssueRow /\ issue[j] # NotYet
        /\ issue'[j] # Gone
        /\ issue \in [IssueId -> IssueRow \cup {NotYet, Gone}]
    BY <1>1 DEF Live, TypeOK
  <2>2. IssueStep
    BY <1>1 DEF Next, vars, AccountStep, EquipmentStep, CommentStep, ChangeUserRole,
       DeactivateUser, CreateEquipment, UpdateEquipment, DeleteEquipment,
       AddComment, EditComment, DeleteComment
  <2>3. PICK u \in User, i \in IssueId :
          \/ \E d \in EquipmentId, sev \in Severities : CreateIssue(u, i, d, sev)
          \/ \E d \in EquipmentId : CreateIssueUnsynced(u, i, d)
          \/ \E sev \in Severities : UpdateIssue(u, i, sev)
          \/ \E a \in User : AssignIssue(u, i, a)
          \/ DeleteIssue(u, i)
          \/ \E to \in IssueStatus, notes \in SUBSET CommentId : Transition(u, i, to, notes)
    BY <2>2 DEF IssueStep
  <2>4. \A d \in EquipmentId, sev \in Severities : ~CreateIssue(u, i, d, sev)
    BY <2>1 DEF CreateIssue, Unused
  <2>5. \A d \in EquipmentId : ~CreateIssueUnsynced(u, i, d)
    BY <2>1 DEF CreateIssueUnsynced, Unused
  <2>6. ASSUME NEW sev \in Severities, UpdateIssue(u, i, sev) PROVE FALSE
    BY <2>1, <2>6 DEF UpdateIssue, IssueRow
  <2>7. ASSUME NEW a \in User, AssignIssue(u, i, a) PROVE FALSE
    BY <2>1, <2>7 DEF AssignIssue, IssueRow
  <2>8. ~DeleteIssue(u, i)
    BY <2>1 DEF DeleteIssue
  <2>9. PICK to \in IssueStatus, notes \in SUBSET CommentId : Transition(u, i, to, notes)
    BY <2>3, <2>4, <2>5, <2>6, <2>7, <2>8
  <2>10. i = j
    BY <2>1, <2>9 DEF Transition
  <2>11. equipment' = SyncedEquipment(issue', e)
    BY <2>9, <2>10 DEF Transition
  <2> QED BY <1>1, <2>11, SyncSyncs
<1> QED BY <1>1, TypeCorrect, PTL DEF Spec, TransitionRestoresSync

\* Does the row of an issue keep equipment e under maintenance?
Holds(row, e) == row \notin {NotYet, Gone} /\ row.equipment = e /\ ActiveCritical(row)

\* A step that neither adds nor releases an issue that holds e, and leaves the
\* row of e alone, leaves e in sync.
LEMMA SyncFrame ==
  ASSUME TypeOK, TypeOK', NEW e \in EquipmentId, InSync(e),
         equipment'[e] = equipment[e],
         \A i \in IssueId : Holds(issue'[i], e) <=> Holds(issue[i], e)
  PROVE  InSync(e)'
<1>1. HasActiveCritical(issue, e) <=> \E i \in IssueId : Holds(issue[i], e)
  BY DEF HasActiveCritical, Holds, Live, TypeOK
<1>2. HasActiveCritical(issue, e)' <=> \E i \in IssueId : Holds(issue'[i], e)
  BY DEF HasActiveCritical, Holds, Live, TypeOK, ActiveCritical
<1>3. Reachable(e)' <=> Reachable(e)
  BY DEF Reachable, Live, TypeOK
<1> QED BY <1>1, <1>2, <1>3 DEF InSync

\* The steps of SyncLostOnlyBy.
Excused(e) ==
  \E u \in User :
    \/ \E s \in EquipmentStatus : CreateEquipment(u, e, s) \/ UpdateEquipment(u, e, s)
    \/ \E i \in IssueId :
         \/ \E sev \in Severities : UpdateIssue(u, i, sev)
         \/ DeleteIssue(u, i)
         \/ CreateIssueUnsynced(u, i, e)

LEMMA SyncEquipmentStep ==
  ASSUME TypeOK, TypeOK', EquipmentStep, NEW e \in EquipmentId, InSync(e), ~Excused(e)
  PROVE  InSync(e)'
<1> PICK u \in User, d \in EquipmentId :
      \/ \E s \in EquipmentStatus : CreateEquipment(u, d, s) \/ UpdateEquipment(u, d, s)
      \/ DeleteEquipment(u, d)
  BY DEF EquipmentStep
<1>1. issue' = issue
  BY DEF CreateEquipment, UpdateEquipment, DeleteEquipment
<1>2. CASE d = e /\ DeleteEquipment(u, d)
  <2>1. equipment[e] \in EquipmentRow
    BY <1>2 DEF DeleteEquipment, Reachable, Live, TypeOK
  <2> QED BY <1>2, <2>1 DEF DeleteEquipment, InSync, Reachable, TypeOK, EquipmentRow
<1>3. CASE d # e
  BY <1>1, <1>3, SyncFrame DEF CreateEquipment, UpdateEquipment, DeleteEquipment, TypeOK
<1>4. CASE d = e /\ ~DeleteEquipment(u, d)
  BY <1>4 DEF Excused
<1> QED BY <1>2, <1>3, <1>4

LEMMA SyncIssueStep ==
  ASSUME TypeOK, TypeOK', IssueStep, NEW e \in EquipmentId, InSync(e), ~Excused(e)
  PROVE  InSync(e)'
<1> PICK u \in User, i \in IssueId :
      \/ \E d \in EquipmentId, sev \in Severities : CreateIssue(u, i, d, sev)
      \/ \E d \in EquipmentId : "critical" \in Severities /\ CreateIssueUnsynced(u, i, d)
      \/ \E sev \in Severities : UpdateIssue(u, i, sev)
      \/ \E a \in User : AssignIssue(u, i, a)
      \/ DeleteIssue(u, i)
      \/ \E to \in IssueStatus, notes \in SUBSET CommentId : Transition(u, i, to, notes)
  BY DEF IssueStep
<1>0. i \in Live(issue) => issue[i] \in IssueRow
  BY DEF Live, TypeOK
<1>e. ASSUME NEW rows, NEW d \in EquipmentId, d # e
      PROVE  SyncedEquipment(rows, d)[e] = equipment[e]
  BY <1>e DEF SyncedEquipment, TypeOK
<1>1. ASSUME NEW d \in EquipmentId, NEW sev \in Severities, CreateIssue(u, i, d, sev)
      PROVE  InSync(e)'
  <2>1. CASE d = e /\ sev = "critical"
    BY <1>1, <2>1, SyncSyncs DEF CreateIssue
  <2>2. CASE d # e \/ sev # "critical"
    <3>1. equipment'[e] = equipment[e]
      BY <1>1, <1>e, <2>2 DEF CreateIssue
    <3>2. \A j \in IssueId : Holds(issue'[j], e) <=> Holds(issue[j], e)
      BY <1>1, <2>2 DEF CreateIssue, Unused, Holds, NewIssue, ActiveCritical, TypeOK
    <3> QED BY <3>1, <3>2, SyncFrame
  <2> QED BY <2>1, <2>2
<1>2. ASSUME NEW d \in EquipmentId, CreateIssueUnsynced(u, i, d) PROVE InSync(e)'
  <2>1. d # e
    BY <1>2 DEF Excused
  <2>2. \A j \in IssueId : Holds(issue'[j], e) <=> Holds(issue[j], e)
    BY <1>2, <2>1 DEF CreateIssueUnsynced, Unused, Holds, NewIssue, TypeOK
  <2> QED BY <1>2, <2>2, SyncFrame DEF CreateIssueUnsynced
<1>3. ASSUME NEW a \in User, AssignIssue(u, i, a) PROVE InSync(e)'
  <2>1. \A j \in IssueId : Holds(issue'[j], e) <=> Holds(issue[j], e)
    BY <1>0, <1>3, SentinelAssumption
       DEF AssignIssue, Live, Holds, ActiveCritical, IssueRow, TypeOK
  <2> QED BY <1>3, <2>1, SyncFrame DEF AssignIssue
<1>4. ASSUME NEW to \in IssueStatus, NEW notes \in SUBSET CommentId,
             Transition(u, i, to, notes)
      PROVE  InSync(e)'
  <2>1. /\ i \in Live(issue) /\ issue[i] \in IssueRow
        /\ issue' = [issue EXCEPT ![i] = Moved(issue[i], to, u, NoUser)]
        /\ equipment' = SyncedEquipment(issue', issue[i].equipment)
    BY <1>0, <1>4 DEF Transition
  <2>2. CASE issue[i].equipment = e
    BY <2>1, <2>2, SyncSyncs
  <2>3. CASE issue[i].equipment # e
    <3>1. equipment'[e] = equipment[e]
      BY <1>e, <2>1, <2>3 DEF IssueRow
    <3>2. Moved(issue[i], to, u, NoUser).equipment = issue[i].equipment
      BY <2>1 DEF Moved, IssueRow
    <3>3. \A j \in IssueId : Holds(issue'[j], e) <=> Holds(issue[j], e)
      BY <2>1, <2>3, <3>2 DEF Holds, TypeOK
    <3> QED BY <3>1, <3>3, SyncFrame
  <2> QED BY <2>2, <2>3
<1>5. \A sev \in Severities : ~UpdateIssue(u, i, sev)
  BY DEF Excused
<1>6. ~DeleteIssue(u, i)
  BY DEF Excused
<1> QED BY <1>1, <1>2, <1>3, <1>4, <1>5, <1>6

\* Nothing gets equipment out of sync but a status set by hand, a severity
\* edit, the delete of an issue, and a failure between create_issue's commits.
THEOREM SyncLossExcused == Spec => SyncLostOnlyBy
<1>1. ASSUME TypeOK, TypeOK', [Next]_vars
      PROVE  [\A e \in EquipmentId : InSync(e) /\ ~InSync(e)' => Excused(e)]_vars
  <2> SUFFICES ASSUME NEW e \in EquipmentId, InSync(e), ~Excused(e) PROVE InSync(e)'
    OBVIOUS
  <2>1. CASE UNCHANGED <<equipment, issue>>
    BY <1>1, <2>1, SyncFrame DEF Holds
  <2>2. CASE AccountStep
    BY <2>1, <2>2 DEF AccountStep, ChangeUserRole, DeactivateUser
  <2>3. CASE CommentStep
    BY <2>1, <2>3 DEF CommentStep, AddComment, EditComment, DeleteComment
  <2> QED BY <1>1, <2>1, <2>2, <2>3, SyncEquipmentStep, SyncIssueStep DEF Next, vars
<1> QED BY <1>1, TypeCorrect, PTL DEF Spec, SyncLostOnlyBy, Excused

-------------------------------------------------------------------------------
(* Comments *)

\* No endpoint leaves a comment without its issue, or with another's words.
THEOREM CommentsInvariant == Spec => []CommentsIntact
<1>1. Init => CommentsIntact
  BY DEF Init, CommentsIntact, Live
<1>2. ASSUME TypeOK, TypeOK', CommentsIntact, [Next]_vars PROVE CommentsIntact'
  <2> SUFFICES ASSUME NEW c \in Live(comment)'
               PROVE  /\ comment'[c].issue \in Live(issue')
                      /\ comment'[c].words = comment'[c].author
    BY DEF CommentsIntact, Live
  <2> USE <1>2
  <2>0. /\ c \in CommentId /\ comment'[c] \in CommentRow
        /\ comment'[c] # Gone /\ comment'[c] # NotYet
    BY DEF Live, TypeOK
  <2>1. ASSUME comment'[c] = comment[c]
        PROVE  comment[c].issue \in Live(issue) /\ comment[c].words = comment[c].author
    BY <2>0, <2>1 DEF CommentsIntact, Live, TypeOK
  <2>2. CASE UNCHANGED <<issue, comment>>
    BY <2>1, <2>2
  <2>3. CASE IssueStep
    <3> PICK u \in User, i \in IssueId :
          \/ \E d \in EquipmentId, sev \in Severities : CreateIssue(u, i, d, sev)
          \/ \E d \in EquipmentId : "critical" \in Severities /\ CreateIssueUnsynced(u, i, d)
          \/ \E sev \in Severities : UpdateIssue(u, i, sev)
          \/ \E a \in User : AssignIssue(u, i, a)
          \/ DeleteIssue(u, i)
          \/ \E to \in IssueStatus, notes \in SUBSET CommentId : Transition(u, i, to, notes)
      BY <2>3 DEF IssueStep
    <3>0. /\ issue \in [IssueId -> IssueRow \cup {NotYet, Gone}]
          /\ issue' \in [IssueId -> IssueRow \cup {NotYet, Gone}]
          /\ NotYet \notin IssueRow /\ Gone \notin IssueRow
      BY SentinelAssumption DEF TypeOK
    <3>1. ASSUME ~DeleteIssue(u, i) PROVE Live(issue) \subseteq Live(issue')
      <4>1. \A j \in IssueId : issue'[j] = issue[j] \/ j = i
        BY <3>0, <3>1 DEF CreateIssue, CreateIssueUnsynced, UpdateIssue, AssignIssue, Transition
      <4>2. i \in Live(issue) => issue'[i] \in IssueRow
        <5> SUFFICES ASSUME i \in Live(issue) PROVE issue'[i] \in IssueRow
          OBVIOUS
        <5>1. issue[i] \in IssueRow
          BY <3>0 DEF Live
        <5>2. \A to \in IssueStatus : Moved(issue[i], to, u, NoUser) \in IssueRow
          BY <5>1, MovedType
        <5>3. \A sev \in Severities : [issue[i] EXCEPT !.severity = sev] \in IssueRow
          BY <5>1 DEF IssueRow
        <5>4. \A a \in User : [issue[i] EXCEPT !.assignee = a] \in IssueRow
          BY <5>1 DEF IssueRow
        <5> QED BY <3>0, <3>1, <5>1, <5>2, <5>3, <5>4
             DEF CreateIssue, CreateIssueUnsynced, UpdateIssue, AssignIssue, Transition, Unused
      <4> QED BY <3>0, <4>1, <4>2 DEF Live
    <3>2. CASE DeleteIssue(u, i)
      <4>1. comment'[c] = comment[c] /\ ~(c \in Live(comment) /\ comment[c].issue = i)
        BY <2>0, <3>2 DEF DeleteIssue, CommentsWithout
      <4>2. c \in Live(comment)
        BY <2>0, <4>1 DEF Live, TypeOK
      <4>3. \A j \in Live(issue) : j # i => j \in Live(issue')
        BY <3>0, <3>2 DEF DeleteIssue, Live
      <4> QED BY <2>1, <4>1, <4>2, <4>3
    <3>3. CASE ~DeleteIssue(u, i) /\ comment'[c] = comment[c]
      BY <2>1, <3>1, <3>3
    <3>4. ASSUME NEW to \in IssueStatus, NEW notes \in SUBSET CommentId,
                 Transition(u, i, to, notes), ~DeleteIssue(u, i)
          PROVE  comment'[c] = comment[c] \/ comment'[c] = NewComment(u, i, TRUE)
      BY <2>0, <3>4 DEF Transition
    <3>5. CASE i \in Live(issue) /\ comment'[c] = NewComment(u, i, TRUE) /\ ~DeleteIssue(u, i)
      BY <3>1, <3>5 DEF NewComment
    <3> QED BY <3>2, <3>3, <3>4, <3>5
         DEF CreateIssue, CreateIssueUnsynced, UpdateIssue, AssignIssue, Transition
  <2>4. CASE CommentStep
    <3> PICK u \in User, d \in CommentId :
          \/ \E i \in IssueId, internal \in BOOLEAN : AddComment(u, d, i, internal)
          \/ EditComment(u, d)
          \/ DeleteComment(u, d)
      BY <2>4 DEF CommentStep
    <3>1. issue' = issue
      BY DEF AddComment, EditComment, DeleteComment
    <3>2. ASSUME NEW i \in IssueId, NEW internal \in BOOLEAN, AddComment(u, d, i, internal)
          PROVE  comment'[c] = comment[c] \/ (i \in Live(issue) /\ comment'[c] = NewComment(u, i, internal))
      BY <2>0, <3>2 DEF AddComment, TypeOK
    <3>3. CASE EditComment(u, d) /\ c = d
      <4>1. comment[c] \in CommentRow /\ comment[c].author = u
        BY <3>3 DEF EditComment, Live, TypeOK
      <4>2. comment'[c] = [comment[c] EXCEPT !.words = u]
        BY <2>0, <3>3 DEF EditComment, TypeOK
      <4>3. comment[c].issue \in Live(issue)
        BY <3>3 DEF EditComment, CommentsIntact
      <4> QED BY <3>1, <4>1, <4>2, <4>3 DEF CommentRow
    <3>4. CASE c # d
      BY <2>0, <2>1, <3>1, <3>4 DEF AddComment, EditComment, DeleteComment, TypeOK
    <3>5. ~DeleteComment(u, d) \/ c # d
      BY <2>0 DEF DeleteComment, TypeOK
    <3>6. ASSUME NEW i \in IssueId, NEW internal \in BOOLEAN, AddComment(u, d, i, internal)
          PROVE  /\ comment'[c].issue \in Live(issue')
                 /\ comment'[c].words = comment'[c].author
      <4>1. CASE comment'[c] = comment[c]
        BY <2>1, <3>1, <4>1
      <4>2. CASE i \in Live(issue) /\ comment'[c] = NewComment(u, i, internal)
        BY <3>1, <4>2 DEF NewComment
      <4> QED BY <3>2, <3>6, <4>1, <4>2
    <3> QED BY <3>3, <3>4, <3>5, <3>6
  <2>5. CASE AccountStep
    BY <2>2, <2>5 DEF AccountStep, ChangeUserRole, DeactivateUser
  <2>6. CASE EquipmentStep
    BY <2>2, <2>6 DEF EquipmentStep, CreateEquipment, UpdateEquipment, DeleteEquipment
  <2> QED BY <2>2, <2>3, <2>4, <2>5, <2>6 DEF Next, vars
<1> QED BY <1>1, <1>2, TypeCorrect, PTL DEF Spec

\* A comment vanishes with its issue, or because its author or a manager deleted it.
THEOREM CommentsLeave == Spec => CommentsLeaveOnlyBy
<1>1. ASSUME TypeOK, [Next]_vars
      PROVE  [\A c \in Live(comment) :
                comment'[c] = Gone =>
                  \/ issue'[comment[c].issue] = Gone
                  \/ \E u \in User : DeleteComment(u, c)]_vars
  <2> SUFFICES ASSUME NEW c \in Live(comment), comment'[c] = Gone
               PROVE  \/ issue'[comment[c].issue] = Gone
                      \/ \E u \in User : DeleteComment(u, c)
    OBVIOUS
  <2>1. /\ c \in CommentId /\ comment[c] # Gone /\ comment[c] # NotYet
        /\ comment[c] \in CommentRow /\ comment'[c] # comment[c]
        /\ comment \in [CommentId -> CommentRow \cup {NotYet, Gone}]
        /\ issue \in [IssueId -> IssueRow \cup {NotYet, Gone}]
    BY <1>1 DEF Live, TypeOK
  <2>2. ASSUME NEW u \in User PROVE [comment[c] EXCEPT !.words = u] # Gone
    BY <2>1, SentinelAssumption DEF CommentRow
  <2>3. CASE IssueStep
    <3>1. PICK u \in User, i \in IssueId : DeleteIssue(u, i)
      <4>1. ASSUME NEW u \in User, NEW i \in IssueId, NEW to \in IssueStatus,
                   NEW notes \in SUBSET CommentId, Transition(u, i, to, notes)
            PROVE  FALSE
        BY <2>1, <4>1 DEF Transition, Unused
      <4> QED BY <2>1, <2>3, <4>1
           DEF IssueStep, CreateIssue, CreateIssueUnsynced, UpdateIssue, AssignIssue
    <3>2. comment[c].issue = i
      BY <2>1, <3>1 DEF DeleteIssue, CommentsWithout
    <3> QED BY <2>1, <3>1, <3>2 DEF DeleteIssue
  <2>4. CASE CommentStep
    <3> PICK u \in User, d \in CommentId :
          \/ \E i \in IssueId, internal \in BOOLEAN : AddComment(u, d, i, internal)
          \/ EditComment(u, d)
          \/ DeleteComment(u, d)
      BY <2>4 DEF CommentStep
    <3>1. \A i \in IssueId, internal \in BOOLEAN : ~AddComment(u, d, i, internal)
      BY <2>1 DEF AddComment, Unused
    <3>2. ~EditComment(u, d)
      <4>1. ASSUME EditComment(u, d) PROVE comment' = [comment EXCEPT ![d].words = u]
        BY <4>1 DEF EditComment
      <4> QED BY <2>1, <2>2, <4>1
    <3>3. DeleteComment(u, d) /\ d = c
      BY <2>1, <3>1, <3>2 DEF DeleteComment
    <3> QED BY <3>3
  <2>5. ~(comment' = comment)
    BY <2>1
  <2> QED BY <1>1, <2>3, <2>4, <2>5
       DEF Next, vars, AccountStep, EquipmentStep, ChangeUserRole, DeactivateUser,
           CreateEquipment, UpdateEquipment, DeleteEquipment
<1> QED BY <1>1, TypeCorrect, PTL DEF Spec, CommentsLeaveOnlyBy

-------------------------------------------------------------------------------
(* Assignees *)

\* Only a demotion or a deactivation leaves an issue with an assignee who cannot
\* work on it.
THEOREM AssigneeKept == Spec => AssigneeLostOnlyBy
<1>1. ASSUME TypeOK, TypeOK', [Next]_vars
      PROVE  [\A i \in Live(issue) : i \in Live(issue)' /\ WellAssigned(i) /\ ~WellAssigned(i)' =>
                \E u \in User :
                  \/ DeactivateUser(u, issue[i].assignee)
                  \/ \E r \in Role \ STAFF_AND_UP :
                       ChangeUserRole(u, issue[i].assignee, r)]_vars
  <2> SUFFICES ASSUME NEW j \in Live(issue), j \in Live(issue)',
                      WellAssigned(j), ~WellAssigned(j)'
               PROVE  \E u \in User :
                        \/ DeactivateUser(u, issue[j].assignee)
                        \/ \E r \in Role \ STAFF_AND_UP :
                             ChangeUserRole(u, issue[j].assignee, r)
    OBVIOUS
  <2>1. /\ j \in IssueId /\ issue[j] \in IssueRow /\ issue[j] # NotYet
        /\ issue'[j] # Gone /\ issue'[j] \in IssueRow
        /\ issue \in [IssueId -> IssueRow \cup {NotYet, Gone}]
        /\ user \in [User -> Account] /\ user' \in [User -> Account]
    BY <1>1 DEF Live, TypeOK
  <2>2. CASE AccountStep
    <3> DEFINE a == issue[j].assignee
    <3>1. issue' = issue /\ a \in User /\ HasRole(a, STAFF_AND_UP) /\ ~HasRole(a, STAFF_AND_UP)'
      BY <2>1, <2>2 DEF AccountStep, ChangeUserRole, DeactivateUser, WellAssigned, IssueRow,
                        HasRole
    <3> PICK u \in User, t \in User :
          (\E r \in Role : ChangeUserRole(u, t, r)) \/ DeactivateUser(u, t)
      BY <2>2 DEF AccountStep
    <3>2. t = a
      BY <2>1, <3>1 DEF ChangeUserRole, DeactivateUser, HasRole
    <3>3. ASSUME NEW r \in Role, ChangeUserRole(u, t, r) PROVE r \notin STAFF_AND_UP
      BY <2>1, <3>1, <3>2, <3>3 DEF ChangeUserRole, HasRole, Account
    <3> QED BY <3>2, <3>3
  <2>3. CASE IssueStep
    <3>1. user' = user
      BY <2>3 DEF IssueStep, CreateIssue, CreateIssueUnsynced, UpdateIssue, AssignIssue,
                  DeleteIssue, Transition
    <3>2. issue'[j].assignee # issue[j].assignee
      BY <3>1 DEF WellAssigned, HasRole
    <3> PICK u \in User, i \in IssueId :
          \/ \E d \in EquipmentId, sev \in Severities : CreateIssue(u, i, d, sev)
          \/ \E d \in EquipmentId : CreateIssueUnsynced(u, i, d)
          \/ \E sev \in Severities : UpdateIssue(u, i, sev)
          \/ \E a \in User : AssignIssue(u, i, a)
          \/ DeleteIssue(u, i)
          \/ \E to \in IssueStatus, notes \in SUBSET CommentId : Transition(u, i, to, notes)
      BY <2>3 DEF IssueStep
    <3>3. ASSUME NEW to \in IssueStatus, NEW notes \in SUBSET CommentId,
                 Transition(u, i, to, notes)
          PROVE  FALSE
      <4>1. Moved(issue[j], to, u, NoUser).assignee = issue[j].assignee
        BY <2>1 DEF Moved, IssueRow
      <4> QED BY <2>1, <3>2, <3>3, <4>1 DEF Transition
    <3>4. ASSUME NEW sev \in Severities, UpdateIssue(u, i, sev) PROVE FALSE
      BY <2>1, <3>2, <3>4 DEF UpdateIssue, IssueRow
    <3>5. ASSUME NEW a \in User, AssignIssue(u, i, a) PROVE FALSE
      <4>1. issue'[j].assignee = a
        BY <2>1, <3>2, <3>5 DEF AssignIssue, IssueRow
      <4> QED BY <3>1, <3>5, <4>1 DEF AssignIssue, WellAssigned, HasRole
    <3>6. ~DeleteIssue(u, i)
      BY <2>1, <3>2 DEF DeleteIssue
    <3>7. \A d \in EquipmentId, sev \in Severities : ~CreateIssue(u, i, d, sev)
      BY <2>1, <3>2 DEF CreateIssue, Unused
    <3>8. \A d \in EquipmentId : ~CreateIssueUnsynced(u, i, d)
      BY <2>1, <3>2 DEF CreateIssueUnsynced, Unused
    <3> QED BY <3>3, <3>4, <3>5, <3>6, <3>7, <3>8
  <2>4. CASE UNCHANGED <<user, issue>>
    BY <2>4 DEF WellAssigned, HasRole
  <2> QED BY <1>1, <2>2, <2>3, <2>4
       DEF Next, vars, EquipmentStep, CreateEquipment, UpdateEquipment, DeleteEquipment,
           CommentStep, AddComment, EditComment, DeleteComment
<1> QED BY <1>1, TypeCorrect, PTL DEF Spec, AssigneeLostOnlyBy
=============================================================================
