----------------------------- MODULE IssueTracker -----------------------------
(***************************************************************************)
(* The tracker one request at a time: every endpoint that changes a stored *)
(* row of users, equipment, issues or comments is one atomic action.  This *)
(* is what the API promises to a client that never races another one;      *)
(* IssueRequests runs the same endpoints statement by statement.           *)
(***************************************************************************)
EXTENDS GymDomain, Naturals, FiniteSets

CONSTANTS
  User,         \* accounts, registered before the behaviour starts
  EquipmentId,
  IssueId,
  CommentId,
  Severities,   \* the severities clients use, a subset of IssueSeverity
  NotYet,       \* the row has not been inserted
  Gone,         \* the row was deleted; a UUID is never handed out twice
  NoUser        \* NULL in assigned_to_id and resolved_by_id

Account == [role : Role, active : BOOLEAN]

EquipmentRow == [status : EquipmentStatus, deleted : BOOLEAN]

IssueRow == [status : IssueStatus, severity : Severities,
             equipment : EquipmentId, reporter : User,
             assignee : User \cup {NoUser},
             resolvedAt : BOOLEAN,               \* is there a time stamp?
             resolvedBy : User \cup {NoUser}]

\* A comment's text is known only by the account that wrote it last.
CommentRow == [issue : IssueId, author : User, words : User, internal : BOOLEAN]

ASSUME SeveritiesAssumption == Severities \subseteq IssueSeverity
ASSUME NoUserAssumption     == NoUser \notin User
ASSUME SentinelAssumption   ==
  /\ NotYet # Gone
  /\ {NotYet, Gone} \cap (EquipmentRow \cup IssueRow \cup CommentRow) = {}

VARIABLES user, equipment, issue, comment

vars == <<user, equipment, issue, comment>>

-------------------------------------------------------------------------------
(* Reading the tables *)

Live(table) == {k \in DOMAIN table : table[k] \notin {NotYet, Gone}}

Unused(table) == {k \in DOMAIN table : table[k] = NotYet}

\* equipment_crud.get: a soft-deleted asset is not found any more.
Reachable(e) == e \in Live(equipment) /\ ~equipment[e].deleted

HasRole(u, roles) == user[u].active /\ user[u].role \in roles

CanAccess(u, i) ==
  user[u].active /\ CanAccessIssue(user[u].role, u, issue[i])

HasActiveCritical(rows, e) ==
  \E i \in Live(rows) : rows[i].equipment = e /\ ActiveCritical(rows[i])

\* Mutant: no autoflush, the count misses the change it is made for.
SyncedBeforeFlush(rows, e) ==
  IF Reachable(e)
    THEN [equipment EXCEPT ![e].status = SyncTarget(@, HasActiveCritical(issue, e))]
    ELSE equipment

\* The equipment table after sync_equipment_status(e), the issues being rows.
SyncedEquipment(rows, e) ==
  IF Reachable(e)
    THEN [equipment EXCEPT ![e].status = SyncTarget(@, HasActiveCritical(rows, e))]
    ELSE equipment

\* Mutant: a status the enum does not have.
NewIssueReported(u, e, sev) ==
  [status |-> "reported", severity |-> sev, equipment |-> e, reporter |-> u,
   assignee |-> NoUser, resolvedAt |-> FALSE, resolvedBy |-> NoUser]

NewIssue(u, e, sev) ==
  [status |-> "open", severity |-> sev, equipment |-> e, reporter |-> u,
   assignee |-> NoUser, resolvedAt |-> FALSE, resolvedBy |-> NoUser]

NewComment(u, i, internal) ==
  [issue |-> i, author |-> u, words |-> u, internal |-> internal]

\* Mutants: the foreign key has no cascade; the delete has no WHERE.
CommentsLeftBehind(i) == comment
AllCommentsGone(i) ==
  [c \in CommentId |-> IF c \in Live(comment) THEN Gone ELSE comment[c]]

\* ON DELETE CASCADE
CommentsWithout(i) ==
  [c \in CommentId |-> IF c \in Live(comment) /\ comment[c].issue = i
                         THEN Gone ELSE comment[c]]

-------------------------------------------------------------------------------
(* Accounts, as far as the other endpoints depend on them *)

\* Mutant: one may change one's own role.
ChangeAnyRole(u, t, r) ==
  /\ HasRole(u, {"admin"})
  /\ user' = [user EXCEPT ![t].role = r]
  /\ UNCHANGED <<equipment, issue, comment>>

ChangeUserRole(u, t, r) ==
  /\ HasRole(u, {"admin"})
  /\ t # u
  /\ user' = [user EXCEPT ![t].role = r]
  /\ UNCHANGED <<equipment, issue, comment>>

DeactivateUser(u, t) ==
  /\ HasRole(u, {"admin"})
  /\ t # u
  /\ user' = [user EXCEPT ![t].active = FALSE]
  /\ UNCHANGED <<equipment, issue, comment>>

(* Equipment *)

CreateEquipment(u, e, s) ==
  /\ HasRole(u, MANAGER_AND_UP)
  /\ e \in Unused(equipment)
  /\ equipment' = [equipment EXCEPT ![e] = [status |-> s, deleted |-> FALSE]]
  /\ UNCHANGED <<user, issue, comment>>

UpdateEquipment(u, e, s) ==
  /\ HasRole(u, MANAGER_AND_UP)
  /\ Reachable(e)
  /\ equipment' = [equipment EXCEPT ![e].status = s]
  /\ UNCHANGED <<user, issue, comment>>

DeleteEquipment(u, e) ==
  /\ HasRole(u, {"admin"})
  /\ Reachable(e)
  /\ equipment' = [equipment EXCEPT ![e].deleted = TRUE]
  /\ UNCHANGED <<user, issue, comment>>

(* Issues *)

CreateIssue(u, i, e, sev) ==
  /\ user[u].active
  /\ Reachable(e) /\ equipment[e].status # "decommissioned"
  /\ i \in Unused(issue)
  /\ issue' = [issue EXCEPT ![i] = NewIssue(u, e, sev)]
  /\ equipment' = IF sev = "critical" THEN SyncedEquipment(issue', e) ELSE equipment
  /\ UNCHANGED <<user, comment>>

\* The server fails after the first of create_issue's two commits: the issue is
\* stored and the equipment is never looked at.
CreateIssueUnsynced(u, i, e) ==
  /\ user[u].active
  /\ Reachable(e) /\ equipment[e].status # "decommissioned"
  /\ i \in Unused(issue)
  /\ issue' = [issue EXCEPT ![i] = NewIssue(u, e, "critical")]
  /\ UNCHANGED <<user, equipment, comment>>

\* Only the severity of the descriptive fields matters; nothing is synced.
UpdateIssue(u, i, sev) ==
  /\ i \in Live(issue) /\ CanAccess(u, i)
  /\ issue' = [issue EXCEPT ![i].severity = sev]
  /\ UNCHANGED <<user, equipment, comment>>

\* Mutant: anybody may be made the assignee.
AssignToAnyone(u, i, a) ==
  /\ HasRole(u, STAFF_AND_UP)
  /\ i \in Live(issue)
  /\ issue' = [issue EXCEPT ![i].assignee = a]
  /\ UNCHANGED <<user, equipment, comment>>

AssignIssue(u, i, a) ==
  /\ HasRole(u, STAFF_AND_UP)
  /\ i \in Live(issue)
  /\ HasRole(a, STAFF_AND_UP)
  /\ issue' = [issue EXCEPT ![i].assignee = a]
  /\ UNCHANGED <<user, equipment, comment>>

DeleteIssue(u, i) ==
  /\ HasRole(u, {"admin"})
  /\ i \in Live(issue)
  /\ issue' = [issue EXCEPT ![i] = Gone]
  /\ comment' = CommentsWithout(i)
  /\ UNCHANGED <<user, equipment>>

\* notes is empty, or holds the id of the internal comment that carries the note.
Transition(u, i, to, notes) ==
  /\ i \in Live(issue)
  /\ user[u].active /\ MayMove(user[u].role, issue[i].status, to)
  /\ notes \subseteq Unused(comment) /\ Cardinality(notes) <= 1
  /\ issue' = [issue EXCEPT ![i] = Moved(@, to, u, NoUser)]
  /\ equipment' = SyncedEquipment(issue', issue[i].equipment)
  /\ comment' = [c \in CommentId |->
                   IF c \in notes THEN NewComment(u, i, TRUE) ELSE comment[c]]
  /\ UNCHANGED user

(* Comments *)

AddComment(u, c, i, internal) ==
  /\ i \in Live(issue) /\ CanAccess(u, i)
  /\ internal => user[u].role \in STAFF_AND_UP
  /\ c \in Unused(comment)
  /\ comment' = [comment EXCEPT ![c] = NewComment(u, i, internal)]
  /\ UNCHANGED <<user, equipment, issue>>

EditComment(u, c) ==
  /\ c \in Live(comment)
  /\ user[u].active /\ comment[c].author = u
  /\ comment' = [comment EXCEPT ![c].words = u]
  /\ UNCHANGED <<user, equipment, issue>>

DeleteComment(u, c) ==
  /\ c \in Live(comment)
  /\ user[u].active
  /\ comment[c].author = u \/ user[u].role \in MANAGER_AND_UP
  /\ comment' = [comment EXCEPT ![c] = Gone]
  /\ UNCHANGED <<user, equipment, issue>>

-------------------------------------------------------------------------------
\* The accounts were registered and promoted before; the seeded admin is there.
Init ==
  /\ user \in [User -> [role : Role, active : {TRUE}]]
  /\ \E u \in User : user[u].role = "admin"
  /\ equipment = [e \in EquipmentId |-> NotYet]
  /\ issue = [i \in IssueId |-> NotYet]
  /\ comment = [c \in CommentId |-> NotYet]

AccountStep ==
  \E u, t \in User :
    \/ \E r \in Role : ChangeUserRole(u, t, r)
    \/ DeactivateUser(u, t)

EquipmentStep ==
  \E u \in User, e \in EquipmentId :
    \/ \E s \in EquipmentStatus : CreateEquipment(u, e, s) \/ UpdateEquipment(u, e, s)
    \/ DeleteEquipment(u, e)

IssueStep ==
  \E u \in User, i \in IssueId :
    \/ \E e \in EquipmentId, sev \in Severities : CreateIssue(u, i, e, sev)
    \/ \E e \in EquipmentId : "critical" \in Severities /\ CreateIssueUnsynced(u, i, e)
    \/ \E sev \in Severities : UpdateIssue(u, i, sev)
    \/ \E a \in User : AssignIssue(u, i, a)
    \/ DeleteIssue(u, i)
    \/ \E to \in IssueStatus, notes \in SUBSET CommentId : Transition(u, i, to, notes)

CommentStep ==
  \E u \in User, c \in CommentId :
    \/ \E i \in IssueId, internal \in BOOLEAN : AddComment(u, c, i, internal)
    \/ EditComment(u, c)
    \/ DeleteComment(u, c)

Next == AccountStep \/ EquipmentStep \/ IssueStep \/ CommentStep

Spec == Init /\ [][Next]_vars

-------------------------------------------------------------------------------
(* Properties *)

\* Every stored row has the columns and the values of its table.
TypeOK ==
  /\ user \in [User -> Account]
  /\ equipment \in [EquipmentId -> EquipmentRow \cup {NotYet}]
  /\ issue \in [IssueId -> IssueRow \cup {NotYet, Gone}]
  /\ comment \in [CommentId -> CommentRow \cup {NotYet, Gone}]

\* Whatever admins do to each other one after the other, there is always an
\* active admin.  (At the same time they can: see UserAccounts.)
AdminRemains == \E u \in User : HasRole(u, {"admin"})

\* Along every path through the state machine (resolve, reopen, work, resolve
\* again, close) an issue carries both resolution stamps exactly while it is
\* resolved or closed: reopening clears them and nothing else touches them.
StampsMatchStatus ==
  \A i \in Live(issue) :
    LET done == issue[i].status \in {"resolved", "closed"} IN
    /\ issue[i].resolvedAt <=> done
    /\ issue[i].resolvedBy # NoUser <=> done

\* A comment belongs to a stored issue, however the deletes of issues and
\* comments interleave with new ones, and its text is its author's own.
CommentsIntact ==
  \A c \in Live(comment) :
    /\ comment[c].issue \in Live(issue)
    /\ comment[c].words = comment[c].author

\* Deleting an issue takes its own comments and no other: a comment vanishes
\* with its issue, or because its author or a manager deleted it.
CommentsLeaveOnlyBy ==
  [][\A c \in Live(comment) :
       comment'[c] = Gone =>
         \/ issue'[comment[c].issue] = Gone
         \/ \E u \in User : DeleteComment(u, c)]_vars

\* Equipment that can be synced is under maintenance exactly while it has an
\* active critical issue.
InSync(e) ==
  Reachable(e) /\ equipment[e].status # "decommissioned" =>
    (equipment[e].status = "under_maintenance" <=> HasActiveCritical(issue, e))

\* A closed issue leaves "closed" only by being deleted, whatever is edited,
\* assigned, reopened or resolved around it.
ClosedIsTerminal ==
  [][\A i \in Live(issue) :
       issue[i].status = "closed" => issue'[i] = Gone \/ issue'[i].status = "closed"]_vars

\* Issue traffic never brings decommissioned equipment back: only a manager's
\* explicit PATCH of the equipment does.
DecommissionedLeftAlone ==
  [][\A e \in Live(equipment) :
       equipment[e].status = "decommissioned" /\ equipment'[e].status # "decommissioned"
         => \E u \in User, s \in EquipmentStatus : UpdateEquipment(u, e, s)]_vars

\* A status transition repairs whatever went wrong before it: after it the
\* equipment of the moved issue is in sync, however it got out of it.
TransitionRestoresSync ==
  [][\A i \in Live(issue), e \in EquipmentId :
       i \in Live(issue)' /\ issue'[i].status # issue[i].status /\ issue[i].equipment = e
         => InSync(e)']_vars

\* Equipment gets out of sync in no other way than these: a manager sets the
\* status by hand, a severity is edited, an issue is deleted, or the server
\* fails between the two commits of a critical issue's creation.
SyncLostOnlyBy ==
  [][\A e \in EquipmentId :
       InSync(e) /\ ~InSync(e)' =>
         \E u \in User :
           \/ \E s \in EquipmentStatus : CreateEquipment(u, e, s) \/ UpdateEquipment(u, e, s)
           \/ \E i \in IssueId :
                \/ \E sev \in Severities : UpdateIssue(u, i, sev)
                \/ DeleteIssue(u, i)
                \/ CreateIssueUnsynced(u, i, e)]_vars

\* Nobody has the issue, or its assignee is active staff.
WellAssigned(i) == issue[i].assignee = NoUser \/ HasRole(issue[i].assignee, STAFF_AND_UP)

\* An issue comes to be assigned to somebody who cannot work on it in one way
\* only: an admin demotes or deactivates its assignee afterwards.  Assigning,
\* editing, moving and reopening issues never does it.
AssigneeLostOnlyBy ==
  [][\A i \in Live(issue) : i \in Live(issue)' /\ WellAssigned(i) /\ ~WellAssigned(i)' =>
       \E u \in User :
         \/ DeactivateUser(u, issue[i].assignee)
         \/ \E r \in Role \ STAFF_AND_UP : ChangeUserRole(u, issue[i].assignee, r)]_vars
=============================================================================
