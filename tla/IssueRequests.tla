----------------------------- MODULE IssueRequests -----------------------------
(***************************************************************************)
(* The endpoints of IssueTracker as the server runs them: every request    *)
(* has its own database session, every statement it awaits lets the other  *)
(* requests run, and PostgreSQL (READ COMMITTED) shows each statement what *)
(* is committed by then.                                                   *)
(*                                                                         *)
(* A request starts with the reads its checks depend on: a request that    *)
(* fails them leaves no trace, so only the others appear.  What it read is *)
(* kept in the request and grows stale.  Writes stay in the session until  *)
(* the commit; a row updated before it is locked from then on.             *)
(***************************************************************************)
EXTENDS IssueTracker

CONSTANTS
  Worker,        \* requests that may be in flight at once
  Endpoints,     \* the endpoints the clients use
  MayFail,       \* may the server lose a request half way?
  OneWriter,     \* do the clients avoid racing writes to one asset?
  Idle           \* no request is in flight

WriterOps == {"createIssue", "transition", "updateIssue", "deleteIssue",
              "updateEquipment", "deleteEquipment"}
Ops   == WriterOps \cup {"createEquipment", "assignIssue", "addComment",
                         "editComment", "deleteComment"}
Steps == {"insert", "reload", "loadEq", "flush", "selectEq", "count", "commit"}

ASSUME EndpointsAssumption == Endpoints \subseteq Ops
ASSUME FlagsAssumption     == MayFail \in BOOLEAN /\ OneWriter \in BOOLEAN

VARIABLE req     \* what each worker is doing

tables == vars
rvars  == <<user, equipment, issue, comment, req>>

-------------------------------------------------------------------------------
(* The unit of work *)

\* Mutant: the whole row is written back, as loaded but for the change.
WholeRow(row, new) == [f \in DOMAIN row |-> new[f]]

\* The columns an ORM object that was loaded as row and now is new flushes.
NetChange(row, new) ==
  [f \in {g \in DOMAIN row : new[g] # row[g]} |-> new[f]]

\* UPDATE ... SET writes: the other columns keep what is stored now.
Overlay(row, writes) ==
  [f \in DOMAIN row |-> IF f \in DOMAIN writes THEN writes[f] ELSE row[f]]

\* Mutant: the time is stamped only on a row that has none.
StampOnce(row, to, u) == NetChange(row, Moved(row, to, u, NoUser))

\* resolved_at is always a new time, so it is flushed whatever was loaded.
TransitionWrites(row, to, u) ==
  LET new  == Moved(row, to, u, NoUser)
      cols == {f \in DOMAIN row : new[f] # row[f]}
                \cup (IF to = "resolved" THEN {"resolvedAt"} ELSE {})
  IN  [f \in cols |-> new[f]]

-------------------------------------------------------------------------------
(* Requests in flight *)

Doing(w, op) == req[w] # Idle /\ req[w].op = op

At(w, step) == req[w] # Idle /\ req[w].pc = step

\* A transition holds its issue's row lock from its flush to its commit, also
\* while it waits for the row of its equipment.
Locked(i) ==
  \E w \in Worker : /\ Doing(w, "transition") /\ req[w].i = i
                    /\ req[w].pc \in {"selectEq", "count", "commit"}

\* Does the flush before the commit update the row of the equipment?
WritesAsset(w) ==
  \/ (Doing(w, "updateEquipment") \/ Doing(w, "deleteEquipment")) /\ DOMAIN req[w].writes # {}
  \/ "target" \in DOMAIN req[w] /\ req[w].target # req[w].eqSeen

\* That flush is over: the request holds the row's lock until its commit.
HoldsAsset(w) == req[w] # Idle /\ "holds" \in DOMAIN req[w]

\* An issue whose POST is not answered yet.
Unanswered(i) ==
  \E w \in Worker : Doing(w, "createIssue") /\ ~At(w, "insert") /\ req[w].i = i

\* What careful clients wait for, if they are careful.
FreeToWrite(e) ==
  OneWriter => ~\E w \in Worker : req[w] # Idle /\ req[w].op \in WriterOps /\ req[w].e = e

FreeToUse(i) == OneWriter => ~Unanswered(i)

\* A UUID nobody else has drawn; a request draws the ones it will insert first.
FreshIssue(i) ==
  /\ i \in Unused(issue)
  /\ ~\E w \in Worker : Doing(w, "createIssue") /\ req[w].i = i

FreshComment(c) ==
  /\ c \in Unused(comment)
  /\ ~\E w \in Worker : \/ (Doing(w, "addComment") /\ req[w].c = c)
                         \/ (Doing(w, "transition") /\ c \in req[w].notes)

\* The issues a request sees inside its own transaction, at count's SELECT.
SeenBy(w) ==
  IF Doing(w, "transition")
    THEN [issue EXCEPT ![req[w].i] = Overlay(@, req[w].writes)]
    ELSE issue

-------------------------------------------------------------------------------
(* Requests arrive: their reads and their checks *)

Begin(w, r) ==
  /\ req[w] = Idle
  /\ r.op \in Endpoints
  /\ req' = [req EXCEPT ![w] = r]
  /\ UNCHANGED tables

BeginCreateIssue(w, u, i, e, sev) ==
  /\ user[u].active
  /\ Reachable(e) /\ equipment[e].status # "decommissioned"
  /\ FreshIssue(i)
  /\ FreeToWrite(e)
  /\ Begin(w, [op |-> "createIssue", pc |-> "insert", i |-> i, e |-> e,
               row |-> NewIssue(u, e, sev)])

BeginTransition(w, u, i, to, notes) ==
  /\ i \in Live(issue)
  /\ user[u].active /\ MayMove(user[u].role, issue[i].status, to)
  /\ Cardinality(notes) <= 1 /\ \A c \in notes : FreshComment(c)
  /\ FreeToUse(i) /\ FreeToWrite(issue[i].equipment)
  /\ Begin(w, [op |-> "transition", pc |-> "loadEq", actor |-> u, i |-> i,
               e |-> issue[i].equipment, notes |-> notes,
               writes |-> TransitionWrites(issue[i], to, u)])

BeginUpdateIssue(w, u, i, sev) ==
  /\ i \in Live(issue) /\ CanAccess(u, i)
  /\ FreeToUse(i) /\ FreeToWrite(issue[i].equipment)
  /\ Begin(w, [op |-> "updateIssue", pc |-> "commit", i |-> i, e |-> issue[i].equipment,
               writes |-> NetChange(issue[i], [issue[i] EXCEPT !.severity = sev])])

BeginAssignIssue(w, u, i, a) ==
  /\ HasRole(u, STAFF_AND_UP)
  /\ i \in Live(issue)
  /\ HasRole(a, STAFF_AND_UP)
  /\ FreeToUse(i)
  /\ Begin(w, [op |-> "assignIssue", pc |-> "commit", i |-> i,
               writes |-> NetChange(issue[i], [issue[i] EXCEPT !.assignee = a])])

BeginDeleteIssue(w, u, i) ==
  /\ HasRole(u, {"admin"})
  /\ i \in Live(issue)
  /\ FreeToUse(i) /\ FreeToWrite(issue[i].equipment)
  /\ Begin(w, [op |-> "deleteIssue", pc |-> "commit", i |-> i, e |-> issue[i].equipment])

BeginUpdateEquipment(w, u, e, s) ==
  /\ HasRole(u, MANAGER_AND_UP)
  /\ Reachable(e)
  /\ FreeToWrite(e)
  /\ Begin(w, [op |-> "updateEquipment", pc |-> "commit", e |-> e,
               writes |-> NetChange(equipment[e], [equipment[e] EXCEPT !.status = s])])

BeginDeleteEquipment(w, u, e) ==
  /\ HasRole(u, {"admin"})
  /\ Reachable(e)
  /\ FreeToWrite(e)
  /\ Begin(w, [op |-> "deleteEquipment", pc |-> "commit", e |-> e,
               writes |-> NetChange(equipment[e], [equipment[e] EXCEPT !.deleted = TRUE])])

BeginAddComment(w, u, c, i, internal) ==
  /\ i \in Live(issue) /\ CanAccess(u, i)
  /\ internal => user[u].role \in STAFF_AND_UP
  /\ FreshComment(c)
  /\ FreeToUse(i)
  /\ Begin(w, [op |-> "addComment", pc |-> "commit", c |-> c, row |-> NewComment(u, i, internal)])

BeginEditComment(w, u, c) ==
  /\ c \in Live(comment)
  /\ user[u].active /\ comment[c].author = u
  /\ Begin(w, [op |-> "editComment", pc |-> "commit", actor |-> u, c |-> c])

BeginDeleteComment(w, u, c) ==
  /\ c \in Live(comment)
  /\ user[u].active
  /\ comment[c].author = u \/ user[u].role \in MANAGER_AND_UP
  /\ Begin(w, [op |-> "deleteComment", pc |-> "commit", c |-> c])

\* One INSERT and its commit, nothing read before.
CreateEquipmentNow(u, e, s) ==
  /\ "createEquipment" \in Endpoints
  /\ CreateEquipment(u, e, s)
  /\ UNCHANGED req

-------------------------------------------------------------------------------
(* Requests go on *)

Goto(w, step) == req' = [req EXCEPT ![w].pc = step]

Finish(w) == req' = [req EXCEPT ![w] = Idle]

\* create_issue's first commit.  The equipment is not looked at again.
InsertIssue(w) ==
  /\ At(w, "insert")
  /\ issue' = [issue EXCEPT ![req[w].i] = req[w].row]
  /\ Goto(w, "reload")
  /\ UNCHANGED <<user, equipment, comment>>

\* The refetch of the new issue: by now it may be deleted (the handler then
\* fails on None) or have another severity.
ReloadIssue(w) ==
  /\ At(w, "reload")
  /\ IF (req[w].i \in Live(issue)) /\ issue[req[w].i].severity = "critical"
       THEN Goto(w, "loadEq") ELSE Finish(w)
  /\ UNCHANGED tables

\* The issue's relations are loaded: the status the session keeps from now on.
LoadEquipment(w) ==
  /\ At(w, "loadEq")
  /\ req' = [req EXCEPT ![w] =
       [f \in DOMAIN @ \cup {"eqSeen"} |->
          CASE f = "eqSeen" -> equipment[@.e].status
            [] f = "pc"     -> IF Doing(w, "transition") THEN "flush" ELSE "selectEq"
            [] OTHER        -> @[f]]]
  /\ UNCHANGED tables

\* Autoflush: UPDATE issues ... WHERE id, after any other holder of the row.
\* No row left to update: StaleDataError, and the request fails.
FlushIssue(w) ==
  /\ At(w, "flush")
  /\ ~Locked(req[w].i)
  /\ IF req[w].i \in Live(issue) THEN Goto(w, "selectEq") ELSE Finish(w)
  /\ UNCHANGED tables

\* equipment_crud.get: the query finds no deleted row, but the session's object
\* keeps the status it was loaded with.
SelectEquipment(w) ==
  /\ At(w, "selectEq")
  /\ Goto(w, IF Reachable(req[w].e) /\ req[w].eqSeen # "decommissioned"
               THEN "count" ELSE "commit")
  /\ UNCHANGED tables

\* _has_active_critical, and the status the equipment is set to.
CountCritical(w) ==
  /\ At(w, "count")
  /\ req' = [req EXCEPT ![w] =
       [f \in DOMAIN @ \cup {"target"} |->
          CASE f = "target" -> SyncTarget(@.eqSeen, HasActiveCritical(SeenBy(w), @.e))
            [] f = "pc"     -> "commit"
            [] OTHER        -> @[f]]]
  /\ UNCHANGED tables

\* UPDATE equipment ... WHERE id, after any other holder of the row.
FlushEquipment(w) ==
  /\ At(w, "commit") /\ WritesAsset(w) /\ ~HoldsAsset(w)
  /\ ~\E v \in Worker : HoldsAsset(v) /\ req[v].e = req[w].e
  /\ req' = [req EXCEPT ![w] =
       [f \in DOMAIN @ \cup {"holds"} |-> IF f = "holds" THEN "asset" ELSE @[f]]]
  /\ UNCHANGED tables

\* What had to be flushed is.
AssetFlushed(w) == WritesAsset(w) => HoldsAsset(w)

\* What that flush makes of it: only a status that differs from the one seen.
EquipmentAfterSync(w) ==
  IF "target" \in DOMAIN req[w] /\ req[w].target # req[w].eqSeen
    THEN [equipment EXCEPT ![req[w].e].status = req[w].target]
    ELSE equipment

\* create_issue's second commit.
CommitNewIssueSync(w) ==
  /\ At(w, "commit") /\ Doing(w, "createIssue") /\ AssetFlushed(w)
  /\ equipment' = EquipmentAfterSync(w)
  /\ Finish(w)
  /\ UNCHANGED <<user, issue, comment>>

CommitTransition(w) ==
  /\ At(w, "commit") /\ Doing(w, "transition") /\ AssetFlushed(w)
  /\ issue' = SeenBy(w)
  /\ equipment' = EquipmentAfterSync(w)
  /\ comment' = [c \in CommentId |->
                   IF c \in req[w].notes THEN NewComment(req[w].actor, req[w].i, TRUE)
                                         ELSE comment[c]]
  /\ Finish(w)
  /\ UNCHANGED user

\* issue_crud.update and assign; a deleted row fails the request.
CommitIssueEdit(w) ==
  /\ At(w, "commit") /\ (Doing(w, "updateIssue") \/ Doing(w, "assignIssue"))
  /\ ~Locked(req[w].i)
  /\ issue' = IF req[w].i \in Live(issue)
                THEN [issue EXCEPT ![req[w].i] = Overlay(@, req[w].writes)]
                ELSE issue
  /\ Finish(w)
  /\ UNCHANGED <<user, equipment, comment>>

\* Deleting what is deleted already does nothing.
CommitDeleteIssue(w) ==
  /\ At(w, "commit") /\ Doing(w, "deleteIssue")
  /\ ~Locked(req[w].i)
  /\ issue' = [issue EXCEPT ![req[w].i] = Gone]
  /\ comment' = CommentsWithout(req[w].i)
  /\ Finish(w)
  /\ UNCHANGED <<user, equipment>>

\* Mutant: a deletion closes the asset's issues too, and so waits for their rows
\* while it holds the asset's.
CommitEquipmentClosing(w) ==
  LET closed == {i \in Live(issue) : /\ Doing(w, "deleteEquipment")
                                     /\ issue[i].equipment = req[w].e} IN
  /\ At(w, "commit") /\ (Doing(w, "updateEquipment") \/ Doing(w, "deleteEquipment"))
  /\ AssetFlushed(w)
  /\ \A i \in closed : ~Locked(i)
  /\ equipment' = [equipment EXCEPT ![req[w].e] = Overlay(@, req[w].writes)]
  /\ issue' = [i \in IssueId |->
                 IF i \in closed THEN [issue[i] EXCEPT !.status = "closed"] ELSE issue[i]]
  /\ Finish(w)
  /\ UNCHANGED <<user, comment>>

\* An asset's row is never removed, so its UPDATE always finds it.
CommitEquipmentEdit(w) ==
  /\ At(w, "commit") /\ (Doing(w, "updateEquipment") \/ Doing(w, "deleteEquipment"))
  /\ AssetFlushed(w)
  /\ equipment' = [equipment EXCEPT ![req[w].e] = Overlay(@, req[w].writes)]
  /\ Finish(w)
  /\ UNCHANGED <<user, issue, comment>>

\* Mutant: the foreign key is not there.
AddCommentUnchecked(w) ==
  /\ At(w, "commit") /\ Doing(w, "addComment")
  /\ comment' = [comment EXCEPT ![req[w].c] = req[w].row]
  /\ Finish(w)
  /\ UNCHANGED <<user, equipment, issue>>

\* The foreign key refuses a comment on an issue that is gone.
CommitAddComment(w) ==
  /\ At(w, "commit") /\ Doing(w, "addComment")
  /\ comment' = IF req[w].row.issue \in Live(issue)
                  THEN [comment EXCEPT ![req[w].c] = req[w].row]
                  ELSE comment
  /\ Finish(w)
  /\ UNCHANGED <<user, equipment, issue>>

CommitCommentEdit(w) ==
  /\ At(w, "commit") /\ (Doing(w, "editComment") \/ Doing(w, "deleteComment"))
  /\ comment' = IF req[w].c \notin Live(comment) THEN comment
                ELSE IF Doing(w, "deleteComment")
                  THEN [comment EXCEPT ![req[w].c] = Gone]
                  ELSE [comment EXCEPT ![req[w].c].words = req[w].actor]
  /\ Finish(w)
  /\ UNCHANGED <<user, equipment, issue>>

\* The process dies or the connection is lost: the open transaction is rolled back.
Fail(w) ==
  /\ MayFail
  /\ req[w] # Idle
  /\ Finish(w)
  /\ UNCHANGED tables

-------------------------------------------------------------------------------
Arrive(w) ==
  \E u \in User :
    \/ \E e \in EquipmentId :
         \/ \E i \in IssueId, sev \in Severities : BeginCreateIssue(w, u, i, e, sev)
         \/ \E s \in EquipmentStatus : BeginUpdateEquipment(w, u, e, s)
         \/ BeginDeleteEquipment(w, u, e)
    \/ \E i \in IssueId :
         \/ \E to \in IssueStatus, notes \in SUBSET CommentId :
              BeginTransition(w, u, i, to, notes)
         \/ \E sev \in Severities : BeginUpdateIssue(w, u, i, sev)
         \/ \E a \in User : BeginAssignIssue(w, u, i, a)
         \/ BeginDeleteIssue(w, u, i)
         \/ \E c \in CommentId, internal \in BOOLEAN : BeginAddComment(w, u, c, i, internal)
    \/ \E c \in CommentId : BeginEditComment(w, u, c) \/ BeginDeleteComment(w, u, c)

Proceed(w) ==
  \/ InsertIssue(w) \/ ReloadIssue(w)
  \/ LoadEquipment(w) \/ FlushIssue(w) \/ SelectEquipment(w) \/ CountCritical(w)
  \/ FlushEquipment(w) \/ CommitNewIssueSync(w) \/ CommitTransition(w)
  \/ CommitIssueEdit(w) \/ CommitDeleteIssue(w) \/ CommitEquipmentEdit(w)
  \/ CommitAddComment(w) \/ CommitCommentEdit(w)

RequestInit == Init /\ req = [w \in Worker |-> Idle]

RequestNext ==
  \/ \E w \in Worker : Arrive(w) \/ Proceed(w) \/ Fail(w)
  \/ \E u \in User, e \in EquipmentId, s \in EquipmentStatus : CreateEquipmentNow(u, e, s)

RequestSpec == RequestInit /\ [][RequestNext]_rvars

\* The event loop runs every ready request again and again, and PostgreSQL
\* grants a row lock to the requests that wait for it in turn.  Nobody has to
\* send a request, and nothing has to fail.
FairRequestSpec == RequestSpec /\ \A w \in Worker : SF_rvars(Proceed(w))

-------------------------------------------------------------------------------
(* Properties *)

\* The values a column of issues may be set to.
IssueColumn(f) ==
  CASE f = "status"     -> IssueStatus
    [] f = "severity"   -> Severities
    [] f = "equipment"  -> EquipmentId
    [] f = "reporter"   -> User
    [] f = "resolvedAt" -> BOOLEAN
    [] f \in {"assignee", "resolvedBy"} -> User \cup {NoUser}

IssueColumns == {"status", "severity", "equipment", "reporter",
                 "assignee", "resolvedAt", "resolvedBy"}

\* The tables are well typed, and a request knows its operation, its step, and
\* for a flush of an issue, columns with values they can hold.
RequestTypeOK ==
  /\ TypeOK
  /\ \A w \in Worker :
       req[w] # Idle =>
         /\ req[w].op \in Endpoints
         /\ req[w].pc \in Steps
         /\ req[w].op \in {"transition", "updateIssue", "assignIssue"} =>
              \A f \in DOMAIN req[w].writes :
                (f \in IssueColumns) /\ req[w].writes[f] \in IssueColumn(f)

\* However requests race, each column of an issue is written only by a request
\* that means to: an edit or an assignment made from a stale copy never takes
\* back a status, a stamp, a severity or an assignee another request stored.
NoColumnLost ==
  [][\A i \in Live(issue) : i \in Live(issue)' =>
       \A f \in DOMAIN issue[i] : issue'[i][f] # issue[i][f] =>
         \E w \in Worker :
           /\ req[w] # Idle /\ req'[w] = Idle /\ req[w].i = i
           /\ CASE f = "severity" -> req[w].op = "updateIssue"
                [] f = "assignee" -> req[w].op = "assignIssue"
                [] f \in {"status", "resolvedAt", "resolvedBy"} -> req[w].op = "transition"
                [] f \in {"equipment", "reporter"} -> FALSE]_rvars

\* What the end of one request may do to an asset.
TouchedBy(w, e) ==
  /\ req[w] # Idle /\ req'[w] = Idle /\ req[w].e = e
  /\ CASE req[w].op = "updateEquipment" ->
            equipment'[e].deleted = equipment[e].deleted
       [] req[w].op = "deleteEquipment" ->
            equipment'[e].status = equipment[e].status
       [] req[w].op \in {"createIssue", "transition"} ->
            /\ equipment'[e].deleted = equipment[e].deleted
            /\ "decommissioned" \notin {req[w].eqSeen, equipment'[e].status}
       [] OTHER -> FALSE

\* However requests race, an asset's deletion is never undone, and its status is set
\* only by a manager's PATCH or by the sync of an issue's creation or transition: by
\* a sync only where the asset was in service when the request loaded it, and then
\* it is never decommissioned.
AssetColumnOnly ==
  [][\A e \in Live(equipment) :
       /\ equipment[e].deleted => equipment'[e].deleted
       /\ equipment'[e] # equipment[e] => \E w \in Worker : TouchedBy(w, e)]_rvars

\* However transitions race, an issue that is resolved has the time it was
\* resolved at.  (Who resolved it, and the stamps of a closed issue, can be lost.)
ResolvedHasTime ==
  \A i \in Live(issue) : issue[i].status = "resolved" => issue[i].resolvedAt

\* Every request ends, though a transition waits for its asset's row while it holds
\* its issue's: nobody who holds an asset's row waits for an issue's, so no circle of
\* requests wait for each other, and a row deleted meanwhile is not waited for.
RequestsFinish ==
  \A w \in Worker : req[w] # Idle ~> req[w] = Idle

\* When nothing is in flight, equipment with an active critical issue is under
\* maintenance (unless it is decommissioned or deleted).  It is not so: see the
\* run sync_write_skew, and SyncLostOnlyBy for what loses it one request at a time.
QuietMaintenance ==
  (\A w \in Worker : req[w] = Idle) =>
    \A e \in Live(equipment) :
      /\ Reachable(e) /\ equipment[e].status # "decommissioned"
      /\ HasActiveCritical(issue, e)
      => equipment[e].status = "under_maintenance"

(* Refinement: for clients that do not race writes to one asset, and wait for
   the answer to a POST before they use the new issue, the statements add up to
   IssueTracker's atomic actions, failures included.  An issue shows when its
   creation is over; lost half way, it shows unsynced. *)
Shown == [i \in IssueId |-> IF Unanswered(i) THEN NotYet ELSE issue[i]]

Atomic == INSTANCE IssueTracker WITH issue <- Shown

\* RequestSpec implements the atomic tracker.
AtomicSpec == Atomic!Spec
=============================================================================
