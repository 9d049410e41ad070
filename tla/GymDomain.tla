------------------------------ MODULE GymDomain ------------------------------
(***************************************************************************)
(* The rules of the gym equipment tracker that do not depend on stored     *)
(* state: roles, statuses, the table of issue transitions, what a          *)
(* transition does to the row it moves, and what an equipment's status has *)
(* to become.  Every module that models an endpoint takes them from here.  *)
(***************************************************************************)

(* ---- vocabulary ------------------------------------------------------- *)

Role            == {"member", "staff", "manager", "admin"}
IssueStatus     == {"open", "in_progress", "resolved", "closed"}
IssueSeverity   == {"low", "medium", "high", "critical"}
EquipmentStatus == {"operational", "under_maintenance", "decommissioned"}

STAFF_AND_UP   == {"staff", "manager", "admin"}
MANAGER_AND_UP == {"manager", "admin"}

(* ---- the issue state machine ------------------------------------------ *)

\* Moves any staff may make, and moves kept for managers and admins.
StaffMoves   == {<<"open", "in_progress">>, <<"in_progress", "open">>}
\* Mutant: one more way to reopen.
MovesReopeningClosed ==
  {<<"open", "resolved">>, <<"in_progress", "resolved">>, <<"resolved", "open">>,
   <<"resolved", "closed">>, <<"closed", "open">>}

ManagerMoves == {<<"open", "resolved">>, <<"in_progress", "resolved">>,
                 <<"resolved", "open">>, <<"resolved", "closed">>}

\* (from, to) -> the roles allowed to make the move; a pair that is not in the
\* domain is no transition at all.
TRANSITIONS ==
  [key \in StaffMoves \cup ManagerMoves |->
     IF key \in StaffMoves THEN STAFF_AND_UP ELSE MANAGER_AND_UP]

\* The two checks of transition_status, in the order the code makes them.
MayMove(role, from, to) ==
  /\ <<from, to>> \in DOMAIN TRANSITIONS
  /\ role \in TRANSITIONS[<<from, to>>]

\* Mutant: reopening forgets to clear the stamps.
MovedKeepingStamps(row, to, actor, nobody) ==
  [row EXCEPT !.status     = to,
              !.resolvedAt = (to = "resolved") \/ @,
              !.resolvedBy = IF to = "resolved" THEN actor ELSE @]

\* The row after the move: resolving stamps it, reopening clears the stamps,
\* the other moves leave them as they are.
Moved(row, to, actor, nobody) ==
  [row EXCEPT
     !.status     = to,
     !.resolvedAt = (to = "resolved") \/ (to # "open" /\ @),
     !.resolvedBy = CASE to = "resolved" -> actor
                      [] to = "open"     -> nobody
                      [] OTHER           -> @]

(* ---- the maintenance rule --------------------------------------------- *)

ActiveStatuses == {"open", "in_progress"}

ActiveCritical(row) == row.severity = "critical" /\ row.status \in ActiveStatuses

\* Mutant: the early return for decommissioned equipment is gone.
TargetForAny(status, hasCritical) ==
  IF hasCritical THEN "under_maintenance" ELSE "operational"

\* Mutant: the elif that releases the equipment is gone.
TargetNeverReleased(status, hasCritical) ==
  IF hasCritical /\ status # "decommissioned" THEN "under_maintenance" ELSE status

\* What sync_equipment_status makes of a status, given whether the equipment
\* has an active critical issue.  Decommissioned equipment is left alone.
SyncTarget(status, hasCritical) ==
  CASE status = "decommissioned"                       -> status
    [] status # "decommissioned" /\ hasCritical        -> "under_maintenance"
    [] status # "decommissioned" /\ ~hasCritical       -> "operational"

(* ---- row-level authority ---------------------------------------------- *)

CanAccessIssue(role, u, row) == role \in STAFF_AND_UP \/ row.reporter = u
=============================================================================
