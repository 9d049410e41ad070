---------------------------- MODULE MCIssueTracker ----------------------------
(* Small instances of IssueTracker for TLC. *)
EXTENDS IssueTracker, TLC

\* One severity that matters to the maintenance rule and one that does not.
CriticalOrNot == {"critical", "medium"}

\* A bound: one issue is assigned at a time, and once there was a comment the
\* issues are critical and nobody's.  Comments meet issues through the delete
\* and the note of a transition, assignees meet them nowhere.
OneAtATime ==
  /\ Cardinality({i \in Live(issue) : issue[i].assignee # NoUser}) <= 1
  /\ Unused(comment) # CommentId =>
       \A i \in Live(issue) : issue[i].assignee = NoUser /\ issue[i].severity = "critical"

\* Accounts, issues and comments are interchangeable: no action or property
\* names one of them.
Symmetry == Permutations(User) \cup Permutations(IssueId)
              \cup Permutations(CommentId)
=============================================================================
