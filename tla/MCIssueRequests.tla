---------------------------- MODULE MCIssueRequests ----------------------------
(* Small instances of IssueRequests for TLC. *)
EXTENDS IssueRequests, TLC

CriticalOrNot == {"critical", "medium"}
OneSeverity   == {"critical"}

\* Every endpoint that writes an issue or a status.  The comments are the notes of
\* transitions; IssuesAndComments has the others, LockWaits the soft deletes.
IssueWrites == Ops \ {"deleteEquipment", "addComment", "editComment", "deleteComment"}

\* Issues and comments only, on an asset that somebody once created.
IssuesAndComments == Ops \ {"updateEquipment", "deleteEquipment"}

\* The endpoints that wait for an issue's row lock, what feeds them, and the edits of
\* the asset.  An assignment waits as a PATCH of the issue does, in the same action.
LockWaits == {"createEquipment", "updateEquipment", "deleteEquipment", "createIssue",
              "transition", "updateIssue", "deleteIssue"}

\* What the disagreements need.
Transitions         == {"createEquipment", "createIssue", "transition"}
TransitionsAndPatch == Transitions \cup {"updateEquipment"}

Symmetry == Permutations(User) \cup Permutations(IssueId)
              \cup Permutations(CommentId) \cup Permutations(Worker)
=============================================================================
