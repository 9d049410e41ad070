---------------------------- MODULE MCUserAccounts ----------------------------
(* Small instances of UserAccounts for TLC. *)
EXTENDS UserAccounts, TLC

MemberOrAdmin == {"member", "admin"}

Symmetry == Permutations(AccountId) \cup Permutations(Password)
              \cup Permutations(Name) \cup Permutations(Worker)
=============================================================================
