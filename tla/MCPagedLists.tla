----------------------------- MODULE MCPagedLists -----------------------------
(* Small instances of PagedLists for TLC. *)
EXTENDS PagedLists
=============================================================================
