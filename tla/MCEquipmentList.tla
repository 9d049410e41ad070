---------------------------- MODULE MCEquipmentList ----------------------------
(* Small instances of EquipmentList for TLC. *)
EXTENDS EquipmentList, TLC

\* A second page, and a filtered first one, of one row each.
TwoKeys == {[status |-> "any", skip |-> 1, limit |-> 1],
            [status |-> "operational", skip |-> 0, limit |-> 1]}

InService == {"operational", "under_maintenance"}
=============================================================================
