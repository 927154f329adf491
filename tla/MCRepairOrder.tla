---------------------------- MODULE MCRepairOrder ----------------------------
(* RepairOrder on a small instance.                                        *)
EXTENDS RepairOrder, TLC

MCSymmetry == Permutations(Workers)
=============================================================================
