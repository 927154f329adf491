------------------------------ MODULE MCPosSale ------------------------------
(* PosSale on a small instance: two units of one part and one of another,  *)
(* and prices and a discount for which the rounded shares of a sale of one *)
(* of each add up to a cent more than its total.                           *)
EXTENDS PosSale, TLC

CONSTANTS p1, p2

MCStock == [p \in Parts |-> IF p = p1 THEN 2 ELSE 1]
MCPrice == [p \in Parts |-> IF p = p1 THEN 24 ELSE 57]
MCSymmetry == Permutations(Workers) \cup Permutations(Sales)
=============================================================================
