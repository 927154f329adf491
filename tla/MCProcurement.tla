---------------------------- MODULE MCProcurement ----------------------------
(* Procurement on a small instance: one part and one linked part line.  An *)
(* order has a line for the part, a line of special-order parts linked to  *)
(* the part line, or a line that is both.                                  *)
EXTENDS Procurement, TLC

CONSTANTS p1, l1

Line(part, linked, n) == [part |-> part, link |-> linked, ordered |-> n, received |-> 0]

MCLines == {<<Line(p1, None, 1), Line(None, l1, 1)>>,
            <<Line(p1, l1, 2), NoLine>>}
MCEdits == {[type |-> "INVENTORY", vendor |-> FALSE, keepVendor |-> FALSE, qty |-> 0],
            [type |-> "VENDOR", vendor |-> TRUE, keepVendor |-> FALSE, qty |-> 0]}
MCLinkPart == [l \in Links |-> p1]
MCRequired == [l \in Links |-> 1]
MCOnHand == [p \in Parts |-> 0]
MCOnOrder == [p \in Parts |-> 0]
MCSymmetry == Permutations(Workers) \cup Permutations(Orders)
=============================================================================
