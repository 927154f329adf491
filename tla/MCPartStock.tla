----------------------------- MODULE MCPartStock -----------------------------
(* PartStock on a small instance.  What is said of a part's stock is said  *)
(* until the part is written over stale reads, so no state after that is   *)
(* looked at: the ledger of such a part drifts from its stock without bound.*)
EXTENDS PartStock, TLC

MCStock == [p \in Parts |-> 1]
MCOverReserved == [p \in Parts |-> 2]
MCNothingReserved == [p \in Parts |-> 0]

(* A line as it is usually created, and lines created as reserved, pulled   *)
(* or installed already; a special order that has been received.            *)
Plain(p) == [status |-> "NEEDS_REVIEW", part |-> p, required |-> 1, allocated |-> 0,
             received |-> 0, pulled |-> 0, installed |-> 0]
MCPlainLines == {Plain(p) : p \in Parts}
MCNewLines ==
    MCPlainLines
      \cup {[Plain(p) EXCEPT !.allocated = 1] : p \in Parts}
      \cup {[Plain(p) EXCEPT !.pulled = 1] : p \in Parts}
      \cup {[Plain(p) EXCEPT !.installed = 1] : p \in Parts}
      \cup {[Plain(None) EXCEPT !.received = 1]}
MCSymmetry == Permutations(Workers) \cup Permutations(PartLines)
NothingStale == stale = {}
=============================================================================
