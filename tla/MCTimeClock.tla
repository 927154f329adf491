------------------------------- MODULE MCTimeClock -------------------------------
(* The time clock on a small instance.                                     *)
EXTENDS TimeClock, TLC, FiniteSets

MCSymmetry == Permutations(Workers) \cup Permutations(Entries)

(* Not past the first overlap, and corrections of one entry only.          *)
CorrectedEntries ==
    {log[i].entry : i \in {j \in DOMAIN log : log[j].field # "MANUAL_ENTRY"}}
    \cup {req[w].entry : w \in {v \in Workers : req[v].at = "correcting"}}

Focused == unkept = {} /\ Cardinality(CorrectedEntries) <= 1
=============================================================================
