SPECIFICATION ClockSpec
CONSTANTS
    Workers = {w1, w2}
    Employees = {p1}
    Entries = {e1, e2}
    MaxTime = 1
    MaxBreak = 1
    MaxCorrections = 2
    None = None
    Same = Same
SYMMETRY MCSymmetry
CONSTRAINT Focused
INVARIANTS OneOpenEntry EntryIsExplained
CHECK_DEADLOCK FALSE
