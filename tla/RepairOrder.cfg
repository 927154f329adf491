SPECIFICATION Spec
CONSTANTS
    Workers = {w1, w2}
    LaborLines = {l1}
    PartLines = {p1}
    None = None
    InitialStatuses = {"ESTIMATE"}
    PartStatuses = {"NEEDS_REVIEW", "ALLOCATED", "PULLED"}
    MaxReleases = 2
SYMMETRY MCSymmetry
INVARIANTS TypeOK PaidPerRelease
PROPERTIES OnlyStaleWritesLeaveTheTable
