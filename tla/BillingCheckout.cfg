SPECIFICATION Spec
CONSTANTS
    Workers = {w1, w2}
    Operations = {o1, o2, o3}
    None = None
SYMMETRY MCSymmetry
INVARIANTS NoSecondSubscription CheckoutIsSettled
CHECK_DEADLOCK FALSE
