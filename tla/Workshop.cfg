SPECIFICATION Spec
CONSTANTS
    Workers = {w1, w2}
    Orders = {o1, o2}
    Appointments = {a1}
    Technicians = {t1, t2}
    Dates = {d1, d2}
    Bays = {b1, b2}
    MaxRows = 3
    None = None
SYMMETRY MCSymmetry
CONSTRAINT Focused
INVARIANTS ConvertedOnce ScheduleIsKept TechnicianIsAssigned BayHoldsOneOrder
CHECK_DEADLOCK FALSE
