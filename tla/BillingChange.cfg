SPECIFICATION Spec
CONSTANTS
    Workers = {w1, w2}
    Changes = {c1, c2}
    w1 = w1
    w2 = w2
    c1 = c1
    c2 = c2
    None = None
    Plans = {"starter", "pro"}
    MaxSeats = 1
CONSTRAINT Focused
INVARIANTS ClaimNamesOpenChange ExecutedOnceAsQuoted OutcomesAreTrue AcceptedIsSettled
CHECK_DEADLOCK FALSE
