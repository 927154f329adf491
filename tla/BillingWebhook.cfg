SPECIFICATION FairSpec
CONSTANTS
    Workers = {w1, w2}
    Events = {e1, e2}
    None = None
    MaxVersion = 2
    MaxFaults = 1
    MaxCrashes = 1
    MaxDelays = 1
    MaxConfirms = 1
INVARIANTS TypeOK AcknowledgedIsMirrored
PROPERTIES ImplementsMirror ClaimHoldsItsLease EveryEventIsAcknowledged
CHECK_DEADLOCK FALSE
