SPECIFICATION StockSpec
CONSTANTS
    Workers = {w1}
    Parts = {p1}
    PartLines = {l1}
    None = None
    InitialOnHand <- MCStock
    MaxAmount = 1
    MaxOnHand = 1
    MaxClaimed = 0
    MaxPulled = 2
    NewLines <- MCPlainLines
    InitialAllocated <- MCNothingReserved
PROPERTIES AllocatesOnlyWhatIsRequired
