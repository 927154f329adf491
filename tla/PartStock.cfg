SPECIFICATION StockSpec
CONSTANTS
    Workers = {w1, w2}
    Parts = {p1}
    PartLines = {l1}
    None = None
    InitialOnHand <- MCStock
    MaxAmount = 1
    MaxOnHand = 1
    MaxClaimed = 1
    MaxPulled = 2
    NewLines <- MCNewLines
    InitialAllocated <- MCOverReserved
SYMMETRY MCSymmetry
CONSTRAINT NothingStale
INVARIANTS LedgerAccountsForStock ReservationsBalance
PROPERTIES OnlySalesAndAdjustmentsTakeReserved InstalledWithinPulled
