SPECIFICATION Spec
CONSTANTS
    p1 = p1
    l1 = l1
    Workers = {w1, w2}
    Parts = {p1}
    None = None
    InitialOnHand <- MCOnHand
    InitialOnOrder <- MCOnOrder
    Orders = {o1, o2}
    Slots = {1, 2}
    Links = {l1}
    Required <- MCRequired
    LinkPart <- MCLinkPart
    EditInputs <- MCEdits
    LineInputs <- MCLines
    MaxQty = 2
    Returns = {r1}
    MaxReturned = 1
SYMMETRY MCSymmetry
CONSTRAINT NotOverlapped
INVARIANTS OnOrderIsOwed ShelfAccountsForDeliveries StatusFollowsReceipts ReceivedWithinOrdered RestockedOnce LinksFollowOrders
CHECK_DEADLOCK FALSE
