SPECIFICATION SaleSpec
CONSTANTS
    p1 = p1
    p2 = p2
    Workers = {w1, w2}
    Parts = {p1, p2}
    Sales = {s1, s2, s3}
    None = None
    InitialOnHand <- MCStock
    UnitPrice <- MCPrice
    Discounts = {5}
    TaxRate = 7
    MaxCart = 1
SYMMETRY MCSymmetry
INVARIANTS NoOversell StockConserved RefundsWithinSale
CHECK_DEADLOCK FALSE
