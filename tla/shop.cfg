SPECIFICATION ShopSpec
CONSTANTS
    Absent = Absent
    Gone = Gone
    p1 = p1
    p2 = p2
    Products = {p1, p2}
    Orders = {o1}
    Workers = {w1, w2}
    Txns = {t1, t2}
    Skus = {"x", "y"}
    NewRows <- TwoSkus
    Patches <- AnyPatch
    Carts <- TwoLines
    MaxEdits = 3
    Grain = 10
    Err = 1
    MaxMoney = 3
INVARIANTS
    TypeOK
    UniqueSku
    NoDanglingLine
    Quotable
    SubtotalsAreExact
    TotalIsExact
    ChargedAsQuoted
PROPERTIES
    ShopSettles
