SPECIFICATION Spec
CONSTANTS
    Absent = Absent
    Gone = Gone
    p1 = p1
    p2 = p2
    Products = {p1, p2}
    Orders = {o1}
    Workers = {w1}
    Skus = {"x"}
    NewRows <- OneSku
    Patches <- NoPatch
    Carts <- SameTwice
    MaxEdits = 2
    Grain = 10
    Err = 1
    MaxMoney = 2
INVARIANTS
    NeverMoreThanExists
