SPECIFICATION Spec
CONSTANTS
    None = None
    pen = pen
    cup = cup
    o1 = o1
    o2 = o2
    s1 = s1
    s2 = s2
    b1 = b1
    Workers = {w1}
    Orders = {o1}
    Txns = {s1}
    Products = {pen}
    OrderItems <- OneLine
    Taken <- TakenOneLine
    InitialStock <- Stock4
    StockInputs = {}
    Provider <- ProviderOf
    MaxFailures = 0
    Pollable = {s1}
    Redirectable = {}
    Declinable = {}
INVARIANTS
    AckedSuccessIsApplied
