SPECIFICATION Spec
CONSTANTS
    None = None
    pen = pen
    cup = cup
    o1 = o1
    o2 = o2
    s1 = s1
    s2 = s2
    b1 = b1
    Workers = {w1, w2}
    Orders = {o1, o2}
    Txns = {s1, b1}
    Products = {pen, cup}
    OrderItems <- Mixed
    Taken <- TakenMixed
    InitialStock <- Stock2
    StockInputs = {1}
    Provider <- ProviderOf
    MaxFailures = 1
    Pollable = {s1, b1}
    Redirectable = {s1, b1}
    Declinable = {}
INVARIANTS
    TypeOK
    IInv
    NoOversell
    SuccessIsBacked
    NoOrphanCapture
    UndeniedIsApplied
PROPERTIES
    AtomicSettlement
