SPECIFICATION Spec
CONSTANTS
    None = None
    pen = pen
    cup = cup
    o1 = o1
    o2 = o2
    s1 = s1
    s2 = s2
    b1 = b1
    Workers = {w1}
    Orders = {o1, o2}
    Txns = {s1, s2, b1}
    Products = {pen, cup}
    OrderItems <- Crossed
    Taken <- TakenCrossed
    InitialStock <- Stock2
    StockInputs = {0, 2}
    Provider <- ProviderOf
    MaxFailures = 1
    Pollable = {s1, b1}
    Redirectable = {s1, s2, b1}
    Declinable = {s1}
PROPERTIES
    OnceSettlement
