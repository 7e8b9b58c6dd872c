SPECIFICATION FairSpec
CONSTANTS
    None = None
    pen = pen
    cup = cup
    o1 = o1
    o2 = o2
    s1 = s1
    s2 = s2
    b1 = b1
    Workers = {w1, w2}
    Orders = {o1, o2}
    Txns = {s1, s2}
    Products = {pen, cup}
    OrderItems <- Crossed
    Taken <- TakenCrossed
    InitialStock <- Stock2
    StockInputs = {}
    Provider <- ProviderOf
    MaxFailures = 1
    Pollable = {}
    Redirectable = {s1}
    Declinable = {}
INVARIANTS
    SoldWithinSupply
PROPERTIES
    EveryRequestEnds
    CapturedIsSettled
