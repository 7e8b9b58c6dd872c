SPECIFICATION Spec
CONSTANTS
    None = None
    Workers = {w1, w2}
    Life = 9
    CacheTtl = 4
    Timeout = 1
    RedisDelay = 1
    Horizon = 14
INVARIANTS
    IInv
    NeverExpiredAtBkash
