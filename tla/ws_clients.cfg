SPECIFICATION Spec
CONSTANTS
    Conns = {c1, c2, c3}
    IPs = {a, b, d}
    MaxGlobal = 2
    MaxPerIp = 1
    FeedAttached = FALSE
CHECK_DEADLOCK FALSE
INVARIANTS WithinLimits OnlySilentReaped
PROPERTIES ZombiesLeave
