SPECIFICATION PeriodicSpec
CONSTANTS
    Deliveries = {d1}
    Replicas = {r1, r2}
    Slots = {t1}
    MAX_ATTEMPTS = 2
    LEASE = 2
    BACKOFF = 1
    Timely = TRUE
    MaxPatches = 0
    MaxFaults = 1
CHECK_DEADLOCK FALSE
PROPERTIES ExpiredLeaseReclaimed
