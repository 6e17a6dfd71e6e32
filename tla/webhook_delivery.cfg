SPECIFICATION Spec
CONSTANTS
    Deliveries = {d1, d2}
    Replicas = {r1, r2}
    Slots = {t1, t2}
    MAX_ATTEMPTS = 2
    LEASE = 2
    BACKOFF = 1
    Timely = TRUE
    MaxPatches = 2
    MaxFaults = 2
CHECK_DEADLOCK FALSE
INVARIANTS ExclusiveDelivery AttemptsBounded
PROPERTIES ImplementsDelivery StrandedOnlyAfterMark CancelledStays LostIsNotSent
