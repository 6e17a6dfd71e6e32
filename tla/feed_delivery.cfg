SPECIFICATION Spec
CONSTANTS
    Messages = {m1, m2, m3}
    BatchSize = 3
    Sizes = {1, 2}
    WAIT = 1
    MaxChanges = 1
    MaxFaults = 1
CHECK_DEADLOCK FALSE
PROPERTIES ImplementsBatches EventuallySettled
