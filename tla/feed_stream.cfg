CONSTANTS
    MaxMessages = 3
    PAGE = 1
    MaxFaults = 1
    MaxStops = 1
    MaxDrops = 2
SPECIFICATION Spec
INVARIANTS NumbersUnique ResumesComplete
PROPERTY Received
CHECK_DEADLOCK FALSE
