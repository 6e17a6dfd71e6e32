SPECIFICATION Spec
CONSTANTS
    StartLedger = 0
    MaxLedger = 4
    BATCH = 1
    WORKERS = 2
    Slots = {w1, w2, w3}
    EventLedgers = {1, 2}
    EVENT_PAGE = 1
    AuthStart <- NoAuths
    MaxReorgs = 0
    MaxFailures = 1
    MaxCrashes = 0
CHECK_DEADLOCK FALSE
INVARIANTS Complete ResolvedGapsStored
PROPERTIES ImplementsIndex
