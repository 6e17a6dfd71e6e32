SPECIFICATION Spec
CONSTANTS
    StartLedger = 0
    MaxLedger = 5
    BATCH = 1
    WORKERS = 2
    Slots = {w1, w2}
    EventLedgers = {1}
    EVENT_PAGE = 1
    AuthStart <- NoAuths
    MaxReorgs = 1
    MaxFailures = 0
    MaxCrashes = 0
CHECK_DEADLOCK FALSE
SYMMETRY SlotSymmetry
INVARIANTS RetriesSafely
