SPECIFICATION Spec
CONSTANTS
    StartLedger = 0
    MaxLedger = 3
    BATCH = 2
    WORKERS = 1
    Slots = {w1}
    EventLedgers = {1, 2}
    EVENT_PAGE = 1
    AuthStart <- AuthInNextLedger
    MaxReorgs = 2
    MaxFailures = 1
    MaxCrashes = 1
CHECK_DEADLOCK FALSE
INVARIANTS AdjacentLinked HolesAreRecorded AuthsBacked
PROPERTIES Converges
