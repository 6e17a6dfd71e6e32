CONSTANTS
    MaxLedger = 5
    EventsUpTo <- FiveLedgers
    START_LEDGER = 0
    LOOKBACK = 1
    PAGE_LIMIT = 2
    MaxFailures = 2
    MaxStops = 3
SPECIFICATION Spec
INVARIANTS MissedOnlyAtCut RepeatedOnlyByRetry
PROPERTIES Indexed
