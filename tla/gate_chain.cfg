CONSTANTS
    Requests = {r1, r2}
    LIMIT = 1
    TTL = 2
    BURST = 1
    RATE = 2
    MaxAborts = 1
    MaxErrors = 1
SPECIFICATION Spec
INVARIANTS Bounded NoSpuriousRefusal FallbackBounded
PROPERTIES LeakGoesWhenQuiet Answered
