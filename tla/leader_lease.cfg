SPECIFICATION Spec
CONSTANTS
    Instances = {i1, i2}
    Calls = {c1, c2}
    None = None
    LEASE = 2
    RENEW = 1
    POLL = 2
    MaxErrors = 1
    MaxDepartures = 1
    MaxStalls = 2
CHECK_DEADLOCK FALSE
INVARIANTS FailoverBounded LossReportedUnlessStalled
PROPERTIES ImplementsLease LeaseEndsByOwner LeaderAgain
