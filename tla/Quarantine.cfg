SPECIFICATION FairSpec
CONSTANTS
    Upstreams = {u1}
    Threshold = 2
    Initial = 1
    MaxLen = 2
    LengthOf <- DurationTable
    Lease = 2
    Probers = {k1, k2}
    MaxCount = 3
    MaxReq = 1
    MaxRestarts = 1
INVARIANTS LeasesApart
PROPERTIES BackoffGrows LiveUpstreamReturns
CHECK_DEADLOCK FALSE
