SPECIFICATION FairSpec
CONSTANTS
    r1 = r1
    r2 = r2
    Readers = {r1, r2}
    Ttl = 3
    MaxStale = 1
    BackoffCap = 2
    MaxVersion = 2
    SlowFetch = TRUE
    NoData = NoData
    Unparsed = Unparsed
    Never = Never
CHECK_DEADLOCK FALSE
INVARIANTS
    RefreshIsDue
PROPERTIES
    ReadersAreAnswered
    Recovers
