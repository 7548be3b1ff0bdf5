SPECIFICATION FairSpec
CONSTANTS
    r1 = r1
    Readers = {r1}
    Ttl = 3
    MaxStale = 3
    BackoffCap = 2
    MaxVersion = 1
    SlowFetch = FALSE
    NoData = NoData
    Unparsed = Unparsed
    Never = Never
CHECK_DEADLOCK FALSE
PROPERTY DroppedWhenDown
