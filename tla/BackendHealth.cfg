SPECIFICATION FairSpec
CONSTANTS
    q1 = q1
    q2 = q2
    q3 = q3
    Requests = {q1, q2, q3}
    UseUnhealthy = {q3}
    Threshold = 2
    NoRequest = NoRequest
CHECK_DEADLOCK FALSE
INVARIANTS
    ThresholdRespected
    HealthIsCurrent
    OriginIsPinned
PROPERTIES
    HealthSettles
