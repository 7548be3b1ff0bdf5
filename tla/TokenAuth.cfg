SPECIFICATION FairSpec
CONSTANTS
    q1 = q1
    q2 = q2
    Requests = {q1, q2}
    WithBody = {q2}
    Keys = {oauth2}
    StorageKey = oauth2
    oauth2 = oauth2
    MaxExpiresIn = 3
    Retries = 1
    ExpiresIn = {0, 2}
    MaxTokens = 4
    MaxTime = 1
    Nil = Nil
CHECK_DEADLOCK FALSE
INVARIANTS
    OneTokenRequest
    StoredIsNewest
    AttemptsAreNewer
    DeniedAfterRetries
PROPERTY Returns
