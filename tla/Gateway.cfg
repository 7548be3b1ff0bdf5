SPECIFICATION Spec
CONSTANTS
    Lexical <- LexicalNames
    Params = {"{id}"}
    Reserved = {"request"}
    DefaultPort = 8080
    Credentials <- Secrets
    Tokens <- AllTokens
    Assertions <- AllAssertions
    Colons <- WithColon
    Sha256 <- Hashes
    Scenarios <- AllScenarios
CHECK_DEADLOCK FALSE
INVARIANTS
    OnlyAuthorized
    PermissionsAreGranted
    PrivateStaysPrivate
    CorsIsOurs
    HopsStayHops
    EncodingMatchesBody
    HandlerIsClosest
    TimeoutsAreReported
PROPERTY
    RequestsEnd
