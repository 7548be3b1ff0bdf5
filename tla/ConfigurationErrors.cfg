SPECIFICATION Spec
CONSTANTS
    Lexical <- LexicalNames
    Params = {"{id}", "{x}"}
    Reserved = {"request"}
    KnownKinds = {"a", "b", "c", "d"}
    DefaultPort = 8080
    Inputs <- SampleInputs
    EnvSettings = {"", "x"}
    RequestPaths <- Paths
CHECK_DEADLOCK FALSE
INVARIANT
    ErrorsAreReported
