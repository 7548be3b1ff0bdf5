SPECIFICATION FairSpec
CONSTANTS
    SortedNames <- ThreeNames
    Unknown = {}
    NoItem = NoItem
    Outcomes = {"ok", "error", "plain"}
CHECK_DEADLOCK FALSE
INVARIANTS
    OnlyCyclesAreRefused
    EveryBlockIsAwaited
    ExecutedSequentially
    DependentsFailAsSequence
PROPERTY EndpointAnswers
