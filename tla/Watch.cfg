SPECIFICATION FairSpec
CONSTANTS
    f1 = f1
    f2 = f2
    Names = {f1, f2}
    InitFiles = {f1}
    MaxRetries = 2
    MaxChanges = 3
    Nil = Nil
CHECK_DEADLOCK FALSE
INVARIANTS
    OneCommand
    KnownIsLoaded
PROPERTIES
    ModificationsAreLoaded
    RestartEnds
