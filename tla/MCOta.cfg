SPECIFICATION PartsSpec
CONSTANTS
    Versions = {1, 2, 3, 4}
    SelfCheckOk = {1, 2, 3}
    Stable = {1}
    AllowYank = FALSE
    MaxLosses = 2
    YankVersions = {1, 2, 3}
    YankSelfCheckOk = {1, 2, 3}
    YankStable = {1}
    YankLosses = 1
INVARIANTS LiveVersionUsable RollbackTargetUsable RunningVersionKept YankedVersionsThere
PROPERTIES ImplementsSlots ExitIsAnswered
