SPECIFICATION Spec
CONSTANTS
    pa = pa
    pb = pb
    d1 = d1
    d2 = d2
    d3 = d3
    u1 = u1
    f1 = f1
    Pipelines = {pa, pb}
    Files = {f1}
    FileOf <- SharedFile
    Deploys = {d1, d2, d3}
    DeployOf <- ThreeDeploys
    Uninstalls = {}
    UninstallOf <- NoUninstall
    Forced = {}
    Pushed = {}
    Targets = {}
    SendsLength = TRUE
    MaxRestarts = 1
INVARIANTS RenameFindsPartial PublishedWhole WorkersReachable NoStuckRow AnsweredOnce
PROPERTIES CancelWins
CHECK_DEADLOCK FALSE
