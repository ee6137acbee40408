SPECIFICATION Spec
CONSTANTS
    pa = pa
    pb = pb
    d1 = d1
    d2 = d2
    d3 = d3
    u1 = u1
    f1 = f1
    Pipelines = {pa, pb}
    Files = {f1}
    FileOf <- SharedFile
    Deploys = {d3}
    DeployOf <- OneDeploy
    Uninstalls = {u1}
    UninstallOf <- OneUninstall
    Forced = {u1}
    Pushed = {pa, pb}
    Targets <- ListsSecond
    SendsLength = TRUE
    MaxRestarts = 1
INVARIANTS UnlinkSparesConfigured
CHECK_DEADLOCK FALSE
