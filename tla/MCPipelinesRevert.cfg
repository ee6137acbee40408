SPECIFICATION PartsSpec
CONSTANTS
  Pipelines = {"a", "b"}
  Versions = {1, 2}
  Threads = {"t1"}
  Kinds = {"deploy", "reconfig"}
  Confs <- OneConf
  Targets <- BaseTargets
  Default <- NoConf
  SaveFaults = {}
  MaxBoots = 0
  Adapters = {"a1", "a2"}
  Models = {"x", "y"}
  Alias <- OwnAlias
  Managers = {1, 2}
  Pids = {1, 2, 3}
  SwapFaults = {"crash", "denied", "dud"}
  MaxCrashes = 1
INVARIANT RevertKeepsDeployed
