SPECIFICATION PartsSpec
CONSTANTS
  Pipelines = {"b"}
  Versions = {1, 2}
  Threads = {"t1", "t2"}
  Kinds = {"start", "stop", "update", "serve", "deploy"}
  Confs <- OneConf
  Targets <- BaseTargets
  Default <- NoConf
  SaveFaults = {"fail", "race"}
  MaxBoots = 1
  Adapters = {"a1", "a2"}
  Models = {"x", "y"}
  Alias <- OwnAlias
  Managers = {1, 2}
  Pids = {1, 2, 3}
  SwapFaults = {"crash", "denied", "dud"}
  MaxCrashes = 1
INVARIANTS OneInstance SessionFaithful EngineServes
PROPERTIES ReconfigAppliedWhole ForeignSpared
