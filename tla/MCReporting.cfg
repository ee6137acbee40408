SPECIFICATION PartsSpec
CONSTANTS
  Models = {"a", "b"}
  MaxDeploys = 2
  MaxFaults = 3
  Faults = {}
  FaultyFaults = {"kill", "disk", "read"}
  MaxFaulty = 4
  MaxCmds = 3
  Deploys = {2}
  Sources = {"http"}
  Window = 3
  PollFaults = 3
  MaxBoots = 0
  Threads = {"t1", "t2"}
  MaxRecords = 2
  QueueMax = 2
  MaxRetries = 2
  MaxHandlers = 1
  MaxLate = 1
  Kinds = {"http", "zenoh"}
INVARIANTS NoForgottenReport InOrder
PROPERTIES QueueSurvivesFaults CommandsEnd ReportsSettled
CHECK_DEADLOCK FALSE
