SPECIFICATION PartsSpec
CONSTANTS
  Requests = {"q1", "q2"}
  MaxStarts = 2
  Slots = 1
  Origins = {"listed"}
  Routes = {"options", "get", "post", "unknown"}
  MaxPieces = 5
  Bodies <- MCBodies
  Shapes = {"sse", "json"}
  Adapters = {"a1", "a2"}
  Models = {"x", "y"}
  Alias <- OwnAlias
  Managers = {1, 2}
  Pids = {1, 2, 3}
  SwapFaults = {}
  MaxCrashes = 0
  LlamaMode = "serve"
  WhisperMode = "transcribe"
  CanFail = TRUE
INVARIANTS TypeOK StartedListens OneRecordPerStream RecordIsRight NoEngineLeft
PROPERTIES RequestsServed ThreadsEnd
CHECK_DEADLOCK FALSE
