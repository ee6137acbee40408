SPECIFICATION PartsSpec
CONSTANTS
  Releases = {1, 2, 3}
  Size <- MCSize
  MaxFaults = 4
  Proc = {"p1", "p2"}
  StoreDevices <- MCStoreDevices
  Published <- MCPublished
  MaxVersion = 2
  StoreAttempts = 2
  StoreFaults = 2
  LockFails = FALSE
  DeletionFails = FALSE
  NoOne = "no one"
  Engines = {"llama", "whisper", "swap"}
  PluginDevices <- MCPluginDevices
  MaxTag = 3
  PluginAttempts = 2
  PluginFaults = 2
  MaxPins = 2
  Downgrades = FALSE
INVARIANTS ResumeExact EngineIntact InstalledIsWhole
PROPERTIES CompletesUnlessOversized OneInstallThatEnds
CHECK_DEADLOCK FALSE
