SPECIFICATION PartsSpec
CONSTANTS
  Procs = {"p1"}
  Jobs <- AllJobs
  MaxStarts = 4
  MaxAttempts = 2
  MaxClock = 2
  MaxFaults = 2
  Faults = {"kill", "wipe", "disk"}
  Late = FALSE
  ClockBack = FALSE
  MaxConnects = 5
  MaxTroubles = 7
INVARIANTS SavedKeyWorks EnrolledStays RouterWhole
PROPERTIES OnlineAtLast
CHECK_DEADLOCK FALSE
