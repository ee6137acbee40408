SPECIFICATION Spec
CONSTANTS
  a1 = a1
  a2 = a2
  x = x
  y = y
  Adapters = {a1, a2}
  Models = {x, y}
  Alias <- OwnAlias
  Managers = {1, 2}
  Pids = {1, 2, 3}
  Faults = {"overlap"}
  MaxCrashes = 0
INVARIANT NoLockCycle
