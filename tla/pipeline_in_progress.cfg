\* Two files, nothing fails.
CONSTANTS
  Files = {f1, f2}
  Chunkless = {}
  NoFile = nofile
  MaxRetries = 1
  BatchSize = 2
  CrashRoles = {}
  ErrorPoints = {}
  Endless = {}
  MaxFaults = 0
  FaultMixes = {{"crash", "error"}}
SPECIFICATION Spec
INVARIANTS InProgressMeansWork
CHECK_DEADLOCK FALSE
