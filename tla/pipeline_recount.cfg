\* One read of the progress hash fails.
CONSTANTS
  Files = {f1, f2}
  Chunkless = {}
  NoFile = nofile
  MaxRetries = 1
  BatchSize = 2
  CrashRoles = {}
  ErrorPoints = {"progress"}
  Endless = {}
  MaxFaults = 1
  FaultMixes = {{"crash", "error"}}
SPECIFICATION Spec
INVARIANTS RepoIngestionComplete
CHECK_DEADLOCK FALSE
