\* A file without chunks, nothing fails.
CONSTANTS
  Files = {f1, f2}
  Chunkless = {f2}
  NoFile = nofile
  MaxRetries = 1
  BatchSize = 2
  CrashRoles = {}
  ErrorPoints = {}
  Endless = {}
  MaxFaults = 0
  FaultMixes = {{"crash", "error"}}
SPECIFICATION Spec
INVARIANTS SkippedCountsAsProcessed
CHECK_DEADLOCK FALSE
