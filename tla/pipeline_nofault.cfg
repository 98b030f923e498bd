\* Three files, batches of two, nothing fails; a client follows the job.
CONSTANTS
  Files = {f1, f2, f3}
  Chunkless = {}
  NoFile = nofile
  MaxRetries = 1
  BatchSize = 2
  CrashRoles = {}
  ErrorPoints = {}
  Endless = {}
  MaxFaults = 0
  FaultMixes = {{"crash", "error"}}
SPECIFICATION FollowSpec
INVARIANTS CountersOrdered FinalCountersShown LastUpdateWhole
PROPERTIES JobCompletes
\* The job is done and nothing is left to do.
CHECK_DEADLOCK FALSE
