\* Three crashes of the process and the store worker, at any await, and their
\* restarts; or three calls that raise, none of them after a counter was
\* incremented or while the files are published.
CONSTANTS
  Files = {f1, f2}
  Chunkless = {}
  NoFile = nofile
  MaxRetries = 1
  BatchSize = 2
  CrashRoles = {"process", "store"}
  ErrorPoints = {"api_publish", "github", "blob", "embed", "publish_store", "store_load", "qdrant", "db_store"}
  Endless = {}
  MaxFaults = 3
  FaultMixes = {{"crash"}, {"error"}}
SPECIFICATION Spec
SYMMETRY Interchangeable
INVARIANTS CompletedMeansStored NoFileLost
PROPERTIES CompletedIsFinal
\* The job is done or given up, a message is abandoned, or a worker stays down.
CHECK_DEADLOCK FALSE
