\* One file; GitHub, the embedding and the publications may raise again and
\* again, any other call once.
CONSTANTS
  Files = {f1}
  Chunkless = {}
  NoFile = nofile
  MaxRetries = 1
  BatchSize = 2
  CrashRoles = {}
  ErrorPoints = {"api_publish", "github", "blob", "publish_file", "embed", "progress", "publish_store", "store_load", "qdrant", "db_store"}
  Endless = {"github", "embed", "publish_store", "api_publish"}
  MaxFaults = 1
  FaultMixes = {{"crash", "error"}}
SPECIFICATION FairSpec
INVARIANTS TypeOK
PROPERTIES Drains
\* The job is done, given up, or its last message is abandoned.
CHECK_DEADLOCK FALSE
