\* The process worker without crashes and uncaught failures: liveness.
CONSTANTS
  Tasks = {a, b}
  Malformed = {}
  Workers = {w1}
  Kind = "process"
  MaxRetries = 2
  BatchSize = 2
  ReclaimCount = 1
  MaxPublish = 1
  MaxCrashes = 0
  MaxEscapes = 0
SPECIFICATION FairSpec
PROPERTIES EventuallyHandedOver
CHECK_DEADLOCK FALSE
