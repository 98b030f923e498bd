\* Two store workers, an unparsable payload, one crash, one escape.
CONSTANTS
  Tasks = {a, b}
  Malformed = {b}
  Workers = {w1, w2}
  Kind = "store"
  MaxRetries = 1
  BatchSize = 1
  ReclaimCount = 1
  MaxPublish = 1
  MaxCrashes = 1
  MaxEscapes = 1
SPECIFICATION Spec
SYMMETRY WorkersInterchangeable
INVARIANTS NoSilentLoss RetriesBounded
CHECK_DEADLOCK FALSE
