\* The fetch worker: hands over, then acknowledges; one crash, one escape.
CONSTANTS
  Tasks = {a, b}
  Malformed = {}
  Workers = {w1}
  Kind = "fetch"
  MaxRetries = 1
  BatchSize = 2
  ReclaimCount = 1
  MaxPublish = 1
  MaxCrashes = 1
  MaxEscapes = 1
SPECIFICATION Spec
SYMMETRY Interchangeable
INVARIANTS TypeOK NoSilentLoss HandOverNotLost DeadLetterMeansExhausted
PROPERTIES AtLeastOnce
\* The producer stops publishing and the worker then waits for ever.
CHECK_DEADLOCK FALSE
