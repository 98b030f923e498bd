SPECIFICATION Spec
CONSTANTS
  f1 = f1
  f2 = f2
  Files = {f1, f2}
  Sources <- MCSources
  EmbedBatch = 2
  UpsertBatch = 2
  MaxRetries = 1
  MaxFaults = 1
  Nobody = Nobody
INVARIANTS TypeOK CodeCovered PointsMatch CollectionReady TotalRight
PROPERTIES EveryFileEnds
CHECK_DEADLOCK FALSE
