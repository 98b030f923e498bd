\* Two POSTs in flight, one worker's hands, one call that raises, one cleanup.
CONSTANTS
  Users = {u1, u2}
  Posts = {p1, p2}
  MaxRepos = 2
  MaxJobs = 2
  MaxRetries = 1
  Nobody = nobody
  Files = {f1}
  NoFile = none
  MaxBusy = 1
  MaxErrors = 1
  Cleaned = {1}
SYMMETRY Interchangeable
SPECIFICATION Spec
INVARIANTS TypeOK OneRepoPerUrl SingleIngestion QueuedHasTask AnswerHolds CleanupIsComplete
\* The jobs and the errors are used up.
CHECK_DEADLOCK FALSE
