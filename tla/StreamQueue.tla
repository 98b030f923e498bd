---------------------------- MODULE StreamQueue -----------------------------
(***************************************************************************)
(* StreamWorker as a TaskQueue: a task is owed as long as an entry of it   *)
(* is undelivered or pending.  The work of the fetch worker is done when   *)
(* its files are handed over as well as its rows committed.                *)
(***************************************************************************)
EXTENDS StreamWorker

Submitted == {log[i].task : i \in DOMAIN log}
Owing     == {t \in Tasks : PendingTask(t)}
Done      == IF HandsOverFirst THEN committed \cap handed ELSE committed
Given     == {d.task : d \in dead}
Withdrawn == Tasks \ rows

Queue == INSTANCE TaskQueue WITH
  submitted <- Submitted, owed <- Owing, done <- Done, given <- Given,
  withdrawn <- Withdrawn

\* The stream, its consumer group and its workers are a queue that serves each
\* task at least once: whatever is retried, reclaimed, delivered twice or lost
\* with a process, a task leaves the stream only when its work is done, when it
\* is dead-lettered, or when its rows are gone.
AtLeastOnce == Queue!Spec
=============================================================================
