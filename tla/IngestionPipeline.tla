-------------------------- MODULE IngestionPipeline -------------------------
(***************************************************************************)
(* One ingestion job from the POST that schedules it to its completion:    *)
(* the API publishes to repo:fetch, the fetch worker to file:process, the  *)
(* process worker to file:store, and the store worker that counts the last *)
(* file completes the job.                                                 *)
(***************************************************************************)
EXTENDS FetchWorker, ProcessWorker, StoreWorker

\* The POST has committed the rows of a new repository and its job, and has
\* not yet published the message that will have them worked on.
Init ==
  /\ repoStatus = "queued" /\ jobStatus = "queued"
  /\ jobTotal = 0 /\ jobShown = NoCounts
  /\ progress = NoProgress
  /\ meta = [f \in Files |-> "none"]
  /\ vectors = {}
  /\ streams = [r \in Roles |-> EmptyStream]
  /\ up = Roles
  /\ ctx = {}
  /\ dead = {}
  /\ api = "committed"
  /\ faults = NoFault

ApiPublish ==
  /\ api = "committed"
  /\ api' = "answered"
  /\ streams' = Publish(streams, "fetch", Message(NoFile, 0))
  /\ UNCHANGED <<rows, progress, vectors, up, ctx, dead, faults>>

\* Redis refuses: the rollback has nothing left to undo, the answer is 500.
ApiFails ==
  /\ api = "committed"
  /\ Raises("api_publish")
  /\ api' = "answered"
  /\ UNCHANGED <<rows, progress, vectors, streams, up, ctx, dead>>

Step(h) == FetchStep(h) \/ ProcessStep(h) \/ StoreStep(h) \/ ErrorPath(h)

Error(h) == FetchFails(h) \/ ProcessFails(h) \/ StoreFails(h) \/ StoreAbandon(h)

Next ==
  \/ ApiPublish \/ ApiFails
  \/ \E r \in Roles : Consume(r) \/ Crash(r) \/ Restart(r)
  \/ \E h \in ctx : Step(h) \/ Error(h)

Spec == Init /\ [][Next]_vars

\* The API and the event loops of the three workers keep running.
Fairness ==
  /\ WF_vars(ApiPublish \/ ApiFails)
  /\ \A r \in Roles :
       /\ WF_vars(Consume(r))
       /\ WF_vars(\E h \in ctx : h.role = r /\ Step(h))

FairSpec == Spec /\ Fairness

-----------------------------------------------------------------------------

\* The types; one handler per entry, each of an entry that is delivered and,
\* until it acknowledges, pending.
TypeOK ==
  /\ repoStatus \in Statuses
  /\ jobStatus \in Statuses \ {"fetching"}
  /\ jobTotal \in 0 .. Cardinality(Files)
  /\ DOMAIN meta = Files
  /\ \A f \in Files : meta[f] \in {"none", "pending", "completed"}
  /\ vectors \subseteq Files
  /\ up \subseteq Roles
  /\ \A r \in Roles :
       /\ streams[r].next \in 1 .. (Len(streams[r].log) + 1)
       /\ streams[r].pel \subseteq 1 .. (streams[r].next - 1)
  /\ \A h \in ctx :
       /\ h.role \in up
       /\ h.id \in 1 .. (streams[h.role].next - 1)
       /\ h.id \notin streams[h.role].pel =>
            h.pc \in {"publish", "count", "check", "finish",
                      "error", "quota", "retry", "giveup", "close"}
       /\ \A g \in ctx : g.role = h.role /\ g.id = h.id => g = h

Live == \E r \in Roles : Pending(r) # {} \/ Of(r) # {}

Idle == api = "answered" /\ ~Live

Published == {streams.process.log[i].file : i \in DOMAIN streams.process.log}

\* The file is searchable: its vectors and its metadata are written.
Stored(f) == f \in vectors /\ meta[f] = "completed"

\* Whoever reads "completed" on the job or the repository finds every file
\* that was fetched in the vector store and in the metadata table.  Holds
\* under crashes of the process and the store worker, and under errors before
\* the counters, but not under both: a message republished and not yet
\* acknowledged is then handled, and counted, twice.
CompletedMeansStored ==
  jobStatus = "completed" \/ repoStatus = "completed" =>
    /\ Published # {}
    /\ \A f \in Published : Stored(f)

\* No file is counted twice: the counters follow one another down the
\* pipeline, and the last one never runs ahead of what is stored.
CountersOrdered ==
  /\ progress.stored <= Cardinality({f \in Files : Stored(f)})
  /\ progress.stored <= progress.processed
  /\ progress.processed <= progress.total

\* Once all is done, the row of a completed job shows every file as processed
\* and stored, whichever worker wrote the counters it had read last;
\* unless the fetch worker, committing last, left the repository "processing".
FinalCountersShown ==
  Idle /\ jobStatus = "completed" /\ repoStatus = "completed" =>
    jobShown.processed = jobTotal /\ jobShown.stored = jobTotal

\* A completed job stays completed: no straggler of the job reopens it.
CompletedIsFinal ==
  [][jobStatus = "completed" => jobStatus' = "completed"]_vars

\* As long as no process dies, no published file is lost on its way through
\* file:process and file:store: it is stored, given up, or still in hand.
NoFileLost ==
  \A f \in Published :
    \/ faults.crash > 0
    \/ Stored(f)
    \/ f \in Chunkless
    \/ \E d \in dead : d.msg.file = f
    \/ \E r \in {"process", "store"} :
         \/ \E i \in Pending(r) : streams[r].log[i].file = f
         \/ \E h \in Of(r) : File(h) = f

\* Without failures and without files to skip, the job completes for good.
JobCompletes == <>[](jobStatus = "completed" /\ Idle)

\* However often the calls of the handlers fail, the retries end: as long as
\* nobody crashes, no handler is left, every message is read, and all are
\* acknowledged but for one file:store message per call that raised before the
\* store worker had the rows of the message.
Drains ==
  <>[](/\ api = "answered" /\ ctx = {}
       /\ \A r \in Roles : Undelivered(r) = {}
       /\ streams.fetch.pel = {} /\ streams.process.pel = {}
       /\ Cardinality(streams.store.pel) <= faults.error)

-----------------------------------------------------------------------------
(* What comments and messages of the code say and the code does not do.    *)

\* "file skipped -- still counts as processed": when all is done without a
\* failure, as many files are processed as the job has.
SkippedCountsAsProcessed ==
  Idle /\ faults = NoFault => progress.processed >= progress.total

\* "Ingestion in Progress" is what the API answers for these statuses.
InProgressMeansWork ==
  repoStatus \in {"queued", "fetching", "processing"} => Live \/ api = "committed"

\* "Repo ingestion complete, exiting..." is what the process worker logs when
\* it finds the repository "completed": every published file is then stored.
RepoIngestionComplete ==
  repoStatus = "completed" => \A f \in Published : Stored(f)
=============================================================================
