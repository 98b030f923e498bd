--------------------------- MODULE IngestionState ---------------------------
(***************************************************************************)
(* What the ingestion API and its three workers share while one job of one *)
(* repository is ingested: the rows in Postgres, the progress hash and the *)
(* three streams in Redis, the vectors in Qdrant; and the handlers that    *)
(* the worker processes hold in memory.  The worker modules FetchWorker,   *)
(* ProcessWorker and StoreWorker give the steps of the handlers, one per   *)
(* stretch of code between two awaits that others can observe.             *)
(*                                                                         *)
(* A file is its identity: its chunks, embeddings, summary and metadata    *)
(* travel with it and no property tells them apart.                        *)
(***************************************************************************)
EXTENDS Naturals, Sequences, FiniteSets

CONSTANTS
  Files,        \* the source files of the repository
  Chunkless,    \* those in which the parser finds nothing to index
  NoFile,       \* the file of a repo:fetch message
  MaxRetries,   \* MAX_RETRIES
  BatchSize,    \* count of XREADGROUP
  CrashRoles,   \* the workers that may crash
  ErrorPoints,  \* the calls that may raise
  Endless,      \* those that may raise any number of times
  MaxFaults,    \* bound: crashes, and errors of the other calls
  FaultMixes    \* the kinds of fault, "crash" and "error", that occur together

ASSUME FilesAssumption ==
  /\ IsFiniteSet(Files) /\ Files # {}
  /\ Chunkless \subseteq Files
  /\ NoFile \notin Files
ASSUME LimitsAssumption ==
  /\ MaxRetries \in Nat /\ BatchSize \in Nat \ {0} /\ MaxFaults \in Nat
  /\ Endless \subseteq ErrorPoints
  /\ FaultMixes \subseteq SUBSET {"crash", "error"}

VARIABLES
  repoStatus,   \* repos.status
  jobStatus,    \* jobs.status
  jobTotal,     \* jobs.total_files
  jobShown,     \* jobs.fetched_files, processed_files, stored_files
  progress,     \* the Redis hash ingestion:progress:<job>
  meta,         \* file -> its file_metadata row: "none", "pending", "completed"
  vectors,      \* files whose vectors are in the Qdrant collection
  streams,      \* role -> stream with its consumer group
  up,           \* the roles whose worker process runs
  ctx,          \* the handlers in memory
  dead,         \* messages on ingestion:failed
  api,          \* the POST that schedules the job
  faults        \* kind -> crashes and bounded errors so far

rows    == <<repoStatus, jobStatus, jobTotal, jobShown, meta>>
vars == <<rows, progress, vectors, streams, up, ctx, dead, api, faults>>

Roles == {"fetch", "process", "store"}
Statuses == {"queued", "fetching", "processing", "completed", "failed"}

NoCounts == [fetched |-> 0, processed |-> 0, stored |-> 0]
NoProgress == [total |-> 0, fetched |-> 0, processed |-> 0, stored |-> 0]
Counts(p) == [fetched |-> p.fetched, processed |-> p.processed, stored |-> p.stored]

NoFault == [crash |-> 0, error |-> 0]

Fault(kind) ==
  /\ faults.crash + faults.error < MaxFaults
  /\ \E mix \in FaultMixes :
       kind \in mix /\ \A k \in DOMAIN faults : faults[k] > 0 => k \in mix
  /\ faults' = [faults EXCEPT ![kind] = @ + 1]

\* The call named point raises.
Raises(point) ==
  /\ point \in ErrorPoints
  /\ IF point \in Endless THEN UNCHANGED faults ELSE Fault("error")

-----------------------------------------------------------------------------
(* Streams: the log is never trimmed, an id is a position in it.           *)

Message(f, n) == [file |-> f, retries |-> n]

EmptyStream == [log |-> <<>>, next |-> 1, pel |-> {}]

Publish(s, r, m) == [s EXCEPT ![r].log = Append(@, m)]
Acked(s, r, i)   == [s EXCEPT ![r].pel = @ \ {i}]

Undelivered(r) == {i \in DOMAIN streams[r].log : i >= streams[r].next}
Pending(r)     == Undelivered(r) \cup streams[r].pel

-----------------------------------------------------------------------------
(* Handlers.  repo and job are the statuses its session last loaded or     *)
(* wrote, todo the files the fetch worker still has to publish, snap the   *)
(* counters read for flush_to_db.  A field is reset after its last use.    *)

Unloaded == "unloaded"

NewHandler(r, i, again) ==
  [role |-> r, id |-> i, pc |-> "queued", reclaimed |-> again,
   repo |-> Unloaded, job |-> Unloaded,
   todo |-> {}, snap |-> NoCounts, flush |-> FALSE]

Of(r) == {h \in ctx : h.role = r}
Msg(h) == streams[h.role].log[h.id]
File(h) == Msg(h).file

Become(h, g) == ctx' = (ctx \ {h}) \cup {g}
Goto(h, l)   == Become(h, [h EXCEPT !.pc = l])
End(h)       == ctx' = ctx \ {h}

\* The session loads both rows.
Load(h, l) ==
  Become(h, [h EXCEPT !.pc = l, !.repo = repoStatus, !.job = jobStatus])

\* The unit of work writes an attribute only if it differs from what the
\* session loaded, whatever the row holds by now.
Written(row, loaded, new) == IF loaded = new THEN row ELSE new

\* update_file_and_repo_chunks adds the row of the file if there is none.
WithRow(f) == IF meta[f] = "none" THEN [meta EXCEPT ![f] = "pending"] ELSE meta

\* Mutant: the read is not recorded in the pending list.
ConsumeNoAck(r) ==
  LET ids == {i \in Undelivered(r) : i < streams[r].next + BatchSize}
  IN  /\ r \in up
      /\ Of(r) = {}
      /\ ids # {}
      /\ ctx' = ctx \cup {NewHandler(r, i, FALSE) : i \in ids}
      /\ streams' = [streams EXCEPT ![r].next = @ + Cardinality(ids)]
      /\ UNCHANGED <<rows, progress, vectors, up, dead, api, faults>>

\* XREADGROUP hands the next messages to a worker with nothing in hand.
Consume(r) ==
  LET ids == {i \in Undelivered(r) : i < streams[r].next + BatchSize}
  IN  /\ r \in up
      /\ Of(r) = {}
      /\ ids # {}
      /\ ctx' = ctx \cup {NewHandler(r, i, FALSE) : i \in ids}
      /\ streams' = [streams EXCEPT ![r].pel = @ \cup ids,
                                    ![r].next = @ + Cardinality(ids)]
      /\ UNCHANGED <<rows, progress, vectors, up, dead, api, faults>>

\* The fetch loop and the semaphore of the process worker admit one handler
\* at a time, in the order of the batch; the store worker admits all, and so
\* does the process worker in the batch it reclaims when it starts.
Turn(h) ==
  \/ h.role = "store"
  \/ h.role = "process" /\ h.reclaimed
  \/ \A g \in Of(h.role) : g.pc = "queued" /\ g.id >= h.id

\* A worker process dies with what it has in memory, and is started again:
\* it reclaims the pending entries that have been idle long enough.
Crash(r) ==
  /\ r \in CrashRoles \cap up
  /\ Fault("crash")
  /\ up' = up \ {r}
  /\ ctx' = ctx \ Of(r)
  /\ UNCHANGED <<rows, progress, vectors, streams, dead, api>>

Restart(r) ==
  /\ r \in Roles \ up
  /\ up' = up \cup {r}
  /\ \E idle \in SUBSET streams[r].pel :
       ctx' = ctx \cup {NewHandler(r, i, TRUE) : i \in idle}
  /\ UNCHANGED <<rows, progress, vectors, streams, dead, api, faults>>

-----------------------------------------------------------------------------
(* The except block, the same in the three workers: rollback, both rows    *)
(* "failed", then dead letter or retry, then ack.                          *)

\* A call raises; an error text with "quota" or "rate" in it gives up at once.
Fails(h, point) ==
  /\ Raises(point)
  /\ \E class \in {"error", "quota"} :
       Become(h, [NewHandler(h.role, h.id, h.reclaimed) EXCEPT !.pc = class])
  /\ UNCHANGED <<rows, progress, vectors, streams, up, dead, api>>

\* Rollback expires both objects, so the assignments always reach the rows.
MarkFailed(h) ==
  /\ h.pc \in {"error", "quota"}
  /\ repoStatus' = "failed"
  /\ jobStatus' = "failed"
  /\ Goto(h, IF h.pc = "error" THEN "retry" ELSE "giveup")
  /\ UNCHANGED <<jobTotal, jobShown, meta, progress, vectors, streams, up,
                 dead, api, faults>>

\* Mutant: the retry is acknowledged and never published.
RepublishLost(h) ==
  /\ h.pc = "retry"
  /\ Msg(h).retries < MaxRetries
  /\ Goto(h, "close")
  /\ UNCHANGED <<rows, progress, vectors, streams, up, dead, api, faults>>

Republish(h) ==
  /\ h.pc = "retry"
  /\ Msg(h).retries < MaxRetries
  /\ streams' = Publish(streams, h.role, Message(File(h), Msg(h).retries + 1))
  /\ Goto(h, "close")
  /\ UNCHANGED <<rows, progress, vectors, up, dead, api, faults>>

DeadLetter(h) ==
  /\ \/ h.pc = "giveup"
     \/ h.pc = "retry" /\ Msg(h).retries >= MaxRetries
  /\ dead' = dead \cup {[role |-> h.role, msg |-> Msg(h)]}
  /\ Goto(h, "close")
  /\ UNCHANGED <<rows, progress, vectors, streams, up, api, faults>>

\* Mutant: the handler ends without the ack.
CloseUnacked(h) ==
  /\ h.pc = "close"
  /\ End(h)
  /\ UNCHANGED <<rows, progress, vectors, streams, up, dead, api, faults>>

\* The ack that ends a handler.
Close(h) ==
  /\ h.pc = "close"
  /\ streams' = Acked(streams, h.role, h.id)
  /\ End(h)
  /\ UNCHANGED <<rows, progress, vectors, up, dead, api, faults>>

ErrorPath(h) == MarkFailed(h) \/ Republish(h) \/ DeadLetter(h) \/ Close(h)
=============================================================================
