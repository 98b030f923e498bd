---------------------------- MODULE StreamWorker ----------------------------
(***************************************************************************)
(* One Redis stream, its consumer group and the workers that read it, as   *)
(* the three workers of the ingestion service share them: the consumer     *)
(* loop, the acknowledgement, the retry and dead-letter tail of a handler, *)
(* the reclaim pass at start-up.  Kind selects which worker the module     *)
(* stands for:                                                             *)
(*   "fetch"    workers/repo_fetch.py    one message at a time, hands over *)
(*                                       (publishes) and then acknowledges *)
(*   "process"  workers/file_process.py  batch gathered behind a semaphore *)
(*                                       of one, acknowledges, then hands  *)
(*                                       over (publishes to file:store)    *)
(*   "store"    workers/file_store.py    batch gathered, acknowledges, then*)
(*                                       hands over (counts the file)      *)
(*                                                                         *)
(* A stream entry is its task and its retry count; its id is its position. *)
(* The entry is never removed (XADD without trimming), so the stream is a  *)
(* sequence and the group a cursor with a pending-entries list.            *)
(*                                                                         *)
(* Left out: what the work is (see IngestionPipeline), a Redis command     *)
(* that takes effect although its caller sees an error, and the XDEL of    *)
(* the cleanup script (its entries are met as entries without rows).       *)
(***************************************************************************)
EXTENDS Naturals, Sequences, FiniteSets

CONSTANTS
  Tasks,             \* the identities of the payloads
  Malformed,         \* those the pydantic model of the worker rejects
  Workers,           \* the processes of the consumer group
  Kind,              \* "fetch", "process" or "store"
  MaxRetries,        \* MAX_RETRIES
  BatchSize,         \* count of XREADGROUP
  ReclaimCount,      \* count of XAUTOCLAIM
  MaxPublish,        \* bound: first publications of one task
  MaxCrashes,        \* bound: crashes of worker processes
  MaxEscapes         \* bound: failures the handler does not catch

ASSUME KindAssumption == Kind \in {"fetch", "process", "store"}
ASSUME MalformedAssumption ==
  Malformed \subseteq Tasks /\ (Kind = "fetch" => Malformed = {})
ASSUME BoundsAssumption ==
  /\ MaxRetries \in Nat
  /\ BatchSize \in Nat \ {0}
  /\ ReclaimCount \in Nat \ {0}
  /\ MaxPublish \in Nat /\ MaxCrashes \in Nat /\ MaxEscapes \in Nat

VARIABLES
  log,         \* the stream
  delivered,   \* last-delivered-id of the group
  pel,         \* ids delivered and not acknowledged
  idle,        \* those of pel idle for at least min_idle_ms
  mode,        \* worker -> "down", "reclaim" (start-up pass) or "listen"
  running,     \* the handlers in the memory of the workers
  rows,        \* tasks whose repo and job rows exist
  committed,   \* tasks whose work was committed to Postgres
  handed,      \* tasks handed over downstream, or with nothing to hand over
  dead,        \* entries of the ingestion:failed stream
  crashes,     \* crashes so far
  escapes      \* failures no handler caught so far

stream  == <<log, delivered, pel, idle>>
effects == <<rows, committed, handed, dead>>
faults  == <<crashes, escapes>>
vars == <<stream, mode, running, effects, faults>>

Entry == [task : Tasks, retries : Nat]
Reasons == {"quota_hit", "Max retries reached"}
DeadLetters == [task : Tasks, retries : Nat, reason : Reasons]

\* The await points of a handler.  "quota" and "other" are the except block,
\* by the class of the error text; "closing" is the ack that ends it.
Stages == {"queued", "loading", "missing", "working", "handed", "committed",
           "acked", "finishing", "quota", "other", "closing"}

Handlers == [worker : Workers, id : Nat, stage : Stages]

Task(h) == log[h.id].task
Retries(h) == log[h.id].retries

-----------------------------------------------------------------------------
(* What distinguishes the three workers.                                   *)

\* Mutant: every worker acknowledges first.
AcksFirst == FALSE

\* The fetch worker publishes its files before it acknowledges; the other
\* two acknowledge first.
HandsOverFirst == Kind = "fetch"

\* asyncio.gather(return_exceptions=True) around the handlers of a batch.
Gathers == Kind \in {"process", "store"}

\* The semaphore of the process worker does not cover the reclaimed batch.
Concurrent(w) == Gathers /\ (Kind = "store" \/ mode[w] = "reclaim")

Own(w) == {h \in running : h.worker = w}

\* May the event loop of the worker start handler h now?
Turn(h) ==
  \/ Concurrent(h.worker)
  \/ \A g \in Own(h.worker) : g.stage = "queued" /\ g.id >= h.id

Move(h, s) == running' = (running \ {h}) \cup {[h EXCEPT !.stage = s]}

-----------------------------------------------------------------------------

Init ==
  /\ log = <<>> /\ delivered = 0 /\ pel = {} /\ idle = {}
  /\ mode = [w \in Workers |-> "down"]
  /\ running = {}
  /\ rows = Tasks
  /\ committed = {} /\ handed = {} /\ dead = {}
  /\ crashes = 0 /\ escapes = 0

-----------------------------------------------------------------------------
(* The producer, the operator and the clock.                               *)

Publications(t) ==
  Cardinality({i \in DOMAIN log : log[i] = [task |-> t, retries |-> 0]})

Publish(t) ==
  /\ Publications(t) < MaxPublish
  /\ log' = Append(log, [task |-> t, retries |-> 0])
  /\ UNCHANGED <<delivered, pel, idle, mode, running, effects, faults>>

\* The cleanup script deletes the rows of a repository.
DeleteRows(t) ==
  /\ t \in rows
  /\ rows' = rows \ {t}
  /\ UNCHANGED <<stream, mode, running, committed, handed, dead, faults>>

\* min_idle_ms passes for a pending entry.
Age(i) ==
  /\ i \in pel \ idle
  /\ idle' = idle \cup {i}
  /\ UNCHANGED <<log, delivered, pel, mode, running, effects, faults>>

-----------------------------------------------------------------------------
(* The worker process.                                                     *)

FirstN(S, n) == {x \in S : Cardinality({y \in S : y < x}) < n}

Batch(w, ids) == {[worker |-> w, id |-> i, stage |-> "queued"] : i \in ids}

\* start_worker up to its loop: XAUTOCLAIM takes over idle entries, whoever
\* holds them; an error of that command is swallowed and claims nothing.
StartWorker(w) ==
  /\ mode[w] = "down"
  /\ mode' = [mode EXCEPT ![w] = "reclaim"]
  /\ LET claimed == FirstN(idle, ReclaimCount)
     IN  /\ running' = running \cup Batch(w, claimed)
         /\ idle' = idle \ claimed
  /\ UNCHANGED <<log, delivered, pel, effects, faults>>

StartWorkerUnclaimed(w) ==
  /\ mode[w] = "down"
  /\ escapes < MaxEscapes
  /\ escapes' = escapes + 1
  /\ mode' = [mode EXCEPT ![w] = "listen"]
  /\ UNCHANGED <<stream, running, effects, crashes>>

Listen(w) ==
  /\ mode[w] = "reclaim"
  /\ Own(w) = {}
  /\ mode' = [mode EXCEPT ![w] = "listen"]
  /\ UNCHANGED <<stream, running, effects, faults>>

\* Mutant: the read is not recorded in the pending list.
ConsumeNoAck(w) ==
  /\ mode[w] = "listen"
  /\ Own(w) = {}
  /\ LET ids == FirstN((delivered + 1) .. Len(log), BatchSize)
     IN  /\ ids # {}
         /\ running' = running \cup Batch(w, ids)
         /\ delivered' \in ids
         /\ \A i \in ids : i <= delivered'
  /\ UNCHANGED <<log, pel, idle, mode, effects, faults>>

\* XREADGROUP with ">": the next entries nobody was given.
Consume(w) ==
  /\ mode[w] = "listen"
  /\ Own(w) = {}
  /\ LET ids == FirstN((delivered + 1) .. Len(log), BatchSize)
     IN  /\ ids # {}
         /\ running' = running \cup Batch(w, ids)
         /\ pel' = pel \cup ids
         /\ delivered' \in ids
         /\ \A i \in ids : i <= delivered'
  /\ UNCHANGED <<log, idle, mode, effects, faults>>

\* Mutant: the entries of a dead process leave the idle list with it.
CrashForgets(w) ==
  /\ mode[w] # "down"
  /\ crashes < MaxCrashes
  /\ crashes' = crashes + 1
  /\ mode' = [mode EXCEPT ![w] = "down"]
  /\ running' = running \ Own(w)
  /\ pel' = pel \ {h.id : h \in Own(w)}
  /\ UNCHANGED <<log, delivered, idle, effects, escapes>>

Crash(w) ==
  /\ mode[w] # "down"
  /\ crashes < MaxCrashes
  /\ crashes' = crashes + 1
  /\ mode' = [mode EXCEPT ![w] = "down"]
  /\ running' = running \ Own(w)
  /\ UNCHANGED <<stream, effects, escapes>>

-----------------------------------------------------------------------------
(* The handler of one message.                                             *)

StartHandler(h) ==
  /\ h.stage = "queued"
  /\ Turn(h)
  /\ Task(h) \notin Malformed
  /\ Move(h, "loading")
  /\ UNCHANGED <<stream, mode, effects, faults>>

\* The payload does not parse: ack is called without the consumer name, the
\* TypeError leaves the handler and gather swallows it.
RejectPayload(h) ==
  /\ h.stage = "queued"
  /\ Turn(h)
  /\ Task(h) \in Malformed
  /\ running' = running \ {h}
  /\ UNCHANGED <<stream, mode, effects, faults>>

Load(h) ==
  /\ h.stage = "loading"
  /\ Move(h, IF Task(h) \in rows THEN "working" ELSE "missing")
  /\ UNCHANGED <<stream, mode, effects, faults>>

\* repo_url is bound after the rows are loaded, and the except block of the
\* store worker reads it: an earlier error leaves the handler unhandled.
LoadUnbound(h) ==
  /\ Kind = "store"
  /\ h.stage \in {"loading", "missing"}
  /\ escapes < MaxEscapes
  /\ escapes' = escapes + 1
  /\ running' = running \ {h}
  /\ UNCHANGED <<stream, mode, effects, crashes>>

\* The downstream publication, or the count of a stored file.
HandOver(h) ==
  /\ handed' = handed \cup {Task(h)}
  /\ IF HandsOverFirst
     THEN h.stage = "working" /\ Move(h, "handed")
     ELSE h.stage = "acked" /\ running' = running \ {h}
  /\ UNCHANGED <<stream, mode, rows, committed, dead, faults>>

Commit(h) ==
  /\ h.stage = IF HandsOverFirst THEN "handed" ELSE "working"
  /\ committed' = committed \cup {Task(h)}
  /\ Move(h, "committed")
  /\ UNCHANGED <<stream, mode, rows, handed, dead, faults>>

\* No files in the repository, or a file with nothing new to index: the
\* handler commits and has nothing to hand over.
Skip(h) ==
  /\ Kind # "store"
  /\ h.stage = "working"
  /\ committed' = committed \cup {Task(h)}
  /\ handed' = handed \cup {Task(h)}
  /\ Move(h, "finishing")
  /\ UNCHANGED <<stream, mode, rows, dead, faults>>

\* Mutant: the ack of the except block is issued before the republication.
AckStagesEager == {"missing", "finishing", "committed", "closing", "other"}

AckStages == {"missing", "finishing", "committed", "closing"}

Ack(h) ==
  /\ h.stage \in AckStages
  /\ pel' = pel \ {h.id}
  /\ idle' = idle \ {h.id}
  /\ IF h.stage = "committed" /\ ~HandsOverFirst
     THEN Move(h, "acked")
     ELSE running' = running \ {h}
  /\ UNCHANGED <<log, delivered, mode, effects, faults>>

TryStages == {"working", "handed", "committed", "acked", "finishing"}
               \cup (IF Kind = "store" THEN {} ELSE {"loading", "missing"})

\* Any call of the try block raises; the text of the error decides the path.
Raise(h, c) ==
  /\ h.stage \in TryStages
  /\ Move(h, c)
  /\ UNCHANGED <<stream, mode, effects, faults>>

\* Mutant: the last attempt counts as one too many.
ExhaustedEarly(h) == Retries(h) + 1 >= MaxRetries

\* Mutant: the limit itself is still retried.
ExhaustedLate(h) == Retries(h) > MaxRetries

Exhausted(h) == Retries(h) >= MaxRetries

DeadLetter(h, why) ==
  /\ dead' = dead \cup {[task |-> Task(h), retries |-> Retries(h), reason |-> why]}
  /\ Move(h, "closing")
  /\ UNCHANGED <<stream, mode, rows, committed, handed, faults>>

DeadLetterQuota(h) == h.stage = "quota" /\ DeadLetter(h, "quota_hit")

DeadLetterMax(h) ==
  h.stage = "other" /\ Exhausted(h) /\ DeadLetter(h, "Max retries reached")

\* Mutant: the retry is acknowledged and never published.
RepublishDropped(h) ==
  /\ h.stage = "other"
  /\ ~Exhausted(h)
  /\ Move(h, "closing")
  /\ UNCHANGED <<stream, mode, effects, faults>>

Republish(h) ==
  /\ h.stage = "other"
  /\ ~Exhausted(h)
  /\ log' = Append(log, [task |-> Task(h), retries |-> Retries(h) + 1])
  /\ Move(h, "closing")
  /\ UNCHANGED <<delivered, pel, idle, mode, effects, faults>>

\* A call of the except block raises: gather swallows it, the fetch loop
\* drops the rest of its batch, its start-up pass ends the process.
Escape(h) ==
  /\ h.stage \in {"quota", "other", "closing"}
  /\ escapes < MaxEscapes
  /\ escapes' = escapes + 1
  /\ running' = IF Gathers THEN running \ {h} ELSE running \ Own(h.worker)
  /\ mode' = IF ~Gathers /\ mode[h.worker] = "reclaim"
             THEN [mode EXCEPT ![h.worker] = "down"] ELSE mode
  /\ UNCHANGED <<stream, effects, crashes>>

-----------------------------------------------------------------------------

\* What the event loop does unless something fails.
Progress(h) ==
  \/ StartHandler(h) \/ RejectPayload(h) \/ Load(h)
  \/ HandOver(h) \/ Commit(h) \/ Ack(h)
  \/ DeadLetterQuota(h) \/ DeadLetterMax(h) \/ Republish(h)

Handle(h) ==
  \/ Progress(h)
  \/ Skip(h)
  \/ LoadUnbound(h)
  \/ \E c \in {"quota", "other"} : Raise(h, c)
  \/ Escape(h)

Worker(w) ==
  \/ StartWorker(w) \/ StartWorkerUnclaimed(w)
  \/ Listen(w) \/ Consume(w) \/ Crash(w)

Next ==
  \/ \E t \in Tasks : Publish(t) \/ DeleteRows(t)
  \/ \E i \in pel : Age(i)
  \/ \E w \in Workers : Worker(w)
  \/ \E h \in running : Handle(h)

Spec == Init /\ [][Next]_vars

\* docker compose starts every worker, and a worker that is up keeps running
\* its event loop.  There is no restart policy: no liveness run has a crash.
Fairness ==
  \A w \in Workers :
    /\ WF_vars(StartWorker(w))
    /\ WF_vars(Listen(w))
    /\ WF_vars(Consume(w))
    /\ WF_vars(\E h \in running : h.worker = w /\ Progress(h))

FairSpec == Spec /\ Fairness

-----------------------------------------------------------------------------
(* Properties.                                                             *)

\* The types, that the group never delivered what is not in the stream,
\* that only pending entries are idle and only delivered ones pending.
TypeOK ==
  /\ log \in Seq(Entry)
  /\ delivered \in 0 .. Len(log)
  /\ pel \subseteq 1 .. delivered
  /\ idle \subseteq pel
  /\ mode \in [Workers -> {"down", "reclaim", "listen"}]
  /\ running \subseteq Handlers
  /\ \A h \in running : h.id \in 1 .. delivered
  /\ rows \subseteq Tasks
  /\ committed \subseteq Tasks
  /\ handed \subseteq Tasks
  /\ dead \subseteq DeadLetters
  /\ crashes \in 0 .. MaxCrashes
  /\ escapes \in 0 .. MaxEscapes

Pending(i) == i \in DOMAIN log /\ (i > delivered \/ i \in pel)

PendingTask(t) == \E i \in DOMAIN log : Pending(i) /\ log[i].task = t

DeadLettered(t) == \E d \in dead : d.task = t

\* A published task whose rows still exist is committed, dead-lettered, or
\* has an entry the group still owes somebody: whatever raises, escapes or
\* crashes between the steps of republish and ack, no task disappears.
NoSilentLoss ==
  \A i \in DOMAIN log :
    LET t == log[i].task
    IN  t \in rows => t \in committed \/ DeadLettered(t) \/ PendingTask(t)

\* The comment of the fetch worker, "ACK ONLY AFTER EVERYTHING SUCCEEDS": a
\* task that left the stream was handed over downstream, or dead-lettered.
\* True of a worker that hands over before it acknowledges.
HandOverNotLost ==
  \A i \in DOMAIN log :
    LET t == log[i].task
    IN  t \in rows => t \in handed \/ DeadLettered(t) \/ PendingTask(t)

\* A dead letter "Max retries reached" comes after every attempt from 0 to
\* MaxRetries was published and delivered.
DeadLetterMeansExhausted ==
  \A d \in dead : d.reason = "Max retries reached" =>
    \A k \in 0 .. MaxRetries : \E i \in 1 .. delivered :
      log[i] = [task |-> d.task, retries |-> k]

\* The retry count never passes MaxRetries, whatever is delivered twice.
RetriesBounded == \A i \in DOMAIN log : log[i].retries <= MaxRetries

\* Without crashes and without failures of the error path, every published
\* task that parses is handed over or dead-lettered in the end (or its rows
\* are deleted), however often its handler raises.
EventuallyHandedOver ==
  \A t \in Tasks \ Malformed :
    PendingTask(t) ~> (t \in handed \/ DeadLettered(t) \/ t \notin rows)
=============================================================================
