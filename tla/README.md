# GitLense, specified in TLA+

GitLense indexes GitHub repositories for question answering. A user registers, logs in and posts a
repository URL; three worker processes, connected by Redis streams, list its files, parse and embed each
of them, and store vectors (Qdrant) and metadata (Postgres). These modules specify the ingestion service
and the sessions of the auth service: what the program does when its steps interleave, its calls fail and
its processes die.

Paths below are relative to `src/`; `ing/` stands for `ingestion-service/src/`.

## 1. The system

| Component | Code | State it keeps | Operations |
|---|---|---|---|
| Gateway | `nginx/nginx.conf` | none | routes, asks the auth service about every request |
| Auth service | `auth-service/src` | users, refresh tokens (Postgres) | register, login, refresh, logout, validate |
| Ingestion API | `ing/api/v2/endpoints/ingest.py` | rows of `repos`, `jobs`, `user_repos` | POST (schedule or report a job), GET (server-sent progress) |
| Streams | `ing/core/redis.py` | `repo:fetch`, `file:process`, `file:store`, `ingestion:failed`, one consumer group per worker stream | publish, consume, ack, dead_letter, reclaim_abandoned, republish_with_retry, lock |
| Fetch worker | `ing/workers/repo_fetch.py`, `ing/services/github_fetcher.py` | handlers in memory | one message at a time: list files, publish one message per file, ack |
| Process worker | `ing/workers/file_process.py`, `ing/ingestion/processor.py` | handlers in memory | a batch behind a semaphore of one: parse, embed, count, ack, publish |
| Store worker | `ing/workers/file_store.py`, `ing/ingestion/store.py` | handlers in memory | a batch at once: vectors, metadata, ack, count, complete the job |
| Progress | `ing/utils/progress.py` | Redis hash per job: total, fetched, processed, stored | init, increments, read, flush to the job row |
| File metadata | `ing/services/file_metadata.py` | rows of `file_metadata`, `repos.chunks_indexed` | upsert, update of the chunk totals |
| Vector store | `ing/services/vector.py` | one Qdrant collection per repository | create under a Redis lock, upsert in batches, delete |
| Parser | `ing/parser` (`ing/services/code_parser.py` is its unused predecessor) | none | chunks and metadata of a file |
| Embedding | `ing/services/embedder.py`, `ing/services/summarizer.py` | none | vectors of chunks in batches, a summary of the file |
| Cleanup | `ingestion-service/scripts/repo_cleanup.py` | none | deletes everything of a repository |
| RAG service | `rag-service/src` | rows of `queries` | embeds a question, searches, asks a model |

Interaction is by messages (the three streams), by shared rows (`repos.status`, `jobs.status`, written
by the API and all workers from their own sessions) and by the shared progress hash. Nothing spans
Redis, Postgres and Qdrant transactionally, so every handler is a sequence of effects others can see
between two awaits. Delivery is at least once: an entry stays in the pending list of its group until
it is acknowledged, and a worker that starts claims entries idle for five minutes.

What is hard here, and what makes each part correct:

* **Envelope of a handler** (try, commit, ack; except: fail rows, retry or dead-letter, ack). Crash,
  escaped exception or double delivery between any two of these calls: no task may leave the stream
  unseen, retries must be bounded and end, a task may be given up only after every attempt.
* **Pipeline**. Files of a job are in different workers at once, the last one counted completes the
  job: "completed" must mean stored, must be final, must be reached.
* **Shared rows**. Each session writes the attributes that differ from what it loaded, whatever the row
  holds by then.
* **API and cleanup**. Check-then-act over several awaits: one repository per URL, one ingestion of it at a time, no job
  without a message, and a cleanup after which nothing is left.
* **Followers**. The event stream joins a status from Postgres with counters from Redis: what it reports last must be
  whole.
* **Indexing**. Chunks must cover the code, vectors must belong to their chunks, batches may be cut short, the lock
  around the collection may expire, two transactions may sum the same rows.
* **Sessions**. A refresh token is rotated by delete and insert in two commits, and answers may be lost: one usable
  token per session, none after logout, and no session may cost another its token.

`PROJECT.json` lists each hazard with its line and the properties that watch it.

## 2. The modules

```
TaskQueue <-(INSTANCE)- StreamQueue --> StreamWorker      one stream, and what it promises
MCStreamWorker -> StreamQueue                             (TLC)
StreamQueueProofs -> StreamQueue, StreamWorkerProofs      (TLAPS)
StreamWorkerProofs -> StreamWorker                        (TLAPS)

JobFollower --------\                                     (TLC)
MCIngestionPipeline -> IngestionPipeline -> FetchWorker, ProcessWorker, StoreWorker -> IngestionState
IngestionPipelineProofs -> IngestionPipeline              (TLAPS)
IngestionCompletionProofs -> IngestionPipelineProofs, JobFollower (TLAPS)

MCIndexing -> Indexing -> CodeParser                      the files of one repository (TLC)
IndexingProofs -> Indexing                                (TLAPS)
MCRepoLifecycle -> RepoLifecycle                          the rows of one URL (TLC)
RepoLifecycleProofs -> RepoLifecycle                      (TLAPS)
RepoCleanupProofs -> RepoLifecycleProofs                  (TLAPS)
MCAuthSessions -> AuthSessions                            accounts and sessions (TLC)
AuthSessionsProofs -> AuthSessions                        (TLAPS)
```

An arrow reads EXTENDS. The five groups are views of one program at different grain: StreamWorker has the queue and
no data; the pipeline has one job in every detail of status, counters and acknowledgements; Indexing has the data of
its files and only the queue it needs; RepoLifecycle has many jobs and the messages of their files, without counters;
AuthSessions shares no state with them.

### StreamWorker: one stream, its group, its workers

The message-handling skeleton that the three workers share, for any number of workers, tasks and
retries. `Kind` selects the worker; the differences are the operators `HandsOverFirst` (the fetch worker
publishes and then acknowledges, the other two acknowledge first), `Gathers` (a batch under
`asyncio.gather`) and `Concurrent` (whether handlers of a batch overlap).

| Variable | Code |
|---|---|
| `log`, `delivered`, `pel`, `idle` | the stream, last-delivered-id, pending-entries list, entries past `min_idle_ms` |
| `mode`, `running` | what each process does (`down`, `reclaim`, `listen`) and the handlers in its memory, each at an await point (`stage`) |
| `rows`, `committed`, `handed`, `dead` | Postgres rows exist; work committed; handed to the next stage; dead letters |

Actions: `Publish`, `DeleteRows` (cleanup script), `Age` (clock); `StartWorker`, `StartWorkerUnclaimed`,
`Listen`, `Consume`, `Crash`; and per handler `StartHandler`, `RejectPayload`, `Load`, `LoadUnbound`, `HandOver`,
`Commit`, `Skip`, `Ack`, `Raise` (any call of the try block, classified by its error text), `DeadLetterQuota`,
`DeadLetterMax`, `Republish`, `Escape` (a call of the except block raises).
`XAUTOCLAIM` takes over idle entries whoever holds them, so two handlers may own one message.

Not represented: what the work is; a Redis command that takes effect while its caller sees an
error; entries removed by the cleanup script (`XDEL`): they are met as entries without rows.

### TaskQueue and StreamQueue: what a stream promises

`TaskQueue` is the abstract specification: a task that was submitted is owed until it is done, given up, or withdrawn;
it may be submitted again, finished twice, finished after it was settled. `StreamQueue` maps StreamWorker to it: a
task is owed while an entry of it is undelivered or pending, done when its rows are committed (for the fetch
worker also handed over), given up when it is in the dead-letter stream, withdrawn when its rows are gone.
`AtLeastOnce` is the refinement: no step of the code, crash or escaped exception settles a task otherwise.

### IngestionState, FetchWorker, ProcessWorker, StoreWorker, IngestionPipeline: one job

One repository, one job, one process per worker, as `docker-compose.yml` starts them. A
handler's `pc` names its next await; each action is the code between two points where another handler,
another worker or the API can observe or change something. `Written` is the SQLAlchemy unit of work
(an attribute is written if it differs from what the session loaded); `Turn` is the loop or semaphore
that admits handlers; `Skippable` the three reasons for which `process_file` returns None;
`MarkFailed`, `Republish`, `DeadLetter`, `Close` the except block.

| Variable | Code |
|---|---|
| `repoStatus`, `jobStatus`, `jobTotal`, `jobShown` | columns of `repos` and `jobs` |
| `progress` | the Redis hash of the job |
| `meta`, `vectors` | `file_metadata` rows, files in the Qdrant collection |
| `streams`, `dead` | three streams with their groups, dead letters |
| `up`, `ctx` | running processes, handlers in their memory |
| `api` | the POST that schedules the job: rows committed, then message published, then answered |
| `faults` | counters that bound crashes and errors |

`CrashRoles` and `ErrorPoints` say which processes may die and which calls may raise in a run, `FaultMixes` which of the
two kinds may occur in one behaviour. A raising call
without an effect of its own stands for any failure at that place; failures of the ack and of the
except block itself are in StreamWorker. `Restart` may reclaim any subset of the pending
entries, since idle time is not represented.

Merged into one step: the read of the counters in the comparison and the one inside `flush_to_db` (only
the displayed counters could tell); the refresh, chunk update and commit of the store handler (no
status is written between them by that handler); the batches of vectors of one file.

### JobFollower: the event stream of a job

A client of `stream_job_status` beside the whole pipeline. A poll is two steps, since the row and the hash are two reads
(and the second may fail, where "progress" is among the `ErrorPoints`, which it is in no run with a follower); `Final` are the statuses at which the generator
stops. A poll that does not stop changes nothing and is no step. `told` is what the update carries: the status, and the
percentage of `_calculate_progress` (`Percent`), a third of which are the files counted as fetched.

### CodeParser and Indexing: from source text to points

`CodeParser` computes `extract_chunks` over syntax trees whose nodes have a kind, a parent and a label: `WalkChunks`,
`GlobalChunks` (with the slice by byte offsets, `Sliced`), the chunk of a file as a whole, `Scope`, and the id of a
point. `Indexing` runs it for every file of a repository. `Process` is `process_file` (parse, embed), `Sum` and `Commit`
the two visible parts of `update_file_and_repo_chunks`, which both workers call; `Acquire` .. `Release` the lock around
`get_or_create_collection`, `Upsert` one batch of points, `Again` the except block of either worker (whose own calls do
not fail here, but in StreamWorker), `Unbound` the one that ends there: a store handler whose rows could not be read uses
`repo_url` before it has one, and its message stays pending (`file_store.py:93`). A handler's open
transaction is `summed[f]`; a crash forgets it. `CrashProcess` and `CrashStore` only take a worker down: what it had
read is pending for nobody ("unparsed", "unstored"), or "lost" if it was acknowledged and not handed over.
`RestartProcess` and `RestartStore` are the start of a worker, the only place where the code reclaims; it gets any part of
the pending messages, since those idle for less than five minutes are left for a later start, and nothing says that there
will be one. Messages the process worker reclaimed it runs at once, beside each other and before it reads new ones
(`MayProcess`). `SumOf`, the sum of the rows of the repository, is the number of pairs of a
file and one of its chunks. Trees are those a grammar can give (`IsTree`, `SourcesAssumption`): a node comes after the node around it. `Expire` lets the lock go at any time, which covers every
timing of its ten seconds.

### RepoLifecycle: the rows of one URL

| Variable | Code |
|---|---|
| `repos`, `jobs`, `links`, `queries` | rows of `repos` with the URL, `jobs`, `user_repos`, the repositories `queries` refers to |
| `stream`, `handlers` | tasks not yet read, tasks in the hands of a worker |
| `progress`, `vectors` | progress hashes, Qdrant collections |
| `posts` | POST requests in flight, each with what it has read (`seen`) |
| `cleaner` | the run of the cleanup script |

A POST is one action per await that others can observe: `FindNothing`, `FindRepo`, `Create`, `Linked`, `Link`, `Latest`,
`Reschedule`, `Publish`, `PublishFails`. A task is a message: its job, its repository, its stream (`queue`), its file and its
retries. A worker that takes one writes its status (`Begin`), finds no rows (`Drop`) or cannot read them (`Unread`); then come
`Empty`, `List` and `Fetched` of the fetch worker, `Skip`, `Process` and `HandOver` of the process worker, `Store` and `Stored`
of the store worker. `Raise` is the commit of "failed", which may be lost too, and a step before `Republish` or `DeadLetter`;
the other messages of the job stay where they are and are worked on. Two equal messages are one, and the counters are not kept:
`Stored` may or may not find its file the last, so a job may end with nobody having completed it. A handler that takes no
further step stands for one that died. The cleanup is one action per step of `clear_repo`.

### AuthSessions: accounts and refresh tokens

Requests in `Slots` interleave at every await, each with its own database session. A refresh token is the pair of
user and second it was minted in, because the code puts no id into it. `tokens` carries with each row the
session it descends from, which is history. `Save` stores without removing anything: the code's `db.delete` is a
coroutine that is never awaited. `Deliver` and `LoseAnswer` are the two fates of an answer.

`lost`, `early`, `doubled`, `touched`, `disturbed` (RepoLifecycle), `tangled`, `ended` (AuthSessions), `joined`, `broken`,
`overlapped` (Indexing) are history variables: no step depends on them, except that `touched` keeps the script to one run
per repository. Properties use them to name the circumstances under which the code really breaks its promise, so that everything else is checked without exception.

## 3. What TLC checks

| Run | Question | Bounds |
|---|---|---|
| `sw_fetch_faults` | `TypeOK`, `NoSilentLoss`, `HandOverNotLost`, `DeadLetterMeansExhausted`, `AtLeastOnce` for the fetch kind | 2 tasks, batch 2, 1 retry, 1 crash, 1 escaped exception, reclaim of 1 |
| `sw_store_faults` | `NoSilentLoss`, `RetriesBounded` for the store kind | 2 workers, 2 tasks of which one does not parse, 1 retry, 1 crash, 1 escape |
| `sw_process_live` | `EventuallyHandedOver` for the process kind | 2 tasks, 2 retries, fair, no crash |
| `pipeline_nofault` | `CountersOrdered`, `FinalCountersShown`, `LastUpdateWhole`, `JobCompletes` | 3 files, batches of 2, a follower, fair |
| `pipeline_faults` | `CompletedMeansStored`, `NoFileLost`, `CompletedIsFinal` | 2 files; 3 crashes of the process or store worker at any await, or 3 errors before the counters; 1 retry, unreadable blobs |
| `pipeline_drain` | `TypeOK`, `Drains` | 1 file, every call of a handler may raise: GitHub, embedding and publications again and again, any other once; fair |
| `auth` | `TypeOK`, `OneAccountEach`, `OneTokenPerSession`, `LogoutEndsSession`, `CookieBacked` | 2 requests in flight, 2 browsers, 2 names, 1 e-mail, 2 logins, tokens that live 2 of 3 seconds |
| `api` | `TypeOK`, `OneRepoPerUrl`, `SingleIngestion`, `QueuedHasTask`, `AnswerHolds`, `CleanupIsComplete` | 2 POSTs in flight, 2 users, 2 repositories and 2 jobs over time, 1 file, 1 message in a worker's hands, 1 retry, 1 call that raises, 1 cleanup |
| `indexing` | `TypeOK`, `CodeCovered`, `PointsMatch`, `CollectionReady`, `TotalRight`, `EveryFileEnds` | 2 files, 39 syntax trees, batches of 2, 1 retry, 1 fault (a call or a crash), any number of restarts, fair |
| `pipeline_skip` | violated: `SkippedCountsAsProcessed` | 2 files, one without chunks |
| `pipeline_in_progress` | violated: `InProgressMeansWork` | 2 files, nothing fails |
| `pipeline_recount` | violated: `RepoIngestionComplete` | 2 files, one failed read of the progress hash |

Why the bounds are enough to be interesting: two files let one overtake, outlive or be counted for the
other, and three let a batch of two leave one behind; one retry gives a first, a last and an exhausted
attempt; with two tasks and a crash or escape in a batch of two, one entry is pending while its neighbour
is done. One worker with a reclaim at restart and two workers that reclaim from each other are both covered.
In `auth` two browsers with one account meet tokens of the same second, of different seconds and expired ones. In `api` the
second repository is the one a POST creates after a cleanup, the second job the one scheduled after a failure; the fetch message
and the file's are two messages of one job, of which one can fail or be given up while the other is to be worked on. The theorems
cover any number of files, messages in hand and errors.
In `indexing` one
file takes every tree with two nodes and the special ones (methods of an enum, nested scopes, comments, non-ASCII text, equal code
twice, more chunks than a batch, nothing, a language without strategy), the other a fixed one that gives its handler chunks to
count and a collection to create.
`MaxPublish`, `MaxCrashes`, `MaxEscapes`, `MaxFaults`, `MaxTime`, `MaxLogins`, `Slots`, `Posts`, `MaxRepos`, `MaxJobs`, `MaxBusy`,
`MaxErrors` and `Cleaned` are the only bounds on behaviours; `Endless` names the calls that are
exempt from `MaxFaults`, so the retries in `pipeline_drain` end only because of `MAX_RETRIES`.
Deadlock is checked in `auth`, where requests never run out; everywhere else a system whose work is done, or whose workers are down, stops.
Files (and tasks, or workers) are symmetric in the safety runs.

**Fairness.** `FairSpec` assumes that the API answers and that each worker that is up keeps running its event
loop: `WF` on `Consume` and on the steps of the handlers of each worker. Inside a worker nothing is assumed
about which handler runs next. `FollowSpec` assumes the same of the system beside
the follower, and nothing of the follower, who may leave. In Indexing every
handler of a worker that is up runs (`WF` on `Handle(f)`; asyncio resumes each of them) and Redis expires a lock (`WF` on
`Expire`); waiting for the lock needs no more, because at most as many handlers as files compete and each holds it once per
attempt. Nothing makes a worker start again, for `docker-compose.yml` has no restart policy: `EveryFileEnds` says that no handler
hangs once both workers are up for good, and counts a message that is pending for nobody among the ends. The pipeline runs with
crashes check no liveness.

**What the violated properties show.**

* `SkippedCountsAsProcessed`: "file skipped — still counts as processed" says `ing/workers/file_process.py:61`. The
  handler acknowledges and returns without counting, so a repository with one file without chunks never reaches
  its total and its job stays "processing".
* `InProgressMeansWork`: "Ingestion in Progress" is the answer for a repository "processing" (`ing/api/v2/endpoints/ingest.py:101`).
  The fetch worker writes "processing" last, from an object it loaded before the listing; if the files were stored by then,
  a completed repository goes back to "processing" for good.
* `RepoIngestionComplete`: one failed read of the hash after `increment_stored` makes the handler retry a file it has counted;
  the job completes with another file missing, and of that repository `ing/ingestion/processor.py:29` says "Repo ingestion
  complete, exiting...".

**Where the positive results stop.** The exceptions that properties name are real behaviours:

* `SingleIngestion` excepts a repository whose POST saw an outdated status, or a "failed" that one dead-lettered or retried file
  had set while other messages of the job were in the streams (`early`): two jobs are then under way.
* `QueuedHasTask` excepts a job whose publication raised (it stays "queued" for good), one whose message was dead-lettered
  without its rows ever being read, and one whose streams a cleanup emptied before its rows could not be deleted. It speaks of
  queued jobs only: a job "processing" can lose its last message, as `SkippedCountsAsProcessed` shows.
* `Drains` leaves one `file:store` message pending for each call that raised before the store worker had its rows.
* `LastUpdateWhole` promises 67 percent of a completed job, not 100: the fetch worker counts after it has published.
* No property says that a client that follows a job is told an end, because there are too many ways in which nothing ends the
  job: it was never published, a file without chunks is not counted, a message is abandoned at `file_store.py:93`, a later file
  writes "processing" over the "failed" of a dead-lettered one, a file was counted twice.
* No property says what becomes of a payload that does not parse. The workers mean to acknowledge it (`file_process.py:26`,
  `file_store.py:33`), but the call lacks the argument `consumer` of `ing/core/redis.py:86` and raises: the entry stays pending,
  which is what `RejectPayload` does.
* `FinalCountersShown` excepts a repository that the fetch worker wrote to last.
* `CleanupIsComplete` excepts a cleanup beside a busy worker, which makes collection and hash again, and a failed step.
* `OneTokenPerSession`, `LogoutEndsSession` and `CookieBacked` except a session that is `tangled`: its requests overlapped, failed
  between delete and save, or lost an answer. A refresh that has verified its token before a logout saves a new one after it, and
  the session survives; a failed save leaves a cookie with no row behind it.
* `EveryFileEnds` counts messages that are pending for no handler as ended.
* `TotalRight` excepts overlapping transactions, after which the total is too small; `CollectionReady` a lock that expired under its
  holder and a call that failed between collection and index; `CodeCovered` nodes that name imports, enums or Python comments
  (comments of Java are in the global chunk), and it accepts text shifted by non-ASCII characters.

`CompletedMeansStored` fails when a crash follows an exception: a message
republished and not yet acknowledged is handled twice. It also fails after a retried `repo:fetch` message (the hash
is reset while old copies are in flight). `NoFileLost` does not survive a crash of the process worker between ack and
publication. `FaultMixes` therefore separates these faults, and `PROJECT.json` keeps each as a hazard.

## 4. What is proved

`StreamWorkerProofs` proves, with TLAPS and for every value of the constants (any finite or infinite sets of tasks and
workers, any limits satisfying `KindAssumption`, `MalformedAssumption`, `BoundsAssumption`):

| Theorem | States |
|---|---|
| `Invariance` | `Spec => []IInv`, the inductive invariant |
| `TypeCorrect` | `Spec => []TypeOK` |
| `NoLoss` | `Spec => []NoSilentLoss` |
| `HandOverSafe` | `HandsOverFirst` implies `Spec => []HandOverNotLost` |
| `GivenUpOnlyExhausted` | `Spec => []DeadLetterMeansExhausted` |
| `RetryLimit` | `Spec => []RetriesBounded` |

The argument. `NoSilentLoss` alone is not inductive: between `Republish` and `Ack` two pending entries carry
one task, and when several handlers own copies of it (redelivery, reclaim) it is not clear which of them still
accounts for it. `IInv` therefore says *which* pending entry a task rests on: `Owed(t)`, a pending entry of `t`
that was **not retried** (no entry of the stream has its task and one retry more). An acknowledgement then
falls into one of four cases, told apart by what a handler knows at its stage (`HandlerFacts`): it committed, it found
no rows, it dead-lettered, or it retried, and then the entry it removes is not one a task rests on. If a retry
is published of the entry a task rests on, the task rests on the new entry from then on: nothing has retried that one, because
by `ChainOK` (an entry with *n* retries comes after delivered entries with 0 .. *n*-1) a later attempt in the stream would
mean that the old entry had been retried already. This step is `OwedStable`. `ChainOK` also gives `DeadLetterMeansExhausted`.
Unparsable entries never get past the stage "queued" and stay out of all of this. For a worker that hands over first
the same invariant holds with `handed` in place of `committed`, hence `HandOverSafe`. Each kind of step has its lemma;
TLC checked `IInv` for the three kinds before the proof.

`StreamQueueProofs` proves the refinement, `Implements`: `Spec => AtLeastOnce`. `IInv` does the work. `Simulation` shows that a
step from a state with `IInv` maps to a step of `TaskQueue` or to a stutter; there is a lemma for each kind of step and one for what
it does to the mapped variables (`AppendView`, `ConsumeView`, `DoneView`, `AckView`, `GiveUpView`). Only `Ack` can let a task go, and
that it may is the content of `NoSilentLoss` and `HandOverNotLost` in the state after it (`AckView`): if no entry of
the task is left, then the task is committed (and handed over), dead-lettered or without rows, which is the guard of `Settle`.

`RepoLifecycleProofs` proves, for any sets of users, POSTs and files and any numbers of repositories, jobs, retries, errors and messages in hand
(`LifecycleAssumption`):

| Theorem | States |
|---|---|
| `LifecycleInvariant` | `Spec => []IInv` |
| `KeysHold` | `Spec => []TypeOK` |
| `UrlUnique` | `Spec => []OneRepoPerUrl` |
| `NoJobForgotten` | `Spec => []QueuedHasTask` |
| `LinkPromised` | `Spec => []AnswerHolds` |

`QueuedHasTask` looks at the message of a job, while the steps that could lose it are those of a worker, which goes by the
message it holds. The invariant has to tie the two: `Numbered` says that the number in a message or in a publishing POST stands
for one repository for ever, because a number is taken from the sequence before the message exists and is never given again,
even when the cleanup has deleted the job. `Started` says that a job with a file in the streams, or a handler past its first
commit, has left the queue; so the last message of a "queued" job is in its first stream or with a handler that could not read the
rows, and that handler publishes it again or gives it up, which is recorded (`WorkWaiting`). The cleanup removes the messages of
the one repository it has touched (`CleanWaiting`).

`AuthSessionsProofs` proves, for any browsers, requests in flight, names, logins, life of a token and clock (`AuthAssumption`):

| Theorem | States |
|---|---|
| `SessionInvariant` | `Spec => []IInv` |
| `TypesHold` | `Spec => []TypeOK` |
| `OneAccount` | `Spec => []OneAccountEach` |
| `OneToken` | `Spec => []OneTokenPerSession` |
| `LogoutFinal` | `Spec => []LogoutEndsSession` |
| `CookieGood` | `Spec => []CookieBacked` |

The three session properties speak of sessions that are not tangled, and are about the table and the cookies; what makes them true is in the requests between two
statements. `IInv` says of a session that is not tangled where it is: in one browser and with one request at a time (`Alone`), its
usable token is the one the browser will hold if the answer arrives as things stand (`Expected`, `Rotated`: none while the old
token is deleted and the new one not yet stored), a session that was logged out is waiting for its answer at most (`Over`), and no
other session has a token like one of its own (`Apart`), without which a deletion could take the token of another session of the
same user and second. Sessions yet to come are in nobody's hands (`Fresh`). A step concerns one session:
`Elsewhere` shows that it leaves every other session in order, `Own` and `Handed` that its own session stays in order, before the answer and
when the answer arrives. TLC checked this invariant on the instance of the run `auth` before the proof.

`RepoCleanupProofs` adds to `RepoLifecycleProofs`, under the same assumptions:

| Theorem | States |
|---|---|
| `OneJobAtATime` | `Spec => []SingleIngestion` |
| `NothingLeft` | `Spec => []CleanupIsComplete` |

`SingleIngestion` speaks of messages, but a second job comes from a POST that finds the status "failed". `Single` therefore
adds what such a POST may conclude: nothing is under way for a repository "failed", unless a worker marked it so too early. Every
step that adds messages adds them to a job that is under way (`WorkUnderWay`), and every one that writes "failed" leaves nothing
under way or records that it did (`WorkMarks`). `CleanupIsComplete` needs the script in the middle of its steps: `Swept` lists what it has removed by the
step it is at, `Quiet` says that nobody is left to make it again, and a cleanup that rolled back has the row still
(`Emptied`). `Dated` (a number is in use only after it was given out) and `Rowed` (a message whose repository exists has
its job) keep a repository that is created after the cleanup from being taken for the one that was removed.

`IndexingProofs` proves, for any finite set of files, any trees with `IsTree`, any batch sizes, retries and faults:

| Theorem | States |
|---|---|
| `TypesHold` | `Spec => []TypeOK` |
| `CodeIsCovered` | `Spec => []CodeCovered` |
| `PointsAreRight` | `Spec => []PointsMatch` |
| `IndexBeforePoints` | `Spec => []CollectionReady` |
| `TotalIsTheSum` | `Spec => []TotalRight` |

A crash or a restart only moves messages between waiting, pending and lost and forgets transactions (`CrashStep`,
`WaitingStep`), which is all the other lemmas need to know of it.
`PayloadOK` ties what a handler has in hand to its source. From there `CodeCovered` is a matter of the three kinds of
chunks (`InOrder` numbers exactly the nodes it is given, `RankUnique`, `OrderHas`), and `PointsMatch` one of batches:
two chunks of a file may have one id, and then the newest of a batch is written (`NewestIs`); the points of the first
`written[f]` chunks are there, and a handler that starts over only replaces them by equal ones (`PointsOK`). `SumsOK`
says how a sum that was read earlier can be out of date: only if another transaction came between, and then it is too
small, because rows only grow. `Locked` and `Ready` say that the collection is bare only while the holder of the lock
is about to index it.

`IngestionPipelineProofs` proves `TypesHold`, `Spec => []TypeOK`, for any finite set of files, any retries, batches,
crashes and errors (`FilesAssumption`, `LimitsAssumption`). Its invariant `TypeInv` also says which entry a handler
has, that no two have the same, and at which of its steps the entry is acknowledged (`EarlyPcs`, `LatePcs`). The steps
of the workers are dealt with once: `Stage` classifies them by what they do to streams and handlers (start, move on,
acknowledge, publish, retry, end), and later proofs reason about stages.

`IngestionCompletionProofs` proves what a job promises:

| Theorem | Under | States |
|---|---|---|
| `CompletedIsStored` | `CountedOnce` | `Spec => []CompletedMeansStored` |
| `CompletedStays` | `CountedOnce` | `Spec => CompletedIsFinal` |
| `NothingIsLost` | `CountedOnce` | `Spec => []NoFileLost` |
| `ToldIsWhole` | `CountedOnce` | `FollowSpec => []LastUpdateWhole` |
| `CountersInOrder` | `CountedOnce`, `NoRecount` | `Spec => []CountersOrdered` |
| `FinalCountersRight` | `CountedOnce`, `NoRecount` | `Spec => []FinalCountersShown` |

The hypotheses are about the faults of a behaviour, never about the number of files, retries or crashes. `CountedOnce`
leaves out three, and each does break the properties, as section 3 shows: a crash and an exception in one behaviour (a
message republished and not acknowledged is handled twice), an answer of Redis that fails once a file is counted (the
handler counts it again: the run `pipeline_recount`), and a failure or crash while the fetch worker publishes files
(they are published twice, and the counters start again). What remains are crashes of the process and the store worker
at any await, any number of them; and errors of GitHub, of single blobs, of the embedding, of Qdrant, of Postgres and
of the publications to `file:store`. The configuration of `pipeline_faults` satisfies it. `NoRecount` is needed for
the counter of processed files, which the process worker increments before it publishes: a crash or an error between
the two counts the file once more. `pipeline_nofault` satisfies both.

The argument. A counter is compared with a total, and nothing in Redis says which files it has counted. The invariant
says it: a file that was published is in the hands of at most one message (its *token*, `OneToken`). The token is an
entry not yet read, or pending without a handler, or with a handler that may still do something for the file (`Open`).
It passes from `file:process` to `file:store` and from an attempt to its retry in the step that publishes the one and
closes the other. What a store handler counts is a file with vectors and metadata whose token ends in that step, so
`stored` is never more than the number of such files (`CountsOK`, `Delivered`). `FetchOK` says that the total is the
number of files published, or to be published, from the first publication on. A handler that finds `stored >= total`
then finds every file delivered and no token left (`Complete`), and nothing of the job can move any more: hence
`DoneOK`, `CompletedIsFinal`, and the client's update: the hash then has
every file as processed and as stored, which is two thirds of the percentage and a little more (`CompleteCounts`, `TwoThirds`).
A process handler that skips a file
only has its acknowledgement to do; where a worker may die first, the message is read again, and there the token lasts
until the ack (`OpenIn`, `NoErrors`). `NoFileLost` has its own invariant, `LostOK`. The counter of processed files is
held between two sets: the files past the counter in some handler or in `file:store` (`Passed`), and those that no
message has before it (`Counted`); in a run without `NoRecount` the sets drift apart. `SeesOK` says what status the
fetch handler has loaded, so that its last write always makes the repository "processing" and never leaves it
"completed" unseen. TLC finds these invariants true on two files, with two crashes of workers or two errors, and with
none.

Only model-checked: the four properties that need fairness (`EventuallyHandedOver`, `JobCompletes`, `Drains`,
`EveryFileEnds`; liveness and ENABLED are out of the prover's reach). Every safety invariant and
action property of the passing runs is a theorem.

## 5. Not modelled

* Gateway, database pools, rate limiter, configuration, migrations: no state that the components above share.
* `ing/services/code_parser.py`: nothing imports it. The parsers' names, line numbers, imports and skeleton text.
* Summaries, and what the language models answer: calls that return or raise. The tenacity retries inside one call.
* The expiry of the progress hash after a day.
* The idle time of five minutes as a clock: it is `Age` in StreamWorker and any subset at `Restart` in the pipeline.
* Effects of a Redis or Postgres command whose answer is lost.
* Points and metadata that an earlier ingestion left of a file whose content has changed since: one ingestion is
  indexed in one behaviour.
* Access tokens, apart from their refusal: they are never stored.
* Entries removed from a stream (`XDEL`) while their group still has them pending: RepoLifecycle lets the worker go on with them,
  StreamWorker meets them as entries without rows.

## 6. Plan

Done: the envelope with its proofs and its refinement, the pipeline of one job with its follower, indexing, the life of the rows of a
URL with the cleanup, sessions; every safety property of the passing runs as a theorem.

1. Proofs: an abstract specification of the way of one file through the pipeline (listed, embedded, stored, counted, given up) and the
   refinement of it by `IngestionPipeline` under `CountedOnce`; the invariants of `IngestionCompletionProofs` are what it needs.
2. A second job of a repository in the pipeline, with points and metadata of an earlier content.
3. The expiry of the progress hash.
