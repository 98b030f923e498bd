--------------------------- MODULE RepoLifecycle ---------------------------
(* The life of the rows of one repository URL: POST requests create it,    *)
(* link users to it and schedule its jobs, the workers move the jobs, the  *)
(* RAG service keeps queries on it, and the cleanup script removes it all  *)
(* again.  They interleave at every await, each with a database session of *)
(* its own.                                                                *)
(*                                                                         *)
(* A task is a message of one of the three streams: the one that starts a  *)
(* job, or one of its files.  Two equal messages are one here, and the     *)
(* counters are not kept: a handler may find its file the last or not.     *)
(* IngestionPipeline has both.                                             *)
EXTENDS Naturals, FiniteSets, Functions

CONSTANTS
  Users,
  Posts,        \* bound: the POST requests that may be in flight
  MaxRepos,     \* bound: rows of the URL over time
  MaxJobs,      \* bound: jobs over time
  MaxRetries,   \* MAX_RETRIES
  Files,        \* the files a repository may have
  NoFile,       \* the file of the message that starts a job
  MaxBusy,      \* bound: the messages in the hands of the workers
  MaxErrors,    \* bound: calls that raise
  Cleaned,      \* bound: the repositories the cleanup may be run for
  Nobody        \* the user of a slot without a request

ASSUME LifecycleAssumption ==
  /\ MaxRepos \in Nat \ {0} /\ MaxJobs \in Nat \ {0} /\ MaxRetries \in Nat
  /\ MaxBusy \in Nat /\ MaxErrors \in Nat
  /\ Nobody \notin Users /\ NoFile \notin Files

VARIABLES
  repos,      \* id -> status: the rows of repos with the URL
  jobs,       \* id -> [repo, status]: the rows of jobs
  links,      \* the rows of user_repos
  queries,    \* the repositories the table queries refers to
  stream,     \* the tasks in the streams that no worker has read
  progress,   \* [job, repo] of the progress hashes
  vectors,    \* the repositories with a Qdrant collection
  posts,      \* slot -> the POST it serves
  handlers,   \* the tasks in the hands of a worker
  cleaner,    \* the run of the cleanup script
  nextRepo, nextJob,
  errors,     \* calls that raised
  lost,       \* jobs never published, or dead-lettered unseen: history
  early,      \* repositories marked "failed" with work under way: history
  doubled,    \* those a POST scheduled again too early or too late: history
  touched,    \* repositories a cleanup began on: history
  disturbed   \* those a worker, a POST or an error met during it: history

rows == <<repos, jobs, links, queries>>
work == <<stream, progress, vectors, handlers>>
ids == <<nextRepo, nextJob>>
history == <<errors, lost, early, doubled, touched, disturbed>>
vars == <<rows, work, posts, cleaner, ids, history>>

RepoIds == 1 .. MaxRepos
JobIds  == 1 .. MaxJobs
\* Mutant: a repository that is being fetched is not yet at work.
ActiveLate == {"queued", "processing", "storing", "completed"}

\* The statuses that make a POST answer with the latest job.
Active == {"queued", "fetching", "processing", "storing", "completed"}

Free == [pc   |-> "free", user |-> Nobody, repo |-> 0,
         seen |-> "none", job  |-> 0]
Off  == [pc |-> "off", repo |-> 0]

Put(f, x, v) == [y \in DOMAIN f \cup {x} |-> IF y = x THEN v ELSE f[y]]
JobsOf(id)   == {j \in DOMAIN jobs : jobs[j].repo = id}
Messages     == stream \cup {h.task : h \in handlers}

\* The jobs of a repository that a message to be worked on, or a POST about
\* to publish it, keeps going.
UnderWay(id) ==
  {t.job : t \in {u \in stream : u.repo = id}} \cup
  {h.task.job : h \in {g \in handlers : g.task.repo = id /\ g.pc # "giveup"}} \cup
  {posts[p].job : p \in {q \in Posts : posts[q].pc = "publish" /\ posts[q].repo = id}}

\* A call raises.
Fault == errors < MaxErrors /\ errors' = errors + 1

\* An overlap with the cleanup of the repository.
Disturbs(id) ==
  disturbed' = disturbed \cup (IF cleaner.repo = id THEN {id} ELSE {})

-----------------------------------------------------------------------------
(* ingest_repo.                                                            *)

At(p, pc) == posts[p].pc = pc
Goto(p, pc) == posts' = [posts EXCEPT ![p].pc = pc]
\* The answer, 200 or 500, frees the slot.
Answer(p) == posts' = [posts EXCEPT ![p] = Free]

\* The first look at the table, for a request of user u.
FindNothing(p, u) ==
  /\ At(p, "free")
  /\ DOMAIN repos = {}
  /\ posts' = [posts EXCEPT ![p] = [Free EXCEPT !.pc = "create", !.user = u]]
  /\ UNCHANGED <<rows, work, cleaner, ids, history>>

FindRepo(p, u) ==
  /\ At(p, "free")
  /\ \E id \in DOMAIN repos :
       /\ posts' = [posts EXCEPT ![p] =
                    [Free EXCEPT !.pc = "link", !.user = u, !.repo = id,
                                 !.seen = repos[id]]]
       /\ Disturbs(id)
  /\ UNCHANGED <<rows, work, cleaner, ids, errors, lost, early, doubled, touched>>

\* The repository, the link and the job of one commit.
CreatedAs(p, status) ==
  /\ nextRepo <= MaxRepos /\ nextJob <= MaxJobs
  /\ repos' = Put(repos, nextRepo, status)
  /\ jobs' = Put(jobs, nextJob, [repo |-> nextRepo, status |-> "queued"])
  /\ links' = links \cup {[user |-> posts[p].user, repo |-> nextRepo]}
  /\ nextRepo' = nextRepo + 1
  /\ nextJob' = nextJob + 1
  /\ posts' = [posts EXCEPT ![p].pc = "publish", ![p].repo = nextRepo,
                            ![p].job = nextJob]

\* Mutant: the repository keeps the default status of the table.
CreatedPlaced(p) == CreatedAs(p, "placed")

Created(p) == CreatedAs(p, "queued")

\* Mutant: the URL is not unique.
CreateAnyway(p) ==
  /\ At(p, "create")
  /\ Created(p)
  /\ UNCHANGED <<queries, work, cleaner, history>>

\* The unique constraint on repo_url turns the loser of a race into a 500.
Create(p) ==
  /\ At(p, "create")
  /\ \/ DOMAIN repos = {} /\ Created(p)
     \/ /\ DOMAIN repos # {}
        /\ Answer(p)
        /\ UNCHANGED <<repos, jobs, links, ids>>
  /\ UNCHANGED <<queries, work, cleaner, history>>

\* Is the user linked to the repository?
Linked(p) ==
  /\ At(p, "link")
  /\ Goto(p, IF [user |-> posts[p].user, repo |-> posts[p].repo] \in links
             THEN "decide" ELSE "insert")
  /\ UNCHANGED <<rows, work, cleaner, ids, history>>

\* Mutant: the link is added to the session and never committed.
LinkForgotten(p) ==
  /\ At(p, "insert")
  /\ Goto(p, "decide")
  /\ UNCHANGED <<rows, work, cleaner, ids, history>>

\* Mutant: user_repos has no foreign key.
LinkUnchecked(p) ==
  LET link == [user |-> posts[p].user, repo |-> posts[p].repo]
  IN  /\ At(p, "insert")
      /\ links' = links \cup {link}
      /\ Goto(p, "decide")
      /\ UNCHANGED <<repos, jobs, queries, work, cleaner, ids, history>>

\* A constraint fails when another POST has linked the user meanwhile, or the
\* cleanup has deleted the repository.
Link(p) ==
  LET link == [user |-> posts[p].user, repo |-> posts[p].repo]
  IN  /\ At(p, "insert")
      /\ IF link \notin links /\ link.repo \in DOMAIN repos
         THEN links' = links \cup {link} /\ Goto(p, "decide")
         ELSE Answer(p) /\ UNCHANGED links
      /\ UNCHANGED <<repos, jobs, queries, work, cleaner, ids, history>>

\* 200 if the repository has one job; with none or several scalar_one_or_none
\* raises, and the answer is 500.  Neither changes anything.
Latest(p) ==
  /\ At(p, "decide")
  /\ posts[p].seen \in Active
  /\ Answer(p)
  /\ UNCHANGED <<rows, work, cleaner, ids, history>>

\* The status it saw is no longer the one of the row, or was set while a
\* message of the repository was still to be worked on.
Overlapping(p) ==
  repos[posts[p].repo] # posts[p].seen \/ posts[p].repo \in early

\* A new job for a repository seen "failed".
Reschedule(p) ==
  LET id == posts[p].repo
  IN  /\ At(p, "decide")
      /\ posts[p].seen \notin Active
      /\ \/ /\ id \in DOMAIN repos
            /\ nextJob <= MaxJobs
            /\ repos' = [repos EXCEPT ![id] = "queued"]
            /\ jobs' = Put(jobs, nextJob, [repo |-> id, status |-> "queued"])
            /\ nextJob' = nextJob + 1
            /\ posts' = [posts EXCEPT ![p].pc = "publish", ![p].seen = "none",
                                        ![p].job = nextJob]
            /\ doubled' = IF Overlapping(p) THEN doubled \cup {id} ELSE doubled
         \/ /\ id \notin DOMAIN repos
            /\ Answer(p)
            /\ UNCHANGED <<repos, jobs, nextJob, doubled>>
      /\ UNCHANGED <<links, queries, work, cleaner, nextRepo, errors, lost,
                     early, touched, disturbed>>

Publish(p) ==
  /\ At(p, "publish")
  /\ stream' = stream \cup
       {[job |-> posts[p].job, repo |-> posts[p].repo, queue |-> "fetch",
         file |-> NoFile, retries |-> 0]}
  /\ Answer(p)
  /\ UNCHANGED <<rows, progress, vectors, handlers, cleaner, ids, history>>

\* Redis raises: the rows are committed and stay "queued".
PublishFails(p) ==
  /\ At(p, "publish")
  /\ Fault
  /\ Answer(p)
  /\ lost' = lost \cup {posts[p].job}
  /\ UNCHANGED <<rows, work, cleaner, ids, early, doubled, touched, disturbed>>

Post(p) ==
  \/ Create(p) \/ Linked(p) \/ Link(p)
  \/ Latest(p) \/ Reschedule(p) \/ Publish(p) \/ PublishFails(p)

-----------------------------------------------------------------------------
(* The workers.                                                            *)

HasRows(t) == t.repo \in DOMAIN repos /\ t.job \in DOMAIN jobs

SetStatus(t, repo, job) ==
  IF HasRows(t)
  THEN /\ repos' = [repos EXCEPT ![t.repo] = repo]
       /\ jobs' = [jobs EXCEPT ![t.job].status = job]
  ELSE UNCHANGED <<repos, jobs>>

Become(h, pc) == handlers' = (handlers \ {h}) \cup {[h EXCEPT !.pc = pc]}
End(h)        == handlers' = handlers \ {h}
Hash(t)       == [job |-> t.job, repo |-> t.repo]
Doing(h, queue, pc) == h.task.queue = queue /\ h.pc = pc

Take(t, pc) ==
  /\ Cardinality(handlers) < MaxBusy
  /\ stream' = stream \ {t}
  /\ handlers' = handlers \cup {[task |-> t, pc |-> pc]}
  /\ Disturbs(t.repo)

\* A task whose rows are gone is acknowledged and forgotten.
Drop(t) ==
  /\ ~HasRows(t)
  /\ stream' = stream \ {t}
  /\ UNCHANGED <<rows, progress, vectors, posts, handlers, cleaner, ids,
                 history>>

\* The fetch and the process worker commit a status before they work; the
\* store worker does not.
Begin(t) ==
  /\ HasRows(t)
  /\ Take(t, "work")
  /\ CASE t.queue = "fetch"   -> SetStatus(t, "fetching", "processing")
       [] t.queue = "process" -> SetStatus(t, "processing", "processing")
       [] OTHER               -> UNCHANGED <<repos, jobs>>
  /\ UNCHANGED <<links, queries, progress, vectors, posts, cleaner, ids,
                 errors, lost, early, doubled, touched>>

\* The last call for the message, when all attempts are used up, or at once
\* when the error speaks of a quota.
Endings(t) == {"giveup"} \cup (IF t.retries < MaxRetries THEN {"retry"} ELSE {})

\* Mutant: the message is acknowledged before the rows are read.
UnreadForgotten(t) ==
  /\ t.queue # "store"
  /\ stream' = stream \ {t}
  /\ UNCHANGED <<rows, progress, vectors, posts, handlers, cleaner, ids, history>>

\* The rows cannot be read: no status is written.  (The store worker then
\* leaves the message pending, and so does this model.)
Unread(t) ==
  /\ t.queue # "store"
  /\ Fault
  /\ \E pc \in Endings(t) : Take(t, pc)
  /\ UNCHANGED <<rows, progress, vectors, posts, cleaner, ids,
                 lost, early, doubled, touched>>

\* Both rows "failed", if they are there.
MarkFailed(t) ==
  /\ SetStatus(t, "failed", "failed")
  /\ early' = (early \ {t.repo}) \cup
               (IF UnderWay(t.repo)' = {} THEN {} ELSE {t.repo})

\* No file comes back from GitHub.
Empty(h) ==
  /\ Doing(h, "fetch", "work")
  /\ HasRows(h.task)
  /\ End(h)
  /\ UNCHANGED <<links, queries, stream, progress, vectors, posts, cleaner,
                 ids, errors, lost, doubled, touched, disturbed>>
  /\ MarkFailed(h.task)

\* init_progress and the publications, or those before a failing one.
List(h) ==
  /\ Doing(h, "fetch", "work")
  /\ progress' = progress \cup {Hash(h.task)}
  /\ \E files \in SUBSET Files \ {{}} :
       stream' = stream \cup
         {[h.task EXCEPT !.queue = "process", !.file = f, !.retries = 0] : f \in files}
  /\ Become(h, "finish")
  /\ UNCHANGED <<rows, vectors, posts, cleaner, ids, history>>

\* The last commit of the fetch worker updates rows that must exist.
Fetched(h) ==
  /\ Doing(h, "fetch", "finish")
  /\ HasRows(h.task)
  /\ repos' = [repos EXCEPT ![h.task.repo] = "processing"]
  /\ End(h)
  /\ UNCHANGED <<jobs, links, queries, stream, progress, vectors, posts,
                 cleaner, ids, history>>

\* A file without chunks, or one of a repository that is completed, is let go.
Skip(h) ==
  /\ Doing(h, "process", "work")
  /\ End(h)
  /\ UNCHANGED <<rows, stream, progress, vectors, posts, cleaner, ids, history>>

\* increment_processed makes the hash again if it is gone.
Process(h) ==
  /\ Doing(h, "process", "work")
  /\ progress' = progress \cup {Hash(h.task)}
  /\ Become(h, "finish")
  /\ UNCHANGED <<rows, stream, vectors, posts, cleaner, ids, history>>

HandOver(h) ==
  /\ Doing(h, "process", "finish")
  /\ stream' = stream \cup {[h.task EXCEPT !.queue = "store", !.retries = 0]}
  /\ End(h)
  /\ UNCHANGED <<rows, progress, vectors, posts, cleaner, ids, history>>

\* store_embeddings_batch makes the collection, unless the repository is
\* completed, and whether or not the rows are still there.
Store(h) ==
  /\ Doing(h, "store", "work")
  /\ \/ vectors' = vectors \cup {h.task.repo}
     \/ /\ HasRows(h.task) /\ repos[h.task.repo] = "completed"
        /\ UNCHANGED vectors
  /\ Become(h, "finish")
  /\ UNCHANGED <<rows, stream, progress, posts, cleaner, ids, history>>

\* increment_stored; the file may have been the last that counts.
Stored(h) ==
  /\ Doing(h, "store", "finish")
  /\ HasRows(h.task)
  /\ progress' = progress \cup {Hash(h.task)}
  /\ SetStatus(h.task, "completed", "completed") \/ UNCHANGED <<repos, jobs>>
  /\ End(h)
  /\ UNCHANGED <<links, queries, stream, vectors, posts, cleaner, ids, history>>

\* A call raises: both rows "failed", or not if that commit raises as well.
\* The other messages of the job stay where they are.
Raise(h) ==
  /\ h.pc \in {"work", "finish"}
  /\ Fault
  /\ \E pc \in Endings(h.task) : Become(h, pc)
  /\ UNCHANGED <<links, queries, stream, progress, vectors, posts, cleaner,
                 ids, lost, doubled, touched, disturbed>>
  /\ MarkFailed(h.task) \/ UNCHANGED <<repos, jobs, early>>

\* Only now is the task published again ...
Republish(h) ==
  /\ h.pc = "retry"
  /\ stream' = stream \cup {[h.task EXCEPT !.retries = @ + 1]}
  /\ End(h)
  /\ UNCHANGED <<rows, progress, vectors, posts, cleaner, ids, history>>

\* ... or put on the dead-letter stream.
DeadLetter(h) ==
  /\ h.pc = "giveup"
  /\ End(h)
  /\ lost' = lost \cup
              {j \in DOMAIN jobs : j = h.task.job /\ jobs[j].status = "queued"}
  /\ UNCHANGED <<rows, stream, progress, vectors, posts, cleaner, ids,
                 errors, early, doubled, touched, disturbed>>

Work ==
  \/ \E t \in stream : Drop(t) \/ Begin(t) \/ Unread(t)
  \/ \E h \in handlers :
       \/ Empty(h) \/ List(h) \/ Fetched(h)
       \/ Skip(h) \/ Process(h) \/ HandOver(h)
       \/ Store(h) \/ Stored(h)
       \/ Raise(h) \/ Republish(h) \/ DeadLetter(h)

-----------------------------------------------------------------------------
(* queryLLM: a search in the collection and a row that refers to the       *)
(* repository; the search changes nothing and is one step with the insert. *)

Query(id) ==
  /\ id \in vectors \cap DOMAIN repos
  /\ queries' = queries \cup {id}
  /\ UNCHANGED <<repos, jobs, links, work, posts, cleaner, ids, history>>

-----------------------------------------------------------------------------
(* clear_repo.                                                             *)

CleanStart(id) ==
  /\ cleaner = Off
  /\ id \in (Cleaned \cap DOMAIN repos) \ touched
  /\ cleaner' = [pc |-> "vectors", repo |-> id]
  /\ touched' = touched \cup {id}
  /\ disturbed' = IF \/ \E h \in handlers : h.task.repo = id
                     \/ \E p \in Posts : posts[p].repo = id
                  THEN disturbed \cup {id} ELSE disturbed
  /\ UNCHANGED <<rows, work, posts, ids, errors, lost, early, doubled>>

Clean(pc, next) ==
  /\ cleaner.pc = pc
  /\ cleaner' = [cleaner EXCEPT !.pc = next]

CleanVectors ==
  /\ Clean("vectors", "streams")
  /\ vectors' = vectors \ {cleaner.repo}
  /\ UNCHANGED <<rows, stream, progress, posts, handlers, ids, history>>

\* Messages in the hands of a worker are deleted too, and are worked on.
CleanStreams ==
  /\ Clean("streams", "progress")
  /\ stream' = {t \in stream : t.repo # cleaner.repo}
  /\ UNCHANGED <<rows, progress, vectors, posts, handlers, ids, history>>

\* Mutant: the hashes are looked up when the jobs are gone.
CleanProgressLate ==
  /\ Clean("progress", "rows")
  /\ UNCHANGED <<rows, work, posts, ids, history>>

CleanProgress ==
  /\ Clean("progress", "rows")
  /\ progress' = {k \in progress : k.job \notin JobsOf(cleaner.repo)}
  /\ UNCHANGED <<rows, stream, vectors, posts, handlers, ids, history>>

\* An error in one of the three is swallowed.
CleanSkips ==
  /\ Fault
  /\ \/ Clean("vectors", "streams")
     \/ Clean("streams", "progress")
     \/ Clean("progress", "rows")
  /\ disturbed' = disturbed \cup {cleaner.repo}
  /\ UNCHANGED <<rows, work, posts, ids, lost, early, doubled, touched>>

\* One transaction; the table queries is not among the tables it clears.
CleanRows ==
  LET id == cleaner.repo
  IN  /\ cleaner.pc = "rows"
      /\ id \notin queries
      /\ repos' = Restrict(repos, DOMAIN repos \ {id})
      /\ jobs' = Restrict(jobs, DOMAIN jobs \ JobsOf(id))
      /\ links' = {l \in links : l.repo # id}
      /\ cleaner' = Off
      /\ UNCHANGED <<queries, work, posts, ids, history>>

\* A query still refers to the repository, a POST adds a job meanwhile, or the
\* database raises: rollback.  The vectors and the messages stay deleted.
CleanFails ==
  /\ cleaner.pc = "rows"
  /\ cleaner' = Off
  /\ UNCHANGED <<rows, work, posts, ids, history>>

Cleanup == \/ \E id \in DOMAIN repos : CleanStart(id)
           \/ CleanVectors \/ CleanStreams \/ CleanProgress \/ CleanSkips
           \/ CleanRows \/ CleanFails

-----------------------------------------------------------------------------

Init ==
  /\ repos = <<>> /\ jobs = <<>> /\ links = {} /\ queries = {}
  /\ stream = {} /\ progress = {} /\ vectors = {}
  /\ posts = [p \in Posts |-> Free]
  /\ handlers = {} /\ cleaner = Off
  /\ nextRepo = 1 /\ nextJob = 1 /\ errors = 0
  /\ lost = {} /\ early = {} /\ doubled = {} /\ touched = {} /\ disturbed = {}

Next ==
  \/ \E p \in Posts :
       Post(p) \/ \E u \in Users : FindNothing(p, u) \/ FindRepo(p, u)
  \/ Work
  \/ \E id \in RepoIds : Query(id)
  \/ Cleanup

Spec == Init /\ [][Next]_vars

-----------------------------------------------------------------------------
(* Properties.                                                             *)

Tasks == [job : JobIds, repo : RepoIds, queue : {"fetch", "process", "store"},
          file : Files \cup {NoFile}, retries : 0 .. MaxRetries]

\* Every variable has its type, and every row refers to a repository that is
\* there.
TypeOK ==
  /\ DOMAIN repos \subseteq RepoIds
  /\ \A id \in DOMAIN repos : repos[id] \in Active \cup {"failed"}
  /\ DOMAIN jobs \subseteq JobIds
  /\ \A j \in DOMAIN jobs : jobs[j].repo \in DOMAIN repos
  /\ links \subseteq [user : Users, repo : DOMAIN repos]
  /\ queries \subseteq DOMAIN repos
  /\ stream \subseteq Tasks
  /\ handlers \subseteq [task : Tasks, pc : {"work", "finish", "retry", "giveup"}]
  /\ progress \subseteq [job : JobIds, repo : RepoIds]
  /\ vectors \subseteq RepoIds

\* However POSTs of one new URL overlap, the URL has one repository.
OneRepoPerUrl == Cardinality(DOMAIN repos) <= 1

\* Whatever is under way for a repository belongs to one job, unless a POST
\* scheduled another on a status "failed" that was outdated, or that a worker
\* had set with other messages of the job, or its own next attempt, to come:
\* the statuses in between keep every other POST from scheduling again.
SingleIngestion ==
  \A id \in DOMAIN repos \ doubled : Cardinality(UnderWay(id)) <= 1

\* A job that is "queued" has a message or a POST about to publish it, however
\* often its rows could not be read, unless that publish failed, its message
\* was dead-lettered unseen, or a cleanup emptied the streams.
QueuedHasTask ==
  \A j \in DOMAIN jobs :
    \/ jobs[j].status # "queued"
    \/ j \in lost
    \/ jobs[j].repo \in touched
    \/ \E t \in Messages : t.job = j
    \/ \E p \in Posts : posts[p].job = j /\ posts[p].pc = "publish"

\* A POST about to answer that the repository is there has linked the user to
\* it, unless a cleanup ran meanwhile.
AnswerHolds ==
  \A p \in Posts :
    LET q == posts[p]
    IN  q.pc \in {"decide", "publish"} /\ q.repo \notin touched =>
          [user |-> q.user, repo |-> q.repo] \in links

\* After a cleanup that met no worker, no POST and no error, nothing of the
\* repository is left and nothing comes back, whatever POSTs of the URL follow.
CleanupIsComplete ==
  \A id \in touched \ (disturbed \cup DOMAIN repos) :
    /\ id \notin vectors
    /\ \A t \in Messages : t.repo # id
    /\ \A k \in progress : k.repo # id
=============================================================================
