------------------------ MODULE RepoLifecycleProofs ------------------------
(***************************************************************************)
(* The rows of one URL, for any number of users, POSTs, repositories and   *)
(* jobs: the keys hold, the URL is unique, nobody is promised a link that  *)
(* is not there, and no job is forgotten in the queue.                     *)
(***************************************************************************)
EXTENDS RepoLifecycle, FiniteSetTheorems, TLAPS

Statuses == {"queued", "processing", "completed", "failed"}
Stages   == {"free", "create", "link", "insert", "decide", "publish"}
\* The stages of a POST that works on a repository.
Bound    == {"link", "insert", "decide", "publish"}

PostTypes == [pc   : Stages,
              user : Users \cup {Nobody},
              repo : RepoIds \cup {0},
              seen : Active \cup {"failed", "none"},
              job  : JobIds \cup {0}]
CleanerTypes == [pc   : {"off", "vectors", "streams", "progress", "rows"},
                 repo : RepoIds \cup {0}]

\* The rows, with their keys.
RowsOK ==
  /\ DOMAIN repos \subseteq RepoIds
  /\ \A id \in DOMAIN repos : repos[id] \in Active \cup {"failed"}
  /\ DOMAIN jobs \subseteq JobIds
  /\ \A j \in DOMAIN jobs : /\ jobs[j] \in [repo : RepoIds, status : Statuses]
                            /\ jobs[j].repo \in DOMAIN repos
                            /\ j < nextJob
  /\ links \subseteq [user : Users, repo : DOMAIN repos]
  /\ queries \subseteq DOMAIN repos
  /\ nextRepo \in Nat \ {0} /\ nextJob \in Nat \ {0}

PostsOK ==
  /\ posts \in [Posts -> PostTypes]
  /\ \A p \in Posts :
       /\ posts[p].pc # "free" => posts[p].user \in Users
       /\ posts[p].pc \in Bound => posts[p].repo \in RepoIds

CleanerOK ==
  /\ cleaner \in CleanerTypes
  /\ cleaner.pc # "off" => cleaner.repo \in touched \cap RepoIds

WorkOK ==
  /\ stream \subseteq Tasks
  /\ handlers \subseteq [task : Tasks, pc : {"work", "finish", "retry", "giveup"}]
  /\ \A h \in handlers : h.pc = "retry" => h.task.retries < MaxRetries
  /\ progress \subseteq [job : JobIds, repo : RepoIds]
  /\ vectors \subseteq RepoIds

\* The number of a job stands for one repository, and is never given again.
Owns(j, id) == j < nextJob /\ (j \in DOMAIN jobs => jobs[j].repo = id)
Numbered ==
  /\ \A t \in Messages : Owns(t.job, t.repo)
  /\ \A p \in Posts : posts[p].pc = "publish" =>
       posts[p].job \in JobIds /\ Owns(posts[p].job, posts[p].repo)

Unique == \A a, b \in DOMAIN repos : a = b

\* A job that a worker works on, or that has files to work on, has left the
\* queue.
Begun(t) == t.job \in DOMAIN jobs => jobs[t.job].status # "queued"
Started ==
  /\ \A t \in Messages : t.queue # "fetch" => Begun(t)
  /\ \A h \in handlers : h.pc \in {"work", "finish"} => Begun(h.task)

Waited(j) ==
  \/ \E t \in Messages : t.job = j
  \/ \E p \in Posts : posts[p].pc = "publish" /\ posts[p].job = j
Waiting ==
  \A j \in DOMAIN jobs :
    \/ jobs[j].status # "queued"
    \/ j \in lost
    \/ jobs[j].repo \in touched
    \/ Waited(j)

Typed == RowsOK /\ PostsOK /\ CleanerOK /\ WorkOK
IInv  == Typed /\ Numbered /\ Unique /\ Started /\ Waiting /\ AnswerHolds

-----------------------------------------------------------------------------
(* The steps of a POST.                                                    *)

\* A step of a POST keeps the types and the keys of the rows.
LEMMA PostTyped ==
  ASSUME IInv, NEW p \in Posts, Post(p)
  PROVE  Typed'
<1> USE LifecycleAssumption DEF IInv, Typed, PostTypes, Stages, Bound, At, Goto,
    Answer, Free, ids
<1>1. CASE Create(p)
  <2>1. CASE Created(p)
    <3>1. RowsOK'
      BY <1>1, <2>1 DEF Create, Created, CreatedAs, Put, RowsOK, PostsOK, RepoIds, JobIds,
         Active, Statuses
    <3>2. PostsOK'
      BY <1>1, <2>1 DEF Create, Created, CreatedAs, RowsOK, PostsOK, RepoIds, JobIds
    <3> QED
      BY <1>1, <3>1, <3>2 DEF Create, CleanerOK, WorkOK, work, history
  <2>2. CASE ~Created(p)
    BY <1>1, <2>2 DEF Create, RowsOK, PostsOK, CleanerOK, WorkOK, work, history, Active
  <2> QED
    BY <2>1, <2>2
<1>2. CASE Linked(p)
  BY <1>2 DEF Linked, RowsOK, PostsOK, CleanerOK, WorkOK, rows, work, history
<1>3. CASE Link(p)
  BY <1>3 DEF Link, RowsOK, PostsOK, CleanerOK, WorkOK, work, history
<1>4. CASE Latest(p)
  BY <1>4 DEF Latest, RowsOK, PostsOK, CleanerOK, WorkOK, rows, work, history
<1>5. CASE Reschedule(p)
  <2>1. RowsOK'
    BY <1>5 DEF Reschedule, Put, RowsOK, PostsOK, RepoIds, JobIds, Active, Statuses
  <2>2. PostsOK'
    BY <1>5 DEF Reschedule, RowsOK, PostsOK, RepoIds, JobIds
  <2>3. CleanerOK' /\ WorkOK'
    BY <1>5 DEF Reschedule, CleanerOK, WorkOK, work
  <2> QED
    BY <2>1, <2>2, <2>3
<1>6. CASE Publish(p)
  BY <1>6 DEF Publish, RowsOK, PostsOK, CleanerOK, WorkOK, rows, work, history, Tasks, Numbered
<1>7. CASE PublishFails(p)
  BY <1>7 DEF PublishFails, RowsOK, PostsOK, CleanerOK, WorkOK, rows, work
<1> QED
  BY <1>1, <1>2, <1>3, <1>4, <1>5, <1>6, <1>7 DEF Post

\* So does the select that starts one.
LEMMA FindTyped ==
  ASSUME IInv, NEW p \in Posts, NEW u \in Users,
         FindNothing(p, u) \/ FindRepo(p, u)
  PROVE  Typed'
<1> USE LifecycleAssumption DEF IInv, Typed, PostTypes, Stages, Bound, At, Free, ids
<1>1. CASE FindNothing(p, u)
  BY <1>1 DEF FindNothing, RowsOK, PostsOK, CleanerOK, WorkOK, rows, work, history
<1>2. CASE FindRepo(p, u)
  <2>1. PICK id \in DOMAIN repos :
          posts' = [posts EXCEPT ![p] =
                     [Free EXCEPT !.pc = "link", !.user = u, !.repo = id,
                                  !.seen = repos[id]]]
    BY <1>2 DEF FindRepo
  <2>2. id \in RepoIds /\ repos[id] \in Active \cup {"failed"}
    BY DEF RowsOK
  <2>3. PostsOK'
    BY <2>1, <2>2 DEF PostsOK
  <2> QED
    BY <1>2, <2>3 DEF FindRepo, RowsOK, CleanerOK, WorkOK, rows, work
<1> QED
  BY <1>1, <1>2

\* Writing a status keeps the repository of every job.
LEMMA StatusKeeps ==
  ASSUME RowsOK, NEW t, NEW r, NEW s, SetStatus(t, r, s)
  PROVE  /\ DOMAIN repos' = DOMAIN repos /\ DOMAIN jobs' = DOMAIN jobs
         /\ \A j \in DOMAIN jobs : jobs'[j].repo = jobs[j].repo
         /\ \A j \in DOMAIN jobs : j # t.job => jobs'[j] = jobs[j]
         /\ HasRows(t) => jobs'[t.job].status = s
         /\ \A j \in DOMAIN jobs : jobs'[j] = jobs[j] \/ jobs'[j].status = s
BY DEF SetStatus, HasRows, RowsOK

\* No status but the ones of the table is written, and none without its rows.
LEMMA StatusRows ==
  ASSUME RowsOK, NEW t, NEW r, NEW s, SetStatus(t, r, s),
         r \in Active \cup {"failed"}, s \in {"processing", "completed", "failed"},
         UNCHANGED <<links, queries, nextRepo, nextJob>>
  PROVE  RowsOK'
BY DEF SetStatus, HasRows, RowsOK, Statuses

\* What the steps of the workers do to the rows: no job goes back to the queue.
LEMMA WorkRows ==
  ASSUME RowsOK, Work
  PROVE  /\ RowsOK'
         /\ DOMAIN repos' = DOMAIN repos /\ DOMAIN jobs' = DOMAIN jobs
         /\ \A j \in DOMAIN jobs : jobs'[j].repo = jobs[j].repo
         /\ \A j \in DOMAIN jobs : jobs'[j] = jobs[j] \/ jobs'[j].status # "queued"
<1> DEFINE Fine == /\ RowsOK'
                   /\ DOMAIN repos' = DOMAIN repos /\ DOMAIN jobs' = DOMAIN jobs
                   /\ \A j \in DOMAIN jobs : jobs'[j].repo = jobs[j].repo
                   /\ \A j \in DOMAIN jobs : jobs'[j] = jobs[j] \/ jobs'[j].status # "queued"
<1>0. UNCHANGED <<links, queries, nextRepo, nextJob>>
  BY DEF Work, Drop, Begin, Unread, Empty, List, Fetched, Skip, Process, HandOver, Store,
     Stored, Raise, Republish, DeadLetter, rows, ids
<1>a. ASSUME UNCHANGED <<repos, jobs>> PROVE Fine
  BY <1>0, <1>a DEF RowsOK
<1>b. ASSUME NEW t, NEW r \in Active \cup {"failed"},
             NEW s \in {"processing", "completed", "failed"}, SetStatus(t, r, s)
      PROVE  Fine
  <2>1. RowsOK'
    BY <1>0, <1>b, StatusRows
  <2> QED
    BY <1>b, <2>1, StatusKeeps
<1>1. ASSUME NEW t \in stream, Begin(t) PROVE Fine
  <2>1. CASE t.queue = "fetch"
    BY <1>1, <1>b, <2>1 DEF Begin, Active
  <2>2. CASE t.queue = "process"
    BY <1>1, <1>b, <2>2 DEF Begin, Active
  <2>3. CASE t.queue \notin {"fetch", "process"}
    BY <1>1, <1>a, <2>3 DEF Begin
  <2> QED
    BY <2>1, <2>2, <2>3
<1>2. ASSUME NEW h \in handlers, Empty(h) PROVE Fine
  BY <1>2, <1>b DEF Empty, MarkFailed
<1>3. ASSUME NEW h \in handlers, Raise(h) PROVE Fine
  BY <1>3, <1>a, <1>b DEF Raise, MarkFailed
<1>4. ASSUME NEW h \in handlers, Stored(h) PROVE Fine
  BY <1>4, <1>a, <1>b DEF Stored, Active
<1>5. ASSUME NEW h \in handlers, Fetched(h) PROVE Fine
  BY <1>0, <1>5 DEF Fetched, HasRows, RowsOK, Active
<1> QED
  BY <1>a, <1>1, <1>2, <1>3, <1>4, <1>5
     DEF Work, Drop, Unread, List, Skip, Process, HandOver, Store, Republish, DeadLetter, rows

\* What they do not touch.
LEMMA WorkFrame ==
  ASSUME Work
  PROVE  UNCHANGED <<links, queries, posts, cleaner, ids, doubled, touched>>
BY DEF Work, Drop, Begin, Unread, Empty, List, Fetched, Skip, Process, HandOver, Store,
   Stored, Raise, Republish, DeadLetter, rows, ids, history

\* A task made of the one in hand.
LEMMA MadeOf ==
  ASSUME NEW u \in Tasks
  PROVE  /\ \A f \in Files :
              LET t == [u EXCEPT !.queue = "process", !.file = f, !.retries = 0]
              IN  t \in Tasks /\ t.job = u.job /\ t.repo = u.repo
         /\ LET t == [u EXCEPT !.queue = "store", !.retries = 0]
            IN  t \in Tasks /\ t.job = u.job /\ t.repo = u.repo
         /\ LET t == [u EXCEPT !.retries = @ + 1]
            IN  /\ t.job = u.job /\ t.repo = u.repo /\ t.queue = u.queue
                /\ u.retries < MaxRetries => t \in Tasks
<1>1. u.retries \in Nat /\ u.retries + 1 \in Nat
  BY LifecycleAssumption DEF Tasks
<1>2. u.retries < MaxRetries => u.retries + 1 \in 0 .. MaxRetries
  BY <1>1, LifecycleAssumption
<1>3. 0 \in 0 .. MaxRetries
  BY LifecycleAssumption
<1>4. LET t == [u EXCEPT !.retries = @ + 1]
      IN  /\ t.job = u.job /\ t.repo = u.repo /\ t.queue = u.queue
          /\ u.retries < MaxRetries => t \in Tasks
  BY <1>2 DEF Tasks
<1>5. LET t == [u EXCEPT !.queue = "store", !.retries = 0]
      IN  t \in Tasks /\ t.job = u.job /\ t.repo = u.repo
  BY <1>3 DEF Tasks
<1>6. ASSUME NEW f \in Files
      PROVE  LET t == [u EXCEPT !.queue = "process", !.file = f, !.retries = 0]
             IN  t \in Tasks /\ t.job = u.job /\ t.repo = u.repo
  BY <1>3 DEF Tasks
<1> QED
  BY <1>4, <1>5, <1>6

\* What a worker puts into a stream is of the job and the repository of the
\* task in its hand: a file of the message that starts a job, the same file in
\* the next stream, or the same task again.
LEMMA Streamed ==
  ASSUME WorkOK, Work, NEW t \in stream', t \notin stream
  PROVE  \E h \in handlers :
           /\ t \in Tasks /\ t.job = h.task.job /\ t.repo = h.task.repo
           /\ \/ h.pc \in {"work", "finish"}
              \/ h.pc = "retry" /\ t.queue = h.task.queue
<1>1. ASSUME NEW h \in handlers, List(h) \/ HandOver(h) \/ Republish(h)
      PROVE  /\ t \in Tasks /\ t.job = h.task.job /\ t.repo = h.task.repo
             /\ \/ h.pc \in {"work", "finish"}
                \/ h.pc = "retry" /\ t.queue = h.task.queue
  <2>0. h.task \in Tasks
    BY DEF WorkOK
  <2>1. CASE List(h)
    <3>1. PICK f \in Files :
            t = [h.task EXCEPT !.queue = "process", !.file = f, !.retries = 0]
      BY <2>1 DEF List
    <3> QED
      BY <2>0, <2>1, <3>1, MadeOf DEF List, Doing
  <2>2. CASE HandOver(h)
    BY <2>0, <2>2, MadeOf DEF HandOver, Doing
  <2>3. CASE Republish(h)
    BY <2>0, <2>3, MadeOf DEF Republish, WorkOK
  <2> QED
    BY <1>1, <2>1, <2>2, <2>3
<1>2. \E h \in handlers : List(h) \/ HandOver(h) \/ Republish(h)
  BY DEF Work, Drop, Begin, Take, Unread, Empty, Fetched, Skip, Process, Store, Stored,
     Raise, DeadLetter, Messages
<1> QED
  BY <1>1, <1>2

\* What a worker has in its hand it had before, or takes from a stream.
LEMMA InHand ==
  ASSUME WorkOK, Work, NEW g \in handlers', g \notin handlers
  PROVE  \/ \E t \in stream :
              /\ \/ Begin(t) /\ g.pc = "work"
                 \/ Unread(t) /\ g.pc \in Endings(t)
              /\ g.task = t /\ g \in [task : Tasks, pc : {"work", "retry", "giveup"}]
              /\ stream' = stream \ {t} /\ handlers' = handlers \cup {g}
         \/ \E h \in handlers :
              /\ g.task = h.task /\ h.pc \in {"work", "finish"}
              /\ g \in [task : Tasks, pc : {"finish", "retry", "giveup"}]
              /\ \/ g.pc = "finish"
                 \/ g.pc \in Endings(h.task)
              /\ handlers' = (handlers \ {h}) \cup {g}
<1>1. ASSUME NEW t \in stream, Begin(t)
      PROVE  /\ g.task = t /\ g \in [task : Tasks, pc : {"work", "retry", "giveup"}]
             /\ stream' = stream \ {t} /\ handlers' = handlers \cup {g}
             /\ g.pc = "work"
  BY <1>1 DEF Begin, Take, WorkOK
<1>2. ASSUME NEW t \in stream, Unread(t)
      PROVE  /\ g.task = t /\ g \in [task : Tasks, pc : {"work", "retry", "giveup"}]
             /\ stream' = stream \ {t} /\ handlers' = handlers \cup {g}
             /\ g.pc \in Endings(t)
  BY <1>2 DEF Unread, Take, Endings, WorkOK
<1>3. ASSUME NEW h \in handlers, List(h) \/ Process(h) \/ Store(h) \/ Raise(h)
      PROVE  /\ g.task = h.task /\ h.pc \in {"work", "finish"}
             /\ g \in [task : Tasks, pc : {"finish", "retry", "giveup"}]
             /\ g.pc = "finish" \/ g.pc \in Endings(h.task)
             /\ handlers' = (handlers \ {h}) \cup {g}
  <2>1. PICK pc \in {"finish"} \cup Endings(h.task) : Become(h, pc)
    BY <1>3 DEF List, Process, Store, Raise
  <2>2. g = [h EXCEPT !.pc = pc] /\ handlers' = (handlers \ {h}) \cup {g}
    BY <2>1 DEF Become
  <2>3. h.pc \in {"work", "finish"}
    BY <1>3 DEF List, Process, Store, Raise, Doing
  <2> QED
    BY <2>1, <2>2, <2>3 DEF Endings, WorkOK
<1>4. \/ \E t \in stream : Begin(t) \/ Unread(t)
      \/ \E h \in handlers : List(h) \/ Process(h) \/ Store(h) \/ Raise(h)
  BY DEF Work, Drop, Empty, Fetched, Skip, HandOver, Stored, Republish, DeadLetter, End
<1> QED
  BY <1>1, <1>2, <1>3, <1>4

\* What a worker writes outside the database is of the task in its hand.
LEMMA Written ==
  ASSUME Work
  PROVE  /\ \A k \in progress' : k \in progress \/ \E h \in handlers : k = Hash(h.task)
         /\ \A id \in vectors' : id \in vectors \/ \E h \in handlers : id = h.task.repo
BY DEF Work, Drop, Begin, Unread, Empty, List, Fetched, Skip, Process, HandOver, Store,
   Stored, Raise, Republish, DeadLetter

\* No message speaks of a job that none spoke of before.
LEMMA SameJobs ==
  ASSUME WorkOK, Work, NEW t \in Messages'
  PROVE  \E u \in Messages : t.job = u.job /\ t.repo = u.repo
<1>1. CASE t \in stream'
  BY <1>1, Streamed DEF Messages
<1>2. ASSUME NEW g \in handlers', t = g.task
      PROVE  \E u \in Messages : t.job = u.job /\ t.repo = u.repo
  BY <1>2, InHand DEF Messages
<1> QED
  BY <1>1, <1>2 DEF Messages

\* A message leaves with its rows gone, with its work begun, or for the next
\* attempt or the dead-letter stream.
LEMMA Leaving ==
  ASSUME WorkOK, Work, NEW t \in Messages, t \notin Messages'
  PROVE  \/ ~HasRows(t)
         \/ \E h \in handlers :
              /\ h.task = t
              /\ h.pc \in {"work", "finish"} \/ Republish(h) \/ DeadLetter(h)
<1>1. ASSUME NEW u \in stream, Drop(u) PROVE ~HasRows(t)
  BY <1>1 DEF Drop, Messages
<1>2. ASSUME NEW u \in stream, Begin(u) \/ Unread(u) PROVE FALSE
  <2>1. PICK pc : Take(u, pc)
    BY <1>2 DEF Begin, Unread
  <2> DEFINE g == [task |-> u, pc |-> pc]
  <2>2. g.task = u /\ stream' = stream \ {u} /\ handlers' = handlers \cup {g}
    BY <2>1 DEF Take
  <2> HIDE DEF g
  <2> QED
    BY <2>2 DEF Messages
<1>3. ASSUME NEW h \in handlers, List(h) \/ Process(h) \/ Store(h) \/ Raise(h) PROVE FALSE
  <2>1. PICK pc : Become(h, pc) /\ stream \subseteq stream'
    BY <1>3 DEF List, Process, Store, Raise
  <2> DEFINE g == [h EXCEPT !.pc = pc]
  <2>2. g.task = h.task /\ handlers' = (handlers \ {h}) \cup {g}
    BY <2>1 DEF Become, WorkOK
  <2> HIDE DEF g
  <2> QED
    BY <2>1, <2>2 DEF Messages
<1>4. ASSUME NEW h \in handlers,
             Empty(h) \/ Fetched(h) \/ Skip(h) \/ HandOver(h) \/ Stored(h)
      PROVE  h.task = t /\ h.pc \in {"work", "finish"}
  BY <1>4 DEF Empty, Fetched, Skip, HandOver, Stored, Doing, End, Messages
<1>5. ASSUME NEW h \in handlers, Republish(h) \/ DeadLetter(h)
      PROVE  h.task = t
  BY <1>5 DEF Republish, DeadLetter, End, Messages
<1> QED
  BY <1>1, <1>2, <1>3, <1>4, <1>5 DEF Work

\* The steps of the workers keep the types.
LEMMA WorkTyped ==
  ASSUME IInv, Work
  PROVE  Typed'
<1> USE DEF IInv, Typed
<1>1. RowsOK'
  BY WorkRows
<1>2. PostsOK' /\ CleanerOK'
  BY WorkFrame DEF PostsOK, CleanerOK
<1>3. stream' \subseteq Tasks
  BY Streamed DEF WorkOK
<1>4. ASSUME NEW g \in handlers'
      PROVE  /\ g \in [task : Tasks, pc : {"work", "finish", "retry", "giveup"}]
             /\ g.pc = "retry" => g.task.retries < MaxRetries
  <2>1. CASE g \in handlers
    BY <2>1 DEF WorkOK
  <2>2. CASE g \notin handlers
    BY <2>2, InHand DEF Endings, WorkOK
  <2> QED
    BY <2>1, <2>2
<1>5. progress' \subseteq [job : JobIds, repo : RepoIds] /\ vectors' \subseteq RepoIds
  BY Written DEF WorkOK, Hash, Tasks
<1> QED
  BY <1>1, <1>2, <1>3, <1>4, <1>5 DEF WorkOK

\* So do the steps of the cleanup: its last one deletes a repository together
\* with all that refers to it.
LEMMA CleanTyped ==
  ASSUME IInv, Cleanup
  PROVE  Typed'
<1> USE LifecycleAssumption DEF IInv, Typed, ids, CleanerTypes, Clean
<1>1. ASSUME NEW id \in DOMAIN repos, CleanStart(id) PROVE Typed'
  BY <1>1 DEF CleanStart, RowsOK, PostsOK, CleanerOK, WorkOK, rows, work
<1>2. CASE CleanVectors
  BY <1>2 DEF CleanVectors, RowsOK, PostsOK, CleanerOK, WorkOK, rows, history
<1>3. CASE CleanStreams
  BY <1>3 DEF CleanStreams, RowsOK, PostsOK, CleanerOK, WorkOK, rows, history
<1>4. CASE CleanProgress
  BY <1>4 DEF CleanProgress, RowsOK, PostsOK, CleanerOK, WorkOK, rows, history
<1>5. CASE CleanSkips
  BY <1>5 DEF CleanSkips, RowsOK, PostsOK, CleanerOK, WorkOK, rows, work
<1>6. CASE CleanRows
  <2>1. RowsOK'
    BY <1>6 DEF CleanRows, Restrict, JobsOf, RowsOK
  <2>2. PostsOK' /\ CleanerOK' /\ WorkOK'
    BY <1>6 DEF CleanRows, PostsOK, CleanerOK, WorkOK, work, history, Off
  <2> QED
    BY <2>1, <2>2
<1>7. CASE CleanFails
  BY <1>7 DEF CleanFails, RowsOK, PostsOK, CleanerOK, WorkOK, rows, work, history, Off
<1> QED
  BY <1>1, <1>2, <1>3, <1>4, <1>5, <1>6, <1>7 DEF Cleanup

\* So does a query: its history row is written for a repository that is there.
LEMMA QueryTyped ==
  ASSUME IInv, NEW id \in RepoIds, Query(id)
  PROVE  Typed'
BY DEF Query, IInv, Typed, RowsOK, PostsOK, CleanerOK, WorkOK, work, ids, history

-----------------------------------------------------------------------------
(* The numbers of jobs.                                                    *)

\* A step that schedules nothing, and keeps the repository of every job.
LEMMA NumberedKept ==
  ASSUME Numbered, nextJob' = nextJob, Messages' \subseteq Messages,
         \A j \in DOMAIN jobs' : j \in DOMAIN jobs /\ jobs'[j].repo = jobs[j].repo,
         \A p \in Posts : posts'[p].pc = "publish" => posts'[p] = posts[p]
  PROVE  Numbered'
BY DEF Numbered, Owns

\* A POST numbers the job it inserts with a number nothing stands for yet.
LEMMA PostNumbered ==
  ASSUME IInv, NEW p \in Posts, Post(p)
  PROVE  Numbered'
<1> USE LifecycleAssumption DEF IInv, Typed, At, Goto, Answer, Free, ids
<1>0. posts \in [Posts -> PostTypes] /\ nextJob \in Nat \ {0}
  BY DEF PostsOK, RowsOK
<1>1. CASE Create(p)
  <2>1. CASE Created(p)
    <3>1. /\ Messages' = Messages /\ nextJob' = nextJob + 1 /\ nextJob \in JobIds
          /\ jobs' = Put(jobs, nextJob, [repo |-> nextRepo, status |-> "queued"])
          /\ posts' = [posts EXCEPT ![p].pc = "publish", ![p].repo = nextRepo,
                                    ![p].job = nextJob]
      BY <1>0, <1>1, <2>1 DEF Create, Created, CreatedAs, Messages, work, JobIds
    <3> QED
      BY <1>0, <3>1 DEF Put, Numbered, Owns, WorkOK, Tasks, Messages, JobIds, PostTypes
  <2>2. CASE ~Created(p)
    BY <1>0, <1>1, <2>2, NumberedKept DEF Create, Messages, work, PostTypes
  <2> QED
    BY <2>1, <2>2
<1>2. CASE Linked(p)
  BY <1>0, <1>2, NumberedKept DEF Linked, Messages, rows, work, PostTypes
<1>3. CASE Link(p)
  BY <1>0, <1>3, NumberedKept DEF Link, Messages, work, PostTypes
<1>4. CASE Latest(p)
  BY <1>0, <1>4, NumberedKept DEF Latest, Messages, rows, work, PostTypes
<1>5. CASE Reschedule(p)
  <2>1. CASE posts[p].repo \in DOMAIN repos
    <3>1. /\ Messages' = Messages /\ nextJob' = nextJob + 1 /\ nextJob \in JobIds
          /\ jobs' = Put(jobs, nextJob, [repo |-> posts[p].repo, status |-> "queued"])
          /\ posts' = [posts EXCEPT ![p].pc = "publish", ![p].seen = "none",
                                    ![p].job = nextJob]
      BY <1>0, <1>5, <2>1 DEF Reschedule, Messages, work, JobIds
    <3> QED
      BY <1>0, <3>1 DEF Put, Numbered, Owns, WorkOK, Tasks, Messages, JobIds, PostTypes
  <2>2. CASE posts[p].repo \notin DOMAIN repos
    BY <1>0, <1>5, <2>2, NumberedKept DEF Reschedule, Messages, work, PostTypes
  <2> QED
    BY <2>1, <2>2
<1>6. CASE Publish(p)
  <2>1. Messages' = Messages \cup
          {[job |-> posts[p].job, repo |-> posts[p].repo, queue |-> "fetch",
            file |-> NoFile, retries |-> 0]}
    BY <1>6 DEF Publish, Messages
  <2> QED
    BY <1>0, <1>6, <2>1 DEF Publish, rows, Numbered, Owns, PostTypes
<1>7. CASE PublishFails(p)
  BY <1>0, <1>7, NumberedKept DEF PublishFails, Messages, rows, work, PostTypes
<1> QED
  BY <1>1, <1>2, <1>3, <1>4, <1>5, <1>6, <1>7 DEF Post

\* The select that starts a POST schedules nothing.
LEMMA FindNumbered ==
  ASSUME IInv, NEW p \in Posts, NEW u \in Users,
         FindNothing(p, u) \/ FindRepo(p, u)
  PROVE  Numbered'
<1>1. \A q \in Posts : posts'[q].pc = "publish" => posts'[q] = posts[q]
  BY DEF FindNothing, FindRepo, Free, IInv, Typed, PostsOK
<1> QED
  BY <1>1, NumberedKept DEF FindNothing, FindRepo, Messages, rows, work, ids, IInv

\* A worker hands on the job and the repository of its task.
LEMMA WorkNumbered ==
  ASSUME IInv, Work
  PROVE  Numbered'
<1>1. /\ DOMAIN jobs' = DOMAIN jobs
      /\ \A j \in DOMAIN jobs : jobs'[j].repo = jobs[j].repo
      /\ nextJob' = nextJob /\ posts' = posts
  BY WorkRows, WorkFrame DEF IInv, Typed, ids
<1>2. \A t \in Messages' : \E u \in Messages : t.job = u.job /\ t.repo = u.repo
  BY SameJobs DEF IInv, Typed
<1> QED
  BY <1>1, <1>2 DEF IInv, Numbered, Owns

\* The cleanup deletes jobs and tasks, and changes none.
LEMMA CleanNumbered ==
  ASSUME IInv, Cleanup
  PROVE  Numbered'
<1>1. /\ nextJob' = nextJob /\ posts' = posts /\ Messages' \subseteq Messages
      /\ \A j \in DOMAIN jobs' : j \in DOMAIN jobs /\ jobs'[j].repo = jobs[j].repo
  BY DEF Cleanup, CleanStart, CleanVectors, CleanStreams, CleanProgress, CleanSkips,
     CleanRows, CleanFails, Messages, rows, work, ids, Restrict
<1> QED
  BY <1>1, NumberedKept DEF IInv

\* A query touches no job.
LEMMA QueryNumbered ==
  ASSUME IInv, NEW id \in RepoIds, Query(id)
  PROVE  Numbered'
BY NumberedKept DEF Query, Messages, work, ids, IInv

-----------------------------------------------------------------------------
(* Queued jobs.                                                            *)

\* A step that puts no job back into the queue, and starts no work.
LEMMA StartedKept ==
  ASSUME Started,
         \A j \in DOMAIN jobs' : j \in DOMAIN jobs /\ jobs'[j].status = jobs[j].status,
         stream' \subseteq stream, handlers' = handlers
  PROVE  Started'
BY DEF Started, Begun, Messages

\* A worker starts on a job when it has written its status, and on a file when
\* its job has begun.
LEMMA WorkStarted ==
  ASSUME IInv, Work
  PROVE  Started'
<1> USE DEF IInv, Typed
<1>1. \A t, u : Begun(u) /\ t.job = u.job => Begun(t)'
  BY WorkRows DEF Begun
<1>2. ASSUME NEW t \in Messages', t.queue # "fetch" PROVE Begun(t)'
  <2>1. CASE t \in stream /\ t \in stream'
    BY <1>1, <1>2, <2>1 DEF Started, Messages
  <2>2. CASE t \in stream' /\ t \notin stream
    <3>1. PICK h \in handlers : /\ t.job = h.task.job
                                /\ \/ h.pc \in {"work", "finish"}
                                   \/ t.queue = h.task.queue
      BY <2>2, Streamed
    <3> QED
      BY <1>1, <1>2, <3>1 DEF Started, Messages
  <2>3. ASSUME NEW g \in handlers', t = g.task PROVE Begun(t)'
    <3>1. t \in Messages
      BY <2>3, InHand DEF Messages
    <3> QED
      BY <1>1, <1>2, <3>1 DEF Started
  <2> QED
    BY <2>1, <2>2, <2>3 DEF Messages
<1>3. ASSUME NEW g \in handlers', g.pc \in {"work", "finish"} PROVE Begun(g.task)'
  <2>1. CASE g \in handlers
    BY <1>1, <1>3, <2>1 DEF Started
  <2>2. ASSUME NEW t \in stream, Begin(t), g.task = t PROVE Begun(g.task)'
    <3>1. CASE t.queue \in {"fetch", "process"}
      <4>1. SetStatus(t, "fetching", "processing") \/ SetStatus(t, "processing", "processing")
        BY <2>2, <3>1 DEF Begin
      <4>2. HasRows(t)
        BY <2>2 DEF Begin
      <4>3. jobs'[t.job].status = "processing"
        BY <4>1, <4>2, StatusKeeps
      <4> QED
        BY <2>2, <4>3 DEF Begun
    <3>2. CASE t.queue \notin {"fetch", "process"}
      BY <1>1, <2>2, <3>2 DEF Started, Messages
    <3> QED
      BY <3>1, <3>2
  <2>3. ASSUME NEW h \in handlers, g.task = h.task, h.pc \in {"work", "finish"}
        PROVE  Begun(g.task)'
    BY <1>1, <2>3 DEF Started
  <2> QED
    BY <1>3, <2>1, <2>2, <2>3, InHand DEF Endings
<1> QED
  BY <1>2, <1>3 DEF Started

\* A POST publishes the message that starts its job.
LEMMA PostStarted ==
  ASSUME IInv, NEW p \in Posts, Post(p)
  PROVE  Started'
<1> USE DEF IInv, Typed
<1>1. handlers' = handlers
  BY DEF Post, Create, Linked, Link, Latest, Reschedule, Publish, PublishFails, work
<1>2. \A t \in stream' : t \in stream \/ t.queue = "fetch"
  BY DEF Post, Create, Linked, Link, Latest, Reschedule, Publish, PublishFails, work
<1>3. \A j \in DOMAIN jobs' : j = nextJob \/ (j \in DOMAIN jobs /\ jobs'[j] = jobs[j])
  BY DEF Post, Create, Created, CreatedAs, Linked, Link, Latest, Reschedule, Publish,
     PublishFails, Put, rows
<1>4. \A t \in Messages : t.job # nextJob
  BY DEF Numbered, Owns, RowsOK, WorkOK, Tasks, JobIds
<1>5. \A h \in handlers : h.task.job # nextJob
  BY <1>4 DEF Messages
<1> QED
  BY <1>1, <1>2, <1>3, <1>4, <1>5 DEF Started, Begun, Messages

\* A step that starts no work on a job and takes none away from it.
LEMMA WaitingKept ==
  ASSUME Waiting, lost \subseteq lost', touched \subseteq touched',
         \A j \in DOMAIN jobs' :
           /\ j \in DOMAIN jobs
           /\ jobs'[j].repo = jobs[j].repo
           /\ jobs'[j].status = "queued" =>
                /\ jobs[j].status = "queued"
                /\ Waited(j) => \/ Waited(j)' \/ j \in lost'
                                \/ jobs[j].repo \in touched'
  PROVE  Waiting'
BY DEF Waiting

\* The tasks and the publishing POSTs stay.
LEMMA WaitedKept ==
  ASSUME \A t \in Messages : \E u \in Messages' : u.job = t.job,
         \A p \in Posts : posts[p].pc = "publish" =>
           posts'[p].pc = "publish" /\ posts'[p].job = posts[p].job,
         NEW j, Waited(j)
  PROVE  Waited(j)'
BY DEF Waited

\* A job is inserted by a POST that goes on to publish it.
LEMMA PostWaiting ==
  ASSUME IInv, NEW p \in Posts, Post(p)
  PROVE  Waiting'
<1> USE LifecycleAssumption DEF IInv, Typed, At, Goto, Answer, Free, ids
<1>0. posts \in [Posts -> PostTypes] /\ nextJob \in Nat \ {0}
  BY DEF PostsOK, RowsOK
<1>a. ASSUME UNCHANGED <<stream, handlers, jobs, lost, touched>>, ~At(p, "publish"),
             \A q \in Posts : q # p => posts'[q] = posts[q]
      PROVE  Waiting'
  BY <1>a, WaitedKept, WaitingKept DEF Messages
<1>b. ASSUME NEW id, UNCHANGED <<stream, handlers, lost, touched>>, ~At(p, "publish"),
             jobs' = Put(jobs, nextJob, [repo |-> id, status |-> "queued"]),
             \A q \in Posts : q # p => posts'[q] = posts[q],
             posts'[p].pc = "publish" /\ posts'[p].job = nextJob
      PROVE  Waiting'
  <2>1. ASSUME NEW j, j = nextJob PROVE Waited(j)'
    BY <1>b, <2>1 DEF Waited
  <2>2. \A j : Waited(j) => Waited(j)'
    BY <1>b, WaitedKept DEF Messages
  <2> QED
    BY <1>b, <2>1, <2>2 DEF Put, Waiting
<1>1. CASE Create(p)
  <2>1. CASE Created(p)
    BY <1>0, <1>1, <2>1, <1>b DEF Create, Created, CreatedAs, work, history, PostTypes
  <2>2. CASE ~Created(p)
    BY <1>0, <1>1, <2>2, <1>a DEF Create, work, history, PostTypes
  <2> QED
    BY <2>1, <2>2
<1>2. CASE Linked(p)
  BY <1>0, <1>2, <1>a DEF Linked, rows, work, history, PostTypes
<1>3. CASE Link(p)
  BY <1>0, <1>3, <1>a DEF Link, work, history, PostTypes
<1>4. CASE Latest(p)
  BY <1>0, <1>4, <1>a DEF Latest, rows, work, history, PostTypes
<1>5. CASE Reschedule(p)
  <2>1. CASE posts[p].repo \in DOMAIN repos
    BY <1>0, <1>5, <2>1, <1>b DEF Reschedule, work, PostTypes
  <2>2. CASE posts[p].repo \notin DOMAIN repos
    BY <1>0, <1>5, <2>2, <1>a DEF Reschedule, work, PostTypes
  <2> QED
    BY <2>1, <2>2
<1>6. CASE Publish(p)
  <2>0. DEFINE new == [job |-> posts[p].job, repo |-> posts[p].repo,
                     queue |-> "fetch", file |-> NoFile, retries |-> 0]
  <2>1. /\ UNCHANGED <<jobs, lost, touched, handlers>> /\ stream \subseteq stream'
        /\ new \in stream' /\ new.job = posts[p].job
        /\ \A q \in Posts : q # p => posts'[q] = posts[q]
    BY <1>0, <1>6 DEF Publish, rows, history, PostTypes
  <2> HIDE DEF new
  <2>2. ASSUME NEW j, Waited(j) PROVE Waited(j)'
    <3>1. CASE \E t \in Messages : t.job = j
      BY <2>1, <3>1 DEF Waited, Messages
    <3>2. CASE posts[p].job = j
      BY <2>1, <3>2 DEF Waited, Messages
    <3>3. ASSUME NEW q \in Posts, q # p, posts[q].pc = "publish", posts[q].job = j
          PROVE  Waited(j)'
      BY <2>1, <3>3 DEF Waited
    <3> QED
      BY <2>2, <3>1, <3>2, <3>3 DEF Waited
  <2> QED
    BY <2>1, <2>2, WaitingKept
<1>7. CASE PublishFails(p)
  <2>1. /\ UNCHANGED <<jobs, touched, handlers, stream>>
        /\ lost' = lost \cup {posts[p].job}
        /\ \A q \in Posts : q # p => posts'[q] = posts[q]
    BY <1>0, <1>7 DEF PublishFails, rows, work, PostTypes
  <2> QED
    BY <2>1 DEF Waiting, Waited, Messages
<1> QED
  BY <1>1, <1>2, <1>3, <1>4, <1>5, <1>6, <1>7 DEF Post

\* A POST that starts is not publishing yet.
LEMMA FindWaiting ==
  ASSUME IInv, NEW p \in Posts, NEW u \in Users,
         FindNothing(p, u) \/ FindRepo(p, u)
  PROVE  Waiting'
<1>1. /\ UNCHANGED <<stream, handlers, jobs, lost, touched>>
      /\ \A q \in Posts : posts[q].pc = "publish" => posts'[q] = posts[q]
  BY DEF FindNothing, FindRepo, At, Free, IInv, Typed, PostsOK, rows, work, history
<1> QED
  BY <1>1, WaitedKept, WaitingKept DEF Messages, IInv

\* A worker lets go of the message of a queued job only for the next attempt, or
\* for the dead-letter stream.
LEMMA WorkWaiting ==
  ASSUME IInv, Work
  PROVE  Waiting'
<1> USE DEF IInv, Typed
<1>1. UNCHANGED <<posts, touched>> /\ lost \subseteq lost'
  BY DEF Work, Drop, Begin, Unread, Empty, List, Fetched, Skip, Process, HandOver, Store,
     Stored, Raise, Republish, DeadLetter, history
<1>2. ASSUME NEW j \in DOMAIN jobs, jobs'[j] = jobs[j], jobs[j].status = "queued",
             NEW t \in Messages, t.job = j
      PROVE  Waited(j)' \/ j \in lost'
  <2>1. CASE t \in Messages'
    BY <1>2, <2>1 DEF Waited
  <2>2. CASE t \notin Messages'
    <3>1. HasRows(t)
      BY <1>2 DEF HasRows, Numbered, Owns, RowsOK
    <3>2. PICK h \in handlers :
            /\ h.task = t
            /\ h.pc \in {"work", "finish"} \/ Republish(h) \/ DeadLetter(h)
      BY <2>2, <3>1, Leaving
    <3>3. CASE h.pc \in {"work", "finish"}
      BY <1>2, <3>2, <3>3 DEF Started, Begun
    <3>4. CASE Republish(h)
      <4>1. PICK u \in stream' : u.job = h.task.job
        BY <3>4, MadeOf DEF Republish, WorkOK
      <4> QED
        BY <1>2, <3>2, <4>1 DEF Waited, Messages
    <3>5. CASE DeadLetter(h)
      BY <1>2, <3>2, <3>5 DEF DeadLetter
    <3> QED
      BY <3>2, <3>3, <3>4, <3>5
  <2> QED
    BY <2>1, <2>2
<1>3. ASSUME NEW j \in DOMAIN jobs, jobs'[j] = jobs[j], jobs[j].status = "queued", Waited(j)
      PROVE  Waited(j)' \/ j \in lost'
  BY <1>1, <1>2, <1>3 DEF Waited
<1>4. \A j \in DOMAIN jobs' :
        /\ j \in DOMAIN jobs /\ jobs'[j].repo = jobs[j].repo
        /\ jobs'[j].status = "queued" => jobs'[j] = jobs[j]
  BY WorkRows
<1> QED
  BY <1>1, <1>3, <1>4, WaitingKept

\* The tasks that the cleanup removes are those of the repository it touches.
LEMMA CleanWaiting ==
  ASSUME IInv, Cleanup
  PROVE  Waiting'
<1> USE DEF IInv, Typed
<1>1. /\ posts' = posts /\ lost' = lost /\ touched \subseteq touched'
      /\ \A j \in DOMAIN jobs' : j \in DOMAIN jobs /\ jobs'[j] = jobs[j]
  BY DEF Cleanup, CleanStart, CleanVectors, CleanStreams, CleanProgress, CleanSkips,
     CleanRows, CleanFails, rows, work, history, Restrict
<1>2. CASE CleanStreams
  <2>1. cleaner.repo \in touched
    BY <1>2 DEF CleanStreams, Clean, CleanerOK
  <2>2. \A t \in Messages : t.repo # cleaner.repo => t \in Messages'
    BY <1>2 DEF CleanStreams, Messages
  <2>3. ASSUME NEW j \in DOMAIN jobs, Waited(j)
        PROVE  Waited(j)' \/ jobs[j].repo \in touched
    BY <1>1, <2>1, <2>2, <2>3 DEF Waited, Numbered, Owns
  <2> QED
    BY <1>1, <2>3, WaitingKept
<1>3. CASE ~CleanStreams
  <2>1. Messages' = Messages
    BY <1>3 DEF Cleanup, CleanStart, CleanVectors, CleanProgress, CleanSkips,
       CleanRows, CleanFails, Messages, work
  <2> QED
    BY <1>1, <2>1, WaitedKept, WaitingKept
<1> QED
  BY <1>2, <1>3

\* The cleanup starts nothing.
LEMMA CleanStarted ==
  ASSUME IInv, Cleanup
  PROVE  Started'
<1>1. /\ stream' \subseteq stream /\ handlers' = handlers
      /\ \A j \in DOMAIN jobs' : j \in DOMAIN jobs /\ jobs'[j] = jobs[j]
  BY DEF Cleanup, CleanStart, CleanVectors, CleanStreams, CleanProgress, CleanSkips,
     CleanRows, CleanFails, rows, work, Restrict
<1> QED
  BY <1>1, StartedKept DEF IInv

-----------------------------------------------------------------------------
(* The URL and the links.                                                  *)

\* Only the insert of a POST adds a repository, and the unique URL lets it in
\* only where there is none.
LEMMA UniqueKept ==
  ASSUME IInv, Next
  PROVE  Unique'
<1> USE DEF IInv, Typed
<1>1. CASE DOMAIN repos' \subseteq DOMAIN repos
  BY <1>1 DEF Unique
<1>2. ASSUME NEW p \in Posts, Post(p), ~(DOMAIN repos' \subseteq DOMAIN repos)
      PROVE  Unique'
  <2>1. Create(p)
    BY <1>2 DEF Post, Linked, Link, Latest, Reschedule, Publish, PublishFails, rows
  <2>2. DOMAIN repos = {} /\ Created(p)
    BY <1>2, <2>1 DEF Create
  <2> QED
    BY <2>2 DEF Created, CreatedAs, Put, Unique
<1>3. Work => DOMAIN repos' = DOMAIN repos
  BY WorkRows
<1>4. Cleanup => DOMAIN repos' \subseteq DOMAIN repos
  BY DEF Cleanup, CleanStart, CleanVectors, CleanStreams, CleanProgress, CleanSkips,
     CleanRows, CleanFails, rows, Restrict
<1> QED
  BY <1>1, <1>2, <1>3, <1>4 DEF Next, FindNothing, FindRepo, Query, rows

\* A step after which the POSTs that are about to answer are as before.
LEMMA AnswerKept ==
  ASSUME AnswerHolds, touched \subseteq touched',
         \A l \in links : l \in links' \/ l.repo \in touched,
         \A p \in Posts : posts'[p].pc \in {"decide", "publish"} =>
           /\ posts[p].pc \in {"decide", "publish"}
           /\ posts'[p].user = posts[p].user /\ posts'[p].repo = posts[p].repo
  PROVE  AnswerHolds'
BY DEF AnswerHolds

\* A POST goes on to an answer only once its link is written.
LEMMA PostAnswer ==
  ASSUME IInv, NEW p \in Posts, Post(p)
  PROVE  AnswerHolds'
<1> USE LifecycleAssumption DEF IInv, Typed, At, Goto, Answer, Free, ids
<1>0. posts \in [Posts -> PostTypes]
  BY DEF PostsOK
\* All other POSTs answer as before.
<1>a. ASSUME touched' = touched, links \subseteq links',
             \A q \in Posts : q # p => posts'[q] = posts[q],
             posts'[p].pc \in {"decide", "publish"} =>
               [user |-> posts'[p].user, repo |-> posts'[p].repo] \in links'
      PROVE  AnswerHolds'
  BY <1>a DEF AnswerHolds
<1>1. CASE Create(p)
  <2>1. CASE Created(p)
    BY <1>0, <1>1, <2>1, <1>a DEF Create, Created, CreatedAs, history, PostTypes
  <2>2. CASE ~Created(p)
    BY <1>0, <1>1, <2>2, <1>a DEF Create, history, PostTypes
  <2> QED
    BY <2>1, <2>2
<1>2. CASE Linked(p)
  BY <1>0, <1>2, <1>a DEF Linked, rows, history, PostTypes
<1>3. CASE Link(p)
  BY <1>0, <1>3, <1>a DEF Link, history, PostTypes
<1>4. CASE Latest(p)
  BY <1>0, <1>4, <1>a DEF Latest, rows, history, PostTypes
<1>5. CASE Reschedule(p)
  <2>1. /\ links' = links /\ touched' = touched /\ posts[p].pc = "decide"
        /\ \A q \in Posts : q # p => posts'[q] = posts[q]
        /\ posts'[p].pc = "publish" =>
             posts'[p].user = posts[p].user /\ posts'[p].repo = posts[p].repo
        /\ posts'[p].pc \in {"free", "publish"}
    BY <1>0, <1>5 DEF Reschedule, PostTypes
  <2> QED
    BY <2>1, AnswerKept
<1>6. CASE Publish(p)
  BY <1>0, <1>6, <1>a DEF Publish, rows, history, PostTypes
<1>7. CASE PublishFails(p)
  BY <1>0, <1>7, <1>a DEF PublishFails, rows, PostTypes
<1> QED
  BY <1>1, <1>2, <1>3, <1>4, <1>5, <1>6, <1>7 DEF Post

\* Nothing but the cleanup takes a link away.
LEMMA OthersAnswer ==
  ASSUME IInv, Next, \A p \in Posts : ~Post(p)
  PROVE  AnswerHolds'
<1> USE DEF IInv, Typed
<1>1. ASSUME NEW p \in Posts, NEW u \in Users, FindNothing(p, u) \/ FindRepo(p, u)
      PROVE  AnswerHolds'
  <2>1. /\ links' = links /\ touched' = touched
        /\ \A q \in Posts : posts'[q] = posts[q] \/ posts'[q].pc \in {"create", "link"}
    BY <1>1 DEF FindNothing, FindRepo, Free, PostsOK, rows, history
  <2> QED
    BY <2>1, AnswerKept
<1>2. CASE Work
  <2>1. UNCHANGED <<links, touched, posts>>
    BY <1>2, WorkFrame
  <2> QED
    BY <2>1, AnswerKept
<1>3. CASE Cleanup
  <2>1. /\ posts' = posts /\ touched \subseteq touched'
        /\ \A l \in links : l \in links' \/ l.repo \in touched
    BY <1>3 DEF Cleanup, CleanStart, CleanVectors, CleanStreams, CleanProgress, CleanSkips,
       CleanRows, CleanFails, CleanerOK, rows, history
  <2> QED
    BY <2>1, AnswerKept
<1>4. ASSUME NEW id \in RepoIds, Query(id) PROVE AnswerHolds'
  BY <1>4, AnswerKept DEF Query, history
<1> QED
  BY <1>1, <1>2, <1>3, <1>4 DEF Next

-----------------------------------------------------------------------------
(* Theorems.                                                               *)

\* No rows, no tasks, no POST.
LEMMA Start == Init => IInv
BY LifecycleAssumption, FS_EmptySet
   DEF Init, IInv, Typed, RowsOK, PostsOK, CleanerOK, WorkOK, Numbered, Unique, Started, Waiting,
       AnswerHolds, Messages, Free, Off, PostTypes, Stages, Bound, CleanerTypes

\* The invariant is inductive.
LEMMA StepKeeps ==
  ASSUME IInv, [Next]_vars
  PROVE  IInv'
<1>1. CASE UNCHANGED vars
  BY <1>1 DEF vars, rows, work, ids, history, IInv, Typed, RowsOK, PostsOK, CleanerOK,
     WorkOK, Numbered, Owns, Messages, Unique, Started, Begun, Waiting, Waited, AnswerHolds
<1>2. ASSUME NEW p \in Posts, Post(p), Next PROVE IInv'
  BY <1>2, PostTyped, PostNumbered, PostStarted, PostWaiting, PostAnswer, UniqueKept DEF IInv
<1>3. CASE Next /\ \A p \in Posts : ~Post(p)
  <2>1. AnswerHolds' /\ Unique'
    BY <1>3, OthersAnswer, UniqueKept
  <2>2. ASSUME NEW p \in Posts, NEW u \in Users, FindNothing(p, u) \/ FindRepo(p, u)
        PROVE  Typed' /\ Numbered' /\ Started' /\ Waiting'
    <3>1. Started'
      BY <2>2, StartedKept DEF FindNothing, FindRepo, rows, work, IInv
    <3> QED
      BY <2>2, <3>1, FindTyped, FindNumbered, FindWaiting
  <2>3. CASE Work
    BY <2>1, <2>3, WorkTyped, WorkNumbered, WorkStarted, WorkWaiting DEF IInv
  <2>4. CASE Cleanup
    BY <2>1, <2>4, CleanTyped, CleanNumbered, CleanStarted, CleanWaiting DEF IInv
  <2>5. ASSUME NEW id \in RepoIds, Query(id)
        PROVE  Typed' /\ Numbered' /\ Started' /\ Waiting'
    <3>1. Waiting'
      BY <2>5, WaitedKept, WaitingKept DEF Query, Messages, work, history, IInv
    <3>2. Started'
      BY <2>5, StartedKept DEF Query, work, IInv
    <3> QED
      BY <2>5, <3>1, <3>2, QueryTyped, QueryNumbered
  <2> QED
    BY <1>3, <2>1, <2>2, <2>3, <2>4, <2>5 DEF Next, IInv
<1> QED
  BY <1>1, <1>2, <1>3

\* The inductive invariant holds for any numbers of users, POSTs and jobs.
THEOREM LifecycleInvariant == Spec => []IInv
BY Start, StepKeeps, PTL DEF Spec

\* Every variable has its type, and no row refers to a repository that the
\* cleanup has deleted.
THEOREM KeysHold == Spec => []TypeOK
<1>1. IInv => TypeOK
  BY DEF IInv, Typed, RowsOK, WorkOK, TypeOK
<1> QED
  BY <1>1, LifecycleInvariant, PTL

\* However POSTs of one new URL overlap, the URL has one repository.
THEOREM UrlUnique == Spec => []OneRepoPerUrl
<1>1. IInv => OneRepoPerUrl
  <2> SUFFICES ASSUME IInv PROVE OneRepoPerUrl
    OBVIOUS
  <2>1. CASE DOMAIN repos = {}
    BY <2>1, FS_EmptySet DEF OneRepoPerUrl
  <2>2. ASSUME NEW id \in DOMAIN repos PROVE OneRepoPerUrl
    <3>1. DOMAIN repos = {id}
      BY DEF IInv, Unique
    <3>2. Cardinality({id}) = 1
      BY FS_Singleton
    <3> QED
      BY <3>1, <3>2 DEF OneRepoPerUrl
  <2> QED
    BY <2>1, <2>2
<1> QED
  BY <1>1, LifecycleInvariant, PTL

\* A job that is "queued" has a message or a POST that will publish it, unless
\* that publish failed, its message was dead-lettered without its rows having
\* been read, or a cleanup began on its repository.
THEOREM NoJobForgotten == Spec => []QueuedHasTask
<1>1. IInv => QueuedHasTask
  BY DEF IInv, Waiting, Waited, QueuedHasTask
<1> QED
  BY <1>1, LifecycleInvariant, PTL

\* Who is told that the repository is there is linked to it.
THEOREM LinkPromised == Spec => []AnswerHolds
BY LifecycleInvariant, PTL DEF IInv
=============================================================================
