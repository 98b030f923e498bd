-------------------------- MODULE RepoCleanupProofs --------------------------
(***************************************************************************)
(* The tasks of one URL, for any number of users, POSTs, repositories,     *)
(* jobs and files: a repository is ingested by one job at a time, and a    *)
(* cleanup that nobody met leaves nothing of it.                           *)
(***************************************************************************)
EXTENDS RepoLifecycleProofs

\* The number of a repository is in use only once it has been given out.
Dated ==
  /\ \A t \in Messages : t.repo < nextRepo
  /\ \A p \in Posts : posts[p].repo < nextRepo
  /\ \A k \in progress : k.repo < nextRepo
  /\ \A id \in DOMAIN repos \cup touched : id \in 1 .. nextRepo - 1

\* While the row of a repository is there, so are the jobs that its tasks, its
\* POSTs and its progress hashes speak of.
Rowed ==
  /\ \A t \in Messages : t.repo \in DOMAIN repos => t.job \in DOMAIN jobs
  /\ \A p \in Posts :
       posts[p].pc = "publish" /\ posts[p].repo \in DOMAIN repos =>
         posts[p].job \in DOMAIN jobs
  /\ \A k \in progress : k.repo \in DOMAIN repos =>
       k.job \in DOMAIN jobs /\ jobs[k.job].repo = k.repo
  /\ cleaner.pc # "off" => cleaner.repo \in DOMAIN repos

\* One job is under way; and none for a repository "failed", unless a worker
\* marked it so too early.
Single ==
  /\ \A id \in DOMAIN repos \ doubled : \A j, k \in UnderWay(id) : j = k
  /\ \A id \in DOMAIN repos \ early : repos[id] = "failed" => UnderWay(id) = {}

\* Nobody works on the repository.
Quiet(id) ==
  /\ \A h \in handlers : h.task.repo # id
  /\ \A p \in Posts : posts[p].repo # id
\* What the cleanup of the repository has removed so far, all of it when it
\* is over.
Swept(id) ==
  /\ cleaner.repo # id \/ cleaner.pc \notin {"vectors"} => id \notin vectors
  /\ cleaner.repo # id \/ cleaner.pc \notin {"vectors", "streams"} =>
       \A t \in stream : t.repo # id
  /\ cleaner.repo # id \/ cleaner.pc \notin {"vectors", "streams", "progress"} =>
       \A k \in progress : k.repo # id
\* A cleanup begun on the repository failed in the end and will not be run
\* again, or it has met nobody.
Emptied ==
  \A id \in touched \ disturbed :
    \/ id \in DOMAIN repos /\ cleaner.repo # id
    \/ Quiet(id) /\ Swept(id)

CInv == IInv /\ Dated /\ Rowed /\ Single /\ Emptied

-----------------------------------------------------------------------------
(* The numbers of repositories.                                            *)

\* A POST takes the number of the repository it creates from the sequence, all
\* others it has from the table.
LEMMA PostDated ==
  ASSUME CInv, NEW p \in Posts, Post(p)
  PROVE  Dated'
<1> USE DEF CInv, IInv, Typed, At, Goto, Answer, Free, ids
<1>0. posts \in [Posts -> PostTypes] /\ nextRepo \in Nat \ {0} /\ \A q \in Posts : posts[q].repo \in Nat
  BY DEF PostsOK, RowsOK, PostTypes, RepoIds
\* A step that changes no number.
<1>a. ASSUME UNCHANGED <<stream, handlers, progress, touched, nextRepo>>,
             DOMAIN repos' = DOMAIN repos,
             \A q \in Posts : posts'[q].repo \in {posts[q].repo, 0}
      PROVE  Dated'
  BY <1>0, <1>a DEF Dated, Messages
<1>1. CASE Create(p)
  <2>1. CASE Created(p)
    <3>1. /\ UNCHANGED <<stream, handlers, progress, touched>> /\ nextRepo' = nextRepo + 1
          /\ DOMAIN repos' = DOMAIN repos \cup {nextRepo}
          /\ \A q \in Posts : posts'[q].repo \in {posts[q].repo, nextRepo}
      BY <1>0, <1>1, <2>1 DEF Create, Created, CreatedAs, Put, work, history, PostTypes
    <3>2. \A t \in Messages : t.repo \in Nat
      BY DEF Messages, WorkOK, Tasks, RepoIds
    <3>3. \A k \in progress : k.repo \in Nat
      BY DEF WorkOK, RepoIds
    <3> QED
      BY <1>0, <3>1, <3>2, <3>3 DEF Dated, Messages
  <2>2. CASE ~Created(p)
    BY <1>0, <1>1, <2>2, <1>a DEF Create, work, history, PostTypes
  <2> QED
    BY <2>1, <2>2
<1>2. CASE Linked(p)
  BY <1>0, <1>2, <1>a DEF Linked, rows, work, history, PostTypes
<1>3. CASE Link(p)
  BY <1>0, <1>3, <1>a DEF Link, work, history, PostTypes
<1>4. CASE Latest(p)
  BY <1>0, <1>4, <1>a DEF Latest, rows, work, history, PostTypes
<1>5. CASE Reschedule(p)
  BY <1>0, <1>5, <1>a DEF Reschedule, work, PostTypes
<1>6. CASE Publish(p)
  <2>1. /\ Messages' = Messages \cup
             {[job |-> posts[p].job, repo |-> posts[p].repo, queue |-> "fetch",
               file |-> NoFile, retries |-> 0]}
        /\ UNCHANGED <<progress, touched, nextRepo, repos>>
        /\ \A q \in Posts : posts'[q].repo \in {posts[q].repo, 0}
    BY <1>0, <1>6 DEF Publish, Messages, rows, history, PostTypes
  <2> QED
    BY <1>0, <2>1 DEF Dated
<1>7. CASE PublishFails(p)
  BY <1>0, <1>7, <1>a DEF PublishFails, rows, work, PostTypes
<1> QED
  BY <1>1, <1>2, <1>3, <1>4, <1>5, <1>6, <1>7 DEF Post

\* No other step gives out a number.
LEMMA OthersDated ==
  ASSUME CInv, Next, \A p \in Posts : ~Post(p)
  PROVE  Dated'
<1> USE DEF CInv, IInv, Typed, ids
<1>0. nextRepo \in Nat \ {0}
  BY DEF RowsOK
<1>1. ASSUME NEW p \in Posts, NEW u \in Users, FindNothing(p, u) \/ FindRepo(p, u)
      PROVE  Dated'
  <2>1. /\ UNCHANGED <<stream, handlers, progress, touched, nextRepo, repos>>
        /\ \A q \in Posts : \/ posts'[q].repo \in {posts[q].repo, 0}
                            \/ posts'[q].repo \in DOMAIN repos
    BY <1>1 DEF FindNothing, FindRepo, Free, PostsOK, rows, work, history
  <2> QED
    BY <1>0, <2>1 DEF Dated, Messages
<1>2. CASE Work
  <2>1. UNCHANGED <<posts, touched, nextRepo>> /\ DOMAIN repos' = DOMAIN repos
    BY <1>2, WorkRows, WorkFrame DEF ids
  <2>2. \A t \in Messages' : \E u \in Messages : t.job = u.job /\ t.repo = u.repo
    BY <1>2, SameJobs
  <2>3. \A k \in progress' : k \in progress \/ \E u \in Messages : k.repo = u.repo
    BY <1>2, Written DEF Hash, Messages
  <2> QED
    BY <2>1, <2>2, <2>3 DEF Dated
<1>3. CASE Cleanup
  <2>1. /\ UNCHANGED <<posts, nextRepo>> /\ DOMAIN repos' \subseteq DOMAIN repos
        /\ touched' \subseteq touched \cup DOMAIN repos
        /\ Messages' \subseteq Messages /\ progress' \subseteq progress
    BY <1>3 DEF Cleanup, CleanStart, CleanVectors, CleanStreams, CleanProgress, CleanSkips,
       CleanRows, CleanFails, Messages, rows, work, history, Restrict
  <2> QED
    BY <2>1 DEF Dated
<1>4. ASSUME NEW id \in RepoIds, Query(id) PROVE Dated'
  BY <1>4 DEF Query, Dated, Messages, work, history
<1> QED
  BY <1>1, <1>2, <1>3, <1>4 DEF Next

-----------------------------------------------------------------------------
(* The rows that tasks, POSTs and progress hashes speak of.                *)

\* A step that adds no repository, and takes no job from one that stays.
LEMMA RowedKept ==
  ASSUME Rowed, DOMAIN repos' \subseteq DOMAIN repos,
         \A j \in DOMAIN jobs :
           \/ j \in DOMAIN jobs' /\ jobs'[j].repo = jobs[j].repo
           \/ jobs[j].repo \notin DOMAIN repos',
         Numbered,
         \A t \in Messages' : \E u \in Messages : t.repo = u.repo /\ t.job = u.job,
         \A p \in Posts : posts'[p].pc = "publish" => posts'[p] = posts[p],
         \A k \in progress' : k \in progress
           \/ \E u \in Messages : k.repo = u.repo /\ k.job = u.job,
         cleaner'.pc # "off" => cleaner'.repo \in DOMAIN repos'
  PROVE  Rowed'
<1>1. ASSUME NEW t \in Messages', t.repo \in DOMAIN repos' PROVE t.job \in DOMAIN jobs'
  BY <1>1 DEF Rowed, Numbered, Owns
<1>2. ASSUME NEW p \in Posts, posts'[p].pc = "publish", posts'[p].repo \in DOMAIN repos'
      PROVE  posts'[p].job \in DOMAIN jobs'
  BY <1>2 DEF Rowed, Numbered, Owns
<1>3. ASSUME NEW k \in progress', k.repo \in DOMAIN repos'
      PROVE  k.job \in DOMAIN jobs' /\ jobs'[k.job].repo = k.repo
  <2>1. k.job \in DOMAIN jobs /\ jobs[k.job].repo = k.repo
    BY <1>3 DEF Rowed, Numbered, Owns
  <2> QED
    BY <1>3, <2>1
<1> QED
  BY <1>1, <1>2, <1>3 DEF Rowed

\* A POST inserts the job it will publish.
LEMMA PostRowed ==
  ASSUME CInv, NEW p \in Posts, Post(p)
  PROVE  Rowed'
<1> USE DEF CInv, IInv, Typed, At, Goto, Answer, Free, ids
<1>0. posts \in [Posts -> PostTypes] /\ nextRepo \in Nat \ {0} /\ nextJob \in Nat \ {0}
  BY DEF PostsOK, RowsOK
<1>a. ASSUME UNCHANGED <<stream, handlers, progress, jobs, repos, cleaner>>,
             \A q \in Posts : posts'[q].pc = "publish" => posts'[q] = posts[q]
      PROVE  Rowed'
  BY <1>a DEF Rowed, Messages
\* A job is added for a repository.
<1>b. ASSUME NEW id, UNCHANGED <<stream, handlers, progress, cleaner>>,
             jobs' = Put(jobs, nextJob, [repo |-> id, status |-> "queued"]),
             \A x \in DOMAIN repos' : x \in DOMAIN repos \/ x = nextRepo,
             DOMAIN repos \subseteq DOMAIN repos',
             \A q \in Posts : posts'[q].pc = "publish" =>
               posts'[q] = posts[q] \/ posts'[q].job = nextJob
      PROVE  Rowed'
  <2>1. DOMAIN jobs' = DOMAIN jobs \cup {nextJob}
        /\ \A j \in DOMAIN jobs : jobs'[j] = jobs[j]
    BY <1>b DEF Put, RowsOK
  <2>2. \A q \in Posts : posts[q].repo # nextRepo
    BY <1>0 DEF Dated
  <2>3. \A t \in Messages : t.repo # nextRepo
    BY <1>0 DEF Dated
  <2>4. \A k \in progress : k.repo # nextRepo
    BY <1>0 DEF Dated
  <2> QED
    BY <1>b, <2>1, <2>2, <2>3, <2>4 DEF Rowed, Messages
<1>1. CASE Create(p)
  <2>1. CASE Created(p)
    <3>1. DOMAIN repos' = DOMAIN repos \cup {nextRepo}
      BY <2>1 DEF Created, CreatedAs, Put
    <3> QED
      BY <1>0, <1>1, <2>1, <3>1, <1>b DEF Create, Created, CreatedAs, work, PostTypes
  <2>2. CASE ~Created(p)
    BY <1>0, <1>1, <2>2, <1>a DEF Create, work, PostTypes
  <2> QED
    BY <2>1, <2>2
<1>2. CASE Linked(p)
  BY <1>0, <1>2, <1>a DEF Linked, rows, work, PostTypes
<1>3. CASE Link(p)
  BY <1>0, <1>3, <1>a DEF Link, work, PostTypes
<1>4. CASE Latest(p)
  BY <1>0, <1>4, <1>a DEF Latest, rows, work, PostTypes
<1>5. CASE Reschedule(p)
  <2>1. CASE posts[p].repo \in DOMAIN repos
    BY <1>0, <1>5, <2>1, <1>b DEF Reschedule, work, PostTypes
  <2>2. CASE posts[p].repo \notin DOMAIN repos
    BY <1>0, <1>5, <2>2, <1>a DEF Reschedule, work, PostTypes
  <2> QED
    BY <2>1, <2>2
<1>6. CASE Publish(p)
  <2>1. /\ Messages' = Messages \cup
             {[job |-> posts[p].job, repo |-> posts[p].repo, queue |-> "fetch",
               file |-> NoFile, retries |-> 0]}
        /\ UNCHANGED <<progress, jobs, repos, cleaner>> /\ posts[p].pc = "publish"
        /\ \A q \in Posts : posts'[q].pc = "publish" => posts'[q] = posts[q]
    BY <1>0, <1>6 DEF Publish, Messages, rows, PostTypes
  <2> QED
    BY <2>1 DEF Rowed
<1>7. CASE PublishFails(p)
  BY <1>0, <1>7, <1>a DEF PublishFails, rows, work, PostTypes
<1> QED
  BY <1>1, <1>2, <1>3, <1>4, <1>5, <1>6, <1>7 DEF Post

\* The worker writes the progress of its task; the cleanup deletes the jobs of
\* one repository together with it.
LEMMA OthersRowed ==
  ASSUME CInv, Next, \A p \in Posts : ~Post(p)
  PROVE  Rowed'
<1> USE DEF CInv, IInv, Typed, ids
<1>1. ASSUME NEW p \in Posts, NEW u \in Users, FindNothing(p, u) \/ FindRepo(p, u)
      PROVE  Rowed'
  <2>1. /\ UNCHANGED <<stream, handlers, progress, repos, jobs, cleaner>>
        /\ \A q \in Posts : posts'[q].pc = "publish" => posts'[q] = posts[q]
    BY <1>1 DEF FindNothing, FindRepo, Free, PostsOK, rows, work, history
  <2> QED
    BY <2>1 DEF Rowed, Messages
<1>2. CASE Work
  <2>1. /\ UNCHANGED <<posts, cleaner>> /\ DOMAIN repos' = DOMAIN repos
        /\ DOMAIN jobs' = DOMAIN jobs /\ \A j \in DOMAIN jobs : jobs'[j].repo = jobs[j].repo
    BY <1>2, WorkRows, WorkFrame
  <2>2. cleaner'.pc # "off" => cleaner'.repo \in DOMAIN repos'
    BY <2>1 DEF Rowed
  <2>3. \A t \in Messages' : \E u \in Messages : t.repo = u.repo /\ t.job = u.job
    BY <1>2, SameJobs
  <2>4. \A k \in progress' : k \in progress
           \/ \E u \in Messages : k.repo = u.repo /\ k.job = u.job
    BY <1>2, Written DEF Hash, Messages
  <2> QED
    BY <2>1, <2>2, <2>3, <2>4, RowedKept
<1>3. CASE Cleanup
  <2>1. /\ UNCHANGED posts /\ DOMAIN repos' \subseteq DOMAIN repos
        /\ Messages' \subseteq Messages /\ progress' \subseteq progress
    BY <1>3 DEF Cleanup, CleanStart, CleanVectors, CleanStreams, CleanProgress, CleanSkips,
       CleanRows, CleanFails, Messages, rows, work, history, Restrict
  <2>2. \A j \in DOMAIN jobs :
           \/ j \in DOMAIN jobs' /\ jobs'[j].repo = jobs[j].repo
           \/ jobs[j].repo \notin DOMAIN repos'
    BY <1>3 DEF Cleanup, CleanStart, CleanVectors, CleanStreams, CleanProgress, CleanSkips,
       CleanRows, CleanFails, rows, Restrict, JobsOf
  <2>3. cleaner'.pc # "off" => cleaner'.repo \in DOMAIN repos'
    BY <1>3 DEF Cleanup, CleanStart, CleanVectors, CleanStreams, CleanProgress, CleanSkips,
       CleanRows, CleanFails, Clean, rows, Rowed, CleanerOK, CleanerTypes, Off
  <2> QED
    BY <2>1, <2>2, <2>3, RowedKept
<1>4. ASSUME NEW id \in RepoIds, Query(id) PROVE Rowed'
  BY <1>4 DEF Query, Rowed, Messages, work, history
<1> QED
  BY <1>1, <1>2, <1>3, <1>4 DEF Next
-----------------------------------------------------------------------------
(* One job.                                                                *)

\* What keeps a job under way.
LEMMA UnderWayIs ==
  ASSUME NEW id, NEW j
  PROVE  j \in UnderWay(id) <=>
           \/ \E t \in stream : t.repo = id /\ t.job = j
           \/ \E h \in handlers : h.task.repo = id /\ h.pc # "giveup" /\ h.task.job = j
           \/ \E p \in Posts : posts[p].pc = "publish" /\ posts[p].repo = id
                              /\ posts[p].job = j
BY DEF UnderWay

\* A step that starts no job, and marks no repository "failed" too early
\* without saying so.
LEMMA SingleKept ==
  ASSUME Single, DOMAIN repos' \subseteq DOMAIN repos, doubled \subseteq doubled',
         \A id \in DOMAIN repos' :
           /\ UnderWay(id)' \subseteq UnderWay(id)
           /\ repos'[id] = "failed" /\ id \notin early' =>
                (repos[id] = "failed" /\ id \notin early) \/ UnderWay(id)' = {}
  PROVE  Single'
<1>1. ASSUME NEW id \in DOMAIN repos' \ doubled', NEW j \in UnderWay(id)',
             NEW k \in UnderWay(id)'
      PROVE  j = k
  BY <1>1 DEF Single
<1>2. ASSUME NEW id \in DOMAIN repos' \ early', repos'[id] = "failed"
      PROVE  UnderWay(id)' = {}
  BY <1>2 DEF Single
<1> QED
  BY <1>1, <1>2 DEF Single

\* Tasks and publishing POSTs that were there before keep no other job going.
LEMMA FewerUnderWay ==
  ASSUME NEW id, stream' \subseteq stream, handlers' = handlers,
         \A p \in Posts : posts'[p].pc = "publish" => posts'[p] = posts[p]
  PROVE  UnderWay(id)' \subseteq UnderWay(id)
<1> SUFFICES ASSUME NEW j \in UnderWay(id)' PROVE j \in UnderWay(id)
  OBVIOUS
<1>1. \/ \E t \in stream' : t.repo = id /\ t.job = j
      \/ \E h \in handlers' : h.task.repo = id /\ h.pc # "giveup" /\ h.task.job = j
      \/ \E p \in Posts : posts'[p].pc = "publish" /\ posts'[p].repo = id
                         /\ posts'[p].job = j
  BY UnderWayIs DEF UnderWay
<1> QED
  BY <1>1, UnderWayIs

\* A new job is scheduled only for a repository without one: a new one, or one
\* that a POST sees "failed" while nothing of it is under way.
LEMMA PostSingle ==
  ASSUME CInv, NEW p \in Posts, Post(p)
  PROVE  Single'
<1> USE DEF CInv, IInv, Typed, At, Goto, Answer, Free, ids
<1>0. posts \in [Posts -> PostTypes] /\ nextRepo \in Nat \ {0}
  BY DEF PostsOK, RowsOK
<1>a. ASSUME stream' = stream, UNCHANGED <<handlers, repos, doubled, early>>,
             \A q \in Posts : posts'[q].pc = "publish" => posts'[q] = posts[q]
      PROVE  Single'
  BY <1>a, FewerUnderWay, SingleKept
\* The job of one POST is added.
<1>b. ASSUME stream' = stream, handlers' = handlers,
             \A q \in Posts : q # p => posts'[q] = posts[q],
             NEW id
      PROVE  /\ id # posts'[p].repo => UnderWay(id)' \subseteq UnderWay(id)
             /\ UnderWay(id)' \subseteq UnderWay(id) \cup {posts'[p].job}
  BY <1>b DEF UnderWay
<1>1. CASE Create(p)
  <2>1. CASE Created(p)
    <3>0. PICK n \in Nat : n = nextRepo
      BY <1>0
    <3>1. /\ stream' = stream /\ handlers' = handlers /\ repos'[n] = "queued"
          /\ DOMAIN repos' = {n}
          /\ \A q \in Posts : q # p => posts'[q] = posts[q]
      BY <1>0, <1>1, <2>1, <3>0 DEF Create, Created, CreatedAs, Put, work
    <3>2. UnderWay(n) = {}
      <4>1. \A t \in stream : t.repo # n
        BY <1>0, <3>0 DEF Dated, Messages
      <4>2. \A h \in handlers : h.task.repo # n
        BY <1>0, <3>0 DEF Dated, Messages
      <4>3. \A q \in Posts : posts[q].repo # n
        BY <1>0, <3>0 DEF Dated
      <4> QED
        BY <4>1, <4>2, <4>3 DEF UnderWay
    <3>3. UnderWay(n)' \subseteq {posts'[p].job}
      BY <1>b, <3>1, <3>2
    <3> QED
      BY <3>1, <3>3 DEF Single
  <2>2. CASE ~Created(p)
    BY <1>0, <1>1, <2>2, <1>a DEF Create, work, history, PostTypes
  <2> QED
    BY <2>1, <2>2
<1>2. CASE Linked(p)
  BY <1>0, <1>2, <1>a DEF Linked, rows, work, history, PostTypes
<1>3. CASE Link(p)
  BY <1>0, <1>3, <1>a DEF Link, work, history, PostTypes
<1>4. CASE Latest(p)
  BY <1>0, <1>4, <1>a DEF Latest, rows, work, history, PostTypes
<1>5. CASE Reschedule(p)
  <2>0. PICK id : id = posts[p].repo
    OBVIOUS
  <2>1. CASE id \in DOMAIN repos
    <3>1. /\ stream' = stream /\ UNCHANGED <<handlers, early>> /\ doubled \subseteq doubled'
          /\ Overlapping(p) => id \in doubled'
          /\ DOMAIN repos' = DOMAIN repos /\ repos'[id] = "queued"
          /\ \A x \in DOMAIN repos : x # id => repos'[x] = repos[x]
          /\ \A q \in Posts : q # p => posts'[q] = posts[q]
          /\ posts'[p].repo = id /\ posts[p].seen \notin Active
      BY <1>0, <1>5, <2>0, <2>1 DEF Reschedule, work, PostTypes
    <3>2. \A x : x # id => UnderWay(x)' \subseteq UnderWay(x)
      BY <1>b, <3>1
    <3>3. ASSUME id \notin doubled' PROVE UnderWay(id) = {}
      <4>1. repos[id] = posts[p].seen /\ id \notin early
        BY <2>0, <3>1, <3>3 DEF Overlapping
      <4>2. repos[id] = "failed"
        BY <2>1, <3>1, <4>1 DEF RowsOK
      <4> QED
        BY <2>1, <4>1, <4>2 DEF Single
    <3>4. UnderWay(id)' \subseteq UnderWay(id) \cup {posts'[p].job}
      BY <1>b, <3>1
    <3>5. ASSUME NEW x \in DOMAIN repos' \ doubled', NEW j \in UnderWay(x)',
                 NEW k \in UnderWay(x)'
          PROVE  j = k
      <4>1. CASE x = id
        BY <3>3, <3>4, <3>5, <4>1
      <4>2. CASE x # id
        BY <3>1, <3>2, <3>5, <4>2 DEF Single
      <4> QED
        BY <4>1, <4>2
    <3>6. ASSUME NEW x \in DOMAIN repos' \ early', repos'[x] = "failed"
          PROVE  UnderWay(x)' = {}
      BY <3>1, <3>2, <3>6 DEF Single
    <3> QED
      BY <3>5, <3>6 DEF Single
  <2>2. CASE id \notin DOMAIN repos
    BY <1>0, <1>5, <2>0, <2>2, <1>a DEF Reschedule, work, PostTypes
  <2> QED
    BY <2>1, <2>2
<1>6. CASE Publish(p)
  <2>0. PICK new : /\ new = [job |-> posts[p].job, repo |-> posts[p].repo,
                             queue |-> "fetch", file |-> NoFile, retries |-> 0]
    OBVIOUS
  <2>1. /\ stream' = stream \cup {new} /\ new.repo = posts[p].repo
        /\ new.job = posts[p].job
        /\ UNCHANGED <<handlers, repos, doubled, early>>
        /\ \A q \in Posts : q # p => posts'[q] = posts[q]
        /\ posts[p].pc = "publish" /\ posts'[p].pc = "free"
    BY <1>0, <1>6, <2>0 DEF Publish, rows, history
  <2> HIDE <2>0
  <2>2. ASSUME NEW id, NEW j \in UnderWay(id)' PROVE j \in UnderWay(id)
    <3>1. \/ \E t \in stream' : t.repo = id /\ t.job = j
          \/ \E h \in handlers' : h.task.repo = id /\ h.pc # "giveup" /\ h.task.job = j
          \/ \E q \in Posts : posts'[q].pc = "publish" /\ posts'[q].repo = id
                             /\ posts'[q].job = j
      BY <2>2 DEF UnderWay
    <3> QED
      BY <2>1, <3>1, UnderWayIs
  <2> QED
    BY <2>1, <2>2, SingleKept
<1>7. CASE PublishFails(p)
  BY <1>0, <1>7, <1>a DEF PublishFails, rows, work, PostTypes
<1> QED
  BY <1>1, <1>2, <1>3, <1>4, <1>5, <1>6, <1>7 DEF Post

\* A worker keeps the job going that it has in hand, and no other.
LEMMA WorkUnderWay ==
  ASSUME WorkOK, Work, NEW id
  PROVE  UnderWay(id)' \subseteq UnderWay(id)
<1> SUFFICES ASSUME NEW j \in UnderWay(id)' PROVE j \in UnderWay(id)
  OBVIOUS
<1>1. \/ \E t \in stream' : t.repo = id /\ t.job = j
      \/ \E h \in handlers' : h.task.repo = id /\ h.pc # "giveup" /\ h.task.job = j
      \/ \E p \in Posts : posts'[p].pc = "publish" /\ posts'[p].repo = id
                         /\ posts'[p].job = j
  BY DEF UnderWay
<1>2. ASSUME NEW t \in stream', t.repo = id, t.job = j PROVE j \in UnderWay(id)
  <2>1. CASE t \in stream
    BY <1>2, <2>1, UnderWayIs
  <2>2. CASE t \notin stream
    <3>1. PICK h \in handlers : /\ t.job = h.task.job /\ t.repo = h.task.repo
                                /\ h.pc \in {"work", "finish", "retry"}
      BY <2>2, Streamed
    <3> QED
      BY <1>2, <3>1, UnderWayIs
  <2> QED
    BY <2>1, <2>2
<1>3. ASSUME NEW g \in handlers', g.task.repo = id, g.pc # "giveup", g.task.job = j
      PROVE  j \in UnderWay(id)
  <2>1. CASE g \in handlers
    BY <1>3, <2>1, UnderWayIs
  <2>2. CASE g \notin handlers
    <3>1. \/ \E t \in stream : g.task = t
          \/ \E h \in handlers : g.task = h.task /\ h.pc \in {"work", "finish"}
      BY <2>2, InHand
    <3> QED
      BY <1>3, <3>1, UnderWayIs
  <2> QED
    BY <2>1, <2>2
<1>4. posts' = posts
  BY WorkFrame
<1> QED
  BY <1>1, <1>2, <1>3, <1>4, UnderWayIs

\* A worker that marks a repository "failed" too early is noticed.
LEMMA WorkMarks ==
  ASSUME RowsOK, Work, NEW id \in DOMAIN repos, repos'[id] = "failed", id \notin early'
  PROVE  (repos[id] = "failed" /\ id \notin early) \/ UnderWay(id)' = {}
<1>1. ASSUME NEW t, MarkFailed(t)
      PROVE  (repos[id] = "failed" /\ id \notin early) \/ UnderWay(id)' = {}
  <2>1. CASE id = t.repo
    BY <1>1, <2>1 DEF MarkFailed
  <2>2. CASE id # t.repo
    BY <1>1, <2>2 DEF MarkFailed, SetStatus
  <2> QED
    BY <2>1, <2>2
<1>2. ASSUME early' = early, NEW t, NEW r, NEW s, r # "failed", SetStatus(t, r, s)
      PROVE  repos[id] = "failed" /\ id \notin early
  BY <1>2 DEF SetStatus
<1>3. ASSUME NEW t \in stream, Begin(t) PROVE repos[id] = "failed" /\ id \notin early
  BY <1>2, <1>3 DEF Begin
<1>4. ASSUME NEW h \in handlers, Fetched(h) PROVE repos[id] = "failed" /\ id \notin early
  BY <1>4 DEF Fetched, history
<1>5. ASSUME NEW h \in handlers, Stored(h) PROVE repos[id] = "failed" /\ id \notin early
  BY <1>2, <1>5 DEF Stored, history
<1>6. ASSUME NEW h \in handlers, Empty(h) \/ Raise(h)
      PROVE  (repos[id] = "failed" /\ id \notin early) \/ UnderWay(id)' = {}
  BY <1>1, <1>6 DEF Empty, Raise
<1> QED
  BY <1>3, <1>4, <1>5, <1>6
     DEF Work, Drop, Unread, List, Skip, Process, HandOver, Store, Republish, DeadLetter,
         rows, history

\* Nothing but a POST starts a job.
LEMMA OthersSingle ==
  ASSUME CInv, Next, \A p \in Posts : ~Post(p)
  PROVE  Single'
<1> USE DEF CInv, IInv, Typed
<1>1. ASSUME NEW p \in Posts, NEW u \in Users, FindNothing(p, u) \/ FindRepo(p, u)
      PROVE  Single'
  <2>1. /\ stream' = stream /\ UNCHANGED <<handlers, repos, doubled, early>>
        /\ \A q \in Posts : posts'[q].pc = "publish" => posts'[q] = posts[q]
    BY <1>1 DEF FindNothing, FindRepo, Free, PostsOK, rows, work, history
  <2> QED
    BY <2>1, FewerUnderWay, SingleKept
<1>2. CASE Work
  <2>1. DOMAIN repos' = DOMAIN repos /\ doubled' = doubled
    BY <1>2, WorkRows, WorkFrame
  <2> QED
    BY <1>2, <2>1, WorkUnderWay, WorkMarks, SingleKept
<1>3. CASE Cleanup
  <2>1. /\ UNCHANGED <<posts, doubled, early>>
        /\ stream' \subseteq stream /\ handlers' = handlers
        /\ \A id \in DOMAIN repos' : id \in DOMAIN repos /\ repos'[id] = repos[id]
    BY <1>3 DEF Cleanup, CleanStart, CleanVectors, CleanStreams, CleanProgress, CleanSkips,
       CleanRows, CleanFails, rows, work, history, Restrict
  <2> QED
    BY <2>1, FewerUnderWay, SingleKept
<1>4. ASSUME NEW id \in RepoIds, Query(id) PROVE Single'
  <2>1. UNCHANGED <<stream, handlers, posts, repos, doubled, early>>
    BY <1>4 DEF Query, work, history
  <2> QED
    BY <2>1, FewerUnderWay, SingleKept
<1> QED
  BY <1>1, <1>2, <1>3, <1>4 DEF Next

-----------------------------------------------------------------------------
(* What a cleanup leaves.                                                  *)

\* A step beside the cleanup that meets none of its work.
LEMMA EmptiedKept ==
  ASSUME Emptied, cleaner' = cleaner, touched' = touched, disturbed \subseteq disturbed',
         DOMAIN repos \subseteq DOMAIN repos',
         \A id \in touched \ disturbed' :
           Quiet(id) /\ Swept(id) /\ (cleaner.repo = id \/ id \notin DOMAIN repos) =>
             /\ Quiet(id)'
             /\ \A t \in stream' : t.repo = id => t \in stream
             /\ \A k \in progress' : k.repo = id => k \in progress
             /\ id \in vectors' => id \in vectors
  PROVE  Emptied'
<1> SUFFICES ASSUME NEW id \in touched \ disturbed'
             PROVE  \/ id \in DOMAIN repos' /\ cleaner'.repo # id
                    \/ Quiet(id)' /\ Swept(id)'
  BY DEF Emptied
<1>1. CASE id \in DOMAIN repos /\ cleaner.repo # id
  BY <1>1
<1>2. CASE ~(id \in DOMAIN repos /\ cleaner.repo # id)
  <2>1. Quiet(id) /\ Swept(id)
    BY <1>2 DEF Emptied
  <2>2. /\ Quiet(id)'
        /\ \A t \in stream' : t.repo = id => t \in stream
        /\ \A k \in progress' : k.repo = id => k \in progress
        /\ id \in vectors' => id \in vectors
    BY <1>2, <2>1
  <2> QED
    BY <2>1, <2>2 DEF Swept
<1> QED
  BY <1>1, <1>2

\* A POST of the URL works on another repository, or found the one that is
\* being cleaned up.
LEMMA PostEmptied ==
  ASSUME CInv, NEW p \in Posts, Post(p)
  PROVE  Emptied'
<1> USE DEF CInv, IInv, Typed, At, Goto, Answer, Free, ids
<1>0. posts \in [Posts -> PostTypes] /\ nextRepo \in Nat \ {0}
  BY DEF PostsOK, RowsOK
<1>1. \A id \in touched : id # nextRepo /\ id # 0
  BY <1>0 DEF Dated
<1>2. /\ UNCHANGED <<cleaner, touched, disturbed, handlers, progress, vectors>>
  BY DEF Post, Create, Linked, Link, Latest, Reschedule, Publish, PublishFails, rows, work, history
<1>3. DOMAIN repos \subseteq DOMAIN repos'
  BY DEF Post, Create, Created, CreatedAs, Put, Linked, Link, Latest, Reschedule, Publish,
     PublishFails, rows
<1>4. \A q \in Posts : posts'[q].repo \in {posts[q].repo, nextRepo, 0}
  BY <1>0 DEF Post, Create, Created, CreatedAs, Linked, Link, Latest, Reschedule, Publish,
     PublishFails, PostTypes
<1>5. \A t \in stream' : t \in stream \/ t.repo = posts[p].repo
  BY DEF Post, Create, Linked, Link, Latest, Reschedule, Publish, PublishFails, work
<1> QED
  BY <1>1, <1>2, <1>3, <1>4, <1>5, EmptiedKept DEF Quiet

\* A worker that takes up a task of the repository is noticed.
LEMMA WorkEmptied ==
  ASSUME CInv, Work
  PROVE  Emptied'
<1> USE DEF CInv, IInv, Typed
<1>1. /\ UNCHANGED <<cleaner, touched, posts>> /\ DOMAIN repos' = DOMAIN repos
  BY WorkRows, WorkFrame
<1>2. disturbed \subseteq disturbed'
  BY DEF Work, Drop, Begin, Unread, Take, Empty, List, Fetched, Skip, Process, HandOver,
     Store, Stored, Raise, Republish, DeadLetter, history, Disturbs
<1>3. ASSUME NEW id \in touched \ disturbed', Quiet(id), Swept(id),
             cleaner.repo = id \/ id \notin DOMAIN repos
      PROVE  /\ Quiet(id)'
             /\ \A t \in stream' : t.repo = id => t \in stream
             /\ \A k \in progress' : k.repo = id => k \in progress
             /\ id \in vectors' => id \in vectors
  <2>1. \A h \in handlers : h.task.repo # id
    BY <1>3 DEF Quiet
  <2>2. ASSUME NEW t \in stream', t.repo = id PROVE t \in stream
    BY <2>1, <2>2, Streamed
  <2>3. ASSUME NEW g \in handlers', g.task.repo = id PROVE FALSE
    <3>1. g \notin handlers
      BY <2>1, <2>3
    <3>2. PICK t \in stream : g.task = t /\ (Begin(t) \/ Unread(t))
      BY <2>1, <2>3, <3>1, InHand
    <3>3. cleaner.repo # id
      BY <1>3, <2>3, <3>2 DEF Begin, Unread, Take, Disturbs
    <3> QED
      BY <1>3, <2>3, <3>2, <3>3 DEF Swept
  <2>4. /\ \A k \in progress' : k.repo = id => k \in progress
        /\ id \in vectors' => id \in vectors
    BY <2>1, Written DEF Hash
  <2> QED
    BY <1>1, <1>3, <2>2, <2>3, <2>4 DEF Quiet
<1> QED
  BY <1>1, <1>2, <1>3, EmptiedKept

\* Each step of the cleanup removes what it says, and the last one the row.
LEMMA CleanEmptied ==
  ASSUME CInv, Cleanup
  PROVE  Emptied'
<1> USE DEF CInv, IInv, Typed, Clean
<1>0. /\ posts' = posts /\ handlers' \subseteq handlers /\ stream' \subseteq stream
      /\ progress' \subseteq progress /\ vectors' \subseteq vectors
      /\ touched \subseteq touched' /\ disturbed \subseteq disturbed'
  BY DEF Cleanup, CleanStart, CleanVectors, CleanStreams, CleanProgress, CleanSkips,
     CleanRows, CleanFails, rows, work, history
<1>1. \A id : Quiet(id) => Quiet(id)'
  BY <1>0 DEF Quiet
\* Another repository than the one that is cleaned up.
<1>2. ASSUME NEW id \in touched \ disturbed', id # cleaner.repo, id # cleaner'.repo,
             id \in DOMAIN repos => id \in DOMAIN repos'
      PROVE  \/ id \in DOMAIN repos' /\ cleaner'.repo # id
             \/ Quiet(id)' /\ Swept(id)'
  BY <1>0, <1>1, <1>2 DEF Emptied, Swept
<1>3. \A id \in touched : id # 0
  BY DEF Dated
<1>4. ASSUME NEW id \in DOMAIN repos, CleanStart(id) PROVE Emptied'
  <2>1. /\ cleaner = Off /\ cleaner' = [pc |-> "vectors", repo |-> id]
        /\ touched' = touched \cup {id} /\ id \notin touched
        /\ UNCHANGED <<repos, handlers>>
    BY <1>4 DEF CleanStart, rows, work
  <2>2. ASSUME id \notin disturbed' PROVE Quiet(id)' /\ Swept(id)'
    <3>1. Quiet(id)
      BY <1>4, <2>2 DEF CleanStart, Quiet
    <3> QED
      BY <1>1, <2>1, <3>1 DEF Swept
  <2> QED
    BY <1>2, <1>3, <2>1, <2>2 DEF Emptied, Off
\* A step in the middle of the cleanup of a repository.
<1>5. ASSUME cleaner'.repo = cleaner.repo, UNCHANGED <<touched, repos>>,
             cleaner.repo \in touched \ disturbed' =>
               (Quiet(cleaner.repo) /\ Swept(cleaner.repo) => Swept(cleaner.repo)')
      PROVE  Emptied'
  <2>1. ASSUME cleaner.repo \in touched \ disturbed'
        PROVE  Quiet(cleaner.repo)' /\ Swept(cleaner.repo)'
    <3>1. Quiet(cleaner.repo) /\ Swept(cleaner.repo)
      BY <1>0, <2>1 DEF Emptied
    <3> QED
      BY <1>1, <1>5, <2>1, <3>1
  <2> QED
    BY <1>2, <1>5, <2>1 DEF Emptied
<1>6. CASE CleanVectors
  <2>1. Swept(cleaner.repo) => Swept(cleaner.repo)'
    BY <1>6 DEF CleanVectors, Swept
  <2> QED
    BY <1>5, <1>6, <2>1 DEF CleanVectors, rows, history
<1>7. CASE CleanStreams
  <2>1. Swept(cleaner.repo) => Swept(cleaner.repo)'
    BY <1>7 DEF CleanStreams, Swept
  <2> QED
    BY <1>5, <1>7, <2>1 DEF CleanStreams, rows, history
<1>8. CASE CleanProgress
  <2>1. cleaner.repo \in DOMAIN repos
    BY <1>8 DEF CleanProgress, Rowed
  <2>2. \A k \in progress' : k.repo # cleaner.repo
    BY <1>8, <2>1 DEF CleanProgress, Rowed, JobsOf
  <2>3. Swept(cleaner.repo) => Swept(cleaner.repo)'
    BY <1>8, <2>2 DEF CleanProgress, Swept
  <2> QED
    BY <1>5, <1>8, <2>3 DEF CleanProgress, rows, history
<1>9. CASE CleanSkips
  <2>1. /\ cleaner'.repo = cleaner.repo /\ UNCHANGED <<touched, repos>>
        /\ cleaner.repo \in disturbed'
    BY <1>9 DEF CleanSkips, rows, CleanerOK, CleanerTypes
  <2> QED
    BY <1>5, <2>1
<1>10. CASE CleanRows
  <2>0. PICK id : id = cleaner.repo
    OBVIOUS
  <2>1. /\ cleaner' = Off /\ DOMAIN repos' = DOMAIN repos \ {id} /\ cleaner.pc = "rows"
        /\ UNCHANGED <<touched, disturbed, vectors, stream, progress>>
    BY <1>10, <2>0 DEF CleanRows, Restrict, work, history
  <2>2. ASSUME id \in touched \ disturbed PROVE Quiet(id)' /\ Swept(id)'
    <3>1. Quiet(id) /\ Swept(id)
      BY <2>0, <2>2 DEF Emptied
    <3> QED
      BY <1>1, <2>1, <3>1 DEF Swept
  <2>3. ASSUME NEW x \in touched \ disturbed', x # id
        PROVE  \/ x \in DOMAIN repos' /\ cleaner'.repo # x
               \/ Quiet(x)' /\ Swept(x)'
    BY <1>2, <1>3, <2>0, <2>1, <2>3 DEF Off
  <2> QED
    BY <2>1, <2>2, <2>3 DEF Emptied
<1>11. CASE CleanFails
  <2>1. /\ cleaner' = Off /\ UNCHANGED <<repos, touched, disturbed>>
        /\ cleaner.repo \in DOMAIN repos
    BY <1>11 DEF CleanFails, rows, history, Rowed
  <2> QED
    BY <1>2, <1>3, <2>1 DEF Emptied, Off
<1> QED
  BY <1>4, <1>6, <1>7, <1>8, <1>9, <1>10, <1>11 DEF Cleanup

\* Nor does a POST that starts, or a query, go unnoticed.
LEMMA OthersEmptied ==
  ASSUME CInv, Next, \A p \in Posts : ~Post(p)
  PROVE  Emptied'
<1> USE DEF CInv, IInv, Typed
<1>0. posts \in [Posts -> PostTypes] /\ \A id \in touched : id # 0
  BY DEF PostsOK, Dated
<1>1. ASSUME NEW p \in Posts, NEW u \in Users, FindNothing(p, u) \/ FindRepo(p, u)
      PROVE  Emptied'
  <2>1. /\ UNCHANGED <<cleaner, touched, repos, handlers, stream, progress, vectors>>
        /\ disturbed \subseteq disturbed'
        /\ \A q \in Posts : \/ posts'[q].repo \in {posts[q].repo, 0}
                            \/ /\ posts'[q].repo \in DOMAIN repos
                               /\ posts'[q].repo = cleaner.repo => posts'[q].repo \in disturbed'
    BY <1>0, <1>1 DEF FindNothing, FindRepo, Free, Disturbs, rows, work, history
  <2> QED
    BY <1>0, <2>1, EmptiedKept DEF Quiet
<1>2. ASSUME NEW id \in RepoIds, Query(id) PROVE Emptied'
  BY <1>2, EmptiedKept DEF Query, Quiet, work, history
<1> QED
  BY <1>1, <1>2, WorkEmptied, CleanEmptied DEF Next

-----------------------------------------------------------------------------
(* Theorems.                                                               *)

\* The invariant holds at first and is inductive.
LEMMA CleanupInvariant == Spec => []CInv
<1>1. Init => CInv
  BY Start DEF Init, CInv, Dated, Rowed, Single, Emptied, Messages, Free, Off
<1>2. CInv /\ [Next]_vars => CInv'
  <2> SUFFICES ASSUME CInv, [Next]_vars PROVE CInv'
    OBVIOUS
  <2>1. CASE UNCHANGED vars
    <3>1. IInv'
      BY StepKeeps DEF CInv
    <3> QED
      BY <2>1, <3>1 DEF vars, rows, work, ids, history, CInv, Dated, Rowed, Single,
         UnderWay, Emptied, Quiet, Swept, Messages
  <2>2. ASSUME NEW p \in Posts, Post(p), Next PROVE CInv'
    BY <2>2, StepKeeps, PostDated, PostRowed, PostSingle, PostEmptied DEF CInv
  <2>3. CASE Next /\ \A p \in Posts : ~Post(p)
    BY <2>3, StepKeeps, OthersDated, OthersRowed, OthersSingle, OthersEmptied DEF CInv
  <2> QED
    BY <2>1, <2>2, <2>3
<1> QED
  BY <1>1, <1>2, PTL DEF Spec

\* Whatever is under way for a repository belongs to one job, unless a POST
\* scheduled another on an outdated status, or on one that a worker had set with
\* messages of the job still to be worked on.
THEOREM OneJobAtATime == Spec => []SingleIngestion
<1>1. CInv => SingleIngestion
  <2> SUFFICES ASSUME CInv, NEW id \in DOMAIN repos \ doubled
               PROVE  Cardinality(UnderWay(id)) <= 1
    BY DEF SingleIngestion
  <2>1. \A j, k \in UnderWay(id) : j = k
    BY DEF CInv, Single
  <2>2. CASE UnderWay(id) = {}
    BY <2>2, FS_EmptySet
  <2>3. ASSUME NEW j \in UnderWay(id) PROVE Cardinality(UnderWay(id)) <= 1
    <3>1. UnderWay(id) = {j}
      BY <2>1, <2>3
    <3>2. Cardinality({j}) = 1
      BY FS_Singleton
    <3> QED
      BY <3>1, <3>2
  <2> QED
    BY <2>2, <2>3
<1> QED
  BY <1>1, CleanupInvariant, PTL

\* After a cleanup that met no worker, no POST and no error, nothing of the
\* repository is left, and nothing comes back.
THEOREM NothingLeft == Spec => []CleanupIsComplete
<1>1. CInv => CleanupIsComplete
  <2> SUFFICES ASSUME CInv, NEW id \in touched \ (disturbed \cup DOMAIN repos)
               PROVE  /\ id \notin vectors /\ \A t \in Messages : t.repo # id
                      /\ \A k \in progress : k.repo # id
    BY DEF CleanupIsComplete
  <2>1. Quiet(id) /\ Swept(id)
    BY DEF CInv, Emptied
  <2>2. cleaner.repo # id \/ cleaner.pc = "off"
    BY DEF CInv, Rowed
  <2> QED
    BY <2>1, <2>2 DEF Quiet, Swept, Messages
<1> QED
  BY <1>1, CleanupInvariant, PTL
=============================================================================
