-------------------------- MODULE StreamQueueProofs -------------------------
(***************************************************************************)
(* The refinement of TaskQueue by StreamWorker, for every value of the     *)
(* constants: each step of a worker is a step of the queue or changes      *)
(* nothing that its user sees.  What an acknowledgement may let go of      *)
(* comes from the inductive invariant of StreamWorkerProofs.               *)
(***************************************************************************)
EXTENDS StreamQueue, StreamWorkerProofs

\* What the user of the queue sees.
View == <<Submitted, Owing, Done, Given, Withdrawn>>

Abstract == Queue!Next \/ UNCHANGED View

-----------------------------------------------------------------------------
(* The entries.                                                            *)

\* An entry more, and nothing else, submits its task.
LEMMA AppendView ==
  ASSUME TypeOK, NEW e \in Entry,
         DOMAIN log' = 1 .. (Len(log) + 1),
         \A i \in DOMAIN log : log'[i] = log[i],
         \E n \in DOMAIN log' : n > Len(log) /\ log'[n] = e,
         \A i \in DOMAIN log' : i \in DOMAIN log \/ log'[i] = e,
         UNCHANGED <<delivered, pel>>
  PROVE  /\ e.task \in Tasks
         /\ Submitted' = Submitted \cup {e.task}
         /\ Owing' = Owing \cup {e.task}
<1>1. /\ e.task \in Tasks /\ Len(log) \in Nat /\ DOMAIN log = 1 .. Len(log)
      /\ delivered \in Nat /\ delivered <= Len(log)
  BY DEF TypeOK, Entry
<1>2. PICK n \in DOMAIN log' : n > Len(log) /\ log'[n] = e
  OBVIOUS
<1>3. DOMAIN log \subseteq DOMAIN log'
  BY <1>1
<1>4. Submitted' = Submitted \cup {e.task}
  BY <1>2, <1>3 DEF Submitted
<1>5. \A i \in DOMAIN log : Pending(i)' <=> Pending(i)
  BY <1>3 DEF Pending
<1>6. Pending(n)'
  BY <1>1, <1>2 DEF Pending
<1>7. ASSUME NEW t \in Tasks, PendingTask(t) PROVE PendingTask(t)'
  BY <1>3, <1>5, <1>7 DEF PendingTask
<1>8. PendingTask(e.task)'
  BY <1>2, <1>6 DEF PendingTask
<1>9. ASSUME NEW t \in Tasks, PendingTask(t)', t # e.task PROVE PendingTask(t)
  <2>1. PICK i \in DOMAIN log' : Pending(i)' /\ log'[i].task = t
    BY <1>9 DEF PendingTask
  <2>2. i \in DOMAIN log
    BY <1>9, <2>1
  <2> QED
    BY <1>5, <2>1, <2>2 DEF PendingTask
<1> QED
  BY <1>1, <1>4, <1>7, <1>8, <1>9 DEF Owing

\* A delivery owes what it delivers.
LEMMA ConsumeView ==
  ASSUME TypeOK, TypeOK', NEW w \in Workers, Consume(w)
  PROVE  UNCHANGED View
<1>1. /\ delivered \in Nat /\ delivered' \in Nat /\ delivered <= delivered'
      /\ \A i \in 1 .. delivered' : i \in 1 .. delivered \/ i \in pel'
      /\ pel \subseteq pel'
      /\ UNCHANGED <<log, rows, committed, handed, dead>>
  BY ConsumeFacts
<1>2. DOMAIN log = 1 .. Len(log) /\ Len(log) \in Nat
  BY DEF TypeOK
<1>3. pel' \subseteq pel \cup ((delivered + 1) .. Len(log))
  <2>1. pel' = pel \cup FirstN((delivered + 1) .. Len(log), BatchSize)
    BY DEF Consume
  <2> QED
    BY <2>1, FirstNSubset
<1>4. \A i \in DOMAIN log : Pending(i)' <=> Pending(i)
  BY <1>1, <1>2, <1>3 DEF Pending
<1>5. \A t : PendingTask(t)' <=> PendingTask(t)
  BY <1>1, <1>4 DEF PendingTask
<1> QED
  BY <1>1, <1>5 DEF View, Submitted, Owing, Done, Given, Withdrawn, HandsOverFirst

\* Where the entries stay, so do the tasks they owe.
LEMMA EntriesKept ==
  ASSUME UNCHANGED <<log, delivered, pel>>
  PROVE  Submitted' = Submitted /\ Owing' = Owing
  BY DEF Submitted, Owing, PendingTask, Pending

-----------------------------------------------------------------------------
(* The steps.                                                              *)

\* Work that is committed or handed over is done, or half done.
LEMMA DoneView ==
  ASSUME TypeOK, NEW h \in running,
         committed' = committed \/ committed' = committed \cup {Task(h)},
         handed' = handed \/ handed' = handed \cup {Task(h)},
         UNCHANGED <<log, delivered, pel, rows, dead>>
  PROVE  Abstract
<1>1. Task(h) \in Tasks /\ Task(h) \in Submitted
  BY EntryType DEF Task, Submitted
<1>2. /\ Submitted' = Submitted /\ Owing' = Owing
      /\ Given' = Given /\ Withdrawn' = Withdrawn
  BY EntriesKept DEF Given, Withdrawn
<1>3. Done' = Done \/ Done' = Done \cup {Task(h)}
  BY DEF Done, HandsOverFirst
<1> QED
  BY <1>1, <1>2, <1>3 DEF Abstract, View, Queue!Next, Queue!Finish

\* An acknowledgement settles the task, or another entry still owes it.
LEMMA AckView ==
  ASSUME TypeOK, NoSilentLoss', HandsOverFirst => HandOverNotLost',
         NEW h \in running, Ack(h)
  PROVE  Abstract
<1>0. /\ Task(h) \in Tasks /\ h.id \in DOMAIN log /\ log[h.id].task = Task(h)
  BY EntryType DEF Task
<1>1. PICK t \in Tasks : h.id \in DOMAIN log /\ log[h.id].task = t
  BY <1>0
<1>2. /\ pel' = pel \ {h.id}
      /\ UNCHANGED <<log, delivered, rows, committed, handed, dead>>
  BY DEF Ack, effects
<1>3. /\ Submitted' = Submitted /\ Done' = Done
      /\ Given' = Given /\ Withdrawn' = Withdrawn
  BY <1>2 DEF Submitted, Done, Given, Withdrawn, HandsOverFirst
<1>4. ASSUME NEW u, PendingTask(u)' PROVE PendingTask(u)
  BY <1>2, <1>4 DEF PendingTask, Pending
<1>5. ASSUME NEW u, PendingTask(u), u # t PROVE PendingTask(u)'
  BY <1>1, <1>2, <1>5 DEF PendingTask, Pending
<1>6. CASE PendingTask(t)' \/ ~PendingTask(t)
  <2>1. Owing' = Owing
    BY <1>4, <1>5, <1>6 DEF Owing
  <2> QED
    BY <1>3, <2>1 DEF Abstract, View
<1>7. CASE ~PendingTask(t)' /\ PendingTask(t)
  <2>1. t \in Owing /\ Owing' = Owing \ {t}
    BY <1>1, <1>4, <1>5, <1>7 DEF Owing
  <2>2. t \in rows' => t \in committed' \/ DeadLettered(t)'
    BY <1>1, <1>2, <1>7 DEF NoSilentLoss
  <2>3. HandsOverFirst /\ t \in rows' => t \in handed' \/ DeadLettered(t)'
    BY <1>1, <1>2, <1>7 DEF HandOverNotLost, HandsOverFirst
  <2>4. t \in Done \cup Given \cup Withdrawn
    BY <1>1, <1>2, <2>2, <2>3 DEF Done, Given, Withdrawn, DeadLettered
  <2> QED
    BY <1>1, <1>3, <2>1, <2>4 DEF Abstract, Queue!Next, Queue!Settle
<1> QED
  BY <1>6, <1>7

\* A dead letter gives its task up.
LEMMA GiveUpView ==
  ASSUME TypeOK, NEW h \in running, DeadLetterQuota(h) \/ DeadLetterMax(h)
  PROVE  Abstract
<1>1. Task(h) \in Tasks /\ Task(h) \in Submitted
  BY EntryType DEF Task, Submitted
<1>2. /\ \E why : dead' = dead \cup {[task |-> Task(h), retries |-> Retries(h),
                                      reason |-> why]}
      /\ UNCHANGED <<log, delivered, pel, rows, committed, handed>>
  BY DEF DeadLetterQuota, DeadLetterMax, DeadLetter, stream
<1>3. Given' = Given \cup {Task(h)}
  <2>1. PICK why : dead' = dead \cup {[task |-> Task(h), retries |-> Retries(h),
                                       reason |-> why]}
    BY <1>2
  <2>2. [task |-> Task(h), retries |-> Retries(h), reason |-> why].task = Task(h)
    OBVIOUS
  <2> QED
    BY <2>1, <2>2 DEF Given
<1>4. /\ Submitted' = Submitted /\ Owing' = Owing
      /\ Done' = Done /\ Withdrawn' = Withdrawn
  BY <1>2, EntriesKept DEF Done, Withdrawn, HandsOverFirst
<1> QED
  BY <1>1, <1>3, <1>4 DEF Abstract, Queue!Next, Queue!GiveUp

\* A publication, first or retry, submits its task.
LEMMA SubmitView ==
  ASSUME TypeOK,
         \/ \E t \in Tasks : Publish(t)
         \/ \E h \in running : Republish(h)
  PROVE  Abstract
<1>1. ASSUME NEW t \in Tasks, Publish(t) PROVE Abstract
  <2> DEFINE e == [task |-> t, retries |-> 0]
  <2>1. e \in Entry /\ e.task = t
    BY DEF Entry
  <2>2. Submitted' = Submitted \cup {t} /\ Owing' = Owing \cup {t}
    BY <1>1, <2>1, PublishFacts, AppendView
  <2>3. Done' = Done /\ Given' = Given /\ Withdrawn' = Withdrawn
    BY <1>1, PublishFacts DEF Done, Given, Withdrawn, HandsOverFirst
  <2> QED
    BY <2>2, <2>3 DEF Abstract, Queue!Next, Queue!Submit
<1>2. ASSUME NEW h \in running, Republish(h) PROVE Abstract
  <2> DEFINE e == [task |-> Task(h), retries |-> Retries(h) + 1]
  <2>0. Task(h) \in Tasks /\ Retries(h) \in Nat
    BY EntryType
  <2>1. e \in Entry /\ e.task = Task(h) /\ Task(h) \in Tasks
    BY <2>0 DEF Entry
  <2>2. Submitted' = Submitted \cup {Task(h)} /\ Owing' = Owing \cup {Task(h)}
    BY <1>2, <2>1, RepublishFacts, AppendView
  <2>3. Done' = Done /\ Given' = Given /\ Withdrawn' = Withdrawn
    BY <1>2, RepublishFacts DEF Done, Given, Withdrawn, HandsOverFirst
  <2> QED
    BY <2>1, <2>2, <2>3 DEF Abstract, Queue!Next, Queue!Submit
<1> QED
  BY <1>1, <1>2

\* The rows of a task are deleted: nobody wants it any more.
LEMMA WithdrawView ==
  ASSUME TypeOK, NEW t \in Tasks, DeleteRows(t)
  PROVE  Abstract
<1>1. /\ rows' = rows \ {t} /\ rows \subseteq Tasks
      /\ UNCHANGED <<log, delivered, pel, committed, handed, dead>>
  BY DEF DeleteRows, TypeOK, stream
<1>2. Withdrawn' = Withdrawn \cup {t}
  BY <1>1 DEF Withdrawn
<1>3. /\ Submitted' = Submitted /\ Owing' = Owing
      /\ Done' = Done /\ Given' = Given
  BY <1>1, EntriesKept DEF Done, Given, HandsOverFirst
<1> QED
  BY <1>2, <1>3 DEF Abstract, Queue!Next, Queue!Withdraw

LEMMA StillView ==
  ASSUME UNCHANGED <<log, delivered, pel, rows, committed, handed, dead>>
  PROVE  Abstract
  BY EntriesKept DEF Abstract, View, Done, Given, Withdrawn, HandsOverFirst

\* Every step of a handler.
LEMMA HandleView ==
  ASSUME TypeOK, NoSilentLoss', HandsOverFirst => HandOverNotLost',
         NEW h \in running, Handle(h)
  PROVE  Abstract
<1> USE DEF stream, effects, faults
<1>1. CASE \/ StartHandler(h) \/ RejectPayload(h) \/ Load(h) \/ LoadUnbound(h)
           \/ (\E c \in {"quota", "other"} : Raise(h, c)) \/ Escape(h)
  <2>1. UNCHANGED <<log, delivered, pel, rows, committed, handed, dead>>
    BY <1>1 DEF StartHandler, RejectPayload, Load, LoadUnbound, Raise, Escape
  <2> QED
    BY <2>1, StillView
<1>2. CASE HandOver(h) \/ Commit(h) \/ Skip(h)
  <2>1. /\ committed' = committed \/ committed' = committed \cup {Task(h)}
        /\ handed' = handed \/ handed' = handed \cup {Task(h)}
        /\ UNCHANGED <<log, delivered, pel, rows, dead>>
    BY <1>2 DEF HandOver, Commit, Skip
  <2> QED
    BY <2>1, DoneView
<1>3. CASE Ack(h)
  BY <1>3, AckView
<1>4. CASE DeadLetterQuota(h) \/ DeadLetterMax(h)
  BY <1>4, GiveUpView
<1>5. CASE Republish(h)
  BY <1>5, SubmitView
<1> QED
  BY <1>1, <1>2, <1>3, <1>4, <1>5 DEF Handle, Progress

\* Every step simulates a step of the queue, or is invisible.
LEMMA Simulation == IInv /\ IInv' /\ [Next]_vars => Abstract
<1> SUFFICES ASSUME IInv, IInv', [Next]_vars PROVE Abstract
  OBVIOUS
<1>1. TypeOK /\ TypeOK'
  BY DEF IInv
<1>2. NoSilentLoss' /\ (HandsOverFirst => HandOverNotLost')
  BY DEF IInv, OwedUnless, Owed, NoSilentLoss, HandOverNotLost, PendingTask,
         HandsOverFirst
<1> USE DEF stream, effects, faults
<1>3. CASE UNCHANGED vars
  BY <1>3, StillView DEF vars
<1>4. ASSUME NEW t \in Tasks, Publish(t) \/ DeleteRows(t) PROVE Abstract
  BY <1>1, <1>4, SubmitView, WithdrawView
<1>5. ASSUME NEW i \in pel, Age(i) PROVE Abstract
  <2>1. UNCHANGED <<log, delivered, pel, rows, committed, handed, dead>>
    BY <1>5 DEF Age
  <2> QED
    BY <2>1, StillView
<1>6. ASSUME NEW w \in Workers, Worker(w) PROVE Abstract
  <2>1. CASE Consume(w)
    BY <1>1, <2>1, ConsumeView DEF Abstract
  <2>2. CASE \/ StartWorker(w) \/ StartWorkerUnclaimed(w) \/ Listen(w)
             \/ Crash(w)
    <3>1. UNCHANGED <<log, delivered, pel, rows, committed, handed, dead>>
      BY <2>2 DEF StartWorker, StartWorkerUnclaimed, Listen, Crash
    <3> QED
      BY <3>1, StillView
  <2> QED
    BY <1>6, <2>1, <2>2 DEF Worker
<1>7. ASSUME NEW h \in running, Handle(h) PROVE Abstract
  BY <1>1, <1>2, <1>7, HandleView
<1> QED
  BY <1>3, <1>4, <1>5, <1>6, <1>7 DEF Next

\* Every behaviour of the stream and its workers is one of the task queue.
THEOREM Implements == Spec => AtLeastOnce
<1>1. Init => Queue!Init
  <2> SUFFICES ASSUME Init PROVE Queue!Init
    OBVIOUS
  <2>1. DOMAIN log = {} /\ committed = {} /\ handed = {} /\ dead = {} /\ rows = Tasks
    BY DEF Init
  <2> QED
    BY <2>1 DEF Queue!Init, Submitted, Owing, PendingTask, Done, Given, Withdrawn
<1>2. IInv /\ IInv' /\ [Next]_vars => [Queue!Next]_(Queue!vars)
  BY Simulation DEF Abstract, View, Queue!vars
<1> QED
  BY <1>1, <1>2, Invariance, PTL DEF Spec, Queue!Spec, AtLeastOnce
=============================================================================
