------------------------- MODULE StreamWorkerProofs -------------------------
(***************************************************************************)
(* Proofs about StreamWorker for every set of tasks and workers, every     *)
(* retry limit, batch size and number of failures.                         *)
(***************************************************************************)
EXTENDS StreamWorker, FiniteSetTheorems, TLAPS

-----------------------------------------------------------------------------
(* The inductive invariant.                                                *)

\* Entry i was not retried: nothing carries its task with one retry more.
Unretried(i) ==
  \A j \in DOMAIN log :
    ~(log[j].task = log[i].task /\ log[j].retries = log[i].retries + 1)

\* A pending entry of t was not retried.
Owed(t) ==
  \E j \in DOMAIN log : Pending(j) /\ log[j].task = t /\ Unretried(j)

\* Every published task outside S that still has its rows and no dead letter
\* is owed.  This is what makes "no loss" inductive: an acknowledgement after
\* a retry removes an entry that was retried, never the last hope of a task.
OwedUnless(S) ==
  \A i \in DOMAIN log :
    LET t == log[i].task
    IN  t \in rows => t \in S \/ DeadLettered(t) \/ Owed(t)

\* An entry with n retries comes after delivered entries with 0 .. n - 1.
ChainOK ==
  \A i \in DOMAIN log : \A k \in 0 .. MaxRetries : k < log[i].retries =>
    \E j \in 1 .. delivered : log[j] = [task |-> log[i].task, retries |-> k]

\* What the stage of a handler tells about what its message already caused.
Fact(h) ==
  LET t == Task(h)
  IN  /\ h.stage \in {"committed", "acked", "finishing"} => t \in committed
      /\ HandsOverFirst /\ h.stage \in {"handed", "committed", "finishing"}
           => t \in handed
      /\ h.stage = "missing" => t \notin rows
      /\ h.stage = "closing" => DeadLettered(t) \/ ~Unretried(h.id)
      /\ t \in Malformed => h.stage = "queued"

HandlerFacts == \A h \in running : Fact(h)

IInv ==
  /\ TypeOK
  /\ RetriesBounded
  /\ ChainOK
  /\ HandlerFacts
  /\ DeadLetterMeansExhausted
  /\ OwedUnless(committed)
  /\ HandsOverFirst => OwedUnless(handed)

-----------------------------------------------------------------------------
(* Helpers.                                                                *)

LEMMA FirstNSubset == ASSUME NEW S, NEW n PROVE FirstN(S, n) \subseteq S
  BY DEF FirstN

\* The n least elements of an interval are closed downwards.
LEMMA FirstNBelow ==
  ASSUME NEW a \in Nat, NEW b \in Nat, NEW n \in Nat,
         NEW x \in FirstN(a .. b, n), NEW y \in a .. b, y <= x
  PROVE  y \in FirstN(a .. b, n)
<1> DEFINE Below(z) == {u \in a .. b : u < z}
<1>1. IsFiniteSet(a .. b)
  BY FS_Interval
<1>2. IsFiniteSet(Below(x)) /\ Cardinality(Below(x)) \in Nat
  BY <1>1, FS_Subset, FS_CardinalityType
<1>3. Below(y) \subseteq Below(x)
  BY DEF FirstN
<1>4. /\ IsFiniteSet(Below(y)) /\ Cardinality(Below(y)) \in Nat
      /\ Cardinality(Below(y)) <= Cardinality(Below(x))
  BY <1>2, <1>3, FS_Subset, FS_CardinalityType
<1>5. Cardinality(Below(x)) < n
  BY DEF FirstN
<1> QED
  BY <1>2, <1>4, <1>5 DEF FirstN

LEMMA MoveFacts ==
  ASSUME running \subseteq Handlers, NEW h \in running, NEW s, Move(h, s)
  PROVE  \A g \in running' : \/ g \in running
                             \/ /\ g = [h EXCEPT !.stage = s]
                                /\ g.worker = h.worker /\ g.id = h.id
                                /\ g.stage = s
  BY DEF Move, Handlers

LEMMA AppendFacts ==
  ASSUME NEW s \in Seq(Entry), NEW e \in Entry
  PROVE  /\ Append(s, e) \in Seq(Entry)
         /\ Len(Append(s, e)) = Len(s) + 1
         /\ DOMAIN s = 1 .. Len(s)
         /\ DOMAIN Append(s, e) = 1 .. (Len(s) + 1)
         /\ \A i \in DOMAIN s : Append(s, e)[i] = s[i]
         /\ Append(s, e)[Len(s) + 1] = e
  OBVIOUS

-----------------------------------------------------------------------------
(* Type correctness.                                                       *)

LEMMA TypeInit == Init => TypeOK
  BY BoundsAssumption DEF Init, TypeOK

\* A handler that moves on keeps its worker and its entry.
LEMMA MoveType ==
  ASSUME TypeOK, NEW h \in running, NEW s \in Stages, Move(h, s)
  PROVE  running' \subseteq Handlers /\ \A g \in running' : g.id \in 1 .. delivered
  BY DEF TypeOK, Move, Handlers

LEMMA EntryType ==
  ASSUME TypeOK, NEW h \in running
  PROVE  /\ h \in Handlers /\ h.id \in DOMAIN log /\ h.id \in 1 .. delivered
         /\ log[h.id] \in Entry
         /\ Task(h) \in Tasks /\ Retries(h) \in Nat
         /\ log[h.id] = [task |-> Task(h), retries |-> Retries(h)]
<1>1. h.id \in 1 .. delivered /\ DOMAIN log = 1 .. Len(log) /\ h \in Handlers
  BY DEF TypeOK
<1>2. h.id \in DOMAIN log
  BY <1>1 DEF TypeOK
<1>3. log[h.id] \in Entry
  BY <1>2 DEF TypeOK
<1> QED
  BY <1>1, <1>2, <1>3 DEF Entry, Task, Retries

LEMMA TypeStep == TypeOK /\ [Next]_vars => TypeOK'
<1> SUFFICES ASSUME TypeOK, [Next]_vars PROVE TypeOK'
  OBVIOUS
<1> USE DEF stream, effects, faults
<1>1. CASE UNCHANGED vars
  BY <1>1 DEF vars, TypeOK
<1>2. ASSUME NEW t \in Tasks, Publish(t) PROVE TypeOK'
  <2>1. [task |-> t, retries |-> 0] \in Entry
    BY DEF Entry
  <2>2. log' \in Seq(Entry) /\ Len(log') = Len(log) + 1
    BY <1>2, <2>1, AppendFacts DEF Publish, TypeOK
  <2> QED
    BY <1>2, <2>2 DEF Publish, TypeOK
<1>3. ASSUME NEW t \in Tasks, DeleteRows(t) PROVE TypeOK'
  BY <1>3 DEF DeleteRows, TypeOK
<1>4. ASSUME NEW i \in pel, Age(i) PROVE TypeOK'
  BY <1>4 DEF Age, TypeOK
<1>5. ASSUME NEW w \in Workers, Worker(w) PROVE TypeOK'
  <2>1. CASE StartWorker(w)
    <3> DEFINE claimed == FirstN(idle, ReclaimCount)
    <3>1. claimed \subseteq idle
      BY FirstNSubset
    <3>3. running' = running \cup Batch(w, claimed) /\ idle' = idle \ claimed
      BY <2>1 DEF StartWorker
    <3>4. UNCHANGED <<log, delivered, pel, effects, faults>>
      BY <2>1 DEF StartWorker
    <3>5. mode' \in [Workers -> {"down", "reclaim", "listen"}]
      BY <2>1 DEF StartWorker, TypeOK
    <3> HIDE DEF claimed
    <3>6. claimed \subseteq Nat /\ claimed \subseteq 1 .. delivered
      BY <3>1 DEF TypeOK
    <3>7. /\ Batch(w, claimed) \subseteq Handlers
          /\ \A h \in Batch(w, claimed) : h.id \in 1 .. delivered
      BY <3>6 DEF Batch, Handlers, Stages
    <3> QED
      BY <3>1, <3>7, <3>3, <3>4, <3>5 DEF TypeOK
  <2>2. CASE StartWorkerUnclaimed(w)
    BY <2>2, BoundsAssumption DEF StartWorkerUnclaimed, TypeOK
  <2>3. CASE Listen(w)
    BY <2>3 DEF Listen, TypeOK
  <2>4. CASE Consume(w)
    <3> DEFINE ids == FirstN((delivered + 1) .. Len(log), BatchSize)
    <3>1. ids \subseteq (delivered + 1) .. Len(log)
      BY FirstNSubset
    <3>2. /\ running' = running \cup Batch(w, ids) /\ pel' = pel \cup ids
          /\ delivered' \in ids /\ \A i \in ids : i <= delivered'
      BY <2>4 DEF Consume
    <3>3. UNCHANGED <<log, idle, mode, effects, faults>>
      BY <2>4 DEF Consume
    <3> HIDE DEF ids
    <3>4. Len(log) \in Nat /\ delivered \in Nat /\ delivered < delivered'
          /\ delivered' \in 0 .. Len(log)
      BY <3>1, <3>2 DEF TypeOK
    <3>5. \A i \in ids : i \in 1 .. delivered'
      BY <3>1, <3>2, <3>4
    <3>6. Batch(w, ids) \subseteq Handlers
          /\ \A h \in Batch(w, ids) : h.id \in 1 .. delivered'
      BY <3>5 DEF Batch, Handlers, Stages
    <3>7. \A i \in 1 .. delivered : i \in 1 .. delivered'
      BY <3>4
    <3> QED
      BY <3>2, <3>3, <3>4, <3>5, <3>6, <3>7 DEF TypeOK
  <2>5. CASE Crash(w)
    BY <2>5, BoundsAssumption DEF Crash, TypeOK
  <2> QED
    BY <1>5, <2>1, <2>2, <2>3, <2>4, <2>5 DEF Worker
<1>6. ASSUME NEW h \in running, Handle(h) PROVE TypeOK'
  <2>1. CASE StartHandler(h)
    BY <2>1, MoveType DEF StartHandler, TypeOK, Stages
  <2>2. CASE RejectPayload(h)
    BY <2>2 DEF RejectPayload, TypeOK
  <2>3. CASE Load(h)
    BY <2>3, MoveType DEF Load, TypeOK, Stages
  <2>4. CASE LoadUnbound(h)
    BY <2>4, BoundsAssumption DEF LoadUnbound, TypeOK
  <2>5. CASE HandOver(h)
    <3>1. running' \subseteq Handlers /\ \A g \in running' : g.id \in 1 .. delivered
      BY <2>5, MoveType DEF HandOver, TypeOK, Stages
    <3> QED
      BY <2>5, <3>1, EntryType DEF HandOver, TypeOK
  <2>6. CASE Commit(h)
    <3>1. running' \subseteq Handlers /\ \A g \in running' : g.id \in 1 .. delivered
      BY <2>6, MoveType DEF Commit, Stages
    <3> QED
      BY <2>6, <3>1, EntryType DEF Commit, TypeOK
  <2>7. CASE Skip(h)
    <3>1. running' \subseteq Handlers /\ \A g \in running' : g.id \in 1 .. delivered
      BY <2>7, MoveType DEF Skip, Stages
    <3> QED
      BY <2>7, <3>1, EntryType DEF Skip, TypeOK
  <2>8. CASE Ack(h)
    <3>1. running' \subseteq Handlers /\ \A g \in running' : g.id \in 1 .. delivered
      BY <2>8, MoveType DEF Ack, TypeOK, Stages
    <3> QED
      BY <2>8, <3>1 DEF Ack, TypeOK
  <2>9. ASSUME NEW c \in {"quota", "other"}, Raise(h, c) PROVE TypeOK'
    BY <2>9, MoveType DEF Raise, TypeOK, Stages
  <2>10. ASSUME NEW why \in Reasons, DeadLetter(h, why) PROVE TypeOK'
    <3>1. running' \subseteq Handlers /\ \A g \in running' : g.id \in 1 .. delivered
      BY <2>10, MoveType DEF DeadLetter, Stages
    <3>2. dead' \subseteq DeadLetters
      <4>1. Task(h) \in Tasks /\ Retries(h) \in Nat
        BY EntryType
      <4> QED
        BY <2>10, <4>1 DEF DeadLetter, DeadLetters, TypeOK
    <3> QED
      BY <2>10, <3>1, <3>2 DEF DeadLetter, TypeOK
  <2>11. CASE Republish(h)
    <3>1. running' \subseteq Handlers /\ \A g \in running' : g.id \in 1 .. delivered
      BY <2>11, MoveType DEF Republish, Stages
    <3>2. [task |-> Task(h), retries |-> Retries(h) + 1] \in Entry
      <4>1. Task(h) \in Tasks /\ Retries(h) \in Nat
        BY EntryType
      <4> QED
        BY <4>1 DEF Entry
    <3>3. log' \in Seq(Entry) /\ Len(log') = Len(log) + 1
      BY <2>11, <3>2, AppendFacts DEF Republish, TypeOK
    <3> QED
      BY <2>11, <3>1, <3>3 DEF Republish, TypeOK
  <2>12. CASE Escape(h)
    <3>1. running' \subseteq running
      BY <2>12 DEF Escape
    <3>2. mode' \in [Workers -> {"down", "reclaim", "listen"}]
      BY <2>12 DEF Escape, TypeOK
    <3>3. escapes' \in 0 .. MaxEscapes
      BY <2>12, BoundsAssumption DEF Escape, TypeOK
    <3>4. UNCHANGED <<stream, effects, crashes>>
      BY <2>12 DEF Escape
    <3> QED
      BY <3>1, <3>2, <3>3, <3>4 DEF TypeOK
  <2> QED
    BY <1>6, <2>1, <2>2, <2>3, <2>4, <2>5, <2>6, <2>7, <2>8, <2>9, <2>10,
       <2>11, <2>12
    DEF Handle, Progress, DeadLetterQuota, DeadLetterMax, Reasons
<1> QED
  BY <1>1, <1>2, <1>3, <1>4, <1>5, <1>6 DEF Next

-----------------------------------------------------------------------------
(* Steps by what they do to the stream.                                    *)

\* What only grows.
Growth ==
  /\ DOMAIN log \subseteq DOMAIN log'
  /\ \A i \in DOMAIN log : log'[i] = log[i]
  /\ \A i \in 1 .. delivered : i \in 1 .. delivered'
  /\ rows' \subseteq rows
  /\ committed \subseteq committed' /\ handed \subseteq handed'
  /\ dead \subseteq dead'

Quiet == UNCHANGED <<log, delivered, pel, dead>>

LEMMA StepKinds ==
  ASSUME [Next]_vars
  PROVE  \/ \E t \in Tasks : Publish(t)
         \/ \E h \in running : Republish(h)
         \/ \E h \in running : Ack(h)
         \/ \E h \in running : DeadLetterQuota(h) \/ DeadLetterMax(h)
         \/ \E w \in Workers : Consume(w)
         \/ Quiet
<1> USE DEF stream, effects, faults
<1>1. CASE UNCHANGED vars
  BY <1>1 DEF vars, Quiet
<1>2. ASSUME NEW t \in Tasks, DeleteRows(t) PROVE Quiet
  BY <1>2 DEF DeleteRows, Quiet
<1>3. ASSUME NEW i \in pel, Age(i) PROVE Quiet
  BY <1>3 DEF Age, Quiet
<1>4. ASSUME NEW w \in Workers, Worker(w) PROVE Consume(w) \/ Quiet
  BY <1>4 DEF Worker, StartWorker, StartWorkerUnclaimed, Listen, Crash, Quiet
<1>5. ASSUME NEW h \in running, Handle(h)
      PROVE  \/ Republish(h) \/ Ack(h) \/ DeadLetterQuota(h) \/ DeadLetterMax(h)
             \/ Quiet
  BY <1>5 DEF Handle, Progress, StartHandler, RejectPayload, Load, HandOver,
              Commit, Skip, LoadUnbound, Raise, Escape, Quiet
<1> QED
  BY <1>1, <1>2, <1>3, <1>4, <1>5 DEF Next

LEMMA PublishFacts ==
  ASSUME TypeOK, NEW t \in Tasks, Publish(t)
  PROVE  /\ DOMAIN log = 1 .. Len(log) /\ Len(log) \in Nat
         /\ DOMAIN log' = 1 .. (Len(log) + 1)
         /\ DOMAIN log \subseteq DOMAIN log'
         /\ \A i \in DOMAIN log : log'[i] = log[i]
         /\ \E n \in DOMAIN log' : n > Len(log) /\ log'[n] = [task |-> t, retries |-> 0]
         /\ \A i \in DOMAIN log' : i \in DOMAIN log \/ log'[i] = [task |-> t, retries |-> 0]
         /\ UNCHANGED <<delivered, pel, running, rows, committed, handed, dead>>
<1>1. [task |-> t, retries |-> 0] \in Entry
  BY DEF Entry
<1> QED
  BY <1>1, AppendFacts DEF Publish, TypeOK, effects

LEMMA RepublishFacts ==
  ASSUME TypeOK, NEW h \in running, Republish(h)
  PROVE  /\ DOMAIN log = 1 .. Len(log) /\ Len(log) \in Nat
         /\ DOMAIN log' = 1 .. (Len(log) + 1)
         /\ DOMAIN log \subseteq DOMAIN log'
         /\ \A i \in DOMAIN log : log'[i] = log[i]
         /\ \E n \in DOMAIN log' : n > Len(log) /\ log'[n] = [task |-> Task(h), retries |-> Retries(h) + 1]
         /\ \A i \in DOMAIN log' : i \in DOMAIN log \/ log'[i] = [task |-> Task(h), retries |-> Retries(h) + 1]
         /\ Retries(h) < MaxRetries
         /\ UNCHANGED <<delivered, pel, rows, committed, handed, dead>>
<1>1. Task(h) \in Tasks /\ Retries(h) \in Nat
  BY EntryType
<1>2. [task |-> Task(h), retries |-> Retries(h) + 1] \in Entry
  BY <1>1 DEF Entry
<1>3. Retries(h) < MaxRetries
  BY <1>1, BoundsAssumption DEF Republish, Exhausted
<1> QED
  BY <1>2, <1>3, AppendFacts DEF Republish, TypeOK, effects

\* XREADGROUP leaves no gap: what is newly delivered is pending.
LEMMA ConsumeFacts ==
  ASSUME TypeOK, NEW w \in Workers, Consume(w)
  PROVE  /\ delivered \in Nat /\ delivered' \in Nat /\ delivered <= delivered'
         /\ \A i \in 1 .. delivered' : i \in 1 .. delivered \/ i \in pel'
         /\ pel \subseteq pel'
         /\ UNCHANGED <<log, rows, committed, handed, dead>>
<1> DEFINE fresh == (delivered + 1) .. Len(log)
           ids == FirstN(fresh, BatchSize)
<1>1. /\ pel' = pel \cup ids /\ delivered' \in ids
      /\ UNCHANGED <<log, rows, committed, handed, dead>>
  BY DEF Consume, effects
<1>2. delivered \in Nat /\ Len(log) \in Nat
  BY DEF TypeOK
<1>3. ids \subseteq fresh
  BY FirstNSubset
<1>4. ASSUME NEW i \in fresh, i <= delivered' PROVE i \in ids
  <2>1. delivered + 1 \in Nat /\ BatchSize \in Nat
    BY <1>2, BoundsAssumption
  <2> QED
    BY <1>1, <1>2, <1>4, <2>1, FirstNBelow
<1>5. delivered' \in fresh
  BY <1>1, <1>3
<1> HIDE DEF ids
<1> QED
  <2>2. delivered' \in Nat /\ delivered <= delivered' /\ delivered' <= Len(log)
    BY <1>2, <1>5
  <2>3. ASSUME NEW i \in 1 .. delivered' PROVE i \in 1 .. delivered \/ i \in pel'
    <3>1. i \in 1 .. delivered \/ i \in fresh
      BY <1>2, <2>2
    <3> QED
      BY <1>1, <1>4, <2>2, <3>1
  <2> QED
    BY <1>1, <1>2, <2>2, <2>3

LEMMA GrowthStep ==
  ASSUME TypeOK, [Next]_vars
  PROVE  Growth
<1> USE DEF stream, effects, faults
<1>1. CASE UNCHANGED vars
  BY <1>1 DEF vars, Growth
<1>2. ASSUME NEW t \in Tasks, Publish(t) PROVE Growth
  <2>1. DOMAIN log \subseteq DOMAIN log' /\ \A i \in DOMAIN log : log'[i] = log[i]
    BY <1>2, PublishFacts
  <2>2. UNCHANGED <<delivered, rows, committed, handed, dead>>
    BY <1>2, PublishFacts
  <2> QED
    BY <2>1, <2>2 DEF Growth
<1>3. ASSUME NEW t \in Tasks, DeleteRows(t) PROVE Growth
  BY <1>3 DEF DeleteRows, Growth
<1>4. ASSUME NEW i \in pel, Age(i) PROVE Growth
  BY <1>4 DEF Age, Growth
<1>5. ASSUME NEW w \in Workers, Worker(w) PROVE Growth
  <2>1. CASE Consume(w)
    <3>1. delivered \in Nat /\ delivered' \in Nat /\ delivered <= delivered'
      BY <2>1, ConsumeFacts
    <3>2. UNCHANGED <<log, rows, committed, handed, dead>>
      BY <2>1, ConsumeFacts
    <3> QED
      BY <3>1, <3>2 DEF Growth
  <2> QED
    BY <1>5, <2>1 DEF Worker, StartWorker, StartWorkerUnclaimed, Listen, Crash,
                      Growth
<1>6. ASSUME NEW h \in running, Handle(h) PROVE Growth
  <2>1. CASE Republish(h)
    BY <2>1, RepublishFacts DEF Growth
  <2>2. CASE HandOver(h) \/ Commit(h) \/ Skip(h)
    BY <2>2 DEF HandOver, Commit, Skip, Growth
  <2>3. CASE DeadLetterQuota(h) \/ DeadLetterMax(h)
    BY <2>3 DEF DeadLetterQuota, DeadLetterMax, DeadLetter, Growth
  <2>4. CASE StartHandler(h) \/ RejectPayload(h) \/ Load(h) \/ LoadUnbound(h)
    BY <2>4 DEF StartHandler, RejectPayload, Load, LoadUnbound, Growth
  <2>5. CASE Ack(h) \/ Escape(h) \/ \E c \in {"quota", "other"} : Raise(h, c)
    BY <2>5 DEF Ack, Escape, Raise, Growth
  <2> QED
    BY <1>6, <2>1, <2>2, <2>3, <2>4, <2>5 DEF Handle, Progress
<1> QED
  BY <1>1, <1>2, <1>3, <1>4, <1>5, <1>6 DEF Next

-----------------------------------------------------------------------------
(* The parts of the inductive invariant, one step lemma each.              *)

LEMMA RetriesStep ==
  ASSUME TypeOK, RetriesBounded, [Next]_vars
  PROVE  RetriesBounded'
<1>1. ASSUME NEW t \in Tasks, Publish(t) PROVE RetriesBounded'
  <2>1. ASSUME NEW i \in DOMAIN log' PROVE log'[i].retries <= MaxRetries
    <3>1. CASE i \in DOMAIN log
      BY <1>1, <3>1, PublishFacts DEF RetriesBounded
    <3>2. CASE log'[i] = [task |-> t, retries |-> 0]
      BY <3>2, BoundsAssumption
    <3> QED
      BY <1>1, <3>1, <3>2, PublishFacts
  <2> QED
    BY <2>1 DEF RetriesBounded
<1>2. ASSUME NEW h \in running, Republish(h) PROVE RetriesBounded'
  <2>1. Retries(h) \in Nat
    BY EntryType
  <2>2. ASSUME NEW i \in DOMAIN log' PROVE log'[i].retries <= MaxRetries
    <3>1. CASE i \in DOMAIN log
      BY <1>2, <3>1, RepublishFacts DEF RetriesBounded
    <3>2. CASE log'[i] = [task |-> Task(h), retries |-> Retries(h) + 1]
      <4>1. Retries(h) < MaxRetries
        BY <1>2, RepublishFacts
      <4> QED
        BY <2>1, <3>2, <4>1, BoundsAssumption
    <3> QED
      BY <1>2, <3>1, <3>2, RepublishFacts
  <2> QED
    BY <2>2 DEF RetriesBounded
<1>3. CASE log' = log
  BY <1>3 DEF RetriesBounded
<1> QED
  BY <1>1, <1>2, <1>3, StepKinds, ConsumeFacts
  DEF Ack, DeadLetterQuota, DeadLetterMax, DeadLetter, Quiet, stream

LEMMA ChainStep ==
  ASSUME TypeOK, RetriesBounded, ChainOK, [Next]_vars
  PROVE  ChainOK'
<1>1. Growth
  BY GrowthStep
\* An old entry keeps its chain.
<1>2. ASSUME NEW i \in DOMAIN log, NEW k \in 0 .. MaxRetries, k < log'[i].retries
      PROVE  \E j \in 1 .. delivered' :
               log'[j] = [task |-> log'[i].task, retries |-> k]
  <2>1. log'[i] = log[i]
    BY <1>1 DEF Growth
  <2>2. PICK j \in 1 .. delivered : log[j] = [task |-> log[i].task, retries |-> k]
    BY <1>2, <2>1 DEF ChainOK
  <2>3. j \in DOMAIN log /\ j \in 1 .. delivered'
    BY <1>1 DEF Growth, TypeOK
  <2> QED
    BY <1>1, <2>1, <2>2, <2>3 DEF Growth
<1>3. ASSUME NEW t \in Tasks, Publish(t) PROVE ChainOK'
  <2>1. ASSUME NEW i \in DOMAIN log', NEW k \in 0 .. MaxRetries,
               k < log'[i].retries
        PROVE  i \in DOMAIN log
    <3>1. i \in DOMAIN log \/ log'[i] = [task |-> t, retries |-> 0]
      BY <1>3, PublishFacts
    <3> QED
      BY <2>1, <3>1
  <2> QED
    BY <1>2, <2>1 DEF ChainOK
<1>4. ASSUME NEW h \in running, Republish(h) PROVE ChainOK'
  <2>1. /\ Retries(h) \in Nat /\ h.id \in 1 .. delivered /\ h.id \in DOMAIN log
        /\ log[h.id] = [task |-> Task(h), retries |-> Retries(h)]
    BY EntryType
  <2>2. ASSUME NEW k \in 0 .. MaxRetries, k < Retries(h) + 1
        PROVE  \E j \in 1 .. delivered :
                 j \in DOMAIN log /\ log[j] = [task |-> Task(h), retries |-> k]
    <3>1. CASE k = Retries(h)
      BY <2>1, <3>1
    <3>2. CASE k # Retries(h)
      <4>1. k < log[h.id].retries /\ log[h.id].task = Task(h)
        BY <2>1, <2>2, <3>2
      <4>2. 1 .. delivered \subseteq DOMAIN log
        BY DEF TypeOK
      <4> QED
        BY <2>1, <4>1, <4>2 DEF ChainOK
    <3> QED
      BY <3>1, <3>2
  <2>3. ASSUME NEW i \in DOMAIN log', i \notin DOMAIN log,
               NEW k \in 0 .. MaxRetries, k < log'[i].retries
        PROVE  \E j \in 1 .. delivered' :
                 log'[j] = [task |-> log'[i].task, retries |-> k]
    <3>1. log'[i] = [task |-> Task(h), retries |-> Retries(h) + 1]
      BY <1>4, <2>3, RepublishFacts
    <3>2. PICK j \in 1 .. delivered :
             j \in DOMAIN log /\ log[j] = [task |-> Task(h), retries |-> k]
      BY <2>2, <2>3, <3>1
    <3> QED
      BY <1>1, <3>1, <3>2 DEF Growth
  <2> QED
    BY <1>2, <2>3 DEF ChainOK
<1>5. CASE log' = log
  BY <1>2, <1>5 DEF ChainOK
<1> QED
  BY <1>3, <1>4, <1>5, StepKinds, ConsumeFacts
  DEF Ack, DeadLetterQuota, DeadLetterMax, DeadLetter, Quiet, stream

\* A fact about a handler outlives every step.
LEMMA FactStable ==
  ASSUME TypeOK, Growth, NEW h \in Handlers, h.id \in DOMAIN log, Fact(h)
  PROVE  Fact(h)'
<1>1. Task(h)' = Task(h)
  BY DEF Growth, Task
<1>2. DeadLettered(Task(h)) => DeadLettered(Task(h))'
  BY <1>1 DEF Growth, DeadLettered
<1>3. ~Unretried(h.id) => ~Unretried(h.id)'
  BY DEF Growth, Unretried
<1>4. Task(h) \in committed => Task(h)' \in committed'
  BY <1>1 DEF Growth
<1>5. Task(h) \in handed => Task(h)' \in handed'
  BY <1>1 DEF Growth
<1>6. Task(h) \notin rows => Task(h)' \notin rows'
  BY <1>1 DEF Growth
<1> QED
  BY <1>1, <1>2, <1>3, <1>4, <1>5, <1>6 DEF Fact, HandsOverFirst

LEMMA DeadLetterFacts ==
  ASSUME NEW h, NEW why, DeadLetter(h, why)
  PROVE  \A d \in dead' : d \in dead \/ (d.task = Task(h) /\ d.reason = why)
  BY DEF DeadLetter

LEMMA DeadStep ==
  ASSUME TypeOK, RetriesBounded, ChainOK, DeadLetterMeansExhausted, [Next]_vars
  PROVE  DeadLetterMeansExhausted'
<1>1. Growth
  BY GrowthStep
<1>2. ASSUME NEW t, NEW k, NEW i \in 1 .. delivered,
             log[i] = [task |-> t, retries |-> k]
      PROVE  i \in 1 .. delivered' /\ log'[i] = [task |-> t, retries |-> k]
  <2>1. i \in DOMAIN log
    BY DEF TypeOK
  <2> QED
    BY <1>1, <1>2, <2>1 DEF Growth
<1>3. CASE dead' = dead
  BY <1>2, <1>3 DEF DeadLetterMeansExhausted
<1>4. ASSUME NEW h \in running, DeadLetterQuota(h)
      PROVE  DeadLetterMeansExhausted'
  <2>1. \A d \in dead' : d \in dead \/ d.reason = "quota_hit"
    BY <1>4, DeadLetterFacts DEF DeadLetterQuota
  <2> QED
    BY <1>2, <2>1 DEF DeadLetterMeansExhausted
<1>5. ASSUME NEW h \in running, DeadLetterMax(h)
      PROVE  DeadLetterMeansExhausted'
  <2>1. /\ Retries(h) \in Nat /\ h.id \in 1 .. delivered /\ h.id \in DOMAIN log
        /\ log[h.id] = [task |-> Task(h), retries |-> Retries(h)]
    BY EntryType
  <2>2. log[h.id].task = Task(h) /\ log[h.id].retries = Retries(h)
    BY <2>1
  <2>3. Retries(h) = MaxRetries
    <3>1. Retries(h) >= MaxRetries
      BY <1>5 DEF DeadLetterMax, Exhausted
    <3>2. Retries(h) <= MaxRetries
      BY <2>1, <2>2 DEF RetriesBounded
    <3> QED
      BY <2>1, <3>1, <3>2, BoundsAssumption
  <2>4. ASSUME NEW k \in 0 .. MaxRetries
        PROVE  \E i \in 1 .. delivered : log[i] = [task |-> Task(h), retries |-> k]
    <3>1. CASE k = MaxRetries
      BY <2>1, <2>3, <3>1
    <3>2. CASE k # MaxRetries
      <4>1. k < log[h.id].retries
        BY <2>2, <2>3, <3>2, BoundsAssumption
      <4> QED
        BY <2>1, <2>2, <4>1 DEF ChainOK
    <3> QED
      BY <3>1, <3>2
  <2>5. ASSUME NEW d \in dead', d \notin dead PROVE d.task = Task(h)
    BY <1>5, <2>5, DeadLetterFacts DEF DeadLetterMax
  <2>6. ASSUME NEW d \in dead', d.reason = "Max retries reached",
               NEW k \in 0 .. MaxRetries
        PROVE  \E i \in 1 .. delivered : log[i] = [task |-> d.task, retries |-> k]
    BY <2>4, <2>5, <2>6 DEF DeadLetterMeansExhausted
  <2> QED
    BY <1>2, <2>6 DEF DeadLetterMeansExhausted
<1> QED
  BY <1>3, <1>4, <1>5, StepKinds, ConsumeFacts, PublishFacts, RepublishFacts
  DEF Ack, Quiet, effects

\* A handler of the next state is one of this state, a queued one, or the
\* one that moved.
LEMMA HandlerStep ==
  ASSUME TypeOK, HandlerFacts, Growth, TypeOK', NEW h \in running,
         NEW s \in Stages, Move(h, s),
         Fact([h EXCEPT !.stage = s])'
  PROVE  HandlerFacts'
<1>1. ASSUME NEW g \in running' PROVE Fact(g)'
  <2>1. CASE g \in running
    <3>1. g \in Handlers /\ g.id \in DOMAIN log /\ Fact(g)
      BY <2>1, EntryType DEF HandlerFacts
    <3> QED
      BY <3>1, FactStable
  <2>2. CASE g = [h EXCEPT !.stage = s]
    BY <2>2
  <2> QED
    BY <2>1, <2>2 DEF Move
<1> QED
  BY <1>1 DEF HandlerFacts

LEMMA DropStep ==
  ASSUME TypeOK, HandlerFacts, Growth,
         \A g \in running' : g \in running \/ Fact(g)'
  PROVE  HandlerFacts'
<1>1. ASSUME NEW g \in running PROVE Fact(g)'
  <2>1. g \in Handlers /\ g.id \in DOMAIN log /\ Fact(g)
    BY EntryType DEF HandlerFacts
  <2> QED
    BY <2>1, FactStable
<1> QED
  BY <1>1 DEF HandlerFacts

LEMMA QueuedFact ==
  ASSUME NEW h, h.stage = "queued"
  PROVE  Fact(h)'
  BY DEF Fact

LEMMA HandlerFactsStep ==
  ASSUME TypeOK, TypeOK', HandlerFacts, [Next]_vars
  PROVE  HandlerFacts'
<1> USE DEF stream, effects, faults
<1>1. Growth
  BY GrowthStep
<1>2. CASE running' \subseteq running
  BY <1>1, <1>2, DropStep
<1>3. ASSUME NEW w \in Workers, NEW ids, running' = running \cup Batch(w, ids)
      PROVE  HandlerFacts'
  <2>1. \A g \in Batch(w, ids) : g.stage = "queued"
    BY DEF Batch
  <2>2. \A g \in running' : g \in running \/ Fact(g)'
    BY <1>3, <2>1, QueuedFact
  <2> QED
    BY <1>1, <2>2, DropStep
<1>4. ASSUME NEW h \in running, Handle(h), ~(running' \subseteq running)
      PROVE  HandlerFacts'
  <2> DEFINE moved(s) == [h EXCEPT !.stage = s]
  <2>1. \A s : moved(s).id = h.id /\ moved(s).stage = s
    BY EntryType DEF Handlers
  <2>2. h \in Handlers /\ h.id \in DOMAIN log /\ Fact(h)
    BY EntryType DEF HandlerFacts
  <2>3. \A s : Task(moved(s))' = Task(h) /\ Task(h)' = Task(h)
    BY <1>1, <2>1, <2>2 DEF Task, Growth
  <2>4. Fact(h)'
    BY <1>1, <2>2, FactStable
  <2> HIDE DEF moved
  <2>5. CASE StartHandler(h)
    <3>1. Move(h, "loading") /\ Task(h) \notin Malformed
      BY <2>5 DEF StartHandler
    <3>2. Fact(moved("loading"))'
      BY <2>1, <2>3, <3>1 DEF Fact
    <3> QED
      BY <1>1, <3>1, <3>2, HandlerStep DEF moved, Stages
  <2>6. CASE Load(h)
    <3>1. UNCHANGED rows /\ Task(h) \notin Malformed
      BY <2>2, <2>6 DEF Load, Fact
    <3>2. CASE Task(h) \in rows
      <4>1. Fact(moved("working"))'
        BY <2>1, <2>3, <3>1 DEF Fact
      <4> QED
        BY <1>1, <2>6, <3>2, <4>1, HandlerStep DEF Load, moved, Stages
    <3>3. CASE Task(h) \notin rows
      <4>1. Fact(moved("missing"))'
        BY <2>1, <2>3, <3>1, <3>3 DEF Fact
      <4> QED
        BY <1>1, <2>6, <3>3, <4>1, HandlerStep DEF Load, moved, Stages
    <3> QED
      BY <3>2, <3>3
  <2>7. CASE HandOver(h)
    <3>1. Move(h, "handed") /\ handed' = handed \cup {Task(h)}
          /\ Task(h) \notin Malformed
      BY <1>4, <2>2, <2>7 DEF HandOver, Fact
    <3>2. Fact(moved("handed"))'
      BY <2>1, <2>3, <3>1 DEF Fact
    <3> QED
      BY <1>1, <3>1, <3>2, HandlerStep DEF moved, Stages
  <2>8. CASE Commit(h)
    <3>1. /\ Move(h, "committed") /\ committed' = committed \cup {Task(h)}
          /\ handed' = handed /\ Task(h) \notin Malformed
          /\ HandsOverFirst => Task(h) \in handed
      BY <2>2, <2>8 DEF Commit, Fact
    <3>2. Fact(moved("committed"))'
      BY <2>1, <2>3, <3>1 DEF Fact, HandsOverFirst
    <3> QED
      BY <1>1, <3>1, <3>2, HandlerStep DEF moved, Stages
  <2>9. CASE Skip(h)
    <3>1. /\ Move(h, "finishing") /\ committed' = committed \cup {Task(h)}
          /\ handed' = handed \cup {Task(h)} /\ Task(h) \notin Malformed
      BY <2>2, <2>9 DEF Skip, Fact
    <3>2. Fact(moved("finishing"))'
      BY <2>1, <2>3, <3>1 DEF Fact
    <3> QED
      BY <1>1, <3>1, <3>2, HandlerStep DEF moved, Stages
  <2>10. CASE Ack(h)
    <3>1. /\ Move(h, "acked") /\ h.stage = "committed" /\ ~HandsOverFirst
          /\ UNCHANGED committed
      BY <1>4, <2>10 DEF Ack
    <3>2. Task(h) \in committed /\ Task(h) \notin Malformed
      BY <2>2, <3>1 DEF Fact
    <3>3. Fact(moved("acked"))'
      BY <2>1, <2>3, <3>1, <3>2 DEF Fact, HandsOverFirst
    <3> QED
      BY <1>1, <3>1, <3>3, HandlerStep DEF moved, Stages
  <2>11. ASSUME NEW c \in {"quota", "other"}, Raise(h, c) PROVE HandlerFacts'
    <3>1. Move(h, c) /\ h.stage # "queued"
      BY <2>11 DEF Raise, TryStages
    <3>2. Task(h) \notin Malformed
      BY <2>2, <3>1 DEF Fact
    <3>3. Fact(moved(c))'
      BY <2>1, <2>3, <3>2 DEF Fact
    <3> QED
      BY <1>1, <3>1, <3>3, HandlerStep DEF moved, Stages
  <2>12. ASSUME NEW why, h.stage # "queued", DeadLetter(h, why)
         PROVE HandlerFacts'
    <3> DEFINE letter == [task |-> Task(h), retries |-> Retries(h), reason |-> why]
    <3>1. /\ Move(h, "closing") /\ Task(h) \notin Malformed /\ letter \in dead'
      BY <2>2, <2>12 DEF DeadLetter, Fact
    <3>2. letter.task = Task(h)
      OBVIOUS
    <3>3. DeadLettered(Task(moved("closing")))'
      BY <2>3, <3>1, <3>2 DEF DeadLettered
    <3>4. Fact(moved("closing"))'
      BY <2>1, <2>3, <3>1, <3>3 DEF Fact
    <3> QED
      BY <1>1, <3>1, <3>4, HandlerStep DEF moved, Stages
  <2>13. CASE Republish(h)
    <3>1. Move(h, "closing") /\ Task(h) \notin Malformed
      BY <2>2, <2>13 DEF Republish, Fact
    <3>2. /\ Len(log) \in Nat /\ Len(log) + 1 \in DOMAIN log'
          /\ \E n \in DOMAIN log' : n > Len(log) /\ log'[n] = [task |-> Task(h), retries |-> Retries(h) + 1]
      BY <2>13, RepublishFacts
    <3>3. log'[h.id].task = Task(h) /\ log'[h.id].retries = Retries(h)
      BY <1>1, <2>2 DEF Growth, Task, Retries
    <3>4. ~Unretried(h.id)'
      BY <3>2, <3>3 DEF Unretried
    <3>5. Fact(moved("closing"))'
      BY <2>1, <2>3, <3>1, <3>4 DEF Fact
    <3> QED
      BY <1>1, <3>1, <3>5, HandlerStep DEF moved, Stages
  <2>14. CASE RejectPayload(h) \/ LoadUnbound(h) \/ Escape(h)
    BY <1>4, <2>14 DEF RejectPayload, LoadUnbound, Escape
  <2> QED
    BY <1>4, <2>5, <2>6, <2>7, <2>8, <2>9, <2>10, <2>11, <2>12, <2>13, <2>14
    DEF Handle, Progress, DeadLetterQuota, DeadLetterMax
<1>5. ASSUME NEW w \in Workers, Worker(w) PROVE HandlerFacts'
  BY <1>2, <1>3, <1>5
  DEF Worker, StartWorker, StartWorkerUnclaimed, Listen, Consume, Crash
<1>6. CASE UNCHANGED running
  BY <1>2, <1>6
<1> QED
  BY <1>2, <1>4, <1>5, <1>6 DEF Next, Publish, DeleteRows, Age, vars

-----------------------------------------------------------------------------
(* No loss.                                                                *)

\* Why a task may cease to be owed.
Excused(t) ==
  \/ t \notin rows
  \/ DeadLettered(t)
  \/ t \in committed /\ (HandsOverFirst => t \in handed)

\* A task that is owed stays owed until it is excused.
LEMMA OwedStable ==
  ASSUME TypeOK, TypeOK', RetriesBounded, ChainOK, HandlerFacts, [Next]_vars,
         NEW t, Owed(t)
  PROVE  Owed(t)' \/ Excused(t)'
<1>1. Growth
  BY GrowthStep
<1>2. PICK j \in DOMAIN log : Pending(j) /\ log[j].task = t /\ Unretried(j)
  BY DEF Owed
<1>3. j \in DOMAIN log' /\ log'[j] = log[j] /\ log[j] \in Entry
  BY <1>1 DEF Growth, TypeOK
\* The stream is not appended to and entry j stays pending.
<1>4. ASSUME log' = log, Pending(j)' PROVE Owed(t)'
  BY <1>2, <1>3, <1>4 DEF Owed, Unretried
<1>5. ASSUME NEW u \in Tasks, Publish(u) PROVE Owed(t)'
  <2>1. \A i \in DOMAIN log' : i \in DOMAIN log \/ log'[i] = [task |-> u, retries |-> 0]
    BY <1>5, PublishFacts
  <2>2. log[j].retries \in Nat
    BY <1>3 DEF Entry
  <2>3. Unretried(j)'
    <3>1. ASSUME NEW i \in DOMAIN log'
          PROVE  ~(log'[i].task = log[j].task /\ log'[i].retries = log[j].retries + 1)
      <4>1. CASE i \in DOMAIN log
        BY <1>1, <1>2, <4>1 DEF Unretried, Growth
      <4>2. CASE log'[i] = [task |-> u, retries |-> 0]
        BY <2>2, <4>2
      <4> QED
        BY <2>1, <4>1, <4>2
    <3> QED
      BY <1>3, <3>1 DEF Unretried
  <2>4. Pending(j)'
    BY <1>2, <1>3, <1>5, PublishFacts DEF Pending
  <2> QED
    BY <1>2, <1>3, <2>3, <2>4 DEF Owed
<1>6. ASSUME NEW h \in running, Republish(h) PROVE Owed(t)'
  <2>1. PICK n \in DOMAIN log' :
          /\ n > Len(log)
          /\ log'[n] = [task |-> Task(h), retries |-> Retries(h) + 1]
          /\ UNCHANGED <<delivered, pel>>
    BY <1>6, RepublishFacts
  <2>2. \A i \in DOMAIN log' :
          \/ i \in DOMAIN log
          \/ log'[i] = [task |-> Task(h), retries |-> Retries(h) + 1]
    BY <1>6, RepublishFacts
  <2>3. Retries(h) \in Nat /\ log[j].retries \in Nat
    BY <1>3, EntryType DEF Entry
  \* If the new entry retries j, it takes over from j; nothing retries it,
  \* or the chain below that retry would contain a retry of j.
  <2>4. CASE Task(h) = t /\ Retries(h) = log[j].retries
    <3>1. log'[n].task = t /\ log'[n].retries = log[j].retries + 1
      BY <2>1, <2>4
    <3>2. ASSUME NEW i \in DOMAIN log', log'[i].task = t,
                 log'[i].retries = log[j].retries + 2
          PROVE  FALSE
      <4>1. CASE i \in DOMAIN log
        <5>1. log[i].task = t /\ log[i].retries = log[j].retries + 2
          BY <1>1, <3>2, <4>1 DEF Growth
        <5>2. log[j].retries + 2 <= MaxRetries
          BY <4>1, <5>1 DEF RetriesBounded
        <5>3. /\ log[j].retries + 1 \in 0 .. MaxRetries
              /\ log[j].retries + 1 < log[i].retries
          BY <2>3, <5>1, <5>2, BoundsAssumption
        <5>4. PICK m \in 1 .. delivered :
                 log[m] = [task |-> log[i].task, retries |-> log[j].retries + 1]
          BY <4>1, <5>3 DEF ChainOK
        <5>5. m \in DOMAIN log
          BY DEF TypeOK
        <5> QED
          BY <1>2, <5>1, <5>4, <5>5 DEF Unretried
      <4>2. CASE log'[i] = [task |-> Task(h), retries |-> Retries(h) + 1]
        BY <2>3, <2>4, <3>2, <4>2
      <4> QED
        BY <2>2, <4>1, <4>2
    <3>3. Unretried(n)'
      BY <2>3, <3>1, <3>2 DEF Unretried
    <3>4. n > delivered'
      BY <2>1 DEF TypeOK
    <3>5. Pending(n)'
      BY <3>4 DEF Pending
    <3> QED
      BY <2>1, <3>1, <3>3, <3>5 DEF Owed
  <2>5. CASE ~(Task(h) = t /\ Retries(h) = log[j].retries)
    <3>1. ASSUME NEW i \in DOMAIN log'
          PROVE  ~(log'[i].task = log[j].task /\ log'[i].retries = log[j].retries + 1)
      <4>1. CASE i \in DOMAIN log
        BY <1>1, <1>2, <4>1 DEF Unretried, Growth
      <4>2. CASE log'[i] = [task |-> Task(h), retries |-> Retries(h) + 1]
        BY <1>2, <2>3, <2>5, <4>2
      <4> QED
        BY <2>2, <4>1, <4>2
    <3>2. Unretried(j)'
      BY <1>3, <3>1 DEF Unretried
    <3>3. Pending(j)'
      BY <1>2, <1>3, <2>1 DEF Pending
    <3> QED
      BY <1>2, <1>3, <3>2, <3>3 DEF Owed
  <2> QED
    BY <2>4, <2>5
<1>7. ASSUME NEW h \in running, Ack(h) PROVE Owed(t)' \/ Excused(t)'
  <2>1. pel' = pel \ {h.id} /\ UNCHANGED <<log, delivered, rows, committed, handed, dead>>
    BY <1>7 DEF Ack, effects
  <2>2. CASE h.id # j
    <3>1. Pending(j)'
      BY <1>2, <2>1, <2>2 DEF Pending
    <3> QED
      BY <1>4, <2>1, <3>1
  <2>3. CASE h.id = j
    <3>1. Task(h) = t
      BY <1>2, <2>3 DEF Task
    <3>2. Fact(h) /\ h.stage \in AckStages
      BY <1>7 DEF HandlerFacts, Ack
    <3>3. Excused(t)
      BY <1>2, <2>3, <3>1, <3>2 DEF Fact, AckStages, Excused
    <3> QED
      BY <2>1, <3>3 DEF Excused, DeadLettered, HandsOverFirst
  <2> QED
    BY <2>2, <2>3
<1>8. ASSUME NEW h \in running, DeadLetterQuota(h) \/ DeadLetterMax(h)
      PROVE  Owed(t)'
  <2>1. UNCHANGED <<log, delivered, pel>>
    BY <1>8 DEF DeadLetterQuota, DeadLetterMax, DeadLetter, stream
  <2> QED
    BY <1>2, <1>4, <2>1 DEF Pending
<1>9. ASSUME NEW w \in Workers, Consume(w) PROVE Owed(t)'
  <2>1. log' = log
    BY <1>9, ConsumeFacts
  <2>2. Pending(j)'
    <3>1. CASE j \in pel
      <4>1. j \in pel'
        BY <1>9, <3>1, ConsumeFacts
      <4> QED
        BY <1>3, <4>1 DEF Pending
    <3>2. CASE j > delivered
      <4>1. delivered' \in Nat /\ j \in Nat \ {0} /\ j \notin 1 .. delivered
        <5>1. DOMAIN log = 1 .. Len(log) /\ Len(log) \in Nat /\ delivered \in Nat
          BY DEF TypeOK
        <5>2. delivered' \in Nat
          BY <1>9, ConsumeFacts
        <5> QED
          BY <3>2, <5>1, <5>2
      <4>2. j \in 1 .. delivered' => j \in pel'
        BY <1>9, <4>1, ConsumeFacts
      <4>3. j > delivered' \/ j \in 1 .. delivered'
        BY <4>1
      <4> QED
        BY <1>3, <4>2, <4>3 DEF Pending
    <3> QED
      BY <1>2, <3>1, <3>2 DEF Pending
  <2> QED
    BY <1>4, <2>1, <2>2
<1>10. CASE Quiet
  BY <1>2, <1>4, <1>10 DEF Quiet, Pending
<1> QED
  BY <1>5, <1>6, <1>7, <1>8, <1>9, <1>10, StepKinds

\* The entry of a task published for the first time is owed.
LEMMA FirstOwed ==
  ASSUME TypeOK, TypeOK', [Next]_vars, NEW t, NEW i \in DOMAIN log',
         log'[i].task = t, \A k \in DOMAIN log : log[k].task # t
  PROVE  Owed(t)'
<1>1. ASSUME NEW u \in Tasks, Publish(u) PROVE Owed(t)'
  <2>1. PICK n \in DOMAIN log' :
          /\ n > Len(log)
          /\ log'[n] = [task |-> u, retries |-> 0]
          /\ UNCHANGED <<delivered, pel>>
    BY <1>1, PublishFacts
  <2>2. \A k \in DOMAIN log' : k \in DOMAIN log \/ log'[k] = [task |-> u, retries |-> 0]
    BY <1>1, PublishFacts
  <2>3. \A k \in DOMAIN log : log'[k] = log[k]
    BY <1>1, PublishFacts
  <2>4. t = u
    BY <2>2, <2>3
  <2>5. Unretried(n)'
    <3>1. ASSUME NEW k \in DOMAIN log'
          PROVE  ~(log'[k].task = log'[n].task /\ log'[k].retries = log'[n].retries + 1)
      <4>1. CASE k \in DOMAIN log
        BY <2>1, <2>3, <2>4, <4>1
      <4>2. CASE log'[k] = [task |-> u, retries |-> 0]
        BY <2>1, <4>2
      <4> QED
        BY <2>2, <4>1, <4>2
    <3> QED
      BY <3>1 DEF Unretried
  <2>6. Pending(n)'
    <3>1. n > delivered'
      BY <2>1 DEF TypeOK
    <3> QED
      BY <3>1 DEF Pending
  <2> QED
    BY <2>1, <2>4, <2>5, <2>6 DEF Owed
<1>2. ASSUME NEW h \in running, Republish(h) PROVE FALSE
  <2>1. h.id \in DOMAIN log /\ log[h.id].task = Task(h)
    BY EntryType DEF Task
  <2>2. \/ i \in DOMAIN log
        \/ log'[i] = [task |-> Task(h), retries |-> Retries(h) + 1]
    BY <1>2, RepublishFacts
  <2>3. \A k \in DOMAIN log : log'[k] = log[k]
    BY <1>2, RepublishFacts
  <2> QED
    BY <2>1, <2>2, <2>3
<1>3. CASE log' = log
  BY <1>3
<1> QED
  BY <1>1, <1>2, <1>3, StepKinds, ConsumeFacts
  DEF Ack, DeadLetterQuota, DeadLetterMax, DeadLetter, Quiet, stream

LEMMA OwedStep ==
  ASSUME TypeOK, TypeOK', RetriesBounded, ChainOK, HandlerFacts, [Next]_vars
  PROVE  /\ OwedUnless(committed) => OwedUnless(committed)'
         /\ HandsOverFirst /\ OwedUnless(handed) => OwedUnless(handed)'
<1>1. Growth
  BY GrowthStep
<1>2. ASSUME NEW t, NEW i \in DOMAIN log', log'[i].task = t,
             \A k \in DOMAIN log : log[k].task # t
      PROVE  Owed(t)'
  BY <1>2, FirstOwed
<1>3. ASSUME NEW t, Owed(t), t \in rows'
      PROVE  Owed(t)' \/ DeadLettered(t)'
               \/ (t \in committed' /\ (HandsOverFirst => t \in handed'))
  BY <1>3, OwedStable DEF Excused, HandsOverFirst
<1>4. ASSUME NEW t, DeadLettered(t) PROVE DeadLettered(t)'
  BY <1>1, <1>4 DEF Growth, DeadLettered
<1>5. ASSUME OwedUnless(committed) PROVE OwedUnless(committed)'
  <2>1. ASSUME NEW t, NEW i \in DOMAIN log', log'[i].task = t, t \in rows'
        PROVE  t \in committed' \/ DeadLettered(t)' \/ Owed(t)'
    <3>1. CASE \A k \in DOMAIN log : log[k].task # t
      BY <1>2, <2>1, <3>1
    <3>2. ASSUME NEW k \in DOMAIN log, log[k].task = t
          PROVE  t \in committed' \/ DeadLettered(t)' \/ Owed(t)'
      <4>1. t \in rows /\ committed \subseteq committed'
        BY <1>1, <2>1 DEF Growth
      <4>2. t \in committed \/ DeadLettered(t) \/ Owed(t)
        BY <1>5, <3>2, <4>1 DEF OwedUnless
      <4> QED
        BY <1>3, <1>4, <2>1, <4>1, <4>2
    <3> QED
      BY <3>1, <3>2
  <2> QED
    BY <2>1 DEF OwedUnless, DeadLettered, Owed
<1>6. ASSUME HandsOverFirst, OwedUnless(handed) PROVE OwedUnless(handed)'
  <2>1. ASSUME NEW t, NEW i \in DOMAIN log', log'[i].task = t, t \in rows'
        PROVE  t \in handed' \/ DeadLettered(t)' \/ Owed(t)'
    <3>1. CASE \A k \in DOMAIN log : log[k].task # t
      BY <1>2, <2>1, <3>1
    <3>2. ASSUME NEW k \in DOMAIN log, log[k].task = t
          PROVE  t \in handed' \/ DeadLettered(t)' \/ Owed(t)'
      <4>1. t \in rows /\ handed \subseteq handed'
        BY <1>1, <2>1 DEF Growth
      <4>2. t \in handed \/ DeadLettered(t) \/ Owed(t)
        BY <1>6, <3>2, <4>1 DEF OwedUnless
      <4> QED
        BY <1>3, <1>4, <1>6, <2>1, <4>1, <4>2
    <3> QED
      BY <3>1, <3>2
  <2> QED
    BY <2>1 DEF OwedUnless, DeadLettered, Owed
<1> QED
  BY <1>5, <1>6

-----------------------------------------------------------------------------
(* The theorems.                                                           *)

LEMMA InvInit == Init => IInv
<1> SUFFICES ASSUME Init PROVE IInv
  OBVIOUS
<1>1. TypeOK
  BY TypeInit
<1>2. DOMAIN log = {} /\ 1 .. delivered = {} /\ running = {} /\ dead = {}
  BY DEF Init
<1> QED
  BY <1>1, <1>2
  DEF IInv, RetriesBounded, ChainOK, HandlerFacts, DeadLetterMeansExhausted,
      OwedUnless

LEMMA InvStep == IInv /\ [Next]_vars => IInv'
<1> SUFFICES ASSUME IInv, [Next]_vars PROVE IInv'
  OBVIOUS
<1>1. /\ TypeOK /\ RetriesBounded /\ ChainOK /\ HandlerFacts
      /\ DeadLetterMeansExhausted
      /\ OwedUnless(committed) /\ (HandsOverFirst => OwedUnless(handed))
  BY DEF IInv
<1>2. TypeOK'
  BY <1>1, TypeStep
<1>3. RetriesBounded' /\ ChainOK' /\ DeadLetterMeansExhausted'
  BY <1>1, RetriesStep, ChainStep, DeadStep
<1>4. HandlerFacts'
  BY <1>1, <1>2, HandlerFactsStep
<1>5. OwedUnless(committed)' /\ (HandsOverFirst => OwedUnless(handed)')
  BY <1>1, <1>2, OwedStep
<1> QED
  BY <1>2, <1>3, <1>4, <1>5 DEF IInv, HandsOverFirst

\* Every behaviour keeps the inductive invariant.
THEOREM Invariance == Spec => []IInv
  BY InvInit, InvStep, PTL DEF Spec

\* Type correctness: no entry is pending that was not delivered, none is
\* delivered that was not published, and every handler holds such an entry.
THEOREM TypeCorrect == Spec => []TypeOK
<1>1. IInv => TypeOK
  BY DEF IInv
<1> QED
  BY <1>1, Invariance, PTL

\* No published task is silently lost by the consumer group, the retry tail
\* or a crash: committed, dead-lettered, without rows, or still pending.
THEOREM NoLoss == Spec => []NoSilentLoss
<1>1. IInv => NoSilentLoss
  BY DEF IInv, OwedUnless, Owed, NoSilentLoss, PendingTask
<1> QED
  BY <1>1, Invariance, PTL

\* A worker that hands over before it acknowledges (the fetch worker) never
\* loses a hand-over, crashes and escaping errors included.
THEOREM HandOverSafe ==
  ASSUME HandsOverFirst
  PROVE  Spec => []HandOverNotLost
<1>1. IInv => HandOverNotLost
  BY DEF IInv, OwedUnless, Owed, HandOverNotLost, PendingTask
<1> QED
  BY <1>1, Invariance, PTL

\* A task is given up for too many retries only after all its attempts.
THEOREM GivenUpOnlyExhausted == Spec => []DeadLetterMeansExhausted
<1>1. IInv => DeadLetterMeansExhausted
  BY DEF IInv
<1> QED
  BY <1>1, Invariance, PTL

\* No task is retried beyond MAX_RETRIES.
THEOREM RetryLimit == Spec => []RetriesBounded
<1>1. IInv => RetriesBounded
  BY DEF IInv
<1> QED
  BY <1>1, Invariance, PTL
=============================================================================
