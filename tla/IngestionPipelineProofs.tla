---------------------- MODULE IngestionPipelineProofs ----------------------
(***************************************************************************)
(* IngestionPipeline, for any files, retries, batches and faults: the types *)
(* of the rows, the streams and the handlers, and which entry each handler *)
(* has.  The steps of the three workers fall into a few stages, by what     *)
(* they do to the streams and the handlers; Stage is the table of them.     *)
(***************************************************************************)
EXTENDS IngestionPipeline, FiniteSetTheorems, SequenceTheorems, TLAPS

ErrorPcs == {"error", "quota", "retry", "giveup"}

\* What a handler does before its ack, and between its ack and its end.
EarlyPcs(r) ==
  CASE r = "fetch" -> {"queued", "mark", "refresh", "list", "reset", "total",
                       "publish", "commit"}
    [] r = "process" -> {"queued", "mark", "examine", "count", "check", "commit",
                         "ack"}
    [] OTHER -> {"queued", "examine", "vectors", "meta", "commit", "ack"}
LatePcs(r) ==
  CASE r = "fetch" -> {}
    [] r = "process" -> {"publish"}
    [] OTHER -> {"count", "check", "finish"}
Pcs(r) == EarlyPcs(r) \cup LatePcs(r) \cup ErrorPcs \cup {"close"}

Loaded == Statuses \cup {Unloaded}
Shown == [fetched : Nat, processed : Nat, stored : Nat]
Messages == [file : Files \cup {NoFile}, retries : Nat]
Stream == [log : Seq(Messages), next : Nat, pel : SUBSET Nat]
Handlers == [role : Roles, id : Nat, pc : UNION {Pcs(r) : r \in Roles},
             reclaimed : BOOLEAN, repo : Loaded, job : Loaded,
             todo : SUBSET Files, snap : Shown, flush : BOOLEAN]

\* A handler has an entry that was delivered and, before its ack, is pending.
Fits(s, h) ==
  /\ h.id \in 1 .. s[h.role].next - 1
  /\ h.pc \in Pcs(h.role)
  /\ h.pc \in EarlyPcs(h.role) \/ h.role = "fetch" => h.id \in s[h.role].pel
  /\ h.pc \in LatePcs(h.role) => h.id \notin s[h.role].pel

\* The streams s, the handlers c and the running workers u fit together.
StreamsFit(s) ==
  /\ s \in [Roles -> Stream]
  /\ \A r \in Roles :
       /\ s[r].next \in 1 .. Len(s[r].log) + 1
       /\ s[r].pel \subseteq 1 .. s[r].next - 1
       /\ r # "fetch" => \A i \in DOMAIN s[r].log : s[r].log[i].file \in Files
Shape(s, c, u) ==
  /\ StreamsFit(s)
  /\ c \subseteq Handlers
  /\ \A h \in c : h.role \in u /\ Fits(s, h)
  /\ \A h, g \in c : g.role = h.role /\ g.id = h.id => g = h

RowsOK ==
  /\ repoStatus \in Statuses /\ jobStatus \in Statuses \ {"fetching"}
  /\ jobTotal \in 0 .. Cardinality(Files) /\ jobShown \in Shown
  /\ progress \in [total : Nat, fetched : Nat, processed : Nat, stored : Nat]
  /\ meta \in [Files -> {"none", "pending", "completed"}] /\ vectors \subseteq Files
  /\ faults \in [crash : Nat, error : Nat]

TypeInv == Shape(streams, ctx, up) /\ up \subseteq Roles /\ RowsOK

-----------------------------------------------------------------------------
(* Streams that were published to or acknowledged.                         *)

\* t is s after a step of a handler with entry i of r.
After(s, t, r, i) ==
  /\ StreamsFit(t)
  /\ \A q \in Roles :
       /\ t[q].next = s[q].next
       /\ t[q].pel = s[q].pel \/ (q = r /\ t[q].pel = s[q].pel \ {i})
       /\ \A k \in DOMAIN s[q].log : k \in DOMAIN t[q].log /\ t[q].log[k] = s[q].log[k]

\* What Append does to a sequence.
LEMMA AppendIs ==
  ASSUME NEW S, NEW l \in Seq(S), NEW m \in S
  PROVE  /\ Append(l, m) \in Seq(S) /\ Len(l) \in Nat /\ DOMAIN l = 1 .. Len(l)
         /\ Len(Append(l, m)) = Len(l) + 1
         /\ DOMAIN Append(l, m) = 1 .. Len(l) + 1
         /\ \A i \in 1 .. Len(l) : i \in DOMAIN Append(l, m) /\ Append(l, m)[i] = l[i]
         /\ Append(l, m)[Len(l) + 1] = m
OBVIOUS

\* A publication appends to one stream.
LEMMA PublishIs ==
  ASSUME NEW s, StreamsFit(s), NEW r \in Roles, NEW m \in Messages,
         r # "fetch" => m.file \in Files
  PROVE  /\ StreamsFit(Publish(s, r, m))
         /\ \A q \in Roles :
              /\ Publish(s, r, m)[q].next = s[q].next
              /\ Publish(s, r, m)[q].pel = s[q].pel
              /\ Publish(s, r, m)[q].log = IF q = r THEN Append(s[q].log, m)
                                                    ELSE s[q].log
<1> DEFINE t == Publish(s, r, m)
<1>0. s \in [Roles -> Stream]
  BY DEF StreamsFit
<1>1. ASSUME NEW q \in Roles
      PROVE  /\ t[q].next = s[q].next /\ t[q].pel = s[q].pel
             /\ t[q].log = IF q = r THEN Append(s[q].log, m) ELSE s[q].log
             /\ t[q] \in Stream
  <2>1. s[q] \in Stream /\ s[q].log \in Seq(Messages)
    BY <1>0 DEF Stream
  <2>2. Append(s[q].log, m) \in Seq(Messages)
    BY <2>1
  <2>3. t[q] = IF q = r THEN [s[q] EXCEPT !.log = Append(s[q].log, m)] ELSE s[q]
    BY <1>0 DEF Publish
  <2> QED
    BY <2>1, <2>2, <2>3 DEF Stream
<1>2. t \in [Roles -> Stream]
  <2>1. t = [q \in Roles |-> t[q]]
    BY <1>0 DEF Publish
  <2> QED
    BY <1>1, <2>1
<1> HIDE DEF t
<1>3. ASSUME NEW q \in Roles
      PROVE  /\ t[q].next \in 1 .. Len(t[q].log) + 1
             /\ t[q].pel \subseteq 1 .. t[q].next - 1
             /\ q # "fetch" => \A i \in DOMAIN t[q].log : t[q].log[i].file \in Files
  <2>1. /\ s[q].log \in Seq(Messages) /\ s[q].next \in 1 .. Len(s[q].log) + 1
        /\ s[q].pel \subseteq 1 .. s[q].next - 1
        /\ q # "fetch" => \A i \in DOMAIN s[q].log : s[q].log[i].file \in Files
    BY DEF StreamsFit, Stream
  <2>2. CASE q = r
    <3> DEFINE n == Len(s[q].log)
    <3>1. /\ Len(t[q].log) = n + 1
          /\ \A i \in 1 .. n : t[q].log[i] = s[q].log[i]
          /\ t[q].log[n + 1] = m
          /\ DOMAIN t[q].log = 1 .. n + 1
          /\ n \in Nat /\ DOMAIN s[q].log = 1 .. n
      <4>1. t[q].log = Append(s[q].log, m)
        BY <1>1, <2>2
      <4> QED
        BY <2>1, <4>1, AppendIs
    <3>2. t[q].next = s[q].next /\ t[q].pel = s[q].pel
      BY <1>1
    <3> HIDE DEF n
    <3>3. t[q].next \in 1 .. n + 1 + 1
      BY <2>1, <3>1, <3>2 DEF n
    <3>4. q # "fetch" => \A i \in 1 .. n + 1 : t[q].log[i].file \in Files
      <4>1. ASSUME q # "fetch", NEW i \in 1 .. n + 1 PROVE t[q].log[i].file \in Files
        <5>1. CASE i = n + 1
          BY <2>2, <3>1, <4>1, <5>1
        <5>2. CASE i # n + 1
          BY <2>1, <3>1, <4>1, <5>2
        <5> QED
          BY <5>1, <5>2
      <4> QED
        BY <4>1
    <3> QED
      BY <2>1, <3>1, <3>2, <3>3, <3>4
  <2>3. CASE q # r
    BY <1>1, <2>1, <2>3
  <2> QED
    BY <2>2, <2>3
<1> HIDE DEF t
<1> QED
  BY <1>1, <1>2, <1>3 DEF StreamsFit, t

\* An ack takes one entry from one pending list.
LEMMA AckedIs ==
  ASSUME NEW s, StreamsFit(s), NEW r \in Roles, NEW i \in Nat
  PROVE  /\ StreamsFit(Acked(s, r, i))
         /\ \A q \in Roles :
              /\ Acked(s, r, i)[q].next = s[q].next
              /\ Acked(s, r, i)[q].log = s[q].log
              /\ q # r => Acked(s, r, i)[q].pel = s[q].pel
         /\ Acked(s, r, i)[r].pel = s[r].pel \ {i}
<1> DEFINE t == Acked(s, r, i)
<1>0. s \in [Roles -> Stream]
  BY DEF StreamsFit
<1>1. ASSUME NEW q \in Roles
      PROVE  /\ t[q].next = s[q].next /\ t[q].log = s[q].log
             /\ t[q].pel = IF q = r THEN s[q].pel \ {i} ELSE s[q].pel
             /\ t[q] \in Stream
  <2>1. s[q] \in Stream
    BY <1>0
  <2>3. t[q] = IF q = r THEN [s[q] EXCEPT !.pel = s[q].pel \ {i}] ELSE s[q]
    BY <1>0 DEF Acked
  <2> QED
    BY <2>1, <2>3 DEF Stream
<1>2. t \in [Roles -> Stream]
  <2>1. t = [q \in Roles |-> t[q]]
    BY <1>0 DEF Acked
  <2> QED
    BY <1>1, <2>1
<1> HIDE DEF t
<1> QED
  BY <1>1, <1>2 DEF StreamsFit, t

\* Both are such a step.
LEMMA PublishAfter ==
  ASSUME NEW s, StreamsFit(s), NEW r \in Roles, NEW m \in Messages,
         r # "fetch" => m.file \in Files, NEW q, NEW i
  PROVE  After(s, Publish(s, r, m), q, i)
<1> DEFINE t == Publish(s, r, m)
<1>1. /\ StreamsFit(t)
      /\ \A p \in Roles :
              /\ t[p].next = s[p].next
              /\ t[p].pel = s[p].pel
              /\ t[p].log = IF p = r THEN Append(s[p].log, m) ELSE s[p].log
  BY PublishIs
<1>2. ASSUME NEW p \in Roles, NEW k \in DOMAIN s[p].log
      PROVE  k \in DOMAIN t[p].log /\ t[p].log[k] = s[p].log[k]
  <2>1. s[p].log \in Seq(Messages)
    BY DEF StreamsFit, Stream
  <2>2. k \in DOMAIN Append(s[p].log, m) /\ Append(s[p].log, m)[k] = s[p].log[k]
    BY <2>1, AppendIs
  <2> HIDE DEF t
  <2> QED
    BY <1>1, <2>2
<1> HIDE DEF t
<1>3. After(s, t, q, i)
  BY <1>1, <1>2, Zenon DEF After
<1> QED
  BY <1>3 DEF t

\* An acknowledgement is one, of the entry it is for.
LEMMA AckedAfter ==
  ASSUME NEW s, StreamsFit(s), NEW r \in Roles, NEW i \in Nat
  PROVE  After(s, Acked(s, r, i), r, i) /\ i \notin Acked(s, r, i)[r].pel
<1> DEFINE t == Acked(s, r, i)
<1>1. /\ StreamsFit(t)
      /\ \A q \in Roles :
           /\ t[q].next = s[q].next
           /\ t[q].log = s[q].log
           /\ q # r => t[q].pel = s[q].pel
      /\ t[r].pel = s[r].pel \ {i}
  BY AckedIs
<1> HIDE DEF t
<1>2. \A q \in Roles : t[q].pel = s[q].pel \/ (q = r /\ t[q].pel = s[q].pel \ {i})
  BY <1>1
<1>3. After(s, t, r, i)
  BY <1>1, <1>2, Zenon DEF After
<1> QED
  BY <1>1, <1>3 DEF t

\* So is leaving the streams alone.
LEMMA SameAfter ==
  ASSUME NEW s, StreamsFit(s), NEW r, NEW i
  PROVE  After(s, s, r, i)
BY Zenon DEF After

\* A handler that moves on, or ends, leaves the others as they were.
LEMMA ShapeMove ==
  ASSUME NEW s, NEW c, NEW u, Shape(s, c, u), NEW h \in c, NEW t,
         After(s, t, h.role, h.id), NEW g \in Handlers,
         g.role = h.role, g.id = h.id, Fits(t, g)
  PROVE  Shape(t, (c \ {h}) \cup {g}, u)
<1>1. ASSUME NEW k \in c, k # h PROVE Fits(t, k)
  <2>1. k \in Handlers /\ Fits(s, k) /\ (k.role # h.role \/ k.id # h.id)
    BY <1>1 DEF Shape
  <2>2. k.role \in Roles
    BY <2>1 DEF Handlers
  <2> QED
    BY <2>1, <2>2 DEF After, Fits
<1> QED
  BY <1>1 DEF Shape, After

\* And when it ends.
LEMMA ShapeEnd ==
  ASSUME NEW s, NEW c, NEW u, Shape(s, c, u), NEW h \in c, NEW t,
         After(s, t, h.role, h.id)
  PROVE  Shape(t, c \ {h}, u)
<1>1. ASSUME NEW k \in c, k # h PROVE Fits(t, k)
  <2>1. k \in Handlers /\ Fits(s, k) /\ (k.role # h.role \/ k.id # h.id)
    BY <1>1 DEF Shape
  <2>2. k.role \in Roles
    BY <2>1 DEF Handlers
  <2> QED
    BY <2>1, <2>2 DEF After, Fits
<1> QED
  BY <1>1 DEF Shape, After

-----------------------------------------------------------------------------
(* What the steps of the handlers do to the handlers and the streams.      *)

Becomes(h, l) ==
  \E g \in Handlers : /\ g.role = h.role /\ g.id = h.id /\ g.pc = l
                      /\ ctx' = (ctx \ {h}) \cup {g}

\* The steps that only bring a handler from one await to the next.
Silent(r) ==
  {<<"error", "retry">>, <<"quota", "giveup">>, <<"giveup", "close">>,
   <<"retry", "close">>} \cup
  CASE r = "fetch" ->
         {<<"queued", "mark">>, <<"mark", "refresh">>, <<"refresh", "list">>,
          <<"list", "reset">>, <<"list", "close">>, <<"reset", "total">>,
          <<"total", "publish">>, <<"publish", "commit">>, <<"commit", "close">>}
    [] r = "process" ->
         {<<"queued", "mark">>, <<"mark", "examine">>, <<"examine", "close">>,
          <<"examine", "count">>, <<"count", "check">>, <<"check", "commit">>,
          <<"commit", "ack">>}
    [] OTHER ->
         {<<"queued", "examine">>, <<"examine", "commit">>, <<"examine", "vectors">>,
          <<"vectors", "meta">>, <<"meta", "commit">>, <<"commit", "ack">>,
          <<"count", "check">>, <<"check", "finish">>}

\* The calls that may raise, where.
Raising(r) ==
  CASE r = "fetch" -> {<<"list", "github">>, <<"publish", "publish_file">>}
    [] r = "process" -> {<<"examine", "embed">>, <<"check", "progress">>,
                         <<"publish", "publish_store">>}
    [] OTHER -> {<<"vectors", "qdrant">>, <<"meta", "db_store">>,
                 <<"check", "progress">>}

Moves(h) ==
  /\ UNCHANGED <<streams, faults>>
  /\ \E l : <<h.pc, l>> \in Silent(h.role) /\ Becomes(h, l)
Stumbles(h) ==
  /\ UNCHANGED streams
  /\ \E p : <<h.pc, p>> \in Raising(h.role) /\ Raises(p)
  /\ \E l \in {"error", "quota"} : Becomes(h, l)
Abandons(h) ==
  /\ h.role = "store" /\ h.pc = "queued" /\ Raises("store_load")
  /\ ctx' = ctx \ {h}
  /\ UNCHANGED streams
EndsQuietly(h) ==
  /\ h.role = "store" /\ h.pc \in {"check", "finish"}
  /\ ctx' = ctx \ {h}
  /\ UNCHANGED <<streams, faults>>
Acknowledges(h) ==
  /\ streams' = Acked(streams, h.role, h.id)
  /\ \/ h.role = "process" /\ h.pc = "ack" /\ Becomes(h, "publish")
     \/ h.role = "store" /\ h.pc = "ack" /\ Becomes(h, "count")
     \/ h.pc = "close" /\ ctx' = ctx \ {h}
  /\ UNCHANGED faults
Announces(h) == PublishFile(h) /\ Becomes(h, "publish")
HandsOver(h) ==
  /\ h.role = "process" /\ h.pc = "publish" /\ ctx' = ctx \ {h}
  /\ streams' = Publish(streams, "store", Message(File(h), 0))
  /\ UNCHANGED faults
Retries(h) ==
  /\ h.pc = "retry" /\ Becomes(h, "close")
  /\ streams' = Publish(streams, h.role, Message(File(h), Msg(h).retries + 1))
  /\ UNCHANGED faults

Stage(h) ==
  \/ Moves(h) \/ Stumbles(h) \/ Abandons(h) \/ EndsQuietly(h)
  \/ Acknowledges(h) \/ Announces(h) \/ HandsOver(h) \/ Retries(h)

\* A new handler is one.
LEMMA NewIsHandler ==
  ASSUME NEW r \in Roles, NEW i \in Nat, NEW b \in BOOLEAN
  PROVE  /\ NewHandler(r, i, b) \in Handlers
         /\ NewHandler(r, i, b).role = r /\ NewHandler(r, i, b).id = i
         /\ NewHandler(r, i, b).pc = "queued"
<1>1. "queued" \in UNION {Pcs(q) : q \in Roles}
  BY DEF Roles, Pcs, EarlyPcs
<1>2. NoCounts \in Shown
  BY DEF NoCounts, Shown
<1> QED
  BY <1>1, <1>2 DEF NewHandler, Handlers, Loaded

\* The names of the steps.
LEMMA PcsAre ==
  UNION {Pcs(r) : r \in Roles} =
    {"queued", "mark", "refresh", "list", "reset", "total", "publish", "commit",
     "examine", "count", "check", "ack", "vectors", "meta", "finish", "close",
     "error", "quota", "retry", "giveup"}
BY DEF Roles, Pcs, EarlyPcs, LatePcs, ErrorPcs

\* A handler in memory is typed, and so is all that it may load.
LEMMA ContentsTyped ==
  ASSUME TypeInv, NEW h \in ctx
  PROVE  /\ h \in Handlers /\ h.role \in Roles /\ h.pc \in Pcs(h.role)
         /\ repoStatus \in Loaded /\ jobStatus \in Loaded /\ Unloaded \in Loaded
         /\ NoCounts \in Shown /\ Counts(progress) \in Shown
         /\ h.repo \in Loaded /\ h.job \in Loaded /\ h.todo \in SUBSET Files
         /\ h.snap \in Shown
<1>1. h \in Handlers /\ Fits(streams, h)
  BY DEF TypeInv, Shape
<1>2. Counts(progress) \in Shown
  BY DEF TypeInv, RowsOK, Counts, Shown
<1>3. NoCounts \in Shown
  BY DEF NoCounts, Shown
<1> QED
  BY <1>1, <1>2, <1>3 DEF TypeInv, RowsOK, Handlers, Fits, Loaded

\* A handler whose program counter, and little else, is new.
LEMMA BecomesBy ==
  ASSUME NEW h, NEW l, NEW g, g \in Handlers /\ g.role = h.role /\ g.id = h.id /\ g.pc = l,
         Become(h, g)
  PROVE  Becomes(h, l)
BY DEF Becomes, Become

\* The error path, the same for the three.
LEMMA ErrorStage ==
  ASSUME TypeInv, NEW h \in ctx, ErrorPath(h)
  PROVE  Stage(h)
<1>0. h \in Handlers /\ h.role \in Roles
  BY ContentsTyped
<1>a. ASSUME NEW l \in {"retry", "giveup", "close"}, Goto(h, l) PROVE Becomes(h, l)
  <2>1. l \in UNION {Pcs(r) : r \in Roles}
    BY PcsAre
  <2>2. [h EXCEPT !.pc = l] \in Handlers /\ [h EXCEPT !.pc = l].role = h.role
        /\ [h EXCEPT !.pc = l].id = h.id /\ [h EXCEPT !.pc = l].pc = l
    BY <1>0, <2>1 DEF Handlers
  <2> QED
    BY <1>a, <2>2, BecomesBy DEF Goto
<1>1. CASE MarkFailed(h)
  <2>1. UNCHANGED <<streams, faults>>
    BY <1>1 DEF MarkFailed
  <2>2. CASE h.pc = "error"
    BY <1>1, <1>a, <2>1, <2>2 DEF MarkFailed, Stage, Moves, Silent
  <2>3. CASE h.pc = "quota"
    BY <1>1, <1>a, <2>1, <2>3 DEF MarkFailed, Stage, Moves, Silent
  <2> QED
    BY <1>1, <2>2, <2>3 DEF MarkFailed
<1>2. CASE Republish(h)
  BY <1>2, <1>a DEF Republish, Stage, Retries
<1>3. CASE DeadLetter(h)
  <2>1. Becomes(h, "close") /\ UNCHANGED <<streams, faults>>
    BY <1>3, <1>a DEF DeadLetter
  <2>2. <<h.pc, "close">> \in Silent(h.role)
    BY <1>3 DEF DeadLetter, Silent
  <2> QED
    BY <2>1, <2>2 DEF Stage, Moves
<1>4. CASE Close(h)
  BY <1>4 DEF Close, End, Stage, Acknowledges
<1> QED
  BY <1>1, <1>2, <1>3, <1>4 DEF ErrorPath

\* A call that raises makes its handler a new one, at the except block.
LEMMA FailsBecomes ==
  ASSUME TypeInv, NEW h \in ctx, NEW p, Fails(h, p)
  PROVE  \E l \in {"error", "quota"} : Becomes(h, l)
<1>0. h.role \in Roles /\ h.id \in Nat /\ h.reclaimed \in BOOLEAN
  BY ContentsTyped DEF Handlers
<1>1. PICK l \in {"error", "quota"} :
        Become(h, [NewHandler(h.role, h.id, h.reclaimed) EXCEPT !.pc = l])
  BY DEF Fails
<1> DEFINE k == NewHandler(h.role, h.id, h.reclaimed)
<1>2. k \in Handlers /\ k.role = h.role /\ k.id = h.id
  BY <1>0, NewIsHandler
<1> HIDE DEF k
<1>3. l \in UNION {Pcs(r) : r \in Roles}
  BY PcsAre
<1>4. [k EXCEPT !.pc = l] \in Handlers /\ [k EXCEPT !.pc = l].role = h.role
      /\ [k EXCEPT !.pc = l].id = h.id /\ [k EXCEPT !.pc = l].pc = l
  BY <1>2, <1>3 DEF Handlers
<1> QED
  BY <1>1, <1>4, BecomesBy DEF k

\* A call that raises is one of the stages.
LEMMA FailsStage ==
  ASSUME TypeInv, NEW h \in ctx, NEW p, <<h.pc, p>> \in Raising(h.role), Fails(h, p)
  PROVE  Stage(h)
BY FailsBecomes DEF Fails, Stage, Stumbles

\* A step of the fetch worker is one of the stages.
LEMMA FetchStage ==
  ASSUME TypeInv, NEW h \in ctx, FetchStep(h) \/ FetchFails(h)
  PROVE  Stage(h)
<1>0. /\ h \in Handlers /\ h.role \in Roles /\ h.pc \in Pcs(h.role)
      /\ repoStatus \in Loaded /\ jobStatus \in Loaded /\ Unloaded \in Loaded
      /\ NoCounts \in Shown /\ Counts(progress) \in Shown
      /\ h.repo \in Loaded /\ h.job \in Loaded /\ h.todo \in SUBSET Files
      /\ h.snap \in Shown
  BY ContentsTyped
<1> DEFINE All == UNION {Pcs(r) : r \in Roles}
<1>p. {"mark", "refresh", "list", "reset", "total", "publish", "commit", "close"} \subseteq All
  BY PcsAre
<1> HIDE DEF All
<1>1. CASE FetchLoad(h)
  <2>1. Becomes(h, "mark")
    <3> DEFINE g == [h EXCEPT !.pc = "mark", !.repo = repoStatus, !.job = jobStatus]
    <3>1. g \in Handlers /\ g.role = h.role /\ g.id = h.id /\ g.pc = "mark"
      BY <1>0, <1>p DEF Handlers, All
    <3> QED
      BY <1>1, <3>1, BecomesBy DEF FetchLoad, Load
  <2> QED
    BY <1>1, <2>1 DEF FetchLoad, Stage, Moves, Silent
<1>2. CASE FetchMark(h)
  <2>1. Becomes(h, "refresh")
    <3> DEFINE g == [h EXCEPT !.pc = "refresh", !.repo = Unloaded, !.job = Unloaded]
    <3>1. g \in Handlers /\ g.role = h.role /\ g.id = h.id /\ g.pc = "refresh"
      BY <1>0, <1>p DEF Handlers, All
    <3> QED
      BY <1>2, <3>1, BecomesBy DEF FetchMark
  <2> QED
    BY <1>2, <2>1 DEF FetchMark, Stage, Moves, Silent
<1>3. CASE FetchRefresh(h)
  <2>1. Becomes(h, "list")
    <3> DEFINE g == [h EXCEPT !.pc = "list", !.repo = repoStatus, !.job = jobStatus]
    <3>1. g \in Handlers /\ g.role = h.role /\ g.id = h.id /\ g.pc = "list"
      BY <1>0, <1>p DEF Handlers, All
    <3> QED
      BY <1>3, <3>1, BecomesBy DEF FetchRefresh, Load
  <2> QED
    BY <1>3, <2>1 DEF FetchRefresh, Stage, Moves, Silent
<1>4. CASE FetchFiles(h)
  <2>1. Becomes(h, "reset")
    <3>1. PICK found \in Listings \ {{}} :
            Become(h, [h EXCEPT !.pc = "reset", !.todo = found, !.job = Unloaded])
      BY <1>4 DEF FetchFiles
    <3> DEFINE g == [h EXCEPT !.pc = "reset", !.todo = found, !.job = Unloaded]
    <3>2. found \in SUBSET Files
      BY DEF Listings
    <3>3. g \in Handlers /\ g.role = h.role /\ g.id = h.id /\ g.pc = "reset"
      BY <1>0, <1>p, <3>2 DEF Handlers, All
    <3> QED
      BY <3>1, <3>3, BecomesBy
  <2> QED
    BY <1>4, <2>1 DEF FetchFiles, Stage, Moves, Silent
<1>5. CASE FetchNothing(h)
  <2>1. Becomes(h, "close")
    <3> DEFINE g == [h EXCEPT !.pc = "close", !.repo = Unloaded, !.job = Unloaded]
    <3>1. g \in Handlers /\ g.role = h.role /\ g.id = h.id /\ g.pc = "close"
      BY <1>0, <1>p DEF Handlers, All
    <3> QED
      BY <1>5, <3>1, BecomesBy DEF FetchNothing
  <2> QED
    BY <1>5, <2>1 DEF FetchNothing, Stage, Moves, Silent
<1>6. CASE InitProgress(h) \/ SetTotal(h)
  <2>1. ASSUME NEW l \in {"total", "publish"}, Goto(h, l) PROVE Becomes(h, l)
    <3> DEFINE g == [h EXCEPT !.pc = l]
    <3>1. g \in Handlers /\ g.role = h.role /\ g.id = h.id /\ g.pc = l
      BY <1>0, <1>p DEF Handlers, All
    <3> QED
      BY <2>1, <3>1, BecomesBy DEF Goto
  <2> QED
    BY <1>6, <2>1 DEF InitProgress, SetTotal, Stage, Moves, Silent
<1>7. CASE PublishFile(h)
  <2>1. PICK f \in h.todo :
          /\ streams' = Publish(streams, "process", Message(f, 0))
          /\ Become(h, [h EXCEPT !.todo = @ \ {f}])
    BY <1>7 DEF PublishFile
  <2> DEFINE g == [h EXCEPT !.todo = @ \ {f}]
  <2>2. g \in Handlers /\ g.role = h.role /\ g.id = h.id /\ g.pc = "publish"
    BY <1>0, <1>7 DEF Handlers, PublishFile
  <2>3. Becomes(h, "publish")
    BY <2>1, <2>2, BecomesBy
  <2> QED
    BY <1>7, <2>1, <2>3 DEF PublishFile, Stage, Announces
<1>8. CASE CountFetched(h)
  <2>1. Becomes(h, "commit")
    <3>1. jobTotal \in Nat
      BY FilesAssumption, FS_CardinalityType DEF TypeInv, RowsOK
    <3>2. Counts(progress') \in Shown
      BY <1>8, <3>1 DEF CountFetched, TypeInv, RowsOK, Counts, Shown
    <3>3. PICK c \in Shown : c = Counts(progress')
      BY <3>2
    <3> DEFINE g == [h EXCEPT !.pc = "commit", !.snap = c]
    <3>4. g \in Handlers /\ g.role = h.role /\ g.id = h.id /\ g.pc = "commit"
      BY <1>0, <1>p DEF Handlers, All
    <3>5. Become(h, g)
      BY <1>8, <3>3 DEF CountFetched
    <3> QED
      BY <3>4, <3>5, BecomesBy
  <2> QED
    BY <1>8, <2>1 DEF CountFetched, Stage, Moves, Silent
<1>9. CASE FetchCommit(h)
  <2>1. Becomes(h, "close")
    <3> DEFINE g == [h EXCEPT !.pc = "close", !.snap = NoCounts, !.repo = Unloaded]
    <3>1. g \in Handlers /\ g.role = h.role /\ g.id = h.id /\ g.pc = "close"
      BY <1>0, <1>p DEF Handlers, All
    <3> QED
      BY <1>9, <3>1, BecomesBy DEF FetchCommit
  <2> QED
    BY <1>9, <2>1 DEF FetchCommit, Stage, Moves, Silent
<1>10. CASE FetchFails(h)
  BY <1>10, FailsStage DEF FetchFails, Raising
<1> QED
  BY <1>1, <1>2, <1>3, <1>4, <1>5, <1>6, <1>7, <1>8, <1>9, <1>10 DEF FetchStep

\* A step of the process worker is one of the stages.
LEMMA ProcessStage ==
  ASSUME TypeInv, NEW h \in ctx, ProcessStep(h) \/ ProcessFails(h)
  PROVE  Stage(h)
<1>0. /\ h \in Handlers /\ h.role \in Roles /\ h.pc \in Pcs(h.role)
      /\ repoStatus \in Loaded /\ jobStatus \in Loaded /\ Unloaded \in Loaded
      /\ NoCounts \in Shown /\ Counts(progress) \in Shown
  BY ContentsTyped
<1> DEFINE All == UNION {Pcs(r) : r \in Roles}
<1>p. {"mark", "examine", "count", "check", "commit", "ack", "publish", "close"} \subseteq All
  BY PcsAre
<1> HIDE DEF All
<1>a. ASSUME NEW l \in All, Goto(h, l) PROVE Becomes(h, l)
  <2> DEFINE g == [h EXCEPT !.pc = l]
  <2>1. g \in Handlers /\ g.role = h.role /\ g.id = h.id /\ g.pc = l
    BY <1>0 DEF Handlers, All
  <2> QED
    BY <1>a, <2>1, BecomesBy DEF Goto
<1>1. CASE ProcessLoad(h)
  <2>1. Becomes(h, "mark")
    <3> DEFINE g == [h EXCEPT !.pc = "mark", !.repo = repoStatus, !.job = jobStatus]
    <3>1. g \in Handlers /\ g.role = h.role /\ g.id = h.id /\ g.pc = "mark"
      BY <1>0, <1>p DEF Handlers, All
    <3> QED
      BY <1>1, <3>1, BecomesBy DEF ProcessLoad, Load
  <2> QED
    BY <1>1, <2>1 DEF ProcessLoad, Stage, Moves, Silent
<1>2. CASE ProcessMark(h)
  <2>1. Becomes(h, "examine")
    <3> DEFINE g == [h EXCEPT !.pc = "examine", !.repo = Unloaded, !.job = Unloaded]
    <3>1. g \in Handlers /\ g.role = h.role /\ g.id = h.id /\ g.pc = "examine"
      BY <1>0, <1>p DEF Handlers, All
    <3> QED
      BY <1>2, <3>1, BecomesBy DEF ProcessMark
  <2> QED
    BY <1>2, <2>1 DEF ProcessMark, Stage, Moves, Silent
<1>3. CASE ProcessSkip(h) \/ ProcessFile(h) \/ CountProcessed(h)
  BY <1>3, <1>a, <1>p DEF ProcessSkip, ProcessFile, CountProcessed, Stage, Moves, Silent
<1>4. CASE ProcessCheck(h)
  <2>1. Becomes(h, "commit")
    <3> DEFINE g == [h EXCEPT !.pc = "commit", !.flush = TRUE, !.snap = Counts(progress)]
               k == [h EXCEPT !.pc = "commit"]
    <3>1. g \in Handlers /\ g.role = h.role /\ g.id = h.id /\ g.pc = "commit"
      BY <1>0, <1>p DEF Handlers, All
    <3>2. k \in Handlers /\ k.role = h.role /\ k.id = h.id /\ k.pc = "commit"
      BY <1>0, <1>p DEF Handlers, All
    <3>3. Become(h, g) \/ Become(h, k)
      BY <1>4 DEF ProcessCheck
    <3> QED
      BY <3>1, <3>2, <3>3, BecomesBy
  <2> QED
    BY <1>4, <2>1 DEF ProcessCheck, Stage, Moves, Silent
<1>5. CASE ProcessCommit(h)
  <2>1. Becomes(h, "ack")
    <3> DEFINE g == [h EXCEPT !.pc = "ack", !.flush = FALSE, !.snap = NoCounts]
    <3>1. g \in Handlers /\ g.role = h.role /\ g.id = h.id /\ g.pc = "ack"
      BY <1>0, <1>p DEF Handlers, All
    <3> QED
      BY <1>5, <3>1, BecomesBy DEF ProcessCommit
  <2> QED
    BY <1>5, <2>1 DEF ProcessCommit, Stage, Moves, Silent
<1>6. CASE ProcessAck(h)
  BY <1>6, <1>a, <1>p DEF ProcessAck, Stage, Acknowledges
<1>7. CASE ProcessPublish(h)
  BY <1>7 DEF ProcessPublish, End, Stage, HandsOver
<1>8. CASE ProcessFails(h)
  BY <1>8, FailsStage DEF ProcessFails, Raising
<1> QED
  BY <1>1, <1>2, <1>3, <1>4, <1>5, <1>6, <1>7, <1>8 DEF ProcessStep

\* A step of the store worker is one of the stages.
LEMMA StoreStage ==
  ASSUME TypeInv, NEW h \in ctx, StoreStep(h) \/ StoreFails(h) \/ StoreAbandon(h)
  PROVE  Stage(h)
<1>0. /\ h \in Handlers /\ h.role \in Roles /\ h.pc \in Pcs(h.role)
      /\ repoStatus \in Loaded /\ jobStatus \in Loaded /\ Unloaded \in Loaded
      /\ NoCounts \in Shown /\ Counts(progress) \in Shown
  BY ContentsTyped
<1> DEFINE All == UNION {Pcs(r) : r \in Roles}
<1>p. {"examine", "vectors", "meta", "commit", "ack", "count", "check", "finish"}
        \subseteq All
  BY PcsAre
<1> HIDE DEF All
<1>a. ASSUME NEW l \in All, Goto(h, l) PROVE Becomes(h, l)
  <2> DEFINE g == [h EXCEPT !.pc = l]
  <2>1. g \in Handlers /\ g.role = h.role /\ g.id = h.id /\ g.pc = l
    BY <1>0 DEF Handlers, All
  <2> QED
    BY <1>a, <2>1, BecomesBy DEF Goto
<1>1. CASE StoreLoad(h) \/ StoreVectors(h) \/ StoreMeta(h) \/ CountStored(h)
  BY <1>1, <1>a, <1>p DEF StoreLoad, StoreVectors, StoreMeta, CountStored, Stage, Moves, Silent
<1>2. CASE StoreExamine(h)
  <2>1. PICK l \in {"commit", "vectors"} : Goto(h, l)
    BY <1>2 DEF StoreExamine
  <2>2. Becomes(h, l) /\ <<h.pc, l>> \in Silent(h.role)
    BY <1>2, <1>a, <1>p, <2>1 DEF StoreExamine, Silent
  <2> QED
    BY <1>2, <2>2 DEF StoreExamine, Stage, Moves
<1>3. CASE StoreCommit(h)
  <2>1. Becomes(h, "ack")
    <3> DEFINE g == [h EXCEPT !.pc = "ack", !.repo = repoStatus]
    <3>1. g \in Handlers /\ g.role = h.role /\ g.id = h.id /\ g.pc = "ack"
      BY <1>0, <1>p DEF Handlers, All
    <3> QED
      BY <1>3, <3>1, BecomesBy DEF StoreCommit
  <2> QED
    BY <1>3, <2>1 DEF StoreCommit, Stage, Moves, Silent
<1>4. CASE StoreAck(h)
  BY <1>4, <1>a, <1>p DEF StoreAck, Stage, Acknowledges
<1>5. CASE StoreCheck(h)
  <2>1. CASE progress.stored >= progress.total
    <3>1. Becomes(h, "finish")
      <4> DEFINE g == [h EXCEPT !.pc = "finish", !.snap = Counts(progress)]
      <4>1. g \in Handlers /\ g.role = h.role /\ g.id = h.id /\ g.pc = "finish"
        BY <1>0, <1>p DEF Handlers, All
      <4>2. Become(h, g)
        BY <1>5, <2>1 DEF StoreCheck
      <4> QED
        BY <4>1, <4>2, BecomesBy
    <3> QED
      BY <1>5, <3>1 DEF StoreCheck, Stage, Moves, Silent
  <2>2. CASE ~(progress.stored >= progress.total)
    BY <1>5, <2>2 DEF StoreCheck, End, Stage, EndsQuietly
  <2> QED
    BY <2>1, <2>2
<1>6. CASE StoreFinish(h)
  BY <1>6 DEF StoreFinish, End, Stage, EndsQuietly
<1>7. CASE StoreFails(h)
  BY <1>7, FailsStage DEF StoreFails, Raising
<1>8. CASE StoreAbandon(h)
  BY <1>8 DEF StoreAbandon, End, Stage, Abandons
<1> QED
  BY <1>1, <1>2, <1>3, <1>4, <1>5, <1>6, <1>7, <1>8 DEF StoreStep

\* Every step of a handler is one of these.
LEMMA EveryStage ==
  ASSUME TypeInv, NEW h \in ctx, Step(h) \/ Error(h)
  PROVE  Stage(h)
BY ErrorStage, FetchStage, ProcessStage, StoreStage DEF Step, Error

-----------------------------------------------------------------------------
(* The streams and the handlers keep their shape.                          *)

\* The message of a handler.
LEMMA MessageTyped ==
  ASSUME TypeInv, NEW h \in ctx
  PROVE  /\ h.id \in DOMAIN streams[h.role].log
         /\ Msg(h) \in Messages /\ File(h) = Msg(h).file
         /\ h.role # "fetch" => File(h) \in Files
<1>1. h.role \in Roles /\ Fits(streams, h) /\ StreamsFit(streams)
  BY ContentsTyped DEF TypeInv, Shape
<1>2. PICK l \in Seq(Messages) : l = streams[h.role].log
  BY <1>1 DEF StreamsFit, Stream
<1>3. h.id \in 1 .. Len(l) /\ DOMAIN l = 1 .. Len(l)
  <2>1. streams[h.role].next \in 1 .. Len(l) + 1 /\ h.id \in 1 .. streams[h.role].next - 1
    BY <1>1, <1>2 DEF StreamsFit, Fits
  <2>2. Len(l) \in Nat
    BY <1>2
  <2> QED
    BY <2>1, <2>2
<1>4. l[h.id] \in Messages
  BY <1>3
<1> QED
  BY <1>1, <1>2, <1>3, <1>4 DEF StreamsFit, Msg, File

\* Whatever a handler does, its place in the streams stays as it should be.
LEMMA StageShape ==
  ASSUME TypeInv, NEW h \in ctx, Stage(h)
  PROVE  Shape(streams', ctx', up)
<1>0. /\ Shape(streams, ctx, up) /\ StreamsFit(streams) /\ Fits(streams, h)
      /\ h \in Handlers /\ h.role \in Roles /\ h.id \in Nat
  BY ContentsTyped DEF TypeInv, Shape, Handlers
<1>a. ASSUME NEW t, After(streams, t, h.role, h.id), streams' = t,
             NEW l, Becomes(h, l), l \in Pcs(h.role),
             l \in EarlyPcs(h.role) \/ h.role = "fetch" => h.id \in t[h.role].pel,
             l \in LatePcs(h.role) => h.id \notin t[h.role].pel
      PROVE  Shape(streams', ctx', up)
  <2>1. PICK g \in Handlers : /\ g.role = h.role /\ g.id = h.id /\ g.pc = l
                              /\ ctx' = (ctx \ {h}) \cup {g}
    BY <1>a DEF Becomes
  <2>2. Fits(t, g)
    BY <1>0, <1>a, <2>1 DEF Fits, After
  <2> QED
    BY <1>0, <1>a, <2>1, <2>2, ShapeMove
<1>b. ASSUME NEW t, After(streams, t, h.role, h.id), streams' = t, ctx' = ctx \ {h}
      PROVE  Shape(streams', ctx', up)
  BY <1>0, <1>b, ShapeEnd
<1>s. After(streams, streams, h.role, h.id)
  BY <1>0, SameAfter
<1> USE DEF Pcs, EarlyPcs, LatePcs, ErrorPcs, Roles
<1>1. CASE Moves(h)
  <2>1. PICK l : <<h.pc, l>> \in Silent(h.role) /\ Becomes(h, l) /\ streams' = streams
    BY <1>1 DEF Moves
  <2>2. /\ l \in Pcs(h.role)
        /\ l \in EarlyPcs(h.role) => h.pc \in EarlyPcs(h.role)
        /\ l \in LatePcs(h.role) => h.pc \in LatePcs(h.role)
    BY <1>0, <2>1 DEF Silent
  <2> QED
    BY <1>0, <1>a, <1>s, <2>1, <2>2 DEF Fits
<1>2. CASE Stumbles(h)
  <2>1. PICK l \in {"error", "quota"} : Becomes(h, l) /\ streams' = streams
    BY <1>2 DEF Stumbles
  <2> QED
    BY <1>0, <1>a, <1>s, <2>1 DEF Fits
<1>3. CASE Abandons(h) \/ EndsQuietly(h)
  BY <1>3, <1>b, <1>s DEF Abandons, EndsQuietly
<1>4. CASE Acknowledges(h)
  <2>1. After(streams, Acked(streams, h.role, h.id), h.role, h.id)
    BY <1>0, AckedAfter
  <2>2. h.id \notin Acked(streams, h.role, h.id)[h.role].pel
    BY <1>0, AckedAfter
  <2>3. CASE h.pc = "close" /\ ctx' = ctx \ {h}
    BY <1>4, <1>b, <2>1, <2>3 DEF Acknowledges
  <2>4. CASE h.role = "process" /\ Becomes(h, "publish")
    BY <1>4, <1>a, <2>1, <2>2, <2>4 DEF Acknowledges
  <2>5. CASE h.role = "store" /\ Becomes(h, "count")
    BY <1>4, <1>a, <2>1, <2>2, <2>5 DEF Acknowledges
  <2> QED
    BY <1>4, <2>3, <2>4, <2>5 DEF Acknowledges
<1>5. CASE Announces(h)
  <2>1. PICK f \in h.todo : streams' = Publish(streams, "process", Message(f, 0))
    BY <1>5 DEF Announces, PublishFile
  <2>2. Message(f, 0) \in Messages /\ Message(f, 0).file \in Files
    BY <1>0 DEF Handlers, Messages, Message
  <2>3. /\ After(streams, streams', h.role, h.id)
        /\ streams'[h.role].pel = streams[h.role].pel
    BY <1>0, <2>1, <2>2, PublishAfter, PublishIs
  <2> QED
    BY <1>0, <1>5, <1>a, <2>3 DEF Announces, PublishFile, Fits
<1>6. CASE HandsOver(h)
  <2>1. Message(File(h), 0) \in Messages /\ Message(File(h), 0).file \in Files
    BY <1>6, MessageTyped DEF Messages, Message, HandsOver
  <2>2. After(streams, streams', h.role, h.id)
    BY <1>0, <1>6, <2>1, PublishAfter DEF HandsOver
  <2> QED
    BY <1>6, <1>b, <2>2 DEF HandsOver
<1>7. CASE Retries(h)
  <2> DEFINE m == Message(File(h), Msg(h).retries + 1)
  <2>1. m \in Messages /\ (h.role # "fetch" => m.file \in Files)
    BY MessageTyped DEF Messages, Message
  <2> HIDE DEF m
  <2>2. streams' = Publish(streams, h.role, m)
    BY <1>7 DEF Retries, m
  <2>3. /\ After(streams, streams', h.role, h.id)
        /\ streams'[h.role].pel = streams[h.role].pel
    BY <1>0, <2>1, <2>2, PublishAfter, PublishIs
  <2> QED
    BY <1>0, <1>7, <1>a, <2>3 DEF Retries, Fits
<1> QED
  BY <1>1, <1>2, <1>3, <1>4, <1>5, <1>6, <1>7 DEF Stage

\* A read takes the entries from the next one on, as many as there are.
LEMMA ReadIs ==
  ASSUME NEW s, StreamsFit(s), NEW r \in Roles
  PROVE  \E n \in s[r].next .. Len(s[r].log) + 1 :
           LET ids == {i \in DOMAIN s[r].log : i >= s[r].next /\ i < s[r].next + BatchSize}
           IN  ids = s[r].next .. n - 1 /\ s[r].next + Cardinality(ids) = n
<1>1. PICK l \in Seq(Messages), k \in Nat :
        l = s[r].log /\ k = s[r].next /\ k \in 1 .. Len(l) + 1 /\ Len(l) \in Nat
        /\ DOMAIN l = 1 .. Len(l)
  BY DEF StreamsFit, Stream
<1> DEFINE m == Len(l)
           n == IF k + BatchSize <= m + 1 THEN k + BatchSize ELSE m + 1
<1>2. m \in Nat /\ k \in 1 .. m + 1 /\ BatchSize \in Nat \ {0}
  BY <1>1, LimitsAssumption
<1>3. DOMAIN l = 1 .. m
  BY <1>1
<1> HIDE DEF m
<1>4. n \in k .. m + 1 /\ {i \in 1 .. m : i >= k /\ i < k + BatchSize} = k .. n - 1
  BY <1>2
<1> HIDE DEF n
<1>5. k + Cardinality(k .. n - 1) = n
  <2>1. k \in Int /\ n - 1 \in Int /\ n >= k /\ n \in Int
    BY <1>2, <1>4
  <2>2. Cardinality(k .. n - 1) = IF k > n - 1 THEN 0 ELSE n - 1 - k + 1
    BY <2>1, FS_Interval
  <2> QED
    BY <2>1, <2>2
<1> QED
  BY <1>1, <1>3, <1>4, <1>5 DEF m

\* What Consume does: the entries from the next one to n - 1 get handlers.
LEMMA ConsumeIs ==
  ASSUME TypeInv, NEW r \in Roles, Consume(r)
  PROVE  \E n \in streams[r].next .. Len(streams[r].log) + 1 :
           /\ n > streams[r].next /\ r \in up /\ Of(r) = {}
           /\ ctx' = ctx \cup {NewHandler(r, i, FALSE) : i \in streams[r].next .. n - 1}
           /\ StreamsFit(streams')
           /\ \A q \in Roles :
                /\ streams'[q].log = streams[q].log
                /\ q # r => /\ streams'[q].next = streams[q].next
                            /\ streams'[q].pel = streams[q].pel
           /\ streams'[r].next = n
           /\ streams'[r].pel = streams[r].pel \cup (streams[r].next .. n - 1)
<1>0. StreamsFit(streams)
  BY DEF TypeInv, Shape
<1> DEFINE ids == {i \in DOMAIN streams[r].log :
                     i >= streams[r].next /\ i < streams[r].next + BatchSize}
<1>1. PICK n \in streams[r].next .. Len(streams[r].log) + 1 :
        ids = streams[r].next .. n - 1 /\ streams[r].next + Cardinality(ids) = n
  BY <1>0, ReadIs
<1>2. ids = {i \in Undelivered(r) : i < streams[r].next + BatchSize}
  BY DEF Undelivered
<1> HIDE DEF ids
<1>3. /\ r \in up /\ Of(r) = {} /\ ids # {}
      /\ ctx' = ctx \cup {NewHandler(r, i, FALSE) : i \in ids}
      /\ streams' = [streams EXCEPT ![r].pel = @ \cup ids, ![r].next = @ + Cardinality(ids)]
  BY <1>2, Zenon DEF Consume
<1>4. /\ streams \in [Roles -> Stream] /\ streams[r] \in Stream
      /\ streams[r].next \in Nat /\ n \in Nat /\ ids \subseteq Nat
  <2>1. streams \in [Roles -> Stream] /\ streams[r] \in Stream
    BY <1>0 DEF StreamsFit
  <2>2. streams[r].next \in Nat /\ Len(streams[r].log) \in Nat
    BY <2>1 DEF Stream
  <2> QED
    BY <1>1, <2>1, <2>2
<1>5. streams'[r] = [streams[r] EXCEPT !.pel = streams[r].pel \cup ids, !.next = n]
  BY <1>1, <1>3, <1>4 DEF Stream
<1>6. /\ streams'[r].log = streams[r].log /\ streams'[r].next = n
      /\ streams'[r].pel = streams[r].pel \cup ids /\ streams'[r] \in Stream
  BY <1>4, <1>5 DEF Stream
<1>7. \A q \in Roles : q # r => streams'[q] = streams[q]
  BY <1>3, <1>4
<1>8. streams' \in [Roles -> Stream]
  <2>1. streams' = [q \in Roles |-> streams'[q]]
    BY <1>3, <1>4
  <2>2. \A q \in Roles : streams'[q] \in Stream
    BY <1>4, <1>6, <1>7
  <2> QED
    BY <2>1, <2>2
<1>9. n > streams[r].next
  BY <1>1, <1>3, <1>4
<1>10. StreamsFit(streams')
  <2>1. ASSUME NEW q \in Roles
        PROVE  /\ streams'[q].next \in 1 .. Len(streams'[q].log) + 1
               /\ streams'[q].pel \subseteq 1 .. streams'[q].next - 1
               /\ q # "fetch" => \A i \in DOMAIN streams'[q].log :
                                   streams'[q].log[i].file \in Files
    <3>1. CASE q = r
      <4>0. streams[r].next \in 1 .. Len(streams[r].log) + 1
        BY <1>0 DEF StreamsFit
      <4>1. n \in 1 .. Len(streams[r].log) + 1
        BY <1>1, <1>4, <4>0
      <4>2. streams[r].pel \cup ids \subseteq 1 .. n - 1
        <5>1. streams[r].pel \subseteq 1 .. streams[r].next - 1
          BY <1>0 DEF StreamsFit
        <5> QED
          BY <1>1, <1>4, <1>9, <4>0, <5>1
      <4>3. q # "fetch" => \A i \in DOMAIN streams[q].log : streams[q].log[i].file \in Files
        BY <1>0 DEF StreamsFit
      <4> QED
        BY <1>6, <3>1, <4>1, <4>2, <4>3
    <3>2. CASE q # r
      BY <1>0, <1>7, <3>2 DEF StreamsFit
    <3> QED
      BY <3>1, <3>2
  <2> QED
    BY <1>8, <2>1 DEF StreamsFit
<1> QED
  BY <1>1, <1>3, <1>6, <1>7, <1>9, <1>10

\* The handlers d are new ones of r, for pending entries of t.
New(d, t, r, b) == \A h \in d : h.id \in t[r].pel /\ h = NewHandler(r, h.id, b)

\* Made from ids, they are.
LEMMA NewOnes ==
  ASSUME NEW t, NEW r \in Roles, NEW b \in BOOLEAN, NEW ids, ids \subseteq Nat,
         ids \subseteq t[r].pel
  PROVE  New({NewHandler(r, i, b) : i \in ids}, t, r, b)
<1>1. ASSUME NEW h \in {NewHandler(r, i, b) : i \in ids}
      PROVE  h.id \in t[r].pel /\ h = NewHandler(r, h.id, b)
  <2>1. PICK i \in ids : h = NewHandler(r, i, b)
    BY <1>1
  <2>2. h.id = i
    BY <2>1, NewIsHandler
  <2> QED
    BY <2>1, <2>2
<1> QED
  BY <1>1 DEF New

\* New handlers of a worker that has none.
LEMMA ShapeNew ==
  ASSUME NEW s, NEW c, NEW u, Shape(s, c, u), NEW t, StreamsFit(t), NEW v,
         u \subseteq v, NEW r \in Roles, r \in v, \A h \in c : h.role # r,
         \A q \in Roles : q # r => t[q].next = s[q].next /\ t[q].pel = s[q].pel,
         NEW b \in BOOLEAN, NEW d, New(d, t, r, b)
  PROVE  Shape(t, c \cup d, v)
<1>1. \A i \in t[r].pel : i \in Nat /\ i \in 1 .. t[r].next - 1
  BY DEF StreamsFit, Stream
<1>2. \A h \in d : /\ h \in Handlers /\ h.role = r /\ h.id \in t[r].pel /\ h.pc = "queued"
                   /\ h = NewHandler(r, h.id, b)
  BY <1>1, NewIsHandler DEF New
<1>3. \A h \in d : Fits(t, h)
  BY <1>1, <1>2 DEF Fits, Pcs, EarlyPcs, LatePcs, Roles
<1>4. \A h \in c : Fits(t, h) /\ h \in Handlers /\ h.role \in u
  <2>1. ASSUME NEW h \in c PROVE Fits(t, h)
    BY DEF Shape, Fits, Handlers
  <2> QED
    BY <2>1 DEF Shape
<1>5. \A h, g \in c \cup d : g.role = h.role /\ g.id = h.id => g = h
  BY <1>2 DEF Shape
<1> QED
  BY <1>2, <1>3, <1>4, <1>5 DEF Shape

\* A handler starts and stops no worker.
LEMMA StepKeepsUp ==
  ASSUME NEW h, Step(h) \/ Error(h)
  PROVE  up' = up
BY DEF Step, Error, FetchStep, ProcessStep, StoreStep, ErrorPath, FetchFails,
  ProcessFails, StoreFails, StoreAbandon, Fails, FetchLoad, FetchMark, FetchRefresh,
  FetchFiles, FetchNothing, InitProgress, SetTotal, PublishFile, CountFetched,
  FetchCommit, ProcessLoad, ProcessMark, ProcessSkip, ProcessFile, CountProcessed,
  ProcessCheck, ProcessCommit, ProcessAck, ProcessPublish, StoreLoad, StoreExamine,
  StoreVectors, StoreMeta, StoreCommit, StoreAck, CountStored, StoreCheck,
  StoreFinish, MarkFailed, Republish, DeadLetter, Close

\* Every step keeps the shape.
LEMMA ShapeStep ==
  ASSUME TypeInv, Next
  PROVE  Shape(streams', ctx', up') /\ up' \subseteq Roles
<1>0. Shape(streams, ctx, up) /\ StreamsFit(streams) /\ up \subseteq Roles
  BY DEF TypeInv, Shape
<1>1. CASE ApiPublish
  <2> DEFINE m == Message(NoFile, 0)
  <2>1. m \in Messages /\ "fetch" \in Roles
    BY DEF Messages, Message, Roles
  <2> HIDE DEF m
  <2>2. UNCHANGED <<ctx, up>> /\ streams' = Publish(streams, "fetch", m)
    BY <1>1 DEF ApiPublish, m
  <2>3. /\ StreamsFit(streams')
        /\ \A q \in Roles : streams'[q].next = streams[q].next /\ streams'[q].pel = streams[q].pel
    BY <1>0, <2>1, <2>2, PublishIs
  <2>4. \A h \in ctx : Fits(streams', h) /\ h \in Handlers
    BY <1>0, <2>3, ContentsTyped DEF Shape, Fits
  <2> QED
    BY <1>0, <2>2, <2>3, <2>4 DEF Shape
<1>2. CASE ApiFails
  BY <1>0, <1>2 DEF ApiFails
<1>3. ASSUME NEW r \in Roles, Consume(r) PROVE Shape(streams', ctx', up') /\ up' \subseteq Roles
  <2>1. PICK n \in streams[r].next .. Len(streams[r].log) + 1 :
           /\ n > streams[r].next /\ r \in up /\ Of(r) = {}
           /\ ctx' = ctx \cup {NewHandler(r, i, FALSE) : i \in streams[r].next .. n - 1}
           /\ StreamsFit(streams')
           /\ \A q \in Roles :
                /\ streams'[q].log = streams[q].log
                /\ q # r => /\ streams'[q].next = streams[q].next
                            /\ streams'[q].pel = streams[q].pel
           /\ streams'[r].next = n
           /\ streams'[r].pel = streams[r].pel \cup (streams[r].next .. n - 1)
    BY <1>3, ConsumeIs
  <2>2. \A h \in ctx : h.role # r
    BY <2>1 DEF Of
  <2>3. \A q \in Roles : q # r => streams'[q].next = streams[q].next /\ streams'[q].pel = streams[q].pel
    BY <2>1
  <2>4. /\ streams[r].next .. n - 1 \subseteq streams'[r].pel
        /\ streams[r].next .. n - 1 \subseteq Nat
    BY <1>0, <2>1 DEF StreamsFit, Stream
  <2>5. up' = up
    BY <1>3 DEF Consume
  <2>6. PICK d : d = {NewHandler(r, i, FALSE) : i \in streams[r].next .. n - 1}
    OBVIOUS
  <2>7. New(d, streams', r, FALSE)
    BY <2>4, <2>6, NewOnes
  <2>8. Shape(streams', ctx \cup d, up)
    BY <1>0, <2>1, <2>2, <2>3, <2>7, ShapeNew
  <2> QED
    BY <1>0, <2>1, <2>5, <2>6, <2>8
<1>4. ASSUME NEW r \in Roles, Crash(r) PROVE Shape(streams', ctx', up') /\ up' \subseteq Roles
  <2>1. streams' = streams /\ ctx' = {h \in ctx : h.role # r} /\ up' = up \ {r}
    BY <1>4 DEF Crash, Of
  <2> QED
    BY <1>0, <2>1 DEF Shape
<1>5. ASSUME NEW r \in Roles, Restart(r) PROVE Shape(streams', ctx', up') /\ up' \subseteq Roles
  <2>1. PICK idle \in SUBSET streams[r].pel :
          ctx' = ctx \cup {NewHandler(r, i, TRUE) : i \in idle}
    BY <1>5 DEF Restart
  <2>2. streams' = streams /\ up' = up \cup {r} /\ r \notin up
    BY <1>5 DEF Restart
  <2>3. \A h \in ctx : h.role # r
    BY <1>0, <2>2 DEF Shape
  <2>4. PICK d, v : d = {NewHandler(r, i, TRUE) : i \in idle} /\ v = up \cup {r}
    OBVIOUS
  <2>5. New(d, streams, r, TRUE)
    BY <1>0, <2>1, <2>4, NewOnes DEF StreamsFit, Stream
  <2>6. Shape(streams, ctx \cup d, v)
    BY <1>0, <2>3, <2>4, <2>5, ShapeNew
  <2> QED
    BY <1>0, <2>1, <2>2, <2>4, <2>6
<1>6. ASSUME NEW h \in ctx, Step(h) \/ Error(h) PROVE Shape(streams', ctx', up') /\ up' \subseteq Roles
  <2>1. up' = up
    BY <1>6, StepKeepsUp
  <2>2. Shape(streams', ctx', up)
    BY <1>6, EveryStage, StageShape
  <2> QED
    BY <1>0, <2>1, <2>2
<1> QED
  BY <1>1, <1>2, <1>3, <1>4, <1>5, <1>6 DEF Next

-----------------------------------------------------------------------------
(* The rows, the counters and the faults keep their types.                 *)

FaultsTyped == faults \in [crash : Nat, error : Nat]

\* A fault is counted.
LEMMA FaultsKept ==
  ASSUME FaultsTyped, UNCHANGED faults \/ (\E p : Raises(p)) \/ Fault("crash")
  PROVE  FaultsTyped'
<1>1. CASE UNCHANGED faults
  BY <1>1 DEF FaultsTyped
<1>2. ASSUME NEW k \in {"crash", "error"}, Fault(k) PROVE FaultsTyped'
  <2>1. faults' = [faults EXCEPT ![k] = @ + 1]
    BY <1>2 DEF Fault
  <2>2. CASE k = "crash"
    <3>1. faults' = [faults EXCEPT !.crash = @ + 1]
      BY <2>1, <2>2
    <3> QED
      BY <3>1 DEF FaultsTyped
  <2>3. CASE k = "error"
    <3>1. faults' = [faults EXCEPT !.error = @ + 1]
      BY <2>1, <2>3
    <3> QED
      BY <3>1 DEF FaultsTyped
  <2> QED
    BY <2>2, <2>3
<1> QED
  BY <1>1, <1>2 DEF Raises

\* What a handler writes into the rows has the right type.
LEMMA RowsStage ==
  ASSUME TypeInv, NEW h \in ctx, Step(h) \/ Error(h)
  PROVE  RowsOK'
<1>0. /\ repoStatus \in Statuses /\ jobStatus \in Statuses \ {"fetching"}
      /\ jobTotal \in 0 .. Cardinality(Files) /\ jobShown \in Shown
      /\ progress \in [total : Nat, fetched : Nat, processed : Nat, stored : Nat]
      /\ meta \in [Files -> {"none", "pending", "completed"}] /\ vectors \subseteq Files
      /\ FaultsTyped
  BY DEF TypeInv, RowsOK, FaultsTyped
<1>h. /\ h.snap \in Shown /\ h.todo \subseteq Files
      /\ h.role # "fetch" => File(h) \in Files
  BY ContentsTyped, MessageTyped
<1>c. Cardinality(Files) \in Nat /\ Cardinality(h.todo) \in 0 .. Cardinality(Files)
  BY <1>h, FilesAssumption, FS_CardinalityType, FS_Subset
<1> DEFINE
  RepoRight == repoStatus' \in Statuses
  JobRight == jobStatus' \in Statuses \ {"fetching"}
  TotalTyped == jobTotal' \in 0 .. Cardinality(Files)
  ShownTyped == jobShown' \in Shown
  ProgressTyped == progress' \in [total : Nat, fetched : Nat, processed : Nat, stored : Nat]
  MetaTyped == meta' \in [Files -> {"none", "pending", "completed"}]
  VectorsTyped == vectors' \subseteq Files
<1>f. FaultsTyped'
  <2>1. UNCHANGED faults \/ \E p : Raises(p)
    <3>1. Stage(h)
      BY EveryStage
    <3> QED
      BY <3>1 DEF Stage, Moves, Stumbles, Abandons, EndsQuietly, Acknowledges,
         Announces, PublishFile, HandsOver, Retries
  <2> QED
    BY <1>0, <2>1, FaultsKept
<1>s. UNCHANGED rows => RepoRight /\ JobRight /\ TotalTyped /\ ShownTyped /\ MetaTyped
  BY <1>0 DEF rows
<1>p. UNCHANGED progress => ProgressTyped
  BY <1>0
<1>v. UNCHANGED vectors => VectorsTyped
  BY <1>0
<1>1. CASE FetchStep(h)
  <2>1. RepoRight /\ JobRight
    BY <1>1, <1>s, <1>0 DEF FetchStep, FetchLoad, FetchMark, FetchRefresh, FetchFiles,
       FetchNothing, InitProgress, SetTotal, PublishFile, CountFetched, FetchCommit,
       Written, Statuses
  <2>2. TotalTyped /\ ShownTyped /\ MetaTyped
    BY <1>1, <1>s, <1>0, <1>h, <1>c DEF FetchStep, FetchLoad, FetchMark, FetchRefresh,
       FetchFiles, FetchNothing, InitProgress, SetTotal, PublishFile, CountFetched,
       FetchCommit
  <2>3. ProgressTyped
    <3>1. CASE InitProgress(h)
      BY <1>c, <3>1 DEF InitProgress, NoProgress
    <3>2. CASE CountFetched(h)
      BY <1>c, <1>0, <3>2 DEF CountFetched
    <3> QED
      BY <1>1, <1>p, <3>1, <3>2 DEF FetchStep, FetchLoad, FetchMark, FetchRefresh,
         FetchFiles, FetchNothing, SetTotal, PublishFile, FetchCommit
  <2>4. VectorsTyped
    BY <1>1, <1>v DEF FetchStep, FetchLoad, FetchMark, FetchRefresh, FetchFiles,
       FetchNothing, InitProgress, SetTotal, PublishFile, CountFetched, FetchCommit
  <2> QED
    BY <1>f, <2>1, <2>2, <2>3, <2>4 DEF RowsOK, FaultsTyped
<1>m. MetaTyped \/ h.role = "fetch" \/ meta' # WithRow(File(h))
  BY <1>0, <1>h DEF WithRow
<1>2. CASE ProcessStep(h)
  <2>1. RepoRight /\ JobRight
    BY <1>2, <1>s, <1>0 DEF ProcessStep, ProcessLoad, ProcessMark, ProcessSkip,
       ProcessFile, CountProcessed, ProcessCheck, ProcessCommit, ProcessAck,
       ProcessPublish, Written, Statuses
  <2>2. TotalTyped /\ ShownTyped
    BY <1>2, <1>s, <1>0, <1>h DEF ProcessStep, ProcessLoad, ProcessMark, ProcessSkip,
       ProcessFile, CountProcessed, ProcessCheck, ProcessCommit, ProcessAck,
       ProcessPublish
  <2>3. MetaTyped
    BY <1>2, <1>s, <1>0, <1>h, <1>m DEF ProcessStep, ProcessLoad, ProcessMark, ProcessSkip,
       ProcessFile, CountProcessed, ProcessCheck, ProcessCommit, ProcessAck,
       ProcessPublish
  <2>4. ProgressTyped
    <3>1. CASE CountProcessed(h)
      BY <1>0, <3>1 DEF CountProcessed
    <3> QED
      BY <1>2, <1>p, <3>1 DEF ProcessStep, ProcessLoad, ProcessMark, ProcessSkip,
         ProcessFile, ProcessCheck, ProcessCommit, ProcessAck, ProcessPublish
  <2>5. VectorsTyped
    BY <1>2, <1>v DEF ProcessStep, ProcessLoad, ProcessMark, ProcessSkip, ProcessFile,
       CountProcessed, ProcessCheck, ProcessCommit, ProcessAck, ProcessPublish
  <2> QED
    BY <1>f, <2>1, <2>2, <2>3, <2>4, <2>5 DEF RowsOK, FaultsTyped
<1>3. CASE StoreStep(h)
  <2>1. RepoRight /\ JobRight
    BY <1>3, <1>s, <1>0 DEF StoreStep, StoreLoad, StoreExamine, StoreVectors, StoreMeta,
       StoreCommit, StoreAck, CountStored, StoreCheck, StoreFinish, Written, Statuses
  <2>2. TotalTyped /\ ShownTyped
    BY <1>3, <1>s, <1>0, <1>h DEF StoreStep, StoreLoad, StoreExamine, StoreVectors,
       StoreMeta, StoreCommit, StoreAck, CountStored, StoreCheck, StoreFinish
  <2>3. MetaTyped
    BY <1>3, <1>s, <1>0, <1>h, <1>m DEF StoreStep, StoreLoad, StoreExamine, StoreVectors,
       StoreMeta, StoreCommit, StoreAck, CountStored, StoreCheck, StoreFinish
  <2>4. ProgressTyped
    <3>1. CASE CountStored(h)
      BY <1>0, <3>1 DEF CountStored
    <3> QED
      BY <1>3, <1>p, <3>1 DEF StoreStep, StoreLoad, StoreExamine, StoreVectors, StoreMeta,
         StoreCommit, StoreAck, StoreCheck, StoreFinish
  <2>5. VectorsTyped
    BY <1>3, <1>v, <1>h, <1>0 DEF StoreStep, StoreLoad, StoreExamine, StoreVectors, StoreMeta,
       StoreCommit, StoreAck, CountStored, StoreCheck, StoreFinish
  <2> QED
    BY <1>f, <2>1, <2>2, <2>3, <2>4, <2>5 DEF RowsOK, FaultsTyped
<1>4. CASE ErrorPath(h)
  <2>1. RepoRight /\ JobRight
    BY <1>4, <1>s, <1>0 DEF ErrorPath, MarkFailed, Republish, DeadLetter, Close, Statuses
  <2>2. TotalTyped /\ ShownTyped /\ MetaTyped /\ ProgressTyped /\ VectorsTyped
    BY <1>4, <1>s, <1>p, <1>v, <1>0 DEF ErrorPath, MarkFailed, Republish, DeadLetter, Close
  <2> QED
    BY <1>f, <2>1, <2>2 DEF RowsOK, FaultsTyped
<1>5. CASE Error(h)
  <2>1. UNCHANGED rows /\ UNCHANGED progress /\ UNCHANGED vectors
    BY <1>5 DEF Error, FetchFails, ProcessFails, StoreFails, StoreAbandon, Fails
  <2> QED
    BY <1>f, <1>s, <1>p, <1>v, <2>1 DEF RowsOK, FaultsTyped
<1> QED
  BY <1>1, <1>2, <1>3, <1>4, <1>5 DEF Step

\* Every step keeps the types.
LEMMA TypeStep ==
  ASSUME TypeInv, [Next]_vars
  PROVE  TypeInv'
<1>1. CASE UNCHANGED vars
  BY <1>1 DEF vars, rows, TypeInv, RowsOK, Shape, StreamsFit, Fits
<1>2. CASE Next
  <2>1. Shape(streams', ctx', up') /\ up' \subseteq Roles
    BY <1>2, ShapeStep
  <2>2. CASE \E h \in ctx : Step(h) \/ Error(h)
    BY <2>1, <2>2, RowsStage DEF TypeInv
  <2>3. CASE \/ ApiPublish \/ ApiFails
             \/ \E r \in Roles : Consume(r) \/ Crash(r) \/ Restart(r)
    <3>1. UNCHANGED <<rows, progress, vectors>>
      BY <2>3 DEF ApiPublish, ApiFails, Consume, Crash, Restart
    <3>2. FaultsTyped'
      <4>1. UNCHANGED faults \/ (\E p : Raises(p)) \/ Fault("crash")
        BY <2>3 DEF ApiPublish, ApiFails, Consume, Crash, Restart
      <4>2. FaultsTyped
        BY DEF TypeInv, RowsOK, FaultsTyped
      <4> QED
        BY <4>1, <4>2, FaultsKept
    <3> QED
      BY <2>1, <3>1, <3>2 DEF TypeInv, RowsOK, rows, FaultsTyped
  <2> QED
    BY <1>2, <2>2, <2>3 DEF Next
<1> QED
  BY <1>1, <1>2

\* The initial state has the types.
LEMMA TypeInit ==
  ASSUME Init PROVE TypeInv
<1>1. StreamsFit(streams)
  <2>1. streams = [r \in Roles |-> EmptyStream]
    BY DEF Init
  <2>2. /\ EmptyStream \in Stream /\ EmptyStream.next = 1 /\ EmptyStream.pel = {}
        /\ EmptyStream.log = << >> /\ Len(EmptyStream.log) = 0
        /\ DOMAIN EmptyStream.log = {}
    BY DEF EmptyStream, Stream
  <2> QED
    BY <2>1, <2>2 DEF StreamsFit
<1>2. Shape(streams, ctx, up)
  BY <1>1 DEF Init, Shape
<1>3. Cardinality(Files) \in Nat
  BY FilesAssumption, FS_CardinalityType
<1>4. RowsOK
  BY <1>3 DEF Init, RowsOK, Statuses, NoCounts, NoProgress, NoFault, Shown
<1> QED
  BY <1>2, <1>4 DEF TypeInv, Init

\* They imply those of the model.
LEMMA TypesGiveTypeOK ==
  ASSUME TypeInv PROVE TypeOK
<1>1. /\ DOMAIN meta = Files
      /\ \A f \in Files : meta[f] \in {"none", "pending", "completed"}
  BY DEF TypeInv, RowsOK
<1>2. \A r \in Roles :
       /\ streams[r].next \in 1 .. (Len(streams[r].log) + 1)
       /\ streams[r].pel \subseteq 1 .. (streams[r].next - 1)
  BY DEF TypeInv, Shape, StreamsFit
<1>3. ASSUME NEW h \in ctx
      PROVE  /\ h.role \in up
             /\ h.id \in 1 .. (streams[h.role].next - 1)
             /\ h.id \notin streams[h.role].pel =>
                  h.pc \in {"publish", "count", "check", "finish",
                            "error", "quota", "retry", "giveup", "close"}
             /\ \A g \in ctx : g.role = h.role /\ g.id = h.id => g = h
  <2>1. h.role \in up /\ Fits(streams, h)
        /\ \A g \in ctx : g.role = h.role /\ g.id = h.id => g = h
    BY DEF TypeInv, Shape
  <2>2. h.role \in Roles
    BY <2>1 DEF TypeInv
  <2> QED
    BY <2>1, <2>2 DEF Fits, Pcs, LatePcs, EarlyPcs, ErrorPcs, Roles
<1> QED
  BY <1>1, <1>2, <1>3 DEF TypeInv, RowsOK, TypeOK

\* The strengthened types hold in every run of the pipeline.
LEMMA Typed == Spec => []TypeInv
<1>1. Init => TypeInv
  BY TypeInit
<1>2. TypeInv /\ [Next]_vars => TypeInv'
  BY TypeStep
<1> QED
  BY <1>1, <1>2, PTL DEF Spec

\* Rows, counters, streams and handlers have their types, every handler has
\* its own entry, and has acknowledged it only where the code has.
THEOREM TypesHold == Spec => []TypeOK
<1>1. TypeInv => TypeOK
  BY TypesGiveTypeOK
<1> QED
  BY <1>1, Typed, PTL
=============================================================================
