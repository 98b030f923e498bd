--------------------- MODULE IngestionCompletionProofs ---------------------
(***************************************************************************)
(* What IngestionPipeline promises where no file is counted twice: a job   *)
(* that reads "completed" has stored every file and stays so, its row and  *)
(* its followers are shown so, no file is lost between the streams, and    *)
(* the counters follow one another.                                        *)
(*                                                                         *)
(* The argument follows the files.  A file that was published is in the    *)
(* hands of at most one message, its token, which passes from file:process *)
(* to file:store and from an attempt to its retry; the counter of the      *)
(* stored files counts files whose token is gone.                          *)
(***************************************************************************)
EXTENDS IngestionPipelineProofs, JobFollower

\* Only the process and the store worker die; Redis takes the file:process
\* messages and answers for the counters; and no behaviour has both a crash and
\* an error of a call.  Without any of the three a file can be counted twice.
CountedOnce ==
  /\ CrashRoles \subseteq {"process", "store"}
  /\ ErrorPoints \cap {"publish_file", "progress"} = {}
  /\ \/ CrashRoles = {}
     \/ Endless = {} /\ \A mix \in FaultMixes : ~({"crash", "error"} \subseteq mix)

\* No call has raised, and so none will once a process has died.
NoErrors == faults.error = 0 /\ Endless = {}

\* Entry i of r, with the streams s and the handlers c, still has to be read,
\* is handled by one whose next step is in W, or waits for a restart.
AtIn(s, c, r, i, W) ==
  \/ i >= s[r].next
  \/ \E h \in c : h.role = r /\ h.id = i /\ h.pc \in W
  \/ i \in s[r].pel /\ ~\E h \in c : h.role = r /\ h.id = i

At(r, i, W) == AtIn(streams, ctx, r, i, W)

\* The steps during which a message has its file in hand.  A file that the
\* process worker skipped is in hand until the ack, if the worker may die first.
Open(r) ==
  CASE r = "store" -> Pcs(r) \ {"check", "finish", "close"}
    [] OTHER -> Pcs(r) \ {"close"}
OpenIn(r, clean) == IF r = "process" /\ clean THEN Pcs(r) ELSE Open(r)

\* The entry has its file (the fetch: the listing) in hand.
Token(r, i) == At(r, i, OpenIn(r, NoErrors))
FileOf(r, i) == streams[r].log[i].file
FileRoles == {"process", "store"}
HasToken(f) ==
  \E r \in FileRoles : \E i \in DOMAIN streams[r].log : Token(r, i) /\ FileOf(r, i) = f

-----------------------------------------------------------------------------
(* Where an entry is, before and after a step.                             *)

\* The entry of a handler is where the handler is.
LEMMA OwnAt ==
  ASSUME NEW s, NEW c, NEW u, Shape(s, c, u), NEW h \in c, NEW W
  PROVE  AtIn(s, c, h.role, h.id, W) <=> h.pc \in W
<1>1. h \in Handlers /\ h.role \in Roles /\ h.id \in 1 .. s[h.role].next - 1
  BY DEF Shape, Fits, Handlers
<1>2. s[h.role].next \in Nat
  BY <1>1 DEF Shape, StreamsFit, Stream
<1>3. ~(h.id >= s[h.role].next)
  BY <1>1, <1>2
<1>4. \A g \in c : g.role = h.role /\ g.id = h.id => g = h
  BY DEF Shape
<1> QED
  BY <1>3, <1>4, Zenon DEF AtIn

\* A handler that moves takes its entry along and leaves the others.
LEMMA MoveAt ==
  ASSUME NEW s, NEW c, NEW u, Shape(s, c, u), NEW h \in c, NEW t,
         After(s, t, h.role, h.id), NEW g, g.role = h.role, g.id = h.id,
         NEW r \in Roles, NEW i, NEW W
  PROVE  /\ AtIn(t, (c \ {h}) \cup {g}, h.role, h.id, W) <=> g.pc \in W
         /\ r # h.role \/ i # h.id =>
              (AtIn(t, (c \ {h}) \cup {g}, r, i, W) <=> AtIn(s, c, r, i, W))
<1> DEFINE d == (c \ {h}) \cup {g}
<1>0. h \in Handlers /\ h.role \in Roles /\ h.id \in 1 .. s[h.role].next - 1
  BY DEF Shape, Fits, Handlers
<1>1. \A k \in c : k.role = h.role /\ k.id = h.id => k = h
  BY DEF Shape
<1>2. \A q \in Roles : t[q].next = s[q].next
  BY DEF After
<1>3. s[h.role].next \in Nat
  BY <1>0 DEF Shape, StreamsFit, Stream
<1>4. ~(h.id >= t[h.role].next)
  BY <1>0, <1>2, <1>3
<1>5. \A k \in d : k.role = h.role /\ k.id = h.id => k = g
  BY <1>1
<1>6. g \in d
  OBVIOUS
<1>7. ASSUME r # h.role \/ i # h.id PROVE AtIn(t, d, r, i, W) <=> AtIn(s, c, r, i, W)
  <2>1. i \in t[r].pel <=> i \in s[r].pel
    BY <1>7 DEF After
  <2>2. \A k : k.role = r /\ k.id = i => (k \in d <=> k \in c)
    BY <1>7
  <2> HIDE DEF d
  <2> QED
    BY <1>2, <2>1, <2>2, Zenon DEF AtIn
<1>8. AtIn(t, d, h.role, h.id, W) <=> g.pc \in W
  <2> HIDE DEF d
  <2> QED
    BY <1>4, <1>5, <1>6, Zenon DEF AtIn
<1> QED
  BY <1>7, <1>8

\* A handler that ends leaves its entry done, or pending.
LEMMA EndAt ==
  ASSUME NEW s, NEW c, NEW u, Shape(s, c, u), NEW h \in c, NEW t,
         After(s, t, h.role, h.id), NEW r \in Roles, NEW i, NEW W
  PROVE  /\ AtIn(t, c \ {h}, h.role, h.id, W) <=> h.id \in t[h.role].pel
         /\ r # h.role \/ i # h.id =>
              (AtIn(t, c \ {h}, r, i, W) <=> AtIn(s, c, r, i, W))
<1> DEFINE d == c \ {h}
<1>0. h \in Handlers /\ h.role \in Roles /\ h.id \in 1 .. s[h.role].next - 1
  BY DEF Shape, Fits, Handlers
<1>1. \A k \in c : k.role = h.role /\ k.id = h.id => k = h
  BY DEF Shape
<1>2. \A q \in Roles : t[q].next = s[q].next
  BY DEF After
<1>3. s[h.role].next \in Nat
  BY <1>0 DEF Shape, StreamsFit, Stream
<1>4. ~(h.id >= t[h.role].next)
  BY <1>0, <1>2, <1>3
<1>5. \A k \in d : ~(k.role = h.role /\ k.id = h.id)
  BY <1>1
<1>7. ASSUME r # h.role \/ i # h.id PROVE AtIn(t, d, r, i, W) <=> AtIn(s, c, r, i, W)
  <2>1. i \in t[r].pel <=> i \in s[r].pel
    BY <1>7 DEF After
  <2>2. \A k : k.role = r /\ k.id = i => (k \in d <=> k \in c)
    BY <1>7
  <2> HIDE DEF d
  <2> QED
    BY <1>2, <2>1, <2>2, Zenon DEF AtIn
<1>8. AtIn(t, d, h.role, h.id, W) <=> h.id \in t[h.role].pel
  <2> HIDE DEF d
  <2> QED
    BY <1>4, <1>5, Zenon DEF AtIn
<1> QED
  BY <1>7, <1>8

\* What a handler's step does to the streams, all but the entry of its own.
LEMMA StageAfter ==
  ASSUME TypeInv, NEW h \in ctx, Stage(h)
  PROVE  /\ After(streams, streams', h.role, h.id)
         /\ ctx' = ctx \ {h} \/ \E l : Becomes(h, l)
<1>0. /\ StreamsFit(streams) /\ h \in Handlers /\ h.role \in Roles /\ h.id \in Nat
      /\ h.todo \subseteq Files
  BY ContentsTyped DEF TypeInv, Shape, Handlers
<1>s. After(streams, streams, h.role, h.id)
  BY <1>0, SameAfter
<1>m. Msg(h) \in Messages /\ File(h) = Msg(h).file /\ (h.role # "fetch" => File(h) \in Files)
  BY MessageTyped
<1>1. CASE Moves(h) \/ Stumbles(h) \/ Abandons(h) \/ EndsQuietly(h)
  BY <1>s, <1>1 DEF Moves, Stumbles, Abandons, EndsQuietly
<1>2. CASE Acknowledges(h)
  BY <1>0, <1>2, AckedAfter DEF Acknowledges
<1>3. CASE Announces(h)
  <2>1. PICK f \in Files : streams' = Publish(streams, "process", Message(f, 0))
    BY <1>0, <1>3 DEF Announces, PublishFile
  <2>2. Message(f, 0) \in Messages /\ Message(f, 0).file \in Files /\ "process" \in Roles
    BY DEF Messages, Message, Roles
  <2> QED
    BY <1>0, <1>3, <2>1, <2>2, PublishAfter DEF Announces, PublishFile
<1>4. CASE HandsOver(h)
  <2>1. /\ Message(File(h), 0) \in Messages /\ Message(File(h), 0).file \in Files
        /\ "store" \in Roles
    BY <1>4, <1>m DEF Messages, Message, HandsOver, Roles
  <2> QED
    BY <1>0, <1>4, <2>1, PublishAfter DEF HandsOver
<1>5. CASE Retries(h)
  <2> DEFINE m == Message(File(h), Msg(h).retries + 1)
  <2>1. m \in Messages /\ (h.role # "fetch" => m.file \in Files)
    BY <1>m DEF Messages, Message
  <2> HIDE DEF m
  <2>2. streams' = Publish(streams, h.role, m)
    BY <1>5 DEF Retries, m
  <2> QED
    BY <1>0, <1>5, <2>1, <2>2, PublishAfter DEF Retries
<1> QED
  BY <1>1, <1>2, <1>3, <1>4, <1>5 DEF Stage

\* The entry of a handler that steps, and the others.
LEMMA StageAt ==
  ASSUME TypeInv, NEW h \in ctx, Stage(h), NEW W
  PROVE  /\ AtIn(streams, ctx, h.role, h.id, W) <=> h.pc \in W
         /\ \A l : Becomes(h, l) => (AtIn(streams', ctx', h.role, h.id, W) <=> l \in W)
         /\ ctx' = ctx \ {h} =>
              (AtIn(streams', ctx', h.role, h.id, W) <=> h.id \in streams'[h.role].pel)
         /\ \A r \in Roles : \A i : r # h.role \/ i # h.id =>
              (AtIn(streams', ctx', r, i, W) <=> AtIn(streams, ctx, r, i, W))
<1>0. Shape(streams, ctx, up) /\ h.role \in Roles
  BY ContentsTyped DEF TypeInv
<1>1. PICK t, d : /\ t = streams' /\ d = ctx'
                  /\ After(streams, t, h.role, h.id)
  BY StageAfter
<1>2. d = ctx \ {h} \/ \E l : Becomes(h, l)
  BY <1>1, StageAfter
<1>3. ASSUME NEW l, Becomes(h, l)
      PROVE  /\ AtIn(t, d, h.role, h.id, W) <=> l \in W
             /\ \A r \in Roles : \A i : r # h.role \/ i # h.id =>
                  (AtIn(t, d, r, i, W) <=> AtIn(streams, ctx, r, i, W))
  <2>1. PICK g : g.role = h.role /\ g.id = h.id /\ g.pc = l /\ d = (ctx \ {h}) \cup {g}
    BY <1>1, <1>3 DEF Becomes
  <2>2. ASSUME NEW r \in Roles, NEW i
        PROVE  /\ AtIn(t, (ctx \ {h}) \cup {g}, h.role, h.id, W) <=> g.pc \in W
               /\ r # h.role \/ i # h.id =>
                    (AtIn(t, (ctx \ {h}) \cup {g}, r, i, W) <=> AtIn(streams, ctx, r, i, W))
    BY <1>0, <1>1, <2>1, MoveAt
  <2> QED
    BY <1>0, <2>1, <2>2
<1>4. ASSUME d = ctx \ {h}
      PROVE  /\ AtIn(t, d, h.role, h.id, W) <=> h.id \in t[h.role].pel
             /\ \A r \in Roles : \A i : r # h.role \/ i # h.id =>
                  (AtIn(t, d, r, i, W) <=> AtIn(streams, ctx, r, i, W))
  BY <1>0, <1>1, <1>4, EndAt
<1>5. AtIn(streams, ctx, h.role, h.id, W) <=> h.pc \in W
  BY <1>0, OwnAt
<1> QED
  BY <1>1, <1>2, <1>3, <1>4, <1>5

\* Ids are numbers.
LEMMA IdsAre ==
  ASSUME TypeInv, NEW r \in Roles
  PROVE  /\ DOMAIN streams[r].log \subseteq Nat /\ streams[r].next \in Nat
         /\ Len(streams[r].log) \in Nat /\ DOMAIN streams[r].log = 1 .. Len(streams[r].log)
         /\ streams[r].log \in Seq(Messages)
         /\ streams[r].next <= Len(streams[r].log) + 1
BY DEF TypeInv, Shape, StreamsFit, Stream

\* The API, a read and a restart leave every entry where it was, or at a
\* handler that has not begun.
LEMMA QuietAt ==
  ASSUME TypeInv, NEW q \in Roles,
         ApiPublish \/ ApiFails \/ Consume(q) \/ Restart(q),
         NEW r \in Roles, NEW i \in DOMAIN streams[r].log, NEW W, "queued" \in W
  PROVE  AtIn(streams', ctx', r, i, W) <=> AtIn(streams, ctx, r, i, W)
<1>0. /\ StreamsFit(streams) /\ i \in Nat /\ streams[r].next \in Nat
      /\ \A h \in ctx : h.role \in up
  BY IdsAre DEF TypeInv, Shape
<1>1. CASE ApiPublish
  <2>1. Message(NoFile, 0) \in Messages /\ "fetch" \in Roles
    BY DEF Messages, Message, Roles
  <2>2. streams'[r].next = streams[r].next /\ streams'[r].pel = streams[r].pel
    BY <1>0, <1>1, <2>1, PublishIs DEF ApiPublish
  <2>3. ctx' = ctx
    BY <1>1 DEF ApiPublish
  <2> QED
    BY <2>2, <2>3, Zenon DEF AtIn
<1>2. CASE ApiFails
  <2>1. streams' = streams /\ ctx' = ctx
    BY <1>2 DEF ApiFails
  <2> QED
    BY <2>1
<1>3. CASE Consume(q)
  <2>1. PICK n \in streams[q].next .. Len(streams[q].log) + 1 :
           /\ n > streams[q].next /\ q \in up /\ Of(q) = {}
           /\ ctx' = ctx \cup {NewHandler(q, k, FALSE) : k \in streams[q].next .. n - 1}
           /\ StreamsFit(streams')
           /\ \A p \in Roles :
                /\ streams'[p].log = streams[p].log
                /\ p # q => /\ streams'[p].next = streams[p].next
                            /\ streams'[p].pel = streams[p].pel
           /\ streams'[q].next = n
           /\ streams'[q].pel = streams[q].pel \cup (streams[q].next .. n - 1)
    BY <1>3, ConsumeIs
  <2> DEFINE ids == streams[q].next .. n - 1
             new == {NewHandler(q, k, FALSE) : k \in ids}
  <2>2. \A k \in ids : /\ NewHandler(q, k, FALSE).role = q
                       /\ NewHandler(q, k, FALSE).id = k
                       /\ NewHandler(q, k, FALSE).pc = "queued"
    BY DEF NewHandler
  <2>3. \A h \in new : h.role = q /\ h.id \in ids /\ h.pc = "queued"
    BY <2>2
  <2>4. \A k \in ids : \E h \in new : h.role = q /\ h.id = k /\ h.pc = "queued"
    BY <2>2
  <2>n. streams[q].next \in Nat /\ n \in Nat
    BY IdsAre, <2>1
  <2>5. ctx' = ctx \cup new
    BY <2>1
  <2> HIDE DEF new
  <2>6. CASE r # q
    <3>1. streams'[r].next = streams[r].next /\ streams'[r].pel = streams[r].pel
      BY <2>1, <2>6
    <3>2. \A h : h.role = r => (h \in ctx' <=> h \in ctx)
      BY <2>3, <2>5, <2>6
    <3> QED
      BY <3>1, <3>2, Zenon DEF AtIn
  <2>7. CASE r = q
    <3>1. \A h \in ctx : h.role # r
      BY <2>1, <2>7 DEF Of
    <3>2. CASE i \in ids
      <4>1. i >= streams[r].next
        BY <2>7, <3>2, <2>n
      <4>2. \E h \in ctx' : h.role = r /\ h.id = i /\ h.pc \in W
        BY <2>4, <2>5, <2>7, <3>2
      <4> QED
        BY <4>1, <4>2 DEF AtIn
    <3>3. CASE i \notin ids
      <4>1. i >= streams'[r].next <=> i >= streams[r].next
        BY <1>0, <2>1, <2>7, <2>n, <3>3
      <4>2. i \in streams'[r].pel <=> i \in streams[r].pel
        BY <2>1, <2>7, <3>3
      <4>3. \A h \in ctx' : ~(h.role = r /\ h.id = i)
        BY <2>3, <2>5, <3>1, <3>3
      <4> QED
        BY <3>1, <4>1, <4>2, <4>3 DEF AtIn
    <3> QED
      BY <3>2, <3>3
  <2> QED
    BY <2>6, <2>7
<1>4. CASE Restart(q)
  <2>1. PICK idle \in SUBSET streams[q].pel :
          ctx' = ctx \cup {NewHandler(q, k, TRUE) : k \in idle}
    BY <1>4 DEF Restart
  <2>2. streams' = streams /\ \A h \in ctx : h.role # q
    BY <1>0, <1>4 DEF Restart
  <2> DEFINE new == {NewHandler(q, k, TRUE) : k \in idle}
  <2>3. \A k \in idle : /\ NewHandler(q, k, TRUE).role = q
                        /\ NewHandler(q, k, TRUE).id = k
                        /\ NewHandler(q, k, TRUE).pc = "queued"
    BY DEF NewHandler
  <2>4. \A h \in new : h.role = q /\ h.id \in idle /\ h.pc = "queued"
    BY <2>3
  <2>5. \A k \in idle : \E h \in new : h.role = q /\ h.id = k /\ h.pc = "queued"
    BY <2>3
  <2>6. ctx' = ctx \cup new
    BY <2>1
  <2> HIDE DEF new
  <2>7. CASE r # q
    <3>1. \A h : h.role = r => (h \in ctx' <=> h \in ctx)
      BY <2>4, <2>6, <2>7
    <3> QED
      BY <2>2, <3>1, Zenon DEF AtIn
  <2>8. CASE r = q /\ i \in idle
    <3>1. \E h \in ctx' : h.role = r /\ h.id = i /\ h.pc \in W
      BY <2>5, <2>6, <2>8
    <3>2. i \in streams[r].pel /\ ~\E h \in ctx : h.role = r /\ h.id = i
      BY <2>2, <2>8
    <3> QED
      BY <3>1, <3>2 DEF AtIn
  <2>9. CASE r = q /\ i \notin idle
    <3>1. \A h \in ctx' : ~(h.role = r /\ h.id = i)
      BY <2>2, <2>4, <2>6, <2>9
    <3> QED
      BY <2>2, <2>9, <3>1 DEF AtIn
  <2> QED
    BY <2>7, <2>8, <2>9
<1> QED
  BY <1>1, <1>2, <1>3, <1>4

\* A crash makes the pending entries of its worker wait, and takes none up.
LEMMA CrashAt ==
  ASSUME TypeInv, NEW q \in Roles, Crash(q), NEW r \in Roles, NEW i, NEW W,
         r = q => \A h \in ctx : h.role = q /\ h.id \in streams[q].pel => h.pc \in W,
         AtIn(streams', ctx', r, i, W)
  PROVE  AtIn(streams, ctx, r, i, W)
<1>1. streams' = streams /\ ctx' = {h \in ctx : h.role # q}
  BY DEF Crash, Of
<1> QED
  BY <1>1 DEF AtIn

-----------------------------------------------------------------------------
(* Faults: where no file is counted twice, a run has crashes or errors.    *)

\* What the faults so far allow.
FaultsOK ==
  /\ faults.crash > 0 => NoErrors /\ CrashRoles # {}
  /\ faults.crash = 0 => up = Roles
  /\ "fetch" \in up
  /\ NoErrors => \A h \in ctx :
       h.pc \notin ErrorPcs /\ (h.role = "store" => h.pc # "close")

\* A call that raises excludes the crashes.
LEMMA ErrorIs ==
  ASSUME CountedOnce, FaultsTyped, FaultsOK, NEW p, Raises(p)
  PROVE  faults.crash = 0 /\ faults'.crash = 0 /\ ~NoErrors' /\ p \in ErrorPoints
<1>1. CASE p \in Endless
  BY <1>1 DEF CountedOnce, FaultsTyped, FaultsOK, NoErrors, Raises
<1>2. CASE p \notin Endless
  <2>1. Fault("error")
    BY <1>2 DEF Raises
  <2>2. PICK mix \in FaultMixes :
          "error" \in mix /\ \A k \in DOMAIN faults : faults[k] > 0 => k \in mix
    BY <2>1 DEF Fault
  <2>3. faults' = [faults EXCEPT !["error"] = @ + 1]
    BY <2>1 DEF Fault
  <2>4. DOMAIN faults = {"crash", "error"} /\ faults.crash \in Nat /\ faults.error \in Nat
    BY DEF FaultsTyped
  <2>5. faults'.error = faults.error + 1 /\ faults'.crash = faults.crash
    BY <2>3 DEF FaultsTyped
  <2>6. faults.crash = 0
    <3>1. CASE CrashRoles = {}
      BY <2>4, <3>1 DEF FaultsOK
    <3>2. CASE CrashRoles # {}
      <4>1. "crash" \notin mix
        BY <2>2, <3>2 DEF CountedOnce
      <4>2. ~(faults["crash"] > 0)
        BY <2>2, <2>4, <4>1
      <4> QED
        BY <2>4, <4>2
    <3> QED
      BY <3>1, <3>2
  <2> QED
    BY <2>4, <2>5, <2>6 DEF NoErrors, Raises
<1> QED
  BY <1>1, <1>2

\* A crash excludes the errors.
LEMMA CrashIs ==
  ASSUME CountedOnce, FaultsTyped, FaultsOK, NEW r, Crash(r)
  PROVE  NoErrors /\ NoErrors' /\ CrashRoles # {} /\ r \in FileRoles /\ faults'.crash > 0
<1>1. r \in CrashRoles /\ Fault("crash")
  BY DEF Crash
<1>2. PICK mix \in FaultMixes :
        "crash" \in mix /\ \A k \in DOMAIN faults : faults[k] > 0 => k \in mix
  BY <1>1 DEF Fault
<1>3. faults' = [faults EXCEPT !["crash"] = @ + 1]
  BY <1>1 DEF Fault
<1>4. DOMAIN faults = {"crash", "error"} /\ faults.crash \in Nat /\ faults.error \in Nat
  BY DEF FaultsTyped
<1>5. faults'.error = faults.error /\ faults'.crash = faults.crash + 1
  BY <1>3 DEF FaultsTyped
<1>6. "error" \notin mix /\ Endless = {}
  BY <1>1, <1>2 DEF CountedOnce
<1>7. faults.error = 0
  <2>1. ~(faults["error"] > 0)
    BY <1>2, <1>4, <1>6
  <2> QED
    BY <1>4, <2>1
<1> QED
  BY <1>1, <1>4, <1>5, <1>6, <1>7 DEF NoErrors, CountedOnce, FileRoles

\* Errors are not undone.
LEMMA ErrorsStay ==
  ASSUME CountedOnce, TypeInv, FaultsOK, Next, NoErrors'
  PROVE  NoErrors
<1>0. FaultsTyped
  BY DEF TypeInv, RowsOK, FaultsTyped
<1>1. CASE UNCHANGED faults
  BY <1>1 DEF NoErrors
<1>2. CASE \E p : Raises(p)
  BY <1>0, <1>2, ErrorIs
<1>3. CASE \E r \in Roles : Crash(r)
  BY <1>0, <1>3, CrashIs
<1>4. ASSUME NEW h \in ctx, Step(h) \/ Error(h) PROVE NoErrors
  <2>1. Stage(h)
    BY <1>4, EveryStage
  <2> QED
    BY <1>1, <1>2, <2>1 DEF Stage, Moves, Stumbles, Abandons, EndsQuietly, Acknowledges,
       Announces, PublishFile, HandsOver, Retries
<1> QED
  BY <1>1, <1>2, <1>3, <1>4 DEF Next, ApiPublish, ApiFails, Consume, Restart

\* A handler there was not is new, or is what a handler became.
Became(h, k) ==
  /\ k.role = h.role /\ k.id = h.id
  /\ \A l : Becomes(h, l) => l = k.pc
  /\ ctx' # ctx \ {h}

\* A step of a worker starts, loses or moves handlers.
LEMMA CtxStep ==
  ASSUME TypeInv, Next, NEW k \in ctx'
  PROVE  \/ k \in ctx
         \/ k.pc = "queued"
         \/ \E h \in ctx : (Step(h) \/ Error(h)) /\ Stage(h) /\ Became(h, k)
<1>1. CASE \E h \in ctx : Step(h) \/ Error(h)
  <2>1. PICK h \in ctx : (Step(h) \/ Error(h)) /\ Stage(h)
    BY <1>1, EveryStage
  <2>2. CASE k \notin ctx
    <3>1. ctx' # ctx \ {h}
      BY <2>2
    <3>2. \A l : Becomes(h, l) => l = k.pc /\ k.role = h.role /\ k.id = h.id
      BY <2>2 DEF Becomes
    <3> QED
      BY <2>1, <3>1, <3>2, StageAfter DEF Became
  <2> QED
    BY <2>2
<1>3. ASSUME NEW q \in Roles, Consume(q) PROVE k \in ctx \/ k.pc = "queued"
  <2>1. PICK n : ctx' = ctx \cup {NewHandler(q, i, FALSE) : i \in streams[q].next .. n - 1}
    BY <1>3, ConsumeIs
  <2> QED
    BY <2>1 DEF NewHandler
<1>4. ASSUME NEW q \in Roles, Restart(q) PROVE k \in ctx \/ k.pc = "queued"
  <2>1. PICK idle : ctx' = ctx \cup {NewHandler(q, i, TRUE) : i \in idle}
    BY <1>4 DEF Restart
  <2> QED
    BY <2>1 DEF NewHandler
<1> QED
  BY <1>1, <1>3, <1>4 DEF Next, ApiPublish, ApiFails, Crash

\* A run with a crash stays without errors, and the fetch worker up.
LEMMA FaultsStep ==
  ASSUME CountedOnce, TypeInv, FaultsOK, Next
  PROVE  FaultsOK'
<1>0. FaultsTyped
  BY DEF TypeInv, RowsOK, FaultsTyped
<1>a. ASSUME NoErrors', NEW k \in ctx'
      PROVE  k.pc \notin ErrorPcs /\ (k.role = "store" => k.pc # "close")
  <2>1. \A h \in ctx : h.pc \notin ErrorPcs /\ (h.role = "store" => h.pc # "close")
    BY <1>a, ErrorsStay DEF FaultsOK
  <2>2. CASE k \in ctx \/ k.pc = "queued"
    BY <2>1, <2>2 DEF ErrorPcs
  <2>3. ASSUME NEW h \in ctx, Stage(h), Became(h, k)
        PROVE  k.pc \notin ErrorPcs /\ (k.role = "store" => k.pc # "close")
    <3>0. /\ h.role \in Roles /\ h.pc \notin ErrorPcs
          /\ k.role = h.role /\ ctx' # ctx \ {h}
          /\ \A l : Becomes(h, l) => l = k.pc
      BY <2>1, <2>3, ContentsTyped DEF Became
    <3>3. CASE Moves(h)
      BY <3>0, <3>3 DEF Moves, Silent, ErrorPcs, Roles
    <3>4. CASE Stumbles(h)
      BY <1>0, <1>a, <3>4, ErrorIs DEF Stumbles
    <3>5. CASE Acknowledges(h)
      BY <3>0, <3>5 DEF Acknowledges, ErrorPcs
    <3>6. CASE Announces(h)
      BY <3>0, <3>6 DEF Announces, PublishFile, ErrorPcs
    <3>7. CASE Retries(h)
      BY <3>0, <3>7 DEF Retries, ErrorPcs
    <3>8. CASE Abandons(h) \/ EndsQuietly(h) \/ HandsOver(h)
      BY <3>0, <3>8 DEF Abandons, EndsQuietly, HandsOver
    <3> QED
      BY <2>3, <3>3, <3>4, <3>5, <3>6, <3>7, <3>8 DEF Stage
  <2> QED
    BY <2>2, <2>3, CtxStep
<1>1. CASE UNCHANGED <<faults, up>>
  BY <1>1, <1>a DEF FaultsOK, NoErrors
<1>2. CASE (\E p : Raises(p)) /\ UNCHANGED up
  BY <1>0, <1>2, <1>a, ErrorIs DEF FaultsOK
<1>3. ASSUME NEW r \in Roles, Crash(r) PROVE FaultsOK'
  <2>1. NoErrors' /\ CrashRoles # {} /\ r # "fetch" /\ faults'.crash > 0
    BY <1>0, <1>3, CrashIs DEF FileRoles
  <2>2. up' = up \ {r} /\ "fetch" \in up
    BY <1>3 DEF Crash, FaultsOK
  <2>3. ~(faults'.crash = 0)
    BY <2>1
  <2> QED
    BY <1>a, <2>1, <2>2, <2>3 DEF FaultsOK
<1>4. ASSUME NEW r \in Roles, Restart(r) PROVE FaultsOK'
  <2>1. up' = up \cup {r} /\ r \notin up /\ faults' = faults
    BY <1>4 DEF Restart
  <2> QED
    BY <1>4, <1>a, <2>1 DEF FaultsOK, NoErrors
<1>5. ASSUME NEW h \in ctx, Step(h) \/ Error(h) PROVE FaultsOK'
  <2>1. Stage(h) /\ up' = up
    BY <1>5, EveryStage, StepKeepsUp
  <2>2. UNCHANGED faults \/ \E p : Raises(p)
    BY <2>1 DEF Stage, Moves, Stumbles, Abandons, EndsQuietly, Acknowledges,
       Announces, PublishFile, HandsOver, Retries
  <2> QED
    BY <1>1, <1>2, <2>1, <2>2
<1> QED
  BY <1>1, <1>2, <1>3, <1>4, <1>5 DEF Next, ApiPublish, ApiFails, Consume

-----------------------------------------------------------------------------
(* The entries of the streams, and the tokens among them.                  *)

\* Where a new entry, m on q, comes from.
Source(q, m) ==
  \/ ApiPublish /\ q = "fetch"
  \/ \E h \in ctx : Announces(h) /\ q = "process" /\ m.file \in h.todo
  \/ \E h \in ctx : HandsOver(h) /\ q = "store" /\ m.file = File(h)
  \/ \E h \in ctx : Retries(h) /\ q = h.role /\ m.file = File(h)

Fresh(q, n, m) ==
  /\ n \notin DOMAIN streams[q].log /\ streams'[q].log[n] = m
  /\ \A r \in Roles : DOMAIN streams'[r].log =
       IF r = q THEN DOMAIN streams[r].log \cup {n} ELSE DOMAIN streams[r].log

Kept ==
  \A r \in Roles : \A i \in DOMAIN streams[r].log :
    i \in DOMAIN streams'[r].log /\ streams'[r].log[i] = streams[r].log[i]

\* A publication adds one entry.
LEMMA PublishFresh ==
  ASSUME TypeInv, NEW q \in Roles, NEW m \in Messages, q # "fetch" => m.file \in Files,
         streams' = Publish(streams, q, m)
  PROVE  Kept /\ \E n \in Nat : Fresh(q, n, m)
<1>1. \A r \in Roles : streams'[r].log = IF r = q THEN Append(streams[r].log, m)
                                                  ELSE streams[r].log
  <2>1. StreamsFit(streams)
    BY DEF TypeInv, Shape
  <2> QED
    BY <2>1, PublishIs
<1> DEFINE n == Len(streams[q].log) + 1
<1>2. /\ n \in Nat /\ n \notin DOMAIN streams[q].log
      /\ DOMAIN streams'[q].log = DOMAIN streams[q].log \cup {n}
      /\ streams'[q].log[n] = m
      /\ \A i \in DOMAIN streams[q].log : streams'[q].log[i] = streams[q].log[i]
  <2>1. PICK l \in Seq(Messages) : l = streams[q].log
    BY IdsAre
  <2>2. /\ Len(l) \in Nat /\ DOMAIN l = 1 .. Len(l)
        /\ DOMAIN Append(l, m) = 1 .. Len(l) + 1
        /\ \A i \in 1 .. Len(l) : Append(l, m)[i] = l[i]
        /\ Append(l, m)[Len(l) + 1] = m
    BY AppendIs
  <2>3. streams'[q].log = Append(l, m)
    BY <1>1, <2>1
  <2> QED
    BY <2>1, <2>2, <2>3
<1> HIDE DEF n
<1>3. Kept
  BY <1>1, <1>2 DEF Kept
<1>4. Fresh(q, n, m)
  BY <1>1, <1>2 DEF Fresh
<1> QED
  BY <1>2, <1>3, <1>4

\* No step removes or changes an entry; a step adds at most one.
LEMMA Entries ==
  ASSUME TypeInv, Next
  PROVE  /\ Kept
         /\ \/ \A r \in Roles : DOMAIN streams'[r].log = DOMAIN streams[r].log
            \/ \E q \in Roles, n \in Nat, m \in Messages : Fresh(q, n, m) /\ Source(q, m)
<1> DEFINE Same == \A r \in Roles : streams'[r].log = streams[r].log
<1>0. StreamsFit(streams) /\ \A h \in ctx : h.role \in Roles /\ h.id \in Nat
  BY ContentsTyped DEF TypeInv, Shape, Handlers
<1>1. CASE Same
  BY <1>1 DEF Kept
<1>2. CASE ApiPublish
  <2>1. Message(NoFile, 0) \in Messages /\ "fetch" \in Roles
    BY DEF Messages, Message, Roles
  <2>2. streams' = Publish(streams, "fetch", Message(NoFile, 0))
    BY <1>2 DEF ApiPublish
  <2> QED
    BY <1>2, <2>1, <2>2, PublishFresh DEF Source
<1>3. ASSUME NEW h \in ctx, Stage(h) PROVE Same \/ Announces(h) \/ HandsOver(h) \/ Retries(h)
  <2>1. CASE Acknowledges(h)
    BY <1>0, <2>1, AckedIs DEF Acknowledges
  <2> QED
    BY <1>3, <2>1 DEF Stage, Moves, Stumbles, Abandons, EndsQuietly
<1>4. ASSUME NEW h \in ctx, Announces(h)
      PROVE  Kept /\ \E q \in Roles, n \in Nat, m \in Messages : Fresh(q, n, m) /\ Source(q, m)
  <2>1. PICK f \in h.todo : streams' = Publish(streams, "process", Message(f, 0))
    BY <1>4 DEF Announces, PublishFile
  <2>2. /\ Message(f, 0) \in Messages /\ Message(f, 0).file = f /\ f \in Files
        /\ "process" \in Roles
    BY ContentsTyped DEF Messages, Message, Roles
  <2> QED
    BY <1>4, <2>1, <2>2, PublishFresh DEF Source
<1>5. ASSUME NEW h \in ctx, HandsOver(h)
      PROVE  Kept /\ \E q \in Roles, n \in Nat, m \in Messages : Fresh(q, n, m) /\ Source(q, m)
  <2>1. streams' = Publish(streams, "store", Message(File(h), 0))
    BY <1>5 DEF HandsOver
  <2>2. /\ Message(File(h), 0) \in Messages /\ Message(File(h), 0).file = File(h)
        /\ File(h) \in Files /\ "store" \in Roles
    BY <1>5, MessageTyped DEF Messages, Message, Roles, HandsOver
  <2> QED
    BY <1>5, <2>1, <2>2, PublishFresh DEF Source
<1>6. ASSUME NEW h \in ctx, Retries(h)
      PROVE  Kept /\ \E q \in Roles, n \in Nat, m \in Messages : Fresh(q, n, m) /\ Source(q, m)
  <2> DEFINE m == Message(File(h), Msg(h).retries + 1)
  <2>1. /\ m \in Messages /\ m.file = File(h) /\ (h.role # "fetch" => m.file \in Files)
    BY MessageTyped DEF Messages, Message
  <2> HIDE DEF m
  <2>2. streams' = Publish(streams, h.role, m)
    BY <1>6 DEF Retries, m
  <2> QED
    BY <1>0, <1>6, <2>1, <2>2, PublishFresh DEF Source
<1>7. CASE \E h \in ctx : Step(h) \/ Error(h)
  <2>1. PICK h \in ctx : Stage(h)
    BY <1>7, EveryStage
  <2> QED
    BY <1>1, <1>3, <1>4, <1>5, <1>6, <2>1
<1>8. ASSUME NEW r \in Roles, Consume(r) PROVE Same
  BY <1>8, ConsumeIs
<1> QED
  BY <1>1, <1>2, <1>7, <1>8 DEF Next, ApiFails, Crash, Restart

\* Of the steps of r, those that lead into W start in V.
Closed(r, W, V) ==
  /\ "queued" \in W /\ W \subseteq V
  /\ \A k, l : <<k, l>> \in Silent(r) /\ l \in W => k \in V
  /\ \A k, p : <<k, p>> \in Raising(r) /\ p \in ErrorPoints
               /\ ("error" \in W \/ "quota" \in W) => k \in V
  /\ "publish" \in W /\ r = "process" => "ack" \in V
  /\ "count" \in W /\ r = "store" => "ack" \in V
  /\ "close" \in W => "retry" \in V

\* Then no entry gets into W but from V.
LEMMA Down ==
  ASSUME CountedOnce, TypeInv, FaultsOK, Next,
         NEW r \in Roles, NEW i \in DOMAIN streams[r].log, NEW W, NEW V, Closed(r, W, V),
         NoErrors /\ CrashRoles # {} /\ r # "fetch" =>
           \A h \in ctx : h.role = r /\ h.id \in streams[r].pel => h.pc \in V,
         AtIn(streams', ctx', r, i, W)
  PROVE  AtIn(streams, ctx, r, i, V)
<1>1. "queued" \in W /\ W \subseteq V
  BY DEF Closed
<1>v. \A s, c : AtIn(s, c, r, i, W) => AtIn(s, c, r, i, V)
  BY <1>1 DEF AtIn
<1>q. SUFFICES AtIn(streams, ctx, r, i, W) \/ AtIn(streams, ctx, r, i, V)
  BY <1>v
<1>4. CASE \/ ApiPublish \/ ApiFails
           \/ \E q \in Roles : Consume(q) \/ Restart(q)
  BY <1>1, <1>4, QuietAt DEF Roles
<1>5. ASSUME NEW q \in Roles, Crash(q) PROVE AtIn(streams, ctx, r, i, V)
  <2>1. NoErrors /\ q \in FileRoles /\ CrashRoles # {}
    BY <1>5, CrashIs DEF TypeInv, RowsOK, FaultsTyped
  <2>2. r = q => \A h \in ctx : h.role = q /\ h.id \in streams[q].pel => h.pc \in V
    BY <2>1 DEF FileRoles
  <2>3. AtIn(streams', ctx', r, i, V)
    BY <1>v
  <2> QED
    BY <1>5, <2>2, <2>3, CrashAt
<1>6. ASSUME NEW h \in ctx, Step(h) \/ Error(h)
      PROVE  AtIn(streams, ctx, r, i, W) \/ AtIn(streams, ctx, r, i, V)
  <2>1. Stage(h)
    BY <1>6, EveryStage
  <2>2. CASE r # h.role \/ i # h.id
    BY <2>1, <2>2, StageAt
  <2>3. CASE r = h.role /\ i = h.id
    <3>0. h.role \in Roles /\ h.id \in Nat /\ Fits(streams, h) /\ StreamsFit(streams)
      BY ContentsTyped DEF Handlers, TypeInv, Shape
    <3>1. \A U : AtIn(streams, ctx, r, i, U) <=> h.pc \in U
      BY <2>1, <2>3, StageAt
    <3>2. \A l : Becomes(h, l) => l \in W
      BY <2>1, <2>3, StageAt
    <3>3. ctx' = ctx \ {h} => h.id \in streams'[h.role].pel
      BY <2>1, <2>3, StageAt
    <3>4. SUFFICES h.pc \in W \/ h.pc \in V
      BY <3>1
    <3>5. CASE Moves(h)
      BY <2>3, <3>2, <3>5 DEF Moves, Closed
    <3>6. CASE Stumbles(h)
      BY <2>3, <3>2, <3>6 DEF Stumbles, Closed, Raises
    <3>7. CASE Abandons(h)
      BY <1>1, <3>7 DEF Abandons
    <3>8. CASE EndsQuietly(h)
      <4>1. h.id \notin streams[h.role].pel
        BY <3>0, <3>8 DEF EndsQuietly, Fits, LatePcs
      <4> QED
        BY <3>3, <3>8, <4>1 DEF EndsQuietly
    <3>9. CASE Acknowledges(h)
      <4>1. h.id \notin streams'[h.role].pel
        BY <3>0, <3>9, AckedAfter DEF Acknowledges
      <4> QED
        BY <2>3, <3>2, <3>3, <3>9, <4>1 DEF Acknowledges, Closed
    <3>10. CASE Announces(h)
      BY <3>2, <3>10 DEF Announces, PublishFile
    <3>11. CASE HandsOver(h)
      <4>1. h.id \notin streams[h.role].pel
        BY <3>0, <3>11 DEF HandsOver, Fits, LatePcs
      <4>2. After(streams, streams', h.role, h.id)
        BY <2>1, StageAfter
      <4> QED
        BY <3>0, <3>3, <3>11, <4>1, <4>2 DEF HandsOver, After
    <3>12. CASE Retries(h)
      BY <2>3, <3>2, <3>12 DEF Retries, Closed
    <3> QED
      BY <2>1, <3>5, <3>6, <3>7, <3>8, <3>9, <3>10, <3>11, <3>12 DEF Stage
  <2> QED
    BY <2>2, <2>3
<1> QED
  BY <1>4, <1>5, <1>6 DEF Next

\* What leads into the open steps is open.
LEMMA OpenClosed ==
  ASSUME CountedOnce, NEW r \in Roles, NEW c \in BOOLEAN, NEW d \in BOOLEAN, c => d
  PROVE  Closed(r, OpenIn(r, c), OpenIn(r, d))
<1> USE DEF OpenIn, Open, Pcs, EarlyPcs, LatePcs, ErrorPcs, Roles
<1>1. \A k, l : <<k, l>> \in Silent(r) /\ l \in OpenIn(r, c) => k \in OpenIn(r, d)
  <2>1. CASE r = "fetch"
    BY <2>1 DEF Silent
  <2>2. CASE r = "process"
    BY <2>2 DEF Silent
  <2>3. CASE r = "store"
    BY <2>3 DEF Silent
  <2> QED
    BY <2>1, <2>2, <2>3
<1>2. \A k, p : <<k, p>> \in Raising(r) /\ p \in ErrorPoints => k \in OpenIn(r, d)
  BY DEF Raising, CountedOnce
<1> QED
  BY <1>1, <1>2 DEF Closed

\* No step brings a token back.
LEMMA TokenDown ==
  ASSUME CountedOnce, TypeInv, FaultsOK, Next,
         NEW r \in Roles, NEW i \in DOMAIN streams[r].log, Token(r, i)'
  PROVE  Token(r, i)
<1>1. PICK c \in BOOLEAN, d \in BOOLEAN : c = NoErrors' /\ d = NoErrors
  BY DEF NoErrors
<1>2. c => d
  BY <1>1, ErrorsStay
<1>3. Closed(r, OpenIn(r, c), OpenIn(r, d))
  BY <1>2, OpenClosed
<1>4. AtIn(streams', ctx', r, i, OpenIn(r, c))
  BY <1>1 DEF Token, At
<1>5. ASSUME NoErrors, r # "fetch", NEW h \in ctx, h.role = r, h.id \in streams[r].pel
      PROVE  h.pc \in OpenIn(r, d)
  <2>1. h.pc \in Pcs(r) /\ h.pc \notin LatePcs(r)
    BY <1>5 DEF TypeInv, Shape, Fits
  <2>2. h.role = "store" => h.pc # "close"
    BY <1>5 DEF FaultsOK
  <2> QED
    BY <1>1, <1>5, <2>1, <2>2 DEF OpenIn, Open, LatePcs, Roles
<1>6. AtIn(streams, ctx, r, i, OpenIn(r, d))
  BY <1>3, <1>4, <1>5, Down
<1> QED
  BY <1>1, <1>6 DEF Token, At

\* The fetch has not published yet, and may still reset the counters.
Starting == {"queued", "mark", "refresh", "list", "reset", "total"} \cup ErrorPcs

\* A fetch that has begun to publish does not start again.
LEMMA StartDown ==
  ASSUME CountedOnce, TypeInv, FaultsOK, Next,
         NEW i \in DOMAIN streams["fetch"].log, At("fetch", i, Starting)'
  PROVE  At("fetch", i, Starting)
<1>1. Closed("fetch", Starting, Starting)
  <2>1. \A k, l : <<k, l>> \in Silent("fetch") /\ l \in Starting => k \in Starting
    BY DEF Silent, Starting, ErrorPcs
  <2>2. \A k, p : <<k, p>> \in Raising("fetch") /\ p \in ErrorPoints => k \in Starting
    BY DEF Raising, CountedOnce, Starting
  <2> QED
    BY <2>1, <2>2 DEF Closed, Starting, ErrorPcs
<1>2. AtIn(streams', ctx', "fetch", i, Starting) /\ "fetch" \in Roles
  BY DEF At, Roles
<1>3. AtIn(streams, ctx, "fetch", i, Starting)
  BY <1>1, <1>2, Down
<1> QED
  BY <1>3 DEF At

\* Who hands its file over, or retries it, gives the token away.
LEMMA GivenAway ==
  ASSUME CountedOnce, TypeInv, FaultsOK, Next, NEW h \in ctx, HandsOver(h) \/ Retries(h)
  PROVE  /\ h.role \in Roles /\ h.id \in DOMAIN streams[h.role].log
         /\ FileOf(h.role, h.id) = File(h)
         /\ Token(h.role, h.id) /\ ~Token(h.role, h.id)'
<1>0. /\ h.role \in Roles /\ h.id \in DOMAIN streams[h.role].log /\ Fits(streams, h)
      /\ StreamsFit(streams) /\ h.pc \in Pcs(h.role)
  BY ContentsTyped, MessageTyped DEF TypeInv, Shape
<1>1. FileOf(h.role, h.id) = File(h)
  BY DEF FileOf, File, Msg
<1>2. Stage(h)
  BY DEF Stage
<1>3. \A W : AtIn(streams, ctx, h.role, h.id, W) <=> h.pc \in W
  BY <1>2, StageAt
<1>4. h.pc \in OpenIn(h.role, NoErrors)
  BY <1>0 DEF HandsOver, Retries, OpenIn, Open
<1>5. Token(h.role, h.id)
  BY <1>3, <1>4 DEF Token, At
<1>6. CASE HandsOver(h)
  <2>1. h.id \notin streams[h.role].pel
    BY <1>0, <1>6 DEF HandsOver, Fits, LatePcs
  <2>2. After(streams, streams', h.role, h.id)
    BY <1>2, StageAfter
  <2>3. h.id \notin streams'[h.role].pel
    BY <1>0, <2>1, <2>2 DEF After
  <2>4. ~AtIn(streams', ctx', h.role, h.id, OpenIn(h.role, NoErrors'))
    BY <1>2, <1>6, <2>3, StageAt DEF HandsOver
  <2> QED
    BY <1>0, <1>1, <1>5, <2>4 DEF Token, At
<1>7. CASE Retries(h)
  <2>1. ~NoErrors
    BY <1>7 DEF Retries, FaultsOK, ErrorPcs
  <2>2. ~NoErrors'
    BY <2>1, ErrorsStay
  <2>3. "close" \notin OpenIn(h.role, NoErrors')
    BY <2>2 DEF OpenIn, Open
  <2>4. ~AtIn(streams', ctx', h.role, h.id, OpenIn(h.role, NoErrors'))
    BY <1>2, <1>7, <2>3, StageAt DEF Retries
  <2> QED
    BY <1>0, <1>1, <1>5, <2>4 DEF Token, At
<1> QED
  BY <1>6, <1>7

-----------------------------------------------------------------------------
(* The files that are published, and the progress of the fetch.            *)

FilesIn(r) == {FileOf(r, i) : i \in DOMAIN streams[r].log}

\* The published files are those of file:process; those of file:store are
\* among them.
LEMMA PublishedAre == Published = FilesIn("process")
BY DEF Published, FilesIn, FileOf

\* A new entry adds its file.
LEMMA FreshFiles ==
  ASSUME Kept, NEW q \in Roles, NEW n, NEW m, Fresh(q, n, m), NEW r \in Roles
  PROVE  FilesIn(r)' = IF r = q THEN FilesIn(r) \cup {m.file} ELSE FilesIn(r)
<1>1. \A i \in DOMAIN streams[r].log : FileOf(r, i)' = FileOf(r, i)
  BY DEF Kept, FileOf
<1>2. CASE r = q
  <2>1. DOMAIN streams'[r].log = DOMAIN streams[r].log \cup {n} /\ FileOf(r, n)' = m.file
    BY <1>2 DEF Fresh, FileOf
  <2> QED
    BY <1>1, <1>2, <2>1 DEF FilesIn
<1>3. CASE r # q
  <2>1. DOMAIN streams'[r].log = DOMAIN streams[r].log
    BY <1>3 DEF Fresh
  <2> QED
    BY <1>1, <1>3, <2>1 DEF FilesIn
<1> QED
  BY <1>2, <1>3

\* Without one they stay.
LEMMA SameFiles ==
  ASSUME Kept, NEW r \in Roles, DOMAIN streams'[r].log = DOMAIN streams[r].log
  PROVE  FilesIn(r)' = FilesIn(r)
<1>1. \A i \in DOMAIN streams[r].log : FileOf(r, i)' = FileOf(r, i)
  BY DEF Kept, FileOf
<1> QED
  BY <1>1 DEF FilesIn

\* The counters of the job agree with the files that are published, or will be.
FetchRight(h) ==
  /\ h.pc = "total" => progress.total = Cardinality(h.todo)
  /\ h.pc = "publish" =>
       /\ h.todo \cap Published = {}
       /\ progress.total = Cardinality(Published \cup h.todo)
       /\ jobTotal = progress.total
Publishing == \E h \in ctx : h.role = "fetch" /\ h.pc = "publish"
FetchOK ==
  /\ api = "committed" => DOMAIN streams["fetch"].log = {}
  /\ FilesIn("store") \subseteq Published
  /\ Published # {} =>
       api # "committed" /\ \A i \in DOMAIN streams["fetch"].log : ~At("fetch", i, Starting)
  /\ \A h \in ctx : h.role = "fetch" => FetchRight(h)
  /\ Published # {} /\ ~Publishing =>
       progress.total = Cardinality(Published) /\ jobTotal = progress.total

\* Every file, and the fetch, is in the hands of one message.
OneToken ==
  /\ \A i, j \in DOMAIN streams["fetch"].log :
       Token("fetch", i) /\ Token("fetch", j) => i = j
  /\ \A r, s \in FileRoles : \A i \in DOMAIN streams[r].log, j \in DOMAIN streams[s].log :
       Token(r, i) /\ Token(s, j) /\ FileOf(r, i) = FileOf(s, j) => r = s /\ i = j

\* A token that was not there is that of a file just published, or took
\* another's place.
LEMMA NewToken ==
  ASSUME CountedOnce, TypeInv, FaultsOK, Next,
         NEW r \in Roles, NEW i \in DOMAIN streams'[r].log, Token(r, i)'
  PROVE  \/ i \in DOMAIN streams[r].log /\ Token(r, i) /\ FileOf(r, i)' = FileOf(r, i)
         \/ \E q \in Roles, m \in Messages :
              q = r /\ Fresh(q, i, m) /\ Source(q, m) /\ FileOf(r, i)' = m.file
<1>0. Kept
  BY Entries
<1>1. CASE i \in DOMAIN streams[r].log
  BY <1>0, <1>1, TokenDown DEF Kept, FileOf
<1>2. CASE i \notin DOMAIN streams[r].log
  <2>1. PICK q \in Roles, n \in Nat, m \in Messages : Fresh(q, n, m) /\ Source(q, m)
    BY <1>2, Entries
  <2>2. r = q /\ i = n
    BY <1>2, <2>1 DEF Fresh
  <2>3. FileOf(r, i)' = m.file
    BY <2>1, <2>2 DEF Fresh, FileOf
  <2> QED
    BY <2>1, <2>2, <2>3
<1> QED
  BY <1>1, <1>2

\* There is still one token each after a step.
LEMMA OneTokenStep ==
  ASSUME CountedOnce, TypeInv, FaultsOK, FetchOK, OneToken, Next
  PROVE  OneToken'
<1>r. "fetch" \in Roles /\ FileRoles \subseteq Roles
  BY DEF Roles, FileRoles
<1>1. ASSUME NEW i \in DOMAIN streams'["fetch"].log, NEW j \in DOMAIN streams'["fetch"].log,
             Token("fetch", i)', Token("fetch", j)',
             i \notin DOMAIN streams["fetch"].log
      PROVE  i = j
  <2>1. PICK m \in Messages : Fresh("fetch", i, m) /\ Source("fetch", m)
    BY <1>1, <1>r, NewToken
  <2>2. SUFFICES ASSUME i # j PROVE FALSE
    OBVIOUS
  <2>3. j \in DOMAIN streams["fetch"].log
    BY <1>r, <2>1, <2>2 DEF Fresh
  <2>4. Token("fetch", j)
    BY <1>1, <1>r, <2>3, TokenDown
  <2>5. CASE ApiPublish
    BY <2>3, <2>5 DEF ApiPublish, FetchOK
  <2>6. ASSUME NEW h \in ctx, Retries(h), h.role = "fetch" PROVE FALSE
    <3>1. /\ h.id \in DOMAIN streams["fetch"].log
          /\ Token("fetch", h.id) /\ ~Token("fetch", h.id)'
      <4>1. /\ h.id \in DOMAIN streams[h.role].log
            /\ Token(h.role, h.id) /\ ~Token(h.role, h.id)'
        BY <2>6, GivenAway
      <4> QED
        BY <2>6, <4>1 DEF Token, At
    <3>2. h.id = j
      BY <2>3, <2>4, <3>1 DEF OneToken
    <3> QED
      BY <1>1, <3>1, <3>2 DEF Token, At
  <2> QED
    BY <2>1, <2>5, <2>6 DEF Source, Announces, PublishFile, HandsOver
<1>2. ASSUME NEW i \in DOMAIN streams'["fetch"].log, NEW j \in DOMAIN streams'["fetch"].log,
             Token("fetch", i)', Token("fetch", j)'
      PROVE  i = j
  <2>1. CASE i \in DOMAIN streams["fetch"].log /\ j \in DOMAIN streams["fetch"].log
    <3>1. Token("fetch", i) /\ Token("fetch", j)
      BY <1>2, <1>r, <2>1, TokenDown
    <3> QED
      BY <2>1, <3>1 DEF OneToken
  <2> QED
    BY <1>1, <1>2, <2>1
<1>3. ASSUME NEW r \in FileRoles, NEW s \in FileRoles,
             NEW i \in DOMAIN streams'[r].log, NEW j \in DOMAIN streams'[s].log,
             Token(r, i)', Token(s, j)', FileOf(r, i)' = FileOf(s, j)',
             i \notin DOMAIN streams[r].log
      PROVE  r = s /\ i = j
  <2>1. PICK m \in Messages : Fresh(r, i, m) /\ Source(r, m) /\ FileOf(r, i)' = m.file
    BY <1>3, <1>r, NewToken
  <2>2. SUFFICES ASSUME ~(r = s /\ i = j) PROVE FALSE
    OBVIOUS
  <2>3. j \in DOMAIN streams[s].log
    BY <1>r, <2>1, <2>2 DEF Fresh
  <2>4. Token(s, j) /\ FileOf(s, j) = m.file
    <3>1. Token(s, j) /\ FileOf(s, j)' = FileOf(s, j)
      BY <1>3, <1>r, <2>3, TokenDown, Entries DEF Kept, FileOf
    <3> QED
      BY <1>3, <2>1, <3>1
  <2>5. m.file \in Published
    <3>1. m.file \in FilesIn(s)
      BY <2>3, <2>4 DEF FilesIn
    <3> QED
      BY <3>1, PublishedAre DEF FetchOK, FileRoles
  <2>6. ASSUME NEW h \in ctx, Announces(h), m.file \in h.todo PROVE FALSE
    BY <2>5, <2>6 DEF Announces, PublishFile, FetchOK, FetchRight
  <2>7. ASSUME NEW h \in ctx, HandsOver(h) \/ Retries(h), h.role \in FileRoles, m.file = File(h)
        PROVE  FALSE
    <3>1. /\ h.id \in DOMAIN streams[h.role].log /\ FileOf(h.role, h.id) = File(h)
          /\ Token(h.role, h.id) /\ ~Token(h.role, h.id)'
      BY <2>7, GivenAway
    <3>2. h.role = s /\ h.id = j
      BY <2>3, <2>4, <2>7, <3>1 DEF OneToken
    <3> QED
      BY <1>3, <3>1, <3>2 DEF Token, At
  <2>8. ~ApiPublish \/ r # "fetch"
    BY DEF FileRoles
  <2> QED
    BY <2>1, <2>6, <2>7, <2>8 DEF Source, FileRoles, HandsOver
<1>4. ASSUME NEW r \in FileRoles, NEW s \in FileRoles,
             NEW i \in DOMAIN streams'[r].log, NEW j \in DOMAIN streams'[s].log,
             Token(r, i)', Token(s, j)', FileOf(r, i)' = FileOf(s, j)'
      PROVE  r = s /\ i = j
  <2>1. CASE i \in DOMAIN streams[r].log /\ j \in DOMAIN streams[s].log
    <3>1. Token(r, i) /\ Token(s, j)
      BY <1>4, <1>r, <2>1, TokenDown
    <3>2. FileOf(r, i)' = FileOf(r, i) /\ FileOf(s, j)' = FileOf(s, j)
      BY <1>r, <2>1, Entries DEF Kept, FileOf
    <3> QED
      BY <1>4, <2>1, <3>1, <3>2 DEF OneToken
  <2>2. CASE i \notin DOMAIN streams[r].log
    BY <1>3, <1>4, <2>2
  <2>3. CASE j \notin DOMAIN streams[s].log
    BY <1>3, <1>4, <2>3
  <2> QED
    BY <2>1, <2>2, <2>3
<1> QED
  BY <1>2, <1>4 DEF OneToken

\* What is published stays so; only a fetch publishes, and only what is
\* published gets to file:store.
LEMMA FilesStep ==
  ASSUME TypeInv, FetchOK, Next
  PROVE  /\ Published \subseteq Published' /\ FilesIn("store") \subseteq FilesIn("store")'
         /\ FilesIn("store")' \subseteq Published
         /\ \A f \in Published' \ Published : \E h \in ctx : PublishFile(h) /\ f \in h.todo
<1>0. Kept /\ FilesIn("store") \subseteq Published /\ {"process", "store"} \subseteq Roles
  BY Entries DEF FetchOK, Roles
<1>p. Published' = FilesIn("process")' /\ Published = FilesIn("process")
  BY DEF Published, FilesIn, FileOf
<1>1. CASE \A r \in Roles : DOMAIN streams'[r].log = DOMAIN streams[r].log
  BY <1>0, <1>1, <1>p, SameFiles
<1>2. ASSUME NEW q \in Roles, NEW n \in Nat, NEW m \in Messages, Fresh(q, n, m), Source(q, m)
      PROVE  /\ Published \subseteq Published' /\ FilesIn("store") \subseteq FilesIn("store")'
             /\ FilesIn("store")' \subseteq Published
             /\ \A f \in Published' \ Published : \E h \in ctx : PublishFile(h) /\ f \in h.todo
  <2>1. /\ FilesIn("process")' = IF "process" = q THEN FilesIn("process") \cup {m.file}
                                                  ELSE FilesIn("process")
        /\ FilesIn("store")' = IF "store" = q THEN FilesIn("store") \cup {m.file}
                                              ELSE FilesIn("store")
    BY <1>0, <1>2, FreshFiles
  <2>2. CASE ApiPublish /\ q = "fetch"
    BY <1>0, <1>p, <2>1, <2>2
  <2>3. CASE \E h \in ctx : Announces(h) /\ q = "process" /\ m.file \in h.todo
    BY <1>0, <1>p, <2>1, <2>3 DEF Announces
  <2>4. CASE \E h \in ctx : (HandsOver(h) \/ Retries(h)) /\ m.file = File(h)
                             /\ (q = "process" => h.role = "process")
                             /\ (q = "store" => h.role \in FileRoles)
    <3>1. PICK h \in ctx : /\ m.file = File(h)
                           /\ (q = "process" => h.role = "process")
                           /\ (q = "store" => h.role \in FileRoles)
      BY <2>4
    <3>2. File(h) \in FilesIn(h.role)
      BY MessageTyped DEF FilesIn, FileOf, File, Msg
    <3> QED
      BY <1>0, <1>p, <2>1, <3>1, <3>2 DEF FileRoles
  <2> QED
    BY <1>2, <2>2, <2>3, <2>4 DEF Source, HandsOver, FileRoles
<1> QED
  BY <1>1, <1>2, Entries

\* The publication of one file.
LEMMA PublishFileIs ==
  ASSUME TypeInv, NEW h \in ctx, PublishFile(h)
  PROVE  \E f \in h.todo :
           /\ Published' = Published \cup {f}
           /\ streams' = Publish(streams, "process", Message(f, 0))
           /\ ctx' = (ctx \ {h}) \cup {[h EXCEPT !.todo = h.todo \ {f}]}
<1>1. PICK f \in h.todo : /\ streams' = Publish(streams, "process", Message(f, 0))
                          /\ Become(h, [h EXCEPT !.todo = @ \ {f}])
  BY DEF PublishFile
<1>2. h \in Handlers /\ f \in Files /\ "process" \in Roles
  BY ContentsTyped DEF Roles
<1>3. Message(f, 0) \in Messages /\ Message(f, 0).file = f
  BY <1>2 DEF Message, Messages
<1>4. Kept /\ \E n \in Nat : Fresh("process", n, Message(f, 0))
  BY <1>1, <1>2, <1>3, PublishFresh
<1>5. FilesIn("process")' = FilesIn("process") \cup {f}
  BY <1>2, <1>3, <1>4, FreshFiles
<1>6. Published' = Published \cup {f}
  BY <1>5 DEF Published, FilesIn, FileOf
<1>7. ctx' = (ctx \ {h}) \cup {[h EXCEPT !.todo = h.todo \ {f}]}
  BY <1>1, <1>2 DEF Become, Handlers
<1> QED
  BY <1>1, <1>6, <1>7

\* At most one fetch is under way.
LEMMA OnlyFetch ==
  ASSUME TypeInv, OneToken, NEW h \in ctx, NEW k \in ctx,
         h.role = "fetch", k.role = "fetch", h.pc # "close", k.pc # "close"
  PROVE  h = k
<1>1. ASSUME NEW g \in ctx, g.role = "fetch", g.pc # "close"
      PROVE  g.id \in DOMAIN streams["fetch"].log /\ Token("fetch", g.id)
  <2>1. g.id \in DOMAIN streams[g.role].log /\ g.pc \in Pcs(g.role)
    BY MessageTyped, ContentsTyped
  <2>2. g.pc \in OpenIn(g.role, NoErrors)
    BY <1>1, <2>1 DEF OpenIn, Open
  <2>3. AtIn(streams, ctx, g.role, g.id, OpenIn(g.role, NoErrors))
    BY <2>2, OwnAt DEF TypeInv
  <2> QED
    BY <1>1, <2>1, <2>3 DEF Token, At
<1>2. h.id = k.id
  BY <1>1 DEF OneToken
<1> QED
  BY <1>2 DEF TypeInv, Shape

\* A fetch that starts has published nothing.
LEMMA NotStarted ==
  ASSUME TypeInv, FetchOK, NEW h \in ctx, h.role = "fetch", h.pc \in Starting
  PROVE  Published = {}
<1>1. h.id \in DOMAIN streams[h.role].log /\ AtIn(streams, ctx, h.role, h.id, Starting)
  BY MessageTyped, OwnAt DEF TypeInv
<1> QED
  BY <1>1 DEF FetchOK, At

\* Only a fetch that starts sets the totals.
LEMMA TotalsStep ==
  ASSUME TypeInv, Next
  PROVE  \/ progress'.total = progress.total /\ jobTotal' = jobTotal
         \/ \E h \in ctx : InitProgress(h) \/ SetTotal(h)
<1>0. progress \in [total : Nat, fetched : Nat, processed : Nat, stored : Nat]
  BY DEF TypeInv, RowsOK
<1>1. ASSUME NEW h \in ctx, FetchStep(h)
      PROVE  \/ progress'.total = progress.total /\ jobTotal' = jobTotal
             \/ InitProgress(h) \/ SetTotal(h)
  <2>1. CASE CountFetched(h)
    BY <1>0, <2>1 DEF CountFetched, rows
  <2> QED
    BY <1>1, <2>1 DEF FetchStep, FetchLoad, FetchMark, FetchRefresh, FetchFiles,
       FetchNothing, PublishFile, FetchCommit, rows
<1>2. ASSUME NEW h \in ctx, ProcessStep(h)
      PROVE  progress'.total = progress.total /\ jobTotal' = jobTotal
  <2>1. CASE CountProcessed(h)
    BY <1>0, <2>1 DEF CountProcessed, rows
  <2> QED
    BY <1>2, <2>1 DEF ProcessStep, ProcessLoad, ProcessMark, ProcessSkip, ProcessFile,
       ProcessCheck, ProcessCommit, ProcessAck, ProcessPublish, rows
<1>3. ASSUME NEW h \in ctx, StoreStep(h)
      PROVE  progress'.total = progress.total /\ jobTotal' = jobTotal
  <2>1. CASE CountStored(h)
    BY <1>0, <2>1 DEF CountStored, rows
  <2> QED
    BY <1>3, <2>1 DEF StoreStep, StoreLoad, StoreExamine, StoreVectors, StoreMeta,
       StoreCommit, StoreAck, StoreCheck, StoreFinish, rows
<1>4. ASSUME NEW h \in ctx, ErrorPath(h) \/ Error(h)
      PROVE  progress'.total = progress.total /\ jobTotal' = jobTotal
  BY <1>4 DEF ErrorPath, MarkFailed, Republish, DeadLetter, Close, Error, FetchFails,
     ProcessFails, StoreFails, StoreAbandon, Fails, rows
<1>5. CASE \/ ApiPublish \/ ApiFails
           \/ \E r \in Roles : Consume(r) \/ Crash(r) \/ Restart(r)
  BY <1>5 DEF ApiPublish, ApiFails, Consume, Crash, Restart, rows
<1> QED
  BY <1>1, <1>2, <1>3, <1>4, <1>5 DEF Next, Step

\* How a fetch comes to the steps that publish.
LEMMA FetchCtx ==
  ASSUME TypeInv, Next, NEW k \in ctx', k.role = "fetch", k.pc \in {"total", "publish"}
  PROVE  k \in ctx \/ \E h \in ctx : InitProgress(h) \/ SetTotal(h) \/ PublishFile(h)
<1>1. ASSUME NEW h \in ctx, Step(h) \/ Error(h), Stage(h), Became(h, k)
      PROVE  InitProgress(h) \/ SetTotal(h) \/ PublishFile(h)
  <2>1. /\ h.role = "fetch" /\ ctx' # ctx \ {h}
        /\ \A l : Becomes(h, l) => l \in {"total", "publish"}
    BY <1>1 DEF Became
  <2>2. CASE Moves(h)
    <3>1. h.pc \in {"reset", "total"}
      BY <2>1, <2>2 DEF Moves, Silent
    <3>2. Step(h) \/ Error(h)
      BY <1>1
    <3>3. InitProgress(h) \/ SetTotal(h)
      BY <2>1, <3>1, <3>2 DEF Step, Error, FetchStep, ProcessStep, StoreStep, ErrorPath,
         FetchFails, ProcessFails, StoreFails, StoreAbandon, FetchLoad, FetchMark,
         FetchRefresh, FetchFiles, FetchNothing, PublishFile, CountFetched, FetchCommit,
         ProcessLoad, ProcessMark, ProcessSkip, ProcessFile, CountProcessed, ProcessCheck,
         ProcessCommit, ProcessAck, ProcessPublish, StoreLoad, StoreExamine, StoreVectors,
         StoreMeta, StoreCommit, StoreAck, CountStored, StoreCheck, StoreFinish,
         MarkFailed, Republish, DeadLetter, Close
    <3> QED
      BY <3>3
  <2> QED
    BY <1>1, <2>1, <2>2 DEF Stage, Stumbles, Abandons, EndsQuietly, Acknowledges,
       Announces, HandsOver, Retries
<1> QED
  BY <1>1, CtxStep

\* How it leaves them.
LEMMA PublishStays ==
  ASSUME CountedOnce, TypeInv, Next, NEW h \in ctx, h.role = "fetch", h.pc = "publish"
  PROVE  h \in ctx' \/ PublishFile(h) \/ CountFetched(h)
<1>1. ASSUME NEW k \in ctx, Step(k) \/ Error(k)
      PROVE  h \in ctx' \/ PublishFile(h) \/ CountFetched(h)
  <2>1. CASE k # h
    <3>1. ctx' = ctx \ {k} \/ \E l : Becomes(k, l)
      BY <1>1, EveryStage, StageAfter
    <3> QED
      BY <2>1, <3>1 DEF Becomes
  <2>2. CASE k = h
    <3>1. ~Error(h)
      BY DEF Error, FetchFails, ProcessFails, StoreFails, StoreAbandon, Fails, Raises,
         CountedOnce
    <3>2. Step(h)
      BY <1>1, <2>2, <3>1
    <3> QED
      BY <3>2 DEF Step, FetchStep, ProcessStep, StoreStep, ErrorPath,
         FetchLoad, FetchMark, FetchRefresh, FetchFiles, FetchNothing, InitProgress,
         SetTotal, FetchCommit, ProcessLoad, ProcessMark, ProcessSkip, ProcessFile,
         CountProcessed, ProcessCheck, ProcessCommit, ProcessAck, ProcessPublish,
         StoreLoad, StoreExamine, StoreVectors, StoreMeta, StoreCommit, StoreAck,
         CountStored, StoreCheck, StoreFinish, MarkFailed, Republish, DeadLetter, Close
  <2> QED
    BY <2>1, <2>2
<1>2. ASSUME NEW r \in Roles, Crash(r) PROVE h \in ctx'
  BY <1>2 DEF Crash, Of, CountedOnce
<1> QED
  BY <1>1, <1>2 DEF Next, ApiPublish, ApiFails, Consume, Restart

\* Only the API answers the POST.
LEMMA ApiStep ==
  ASSUME Next
  PROVE  ApiPublish \/ ApiFails \/ api' = api
<1>1. ASSUME NEW h \in ctx, Step(h) PROVE api' = api
  BY <1>1 DEF Step, FetchStep, ProcessStep, StoreStep, ErrorPath,
     FetchLoad, FetchMark, FetchRefresh, FetchFiles, FetchNothing, InitProgress,
     SetTotal, PublishFile, CountFetched, FetchCommit, ProcessLoad, ProcessMark,
     ProcessSkip, ProcessFile, CountProcessed, ProcessCheck, ProcessCommit, ProcessAck,
     ProcessPublish, StoreLoad, StoreExamine, StoreVectors, StoreMeta, StoreCommit,
     StoreAck, CountStored, StoreCheck, StoreFinish, MarkFailed, Republish, DeadLetter,
     Close
<1>2. ASSUME NEW h \in ctx, Error(h) PROVE api' = api
  BY <1>2 DEF Error, FetchFails, ProcessFails, StoreFails, StoreAbandon, Fails
<1> QED
  BY <1>1, <1>2 DEF Next, Consume, Crash, Restart

\* The API publishes before there is any fetch.
LEMMA ApiFirst ==
  ASSUME TypeInv, FetchOK, Next, api' = "committed"
  PROVE  DOMAIN streams'["fetch"].log = {}
<1>1. api' = api /\ ~ApiPublish
  BY ApiStep DEF ApiPublish, ApiFails
<1>2. DOMAIN streams["fetch"].log = {}
  BY <1>1 DEF FetchOK
<1>3. ASSUME NEW n, NEW m, Source("fetch", m) PROVE FALSE
  <2>1. PICK h \in ctx : h.role = "fetch"
    BY <1>1, <1>3 DEF Source, Retries
  <2> QED
    BY <1>2, <2>1, MessageTyped
<1> QED
  BY <1>2, <1>3, Entries DEF Fresh, Roles

\* Once something is published no fetch starts.
LEMMA StartedStep ==
  ASSUME CountedOnce, TypeInv, FaultsOK, FetchOK, OneToken, Next, Published' # {},
         NEW i \in DOMAIN streams'["fetch"].log
  PROVE  ~At("fetch", i, Starting)'
<1>0. "fetch" \in Roles
  BY DEF Roles
<1>2. CASE Published # {}
  <2>1. /\ api # "committed"
        /\ \A j \in DOMAIN streams["fetch"].log : ~At("fetch", j, Starting)
    BY <1>2 DEF FetchOK
  <2>2. CASE i \in DOMAIN streams["fetch"].log
    BY <2>1, <2>2, StartDown
  <2>3. CASE i \notin DOMAIN streams["fetch"].log
    <3>1. PICK m : Source("fetch", m)
      BY <1>0, <2>3, Entries DEF Fresh
    <3>2. PICK h \in ctx : Retries(h) /\ h.role = "fetch"
      BY <2>1, <3>1 DEF Source, ApiPublish
    <3>3. h.pc \in Starting
      BY <3>2 DEF Retries, Starting, ErrorPcs
    <3> QED
      BY <1>2, <3>2, <3>3, NotStarted
  <2> QED
    BY <2>2, <2>3
<1>3. CASE Published = {}
  <2>1. PICK h \in ctx : PublishFile(h)
    BY <1>3, FilesStep
  <2>2. h.role = "fetch" /\ h.pc = "publish"
    BY <2>1 DEF PublishFile
  <2>3. ASSUME At("fetch", i, Starting)' PROVE FALSE
    <3>1. i \in DOMAIN streams["fetch"].log
      <4>1. streams' # streams /\ streams'["fetch"].log = streams["fetch"].log
        <5>1. PICK f \in h.todo : streams' = Publish(streams, "process", Message(f, 0))
          BY <2>1 DEF PublishFile
        <5>2. Message(f, 0) \in Messages /\ Message(f, 0).file = f /\ f \in Files
              /\ {"fetch", "process"} \subseteq Roles /\ StreamsFit(streams)
          BY ContentsTyped DEF Messages, Message, Roles, TypeInv, Shape
        <5>3. streams'["fetch"].log = streams["fetch"].log
          BY <5>1, <5>2, PublishIs
        <5>4. Published' # Published
          BY <1>3
        <5> QED
          BY <5>3, <5>4 DEF Published
      <4> QED
        BY <4>1
    <3>2. At("fetch", i, Starting)
      BY <2>3, <3>1, StartDown
    <3>3. Token("fetch", i)
      BY <3>2 DEF Token, At, AtIn, OpenIn, Open, Starting, Pcs, EarlyPcs, ErrorPcs
    <3>4. h.id \in DOMAIN streams["fetch"].log /\ Token("fetch", h.id)
          /\ ~At("fetch", h.id, Starting)
      <4>1. h.id \in DOMAIN streams[h.role].log
        BY MessageTyped
      <4>2. \A W : AtIn(streams, ctx, h.role, h.id, W) <=> h.pc \in W
        BY OwnAt DEF TypeInv
      <4> QED
        BY <2>2, <4>1, <4>2 DEF Token, At, OpenIn, Open, Starting, Pcs, EarlyPcs, ErrorPcs
    <3> QED
      BY <3>1, <3>2, <3>3, <3>4 DEF OneToken
  <2> QED
    BY <2>3
<1> QED
  BY <1>2, <1>3

\* The counters of the job stay those of the published files.
LEMMA FetchStepKeeps ==
  ASSUME CountedOnce, TypeInv, FaultsOK, FetchOK, OneToken, Next
  PROVE  FetchOK'
<1>1. api' = "committed" => DOMAIN streams'["fetch"].log = {}
  BY ApiFirst
<1>2. FilesIn("store")' \subseteq Published'
  BY FilesStep
<1>3. Published' # {} => /\ api' # "committed"
                         /\ \A i \in DOMAIN streams'["fetch"].log : ~At("fetch", i, Starting)'
  <2>1. ASSUME Published' # {} PROVE api' # "committed"
    <3>1. CASE Published # {}
      BY <3>1, ApiStep DEF FetchOK, ApiPublish, ApiFails
    <3>2. CASE Published = {}
      <4>1. PICK h \in ctx : PublishFile(h)
        BY <2>1, <3>2, FilesStep
      <4>2. h.role = "fetch" /\ h.id \in DOMAIN streams[h.role].log /\ "fetch" \in Roles
        BY <4>1, MessageTyped DEF PublishFile, Roles
      <4>3. h.id \in DOMAIN streams'["fetch"].log
        BY <4>2, Entries DEF Kept
      <4> QED
        BY <4>3, ApiFirst
    <3> QED
      BY <3>1, <3>2
  <2>2. ASSUME Published' # {}, NEW i \in DOMAIN streams'["fetch"].log
        PROVE  ~At("fetch", i, Starting)'
    BY <2>2, StartedStep
  <2> QED
    BY <2>1, <2>2
<1> DEFINE Totals ==
             /\ \A k \in ctx' : k.role = "fetch" => FetchRight(k)'
             /\ Published' # {} /\ ~Publishing' =>
                  progress'.total = Cardinality(Published') /\ jobTotal' = progress'.total
<1>p. ASSUME NEW h \in ctx, h.role = "fetch", h.pc # "close", NEW g, ctx' = (ctx \ {h}) \cup {g},
             NEW k \in ctx', k.role = "fetch", k.pc # "close"
      PROVE  k = g
  BY <1>p, OnlyFetch
<1>s. ASSUME NEW h \in ctx, InitProgress(h) \/ SetTotal(h)
      PROVE  Published = {} /\ Published' = {} /\ h.role = "fetch" /\ h.pc # "close"
             /\ h \in Handlers
  <2>1. Published = {} /\ h.role = "fetch" /\ h.pc # "close"
    BY <1>s, NotStarted DEF InitProgress, SetTotal, Starting
  <2>2. streams' = streams
    BY <1>s DEF InitProgress, SetTotal
  <2> QED
    BY <2>1, <2>2, ContentsTyped DEF Published
<1>4. ASSUME NEW h \in ctx, InitProgress(h) PROVE Totals
  <2>1. PICK g : g = [h EXCEPT !.pc = "total"] /\ ctx' = (ctx \ {h}) \cup {g}
    BY <1>4 DEF InitProgress, Goto, Become
  <2>2. g.pc = "total" /\ g.todo = h.todo /\ progress'.total = Cardinality(h.todo)
    BY <1>4, <1>s, <2>1 DEF InitProgress, NoProgress, Handlers
  <2>3. ASSUME NEW k \in ctx', k.role = "fetch" PROVE FetchRight(k)'
    <3>1. k.pc = "close" \/ k = g
      BY <1>4, <1>p, <1>s, <2>1, <2>3
    <3> QED
      BY <2>2, <3>1 DEF FetchRight
  <2> QED
    BY <1>4, <1>s, <2>3
<1>5. ASSUME NEW h \in ctx, SetTotal(h) PROVE Totals
  <2>1. PICK g : g = [h EXCEPT !.pc = "publish"] /\ ctx' = (ctx \ {h}) \cup {g}
    BY <1>5 DEF SetTotal, Goto, Become
  <2>2. /\ g.pc = "publish" /\ g.todo = h.todo /\ jobTotal' = Cardinality(h.todo)
        /\ progress'.total = Cardinality(h.todo)
    BY <1>5, <1>s, <2>1 DEF SetTotal, Handlers, FetchOK, FetchRight
  <2>3. ASSUME NEW k \in ctx', k.role = "fetch" PROVE FetchRight(k)'
    <3>1. k.pc = "close" \/ k = g
      BY <1>5, <1>p, <1>s, <2>1, <2>3
    <3>2. Published' \cup g.todo = g.todo /\ g.todo \cap Published' = {}
      BY <1>5, <1>s
    <3> QED
      BY <2>2, <3>1, <3>2 DEF FetchRight
  <2> QED
    BY <1>5, <1>s, <2>3
<1>6. ASSUME NEW h \in ctx, PublishFile(h) PROVE Totals
  <2>0. h.role = "fetch" /\ h.pc = "publish" /\ h \in Handlers /\ FetchRight(h)
    BY <1>6, ContentsTyped DEF PublishFile, FetchOK
  <2>f. PICK f \in h.todo :
          /\ Published' = Published \cup {f}
          /\ ctx' = (ctx \ {h}) \cup {[h EXCEPT !.todo = h.todo \ {f}]}
    BY <1>6, PublishFileIs
  <2>1. PICK g : g = [h EXCEPT !.todo = h.todo \ {f}]
                 /\ Published' = Published \cup {f} /\ ctx' = (ctx \ {h}) \cup {g}
    BY <2>f
  <2>2. g.pc = "publish" /\ g.todo = h.todo \ {f} /\ g.role = "fetch"
    BY <2>0, <2>1 DEF Handlers
  <2>3. progress' = progress /\ jobTotal' = jobTotal
    BY <1>6 DEF PublishFile, rows
  <2>4. Published' \cup g.todo = Published \cup h.todo /\ g.todo \cap Published' = {}
    BY <2>0, <2>1, <2>2 DEF FetchRight
  <2>5. ASSUME NEW k \in ctx', k.role = "fetch" PROVE FetchRight(k)'
    <3>1. k.pc = "close" \/ k = g
      BY <1>p, <2>0, <2>1, <2>5
    <3> QED
      BY <2>0, <2>2, <2>3, <2>4, <3>1 DEF FetchRight
  <2>6. Publishing'
    BY <2>1, <2>2 DEF Publishing
  <2> QED
    BY <2>5, <2>6
<1>7. ASSUME ~\E h \in ctx : InitProgress(h) \/ SetTotal(h) \/ PublishFile(h) PROVE Totals
  <2>1. progress'.total = progress.total /\ jobTotal' = jobTotal
    BY <1>7, TotalsStep
  <2>2. Published' = Published
    BY <1>7, FilesStep
  <2>3. ASSUME NEW k \in ctx', k.role = "fetch" PROVE FetchRight(k)'
    <3>1. CASE k.pc \in {"total", "publish"}
      <4>1. FetchRight(k)
        BY <1>7, <2>3, <3>1, FetchCtx DEF FetchOK
      <4> QED
        BY <2>1, <2>2, <4>1 DEF FetchRight
    <3> QED
      BY <3>1 DEF FetchRight
  <2>4. ASSUME Published' # {}, ~Publishing'
        PROVE  progress'.total = Cardinality(Published') /\ jobTotal' = progress'.total
    <3>1. CASE Publishing
      <4>1. PICK h \in ctx : h.role = "fetch" /\ h.pc = "publish"
        BY <3>1 DEF Publishing
      <4>2. CountedOnce /\ h \notin ctx'
        BY <2>4, <4>1 DEF Publishing
      <4>3. h.todo = {}
        BY <1>7, <4>1, <4>2, PublishStays DEF CountFetched
      <4>4. Published \cup h.todo = Published
        BY <4>3
      <4> QED
        BY <2>1, <2>2, <4>1, <4>4 DEF FetchOK, FetchRight
    <3>2. CASE ~Publishing
      BY <2>1, <2>2, <2>4, <3>2 DEF FetchOK
    <3> QED
      BY <3>1, <3>2
  <2> QED
    BY <2>3, <2>4
<1>8. Totals
  BY <1>4, <1>5, <1>6, <1>7
<1> QED
  BY <1>1, <1>2, <1>3, <1>8 DEF FetchOK

-----------------------------------------------------------------------------
(* What is stored, and what the counter of it counts.                      *)

\* Rows and handlers speak of vectors that are there.
StoredOK ==
  /\ \A f \in Files : meta[f] = "completed" => f \in vectors
  /\ \A h \in ctx : h.role = "store" =>
       /\ h.pc = "meta" => File(h) \in vectors
       /\ h.pc \in {"commit", "ack", "count"} => Stored(File(h))

\* The files that reached file:store, are stored, and no message has in hand.
Delivered == {f \in Files : f \in FilesIn("store") /\ Stored(f) /\ ~HasToken(f)}
CountsOK == progress.stored <= Cardinality(Delivered)

\* Nothing is left of the job.
Complete ==
  /\ Published # {}
  /\ \A f \in Published : Stored(f) /\ ~HasToken(f)
  /\ \A h \in ctx : h.role = "fetch" /\ h.pc = "publish" => h.todo = {}
  /\ progress.stored >= progress.total
Finishing == \E h \in ctx : h.role = "store" /\ h.pc = "finish"
DoneOK == jobStatus = "completed" \/ repoStatus = "completed" \/ Finishing => Complete

\* Vectors and complete metadata are not taken back; the metadata are
\* completed by the store worker only.
LEMMA StoredGrows ==
  ASSUME TypeInv, Next
  PROVE  /\ vectors \subseteq vectors'
         /\ \A f \in Files : meta[f] = "completed" => meta'[f] = "completed"
         /\ \A f \in Files : meta'[f] = "completed" =>
              meta[f] = "completed" \/ \E h \in ctx : StoreMeta(h) /\ f = File(h)
<1>0. meta \in [Files -> {"none", "pending", "completed"}]
  BY DEF TypeInv, RowsOK
<1> DEFINE Grows ==
  /\ vectors \subseteq vectors'
  /\ \A f \in Files : meta[f] = "completed" => meta'[f] = "completed"
  /\ \A f \in Files : meta'[f] = "completed" =>
       meta[f] = "completed" \/ \E h \in ctx : StoreMeta(h) /\ f = File(h)
<1>s. UNCHANGED <<vectors, meta>> => Grows
  OBVIOUS
<1>r. UNCHANGED <<rows, vectors>> => Grows
  BY DEF rows
<1>w. ASSUME NEW f, vectors' = vectors, meta' = WithRow(f) PROVE Grows
  BY <1>0, <1>w DEF WithRow
<1>1. ASSUME NEW h \in ctx, FetchStep(h) PROVE Grows
  <2>1. UNCHANGED <<vectors, meta>>
    BY <1>1 DEF FetchStep, FetchLoad, FetchMark, FetchRefresh, FetchFiles, FetchNothing,
       InitProgress, SetTotal, PublishFile, CountFetched, FetchCommit, rows
  <2> QED
    BY <1>s, <2>1
<1>2. ASSUME NEW h \in ctx, ProcessStep(h) PROVE Grows
  <2>1. UNCHANGED <<vectors, meta>> \/ (vectors' = vectors /\ meta' = WithRow(File(h)))
    BY <1>2 DEF ProcessStep, ProcessLoad, ProcessMark, ProcessSkip, ProcessFile,
       CountProcessed, ProcessCheck, ProcessCommit, ProcessAck, ProcessPublish, rows
  <2> QED
    BY <1>s, <1>w, <2>1
<1>3. ASSUME NEW h \in ctx, StoreStep(h) PROVE Grows
  <2>1. CASE StoreVectors(h)
    BY <1>0, <2>1 DEF StoreVectors, rows
  <2>2. CASE StoreMeta(h)
    BY <1>0, <2>2 DEF StoreMeta
  <2>3. CASE ~StoreVectors(h) /\ ~StoreMeta(h)
    <3>1. UNCHANGED <<vectors, meta>> \/ (vectors' = vectors /\ meta' = WithRow(File(h)))
      BY <1>3, <2>3 DEF StoreStep, StoreLoad, StoreExamine, StoreCommit, StoreAck,
         CountStored, StoreCheck, StoreFinish, rows
    <3> QED
      BY <1>s, <1>w, <3>1
  <2> QED
    BY <2>1, <2>2, <2>3
<1>4. ASSUME NEW h \in ctx, ErrorPath(h) \/ Error(h) PROVE Grows
  <2>1. UNCHANGED <<vectors, meta>>
    BY <1>4 DEF ErrorPath, MarkFailed, Republish, DeadLetter, Close, Error, FetchFails,
       ProcessFails, StoreFails, StoreAbandon, Fails, rows
  <2> QED
    BY <1>s, <2>1
<1>5. CASE \/ ApiPublish \/ ApiFails
           \/ \E r \in Roles : Consume(r) \/ Crash(r) \/ Restart(r)
  BY <1>5, <1>r DEF ApiPublish, ApiFails, Consume, Crash, Restart
<1> QED
  BY <1>1, <1>2, <1>3, <1>4, <1>5 DEF Next, Step

\* What is stored stays stored.
LEMMA StaysStored ==
  ASSUME TypeInv, Next, NEW f \in Files, Stored(f)
  PROVE  Stored(f)'
BY StoredGrows DEF Stored

\* The counter of the stored files.
LEMMA StoredCount ==
  ASSUME TypeInv, Next
  PROVE  \/ progress'.stored = progress.stored
         \/ \E h \in ctx : InitProgress(h) /\ progress'.stored = 0
         \/ \E h \in ctx : CountStored(h) /\ progress'.stored = progress.stored + 1
<1>0. progress \in [total : Nat, fetched : Nat, processed : Nat, stored : Nat]
  BY DEF TypeInv, RowsOK
<1>1. ASSUME NEW h \in ctx, FetchStep(h)
      PROVE  progress'.stored = progress.stored \/ (InitProgress(h) /\ progress'.stored = 0)
  <2>1. CASE CountFetched(h)
    BY <1>0, <2>1 DEF CountFetched
  <2>2. CASE InitProgress(h)
    BY <2>2 DEF InitProgress, NoProgress
  <2> QED
    BY <1>1, <2>1, <2>2 DEF FetchStep, FetchLoad, FetchMark, FetchRefresh, FetchFiles,
       FetchNothing, SetTotal, PublishFile, FetchCommit
<1>2. ASSUME NEW h \in ctx, ProcessStep(h) PROVE progress'.stored = progress.stored
  <2>1. CASE CountProcessed(h)
    BY <1>0, <2>1 DEF CountProcessed
  <2> QED
    BY <1>2, <2>1 DEF ProcessStep, ProcessLoad, ProcessMark, ProcessSkip, ProcessFile,
       ProcessCheck, ProcessCommit, ProcessAck, ProcessPublish
<1>3. ASSUME NEW h \in ctx, StoreStep(h)
      PROVE  \/ progress'.stored = progress.stored
             \/ CountStored(h) /\ progress'.stored = progress.stored + 1
  <2>1. CASE CountStored(h)
    BY <1>0, <2>1 DEF CountStored
  <2> QED
    BY <1>3, <2>1 DEF StoreStep, StoreLoad, StoreExamine, StoreVectors, StoreMeta,
       StoreCommit, StoreAck, StoreCheck, StoreFinish
<1>4. ASSUME NEW h \in ctx, ErrorPath(h) \/ Error(h) PROVE progress'.stored = progress.stored
  BY <1>4 DEF ErrorPath, MarkFailed, Republish, DeadLetter, Close, Error, FetchFails,
     ProcessFails, StoreFails, StoreAbandon, Fails
<1>5. CASE \/ ApiPublish \/ ApiFails
           \/ \E r \in Roles : Consume(r) \/ Crash(r) \/ Restart(r)
  BY <1>5 DEF ApiPublish, ApiFails, Consume, Crash, Restart
<1> QED
  BY <1>1, <1>2, <1>3, <1>4, <1>5 DEF Next, Step

\* A row reads "completed" because a store handler finished.
LEMMA StatusStep ==
  ASSUME Next
  PROVE  /\ jobStatus' = "completed" =>
              jobStatus = "completed" \/ \E h \in ctx : StoreFinish(h)
         /\ repoStatus' = "completed" =>
              repoStatus = "completed" \/ \E h \in ctx : StoreFinish(h)
<1>1. ASSUME NEW h \in ctx, Step(h), ~StoreFinish(h)
      PROVE  /\ jobStatus' \in {jobStatus, "processing", "failed"}
             /\ repoStatus' \in {repoStatus, "fetching", "processing", "failed"}
  BY <1>1 DEF Step, FetchStep, ProcessStep, StoreStep, ErrorPath,
     FetchLoad, FetchMark, FetchRefresh, FetchFiles, FetchNothing, InitProgress,
     SetTotal, PublishFile, CountFetched, FetchCommit, ProcessLoad, ProcessMark,
     ProcessSkip, ProcessFile, CountProcessed, ProcessCheck, ProcessCommit, ProcessAck,
     ProcessPublish, StoreLoad, StoreExamine, StoreVectors, StoreMeta, StoreCommit,
     StoreAck, CountStored, StoreCheck, MarkFailed, Republish, DeadLetter,
     Close, Written, rows
<1>2. ASSUME NEW h \in ctx, Error(h) PROVE UNCHANGED rows
  BY <1>2 DEF Error, FetchFails, ProcessFails, StoreFails, StoreAbandon, Fails
<1>3. CASE \/ ApiPublish \/ ApiFails
           \/ \E r \in Roles : Consume(r) \/ Crash(r) \/ Restart(r)
  BY <1>3 DEF ApiPublish, ApiFails, Consume, Crash, Restart, rows
<1>4. ASSUME NEW h \in ctx, Step(h) \/ Error(h)
      PROVE  /\ jobStatus' = "completed" => jobStatus = "completed" \/ StoreFinish(h)
             /\ repoStatus' = "completed" => repoStatus = "completed" \/ StoreFinish(h)
  BY <1>1, <1>2, <1>4 DEF rows
<1> QED
  BY <1>3, <1>4 DEF Next

\* A file with a token had one before, or is published now.
LEMMA HasTokenStep ==
  ASSUME CountedOnce, TypeInv, FaultsOK, Next, NEW f, HasToken(f)'
  PROVE  HasToken(f) \/ \E h \in ctx : PublishFile(h) /\ f \in h.todo
<1>0. FileRoles \subseteq Roles
  BY DEF FileRoles, Roles
<1>1. PICK r \in FileRoles : \E i \in DOMAIN streams'[r].log : Token(r, i)' /\ FileOf(r, i)' = f
  BY DEF HasToken
<1>i. PICK i \in DOMAIN streams'[r].log : Token(r, i)' /\ FileOf(r, i)' = f
  BY <1>1
<1>2. CASE i \in DOMAIN streams[r].log /\ Token(r, i) /\ FileOf(r, i)' = FileOf(r, i)
  BY <1>i, <1>2 DEF HasToken
<1>3. ASSUME NEW m \in Messages, Source(r, m), FileOf(r, i)' = m.file
      PROVE  HasToken(f) \/ \E h \in ctx : PublishFile(h) /\ f \in h.todo
  <2>1. CASE \E h \in ctx : Announces(h) /\ m.file \in h.todo
    BY <1>i, <1>3, <2>1 DEF Announces
  <2>2. ASSUME NEW h \in ctx, HandsOver(h) \/ Retries(h), h.role \in FileRoles, m.file = File(h)
        PROVE  HasToken(f)
    BY <1>i, <1>3, <2>2, GivenAway DEF HasToken
  <2> QED
    BY <1>3, <2>1, <2>2 DEF Source, FileRoles, HandsOver
<1> QED
  BY <1>0, <1>i, <1>2, <1>3, NewToken

\* A stored file that nobody has in hand stays so.
LEMMA DeliveredGrows ==
  ASSUME CountedOnce, TypeInv, FaultsOK, FetchOK, Next
  PROVE  Delivered \subseteq Delivered'
<1>1. ASSUME NEW f \in Delivered PROVE f \in Delivered'
  <2>1. f \in Files /\ f \in FilesIn("store") /\ Stored(f) /\ ~HasToken(f)
    BY DEF Delivered
  <2>2. f \in FilesIn("store")' /\ Stored(f)'
    BY <2>1, FilesStep, StaysStored
  <2>3. ASSUME NEW h \in ctx, PublishFile(h), f \in h.todo PROVE FALSE
    <3>1. f \in Published /\ h.todo \cap Published = {}
      BY <2>1, <2>3 DEF FetchOK, FetchRight, PublishFile
    <3> QED
      BY <2>3, <3>1
  <2>4. ~HasToken(f)'
    BY <2>1, <2>3, HasTokenStep
  <2> QED
    BY <2>1, <2>2, <2>4 DEF Delivered
<1> QED
  BY <1>1

\* The sets of files are finite.
LEMMA DeliveredFinite ==
  /\ IsFiniteSet(Delivered) /\ IsFiniteSet(Delivered')
  /\ Cardinality(Delivered) \in Nat /\ Cardinality(Delivered') \in Nat
<1>1. Delivered \subseteq Files /\ Delivered' \subseteq Files
  BY DEF Delivered
<1> QED
  BY <1>1, FilesAssumption, FS_Subset, FS_CardinalityType

\* The counter never runs ahead of the files that are stored.
LEMMA CountsStep ==
  ASSUME CountedOnce, TypeInv, FaultsOK, FetchOK, OneToken, StoredOK, CountsOK, Next
  PROVE  CountsOK'
<1>0. progress.stored \in Nat
  BY DEF TypeInv, RowsOK
<1>1. /\ Cardinality(Delivered) \in Nat /\ Cardinality(Delivered') \in Nat
      /\ IsFiniteSet(Delivered) /\ IsFiniteSet(Delivered')
  BY DeliveredFinite
<1>2. Delivered \subseteq Delivered' /\ Cardinality(Delivered) <= Cardinality(Delivered')
  <2>1. PICK D, E : D = Delivered /\ E = Delivered'
    OBVIOUS
  <2>2. D \subseteq E
    BY <2>1, DeliveredGrows
  <2>3. Cardinality(D) <= Cardinality(E)
    BY <1>1, <2>1, <2>2, FS_Subset
  <2> QED
    BY <2>1, <2>2, <2>3
<1>3. CASE progress'.stored = progress.stored
  BY <1>0, <1>1, <1>2, <1>3 DEF CountsOK
<1>4. CASE progress'.stored = 0
  BY <1>1, <1>4 DEF CountsOK
<1>5. ASSUME NEW h \in ctx, CountStored(h), progress'.stored = progress.stored + 1
      PROVE  CountsOK'
  <2>0. /\ h.role = "store" /\ h.pc = "count" /\ streams' = streams
        /\ h.id \in DOMAIN streams[h.role].log /\ File(h) \in Files
        /\ FileOf("store", h.id) = File(h) /\ "store" \in FileRoles
        /\ FileRoles \subseteq Roles
    BY <1>5, MessageTyped DEF CountStored, FileOf, File, Msg, FileRoles, Roles
  <2>1. Stage(h)
    BY <1>5, EveryStage DEF Step, StoreStep
  <2>2. Token("store", h.id)
    <3>1. AtIn(streams, ctx, h.role, h.id, OpenIn("store", NoErrors))
      BY <2>0, <2>1, StageAt DEF OpenIn, Open, Pcs, LatePcs
    <3> QED
      BY <2>0, <3>1 DEF Token, At
  <2>3. ~Token("store", h.id)'
    <3>1. PICK g : g.role = h.role /\ g.id = h.id /\ g.pc = "check"
                   /\ ctx' = (ctx \ {h}) \cup {g}
      <4>1. h \in Handlers
        BY ContentsTyped
      <4> QED
        BY <1>5, <4>1 DEF CountStored, Goto, Become, Handlers
    <3>2. PICK W : W = OpenIn("store", NoErrors')
      OBVIOUS
    <3>3. After(streams, streams, h.role, h.id)
      BY SameAfter DEF TypeInv, Shape
    <3>4. AtIn(streams, (ctx \ {h}) \cup {g}, h.role, h.id, W) <=> g.pc \in W
      BY <2>0, <3>1, <3>3, MoveAt DEF TypeInv
    <3>5. "check" \notin W
      BY <3>2 DEF OpenIn, Open
    <3> QED
      BY <2>0, <3>1, <3>2, <3>4, <3>5 DEF Token, At
  <2>4. ~HasToken(File(h))'
    <3>1. SUFFICES ASSUME NEW r \in FileRoles, NEW i \in DOMAIN streams[r].log,
                          Token(r, i)', FileOf(r, i)' = File(h)
                   PROVE  FALSE
      <4>1. PICK f : f = File(h) /\ File(h)' = f
        BY <2>0 DEF File, Msg
      <4> QED
        BY <2>0, <3>1, <4>1 DEF HasToken, FileOf, Token, At
    <3>2. Token(r, i) /\ FileOf(r, i) = File(h)
      BY <2>0, <3>1, TokenDown DEF FileOf
    <3>3. r = "store" /\ i = h.id
      BY <2>0, <2>2, <3>2 DEF OneToken
    <3> QED
      BY <2>3, <3>1, <3>3 DEF Token, At
  <2>5. File(h) \notin Delivered
    BY <2>0, <2>2 DEF Delivered, HasToken
  <2>6. File(h) \in Delivered'
    <3>1. PICK f \in Files : f = File(h) /\ File(h)' = f
      BY <2>0 DEF File, Msg
    <3>2. Stored(f)'
      BY <2>0, <3>1, StaysStored DEF StoredOK
    <3>3. f \in FilesIn("store")'
      BY <2>0, <3>1 DEF FilesIn, FileOf
    <3>4. ~HasToken(f)'
      BY <2>4, <3>1 DEF HasToken
    <3> QED
      BY <3>1, <3>2, <3>3, <3>4 DEF Delivered
  <2>7. Cardinality(Delivered) + 1 <= Cardinality(Delivered')
    <3>1. PICK D, E, f : D = Delivered /\ E = Delivered' /\ f = File(h)
      OBVIOUS
    <3>2. /\ IsFiniteSet(D) /\ IsFiniteSet(E) /\ D \cup {f} \subseteq E /\ f \notin D
      BY <1>1, <1>2, <2>5, <2>6, <3>1
    <3>3. Cardinality(D \cup {f}) = Cardinality(D) + 1
      BY <3>2, FS_AddElement
    <3>4. Cardinality(D \cup {f}) <= Cardinality(E)
      BY <3>2, FS_Subset
    <3> QED
      BY <3>1, <3>3, <3>4
  <2> QED
    BY <1>0, <1>1, <1>5, <2>7 DEF CountsOK
<1> QED
  BY <1>3, <1>4, <1>5, StoredCount

\* A complete job stays complete.
LEMMA CompleteStep ==
  ASSUME CountedOnce, TypeInv, FaultsOK, FetchOK, OneToken, Complete, Next
  PROVE  Complete'
<1>1. ASSUME NEW h \in ctx PROVE ~PublishFile(h) /\ ~InitProgress(h) /\ ~SetTotal(h)
  <2>1. ~PublishFile(h)
    BY DEF PublishFile, Complete
  <2> QED
    BY <2>1, NotStarted DEF InitProgress, SetTotal, Starting, Complete
<1>2. Published' = Published /\ Published' # {}
  BY <1>1, FilesStep DEF Complete
<1>3. ASSUME NEW f \in Published PROVE Stored(f)' /\ ~HasToken(f)'
  <2>1. f \in Files
    <3>1. PICK i \in DOMAIN streams["process"].log : f = streams["process"].log[i].file
      BY DEF Published
    <3> QED
      BY <3>1 DEF TypeInv, Shape, StreamsFit, Roles
  <2> QED
    BY <1>1, <2>1, StaysStored, HasTokenStep DEF Complete
<1>4. \A k \in ctx' : k.role = "fetch" /\ k.pc = "publish" => k.todo = {}
  BY <1>1, FetchCtx DEF Complete
<1>5. progress'.stored >= progress'.total
  <2>1. progress.stored \in Nat /\ progress.total \in Nat
    BY DEF TypeInv, RowsOK
  <2>2. progress'.total = progress.total
    BY <1>1, TotalsStep
  <2>3. progress'.stored = progress.stored \/ progress'.stored = progress.stored + 1
    BY <1>1, StoredCount
  <2> QED
    BY <2>1, <2>2, <2>3 DEF Complete
<1> QED
  BY <1>2, <1>3, <1>4, <1>5 DEF Complete

\* As many files counted as there are to publish: nothing is left.
LEMMA CountedAll ==
  ASSUME CountedOnce, TypeInv, FetchOK, OneToken, CountsOK,
         Published # {}, progress.stored >= progress.total
  PROVE  Complete
<1>0. /\ progress.stored \in Nat /\ progress.total \in Nat
      /\ IsFiniteSet(Delivered) /\ Cardinality(Delivered) \in Nat
  BY DeliveredFinite DEF TypeInv, RowsOK
<1>1. Delivered \subseteq Published /\ Published \subseteq Files
  <2>1. Delivered \subseteq Published
    BY DEF Delivered, FetchOK
  <2>2. Published \subseteq Files
    BY DEF Published, TypeInv, Shape, StreamsFit, Roles
  <2> QED
    BY <2>1, <2>2
<1>a. ASSUME NEW P, P \subseteq Files, Delivered \subseteq P, progress.total = Cardinality(P)
      PROVE  P = Delivered
  <2>1. IsFiniteSet(P) /\ Cardinality(P) \in Nat
    BY <1>a, FilesAssumption, FS_Subset, FS_CardinalityType
  <2>2. Cardinality(P) <= Cardinality(Delivered)
    BY <1>0, <1>a, <2>1 DEF CountsOK
  <2>3. Cardinality(Delivered) <= Cardinality(P) /\
        (Cardinality(Delivered) = Cardinality(P) => Delivered = P)
    BY <1>a, <2>1, FS_Subset
  <2> QED
    BY <1>0, <2>1, <2>2, <2>3
<1>2. ASSUME NEW h \in ctx, h.role = "fetch", h.pc = "publish"
      PROVE  h.todo = {} /\ Published = Delivered
  <2>1. /\ h.todo \cap Published = {} /\ h.todo \subseteq Files
        /\ progress.total = Cardinality(Published \cup h.todo)
    BY <1>2, ContentsTyped DEF FetchOK, FetchRight
  <2>2. Published \cup h.todo = Delivered
    BY <1>1, <1>a, <2>1
  <2> QED
    BY <1>1, <2>1, <2>2
<1>3. CASE ~Publishing
  <2>1. progress.total = Cardinality(Published)
    BY <1>3 DEF FetchOK
  <2>2. Published = Delivered
    BY <1>1, <1>a, <2>1
  <2> QED
    BY <1>3, <2>2 DEF Complete, Delivered, Publishing
<1>4. CASE Publishing
  BY <1>2, <1>4 DEF Complete, Delivered, Publishing
<1> QED
  BY <1>3, <1>4

\* A handler finishes because the counter of the stored files had reached the
\* total when it looked.
LEMMA FinishIs ==
  ASSUME CountedOnce, TypeInv, FetchOK, Next,
         NEW k \in ctx', k \notin ctx, k.role = "store", k.pc = "finish"
  PROVE  /\ Published # {} /\ progress.stored >= progress.total
         /\ k.snap = Counts(progress) /\ progress' = progress
<1>1. PICK h \in ctx : (Step(h) \/ Error(h)) /\ Stage(h) /\ Became(h, k)
  BY CtxStep
<1>2. /\ h.role = "store" /\ ctx' # ctx \ {h} /\ h.role \in Roles /\ h \in Handlers
      /\ \A l : Becomes(h, l) => l = "finish"
  BY <1>1, ContentsTyped DEF Became, Roles
<1>3. Moves(h) /\ h.pc = "check"
  BY <1>1, <1>2 DEF Stage, Moves, Silent, Stumbles, Abandons, EndsQuietly,
     Acknowledges, Announces, HandsOver, Retries
<1>4. StoreCheck(h)
  <2>1. ~StoreFails(h)
    BY <1>3 DEF StoreFails, Fails, Raises, CountedOnce
  <2> QED
    BY <1>1, <1>2, <1>3, <2>1 DEF Step, Error, FetchStep, ProcessStep, StoreStep,
       ErrorPath, FetchFails, ProcessFails, StoreAbandon, FetchLoad, FetchMark,
       FetchRefresh, FetchFiles, FetchNothing, InitProgress, SetTotal, PublishFile,
       CountFetched, FetchCommit, ProcessLoad, ProcessMark, ProcessSkip, ProcessFile,
       CountProcessed, ProcessCheck, ProcessCommit, ProcessAck, ProcessPublish,
       StoreLoad, StoreExamine, StoreVectors, StoreMeta, StoreCommit, StoreAck,
       CountStored, StoreFinish, MarkFailed, Republish, DeadLetter, Close
<1>5. progress.stored >= progress.total /\ progress' = progress
  BY <1>2, <1>4 DEF StoreCheck, End
<1>6. k.snap = Counts(progress)
  <2>1. PICK g : /\ g = [h EXCEPT !.pc = "finish", !.snap = Counts(progress)]
                 /\ ctx' = (ctx \ {h}) \cup {g}
    BY <1>4, <1>5 DEF StoreCheck, Become
  <2> QED
    BY <1>2, <2>1 DEF Handlers
<1>7. Published # {}
  <2>1. h.id \in DOMAIN streams[h.role].log
    BY MessageTyped
  <2>2. FilesIn("store") # {}
    BY <1>2, <2>1 DEF FilesIn
  <2> QED
    BY <2>2 DEF FetchOK
<1> QED
  BY <1>5, <1>6, <1>7

\* Whoever reads "completed" finds the job complete.
LEMMA DoneStep ==
  ASSUME CountedOnce, TypeInv, FaultsOK, FetchOK, OneToken, CountsOK, DoneOK, Next
  PROVE  DoneOK'
<1>1. CASE Complete
  BY <1>1, CompleteStep DEF DoneOK
<1>2. CASE ~Complete
  <2>1. jobStatus # "completed" /\ repoStatus # "completed" /\ ~Finishing
    BY <1>2 DEF DoneOK
  <2>2. jobStatus' # "completed" /\ repoStatus' # "completed"
    BY <2>1, StatusStep DEF StoreFinish, Finishing
  <2>3. ASSUME NEW k \in ctx', k.role = "store", k.pc = "finish" PROVE FALSE
    BY <1>2, <2>1, <2>3, FinishIs, CountedAll DEF Finishing
  <2> QED
    BY <2>2, <2>3 DEF DoneOK, Finishing
<1> QED
  BY <1>1, <1>2

\* The message of a handler stays what it is.
LEMMA FileStays ==
  ASSUME TypeInv, Next, NEW h \in ctx, NEW k, k.role = h.role, k.id = h.id
  PROVE  File(k)' = File(h)
<1>1. h.id \in DOMAIN streams[h.role].log /\ h.role \in Roles
  BY MessageTyped, ContentsTyped
<1>2. streams'[h.role].log[h.id] = streams[h.role].log[h.id]
  BY <1>1, Entries DEF Kept
<1> QED
  BY <1>2 DEF File, Msg

\* A store handler past the metadata has stored its file.
LEMMA StoredStep ==
  ASSUME CountedOnce, TypeInv, FetchOK, StoredOK, DoneOK, Next
  PROVE  StoredOK'
<1>1. ASSUME NEW f \in Files, meta'[f] = "completed" PROVE f \in vectors'
  BY <1>1, StoredGrows DEF StoredOK, StoreMeta
<1>2. ASSUME NEW k \in ctx', k.role = "store"
      PROVE  /\ k.pc = "meta" => File(k)' \in vectors'
             /\ k.pc \in {"commit", "ack", "count"} => Stored(File(k))'
  <2>1. CASE k \in ctx
    <3>1. File(k)' = File(k) /\ File(k) \in Files
      BY <1>2, <2>1, FileStays, MessageTyped
    <3>2. PICK f \in Files : f = File(k) /\ File(k)' = f
      BY <3>1
    <3>3. Stored(f) => Stored(f)'
      BY StaysStored
    <3>4. vectors \subseteq vectors'
      BY StoredGrows
    <3> QED
      BY <1>2, <2>1, <3>2, <3>3, <3>4 DEF StoredOK, Stored
  <2>2. CASE k.pc = "queued"
    BY <2>2
  <2>3. ASSUME NEW h \in ctx, Step(h) \/ Error(h), Stage(h), Became(h, k)
        PROVE  /\ k.pc = "meta" => File(k)' \in vectors'
               /\ k.pc \in {"commit", "ack", "count"} => Stored(File(k))'
    <3>0. /\ h.role = "store" /\ k.id = h.id /\ ctx' # ctx \ {h} /\ h.role \in Roles
          /\ \A l : Becomes(h, l) => l = k.pc
      BY <1>2, <2>3 DEF Became, Roles
    <3>1. File(k)' = File(h) /\ File(h) \in Files
      BY <1>2, <3>0, FileStays, MessageTyped
    <3>2. PICK f \in Files : f = File(h) /\ File(k)' = f
      BY <3>1
    <3>3. Stored(f) => Stored(f)'
      BY StaysStored
    <3>e. (k.pc = "meta" => h.pc = "vectors")
          /\ (k.pc = "commit" => h.pc \in {"examine", "meta"})
          /\ (k.pc = "ack" => h.pc = "commit") /\ (k.pc = "count" => h.pc = "ack")
      BY <2>3, <3>0 DEF Stage, Moves, Silent, Stumbles, Abandons, EndsQuietly,
         Acknowledges, Announces, PublishFile, HandsOver, Retries
    <3>n. k.pc \in {"meta", "commit"} => ~Error(h)
      <4>1. ASSUME Error(h), k.pc \in {"meta", "commit"} PROVE FALSE
        <5>1. \/ ctx' = ctx \ {h}
              \/ \E l \in {"error", "quota"} :
                   Become(h, [NewHandler(h.role, h.id, h.reclaimed) EXCEPT !.pc = l])
          BY <4>1 DEF Error, FetchFails, ProcessFails, StoreFails, StoreAbandon, Fails, End
        <5>2. PICK l \in {"error", "quota"} :
                Become(h, [NewHandler(h.role, h.id, h.reclaimed) EXCEPT !.pc = l])
          BY <3>0, <5>1
        <5>3. k \in ctx \/ k = [NewHandler(h.role, h.id, h.reclaimed) EXCEPT !.pc = l]
          BY <5>2 DEF Become
        <5>4. CASE k \in ctx
          <6>1. k = h
            BY <1>2, <3>0, <5>4 DEF TypeInv, Shape
          <6> QED
            BY <3>0, <3>e, <4>1, <6>1
        <5>5. CASE k = [NewHandler(h.role, h.id, h.reclaimed) EXCEPT !.pc = l]
          BY <4>1, <5>5 DEF NewHandler
        <5> QED
          BY <5>3, <5>4, <5>5
      <4> QED
        BY <4>1
    <3>4. CASE k.pc = "meta"
      <4>1. StoreVectors(h)
        BY <2>3, <3>0, <3>e, <3>n, <3>4 DEF Step, FetchStep, ProcessStep, StoreStep,
           ErrorPath, FetchLoad, FetchMark, FetchRefresh, FetchFiles, FetchNothing,
           InitProgress, SetTotal, PublishFile, CountFetched, FetchCommit, ProcessLoad,
           ProcessMark, ProcessSkip, ProcessFile, CountProcessed, ProcessCheck,
           ProcessCommit, ProcessAck, ProcessPublish, StoreLoad, StoreExamine, StoreMeta,
           StoreCommit, StoreAck, CountStored, StoreCheck, StoreFinish, MarkFailed,
           Republish, DeadLetter, Close
      <4> QED
        BY <3>2, <3>4, <4>1 DEF StoreVectors
    <3>5. CASE k.pc = "commit"
      <4>1. StoreExamine(h) \/ StoreMeta(h)
        BY <2>3, <3>0, <3>e, <3>n, <3>5 DEF Step, FetchStep, ProcessStep, StoreStep,
           ErrorPath, FetchLoad, FetchMark, FetchRefresh, FetchFiles, FetchNothing,
           InitProgress, SetTotal, PublishFile, CountFetched, FetchCommit, ProcessLoad,
           ProcessMark, ProcessSkip, ProcessFile, CountProcessed, ProcessCheck,
           ProcessCommit, ProcessAck, ProcessPublish, StoreLoad, StoreVectors,
           StoreCommit, StoreAck, CountStored, StoreCheck, StoreFinish, MarkFailed,
           Republish, DeadLetter, Close
      <4>2. CASE StoreMeta(h)
        <5>1. meta \in [Files -> {"none", "pending", "completed"}]
          BY DEF TypeInv, RowsOK
        <5>2. f \in vectors /\ vectors' = vectors
          BY <3>0, <3>2, <4>2 DEF StoredOK, StoreMeta
        <5>3. meta'[f] = "completed"
          BY <3>2, <4>2, <5>1 DEF StoreMeta
        <5>4. Stored(f)'
          BY <5>2, <5>3 DEF Stored
        <5> QED
          BY <3>2, <3>5, <5>4 DEF Stored
      <4>3. CASE StoreExamine(h)
        <5>1. repoStatus = "completed"
          <6>1. h \in Handlers
            BY ContentsTyped
          <6>2. repoStatus # "completed" => Becomes(h, "vectors")
            <7> DEFINE g == [h EXCEPT !.pc = "vectors"]
            <7>1. /\ g \in Handlers /\ g.role = h.role /\ g.id = h.id /\ g.pc = "vectors"
              BY <6>1, PcsAre DEF Handlers
            <7> QED
              BY <4>3, <7>1, BecomesBy DEF StoreExamine, Goto
          <6> QED
            BY <3>0, <3>5, <6>2
        <5>2. f \in Published
          <6>1. f \in FilesIn(h.role)
            BY <3>2, MessageTyped DEF FilesIn, FileOf, File, Msg
          <6> QED
            BY <3>0, <6>1 DEF FetchOK
        <5>3. Stored(f)'
          BY <3>3, <5>1, <5>2 DEF DoneOK, Complete
        <5> QED
          BY <3>2, <3>5, <5>3 DEF Stored
      <4> QED
        BY <4>1, <4>2, <4>3
    <3>6. CASE k.pc \in {"ack", "count"}
      <4>1. Stored(f)
        BY <3>0, <3>2, <3>e, <3>6 DEF StoredOK
      <4> QED
        BY <3>2, <3>3, <3>6, <4>1 DEF Stored
    <3> QED
      BY <3>4, <3>5, <3>6
  <2> QED
    BY <2>1, <2>2, <2>3, CtxStep
<1> QED
  BY <1>1, <1>2 DEF StoredOK, Stored

-----------------------------------------------------------------------------
(* The invariant, and a completed job.                                     *)

CInv ==
  /\ TypeInv /\ FaultsOK /\ OneToken /\ FetchOK /\ StoredOK /\ CountsOK /\ DoneOK

\* It holds at first.
LEMMA CompletionInit ==
  ASSUME CountedOnce, Init PROVE CInv
<1>1. /\ \A r \in Roles : streams[r] = EmptyStream
      /\ ctx = {} /\ up = Roles /\ faults = NoFault /\ api = "committed"
      /\ progress = NoProgress /\ meta = [f \in Files |-> "none"]
      /\ jobStatus = "queued" /\ repoStatus = "queued"
  BY DEF Init
<1>2. \A r \in Roles : DOMAIN streams[r].log = {}
  BY <1>1 DEF EmptyStream
<1>3. Published = {} /\ FilesIn("store") = {}
  BY <1>2 DEF Published, FilesIn, Roles
<1>4. FaultsOK
  BY <1>1 DEF FaultsOK, NoFault, Roles
<1>5. OneToken
  BY <1>2 DEF OneToken, FileRoles, Roles
<1>6. FetchOK
  BY <1>1, <1>2, <1>3 DEF FetchOK, Roles
<1>7. StoredOK
  BY <1>1 DEF StoredOK
<1>8. CountsOK
  BY <1>1, DeliveredFinite DEF CountsOK, NoProgress
<1>9. DoneOK
  BY <1>1 DEF DoneOK, Finishing
<1> QED
  BY <1>4, <1>5, <1>6, <1>7, <1>8, <1>9, TypeInit DEF CInv

\* Every step keeps it.
LEMMA CompletionStep ==
  ASSUME CountedOnce, CInv, [Next]_vars
  PROVE  CInv'
<1>1. CASE Next
  <2>1. TypeInv'
    BY <1>1, TypeStep DEF CInv
  <2>2. FaultsOK' /\ OneToken' /\ FetchOK'
    BY <1>1, FaultsStep, OneTokenStep, FetchStepKeeps DEF CInv
  <2>3. StoredOK' /\ CountsOK' /\ DoneOK'
    BY <1>1, StoredStep, CountsStep, DoneStep DEF CInv
  <2> QED
    BY <2>1, <2>2, <2>3 DEF CInv
<1>2. CASE UNCHANGED vars
  <2>1. TypeInv'
    BY <1>2, TypeStep DEF CInv
  <2>2. UNCHANGED <<repoStatus, jobStatus, jobTotal, meta, progress, vectors, streams, up,
                    ctx, faults, api>>
    BY <1>2 DEF vars, rows
  <2>3. \A r, i : Token(r, i)' = Token(r, i) /\ FileOf(r, i)' = FileOf(r, i)
    BY <2>2 DEF Token, At, NoErrors, FileOf
  <2>4. Published' = Published /\ FilesIn("store")' = FilesIn("store")
    BY <2>2 DEF Published, FilesIn, FileOf
  <2>5. \A f : HasToken(f)' = HasToken(f) /\ Stored(f)' = Stored(f)
    BY <2>2, <2>3 DEF HasToken, Stored
  <2>6. Delivered' = Delivered /\ Complete' = Complete
    <3>1. Delivered' = Delivered
      BY <2>4, <2>5 DEF Delivered
    <3>2. Complete' = Complete
      BY <2>2, <2>4, <2>5 DEF Complete
    <3> QED
      BY <3>1, <3>2
  <2>7. FaultsOK'
    BY <2>2 DEF CInv, FaultsOK, NoErrors
  <2>8. OneToken'
    BY <2>2, <2>3 DEF CInv, OneToken
  <2>9. FetchOK'
    BY <2>2, <2>4 DEF CInv, FetchOK, FetchRight, Publishing, At
  <2>10. StoredOK'
    BY <2>2 DEF CInv, StoredOK, File, Msg, Stored
  <2>11. CountsOK' /\ DoneOK'
    BY <2>2, <2>6 DEF CInv, CountsOK, DoneOK, Finishing
  <2> QED
    BY <2>1, <2>7, <2>8, <2>9, <2>10, <2>11 DEF CInv
<1> QED
  BY <1>1, <1>2

\* It holds in every run of a pipeline that counts no file twice.
LEMMA CompletionInvariant == CountedOnce => (Spec => []CInv)
<1>1. CountedOnce /\ Init => CInv
  BY CompletionInit
<1>2. CountedOnce /\ CInv /\ [Next]_vars => CInv'
  BY CompletionStep
<1> SUFFICES ASSUME CountedOnce PROVE Spec => []CInv
  OBVIOUS
<1>3. Init => CInv
  BY <1>1
<1>4. CInv /\ [Next]_vars => CInv'
  BY <1>2
<1> QED
  BY <1>3, <1>4, PTL DEF Spec

\* Whoever reads "completed" on the job or the repository finds every file
\* that was fetched in the vector store and in the metadata table.
THEOREM CompletedIsStored == CountedOnce => (Spec => []CompletedMeansStored)
<1> SUFFICES ASSUME CountedOnce PROVE Spec => []CompletedMeansStored
  OBVIOUS
<1>1. CInv => CompletedMeansStored
  BY DEF CInv, DoneOK, Complete, CompletedMeansStored
<1> QED
  BY <1>1, CompletionInvariant, PTL

\* No straggler writes over the status of a complete job.
LEMMA FinalStep ==
  ASSUME CountedOnce, CInv, Next, jobStatus = "completed"
  PROVE  jobStatus' = "completed"
<1>0. Complete
  BY DEF CInv, DoneOK
<1>1. ASSUME NEW h \in ctx, h.role \in FileRoles, h.pc \in OpenIn(h.role, NoErrors) PROVE FALSE
  <2>1. h.id \in DOMAIN streams[h.role].log /\ AtIn(streams, ctx, h.role, h.id, OpenIn(h.role, NoErrors))
    BY <1>1, MessageTyped, OwnAt DEF CInv, TypeInv
  <2>2. HasToken(File(h))
    BY <1>1, <2>1 DEF HasToken, Token, At, FileOf, File, Msg
  <2>3. File(h) \in Published
    <3>1. File(h) \in FilesIn(h.role)
      BY <2>1 DEF FilesIn, FileOf, File, Msg
    <3> QED
      BY <1>1, <3>1, PublishedAre DEF CInv, FetchOK, FileRoles
  <2> QED
    BY <1>0, <2>2, <2>3 DEF Complete
<1>2. ASSUME NEW h \in ctx, h.role = "fetch", h.pc \in Starting PROVE FALSE
  BY <1>0, <1>2, NotStarted DEF CInv, Complete
<1>3. ASSUME NEW h \in ctx, FetchMark(h) \/ FetchNothing(h) \/ ProcessMark(h) \/ MarkFailed(h)
      PROVE  FALSE
  <2>1. h.role \in Roles /\ h.pc \in Pcs(h.role)
    BY ContentsTyped DEF CInv
  <2>2. CASE h.role = "fetch"
    BY <1>2, <1>3, <2>2 DEF FetchMark, FetchNothing, ProcessMark, MarkFailed, Starting, ErrorPcs
  <2>3. CASE h.role \in FileRoles
    BY <1>1, <1>3, <2>1, <2>3 DEF FetchMark, FetchNothing, ProcessMark, MarkFailed, FileRoles,
       OpenIn, Open
  <2> QED
    BY <2>1, <2>2, <2>3 DEF Roles, FileRoles
<1>4. ASSUME NEW h \in ctx, Step(h) PROVE jobStatus' = "completed"
  BY <1>3, <1>4 DEF Step, FetchStep, ProcessStep, StoreStep, ErrorPath,
     FetchLoad, FetchRefresh, FetchFiles, InitProgress,
     SetTotal, PublishFile, CountFetched, FetchCommit, ProcessLoad,
     ProcessSkip, ProcessFile, CountProcessed, ProcessCheck, ProcessCommit, ProcessAck,
     ProcessPublish, StoreLoad, StoreExamine, StoreVectors, StoreMeta, StoreCommit,
     StoreAck, CountStored, StoreCheck, StoreFinish, Republish, DeadLetter, Close, rows
<1>5. ASSUME NEW h \in ctx, Error(h) PROVE UNCHANGED rows
  BY <1>5 DEF Error, FetchFails, ProcessFails, StoreFails, StoreAbandon, Fails
<1> QED
  BY <1>4, <1>5 DEF Next, ApiPublish, ApiFails, Consume, Crash, Restart, rows

\* A completed job stays completed: no straggler of the job reopens it.
THEOREM CompletedStays == CountedOnce => (Spec => CompletedIsFinal)
<1> SUFFICES ASSUME CountedOnce PROVE Spec => CompletedIsFinal
  OBVIOUS
<1>1. CInv /\ [Next]_vars => [jobStatus = "completed" => jobStatus' = "completed"]_vars
  BY FinalStep
<1> QED
  BY <1>1, CompletionInvariant, PTL DEF Spec, CompletedIsFinal

-----------------------------------------------------------------------------
(* No file is lost between the streams.                                    *)

InHand(f) ==
  \E r \in FileRoles : \E i \in DOMAIN streams[r].log :
    At(r, i, Open(r)) /\ FileOf(r, i) = f
Safe(f) ==
  Stored(f) \/ f \in Chunkless \/ (\E d \in dead : d.msg.file = f) \/ InHand(f)
\* A published file is never out of sight while nothing has died.
LostOK == faults.crash = 0 => \A f \in Published : Safe(f)

\* A new entry has not been delivered.
LEMMA FreshNew ==
  ASSUME TypeInv, Next, NEW q \in Roles, NEW n \in Nat, NEW m, Fresh(q, n, m),
         streams'[q].next = streams[q].next, NEW W
  PROVE  AtIn(streams', ctx', q, n, W)
<1>1. TypeInv'
  BY TypeStep
<1>2. PICK l : l = streams'[q].log /\ Len(l) \in Nat /\ DOMAIN l = 1 .. Len(l)
  BY <1>1 DEF TypeInv, Shape, StreamsFit, Stream
<1>3. n \in 1 .. Len(l) /\ n \notin DOMAIN streams[q].log
  BY <1>2 DEF Fresh
<1>4. n > Len(streams[q].log)
  BY <1>3, IdsAre
<1>5. n >= streams'[q].next
  BY <1>4, IdsAre
<1> QED
  BY <1>5 DEF AtIn

\* What is published by a handler is in hand.
LEMMA PublishedInHand ==
  ASSUME TypeInv, Next, NEW q \in FileRoles, NEW m \in Messages, m.file \in Files,
         streams' = Publish(streams, q, m)
  PROVE  InHand(m.file)'
<1>0. q \in Roles /\ StreamsFit(streams)
  BY DEF FileRoles, Roles, TypeInv, Shape
<1>1. PICK n \in Nat : Fresh(q, n, m)
  BY <1>0, PublishFresh
<1>2. streams'[q].next = streams[q].next
  BY <1>0, PublishIs
<1>3. AtIn(streams', ctx', q, n, Open(q))
  BY <1>0, <1>1, <1>2, FreshNew
<1>4. n \in DOMAIN streams'[q].log /\ FileOf(q, n)' = m.file
  BY <1>0, <1>1 DEF Fresh, FileOf
<1>5. PICK f : f = m.file
  OBVIOUS
<1>6. InHand(f)'
  BY <1>3, <1>4, <1>5 DEF InHand, At
<1> QED
  BY <1>5, <1>6

\* The dead letters stay.
LEMMA DeadStays ==
  ASSUME Next
  PROVE  dead \subseteq dead'
<1>1. ASSUME NEW h \in ctx, Step(h) PROVE dead \subseteq dead'
  BY <1>1 DEF Step, FetchStep, ProcessStep, StoreStep, ErrorPath,
     FetchLoad, FetchMark, FetchRefresh, FetchFiles, FetchNothing, InitProgress,
     SetTotal, PublishFile, CountFetched, FetchCommit, ProcessLoad, ProcessMark,
     ProcessSkip, ProcessFile, CountProcessed, ProcessCheck, ProcessCommit, ProcessAck,
     ProcessPublish, StoreLoad, StoreExamine, StoreVectors, StoreMeta, StoreCommit,
     StoreAck, CountStored, StoreCheck, StoreFinish, MarkFailed, Republish, DeadLetter,
     Close
<1>2. ASSUME NEW h \in ctx, Error(h) PROVE dead \subseteq dead'
  BY <1>2 DEF Error, FetchFails, ProcessFails, StoreFails, StoreAbandon, Fails
<1> QED
  BY <1>1, <1>2 DEF Next, ApiPublish, ApiFails, Consume, Crash, Restart

\* A handler with a file in hand keeps it, passes it on, or is done with it.
LEMMA HandKeeps ==
  ASSUME CountedOnce, CInv, Next, NEW h \in ctx, Step(h) \/ Error(h),
         h.role \in FileRoles, h.pc \in Open(h.role), NEW f, f = File(h)
  PROVE  Safe(f)'
<1>0. /\ TypeInv /\ Stage(h) /\ h.role \in Roles /\ h.id \in DOMAIN streams[h.role].log
      /\ h \in Handlers /\ f \in Files /\ FileOf(h.role, h.id) = f /\ h.pc \in Pcs(h.role)
      /\ Fits(streams, h)
  <2>1. TypeInv /\ Stage(h)
    BY EveryStage DEF CInv
  <2> QED
    BY <2>1, ContentsTyped, MessageTyped DEF FileRoles, FileOf, File, Msg, TypeInv, Shape
<1>a. ASSUME AtIn(streams', ctx', h.role, h.id, Open(h.role)) PROVE Safe(f)'
  <2>1. h.id \in DOMAIN streams'[h.role].log /\ FileOf(h.role, h.id)' = f
    BY <1>0, Entries DEF Kept, FileOf
  <2>2. PICK r \in FileRoles, i \in DOMAIN streams[h.role].log : r = h.role /\ i = h.id
    BY <1>0
  <2> QED
    BY <1>a, <2>1, <2>2 DEF Safe, InHand, At, FileOf
<1>b. ASSUME NEW l \in Open(h.role), Becomes(h, l) PROVE Safe(f)'
  BY <1>0, <1>a, <1>b, StageAt
<1>s. ASSUME Stored(f) PROVE Safe(f)'
  BY <1>0, <1>s, StaysStored DEF Safe
<1>1. CASE Moves(h)
  <2>1. PICK l : <<h.pc, l>> \in Silent(h.role) /\ Becomes(h, l)
    BY <1>1 DEF Moves
  <2>2. CASE l \in Open(h.role)
    BY <1>b, <2>1, <2>2
  <2>3. CASE l \notin Open(h.role)
    <3>1. \/ h.role = "process" /\ h.pc = "examine"
          \/ h.role = "store" /\ h.pc = "count"
          \/ h.pc \in {"giveup", "retry"}
      BY <2>1, <2>3, <1>0 DEF Silent, Open, FileRoles, Pcs, EarlyPcs, LatePcs, ErrorPcs
    <3>2. CASE h.role = "store" /\ h.pc = "count"
      BY <1>s, <3>2 DEF CInv, StoredOK
    <3>3. CASE h.pc \in {"giveup", "retry"}
      <4>1. DeadLetter(h) \/ Republish(h)
        BY <3>3 DEF Step, Error, FetchStep, ProcessStep, StoreStep,
           ErrorPath, FetchFails, ProcessFails, StoreFails, StoreAbandon, FetchLoad,
           FetchMark, FetchRefresh, FetchFiles, FetchNothing, InitProgress, SetTotal,
           PublishFile, CountFetched, FetchCommit, ProcessLoad, ProcessMark, ProcessSkip,
           ProcessFile, CountProcessed, ProcessCheck, ProcessCommit, ProcessAck,
           ProcessPublish, StoreLoad, StoreExamine, StoreVectors, StoreMeta, StoreCommit,
           StoreAck, CountStored, StoreCheck, StoreFinish, MarkFailed, Close
      <4>2. CASE DeadLetter(h)
        <5>1. [role |-> h.role, msg |-> Msg(h)] \in dead'
          BY <4>2 DEF DeadLetter
        <5>2. \E d \in dead' : d.msg.file = f
          BY <5>1 DEF File
        <5> QED
          BY <5>2 DEF Safe
      <4>3. CASE Republish(h)
        <5> DEFINE m == Message(File(h), Msg(h).retries + 1)
        <5>1. m \in Messages /\ m.file = f
          BY <1>0, MessageTyped DEF Messages, Message
        <5> HIDE DEF m
        <5>2. streams' = Publish(streams, h.role, m)
          BY <4>3 DEF Republish, m
        <5>3. InHand(f)'
          <6>1. PICK g \in Files : g = f
            BY <1>0
          <6> QED
            BY <1>0, <5>1, <5>2, PublishedInHand
        <5> QED
          BY <5>3 DEF Safe
      <4> QED
        BY <4>1, <4>2, <4>3
    <3>4. CASE h.role = "process" /\ h.pc = "examine"
      <4>1. ProcessSkip(h) \/ ProcessFile(h) \/ ProcessFails(h)
        BY <3>4 DEF Step, Error, FetchStep, ProcessStep, StoreStep,
           ErrorPath, FetchFails, StoreFails, StoreAbandon, FetchLoad,
           FetchMark, FetchRefresh, FetchFiles, FetchNothing, InitProgress, SetTotal,
           PublishFile, CountFetched, FetchCommit, ProcessLoad, ProcessMark,
           CountProcessed, ProcessCheck, ProcessCommit, ProcessAck,
           ProcessPublish, StoreLoad, StoreExamine, StoreVectors, StoreMeta, StoreCommit,
           StoreAck, CountStored, StoreCheck, StoreFinish, MarkFailed, Republish,
           DeadLetter, Close
      <4>2. CASE ProcessFile(h)
        <5> DEFINE g == [h EXCEPT !.pc = "count"]
        <5>1. g \in Handlers /\ g.role = h.role /\ g.id = h.id /\ g.pc = "count"
          BY <1>0, PcsAre DEF Handlers
        <5>2. Becomes(h, "count")
          BY <4>2, <5>1, BecomesBy DEF ProcessFile, Goto
        <5> QED
          BY <1>b, <3>4, <5>2 DEF Open, Pcs, EarlyPcs
      <4>3. CASE ProcessFails(h)
        <5>1. PICK k \in {"error", "quota"} : Becomes(h, k)
          BY <1>0, <4>3, FailsBecomes DEF ProcessFails
        <5> QED
          BY <1>b, <3>4, <5>1 DEF Open, Pcs, ErrorPcs
      <4>4. CASE ProcessSkip(h)
        <5>1. Skippable(h)
          BY <4>4 DEF ProcessSkip
        <5>2. CASE repoStatus = "completed"
          <6>1. Complete
            BY <5>2 DEF CInv, DoneOK
          <6>2. AtIn(streams, ctx, h.role, h.id, OpenIn(h.role, NoErrors))
            BY <1>0, <3>4, StageAt DEF OpenIn, Open
          <6>3. HasToken(f)
            BY <1>0, <6>2 DEF HasToken, Token, At
          <6>4. f \in Published
            BY <1>0, <3>4, PublishedAre DEF FilesIn
          <6> QED
            BY <6>1, <6>3, <6>4 DEF Complete
        <5>3. CASE meta[f] = "completed"
          BY <1>0, <1>s, <5>3 DEF CInv, StoredOK, Stored
        <5>4. CASE f \in Chunkless
          BY <5>4 DEF Safe
        <5> QED
          BY <5>1, <5>2, <5>3, <5>4 DEF Skippable
      <4> QED
        BY <4>1, <4>2, <4>3, <4>4
    <3> QED
      BY <3>1, <3>2, <3>3, <3>4
  <2> QED
    BY <2>2, <2>3
<1>2. CASE Stumbles(h)
  BY <1>2, <1>b DEF Stumbles, Open, Pcs, ErrorPcs
<1>3. CASE Abandons(h)
  <2>1. h.id \in streams'[h.role].pel
    BY <1>0, <1>3 DEF Abandons, Fits, EarlyPcs
  <2> QED
    BY <1>0, <1>3, <1>a, <2>1, StageAt DEF Abandons
<1>4. CASE EndsQuietly(h)
  BY <1>4 DEF EndsQuietly, Open
<1>5. CASE Acknowledges(h)
  BY <1>5, <1>b DEF Acknowledges, Open, Pcs, LatePcs
<1>6. CASE Announces(h)
  BY <1>6 DEF Announces, PublishFile, FileRoles
<1>7. CASE HandsOver(h)
  <2>1. Message(f, 0) \in Messages /\ Message(f, 0).file = f /\ "store" \in FileRoles
    BY <1>0 DEF Messages, Message, FileRoles
  <2>2. InHand(f)'
    BY <1>0, <1>7, <2>1, PublishedInHand DEF HandsOver
  <2> QED
    BY <2>2 DEF Safe
<1>8. CASE Retries(h)
  <2> DEFINE m == Message(File(h), Msg(h).retries + 1)
  <2>1. m \in Messages /\ m.file = f
    BY <1>0, MessageTyped DEF Messages, Message
  <2> HIDE DEF m
  <2>2. streams' = Publish(streams, h.role, m)
    BY <1>8 DEF Retries, m
  <2>3. InHand(f)'
    BY <1>0, <2>1, <2>2, PublishedInHand
  <2> QED
    BY <2>3 DEF Safe
<1> QED
  BY <1>0, <1>1, <1>2, <1>3, <1>4, <1>5, <1>6, <1>7, <1>8 DEF Stage

\* Crashes are not undone.
LEMMA CrashesStay ==
  ASSUME CountedOnce, TypeInv, FaultsOK, Next, faults'.crash = 0
  PROVE  faults.crash = 0 /\ \A r \in Roles : ~Crash(r) /\ ~Restart(r)
<1>0. FaultsTyped
  BY DEF TypeInv, RowsOK, FaultsTyped
<1>1. ASSUME NEW r \in Roles PROVE ~Crash(r)
  <2>1. ASSUME Crash(r) PROVE FALSE
    <3>1. faults'.crash > 0
      BY <1>0, <2>1, CrashIs
    <3> QED
      BY <3>1
  <2> QED
    BY <2>1
<1>2. ASSUME UNCHANGED faults PROVE faults.crash = 0
  BY <1>2
<1>3. ASSUME \E p : Raises(p) PROVE faults.crash = 0
  BY <1>0, <1>3, ErrorIs
<1>4. ASSUME NEW h \in ctx, Step(h) \/ Error(h) PROVE faults.crash = 0
  <2>1. Stage(h)
    BY <1>4, EveryStage
  <2> QED
    BY <1>2, <1>3, <2>1 DEF Stage, Moves, Stumbles, Abandons, EndsQuietly, Acknowledges,
       Announces, PublishFile, HandsOver, Retries
<1>5. faults.crash = 0
  BY <1>1, <1>2, <1>3, <1>4 DEF Next, ApiPublish, ApiFails, Consume, Restart
<1>6. up = Roles
  BY <1>5 DEF FaultsOK
<1> QED
  BY <1>1, <1>5, <1>6 DEF Restart

\* A published file stays safe, whoever takes the next step.
LEMMA LostStep ==
  ASSUME CountedOnce, CInv, LostOK, Next
  PROVE  LostOK'
<1>0. TypeInv /\ FaultsOK /\ FetchOK
  BY DEF CInv
<1>1. SUFFICES ASSUME faults'.crash = 0, NEW f \in Published'
               PROVE  Safe(f)'
  BY DEF LostOK
<1>2. faults.crash = 0 /\ \A r \in Roles : ~Crash(r) /\ ~Restart(r)
  BY <1>0, <1>1, CrashesStay
<1>3. CASE f \notin Published
  <2>1. PICK h \in ctx : PublishFile(h)
    BY <1>0, <1>3, FilesStep
  <2>2. PICK g \in h.todo : /\ Published' = Published \cup {g}
                            /\ streams' = Publish(streams, "process", Message(g, 0))
    BY <1>0, <2>1, PublishFileIs
  <2>3. f = g /\ f \in Files /\ "process" \in FileRoles
    BY <1>0, <1>3, <2>2, ContentsTyped DEF FileRoles
  <2>4. Message(f, 0) \in Messages /\ Message(f, 0).file = f
    BY <2>3 DEF Message, Messages
  <2>5. InHand(f)'
    <3>1. PICK m \in Messages : m = Message(f, 0)
      BY <2>4
    <3>2. m.file = f /\ m.file \in Files /\ streams' = Publish(streams, "process", m)
      BY <2>2, <2>3, <2>4, <3>1
    <3>3. InHand(m.file)'
      BY <1>0, <2>3, <3>2, PublishedInHand
    <3>4. PICK e : e = m.file
      OBVIOUS
    <3> QED
      BY <3>2, <3>3, <3>4
  <2> QED
    BY <2>5 DEF Safe
<1>4. CASE f \in Published
  <2>1. PICK e \in Files : e = f
    <3>1. PICK i \in DOMAIN streams["process"].log : f = streams["process"].log[i].file
      BY <1>4 DEF Published
    <3> QED
      BY <1>0, <3>1 DEF TypeInv, Shape, StreamsFit, Roles
  <2> SUFFICES Safe(e)'
    BY <2>1
  <2>2. Safe(e)
    BY <1>2, <1>4, <2>1 DEF LostOK
  <2>3. CASE Stored(e)
    BY <1>0, <2>3, StaysStored DEF Safe
  <2>4. CASE e \in Chunkless
    BY <2>4 DEF Safe
  <2>5. CASE \E d \in dead : d.msg.file = e
    BY <2>5, DeadStays DEF Safe
  <2>6. CASE InHand(e)
    <3>1. PICK r \in FileRoles :
            \E i \in DOMAIN streams[r].log : At(r, i, Open(r)) /\ FileOf(r, i) = e
      BY <2>6 DEF InHand
    <3>2. PICK i \in DOMAIN streams[r].log : At(r, i, Open(r)) /\ FileOf(r, i) = e
      BY <3>1
    <3>3. r \in Roles /\ "queued" \in Open(r)
      BY DEF FileRoles, Roles, Open, Pcs, EarlyPcs
    <3>4. i \in DOMAIN streams'[r].log /\ FileOf(r, i)' = e
      BY <1>0, <3>2, <3>3, Entries DEF Kept, FileOf
    <3>5. ASSUME AtIn(streams', ctx', r, i, Open(r)) PROVE Safe(e)'
      BY <3>4, <3>5 DEF Safe, InHand, At
    <3>6. ASSUME NEW q \in Roles, ApiPublish \/ ApiFails \/ Consume(q) PROVE Safe(e)'
      <4>1. AtIn(streams', ctx', r, i, Open(r)) <=> AtIn(streams, ctx, r, i, Open(r))
        BY <1>0, <3>3, <3>6, QuietAt
      <4> QED
        BY <3>2, <3>5, <4>1 DEF At
    <3>7. ASSUME NEW h \in ctx, Step(h) \/ Error(h) PROVE Safe(e)'
      <4>1. Stage(h)
        BY <1>0, <3>7, EveryStage
      <4>2. CASE r = h.role /\ i = h.id
        <5>1. h.pc \in Open(h.role)
          BY <1>0, <3>2, <4>1, <4>2, StageAt DEF At
        <5>2. e = File(h)
          BY <3>2, <4>2 DEF FileOf, File, Msg
        <5> QED
          BY <3>7, <4>2, <5>1, <5>2, HandKeeps
      <4>3. CASE r # h.role \/ i # h.id
        <5>1. AtIn(streams', ctx', r, i, Open(r)) <=> AtIn(streams, ctx, r, i, Open(r))
          BY <1>0, <3>3, <4>1, <4>3, StageAt
        <5> QED
          BY <3>2, <3>5, <5>1 DEF At
      <4> QED
        BY <4>2, <4>3
    <3> QED
      BY <1>2, <3>6, <3>7 DEF Next, Roles
  <2> QED
    BY <2>1, <2>2, <2>3, <2>4, <2>5, <2>6 DEF Safe
<1> QED
  BY <1>3, <1>4

\* Every published file is safe in every run without a crash.
LEMMA LostInvariant == CountedOnce => (Spec => [](CInv /\ LostOK))
<1>1. CountedOnce /\ Init => LostOK
  <2> SUFFICES ASSUME Init PROVE Published = {}
    BY DEF LostOK
  <2>1. DOMAIN streams.process.log = {}
    BY DEF Init, EmptyStream, Roles
  <2> QED
    BY <2>1 DEF Published
<1>2. CountedOnce /\ CInv /\ LostOK /\ [Next]_vars => LostOK'
  <2> SUFFICES ASSUME LostOK, UNCHANGED vars PROVE LostOK'
    BY LostStep
  <2>1. UNCHANGED <<meta, vectors, streams, ctx, faults, dead>>
    BY DEF vars, rows
  <2>2. Published' = Published
    BY <2>1 DEF Published
  <2>3. \A f : Safe(f)' = Safe(f)
    BY <2>1 DEF Safe, Stored, InHand, At, FileOf
  <2> QED
    BY <2>1, <2>2, <2>3 DEF LostOK
<1> SUFFICES ASSUME CountedOnce PROVE Spec => [](CInv /\ LostOK)
  OBVIOUS
<1>3. Init => LostOK
  BY <1>1
<1>4. CInv /\ LostOK /\ [Next]_vars => LostOK'
  BY <1>2
<1> QED
  BY <1>3, <1>4, CompletionInvariant, PTL DEF Spec

\* As long as no process dies, no published file is lost on its way through
\* file:process and file:store, whatever raises, and however often: it is
\* stored, given up, or still in hand.
THEOREM NothingIsLost == CountedOnce => (Spec => []NoFileLost)
<1> SUFFICES ASSUME CountedOnce PROVE Spec => []NoFileLost
  OBVIOUS
<1>1. CInv /\ LostOK => NoFileLost
  <2> SUFFICES ASSUME CInv, LostOK, faults.crash = 0, NEW f \in Published, InHand(f)
               PROVE  \E r \in {"process", "store"} :
                        \/ \E i \in Pending(r) : streams[r].log[i].file = f
                        \/ \E h \in Of(r) : File(h) = f
    BY DEF LostOK, Safe, NoFileLost, CInv, TypeInv, RowsOK
  <2>1. PICK r \in FileRoles :
          \E i \in DOMAIN streams[r].log : At(r, i, Open(r)) /\ FileOf(r, i) = f
    BY DEF InHand
  <2>2. PICK i \in DOMAIN streams[r].log : At(r, i, Open(r)) /\ FileOf(r, i) = f
    BY <2>1
  <2>3. i \in Pending(r) \/ \E h \in ctx : h.role = r /\ h.id = i
    BY <2>2 DEF At, AtIn, Pending, Undelivered
  <2>4. CASE i \in Pending(r)
    BY <2>2, <2>4 DEF FileOf, FileRoles
  <2>5. ASSUME NEW h \in ctx, h.role = r, h.id = i
        PROVE  h \in Of(r) /\ File(h) = f
    BY <2>2, <2>5 DEF Of, File, Msg, FileOf
  <2> QED
    BY <2>3, <2>4, <2>5 DEF FileRoles
<1> QED
  BY <1>1, LostInvariant, PTL

-----------------------------------------------------------------------------
(* The counters of the processed and the stored files.                     *)

\* The process worker publishes each file it has counted.
NoRecount == CrashRoles = {} /\ "publish_store" \notin ErrorPoints

\* The files that are counted as processed, or were: at least those that are
\* past the counter, at most those no message has before it.
PastCount == {"check", "commit", "ack", "publish"}
Passed ==
  FilesIn("store") \cup
  {File(h) : h \in {k \in ctx : k.role = "process" /\ k.pc \in PastCount}}
Unprocessed == ErrorPcs \cup {"queued", "mark", "examine", "count"}
Counted ==
  {f \in Published : \A i \in DOMAIN streams["process"].log :
     FileOf("process", i) = f => ~At("process", i, Unprocessed)}

PassedOK == Cardinality(Passed) <= progress.processed
CountedOK == progress.processed <= Cardinality(Counted)

\* The counter goes up by one, or the fetch resets it.
LEMMA ProcessedCount ==
  ASSUME TypeInv, Next
  PROVE  \/ progress'.processed = progress.processed /\ \A h \in ctx : ~CountProcessed(h)
         \/ \E h \in ctx : InitProgress(h) /\ progress'.processed = 0
         \/ \E h \in ctx : CountProcessed(h) /\ progress'.processed = progress.processed + 1
<1>0. progress \in [total : Nat, fetched : Nat, processed : Nat, stored : Nat]
  BY DEF TypeInv, RowsOK
<1>1. ASSUME NEW h \in ctx, FetchStep(h)
      PROVE  progress'.processed = progress.processed \/ (InitProgress(h) /\ progress'.processed = 0)
  <2>1. CASE CountFetched(h)
    BY <1>0, <2>1 DEF CountFetched
  <2>2. CASE InitProgress(h)
    BY <2>2 DEF InitProgress, NoProgress
  <2> QED
    BY <1>1, <2>1, <2>2 DEF FetchStep, FetchLoad, FetchMark, FetchRefresh, FetchFiles,
       FetchNothing, SetTotal, PublishFile, FetchCommit
<1>2. ASSUME NEW h \in ctx, StoreStep(h) PROVE progress'.processed = progress.processed
  <2>1. CASE CountStored(h)
    BY <1>0, <2>1 DEF CountStored
  <2> QED
    BY <1>2, <2>1 DEF StoreStep, StoreLoad, StoreExamine, StoreVectors, StoreMeta,
       StoreCommit, StoreAck, StoreCheck, StoreFinish
<1>3. ASSUME NEW h \in ctx, ProcessStep(h), ~CountProcessed(h)
      PROVE  progress'.processed = progress.processed
  BY <1>3 DEF ProcessStep, ProcessLoad, ProcessMark, ProcessSkip, ProcessFile,
     ProcessCheck, ProcessCommit, ProcessAck, ProcessPublish
<1>4. ASSUME NEW h \in ctx, CountProcessed(h)
      PROVE  progress'.processed = progress.processed + 1
  BY <1>0, <1>4 DEF CountProcessed
<1>5. ASSUME NEW h \in ctx, ErrorPath(h) \/ Error(h)
      PROVE  progress'.processed = progress.processed
  BY <1>5 DEF ErrorPath, MarkFailed, Republish, DeadLetter, Close, Error, FetchFails,
     ProcessFails, StoreFails, StoreAbandon, Fails
<1>6. ASSUME \/ ApiPublish \/ ApiFails
             \/ \E r \in Roles : Consume(r) \/ Crash(r) \/ Restart(r)
      PROVE  progress'.processed = progress.processed
  BY <1>6 DEF ApiPublish, ApiFails, Consume, Crash, Restart
<1>7. progress.processed # progress.processed + 1
  BY <1>0
<1>8. CASE \E h \in ctx : CountProcessed(h)
  BY <1>4, <1>8
<1>9. CASE \A h \in ctx : ~CountProcessed(h)
  BY <1>1, <1>2, <1>3, <1>5, <1>6, <1>9 DEF Next, Step
<1> QED
  BY <1>8, <1>9

\* The only step from the counter on.
LEMMA CountsProcessed ==
  ASSUME NEW h, Step(h) \/ Error(h), h.role = "process", h.pc = "count"
  PROVE  CountProcessed(h)
BY DEF Step, Error, FetchStep, ProcessStep, StoreStep, ErrorPath, FetchFails,
   ProcessFails, StoreFails, StoreAbandon, FetchLoad, FetchMark, FetchRefresh,
   FetchFiles, FetchNothing, InitProgress, SetTotal, PublishFile, CountFetched,
   FetchCommit, ProcessLoad, ProcessMark, ProcessSkip, ProcessFile, ProcessCheck,
   ProcessCommit, ProcessAck, ProcessPublish, StoreLoad, StoreExamine, StoreVectors,
   StoreMeta, StoreCommit, StoreAck, CountStored, StoreCheck, StoreFinish, MarkFailed,
   Republish, DeadLetter, Close

\* A file passes the counter by being counted.
LEMMA PassedStep ==
  ASSUME TypeInv, FetchOK, Next, NEW f \in Passed'
  PROVE  f \in Passed \/ \E h \in ctx : CountProcessed(h) /\ f = File(h)
<1>0. Kept /\ "store" \in Roles
  BY Entries DEF Roles
<1>1. CASE f \in FilesIn("store")'
  <2>1. CASE \A r \in Roles : DOMAIN streams'[r].log = DOMAIN streams[r].log
    BY <1>0, <1>1, <2>1, SameFiles DEF Passed
  <2>2. ASSUME NEW q \in Roles, NEW n \in Nat, NEW m \in Messages, Fresh(q, n, m), Source(q, m)
        PROVE  f \in Passed
    <3>1. f \in FilesIn("store") \/ (q = "store" /\ f = m.file)
      <4>1. FilesIn("store")' = IF "store" = q THEN FilesIn("store") \cup {m.file}
                                               ELSE FilesIn("store")
        BY <1>0, <2>2, FreshFiles
      <4> QED
        BY <1>1, <4>1
    <3>2. ASSUME NEW h \in ctx, HandsOver(h), m.file = File(h) PROVE m.file \in Passed
      BY <3>2 DEF HandsOver, Passed, PastCount
    <3>3. ASSUME NEW h \in ctx, h.role = "store", m.file = File(h) PROVE m.file \in Passed
      <4>1. File(h) \in FilesIn(h.role)
        BY MessageTyped DEF FilesIn, FileOf, File, Msg
      <4> QED
        BY <3>3, <4>1 DEF Passed
    <3> QED
      BY <2>2, <3>1, <3>2, <3>3 DEF Source, Passed
  <2> QED
    BY <2>1, <2>2, Entries
<1>2. CASE f \notin FilesIn("store")'
  <2>1. PICK k \in ctx' : k.role = "process" /\ k.pc \in PastCount /\ f = File(k)'
    BY <1>2 DEF Passed
  <2>2. CASE k \in ctx
    BY <2>1, <2>2, FileStays DEF Passed
  <2>3. ASSUME NEW h \in ctx, Step(h) \/ Error(h), Stage(h), Became(h, k)
        PROVE  f \in Passed \/ (CountProcessed(h) /\ f = File(h))
    <3>1. h.role = "process" /\ f = File(h) /\ ctx' # ctx \ {h}
          /\ \A l : Becomes(h, l) => l \in PastCount
      BY <2>1, <2>3, FileStays DEF Became
    <3>2. h.pc \in PastCount \cup {"count"}
      BY <2>3, <3>1 DEF Stage, Moves, Silent, PastCount, Stumbles, Abandons, EndsQuietly,
         Acknowledges, Announces, PublishFile, HandsOver, Retries
    <3>3. CASE h.pc = "count"
      BY <2>3, <3>1, <3>3, CountsProcessed
    <3>4. CASE h.pc \in PastCount
      BY <3>1, <3>4 DEF Passed
    <3> QED
      BY <3>2, <3>3, <3>4
  <2> QED
    BY <2>1, <2>2, <2>3, CtxStep DEF PastCount
<1> QED
  BY <1>1, <1>2

\* What has passed the counter was published.
LEMMA PassedArePublished ==
  ASSUME TypeInv, FilesIn("store") \subseteq Published
  PROVE  Passed \subseteq Published /\ Published \subseteq Files
<1>1. ASSUME NEW h \in ctx, h.role = "process" PROVE File(h) \in Published
  <2>1. File(h) \in FilesIn(h.role)
    BY MessageTyped DEF FilesIn, FileOf, File, Msg
  <2> QED
    BY <1>1, <2>1, PublishedAre
<1>2. Published \subseteq Files
  BY DEF Published, TypeInv, Shape, StreamsFit, Roles
<1> QED
  BY <1>1, <1>2 DEF Passed

\* Sets of published files are finite.
LEMMA FewFiles ==
  ASSUME NEW A, NEW B, B \subseteq Files, A \subseteq B
  PROVE  /\ IsFiniteSet(A) /\ IsFiniteSet(B)
         /\ Cardinality(A) \in Nat /\ Cardinality(B) \in Nat
         /\ Cardinality(A) <= Cardinality(B)
<1>1. IsFiniteSet(B)
  BY FilesAssumption, FS_Subset
<1> QED
  BY <1>1, FS_Subset, FS_CardinalityType

\* One more file makes the set of those that passed at most one larger.
LEMMA PassedKeeps ==
  ASSUME TypeInv, FetchOK, PassedOK, Next
  PROVE  PassedOK'
<1>1. /\ Passed \subseteq Published /\ Published \subseteq Files
      /\ Passed' \subseteq Published
  <2>1. Passed \subseteq Published /\ Published \subseteq Files
    BY PassedArePublished DEF FetchOK
  <2>2. ASSUME NEW h \in ctx, CountProcessed(h) PROVE File(h) \in Published
    <3>1. File(h) \in FilesIn(h.role)
      BY MessageTyped DEF FilesIn, FileOf, File, Msg
    <3> QED
      BY <2>2, <3>1, PublishedAre DEF CountProcessed
  <2> QED
    BY <2>1, <2>2, PassedStep
<1>2. PICK A, B : A = Passed /\ B = Passed'
  OBVIOUS
<1>3. /\ IsFiniteSet(A) /\ Cardinality(A) \in Nat /\ A \subseteq Files
      /\ IsFiniteSet(B) /\ Cardinality(B) \in Nat
  BY <1>1, <1>2, FewFiles
<1>4. progress.processed \in Nat /\ Cardinality(A) <= progress.processed
  BY <1>2 DEF TypeInv, RowsOK, PassedOK
<1>s. SUFFICES Cardinality(B) <= progress'.processed
  BY <1>2 DEF PassedOK
<1>5. CASE progress'.processed = progress.processed /\ \A h \in ctx : ~CountProcessed(h)
  <2>1. B \subseteq A
    BY <1>2, <1>5, PassedStep
  <2>2. Cardinality(B) <= Cardinality(A)
    BY <1>3, <2>1, FS_Subset
  <2> QED
    BY <1>3, <1>4, <1>5, <2>2
<1>6. ASSUME NEW h \in ctx, InitProgress(h), progress'.processed = 0
      PROVE  Cardinality(B) <= progress'.processed
  <2>1. Published = {}
    BY <1>6, NotStarted DEF InitProgress, Starting
  <2>2. B = {}
    BY <1>1, <1>2, <2>1
  <2> QED
    BY <1>6, <2>2, FS_EmptySet
<1>7. ASSUME NEW h \in ctx, CountProcessed(h), progress'.processed = progress.processed + 1
      PROVE  Cardinality(B) <= progress'.processed
  <2>1. PICK f : f = File(h)
    OBVIOUS
  <2>2. B \subseteq A \cup {f}
    <3>1. ASSUME NEW k \in ctx, CountProcessed(k) PROVE k = h
      <4>1. /\ h.role = "process" /\ h.pc = "count" /\ h \in Handlers
            /\ k.role = "process" /\ k.pc = "count" /\ k \in Handlers
        BY <1>7, <3>1, ContentsTyped DEF CountProcessed
      <4>2. PICK g, j : /\ g = [h EXCEPT !.pc = "check"] /\ ctx' = (ctx \ {h}) \cup {g}
                        /\ j = [k EXCEPT !.pc = "check"] /\ ctx' = (ctx \ {k}) \cup {j}
        BY <1>7, <3>1 DEF CountProcessed, Goto, Become
      <4>3. g.pc = "check" /\ j.pc = "check"
        BY <4>1, <4>2 DEF Handlers
      <4> QED
        BY <4>1, <4>2, <4>3
    <3> QED
      BY <1>2, <2>1, <3>1, PassedStep
  <2>3. IsFiniteSet(A \cup {f}) /\ Cardinality(A \cup {f}) \in Nat
        /\ Cardinality(A \cup {f}) <= Cardinality(A) + 1
    <3>1. IsFiniteSet(A \cup {f})
      BY <1>3, FS_AddElement
    <3>2. CASE f \in A
      <4>1. A \cup {f} = A
        BY <3>2
      <4>2. Cardinality(A \cup {f}) = Cardinality(A)
        BY <4>1, Zenon
      <4> QED
        BY <1>3, <3>1, <4>2
    <3>3. CASE f \notin A
      <4>1. Cardinality(A \cup {f}) = Cardinality(A) + 1
        BY <1>3, <3>3, FS_AddElement
      <4> QED
        BY <1>3, <3>1, <4>1
    <3> QED
      BY <3>2, <3>3
  <2>4. Cardinality(B) <= Cardinality(A \cup {f})
    BY <2>2, <2>3, FS_Subset
  <2> QED
    BY <1>3, <1>4, <1>7, <2>3, <2>4
<1> QED
  BY <1>5, <1>6, <1>7, ProcessedCount

\* Without a crash, and where Redis takes the file:store messages, no file
\* gets back before the counter.
LEMMA UnprocessedDown ==
  ASSUME CountedOnce, NoRecount, TypeInv, FaultsOK, Next,
         NEW i \in DOMAIN streams["process"].log, At("process", i, Unprocessed)'
  PROVE  At("process", i, Unprocessed)
<1>1. Closed("process", Unprocessed, Unprocessed)
  <2>1. \A k, l : <<k, l>> \in Silent("process") /\ l \in Unprocessed => k \in Unprocessed
    BY DEF Silent, Unprocessed, ErrorPcs
  <2>2. \A k, p : <<k, p>> \in Raising("process") /\ p \in ErrorPoints => k \in Unprocessed
    BY DEF Raising, CountedOnce, NoRecount, Unprocessed
  <2> QED
    BY <2>1, <2>2 DEF Closed, Unprocessed, ErrorPcs
<1>2. AtIn(streams', ctx', "process", i, Unprocessed) /\ "process" \in Roles
  BY DEF At, Roles
<1>3. AtIn(streams, ctx, "process", i, Unprocessed)
  BY <1>1, <1>2, Down DEF NoRecount
<1> QED
  BY <1>3 DEF At

\* A counted file stays so.
LEMMA CountedGrows ==
  ASSUME CountedOnce, NoRecount, TypeInv, FaultsOK, FetchOK, Next
  PROVE  Counted \subseteq Counted'
<1> SUFFICES ASSUME NEW f \in Counted, NEW i \in DOMAIN streams'["process"].log,
                    FileOf("process", i)' = f, At("process", i, Unprocessed)'
             PROVE  FALSE
  BY FilesStep DEF Counted
<1>0. /\ f \in Published /\ "process" \in Roles /\ Kept
      /\ \A j \in DOMAIN streams["process"].log :
           FileOf("process", j) = f => ~At("process", j, Unprocessed)
  BY Entries DEF Counted, Roles
<1>1. CASE i \in DOMAIN streams["process"].log
  <2>1. FileOf("process", i) = f
    BY <1>0, <1>1 DEF Kept, FileOf
  <2> QED
    BY <1>0, <1>1, <2>1, UnprocessedDown
<1>2. CASE i \notin DOMAIN streams["process"].log
  <2>1. PICK q \in Roles, n \in Nat, m \in Messages : Fresh(q, n, m) /\ Source(q, m)
    BY <1>0, <1>2, Entries
  <2>2. q = "process" /\ n = i
    BY <1>0, <1>2, <2>1 DEF Fresh
  <2>3. m.file = f
    BY <2>1, <2>2 DEF Fresh, FileOf
  <2>4. ASSUME NEW h \in ctx, Announces(h), m.file \in h.todo PROVE FALSE
    BY <1>0, <2>3, <2>4 DEF Announces, PublishFile, FetchOK, FetchRight
  <2>5. ASSUME NEW h \in ctx, Retries(h), h.role = "process", m.file = File(h) PROVE FALSE
    <3>1. h.id \in DOMAIN streams["process"].log /\ FileOf("process", h.id) = f
      <4>1. h.id \in DOMAIN streams[h.role].log
        BY MessageTyped
      <4> QED
        BY <2>3, <2>5, <4>1 DEF FileOf, File, Msg
    <3>2. AtIn(streams, ctx, h.role, h.id, Unprocessed)
      BY <2>5, OwnAt DEF Retries, Unprocessed, ErrorPcs, TypeInv
    <3> QED
      BY <1>0, <2>5, <3>1, <3>2 DEF At
  <2> QED
    BY <2>1, <2>2, <2>4, <2>5 DEF Source
<1> QED
  BY <1>1, <1>2

\* Each file is counted as processed at most once.
LEMMA CountedKeeps ==
  ASSUME CountedOnce, NoRecount, TypeInv, FaultsOK, FetchOK, OneToken, CountedOK, Next
  PROVE  CountedOK'
<1>1. Counted \subseteq Counted' /\ Counted' \subseteq Files
  <2>1. Published' \subseteq Files
    <3>1. Published \subseteq Files
      BY PassedArePublished DEF FetchOK
    <3>2. \A h \in ctx : h.todo \subseteq Files
      BY ContentsTyped
    <3> QED
      BY <3>1, <3>2, FilesStep
  <2> QED
    BY <2>1, CountedGrows DEF Counted
<1>2. PICK A, B : A = Counted /\ B = Counted'
  OBVIOUS
<1>3. /\ IsFiniteSet(A) /\ IsFiniteSet(B) /\ A \subseteq B
      /\ Cardinality(A) \in Nat /\ Cardinality(B) \in Nat
      /\ Cardinality(A) <= Cardinality(B)
  BY <1>1, <1>2, FewFiles
<1>4. progress.processed \in Nat /\ progress.processed <= Cardinality(A)
  BY <1>2 DEF TypeInv, RowsOK, CountedOK
<1>s. SUFFICES progress'.processed <= Cardinality(B)
  BY <1>2 DEF CountedOK
<1>5. ASSUME NEW h \in ctx, CountProcessed(h), progress'.processed = progress.processed + 1
      PROVE  progress'.processed <= Cardinality(B)
  <2>0. /\ h.role = "process" /\ h.pc = "count" /\ streams' = streams
        /\ h.id \in DOMAIN streams["process"].log /\ FileOf("process", h.id) = File(h)
        /\ "process" \in FileRoles /\ "process" \in Roles /\ h \in Handlers
        /\ Published' = Published
    <3>1. h.id \in DOMAIN streams[h.role].log /\ h \in Handlers
      BY MessageTyped, ContentsTyped
    <3> QED
      BY <1>5, <3>1 DEF CountProcessed, FileOf, File, Msg, FileRoles, Roles, Published
  <2>1. PICK f : f = File(h)
    OBVIOUS
  <2>2. f \notin A
    <3>1. AtIn(streams, ctx, h.role, h.id, Unprocessed)
      BY <2>0, OwnAt DEF Unprocessed, TypeInv
    <3> QED
      BY <1>2, <2>0, <2>1, <3>1 DEF Counted, At
  <2>3. ~AtIn(streams', ctx', "process", h.id, Unprocessed)
    <3>1. PICK g : g.role = h.role /\ g.id = h.id /\ g.pc = "check"
                   /\ ctx' = (ctx \ {h}) \cup {g}
      BY <1>5, <2>0 DEF CountProcessed, Goto, Become, Handlers
    <3>2. After(streams, streams, h.role, h.id)
      BY SameAfter DEF TypeInv, Shape
    <3>3. AtIn(streams, (ctx \ {h}) \cup {g}, h.role, h.id, Unprocessed) <=> g.pc \in Unprocessed
      BY <2>0, <3>1, <3>2, MoveAt DEF TypeInv
    <3> QED
      BY <2>0, <3>1, <3>3 DEF Unprocessed, ErrorPcs
  <2>4. f \in B
    <3>1. f \in Published
      BY <2>0, <2>1, PublishedAre DEF FilesIn
    <3>2. ASSUME NEW i \in DOMAIN streams["process"].log, FileOf("process", i) = f,
                 AtIn(streams', ctx', "process", i, Unprocessed)
          PROVE  FALSE
      <4>1. i # h.id
        BY <2>3, <3>2
      <4>2. At("process", i, Unprocessed)
        BY <2>0, <3>2, UnprocessedDown DEF At
      <4>3. \A W : AtIn(streams, ctx, "process", i, Unprocessed) /\ Unprocessed \subseteq W
                   => AtIn(streams, ctx, "process", i, W)
        BY DEF AtIn
      <4>4. Unprocessed \subseteq OpenIn("process", NoErrors)
        BY DEF Unprocessed, OpenIn, Open, Pcs, EarlyPcs, ErrorPcs
      <4>5. Token("process", i)
        BY <4>2, <4>3, <4>4 DEF Token, At
      <4>6. Token("process", h.id)
        <5>1. AtIn(streams, ctx, h.role, h.id, OpenIn("process", NoErrors))
          BY <2>0, <4>4, OwnAt DEF Unprocessed, TypeInv
        <5> QED
          BY <2>0, <5>1 DEF Token, At
      <4> QED
        BY <2>0, <2>1, <3>2, <4>1, <4>5, <4>6 DEF OneToken
    <3> QED
      BY <1>2, <2>0, <3>1, <3>2 DEF Counted, FileOf, At
  <2>5. Cardinality(A) + 1 <= Cardinality(B)
    <3>1. Cardinality(A \cup {f}) = Cardinality(A) + 1
      BY <1>3, <2>2, FS_AddElement
    <3>2. A \cup {f} \subseteq B
      BY <1>3, <2>4
    <3>3. Cardinality(A \cup {f}) <= Cardinality(B)
      BY <1>3, <3>2, FS_Subset
    <3> QED
      BY <3>1, <3>3
  <2> QED
    BY <1>3, <1>4, <1>5, <2>5
<1>6. CASE progress'.processed = progress.processed
  BY <1>3, <1>4, <1>6
<1>7. CASE progress'.processed = 0
  BY <1>3, <1>7
<1> QED
  BY <1>5, <1>6, <1>7, ProcessedCount

\* What is published is no more than the total, and the row shows the total.
LEMMA TotalIs ==
  ASSUME TypeInv, FetchOK, Published # {}
  PROVE  jobTotal = progress.total /\ Cardinality(Published) <= progress.total
<1>0. Published \subseteq Files
  BY PassedArePublished DEF FetchOK
<1>1. ASSUME NEW h \in ctx, h.role = "fetch", h.pc = "publish"
      PROVE  jobTotal = progress.total /\ Cardinality(Published) <= progress.total
  <2>1. /\ progress.total = Cardinality(Published \cup h.todo) /\ jobTotal = progress.total
        /\ h.todo \subseteq Files
    BY <1>1, ContentsTyped DEF FetchOK, FetchRight
  <2>2. Cardinality(Published) <= Cardinality(Published \cup h.todo)
    BY <1>0, <2>1, FewFiles
  <2> QED
    BY <2>1, <2>2
<1>2. CASE Publishing
  BY <1>1, <1>2 DEF Publishing
<1>3. CASE ~Publishing
  <2>1. progress.total = Cardinality(Published) /\ jobTotal = progress.total
    BY <1>3 DEF FetchOK
  <2> QED
    BY <1>0, <2>1, FewFiles
<1> QED
  BY <1>2, <1>3

\* The counters follow one another.
LEMMA CountersFollow ==
  ASSUME CInv, PassedOK, CountedOK
  PROVE  CountersOrdered
<1>0. /\ progress.stored \in Nat /\ progress.processed \in Nat /\ progress.total \in Nat
      /\ TypeInv /\ FetchOK /\ CountsOK
  BY DEF CInv, TypeInv, RowsOK
<1>1. Passed \subseteq Published /\ Published \subseteq Files
  BY <1>0, PassedArePublished DEF FetchOK
<1>2. PICK D, P, C, A : /\ D = Delivered /\ P = Passed /\ C = Counted
                        /\ A = {f \in Files : Stored(f)}
  OBVIOUS
<1>3. D \subseteq P /\ D \subseteq A /\ C \subseteq Published /\ P \subseteq Files /\ A \subseteq Files
  BY <1>1, <1>2 DEF Delivered, Passed, Counted
<1>4. /\ Cardinality(D) \in Nat /\ Cardinality(P) \in Nat /\ Cardinality(A) \in Nat
      /\ Cardinality(D) <= Cardinality(P) /\ Cardinality(D) <= Cardinality(A)
      /\ Cardinality(C) \in Nat
  <2>1. Cardinality(D) <= Cardinality(P) /\ Cardinality(D) \in Nat /\ Cardinality(P) \in Nat
    BY <1>3, FewFiles
  <2>2. Cardinality(D) <= Cardinality(A) /\ Cardinality(A) \in Nat
    BY <1>3, FewFiles
  <2>3. Cardinality(C) \in Nat
    BY <1>1, <1>3, FewFiles
  <2> QED
    BY <2>1, <2>2, <2>3
<1>5. /\ progress.stored <= Cardinality(D) /\ Cardinality(P) <= progress.processed
      /\ progress.processed <= Cardinality(C)
  BY <1>0, <1>2 DEF CountsOK, PassedOK, CountedOK
<1>6. Cardinality(C) <= progress.total
  <2>1. CASE Published = {}
    <3>1. C = {}
      BY <1>3, <2>1
    <3> QED
      BY <1>0, <3>1, FS_EmptySet
  <2>2. CASE Published # {}
    <3>1. Cardinality(Published) <= progress.total
      BY <1>0, <2>2, TotalIs
    <3>2. Cardinality(C) <= Cardinality(Published) /\ Cardinality(Published) \in Nat
      BY <1>1, <1>3, FewFiles
    <3> QED
      BY <1>0, <1>4, <3>1, <3>2
  <2> QED
    BY <2>1, <2>2
<1>7. /\ progress.stored <= Cardinality(A) /\ progress.stored <= progress.processed
      /\ progress.processed <= progress.total
  BY <1>0, <1>4, <1>5, <1>6
<1> QED
  BY <1>2, <1>7 DEF CountersOrdered

-----------------------------------------------------------------------------
(* What the row of a completed job shows.                                  *)

\* The fetch writes its statuses over what it has loaded, and nobody else
\* writes the status of the repository before it publishes.
SeesOK ==
  \A h \in ctx : h.role = "fetch" =>
    /\ h.pc = "mark" => h.repo = repoStatus
    /\ h.pc = "refresh" => repoStatus = "fetching"
    /\ h.pc \in {"list", "reset", "total", "publish", "commit"} => h.repo = "fetching"

AllShown(c) == c.processed = jobTotal /\ c.stored = jobTotal
ShownOK ==
  /\ repoStatus = "completed" => AllShown(jobShown)
  /\ \A h \in ctx : h.role = "store" /\ h.pc = "finish" => AllShown(h.snap)

\* How a fetch comes to its steps.
LEMMA FetchBecame ==
  ASSUME TypeInv, Next, NEW k \in ctx', k \notin ctx, k.role = "fetch",
         k.pc \in {"mark", "refresh", "list", "reset", "total", "publish", "commit"}
  PROVE  \E h \in ctx : FetchStep(h)
<1>1. PICK h \in ctx : (Step(h) \/ Error(h)) /\ Stage(h) /\ Became(h, k)
  BY CtxStep
<1>2. /\ h.role = "fetch" /\ ctx' # ctx \ {h}
      /\ \A l : Becomes(h, l) => l = k.pc
  BY <1>1 DEF Became
<1>3. ~ErrorPath(h) /\ ~Error(h)
  <2>1. ASSUME Error(h) PROVE FALSE
    <3>1. \E l \in {"error", "quota"} : Becomes(h, l)
      BY <1>2, <2>1, FailsBecomes DEF Error, FetchFails, ProcessFails, StoreFails, StoreAbandon
    <3> QED
      BY <1>2, <3>1
  <2>2. ASSUME ErrorPath(h) PROVE FALSE
    <3>1. h.pc \in ErrorPcs \cup {"close"}
      BY <2>2 DEF ErrorPath, MarkFailed, Republish, DeadLetter, Close, ErrorPcs
    <3> QED
      BY <1>1, <1>2, <3>1 DEF Stage, Moves, Silent, Stumbles, Raising, Abandons, EndsQuietly,
         Acknowledges, Announces, PublishFile, HandsOver, Retries, ErrorPcs
  <2> QED
    BY <2>1, <2>2
<1> QED
  BY <1>1, <1>2, <1>3 DEF Step, ProcessStep, StoreStep, ProcessLoad, ProcessMark,
     ProcessSkip, ProcessFile, CountProcessed, ProcessCheck, ProcessCommit, ProcessAck,
     ProcessPublish, StoreLoad, StoreExamine, StoreVectors, StoreMeta, StoreCommit,
     StoreAck, CountStored, StoreCheck, StoreFinish

\* Until it publishes, the status of the repository is the fetch's.
LEMMA FetchAlone ==
  ASSUME TypeInv, FetchOK, OneToken, Next, NEW k \in ctx, k \in ctx', k.role = "fetch",
         k.pc \in {"mark", "refresh"}
  PROVE  repoStatus' = repoStatus
<1>0. Published = {}
  BY NotStarted DEF Starting
<1>1. ASSUME NEW h \in ctx, h.role \in FileRoles PROVE FALSE
  <2>1. File(h) \in FilesIn(h.role) /\ FilesIn("store") \subseteq Published
    BY MessageTyped DEF FilesIn, FileOf, File, Msg, FetchOK
  <2> QED
    BY <1>0, <1>1, <2>1, PublishedAre DEF FileRoles
<1>2. ASSUME NEW h \in ctx, h.role = "fetch", h # k PROVE h.pc = "close"
  BY <1>2, OnlyFetch
<1>3. ASSUME NEW h \in ctx, Error(h) PROVE repoStatus' = repoStatus
  BY <1>3 DEF Error, FetchFails, ProcessFails, StoreFails, StoreAbandon, Fails, rows
<1>4. ASSUME NEW h \in ctx, Step(h), h # k PROVE repoStatus' = repoStatus
  <2>1. h.role = "fetch" /\ h.pc = "close"
    BY <1>1, <1>2, <1>4, ContentsTyped DEF Roles, FileRoles
  <2> QED
    BY <1>4, <2>1 DEF Step, FetchStep, ProcessStep, StoreStep, ErrorPath,
     FetchLoad, FetchMark, FetchRefresh, FetchFiles, FetchNothing, InitProgress,
     SetTotal, PublishFile, CountFetched, FetchCommit, ProcessLoad, ProcessMark,
     ProcessSkip, ProcessFile, CountProcessed, ProcessCheck, ProcessCommit, ProcessAck,
     ProcessPublish, StoreLoad, StoreExamine, StoreVectors, StoreMeta, StoreCommit,
     StoreAck, CountStored, StoreCheck, StoreFinish, MarkFailed, Republish, DeadLetter,
     Close, rows
<1>5. ASSUME Step(k) PROVE repoStatus' = repoStatus
  <2>1. FetchMark(k) \/ FetchRefresh(k)
    BY <1>5 DEF Step, FetchStep, ProcessStep, StoreStep, ErrorPath,
     FetchLoad, FetchFiles, FetchNothing, InitProgress,
     SetTotal, PublishFile, CountFetched, FetchCommit, ProcessLoad, ProcessMark,
     ProcessSkip, ProcessFile, CountProcessed, ProcessCheck, ProcessCommit, ProcessAck,
     ProcessPublish, StoreLoad, StoreExamine, StoreVectors, StoreMeta, StoreCommit,
     StoreAck, CountStored, StoreCheck, StoreFinish, MarkFailed, Republish, DeadLetter,
     Close
  <2>2. k \in Handlers
    BY ContentsTyped
  <2>3. ASSUME FetchMark(k) PROVE FALSE
    <3>1. PICK g : /\ ctx' = (ctx \ {k}) \cup {g}
                   /\ g = [k EXCEPT !.pc = "refresh", !.repo = Unloaded, !.job = Unloaded]
      BY <2>3 DEF FetchMark, Become
    <3>2. k.pc = "mark" /\ g.pc = "refresh"
      BY <2>2, <2>3, <3>1 DEF Handlers, FetchMark
    <3> QED
      BY <3>1, <3>2
  <2> QED
    BY <2>1, <2>3 DEF FetchRefresh, rows
<1> QED
  BY <1>3, <1>4, <1>5 DEF Next, ApiPublish, ApiFails, Consume, Crash, Restart, rows

\* What a fetch has loaded stays what it wrote.
LEMMA SeesStep ==
  ASSUME TypeInv, FetchOK, OneToken, SeesOK, Next
  PROVE  SeesOK'
<1> DEFINE Sees(k) ==
      /\ k.pc = "mark" => k.repo = repoStatus'
      /\ k.pc = "refresh" => repoStatus' = "fetching"
      /\ k.pc \in {"list", "reset", "total", "publish", "commit"} => k.repo = "fetching"
<1> SUFFICES ASSUME NEW k \in ctx', k.role = "fetch" PROVE Sees(k)
  BY DEF SeesOK
<1>1. CASE k \in ctx
  <2>1. k.pc \in {"mark", "refresh"} => repoStatus' = repoStatus
    BY <1>1, FetchAlone
  <2> QED
    BY <1>1, <2>1 DEF SeesOK
<1>2. ASSUME k \notin ctx, NEW h \in ctx, FetchStep(h) PROVE Sees(k)
  <2>0. h \in Handlers /\ h.role = "fetch"
    BY <1>2, ContentsTyped DEF FetchStep, FetchLoad, FetchMark, FetchRefresh, FetchFiles,
       FetchNothing, InitProgress, SetTotal, PublishFile, CountFetched, FetchCommit
  <2>a. ASSUME NEW g, ctx' = (ctx \ {h}) \cup {g} PROVE k = g
    BY <1>2, <2>a
  <2>1. CASE FetchLoad(h)
    <3>1. PICK g : /\ g = [h EXCEPT !.pc = "mark", !.repo = repoStatus, !.job = jobStatus]
                   /\ ctx' = (ctx \ {h}) \cup {g}
      BY <2>1 DEF FetchLoad, Load, Become
    <3>2. g.pc = "mark" /\ g.repo = repoStatus /\ repoStatus' = repoStatus
      BY <2>0, <2>1, <3>1 DEF Handlers, FetchLoad, rows
    <3> QED
      BY <2>a, <3>1, <3>2
  <2>2. CASE FetchMark(h)
    <3>1. PICK g : /\ g = [h EXCEPT !.pc = "refresh", !.repo = Unloaded, !.job = Unloaded]
                   /\ ctx' = (ctx \ {h}) \cup {g}
      BY <2>2 DEF FetchMark, Become
    <3>2. g.pc = "refresh" /\ repoStatus' = "fetching"
      BY <2>0, <2>2, <3>1 DEF Handlers, FetchMark, Written, SeesOK
    <3> QED
      BY <2>a, <3>1, <3>2
  <2>3. CASE FetchRefresh(h)
    <3>1. PICK g : /\ g = [h EXCEPT !.pc = "list", !.repo = repoStatus, !.job = jobStatus]
                   /\ ctx' = (ctx \ {h}) \cup {g}
      BY <2>3 DEF FetchRefresh, Load, Become
    <3>2. g.pc = "list" /\ g.repo = "fetching"
      BY <2>0, <2>3, <3>1 DEF Handlers, FetchRefresh, SeesOK
    <3> QED
      BY <2>a, <3>1, <3>2
  <2>4. CASE FetchFiles(h)
    <3>1. PICK fs : Become(h, [h EXCEPT !.pc = "reset", !.todo = fs, !.job = Unloaded])
      BY <2>4 DEF FetchFiles
    <3>2. PICK g : /\ g = [h EXCEPT !.pc = "reset", !.todo = fs, !.job = Unloaded]
                   /\ ctx' = (ctx \ {h}) \cup {g}
      BY <3>1 DEF Become
    <3>3. g.pc = "reset" /\ g.repo = "fetching"
      BY <2>0, <2>4, <3>2 DEF Handlers, FetchFiles, SeesOK
    <3> QED
      BY <2>a, <3>2, <3>3
  <2>5. CASE FetchNothing(h)
    <3>1. PICK g : /\ g = [h EXCEPT !.pc = "close", !.repo = Unloaded, !.job = Unloaded]
                   /\ ctx' = (ctx \ {h}) \cup {g}
      BY <2>5 DEF FetchNothing, Become
    <3>2. g.pc = "close"
      BY <2>0, <3>1 DEF Handlers
    <3> QED
      BY <2>a, <3>1, <3>2
  <2>6. ASSUME NEW l \in {"total", "publish"}, Goto(h, l), h.pc \in {"reset", "total"}
        PROVE  Sees(k)
    <3>1. PICK g : g = [h EXCEPT !.pc = l] /\ ctx' = (ctx \ {h}) \cup {g}
      BY <2>6 DEF Goto, Become
    <3>2. g.pc = l /\ g.repo = "fetching"
      BY <2>0, <2>6, <3>1 DEF Handlers, SeesOK
    <3> QED
      BY <2>6, <2>a, <3>1, <3>2
  <2>7. CASE PublishFile(h)
    <3>1. PICK f : Become(h, [h EXCEPT !.todo = @ \ {f}])
      BY <2>7 DEF PublishFile
    <3>2. PICK g : g = [h EXCEPT !.todo = h.todo \ {f}] /\ ctx' = (ctx \ {h}) \cup {g}
      BY <2>0, <3>1 DEF Become, Handlers
    <3>3. g.pc = "publish" /\ g.repo = "fetching"
      BY <2>0, <2>7, <3>2 DEF Handlers, PublishFile, SeesOK
    <3> QED
      BY <2>a, <3>2, <3>3
  <2>8. CASE CountFetched(h)
    <3>1. PICK g : /\ g = [h EXCEPT !.pc = "commit", !.snap = Counts(progress')]
                   /\ ctx' = (ctx \ {h}) \cup {g}
      BY <2>8 DEF CountFetched, Become
    <3>2. g.pc = "commit" /\ g.repo = "fetching"
      BY <2>0, <2>8, <3>1 DEF Handlers, CountFetched, SeesOK
    <3> QED
      BY <2>a, <3>1, <3>2
  <2>9. CASE FetchCommit(h)
    <3>1. PICK g : /\ g = [h EXCEPT !.pc = "close", !.snap = NoCounts, !.repo = Unloaded]
                   /\ ctx' = (ctx \ {h}) \cup {g}
      BY <2>9 DEF FetchCommit, Become
    <3>2. g.pc = "close"
      BY <2>0, <3>1 DEF Handlers
    <3> QED
      BY <2>a, <3>1, <3>2
  <2>10. InitProgress(h) \/ SetTotal(h) => Sees(k)
    BY <2>6 DEF InitProgress, SetTotal
  <2> QED
    BY <1>2, <2>1, <2>2, <2>3, <2>4, <2>5, <2>7, <2>8, <2>9, <2>10 DEF FetchStep
<1>3. CASE k \notin ctx /\ k.pc \notin {"mark", "refresh", "list", "reset", "total",
                                        "publish", "commit"}
  BY <1>3
<1> QED
  BY <1>1, <1>2, <1>3, FetchBecame

\* Where the job is complete, the counters agree.
LEMMA CountersAgree ==
  ASSUME CInv, PassedOK, CountedOK, Published # {}, progress.stored >= progress.total
  PROVE  progress.stored = jobTotal /\ progress.processed = jobTotal
<1>1. /\ progress.stored \in Nat /\ progress.processed \in Nat /\ progress.total \in Nat
      /\ jobTotal = progress.total
  BY TotalIs DEF CInv, TypeInv, RowsOK
<1>2. progress.stored <= progress.processed /\ progress.processed <= progress.total
  BY CountersFollow DEF CountersOrdered
<1> QED
  BY <1>1, <1>2

\* Who writes the counters of the row.
LEMMA ShownBy ==
  ASSUME Next
  PROVE  jobShown' = jobShown \/ \E h \in ctx : FetchCommit(h) \/ ProcessCommit(h) \/ StoreFinish(h)
<1>1. ASSUME NEW h \in ctx, Step(h), ~FetchCommit(h), ~ProcessCommit(h), ~StoreFinish(h)
      PROVE  jobShown' = jobShown
  BY <1>1 DEF Step, FetchStep, ProcessStep, StoreStep, ErrorPath,
     FetchLoad, FetchMark, FetchRefresh, FetchFiles, FetchNothing, InitProgress,
     SetTotal, PublishFile, CountFetched, ProcessLoad, ProcessMark,
     ProcessSkip, ProcessFile, CountProcessed, ProcessCheck, ProcessAck,
     ProcessPublish, StoreLoad, StoreExamine, StoreVectors, StoreMeta, StoreCommit,
     StoreAck, CountStored, StoreCheck, MarkFailed, Republish, DeadLetter, Close, rows
<1>2. ASSUME NEW h \in ctx, Error(h) PROVE jobShown' = jobShown
  BY <1>2 DEF Error, FetchFails, ProcessFails, StoreFails, StoreAbandon, Fails, rows
<1> QED
  BY <1>1, <1>2 DEF Next, ApiPublish, ApiFails, Consume, Crash, Restart, rows

\* The row of a completed job keeps showing its total.
LEMMA ShownStep ==
  ASSUME CountedOnce, CInv, PassedOK, CountedOK, SeesOK, ShownOK, Next
  PROVE  ShownOK'
<1>0. TypeInv /\ FetchOK /\ OneToken /\ FaultsOK /\ DoneOK /\ CountsOK
  BY DEF CInv
<1>1. ASSUME Complete PROVE jobTotal' = jobTotal
  <2>1. ASSUME NEW h \in ctx PROVE ~InitProgress(h) /\ ~SetTotal(h)
    BY <1>0, <1>1, NotStarted DEF InitProgress, SetTotal, Starting, Complete
  <2> QED
    BY <1>0, <2>1, TotalsStep
<1>2. ASSUME repoStatus' = "completed" PROVE AllShown(jobShown)'
  <2>1. repoStatus = "completed" \/ \E h \in ctx : StoreFinish(h)
    BY <1>2, StatusStep
  <2>2. Complete /\ jobTotal' = jobTotal
    BY <1>0, <1>1, <2>1 DEF DoneOK, Finishing, StoreFinish
  <2>3. ASSUME NEW h \in ctx, StoreFinish(h) PROVE AllShown(jobShown)'
    BY <2>2, <2>3 DEF StoreFinish, ShownOK, AllShown
  <2>4. ASSUME NEW h \in ctx, FetchCommit(h) PROVE FALSE
    BY <1>2, <2>4 DEF FetchCommit, Written, SeesOK
  <2>5. ASSUME NEW h \in ctx, ProcessCommit(h) PROVE FALSE
    <3>1. h.role = "process" /\ h.id \in DOMAIN streams[h.role].log
          /\ h.pc \in OpenIn(h.role, NoErrors) /\ "process" \in FileRoles
      BY <1>0, <2>5, MessageTyped DEF ProcessCommit, OpenIn, Open, Pcs, EarlyPcs, FileRoles
    <3>2. AtIn(streams, ctx, h.role, h.id, OpenIn(h.role, NoErrors))
      BY <1>0, <3>1, OwnAt DEF TypeInv
    <3>3. HasToken(File(h))
      BY <3>1, <3>2 DEF HasToken, Token, At, FileOf, File, Msg
    <3>4. File(h) \in Published
      BY <3>1, PublishedAre DEF FilesIn, FileOf, File, Msg
    <3> QED
      BY <2>2, <3>3, <3>4 DEF Complete
  <2>6. CASE repoStatus = "completed" /\ jobShown' = jobShown
    BY <2>2, <2>6 DEF ShownOK, AllShown
  <2> QED
    BY <2>1, <2>3, <2>4, <2>5, <2>6, ShownBy
<1>3. ASSUME NEW k \in ctx', k.role = "store", k.pc = "finish" PROVE AllShown(k.snap)'
  <2>1. CASE k \in ctx
    <3>1. Complete
      BY <1>0, <1>3, <2>1 DEF DoneOK, Finishing
    <3> QED
      BY <1>1, <1>3, <2>1, <3>1 DEF ShownOK, AllShown
  <2>2. CASE k \notin ctx
    <3>1. /\ Published # {} /\ progress.stored >= progress.total
          /\ k.snap = Counts(progress)
      BY <1>0, <1>3, <2>2, FinishIs
    <3>2. Complete
      BY <1>0, <3>1, CountedAll
    <3>3. progress.stored = jobTotal /\ progress.processed = jobTotal /\ jobTotal' = jobTotal
      BY <1>1, <3>1, <3>2, CountersAgree
    <3> QED
      BY <3>1, <3>3 DEF AllShown, Counts
  <2> QED
    BY <2>1, <2>2
<1> QED
  BY <1>2, <1>3 DEF ShownOK

\* Nothing has passed at first.
LEMMA PassedInit ==
  ASSUME Init PROVE PassedOK
<1>1. /\ \A r \in Roles : DOMAIN streams[r].log = {}
      /\ ctx = {} /\ progress = NoProgress
  BY DEF Init, EmptyStream
<1>2. FilesIn("store") = {}
  BY <1>1 DEF FilesIn, Roles
<1>3. Passed = {}
  BY <1>1, <1>2 DEF Passed
<1> QED
  BY <1>1, <1>3, FS_EmptySet DEF PassedOK, NoProgress

CountersInv == CInv /\ PassedOK /\ CountedOK /\ SeesOK /\ ShownOK

\* It holds where no file is counted twice as processed either.
LEMMA CountersInvariant == CountedOnce /\ NoRecount => (Spec => []CountersInv)
<1> SUFFICES ASSUME CountedOnce, NoRecount PROVE Spec => []CountersInv
  OBVIOUS
<1>1. Init => CountersInv
  <2> SUFFICES ASSUME Init PROVE PassedOK /\ CountedOK /\ SeesOK /\ ShownOK
    BY CompletionInit DEF CountersInv
  <2>1. /\ \A r \in Roles : DOMAIN streams[r].log = {}
        /\ ctx = {} /\ progress = NoProgress /\ repoStatus = "queued"
    BY DEF Init, EmptyStream
  <2>2. Published = {} /\ FilesIn("store") = {}
    BY <2>1 DEF Published, FilesIn, Roles
  <2>3. Passed = {} /\ Counted = {}
    BY <2>1, <2>2 DEF Passed, Counted
  <2> QED
    BY <2>1, <2>3, FS_EmptySet DEF PassedOK, CountedOK, SeesOK, ShownOK, NoProgress
<1>2. CountersInv /\ [Next]_vars => CountersInv'
  <2> SUFFICES ASSUME CountersInv, [Next]_vars PROVE CountersInv'
    OBVIOUS
  <2>1. CInv'
    BY CompletionStep DEF CountersInv
  <2>2. CASE Next
    <3>1. PassedOK' /\ CountedOK'
      BY <2>2, PassedKeeps, CountedKeeps DEF CountersInv, CInv
    <3>2. SeesOK' /\ ShownOK'
      BY <2>2, SeesStep, ShownStep DEF CountersInv, CInv
    <3> QED
      BY <2>1, <3>1, <3>2 DEF CountersInv
  <2>3. CASE UNCHANGED vars
    <3>1. UNCHANGED <<repoStatus, jobTotal, jobShown, progress, streams, ctx>>
      BY <2>3 DEF vars, rows
    <3>2. Published' = Published /\ FilesIn("store")' = FilesIn("store")
          /\ \A h : File(h)' = File(h)
      BY <3>1 DEF Published, FilesIn, FileOf, File, Msg
    <3>3. Passed' = Passed
      BY <3>1, <3>2 DEF Passed
    <3>4. Counted' = Counted
      BY <3>1, <3>2 DEF Counted, FileOf, At
    <3>5. PassedOK' /\ CountedOK'
      BY <3>1, <3>3, <3>4 DEF CountersInv, PassedOK, CountedOK
    <3>6. SeesOK' /\ ShownOK'
      BY <3>1 DEF CountersInv, SeesOK, ShownOK, AllShown
    <3> QED
      BY <2>1, <3>5, <3>6 DEF CountersInv
  <2> QED
    BY <2>2, <2>3
<1> QED
  BY <1>1, <1>2, PTL DEF Spec

\* The counters follow one another down the pipeline: none shows a file before
\* it got there, and none counts a file twice, in any interleaving of any
\* number of files and whatever raises before the counters.
THEOREM CountersInOrder == CountedOnce /\ NoRecount => (Spec => []CountersOrdered)
<1> SUFFICES ASSUME CountedOnce, NoRecount PROVE Spec => []CountersOrdered
  OBVIOUS
<1>1. CountersInv => CountersOrdered
  BY CountersFollow DEF CountersInv
<1> QED
  BY <1>1, CountersInvariant, PTL

\* The row of a completed job shows every file as processed and stored,
\* whichever worker wrote the counters it had read last.
THEOREM FinalCountersRight == CountedOnce /\ NoRecount => (Spec => []FinalCountersShown)
<1> SUFFICES ASSUME CountedOnce, NoRecount PROVE Spec => []FinalCountersShown
  OBVIOUS
<1>1. CountersInv => FinalCountersShown
  BY DEF CountersInv, ShownOK, AllShown, FinalCountersShown
<1> QED
  BY <1>1, CountersInvariant, PTL
-----------------------------------------------------------------------------
(* A client that follows the job.                                          *)

\* What was, or is about to be, told of a completed job.
FollowOK ==
  /\ follower = "completed" => Complete
  /\ follower = "ended" /\ told.status = "completed" => told.percent >= 67
  /\ follower \in Final => told.status = follower
  /\ follower = "following" => told.status = "none"
  /\ told = [status |-> told.status, percent |-> told.percent]

\* A share of two thirds, in whole numbers.
LEMMA TwoThirds ==
  ASSUME NEW n \in Nat, NEW t \in Nat \ {0}, n >= 67 * t
  PROVE  n \div t >= 67
<1> DEFINE q == n \div t
           r == n % t
<1>1. q \in Int /\ r \in 0 .. (t - 1) /\ n = t * q + r
  OBVIOUS
<1> HIDE DEF q, r
<1>2. t * 67 < t * (q + 1)
  <2>1. t * (q + 1) = t * q + t
    BY <1>1
  <2> QED
    BY <1>1, <2>1
<1>3. 67 < q + 1
  BY <1>1, <1>2
<1> QED
  BY <1>1, <1>3 DEF q

\* A complete job has counted all it has as processed and as stored.
LEMMA CompleteCounts ==
  ASSUME CInv, PassedOK, Complete
  PROVE  Percent(progress, progress.total) >= 67
<1>0. /\ progress \in [total : Nat, fetched : Nat, processed : Nat, stored : Nat]
      /\ TypeInv /\ FetchOK /\ CountsOK /\ IsFiniteSet(Files) /\ Published # {}
      /\ progress.stored >= progress.total
  BY FilesAssumption DEF CInv, TypeInv, RowsOK, Complete
<1>1. Passed \subseteq Files /\ Delivered \subseteq Passed /\ Published \subseteq Files
  BY <1>0, PassedArePublished DEF FetchOK, Delivered, Passed
<1>2. Cardinality(Delivered) <= Cardinality(Passed) /\ Cardinality(Delivered) \in Nat
      /\ Cardinality(Passed) \in Nat
  BY <1>1, FewFiles
<1>3. progress.processed >= progress.total
  BY <1>0, <1>2 DEF CountsOK, PassedOK
<1>4. progress.total \in Nat \ {0}
  <2>1. Cardinality(Published) \in Nat \ {0}
    BY <1>0, <1>1, FS_Subset, FS_CardinalityType, FS_EmptySet
  <2> QED
    BY <1>0, <2>1, TotalIs
<1> DEFINE n == 33 * progress.fetched + 33 * progress.processed + 34 * progress.stored
<1>5. n \in Nat /\ n >= 67 * progress.total
  BY <1>0, <1>3, <1>4
<1> HIDE DEF n
<1>6. n \div progress.total >= 67
  BY <1>4, <1>5, TwoThirds
<1> QED
  BY <1>0, <1>4, <1>6 DEF Percent, n

FollowInv == CInv /\ PassedOK /\ FollowOK

\* Beside the follower the pipeline runs as alone, and a follower that read
\* "completed" reads the counters of a complete job.
LEMMA FollowInvariant == CountedOnce => (FollowSpec => []FollowInv)
<1> SUFFICES ASSUME CountedOnce PROVE FollowSpec => []FollowInv
  OBVIOUS
<1>1. FollowInit => FollowInv
  <2> SUFFICES ASSUME FollowInit PROVE PassedOK /\ FollowOK
    BY CompletionInit DEF FollowInit, FollowInv
  <2>1. FollowOK
    BY DEF FollowInit, FollowOK, Final
  <2> QED
    BY <2>1, PassedInit DEF FollowInit
<1>2. FollowInv /\ [FollowNext]_following => FollowInv'
  <2> SUFFICES ASSUME FollowInv, [FollowNext]_following
               PROVE  FollowInv'
    OBVIOUS
  <2>1. [Next]_vars
    BY DEF FollowNext, PollStatus, PollProgress, Leave, following
  <2>2. CInv' /\ PassedOK'
    <3>1. CInv'
      BY <2>1, CompletionStep DEF FollowInv
    <3>2. CASE Next
      BY <3>1, <3>2, PassedKeeps DEF FollowInv, CInv
    <3>3. CASE UNCHANGED vars
      <4>1. UNCHANGED <<progress, streams, ctx>>
        BY <3>3 DEF vars, rows
      <4>2. Passed' = Passed
        BY <4>1 DEF Passed, FilesIn, FileOf, File, Msg
      <4> QED
        BY <3>1, <4>1, <4>2 DEF FollowInv, PassedOK
    <3> QED
      BY <2>1, <3>2, <3>3
  <2>3. Complete => Complete'
    <3>1. CASE Next
      BY <3>1, CompleteStep DEF CInv, FollowInv
    <3>2. CASE UNCHANGED vars
      <4>1. UNCHANGED <<meta, progress, vectors, streams, ctx, faults>>
        BY <3>2 DEF vars, rows
      <4>2. Published' = Published
        BY <4>1 DEF Published
      <4>3. \A f : HasToken(f)' = HasToken(f) /\ Stored(f)' = Stored(f)
        BY <4>1 DEF HasToken, Stored, Token, At, NoErrors, FileOf
      <4> QED
        BY <4>1, <4>2, <4>3 DEF Complete
    <3> QED
      BY <2>1, <3>1, <3>2
  <2>4. FollowOK'
    <3>1. CASE PollStatus
      <4>1. follower' = jobStatus /\ told'.status = jobStatus
            /\ told' = [status |-> told'.status, percent |-> told'.percent]
            /\ jobStatus \in Final
        BY <3>1 DEF PollStatus
      <4>2. follower' = "completed" => Complete'
        BY <2>3, <4>1 DEF FollowInv, CInv, DoneOK
      <4> QED
        BY <4>1, <4>2 DEF FollowOK, Final
    <3>2. CASE PollProgress
      <4>1. follower = "completed" => Percent(progress, progress.total) >= 67
        BY CompleteCounts DEF FollowInv, FollowOK
      <4>2. "progress" \notin ErrorPoints
        BY DEF CountedOnce
      <4>3. /\ follower \in Final /\ follower' = "ended"
            /\ told' = [told EXCEPT !.percent = Percent(progress, progress.total)]
        BY <3>2, <4>2 DEF PollProgress
      <4>4. told.status = follower /\ told = [status |-> told.status, percent |-> told.percent]
        BY <4>3 DEF FollowOK, FollowInv
      <4>5. told'.status = follower /\ told'.percent = Percent(progress, progress.total)
            /\ told' = [status |-> told'.status, percent |-> told'.percent]
        BY <4>3, <4>4
      <4> QED
        BY <4>1, <4>3, <4>5 DEF FollowOK, Final
    <3>3. CASE Leave
      BY <3>3 DEF Leave, FollowOK, FollowInv, Final
    <3>4. CASE UNCHANGED <<follower, told>>
      BY <2>3, <3>4 DEF FollowOK, FollowInv
    <3> QED
      BY <3>1, <3>2, <3>3, <3>4 DEF FollowNext, following
  <2> QED
    BY <2>2, <2>4 DEF FollowInv
<1> QED
  BY <1>1, <1>2, PTL DEF FollowSpec

\* Who is told "completed" is told of two thirds at least: every file is counted
\* as processed and as stored, although the status and the counters come from
\* two stores and workers write both in between.
THEOREM ToldIsWhole == CountedOnce => (FollowSpec => []LastUpdateWhole)
<1> SUFFICES ASSUME CountedOnce PROVE FollowSpec => []LastUpdateWhole
  OBVIOUS
<1>1. FollowInv => LastUpdateWhole
  BY DEF FollowInv, FollowOK, LastUpdateWhole
<1> QED
  BY <1>1, FollowInvariant, PTL
=============================================================================
