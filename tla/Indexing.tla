------------------------------ MODULE Indexing ------------------------------
(* Indexing the files of one repository: the process worker parses a file, *)
(* embeds its chunks and publishes them; store handlers, which run          *)
(* concurrently, make the Qdrant collection under a Redis lock, write the  *)
(* points in batches and add the chunks up in the repository's row.        *)
EXTENDS CodeParser

CONSTANTS
  Files,
  Sources,      \* file -> the syntax trees it may have
  EmbedBatch,   \* chunks in one call of the embedding service
  UpsertBatch,  \* points in one call of Qdrant
  MaxRetries,   \* MAX_RETRIES
  MaxFaults,    \* bound: calls that raise and crashes
  Nobody        \* the holder of a free lock

ASSUME IndexingAssumption ==
  /\ IsFiniteSet(Files) /\ Nobody \notin Files
  /\ EmbedBatch \in Nat \ {0} /\ UpsertBatch \in Nat \ {0}
  /\ MaxRetries \in Nat /\ MaxFaults \in Nat
ASSUME SourcesAssumption ==
  \A f \in Files : \A tree \in Sources[f] : IsTree(tree)

VARIABLES
  source,      \* file -> its tree
  pc,          \* file -> what its handler does next
  payload,     \* file -> the embedded chunks in its store message
  written,     \* file -> chunks the handler has written to Qdrant
  retries,     \* file -> retries of its message
  lock,        \* the holder of lock:repo
  collection,  \* "none", "bare" without the payload index, or "indexed"
  points,      \* file -> id -> the chunk of the point
  row,         \* file -> chunks_indexed of its file_metadata row
  summed,      \* file -> the total its open transaction has read
  total,       \* repos.chunks_indexed
  down,        \* the workers that have died and not been started again
  reclaimed,   \* files whose messages the process worker reclaimed at its start
  faults,
  joined,      \* the lock expired under its holder: history
  broken,      \* a call failed between the collection and its index: history
  overlapped   \* two transactions summed at the same time: history

state == <<source, payload, retries, down, reclaimed>>
qdrant == <<collection, points, written>>
counts == <<row, summed, total>>
history == <<joined, broken, overlapped>>
vars == <<state, pc, lock, qdrant, counts, faults, history>>

Goto(f, l) == pc' = [pc EXCEPT ![f] = l]
Vector(chunk) == <<"vector", chunk.at, chunk.code>>

-----------------------------------------------------------------------------
(* The process worker: one file at a time but for the reclaimed ones.      *)
(* A message is at "parse" or "lock" while it waits for a handler, and at  *)
(* "unparsed" or "unstored" while it is pending for no handler.            *)

\* Mutant: vectors are taken by the position in the file, not in the batch.
EmbeddedByFile(chunks) ==
  [i \in DOMAIN chunks |->
     LET answer == [j \in 1 .. EmbedBatch |->
                      IF j \in DOMAIN chunks
                      THEN Vector(chunks[j]) ELSE Nobody]
     IN  [chunk |-> chunks[i], vector |-> answer[((i - 1) % EmbedBatch) + 1]]]

\* embed_batch: the service answers a batch with its vectors in order, and the
\* j-th goes to the j-th chunk of that batch.
Embedded(chunks) ==
  [i \in DOMAIN chunks |->
     LET start == ((i - 1) \div EmbedBatch) * EmbedBatch
         answer == [j \in 1 .. EmbedBatch |->
                      IF start + j \in DOMAIN chunks
                      THEN Vector(chunks[start + j]) ELSE Nobody]
     IN  [chunk |-> chunks[i], vector |-> answer[i - start]]]

Parsing == {f \in Files : pc[f] \in {"count", "counted", "handover"}}

\* The reclaimed messages are handled at once, and the others after them.
MayProcess(f) ==
  /\ "process" \notin down
  /\ \/ f \in reclaimed
     \/ Parsing = {} /\ \A g \in reclaimed : pc[g] # "parse"

\* process_file: no strategy raises, no chunk skips the file.
Process(f) ==
  /\ pc[f] = "parse" /\ MayProcess(f)
  /\ source[f].lang \in Strategies
  /\ LET chunks == Chunks(source[f])
     IN  IF chunks = <<>>
         THEN Goto(f, "skipped") /\ UNCHANGED payload
         ELSE /\ payload' = [payload EXCEPT ![f] = Embedded(chunks)]
              /\ Goto(f, "count")
  /\ UNCHANGED <<source, retries, down, reclaimed, lock, qdrant, counts, faults,
                 history>>

-----------------------------------------------------------------------------
(* update_file_and_repo_chunks, called by the process and the store        *)
(* handler: the row is flushed and the sum read in one transaction, the    *)
(* total is written and committed at the end of it.                        *)

Chunked(f) == Len(payload[f])

\* The sum over the rows counts the pairs of a file and one of its chunks.
SumOf(r) == Cardinality(UNION {{f} \X (1 .. r[f]) : f \in Files})

\* Mutant: the sum is read before the row of the file is flushed.
SumUnflushed(f) == SumOf(row)

SumWith(f) == SumOf([row EXCEPT ![f] = Chunked(f)])

Sum(f) ==
  /\ pc[f] \in {"count", "recount"}
  /\ summed' = [summed EXCEPT ![f] = SumWith(f)]
  /\ overlapped' = (\/ overlapped
                    \/ \E g \in Files : pc[g] \in {"counted", "recounted"})
  /\ Goto(f, IF pc[f] = "count" THEN "counted" ELSE "recounted")
  /\ UNCHANGED <<state, lock, qdrant, row, total, faults, joined, broken>>

Commit(f) ==
  /\ pc[f] \in {"counted", "recounted"}
  /\ row' = [row EXCEPT ![f] = Chunked(f)]
  /\ total' = summed[f]
  /\ summed' = [summed EXCEPT ![f] = 0]
  /\ Goto(f, IF pc[f] = "counted" THEN "handover" ELSE "done")
  /\ UNCHANGED <<state, lock, qdrant, faults, history>>

\* The message is acknowledged; the store message starts without retries.
HandOver(f) ==
  /\ pc[f] = "handover"
  /\ retries' = [retries EXCEPT ![f] = 0]
  /\ Goto(f, "lock")
  /\ UNCHANGED <<source, payload, down, reclaimed, lock, qdrant, counts, faults,
                 history>>

-----------------------------------------------------------------------------
(* store_embeddings_batch.                                                 *)

\* Mutant: nobody waits for the lock.
AcquireNothing(f) ==
  /\ pc[f] = "lock" /\ "store" \notin down
  /\ lock' = f
  /\ Goto(f, "exists")
  /\ UNCHANGED <<state, qdrant, counts, faults, history>>

Acquire(f) ==
  /\ pc[f] = "lock" /\ "store" \notin down
  /\ lock = Nobody
  /\ lock' = f
  /\ Goto(f, "exists")
  /\ UNCHANGED <<state, qdrant, counts, faults, history>>

Inside(f) == pc[f] \in {"exists", "create", "index", "release"}

\* Mutant: the lock has no timeout.
ExpireNever == FALSE /\ UNCHANGED vars

\* The lock lives ten seconds, whatever its holder does.
Expire ==
  /\ lock # Nobody
  /\ lock' = Nobody
  /\ joined' = (joined \/ Inside(lock))
  /\ UNCHANGED <<state, pc, qdrant, counts, faults, broken, overlapped>>

Exists(f) ==
  /\ pc[f] = "exists"
  /\ Goto(f, IF collection = "none" THEN "create" ELSE "release")
  /\ UNCHANGED <<state, lock, qdrant, counts, faults, history>>

Create(f) ==
  /\ pc[f] = "create"
  /\ collection = "none"
  /\ collection' = "bare"
  /\ Goto(f, "index")
  /\ UNCHANGED <<state, lock, points, written, counts, faults, history>>

CreateIndex(f) ==
  /\ pc[f] = "index"
  /\ collection' = "indexed"
  /\ Goto(f, "release")
  /\ UNCHANGED <<state, lock, points, written, counts, faults, history>>

Release(f) ==
  /\ pc[f] = "release"
  /\ lock = f
  /\ lock' = Nobody
  /\ Goto(f, "upsert")
  /\ UNCHANGED <<state, qdrant, counts, faults, history>>

IdOf(f, i) == PointId(f, payload[f][i].chunk)

\* Mutant: only full batches are written.
UpsertFull(f) ==
  LET next == written[f] + UpsertBatch
  IN  /\ pc[f] = "upsert"
      /\ IF next > Chunked(f)
         THEN Goto(f, "recount") /\ UNCHANGED <<points, written>>
         ELSE /\ points' = [points EXCEPT ![f] =
                   [id \in {IdOf(f, i) : i \in 1 .. next} |->
                      payload[f][CHOOSE i \in 1 .. next : IdOf(f, i) = id].vector]]
              /\ written' = [written EXCEPT ![f] = next]
              /\ UNCHANGED pc
      /\ UNCHANGED <<state, lock, collection, counts, faults, history>>

\* A batch of points; a point with the same id is replaced.
Upsert(f) ==
  LET batch == (written[f] + 1 .. written[f] + UpsertBatch) \cap DOMAIN payload[f]
      ids   == {IdOf(f, i) : i \in batch}
      Newest(id) == CHOOSE i \in batch :
                      /\ IdOf(f, i) = id
                      /\ \A k \in batch : IdOf(f, k) = id => k <= i
  IN  /\ pc[f] = "upsert"
      /\ batch # {}
      /\ points' = [points EXCEPT ![f] =
           [id \in DOMAIN @ \cup ids |->
              IF id \in ids THEN payload[f][Newest(id)].vector ELSE @[id]]]
      /\ written' = [written EXCEPT ![f] = @ + Cardinality(batch)]
      /\ UNCHANGED <<state, pc, lock, collection, counts, faults, history>>

\* All batches are written: upsert_file_metadata, and on to the count.
Upserted(f) ==
  /\ pc[f] = "upsert"
  /\ written[f] = Chunked(f)
  /\ Goto(f, "recount")
  /\ UNCHANGED <<state, lock, qdrant, counts, faults, history>>

-----------------------------------------------------------------------------
(* Errors.                                                                 *)

Settled == {"done", "dead", "skipped", "lost", "unparsed", "unstored"}
ProcessStage == {"parse", "count", "counted", "handover"}
StoreStage == {"lock", "exists", "create", "index", "release", "upsert",
               "recount", "recounted"}

\* Mutant: a message is retried once too often.
AgainOnceMore(f) ==
  /\ summed' = [summed EXCEPT ![f] = 0]
  /\ written' = [written EXCEPT ![f] = 0]
  /\ \/ /\ retries[f] <= MaxRetries
        /\ retries' = [retries EXCEPT ![f] = @ + 1]
        /\ Goto(f, IF pc[f] \in ProcessStage THEN "parse" ELSE "lock")
     \/ Goto(f, "dead") /\ UNCHANGED retries
  /\ broken' = (broken \/ pc[f] = "index")
  /\ reclaimed' = reclaimed \ {f}
  /\ UNCHANGED <<source, payload, down, collection, points, row, total,
                 joined, overlapped>>

\* The handler ends; its message is retried, or given up: at once if the
\* error speaks of a quota or rate, which a path in it may do, too.
Again(f) ==
  /\ summed' = [summed EXCEPT ![f] = 0]
  /\ written' = [written EXCEPT ![f] = 0]
  /\ \/ /\ retries[f] < MaxRetries
        /\ retries' = [retries EXCEPT ![f] = @ + 1]
        /\ Goto(f, IF pc[f] \in ProcessStage THEN "parse" ELSE "lock")
     \/ Goto(f, "dead") /\ UNCHANGED retries
  /\ broken' = (broken \/ pc[f] = "index")
  /\ reclaimed' = reclaimed \ {f}
  /\ UNCHANGED <<source, payload, down, collection, points, row, total,
                 joined, overlapped>>

Fault == faults < MaxFaults /\ faults' = faults + 1

\* The message of f has a handler, or may have one now.
Handled(f) ==
  /\ pc[f] \notin Settled
  /\ pc[f] = "parse" => MayProcess(f)
  /\ pc[f] = "lock" => "store" \notin down

\* A call raises.  The lock is released on the way out.
Fails(f) ==
  /\ Handled(f)
  /\ Fault
  /\ lock' = IF lock = f /\ Inside(f) THEN Nobody ELSE lock
  /\ Again(f)

\* Nothing but these calls raises without a fault: a language without a
\* strategy, a collection that is there already, a lock that has expired.
Refused(f) ==
  /\ \/ pc[f] = "parse" /\ MayProcess(f) /\ source[f].lang \notin Strategies
     \/ pc[f] = "create" /\ collection # "none"
     \/ pc[f] = "release" /\ lock # f
  /\ lock' = IF lock = f /\ Inside(f) THEN Nobody ELSE lock
  /\ Again(f)
  /\ UNCHANGED faults

\* A store handler fails before it has read the URL of the repository: its
\* except block raises, too, and the message stays pending.
Unbound(f) ==
  /\ pc[f] = "lock" /\ "store" \notin down
  /\ Fault
  /\ Goto(f, "unstored")
  /\ UNCHANGED <<state, lock, qdrant, counts, history>>

Forget(held) ==
  /\ summed' = [f \in Files |-> IF f \in held THEN 0 ELSE summed[f]]
  /\ written' = [f \in Files |-> IF f \in held THEN 0 ELSE written[f]]
  /\ Fault
  /\ UNCHANGED <<source, payload, retries, reclaimed, lock, collection, points,
                 row, total, joined, overlapped>>

\* Some of the files of a stage, among them those whose handlers have begun.
HeldIn(stage, first) ==
  {held \in SUBSET {f \in Files : pc[f] \in stage} :
     held # {} /\ \A f \in Files : pc[f] \in stage \ {first} => f \in held}

\* The process worker dies; the messages it has read stay pending.  One that was
\* acknowledged and not handed over is lost.
CrashProcess ==
  /\ "process" \notin down
  /\ down' = down \cup {"process"}
  /\ \E held \in HeldIn(ProcessStage, "parse"),
        acked \in SUBSET {f \in Files : pc[f] = "handover"} :
       /\ pc' = [f \in Files |-> IF f \in acked THEN "lost"
                                 ELSE IF f \in held THEN "unparsed" ELSE pc[f]]
       /\ Forget(held)
  /\ UNCHANGED broken

\* Nobody releases the lock of a store worker that dies.
CrashStore ==
  /\ "store" \notin down
  /\ down' = down \cup {"store"}
  /\ \E held \in HeldIn(StoreStage, "lock") :
       /\ pc' = [f \in Files |-> IF f \in held THEN "unstored" ELSE pc[f]]
       /\ Forget(held)
  /\ broken' = (broken \/ \E f \in Files : pc[f] = "index")

\* A worker is started again, which nothing but an operator does: it reclaims
\* the pending messages that have been idle for five minutes, whichever these
\* are, and the others wait for its next start.
RestartProcess ==
  /\ "process" \in down
  /\ down' = down \ {"process"}
  /\ \E claimed \in SUBSET {f \in Files : pc[f] = "unparsed"} :
       /\ pc' = [f \in Files |-> IF f \in claimed THEN "parse" ELSE pc[f]]
       /\ reclaimed' = claimed
  /\ UNCHANGED <<source, payload, retries, lock, qdrant, counts, faults, history>>

RestartStore ==
  /\ "store" \in down
  /\ down' = down \ {"store"}
  /\ \E claimed \in SUBSET {f \in Files : pc[f] = "unstored"} :
       pc' = [f \in Files |-> IF f \in claimed THEN "lock" ELSE pc[f]]
  /\ UNCHANGED <<source, payload, retries, reclaimed, lock, qdrant, counts, faults,
                 history>>

-----------------------------------------------------------------------------

Init ==
  /\ source \in {s \in [Files -> UNION {Sources[f] : f \in Files}] :
                   \A f \in Files : s[f] \in Sources[f]}
  /\ pc = [f \in Files |-> "parse"]
  /\ payload = [f \in Files |-> <<>>]
  /\ written = [f \in Files |-> 0]
  /\ retries = [f \in Files |-> 0]
  /\ lock = Nobody
  /\ collection = "none"
  /\ points = [f \in Files |-> <<>>]
  /\ row = [f \in Files |-> 0]
  /\ summed = [f \in Files |-> 0]
  /\ total = 0
  /\ down = {} /\ reclaimed = {}
  /\ faults = 0
  /\ joined = FALSE /\ broken = FALSE /\ overlapped = FALSE

Handle(f) ==
  \/ Process(f) \/ Sum(f) \/ Commit(f) \/ HandOver(f)
  \/ Acquire(f) \/ Exists(f) \/ Create(f) \/ CreateIndex(f) \/ Release(f)
  \/ Upsert(f) \/ Upserted(f) \/ Refused(f)

Next ==
  \/ \E f \in Files : Handle(f) \/ Fails(f) \/ Unbound(f)
  \/ Expire \/ CrashProcess \/ CrashStore \/ RestartProcess \/ RestartStore

\* A worker that is up runs its handlers, and Redis lets a lock expire.  Nothing
\* makes anybody start a worker again.
Fairness == WF_vars(Expire) /\ \A f \in Files : WF_vars(Handle(f))

Spec == Init /\ [][Next]_vars /\ Fairness

-----------------------------------------------------------------------------
(* Properties.                                                             *)

\* Every variable has its type.
TypeOK ==
  /\ pc \in [Files -> ProcessStage \cup StoreStage \cup Settled]
  /\ \A f \in Files : written[f] \in 0 .. Chunked(f)
  /\ retries \in [Files -> 0 .. MaxRetries]
  /\ lock \in Files \cup {Nobody}
  /\ collection \in {"none", "bare", "indexed"}
  /\ row \in [Files -> Nat] /\ summed \in [Files -> Nat] /\ total \in Nat
  /\ faults \in 0 .. MaxFaults
  /\ down \subseteq {"process", "store"} /\ reclaimed \subseteq Files
  /\ {joined, broken, overlapped} \subseteq BOOLEAN

\* However the source is put together, every top-level node other than an
\* import, a comment of Python or an enum of Java is in a chunk: with its own
\* text, or with the text at its byte offsets in the decoded string, which is
\* another one after a non-ASCII character.
CodeCovered ==
  \A f \in Files : pc[f] = "count" =>
    \A n \in TopLevel(source[f]) :
      \/ source[f].type[n] \in {"import", "enum"}
      \/ source[f].type[n] = "comment" /\ source[f].lang = "py"
      \/ \E i \in DOMAIN payload[f] :
           LET code == payload[f][i].chunk.code
           IN  \E k \in DOMAIN code :
                 code[k] \in {Decoded(source[f], n), Sliced(source[f], n)}

\* The points of a file are those of its chunks, each with the vector of its own
\* code, however often a handler was retried in the middle of its batches; and
\* when the file is done none is missing.
OwnVector(f, id) ==
  \E i \in DOMAIN payload[f] :
    /\ id = IdOf(f, i)
    /\ points[f][id] = Vector(payload[f][i].chunk)
PointsMatch ==
  \A f \in Files :
    /\ pc[f] \in {"upsert", "done", "dead"} =>
         \A id \in DOMAIN points[f] : OwnVector(f, id)
    /\ pc[f] = "done" =>
         \A i \in DOMAIN payload[f] : IdOf(f, i) \in DOMAIN points[f]

\* Points are written to a collection that has its index, unless the lock
\* expired under a handler or a call failed between the two.
CollectionReady ==
  \A f \in Files :
    pc[f] = "upsert" => collection = "indexed" \/ joined \/ broken

\* The total of the repository never exceeds the chunks of its files, and it is
\* their sum if no two transactions overlapped.
TotalRight ==
  /\ total <= SumOf(row)
  /\ overlapped \/ total = SumOf(row)

\* If from some time on both workers stay up, every file is in the end indexed,
\* skipped, given up or lost, or its message is pending where no handler will
\* see it: nobody waits for ever for the lock of a handler that died with it.
EveryFileEnds ==
  <>[](down = {}) => <>[](\A f \in Files : pc[f] \in Settled)
=============================================================================
