--------------------------- MODULE IndexingProofs ---------------------------
(***************************************************************************)
(* Indexing, for any files, any syntax trees and any sizes of the batches: *)
(* every definition and statement is in a chunk, every point has its own   *)
(* vector, points wait for the index of the collection, and the total of   *)
(* the repository is the sum over its files.                               *)
(***************************************************************************)
EXTENDS Indexing, FiniteSetTheorems, SequenceTheorems, TLAPS

\* What the process worker makes of the file.
Parsed(f) == Embedded(Chunks(source[f]))

\* A handler has the chunks of its file in hand, and its row counts them once
\* it is written.
PayloadOK ==
  /\ DOMAIN source = Files /\ DOMAIN payload = Files
  /\ DOMAIN written = Files /\ DOMAIN points = Files
  /\ \A f \in Files :
       /\ source[f] \in Sources[f]
       /\ payload[f] \in {<<>>, Parsed(f)}
       /\ pc[f] \notin {"parse", "unparsed", "skipped", "dead"} => payload[f] = Parsed(f)
       /\ row[f] \in {0, Chunked(f)}

\* The sum that a transaction has read is out of date only if another one came
\* between, and then it is too small.
Summing(f) == pc[f] \in {"counted", "recounted"}
SumsOK ==
  /\ \A f \in Files : Summing(f) =>
       /\ summed[f] <= SumWith(f)
       /\ overlapped \/ summed[f] = SumWith(f)
  /\ overlapped \/ \A f, g \in Files : Summing(f) /\ Summing(g) => f = g
  /\ TotalRight

\* The lock keeps all but one out, and the collection is bare only while its
\* holder is about to index it.
Locked == joined \/ \A f \in Files : Inside(f) => lock = f
Ready ==
  \/ joined \/ broken
  \/ /\ \A f \in Files : pc[f] \in {"release", "upsert"} => collection = "indexed"
     /\ collection = "bare" => \E f \in Files : pc[f] = "index"

\* Points have the vectors of their chunks, and those of the first batches are
\* written.
PointsOK ==
  \A f \in Files :
    /\ \A id \in DOMAIN points[f] : OwnVector(f, id)
    /\ \A i \in 1 .. written[f] : IdOf(f, i) \in DOMAIN points[f]
    /\ pc[f] \in {"recount", "recounted", "done"} => written[f] = Chunked(f)

IInv == TypeOK /\ PayloadOK /\ SumsOK /\ Locked /\ Ready /\ PointsOK

-----------------------------------------------------------------------------
(* The chunks of a file.                                                   *)

Upto(S, n) == {m \in S : m <= n}

\* Two nodes with as many nodes up to them are one.
LEMMA RankUnique ==
  ASSUME NEW S \in SUBSET Nat, IsFiniteSet(S), NEW a \in S, NEW b \in S,
         Cardinality(Upto(S, a)) = Cardinality(Upto(S, b))
  PROVE  a = b
<1>1. ASSUME NEW x \in S, NEW y \in S, x < y,
             Cardinality(Upto(S, x)) = Cardinality(Upto(S, y))
      PROVE  FALSE
  <2>0. x \in Nat /\ y \in Nat /\ \A m \in S : m \in Nat
    OBVIOUS
  <2>1. Upto(S, x) \in SUBSET Upto(S, y)
    <3>1. ASSUME NEW m \in S, m <= x PROVE m <= y
      BY <1>1, <2>0, <3>1
    <3> QED
      BY <3>1 DEF Upto
  <2>3. y \in Upto(S, y) /\ y \notin Upto(S, x)
    BY <1>1, <2>0 DEF Upto
  <2>2. IsFiniteSet(Upto(S, y))
    BY FS_Subset DEF Upto
  <2> QED
    BY <1>1, <2>1, <2>2, <2>3, FS_Subset
<1> QED
  BY <1>1

\* Every node of the set has its place in the order.
LEMMA OrderHas ==
  ASSUME NEW S \in SUBSET Nat, IsFiniteSet(S), NEW n \in S
  PROVE  \E r \in DOMAIN InOrder(S) : InOrder(S)[r] = n
<1> DEFINE r == Cardinality(Upto(S, n))
<1>1. Upto(S, n) \in SUBSET S /\ n \in Upto(S, n)
  BY DEF Upto
<1>2. r \in Nat /\ r <= Cardinality(S) /\ Cardinality(S) \in Nat
  BY <1>1, FS_Subset, FS_CardinalityType
<1>3. r # 0
  BY <1>1, FS_Subset, FS_EmptySet
<1>4. r \in 1 .. Cardinality(S)
  BY <1>2, <1>3
<1>5. InOrder(S)[r] = CHOOSE m \in S : Cardinality(Upto(S, m)) = r
  BY <1>4 DEF InOrder, Upto
<1>6. \A m \in S : Cardinality(Upto(S, m)) = r => m = n
  BY RankUnique
<1> QED
  BY <1>4, <1>5, <1>6 DEF InOrder

\* A tree has finitely many nodes, numbered from one.
LEMMA NodesFinite ==
  ASSUME NEW t, IsTree(t)
  PROVE  \A S \in SUBSET Nodes(t) : S \in SUBSET Nat /\ IsFiniteSet(S)
                                    /\ Cardinality(S) \in Nat
<1>1. Nodes(t) = 1 .. Len(t.type) /\ Len(t.type) \in Nat
  BY DEF IsTree, Nodes
<1>2. IsFiniteSet(Nodes(t))
  BY <1>1, FS_Interval
<1> QED
  BY <1>1, <1>2, FS_Subset, FS_CardinalityType

\* The two parts of the chunks are sequences.
LEMMA PartsShape ==
  ASSUME NEW t, IsTree(t)
  PROVE  \E S : WalkChunks(t) \in Seq(S) /\ GlobalChunks(t) \in Seq(S)
<1>1. PICK k \in Nat : DOMAIN WalkChunks(t) = 1 .. k
  <2> DEFINE found == {n \in Nodes(t) : t.type[n] \in Config(t.lang).nodes}
  <2>1. Cardinality(found) \in Nat
    BY NodesFinite
  <2> QED
    BY <2>1 DEF WalkChunks, InOrder
<1>2. PICK l \in {0, 1} : DOMAIN GlobalChunks(t) = 1 .. l
  BY DEF GlobalChunks
<1> DEFINE S == {WalkChunks(t)[i] : i \in 1 .. k} \cup {GlobalChunks(t)[i] : i \in 1 .. l}
<1>3. WalkChunks(t) \in Seq(S)
  <2>1. WalkChunks(t) = [i \in 1 .. k |-> WalkChunks(t)[i]]
    BY <1>1 DEF WalkChunks
  <2> QED
    BY <2>1
<1>4. GlobalChunks(t) \in Seq(S)
  <2>1. GlobalChunks(t) = [i \in 1 .. l |-> GlobalChunks(t)[i]]
    BY <1>2 DEF GlobalChunks
  <2> QED
    BY <2>1
<1> QED
  BY <1>3, <1>4

\* The chunks of a file are a sequence.
LEMMA ChunksShape ==
  ASSUME NEW t, IsTree(t)
  PROVE  \E n \in Nat : DOMAIN Chunks(t) = 1 .. n
<1>1. PICK S : WalkChunks(t) \in Seq(S) /\ GlobalChunks(t) \in Seq(S)
  BY PartsShape
<1>2. WalkChunks(t) \o GlobalChunks(t) \in Seq(S)
  BY <1>1
<1>3. CASE Chunks(t) = WalkChunks(t) \o GlobalChunks(t)
  BY <1>2, <1>3
<1>4. CASE Chunks(t) # WalkChunks(t) \o GlobalChunks(t)
  BY <1>4 DEF Chunks
<1> QED
  BY <1>3, <1>4

\* The one element of the second sequence comes last.
LEMMA LastAppended ==
  ASSUME NEW S, NEW s \in Seq(S), NEW t \in Seq(S), Len(t) = 1
  PROVE  \E r \in DOMAIN (s \o t) : (s \o t)[r] = t[1]
<1>1. Len(s) \in Nat
  OBVIOUS
<1>2. Len(s) + 1 \in DOMAIN (s \o t)
  BY <1>1, ConcatProperties, LenProperties
<1>3. (s \o t)[Len(s) + 1] = t[1]
  <2>1. \A i \in 1 .. Len(s) + Len(t) :
          (s \o t)[i] = IF i <= Len(s) THEN s[i] ELSE t[i - Len(s)]
    BY ConcatProperties
  <2> DEFINE k == Len(s) + 1
  <2>2. k \in 1 .. Len(s) + Len(t) /\ ~(k <= Len(s)) /\ k - Len(s) = 1
    BY <1>1
  <2> HIDE DEF k
  <2>3. (s \o t)[k] = t[1]
    BY <2>1, <2>2
  <2> QED
    BY <2>3 DEF k
<1> QED
  BY <1>2, <1>3

\* A top-level node that is no import, no enum and no comment of Python is found
\* by the walk, or left to the global chunk.
LEMMA NodeCovered ==
  ASSUME NEW t, IsTree(t), NEW n \in TopLevel(t),
         t.type[n] \notin {"import", "enum"},
         t.type[n] = "comment" => t.lang # "py"
  PROVE  \E i \in DOMAIN Chunks(t) : \E k \in DOMAIN Chunks(t)[i].code :
           Chunks(t)[i].code[k] \in {Decoded(t, n), Sliced(t, n)}
<1>1. PICK S : WalkChunks(t) \in Seq(S) /\ GlobalChunks(t) \in Seq(S)
  BY PartsShape
<1> DEFINE walk == WalkChunks(t)
           global == GlobalChunks(t)
           Has(chunk) == \E k \in DOMAIN chunk.code :
                           chunk.code[k] \in {Decoded(t, n), Sliced(t, n)}
<1>2. CASE t.type[n] \in Config(t.lang).nodes
  <2> DEFINE found == {m \in Nodes(t) : t.type[m] \in Config(t.lang).nodes}
  <2>1. n \in found /\ found \in SUBSET Nat /\ IsFiniteSet(found)
    BY <1>2, NodesFinite DEF TopLevel
  <2>2. PICK r \in DOMAIN InOrder(found) : InOrder(found)[r] = n
    BY <2>1, OrderHas
  <2>3. r \in DOMAIN walk /\ walk[r].code = <<Decoded(t, n)>>
    BY <2>2 DEF WalkChunks
  <2>4. r \in DOMAIN Chunks(t) /\ Chunks(t)[r] = walk[r]
    <3>1. /\ r \in DOMAIN (walk \o global) /\ (walk \o global)[r] = walk[r]
      BY <1>1, <2>3
    <3> QED
      BY <3>1 DEF Chunks
  <2> QED
    BY <2>3, <2>4
<1>3. CASE t.type[n] \notin Config(t.lang).nodes
  <2> DEFINE loose == {m \in TopLevel(t) : t.type[m] \notin Excluded(t.lang)}
  <2>1. n \in loose
    <3>1. t.type[n] \in {"function", "class", "enum", "import", "comment", "statement"}
      BY DEF IsTree, TopLevel, Nodes
    <3> QED
      BY <1>3, <3>1 DEF Excluded, Config
  <2>2. loose \in SUBSET Nat /\ IsFiniteSet(loose)
    BY NodesFinite DEF TopLevel
  <2>3. PICK k \in DOMAIN InOrder(loose) : InOrder(loose)[k] = n
    BY <2>1, <2>2, OrderHas
  <2> DEFINE code == [i \in DOMAIN InOrder(loose) |-> Sliced(t, InOrder(loose)[i])]
  <2>4. k \in DOMAIN code /\ code[k] = Sliced(t, n)
    BY <2>3
  <2>5. DOMAIN global = {1} /\ global[1].code = code
    BY <2>1 DEF GlobalChunks
  <2> HIDE DEF loose, code
  <2>6. PICK r \in DOMAIN (walk \o global) : (walk \o global)[r] = global[1]
    <3>1. walk \in Seq(S) /\ global \in Seq(S) /\ Len(global) = 1
      BY <1>1, <2>5
    <3> QED
      BY <3>1, LastAppended
  <2>7. r \in DOMAIN Chunks(t) /\ Chunks(t)[r] = global[1]
    BY <2>6 DEF Chunks
  <2> QED
    BY <2>4, <2>5, <2>7
<1> QED
  BY <1>2, <1>3

-----------------------------------------------------------------------------
(* The embedding of the chunks, and their number.                          *)

\* The batch of a position begins at most a batch before it.
LEMMA BatchStart ==
  ASSUME NEW i \in Nat \ {0}
  PROVE  /\ ((i - 1) \div EmbedBatch) * EmbedBatch \in Nat
         /\ i - ((i - 1) \div EmbedBatch) * EmbedBatch \in 1 .. EmbedBatch
<1>1. \A a \in Nat, d \in Nat \ {0} :
        /\ (a \div d) * d \in Nat /\ (a \div d) * d <= a /\ a < (a \div d) * d + d
  OBVIOUS
<1> QED
  BY <1>1, IndexingAssumption

\* Each chunk goes with the vector of its own code.
LEMMA EmbeddedOwn ==
  ASSUME NEW chunks, NEW n \in Nat, DOMAIN chunks = 1 .. n
  PROVE  /\ DOMAIN Embedded(chunks) = 1 .. n
         /\ Len(Embedded(chunks)) = n
         /\ \A i \in 1 .. n : Embedded(chunks)[i] =
               [chunk |-> chunks[i], vector |-> Vector(chunks[i])]
<1>1. ASSUME NEW i \in 1 .. n
      PROVE  Embedded(chunks)[i] = [chunk |-> chunks[i], vector |-> Vector(chunks[i])]
  <2> DEFINE start == ((i - 1) \div EmbedBatch) * EmbedBatch
  <2>0. i \in Nat \ {0}
    OBVIOUS
  <2>1. start \in Nat /\ i - start \in 1 .. EmbedBatch
    BY <2>0, BatchStart, Zenon
  <2> DEFINE answer == [j \in 1 .. EmbedBatch |->
                          IF start + j \in DOMAIN chunks
                          THEN Vector(chunks[start + j]) ELSE Nobody]
  <2>2. Embedded(chunks)[i] = [chunk |-> chunks[i], vector |-> answer[i - start]]
    BY DEF Embedded
  <2> HIDE DEF start
  <2>3. start + (i - start) = i
    BY <2>1
  <2>4. answer[i - start] = Vector(chunks[i])
    BY <2>1, <2>3
  <2> QED
    BY <2>2, <2>4
<1> DEFINE S == {[chunk |-> chunks[i], vector |-> Vector(chunks[i])] : i \in 1 .. n}
<1>2. DOMAIN Embedded(chunks) = 1 .. n
  BY DEF Embedded
<1>3. Embedded(chunks) = [i \in 1 .. n |-> Embedded(chunks)[i]]
  BY DEF Embedded
<1>4. Embedded(chunks) \in Seq(S)
  BY <1>1, <1>3
<1> QED
  BY <1>1, <1>2, <1>4

-----------------------------------------------------------------------------
(* The sum over the rows.                                                  *)

Pairs(r) == UNION {{f} \X (1 .. r[f]) : f \in Files}

\* There are finitely many chunks.
LEMMA PairsFinite ==
  ASSUME NEW r \in [Files -> Nat]
  PROVE  IsFiniteSet(Pairs(r)) /\ SumOf(r) \in Nat
<1> DEFINE S == {{f} \X (1 .. r[f]) : f \in Files}
           M == [f \in Files |-> {f} \X (1 .. r[f])]
<1>1. M \in Surjection(Files, S)
  BY DEF Surjection
<1>2. IsFiniteSet(S)
  BY <1>1, FS_Surjection, IndexingAssumption
<1>3. ASSUME NEW f \in Files PROVE IsFiniteSet({f} \X (1 .. r[f]))
  <2>1. IsFiniteSet({f})
    BY FS_Singleton
  <2>2. r[f] \in Int /\ 1 \in Int
    OBVIOUS
  <2>3. IsFiniteSet(1 .. r[f])
    BY <2>2, FS_Interval
  <2> QED
    BY <2>1, <2>3, FS_Product
<1>4. IsFiniteSet(UNION S)
  BY <1>2, <1>3, FS_UNION
<1> QED
  BY <1>4, FS_CardinalityType DEF Pairs, SumOf

\* A row that grows adds to the sum.
LEMMA SumGrows ==
  ASSUME NEW r \in [Files -> Nat], NEW s \in [Files -> Nat],
         \A f \in Files : r[f] <= s[f]
  PROVE  SumOf(r) <= SumOf(s)
<1>1. Pairs(r) \in SUBSET Pairs(s)
  BY DEF Pairs
<1>2. IsFiniteSet(Pairs(s))
  BY PairsFinite
<1> QED
  BY <1>1, <1>2, FS_Subset DEF SumOf, Pairs

\* Without chunks the sum is zero.
LEMMA SumOfNothing == SumOf([f \in Files |-> 0]) = 0
<1>1. Pairs([f \in Files |-> 0]) = {}
  BY DEF Pairs
<1> QED
  BY <1>1, FS_EmptySet DEF SumOf, Pairs
-----------------------------------------------------------------------------
(* The handlers and their payload.                                         *)

\* The chunks of a file are numbered from one, each with its own vector.
LEMMA ParsedShape ==
  ASSUME PayloadOK, NEW f \in Files
  PROVE  /\ Len(Parsed(f)) \in Nat
         /\ DOMAIN Parsed(f) = 1 .. Len(Parsed(f))
         /\ \A i \in DOMAIN Parsed(f) :
              /\ Parsed(f)[i].chunk = Chunks(source[f])[i]
              /\ Parsed(f)[i].vector = Vector(Parsed(f)[i].chunk)
         /\ DOMAIN Chunks(source[f]) = DOMAIN Parsed(f)
<1>1. IsTree(source[f])
  BY SourcesAssumption DEF PayloadOK
<1>2. PICK n \in Nat : DOMAIN Chunks(source[f]) = 1 .. n
  BY <1>1, ChunksShape
<1>3. /\ DOMAIN Embedded(Chunks(source[f])) = 1 .. n
      /\ Len(Embedded(Chunks(source[f]))) = n
      /\ \A i \in 1 .. n : Embedded(Chunks(source[f]))[i] =
           [chunk |-> Chunks(source[f])[i], vector |-> Vector(Chunks(source[f])[i])]
  BY <1>2, EmbeddedOwn
<1> DEFINE e == Embedded(Chunks(source[f]))
<1>4. DOMAIN e = 1 .. n /\ Len(e) = n
  BY <1>3
<1>5. ASSUME NEW i \in 1 .. n
      PROVE  e[i].chunk = Chunks(source[f])[i] /\ e[i].vector = Vector(e[i].chunk)
  <2> DEFINE c == Chunks(source[f])[i]
  <2>1. e[i] = [chunk |-> c, vector |-> Vector(c)]
    BY <1>3
  <2> HIDE DEF e, c
  <2>2. e[i].chunk = c /\ e[i].vector = Vector(c)
    BY <2>1
  <2> QED
    BY <2>2 DEF c
<1>6. e = Parsed(f)
  BY DEF Parsed
<1> HIDE DEF e
<1> QED
  BY <1>2, <1>4, <1>5, <1>6

\* The number of chunks in hand is a number.
LEMMA ChunkedNat ==
  ASSUME PayloadOK, NEW f \in Files
  PROVE  /\ Chunked(f) \in Nat /\ DOMAIN payload[f] = 1 .. Chunked(f)
         /\ payload[f] # Parsed(f) => Chunked(f) = 0
BY ParsedShape DEF PayloadOK, Chunked
\* A step after which every handler has the payload it had, or its row counts
\* just that.
LEMMA PayloadKept ==
  ASSUME PayloadOK, UNCHANGED <<source, payload>>,
         DOMAIN written' = Files, DOMAIN points' = Files,
         \A f \in Files :
           /\ \/ pc'[f] \in {"parse", "unparsed", "skipped", "dead"}
              \/ pc[f] \notin {"parse", "unparsed", "skipped", "dead"}
           /\ row'[f] \in {row[f], Chunked(f)}
  PROVE  PayloadOK'
BY DEF PayloadOK, Parsed, Chunked

\* What becomes of a file when a worker dies.
Fate(g) ==
  \/ pc'[g] = pc[g] /\ summed'[g] = summed[g] /\ written'[g] = written[g]
  \/ /\ pc[g] \notin {"parse", "unparsed", "skipped", "dead"}
     /\ pc'[g] \in {"lost", "unparsed", "unstored"}
     /\ written'[g] \in {written[g], 0}
     /\ pc[g] = "index" => broken'
  \/ /\ pc[g] = "parse" /\ pc'[g] = "unparsed"
     /\ written'[g] \in {written[g], 0}

\* A worker that dies forgets what its handlers have read and written, and
\* their messages stay pending or are lost.
LEMMA CrashStep ==
  ASSUME IInv, CrashProcess \/ CrashStore
  PROVE  /\ UNCHANGED <<source, payload, retries, reclaimed, lock, collection, points,
                         row, total, joined, overlapped>>
         /\ summed' \in [Files -> Nat] /\ faults' \in 0 .. MaxFaults
         /\ down' \subseteq {"process", "store"} /\ broken' \in BOOLEAN
         /\ broken => broken'
         /\ pc' \in [Files -> ProcessStage \cup StoreStage \cup Settled]
         /\ DOMAIN written' = Files
         /\ \A g \in Files : Fate(g)
<1> USE DEF IInv, TypeOK, ProcessStage, StoreStage, Settled, Fate
<1>1. CASE CrashProcess
  <2>1. PICK held \in HeldIn(ProcessStage, "parse"),
             acked \in SUBSET {f \in Files : pc[f] = "handover"} :
          /\ pc' = [f \in Files |-> IF f \in acked THEN "lost"
                                    ELSE IF f \in held THEN "unparsed" ELSE pc[f]]
          /\ Forget(held)
    BY <1>1 DEF CrashProcess
  <2>2. /\ \A g \in held : g \in Files /\ pc[g] \in ProcessStage
        /\ \A g \in acked : pc[g] = "handover" /\ g \in held
    BY <2>1 DEF HeldIn
  <2>3. faults' \in 0 .. MaxFaults
    BY <2>1, IndexingAssumption DEF Forget, Fault
  <2>4. UNCHANGED broken /\ down' = down \cup {"process"}
    BY <1>1 DEF CrashProcess
  <2>5. summed' \in [Files -> Nat]
    BY <2>1 DEF Forget
  <2>6. pc' \in [Files -> ProcessStage \cup StoreStage \cup Settled]
    BY <2>1
  <2>7. ASSUME NEW g \in Files
        PROVE  Fate(g)
    <3>1. written'[g] \in {written[g], 0} /\ (g \notin held => written'[g] = written[g])
      BY <2>1 DEF Forget
    <3>2. g \notin held => summed'[g] = summed[g] /\ pc'[g] = pc[g]
      BY <2>1, <2>2 DEF Forget
    <3>3. g \in held => pc'[g] \in {"lost", "unparsed"} /\ pc[g] \in ProcessStage
      BY <2>1, <2>2
    <3>4. g \in held /\ pc[g] = "parse" => pc'[g] = "unparsed"
      BY <2>1, <2>2
    <3>5. pc[g] = "index" => g \notin held
      BY <2>2
    <3>6. CASE g \notin held
      BY <3>1, <3>2, <3>6
    <3>7. CASE g \in held
      BY <3>1, <3>3, <3>4, <3>5, <3>7
    <3> QED
      BY <3>6, <3>7
  <2> QED
    BY <2>1, <2>3, <2>4, <2>5, <2>6, <2>7 DEF Forget
<1>2. CASE CrashStore
  <2>1. PICK held \in HeldIn(StoreStage, "lock") :
          /\ pc' = [f \in Files |-> IF f \in held THEN "unstored" ELSE pc[f]]
          /\ Forget(held)
    BY <1>2 DEF CrashStore
  <2>2. \A g \in held : g \in Files /\ pc[g] \in StoreStage
    BY <2>1 DEF HeldIn
  <2>3. faults' \in 0 .. MaxFaults
    BY <2>1, IndexingAssumption DEF Forget, Fault
  <2>4. /\ broken' = (broken \/ \E f \in Files : pc[f] = "index")
        /\ down' = down \cup {"store"}
    BY <1>2 DEF CrashStore
  <2>5. summed' \in [Files -> Nat]
    BY <2>1 DEF Forget
  <2>6. pc' \in [Files -> ProcessStage \cup StoreStage \cup Settled]
    BY <2>1
  <2>7. ASSUME NEW g \in Files
        PROVE  Fate(g)
    BY <2>1, <2>2, <2>4 DEF Forget
  <2> QED
    BY <2>1, <2>3, <2>4, <2>5, <2>6, <2>7 DEF Forget
<1> QED
  BY <1>1, <1>2

\* The steps that end or begin the wait of a message and touch nothing else.
Waiting == (\E f \in Files : Unbound(f)) \/ RestartProcess \/ RestartStore

LEMMA WaitingStep ==
  ASSUME IInv, Waiting
  PROVE  /\ UNCHANGED <<source, payload, retries, lock, collection, points, written,
                         row, summed, total, joined, broken, overlapped>>
         /\ faults' \in 0 .. MaxFaults
         /\ down' \subseteq {"process", "store"} /\ reclaimed' \subseteq Files
         /\ pc' \in [Files -> ProcessStage \cup StoreStage \cup Settled]
         /\ \A g \in Files :
              \/ pc'[g] = pc[g]
              \/ pc[g] = "unparsed" /\ pc'[g] = "parse"
              \/ pc[g] \in {"lock", "unstored"} /\ pc'[g] \in {"lock", "unstored"}
<1> USE DEF IInv, TypeOK, Goto, state, qdrant, counts, history, ProcessStage, StoreStage,
            Settled
<1>1. ASSUME NEW f \in Files, Unbound(f)
      PROVE  /\ faults' \in 0 .. MaxFaults
             /\ UNCHANGED <<source, payload, retries, lock, collection, points, written,
                             row, summed, total, joined, broken, overlapped, down,
                             reclaimed>>
             /\ pc' = [pc EXCEPT ![f] = "unstored"] /\ pc[f] = "lock"
  BY <1>1, IndexingAssumption DEF Unbound, Fault
<1>2. CASE \E f \in Files : Unbound(f)
  <2>1. PICK f \in Files : Unbound(f)
    BY <1>2
  <2> QED
    BY <1>1, <2>1
<1>3. CASE RestartProcess
  BY <1>3 DEF RestartProcess
<1>4. CASE RestartStore
  BY <1>4 DEF RestartStore
<1> QED
  BY <1>2, <1>3, <1>4 DEF Waiting

\* Only Process brings chunks, and always the same for a file.
LEMMA PayloadStep ==
  ASSUME IInv, Next
  PROVE  PayloadOK'
<1> USE DEF IInv, TypeOK, Goto, state, qdrant, counts, history, ProcessStage, StoreStage, Settled
<1>0. DOMAIN written = Files /\ DOMAIN points = Files
  BY DEF PayloadOK
<1>1. ASSUME NEW f \in Files, Process(f) PROVE PayloadOK'
  <2>1. UNCHANGED <<source, row, written, points>>
    BY <1>1 DEF Process
  <2>2. \A g \in Files : payload'[g] = payload[g] \/ (g = f /\ payload'[g] = Parsed(f))
    BY <1>1 DEF Process, PayloadOK, Parsed
  <2>3. DOMAIN payload' = Files
    BY <1>1 DEF Process, PayloadOK
  <2>4. \A g \in Files : pc'[g] \notin {"parse", "unparsed", "skipped", "dead"} =>
          (g # f /\ pc'[g] = pc[g]) \/ (g = f /\ payload'[g] = Parsed(f))
    BY <1>1 DEF Process, PayloadOK, Parsed
  <2>5. row[f] # 0 => payload[f] = Parsed(f)
    BY ChunkedNat DEF PayloadOK
  <2> QED
    BY <2>1, <2>2, <2>3, <2>4, <2>5 DEF PayloadOK, Parsed, Chunked
<1>2. ASSUME NEW f \in Files, Sum(f) PROVE PayloadOK'
  BY <1>0, <1>2, PayloadKept DEF Sum
<1>3. ASSUME NEW f \in Files, Commit(f) PROVE PayloadOK'
  BY <1>0, <1>3, PayloadKept DEF Commit
<1>4. ASSUME NEW f \in Files, HandOver(f) PROVE PayloadOK'
  BY <1>0, <1>4, PayloadKept DEF HandOver
<1>5. ASSUME NEW f \in Files, Acquire(f) PROVE PayloadOK'
  BY <1>0, <1>5, PayloadKept DEF Acquire
<1>6. ASSUME NEW f \in Files, Exists(f) PROVE PayloadOK'
  BY <1>0, <1>6, PayloadKept DEF Exists
<1>7. ASSUME NEW f \in Files, Create(f) \/ CreateIndex(f) PROVE PayloadOK'
  BY <1>0, <1>7, PayloadKept DEF Create, CreateIndex
<1>8. ASSUME NEW f \in Files, Release(f) PROVE PayloadOK'
  BY <1>0, <1>8, PayloadKept DEF Release
<1>9. ASSUME NEW f \in Files, Upsert(f) PROVE PayloadOK'
  <2>1. UNCHANGED <<source, payload, pc, row>> /\ DOMAIN written' = Files /\ DOMAIN points' = Files
    BY <1>0, <1>9 DEF Upsert
  <2> QED
    BY <2>1, PayloadKept
<1>10. ASSUME NEW f \in Files, Upserted(f) PROVE PayloadOK'
  BY <1>0, <1>10, PayloadKept DEF Upserted
<1>11. ASSUME NEW f \in Files, Refused(f) \/ Fails(f) PROVE PayloadOK'
  <2>1. UNCHANGED <<source, payload, row, points>> /\ DOMAIN written' = Files
    BY <1>0, <1>11 DEF Refused, Fails, Again
  <2>2. \A g \in Files :
          \/ pc'[g] \in {"parse", "unparsed", "skipped", "dead"}
          \/ pc[g] \notin {"parse", "unparsed", "skipped", "dead"}
    BY <1>11 DEF Refused, Fails, Again, Handled, Settled
  <2> QED
    BY <1>0, <2>1, <2>2, PayloadKept
<1>12. CASE Expire
  BY <1>0, <1>12, PayloadKept DEF Expire
<1>13. ASSUME CrashProcess \/ CrashStore PROVE PayloadOK'
  BY <1>0, <1>13, CrashStep, PayloadKept DEF Fate
<1>14. CASE Waiting
  <2>1. \A g \in Files :
          \/ pc'[g] \in {"parse", "unparsed", "skipped", "dead"}
          \/ pc[g] \notin {"parse", "unparsed", "skipped", "dead"}
    BY <1>14, WaitingStep
  <2> QED
    BY <1>0, <1>14, <2>1, WaitingStep, PayloadKept
<1> QED
  BY <1>1, <1>2, <1>3, <1>4, <1>5, <1>6, <1>7, <1>8, <1>9, <1>10, <1>11, <1>12, <1>13, <1>14
     DEF Next, Handle, Waiting

-----------------------------------------------------------------------------
(* The batches of points.                                                  *)

\* Finitely many numbers have a greatest.
LEMMA GreatestOf ==
  ASSUME NEW B \in SUBSET Nat, IsFiniteSet(B), B # {}
  PROVE  \E i \in B : \A k \in B : k <= i
<1> DEFINE above(i) == {k \in B : k > i}
           T == {above(i) : i \in B}
<1>1. T \subseteq FiniteSubsetsOf(B)
  BY FS_Subset DEF FiniteSubsetsOf
<1>2. PICK x \in T : \A y \in T : <<y, x>> \notin StrictSubsetOrdering(B)
  <2>1. T # {}
    OBVIOUS
  <2> QED
    BY <1>1, <2>1, FS_StrictSubsetOrderingWellFounded, WFMin
<1>3. PICK i \in B : x = above(i)
  OBVIOUS
<1>4. ASSUME NEW k \in B, k > i PROVE FALSE
  <2>0. \A m \in B : m \in Nat
    OBVIOUS
  <2>1. above(k) \subseteq above(i)
    <3>1. ASSUME NEW m \in B, m > k PROVE m > i
      BY <1>4, <2>0, <3>1
    <3> QED
      BY <3>1
  <2>2. k \in above(i) /\ k \notin above(k)
    BY <1>4, <2>0
  <2>3. above(k) \in T
    OBVIOUS
  <2>4. <<above(k), x>> \in StrictSubsetOrdering(B)
    BY <1>3, <2>1, <2>2 DEF StrictSubsetOrdering
  <2> QED
    BY <1>2, <2>3, <2>4
<1> QED
  BY <1>4

\* The batch that a handler writes next.
Batch(f) == (written[f] + 1 .. written[f] + UpsertBatch) \cap DOMAIN payload[f]

\* It begins where the last one ended, and ends at the end of the file at most.
LEMMA BatchEnds ==
  ASSUME PayloadOK, NEW f \in Files, written[f] \in 0 .. Chunked(f)
  PROVE  \E m \in written[f] .. Chunked(f) :
           /\ Batch(f) = written[f] + 1 .. m
           /\ Cardinality(Batch(f)) = m - written[f]
<1> DEFINE w == written[f]
           n == Chunked(f)
           m == IF w + UpsertBatch <= n THEN w + UpsertBatch ELSE n
<1>1. n \in Nat /\ w \in Nat /\ w <= n /\ DOMAIN payload[f] = 1 .. n
  BY ChunkedNat
<1>2. UpsertBatch \in Nat \ {0}
  BY IndexingAssumption
<1>3. Batch(f) = (w + 1 .. w + UpsertBatch) \cap (1 .. n)
  BY <1>1 DEF Batch
<1> HIDE DEF w, n
<1>4. m \in w .. n /\ (w + 1 .. w + UpsertBatch) \cap (1 .. n) = w + 1 .. m
  BY <1>1, <1>2
<1> HIDE DEF m
<1>5. Cardinality(w + 1 .. m) = m - w
  <2>1. w + 1 \in Int /\ m \in Int /\ m >= w
    BY <1>1, <1>4
  <2>2. Cardinality(w + 1 .. m) = IF w + 1 > m THEN 0 ELSE m - (w + 1) + 1
    BY <2>1, FS_Interval
  <2> QED
    BY <1>1, <2>1, <2>2
<1> QED
  BY <1>3, <1>4, <1>5 DEF w, n

\* Of the chunks of a batch with one id, one is the newest.
Newer(f, id) ==
  CHOOSE i \in Batch(f) :
    IdOf(f, i) = id /\ \A k \in Batch(f) : IdOf(f, k) = id => k <= i

\* The newest chunk with an id is a chunk of the batch with that id.
LEMMA NewestIs ==
  ASSUME PayloadOK, NEW f \in Files, written[f] \in 0 .. Chunked(f),
         NEW id \in {IdOf(f, i) : i \in Batch(f)}
  PROVE  Newer(f, id) \in Batch(f) /\ IdOf(f, Newer(f, id)) = id
<1> DEFINE B == {i \in Batch(f) : IdOf(f, i) = id}
<1>1. PICK m \in written[f] .. Chunked(f) : Batch(f) = written[f] + 1 .. m
  BY BatchEnds
<1>2. written[f] \in Nat /\ m \in Nat
  BY <1>1, ChunkedNat
<1>3. B \in SUBSET Nat /\ IsFiniteSet(B) /\ B # {}
  <2>1. written[f] + 1 \in Int /\ m \in Int
    BY <1>2
  <2>2. IsFiniteSet(Batch(f))
    BY <1>1, <2>1, FS_Interval
  <2>3. IsFiniteSet(B)
    BY <2>2, FS_Subset
  <2>4. Batch(f) \subseteq Nat
    BY <1>1, <1>2
  <2> QED
    BY <2>3, <2>4
<1>4. PICK i \in B : \A k \in B : k <= i
  BY <1>3, GreatestOf
<1> QED
  BY <1>4 DEF Newer

-----------------------------------------------------------------------------
(* The types, step by step.                                                *)

\* The steps of the handlers that leave their chunks and their points alone.
Counting(f) ==
  Sum(f) \/ Commit(f) \/ HandOver(f) \/ Acquire(f) \/ Exists(f) \/ Create(f)
  \/ CreateIndex(f) \/ Release(f) \/ Upserted(f)
Ending(f) == Refused(f) \/ Fails(f)

\* Next by the parts of the state its steps touch.
LEMMA NextCases ==
  ASSUME Next
  PROVE  \/ \E f \in Files : Process(f) \/ Counting(f) \/ Upsert(f) \/ Ending(f)
         \/ Expire \/ CrashProcess \/ CrashStore \/ Waiting
BY DEF Next, Handle, Counting, Ending, Waiting

\* A handler writes the chunks it has, and starts over after an error.
LEMMA WrittenStep ==
  ASSUME IInv, Next, NEW g \in Files
  PROVE  written'[g] \in 0 .. Chunked(g)'
<1> USE DEF state, qdrant, counts, history
<1>0. /\ written[g] \in 0 .. Chunked(g) /\ Chunked(g) \in Nat
      /\ DOMAIN written = Files
  BY ChunkedNat DEF IInv, TypeOK, PayloadOK
<1>a. ASSUME UNCHANGED payload, written'[g] = written[g] \/ written'[g] = 0
      PROVE  written'[g] \in 0 .. Chunked(g)'
  BY <1>0, <1>a DEF Chunked
<1>1. ASSUME NEW f \in Files, Process(f) PROVE written'[g] \in 0 .. Chunked(g)'
  <2>1. written' = written
    BY <1>1 DEF Process
  <2>2. payload'[g] = payload[g] \/ payload'[g] = Parsed(g)
    BY <1>1 DEF Process, Parsed, IInv, PayloadOK
  <2>3. CASE Len(payload'[g]) = Chunked(g)
    BY <1>0, <2>1, <2>3 DEF Chunked
  <2>4. CASE Len(payload'[g]) # Chunked(g)
    <3>1. Chunked(g) = 0 /\ payload'[g] = Parsed(g)
      BY <2>2, <2>4, ChunkedNat DEF Chunked, IInv
    <3>2. Len(payload'[g]) \in Nat
      BY <3>1, ParsedShape DEF IInv
    <3>3. written'[g] = 0
      BY <1>0, <2>1, <3>1
    <3> QED
      BY <3>2, <3>3 DEF Chunked
  <2> QED
    BY <2>3, <2>4
<1>2. ASSUME NEW f \in Files, Counting(f) PROVE written'[g] \in 0 .. Chunked(g)'
  <2>1. UNCHANGED <<payload, written>>
    BY <1>2 DEF Counting, Sum, Commit, HandOver, Acquire, Exists, Create,
                CreateIndex, Release, Upserted
  <2> QED
    BY <1>a, <2>1
<1>3. ASSUME NEW f \in Files, Upsert(f) PROVE written'[g] \in 0 .. Chunked(g)'
  <2>1. UNCHANGED payload /\ written' = [written EXCEPT ![f] = @ + Cardinality(Batch(f))]
    BY <1>3 DEF Upsert, Batch
  <2>2. CASE g = f
    <3>1. PICK m \in written[f] .. Chunked(f) : Cardinality(Batch(f)) = m - written[f]
      BY <1>0, <2>2, BatchEnds DEF IInv
    <3>2. written'[f] = written[f] + (m - written[f])
      BY <1>0, <2>1, <2>2, <3>1
    <3>3. written'[f] = m
      BY <1>0, <2>2, <3>1, <3>2
    <3> QED
      BY <1>0, <2>1, <2>2, <3>1, <3>3 DEF Chunked
  <2>3. CASE g # f
    BY <1>a, <2>1, <2>3
  <2> QED
    BY <2>2, <2>3
<1>4. ASSUME NEW f \in Files, Ending(f) PROVE written'[g] \in 0 .. Chunked(g)'
  <2>1. UNCHANGED payload /\ written' = [written EXCEPT ![f] = 0]
    BY <1>4 DEF Ending, Refused, Fails, Again
  <2> QED
    BY <1>0, <1>a, <2>1
<1>5. ASSUME Expire \/ CrashProcess \/ CrashStore \/ Waiting
      PROVE  written'[g] \in 0 .. Chunked(g)'
  <2>1. UNCHANGED payload /\ (written'[g] = written[g] \/ written'[g] = 0)
    BY <1>5, CrashStep, WaitingStep DEF Expire, Fate
  <2> QED
    BY <1>a, <2>1
<1> QED
  BY <1>1, <1>2, <1>3, <1>4, <1>5, NextCases

\* The sum over the rows with the row of one file as it will be.
LEMMA SumWithNat ==
  ASSUME IInv, NEW f \in Files
  PROVE  /\ [row EXCEPT ![f] = Chunked(f)] \in [Files -> Nat]
         /\ SumWith(f) \in Nat /\ SumOf(row) \in Nat
<1>1. row \in [Files -> Nat] /\ Chunked(f) \in Nat
  BY ChunkedNat DEF IInv, TypeOK
<1>2. [row EXCEPT ![f] = Chunked(f)] \in [Files -> Nat]
  BY <1>1
<1> QED
  BY <1>1, <1>2, PairsFinite DEF SumWith

\* Every variable keeps its type.
LEMMA TypeStep ==
  ASSUME IInv, Next
  PROVE  TypeOK'
<1> USE DEF Goto, state, qdrant, counts, history, ProcessStage, StoreStage, Settled
<1>0. TypeOK
  BY DEF IInv
<1>w. \A g \in Files : (written[g] \in 0 .. Chunked(g))'
  BY WrittenStep
<1>f. ASSUME Fault PROVE faults' \in 0 .. MaxFaults
  BY <1>0, <1>f, IndexingAssumption DEF Fault, TypeOK
<1>1. ASSUME NEW f \in Files, Process(f) PROVE TypeOK'
  BY <1>0, <1>1, <1>w DEF Process, TypeOK
<1>2. ASSUME NEW f \in Files, Counting(f) PROVE TypeOK'
  <2>1. CASE Sum(f)
    <3>1. SumWith(f) \in Nat
      BY SumWithNat
    <3>2. summed' \in [Files -> Nat] /\ overlapped' \in BOOLEAN
      BY <1>0, <2>1, <3>1 DEF Sum, TypeOK
    <3>3. pc' \in [Files -> ProcessStage \cup StoreStage
                     \cup Settled]
      BY <1>0, <2>1 DEF Sum, TypeOK
    <3> QED
      BY <1>0, <1>w, <2>1, <3>2, <3>3 DEF Sum, TypeOK
  <2>2. CASE Commit(f)
    <3>1. row' \in [Files -> Nat] /\ total' \in Nat
      BY <1>0, <2>2, SumWithNat DEF Commit, TypeOK
    <3>2. summed' \in [Files -> Nat]
      BY <1>0, <2>2 DEF Commit, TypeOK
    <3>3. pc' \in [Files -> ProcessStage \cup StoreStage
                     \cup Settled]
      BY <1>0, <2>2 DEF Commit, TypeOK
    <3> QED
      BY <1>0, <1>w, <2>2, <3>1, <3>2, <3>3 DEF Commit, TypeOK
  <2>3. CASE HandOver(f)
    <3>1. retries' \in [Files -> 0 .. MaxRetries]
      BY <1>0, <2>3, IndexingAssumption DEF HandOver, TypeOK
    <3> QED
      BY <1>0, <1>w, <2>3, <3>1 DEF HandOver, TypeOK
  <2>4. CASE Acquire(f) \/ Exists(f) \/ Create(f)
    BY <1>0, <1>w, <2>4 DEF Acquire, Exists, Create, TypeOK
  <2>5. CASE CreateIndex(f) \/ Release(f) \/ Upserted(f)
    BY <1>0, <1>w, <2>5 DEF CreateIndex, Release, Upserted, TypeOK
  <2> QED
    BY <1>2, <2>1, <2>2, <2>3, <2>4, <2>5 DEF Counting
<1>3. ASSUME NEW f \in Files, Upsert(f) PROVE TypeOK'
  <2>1. UNCHANGED <<state, pc, lock, collection, counts, faults, history>>
    BY <1>3 DEF Upsert
  <2> QED
    BY <1>0, <1>w, <2>1 DEF TypeOK
<1>4. ASSUME NEW f \in Files, Ending(f) PROVE TypeOK'
  <2>1. Again(f) /\ lock' \in {lock, Nobody} /\ (faults' = faults \/ Fault)
    BY <1>4 DEF Ending, Refused, Fails
  <2>2. retries' \in [Files -> 0 .. MaxRetries]
    BY <1>0, <2>1, IndexingAssumption DEF Again, TypeOK
  <2>3. summed' \in [Files -> Nat] /\ broken' \in BOOLEAN
    BY <1>0, <2>1 DEF Again, TypeOK
  <2>4. pc' \in [Files -> ProcessStage \cup StoreStage
                   \cup Settled]
    BY <1>0, <2>1 DEF Again, TypeOK
  <2>5. /\ UNCHANGED <<down, collection, row, total, joined, overlapped>>
        /\ reclaimed' \subseteq Files
    BY <1>0, <2>1 DEF Again, TypeOK
  <2>6. faults' \in 0 .. MaxFaults
    BY <1>0, <1>f, <2>1 DEF TypeOK
  <2> QED
    BY <1>0, <1>w, <2>1, <2>2, <2>3, <2>4, <2>5, <2>6 DEF TypeOK
<1>5. ASSUME Expire PROVE TypeOK'
  <2>1. joined' \in BOOLEAN
    BY <1>0, <1>5 DEF Expire, TypeOK
  <2> QED
    BY <1>0, <1>5, <1>w, <2>1 DEF Expire, TypeOK
<1>6. ASSUME CrashProcess \/ CrashStore PROVE TypeOK'
  BY <1>0, <1>6, <1>w, CrashStep DEF TypeOK
<1>7. CASE Waiting
  BY <1>0, <1>7, <1>w, WaitingStep DEF TypeOK
<1> QED
  BY <1>1, <1>2, <1>3, <1>4, <1>5, <1>6, <1>7, NextCases

-----------------------------------------------------------------------------
(* The sums.                                                               *)

\* A step that leaves the rows, the total and the chunks alone, and begins no
\* transaction.
LEMMA SumsKept ==
  ASSUME SumsOK, UNCHANGED <<row, total, payload>>, overlapped' = overlapped,
         \A f \in Files : Summing(f)' => Summing(f) /\ summed'[f] = summed[f]
  PROVE  SumsOK'
BY DEF SumsOK, SumWith, SumOf, Chunked, TotalRight

\* Process changes the chunks of a file that is not being summed.
LEMMA SumsProcess ==
  ASSUME IInv, NEW f \in Files, Process(f)
  PROVE  SumsOK'
<1> USE DEF Goto, state, qdrant, counts, history
<1>1. UNCHANGED <<row, summed, total, overlapped>>
  BY DEF Process
<1>2. \A g \in Files : Summing(g)' => Summing(g) /\ g # f
  BY DEF Process, Summing, IInv, TypeOK
<1>3. ASSUME NEW g \in Files, g # f PROVE SumWith(g)' = SumWith(g)
  <2>1. payload'[g] = payload[g]
    BY <1>3 DEF Process, IInv, PayloadOK
  <2> QED
    BY <1>1, <2>1 DEF SumWith, SumOf, Chunked
<1>4. TotalRight'
  BY <1>1 DEF IInv, SumsOK, TotalRight, SumOf
<1> QED
  BY <1>1, <1>2, <1>3, <1>4 DEF IInv, SumsOK

\* A transaction that reads the sum while no other is open has it right.
LEMMA SumsSum ==
  ASSUME IInv, NEW f \in Files, Sum(f)
  PROVE  SumsOK'
<1> USE DEF Goto, state, qdrant, counts, history
<1>1. UNCHANGED <<row, total, payload>>
  BY DEF Sum
<1>2. \A g \in Files : SumWith(g)' = SumWith(g)
  BY <1>1 DEF SumWith, SumOf, Chunked
<1>3. /\ summed'[f] = SumWith(f)
      /\ \A g \in Files : g # f => summed'[g] = summed[g] /\ (Summing(g)' <=> Summing(g))
  BY DEF Sum, Summing, IInv, TypeOK
<1>4. overlapped' <=> (overlapped \/ \E g \in Files : Summing(g))
  BY DEF Sum, Summing
<1>5. SumWith(f) \in Nat
  BY SumWithNat
<1>6. TotalRight'
  BY <1>1, <1>4 DEF IInv, SumsOK, TotalRight, SumOf
<1>7. ASSUME NEW g \in Files, Summing(g)'
      PROVE  summed'[g] <= SumWith(g)' /\ (overlapped' \/ summed'[g] = SumWith(g)')
  <2>1. CASE g = f
    BY <1>2, <1>3, <1>5, <2>1
  <2>2. CASE g # f
    BY <1>2, <1>3, <1>4, <1>7, <2>2 DEF IInv, SumsOK
  <2> QED
    BY <2>1, <2>2
<1>8. overlapped' \/ \A g, h \in Files : Summing(g)' /\ Summing(h)' => g = h
  <2>1. ASSUME ~overlapped', NEW g \in Files, NEW h \in Files, Summing(g)', Summing(h)'
        PROVE  g = h
    BY <1>3, <1>4, <2>1
  <2> QED
    BY <2>1
<1> QED
  BY <1>6, <1>7, <1>8 DEF SumsOK

\* The row grows with the total, or a total that was too small stays so.
LEMMA SumsCommit ==
  ASSUME IInv, NEW f \in Files, Commit(f)
  PROVE  SumsOK'
<1> USE DEF Goto, state, qdrant, counts, history
<1>0. Summing(f)
  BY DEF Commit, Summing
<1>1. /\ UNCHANGED <<payload, overlapped>>
      /\ row' = [row EXCEPT ![f] = Chunked(f)] /\ total' = summed[f]
  BY DEF Commit
<1>2. SumOf(row)' = SumWith(f)
  BY <1>1 DEF SumWith, SumOf
<1>3. TotalRight'
  BY <1>0, <1>1, <1>2 DEF IInv, SumsOK, TotalRight
<1>4. \A g \in Files : Summing(g)' => g # f /\ Summing(g) /\ summed'[g] = summed[g]
  BY DEF Commit, Summing, IInv, TypeOK
<1>5. ASSUME NEW g \in Files, Summing(g)'
      PROVE  summed'[g] <= SumWith(g)' /\ overlapped
  <2>1. overlapped
    BY <1>0, <1>4, <1>5 DEF IInv, SumsOK
  <2> DEFINE r == [row EXCEPT ![g] = Chunked(g)]
             s == [row EXCEPT ![f] = Chunked(f), ![g] = Chunked(g)]
  <2>2. r \in [Files -> Nat] /\ s \in [Files -> Nat]
    BY ChunkedNat DEF IInv, TypeOK
  <2>3. \A h \in Files : r[h] <= s[h]
    <3>1. row \in [Files -> Nat] /\ Chunked(f) \in Nat /\ Chunked(g) \in Nat
      BY ChunkedNat DEF IInv, TypeOK
    <3>2. row[f] <= Chunked(f)
      BY <3>1 DEF IInv, PayloadOK
    <3> QED
      BY <3>1, <3>2
  <2>4. SumWith(g) = SumOf(r) /\ SumWith(g)' = SumOf(s)
    BY <1>1 DEF SumWith, SumOf, Chunked
  <2>5. SumOf(r) <= SumOf(s) /\ SumOf(r) \in Nat /\ SumOf(s) \in Nat
    BY <2>2, <2>3, SumGrows, PairsFinite
  <2>6. summed[g] <= SumWith(g) /\ summed[g] \in Nat
    BY <1>4, <1>5 DEF IInv, SumsOK, TypeOK
  <2> HIDE DEF r, s
  <2> QED
    BY <1>4, <1>5, <2>1, <2>4, <2>5, <2>6
<1>6. overlapped' \/ \A g, h \in Files : Summing(g)' /\ Summing(h)' => g = h
  BY <1>1, <1>4 DEF IInv, SumsOK
<1> QED
  BY <1>1, <1>3, <1>5, <1>6 DEF SumsOK

\* Every step keeps the total right.
LEMMA SumsStep ==
  ASSUME IInv, Next
  PROVE  SumsOK'
<1> USE DEF Goto, state, qdrant, counts, history
<1>0. SumsOK
  BY DEF IInv
<1>1. ASSUME NEW f \in Files, Process(f) PROVE SumsOK'
  BY <1>1, SumsProcess
<1>2. ASSUME NEW f \in Files, Counting(f) PROVE SumsOK'
  <2>1. CASE Sum(f)
    BY <2>1, SumsSum
  <2>2. CASE Commit(f)
    BY <2>2, SumsCommit
  <2>3. CASE \/ HandOver(f) \/ Acquire(f) \/ Exists(f) \/ Create(f)
             \/ CreateIndex(f) \/ Release(f) \/ Upserted(f)
    <3>1. UNCHANGED <<row, total, payload, summed, overlapped>>
      BY <2>3 DEF HandOver, Acquire, Exists, Create, CreateIndex, Release, Upserted
    <3>2. \A g \in Files : Summing(g)' => Summing(g)
      BY <2>3 DEF HandOver, Acquire, Exists, Create, CreateIndex, Release, Upserted,
                  Summing, IInv, TypeOK
    <3> QED
      BY <1>0, <3>1, <3>2, SumsKept
  <2> QED
    BY <1>2, <2>1, <2>2, <2>3 DEF Counting
<1>3. ASSUME NEW f \in Files, Upsert(f) PROVE SumsOK'
  <2>1. UNCHANGED <<row, total, payload, summed, overlapped, pc>>
    BY <1>3 DEF Upsert
  <2> QED
    BY <1>0, <2>1, SumsKept DEF Summing
<1>4. ASSUME NEW f \in Files, Ending(f) PROVE SumsOK'
  <2>1. UNCHANGED <<row, total, payload, overlapped>>
    BY <1>4 DEF Ending, Refused, Fails, Again
  <2>2. \A g \in Files : Summing(g)' => Summing(g) /\ summed'[g] = summed[g]
    BY <1>4 DEF Ending, Refused, Fails, Again, Summing, IInv, TypeOK
  <2> QED
    BY <1>0, <2>1, <2>2, SumsKept
<1>5. ASSUME Expire PROVE SumsOK'
  BY <1>0, <1>5, SumsKept DEF Expire, Summing
<1>6. ASSUME CrashProcess \/ CrashStore PROVE SumsOK'
  BY <1>0, <1>6, CrashStep, SumsKept DEF Summing, Fate
<1>7. CASE Waiting
  BY <1>0, <1>7, WaitingStep, SumsKept DEF Summing
<1> QED
  BY <1>1, <1>2, <1>3, <1>4, <1>5, <1>6, <1>7, NextCases

-----------------------------------------------------------------------------
(* The lock and the collection.                                            *)

\* Who enters has the lock, and only its expiry lets a second one in.
LEMMA LockStep ==
  ASSUME IInv, Next
  PROVE  Locked'
<1> USE DEF Goto, state, qdrant, counts, history, Inside
<1>0. /\ joined \/ \A f \in Files : Inside(f) => lock = f
      /\ Nobody \notin Files /\ DOMAIN pc = Files
  BY IndexingAssumption DEF IInv, Locked, TypeOK
<1>1. ASSUME NEW f \in Files, Process(f) PROVE Locked'
  BY <1>0, <1>1 DEF Process, Locked
<1>2. ASSUME NEW f \in Files, Counting(f) PROVE Locked'
  <2>1. CASE Sum(f) \/ Commit(f) \/ HandOver(f) \/ Upserted(f)
    BY <1>0, <2>1 DEF Sum, Commit, HandOver, Upserted, Locked
  <2>2. CASE Acquire(f)
    BY <1>0, <2>2 DEF Acquire, Locked
  <2>3. CASE Exists(f) \/ Create(f) \/ CreateIndex(f)
    BY <1>0, <2>3 DEF Exists, Create, CreateIndex, Locked
  <2>4. CASE Release(f)
    BY <1>0, <2>4 DEF Release, Locked
  <2> QED
    BY <1>2, <2>1, <2>2, <2>3, <2>4 DEF Counting
<1>3. ASSUME NEW f \in Files, Upsert(f) PROVE Locked'
  <2>1. UNCHANGED <<pc, lock, joined>>
    BY <1>3 DEF Upsert
  <2> QED
    BY <1>0, <2>1 DEF Locked
<1>4. ASSUME NEW f \in Files, Ending(f) PROVE Locked'
  <2>1. /\ lock' = IF lock = f /\ Inside(f) THEN Nobody ELSE lock
        /\ joined' = joined
    BY <1>4 DEF Ending, Refused, Fails, Again
  <2>2. ~Inside(f)' /\ \A g \in Files : g # f => (Inside(g)' <=> Inside(g))
    BY <1>0, <1>4 DEF Ending, Refused, Fails, Again
  <2> QED
    BY <1>0, <2>1, <2>2 DEF Locked
<1>5. ASSUME Expire PROVE Locked'
  BY <1>0, <1>5 DEF Expire, Locked
<1>6. ASSUME CrashProcess \/ CrashStore PROVE Locked'
  <2>1. UNCHANGED <<lock, joined>> /\ \A g \in Files : Inside(g)' => Inside(g)
    BY <1>6, CrashStep DEF Fate
  <2> QED
    BY <1>0, <2>1 DEF Locked
<1>7. CASE Waiting
  <2>1. UNCHANGED <<lock, joined>> /\ \A g \in Files : Inside(g)' => Inside(g)
    BY <1>7, WaitingStep
  <2> QED
    BY <1>0, <2>1 DEF Locked
<1> QED
  BY <1>1, <1>2, <1>3, <1>4, <1>5, <1>6, <1>7, NextCases

\* A handler that leaves the lock behind has found, or made, the collection with
\* its index.
LEMMA ReadyStep ==
  ASSUME IInv, Next
  PROVE  Ready'
<1> USE DEF Goto, state, qdrant, counts, history
<1> DEFINE Past == {"release", "upsert"}
<1>1. CASE joined \/ broken
  <2>1. joined' \/ broken'
    <3>1. ASSUME NEW f \in Files, Ending(f) PROVE joined' \/ broken'
      BY <1>1, <3>1 DEF Ending, Refused, Fails, Again
    <3>2. ASSUME NEW f \in Files, Process(f) \/ Upsert(f) PROVE joined' \/ broken'
      BY <1>1, <3>2 DEF Process, Upsert
    <3>3. ASSUME NEW f \in Files, Counting(f) PROVE joined' \/ broken'
      BY <1>1, <3>3 DEF Counting, Sum, Commit, HandOver, Acquire, Exists, Create,
                        CreateIndex, Release, Upserted
    <3>4. ASSUME Expire \/ CrashProcess \/ CrashStore \/ Waiting PROVE joined' \/ broken'
      BY <1>1, <3>4, CrashStep, WaitingStep DEF Expire
    <3> QED
      BY <3>1, <3>2, <3>3, <3>4, NextCases
  <2> QED
    BY <2>1 DEF Ready
<1>2. CASE ~joined /\ ~broken
  <2>0. /\ \A f \in Files : pc[f] \in Past => collection = "indexed"
        /\ collection = "bare" => \E f \in Files : pc[f] = "index"
        /\ \A f \in Files : Inside(f) => lock = f
        /\ DOMAIN pc = Files /\ collection \in {"none", "bare", "indexed"}
    BY <1>2 DEF IInv, Ready, Locked, TypeOK
  <2>a. ASSUME collection' = collection,
               \A g \in Files : pc'[g] \in Past => pc[g] \in Past \/ collection = "indexed",
               \A g \in Files : pc[g] = "index" => pc'[g] = "index" \/ broken'
        PROVE  Ready'
    BY <2>0, <2>a DEF Ready
  <2>1. ASSUME NEW f \in Files, Process(f) PROVE Ready'
    BY <2>0, <2>1, <2>a DEF Process
  <2>2. ASSUME NEW f \in Files, Counting(f) PROVE Ready'
    <3>1. CASE Sum(f) \/ Commit(f) \/ HandOver(f) \/ Acquire(f) \/ Upserted(f)
      BY <2>0, <2>a, <3>1 DEF Sum, Commit, HandOver, Acquire, Upserted
    <3>2. CASE Exists(f)
      <4>1. collection = "bare" => FALSE
        <5>1. ASSUME NEW g \in Files, pc[g] = "index" PROVE FALSE
          BY <2>0, <3>2, <5>1 DEF Exists, Inside
        <5> QED
          BY <2>0, <5>1
      <4> QED
        BY <2>0, <2>a, <3>2, <4>1 DEF Exists
    <3>3. CASE Create(f)
      <4>1. collection' = "bare" /\ pc'[f] = "index"
        BY <2>0, <3>3 DEF Create
      <4>2. \A g \in Files : pc'[g] \notin Past
        BY <2>0, <3>3 DEF Create
      <4> QED
        BY <4>1, <4>2 DEF Ready
    <3>4. CASE CreateIndex(f)
      BY <3>4 DEF CreateIndex, Ready
    <3>5. CASE Release(f)
      BY <2>0, <2>a, <3>5 DEF Release
    <3> QED
      BY <2>2, <3>1, <3>2, <3>3, <3>4, <3>5 DEF Counting
  <2>3. ASSUME NEW f \in Files, Upsert(f) PROVE Ready'
    <3>1. UNCHANGED <<pc, collection>>
      BY <2>3 DEF Upsert
    <3> QED
      BY <2>a, <3>1
  <2>4. ASSUME NEW f \in Files, Ending(f) PROVE Ready'
    BY <2>0, <2>4, <2>a DEF Ending, Refused, Fails, Again
  <2>5. ASSUME Expire PROVE Ready'
    BY <2>5, <2>a DEF Expire
  <2>6. ASSUME CrashProcess \/ CrashStore PROVE Ready'
    BY <2>6, <2>a, CrashStep DEF Fate
  <2>7. CASE Waiting
    BY <2>7, <2>a, WaitingStep
  <2> QED
    BY <2>1, <2>2, <2>3, <2>4, <2>5, <2>6, <2>7, NextCases
<1> QED
  BY <1>1, <1>2

-----------------------------------------------------------------------------
(* The points.                                                             *)

\* A step that leaves the chunks and the points alone.
LEMMA PointsKept ==
  ASSUME PointsOK, UNCHANGED <<payload, points>>,
         \A f \in Files :
           /\ written'[f] \in {written[f], 0}
           /\ pc'[f] \in {"recount", "recounted", "done"} =>
                written'[f] = written[f] /\ written[f] = Chunked(f)
  PROVE  PointsOK'
<1>1. \A f \in Files : \A i : IdOf(f, i)' = IdOf(f, i)
  BY DEF IdOf
<1>2. \A f \in Files : \A id : OwnVector(f, id)' <=> OwnVector(f, id)
  BY DEF OwnVector, IdOf
<1>3. \A f \in Files : Chunked(f)' = Chunked(f)
  BY DEF Chunked
<1>4. \A f \in Files : \A i \in 1 .. written'[f] : i \in 1 .. written[f]
  <2>1. ASSUME NEW f \in Files, written'[f] = 0, NEW i \in 1 .. written'[f]
        PROVE  FALSE
    BY <2>1
  <2> QED
    BY <2>1
<1> QED
  BY <1>1, <1>2, <1>3, <1>4 DEF PointsOK

\* A file whose chunks have points has its chunks in hand for good.
LEMMA PointsProcess ==
  ASSUME IInv, PayloadOK', NEW f \in Files, Process(f)
  PROVE  PointsOK'
<1> USE DEF Goto, state, qdrant, counts, history
<1>1. UNCHANGED <<source, points, written>>
  BY DEF Process
<1>2. \A g \in Files : payload'[g] = payload[g] \/ Chunked(g) = 0
  <2>1. \A g \in Files : payload'[g] = payload[g] \/ payload'[g] = Parsed(g)
    BY DEF Process, Parsed, IInv, PayloadOK
  <2> QED
    BY <2>1, ChunkedNat DEF IInv
<1>3. ASSUME NEW g \in Files, payload'[g] = payload[g]
      PROVE  /\ \A id \in DOMAIN points'[g] : OwnVector(g, id)'
             /\ \A i \in 1 .. written'[g] : IdOf(g, i)' \in DOMAIN points'[g]
             /\ Chunked(g)' = Chunked(g)
  BY <1>1, <1>3 DEF IInv, PointsOK, OwnVector, IdOf, Chunked
<1>4. ASSUME NEW g \in Files, Chunked(g) = 0
      PROVE  /\ DOMAIN points'[g] = {} /\ 1 .. written'[g] = {}
             /\ pc[g] \in {"recount", "recounted", "done"} => payload'[g] = payload[g]
  <2>1. DOMAIN payload[g] = {}
    <3>1. DOMAIN payload[g] = 1 .. 0
      BY <1>4, ChunkedNat DEF IInv
    <3> QED
      BY <3>1
  <2>2. DOMAIN points[g] = {}
    BY <2>1 DEF IInv, PointsOK, OwnVector
  <2>3. written[g] = 0
    BY <1>4 DEF IInv, TypeOK
  <2>4. pc[g] \in {"recount", "recounted", "done"} => g # f /\ payload'[g] = payload[g]
    BY DEF Process, IInv, PayloadOK
  <2> QED
    BY <1>1, <2>2, <2>3, <2>4
<1>5. \A g \in Files : pc'[g] \in {"recount", "recounted", "done"} =>
        pc[g] \in {"recount", "recounted", "done"}
  BY DEF Process, IInv, TypeOK
<1> QED
  BY <1>1, <1>2, <1>3, <1>4, <1>5 DEF IInv, PointsOK

\* A batch writes each point with the vector of its newest chunk.
LEMMA PointsUpsert ==
  ASSUME IInv, NEW f \in Files, Upsert(f)
  PROVE  PointsOK'
<1> USE DEF state, counts, history
<1> DEFINE ids == {IdOf(f, i) : i \in Batch(f)}
<1>0. /\ DOMAIN points = Files /\ DOMAIN written = Files
      /\ written[f] \in 0 .. Chunked(f) /\ Chunked(f) \in Nat
      /\ DOMAIN payload[f] = 1 .. Chunked(f)
  BY ChunkedNat DEF IInv, TypeOK, PayloadOK
<1>1. UNCHANGED <<payload, pc>> /\ pc[f] = "upsert"
  BY DEF Upsert
<1>2. written' = [written EXCEPT ![f] = @ + Cardinality(Batch(f))]
  BY DEF Upsert, Batch
<1>3. points'[f] = [id \in DOMAIN points[f] \cup ids |->
                      IF id \in ids THEN payload[f][Newer(f, id)].vector
                      ELSE points[f][id]]
  BY <1>0 DEF Upsert, Batch, Newer
<1>4. \A g \in Files : g # f => points'[g] = points[g] /\ written'[g] = written[g]
  BY <1>0, <1>2 DEF Upsert
<1>5. \A g \in Files : \A i : IdOf(g, i)' = IdOf(g, i)
  BY <1>1 DEF IdOf
<1>6. ASSUME NEW id \in DOMAIN points'[f] PROVE OwnVector(f, id)'
  <2>1. CASE id \in ids
    <3>1. PICK i \in Batch(f) : i = Newer(f, id) /\ IdOf(f, i) = id
      BY <1>0, <2>1, NewestIs DEF IInv
    <3>2. i \in DOMAIN payload[f] /\ payload[f][i].vector = Vector(payload[f][i].chunk)
      <4>1. i \in DOMAIN payload[f] /\ payload[f] = Parsed(f)
        BY <1>1, <3>1 DEF Batch, IInv, PayloadOK
      <4> QED
        BY <4>1, ParsedShape DEF IInv
    <3>3. points'[f][id] = payload[f][i].vector
      BY <1>3, <2>1, <3>1
    <3> QED
      BY <1>1, <1>5, <3>1, <3>2, <3>3 DEF OwnVector
  <2>2. CASE id \notin ids
    <3>1. id \in DOMAIN points[f] /\ points'[f][id] = points[f][id]
      BY <1>3, <1>6, <2>2
    <3>2. OwnVector(f, id)
      BY <3>1 DEF IInv, PointsOK
    <3> QED
      BY <1>1, <1>5, <3>1, <3>2 DEF OwnVector
  <2> QED
    BY <2>1, <2>2
<1>7. ASSUME NEW i \in 1 .. written'[f] PROVE IdOf(f, i)' \in DOMAIN points'[f]
  <2>1. PICK m \in written[f] .. Chunked(f) :
          Batch(f) = written[f] + 1 .. m /\ Cardinality(Batch(f)) = m - written[f]
    BY <1>0, BatchEnds DEF IInv
  <2>2. written'[f] = m
    <3>1. written'[f] = written[f] + (m - written[f])
      BY <1>0, <1>2, <2>1
    <3> QED
      BY <1>0, <2>1, <3>1
  <2>3. i \in 1 .. written[f] \/ i \in Batch(f)
    BY <1>0, <1>7, <2>1, <2>2
  <2>4. i \in 1 .. written[f] => IdOf(f, i) \in DOMAIN points[f]
    BY DEF IInv, PointsOK
  <2> QED
    BY <1>3, <1>5, <2>3, <2>4
<1>8. ASSUME NEW g \in Files, g # f
      PROVE  /\ \A id \in DOMAIN points'[g] : OwnVector(g, id)'
             /\ \A i \in 1 .. written'[g] : IdOf(g, i)' \in DOMAIN points'[g]
  BY <1>1, <1>4, <1>5, <1>8 DEF IInv, PointsOK, OwnVector
<1>9. \A g \in Files : pc'[g] \in {"recount", "recounted", "done"} =>
        written'[g] = Chunked(g)'
  BY <1>1, <1>4 DEF IInv, PointsOK, Chunked
<1> QED
  BY <1>6, <1>7, <1>8, <1>9 DEF PointsOK

\* Every step keeps the points and what they stand for.
LEMMA PointsStep ==
  ASSUME IInv, Next, PayloadOK'
  PROVE  PointsOK'
<1> USE DEF Goto, state, qdrant, counts, history
<1> DEFINE Counted == {"recount", "recounted", "done"}
<1>0. PointsOK /\ DOMAIN pc = Files /\ DOMAIN written = Files
  BY DEF IInv, TypeOK, PayloadOK
<1>a. \A g \in Files : pc[g] \in Counted => written[g] = Chunked(g)
  BY <1>0 DEF PointsOK
<1>1. ASSUME NEW f \in Files, Process(f) PROVE PointsOK'
  BY <1>1, PointsProcess
<1>2. ASSUME NEW f \in Files, Counting(f) PROVE PointsOK'
  <2>1. UNCHANGED <<payload, points, written>>
    BY <1>2 DEF Counting, Sum, Commit, HandOver, Acquire, Exists, Create,
                CreateIndex, Release, Upserted
  <2>2. \A g \in Files : pc'[g] \in Counted => written[g] = Chunked(g)
    BY <1>0, <1>2, <1>a DEF Counting, Sum, Commit, HandOver, Acquire, Exists, Create,
                CreateIndex, Release, Upserted
  <2> QED
    BY <1>0, <2>1, <2>2, PointsKept
<1>3. ASSUME NEW f \in Files, Upsert(f) PROVE PointsOK'
  BY <1>3, PointsUpsert
<1>4. ASSUME NEW f \in Files, Ending(f) PROVE PointsOK'
  <2>1. UNCHANGED <<payload, points>> /\ written' = [written EXCEPT ![f] = 0]
    BY <1>4 DEF Ending, Refused, Fails, Again
  <2>2. pc'[f] \notin Counted /\ \A g \in Files : g # f => pc'[g] = pc[g]
    BY <1>0, <1>4 DEF Ending, Refused, Fails, Again
  <2> QED
    BY <1>0, <1>a, <2>1, <2>2, PointsKept
<1>5. ASSUME Expire PROVE PointsOK'
  BY <1>0, <1>5, <1>a, PointsKept DEF Expire
<1>6. ASSUME CrashProcess \/ CrashStore PROVE PointsOK'
  <2>1. UNCHANGED <<payload, points>>
    BY <1>6, CrashStep DEF Fate
  <2>2. \A g \in Files :
          /\ written'[g] \in {written[g], 0}
          /\ pc'[g] \in Counted => pc[g] \in Counted /\ written'[g] = written[g]
    BY <1>6, CrashStep DEF Fate
  <2> QED
    BY <1>0, <1>a, <2>1, <2>2, PointsKept
<1>7. CASE Waiting
  <2>1. UNCHANGED <<payload, points, written>>
    BY <1>7, WaitingStep
  <2>2. \A g \in Files : pc'[g] \in Counted => pc[g] \in Counted
    BY <1>7, WaitingStep
  <2> QED
    BY <1>0, <1>a, <2>1, <2>2, PointsKept
<1> QED
  BY <1>1, <1>2, <1>3, <1>4, <1>5, <1>6, <1>7, NextCases

-----------------------------------------------------------------------------
(* The invariant and what follows from it.                                 *)

\* A repository that has not been touched satisfies it.
LEMMA InitInv == Init => IInv
<1> SUFFICES ASSUME Init PROVE IInv
  OBVIOUS
<1> USE DEF Init
<1>1. TypeOK
  <2>1. \A f \in Files : written[f] \in 0 .. Chunked(f)
    BY DEF Chunked
  <2>2. /\ pc \in [Files -> ProcessStage \cup StoreStage
                         \cup Settled]
        /\ retries \in [Files -> 0 .. MaxRetries] /\ faults \in 0 .. MaxFaults
    BY IndexingAssumption DEF ProcessStage, Settled
  <2>3. row \in [Files -> Nat] /\ summed \in [Files -> Nat] /\ total \in Nat
    OBVIOUS
  <2>4. {joined, broken, overlapped} \subseteq BOOLEAN
    OBVIOUS
  <2> QED
    BY <2>1, <2>2, <2>3, <2>4 DEF TypeOK
<1>2. PayloadOK
  BY DEF PayloadOK
<1>3. SumsOK
  BY SumOfNothing DEF SumsOK, Summing, TotalRight
<1>4. Locked /\ Ready
  BY DEF Locked, Ready, Inside
<1>5. PointsOK
  BY DEF PointsOK, Chunked
<1> QED
  BY <1>1, <1>2, <1>3, <1>4, <1>5 DEF IInv

\* The invariant is inductive.
LEMMA StepKeeps == IInv /\ [Next]_vars => IInv'
<1> SUFFICES ASSUME IInv, [Next]_vars PROVE IInv'
  OBVIOUS
<1>1. CASE Next
  BY <1>1, TypeStep, PayloadStep, SumsStep, LockStep, ReadyStep, PointsStep DEF IInv
<1>2. CASE UNCHANGED vars
  BY <1>2 DEF IInv, vars, state, qdrant, counts, history, TypeOK, PayloadOK, SumsOK,
     Locked, Ready, PointsOK, Chunked, Parsed, Summing, SumWith, SumOf, TotalRight,
     Inside, OwnVector, IdOf
<1> QED
  BY <1>1, <1>2

\* Whatever the workers and the faults do, the invariant holds.
LEMMA IndexingInvariant == Spec => []IInv
BY InitInv, StepKeeps, PTL DEF Spec

\* Every variable has its type.
THEOREM TypesHold == Spec => []TypeOK
BY IndexingInvariant, PTL DEF IInv

\* However the source is put together, every top-level definition and statement
\* reaches the store message in a chunk (walk and get_global_chunks).
THEOREM CodeIsCovered == Spec => []CodeCovered
<1>1. IInv => CodeCovered
  <2> SUFFICES ASSUME IInv, NEW f \in Files, pc[f] = "count",
                      NEW n \in TopLevel(source[f]),
                      source[f].type[n] \notin {"import", "enum"},
                      source[f].type[n] = "comment" => source[f].lang # "py"
               PROVE  \E i \in DOMAIN payload[f] :
                        \E k \in DOMAIN payload[f][i].chunk.code :
                          payload[f][i].chunk.code[k]
                            \in {Decoded(source[f], n), Sliced(source[f], n)}
    BY DEF CodeCovered
  <2>1. IsTree(source[f]) /\ payload[f] = Parsed(f)
    BY SourcesAssumption DEF IInv, PayloadOK
  <2>2. PICK i \in DOMAIN Chunks(source[f]) :
          \E k \in DOMAIN Chunks(source[f])[i].code :
            Chunks(source[f])[i].code[k] \in {Decoded(source[f], n), Sliced(source[f], n)}
    BY <2>1, NodeCovered
  <2>3. i \in DOMAIN payload[f] /\ payload[f][i].chunk = Chunks(source[f])[i]
    BY <2>1, <2>2, ParsedShape DEF IInv
  <2> QED
    BY <2>2, <2>3
<1> QED
  BY <1>1, IndexingInvariant, PTL

\* However often a handler starts its batches over, every point has the vector of
\* its own chunk, and a file that is done misses none (store_embeddings_batch).
THEOREM PointsAreRight == Spec => []PointsMatch
<1>1. IInv => PointsMatch
  <2> SUFFICES ASSUME IInv, NEW f \in Files, pc[f] = "done"
               PROVE  \A i \in DOMAIN payload[f] : IdOf(f, i) \in DOMAIN points[f]
    BY DEF IInv, PointsOK, PointsMatch
  <2>1. DOMAIN payload[f] = 1 .. written[f]
    BY ChunkedNat DEF IInv, PointsOK
  <2> QED
    BY <2>1 DEF IInv, PointsOK
<1> QED
  BY <1>1, IndexingInvariant, PTL

\* The lock around the making of the collection keeps points out of one without
\* its index, unless it expires or a call fails (store_embeddings_batch).
THEOREM IndexBeforePoints == Spec => []CollectionReady
<1>1. IInv => CollectionReady
  BY DEF IInv, Ready, CollectionReady
<1> QED
  BY <1>1, IndexingInvariant, PTL

\* The total of the repository is the sum over its files, and too small at worst
\* after two transactions overlapped (update_file_and_repo_chunks).
THEOREM TotalIsTheSum == Spec => []TotalRight
BY IndexingInvariant, PTL DEF IInv, SumsOK
=============================================================================
