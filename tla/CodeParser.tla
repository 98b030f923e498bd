----------------------------- MODULE CodeParser -----------------------------
(* How a source file becomes chunks: ParserManager.extract_chunks with the *)
(* strategies for Python and Java, and the id of the vector of a chunk.    *)
(*                                                                         *)
(* A file is the syntax tree below its module node, the nodes numbered in  *)
(* the order of the text:                                                  *)
(*   lang    the language the fetcher took from the extension              *)
(*   type    node -> its type, by the part it plays in the configuration:  *)
(*           function, class, enum, import, comment or statement           *)
(*   parent  node -> the node around it, 0 for the module                  *)
(*   label   node -> what tells its own text from that of other nodes      *)
(*   wide    the first node with a non-ASCII character, 0 for none         *)
EXTENDS Naturals, Sequences, FiniteSets

\* The languages that have a strategy; the others have only a configuration.
Strategies == {"py", "java"}

\* configs: an enum of Java scopes its methods and is no chunk itself.
Config(lang) ==
  [nodes   |-> {"function", "class"},
   parents |-> IF lang = "java" THEN {"class", "enum"} ELSE {"class"},
   imports |-> {"import"}]

Nodes(file) == DOMAIN file.type
TopLevel(file) == {n \in Nodes(file) : file.parent[n] = 0}

\* The trees that the grammars give: a node comes after the node around it.
IsTree(file) ==
  /\ file.type \in Seq({"function", "class", "enum", "import", "comment", "statement"})
  /\ \A n \in Nodes(file) : file.parent[n] \in 0 .. n - 1

\* Nodes one after the other in the text.
InOrder(nodes) ==
  [i \in 1 .. Cardinality(nodes) |->
     CHOOSE n \in nodes : Cardinality({m \in nodes : m <= n}) = i]

\* The last node of the subtree of n.
Final(file, n) ==
  LET inside[m \in Nodes(file)] ==
        m = n \/ (file.parent[m] # 0 /\ inside[file.parent[m]])
  IN  CHOOSE m \in Nodes(file) :
        inside[m] /\ \A k \in Nodes(file) : inside[k] => k <= m

Text(file, from, to) ==
  [i \in 1 .. to - from + 1 |->
     <<file.type[from + i - 1], file.label[from + i - 1]>>]

\* Code is a sequence of pieces of the text; walk decodes bytes.
Decoded(file, n) == [text |-> Text(file, n, Final(file, n)), shifted |-> FALSE]

\* get_global_chunks slices a string by byte offsets: right only if nothing
\* non-ASCII comes before the end of n.
Sliced(file, n) ==
  [text    |-> Text(file, n, Final(file, n)),
   shifted |-> file.wide # 0 /\ file.wide <= Final(file, n)]

-----------------------------------------------------------------------------

\* The scope handed down to n: the nearest node around it of a parent type.
Scope(file, n) ==
  LET scope[m \in Nodes(file)] ==
        LET p == file.parent[m]
        IN  IF p = 0 THEN 0
            ELSE IF file.type[p] \in Config(file.lang).parents THEN p
            ELSE scope[p]
  IN  scope[n]

\* walk: one chunk for every node of the configured types, in text order.
WalkChunks(file) ==
  LET found == {n \in Nodes(file) : file.type[n] \in Config(file.lang).nodes}
      order == InOrder(found)
  IN  [i \in DOMAIN order |->
         [type |-> file.type[order[i]], scope |-> Scope(file, order[i]),
          code |-> <<Decoded(file, order[i])>>, at |-> order[i]]]

\* What get_global_chunks leaves out.  Comments it knows by the node type
\* "comment", which the grammar of Java does not have.
Excluded(lang) ==
  LET c == Config(lang)
  IN  c.nodes \cup c.parents \cup c.imports
        \cup (IF lang = "py" THEN {"comment"} ELSE {})

\* Mutant: definitions at the top level only leave no global chunk.
GlobalIfNoDefinition(file) ==
  LET loose == {n \in TopLevel(file) : file.type[n] \notin Excluded(file.lang)}
      order == InOrder(loose)
  IN  IF loose = {} \/ \E n \in TopLevel(file) : file.type[n] = "function"
      THEN <<>>
      ELSE << [type |-> "global_logic", scope |-> 0,
               code |-> [i \in DOMAIN order |-> Sliced(file, order[i])],
               at |-> order[1]] >>

\* One chunk joins the other top-level nodes.
GlobalChunks(file) ==
  LET loose == {n \in TopLevel(file) : file.type[n] \notin Excluded(file.lang)}
      order == InOrder(loose)
  IN  IF loose = {} THEN <<>>
      ELSE << [type |-> "global_logic", scope |-> 0,
               code |-> [i \in DOMAIN order |-> Sliced(file, order[i])],
               at |-> order[1]] >>

\* A file without either is one chunk as a whole, unless it is blank.
Chunks(file) ==
  LET parts == WalkChunks(file) \o GlobalChunks(file)
  IN  IF parts = <<>> /\ Nodes(file) # {}
      THEN << [type |-> "module", scope |-> 0,
               at |-> 1,
               code |-> << [text |-> Text(file, 1, Cardinality(Nodes(file))),
                            shifted |-> FALSE] >>] >>
      ELSE parts

\* get_deterministic_id: equal code in one file has one id.
PointId(name, chunk) == <<name, chunk.code>>
=============================================================================
