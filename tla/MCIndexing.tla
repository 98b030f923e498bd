----------------------------- MODULE MCIndexing -----------------------------
EXTENDS Indexing, TLC

CONSTANTS f1, f2

Tree(lang, type, parent, label, wide) ==
  [lang |-> lang, type |-> type, parent |-> parent, label |-> label,
   wide |-> wide]

\* Two nodes, one inside the other or side by side; the labels are equal, so
\* that two functions side by side have one point.
Pairs ==
  {Tree("py", <<a, b>>, <<0, p>>, <<1, 1>>, 0) :
     a \in {"function", "class", "import", "statement"},
     b \in {"function", "import", "statement"}, p \in {0, 1}}

\* Methods of enums, comments, characters of several bytes, scopes in scopes,
\* three chunks, an empty file and a language without a strategy.
Special ==
  {Tree("java", <<"enum", "function">>, <<0, p>>, <<1, 1>>, 0) : p \in {0, 1}}
  \cup {Tree("java", <<"comment", "class">>, <<0, 0>>, <<1, 1>>, 0)}
  \cup {Tree("py", <<"statement", b>>, <<0, 0>>, <<1, 2>>, w) :
          b \in {"function", "comment", "statement"}, w \in {1, 2}}
  \cup {Tree("java", <<"class", b, "function">>, <<0, 1, 2>>, <<1, 1, 1>>, 0) :
          b \in {"class", "enum"}}
  \cup {Tree("py", <<"function", "function", "statement">>, <<0, 0, 0>>, l, 0) :
          l \in {<<1, 1, 1>>, <<1, 2, 3>>}}
  \cup {Tree("py", <<>>, <<>>, <<>>, 0), Tree("js", <<"function">>, <<0>>, <<1>>, 0)}

MCSources == f1 :> (Pairs \cup Special)
             @@ f2 :> {Tree("py", <<"function", "statement">>, <<0, 0>>, <<1, 2>>, 0)}
=============================================================================
