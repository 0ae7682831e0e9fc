---------------------------- MODULE MCGraphMerge ----------------------------
(* Small triples of graphs for GraphMerge. *)
EXTENDS GraphMerge

\* Node i of a graph is given as <<kind, name, text, parent>>, an access specifier as
\* <<"ACCESS_SPECIFIER", the label, "", parent>>.
Below(rows, i) == SelectSeq([j \in 1..Len(rows) |-> j], LAMBDA j : rows[j][4] = i)
IsLabel(row) == row[1] = "ACCESS_SPECIFIER"
\* setMemberAccessSpecifier: the first child of a class keeps "none".
Access(rows, i) ==
  LET kids == Below(rows, rows[i][4])
      labels == {j \in ToSet(kids) : j < i /\ IsLabel(rows[j])}
  IN  CASE rows[i][4] = 0 \/ IsLabel(rows[i]) \/ i = 1 -> "none"
        [] rows[i][4] # 0 /\ rows[rows[i][4]][1] # "TYPE" -> "none"
        [] OTHER -> IF kids[1] = i THEN "none"
                    ELSE IF labels = {} THEN "default" ELSE rows[Max(labels)][2]
\* The units and what is in them come in the order of a walk over the files.
FileOf(rows, i) == rows[Max({j \in 1..i : rows[j][1] = "TRANSLATION_UNIT"})][2]
Graph(rows, decls) ==
  LET blank(i) == [id |-> i, kind |-> rows[i][1], usr |-> "", path |-> FileOf(rows, i),
                   name |-> IF IsLabel(rows[i]) THEN "" ELSE rows[i][2],
                   body |-> rows[i][3], access |-> Access(rows, i), up |-> rows[i][4],
                   sig |-> rows[i][2], disp |-> rows[i][2], spec |-> "", params |-> <<>>,
                   types |-> <<>>, after |-> "",
                   def |-> "plain", unchanged |-> FALSE, parent |-> <<>>,
                   need |-> rows[i][1] = "TRANSLATION_UNIT", decls |-> decls,
                   kids |-> Below(rows, i)]
  IN  [i \in DOMAIN rows |-> IF rows[i][4] = 0 THEN blank(i)
                             ELSE [blank(i) EXCEPT !.parent = hashSignature(blank(rows[i][4]))]]
U == <<"TRANSLATION_UNIT", "f", "", 0>>
F(name, text, up) == <<"FUNC_DEF", name, text, up>>
C(text, up) == <<"ORPHAN_COMMENT", "", text, up>>
T(text, up) == <<"TEXTUAL", "", text, up>>
NS(name, up) == <<"NAMESPACE", name, "", up>>
Triple(b, o, t) == [base |-> Graph(b, <<>>), ours |-> Graph(o, <<>>), theirs |-> Graph(t, <<>>)]
Seqs(X, n) == UNION {[1..k -> X] : k \in 0..n}

\* Functions: one changed, renamed, deleted, moved and added, with a comment.
Functions == Triple(<<U, F("a", "1", 1), F("b", "1", 1), F("c", "1", 1)>>,
                    <<U, F("b", "1", 1), F("a", "2", 1), F("d", "1", 1)>>,
                    <<U, F("a", "1", 1), C("//", 1), F("e", "1", 1), F("g", "1", 1),
                      F("b", "3", 1), F("d", "4", 1), F("c", "1", 1)>>)
\* The same text in two places, the same comment twice, an extern "C" list.
Texts == Triple(<<U, T("using x", 1), NS("n", 1), T("y", 3), C("//", 3)>>,
                <<U, T("using x", 1), NS("n", 1), T("y", 3), C("//", 3), T("z", 3)>>,
                <<U, NS("n", 1), T("using x", 2), T("y", 2), T("z", 2), C("//", 2), C("//", 2),
                  <<"LINKAGE_SPEC_LIST", "", "", 1>>, F("l", "1", 8)>>)
\* A namespace that is reopened, with one in it whose member both sides rename.
Around(n, k, x) == <<NS(n, 1), NS(k, 2), F(x, "1", 3)>>
Outer == Triple(<<U>> \o Around("n", "n::k", "n::k::a") \o <<NS("n", 1), NS("n::l", 5), F("n::l::b", "1", 6)>>,
                <<U, NS("n", 1), NS("n::k", 2), NS("n", 1), NS("n::l", 4), F("n::l::a", "1", 5)>>,
                <<U>> \o Around("n", "n::l", "n::l::a"))

\* Both sides change a signature, also what stands behind the parameters; a
\* constructor is defaulted.
Sig(g, i, sig, spec, params, after, def) ==
  [g EXCEPT ![i].sig = sig, ![i].spec = spec, ![i].params = params, ![i].types = params,
            ![i].after = after, ![i].def = def]
Signatures(o, t, after) ==
  LET g == Graph(<<U, F("a", "1", 1), <<"FUNC_SPECIAL_MEMBER", "S", "", 1>>,
                   <<"ENUM", "E", "", 1>>>>, <<>>)
  IN  [base |-> Sig(Sig(g, 2, "a(x)", "", <<"x">>, "", "plain"), 3, "S(x)", "", <<"x">>, "", "plain"),
       ours |-> Sig(Sig(g, 2, o, "const", <<"x", "y">>, "noexcept", "plain"),
                    3, "S(x, y)", "", <<"x", "y">>, "", "defaulted"),
       theirs |-> Sig(Sig(g, 2, t, "", <<"z", "x">>, after, "plain"), 3, "S()", "", <<>>, "", "plain")]
\* Front declarations.
Lists == {<<>>, <<"i">>, <<"i", "j">>, <<"j", "i">>, <<"k", "i", "l">>}
Decls(b, o, t) == [base |-> Graph(<<U>>, b), ours |-> Graph(<<U>>, o), theirs |-> Graph(<<U>>, t)]

\* Every revision of a file of two functions that has up to three of the items
\* a, b (changed by one side each), c (added, with another text on either side)
\* and a comment.
Item(x, text) == CASE x = "//" -> C(x, 1)
                   [] x = "a" -> F(x, IF text = "2" THEN "2" ELSE "1", 1)
                   [] x = "b" -> F(x, IF text = "3" THEN "3" ELSE "1", 1)
                   [] OTHER -> F(x, text, 1)
Rows(q, text) == <<U>> \o [p \in DOMAIN q |-> Item(q[p], text)]
Orders == {q \in Seqs({"a", "b", "c", "//"}, 3) : IsInjective(q)}
Flat == {Triple(Rows(<<"a", "b">>, "1"), Rows(o, "2"), Rows(t, "3")) : o, t \in Orders}
\* The same declaration again and again (templates that differ in their parameter
\* list only, say), and one that ours renames to what theirs adds.
Repeated == {Triple(Rows(<<"a">>, "1"), Rows(o, "2"), Rows(t, "3")) :
               o \in Seqs({"a", "z"}, 2), t \in Seqs({"a", "x", "z"}, 4)}

\* Namespaces with their members, one of them possibly reopened, renamed or moved.
Space(rows, n, q, text) ==
  rows \o <<NS(n, 1)>> \o [p \in DOMAIN q |-> F(n \o "::" \o q[p], text, Len(rows) + 1)]
Spaces(q, text) == FoldLeft(LAMBDA rows, x : Space(rows, x[1], x[2], text), <<U>>, q)
Inner == {<<>>, <<"a">>, <<"c">>, <<"a", "c">>, <<"c", "a">>}
One(names) == {<<x>> : x \in names \X Inner}
Two(names) == {<<<<"n", x>>, y>> : x \in Inner, y \in names \X Inner}
Nested == {Triple(Spaces(b, "1"), Spaces(o, "2"), Spaces(t, "1")) :
             b \in {<<<<"n", <<"a">>>>>>, <<<<"n", <<"a">>>>, <<"n", <<"b">>>>>>},
             o \in One({"n", "m"}) \cup Two({"n", "m"}), t \in One({"n"}) \cup Two({"n"})}

\* Two files that may declare the same function.
Both(q, r, text) ==
  <<U>> \o [p \in DOMAIN q |-> F(q[p], text, 1)]
    \o <<<<"TRANSLATION_UNIT", "g", "", 0>>>> \o [p \in DOMAIN r |-> F(r[p], text, Len(q) + 2)]
Declared == {<<>>, <<"a">>, <<"c">>, <<"a", "c">>}
Files == {Triple(Both(<<"a">>, b, "1"), Both(o, p, x), Both(t, q, y)) :
            b \in {<<>>, <<"a">>}, o, p, t, q \in Declared, x, y \in {"1", "2"}}
  \cup {Triple(Both(<<>>, <<"a">>, "1"), Both(<<>>, <<"a">>, "1"), <<U>>)}

\* A class with sections: members are moved to another one and added.
Members == {"a", "b", "c", "d", "e"}
ClassOf(q) == <<U, <<"TYPE", "T", "", 1>>>> \o
  [p \in DOMAIN q |-> IF q[p] \in Members THEN <<"FIELD_DECLARATION", q[p], q[p], 2>>
                      ELSE <<"ACCESS_SPECIFIER", q[p], "", 2>>]
Sections == Triple(ClassOf(<<"a", "public", "b">>), ClassOf(<<"public", "b", "a", "private", "d">>),
                   ClassOf(<<"a", "c", "public", "b", "protected", "e">>))
Sectioned(X, n) == {q \in Seqs(X, n) : \A i, j \in DOMAIN q : i # j /\ q[i] = q[j] => q[i] \notin Members}
Classes == {Triple(ClassOf(<<"a">>), ClassOf(o), ClassOf(t)) :
              o \in Sectioned({"a", "d", "public"}, 3),
              t \in Sectioned({"a", "c", "public", "private"}, 3)}

MCInputs == {Functions, Texts, Outer, Sections}
  \cup {Signatures(o, t, after) : o, t \in {"a(x)", "const a(x, y)", "a(z, x)"}, after \in {"", "noexcept"}}
  \cup {Decls(b, o, t) : b, o, t \in Lists}
  \cup Flat \cup Repeated \cup Nested \cup Files \cup Classes
=============================================================================
