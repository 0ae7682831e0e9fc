--------------------------- MODULE MCBlockHandlers ---------------------------
(* Files of up to two conflicts over a few lines of each kind. *)
EXTENDS BlockHandlers

\* Two includes of A that differ in spaces, a macro and what it stands for, and
\* declarations (one ends with the text of another), definitions, statements
\* (one is two others in one line) and a comment.
AllLines == {"A", "A ", "B", "C", "d", "e", "u d", "g", "h", "x", "x ", "y", "xy", "M", "m", "//", Mark}
MCExpand == [l \in AllLines |-> IF l = "M" THEN "m" ELSE l]
MCCore == [l \in AllLines |->
  CASE l = "//" -> <<>> [] l = "A " -> <<"A">> [] l = "x " -> <<"x">>
    [] l = "xy" -> <<"x", "y">> [] l = "u d" -> <<"u", "d">> [] OTHER -> <<l>>]
MCKind == [l \in AllLines |-> CASE l \in {"A", "A ", "B", "C"} -> "include"
                             [] l \in {"d", "e", "u d"} -> "declaration"
                             [] l \in {"g", "h"} -> "definition"
                             [] l = "//" -> "comment"
                             [] OTHER -> "other"]

part(o, ba, t) == [our |-> o, base |-> ba, their |-> t]
file(kind, base, name, top, regions) ==
  [kind |-> kind, base |-> base, name |-> name, top |-> top, regions |-> regions]

Upto(S, n) == UNION {[1..k -> S] : k \in 0..n}
Conflict(p) == p.our # p.base /\ p.their # p.base /\ p.our # p.their
Conflicts(S, n, Base) == {p \in [our : Upto(S, n), base : Base, their : Upto(S, n)] : Conflict(p)}

Styles == {"merge", "diff3"}
Single(kind, base, top, P) ==
  {[style |-> s, files |-> <<file(kind, base, "a", top, <<<<p>>>>)>>] : s \in Styles, p \in P}

\* One conflict: statements in a source file, inclusions, declarations, definitions.
Statements == Single("source", TRUE, TRUE, Conflicts({"x", "x ", "y", "xy", "//"}, 2, {<<>>, <<"x">>}))
Macros == Single("source", TRUE, FALSE, Conflicts({"M", "m", "y"}, 2, {<<>>, <<"m">>}))
Inclusions == Single("header", TRUE, FALSE, Conflicts({"A", "B", "C"}, 3, {<<"C", "A">>}))
Declarations == Single("header", TRUE, TRUE, Conflicts({"d", "//"}, 3, {<<"d">>}) \cup Conflicts({"d", "e", "u d"}, 2, {<<"d">>}))
Definitions == Single("source", TRUE, TRUE, Conflicts({"g", "//"}, 3, {<<"g">>}) \cup Conflicts({"g", "d"}, 2, {<<"g">>}))
\* Both sides added the file.
Added == {[style |-> s, files |-> <<file(k, FALSE, "a", top, <<<<p>>>>)>>] :
            s \in Styles, k \in {"source", "header"}, top \in BOOLEAN,
            p \in Conflicts({"x", "d", "//"}, 2, {<<>>})}
\* Both sides add the same lines, and each may add more.
both == part(<<"g">>, <<>>, <<"g">>)
Shared == {[style |-> s, files |-> <<file("source", TRUE, "a", top, <<<<both, p>>>>)>>] :
             s \in Styles, top \in BOOLEAN,
             p \in {q \in [our : Upto({"x", "y"}, 1), base : {<<>>, <<"x">>},
                           their : Upto({"x", "y"}, 1)] : q.our # q.their}}
\* Two conflicts, the first of which the "merge" style may split in two.
Split == {[style |-> s, files |-> <<file("source", TRUE, "a", TRUE,
              <<<<p, both, q>>, <<r>>>>)>>] :
            s \in Styles,
            p \in {part(<<>>, <<>>, <<"x">>), part(<<"y">>, <<"x">>, <<>>)},
            q \in Conflicts({"x", "y"}, 1, {<<>>, <<"x">>}),
            r \in Conflicts({"x", "x ", "y"}, 1, {<<>>, <<"x">>})}
\* Several files, with or without conflicts, of one name or not.
Several == {[style |-> s, files |-> <<file("source", TRUE, n, FALSE, h),
                                      file("source", k, "a", TRUE, <<<<p>>>>)>>] :
              s \in Styles, n \in {"a", "b"}, k \in BOOLEAN,
              h \in {<<>>, <<<<part(<<"x">>, <<>>, <<"y">>)>>>>, <<<<part(<<"x">>, <<"y">>, <<"x ">>)>>>>},
              p \in Conflicts({"x", "x ", "y"}, 2, {<<>>, <<"x">>})}
Blockless == {[style |-> s, files |-> <<file("source", TRUE, "a", TRUE, <<<<p>>>>),
                                        file("source", TRUE, "b", TRUE, <<>>)>>] :
                s \in Styles, p \in Conflicts({"x", "y"}, 2, {<<"x">>})}

\* The "merge" style leaves out the lines that begin or end both sides.
Trimmed(p) == p.our # <<>> /\ p.their # <<>> =>
                p.our[1] # p.their[1] /\ Last(p.our) # Last(p.their)
Possible(i) ==
  \A id \in DOMAIN i.files :
    /\ i.files[id].base \/ \A r \in ToSet(i.files[id].regions) : Side(r, "base") = <<>>
    /\ i.style = "merge" => \A r \in ToSet(i.files[id].regions) : \A p \in ToSet(r) :
                               p.our # p.their => Trimmed(p)

MCInputs == {i \in
            Statements \cup Macros \cup Inclusions \cup Declarations \cup Definitions
              \cup Added \cup Shared \cup Split \cup Blockless \cup Several : Possible(i)}
MCFavours == {"deletion", "modification"}
=============================================================================
