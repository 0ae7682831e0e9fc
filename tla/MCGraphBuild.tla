---------------------------- MODULE MCGraphBuild ----------------------------
(* Small instances of GraphBuild. *)
EXTENDS GraphBuild

\* near is looked at for a comment (0 or 1) and for what follows one (1 or 2).
Entries(shapes) == ([shape : shapes \ {"comment"}, near : {1, 2}]
                      \cup [shape : shapes \cap {"comment"}, near : {0, 1}])
Longer(S, shapes) ==
  {s \in {Append(t, e) : t \in S, e \in Entries(shapes)} :
     Last(s).near = 2 => Len(s) > 1 /\ s[Len(s) - 1].shape = "comment"}
One(shapes) == Longer({<<>>}, shapes)
Two(shapes) == Longer(One(shapes), shapes)

\* Every shape alone, before and after a comment; members of a class and its
\* sections; longer bodies of what comments interact with.
MCBodies ==
  {<<>>} \cup One(AllShapes)
    \cup Longer(One({"comment"}), AllShapes) \cup Longer(One(AllShapes), {"comment"})
    \cup Two({"function", "access_specifier"})
    \cup Longer(Two({"comment"}), {"function", "preproc"})
    \cup Longer(Two({"function", "access_specifier"}), {"function"})
    \cup Longer(Longer(Longer(One({"namespace"}), {"comment"}), {"comment"}), {"function"})
=============================================================================
