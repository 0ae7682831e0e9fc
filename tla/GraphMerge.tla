------------------------------ MODULE GraphMerge ------------------------------
(***************************************************************************)
(* GraphMerger and the pretty printer: the three semantic graphs become    *)
(* one text per translation unit in conflict.                              *)
(*                                                                         *)
(* mergeSemanticNode works on the nodes of the base graph in place: it     *)
(* looks a node up in the two matchings, overwrites its texts, and gives   *)
(* it the merged list of children, which may hold nodes of all three       *)
(* graphs.  The look-ups are in hash maps whose keys are those same nodes: *)
(* a node whose name was overwritten is not found any more.                *)
(*                                                                         *)
(* A graph is a sequence of nodes in vertex order, and among them the      *)
(* access specifiers, which are children of their class but no vertices.   *)
(* Besides the fields of SemanticNode a node has                           *)
(*   up, kids      its parent and its children                             *)
(*   need          NeedToMerge: the file is in conflict                    *)
(*   sig, access   the original signature and the access specifier         *)
(*   disp, spec, params, unchanged                                         *)
(*                 of a function: the name, the texts before it, the       *)
(*                 parameters (and initialisers), SigUnchanged             *)
(*   decls         of a translation unit: the front declarations           *)
(* Whitespace (the EOL counts, indentation, clang-format) is left out.     *)
(***************************************************************************)
EXTENDS SemanticNode, FiniteSets, SequencesExt

CONSTANTS
  Inputs,   \* triples [base, ours, theirs] of graphs
  Favours   \* what MERGEBOT_MERGE_ORDER_IN_FAVOUR may select

VARIABLES
  input,     \* the graphs as they were built
  favour,    \* OrderInFavour
  phase,     \* "match", "merge", "print", "done"
  matching,  \* OneOneMatching of either side: pairs of vertices
  base,      \* the nodes of the base graph
  children,  \* the Children of the merged base nodes: sequences of Refs
  todo,      \* Mappings not merged yet
  stack,     \* the activations of directMergeChildren, the innermost last
  files      \* what PrettyPrintTU wrote

vars == <<input, favour, phase, matching, base, children, todo, stack, files>>

Sides == {"ours", "theirs"}
Other(s) == IF s = "ours" THEN "theirs" ELSE "ours"
FunctionKinds == {"FUNC_DEF", "FUNC_SPECIAL_MEMBER", "FUNC_OPERATOR_CAST"}

\* A pointer to a node of one of the three graphs.
Refs == UNION {{g} \X DOMAIN input[g] : g \in Sides \cup {"base"}}
Deref(r) == IF r[1] = "base" THEN base[r[2]] ELSE input[r[1]][r[2]]

-----------------------------------------------------------------------------
(* Texts and lists. *)

\* libgit2 merges two different changes line by line and marks conflicts.  (If it
\* runs out of memory the text is empty.)
git_merge_textual(o, b, t) == IF o = t THEN o ELSE "<conflict>"
\* Seeded fault: a text that only theirs changed is dropped.
mergeTextOurs(o, b, t) == IF o = b THEN o ELSE IF t = b THEN o ELSE git_merge_textual(o, b, t)
mergeText(o, b, t) == IF o = b THEN t ELSE IF t = b THEN o ELSE git_merge_textual(o, b, t)

\* One of the two lists that are merged into v1: items that v1 lacks are kept in
\* tmp and inserted, at the next common item, behind the previous one.  The
\* position is one of v1, even if ret has grown since.
UnionStep(v1, acc, v) ==
  LET a1 == FoldLeft(LAMBDA a, x :
             LET P == {p \in DOMAIN v1 : v1[p] = x}
             IN  IF P = {} THEN [a EXCEPT !.tmp = Append(@, x)]
                 ELSE [ret |-> SubSeq(a.ret, 1, a.pos) \o a.tmp
                                 \o SubSeq(a.ret, a.pos + 1, Len(a.ret)),
                       pos |-> CHOOSE p \in P : \A q \in P : q <= p, tmp |-> <<>>],
           [acc EXCEPT !.tmp = <<>>], v)
  IN  [a1 EXCEPT !.ret = @ \o a1.tmp]
Deduped(s) == FoldLeft(LAMBDA a, x : IF Contains(a, x) THEN a ELSE Append(a, x), <<>>, s)
mergeStrVecByUnion(v1, v2, v3) ==
  Deduped(UnionStep(v1, UnionStep(v1, [ret |-> v1, pos |-> 0, tmp |-> <<>>], v2), v3).ret)

-----------------------------------------------------------------------------
(* Matching: what GraphMatch arrives at. *)

\* An access specifier is not in the graph.
Nodes(g) == {v \in DOMAIN g : g[v].kind # "ACCESS_SPECIFIER"}
KeyedNodes(g) == Keyed(g) \cap Nodes(g)
TopDown(b, r) == {<<v, w>> \in KeyedNodes(b) \X KeyedNodes(r) : Same(b[v], r[w])}
\* A renamed node: of a kind that has a matcher; a member only if its parent is
\* the same or a renamed type.
Renamed(b, r, M, p) ==
  LET v == b[p[1]]  w == r[p[2]]
  IN  /\ v.kind = w.kind
      /\ v.kind \in {"NAMESPACE", "TYPE", "ENUM", "FIELD_DECLARATION", "FUNC_DEF",
                     "FUNC_SPECIAL_MEMBER"}
      /\ v.kind = "NAMESPACE" => v.path = w.path
      /\ v.kind \in {"FIELD_DECLARATION", "FUNC_DEF"} =>
           \/ v.parent = w.parent
           \/ \E q \in M : /\ b[q[1]].kind = "TYPE"
                           /\ v.parent = hashSignature(b[q[1]])
                           /\ w.parent = hashSignature(r[q[2]])
Matchings(b, r) ==
  LET top == TopDown(b, r)
      left == (KeyedNodes(b) \ {p[1] : p \in top}) \X (KeyedNodes(r) \ {p[2] : p \in top})
      bottomUp == {M \in SUBSET {p \in left : b[p[1]].kind = r[p[2]].kind} :
                     OneToOne(M) /\ \A p \in M : Renamed(b, r, M, p)}
  IN  {top \cup M : M \in bottomUp}

\* left.find and right.find: a key stays in the bucket it was inserted into, and
\* is compared by the signature it has now.
LeftOf(s, v) ==
  {p[2] : p \in {q \in matching[s] : /\ Same(input.base[q[1]], base[v])
                                     /\ Same(base[q[1]], base[v])}}
RightOf(s, w) == {p[1] : p \in {q \in matching[s] : Same(input[s][q[2]], input[s][w])}}
\* PossiblyAdded: nodes of a side that no base node was matched to.
PossiblyAdded(s) == KeyedNodes(input[s]) \ {p[2] : p \in matching[s]}

-----------------------------------------------------------------------------
(* mergeSemanticNode. *)

\* The texts of a terminal node; those of a function's signature one by one only if
\* both sides changed it.
mergeTerminalTexts(o, b, t) ==
  LET text == mergeText(o.body, b.body, t.body)
      skip == b.kind \notin FunctionKinds \/ b.sig \in {o.sig, t.sig}
      both == [b EXCEPT !.body = text,
                        !.name = mergeText(o.name, b.name, t.name),
                        !.sig = mergeText(o.sig, b.sig, t.sig)]
  IN  IF skip THEN [both EXCEPT !.unchanged = @ \/ b.kind \in FunctionKinds]
      ELSE [both EXCEPT
              !.spec = mergeText(o.spec, b.spec, t.spec),
              !.after = IF b.kind = "FUNC_SPECIAL_MEMBER" THEN @
                        ELSE mergeText(o.after, b.after, t.after),
              !.params = mergeStrVecByUnion(o.params, b.params, t.params),
              !.def = CASE b.kind # "FUNC_SPECIAL_MEMBER" -> @
                        [] b.kind = "FUNC_SPECIAL_MEMBER" /\ text # "" -> "plain"
                        [] OTHER -> IF o.def = @ THEN t.def
                                    ELSE IF t.def = @ THEN o.def ELSE "plain"]
\* Seeded fault: the access specifier is taken from theirs, as the comment on that
\* line has it.
mergeTerminalTheirs(o, b, t) == [mergeTerminalTexts(o, b, t) EXCEPT !.access = t.access]
mergeTerminal(o, b, t) == [mergeTerminalTexts(o, b, t) EXCEPT !.access = o.access]

\* A composite node, before its children.
mergeComposite(o, b, t) ==
  [b EXCEPT !.access = o.access,
            !.sig = mergeText(o.sig, b.sig, t.sig),
            !.name = mergeText(o.name, b.name, t.name),
            !.decls = IF b.kind = "TRANSLATION_UNIT"
                      THEN mergeStrVecByUnion(o.decls, @, t.decls) ELSE @]

\* The base node's counterparts if both sides have one.
Counterparts(v) == LeftOf("ours", v) \X LeftOf("theirs", v)
Merged(v) ==
  LET p == CHOOSE q \in Counterparts(v) : TRUE
      o == input.ours[p[1]]  t == input.theirs[p[2]]
  IN  IF base[v].kind \in TerminalKinds THEN mergeTerminal(o, base[v], t)
      ELSE mergeComposite(o, base[v], t)

\* A new activation of directMergeChildren: it walks over the children of the
\* favoured side's node.
Frame(v) ==
  LET w == CHOOSE x \in LeftOf(favour, v) : TRUE
  IN  [node |-> v, kids |-> input[favour][w].kids, next |-> 1, merged |-> <<>>]

-----------------------------------------------------------------------------
(* directMergeChildren. *)

\* Nodes added on one side below the counterpart of v, in the order of their IDs.
filterAddedNodes(v, s) ==
  LET parents == {hashSignature(input[s][w]) : w \in LeftOf(s, v)}
  IN  SetToSortSeq({w \in PossiblyAdded(s) : input[s][w].parent \in parents}, <)

\* Seeded fault: nodes that both sides added are kept twice.
removeNothing(added, others, s) == added
removeDuplicates(added, others, s) ==
  SelectSeq(added, LAMBDA w : \A p \in DOMAIN others :
                                ~Same(input[s][w], input[Other(s)][others[p]]))

\* The nearest siblings of w that are not comments, each a set of at most one.  Such
\* a sibling may be an access specifier, and all of those are the same.
getNeighbors(s, w) ==
  LET kids == input[s][input[s][w].up].kids
      at == CHOOSE p \in DOMAIN kids : /\ Same(input[s][kids[p]], input[s][w])
                                       /\ \A q \in 1..(p - 1) : ~Same(input[s][kids[q]], input[s][w])
      code == {p \in DOMAIN kids : input[s][kids[p]].kind # "ORPHAN_COMMENT"}
      prev == {p \in code : p < at}
      next == {p \in code : p > at}
  IN  [prev |-> {kids[p] : p \in {q \in prev : \A x \in prev : x <= q}},
       next |-> {kids[p] : p \in {q \in next : \A x \in next : x >= q}}]

\* Positions of the first node in a list of Refs that is the same as one in W.
Find(list, s, W) ==
  LET P == {p \in DOMAIN list : \E w \in W : Same(Deref(list[p]), input[s][w])}
  IN  {p \in P : \A q \in P : p <= q}

\* Seeded fault: a node goes in front of its previous sibling.
insertAddedBefore(list, s, w) ==
  LET near == getNeighbors(s, w)
      after == Find(list, s, near.prev)
      before == Find(list, s, near.next)
      at == CASE after # {} -> (CHOOSE p \in after : TRUE)
              [] after = {} /\ before # {} -> (CHOOSE p \in before : TRUE)
              [] OTHER -> Len(list) + 1
  IN  InsertAt(list, at, <<s, w>>)
\* Behind the previous sibling, else in front of the next, else at the end.
insertAdded(list, s, w) ==
  LET near == getNeighbors(s, w)
      after == Find(list, s, near.prev)
      before == Find(list, s, near.next)
      at == CASE after # {} -> (CHOOSE p \in after : TRUE) + 1
              [] after = {} /\ before # {} -> (CHOOSE p \in before : TRUE)
              [] OTHER -> Len(list) + 1
  IN  InsertAt(list, at, <<s, w>>)

\* What an activation returns once it is through the favoured side's children.
directMergeChildren(f) ==
  LET s == Other(favour)
  IN  FoldLeft(LAMBDA list, w : insertAdded(list, s, w), f.merged,
               removeDuplicates(filterAddedNodes(f.node, s),
                                filterAddedNodes(f.node, favour), s))

-----------------------------------------------------------------------------
(* Printing: the tokens of a node, of its children and of its closing brace. *)

Head1(n) ==
  CASE n.kind \notin FunctionKinds -> <<>>
    [] n.kind \in FunctionKinds /\ n.unchanged -> <<n.sig>>
    [] OTHER -> <<n.spec, n.disp, n.params, n.after, n.def>>

\* The access specifier of a child is printed if it differs from the last one
\* that was printed and is a written one.
PrintsAccess(n, last) == n.access # last /\ n.access \notin {"none", "default"}

Kids(r) == IF r[1] = "base" THEN children[r[2]]
           ELSE [p \in DOMAIN Deref(r).kids |-> <<r[1], Deref(r).kids[p]>>]

\* The access label a member stands under.
Label(type, n, last) ==
  IF type.kind # "TRANSLATION_UNIT" /\ PrintsAccess(n, last) THEN n.access ELSE last

prettyPrintNode(root) ==
  LET print[r \in Refs] ==
        LET n == Deref(r)
            under(acc, c) ==
              LET label == Label(n, Deref(c), acc.last)
                  text == print[c]
              IN  [last |-> label,
                   out |-> acc.out \o <<[text[1] EXCEPT !.section = label]>> \o Tail(text)]
        IN  <<[of |-> r, head |-> Head1(n), sig |-> n.sig, body |-> n.body, section |-> "none"]>>
              \o FoldLeft(under, [last |-> "none", out |-> <<>>], Kids(r)).out
  IN  print[root]

PrettyPrintTU(v) ==
  [unit |-> v, decls |-> base[v].decls, text |-> prettyPrintNode(<<"base", v>>)]

-----------------------------------------------------------------------------
Init ==
  /\ input \in Inputs
  /\ favour \in Favours
  /\ phase = "match"
  /\ matching = [s \in Sides |-> {}]
  /\ base = input.base
  /\ children = [v \in DOMAIN input.base |-> <<>>]
  /\ todo = <<>> /\ stack = <<>> /\ files = <<>>

\* The two matchers run in parallel on graphs they do not write.  Mappings is
\* filled from an unordered set.
threeWayMatch ==
  /\ phase = "match"
  /\ phase' = "merge"
  /\ \E o \in Matchings(input.base, input.ours), t \in Matchings(input.base, input.theirs) :
       matching' = [s \in Sides |-> IF s = "ours" THEN o ELSE t]
  /\ \E q \in SetToSeqs({v \in DOMAIN base : base[v].kind = "TRANSLATION_UNIT" /\ base[v].need}) :
       todo' = q
  /\ UNCHANGED <<input, favour, base, children, stack, files>>

\* threeWayMerge: the next translation unit, skipped if one side has it no more.
mergeUnit ==
  /\ phase = "merge" /\ stack = <<>> /\ todo # <<>>
  /\ LET v == Head(todo)
     IN  IF Counterparts(v) = {}
         THEN /\ todo' = Tail(todo) /\ UNCHANGED <<base, stack>>
         ELSE /\ base' = [base EXCEPT ![v] = Merged(v)]
              /\ stack' = <<Frame(v)>>
              /\ UNCHANGED todo
  /\ UNCHANGED <<input, favour, phase, matching, children, files>>

Top == stack[Len(stack)]
Advanced(f, refs) == [f EXCEPT !.next = @ + 1, !.merged = @ \o refs]
Replaced(f) == SubSeq(stack, 1, Len(stack) - 1) \o <<f>>

\* One child of the favoured side: an added one, one that a side deleted, a
\* terminal one, or a composite one whose children are merged next.
mergeChild ==
  /\ stack # <<>> /\ Top.next <= Len(Top.kids)
  /\ LET w == Top.kids[Top.next]
         B == RightOf(favour, w)
     IN  IF B = {}
         THEN /\ stack' = Replaced(Advanced(Top, <<<<favour, w>>>>))
              /\ UNCHANGED base
         ELSE LET v == CHOOSE x \in B : TRUE
              IN  IF Counterparts(v) = {}
                  THEN /\ stack' = Replaced(Advanced(Top, <<>>))
                       /\ UNCHANGED base
                  ELSE /\ base' = [base EXCEPT ![v] = Merged(v)]
                       /\ stack' = IF base[v].kind \in TerminalKinds
                                   THEN Replaced(Advanced(Top, <<<<"base", v>>>>))
                                   ELSE Append(stack, Frame(v))
  /\ UNCHANGED <<input, favour, phase, matching, children, todo, files>>

\* Seeded fault: the merged node is not pushed onto its parent's list.
returnChildrenOnly ==
  /\ Len(stack) > 1 /\ Top.next > Len(Top.kids)
  /\ children' = [children EXCEPT ![Top.node] = directMergeChildren(Top)]
  /\ LET caller == stack[Len(stack) - 1]
     IN  stack' = SubSeq(stack, 1, Len(stack) - 2) \o <<Advanced(caller, <<>>)>>
  /\ UNCHANGED <<input, favour, phase, matching, base, todo, files>>
\* The innermost activation returns the merged children.
returnChildren ==
  /\ Len(stack) > 1 /\ Top.next > Len(Top.kids)
  /\ children' = [children EXCEPT ![Top.node] = directMergeChildren(Top)]
  /\ LET caller == stack[Len(stack) - 1]
     IN  stack' = SubSeq(stack, 1, Len(stack) - 2)
                    \o <<Advanced(caller, <<<<"base", Top.node>>>>)>>
  /\ UNCHANGED <<input, favour, phase, matching, base, todo, files>>

\* The translation unit itself returns ...
returnUnit ==
  /\ Len(stack) = 1 /\ Top.next > Len(Top.kids)
  /\ children' = [children EXCEPT ![Top.node] = directMergeChildren(Top)]
  /\ stack' = <<>> /\ phase' = "print"
  /\ UNCHANGED <<input, favour, matching, base, todo, files>>
\* ... and is printed.
printUnit ==
  /\ phase = "print"
  /\ files' = Append(files, PrettyPrintTU(Head(todo)))
  /\ todo' = Tail(todo) /\ phase' = "merge"
  /\ UNCHANGED <<input, favour, matching, base, children, stack>>

threeWayMerge ==
  /\ phase = "merge" /\ stack = <<>> /\ todo = <<>>
  /\ phase' = "done"
  /\ UNCHANGED <<input, favour, matching, base, children, todo, stack, files>>

Next == \/ threeWayMatch \/ mergeUnit \/ mergeChild \/ returnChildren
        \/ returnUnit \/ printUnit \/ threeWayMerge
Spec == Init /\ [][Next]_vars

-----------------------------------------------------------------------------
Tokens == UNION {ToSet(files[k].text) : k \in DOMAIN files}

\* Types; no look-up leaves the three graphs, and the matchings stay one-to-one.
TypeOK ==
  /\ phase \in {"match", "merge", "print", "done"}
  /\ favour \in Sides
  /\ \A s \in Sides : /\ matching[s] \subseteq (DOMAIN base) \X (DOMAIN input[s])
                      /\ OneToOne(matching[s])
  /\ DOMAIN base = DOMAIN input.base /\ DOMAIN children = DOMAIN base
  /\ \A v \in DOMAIN base : /\ base[v].kind = input.base[v].kind
                            /\ ToSet(children[v]) \subseteq Refs
  /\ \A k \in DOMAIN stack : /\ stack[k].next \in 1..(Len(stack[k].kids) + 1)
                             /\ ToSet(stack[k].merged) \subseteq Refs
  /\ \A x \in Tokens : x.of \in Refs

\* How many tokens of a file come from the nodes R.
Count(k, R) == Cardinality({p \in DOMAIN files[k].text : files[k].text[p].of \in R})
\* How often a file shows a node.
Shown(k, r) == Count(k, {r})
\* Another node of the same graph has the signature of this one.
Ambiguous(g, v) == \E w \in DOMAIN input[g] : w # v /\ Same(input[g][v], input[g][w])
\* The base node's counterpart on a side is one of several of its signature there: a
\* namespace that is reopened, say.
Reopened(s, v) == \E w \in DOMAIN input[s] : <<v, w>> \in matching[s] /\ Ambiguous(s, w)
\* Nodes a side added below the counterpart of the base node v.
Added(s, v) == {w \in Nodes(input[s]) : /\ w \notin {p[2] : p \in matching[s]}
                                        /\ RightOf(s, w) = {}
                                        /\ <<v, input[s][w].up>> \in matching[s]}

\* directMergeChildren: a node that a side added to a container, together with the
\* node of the same signature that the other side added to it, is printed as often as
\* the container (which is a side's own where that side moved it into an added one).
\* It is lost, or printed again, only if that side reopened the container; or, where
\* the other side's additions matter, if the favoured side reopened the container
\* (removeDuplicates then takes it for one that is never walked over), or the
\* container got another name before the look-up of its additions, or the signature
\* occurs twice among the nodes of a side.
AdditionsKept ==
  \A k \in DOMAIN files, s \in Sides, v \in DOMAIN base : \A w \in Added(s, v) :
    LET twins == {x \in Added(Other(s), v) : Same(input[Other(s)][x], input[s][w])}
        nodes == {<<s, w>>} \cup ({Other(s)} \X twins)
    IN  \/ Count(k, nodes) = Count(k, {<<"base", v>>} \cup {<<r[1], input[r[1]][r[2]].up>> : r \in nodes})
        \/ Reopened(s, v)
        \/ /\ s # favour \/ twins # {}
           /\ \/ Reopened(favour, v)
              \/ ~Same(base[v], input.base[v])
              \/ \E r \in nodes : Ambiguous(r[1], r[2])

\* A node and its containers.
Within(g, v) ==
  LET up[w \in DOMAIN input[g] \cup {0}] == IF w = 0 THEN {} ELSE {w} \cup up[input[g][w].up]
  IN  up[v]

\* mergeSemanticNode: a base node that both sides have is printed as often as the
\* container in which the favoured side has it (once, that is), and one that a side
\* deleted is not printed, unless its signature or that of a container around it is
\* not its own: such a container is merged twice, and what the first time renamed is
\* not found the second time.
MembersOnce ==
  \A k \in DOMAIN files : \A p \in matching[favour] :
    LET up == input[favour][p[2]].up
        kept == \E q \in matching[Other(favour)] : q[1] = p[1]
    IN  \/ base[p[1]].kind = "TRANSLATION_UNIT"
        \/ \E w \in Within(favour, p[2]) : Ambiguous(favour, w)
        \/ Shown(k, <<"base", p[1]>>) =
             Cardinality({x \in DOMAIN files[k].text :
                            kept /\ <<files[k].text[x].of[2], up>> \in matching[favour]
                                 /\ files[k].text[x].of[1] = "base"})

Change(o, b, t, x) == (o = b => x = t) /\ (t = b \/ t = o => x = o)
\* mergeText: what only one side changed, or both in the same way, is printed as
\* changed, both the text and the signature of a function or container.  This is
\* so only where a node is printed for the first time and once: one that two places
\* share, in one file or in two, was merged twice, and the second time ours counts as
\* unchanged.
ChangesKept ==
  \A k \in DOMAIN files : \A x \in ToSet(files[k].text) :
    x.of[1] = "base" /\ Shown(k, x.of) = 1 /\ (\A j \in 1..(k - 1) : Shown(j, x.of) = 0) =>
      \A p \in matching.ours, q \in matching.theirs :
        LET b == input.base[x.of[2]]  o == input.ours[p[2]]  t == input.theirs[q[2]]
        IN  p[1] = x.of[2] /\ q[1] = x.of[2] =>
              /\ b.kind \in TerminalKinds => Change(o.body, b.body, t.body, x.body)
              /\ b.kind \notin FunctionKinds => Change(o.sig, b.sig, t.sig, x.sig)
              /\ b.kind \in FunctionKinds /\ b.sig \in {o.sig, t.sig} =>
                   x.head = <<mergeText(o.sig, b.sig, t.sig)>>

\* "preserving relative positions": two declarations that the other side added
\* one behind the other stay neighbours in that order, if the signature of neither
\* occurs again on that side, nor that of the first in front of it in the merged
\* list (ours may rename a node to it): getNeighbors and the search behind it take
\* the first.  (A comment on its own does not stay: a declaration added behind it is
\* put in front of it.)
AdditionsInOrder ==
  phase = "done" =>
    \A v \in DOMAIN base : LET s == Other(favour)  list == children[v] IN
      \A i, j \in DOMAIN list :
        /\ list[i][1] = s /\ list[j][1] = s
        /\ Deref(list[i]).kind # "ORPHAN_COMMENT" /\ Deref(list[j]).kind # "ORPHAN_COMMENT"
        /\ ~Ambiguous(s, list[i][2]) /\ ~Ambiguous(s, list[j][2])
        /\ \A x \in 1..(i - 1) : ~Same(Deref(list[x]), Deref(list[i]))
        /\ \E u \in DOMAIN input[s] : LET kids == input[s][u].kids IN
             \E p \in 1..(Len(kids) - 1) : kids[p] = list[i][2] /\ kids[p + 1] = list[j][2]
        => j = i + 1

\* prettyPrintNode: in our order a member of a class is printed under its own access
\* specifier.  Only one that has none (it stands before the first label of its class)
\* can come under another's, and only if it, or the member in front of it that has
\* that label, was added by theirs or has a signature that occurs twice in ours.
SectionsKept ==
  favour = "ours" =>
    \A k \in DOMAIN files : \A p \in DOMAIN files[k].text :
      LET x == files[k].text[p]
          n == Deref(x.of)
      IN  x.section \notin {"none", n.access} /\ n.kind # "ACCESS_SPECIFIER" =>
            \E v \in DOMAIN base : LET list == children[v] IN
              \E j \in DOMAIN list : \E i \in 1..j :
                /\ list[j] = x.of
                /\ i = j \/ Deref(list[i]).access = x.section
                /\ \/ list[i][1] = "theirs"
                   \/ list[i][1] = "base" /\ Reopened("ours", list[i][2])
=============================================================================
