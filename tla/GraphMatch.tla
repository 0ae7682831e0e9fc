------------------------------ MODULE GraphMatch ------------------------------
(***************************************************************************)
(* GraphMatcher: which node of the base graph became which node of one     *)
(* revision.  Nodes with equal hash signature are matched first (top       *)
(* down); then one matcher per kind of node looks at what is left.         *)
(*                                                                         *)
(* Five matchers build a weighted bipartite graph, have Boost compute a    *)
(* matching of maximum weight and walk over its vertices; three compare    *)
(* every pair in two nested range-for loops.  All of them erase matched    *)
(* nodes from the vectors they iterate over, so a vector is modelled with  *)
(* the memory behind its end: [mem, len], where a slot past len was moved  *)
(* from (Null) or holds the stale pointer of an erased last element.       *)
(*                                                                         *)
(* The similarity measures are floating-point kernels over strings: which  *)
(* pairs reach MIN_SIMI, and which pairs Boost mates, is left open.        *)
(***************************************************************************)
EXTENDS SemanticNode, FiniteSets, SequencesExt

CONSTANTS
  Inputs    \* pairs [base, rev] of sequences of nodes, in vertex order

\* A graph numbers its vertices from 1, and every node has a kind.
ASSUME InputAssumption ==
  \A in \in Inputs : \A g \in {in.base, in.rev} :
    /\ Len(g) \in Nat /\ DOMAIN g = 1..Len(g)
    /\ \A v \in 1..Len(g) : g[v].kind \in NodeKinds

Null == 0

\* bottomUpMatch: one matcher per kind, in this order.
Kinds == <<"TRANSLATION_UNIT", "LINKAGE_SPEC_LIST", "NAMESPACE", "TYPE", "ENUM",
           "FIELD_DECLARATION", "FUNC_DEF", "FUNC_SPECIAL_MEMBER">>
\* The matchers that are nested loops over the two vectors.
LinearKinds == {"TRANSLATION_UNIT", "LINKAGE_SPEC_LIST", "ENUM"}

VARIABLES
  input,       \* the two graphs
  phase,       \* "topdown", "next", "linear", "mates", "done", "crashed"
  k,           \* index of the current matcher in Kinds
  matched,     \* OneOneMatching: pairs of vertices
  deleted,     \* PossiblyDeleted: for each kind the vector of base vertices
  added,       \* PossiblyAdded: for each kind the vector of revision vertices
  similar,     \* pairs of the current kind that reach MIN_SIMI
  mate,        \* what maximum_weighted_matching returned
  order,       \* FDGraph: the base vertices in their order before any erase
  i, j, iEnd, jEnd,   \* loop counters and the cached ends of the range-for loops
  refactored   \* RefactoredTypes: pairs of signatures

vars == <<input, phase, k, matched, deleted, added, similar, mate, order,
          i, j, iEnd, jEnd, refactored>>

Base(v) == input.base[v]
Rev(v) == input.rev[v]
Kind == Kinds[k]

-----------------------------------------------------------------------------
(* Vectors. *)

Vec(s) == [mem |-> s, len |-> Len(s)]
Live(vec) == {vec.mem[p] : p \in 1..vec.len}

\* addUnmatchedNode: the unmatched vertices S of graph g by kind.  The hash map
\* they come from is iterated in no particular order.
Unmatched(g, S) ==
  LET of(x) == {v \in S : g[v].kind = x}
      seen == {g[v].kind : v \in S}
  IN  {[x \in NodeKinds |-> Vec(IF x \in seen THEN f[x] ELSE <<>>)] :
         f \in {h \in [seen -> UNION {SetToSeqs(of(x)) : x \in seen}] :
                 \A x \in seen : h[x] \in SetToSeqs(of(x))}}

\* erase(remove_if(...)) of one element: those behind it are moved down.
Erased(vec, v) ==
  IF v \notin Live(vec) THEN vec
  ELSE LET p == CHOOSE q \in 1..vec.len : vec.mem[q] = v
       IN  [mem |-> [q \in DOMAIN vec.mem |->
                       IF q < p \/ q > vec.len THEN vec.mem[q]
                       ELSE IF q < vec.len THEN vec.mem[q + 1]
                       ELSE IF p < vec.len THEN Null ELSE v],
            len |-> vec.len - 1]

\* OneOneMatching is a bimap keyed by signature on both sides: insert does nothing
\* if either node is in it already.
Paired(b, r) ==
  IF \E p \in matched : Same(Base(p[1]), Base(b)) \/ Same(Rev(p[2]), Rev(r))
  THEN matched ELSE matched \cup {<<b, r>>}

\* Seeded fault: the revision's vector is left alone.
InsertKeepsAdded(b, r) ==
  /\ matched' = Paired(b, r)
  /\ deleted' = [deleted EXCEPT ![Kind] = Erased(@, b)]
  /\ UNCHANGED added
\* A pair enters the matching and leaves the vectors.
Insert(b, r) ==
  /\ matched' = Paired(b, r)
  /\ deleted' = [deleted EXCEPT ![Kind] = Erased(@, b)]
  /\ added' = [added EXCEPT ![Kind] = Erased(@, r)]

-----------------------------------------------------------------------------
(* What each matcher asks of a pair besides its similarity. *)

\* Members go together only if their parents are the same or a refactored type.
ParentsAgree(b, r) ==
  \/ Base(b).parent = Rev(r).parent
  \/ <<Base(b).parent, Rev(r).parent>> \in refactored

\* Seeded fault: any unit of the same directory will do.
TranslationUnitMatcherByPath(b, r) == Base(b).path = Rev(r).path
TranslationUnitMatcher(b, r) == Base(b).name = Rev(r).name
LinkageSpecListMatcher(b, r) == Base(b).parent = Rev(r).parent
EnumMatcher(b, r) == <<b, r>> \in similar
isMatched(b, r) ==
  CASE Kind = "TRANSLATION_UNIT" -> TranslationUnitMatcher(b, r)
    [] Kind = "LINKAGE_SPEC_LIST" -> LinkageSpecListMatcher(b, r)
    [] Kind = "ENUM" -> EnumMatcher(b, r)

NamespaceEdge(b, r) == Base(b).path = Rev(r).path

\* calcSimilarity reaches MIN_SIMI, and the tests after it.
NamespaceMatcher(b, r) == <<b, r>> \in similar
TypeSpecifierMatcher(b, r) == <<b, r>> \in similar
FieldDeclMatcher(b, r) == <<b, r>> \in similar /\ ParentsAgree(b, r)
FuncDefMatcher(b, r) == <<b, r>> \in similar /\ ParentsAgree(b, r)
FuncSpecialMemberMatcher(b, r) == <<b, r>> \in similar
accepted(b, r) ==
  CASE Kind = "NAMESPACE" -> NamespaceMatcher(b, r)
    [] Kind = "TYPE" -> TypeSpecifierMatcher(b, r)
    [] Kind = "FIELD_DECLARATION" -> FieldDeclMatcher(b, r)
    [] Kind = "FUNC_DEF" -> FuncDefMatcher(b, r)
    [] Kind = "FUNC_SPECIAL_MEMBER" -> FuncSpecialMemberMatcher(b, r)

-----------------------------------------------------------------------------
Init ==
  /\ input \in Inputs
  /\ phase = "topdown" /\ k = 0 /\ matched = {} /\ refactored = {}
  /\ deleted = [x \in NodeKinds |-> Vec(<<>>)]
  /\ added = [x \in NodeKinds |-> Vec(<<>>)]
  /\ similar = {} /\ mate = {} /\ order = <<>>
  /\ i = 0 /\ j = 0 /\ iEnd = 0 /\ jEnd = 0

topDownMatch ==
  /\ phase = "topdown"
  /\ LET B == Keyed(input.base)  R == Keyed(input.rev)
         pairs == {p \in B \X R : Same(Base(p[1]), Rev(p[2]))}
         lost == B \ {p[1] : p \in pairs}
         new == R \ {p[2] : p \in pairs}
     IN  /\ matched' = pairs
         /\ deleted' \in Unmatched(input.base, lost)
         /\ added' \in Unmatched(input.rev, new)
  /\ phase' = "next"
  /\ UNCHANGED <<input, k, similar, mate, order, i, j, iEnd, jEnd, refactored>>

\* The next matcher: skipped unless both sides have nodes of its kind.
bottomUpMatch ==
  /\ phase = "next" /\ k < Len(Kinds)
  /\ k' = k + 1
  /\ LET x == Kinds[k + 1]
         d == deleted[x]  a == added[x]
         pairs == Live(d) \X Live(a)
     IN  IF d.len = 0 \/ a.len = 0
         THEN UNCHANGED <<phase, similar, mate, order, i, j, iEnd, jEnd>>
         ELSE /\ order' = d.mem
              /\ iEnd' = d.len /\ jEnd' = a.len /\ i' = 1 /\ j' = 1
              /\ IF x \in LinearKinds
                 THEN /\ phase' = "linear" /\ mate' = {}
                      /\ similar' \in SUBSET pairs
                 ELSE /\ phase' = "mates"
                      /\ mate' \in {M \in SUBSET pairs : OneToOne(M)}
                      /\ similar' \in SUBSET mate'
                      /\ x = "NAMESPACE" => \A p \in mate' : NamespaceEdge(p[1], p[2])
  /\ UNCHANGED <<input, matched, deleted, added, refactored>>

\* One iteration of the inner loop: a slot that was moved from is dereferenced,
\* or the pair is compared and erased.  The inner loop keeps the end it started
\* with; the outer one moves to the next slot.
Compare ==
  /\ phase = "linear"
  /\ LET b == deleted[Kind].mem[i]  r == added[Kind].mem[j]
     IN  IF i > iEnd \/ (j > jEnd /\ i = iEnd)
         THEN /\ phase' = "next" /\ UNCHANGED <<matched, deleted, added, i, j, jEnd>>
         ELSE IF j > jEnd
         THEN /\ i' = i + 1 /\ j' = 1 /\ jEnd' = added[Kind].len
              /\ UNCHANGED <<phase, matched, deleted, added>>
         ELSE IF b = Null \/ r = Null
         THEN /\ phase' = "crashed" /\ UNCHANGED <<matched, deleted, added, i, j, jEnd>>
         ELSE /\ IF isMatched(b, r) THEN Insert(b, r)
                 ELSE UNCHANGED <<matched, deleted, added>>
              /\ j' = j + 1
              /\ UNCHANGED <<phase, i, jEnd>>
  /\ UNCHANGED <<input, k, similar, mate, order, iEnd, refactored>>

\* Seeded fault: an off-by-one in the loop's condition.
BoundShort == deleted[Kind].len - 1
\* The bound of the loop over the mates: the size of the vector it erases from.
Bound == deleted[Kind].len
\* One vertex of that loop.
Visit ==
  /\ phase = "mates" /\ i <= Bound
  /\ LET M == {p \in mate : p[1] = order[i] /\ accepted(p[1], p[2])}
     IN  IF M = {} THEN UNCHANGED <<matched, deleted, added, refactored>>
         ELSE LET p == CHOOSE q \in M : TRUE
              IN  /\ Insert(p[1], p[2])
                  /\ refactored' = IF Kind = "TYPE"
                       THEN refactored \cup {<<hashSignature(Base(p[1])),
                                               hashSignature(Rev(p[2]))>>}
                       ELSE refactored
  /\ i' = i + 1
  /\ UNCHANGED <<input, phase, k, similar, mate, order, j, iEnd, jEnd>>

EndVisits ==
  /\ phase = "mates" /\ i > Bound
  /\ phase' = "next"
  /\ UNCHANGED <<input, k, matched, deleted, added, similar, mate, order,
                 i, j, iEnd, jEnd, refactored>>

match ==
  /\ phase = "next" /\ k = Len(Kinds)
  /\ phase' = "done"
  /\ UNCHANGED <<input, k, matched, deleted, added, similar, mate, order,
                 i, j, iEnd, jEnd, refactored>>

Next == topDownMatch \/ bottomUpMatch \/ Compare \/ Visit \/ EndVisits \/ match
Spec == Init /\ [][Next]_vars

-----------------------------------------------------------------------------
Pairs == (DOMAIN input.base) \X (DOMAIN input.rev)
\* Types; the live part of a vector of unmatched nodes holds vertices only.
TypeOK ==
  /\ phase \in {"topdown", "next", "linear", "mates", "done", "crashed"}
  /\ k \in 0..Len(Kinds) /\ matched \subseteq Pairs /\ mate \subseteq Pairs
  /\ similar \subseteq Pairs
  /\ \A x \in NodeKinds :
       /\ deleted[x].len \in 0..Len(deleted[x].mem)
       /\ added[x].len \in 0..Len(added[x].mem)
       /\ Live(deleted[x]) \subseteq DOMAIN input.base
       /\ Live(added[x]) \subseteq DOMAIN input.rev

\* topDownMatch and the matchers: the vertex that stands for a signature is
\* matched once or still listed as deleted or added, never both and never
\* neither, on both sides; matched nodes are of one kind.  One exception: the
\* loop over the enums goes on after it erased a pair, and the base enum it still
\* holds may take further enums of the revision out of the list that the bimap
\* refuses.  That loop does not finish, so no matching that match returns has
\* lost one.
EachNodeOnce ==
  phase # "topdown" =>
    /\ OneToOne(matched)
    /\ \A p \in matched : Base(p[1]).kind = Rev(p[2]).kind
    /\ LET B == {p[1] : p \in matched}  R == {p[2] : p \in matched}
           D == UNION {Live(deleted[x]) : x \in NodeKinds}
           A == UNION {Live(added[x]) : x \in NodeKinds}
           dropped == Keyed(input.rev) \ (R \cup A)
       IN  /\ B \cap D = {} /\ B \cup D = Keyed(input.base)
           /\ R \cap A = {} /\ R \cup A \subseteq Keyed(input.rev)
           /\ \A v \in dropped : /\ Rev(v).kind = "ENUM" /\ Kind = "ENUM"
                                 /\ phase \in {"linear", "crashed"}

\* The loop over the mates stops early by one vertex for each pair it matched,
\* so a pair Boost mated and the matcher accepts is left out only if its base
\* vertex is among that many at the end of the list.
SkippedOnlyAtTail ==
  phase = "mates" /\ i > Bound =>
    \A p \in mate \ matched : accepted(p[1], p[2]) =>
      \E q \in 1..Len(order) : /\ order[q] = p[1]
                               /\ q > Len(order) - Cardinality(mate \cap matched)

\* The nested loops go on after an erase: they read a slot that was moved from
\* only while matching enums, after a pair was erased, and only if the revision
\* had another unmatched enum.  The other two nested loops never find a pair,
\* since what they compare is part of the signature.
StaleSlotOnlyInEnums ==
  phase = "crashed" =>
    /\ Kind = "ENUM" /\ Len(added[Kind].mem) > 1
    /\ \E p \in matched : p \in similar
=============================================================================
