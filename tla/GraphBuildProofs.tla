--------------------------- MODULE GraphBuildProofs ---------------------------
(***************************************************************************)
(* Proofs about GraphBuild for any contents of any number of files: which  *)
(* text the walk over a syntax tree drops, which it keeps twice, and which *)
(* documents it leaves open.                                               *)
(*                                                                         *)
(* The invariant says, for every call of parseCompositeNode on the stack,  *)
(* where the text of each of its children is: those from the current one   *)
(* on are nowhere, one behind it is where its own branch put it, and a     *)
(* comment also with the node below it once the call is past that node.    *)
(***************************************************************************)
EXTENDS GraphBuild, FiniteSetTheorems, TLAPS

-----------------------------------------------------------------------------
(* The invariant. *)

\* A list of siblings in a unit of which n items were read: a number is one item's.
Siblings(cs, n) ==
  /\ cs \in Seq(Item)
  /\ \A k \in DOMAIN cs : /\ cs[k].id <= n
                          /\ cs[k].shape = "comment" => cs[k].id # 0
  /\ \A j, k \in DOMAIN cs : cs[j].id = cs[k].id /\ cs[j].id # 0 => j = k

\* No text of the siblings is in the graph yet.
Fresh(cs, r) == \A k \in DOMAIN cs : cs[k].id # 0 => r[cs[k].id] = 0

\* The comment cs[k] is one that getNodeComment finds for what is below it.
Below(cs, k) == RunEnd(cs, k) + 1
Indented(cs, k) == RunStart(cs, k) > 1 /\ cs[RunStart(cs, k)].near = 0
Attached(cs, k) ==
  /\ Below(cs, k) <= Len(cs) /\ cs[Below(cs, k)].shape \in CarrierShapes
  /\ ~Indented(cs, k)
\* It shares a row with the closing brace of a namespace.
Trailing(cs, k) ==
  Indented(cs, k) /\ cs[RunStart(cs, k) - 1].shape \in {"namespace", "inline_namespace"}
\* It may stand alone and be attached: an empty row follows, or one of the run up to
\* it shares its row with the comment before.
MayRepeat(cs, k) ==
  \/ cs[Below(cs, k)].near = 2
  \/ \E j \in (RunStart(cs, k) + 1)..k : cs[j].near = 0

Handled(shape, type) == shape \notin UnhandledShapes /\ (shape = "access_specifier" => type)

\* Where the text of child k of call c is that is no comment.
ItemHeld(c, type, r, k) ==
  r[c.cs[k].id] = IF k <= c.front \/ (k < c.i /\ Handled(c.cs[k].shape, type)) THEN 1 ELSE 0

\* The node below has taken the comment k with it.
Taken(c, k) == c.front < Below(c.cs, k) /\ Below(c.cs, k) < c.i /\ Attached(c.cs, k)
\* What is left of rep is the comment on its own: among the front declarations, as an
\* orphan, or beside a namespace's brace.
Own(c, r, k) == r[c.cs[k].id] - (IF Taken(c, k) THEN 1 ELSE 0)
CommentHeld(c, r, k) ==
  /\ Own(c, r, k) \in {0, 1}
  /\ k <= c.front => Own(c, r, k) = 1
  /\ k >= c.i => Own(c, r, k) = 0
  /\ c.front < k /\ k < c.i =>
       IF Own(c, r, k) = 0 THEN Indented(c.cs, k) => Trailing(c.cs, k)
       ELSE /\ Attached(c.cs, k) => MayRepeat(c.cs, k)
            /\ c.i <= RunEnd(c.cs, k) => Trailing(c.cs, k)

\* A call of parseCompositeNode on a node that is a type or not.
Call == [node : Nat, cs : Seq(Item), i : Nat, front : Nat]
Walked(c, type, r) ==
  /\ c.front < c.i /\ c.i <= Len(c.cs) + 1
  /\ \A k \in DOMAIN c.cs : k <= c.front /\ IsComment(c.cs, k) => RunEnd(c.cs, k) <= c.front
  /\ \A k \in DOMAIN c.cs :
       IF IsComment(c.cs, k) THEN CommentHeld(c, r, k)
       ELSE c.cs[k].id # 0 => ItemHeld(c, type, r, k)

Apart(cs, ds) == \A j \in DOMAIN cs, k \in DOMAIN ds : cs[j].id = ds[k].id => cs[j].id = 0

IsList(s) == Len(s) \in Nat /\ s = [n \in 1..Len(s) |-> s[n]]
Vertex(v) == v = [kind |-> v.kind, item |-> v.item, parent |-> v.parent,
                  comment |-> v.comment, access |-> v.access]
Vertices(ns) == IsList(ns) /\ \A v \in DOMAIN ns : Vertex(ns[v])
IsType(ns, c) == ns[c.node].kind = "TYPE"
\* The calls st on nodes of ns, when n items were read that are in the places r counts.
Calls(st, ns, n, r) ==
  /\ n \in Nat /\ r \in Seq(Nat) /\ Len(r) = n
  /\ st \in Seq(Call) /\ Vertices(ns)
  /\ \A p \in DOMAIN st : /\ st[p].node \in DOMAIN ns
                          /\ Siblings(st[p].cs, n)
                          /\ Walked(st[p], IsType(ns, st[p]), r)
  /\ \A p, q \in DOMAIN st : p # q => Apart(st[p].cs, st[q].cs)

BuildInv ==
  /\ Calls(stack, nodes, used, rep)
  /\ pc # "walk" => stack = <<>>
  /\ pc = "parse" => Siblings(unit.cs, used) /\ Fresh(unit.cs, rep)

-----------------------------------------------------------------------------
(* Numbers. *)

\* A finite set of numbers has a least and a greatest one.
LEMMA Extremes ==
  ASSUME NEW S, IsFiniteSet(S), S \subseteq Nat, S # {}
  PROVE  /\ \E m \in S : \A n \in S : m <= n
         /\ \E m \in S : \A n \in S : n <= m
<1> DEFINE N == Cardinality(S)
           upTo(p) == {q \in S : q <= p}
           rank == [p \in S |-> Cardinality(upTo(p))]
<1>1. N \in Nat /\ N # 0
  BY FS_CardinalityType, FS_EmptySet
<1>2. ASSUME NEW p \in S
      PROVE  /\ IsFiniteSet(upTo(p)) /\ Cardinality(upTo(p)) \in 1..N
             /\ upTo(p) \subseteq S /\ p \in upTo(p)
  <2>1. upTo(p) \subseteq S /\ p \in upTo(p)
    OBVIOUS
  <2> HIDE DEF upTo
  <2>2. IsFiniteSet(upTo(p)) /\ Cardinality(upTo(p)) <= N
    BY <2>1, FS_Subset
  <2>3. Cardinality(upTo(p)) \in Nat /\ Cardinality(upTo(p)) # 0
    BY <2>1, <2>2, FS_CardinalityType, FS_EmptySet
  <2> QED
    BY <1>1, <2>1, <2>2, <2>3
<1>3. ASSUME NEW p \in S, NEW q \in S, Cardinality(upTo(p)) = Cardinality(upTo(q)), p < q
      PROVE  FALSE
  <2>1. p \in Nat /\ q \in Nat /\ S \subseteq Nat
    OBVIOUS
  <2>2. \A x \in S : x <= p => x <= q
    BY <1>3, <2>1
  <2>3. upTo(p) \subseteq upTo(q) /\ q \in upTo(q) /\ q \notin upTo(p)
    <3>1. q <= q /\ ~(q <= p)
      BY <1>3, <2>1
    <3> QED
      BY <2>2, <3>1, Zenon
  <2> HIDE DEF upTo
  <2>4. upTo(p) = upTo(q)
    BY <1>2, <1>3, <2>3, FS_Subset
  <2> QED
    BY <2>3, <2>4
<1>4. ASSUME NEW p \in S, NEW q \in S, Cardinality(upTo(p)) = Cardinality(upTo(q))
      PROVE  p = q
  <2>1. p \in Nat /\ q \in Nat
    OBVIOUS
  <2> HIDE DEF upTo
  <2> QED
    BY <1>3, <1>4, <2>1
<1>5. rank \in Surjection(S, 1..N)
  <2> HIDE DEF upTo
  <2>1. rank \in Injection(S, 1..N)
    BY <1>2, <1>4 DEF Injection, IsInjective
  <2>2. IsFiniteSet(1..N) /\ Cardinality(1..N) = N
    BY <1>1, FS_Interval
  <2> QED
    BY <2>1, <2>2, FS_Injection
<1>6. \A n \in 1..N : \E p \in S : Cardinality(upTo(p)) = n
  <2> HIDE DEF upTo
  <2> QED
    BY <1>5 DEF Surjection
<1>7. PICK low \in S : Cardinality(upTo(low)) = 1
  <2> HIDE DEF upTo
  <2> QED
    BY <1>1, <1>6
<1>8. PICK high \in S : Cardinality(upTo(high)) = N
  <2> HIDE DEF upTo
  <2> QED
    BY <1>1, <1>6
<1>9. \A n \in S : low <= n
  <2> SUFFICES ASSUME NEW n \in S, n < low
               PROVE  FALSE
    OBVIOUS
  <2>1. n \in upTo(low) /\ n # low
    OBVIOUS
  <2> HIDE DEF upTo
  <2>2. upTo(low) \in {{x} : x \in upTo(low)}
    BY <1>2, <1>7, FS_Singleton
  <2> QED
    BY <1>2, <2>1, <2>2
<1>10. \A n \in S : n <= high
  <2>1. upTo(high) = S
    <3> HIDE DEF upTo
    <3> QED
      BY <1>2, <1>8, FS_Subset
  <2> QED
    BY <2>1
<1> QED
  BY <1>9, <1>10

-----------------------------------------------------------------------------
(* Runs of comments. *)

LEMMA RunEndFacts ==
  ASSUME NEW cs, Len(cs) \in Nat, NEW i \in Nat, IsComment(cs, i)
  PROVE  /\ RunEnd(cs, i) \in i..Len(cs)
         /\ \A k \in i..RunEnd(cs, i) : IsComment(cs, k)
         /\ ~IsComment(cs, RunEnd(cs, i) + 1)
<1> DEFINE S == {m \in i..Len(cs) : ~IsComment(cs, m + 1)}
<1>1. i <= Len(cs)
  BY DEF IsComment
<1>2. Len(cs) \in S
  BY <1>1 DEF IsComment
<1>3. S \subseteq i..Len(cs) /\ S \subseteq Nat
  OBVIOUS
<1>4. IsFiniteSet(S)
  <2> HIDE DEF S
  <2>1. IsFiniteSet(i..Len(cs))
    BY FS_Interval
  <2> QED
    BY <1>3, <2>1, FS_Subset
<1>5. PICK m \in S : \A n \in S : m <= n
  <2> HIDE DEF S
  <2> QED
    BY <1>2, <1>3, <1>4, Extremes
<1>6. ASSUME NEW k \in i..m PROVE IsComment(cs, k)
  <2>1. CASE k = i
    BY <2>1
  <2>2. CASE k # i
    <3>1. k - 1 \in i..Len(cs) /\ ~(m <= k - 1) /\ (k - 1) + 1 = k
      BY <1>3, <2>2
    <3>2. k - 1 \notin S
      <4> HIDE DEF S
      <4> QED
        BY <1>5, <3>1
    <3> QED
      BY <3>1, <3>2
  <2> QED
    BY <2>1, <2>2
<1>7. m \in i..Len(cs) /\ ~IsComment(cs, m + 1)
  OBVIOUS
<1> QED
  BY <1>6, <1>7 DEF RunEnd

LEMMA RunStartFacts ==
  ASSUME NEW cs, Len(cs) \in Nat, NEW i \in Nat, IsComment(cs, i)
  PROVE  /\ RunStart(cs, i) \in 1..i
         /\ \A k \in RunStart(cs, i)..i : IsComment(cs, k)
         /\ ~IsComment(cs, RunStart(cs, i) - 1)
<1> DEFINE S == {m \in 1..i : ~IsComment(cs, m - 1)}
<1>1. i >= 1
  BY DEF IsComment
<1>2. 1 \in S
  BY <1>1 DEF IsComment
<1>3. S \subseteq 1..i /\ S \subseteq Nat
  OBVIOUS
<1>4. IsFiniteSet(S)
  <2> HIDE DEF S
  <2>1. IsFiniteSet(1..i)
    BY FS_Interval
  <2> QED
    BY <1>3, <2>1, FS_Subset
<1>5. PICK m \in S : \A n \in S : n <= m
  <2> HIDE DEF S
  <2> QED
    BY <1>2, <1>3, <1>4, Extremes
<1>6. ASSUME NEW k \in m..i PROVE IsComment(cs, k)
  <2>1. CASE k = i
    BY <2>1
  <2>2. CASE k # i
    <3>1. k + 1 \in 1..i /\ ~(k + 1 <= m) /\ (k + 1) - 1 = k
      BY <1>3, <2>2
    <3>2. k + 1 \notin S
      <4> HIDE DEF S
      <4> QED
        BY <1>5, <3>1
    <3> QED
      BY <3>1, <3>2
  <2> QED
    BY <2>1, <2>2
<1>7. m \in 1..i /\ ~IsComment(cs, m - 1)
  OBVIOUS
<1> QED
  BY <1>6, <1>7 DEF RunStart

\* The comments of a run have the same start and the same end.
LEMMA SameRun ==
  ASSUME NEW cs, Len(cs) \in Nat, NEW i \in Nat, IsComment(cs, i),
         NEW k \in Nat, k \in RunStart(cs, i)..RunEnd(cs, i)
  PROVE  IsComment(cs, k) /\ RunEnd(cs, k) = RunEnd(cs, i) /\ RunStart(cs, k) = RunStart(cs, i)
<1>1. PICK a : a = RunStart(cs, i)
  OBVIOUS
<1>2. PICK e : e = RunEnd(cs, i)
  OBVIOUS
<1>3. /\ a \in 1..i /\ ~IsComment(cs, a - 1) /\ e \in i..Len(cs) /\ ~IsComment(cs, e + 1)
      /\ \A n \in a..e : IsComment(cs, n)
  <2>1. /\ a \in 1..i /\ ~IsComment(cs, a - 1) /\ \A n \in a..i : IsComment(cs, n)
    BY <1>1, RunStartFacts
  <2>2. /\ e \in i..Len(cs) /\ ~IsComment(cs, e + 1) /\ \A n \in i..e : IsComment(cs, n)
    BY <1>2, RunEndFacts
  <2> QED
    BY <2>1, <2>2
<1>4. k \in a..e /\ IsComment(cs, k)
  BY <1>1, <1>2, <1>3
<1>5. PICK b : b = RunStart(cs, k)
  OBVIOUS
<1>6. PICK d : d = RunEnd(cs, k)
  OBVIOUS
<1>7. /\ b \in 1..k /\ ~IsComment(cs, b - 1) /\ \A n \in b..k : IsComment(cs, n)
  BY <1>4, <1>5, RunStartFacts
<1>8. /\ d \in k..Len(cs) /\ ~IsComment(cs, d + 1) /\ \A n \in k..d : IsComment(cs, n)
  BY <1>4, <1>6, RunEndFacts
<1>9. b = a
  <2>1. CASE b < a
    <3>1. a - 1 \in b..k
      BY <1>3, <1>4, <1>7, <2>1
    <3> QED
      BY <1>3, <1>7, <3>1
  <2>2. CASE a < b
    <3>1. b - 1 \in a..e
      BY <1>3, <1>4, <1>7, <2>2
    <3> QED
      BY <1>3, <1>7, <3>1
  <2> QED
    BY <1>3, <1>7, <2>1, <2>2
<1>10. d = e
  <2>1. CASE d < e
    <3>1. d + 1 \in a..e
      BY <1>3, <1>4, <1>8, <2>1
    <3> QED
      BY <1>3, <1>8, <3>1
  <2>2. CASE e < d
    <3>1. e + 1 \in k..d
      BY <1>3, <1>4, <1>8, <2>2
    <3> QED
      BY <1>3, <1>8, <3>1
  <2> QED
    BY <1>3, <1>8, <2>1, <2>2
<1> QED
  BY <1>1, <1>2, <1>4, <1>5, <1>6, <1>9, <1>10

\* What Indented, Below and Attached say of one comment of a run they say of all.
LEMMA RunShared ==
  ASSUME NEW cs, Len(cs) \in Nat, NEW i \in Nat, IsComment(cs, i),
         NEW k \in Nat, k \in RunStart(cs, i)..RunEnd(cs, i)
  PROVE  /\ Indented(cs, k) <=> Indented(cs, i)
         /\ Trailing(cs, k) <=> Trailing(cs, i)
         /\ Below(cs, k) = Below(cs, i)
<1> QED
  BY SameRun DEF Indented, Trailing, Below

\* The node below a run is no comment.
LEMMA BelowFacts ==
  ASSUME NEW cs, Len(cs) \in Nat, NEW k \in Nat, IsComment(cs, k)
  PROVE  /\ Below(cs, k) \in (k + 1)..(Len(cs) + 1)
         /\ ~IsComment(cs, Below(cs, k))
         /\ RunEnd(cs, k) \in k..Len(cs) /\ Below(cs, k) = RunEnd(cs, k) + 1
<1> QED
  BY RunEndFacts DEF Below

-----------------------------------------------------------------------------
(* One call of parseCompositeNode. *)

\* From r to r2 the children K of cs got one more place.
Added(cs, r, r2, K) ==
  \A k \in DOMAIN cs :
    cs[k].id # 0 => r2[cs[k].id] = r[cs[k].id] + (IF k \in K THEN 1 ELSE 0)

LEMMA SiblingType ==
  ASSUME NEW cs, NEW n \in Nat, Siblings(cs, n), NEW r \in Seq(Nat), Len(r) = n
  PROVE  /\ Len(cs) \in Nat /\ DOMAIN cs = 1..Len(cs)
         /\ \A k \in DOMAIN cs : /\ cs[k].id \in Nat /\ cs[k].id <= n
                                 /\ cs[k].near \in 0..2 /\ cs[k].shape \in AllShapes
                                 /\ cs[k].id # 0 => r[cs[k].id] \in Nat
         /\ \A k \in DOMAIN cs : IsComment(cs, k) <=> cs[k].shape = "comment"
         /\ \A k \in DOMAIN cs : IsComment(cs, k) => cs[k].id # 0
<1>1. cs \in Seq(Item)
  BY DEF Siblings
<1>2. Len(cs) \in Nat /\ DOMAIN cs = 1..Len(cs) /\ \A k \in DOMAIN cs : cs[k] \in Item
  BY <1>1
<1>3. \A k \in DOMAIN cs : /\ cs[k].id \in Nat /\ cs[k].near \in 0..2
                           /\ cs[k].shape \in AllShapes
  BY <1>2 DEF Item
<1>4. \A k \in DOMAIN cs : cs[k].id <= n /\ (cs[k].shape = "comment" => cs[k].id # 0)
  BY DEF Siblings
<1>5. \A x \in 1..n : r[x] \in Nat
  OBVIOUS
<1>6. \A k \in DOMAIN cs : cs[k].id # 0 => r[cs[k].id] \in Nat
  BY <1>3, <1>4, <1>5
<1> QED
  BY <1>2, <1>3, <1>4, <1>6 DEF IsComment

\* A comment that a step does not concern.
LEMMA KeepComment ==
  ASSUME NEW c, NEW d, d.cs = c.cs, d.front = c.front, c.i \in Nat, d.i \in Nat, c.i <= d.i,
         NEW r, NEW r2, NEW k \in Nat, k < c.i \/ d.i <= k, Own(d, r2, k) = Own(c, r, k),
         Len(c.cs) \in Nat, IsComment(c.cs, k), CommentHeld(c, r, k)
  PROVE  CommentHeld(d, r2, k)
<1>1. RunEnd(c.cs, k) \in Nat
  BY RunEndFacts
<1>2. d.i <= k => c.i <= k
  OBVIOUS
<1>3. k < d.i => k < c.i
  OBVIOUS
<1>4. d.i <= RunEnd(c.cs, k) => c.i <= RunEnd(c.cs, k)
  BY <1>1
<1> QED
  BY <1>2, <1>3, <1>4 DEF CommentHeld

LEMMA KeepItem ==
  ASSUME NEW c, NEW d, d.cs = c.cs, d.front = c.front, c.i \in Nat, d.i \in Nat, c.i <= d.i,
         NEW type, NEW r, NEW r2, NEW k \in Nat, k < c.i \/ d.i <= k,
         r2[c.cs[k].id] = r[c.cs[k].id], ItemHeld(c, type, r, k)
  PROVE  ItemHeld(d, type, r2, k)
<1>1. k < c.i <=> k < d.i
  OBVIOUS
<1> QED
  BY <1>1 DEF ItemHeld

\* The children from the current one on are in no place, except front declarations.
LEMMA AheadIsFresh ==
  ASSUME NEW c \in Call, NEW n \in Nat, Siblings(c.cs, n), NEW r \in Seq(Nat), Len(r) = n,
         NEW type, Walked(c, type, r), NEW k \in DOMAIN c.cs, c.i <= k, c.cs[k].id # 0
  PROVE  r[c.cs[k].id] = 0
<1>1. /\ Len(c.cs) \in Nat /\ k \in Nat /\ c.i \in Nat /\ c.front \in Nat
      /\ r[c.cs[k].id] \in Nat
  BY SiblingType DEF Call
<1>2. c.front < c.i
  BY DEF Walked
<1>3. CASE IsComment(c.cs, k)
  <2>1. ~Taken(c, k)
    BY <1>1, <1>3, BelowFacts DEF Taken
  <2>2. Own(c, r, k) = 0
    BY <1>3 DEF Walked, CommentHeld
  <2> QED
    BY <1>1, <2>1, <2>2 DEF Own
<1>4. CASE ~IsComment(c.cs, k)
  <2>1. ItemHeld(c, type, r, k)
    BY <1>4 DEF Walked
  <2> QED
    BY <1>1, <1>2, <2>1 DEF ItemHeld
<1> QED
  BY <1>3, <1>4

\* A call none of whose children is concerned.
LEMMA OtherCall ==
  ASSUME NEW c \in Call, NEW n \in Nat, Siblings(c.cs, n), NEW r \in Seq(Nat), Len(r) = n,
         NEW r2, Added(c.cs, r, r2, {}), NEW type, Walked(c, type, r)
  PROVE  Walked(c, type, r2)
<1>1. /\ Len(c.cs) \in Nat /\ DOMAIN c.cs = 1..Len(c.cs)
      /\ \A k \in DOMAIN c.cs : c.cs[k].id # 0 => r[c.cs[k].id] \in Nat
      /\ \A k \in DOMAIN c.cs : IsComment(c.cs, k) => c.cs[k].id # 0
  BY SiblingType
<1>2. \A k \in DOMAIN c.cs : c.cs[k].id # 0 => r2[c.cs[k].id] = r[c.cs[k].id]
  BY <1>1 DEF Added
<1>3. \A k \in DOMAIN c.cs : IsComment(c.cs, k) => Own(c, r2, k) = Own(c, r, k)
  BY <1>1, <1>2 DEF Own
<1> QED
  BY <1>1, <1>2, <1>3 DEF Walked, CommentHeld, ItemHeld

\* The next places: the call c goes on at j as d.
Goes(c, d, j) == d \in Call /\ d.node = c.node /\ d.cs = c.cs /\ d.front = c.front /\ d.i = j

\* The branches that take no comment of their own, and a namespace that skips the one
\* beside its closing brace.
CommentsOf(cs, i) ==
  {k \in DOMAIN cs : /\ IsComment(cs, k) /\ Below(cs, k) = i /\ ~Indented(cs, k)
                     /\ cs[i].shape \in CarrierShapes}
\* The call goes on at j after a child that is no comment; the children that get a place.
GoesTo(c, j) ==
  \/ j = c.i + 1
  \/ /\ j = c.i + 2 /\ c.cs[c.i].shape \in {"namespace", "inline_namespace"}
     /\ IsComment(c.cs, c.i + 1) /\ c.cs[c.i + 1].near = 0
Gets(c, type, j) ==
  {k \in {c.i} : Handled(c.cs[k].shape, type)} \cup CommentsOf(c.cs, c.i) \cup (c.i + 1)..(j - 1)

LEMMA WalkItem ==
  ASSUME NEW c \in Call, NEW n \in Nat, Siblings(c.cs, n), NEW r \in Seq(Nat), Len(r) = n,
         NEW type, Walked(c, type, r), c.i <= Len(c.cs), ~IsComment(c.cs, c.i),
         NEW d, NEW j, Goes(c, d, j), GoesTo(c, j),
         NEW r2, Added(c.cs, r, r2, Gets(c, type, j))
  PROVE  Walked(d, type, r2)
<1> DEFINE cs == c.cs
           i == c.i
           K == Gets(c, type, j)
<1>0. /\ j \in {i + 1, i + 2}
      /\ j = i + 2 => /\ cs[i].shape \in {"namespace", "inline_namespace"}
                      /\ IsComment(cs, i + 1) /\ cs[i + 1].near = 0
  <2>1. i \in Nat
    BY DEF Call
  <2> QED
    BY <2>1 DEF GoesTo
<1>1. /\ c.i \in Nat /\ c.front \in Nat /\ c.front < c.i /\ j \in Nat /\ i < j
      /\ d.cs = cs /\ d.front = c.front /\ d.i = j
  BY <1>0 DEF Call, Walked, Goes
<1>2. /\ Len(cs) \in Nat /\ DOMAIN cs = 1..Len(cs)
      /\ \A k \in DOMAIN cs : cs[k].id # 0 => r[cs[k].id] \in Nat
      /\ \A k \in DOMAIN cs : IsComment(cs, k) => cs[k].id # 0
  BY SiblingType
<1>3. j <= Len(cs) + 1
  <2>1. CASE j = i + 1
    BY <1>1, <1>2, <2>1
  <2>2. CASE j = i + 2
    BY <1>0, <1>1, <1>2, <2>2 DEF IsComment
  <2> QED
    BY <1>0, <2>1, <2>2
<1>4. \A k \in DOMAIN cs : k \in (i + 1)..(j - 1) => j = i + 2 /\ k = i + 1 /\ IsComment(cs, k)
  BY <1>0, <1>1, <1>2
<1>5. \A k \in DOMAIN cs : k < i \/ k = i \/ k \in (i + 1)..(j - 1) \/ j <= k
  BY <1>1, <1>2
<1>6. \A k \in DOMAIN cs : cs[k].id # 0 =>
        r2[cs[k].id] = r[cs[k].id] + (IF k \in K THEN 1 ELSE 0)
  BY DEF Added
<1>7. \A k \in DOMAIN cs : ~IsComment(cs, k) /\ k # i => k \notin K
  BY <1>4 DEF CommentsOf, Gets
<1>8. i \in K <=> Handled(cs[i].shape, type)
  BY <1>1 DEF CommentsOf, Gets
<1>9. ASSUME NEW k \in DOMAIN cs, IsComment(cs, k)
      PROVE  k \in K <=> k \in CommentsOf(cs, i) \/ k \in (i + 1)..(j - 1)
  BY <1>9 DEF Gets
<1> HIDE DEF K
<1>10. ASSUME NEW k \in DOMAIN cs, ~IsComment(cs, k), cs[k].id # 0
       PROVE  ItemHeld(d, type, r2, k)
  <2>1. ItemHeld(c, type, r, k)
    BY <1>10 DEF Walked
  <2>2. CASE k = i
    <3>1. r[cs[k].id] = 0
      BY <1>1, <2>1, <2>2 DEF ItemHeld
    <3>2. r2[cs[k].id] = IF Handled(cs[i].shape, type) THEN 1 ELSE 0
      BY <1>6, <1>8, <1>10, <2>2, <3>1
    <3> QED
      BY <1>1, <2>2, <3>2 DEF ItemHeld
  <2>3. CASE k # i
    <3>1. k < i \/ j <= k
      BY <1>4, <1>5, <1>10, <2>3
    <3>2. r2[cs[k].id] = r[cs[k].id]
      BY <1>2, <1>6, <1>7, <1>10, <2>3
    <3>3. k \in Nat
      BY <1>2
    <3>4. d.i \in Nat /\ c.i <= d.i
      BY <1>1
    <3>5. k < c.i \/ d.i <= k
      BY <1>1, <3>1
    <3> QED
      BY <1>1, <2>1, <3>2, <3>3, <3>4, <3>5, KeepItem
  <2> QED
    BY <2>2, <2>3
<1>11. ASSUME NEW k \in DOMAIN cs, IsComment(cs, k)
       PROVE  CommentHeld(d, r2, k)
  <2>1. /\ cs[k].id # 0 /\ r[cs[k].id] \in Nat /\ k \in Nat
        /\ r2[cs[k].id] = r[cs[k].id] + (IF k \in K THEN 1 ELSE 0)
    BY <1>2, <1>6, <1>11
  <2>2. /\ Below(cs, k) \in (k + 1)..(Len(cs) + 1) /\ ~IsComment(cs, Below(cs, k))
        /\ RunEnd(cs, k) \in k..Len(cs)
    BY <1>2, <1>11, <2>1, BelowFacts
  <2>3. CASE k \in (i + 1)..(j - 1)
    <3>1. j = i + 2 /\ k = i + 1
      BY <1>4, <2>3
    <3>2. RunStart(cs, k) = k
      <4>1. RunStart(cs, k) \in 1..k /\ \A x \in RunStart(cs, k)..k : IsComment(cs, x)
        BY <1>2, <1>11, <2>1, RunStartFacts
      <4> QED
        BY <1>1, <3>1, <4>1
    <3>3. Indented(cs, k) /\ Trailing(cs, k)
      <4>1. k > 1 /\ k - 1 = i /\ cs[k].near = 0
        BY <1>0, <1>1, <1>2, <3>1 DEF IsComment
      <4> QED
        BY <1>0, <3>1, <3>2, <4>1 DEF Indented, Trailing
    <3>4. ~Taken(d, k)
      BY <1>1, <3>3 DEF Taken, Attached
    <3>5. r[cs[k].id] = 0
      <4>1. c.i <= k
        BY <1>1, <3>1
      <4> QED
        BY <2>1, <4>1, AheadIsFresh
    <3>6. k \in K
      BY <1>9, <1>11, <2>3
    <3>7. Own(d, r2, k) = 1
      BY <1>1, <2>1, <3>4, <3>5, <3>6 DEF Own
    <3>8. ~(k <= c.front) /\ ~(k >= j) /\ ~Attached(cs, k)
      BY <1>1, <3>1, <3>3 DEF Attached
    <3> QED
      BY <1>1, <3>3, <3>7, <3>8 DEF CommentHeld
  <2>4. CASE k \notin (i + 1)..(j - 1)
    <3>1. k < i \/ j <= k
      BY <1>5, <1>11, <2>4
    <3>2. CommentHeld(c, r, k)
      BY <1>11 DEF Walked
    <3>3. k \in K <=> k \in CommentsOf(cs, i)
      BY <1>9, <1>11, <2>4
    <3>4. Taken(d, k) <=> Taken(c, k) \/ k \in CommentsOf(cs, i)
      <4>1. ~IsComment(cs, i)
        OBVIOUS
      <4>2. Below(cs, k) # i + 1 \/ j = i + 1
        BY <1>0, <2>2
      <4>3. Below(cs, k) < j <=> Below(cs, k) < i \/ Below(cs, k) = i
        <5>1. Below(cs, k) \in Nat
          BY <1>2, <2>1, <2>2
        <5>2. CASE j = i + 1
          BY <1>1, <5>1, <5>2
        <5>3. CASE j = i + 2
          <6>1. PICK b : b = Below(cs, k)
            OBVIOUS
          <6>2. i \in Nat /\ b \in Nat /\ b # i + 1
            BY <1>1, <4>2, <5>1, <5>3, <6>1
          <6>3. b < i + 2 <=> b < i \/ b = i
            BY <6>2
          <6> QED
            BY <5>3, <6>1, <6>3
        <5> QED
          BY <1>0, <5>2, <5>3
      <4>4. Attached(cs, k) /\ Below(cs, k) = i <=> k \in CommentsOf(cs, i)
        BY <1>2, <1>11 DEF Attached, CommentsOf
      <4> QED
        BY <1>1, <4>3, <4>4 DEF Taken
    <3>5. ~(Taken(c, k) /\ k \in CommentsOf(cs, i))
      BY <1>1, <2>2 DEF Taken, CommentsOf
    <3>6. Own(d, r2, k) = Own(c, r, k)
      BY <1>1, <2>1, <3>3, <3>4, <3>5 DEF Own
    <3>7. c.i <= d.i /\ d.i \in Nat
      BY <1>1
    <3> QED
      BY <1>1, <1>2, <1>11, <2>1, <3>1, <3>2, <3>6, <3>7, KeepComment
  <2> QED
    BY <2>3, <2>4
<1>12. \A k \in DOMAIN cs : k <= d.front /\ IsComment(cs, k) => RunEnd(cs, k) <= d.front
  BY <1>1 DEF Walked
<1> QED
  BY <1>1, <1>3, <1>10, <1>11, <1>12 DEF Walked

\* A comment that is left to the node below it.
LEMMA WalkComment ==
  ASSUME NEW c \in Call, NEW n \in Nat, Siblings(c.cs, n), NEW r \in Seq(Nat), Len(r) = n,
         NEW type, Walked(c, type, r), c.i <= Len(c.cs), IsComment(c.cs, c.i),
         ~(c.i > 1 /\ c.cs[c.i].near = 0), NEW d, Goes(c, d, c.i + 1)
  PROVE  Walked(d, type, r)
<1> DEFINE cs == c.cs
           i == c.i
<1>1. /\ c.i \in Nat /\ c.front \in Nat /\ c.front < c.i
      /\ d.cs = cs /\ d.front = c.front /\ d.i = i + 1
  BY DEF Call, Walked, Goes
<1>2. /\ Len(cs) \in Nat /\ DOMAIN cs = 1..Len(cs)
      /\ \A k \in DOMAIN cs : cs[k].id # 0 => r[cs[k].id] \in Nat
      /\ \A k \in DOMAIN cs : IsComment(cs, k) => cs[k].id # 0
  BY SiblingType
<1>3. \A k \in DOMAIN cs : IsComment(cs, k) => CommentHeld(c, r, k)
  BY DEF Walked
<1>4. ASSUME NEW k \in DOMAIN cs, IsComment(cs, k)
      PROVE  Taken(d, k) <=> Taken(c, k)
  <2>1. k \in Nat
    BY <1>2
  <2>2. Below(cs, k) \in Nat /\ Below(cs, k) # i
    BY <1>2, <1>4, <2>1, BelowFacts
  <2> QED
    BY <1>1, <2>2 DEF Taken
<1>5. ASSUME NEW k \in DOMAIN cs, IsComment(cs, k)
      PROVE  Own(d, r, k) = Own(c, r, k)
  BY <1>1, <1>4, <1>5 DEF Own
<1>6. i \in DOMAIN cs
  BY <1>1, <1>2
<1>7. Own(c, r, i) = 0
  BY <1>1, <1>3, <1>6 DEF CommentHeld
<1>8. Indented(cs, i) => Trailing(cs, i)
  <2> SUFFICES ASSUME Indented(cs, i) PROVE Trailing(cs, i)
    OBVIOUS
  <2>1. PICK m : m = RunStart(cs, i)
    OBVIOUS
  <2>2. m \in 1..i /\ \A x \in m..i : IsComment(cs, x)
    BY <1>1, <1>2, <2>1, RunStartFacts
  <2>3. RunEnd(cs, i) \in i..Len(cs)
    BY <1>1, <1>2, RunEndFacts
  <2>4. m # i
    BY <2>1 DEF Indented
  <2>5. m \in Nat /\ m < i /\ m \in DOMAIN cs /\ IsComment(cs, m)
        /\ m \in RunStart(cs, i)..RunEnd(cs, i)
    BY <1>1, <1>2, <2>1, <2>2, <2>3, <2>4
  <2>6. RunEnd(cs, m) = RunEnd(cs, i)
    BY <1>1, <1>2, <2>5, SameRun
  <2>7. c.front < m
    <3>1. m <= c.front => RunEnd(cs, m) <= c.front
      BY <2>5 DEF Walked
    <3> QED
      BY <1>1, <2>3, <2>5, <2>6, <3>1
  <2>8. /\ Indented(cs, m) <=> Indented(cs, i)
        /\ Trailing(cs, m) <=> Trailing(cs, i)
    BY <1>1, <1>2, <2>5, RunShared
  <2>9. Trailing(cs, m)
    BY <1>3, <2>3, <2>5, <2>6, <2>7, <2>8 DEF CommentHeld
  <2> QED
    BY <2>8, <2>9
<1>9. ASSUME NEW k \in DOMAIN cs, IsComment(cs, k)
      PROVE  CommentHeld(d, r, k)
  <2>1. k \in Nat
    BY <1>2
  <2>2. CASE k = i
    <3>1. Own(d, r, i) = 0
      BY <1>5, <1>6, <1>7
    <3>2. ~(i <= c.front)
      BY <1>1
    <3> QED
      BY <1>1, <1>8, <2>2, <3>1, <3>2 DEF CommentHeld
  <2>3. CASE k # i
    <3>1. k < c.i \/ d.i <= k
      BY <1>1, <2>1, <2>3
    <3>2. d.i \in Nat /\ c.i <= d.i
      BY <1>1
    <3> QED
      BY <1>1, <1>2, <1>3, <1>5, <1>9, <2>1, <3>1, <3>2, KeepComment
  <2> QED
    BY <2>2, <2>3
<1>10. ASSUME NEW k \in DOMAIN cs, ~IsComment(cs, k), cs[k].id # 0
       PROVE  ItemHeld(d, type, r, k)
  <2>1. k \in Nat /\ k # i
    BY <1>2, <1>10
  <2>2. k < c.i \/ d.i <= k
    BY <1>1, <2>1
  <2>3. d.i \in Nat /\ c.i <= d.i
    BY <1>1
  <2>4. ItemHeld(c, type, r, k)
    BY <1>10 DEF Walked
  <2> QED
    BY <1>1, <2>1, <2>2, <2>3, <2>4, KeepItem
<1>11. \A k \in DOMAIN cs : k <= d.front /\ IsComment(cs, k) => RunEnd(cs, k) <= d.front
  BY <1>1 DEF Walked
<1>12. d.front < d.i /\ d.i <= Len(cs) + 1
  BY <1>1, <1>2
<1> QED
  BY <1>1, <1>9, <1>10, <1>11, <1>12 DEF Walked

\* A run of comments that stands alone.
LEMMA WalkOrphan ==
  ASSUME NEW c \in Call, NEW n \in Nat, Siblings(c.cs, n), NEW r \in Seq(Nat), Len(r) = n,
         NEW type, Walked(c, type, r), c.i <= Len(c.cs), IsComment(c.cs, c.i),
         \/ RunEnd(c.cs, c.i) = Len(c.cs)
         \/ c.cs[RunEnd(c.cs, c.i) + 1].near > 1
         \/ c.i > 1 /\ c.cs[c.i].near = 0,
         NEW d, Goes(c, d, RunEnd(c.cs, c.i) + 1),
         NEW r2, Added(c.cs, r, r2, c.i..RunEnd(c.cs, c.i))
  PROVE  Walked(d, type, r2)
<1> DEFINE cs == c.cs
           i == c.i
<1>0. PICK e : e = RunEnd(cs, i)
  OBVIOUS
<1>1. /\ c.i \in Nat /\ c.front \in Nat /\ c.front < c.i
      /\ d.cs = cs /\ d.front = c.front /\ d.i = e + 1
  BY <1>0 DEF Call, Walked, Goes
<1>2. /\ Len(cs) \in Nat /\ DOMAIN cs = 1..Len(cs)
      /\ \A k \in DOMAIN cs : cs[k].id # 0 => r[cs[k].id] \in Nat
      /\ \A k \in DOMAIN cs : cs[k].near \in 0..2
      /\ \A k \in DOMAIN cs : IsComment(cs, k) => cs[k].id # 0
  BY SiblingType
<1>3. e \in i..Len(cs) /\ (\A k \in i..e : IsComment(cs, k)) /\ ~IsComment(cs, e + 1)
  BY <1>0, <1>1, <1>2, RunEndFacts
<1>4. \A k \in DOMAIN cs : cs[k].id # 0 =>
        r2[cs[k].id] = r[cs[k].id] + (IF k \in i..e THEN 1 ELSE 0)
  BY <1>0 DEF Added
<1>5. \A k \in DOMAIN cs : k \notin i..e => k < c.i \/ d.i <= k
  BY <1>1, <1>2, <1>3
<1>6. d.i \in Nat /\ c.i <= d.i
  BY <1>1, <1>3
<1>7. ASSUME NEW k \in DOMAIN cs, IsComment(cs, k), k \in i..e
      PROVE  CommentHeld(d, r2, k)
  <2>1. k \in Nat /\ cs[k].id # 0
    BY <1>2, <1>7
  <2>2. RunStart(cs, i) \in 1..i
    BY <1>1, <1>2, RunStartFacts
  <2>3. k \in RunStart(cs, i)..RunEnd(cs, i)
    BY <1>0, <1>1, <1>3, <1>7, <2>2
  <2>4. /\ Below(cs, k) = e + 1 /\ RunStart(cs, k) = RunStart(cs, i) /\ RunEnd(cs, k) = e
    BY <1>0, <1>1, <1>2, <2>1, <2>3, SameRun DEF Below
  <2>5. ~Taken(d, k)
    BY <1>1, <1>3, <2>4 DEF Taken
  <2>6. r[cs[k].id] = 0
    BY <1>1, <1>7, <2>1, AheadIsFresh
  <2>7. Own(d, r2, k) = 1
    BY <1>1, <1>4, <1>7, <2>1, <2>5, <2>6 DEF Own
  <2>8. Attached(cs, k) => MayRepeat(cs, k)
    <3> SUFFICES ASSUME Attached(cs, k) PROVE MayRepeat(cs, k)
      OBVIOUS
    <3>1. e + 1 <= Len(cs) /\ ~Indented(cs, k)
      BY <2>4 DEF Attached
    <3>2. CASE cs[e + 1].near > 1
      <4>1. e + 1 \in DOMAIN cs
        BY <1>1, <1>2, <1>3, <3>1
      <4>2. cs[e + 1].near = 2
        BY <1>2, <3>2, <4>1
      <4> QED
        BY <2>4, <4>2 DEF MayRepeat
    <3>3. CASE i > 1 /\ cs[i].near = 0
      <4>1. RunStart(cs, i) # i
        BY <2>4, <3>1, <3>3 DEF Indented
      <4>2. i \in (RunStart(cs, k) + 1)..k
        BY <1>1, <1>7, <2>1, <2>2, <2>4, <4>1
      <4> QED
        BY <3>3, <4>2 DEF MayRepeat
    <3> QED
      BY <1>0, <1>2, <1>3, <3>1, <3>2, <3>3
  <2>9. ~(k <= c.front) /\ ~(k >= d.i) /\ ~(d.i <= RunEnd(cs, k))
    BY <1>1, <1>3, <1>7, <2>1, <2>4
  <2> QED
    BY <1>1, <2>7, <2>8, <2>9 DEF CommentHeld
<1>8. ASSUME NEW k \in DOMAIN cs, IsComment(cs, k), k \notin i..e
      PROVE  CommentHeld(d, r2, k)
  <2>1. k \in Nat /\ cs[k].id # 0 /\ r[cs[k].id] \in Nat
    BY <1>2, <1>8
  <2>2. Below(cs, k) \in Nat /\ Below(cs, k) \notin i..e
    <3>1. Below(cs, k) \in Nat /\ ~IsComment(cs, Below(cs, k))
      BY <1>2, <1>8, <2>1, BelowFacts
    <3> QED
      BY <1>3, <3>1
  <2>3. Taken(d, k) <=> Taken(c, k)
    <3>1. Below(cs, k) < e + 1 <=> Below(cs, k) < i
      BY <1>1, <1>3, <2>2
    <3> QED
      BY <1>1, <3>1 DEF Taken
  <2>4. Own(d, r2, k) = Own(c, r, k)
    BY <1>1, <1>4, <1>8, <2>1, <2>3 DEF Own
  <2>5. CommentHeld(c, r, k)
    BY <1>8 DEF Walked
  <2> QED
    BY <1>1, <1>2, <1>5, <1>6, <1>8, <2>1, <2>4, <2>5, KeepComment
<1>9. ASSUME NEW k \in DOMAIN cs, ~IsComment(cs, k), cs[k].id # 0
      PROVE  ItemHeld(d, type, r2, k)
  <2>1. k \in Nat /\ k \notin i..e /\ r[cs[k].id] \in Nat
    BY <1>2, <1>3, <1>9
  <2>2. r2[cs[k].id] = r[cs[k].id]
    BY <1>4, <1>9, <2>1
  <2>3. ItemHeld(c, type, r, k)
    BY <1>9 DEF Walked
  <2> QED
    BY <1>1, <1>5, <1>6, <2>1, <2>2, <2>3, KeepItem
<1>10. \A k \in DOMAIN cs : k <= d.front /\ IsComment(cs, k) => RunEnd(cs, k) <= d.front
  BY <1>1 DEF Walked
<1>11. d.front < d.i /\ d.i <= Len(cs) + 1
  BY <1>1, <1>2, <1>3
<1> QED
  BY <1>1, <1>7, <1>8, <1>9, <1>10, <1>11 DEF Walked

-----------------------------------------------------------------------------
(* Places. *)

LEMMA HeldFacts ==
  ASSUME NEW r \in Seq(Nat), NEW S
  PROVE  /\ Held(r, S) \in Seq(Nat) /\ Len(Held(r, S)) = Len(r)
         /\ \A x \in 1..Len(r) : Held(r, S)[x] = r[x] + (IF x \in S THEN 1 ELSE 0)
<1>1. Len(r) \in Nat /\ DOMAIN r = 1..Len(r) /\ \A x \in 1..Len(r) : r[x] \in Nat
  OBVIOUS
<1>2. \A x \in 1..Len(r) : Held(r, S)[x] = r[x] + (IF x \in S THEN 1 ELSE 0)
  BY <1>1 DEF Held
<1>3. Held(r, S) \in [1..Len(r) -> Nat]
  BY <1>1 DEF Held
<1> HIDE DEF Held
<1> QED
  BY <1>1, <1>2, <1>3

LEMMA HeldOnly ==
  ASSUME NEW r \in Seq(Nat), NEW S, NEW r2, r2 = Held(r, S)
  PROVE  /\ r2 \in Seq(Nat) /\ Len(r2) = Len(r)
         /\ \A x \in 1..Len(r) : r2[x] # r[x] => x \in S
<1>1. \A x \in 1..Len(r) : r[x] \in Nat
  OBVIOUS
<1> QED
  BY <1>1, HeldFacts

LEMMA HeldTwice ==
  ASSUME NEW r \in Seq(Nat), NEW A, NEW B, \A x \in 1..Len(r) : ~(x \in A /\ x \in B)
  PROVE  Held(Held(r, A), B) = Held(r, A \cup B)
<1>1. DOMAIN r = 1..Len(r)
  OBVIOUS
<1> QED
  BY <1>1 DEF Held

LEMMA GrownFacts ==
  ASSUME NEW r \in Seq(Nat), NEW n \in Nat
  PROVE  /\ Grown(r, n) \in Seq(Nat) /\ Len(Grown(r, n)) = Len(r) + n
         /\ \A x \in 1..Len(r) : Grown(r, n)[x] = r[x]
         /\ \A x \in (Len(r) + 1)..(Len(r) + n) : Grown(r, n)[x] = 0
<1> DEFINE z == [k \in 1..n |-> 0]
<1>1. z \in Seq(Nat) /\ Len(z) = n /\ \A k \in 1..n : z[k] = 0
  OBVIOUS
<1> HIDE DEF z
<1>2. Grown(r, n) = r \o z
  BY DEF Grown, z
<1>3. r \o z \in Seq(Nat) /\ Len(r \o z) = Len(r) + n
  BY <1>1
<1>4. \A x \in 1..(Len(r) + n) : (r \o z)[x] = IF x <= Len(r) THEN r[x] ELSE z[x - Len(r)]
  BY <1>1
<1>5. Len(r) \in Nat
  OBVIOUS
<1>6. ASSUME NEW x \in 1..Len(r) PROVE Grown(r, n)[x] = r[x]
  <2>1. x \in 1..(Len(r) + n) /\ x <= Len(r)
    BY <1>5
  <2> QED
    BY <1>2, <1>4, <2>1
<1>7. ASSUME NEW x \in (Len(r) + 1)..(Len(r) + n) PROVE Grown(r, n)[x] = 0
  <2>1. x \in 1..(Len(r) + n) /\ ~(x <= Len(r)) /\ x - Len(r) \in 1..n
    BY <1>5
  <2> QED
    BY <1>1, <1>2, <1>4, <2>1
<1> QED
  BY <1>2, <1>3, <1>6, <1>7

LEMMA HeldAdded ==
  ASSUME NEW cs, NEW n \in Nat, Siblings(cs, n), NEW r \in Seq(Nat), Len(r) = n, NEW S, NEW K,
         \A k \in DOMAIN cs : cs[k].id # 0 => (cs[k].id \in S <=> k \in K)
  PROVE  Added(cs, r, Held(r, S), K)
<1>1. \A k \in DOMAIN cs : cs[k].id \in Nat /\ cs[k].id <= n
  BY SiblingType
<1>2. \A k \in DOMAIN cs : cs[k].id # 0 => cs[k].id \in 1..n
  BY <1>1
<1>3. \A x \in 1..n : Held(r, S)[x] = r[x] + (IF x \in S THEN 1 ELSE 0)
  BY HeldFacts
<1> QED
  BY <1>2, <1>3 DEF Added

LEMMA IdsFacts ==
  ASSUME NEW cs, NEW n \in Nat, Siblings(cs, n), NEW a \in Nat, NEW b \in Nat,
         1 <= a, b <= Len(cs)
  PROVE  \A k \in DOMAIN cs : cs[k].id # 0 => (cs[k].id \in Ids(cs, a, b) <=> k \in a..b)
<1>1. DOMAIN cs = 1..Len(cs) /\ Len(cs) \in Nat
  BY DEF Siblings
<1>2. a..b \subseteq DOMAIN cs
  BY <1>1
<1>3. \A j, k \in DOMAIN cs : cs[j].id = cs[k].id /\ cs[j].id # 0 => j = k
  BY DEF Siblings
<1> QED
  BY <1>2, <1>3 DEF Ids

LEMMA NodeComment ==
  ASSUME NEW cs, NEW n \in Nat, Siblings(cs, n), NEW i \in DOMAIN cs, ~IsComment(cs, i)
  PROVE  /\ \A k \in DOMAIN cs : cs[k].id # 0 =>
              (cs[k].id \in getNodeComment(cs, i) <=>
                 IsComment(cs, k) /\ Below(cs, k) = i /\ ~Indented(cs, k))
         /\ \A x \in getNodeComment(cs, i) : \E k \in DOMAIN cs : x = cs[k].id /\ k < i
<1>1. Len(cs) \in Nat /\ DOMAIN cs = 1..Len(cs) /\ i \in Nat /\ 1 <= i /\ i <= Len(cs)
  <2>1. cs \in Seq(Item)
    BY DEF Siblings
  <2> QED
    BY <2>1
<1>2. ASSUME NEW k \in DOMAIN cs, IsComment(cs, k), Below(cs, k) = i
      PROVE  /\ k \in Nat /\ k <= i - 1 /\ RunEnd(cs, k) = i - 1 /\ i - 1 \in Nat
             /\ \A x \in k..(i - 1) : IsComment(cs, x)
  <2>1. k \in Nat
    BY <1>1
  <2>2. RunEnd(cs, k) \in k..Len(cs) /\ \A x \in k..RunEnd(cs, k) : IsComment(cs, x)
    BY <1>1, <1>2, <2>1, RunEndFacts
  <2>3. RunEnd(cs, k) = i - 1
    BY <1>1, <1>2, <2>2 DEF Below
  <2> QED
    BY <1>1, <2>1, <2>2, <2>3
<1>3. CASE ~IsComment(cs, i - 1)
  <2>1. getNodeComment(cs, i) = {}
    BY <1>3 DEF getNodeComment
  <2>2. \A k \in DOMAIN cs : ~(IsComment(cs, k) /\ Below(cs, k) = i)
    BY <1>2, <1>3
  <2> QED
    BY <2>1, <2>2
<1>4. CASE IsComment(cs, i - 1)
  <2>1. PICK m : m = RunStart(cs, i - 1)
    OBVIOUS
  <2>2. i - 1 \in Nat /\ 1 <= i - 1
    BY <1>1, <1>4 DEF IsComment
  <2>3. /\ m \in 1..(i - 1) /\ ~IsComment(cs, m - 1)
    BY <1>1, <1>4, <2>1, <2>2, RunStartFacts
  <2>4. RunEnd(cs, i - 1) = i - 1
    <3>1. /\ RunEnd(cs, i - 1) \in (i - 1)..Len(cs)
          /\ \A k \in (i - 1)..RunEnd(cs, i - 1) : IsComment(cs, k)
      BY <1>1, <1>4, <2>2, RunEndFacts
    <3>2. i \notin (i - 1)..RunEnd(cs, i - 1)
      BY <3>1
    <3> QED
      BY <1>1, <3>1, <3>2
  <2>5. ASSUME NEW k \in DOMAIN cs
        PROVE  k \in m..(i - 1) <=> IsComment(cs, k) /\ Below(cs, k) = i
    <3>1. ASSUME k \in m..(i - 1) PROVE IsComment(cs, k) /\ Below(cs, k) = i
      <4>1. k \in Nat /\ k \in RunStart(cs, i - 1)..RunEnd(cs, i - 1)
        BY <1>1, <2>1, <2>3, <2>4, <3>1
      <4>2. IsComment(cs, k) /\ RunEnd(cs, k) = i - 1
        BY <1>1, <1>4, <2>2, <2>4, <4>1, SameRun
      <4> QED
        BY <1>1, <4>2 DEF Below
    <3>2. ASSUME IsComment(cs, k), Below(cs, k) = i, k < m PROVE FALSE
      <4>1. \A x \in k..(i - 1) : IsComment(cs, x)
        BY <1>2, <3>2
      <4>2. m - 1 \in k..(i - 1)
        BY <1>1, <2>3, <3>2
      <4> QED
        BY <2>3, <4>1, <4>2
    <3>3. ASSUME IsComment(cs, k), Below(cs, k) = i PROVE k \in m..(i - 1)
      <4>1. k \in Nat /\ k <= i - 1
        BY <1>2, <3>3
      <4>2. ~(k < m)
        BY <3>2, <3>3
      <4> QED
        BY <1>1, <2>3, <4>1, <4>2
    <3> QED
      BY <3>1, <3>3
  <2>6. ASSUME NEW k \in DOMAIN cs, k \in m..(i - 1)
        PROVE  Indented(cs, k) <=> m > 1 /\ cs[m].near = 0
    <3>1. k \in Nat /\ k \in RunStart(cs, i - 1)..RunEnd(cs, i - 1)
      BY <1>1, <2>1, <2>3, <2>4, <2>6
    <3>2. RunStart(cs, k) = m
      BY <1>1, <1>4, <2>1, <2>2, <3>1, SameRun
    <3> QED
      BY <3>2 DEF Indented
  <2>7. \A k \in DOMAIN cs : cs[k].id # 0 => (cs[k].id \in Ids(cs, m, i - 1) <=> k \in m..(i - 1))
    <3>1. m \in Nat /\ 1 <= m /\ i - 1 <= Len(cs)
      BY <1>1, <2>3
    <3> QED
      BY <2>2, <3>1, IdsFacts
  <2>8. getNodeComment(cs, i) = IF m > 1 /\ cs[m].near = 0 THEN {} ELSE Ids(cs, m, i - 1)
    BY <1>4, <2>1 DEF getNodeComment
  <2>9. \A x \in Ids(cs, m, i - 1) : \E k \in DOMAIN cs : x = cs[k].id /\ k < i
    <3>1. \A k \in m..(i - 1) : k \in DOMAIN cs /\ k < i
      BY <1>1, <2>3
    <3> QED
      BY <3>1 DEF Ids
  <2>10. CASE m > 1 /\ cs[m].near = 0
    BY <2>5, <2>6, <2>8, <2>10
  <2>11. CASE ~(m > 1 /\ cs[m].near = 0)
    BY <2>5, <2>6, <2>7, <2>8, <2>9, <2>11
  <2> QED
    BY <2>10, <2>11
<1> QED
  BY <1>3, <1>4

-----------------------------------------------------------------------------
(* The stack of calls. *)

LEMMA ListDomain ==
  ASSUME NEW s, IsList(s)
  PROVE  DOMAIN s = 1..Len(s) /\ Len(s) \in Nat
<1>1. DOMAIN [n \in 1..Len(s) |-> s[n]] = 1..Len(s)
  OBVIOUS
<1> QED
  BY <1>1 DEF IsList

LEMMA FunctionList ==
  ASSUME NEW n \in Nat, NEW s, s = [x \in 1..n |-> s[x]]
  PROVE  IsList(s) /\ Len(s) = n
<1> DEFINE S == {s[x] : x \in 1..n}
<1>1. s \in [1..n -> S]
  OBVIOUS
<1>2. s \in Seq(S) /\ Len(s) = n
  <2> HIDE DEF S
  <2> QED
    BY <1>1
<1> QED
  BY <1>2 DEF IsList

\* What Append does.
LEMMA AppendList ==
  ASSUME NEW s, IsList(s), NEW e
  PROVE  LET t == Append(s, e)
         IN  /\ IsList(t) /\ Len(t) = Len(s) + 1
             /\ DOMAIN s = 1..Len(s) /\ DOMAIN t = 1..(Len(s) + 1)
             /\ \A n \in 1..Len(s) : t[n] = s[n]
             /\ t[Len(s) + 1] = e
<1> DEFINE S == {s[n] : n \in DOMAIN s} \cup {e}
           t == Append(s, e)
<1>1. DOMAIN s = 1..Len(s) /\ Len(s) \in Nat
  BY ListDomain
<1>2. s \in [1..Len(s) -> S] /\ e \in S
  BY <1>1 DEF IsList
<1> HIDE DEF S
<1>3. s \in Seq(S)
  BY <1>1, <1>2
<1>4. t \in Seq(S) /\ Len(t) = Len(s) + 1
  BY <1>2, <1>3
<1>5. /\ \A n \in 1..Len(s) : t[n] = s[n]
      /\ t[Len(s) + 1] = e
  BY <1>2, <1>3
<1>6. IsList(t) /\ DOMAIN t = 1..(Len(s) + 1)
  <2> HIDE DEF t
  <2>1. t \in [1..Len(t) -> S] /\ Len(t) \in Nat
    BY <1>4
  <2> QED
    BY <1>1, <1>4, <2>1 DEF IsList
<1> QED
  BY <1>1, <1>4, <1>5, <1>6

\* ns2 has the nodes of ns, of the same kinds, and maybe more.
SameKinds(ns, ns2) ==
  /\ Vertices(ns2)
  /\ \A v \in DOMAIN ns : v \in DOMAIN ns2 /\ ns2[v].kind = ns[v].kind

LEMMA MoreNodes ==
  ASSUME NEW st, NEW ns, NEW n, NEW r, Calls(st, ns, n, r), NEW ns2, SameKinds(ns, ns2)
  PROVE  Calls(st, ns2, n, r)
<1>1. \A p \in DOMAIN st : st[p].node \in DOMAIN ns
  BY DEF Calls
<1>2. \A p \in DOMAIN st : st[p].node \in DOMAIN ns2 /\ IsType(ns2, st[p]) = IsType(ns, st[p])
  BY <1>1 DEF SameKinds, IsType
<1>3. Vertices(ns2)
  BY DEF SameKinds
<1> QED
  BY <1>2, <1>3 DEF Calls

\* From r to r2 only items of cs got other places.
Touches(cs, n, r, r2) == \A x \in 1..n : r2[x] # r[x] => \E k \in DOMAIN cs : cs[k].id = x

\* The innermost call goes on and puts its own children into the graph.
LEMMA Advance ==
  ASSUME NEW st, NEW ns, NEW n, NEW r, Calls(st, ns, n, r), st # <<>>,
         NEW c, c = st[Len(st)], NEW d, NEW j, Goes(c, d, j),
         NEW r2 \in Seq(Nat), Len(r2) = n, Walked(d, IsType(ns, c), r2),
         Touches(c.cs, n, r, r2)
  PROVE  Calls([st EXCEPT ![Len(st)] = d], ns, n, r2)
<1>1. /\ n \in Nat /\ r \in Seq(Nat) /\ Len(r) = n /\ st \in Seq(Call) /\ Vertices(ns)
      /\ \A p \in DOMAIN st : /\ st[p].node \in DOMAIN ns /\ Siblings(st[p].cs, n)
                              /\ Walked(st[p], IsType(ns, st[p]), r)
      /\ \A p, q \in DOMAIN st : p # q => Apart(st[p].cs, st[q].cs)
  BY DEF Calls
<1>2. PICK m : m = Len(st)
  OBVIOUS
<1>3. m \in DOMAIN st /\ \A p \in DOMAIN st : st[p] \in Call
  BY <1>1, <1>2
<1>4. PICK st2 : st2 = [st EXCEPT ![m] = d]
  OBVIOUS
<1>5. d \in Call /\ d.node = c.node /\ d.cs = c.cs
  BY DEF Goes
<1>6. /\ st2 \in Seq(Call) /\ DOMAIN st2 = DOMAIN st /\ st2[m] = d
      /\ \A p \in DOMAIN st : p # m => st2[p] = st[p]
  BY <1>1, <1>3, <1>4, <1>5
<1>7. \A p \in DOMAIN st : st2[p].cs = st[p].cs /\ st2[p].node = st[p].node
  BY <1>2, <1>5, <1>6
<1>8. ASSUME NEW p \in DOMAIN st, p # m
      PROVE  Walked(st[p], IsType(ns, st[p]), r2)
  <2>1. \A k \in DOMAIN st[p].cs : st[p].cs[k].id \in Nat /\ st[p].cs[k].id <= n
    BY <1>1, SiblingType
  <2>2. Apart(st[p].cs, c.cs)
    BY <1>1, <1>2, <1>3, <1>8
  <2>3. ASSUME NEW k \in DOMAIN st[p].cs, st[p].cs[k].id # 0
        PROVE  r2[st[p].cs[k].id] = r[st[p].cs[k].id]
    <3>1. st[p].cs[k].id \in 1..n
      BY <1>1, <2>1, <2>3
    <3>2. ~\E l \in DOMAIN c.cs : c.cs[l].id = st[p].cs[k].id
      BY <2>2, <2>3 DEF Apart
    <3> QED
      BY <3>1, <3>2 DEF Touches
  <2>4. Added(st[p].cs, r, r2, {})
    <3>1. \A k \in DOMAIN st[p].cs : st[p].cs[k].id # 0 => r[st[p].cs[k].id] \in Nat
      BY <1>1, SiblingType
    <3> QED
      BY <2>3, <3>1 DEF Added
  <2> QED
    BY <1>1, <1>3, <2>4, OtherCall
<1>9. IsType(ns, d) = IsType(ns, c)
  BY <1>5 DEF IsType
<1>10. \A p \in DOMAIN st : /\ st2[p].node \in DOMAIN ns /\ Siblings(st2[p].cs, n)
                            /\ Walked(st2[p], IsType(ns, st2[p]), r2)
  <2> SUFFICES ASSUME NEW p \in DOMAIN st
               PROVE  /\ st2[p].node \in DOMAIN ns /\ Siblings(st2[p].cs, n)
                      /\ Walked(st2[p], IsType(ns, st2[p]), r2)
    OBVIOUS
  <2>1. CASE p = m
    BY <1>1, <1>6, <1>7, <1>9, <2>1
  <2>2. CASE p # m
    BY <1>1, <1>6, <1>8, <2>2
  <2> QED
    BY <2>1, <2>2
<1>11. \A p, q \in DOMAIN st : p # q => Apart(st2[p].cs, st2[q].cs)
  BY <1>1, <1>7
<1>12. Calls(st2, ns, n, r2)
  BY <1>1, <1>6, <1>10, <1>11 DEF Calls
<1> QED
  BY <1>2, <1>4, <1>12

\* More items are read.
LEMMA GrowCalls ==
  ASSUME NEW st, NEW ns, NEW n, NEW r, Calls(st, ns, n, r), NEW m \in Nat
  PROVE  Calls(st, ns, n + m, Grown(r, m))
<1>1. /\ n \in Nat /\ r \in Seq(Nat) /\ Len(r) = n /\ st \in Seq(Call) /\ Vertices(ns)
      /\ \A p \in DOMAIN st : /\ st[p].node \in DOMAIN ns /\ Siblings(st[p].cs, n)
                              /\ Walked(st[p], IsType(ns, st[p]), r)
      /\ \A p, q \in DOMAIN st : p # q => Apart(st[p].cs, st[q].cs)
  BY DEF Calls
<1>2. PICK r2 : r2 = Grown(r, m)
  OBVIOUS
<1>3. r2 \in Seq(Nat) /\ Len(r2) = n + m /\ \A x \in 1..n : r2[x] = r[x]
  BY <1>1, <1>2, GrownFacts
<1>4. ASSUME NEW p \in DOMAIN st
      PROVE  Siblings(st[p].cs, n + m) /\ Walked(st[p], IsType(ns, st[p]), r2)
  <2>1. \A k \in DOMAIN st[p].cs : /\ st[p].cs[k].id \in Nat /\ st[p].cs[k].id <= n
                                   /\ st[p].cs[k].id # 0 => r[st[p].cs[k].id] \in Nat
    BY <1>1, SiblingType
  <2>2. Siblings(st[p].cs, n + m)
    <3>1. \A k \in DOMAIN st[p].cs : st[p].cs[k].id <= n + m
      BY <1>1, <2>1
    <3> QED
      BY <1>1, <3>1 DEF Siblings
  <2>3. Added(st[p].cs, r, r2, {})
    <3>1. \A k \in DOMAIN st[p].cs : st[p].cs[k].id # 0 => st[p].cs[k].id \in 1..n
      BY <1>1, <2>1
    <3> QED
      BY <1>3, <2>1, <3>1 DEF Added
  <2>4. st[p] \in Call
    BY <1>1
  <2> QED
    BY <1>1, <2>2, <2>3, <2>4, OtherCall
<1>5. n + m \in Nat
  BY <1>1
<1> QED
  BY <1>1, <1>2, <1>3, <1>4, <1>5 DEF Calls

\* A call begins.
LEMMA PushCall ==
  ASSUME NEW st, NEW ns, NEW n, NEW r, Calls(st, ns, n, r),
         NEW c \in Call, c.node \in DOMAIN ns, Siblings(c.cs, n), Walked(c, IsType(ns, c), r),
         \A p \in DOMAIN st : Apart(st[p].cs, c.cs) /\ Apart(c.cs, st[p].cs)
  PROVE  Calls(Append(st, c), ns, n, r)
<1>1. /\ n \in Nat /\ r \in Seq(Nat) /\ Len(r) = n /\ st \in Seq(Call) /\ Vertices(ns)
      /\ \A p \in DOMAIN st : /\ st[p].node \in DOMAIN ns /\ Siblings(st[p].cs, n)
                              /\ Walked(st[p], IsType(ns, st[p]), r)
      /\ \A p, q \in DOMAIN st : p # q => Apart(st[p].cs, st[q].cs)
  BY DEF Calls
<1>2. PICK st2 : st2 = Append(st, c)
  OBVIOUS
<1>3. /\ st2 \in Seq(Call) /\ DOMAIN st2 = DOMAIN st \cup {Len(st) + 1}
      /\ st2[Len(st) + 1] = c /\ Len(st) + 1 \notin DOMAIN st
      /\ \A p \in DOMAIN st : st2[p] = st[p]
  BY <1>1, <1>2
<1>4. \A p \in DOMAIN st2 : /\ st2[p].node \in DOMAIN ns /\ Siblings(st2[p].cs, n)
                            /\ Walked(st2[p], IsType(ns, st2[p]), r)
  BY <1>1, <1>3
<1>5. \A p, q \in DOMAIN st2 : p # q => Apart(st2[p].cs, st2[q].cs)
  BY <1>1, <1>3
<1>6. Calls(st2, ns, n, r)
  BY <1>1, <1>3, <1>4, <1>5 DEF Calls
<1> QED
  BY <1>2, <1>6

\* A call returns.
LEMMA PopCall ==
  ASSUME NEW st, NEW ns, NEW n, NEW r, Calls(st, ns, n, r), st # <<>>
  PROVE  Calls(Front(st), ns, n, r)
<1>1. st \in Seq(Call)
  BY DEF Calls
<1>2. PICK st2 : st2 = SubSeq(st, 1, Len(st) - 1)
  OBVIOUS
<1>3. Front(st) = st2
  BY <1>2 DEF Front
<1>4. /\ st2 \in Seq(Call) /\ DOMAIN st2 \subseteq DOMAIN st
      /\ \A p \in DOMAIN st2 : st2[p] = st[p]
  BY <1>1, <1>2
<1>5. Calls(st2, ns, n, r)
  BY <1>4 DEF Calls
<1> QED
  BY <1>3, <1>5

\* A call that begins with its first child, none of which is in the graph.
LEMMA FreshCall ==
  ASSUME NEW c \in Call, NEW n \in Nat, Siblings(c.cs, n), NEW r \in Seq(Nat), Len(r) = n,
         c.i = 1, c.front = 0, Fresh(c.cs, r), NEW type
  PROVE  Walked(c, type, r)
<1>1. /\ Len(c.cs) \in Nat /\ DOMAIN c.cs = 1..Len(c.cs)
      /\ \A k \in DOMAIN c.cs : IsComment(c.cs, k) => c.cs[k].id # 0
  BY SiblingType
<1>2. \A k \in DOMAIN c.cs : c.cs[k].id # 0 => r[c.cs[k].id] = 0
  BY DEF Fresh
<1>3. \A k \in DOMAIN c.cs : ~(k <= c.front) /\ ~(k < c.i) /\ k >= c.i
  BY <1>1
<1>4. ASSUME NEW k \in DOMAIN c.cs, IsComment(c.cs, k)
      PROVE  CommentHeld(c, r, k)
  <2>1. k \in Nat
    BY <1>1
  <2>2. Below(c.cs, k) \in (k + 1)..(Len(c.cs) + 1)
    BY <1>1, <1>4, <2>1, BelowFacts
  <2>3. ~Taken(c, k)
    BY <1>1, <2>1, <2>2 DEF Taken
  <2>4. Own(c, r, k) = 0
    BY <1>1, <1>2, <1>4, <2>3 DEF Own
  <2> QED
    BY <1>3, <2>4 DEF CommentHeld
<1>5. \A k \in DOMAIN c.cs : c.cs[k].id # 0 => ItemHeld(c, type, r, k)
  BY <1>2, <1>3 DEF ItemHeld
<1> QED
  BY <1>1, <1>3, <1>4, <1>5 DEF Walked

\* The graph with one more vertex.
LEMMA NewVertex ==
  ASSUME NEW ns, Vertices(ns), NEW v, Vertex(v)
  PROVE  /\ SameKinds(ns, Append(ns, v)) /\ Vertices(Append(ns, v))
         /\ Len(ns) + 1 \in DOMAIN Append(ns, v) /\ Len(ns) + 1 \in Nat
<1>1. PICK t : t = Append(ns, v)
  OBVIOUS
<1>2. IsList(ns) /\ Len(ns) \in Nat
  BY ListDomain DEF Vertices
<1>3. /\ IsList(t) /\ DOMAIN ns = 1..Len(ns) /\ DOMAIN t = 1..(Len(ns) + 1)
      /\ \A x \in 1..Len(ns) : t[x] = ns[x]
      /\ t[Len(ns) + 1] = v
  BY <1>1, <1>2, AppendList
<1>4. \A x \in DOMAIN t : Vertex(t[x])
  BY <1>2, <1>3 DEF Vertices
<1>5. \A x \in DOMAIN ns : x \in DOMAIN t
  BY <1>2, <1>3
<1> QED
  BY <1>1, <1>2, <1>3, <1>4, <1>5 DEF SameKinds, Vertices

-----------------------------------------------------------------------------
(* The call on a translation unit. *)

LEMMA FrontDeclsFacts ==
  ASSUME NEW cs, Len(cs) \in Nat, NEW a \in Nat, a <= Len(cs)
  PROVE  /\ getFrontDecls(cs, a) \in a..Len(cs)
         /\ getFrontDecls(cs, a) < Len(cs) => ~FrontItem(cs, getFrontDecls(cs, a) + 1)
<1> DEFINE S == {m \in a..Len(cs) : m < Len(cs) => ~FrontItem(cs, m + 1)}
<1>1. Len(cs) \in S /\ S \subseteq Nat /\ S \subseteq a..Len(cs)
  OBVIOUS
<1>2. IsFiniteSet(S)
  <2> HIDE DEF S
  <2>1. IsFiniteSet(a..Len(cs))
    BY FS_Interval
  <2> QED
    BY <1>1, <2>1, FS_Subset
<1>3. PICK m \in S : \A x \in S : m <= x
  <2> HIDE DEF S
  <2> QED
    BY <1>1, <1>2, Extremes
<1>4. m \in a..Len(cs) /\ (m < Len(cs) => ~FrontItem(cs, m + 1))
  OBVIOUS
<1>5. ASSUME NEW k \in (a + 1)..m PROVE FrontItem(cs, k)
  <2>1. k - 1 \in a..Len(cs) /\ k - 1 < Len(cs) /\ ~(m <= k - 1) /\ (k - 1) + 1 = k
    BY <1>4
  <2>2. k - 1 \notin S
    <3> HIDE DEF S
    <3> QED
      BY <1>3, <2>1
  <2> QED
    BY <2>1, <2>2
<1> HIDE DEF S
<1>6. \E x \in a..Len(cs) : /\ \A k \in (a + 1)..x : FrontItem(cs, k)
                            /\ x < Len(cs) => ~FrontItem(cs, x + 1)
  BY <1>4, <1>5
<1> QED
  BY <1>6 DEF getFrontDecls


\* The call on the children of a file or of its guard, the first a of which are leading
\* comments or the guard; what else H holds are none of these children.
LEMMA UnitCall ==
  ASSUME NEW cs, NEW n \in Nat, Siblings(cs, n), NEW r \in Seq(Nat), Len(r) = n, Fresh(cs, r),
         NEW a \in Nat, a <= Len(cs), NEW H,
         \A k \in DOMAIN cs : cs[k].id # 0 => (cs[k].id \in H <=> k \in 1..a),
         NEW m, m = getFrontDecls(cs, a), NEW c \in Call,
         c.cs = cs, c.i = m + 1, c.front = m, NEW type, NEW r2,
         r2 = Held(Held(r, H), Ids(cs, a + 1, m))
  PROVE  Walked(c, type, r2) /\ r2 \in Seq(Nat) /\ Len(r2) = n
<1>1. /\ Len(cs) \in Nat /\ DOMAIN cs = 1..Len(cs)
      /\ \A k \in DOMAIN cs : IsComment(cs, k) => cs[k].id # 0
  BY SiblingType
<1>2. m \in a..Len(cs) /\ (m < Len(cs) => ~FrontItem(cs, m + 1))
  BY <1>1, FrontDeclsFacts
<1>3. \A k \in DOMAIN cs : cs[k].id # 0 => (cs[k].id \in Ids(cs, a + 1, m) <=> k \in (a + 1)..m)
  <2>1. a + 1 \in Nat /\ 1 <= a + 1 /\ m \in Nat /\ m <= Len(cs)
    BY <1>1, <1>2
  <2> QED
    BY <2>1, IdsFacts
<1>4. \A x \in Ids(cs, a + 1, m) : \E k \in DOMAIN cs : x = cs[k].id /\ k \in (a + 1)..m
  <2>1. \A k \in (a + 1)..m : k \in DOMAIN cs
    BY <1>1, <1>2
  <2> QED
    BY <2>1 DEF Ids
<1>5. \A k \in DOMAIN cs : ~(k \in 1..a /\ k \in (a + 1)..m)
  BY <1>1, <1>2
<1>6. r2 = Held(r, H \cup Ids(cs, a + 1, m))
  <2>1. \A x \in 1..n : ~(x \in H /\ x \in Ids(cs, a + 1, m))
    BY <1>4, <1>5
  <2> QED
    BY <2>1, HeldTwice
<1>7. Added(cs, r, r2, 1..m)
  <2>1. \A k \in DOMAIN cs : k \in 1..m <=> k \in 1..a \/ k \in (a + 1)..m
    BY <1>1, <1>2
  <2>2. \A k \in DOMAIN cs : cs[k].id # 0 => (cs[k].id \in H \cup Ids(cs, a + 1, m) <=> k \in 1..m)
    BY <1>3, <2>1
  <2>3. PICK S : S = H \cup Ids(cs, a + 1, m)
    OBVIOUS
  <2>4. \A k \in DOMAIN cs : cs[k].id # 0 => (cs[k].id \in S <=> k \in 1..m)
    BY <2>2, <2>3
  <2>5. PICK K : K = 1..m
    OBVIOUS
  <2>6. Added(cs, r, Held(r, S), K)
    BY <2>4, <2>5, HeldAdded
  <2> QED
    BY <1>6, <2>3, <2>5, <2>6
<1>8. \A k \in DOMAIN cs : cs[k].id # 0 => r2[cs[k].id] = IF k <= m THEN 1 ELSE 0
  <2>1. \A k \in DOMAIN cs : cs[k].id # 0 => r[cs[k].id] = 0
    BY DEF Fresh
  <2>2. \A k \in DOMAIN cs : k \in 1..m <=> k <= m
    BY <1>1, <1>2
  <2> QED
    BY <1>7, <2>1, <2>2 DEF Added
<1>9. ASSUME NEW k \in DOMAIN cs, IsComment(cs, k), k <= m
      PROVE  RunEnd(cs, k) <= m
  <2>1. k \in Nat
    BY <1>1
  <2>2. RunEnd(cs, k) \in k..Len(cs) /\ \A x \in k..RunEnd(cs, k) : IsComment(cs, x)
    BY <1>1, <1>9, <2>1, RunEndFacts
  <2> SUFFICES ASSUME m < RunEnd(cs, k) PROVE FALSE
    BY <1>1, <1>2, <2>2
  <2>3. m + 1 \in k..RunEnd(cs, k) /\ m < Len(cs)
    BY <1>1, <1>2, <1>9, <2>1, <2>2
  <2> QED
    BY <1>2, <2>2, <2>3 DEF FrontItem
<1>10. ASSUME NEW k \in DOMAIN cs, IsComment(cs, k)
       PROVE  CommentHeld(c, r2, k)
  <2>1. k \in Nat
    BY <1>1
  <2>2. Below(cs, k) \in Nat
    BY <1>1, <1>10, <2>1, BelowFacts
  <2>3. ~Taken(c, k)
    BY <1>1, <1>2, <2>2 DEF Taken
  <2>4. Own(c, r2, k) = IF k <= m THEN 1 ELSE 0
    BY <1>1, <1>8, <1>10, <2>3 DEF Own
  <2>5. /\ k >= m + 1 <=> ~(k <= m)
        /\ ~(m < k /\ k < m + 1)
    BY <1>2, <2>1
  <2> QED
    BY <2>4, <2>5 DEF CommentHeld
<1>11. ASSUME NEW k \in DOMAIN cs, cs[k].id # 0
       PROVE  ItemHeld(c, type, r2, k)
  <2>1. k < m + 1 <=> k <= m
    BY <1>1, <1>2
  <2> QED
    BY <1>8, <1>11, <2>1 DEF ItemHeld
<1>12. c.front < c.i /\ c.i <= Len(cs) + 1
  BY <1>1, <1>2
<1>13. r2 \in Seq(Nat) /\ Len(r2) = n
  BY <1>6, HeldFacts
<1> QED
  BY <1>9, <1>10, <1>11, <1>12, <1>13 DEF Walked

\* The stack with that call alone.
LEMMA OneCall ==
  ASSUME NEW c \in Call, NEW n \in Nat, Siblings(c.cs, n), NEW r \in Seq(Nat), Len(r) = n,
         NEW ns, Vertices(ns), c.node \in DOMAIN ns, Walked(c, IsType(ns, c), r)
  PROVE  Calls(<<c>>, ns, n, r)
<1>1. <<c>> \in Seq(Call) /\ DOMAIN <<c>> = {1} /\ <<c>>[1] = c
  OBVIOUS
<1> QED
  BY <1>1 DEF Calls

\* The block of a guard: some of the children of the file and #endif.
LEMMA GuardBlock ==
  ASSUME NEW cs, NEW n \in Nat, Siblings(cs, n), NEW r, Fresh(cs, r),
         NEW a \in Nat, NEW e \in Nat, 1 <= a, a <= e + 1, e <= Len(cs),
         NEW bs, bs = Token(SubSeq(cs, a, e), 1)
  PROVE  /\ Siblings(bs, n) /\ Fresh(bs, r)
         /\ \A k \in DOMAIN bs : bs[k].id # 0 => \E j \in a..e : bs[k] = cs[j]
<1>1. cs \in Seq(Item) /\ Len(cs) \in Nat /\ DOMAIN cs = 1..Len(cs)
  BY DEF Siblings
<1>2. PICK t : t = SubSeq(cs, a, e)
  OBVIOUS
<1>3. PICK z : z = [id |-> 0, shape |-> "punct", near |-> 1]
  OBVIOUS
<1>4. /\ t \in Seq(Item) /\ Len(t) = e - a + 1
      /\ \A k \in 1..Len(t) : t[k] = cs[k + a - 1] /\ k + a - 1 \in a..e
  BY <1>1, <1>2
<1>5. z \in Item /\ z.id = 0 /\ z.shape = "punct"
  BY <1>3 DEF Item, AllShapes, Punctuation
<1>6. bs = Append(t, z)
  BY <1>2, <1>3 DEF Token
<1>7. /\ bs \in Seq(Item) /\ DOMAIN bs = 1..(Len(t) + 1) /\ bs[Len(t) + 1] = z
      /\ \A k \in 1..Len(t) : bs[k] = t[k]
  <2>1. t \in Seq(Item) /\ z \in Item
    BY <1>4, <1>5
  <2> QED
    BY <1>6, <2>1
<1>8. \A k \in DOMAIN bs : \/ k = Len(t) + 1 /\ bs[k] = z
                           \/ /\ k \in 1..Len(t) /\ bs[k] = cs[k + a - 1]
                              /\ k + a - 1 \in a..e /\ k + a - 1 \in DOMAIN cs
  <2>1. \A k \in DOMAIN bs : k = Len(t) + 1 \/ k \in 1..Len(t)
    BY <1>4, <1>7
  <2>2. \A j \in a..e : j \in DOMAIN cs
    BY <1>1
  <2> QED
    BY <1>4, <1>7, <2>1, <2>2
<1>9. \A k \in DOMAIN bs : bs[k].id <= n /\ (bs[k].shape = "comment" => bs[k].id # 0)
  BY <1>5, <1>8 DEF Siblings
<1>10. ASSUME NEW j \in DOMAIN bs, NEW k \in DOMAIN bs, bs[j].id = bs[k].id, bs[j].id # 0
       PROVE  j = k
  <2>1. /\ j \in 1..Len(t) /\ bs[j] = cs[j + a - 1] /\ j + a - 1 \in DOMAIN cs
        /\ k \in 1..Len(t) /\ bs[k] = cs[k + a - 1] /\ k + a - 1 \in DOMAIN cs
    BY <1>5, <1>8, <1>10
  <2>2. j + a - 1 = k + a - 1
    BY <1>10, <2>1 DEF Siblings
  <2> QED
    BY <1>4, <2>1, <2>2
<1>11. Siblings(bs, n)
  BY <1>7, <1>9, <1>10 DEF Siblings
<1>12. \A k \in DOMAIN bs : bs[k].id # 0 => \E j \in a..e : bs[k] = cs[j]
  BY <1>5, <1>8
<1>13. Fresh(bs, r)
  BY <1>5, <1>8 DEF Fresh
<1> QED
  BY <1>11, <1>12, <1>13

-----------------------------------------------------------------------------
(* One child of the innermost call. *)

\* What the innermost call and its current child are.
LEMMA TopFacts ==
  ASSUME NEW st, NEW ns, NEW n, NEW r, Calls(st, ns, n, r), st # <<>>, NEW c, c = st[Len(st)]
  PROVE  /\ n \in Nat /\ r \in Seq(Nat) /\ Len(r) = n /\ c \in Call /\ c.i \in Nat
         /\ c.node \in DOMAIN ns /\ Siblings(c.cs, n) /\ Walked(c, IsType(ns, c), r)
         /\ Len(c.cs) \in Nat /\ DOMAIN c.cs = 1..Len(c.cs) /\ 1 <= c.i
<1>1. /\ n \in Nat /\ r \in Seq(Nat) /\ Len(r) = n /\ st \in Seq(Call)
  BY DEF Calls
<1>2. Len(st) \in DOMAIN st /\ c \in Call
  BY <1>1
<1>3. c.node \in DOMAIN ns /\ Siblings(c.cs, n) /\ Walked(c, IsType(ns, c), r)
  BY <1>2 DEF Calls
<1>4. c.i \in Nat /\ c.front \in Nat
  BY <1>2 DEF Call
<1>5. Len(c.cs) \in Nat /\ DOMAIN c.cs = 1..Len(c.cs)
  BY <1>1, <1>3, SiblingType
<1>6. 1 <= c.i
  BY <1>3, <1>4 DEF Walked
<1> QED
  BY <1>1, <1>2, <1>3, <1>4, <1>5, <1>6

LEMMA ItemStep ==
  ASSUME NEW st, NEW ns, NEW n, NEW r, Calls(st, ns, n, r), st # <<>>,
         NEW c, c = st[Len(st)], c.i <= Len(c.cs), ~IsComment(c.cs, c.i),
         NEW d, NEW j, Goes(c, d, j), GoesTo(c, j),
         NEW S, \A k \in DOMAIN c.cs :
                  c.cs[k].id # 0 => (c.cs[k].id \in S <=> k \in Gets(c, IsType(ns, c), j)),
         \A x \in S : \E k \in DOMAIN c.cs : c.cs[k].id = x
  PROVE  Calls([st EXCEPT ![Len(st)] = d], ns, n, Held(r, S))
<1>1. /\ n \in Nat /\ r \in Seq(Nat) /\ Len(r) = n /\ c \in Call
      /\ Siblings(c.cs, n) /\ Walked(c, IsType(ns, c), r)
  BY TopFacts
<1>2. PICK r2 : r2 = Held(r, S)
  OBVIOUS
<1>3. PICK K : K = Gets(c, IsType(ns, c), j)
  OBVIOUS
<1>4. Added(c.cs, r, r2, K)
  BY <1>1, <1>2, <1>3, HeldAdded
<1>5. Added(c.cs, r, r2, Gets(c, IsType(ns, c), j))
  BY <1>3, <1>4
<1>6. Walked(d, IsType(ns, c), r2)
  BY <1>1, <1>5, WalkItem
<1>7. /\ r2 \in Seq(Nat) /\ Len(r2) = n
      /\ \A x \in 1..n : r2[x] # r[x] => x \in S
  BY <1>1, <1>2, HeldOnly
<1>8. Touches(c.cs, n, r, r2)
  BY <1>7 DEF Touches
<1>9. Calls([st EXCEPT ![Len(st)] = d], ns, n, r2)
  BY <1>6, <1>7, <1>8, Advance
<1> QED
  BY <1>2, <1>9

\* The child is a node with a comment field, or a namespace that skips the comment
\* beside its closing brace.
LEMMA CarrierStep ==
  ASSUME NEW st, NEW ns, NEW n, NEW r, Calls(st, ns, n, r), st # <<>>,
         NEW c, c = st[Len(st)], c.i <= Len(c.cs), c.cs[c.i].shape \in CarrierShapes,
         NEW d, NEW j, Goes(c, d, j), GoesTo(c, j),
         NEW A, A = {c.cs[c.i].id} \cup (IF j = c.i + 2 THEN {c.cs[c.i + 1].id} ELSE {}),
         NEW r2, r2 = Held(Held(r, A), getNodeComment(c.cs, c.i))
  PROVE  Calls([st EXCEPT ![Len(st)] = d], ns, n, r2)
<1> DEFINE cs == c.cs
           i == c.i
           B == getNodeComment(cs, i)
<1>1. /\ n \in Nat /\ r \in Seq(Nat) /\ Len(r) = n /\ c \in Call /\ i \in Nat
      /\ c.node \in DOMAIN ns /\ Siblings(cs, n) /\ Walked(c, IsType(ns, c), r)
      /\ Len(cs) \in Nat /\ DOMAIN cs = 1..Len(cs) /\ 1 <= i
  BY TopFacts
<1>0. n \in Nat /\ r \in Seq(Nat) /\ Len(r) = n /\ i \in Nat /\ Siblings(cs, n)
  BY <1>1
<1>2. i \in DOMAIN cs
  BY <1>1
<1>3. ~IsComment(cs, i) /\ Handled(cs[i].shape, IsType(ns, c))
  BY DEF IsComment, Handled, CarrierShapes, TextualShapes, IsTextualNode, OpeningShapes,
         UnhandledShapes, Punctuation
<1>4. /\ \A k \in DOMAIN cs : cs[k].id # 0 =>
           (cs[k].id \in B <=> IsComment(cs, k) /\ Below(cs, k) = i /\ ~Indented(cs, k))
      /\ \A x \in B : \E k \in DOMAIN cs : x = cs[k].id /\ k < i
  BY <1>1, <1>2, <1>3, NodeComment
<1>5. \A k, l \in DOMAIN cs : cs[k].id = cs[l].id /\ cs[k].id # 0 => k = l
  BY <1>1 DEF Siblings
<1>6. /\ j = i + 1 \/ j = i + 2
      /\ j = i + 2 => i + 1 \in DOMAIN cs
  BY <1>1 DEF IsComment, GoesTo
<1>7. \A k \in DOMAIN cs : cs[k].id # 0 => (cs[k].id \in A <=> k = i \/ (j = i + 2 /\ k = i + 1))
  BY <1>2, <1>5, <1>6
<1>8. \A x \in A : \E k \in DOMAIN cs : x = cs[k].id /\ (k = i \/ k = i + 1)
  BY <1>2, <1>6
<1>9. r2 = Held(r, A \cup B)
  <2>1. ASSUME NEW x \in 1..n, x \in A, x \in B PROVE FALSE
    <3>1. PICK k \in DOMAIN cs : x = cs[k].id /\ (k = i \/ k = i + 1)
      BY <1>8, <2>1
    <3>2. PICK l \in DOMAIN cs : x = cs[l].id /\ l < i
      BY <1>4, <2>1
    <3>3. x # 0
      BY <1>0
    <3>4. k = l
      BY <1>5, <3>1, <3>2, <3>3
    <3> QED
      BY <1>0, <3>1, <3>2, <3>4
  <2> HIDE DEF B
  <2>2. Held(Held(r, A), B) = Held(r, A \cup B)
    BY <1>0, <2>1, HeldTwice
  <2> QED
    BY <2>2 DEF B
<1>10. PICK S : S = A \cup B /\ r2 = Held(r, S)
  BY <1>9
<1>11. PICK K : K = Gets(c, IsType(ns, c), j)
  OBVIOUS
<1>12. \A k \in DOMAIN cs : cs[k].id # 0 => (cs[k].id \in S <=> k \in K)
  <2> SUFFICES ASSUME NEW k \in DOMAIN cs, cs[k].id # 0
               PROVE  cs[k].id \in S <=> k \in K
    OBVIOUS
  <2>1. k \in (i + 1)..(j - 1) <=> j = i + 2 /\ k = i + 1
    BY <1>1, <1>6
  <2>2. k \in CommentsOf(cs, i) <=> cs[k].id \in B
    BY <1>4 DEF CommentsOf
  <2>3. k \in K <=> k = i \/ k \in CommentsOf(cs, i) \/ k \in (i + 1)..(j - 1)
    BY <1>3, <1>11 DEF Gets
  <2> QED
    BY <1>7, <1>10, <2>1, <2>2, <2>3
<1>13. \A x \in S : \E k \in DOMAIN cs : cs[k].id = x
  <2>1. \A x \in B : \E k \in DOMAIN cs : cs[k].id = x
    BY <1>4
  <2>2. \A x \in A : \E k \in DOMAIN cs : cs[k].id = x
    BY <1>8
  <2> HIDE DEF B
  <2> QED
    BY <1>10, <2>1, <2>2
<1>14. Calls([st EXCEPT ![Len(st)] = d], ns, n, Held(r, S))
  <2> HIDE DEF B
  <2>1. \A k \in DOMAIN c.cs :
          c.cs[k].id # 0 => (c.cs[k].id \in S <=> k \in Gets(c, IsType(ns, c), j))
    BY <1>11, <1>12
  <2> QED
    BY <1>3, <1>13, <2>1, ItemStep
<1> QED
  BY <1>10, <1>14

\* The child is an access specifier or nothing any branch takes.
LEMMA PlainStep ==
  ASSUME NEW st, NEW ns, NEW n, NEW r, Calls(st, ns, n, r), st # <<>>,
         NEW c, c = st[Len(st)], c.i <= Len(c.cs),
         c.cs[c.i].shape \notin CarrierShapes, c.cs[c.i].shape # "comment",
         NEW d, Goes(c, d, c.i + 1),
         NEW r2, r2 = IF Handled(c.cs[c.i].shape, IsType(ns, c)) THEN Held(r, {c.cs[c.i].id}) ELSE r
  PROVE  Calls([st EXCEPT ![Len(st)] = d], ns, n, r2)
<1> DEFINE cs == c.cs
           i == c.i
<1>1. /\ n \in Nat /\ r \in Seq(Nat) /\ Len(r) = n /\ c \in Call /\ i \in Nat
      /\ c.node \in DOMAIN ns /\ Siblings(cs, n) /\ Walked(c, IsType(ns, c), r)
      /\ Len(cs) \in Nat /\ DOMAIN cs = 1..Len(cs) /\ 1 <= i
  BY TopFacts
<1>2. i \in DOMAIN cs /\ ~IsComment(cs, i)
  BY <1>1 DEF IsComment
<1>3. \A k, l \in DOMAIN cs : cs[k].id = cs[l].id /\ cs[k].id # 0 => k = l
  BY <1>1 DEF Siblings
<1>4. \A k \in DOMAIN cs : cs[k].id # 0 => r[cs[k].id] \in Nat
  BY <1>1, SiblingType
<1>5. PICK j : j = i + 1
  OBVIOUS
<1>6. PICK K : K = Gets(c, IsType(ns, c), j)
  OBVIOUS
<1>7. K = {k \in {i} : Handled(cs[k].shape, IsType(ns, c))}
  <2>1. CommentsOf(cs, i) = {}
    BY DEF CommentsOf
  <2>2. (i + 1)..(j - 1) = {}
    BY <1>1, <1>5
  <2> QED
    BY <1>6, <2>1, <2>2 DEF Gets
<1>8. Added(cs, r, r2, K)
  <2>1. CASE Handled(cs[i].shape, IsType(ns, c))
    <3>1. \A k \in DOMAIN cs : cs[k].id # 0 => (cs[k].id \in {cs[i].id} <=> k \in K)
      BY <1>2, <1>3, <1>7, <2>1
    <3>2. PICK S : S = {cs[i].id}
      OBVIOUS
    <3>3. \A k \in DOMAIN cs : cs[k].id # 0 => (cs[k].id \in S <=> k \in K)
      BY <3>1, <3>2
    <3>4. Added(cs, r, Held(r, S), K)
      BY <1>1, <3>3, HeldAdded
    <3> QED
      BY <2>1, <3>2, <3>4
  <2>2. CASE ~Handled(cs[i].shape, IsType(ns, c))
    BY <1>4, <1>7, <2>2 DEF Added
  <2> QED
    BY <2>1, <2>2
<1>9. Walked(d, IsType(ns, c), r2)
  <2>1. Goes(c, d, j) /\ GoesTo(c, j)
    BY <1>5 DEF GoesTo
  <2>2. Added(cs, r, r2, Gets(c, IsType(ns, c), j))
    BY <1>6, <1>8
  <2> QED
    BY <1>1, <1>2, <2>1, <2>2, WalkItem
<1>10. r2 \in Seq(Nat) /\ Len(r2) = n /\ Touches(cs, n, r, r2)
  <2>0. n \in Nat /\ r \in Seq(Nat) /\ Len(r) = n
    BY <1>1
  <2>1. CASE Handled(cs[i].shape, IsType(ns, c))
    <3>1. PICK S : S = {cs[i].id}
      OBVIOUS
    <3>2. r2 = Held(r, S)
      BY <2>1, <3>1
    <3>3. /\ r2 \in Seq(Nat) /\ Len(r2) = n
          /\ \A x \in 1..n : r2[x] # r[x] => x \in S
      BY <2>0, <3>2, HeldOnly
    <3> QED
      BY <1>2, <3>1, <3>3 DEF Touches
  <2>2. CASE ~Handled(cs[i].shape, IsType(ns, c))
    BY <2>0, <2>2 DEF Touches
  <2> QED
    BY <2>1, <2>2
<1> QED
  BY <1>9, <1>10, Advance

\* The child is a comment.
LEMMA CommentStep ==
  ASSUME NEW st, NEW ns, NEW n, NEW r, Calls(st, ns, n, r), st # <<>>,
         NEW c, c = st[Len(st)], c.i <= Len(c.cs), c.cs[c.i].shape = "comment"
  PROVE  LET g == getComment(c.cs, c.i)
         IN  /\ g.count \in Nat
             /\ \A d : g.orphan /\ Goes(c, d, c.i + g.count) =>
                  Calls([st EXCEPT ![Len(st)] = d], ns, n,
                        Held(Held(r, {0}), Ids(c.cs, c.i, c.i + g.count - 1)))
             /\ \A d : ~g.orphan /\ Goes(c, d, c.i + 1) =>
                  Calls([st EXCEPT ![Len(st)] = d], ns, n, r)
<1> DEFINE cs == c.cs
           i == c.i
           g == getComment(cs, i)
<1>1. /\ n \in Nat /\ r \in Seq(Nat) /\ Len(r) = n /\ c \in Call /\ i \in Nat
      /\ c.node \in DOMAIN ns /\ Siblings(cs, n) /\ Walked(c, IsType(ns, c), r)
      /\ Len(cs) \in Nat /\ DOMAIN cs = 1..Len(cs) /\ 1 <= i
  BY TopFacts
<1>2. IsComment(cs, i)
  BY <1>1 DEF IsComment
<1>3. PICK m : m = RunEnd(cs, i)
  OBVIOUS
<1>4. m \in i..Len(cs)
  BY <1>1, <1>2, <1>3, RunEndFacts
<1>5. /\ g.count = m - i + 1
      /\ g.orphan <=> m = Len(cs) \/ cs[m + 1].near > 1 \/ (i > 1 /\ cs[i].near = 0)
  BY <1>3 DEF getComment
<1> HIDE DEF g
<1>6. g.count \in Nat /\ i + g.count = m + 1 /\ i + g.count - 1 = m
  <2>1. i \in Nat /\ m \in Nat /\ i <= m
    BY <1>1, <1>4
  <2>2. PICK x : x = g.count
    OBVIOUS
  <2>3. x = m - i + 1
    BY <1>5, <2>2
  <2>4. x \in Nat /\ i + x = m + 1 /\ i + x - 1 = m
    BY <2>1, <2>3
  <2> QED
    BY <2>2, <2>4
<1>7. ASSUME NEW d, g.orphan, Goes(c, d, i + g.count)
      PROVE  Calls([st EXCEPT ![Len(st)] = d], ns, n,
                   Held(Held(r, {0}), Ids(cs, i, i + g.count - 1)))
  <2>1. PICK S : S = Ids(cs, i, m)
    OBVIOUS
  <2>2. PICK r2 : r2 = Held(Held(r, {0}), S)
    OBVIOUS
  <2>3. PICK T : T = {0} \cup S
    OBVIOUS
  <2>4. r2 = Held(r, T)
    <3>1. \A x \in 1..Len(r) : ~(x \in {0} /\ x \in S)
      BY <1>1
    <3> QED
      BY <1>1, <2>2, <2>3, <3>1, HeldTwice
  <2>5. \A k \in DOMAIN cs : cs[k].id # 0 => (cs[k].id \in S <=> k \in i..m)
    <3>1. m \in Nat /\ m <= Len(cs)
      BY <1>1, <1>4
    <3> QED
      BY <1>1, <2>1, <3>1, IdsFacts
  <2>6. PICK K : K = i..m
    OBVIOUS
  <2>7. Added(cs, r, r2, K)
    <3>1. \A k \in DOMAIN cs : cs[k].id # 0 => (cs[k].id \in T <=> k \in K)
      BY <2>3, <2>5, <2>6
    <3> QED
      BY <1>1, <2>4, <3>1, HeldAdded
  <2>8. /\ \/ RunEnd(cs, i) = Len(cs)
           \/ cs[RunEnd(cs, i) + 1].near > 1
           \/ i > 1 /\ cs[i].near = 0
        /\ Goes(c, d, RunEnd(cs, i) + 1)
        /\ Added(cs, r, r2, i..RunEnd(cs, i))
    BY <1>3, <1>5, <1>6, <1>7, <2>6, <2>7
  <2>9. Walked(d, IsType(ns, c), r2)
    BY <1>1, <1>2, <2>8, WalkOrphan
  <2>10. /\ r2 \in Seq(Nat) /\ Len(r2) = n
         /\ \A x \in 1..n : r2[x] # r[x] => x \in T
    <3>1. r \in Seq(Nat) /\ Len(r) = n
      BY <1>1
    <3> QED
      BY <2>4, <3>1, HeldOnly
  <2>11. \A x \in 1..n : r2[x] # r[x] => x \in S
    BY <1>1, <2>3, <2>10
  <2>12. \A x \in S : \E k \in DOMAIN cs : cs[k].id = x
    <3>1. \A k \in i..m : k \in DOMAIN cs
      BY <1>1, <1>4
    <3> QED
      BY <2>1, <3>1 DEF Ids
  <2>13. Touches(cs, n, r, r2)
    BY <2>11, <2>12 DEF Touches
  <2>14. Calls([st EXCEPT ![Len(st)] = d], ns, n, r2)
    BY <1>7, <2>9, <2>10, <2>13, Advance
  <2> QED
    BY <1>6, <2>1, <2>2, <2>14
<1>8. ASSUME NEW d, ~g.orphan, Goes(c, d, i + 1)
      PROVE  Calls([st EXCEPT ![Len(st)] = d], ns, n, r)
  <2>1. ~(i > 1 /\ cs[i].near = 0)
    BY <1>5, <1>8
  <2>2. Walked(d, IsType(ns, c), r)
    BY <1>1, <1>2, <1>8, <2>1, WalkComment
  <2>3. Touches(cs, n, r, r)
    BY DEF Touches
  <2> QED
    BY <1>1, <1>8, <2>2, <2>3, Advance
<1> QED
  BY <1>6, <1>7, <1>8 DEF g

-----------------------------------------------------------------------------
(* The steps of the builder. *)

LEMMA NumberedFacts ==
  ASSUME used \in Nat, NEW s \in Bodies
  PROVE  /\ Len(s) \in Nat /\ Numbered(s) \in Seq(Item) /\ Len(Numbered(s)) = Len(s)
         /\ \A k \in 1..Len(s) : Numbered(s)[k].id = used + k
<1> DEFINE t == Numbered(s)
<1>1. s \in Seq([shape : AllShapes, near : 0..2])
  BY BuildAssumption
<1>2. Len(s) \in Nat /\ \A k \in 1..Len(s) : s[k].shape \in AllShapes /\ s[k].near \in 0..2
  <2>1. \A x \in [shape : AllShapes, near : 0..2] : x.shape \in AllShapes /\ x.near \in 0..2
    OBVIOUS
  <2>2. PICK R : s \in Seq(R) /\ \A x \in R : x.shape \in AllShapes /\ x.near \in 0..2
    BY <1>1, <2>1
  <2>3. Len(s) \in Nat
    BY <2>2
  <2>4. ASSUME NEW k \in 1..Len(s) PROVE s[k] \in R
    BY <2>2
  <2> QED
    BY <2>2, <2>3, <2>4
<1>3. t = [k \in 1..Len(s) |-> [id |-> used + k, shape |-> s[k].shape, near |-> s[k].near]]
  BY DEF Numbered
<1>4. \A k \in 1..Len(s) : t[k] \in Item /\ t[k].id = used + k
  BY <1>2, <1>3 DEF Item
<1>5. t \in [1..Len(s) -> Item]
  BY <1>3, <1>4
<1> HIDE DEF t
<1>6. t \in Seq(Item) /\ Len(t) = Len(s)
  BY <1>2, <1>5
<1> QED
  BY <1>2, <1>4, <1>6 DEF t

LEMMA NumberedSiblings ==
  ASSUME used \in Nat, NEW s \in Bodies
  PROVE  /\ Siblings(Numbered(s), used + Len(s))
         /\ \A k \in DOMAIN Numbered(s) : Numbered(s)[k].id \in (used + 1)..(used + Len(s))
<1>1. PICK t : t = Numbered(s)
  OBVIOUS
<1>2. PICK m : m = Len(s)
  OBVIOUS
<1>3. m \in Nat /\ t \in Seq(Item) /\ Len(t) = m /\ \A k \in 1..m : t[k].id = used + k
  BY <1>1, <1>2, NumberedFacts
<1>4. DOMAIN t = 1..m
  BY <1>3
<1>5. \A k \in DOMAIN t : t[k].id \in (used + 1)..(used + m) /\ t[k].id <= used + m /\ t[k].id # 0
  BY <1>3, <1>4
<1>6. \A j, k \in DOMAIN t : t[j].id = t[k].id => j = k
  BY <1>3, <1>4
<1> QED
  BY <1>1, <1>2, <1>3, <1>5, <1>6 DEF Siblings

\* The children of a body with its braces.
LEMMA BodySiblings ==
  ASSUME used \in Nat, NEW s \in Bodies, NEW e \in 1..2,
         NEW cs, cs = Token(Token(<<>>, 1) \o Numbered(s), e)
  PROVE  /\ Siblings(cs, used + Len(s)) /\ cs \in Seq(Item)
         /\ \A k \in DOMAIN cs : cs[k].id # 0 => cs[k].id \in (used + 1)..(used + Len(s))
<1>1. PICK t : t = Numbered(s)
  OBVIOUS
<1>2. PICK m : m = Len(s)
  OBVIOUS
<1>3. m \in Nat /\ t \in Seq(Item) /\ Len(t) = m /\ \A k \in 1..m : t[k].id = used + k
  BY <1>1, <1>2, NumberedFacts
<1>4. PICK y : y = [id |-> 0, shape |-> "punct", near |-> 1]
  OBVIOUS
<1>5. PICK z : z = [id |-> 0, shape |-> "punct", near |-> e]
  OBVIOUS
<1>6. /\ y \in Item /\ y.id = 0 /\ y.shape = "punct"
      /\ z \in Item /\ z.id = 0 /\ z.shape = "punct"
  BY <1>4, <1>5 DEF Item, AllShapes, Punctuation
<1>7. cs = Append(Append(<<>>, y) \o t, z)
  BY <1>1, <1>4, <1>5 DEF Token
<1>8. PICK h : h = Append(<<>>, y)
  OBVIOUS
<1>9. h \in Seq(Item) /\ Len(h) = 1 /\ h[1] = y
  BY <1>6, <1>8
<1>10. PICK u : u = h \o t
  OBVIOUS
<1>11. /\ u \in Seq(Item) /\ Len(u) = m + 1
       /\ \A k \in 1..(m + 1) : u[k] = IF k <= 1 THEN h[k] ELSE t[k - 1]
  <2>1. h \in Seq(Item) /\ t \in Seq(Item)
    BY <1>3, <1>9
  <2>2. u \in Seq(Item) /\ Len(u) = Len(h) + Len(t)
    BY <1>10, <2>1
  <2>3. \A k \in 1..(Len(h) + Len(t)) : u[k] = IF k <= Len(h) THEN h[k] ELSE t[k - Len(h)]
    BY <1>10, <2>1
  <2>4. Len(h) = 1 /\ Len(t) = m /\ 1 + m = m + 1
    BY <1>3, <1>9
  <2> QED
    BY <2>2, <2>3, <2>4
<1>12. /\ cs \in Seq(Item) /\ DOMAIN cs = 1..(m + 2) /\ cs[m + 2] = z
       /\ \A k \in 1..(m + 1) : cs[k] = u[k]
  <2>1. cs = Append(u, z)
    BY <1>7, <1>8, <1>10
  <2>2. z \in Item /\ u \in Seq(Item)
    BY <1>6, <1>11
  <2>3. /\ cs \in Seq(Item) /\ Len(cs) = Len(u) + 1 /\ cs[Len(u) + 1] = z
        /\ \A k \in 1..Len(u) : cs[k] = u[k]
    BY <2>1, <2>2
  <2>4. DOMAIN cs = 1..Len(cs)
    BY <2>3
  <2>5. Len(u) = m + 1 /\ (m + 1) + 1 = m + 2
    BY <1>3, <1>11
  <2> QED
    BY <2>3, <2>4, <2>5
<1>13. ASSUME NEW k \in DOMAIN cs
       PROVE  \/ (k = 1 \/ k = m + 2) /\ cs[k].id = 0 /\ cs[k].shape = "punct"
              \/ k \in 2..(m + 1) /\ cs[k].id = used + (k - 1)
  <2>1. CASE k = 1
    BY <1>3, <1>6, <1>9, <1>11, <1>12, <2>1
  <2>2. CASE k = m + 2
    BY <1>6, <1>12, <2>2
  <2>3. CASE k # 1 /\ k # m + 2
    <3>1. k \in 2..(m + 1) /\ k \in 1..(m + 1) /\ ~(k <= 1) /\ k - 1 \in 1..m
      BY <1>3, <1>12, <2>3
    <3>2. cs[k] = t[k - 1]
      BY <1>11, <1>12, <3>1
    <3> QED
      BY <1>3, <3>1, <3>2
  <2> QED
    BY <2>1, <2>2, <2>3
<1>14. \A k \in DOMAIN cs : cs[k].id # 0 => cs[k].id \in (used + 1)..(used + m)
  BY <1>3, <1>13
<1>15. \A k \in DOMAIN cs : cs[k].id <= used + m /\ (cs[k].shape = "comment" => cs[k].id # 0)
  BY <1>3, <1>13
<1>16. \A j, k \in DOMAIN cs : cs[j].id = cs[k].id /\ cs[j].id # 0 => j = k
  BY <1>3, <1>13
<1> QED
  BY <1>2, <1>12, <1>14, <1>15, <1>16 DEF Siblings

\* Step moves the innermost call.
LEMMA StepFacts ==
  ASSUME BuildInv, stack # <<>>
  PROVE  /\ Top = stack[Len(stack)] /\ Top \in Call
         /\ \A e \in Nat : \E d : /\ Goes(Top, d, Top.i + e)
                                  /\ Step(e) = [stack EXCEPT ![Len(stack)] = d]
<1>1. stack \in Seq(Call)
  BY DEF BuildInv, Calls
<1>2. Top = stack[Len(stack)] /\ Len(stack) \in DOMAIN stack
  BY <1>1 DEF Top, Last
<1>3. PICK c : c = stack[Len(stack)]
  OBVIOUS
<1>4. c \in Call /\ c.i \in Nat
  <2>1. c \in Call
    BY <1>1, <1>2, <1>3
  <2> QED
    BY <2>1 DEF Call
<1>5. ASSUME NEW e \in Nat
      PROVE  \E d : Goes(c, d, c.i + e) /\ Step(e) = [stack EXCEPT ![Len(stack)] = d]
  <2>1. PICK d : d = [c EXCEPT !.i = c.i + e]
    OBVIOUS
  <2>2. c.i + e \in Nat
    BY <1>4
  <2>3. Goes(c, d, c.i + e)
    BY <1>4, <2>1, <2>2 DEF Goes, Call
  <2>4. Step(e) = [stack EXCEPT ![Len(stack)] = d]
    BY <1>3, <2>1 DEF Step
  <2> QED
    BY <2>3, <2>4
<1> QED
  BY <1>2, <1>3, <1>4, <1>5

LEMMA NodeFacts ==
  ASSUME NEW kind
  PROVE  /\ Vertex(Node(kind)) /\ Node(kind).item = Cur.id
         /\ Node(kind).comment = getNodeComment(Cs, Top.i)
<1> QED
  BY DEF Node, Vertex

\* The branches that insert a node and go on with the next child.
LEMMA Inserted ==
  ASSUME BuildInv, pc = "walk", stack # <<>>, Top.i <= Len(Cs), Cur.shape \in CarrierShapes,
         NEW kind, insertToGraphAndParent(Node(kind)), stack' = Step(1), UNCHANGED used, Keep
  PROVE  BuildInv'
<1>1. Calls(stack, nodes, used, rep)
  BY DEF BuildInv
<1>2. PICK c : c = stack[Len(stack)] /\ c = Top
  BY StepFacts
<1>3. PICK d : Goes(c, d, c.i + 1) /\ stack' = [stack EXCEPT ![Len(stack)] = d]
  BY <1>2, StepFacts
<1>4. c.i <= Len(c.cs) /\ c.cs[c.i].shape \in CarrierShapes
  BY <1>2 DEF Cs, Cur
<1>5. rep' = Held(Held(rep, {c.cs[c.i].id}), getNodeComment(c.cs, c.i))
  BY <1>2, NodeFacts DEF insertToGraphAndParent, Cs, Cur
<1>6. GoesTo(c, c.i + 1)
  BY DEF GoesTo
<1>7. {c.cs[c.i].id} = {c.cs[c.i].id} \cup
        (IF c.i + 1 = c.i + 2 THEN {c.cs[c.i + 1].id} ELSE {})
  <2>1. c.i \in Nat
    BY <1>1, <1>2, TopFacts
  <2> QED
    BY <2>1
<1>8. Calls(stack', nodes, used, rep')
  <2>1. PICK j : j = c.i + 1
    OBVIOUS
  <2>2. PICK A : A = {c.cs[c.i].id} \cup (IF j = c.i + 2 THEN {c.cs[c.i + 1].id} ELSE {})
    OBVIOUS
  <2>3. PICK r2 : r2 = Held(Held(rep, A), getNodeComment(c.cs, c.i))
    OBVIOUS
  <2>4. rep' = r2
    BY <1>5, <1>7, <2>1, <2>2, <2>3
  <2>5. c = stack[Len(stack)] /\ Goes(c, d, j) /\ GoesTo(c, j)
    BY <1>2, <1>3, <1>6, <2>1
  <2>6. Calls([stack EXCEPT ![Len(stack)] = d], nodes, used, r2)
    BY <1>1, <1>4, <2>2, <2>3, <2>5, CarrierStep
  <2> QED
    BY <1>3, <2>4, <2>6
<1>9. nodes' = Append(nodes, Node(kind))
  BY DEF insertToGraphAndParent
<1>10. SameKinds(nodes, nodes')
  BY <1>1, <1>9, NodeFacts, NewVertex DEF Calls
<1>11. Calls(stack', nodes', used, rep')
  BY <1>8, <1>10, MoreNodes
<1> QED
  BY <1>11 DEF BuildInv, Keep

LEMMA TextualStep ==
  ASSUME BuildInv, AddTextual
  PROVE  BuildInv'
<1>1. TextualShapes \subseteq CarrierShapes
  BY DEF CarrierShapes
<1> QED
  BY <1>1, Inserted DEF AddTextual, At, parseTextualNode

LEMMA MemberStep ==
  ASSUME BuildInv, AddMember
  PROVE  BuildInv'
<1>1. /\ pc = "walk" /\ stack # <<>> /\ Top.i <= Len(Cs) /\ stack' = Step(1) /\ UNCHANGED used
      /\ Keep /\ Cur.shape \in {"declaration", "function", "function_template",
                                "operator_cast", "special_member"}
  BY DEF AddMember, At
<1>2. Cur.shape \in CarrierShapes
  BY <1>1 DEF CarrierShapes
<1>3. \E kind : insertToGraphAndParent(Node(kind))
  <2>1. CASE Cur.shape = "declaration"
    BY <2>1 DEF AddMember, parseFieldDeclarationNode
  <2>2. CASE Cur.shape = "operator_cast"
    BY <2>2 DEF AddMember, parseFuncOperatorCastNode
  <2>3. CASE Cur.shape = "special_member"
    BY <2>3 DEF AddMember, parseFuncSpecialMemberNode
  <2>4. CASE Cur.shape \in {"function", "function_template"}
    BY <2>4 DEF AddMember, parseFuncDefNode
  <2> QED
    BY <1>1, <2>1, <2>2, <2>3, <2>4
<1> QED
  BY <1>1, <1>2, <1>3, Inserted

LEMMA AddCommentStep ==
  ASSUME BuildInv, AddComment
  PROVE  BuildInv'
<1>1. Calls(stack, nodes, used, rep)
  BY DEF BuildInv
<1>2. /\ pc = "walk" /\ stack # <<>> /\ Top.i <= Len(Cs) /\ Cur.shape = "comment"
      /\ UNCHANGED used /\ Keep
  BY DEF AddComment, At
<1>3. PICK c : c = stack[Len(stack)] /\ c = Top
  BY <1>2, StepFacts
<1>4. PICK g : g = getComment(c.cs, c.i)
  OBVIOUS
<1>5. c.i <= Len(c.cs) /\ c.cs[c.i].shape = "comment" /\ Cs = c.cs
  BY <1>2, <1>3 DEF Cs, Cur
<1>6. /\ g.count \in Nat
      /\ \A d : g.orphan /\ Goes(c, d, c.i + g.count) =>
           Calls([stack EXCEPT ![Len(stack)] = d], nodes, used,
                 Held(Held(rep, {0}), Ids(c.cs, c.i, c.i + g.count - 1)))
      /\ \A d : ~g.orphan /\ Goes(c, d, c.i + 1) =>
           Calls([stack EXCEPT ![Len(stack)] = d], nodes, used, rep)
  BY <1>1, <1>2, <1>3, <1>4, <1>5, CommentStep
<1>7. CASE g.orphan
  <2>1. PICK v : v = [Node("ORPHAN_COMMENT") EXCEPT
                        !.item = 0, !.comment = Ids(Cs, Top.i, Top.i + g.count - 1)]
    OBVIOUS
  <2>2. insertToGraphAndParent(v) /\ stack' = Step(g.count)
    BY <1>3, <1>4, <1>5, <1>7, <2>1 DEF AddComment
  <2>3. /\ Vertex(v) /\ v.item = 0
        /\ v.comment = Ids(Cs, Top.i, Top.i + g.count - 1)
    BY <2>1 DEF Node, Vertex
  <2>4. nodes' = Append(nodes, v) /\ rep' = Held(Held(rep, {v.item}), v.comment)
    BY <2>2 DEF insertToGraphAndParent
  <2>5. rep' = Held(Held(rep, {0}), Ids(c.cs, c.i, c.i + g.count - 1))
    BY <1>3, <1>5, <2>3, <2>4
  <2>6. PICK d : Goes(c, d, c.i + g.count) /\ stack' = [stack EXCEPT ![Len(stack)] = d]
    BY <1>2, <1>3, <1>6, <2>2, StepFacts
  <2>7. Calls(stack', nodes, used, rep')
    BY <1>6, <1>7, <2>5, <2>6
  <2>8. SameKinds(nodes, nodes')
    BY <1>1, <2>3, <2>4, NewVertex DEF Calls
  <2>9. Calls(stack', nodes', used, rep')
    BY <2>7, <2>8, MoreNodes
  <2> QED
    BY <1>2, <2>9 DEF BuildInv, Keep
<1>8. CASE ~g.orphan
  <2>1. stack' = Step(1) /\ UNCHANGED <<nodes, rep>>
    BY <1>3, <1>4, <1>5, <1>8 DEF AddComment
  <2>2. PICK d : Goes(c, d, c.i + 1) /\ stack' = [stack EXCEPT ![Len(stack)] = d]
    BY <1>2, <1>3, <2>1, StepFacts
  <2>3. Calls(stack', nodes, used, rep)
    BY <1>6, <1>8, <2>2
  <2> QED
    BY <1>2, <2>1, <2>3 DEF BuildInv, Keep
<1> QED
  BY <1>7, <1>8

\* An access specifier, and what no branch takes.
LEMMA PlainSteps ==
  ASSUME BuildInv, AddAccess \/ SkipUnhandled
  PROVE  BuildInv'
<1>1. Calls(stack, nodes, used, rep)
  BY DEF BuildInv
<1>2. /\ pc = "walk" /\ stack # <<>> /\ Top.i <= Len(Cs) /\ stack' = Step(1)
      /\ Cur.shape \in {"access_specifier"} \cup UnhandledShapes
      /\ UNCHANGED <<used, nodes>> /\ Keep
  BY DEF AddAccess, SkipUnhandled, At
<1>3. PICK c : c = stack[Len(stack)] /\ c = Top
  BY <1>2, StepFacts
<1>4. PICK d : Goes(c, d, c.i + 1) /\ stack' = [stack EXCEPT ![Len(stack)] = d]
  BY <1>2, <1>3, StepFacts
<1>5. c.i <= Len(c.cs) /\ c.cs[c.i] = Cur
  BY <1>2, <1>3 DEF Cs, Cur
<1>6. Cur.shape \notin CarrierShapes /\ Cur.shape # "comment"
  BY <1>2 DEF UnhandledShapes, Punctuation, CarrierShapes, TextualShapes, IsTextualNode,
              OpeningShapes
<1>7. rep' = IF Handled(Cur.shape, IsType(nodes, c)) THEN Held(rep, {Cur.id}) ELSE rep
  <2>1. CASE AddAccess
    <3>1. Cur.shape = "access_specifier"
      BY <2>1 DEF AddAccess, At
    <3>2. Handled(Cur.shape, IsType(nodes, c)) <=> nodes[Top.node].kind = "TYPE"
      BY <1>3, <3>1 DEF Handled, IsType, UnhandledShapes, Punctuation
    <3> QED
      BY <2>1, <3>2 DEF AddAccess
  <2>2. CASE SkipUnhandled
    BY <2>2 DEF SkipUnhandled, At, Handled
  <2> QED
    BY <2>1, <2>2
<1>8. Calls(stack', nodes, used, rep')
  <2>1. PICK r2 : r2 = rep'
    OBVIOUS
  <2>2. r2 = IF Handled(c.cs[c.i].shape, IsType(nodes, c)) THEN Held(rep, {c.cs[c.i].id}) ELSE rep
    BY <1>5, <1>7, <2>1
  <2>3. c.cs[c.i].shape \notin CarrierShapes /\ c.cs[c.i].shape # "comment"
    BY <1>5, <1>6
  <2>4. c = stack[Len(stack)] /\ Goes(c, d, c.i + 1) /\ c.i <= Len(c.cs) /\ stack # <<>>
    BY <1>2, <1>3, <1>4, <1>5
  <2>5. Calls([stack EXCEPT ![Len(stack)] = d], nodes, used, r2)
    BY <1>1, <2>2, <2>3, <2>4, PlainStep
  <2> QED
    BY <1>4, <2>1, <2>5
<1> QED
  BY <1>2, <1>8 DEF BuildInv, Keep

LEMMA OpenStep ==
  ASSUME BuildInv, OpenComposite
  PROVE  BuildInv'
<1>1. Calls(stack, nodes, used, rep)
  BY DEF BuildInv
<1>2. /\ pc = "walk" /\ stack # <<>> /\ Top.i <= Len(Cs) /\ Cur.shape \in OpeningShapes /\ Keep
  BY DEF OpenComposite, At
<1>3. PICK c : c = stack[Len(stack)] /\ c = Top
  BY <1>2, StepFacts
<1>4. c.i <= Len(c.cs) /\ c.cs[c.i] = Cur /\ c.cs = Cs
  BY <1>2, <1>3 DEF Cs, Cur
<1>5. c.cs[c.i].shape \in CarrierShapes
  BY <1>2, <1>4 DEF CarrierShapes
<1> DEFINE ns == Cur.shape \in {"namespace", "inline_namespace"}
           v == CASE ns -> parseNamespaceNode
                  [] Cur.shape = "linkage_list" -> parseLinkageSpecNode
                  [] Cur.shape = "enum" -> parseEnumNode
                  [] OTHER -> parseTypeDeclNode
           beside == ns /\ IsComment(Cs, Top.i + 1) /\ Cs[Top.i + 1].near = 0
           nsComment == IF beside THEN {Cs[Top.i + 1].id} ELSE {}
           Body(s, e) == Token(Token(<<>>, 1) \o Numbered(s), e)
<1>6. PICK s \in Contents, e \in 1..2 :
        /\ nodes' = Append(nodes, v)
        /\ rep' = Grown(Held(Held(rep, {v.item} \cup nsComment), v.comment), Len(s))
        /\ stack' = Append(Step(1 + Cardinality(nsComment)),
                           [node |-> Len(nodes) + 1, i |-> 1, front |-> 0, cs |-> Body(s, e)])
        /\ used' = used + Len(s)
  BY DEF OpenComposite
<1>7. Vertex(v) /\ v.item = Cur.id /\ v.comment = getNodeComment(Cs, Top.i)
  <2>1. PICK kind : v = Node(kind)
    BY DEF parseNamespaceNode, parseLinkageSpecNode, parseEnumNode, parseTypeDeclNode
  <2> HIDE DEF v
  <2> QED
    BY <2>1, NodeFacts
<1> HIDE DEF v, Body
<1>8. used \in Nat /\ s \in Bodies /\ Len(s) \in Nat
  <2>1. used \in Nat /\ s \in Bodies
    BY <1>1 DEF Calls, Contents
  <2> QED
    BY <2>1, NumberedFacts
<1>9. c.i \in Nat
  BY <1>1, <1>2, <1>3, TopFacts
<1>10. PICK j : j = c.i + (1 + Cardinality(nsComment)) /\ 1 + Cardinality(nsComment) \in Nat
  <2>1. nsComment = {} \/ \E x : nsComment = {x}
    OBVIOUS
  <2> HIDE DEF nsComment
  <2>2. Cardinality(nsComment) \in Nat
    BY <2>1, FS_EmptySet, FS_Singleton
  <2> QED
    BY <2>2
<1>11. /\ GoesTo(c, j)
       /\ nsComment = IF j = c.i + 2 THEN {c.cs[c.i + 1].id} ELSE {}
  <2>1. CASE beside
    <3>1. nsComment = {Cs[Top.i + 1].id}
      BY <2>1
    <3>2. Cardinality(nsComment) = 1
      <4> HIDE DEF nsComment
      <4> QED
        BY <3>1, FS_Singleton
    <3>3. j = c.i + 2
      BY <1>9, <1>10, <3>2
    <3>4. /\ c.cs[c.i].shape \in {"namespace", "inline_namespace"}
          /\ IsComment(c.cs, c.i + 1) /\ c.cs[c.i + 1].near = 0
      BY <1>3, <1>4, <2>1
    <3> QED
      BY <1>3, <1>4, <3>1, <3>3, <3>4 DEF GoesTo
  <2>2. CASE ~beside
    <3>1. nsComment = {}
      BY <2>2
    <3>2. Cardinality(nsComment) = 0
      <4> HIDE DEF nsComment
      <4> QED
        BY <3>1, FS_EmptySet
    <3>3. j = c.i + 1 /\ j # c.i + 2
      BY <1>9, <1>10, <3>2
    <3> QED
      BY <3>1, <3>3 DEF GoesTo
  <2> QED
    BY <2>1, <2>2
<1> HIDE DEF nsComment, beside
<1>12. PICK d : Goes(c, d, j) /\ Step(1 + Cardinality(nsComment)) = [stack EXCEPT ![Len(stack)] = d]
  BY <1>2, <1>3, <1>10, StepFacts
<1>13. PICK A : /\ A = {v.item} \cup nsComment
                /\ A = {c.cs[c.i].id} \cup (IF j = c.i + 2 THEN {c.cs[c.i + 1].id} ELSE {})
  BY <1>4, <1>7, <1>11
<1>14. PICK r2 : r2 = Held(Held(rep, A), getNodeComment(c.cs, c.i))
  OBVIOUS
<1>15. PICK st : st = [stack EXCEPT ![Len(stack)] = d]
  OBVIOUS
<1>16. Calls(st, nodes, used, r2)
  <2>1. /\ stack # <<>> /\ c = stack[Len(stack)] /\ c.i <= Len(c.cs)
        /\ c.cs[c.i].shape \in CarrierShapes /\ Goes(c, d, j) /\ GoesTo(c, j)
        /\ A = {c.cs[c.i].id} \cup (IF j = c.i + 2 THEN {c.cs[c.i + 1].id} ELSE {})
    BY <1>2, <1>3, <1>4, <1>5, <1>11, <1>12, <1>13
  <2>2. Calls([stack EXCEPT ![Len(stack)] = d], nodes, used, r2)
    BY <1>1, <1>14, <2>1, CarrierStep
  <2> QED
    BY <1>15, <2>2
<1>17. /\ SameKinds(nodes, nodes') /\ Vertices(nodes')
       /\ Len(nodes) + 1 \in DOMAIN nodes' /\ Len(nodes) + 1 \in Nat
  BY <1>1, <1>6, <1>7, NewVertex DEF Calls
<1>18. PICK m : m = Len(s)
  OBVIOUS
<1>19. PICK r3 : r3 = Grown(r2, m)
  OBVIOUS
<1>20. Calls(st, nodes', used + m, r3)
  <2>1. Calls(st, nodes', used, r2)
    BY <1>16, <1>17, MoreNodes
  <2> QED
    BY <1>8, <1>18, <1>19, <2>1, GrowCalls
<1>21. PICK cs : cs = Body(s, e)
  OBVIOUS
<1>22. /\ Siblings(cs, used + m) /\ cs \in Seq(Item)
       /\ \A k \in DOMAIN cs : cs[k].id # 0 => cs[k].id \in (used + 1)..(used + m)
  BY <1>8, <1>18, <1>21, BodySiblings DEF Body
<1>23. PICK f : f = [node |-> Len(nodes) + 1, i |-> 1, front |-> 0, cs |-> cs]
  OBVIOUS
<1>24. f \in Call /\ f.node = Len(nodes) + 1 /\ f.i = 1 /\ f.front = 0 /\ f.cs = cs
  BY <1>17, <1>22, <1>23 DEF Call
<1>25. /\ r2 \in Seq(Nat) /\ Len(r2) = used /\ r3 \in Seq(Nat) /\ Len(r3) = used + m
       /\ used + m \in Nat
  BY <1>16, <1>20 DEF Calls
<1>26. Fresh(cs, r3)
  <2>1. \A x \in (used + 1)..(used + m) : r3[x] = 0
    BY <1>8, <1>18, <1>19, <1>25, GrownFacts
  <2> QED
    BY <1>22, <2>1 DEF Fresh
<1>27. Walked(f, IsType(nodes', f), r3)
  BY <1>22, <1>24, <1>25, <1>26, FreshCall
<1>28. ASSUME NEW p \in DOMAIN st
       PROVE  Apart(st[p].cs, cs) /\ Apart(cs, st[p].cs)
  <2>1. Siblings(st[p].cs, used)
    BY <1>16, <1>28 DEF Calls
  <2>2. \A k \in DOMAIN st[p].cs : st[p].cs[k].id \in Nat /\ st[p].cs[k].id <= used
    BY <1>8, <1>25, <2>1, SiblingType
  <2>3. \A x \in (used + 1)..(used + m) : ~(x <= used)
    BY <1>8
  <2> QED
    BY <1>22, <2>2, <2>3 DEF Apart
<1>29. Calls(Append(st, f), nodes', used + m, r3)
  BY <1>17, <1>20, <1>22, <1>24, <1>27, <1>28, PushCall
<1>30. stack' = Append(st, f) /\ rep' = r3 /\ used' = used + m
  <2>1. getNodeComment(c.cs, c.i) = v.comment
    BY <1>3, <1>4, <1>7
  <2> QED
    BY <1>6, <1>12, <1>13, <1>14, <1>15, <1>18, <1>19, <1>21, <1>23, <2>1
<1> QED
  BY <1>2, <1>29, <1>30 DEF BuildInv, Keep

LEMMA CloseStep ==
  ASSUME BuildInv, CloseComposite
  PROVE  BuildInv'
<1>1. Calls(stack, nodes, used, rep)
  BY DEF BuildInv
<1>2. /\ pc = "walk" /\ stack # <<>> /\ stack' = Front(stack)
      /\ UNCHANGED <<used, rep>> /\ Keep
      /\ nodes' = nodes \/ nodes' = setMemberAccessSpecifier(Top.node)
  BY DEF CloseComposite
<1>3. Vertices(nodes)
  BY <1>1 DEF Calls
<1>4. SameKinds(nodes, nodes')
  <2>1. CASE nodes' = nodes
    BY <1>3, <2>1 DEF SameKinds
  <2>2. CASE nodes' = setMemberAccessSpecifier(Top.node)
    <3>1. PICK m : m = Len(nodes)
      OBVIOUS
    <3>2. m \in Nat /\ DOMAIN nodes = 1..m
      BY <1>3, <3>1, ListDomain DEF Vertices
    <3>3. PICK ns : ns = nodes'
      OBVIOUS
    <3>4. DOMAIN ns = 1..m /\ ns = [x \in 1..m |-> ns[x]]
      BY <2>2, <3>2, <3>3 DEF setMemberAccessSpecifier
    <3>5. IsList(ns)
      BY <3>2, <3>4, FunctionList
    <3>6. ASSUME NEW x \in 1..m
          PROVE  Vertex(ns[x]) /\ ns[x].kind = nodes[x].kind
      <4>1. \/ ns[x] = nodes[x]
            \/ \E a : ns[x] = [nodes[x] EXCEPT !.access = a]
        BY <2>2, <3>2, <3>3 DEF setMemberAccessSpecifier
      <4>2. Vertex(nodes[x])
        BY <1>3, <3>2 DEF Vertices
      <4>3. ASSUME NEW a
            PROVE  /\ Vertex([nodes[x] EXCEPT !.access = a])
                   /\ [nodes[x] EXCEPT !.access = a].kind = nodes[x].kind
        BY <4>2 DEF Vertex
      <4> QED
        BY <4>1, <4>2, <4>3
    <3> QED
      BY <3>2, <3>3, <3>4, <3>5, <3>6 DEF SameKinds, Vertices
  <2> QED
    BY <1>2, <2>1, <2>2
<1>5. Calls(Front(stack), nodes', used, rep)
  BY <1>1, <1>2, <1>4, MoreNodes, PopCall
<1> QED
  BY <1>2, <1>5 DEF BuildInv, Keep

LEMMA OpenFileStep ==
  ASSUME BuildInv, OpenFile
  PROVE  BuildInv'
<1>1. Calls(stack, nodes, used, rep) /\ stack = <<>>
  BY DEF BuildInv, OpenFile
<1>2. PICK s \in Contents, header \in BOOLEAN :
        /\ unit' = [header |-> header, cs |-> Numbered(s)]
        /\ used' = used + Len(s) /\ rep' = Grown(rep, Len(s))
  BY DEF OpenFile
<1>3. pc' = "parse" /\ UNCHANGED <<nodes, stack>>
  BY DEF OpenFile
<1>4. used \in Nat /\ s \in Bodies /\ rep \in Seq(Nat) /\ Len(rep) = used
  BY <1>1 DEF Calls, Contents
<1>5. PICK m : m = Len(s) /\ m \in Nat
  BY <1>4, NumberedFacts
<1>6. PICK cs : cs = Numbered(s)
  OBVIOUS
<1>7. /\ Siblings(cs, used + m)
      /\ \A k \in DOMAIN cs : cs[k].id \in (used + 1)..(used + m)
  BY <1>4, <1>5, <1>6, NumberedSiblings
<1>8. PICK r : r = Grown(rep, m)
  OBVIOUS
<1>9. Calls(stack, nodes, used + m, r)
  BY <1>1, <1>5, <1>8, GrowCalls
<1>10. Fresh(cs, r)
  <2>1. \A x \in (used + 1)..(used + m) : r[x] = 0
    BY <1>4, <1>5, <1>8, GrownFacts
  <2> QED
    BY <1>7, <2>1 DEF Fresh
<1>11. unit'.cs = cs /\ used' = used + m /\ rep' = r
  BY <1>2, <1>5, <1>6, <1>8
<1> QED
  BY <1>1, <1>3, <1>7, <1>9, <1>10, <1>11 DEF BuildInv

\* parseTranslationUnit once it knows which children to walk.
LEMMA Started ==
  ASSUME BuildInv, NEW cs, Siblings(cs, used), Fresh(cs, rep), NEW a \in Nat, a <= Len(cs),
         NEW H, \A k \in DOMAIN cs : cs[k].id # 0 => (cs[k].id \in H <=> k \in 1..a),
         StartUnit(cs, a, H), pc' = "walk", UNCHANGED used
  PROVE  BuildInv'
<1>1. used \in Nat /\ rep \in Seq(Nat) /\ Len(rep) = used /\ Vertices(nodes)
  BY DEF BuildInv, Calls
<1>2. PICK m : m = getFrontDecls(cs, a)
  OBVIOUS
<1>3. PICK v : v = [kind |-> "TRANSLATION_UNIT", item |-> 0, parent |-> 0,
                    comment |-> {}, access |-> "None"]
  OBVIOUS
<1>4. PICK c : c = [node |-> Len(nodes) + 1, cs |-> cs, i |-> m + 1, front |-> m]
  OBVIOUS
<1>5. PICK r2 : r2 = Held(Held(rep, H), Ids(cs, a + 1, m))
  OBVIOUS
<1>6. nodes' = Append(nodes, v) /\ stack' = <<c>> /\ rep' = r2
  BY <1>2, <1>3, <1>4, <1>5 DEF StartUnit
<1>7. Vertices(nodes') /\ Len(nodes) + 1 \in DOMAIN nodes' /\ Len(nodes) + 1 \in Nat
  <2>1. Vertex(v)
    BY <1>3 DEF Vertex
  <2> QED
    BY <1>1, <1>6, <2>1, NewVertex
<1>8. cs \in Seq(Item) /\ Len(cs) \in Nat
  BY DEF Siblings
<1>9. m \in Nat
  BY <1>2, <1>8, FrontDeclsFacts
<1>10. c \in Call /\ c.cs = cs /\ c.i = m + 1 /\ c.front = m /\ c.node = Len(nodes) + 1
  BY <1>4, <1>7, <1>8, <1>9 DEF Call
<1>11. Walked(c, IsType(nodes', c), r2) /\ r2 \in Seq(Nat) /\ Len(r2) = used
  BY <1>1, <1>2, <1>5, <1>10, UnitCall
<1>12. Calls(<<c>>, nodes', used, r2)
  BY <1>1, <1>7, <1>10, <1>11, OneCall
<1> QED
  BY <1>6, <1>12 DEF BuildInv

LEMMA UnitStep ==
  ASSUME BuildInv, parseTranslationUnit
  PROVE  BuildInv'
<1>1. PICK cs : cs = unit.cs
  OBVIOUS
<1>2. pc = "parse" /\ UNCHANGED <<used, unit>>
  BY DEF parseTranslationUnit
<1>3. Siblings(cs, used) /\ Fresh(cs, rep) /\ used \in Nat /\ Calls(stack, nodes, used, rep)
  BY <1>1, <1>2 DEF BuildInv, Calls
<1>4. cs \in Seq(Item) /\ Len(cs) \in Nat /\ DOMAIN cs = 1..Len(cs)
  BY <1>3 DEF Siblings
<1>5. PICK cnt : cnt = getTranslationUnitComment(cs)
  OBVIOUS
<1>6. cnt \in Nat /\ cnt <= Len(cs)
  <2>1. CASE IsComment(cs, 1)
    BY <1>4, <1>5, <2>1, RunEndFacts DEF getTranslationUnitComment
  <2>2. CASE ~IsComment(cs, 1)
    BY <1>4, <1>5, <2>2 DEF getTranslationUnitComment
  <2> QED
    BY <2>1, <2>2
<1>7. CASE unit.header /\ ~GuardIndexValid(cs, cnt)
  <2>1. pc' = "crashed" /\ UNCHANGED <<nodes, stack, rep>>
    BY <1>1, <1>5, <1>7 DEF parseTranslationUnit
  <2> QED
    BY <1>2, <1>3, <2>1 DEF BuildInv
<1>8. CASE ~(unit.header /\ ~GuardIndexValid(cs, cnt))
  <2>1. pc' = "walk"
    BY <1>1, <1>5, <1>8 DEF parseTranslationUnit
  <2>2. \/ StartUnit(cs, cnt, Ids(cs, 1, cnt))
        \/ unit.header /\ StartUnit(cs, cnt + 1, Ids(cs, 1, cnt + 1))
        \/ unit.header /\ \E e \in (cnt + 1)..Len(cs) :
             StartUnit(Token(SubSeq(cs, cnt + 2, e), 1), 0,
                       Ids(cs, 1, cnt + 1) \cup
                         (IF IsComment(cs, e + 1) THEN {cs[e + 1].id} ELSE {}))
    BY <1>1, <1>5, <1>8 DEF parseTranslationUnit
  <2>3. ASSUME NEW a \in Nat, a <= Len(cs), StartUnit(cs, a, Ids(cs, 1, a))
        PROVE  BuildInv'
    <3>1. PICK H : H = Ids(cs, 1, a)
      OBVIOUS
    <3>2. \A k \in DOMAIN cs : cs[k].id # 0 => (cs[k].id \in H <=> k \in 1..a)
      BY <1>3, <2>3, <3>1, IdsFacts
    <3>3. StartUnit(cs, a, H)
      BY <2>3, <3>1
    <3> QED
      BY <1>2, <1>3, <2>1, <2>3, <3>2, <3>3, Started
  <2>4. ASSUME cnt + 1 <= Len(cs), NEW e \in (cnt + 1)..Len(cs),
               StartUnit(Token(SubSeq(cs, cnt + 2, e), 1), 0,
                         Ids(cs, 1, cnt + 1) \cup
                           (IF IsComment(cs, e + 1) THEN {cs[e + 1].id} ELSE {}))
        PROVE  BuildInv'
    <3>1. PICK bs : bs = Token(SubSeq(cs, cnt + 2, e), 1)
      OBVIOUS
    <3>2. PICK H : H = Ids(cs, 1, cnt + 1) \cup
                         (IF IsComment(cs, e + 1) THEN {cs[e + 1].id} ELSE {})
      OBVIOUS
    <3>3. /\ cnt + 2 \in Nat /\ e \in Nat /\ 1 <= cnt + 2 /\ cnt + 2 <= e + 1 /\ e <= Len(cs)
      BY <1>4, <1>6, <2>4
    <3>4. /\ Siblings(bs, used) /\ Fresh(bs, rep)
          /\ \A k \in DOMAIN bs : bs[k].id # 0 => \E j \in (cnt + 2)..e : bs[k] = cs[j]
      BY <1>3, <3>1, <3>3, GuardBlock
    <3>5. \A x \in H : \E j \in DOMAIN cs : x = cs[j].id /\ j \notin (cnt + 2)..e
      <4>1. \A j \in 1..(cnt + 1) : j \in DOMAIN cs /\ j \notin (cnt + 2)..e
        BY <1>4, <1>6, <2>4
      <4>2. \A x \in Ids(cs, 1, cnt + 1) : \E j \in DOMAIN cs : x = cs[j].id /\ j \notin (cnt + 2)..e
        BY <4>1 DEF Ids
      <4>3. IsComment(cs, e + 1) => e + 1 \in DOMAIN cs /\ e + 1 \notin (cnt + 2)..e
        BY <1>4, <3>3 DEF IsComment
      <4> QED
        BY <3>2, <4>2, <4>3
    <3>6. \A j \in (cnt + 2)..e : j \in DOMAIN cs
      BY <1>4, <3>3
    <3>7. ASSUME NEW k \in DOMAIN bs, bs[k].id # 0 PROVE bs[k].id \notin H
      <4>1. PICK j \in (cnt + 2)..e : bs[k] = cs[j]
        BY <3>4, <3>7
      <4>2. \A l \in DOMAIN cs : cs[l].id = cs[j].id => l = j
        BY <1>3, <3>6, <3>7, <4>1 DEF Siblings
      <4> QED
        BY <3>5, <4>1, <4>2
    <3>8. \A k \in DOMAIN bs : bs[k].id # 0 => (bs[k].id \in H <=> k \in 1..0)
      BY <3>7
    <3>9. 0 <= Len(bs)
      BY <3>4 DEF Siblings
    <3>10. StartUnit(bs, 0, H)
      BY <2>4, <3>1, <3>2
    <3> QED
      BY <1>2, <2>1, <3>4, <3>8, <3>9, <3>10, Started
  <2>5. unit.header => cnt + 1 \in Nat /\ cnt + 1 <= Len(cs)
    BY <1>4, <1>6, <1>8 DEF GuardIndexValid
  <2> QED
    BY <1>6, <2>2, <2>3, <2>4, <2>5
<1> QED
  BY <1>7, <1>8

LEMMA BuildStep ==
  ASSUME BuildInv, [Next]_vars
  PROVE  BuildInv'
<1>1. CASE initLanguageServer \/ SkipFile \/ ParseFails \/ CloseFile \/ EndBuild
  <2>1. pc' # "walk" /\ pc' # "parse" /\ UNCHANGED <<nodes, stack, used, rep>> /\ stack = <<>>
    BY <1>1 DEF initLanguageServer, SkipFile, ParseFails, CloseFile, EndBuild, BuildInv
  <2> QED
    BY <2>1 DEF BuildInv
<1>2. CASE UNCHANGED vars
  BY <1>2 DEF vars, BuildInv
<1> QED
  BY <1>1, <1>2, OpenFileStep, UnitStep, TextualStep, MemberStep, AddCommentStep, PlainSteps,
     OpenStep, CloseStep DEF Next

\* However the syntax trees of the files are made, the walk of parseCompositeNode keeps
\* BuildInv: the calls on its stack work on different items, and each item is in as many
\* places as its branch, and the branch of the node below it, have put it into.
THEOREM BuildInvariant == Spec => []BuildInv
<1>1. ASSUME Init PROVE BuildInv
  <2>1. /\ used = 0 /\ rep = <<>> /\ stack = <<>> /\ nodes = <<>> /\ pc = "server"
    BY <1>1 DEF Init
  <2>2. <<>> \in Seq(Nat) /\ Len(<<>>) = 0 /\ <<>> \in Seq(Call) /\ DOMAIN <<>> = {}
    OBVIOUS
  <2>3. Vertices(<<>>)
    <3>1. <<>> = [x \in 1..0 |-> <<>>[x]]
      OBVIOUS
    <3> QED
      BY <2>2, <3>1 DEF Vertices, IsList
  <2> QED
    BY <2>1, <2>2, <2>3 DEF BuildInv, Calls
<1> QED
  BY <1>1, BuildStep, PTL DEF Spec

\* What the invariant says of the call that is about to return.
LEMMA Returns ==
  ASSUME BuildInv, Returning, NEW k \in DOMAIN Cs, Cs[k].id # 0
  PROVE  /\ rep[Cs[k].id] \in Nat
         /\ IsComment(Cs, k) =>
              /\ CommentHeld(Top, rep, k) /\ k < Top.i /\ k \in Nat /\ Top.front \in Nat
              /\ Below(Cs, k) \in Nat /\ k < Below(Cs, k)
              /\ Below(Cs, k) <= Len(Cs) => Below(Cs, k) < Top.i
         /\ ~IsComment(Cs, k) => ItemHeld(Top, nodes[Top.node].kind = "TYPE", rep, k)
         /\ IsComment(Cs, k) <=> Cs[k].shape = "comment"
<1>1. stack # <<>> /\ Top.i > Len(Cs) /\ Calls(stack, nodes, used, rep)
  BY DEF Returning, BuildInv
<1>2. PICK c : c = Top /\ c = stack[Len(stack)]
  BY <1>1, StepFacts
<1>3. /\ used \in Nat /\ rep \in Seq(Nat) /\ Len(rep) = used /\ c \in Call /\ c.i \in Nat
      /\ Siblings(c.cs, used) /\ Walked(c, IsType(nodes, c), rep)
      /\ Len(c.cs) \in Nat /\ DOMAIN c.cs = 1..Len(c.cs)
  BY <1>1, <1>2, TopFacts
<1>4. c.cs = Cs /\ c.front \in Nat /\ c.i > Len(c.cs) /\ k \in DOMAIN c.cs
  BY <1>1, <1>2, <1>3 DEF Cs, Call
<1>5. rep[c.cs[k].id] \in Nat /\ (IsComment(c.cs, k) <=> c.cs[k].shape = "comment")
  BY <1>3, <1>4, SiblingType
<1>6. k \in Nat /\ k < c.i
  BY <1>3, <1>4
<1>7. ASSUME IsComment(c.cs, k)
      PROVE  /\ CommentHeld(c, rep, k) /\ Below(c.cs, k) \in Nat /\ k < Below(c.cs, k)
             /\ Below(c.cs, k) <= Len(c.cs) => Below(c.cs, k) < c.i
  <2>1. CommentHeld(c, rep, k)
    BY <1>3, <1>4, <1>7 DEF Walked
  <2>2. Below(c.cs, k) \in (k + 1)..(Len(c.cs) + 1)
    BY <1>3, <1>6, <1>7, BelowFacts
  <2>3. Below(c.cs, k) \in Nat /\ k < Below(c.cs, k)
    BY <1>3, <1>6, <2>2
  <2> QED
    BY <1>3, <1>4, <2>1, <2>3
<1>8. ~IsComment(c.cs, k) => ItemHeld(c, IsType(nodes, c), rep, k)
  BY <1>3, <1>4 DEF Walked
<1> QED
  BY <1>2, <1>4, <1>5, <1>6, <1>7, <1>8 DEF IsType

\* parseCompositeNode loses the text of a child only in the listed cases, whatever
\* stands in the files.
THEOREM LossesKnown == Spec => []LostOnly
<1>1. ASSUME BuildInv PROVE LostOnly
  <2> SUFFICES ASSUME Returning, NEW k \in DOMAIN Cs, Cs[k].id # 0, rep[Cs[k].id] = 0
               PROVE  \/ Cs[k].shape \in UnhandledShapes
                      \/ Cs[k].shape = "access_specifier" /\ nodes[Top.node].kind # "TYPE"
                      \/ Cs[k].shape = "comment" /\ (~LeadsTo(k) \/ BesideNamespace(k))
    BY DEF LostOnly
  <2>1. /\ IsComment(Cs, k) =>
             /\ CommentHeld(Top, rep, k) /\ k < Top.i /\ k \in Nat /\ Top.front \in Nat
             /\ Below(Cs, k) \in Nat /\ k < Below(Cs, k)
             /\ Below(Cs, k) <= Len(Cs) => Below(Cs, k) < Top.i
        /\ ~IsComment(Cs, k) => ItemHeld(Top, nodes[Top.node].kind = "TYPE", rep, k)
        /\ IsComment(Cs, k) <=> Cs[k].shape = "comment"
    BY <1>1, Returns
  <2>2. CASE IsComment(Cs, k)
    <3> SUFFICES ASSUME LeadsTo(k) PROVE BesideNamespace(k)
      BY <2>1, <2>2
    <3>1. Own(Top, rep, k) \in {0, 1}
      BY <2>1, <2>2 DEF CommentHeld
    <3>2. ~Taken(Top, k) /\ Own(Top, rep, k) = 0
      BY <3>1 DEF Own, Cs
    <3>3. ~(k <= Top.front)
      BY <2>1, <2>2, <3>2 DEF CommentHeld
    <3>4. Below(Cs, k) <= Len(Cs) /\ Cs[Below(Cs, k)].shape \in CarrierShapes
      BY DEF LeadsTo, AfterRun, Below
    <3>5. Top.front < Below(Cs, k) /\ Below(Cs, k) < Top.i
      BY <2>1, <2>2, <3>3, <3>4
    <3>6. Indented(Cs, k)
      BY <3>2, <3>4, <3>5 DEF Taken, Attached, Cs
    <3>7. Trailing(Cs, k)
      BY <2>1, <2>2, <3>2, <3>3, <3>6 DEF CommentHeld, Cs
    <3> QED
      BY <3>7 DEF Trailing, Indented, BesideNamespace
  <2>3. CASE ~IsComment(Cs, k)
    <3>1. ItemHeld(Top, nodes[Top.node].kind = "TYPE", rep, k) /\ k < Top.i
      <4>1. k < Top.i
        <5>1. stack # <<>> /\ Top.i > Len(Cs) /\ Calls(stack, nodes, used, rep)
          BY <1>1 DEF Returning, BuildInv
        <5>2. /\ Top.i \in Nat /\ Len(Top.cs) \in Nat /\ DOMAIN Top.cs = 1..Len(Top.cs)
          BY <1>1, <5>1, StepFacts, TopFacts
        <5> QED
          BY <5>1, <5>2 DEF Cs
      <4> QED
        BY <2>1, <2>3, <4>1
    <3>2. ~Handled(Cs[k].shape, nodes[Top.node].kind = "TYPE")
      BY <3>1 DEF ItemHeld, Cs
    <3> QED
      BY <3>2 DEF Handled
  <2> QED
    BY <2>2, <2>3
<1> QED
  BY <1>1, BuildInvariant, PTL

\* parseCompositeNode puts the text of a child into the graph twice only in the listed
\* cases, and never more than twice.
THEOREM RepetitionsKnown == Spec => []TwiceOnly
<1>1. ASSUME BuildInv PROVE TwiceOnly
  <2> SUFFICES ASSUME Returning, NEW k \in DOMAIN Cs, Cs[k].id # 0, rep[Cs[k].id] > 1
               PROVE  /\ rep[Cs[k].id] = 2 /\ Cs[k].shape = "comment" /\ LeadsTo(k)
                      /\ \/ k <= Top.front
                         \/ Cs[AfterRun(k)].near = 2
                         \/ \E j \in (RunStart(Cs, k) + 1)..k : Cs[j].near = 0
    BY DEF TwiceOnly
  <2>1. /\ rep[Cs[k].id] \in Nat
        /\ IsComment(Cs, k) =>
             CommentHeld(Top, rep, k) /\ k < Top.i /\ k \in Nat /\ Top.front \in Nat
        /\ ~IsComment(Cs, k) => ItemHeld(Top, nodes[Top.node].kind = "TYPE", rep, k)
        /\ IsComment(Cs, k) <=> Cs[k].shape = "comment"
    BY <1>1, Returns
  <2>2. IsComment(Cs, k)
    BY <2>1 DEF ItemHeld, Cs
  <2>3. Own(Top, rep, k) \in {0, 1}
    BY <2>1, <2>2 DEF CommentHeld
  <2>4. Taken(Top, k) /\ Own(Top, rep, k) = 1 /\ rep[Cs[k].id] = 2
    BY <2>1, <2>3 DEF Own, Cs
  <2>5. Attached(Cs, k)
    BY <2>4 DEF Taken, Cs
  <2>6. LeadsTo(k)
    BY <2>5 DEF Attached, LeadsTo, AfterRun, Below
  <2>7. k <= Top.front \/ MayRepeat(Cs, k)
    <3>1. Top.front < k => MayRepeat(Cs, k)
      BY <2>1, <2>2, <2>4, <2>5 DEF CommentHeld, Cs
    <3> QED
      BY <2>1, <2>2, <3>1
  <2> QED
    BY <2>1, <2>2, <2>4, <2>6, <2>7 DEF MayRepeat, AfterRun, Below
<1> QED
  BY <1>1, BuildInvariant, PTL

-----------------------------------------------------------------------------
(* The documents of the language server. *)

DocsInv ==
  /\ \A d \in docs : d = <<d[1], d[2]>> /\ d[2] \in {"file", "alt"}
  /\ DocumentsClosed

\* processCppTranslationUnit leaves a document open only when its file could not be
\* parsed.
THEOREM DocumentsAreClosed == Spec => []DocumentsClosed
<1>1. ASSUME Init PROVE DocsInv
  BY <1>1 DEF Init, DocsInv, DocumentsClosed
<1>2. ASSUME DocsInv, [Next]_vars PROVE DocsInv'
  <2>1. CASE initLanguageServer \/ SkipFile \/ EndBuild
    <3>1. /\ UNCHANGED <<failed, docs>> /\ pc \notin {"parse", "walk", "crashed"}
      BY <2>1 DEF initLanguageServer, SkipFile, EndBuild
    <3> QED
      BY <1>2, <3>1 DEF DocsInv, DocumentsClosed
  <2>2. CASE OpenFile
    <3>1. /\ pc = "files" /\ pc' = "parse" /\ UNCHANGED <<left, failed>>
          /\ docs' \subseteq docs \cup {<<left, "file">>, <<left, "alt">>}
      BY <2>2 DEF OpenFile
    <3>2. /\ <<left, "file">>[1] = left /\ <<left, "file">>[2] = "file"
          /\ <<left, "alt">>[1] = left /\ <<left, "alt">>[2] = "alt"
      OBVIOUS
    <3> QED
      BY <1>2, <3>1, <3>2 DEF DocsInv, DocumentsClosed
  <2>3. CASE ParseFails
    <3>1. pc = "parse" /\ failed' = failed \cup {left} /\ UNCHANGED docs
      BY <2>3 DEF ParseFails
    <3> QED
      BY <1>2, <3>1 DEF DocsInv, DocumentsClosed
  <2>4. CASE parseTranslationUnit
    <3>1. pc' \in {"crashed", "walk"} /\ pc = "parse" /\ UNCHANGED <<left, failed, docs>>
      BY <2>4 DEF parseTranslationUnit
    <3> QED
      BY <1>2, <3>1 DEF DocsInv, DocumentsClosed
  <2>5. CASE \/ AddTextual \/ AddMember \/ AddComment \/ AddAccess \/ OpenComposite
             \/ SkipUnhandled \/ CloseComposite \/ UNCHANGED vars
    <3>1. UNCHANGED <<pc, left, failed, docs>>
      BY <2>5 DEF AddTextual, AddMember, AddComment, AddAccess, OpenComposite, SkipUnhandled,
                  CloseComposite, Keep, vars
    <3> QED
      BY <1>2, <3>1 DEF DocsInv, DocumentsClosed
  <2>6. CASE CloseFile
    <3>1. /\ pc = "walk" /\ failed' = failed
          /\ docs' = docs \ ({left} \X {"file", "alt"})
      BY <2>6 DEF CloseFile
    <3>2. \A d \in docs' : d \in docs /\ d[1] # left
      BY <1>2, <3>1 DEF DocsInv
    <3> QED
      BY <1>2, <3>1, <3>2 DEF DocsInv, DocumentsClosed
  <2> QED
    BY <1>2, <2>1, <2>2, <2>3, <2>4, <2>5, <2>6 DEF Next
<1>3. DocsInv => DocumentsClosed
  BY DEF DocsInv
<1> QED
  BY <1>1, <1>2, <1>3, PTL DEF Spec

=============================================================================
