-------------------------- MODULE GraphMatchProofs --------------------------
(***************************************************************************)
(* Proofs about GraphMatch, for every pair of graphs: each node is         *)
(* accounted for once, the loop over Boost's mates misses only vertices at *)
(* the end of its list, and only the loop over enums reads a moved-from    *)
(* slot.                                                                   *)
(*                                                                         *)
(* The invariant has a part that holds throughout (who is matched, who is  *)
(* listed, what the vectors hold) and one for each shape of loop: what is  *)
(* behind the end of the vectors a nested loop runs over, and what the     *)
(* loop over the mates has dealt with.                                     *)
(***************************************************************************)
EXTENDS GraphMatch, FiniteSetTheorems, TLAPS

-----------------------------------------------------------------------------
(* The inductive invariant. *)

KB == Keyed(input.base)
KR == Keyed(input.rev)
Firsts(M) == {p[1] : p \in M}
Seconds(M) == {p[2] : p \in M}
MB == Firsts(matched)
MR == Seconds(matched)

\* A vector: vertices in its live part, each once.
IsVec(vec) ==
  /\ vec = [mem |-> vec.mem, len |-> vec.len]
  /\ vec.mem \in Seq(Nat) /\ vec.len \in 0..Len(vec.mem)
  /\ \A p, q \in 1..vec.len : vec.mem[p] = vec.mem[q] => p = q
Shrunk(vec) == vec.len < Len(vec.mem)

VectorsInv ==
  /\ deleted \in [NodeKinds -> {deleted[x] : x \in NodeKinds}]
  /\ added \in [NodeKinds -> {added[x] : x \in NodeKinds}]
  /\ \A x \in NodeKinds :
       /\ IsVec(deleted[x]) /\ IsVec(added[x])
       /\ \A v \in Live(deleted[x]) : v \in KB /\ Base(v).kind = x
       /\ \A v \in Live(added[x]) : v \in KR /\ Rev(v).kind = x
       /\ \A b \in Live(deleted[x]), r \in Live(added[x]) : ~Same(Base(b), Rev(r))
       /\ (\A n \in 1..k : Kinds[n] # x) => ~Shrunk(deleted[x]) /\ ~Shrunk(added[x])

MatchedInv ==
  /\ matched \subseteq KB \X KR /\ OneToOne(matched)
  /\ \A p \in matched : Base(p[1]).kind = Rev(p[2]).kind

\* A revision's enum in neither the matching nor the list.
Dropped(v) == v \notin MR /\ v \notin Live(added[Rev(v).kind])
\* The loop over the enums still has a moved-from slot ahead of it.
Doomed == /\ Kind = "ENUM" /\ phase \in {"linear", "crashed"}
          /\ phase = "linear" => j <= jEnd /\ added[Kind].len < jEnd

ListedOnce ==
  /\ \A v \in KB : v \in MB <=> v \notin Live(deleted[Base(v).kind])
  /\ \A v \in KR : v \in MR => v \notin Live(added[Rev(v).kind])
ListedInv ==
  /\ ListedOnce
  /\ \A v \in KR : Dropped(v) => Rev(v).kind = "ENUM" /\ Doomed

ErasedSome == Shrunk(deleted[Kind]) \/ Shrunk(added[Kind])
ErasedInv ==
  ErasedSome => /\ Kind = "ENUM" /\ Shrunk(added[Kind])
                /\ \E p \in matched : p \in similar

LinearInv ==
  LET d == deleted[Kind]  a == added[Kind]
  IN  /\ Kind \in LinearKinds
      /\ iEnd = Len(d.mem) /\ i \in 1..iEnd
      /\ j \in Nat \ {0} /\ jEnd \in a.len..Len(a.mem)
      /\ \A q \in j..jEnd : q > a.len => a.mem[q] = Null
      /\ \A q \in (i + 1)..iEnd : q > d.len => d.mem[q] = Null
      /\ i > d.len => d.mem[i] = Null \/ (d.mem[i] \in MB /\ a.len < jEnd)
      /\ ErasedInv
      /\ ErasedSome => jEnd < Len(a.mem) \/ j >= 2

MatesInv ==
  LET d == deleted[Kind]  a == added[Kind]
  IN  /\ Kind \notin LinearKinds
      /\ i \in Nat \ {0}
      /\ order \in Seq(Nat)
      /\ IsFiniteSet(mate) /\ OneToOne(mate)
      /\ \A p \in mate : /\ p = <<p[1], p[2]>>
                         /\ \E q \in 1..Len(order) : order[q] = p[1]
                         /\ p \notin matched => p[1] \in Live(d) /\ p[2] \in Live(a)
      /\ \A p \in mate, q \in 1..(i - 1) :
           order[q] = p[1] /\ accepted(p[1], p[2]) => p \in matched
      /\ d.len = Len(order) - Cardinality(mate \cap matched)

\* The whole invariant.
GraphInv ==
  /\ input \in Inputs
  /\ phase \in {"topdown", "next", "linear", "mates", "done", "crashed"}
  /\ k \in 0..8
  /\ phase = "topdown" => k = 0
  /\ phase # "topdown" => VectorsInv /\ MatchedInv /\ ListedInv
  /\ phase \in {"linear", "mates", "crashed"} => k # 0
  /\ phase = "linear" => LinearInv
  /\ phase = "mates" => MatesInv
  /\ phase = "crashed" => ErasedInv /\ ErasedSome /\ Len(added[Kind].mem) > 1

-----------------------------------------------------------------------------
(* Signatures. *)

\* What the graphs of an input are.
LEMMA Graphs ==
  ASSUME NEW in \in Inputs, NEW g \in {in.base, in.rev}
  PROVE  /\ Len(g) \in Nat /\ DOMAIN g = 1..Len(g)
         /\ \A v \in DOMAIN g : g[v].kind \in NodeKinds
         /\ DOMAIN g \subseteq Nat /\ IsFiniteSet(DOMAIN g)
<1>1. /\ Len(g) \in Nat /\ DOMAIN g = 1..Len(g)
      /\ \A v \in 1..Len(g) : g[v].kind \in NodeKinds
  BY InputAssumption
<1>2. IsFiniteSet(1..Len(g))
  BY <1>1, FS_Interval
<1> QED
  BY <1>1, <1>2

\* A signature begins with the kind, except for textual nodes.
LEMMA SignatureKind ==
  ASSUME NEW n, n.kind \in NodeKinds
  PROVE  hashSignature(n)[1] = IF n.kind = "TEXTUAL" THEN "" ELSE n.kind
<1> USE DEF hashSignature
<1>1. CASE n.kind \in {"TRANSLATION_UNIT", "LINKAGE_SPEC_LIST", "NAMESPACE"}
  BY <1>1 DEF TranslationUnitNode, LinkageSpecNode, NamespaceNode
<1>2. CASE n.kind \in {"TYPE", "ENUM"}
  BY <1>2 DEF TypeDeclNode, EnumNode, CompositeNode
<1>3. CASE n.kind \in {"FIELD_DECLARATION", "FUNC_DEF", "FUNC_OPERATOR_CAST",
                       "FUNC_SPECIAL_MEMBER"}
  BY <1>3 DEF FieldDeclarationNode, FuncDefNode, FuncOperatorCastNode, FuncSpecialMemberNode
<1>4. CASE n.kind \in {"TEXTUAL", "ORPHAN_COMMENT", "ACCESS_SPECIFIER"}
  BY <1>4 DEF TextualNode, OrphanCommentNode, TerminalNode, AccessSpecifierNode
<1> QED
  BY <1>1, <1>2, <1>3, <1>4 DEF NodeKinds, CompositeKinds, TerminalKinds

\* Nodes with one signature are of one kind.
LEMMA SameKind ==
  ASSUME NEW m, NEW n, m.kind \in NodeKinds, n.kind \in NodeKinds, Same(m, n)
  PROVE  m.kind = n.kind
<1>1. hashSignature(m)[1] = hashSignature(n)[1]
  BY DEF Same
<1>2. "" \notin NodeKinds
  BY DEF NodeKinds, CompositeKinds, TerminalKinds
<1> QED
  BY <1>1, <1>2, SignatureKind

\* Of the vertices with one signature only one is a key.
LEMMA KeyedDistinct ==
  ASSUME NEW in \in Inputs, NEW g \in {in.base, in.rev},
         NEW v \in Keyed(g), NEW w \in Keyed(g), Same(g[v], g[w])
  PROVE  v = w
<1>1. v \in Nat /\ w \in Nat /\ v \in DOMAIN g /\ w \in DOMAIN g
  BY Graphs DEF Keyed
<1>2. Same(g[w], g[v])
  BY DEF Same
<1> QED
  BY <1>1, <1>2 DEF Keyed

\* The units and the linkage lists that their matchers would pair have one
\* signature.
LEMMA PairedUnits ==
  ASSUME NEW m, NEW n, m.kind = n.kind,
         \/ m.kind = "TRANSLATION_UNIT" /\ m.name = n.name
         \/ m.kind = "LINKAGE_SPEC_LIST" /\ m.parent = n.parent
  PROVE  Same(m, n)
  BY DEF Same, hashSignature, TranslationUnitNode, LinkageSpecNode

-----------------------------------------------------------------------------
(* Vectors. *)

\* What is live is a vertex, not the mark of a moved-from slot.
LEMMA LiveElement ==
  ASSUME NEW vec, IsVec(vec)
  PROVE  /\ \A p \in 1..vec.len : vec.mem[p] \in Live(vec)
         /\ \A v \in Live(vec) : \E p \in 1..vec.len : vec.mem[p] = v
         /\ vec.len \in Nat /\ Len(vec.mem) \in Nat /\ vec.len <= Len(vec.mem)
         /\ DOMAIN vec.mem = 1..Len(vec.mem)
  BY DEF IsVec, Live

\* Erasing what is not there changes nothing.
LEMMA ErasedAbsent ==
  ASSUME NEW vec, NEW v, v \notin Live(vec)
  PROVE  Erased(vec, v) = vec
  BY DEF Erased

\* Erasing the element in slot p.
LEMMA ErasedSlot ==
  ASSUME NEW vec, IsVec(vec), NEW p \in 1..vec.len, NEW v, vec.mem[p] = v
  PROVE  LET e == Erased(vec, v)
         IN  /\ e.len = vec.len - 1 /\ Len(e.mem) = Len(vec.mem)
             /\ e.mem \in Seq(Nat)
             /\ e = [mem |-> e.mem, len |-> e.len]
             /\ \A q \in 1..Len(vec.mem) :
                  e.mem[q] = IF q < p \/ q > vec.len THEN vec.mem[q]
                             ELSE IF q < vec.len THEN vec.mem[q + 1]
                             ELSE IF p < vec.len THEN Null ELSE v
<1>1. v \in Live(vec)
  BY DEF Live
<1>2. \A q \in 1..vec.len : vec.mem[q] = v => q = p
  BY DEF IsVec
<1> DEFINE c == CHOOSE q \in 1..vec.len : vec.mem[q] = v
<1>3. c = p
  BY <1>2
<1> HIDE DEF c
<1> DEFINE m == [q \in DOMAIN vec.mem |->
                   IF q < p \/ q > vec.len THEN vec.mem[q]
                   ELSE IF q < vec.len THEN vec.mem[q + 1]
                   ELSE IF p < vec.len THEN Null ELSE v]
<1>4. Erased(vec, v) = [mem |-> m, len |-> vec.len - 1]
  BY <1>1, <1>3 DEF Erased, c
<1>5. /\ vec.len \in Nat /\ Len(vec.mem) \in Nat /\ vec.len <= Len(vec.mem)
      /\ DOMAIN vec.mem = 1..Len(vec.mem)
      /\ \A q \in 1..Len(vec.mem) : vec.mem[q] \in Nat
  BY DEF IsVec
<1>6. m \in [1..Len(vec.mem) -> Nat]
  <2>1. \A q \in 1..Len(vec.mem) : m[q] \in Nat
    BY <1>5 DEF Null
  <2> QED
    BY <1>5, <2>1
<1>7. m \in Seq(Nat) /\ Len(m) = Len(vec.mem)
  BY <1>5, <1>6
<1>8. \A q \in 1..Len(vec.mem) :
        m[q] = IF q < p \/ q > vec.len THEN vec.mem[q]
               ELSE IF q < vec.len THEN vec.mem[q + 1]
               ELSE IF p < vec.len THEN Null ELSE v
  BY <1>5
<1> HIDE DEF m
<1> QED
  BY <1>4, <1>7, <1>8

\* Erasing keeps a vector a vector and takes away one element.
LEMMA ErasedLive ==
  ASSUME NEW vec, IsVec(vec), NEW v
  PROVE  /\ IsVec(Erased(vec, v)) /\ Live(Erased(vec, v)) = Live(vec) \ {v}
         /\ Len(Erased(vec, v).mem) = Len(vec.mem)
         /\ Erased(vec, v).len = IF v \in Live(vec) THEN vec.len - 1 ELSE vec.len
<1>1. CASE v \notin Live(vec)
  BY <1>1, ErasedAbsent
<1>2. CASE v \in Live(vec)
  <2>1. PICK p \in 1..vec.len : vec.mem[p] = v
    BY <1>2, LiveElement
  <2>2. PICK e : e = Erased(vec, v)
    OBVIOUS
  <2>3. /\ e.len = vec.len - 1 /\ Len(e.mem) = Len(vec.mem)
        /\ e.mem \in Seq(Nat)
        /\ e = [mem |-> e.mem, len |-> e.len]
        /\ \A q \in 1..Len(vec.mem) :
             e.mem[q] = IF q < p \/ q > vec.len THEN vec.mem[q]
                        ELSE IF q < vec.len THEN vec.mem[q + 1]
                        ELSE IF p < vec.len THEN Null ELSE v
    BY <2>1, <2>2, ErasedSlot
  <2>4. /\ vec.len \in Nat /\ Len(vec.mem) \in Nat /\ vec.len <= Len(vec.mem)
        /\ p \in Nat /\ 1 <= p /\ p <= vec.len
    BY LiveElement
  <2>5. \A q \in 1..e.len : e.mem[q] = IF q < p THEN vec.mem[q] ELSE vec.mem[q + 1]
    BY <2>3, <2>4
  <2>6. \A q, s \in 1..vec.len : vec.mem[q] = vec.mem[s] => q = s
    BY DEF IsVec
  <2>7. \A q, s \in 1..e.len : e.mem[q] = e.mem[s] => q = s
    <3> SUFFICES ASSUME NEW q \in 1..e.len, NEW s \in 1..e.len, e.mem[q] = e.mem[s]
                 PROVE  q = s
      OBVIOUS
    <3>0. e.len = vec.len - 1
      BY <2>3
    <3>1. q \in 1..vec.len /\ q + 1 \in 1..vec.len /\ s \in 1..vec.len /\ s + 1 \in 1..vec.len
      BY <2>4, <3>0
    <3>2. CASE q < p /\ s < p
      BY <2>5, <2>6, <3>1, <3>2
    <3>3. CASE q < p /\ ~(s < p)
      BY <2>4, <2>5, <2>6, <3>1, <3>3
    <3>4. CASE ~(q < p) /\ s < p
      BY <2>4, <2>5, <2>6, <3>1, <3>4
    <3>5. CASE ~(q < p) /\ ~(s < p)
      BY <2>4, <2>5, <2>6, <3>1, <3>5
    <3> QED
      BY <3>2, <3>3, <3>4, <3>5
  <2>8. IsVec(e)
    BY <2>3, <2>4, <2>7 DEF IsVec
  <2>9. Live(e) \subseteq Live(vec) \ {v}
    <3> SUFFICES ASSUME NEW q \in 1..e.len PROVE e.mem[q] \in Live(vec) \ {v}
      BY DEF Live
    <3>1. PICK s \in 1..vec.len : s # p /\ e.mem[q] = vec.mem[s]
      <4>1. CASE q < p
        BY <2>3, <2>4, <2>5, <4>1
      <4>2. CASE ~(q < p)
        <5>1. q + 1 \in 1..vec.len /\ q + 1 # p
          BY <2>3, <2>4, <4>2
        <5> QED
          BY <2>5, <4>2, <5>1
      <4> QED
        BY <4>1, <4>2
    <3> QED
      BY <2>1, <2>6, <3>1 DEF Live
  <2>10. Live(vec) \ {v} \subseteq Live(e)
    <3> SUFFICES ASSUME NEW s \in 1..vec.len, s # p PROVE vec.mem[s] \in Live(e)
      BY <2>1 DEF Live
    <3>1. CASE s < p
      <4>1. s \in 1..e.len /\ e.mem[s] = vec.mem[s]
        BY <2>3, <2>4, <2>5, <3>1
      <4> QED
        BY <4>1 DEF Live
    <3>2. CASE s > p
      <4>1. s - 1 \in 1..e.len /\ ~(s - 1 < p) /\ (s - 1) + 1 = s
        BY <2>3, <2>4, <3>2
      <4>2. e.mem[s - 1] = vec.mem[s]
        BY <2>5, <4>1
      <4> QED
        BY <4>1, <4>2 DEF Live
    <3> QED
      BY <2>4, <3>1, <3>2
  <2> QED
    BY <1>2, <2>2, <2>3, <2>8, <2>9, <2>10
<1> QED
  BY <1>1, <1>2

\* A sequence of the elements of a finite set, each once, holds all of them.
LEMMA SetToSeqsVec ==
  ASSUME NEW S, IsFiniteSet(S), S \subseteq Nat, NEW s \in SetToSeqs(S)
  PROVE  IsVec(Vec(s)) /\ Live(Vec(s)) = S /\ ~Shrunk(Vec(s))
<1> DEFINE n == Cardinality(S)
<1>1. n \in Nat
  BY FS_CardinalityType
<1>2. /\ s \in [1..n -> S]
      /\ \A p, q \in 1..n : p # q => s[p] # s[q]
  BY DEF SetToSeqs
<1>3. IsFiniteSet(1..n) /\ Cardinality(1..n) = n
  BY <1>1, FS_Interval
<1>4. s \in Injection(1..n, S)
  BY <1>2 DEF Injection, IsInjective
<1>5. s \in Surjection(1..n, S)
  BY <1>3, <1>4, FS_Injection
<1>6. \A v \in S : \E p \in 1..n : s[p] = v
  BY <1>5 DEF Surjection
<1>7. s \in Seq(Nat) /\ Len(s) = n
  <2>1. s \in [1..n -> Nat]
    BY <1>2
  <2> HIDE DEF n
  <2> QED
    BY <1>1, <2>1
<1> HIDE DEF n
<1>8. PICK vec : vec = Vec(s)
  OBVIOUS
<1>9. vec.mem = s /\ vec.len = n /\ vec = [mem |-> vec.mem, len |-> vec.len]
  BY <1>7, <1>8 DEF Vec
<1>10. IsVec(vec) /\ ~Shrunk(vec)
  BY <1>1, <1>2, <1>7, <1>9 DEF IsVec, Shrunk
<1>11. Live(vec) = S
  BY <1>2, <1>6, <1>9 DEF Live
<1> QED
  BY <1>8, <1>10, <1>11

\* addUnmatchedNode: every unmatched vertex is in the vector of its kind.
LEMMA UnmatchedVec ==
  ASSUME NEW g, NEW S, IsFiniteSet(S), S \subseteq Nat, NEW f \in Unmatched(g, S)
  PROVE  /\ DOMAIN f = NodeKinds /\ f = [x \in NodeKinds |-> f[x]]
         /\ \A x \in NodeKinds : /\ IsVec(f[x]) /\ ~Shrunk(f[x])
                                 /\ Live(f[x]) = {v \in S : g[v].kind = x}
<1> DEFINE of(x) == {v \in S : g[v].kind = x}
           seen == {g[v].kind : v \in S}
<1>1. PICK h \in [seen -> UNION {SetToSeqs(of(x)) : x \in seen}] :
        /\ \A x \in seen : h[x] \in SetToSeqs(of(x))
        /\ f = [x \in NodeKinds |-> Vec(IF x \in seen THEN h[x] ELSE <<>>)]
  BY DEF Unmatched
<1>2. ASSUME NEW x \in NodeKinds
      PROVE  IsVec(f[x]) /\ ~Shrunk(f[x]) /\ Live(f[x]) = of(x)
  <2>1. IsFiniteSet(of(x)) /\ of(x) \subseteq Nat
    BY FS_Subset
  <2>2. CASE x \in seen
    <3>1. h[x] \in SetToSeqs(of(x)) /\ f[x] = Vec(h[x])
      BY <1>1, <2>2
    <3> HIDE DEF of
    <3> QED
      BY <2>1, <3>1, SetToSeqsVec
  <2>3. CASE x \notin seen
    <3>1. of(x) = {}
      BY <2>3
    <3>2. f[x] = [mem |-> <<>>, len |-> 0]
      BY <1>1, <2>3 DEF Vec
    <3> HIDE DEF of
    <3>3. IsVec(f[x]) /\ ~Shrunk(f[x])
      BY <3>2 DEF IsVec, Shrunk
    <3>4. Live(f[x]) = {}
      BY <3>2 DEF Live
    <3> QED
      BY <3>1, <3>3, <3>4
  <2> QED
    BY <2>2, <2>3
<1> QED
  BY <1>1, <1>2

-----------------------------------------------------------------------------
(* Inserting a pair. *)

\* bottomUpMatch has each kind once.
LEMMA KindsDistinct ==
  /\ Len(Kinds) = 8
  /\ \A n \in 1..8 : Kinds[n] \in NodeKinds
  /\ \A m, n \in 1..8 : Kinds[m] = Kinds[n] => m = n
  /\ \A n \in 1..8 : Kinds[n] \in LinearKinds => Kinds[n] \in CompositeKinds
  BY DEF Kinds, NodeKinds, CompositeKinds, TerminalKinds, LinearKinds

\* The keys of both graphs are numbers and have kinds.
LEMMA Keys ==
  ASSUME input \in Inputs
  PROVE  /\ \A v \in KB : v \in Nat /\ v # Null /\ Base(v).kind \in NodeKinds
         /\ \A v \in KR : v \in Nat /\ v # Null /\ Rev(v).kind \in NodeKinds
         /\ IsFiniteSet(KB) /\ IsFiniteSet(KR)
         /\ \A v, w \in KB : Same(Base(v), Base(w)) => v = w
         /\ \A v, w \in KR : Same(Rev(v), Rev(w)) => v = w
<1>1. KB \subseteq DOMAIN input.base /\ KR \subseteq DOMAIN input.rev
  BY DEF KB, KR, Keyed
<1>2. IsFiniteSet(KB) /\ IsFiniteSet(KR)
  BY <1>1, Graphs, FS_Subset
<1>3. \A v, w \in KB : Same(Base(v), Base(w)) => v = w
  BY KeyedDistinct DEF KB, Base
<1>4. \A v, w \in KR : Same(Rev(v), Rev(w)) => v = w
  BY KeyedDistinct DEF KR, Rev
<1>5. /\ \A v \in DOMAIN input.base : v \in Nat /\ v # Null /\ Base(v).kind \in NodeKinds
      /\ \A v \in DOMAIN input.rev : v \in Nat /\ v # Null /\ Rev(v).kind \in NodeKinds
  BY Graphs DEF Base, Rev, Null
<1> QED
  BY <1>1, <1>2, <1>3, <1>4, <1>5

\* Erasing from the vectors of the current kind.
LEMMA ErasedVectors ==
  ASSUME VectorsInv, k \in 1..8, NEW b, NEW r,
         deleted' = [deleted EXCEPT ![Kind] = Erased(@, b)],
         added' = [added EXCEPT ![Kind] = Erased(@, r)],
         UNCHANGED <<input, k>>
  PROVE  /\ VectorsInv'
         /\ deleted'[Kind] = Erased(deleted[Kind], b)
         /\ added'[Kind] = Erased(added[Kind], r)
         /\ \A x \in NodeKinds \ {Kind} : deleted'[x] = deleted[x] /\ added'[x] = added[x]
         /\ Live(deleted'[Kind]) = Live(deleted[Kind]) \ {b}
         /\ Live(added'[Kind]) = Live(added[Kind]) \ {r}
<1>1. Kind \in NodeKinds /\ Kind' = Kind
  BY KindsDistinct DEF Kind
<1>2. DOMAIN deleted = NodeKinds /\ DOMAIN added = NodeKinds
  BY DEF VectorsInv
<1>3. /\ deleted'[Kind] = Erased(deleted[Kind], b)
      /\ added'[Kind] = Erased(added[Kind], r)
      /\ \A x \in NodeKinds \ {Kind} : deleted'[x] = deleted[x] /\ added'[x] = added[x]
  BY <1>1, <1>2
<1>4. IsVec(deleted[Kind]) /\ IsVec(added[Kind])
  BY <1>1 DEF VectorsInv
<1>5. /\ IsVec(deleted'[Kind]) /\ IsVec(added'[Kind])
      /\ Live(deleted'[Kind]) = Live(deleted[Kind]) \ {b}
      /\ Live(added'[Kind]) = Live(added[Kind]) \ {r}
  <2>1. /\ IsVec(Erased(deleted[Kind], b))
        /\ Live(Erased(deleted[Kind], b)) = Live(deleted[Kind]) \ {b}
    BY <1>4, ErasedLive
  <2>2. /\ IsVec(Erased(added[Kind], r))
        /\ Live(Erased(added[Kind], r)) = Live(added[Kind]) \ {r}
    BY <1>4, ErasedLive
  <2> QED
    BY <1>3, <2>1, <2>2
<1>6. /\ deleted' \in [NodeKinds -> {deleted'[x] : x \in NodeKinds}]
      /\ added' \in [NodeKinds -> {added'[x] : x \in NodeKinds}]
  <2>1. deleted' = [x \in NodeKinds |-> deleted'[x]] /\ added' = [x \in NodeKinds |-> added'[x]]
    BY <1>1, <1>2
  <2> QED
    BY <2>1
<1>7. KB' = KB /\ KR' = KR
  BY DEF KB, KR
<1>8. ASSUME NEW x \in NodeKinds
      PROVE  /\ IsVec(deleted'[x]) /\ IsVec(added'[x])
             /\ \A v \in Live(deleted'[x]) : v \in KB /\ Base(v).kind = x
             /\ \A v \in Live(added'[x]) : v \in KR /\ Rev(v).kind = x
             /\ \A v \in Live(deleted'[x]), w \in Live(added'[x]) : ~Same(Base(v), Rev(w))
             /\ (\A n \in 1..k : Kinds[n] # x) => ~Shrunk(deleted'[x]) /\ ~Shrunk(added'[x])
  <2>1. CASE x = Kind
    <3>1. ~(\A n \in 1..k : Kinds[n] # x)
      BY <2>1 DEF Kind
    <3> QED
      BY <1>5, <2>1, <3>1 DEF VectorsInv
  <2>2. CASE x # Kind
    BY <1>3, <2>2 DEF VectorsInv
  <2> QED
    BY <2>1, <2>2
<1>9. VectorsInv'
  BY <1>6, <1>7, <1>8 DEF VectorsInv, Base, Rev
<1> QED
  BY <1>3, <1>5, <1>9

\* Adding a pair adds its parts.
LEMMA FirstsAdd ==
  ASSUME NEW M, NEW b, NEW r
  PROVE  Firsts(M \cup {<<b, r>>}) = Firsts(M) \cup {b}
<1>1. Firsts(M \cup {<<b, r>>}) \subseteq Firsts(M) \cup {b}
  BY DEF Firsts
<1>2. <<b, r>> \in M \cup {<<b, r>>} /\ <<b, r>>[1] = b
  OBVIOUS
<1> QED
  BY <1>1, <1>2 DEF Firsts

LEMMA SecondsAdd ==
  ASSUME NEW M, NEW b, NEW r
  PROVE  Seconds(M \cup {<<b, r>>}) = Seconds(M) \cup {r}
<1>1. Seconds(M \cup {<<b, r>>}) \subseteq Seconds(M) \cup {r}
  BY DEF Seconds
<1>2. <<b, r>> \in M \cup {<<b, r>>} /\ <<b, r>>[2] = r
  OBVIOUS
<1> QED
  BY <1>1, <1>2 DEF Seconds

LEMMA InsertedParts ==
  ASSUME NEW b, NEW r, matched' = matched \cup {<<b, r>>}
  PROVE  MB' = MB \cup {b} /\ MR' = MR \cup {r}
<1>1. Firsts(matched') = Firsts(matched) \cup {b}
  BY FirstsAdd
<1>2. Seconds(matched') = Seconds(matched) \cup {r}
  BY SecondsAdd
<1> QED
  BY <1>1, <1>2 DEF MB, MR

\* A pair of nodes that are both still listed enters the matching.
LEMMA InsertListed ==
  ASSUME input \in Inputs, k \in 1..8, VectorsInv, MatchedInv, ListedOnce,
         NEW b \in Live(deleted[Kind]), NEW r \in Live(added[Kind]),
         Insert(b, r), UNCHANGED <<input, k>>
  PROVE  /\ matched' = matched \cup {<<b, r>>} /\ <<b, r>> \notin matched
         /\ VectorsInv' /\ MatchedInv' /\ ListedOnce'
         /\ \A v \in KR : Dropped(v)' => Dropped(v)
         /\ MB' = MB \cup {b}
<1>1. Kind \in NodeKinds
  BY KindsDistinct DEF Kind
<1>2. /\ b \in KB /\ Base(b).kind = Kind /\ r \in KR /\ Rev(r).kind = Kind
  BY <1>1 DEF VectorsInv
<1>3. b \notin MB /\ r \notin MR
  BY <1>2 DEF ListedOnce
<1>4. \A p \in matched : /\ p[1] \in MB /\ p[2] \in MR /\ p[1] \in KB /\ p[2] \in KR
                         /\ p = <<p[1], p[2]>>
  BY DEF MatchedInv, MB, MR, Firsts, Seconds
<1>5. ~ \E p \in matched : Same(Base(p[1]), Base(b)) \/ Same(Rev(p[2]), Rev(r))
  BY <1>2, <1>3, <1>4, Keys
<1>6. matched' = matched \cup {<<b, r>>}
  BY <1>5 DEF Insert, Paired
<1>7. MB' = MB \cup {b} /\ MR' = MR \cup {r}
  BY <1>6, InsertedParts
<1>8. KB' = KB /\ KR' = KR /\ Kind' = Kind
  BY DEF KB, KR, Kind
<1>9. /\ VectorsInv'
      /\ \A x \in NodeKinds \ {Kind} : deleted'[x] = deleted[x] /\ added'[x] = added[x]
      /\ Live(deleted'[Kind]) = Live(deleted[Kind]) \ {b}
      /\ Live(added'[Kind]) = Live(added[Kind]) \ {r}
  BY ErasedVectors DEF Insert
<1>10. MatchedInv'
  <2>1. matched' \subseteq KB \X KR
    BY <1>2, <1>6 DEF MatchedInv
  <2>2. OneToOne(matched')
    <3> SUFFICES ASSUME NEW p \in matched', NEW q \in matched', p[1] = q[1] \/ p[2] = q[2]
                 PROVE  p = q
      BY DEF OneToOne
    <3>1. CASE p \in matched /\ q \in matched
      BY <3>1 DEF MatchedInv, OneToOne
    <3>2. CASE p = <<b, r>> /\ q \in matched
      BY <1>3, <1>4, <3>2
    <3>3. CASE p \in matched /\ q = <<b, r>>
      BY <1>3, <1>4, <3>3
    <3> QED
      BY <1>6, <3>1, <3>2, <3>3
  <2>3. \A p \in matched' : Base(p[1]).kind = Rev(p[2]).kind
    BY <1>2, <1>6 DEF MatchedInv
  <2> QED
    BY <1>8, <2>1, <2>2, <2>3 DEF MatchedInv, Base, Rev
<1>11. ASSUME NEW v \in KB
       PROVE  v \in MB' <=> v \notin Live(deleted'[Base(v).kind])
  BY <1>2, <1>7, <1>9, <1>11, Keys DEF ListedOnce
<1>12. ASSUME NEW v \in KR
       PROVE  v \in MR' => v \notin Live(added'[Rev(v).kind])
  BY <1>2, <1>7, <1>9, <1>12, Keys DEF ListedOnce
<1>13. ListedOnce'
  BY <1>8, <1>11, <1>12 DEF ListedOnce, Base, Rev
<1>14. ASSUME NEW v \in KR, Dropped(v)' PROVE Dropped(v)
  <2>1. v \notin MR' /\ v \notin Live(added'[Rev(v).kind])
    BY <1>14 DEF Dropped, Rev
  <2> QED
    BY <1>7, <1>9, <2>1, Keys DEF Dropped
<1> QED
  BY <1>3, <1>4, <1>6, <1>7, <1>9, <1>10, <1>13, <1>14

\* A base node that was matched before, with a revision's node still listed: the
\* bimap refuses the pair, and only the list changes.
LEMMA InsertStale ==
  ASSUME input \in Inputs, k \in 1..8, VectorsInv, MatchedInv, ListedOnce,
         NEW b \in MB, NEW r \in Live(added[Kind]),
         Insert(b, r), UNCHANGED <<input, k>>
  PROVE  /\ matched' = matched /\ deleted' = deleted
         /\ VectorsInv' /\ MatchedInv' /\ ListedOnce'
         /\ \A v \in KR : Dropped(v)' => Dropped(v) \/ Rev(v).kind = Kind
<1>1. Kind \in NodeKinds
  BY KindsDistinct DEF Kind
<1>2. b \in KB
  BY DEF MatchedInv, MB, Firsts
<1>3. b \notin Live(deleted[Kind])
  BY <1>1, <1>2 DEF VectorsInv, ListedOnce
<1>4. matched' = matched
  BY DEF Insert, Paired, Same, MB, Firsts
<1>5. deleted' = deleted
  <2>1. Erased(deleted[Kind], b) = deleted[Kind]
    BY <1>3, ErasedAbsent
  <2>2. deleted = [x \in NodeKinds |-> deleted[x]]
    BY DEF VectorsInv
  <2> QED
    BY <2>1, <2>2 DEF Insert
<1>6. /\ VectorsInv'
      /\ \A x \in NodeKinds \ {Kind} : added'[x] = added[x]
      /\ Live(added'[Kind]) = Live(added[Kind]) \ {r}
  BY ErasedVectors DEF Insert
<1>7. /\ KB' = KB /\ KR' = KR /\ MB' = MB /\ MR' = MR
  BY <1>4 DEF KB, KR, MB, MR
<1>8. MatchedInv'
  BY <1>4, <1>7 DEF MatchedInv, Base, Rev
<1>9. ASSUME NEW v \in KR
      PROVE  /\ v \in Live(added'[Rev(v).kind]) => v \in Live(added[Rev(v).kind])
             /\ Rev(v).kind # Kind => added'[Rev(v).kind] = added[Rev(v).kind]
  BY <1>6, <1>9, Keys
<1>10. ListedOnce'
  BY <1>5, <1>7, <1>9 DEF ListedOnce, Base, Rev
<1>11. \A v \in KR : Dropped(v)' => Dropped(v) \/ Rev(v).kind = Kind
  BY <1>7, <1>9 DEF Dropped, Rev
<1> QED
  BY <1>4, <1>5, <1>6, <1>8, <1>10, <1>11

-----------------------------------------------------------------------------
(* The steps. *)

\* topDownMatch: what is not paired by signature goes to the vectors.
LEMMA TopDownStep ==
  ASSUME GraphInv, topDownMatch
  PROVE  GraphInv'
<1> DEFINE pairs == {p \in KB \X KR : Same(Base(p[1]), Rev(p[2]))}
           lost == KB \ {p[1] : p \in pairs}
           new == KR \ {p[2] : p \in pairs}
<1>1. /\ input \in Inputs /\ k = 0 /\ phase' = "next" /\ UNCHANGED <<input, k>>
      /\ matched' = pairs
      /\ deleted' \in Unmatched(input.base, lost)
      /\ added' \in Unmatched(input.rev, new)
  BY DEF GraphInv, topDownMatch, KB, KR
<1>2. KB' = KB /\ KR' = KR
  BY <1>1 DEF KB, KR
<1>3. /\ IsFiniteSet(lost) /\ lost \subseteq Nat
      /\ IsFiniteSet(new) /\ new \subseteq Nat
  BY <1>1, Keys, FS_Subset
<1>4. /\ \A v \in lost : v \in KB /\ \A w \in KR : ~Same(Base(v), Rev(w))
      /\ \A v \in KB : v \notin lost <=> v \in Firsts(pairs)
      /\ \A v \in KR : v \notin new <=> v \in Seconds(pairs)
      /\ new \subseteq KR
  <2>1. ASSUME NEW v \in lost, NEW w \in KR, Same(Base(v), Rev(w)) PROVE FALSE
    <3>1. <<v, w>> \in pairs /\ <<v, w>>[1] = v
      BY <2>1
    <3> QED
      BY <3>1
  <2> QED
    BY <2>1 DEF Firsts, Seconds
<1>5. /\ \A p \in pairs : /\ p[1] \in KB /\ p[2] \in KR /\ p = <<p[1], p[2]>>
                          /\ Same(Base(p[1]), Rev(p[2]))
      /\ pairs \subseteq KB \X KR
  OBVIOUS
<1> HIDE DEF pairs, lost, new
<1>6. /\ DOMAIN deleted' = NodeKinds /\ deleted' = [x \in NodeKinds |-> deleted'[x]]
      /\ \A x \in NodeKinds :
           /\ IsVec(deleted'[x]) /\ ~Shrunk(deleted'[x])
           /\ Live(deleted'[x]) = {v \in lost : input.base[v].kind = x}
  BY <1>1, <1>3, UnmatchedVec
<1>7. /\ DOMAIN added' = NodeKinds /\ added' = [x \in NodeKinds |-> added'[x]]
      /\ \A x \in NodeKinds :
           /\ IsVec(added'[x]) /\ ~Shrunk(added'[x])
           /\ Live(added'[x]) = {v \in new : input.rev[v].kind = x}
  BY <1>1, <1>3, UnmatchedVec
<1>8. VectorsInv'
  <2>1. /\ deleted' \in [NodeKinds -> {deleted'[x] : x \in NodeKinds}]
        /\ added' \in [NodeKinds -> {added'[x] : x \in NodeKinds}]
    BY <1>6, <1>7
  <2>2. ASSUME NEW x \in NodeKinds
        PROVE  /\ \A v \in Live(deleted'[x]) : v \in KB /\ input.base[v].kind = x
               /\ \A v \in Live(added'[x]) : v \in KR /\ input.rev[v].kind = x
               /\ \A v \in Live(deleted'[x]), w \in Live(added'[x]) :
                    ~Same(input.base[v], input.rev[w])
    BY <1>4, <1>6, <1>7 DEF Base, Rev
  <2> QED
    BY <1>1, <1>2, <1>6, <1>7, <2>1, <2>2 DEF VectorsInv, Base, Rev
<1>9. MatchedInv'
  <2>1. OneToOne(pairs)
    <3> SUFFICES ASSUME NEW p \in pairs, NEW q \in pairs, p[1] = q[1] \/ p[2] = q[2]
                 PROVE  p = q
      BY DEF OneToOne
    <3>1. p[1] = q[1] /\ p[2] = q[2]
      <4>1. CASE p[1] = q[1]
        <5>1. Same(Rev(p[2]), Rev(q[2]))
          BY <1>5, <4>1 DEF Same
        <5> QED
          BY <1>1, <1>5, <4>1, <5>1, Keys
      <4>2. CASE p[2] = q[2]
        <5>1. Same(Base(p[1]), Base(q[1]))
          BY <1>5, <4>2 DEF Same
        <5> QED
          BY <1>1, <1>5, <4>2, <5>1, Keys
      <4> QED
        BY <4>1, <4>2
    <3> QED
      BY <1>5, <3>1
  <2>2. \A p \in pairs : Base(p[1]).kind = Rev(p[2]).kind
    BY <1>1, <1>5, Keys, SameKind
  <2> QED
    BY <1>1, <1>2, <1>5, <2>1, <2>2 DEF MatchedInv, Base, Rev
<1>10. ListedInv'
  <2>1. MB' = Firsts(pairs) /\ MR' = Seconds(pairs)
    BY <1>1 DEF MB, MR
  <2>2. \A v \in KB : v \in MB' <=> v \notin Live(deleted'[Base(v).kind])
    BY <1>1, <1>4, <1>6, <2>1, Keys DEF Base
  <2>3. \A v \in KR : v \in MR' <=> v \notin Live(added'[Rev(v).kind])
    BY <1>1, <1>4, <1>7, <2>1, Keys DEF Rev
  <2>4. \A v \in KR : ~Dropped(v)'
    BY <1>1, <2>3 DEF Dropped, Rev
  <2> QED
    BY <1>1, <1>2, <2>2, <2>3, <2>4 DEF ListedInv, ListedOnce, Base, Rev
<1> QED
  BY <1>1, <1>8, <1>9, <1>10 DEF GraphInv

\* While no nested loop runs nobody has been dropped, and that stays so when
\* neither the matching nor the lists change.
LEMMA ListedFrame ==
  ASSUME ListedOnce, \A v \in KR : ~Dropped(v),
         UNCHANGED <<input, matched, deleted, added>>
  PROVE  ListedInv'
<1>1. /\ KB' = KB /\ KR' = KR /\ MB' = MB /\ MR' = MR
  BY DEF KB, KR, MB, MR
<1>2. \A v \in KR : ~Dropped(v)'
  BY <1>1 DEF Dropped, Rev
<1>3. ListedOnce'
  BY <1>1 DEF ListedOnce, Base, Rev
<1> QED
  BY <1>1, <1>2, <1>3 DEF ListedInv

LEMMA MatchedFrame ==
  ASSUME MatchedInv, UNCHANGED <<input, matched>>
  PROVE  MatchedInv'
<1>1. KB' = KB /\ KR' = KR
  BY DEF KB, KR
<1> QED
  BY <1>1 DEF MatchedInv, Base, Rev

LEMMA VectorsFrame ==
  ASSUME VectorsInv, UNCHANGED <<input, deleted, added>>, k \in Nat, k' \in {k, k + 1}
  PROVE  VectorsInv'
<1>1. KB' = KB /\ KR' = KR /\ \A n \in 1..k : n \in 1..k'
  BY DEF KB, KR
<1> QED
  BY <1>1 DEF VectorsInv, Base, Rev

\* bottomUpMatch: a matcher starts with vectors nothing was erased from.
LEMMA BottomUpStep ==
  ASSUME GraphInv, bottomUpMatch
  PROVE  GraphInv'
<1> DEFINE x == Kinds[k + 1]
           d == deleted[x]
           a == added[x]
<1>1. /\ input \in Inputs /\ phase = "next" /\ k \in 0..7 /\ k' = k + 1
      /\ VectorsInv /\ MatchedInv /\ ListedInv
      /\ UNCHANGED <<input, matched, deleted, added, refactored>>
  BY KindsDistinct DEF GraphInv, bottomUpMatch
<1>2. x \in NodeKinds /\ Kind' = x /\ \A n \in 1..k : Kinds[n] # x
  <2>1. k + 1 \in 1..8 /\ \A n \in 1..k : n \in 1..8 /\ n # k + 1
    BY <1>1
  <2> QED
    BY <1>1, <2>1, KindsDistinct DEF Kind
<1>3. /\ IsVec(d) /\ ~Shrunk(d) /\ IsVec(a) /\ ~Shrunk(a)
      /\ \A v \in Live(d) : v \in KB /\ Base(v).kind = x
      /\ \A v \in Live(a) : v \in KR /\ Rev(v).kind = x
  BY <1>1, <1>2 DEF VectorsInv
<1>4. /\ d.len = Len(d.mem) /\ a.len = Len(a.mem) /\ d.len \in Nat /\ a.len \in Nat
      /\ d.mem \in Seq(Nat) /\ a.mem \in Seq(Nat)
  BY <1>3 DEF IsVec, Shrunk
<1>5. VectorsInv' /\ MatchedInv' /\ ListedInv'
  <2>1. \A v \in KR : ~Dropped(v)
    BY <1>1 DEF ListedInv, Doomed
  <2>2. k \in Nat /\ k' \in {k, k + 1}
    BY <1>1
  <2> QED
    BY <1>1, <2>1, <2>2, VectorsFrame, MatchedFrame, ListedFrame DEF ListedInv
<1>6. CASE phase' = "next"
  BY <1>1, <1>5, <1>6 DEF GraphInv
<1>7. CASE phase' # "next"
  <2>1. /\ ~(d.len = 0 \/ a.len = 0)
        /\ order' = d.mem /\ iEnd' = d.len /\ jEnd' = a.len /\ i' = 1 /\ j' = 1
        /\ \/ x \in LinearKinds /\ phase' = "linear"
           \/ /\ x \notin LinearKinds /\ phase' = "mates"
              /\ mate' \in SUBSET (Live(d) \X Live(a)) /\ OneToOne(mate')
    BY <1>1, <1>7 DEF bottomUpMatch
  <2>2. deleted'[x] = d /\ added'[x] = a
    BY <1>1
  <2> HIDE DEF d, a, x
  <2>3. CASE phase' = "linear"
    <3>1. ~ErasedSome'
      BY <1>2, <1>3, <2>2 DEF ErasedSome, Shrunk
    <3>2. /\ x \in LinearKinds
          /\ iEnd' = Len(d.mem) /\ i' \in 1..iEnd'
          /\ j' \in Nat \ {0} /\ jEnd' \in a.len..Len(a.mem)
          /\ \A q \in j'..jEnd' : ~(q > a.len)
          /\ \A q \in (i' + 1)..iEnd' : ~(q > d.len)
          /\ ~(i' > d.len)
      BY <1>4, <2>1, <2>3
    <3>3. LinearInv'
      BY <1>2, <2>2, <3>1, <3>2 DEF LinearInv, ErasedInv
    <3> QED
      BY <1>1, <1>5, <2>3, <3>3 DEF GraphInv
  <2>4. CASE phase' = "mates"
    <3>1. x \notin LinearKinds /\ mate' \in SUBSET (Live(d) \X Live(a)) /\ OneToOne(mate')
      BY <2>1, <2>4
    <3>2. IsFiniteSet(mate')
      <4>1. Live(d) \in SUBSET KB /\ Live(a) \in SUBSET KR /\ IsFiniteSet(KB) /\ IsFiniteSet(KR)
        BY <1>1, <1>3, Keys
      <4>2. IsFiniteSet(Live(d)) /\ IsFiniteSet(Live(a))
        BY <4>1, FS_Subset
      <4>3. IsFiniteSet(Live(d) \X Live(a))
        BY <4>2, FS_Product
      <4> QED
        BY <3>1, <4>3, FS_Subset
    <3>3. \A p \in mate' : /\ p = <<p[1], p[2]>>
                           /\ \E q \in 1..Len(d.mem) : d.mem[q] = p[1]
                           /\ p[1] \in Live(d) /\ p[2] \in Live(a)
      <4>1. \A v \in Live(d) : \E q \in 1..Len(d.mem) : d.mem[q] = v
        BY <1>4 DEF Live
      <4> QED
        BY <3>1, <4>1
    <3>4. mate' \cap matched = {}
      <4>1. ASSUME NEW p \in mate', p \in matched PROVE FALSE
        <5>1. p[1] \in MB
          BY <4>1 DEF MB, Firsts
        <5>2. p[1] \in KB /\ Base(p[1]).kind = x /\ p[1] \in Live(deleted[x])
          BY <1>3, <3>3 DEF d
        <5> QED
          BY <1>1, <5>1, <5>2 DEF ListedInv, ListedOnce
      <4> QED
        BY <4>1
    <3>5. d.len = Len(order') - Cardinality(mate' \cap matched')
      <4>1. mate' \cap matched' = {}
        BY <1>1, <3>4
      <4>2. Cardinality(mate' \cap matched') = 0
        BY <4>1, FS_EmptySet
      <4>3. order' = d.mem
        BY <2>1
      <4> QED
        BY <1>4, <4>2, <4>3
    <3>6. i' = 1 /\ order' = d.mem
      BY <2>1
    <3>7. \A p \in mate' :
            /\ p = <<p[1], p[2]>>
            /\ \E q \in 1..Len(order') : order'[q] = p[1]
            /\ p[1] \in Live(deleted'[x]) /\ p[2] \in Live(added'[x])
      BY <2>2, <3>3, <3>6
    <3>8. \A q \in 1..(i' - 1) : FALSE
      BY <3>6
    <3>9. /\ i' \in Nat \ {0} /\ order' \in Seq(Nat)
          /\ deleted'[x].len = Len(order') - Cardinality(mate' \cap matched')
      BY <1>4, <2>2, <3>5, <3>6
    <3>10. MatesInv'
      BY <1>2, <3>1, <3>2, <3>7, <3>8, <3>9 DEF MatesInv
    <3> QED
      BY <1>1, <1>5, <2>4, <3>10 DEF GraphInv
  <2> QED
    BY <2>1, <2>3, <2>4
<1> QED
  BY <1>6, <1>7

\* The slots a nested loop is at, and what they hold.
LEMMA SlotFacts ==
  ASSUME GraphInv, phase = "linear",
         j <= jEnd, NEW b, b = deleted[Kind].mem[i], NEW r, r = added[Kind].mem[j],
         b # Null, r # Null
  PROVE  /\ j \in 1..added[Kind].len /\ r \in Live(added[Kind])
         /\ \/ i \in 1..deleted[Kind].len /\ b \in Live(deleted[Kind])
            \/ i > deleted[Kind].len /\ b \in MB /\ added[Kind].len < jEnd
<1>1. LinearInv /\ VectorsInv /\ k \in 1..8 /\ Kind \in NodeKinds
  BY KindsDistinct DEF GraphInv, Kind
<1>2. IsVec(deleted[Kind]) /\ IsVec(added[Kind])
  BY <1>1 DEF VectorsInv
<1>3. /\ deleted[Kind].len \in Nat /\ added[Kind].len \in Nat
      /\ j \in Nat /\ j >= 1 /\ i \in Nat /\ i >= 1
      /\ jEnd \in Int
  BY <1>1, <1>2 DEF IsVec, LinearInv
<1>4. j \in 1..added[Kind].len
  BY <1>1, <1>3 DEF LinearInv
<1>5. r \in Live(added[Kind])
  BY <1>4 DEF Live
<1>6. CASE i <= deleted[Kind].len
  BY <1>3, <1>4, <1>5, <1>6 DEF Live
<1>7. CASE ~(i <= deleted[Kind].len)
  <2>1. i > deleted[Kind].len
    BY <1>3, <1>7
  <2> QED
    BY <1>1, <1>4, <1>5, <2>1 DEF LinearInv
<1> QED
  BY <1>6, <1>7

\* Only enums are ever matched by a nested loop.
LEMMA MatchedEnum ==
  ASSUME GraphInv, phase = "linear",
         j <= jEnd, NEW b, b = deleted[Kind].mem[i], NEW r, r = added[Kind].mem[j],
         b # Null, r # Null, isMatched(b, r)
  PROVE  Kind = "ENUM" /\ <<b, r>> \in similar
<1>1. LinearInv /\ VectorsInv /\ input \in Inputs /\ k \in 1..8 /\ Kind \in NodeKinds
  BY KindsDistinct DEF GraphInv, Kind
<1>2. CASE Kind = "ENUM"
  BY <1>2 DEF isMatched, EnumMatcher
<1>3. CASE Kind # "ENUM"
  <2>1. Kind \in {"TRANSLATION_UNIT", "LINKAGE_SPEC_LIST"}
    BY <1>1, <1>3 DEF LinearInv, LinearKinds
  <2>2. ~Shrunk(deleted[Kind])
    BY <1>1, <1>3 DEF LinearInv, ErasedInv, ErasedSome
  <2>3. i \in 1..Len(deleted[Kind].mem) /\ IsVec(deleted[Kind])
    BY <1>1 DEF LinearInv, VectorsInv
  <2>4. ~(i > deleted[Kind].len)
    BY <2>2, <2>3 DEF Shrunk, IsVec
  <2>5. b \in Live(deleted[Kind]) /\ r \in Live(added[Kind])
    BY <2>4, SlotFacts
  <2>6. Base(b).kind = Kind /\ Rev(r).kind = Kind /\ ~Same(Base(b), Rev(r))
    BY <1>1, <2>5 DEF VectorsInv
  <2>7. \/ Kind = "TRANSLATION_UNIT" /\ Base(b).name = Rev(r).name
        \/ Kind = "LINKAGE_SPEC_LIST" /\ Base(b).parent = Rev(r).parent
    BY <2>1 DEF isMatched, TranslationUnitMatcher, LinkageSpecListMatcher
  <2> QED
    BY <2>6, <2>7, PairedUnits
<1> QED
  BY <1>2, <1>3

\* Compare: the inner loop is over.
LEMMA EndCompareStep ==
  ASSUME GraphInv, phase = "linear", j > jEnd,
         UNCHANGED <<input, k, matched, deleted, added, similar, iEnd>>,
         \/ phase' = "next"
         \/ /\ phase' = "linear" /\ i < iEnd
            /\ i' = i + 1 /\ j' = 1 /\ jEnd' = added[Kind].len
  PROVE  GraphInv'
<1>1. /\ input \in Inputs /\ k \in 1..8 /\ Kind \in NodeKinds /\ Kind' = Kind
      /\ VectorsInv /\ MatchedInv /\ ListedInv /\ LinearInv
  BY KindsDistinct DEF GraphInv, Kind
<1>2. \A v \in KR : ~Dropped(v)
  BY <1>1 DEF ListedInv, Doomed, LinearInv, VectorsInv, IsVec
<1>3. VectorsInv' /\ MatchedInv' /\ ListedInv'
  BY <1>1, <1>2, VectorsFrame, MatchedFrame, ListedFrame DEF ListedInv
<1>4. CASE phase' = "next"
  BY <1>1, <1>3, <1>4 DEF GraphInv
<1>5. CASE phase' = "linear"
  <2>1. PICK d : d = deleted[Kind]
    OBVIOUS
  <2>2. PICK a : a = added[Kind]
    OBVIOUS
  <2>3. deleted'[Kind] = d /\ added'[Kind] = a /\ MB' = MB
    BY <2>1, <2>2 DEF MB
  <2>4. /\ i < iEnd /\ i' = i + 1 /\ j' = 1 /\ jEnd' = a.len
    BY <1>5, <2>2
  <2>5. IsVec(d) /\ IsVec(a)
    BY <1>1, <2>1, <2>2 DEF VectorsInv
  <2>6. /\ Kind \in LinearKinds /\ iEnd = Len(d.mem) /\ i \in 1..iEnd
        /\ \A q \in (i + 1)..iEnd : q > d.len => d.mem[q] = Null
        /\ ErasedInv
    BY <1>1, <2>1, <2>2 DEF LinearInv
  <2>7. d.len \in Nat /\ a.len \in 0..Len(a.mem) /\ Len(d.mem) \in Nat /\ Len(a.mem) \in Nat
    BY <2>5 DEF IsVec
  <2>8. /\ i' \in 1..iEnd /\ jEnd' \in a.len..Len(a.mem)
        /\ \A q \in j'..jEnd' : ~(q > a.len)
        /\ \A q \in (i' + 1)..iEnd : q > d.len => d.mem[q] = Null
        /\ i' > d.len => d.mem[i'] = Null
    BY <2>4, <2>6, <2>7
  <2>9. ErasedInv' /\ (ErasedSome' => Shrunk(a))
    <3>1. ErasedSome' <=> ErasedSome
      BY <1>1 DEF ErasedSome
    <3> QED
      BY <1>1, <2>2, <2>6, <3>1 DEF ErasedInv
  <2>10. ErasedSome' => jEnd' < Len(a.mem)
    BY <2>4, <2>9 DEF Shrunk
  <2>11. LinearInv'
    BY <1>1, <2>3, <2>4, <2>6, <2>8, <2>9, <2>10 DEF LinearInv
  <2> QED
    BY <1>1, <1>3, <1>5, <2>11 DEF GraphInv
<1> QED
  BY <1>4, <1>5

\* Compare: a slot that was moved from.
LEMMA CrashStep ==
  ASSUME GraphInv, phase = "linear", j <= jEnd,
         deleted[Kind].mem[i] = Null \/ added[Kind].mem[j] = Null,
         phase' = "crashed",
         UNCHANGED <<input, k, matched, deleted, added, similar>>
  PROVE  GraphInv'
<1>1. /\ input \in Inputs /\ k \in 1..8 /\ Kind \in NodeKinds /\ Kind' = Kind
      /\ VectorsInv /\ MatchedInv /\ ListedInv /\ LinearInv
  BY KindsDistinct DEF GraphInv, Kind
<1>2. VectorsInv' /\ MatchedInv'
  BY <1>1, VectorsFrame, MatchedFrame
<1>3. ListedInv'
  <2>1. /\ KB' = KB /\ KR' = KR /\ MB' = MB /\ MR' = MR
    BY DEF KB, KR, MB, MR
  <2>2. \A v \in KR : Dropped(v)' => Rev(v)'.kind = "ENUM" /\ Doomed'
    <3> SUFFICES ASSUME NEW v \in KR, Dropped(v)' PROVE Rev(v)'.kind = "ENUM" /\ Doomed'
      OBVIOUS
    <3>1. Dropped(v)
      BY <2>1 DEF Dropped, Rev
    <3>2. Rev(v).kind = "ENUM" /\ Kind = "ENUM"
      BY <1>1, <3>1 DEF ListedInv, Doomed
    <3> QED
      BY <1>1, <3>2 DEF Doomed, Rev
  <2>3. ListedOnce'
    BY <1>1, <2>1 DEF ListedInv, ListedOnce, Base, Rev
  <2> QED
    BY <2>1, <2>2, <2>3 DEF ListedInv
<1>4. IsVec(deleted[Kind]) /\ IsVec(added[Kind])
  BY <1>1 DEF VectorsInv
<1>5. /\ deleted[Kind].len \in Nat /\ added[Kind].len \in Nat
      /\ Len(deleted[Kind].mem) \in Nat /\ Len(added[Kind].mem) \in Nat
      /\ iEnd = Len(deleted[Kind].mem) /\ i \in 1..iEnd
      /\ j \in Nat \ {0} /\ jEnd \in added[Kind].len..Len(added[Kind].mem)
  BY <1>1, <1>4 DEF LinearInv, IsVec
<1>6. ErasedSome
  <2> SUFFICES ASSUME ~ErasedSome PROVE FALSE
    OBVIOUS
  <2>1. i \in 1..deleted[Kind].len /\ j \in 1..added[Kind].len
    BY <1>4, <1>5 DEF ErasedSome, Shrunk, IsVec
  <2>2. deleted[Kind].mem[i] \in KB /\ added[Kind].mem[j] \in KR
    BY <1>1, <2>1 DEF VectorsInv, Live
  <2> QED
    BY <1>1, <2>2, Keys
<1>7. Len(added[Kind].mem) > 1
  <2>1. jEnd < Len(added[Kind].mem) \/ j >= 2
    BY <1>1, <1>6 DEF LinearInv
  <2> QED
    BY <1>5, <2>1
<1>8. ErasedInv' /\ ErasedSome' /\ Len(added'[Kind'].mem) > 1
  <2>1. ErasedSome' <=> ErasedSome
    BY <1>1 DEF ErasedSome
  <2> QED
    BY <1>1, <1>6, <1>7, <2>1 DEF ErasedInv, LinearInv
<1> QED
  BY <1>1, <1>2, <1>3, <1>8 DEF GraphInv

\* Compare: a pair that does not match.
LEMMA NoMatchStep ==
  ASSUME GraphInv, phase = "linear", j <= jEnd,
         deleted[Kind].mem[i] # Null, added[Kind].mem[j] # Null,
         j' = j + 1,
         UNCHANGED <<input, phase, k, matched, deleted, added, similar, i, iEnd, jEnd>>
  PROVE  GraphInv'
<1>1. /\ input \in Inputs /\ k \in 1..8 /\ Kind \in NodeKinds /\ Kind' = Kind
      /\ VectorsInv /\ MatchedInv /\ ListedInv /\ LinearInv
  BY KindsDistinct DEF GraphInv, Kind
<1>2. VectorsInv' /\ MatchedInv'
  BY <1>1, VectorsFrame, MatchedFrame
<1>3. /\ KB' = KB /\ KR' = KR /\ MB' = MB /\ MR' = MR
  BY DEF KB, KR, MB, MR
<1>4. /\ j \in Nat /\ jEnd \in Int /\ j <= added[Kind].len /\ added[Kind].len \in Nat
  <2>1. j \in 1..added[Kind].len
    BY SlotFacts
  <2> QED
    BY <1>1, <2>1 DEF LinearInv, VectorsInv, IsVec
<1>5. ListedInv'
  <2>1. \A v \in KR : Dropped(v)' => Rev(v)'.kind = "ENUM" /\ Doomed'
    <3> SUFFICES ASSUME NEW v \in KR, Dropped(v)' PROVE Rev(v)'.kind = "ENUM" /\ Doomed'
      OBVIOUS
    <3>1. Dropped(v)
      BY <1>3 DEF Dropped, Rev
    <3>2. Rev(v).kind = "ENUM" /\ Kind = "ENUM" /\ added[Kind].len < jEnd
      BY <1>1, <3>1 DEF ListedInv, Doomed
    <3>3. j + 1 <= jEnd
      BY <1>4, <3>2
    <3> QED
      BY <1>1, <3>2, <3>3 DEF Doomed, Rev
  <2>2. ListedOnce'
    BY <1>1, <1>3 DEF ListedInv, ListedOnce, Base, Rev
  <2> QED
    BY <1>3, <2>1, <2>2 DEF ListedInv
<1>6. LinearInv'
  <2>1. ErasedInv' /\ (ErasedSome' <=> ErasedSome)
    <3>1. ErasedSome' <=> ErasedSome
      BY <1>1 DEF ErasedSome
    <3> QED
      BY <1>1, <3>1 DEF ErasedInv, LinearInv
  <2>2. \A q \in (j + 1)..jEnd : q \in j..jEnd
    BY <1>4
  <2>3. j + 1 \in Nat \ {0} /\ j + 1 >= 2
    BY <1>1, <1>4 DEF LinearInv
  <2> QED
    BY <1>1, <1>3, <2>1, <2>2, <2>3 DEF LinearInv
<1> QED
  BY <1>1, <1>2, <1>5, <1>6 DEF GraphInv

\* Compare: a pair that matches.  The base enum is still listed, or it is the one
\* the loop holds on to after it was erased.
LEMMA MatchStep ==
  ASSUME GraphInv, phase = "linear", j <= jEnd,
         NEW b, b = deleted[Kind].mem[i], NEW r, r = added[Kind].mem[j],
         b # Null, r # Null, isMatched(b, r), Insert(b, r), j' = j + 1,
         UNCHANGED <<input, phase, k, similar, i, iEnd, jEnd>>
  PROVE  GraphInv'
<1>1. /\ input \in Inputs /\ k \in 1..8 /\ Kind \in NodeKinds /\ Kind' = Kind
      /\ VectorsInv /\ MatchedInv /\ ListedInv /\ LinearInv
  BY KindsDistinct DEF GraphInv, Kind
<1>2. Kind = "ENUM" /\ <<b, r>> \in similar
  BY MatchedEnum
<1>3. PICK d : d = deleted[Kind]
  OBVIOUS
<1>4. PICK a : a = added[Kind]
  OBVIOUS
<1>5. /\ j \in 1..a.len /\ r \in Live(a)
      /\ \/ i \in 1..d.len /\ b \in Live(d)
         \/ i > d.len /\ b \in MB /\ a.len < jEnd
  BY <1>3, <1>4, SlotFacts
<1>6. IsVec(d) /\ IsVec(a)
  BY <1>1, <1>3, <1>4 DEF VectorsInv
<1>7. /\ d.len \in Nat /\ a.len \in Nat /\ Len(d.mem) \in Nat /\ Len(a.mem) \in Nat
      /\ d.len <= Len(d.mem) /\ a.len <= Len(a.mem)
  BY <1>6 DEF IsVec
<1>8. /\ iEnd = Len(d.mem) /\ i \in 1..iEnd
      /\ j \in Nat \ {0} /\ jEnd \in a.len..Len(a.mem)
      /\ \A q \in j..jEnd : q > a.len => a.mem[q] = Null
      /\ \A q \in (i + 1)..iEnd : q > d.len => d.mem[q] = Null
  BY <1>1, <1>3, <1>4 DEF LinearInv
<1>9. Kind' \in LinearKinds
  BY <1>1 DEF LinearInv
\* What erasing r leaves behind.
<1>10. PICK e : e = Erased(a, r)
  OBVIOUS
<1>11. /\ e.len = a.len - 1 /\ Len(e.mem) = Len(a.mem)
       /\ \A q \in 1..Len(a.mem) :
            e.mem[q] = IF q < j \/ q > a.len THEN a.mem[q]
                       ELSE IF q < a.len THEN a.mem[q + 1]
                       ELSE IF j < a.len THEN Null ELSE r
  BY <1>4, <1>5, <1>6, <1>10, ErasedSlot
<1>12. \A q \in (j + 1)..jEnd : q > e.len => e.mem[q] = Null
  <2> SUFFICES ASSUME NEW q \in (j + 1)..jEnd, q > e.len PROVE e.mem[q] = Null
    OBVIOUS
  <2>1. q \in 1..Len(a.mem) /\ q > j /\ q >= a.len /\ q \in j..jEnd
    BY <1>5, <1>7, <1>8, <1>11
  <2>2. CASE q > a.len
    BY <1>8, <1>11, <2>1, <2>2
  <2>3. CASE q = a.len
    <3>1. ~(q < j) /\ ~(q > a.len) /\ ~(q < a.len) /\ j < a.len
      BY <1>5, <1>7, <2>1, <2>3
    <3> QED
      BY <1>11, <2>1, <3>1
  <2> QED
    BY <1>7, <2>1, <2>2, <2>3
<1>13. j + 1 \in Nat \ {0} /\ j + 1 >= 2 /\ jEnd \in e.len..Len(e.mem) /\ e.len < jEnd
       /\ Shrunk(e)
  BY <1>5, <1>7, <1>8, <1>11 DEF Shrunk
<1>14. added'[Kind] = e
  BY <1>1, <1>4, <1>10, ErasedVectors DEF Insert
<1>15. ASSUME VectorsInv', MatchedInv', ListedOnce',
              \A v \in KR : Dropped(v)' => Rev(v).kind = "ENUM" /\ (Dropped(v) \/ a.len < jEnd),
              \E p \in matched' : p \in similar,
              NEW c, deleted'[Kind] = c, Len(c.mem) = Len(d.mem),
              \A q \in (i + 1)..iEnd : q > c.len => c.mem[q] = Null,
              i > c.len => c.mem[i] \in MB'
       PROVE  GraphInv'
  <2>1. ErasedInv'
    BY <1>1, <1>2, <1>13, <1>14, <1>15 DEF ErasedInv
  <2>2. LinearInv'
    BY <1>1, <1>8, <1>9, <1>12, <1>13, <1>14, <1>15, <2>1 DEF LinearInv
  <2>3. \A v \in KR : Dropped(v)' => Rev(v).kind = "ENUM" /\ Doomed'
    <3> SUFFICES ASSUME NEW v \in KR, Dropped(v)' PROVE Rev(v).kind = "ENUM" /\ Doomed'
      OBVIOUS
    <3>1. Rev(v).kind = "ENUM" /\ (Dropped(v) \/ a.len < jEnd)
      BY <1>15
    <3>2. a.len < jEnd
      BY <1>1, <1>4, <3>1 DEF ListedInv, Doomed
    <3>3. j + 1 <= jEnd
      BY <1>5, <1>7, <1>8, <3>2
    <3> QED
      BY <1>1, <1>2, <1>13, <1>14, <3>1, <3>3 DEF Doomed
  <2>4. ListedInv'
    BY <1>15, <2>3 DEF ListedInv, KR, Rev
  <2> QED
    BY <1>1, <1>15, <2>2, <2>4 DEF GraphInv
<1>16. CASE i \in 1..d.len /\ b \in Live(d)
  <2>1. /\ matched' = matched \cup {<<b, r>>}
        /\ VectorsInv' /\ MatchedInv' /\ ListedOnce'
        /\ \A v \in KR : Dropped(v)' => Dropped(v)
        /\ MB' = MB \cup {b}
    BY <1>1, <1>3, <1>4, <1>5, <1>16, InsertListed DEF ListedInv
  <2>2. PICK c : c = Erased(d, b)
    OBVIOUS
  <2>3. /\ c.len = d.len - 1 /\ Len(c.mem) = Len(d.mem)
        /\ \A q \in 1..Len(d.mem) :
             c.mem[q] = IF q < i \/ q > d.len THEN d.mem[q]
                        ELSE IF q < d.len THEN d.mem[q + 1]
                        ELSE IF i < d.len THEN Null ELSE b
    BY <1>3, <1>6, <1>16, <2>2, ErasedSlot
  <2>4. deleted'[Kind] = c
    BY <1>1, <1>3, <2>2, ErasedVectors DEF Insert
  <2>5. \A q \in (i + 1)..iEnd : q > c.len => c.mem[q] = Null
    <3> SUFFICES ASSUME NEW q \in (i + 1)..iEnd, q > c.len PROVE c.mem[q] = Null
      OBVIOUS
    <3>1. q \in 1..Len(d.mem) /\ q > i /\ q >= d.len
      BY <1>7, <1>8, <1>16, <2>3
    <3>2. CASE q > d.len
      BY <1>8, <2>3, <3>1, <3>2
    <3>3. CASE q = d.len
      <4>1. ~(q < i) /\ ~(q > d.len) /\ ~(q < d.len) /\ i < d.len
        BY <1>7, <1>16, <3>1, <3>3
      <4> QED
        BY <2>3, <3>1, <4>1
    <3> QED
      BY <1>7, <3>1, <3>2, <3>3
  <2>6. i > c.len => c.mem[i] = b
    BY <1>7, <1>8, <1>16, <2>3
  <2>7. \A v \in KR : Dropped(v)' => Rev(v).kind = "ENUM" /\ (Dropped(v) \/ a.len < jEnd)
    BY <1>1, <2>1 DEF ListedInv
  <2> QED
    BY <1>2, <1>15, <2>1, <2>3, <2>4, <2>5, <2>6, <2>7
<1>17. CASE i > d.len /\ b \in MB /\ a.len < jEnd
  <2>1. /\ matched' = matched /\ deleted' = deleted
        /\ VectorsInv' /\ MatchedInv' /\ ListedOnce'
        /\ \A v \in KR : Dropped(v)' => Dropped(v) \/ Rev(v).kind = Kind
    BY <1>1, <1>4, <1>5, <1>17, InsertStale DEF ListedInv
  <2>2. MB' = MB
    BY <2>1 DEF MB
  <2>3. \E p \in matched' : p \in similar
    <3>1. ErasedSome
      BY <1>3, <1>7, <1>8, <1>17 DEF ErasedSome, Shrunk
    <3> QED
      BY <1>1, <2>1, <3>1 DEF LinearInv, ErasedInv
  <2>4. \A v \in KR : Dropped(v)' => Rev(v).kind = "ENUM" /\ (Dropped(v) \/ a.len < jEnd)
    BY <1>1, <1>2, <1>17, <2>1 DEF ListedInv
  <2> QED
    BY <1>3, <1>8, <1>15, <1>17, <2>1, <2>2, <2>3, <2>4
<1> QED
  BY <1>5, <1>16, <1>17

\* Only the matcher of types extends RefactoredTypes, and it does not read them.
LEMMA AcceptedFrame ==
  ASSUME NEW b, NEW r, Kind \notin LinearKinds, k \in 1..8,
         UNCHANGED <<input, k, similar>>,
         refactored' = refactored \/ Kind = "TYPE"
  PROVE  accepted(b, r)' <=> accepted(b, r)
<1>1. Kind' = Kind
  BY DEF Kind
<1>2. Base(b)' = Base(b) /\ Rev(r)' = Rev(r)
  BY DEF Base, Rev
<1>3. CASE Kind = "TYPE"
  BY <1>1, <1>3 DEF accepted, TypeSpecifierMatcher
<1>4. CASE Kind # "TYPE" /\ refactored' = refactored
  <2>1. ParentsAgree(b, r)' <=> ParentsAgree(b, r)
    BY <1>2, <1>4 DEF ParentsAgree
  <2>2. /\ NamespaceMatcher(b, r)' <=> NamespaceMatcher(b, r)
        /\ FieldDeclMatcher(b, r)' <=> FieldDeclMatcher(b, r)
        /\ FuncDefMatcher(b, r)' <=> FuncDefMatcher(b, r)
        /\ FuncSpecialMemberMatcher(b, r)' <=> FuncSpecialMemberMatcher(b, r)
    BY <2>1 DEF NamespaceMatcher, FieldDeclMatcher, FuncDefMatcher, FuncSpecialMemberMatcher
  <2>3. Kind \in {"NAMESPACE", "FIELD_DECLARATION", "FUNC_DEF", "FUNC_SPECIAL_MEMBER"}
    BY <1>4 DEF Kind, Kinds, LinearKinds
  <2> QED
    BY <1>1, <2>2, <2>3 DEF accepted
<1> QED
  BY <1>3, <1>4

\* Visit: one vertex of the loop over the mates.
LEMMA VisitStep ==
  ASSUME GraphInv, Visit
  PROVE  GraphInv'
<1>1. /\ input \in Inputs /\ k \in 1..8 /\ Kind \in NodeKinds /\ Kind' = Kind
      /\ phase = "mates"
      /\ VectorsInv /\ MatchedInv /\ ListedInv /\ MatesInv
      /\ i' = i + 1
      /\ UNCHANGED <<input, phase, k, similar, mate, order, j, iEnd, jEnd>>
  BY KindsDistinct DEF GraphInv, Visit, Kind
<1>2. ListedOnce /\ \A v \in KR : ~Dropped(v)
  BY <1>1 DEF ListedInv, Doomed
<1>3. /\ Kind \notin LinearKinds /\ i \in Nat \ {0} /\ order \in Seq(Nat)
      /\ IsFiniteSet(mate) /\ OneToOne(mate)
      /\ \A p \in mate : /\ p = <<p[1], p[2]>>
                         /\ \E q \in 1..Len(order) : order[q] = p[1]
                         /\ p \notin matched => /\ p[1] \in Live(deleted[Kind])
                                                /\ p[2] \in Live(added[Kind])
      /\ \A p \in mate, q \in 1..(i - 1) :
           order[q] = p[1] /\ accepted(p[1], p[2]) => p \in matched
      /\ deleted[Kind].len = Len(order) - Cardinality(mate \cap matched)
  BY <1>1 DEF MatesInv
<1>4. refactored' = refactored \/ Kind = "TYPE"
  BY DEF Visit
<1>5. \A p \in mate : accepted(p[1], p[2])' <=> accepted(p[1], p[2])
  BY <1>1, <1>3, <1>4, AcceptedFrame
<1> DEFINE M == {p \in mate : p[1] = order[i] /\ accepted(p[1], p[2])}
\* It is enough that every accepted pair of vertex i is matched now, and what the
\* step does to the vectors.
<1>6. ASSUME VectorsInv', MatchedInv', ListedInv', matched \subseteq matched',
             M \subseteq matched',
             \A p \in mate : p \notin matched' => /\ p[1] \in Live(deleted'[Kind])
                                                  /\ p[2] \in Live(added'[Kind]),
             deleted'[Kind].len = Len(order) - Cardinality(mate \cap matched')
      PROVE  GraphInv'
  <2>1. \A p \in mate, q \in 1..i :
          order[q] = p[1] /\ accepted(p[1], p[2]) => p \in matched'
    <3> SUFFICES ASSUME NEW p \in mate, NEW q \in 1..i, order[q] = p[1], accepted(p[1], p[2])
                 PROVE  p \in matched'
      OBVIOUS
    <3>1. CASE q = i
      BY <1>6, <3>1
    <3>2. CASE q \in 1..(i - 1)
      BY <1>3, <1>6, <3>2
    <3> QED
      BY <1>3, <3>1, <3>2
  <2>2. i' \in Nat \ {0} /\ i' - 1 = i
    BY <1>1, <1>3
  <2>3. MatesInv'
    BY <1>1, <1>3, <1>5, <1>6, <2>1, <2>2 DEF MatesInv
  <2> QED
    BY <1>1, <1>6, <2>3 DEF GraphInv
<1>7. CASE M = {}
  <2>1. UNCHANGED <<matched, deleted, added>>
    BY <1>7 DEF Visit
  <2>2. VectorsInv' /\ MatchedInv' /\ ListedInv'
    BY <1>1, <1>2, <2>1, VectorsFrame, MatchedFrame, ListedFrame
  <2> QED
    BY <1>3, <1>6, <1>7, <2>1, <2>2
<1>8. CASE M # {}
  <2>1. PICK p \in M : Insert(p[1], p[2])
    BY <1>8 DEF Visit
  <2>2. p \in mate /\ p = <<p[1], p[2]>> /\ \A q \in M : q = p
    BY <1>3 DEF OneToOne
  <2>3. CASE p \in matched
    <3>1. p[1] \in MB /\ p[2] \in MR /\ p[1] \in KB /\ p[2] \in KR
      BY <1>1, <2>3 DEF MB, MR, Firsts, Seconds, MatchedInv
    <3>2. p[1] \notin Live(deleted[Kind]) /\ p[2] \notin Live(added[Kind])
      BY <1>1, <1>2, <3>1 DEF VectorsInv, ListedOnce
    <3>3. matched' = matched
      BY <2>1, <2>3 DEF Insert, Paired, Same
    <3>4. deleted' = deleted /\ added' = added
      <4>1. deleted = [x \in NodeKinds |-> deleted[x]] /\ added = [x \in NodeKinds |-> added[x]]
        BY <1>1 DEF VectorsInv
      <4>2. Erased(deleted[Kind], p[1]) = deleted[Kind] /\ Erased(added[Kind], p[2]) = added[Kind]
        BY <3>2, ErasedAbsent
      <4> QED
        BY <2>1, <4>1, <4>2 DEF Insert
    <3>5. VectorsInv' /\ MatchedInv' /\ ListedInv'
      BY <1>1, <1>2, <3>3, <3>4, VectorsFrame, MatchedFrame, ListedFrame
    <3> QED
      BY <1>3, <1>6, <2>2, <2>3, <3>3, <3>4, <3>5
  <2>4. CASE p \notin matched
    <3>1. p[1] \in Live(deleted[Kind]) /\ p[2] \in Live(added[Kind])
      BY <1>3, <2>2, <2>4
    <3>2. /\ matched' = matched \cup {p}
          /\ VectorsInv' /\ MatchedInv' /\ ListedOnce'
          /\ \A v \in KR : Dropped(v)' => Dropped(v)
      BY <1>1, <1>2, <2>1, <2>2, <3>1, InsertListed
    <3>3. ListedInv'
      BY <1>1, <1>2, <3>2 DEF ListedInv, KR
    <3>4. /\ deleted'[Kind] = Erased(deleted[Kind], p[1])
          /\ Live(deleted'[Kind]) = Live(deleted[Kind]) \ {p[1]}
          /\ Live(added'[Kind]) = Live(added[Kind]) \ {p[2]}
      BY <1>1, <2>1, ErasedVectors DEF Insert
    <3>5. deleted'[Kind].len = deleted[Kind].len - 1
      <4>1. IsVec(deleted[Kind])
        BY <1>1 DEF VectorsInv
      <4> QED
        BY <3>1, <3>4, <4>1, ErasedLive
    <3>6. Cardinality(mate \cap matched') = Cardinality(mate \cap matched) + 1
      <4>1. mate \cap matched' = (mate \cap matched) \cup {p} /\ p \notin mate \cap matched
        BY <2>2, <2>4, <3>2
      <4>2. IsFiniteSet(mate \cap matched)
        BY <1>3, FS_Subset
      <4> QED
        BY <4>1, <4>2, FS_AddElement
    <3>7. deleted'[Kind].len = Len(order) - Cardinality(mate \cap matched')
      <4>1. IsFiniteSet(mate \cap matched)
        BY <1>3, FS_Subset
      <4>2. Cardinality(mate \cap matched) \in Nat /\ Len(order) \in Nat
        BY <1>3, <4>1, FS_CardinalityType
      <4> QED
        BY <1>3, <3>5, <3>6, <4>2
    <3>8. \A q \in mate : q \notin matched' => /\ q[1] \in Live(deleted'[Kind])
                                               /\ q[2] \in Live(added'[Kind])
      <4> SUFFICES ASSUME NEW q \in mate, q \notin matched'
                   PROVE  q[1] \in Live(deleted'[Kind]) /\ q[2] \in Live(added'[Kind])
        OBVIOUS
      <4>1. q # p /\ q \notin matched
        BY <3>2
      <4>2. q[1] # p[1] /\ q[2] # p[2]
        BY <1>3, <2>2, <4>1 DEF OneToOne
      <4> QED
        BY <1>3, <3>4, <4>1, <4>2
    <3> QED
      BY <1>6, <2>2, <3>2, <3>3, <3>7, <3>8
  <2> QED
    BY <2>3, <2>4
<1> QED
  BY <1>7, <1>8

\* EndVisits, match, and steps that change nothing.
LEMMA OtherSteps ==
  ASSUME GraphInv, EndVisits \/ match \/ UNCHANGED vars
  PROVE  GraphInv'
<1>1. CASE EndVisits \/ match
  <2>1. /\ input \in Inputs /\ k \in 0..8 /\ phase \in {"mates", "next"}
        /\ phase' \in {"next", "done"}
        /\ UNCHANGED <<input, k, matched, deleted, added>>
        /\ VectorsInv /\ MatchedInv /\ ListedInv
    BY <1>1 DEF GraphInv, EndVisits, match
  <2>2. ListedOnce /\ \A v \in KR : ~Dropped(v)
    BY <2>1 DEF ListedInv, Doomed
  <2>3. VectorsInv' /\ MatchedInv' /\ ListedInv'
    BY <2>1, <2>2, VectorsFrame, MatchedFrame, ListedFrame
  <2> QED
    BY <2>1, <2>3 DEF GraphInv
<1>2. CASE UNCHANGED vars
  <2>1. UNCHANGED <<input, phase, k, matched, deleted, added, similar, mate, order,
                    i, j, iEnd, jEnd, refactored>>
    BY <1>2 DEF vars
  <2>2. VectorsInv' = VectorsInv /\ MatchedInv' = MatchedInv
    BY <2>1 DEF VectorsInv, MatchedInv, KB, KR, Base, Rev
  <2>3. ListedInv' = ListedInv
    BY <2>1 DEF ListedInv, ListedOnce, Dropped, Doomed, KB, KR, MB, MR, Base, Rev, Kind
  <2>4. /\ LinearInv' = LinearInv /\ ErasedInv' = ErasedInv /\ ErasedSome' = ErasedSome
        /\ Kind' = Kind
    BY <2>1 DEF LinearInv, ErasedInv, ErasedSome, MB, Kind
  <2>5. \A p \in mate : accepted(p[1], p[2])' <=> accepted(p[1], p[2])
    BY <2>1 DEF accepted, NamespaceMatcher, TypeSpecifierMatcher, FieldDeclMatcher,
                FuncDefMatcher, FuncSpecialMemberMatcher, ParentsAgree, Base, Rev, Kind
  <2>6. MatesInv => MatesInv'
    BY <2>1, <2>4, <2>5 DEF MatesInv
  <2> QED
    BY <2>1, <2>2, <2>3, <2>4, <2>6 DEF GraphInv
<1> QED
  BY <1>1, <1>2

\* Compare as a whole.
LEMMA CompareStep ==
  ASSUME GraphInv, Compare
  PROVE  GraphInv'
<1> DEFINE b == deleted[Kind].mem[i]
           r == added[Kind].mem[j]
<1>1. /\ phase = "linear" /\ LinearInv /\ VectorsInv /\ Kind \in NodeKinds
      /\ UNCHANGED <<input, k, similar, mate, order, iEnd, refactored>>
  BY KindsDistinct DEF GraphInv, Compare, Kind
<1>2. /\ i \in Int /\ iEnd \in Int /\ i <= iEnd /\ j \in Int /\ jEnd \in Int
  BY <1>1 DEF LinearInv, VectorsInv, IsVec
<1>3. CASE i > iEnd \/ (j > jEnd /\ i = iEnd)
  <2>1. j > jEnd
    BY <1>2, <1>3
  <2>2. phase' = "next" /\ UNCHANGED <<matched, deleted, added>>
    BY <1>3 DEF Compare
  <2> QED
    BY <1>1, <2>1, <2>2, EndCompareStep
<1>4. CASE ~(i > iEnd \/ (j > jEnd /\ i = iEnd)) /\ j > jEnd
  <2>1. /\ i' = i + 1 /\ j' = 1 /\ jEnd' = added[Kind].len
        /\ phase' = phase /\ UNCHANGED <<matched, deleted, added>>
    BY <1>4 DEF Compare
  <2>2. i < iEnd
    BY <1>2, <1>4
  <2> QED
    BY <1>1, <1>4, <2>1, <2>2, EndCompareStep
<1>5. CASE ~(i > iEnd \/ (j > jEnd /\ i = iEnd)) /\ ~(j > jEnd) /\ (b = Null \/ r = Null)
  <2>1. phase' = "crashed" /\ UNCHANGED <<matched, deleted, added>>
    BY <1>5 DEF Compare
  <2>2. j <= jEnd
    BY <1>2, <1>5
  <2> QED
    BY <1>1, <1>5, <2>1, <2>2, CrashStep
<1>6. CASE ~(i > iEnd \/ (j > jEnd /\ i = iEnd)) /\ ~(j > jEnd) /\ ~(b = Null \/ r = Null)
  <2>1. /\ IF isMatched(b, r) THEN Insert(b, r) ELSE UNCHANGED <<matched, deleted, added>>
        /\ j' = j + 1 /\ UNCHANGED <<phase, i, jEnd>>
    BY <1>6 DEF Compare
  <2>2. j <= jEnd
    BY <1>2, <1>6
  <2>3. CASE isMatched(b, r)
    BY <1>1, <1>6, <2>1, <2>2, <2>3, MatchStep
  <2>4. CASE ~isMatched(b, r)
    BY <1>1, <1>6, <2>1, <2>2, <2>4, NoMatchStep
  <2> QED
    BY <2>3, <2>4
<1> QED
  BY <1>3, <1>4, <1>5, <1>6

-----------------------------------------------------------------------------
(* The theorems. *)

\* GraphMatcher: the invariant holds for every pair of graphs.
THEOREM GraphInvariant == Spec => []GraphInv
<1>1. Init => GraphInv
  BY DEF Init, GraphInv
<1>2. GraphInv /\ [Next]_vars => GraphInv'
  BY TopDownStep, BottomUpStep, CompareStep, VisitStep, OtherSteps DEF Next
<1> QED
  BY <1>1, <1>2, PTL DEF Spec

\* topDownMatch and the matchers: the vertex of each signature is matched once or
\* still listed, on both sides, except for revision enums that the loop over the
\* enums takes off the list before it reads a moved-from slot.
THEOREM EachNodeOnceAlways == Spec => []EachNodeOnce
<1>1. GraphInv => EachNodeOnce
  <2> SUFFICES ASSUME GraphInv, phase # "topdown" PROVE EachNodeOnce
    BY DEF EachNodeOnce
  <2>1. input \in Inputs /\ VectorsInv /\ MatchedInv /\ ListedInv /\ ListedOnce
    BY DEF GraphInv, ListedInv
  <2> DEFINE D == UNION {Live(deleted[x]) : x \in NodeKinds}
             A == UNION {Live(added[x]) : x \in NodeKinds}
  <2>2. \A v : v \in D <=> v \in KB /\ v \in Live(deleted[Base(v).kind])
    BY <2>1, Keys DEF VectorsInv
  <2>3. \A v : v \in A <=> v \in KR /\ v \in Live(added[Rev(v).kind])
    BY <2>1, Keys DEF VectorsInv
  <2>4. MB \subseteq KB /\ MR \subseteq KR
    BY <2>1 DEF MatchedInv, MB, MR, Firsts, Seconds
  <2> HIDE DEF D, A
  <2>5. MB \cap D = {} /\ MB \cup D = KB
    BY <2>1, <2>2, <2>4 DEF ListedOnce
  <2>6. MR \cap A = {} /\ MR \cup A \subseteq KR
    BY <2>1, <2>3, <2>4 DEF ListedOnce
  <2>7. \A v \in KR \ (MR \cup A) : /\ Rev(v).kind = "ENUM" /\ Kind = "ENUM"
                                    /\ phase \in {"linear", "crashed"}
    BY <2>1, <2>3 DEF ListedInv, Dropped, Doomed
  <2> QED
    BY <2>1, <2>5, <2>6, <2>7
    DEF EachNodeOnce, MatchedInv, MB, MR, KB, KR, D, A, Firsts, Seconds
<1> QED
  BY <1>1, GraphInvariant, PTL

\* The matchers that call Boost: a pair it mated and the matcher accepts is left
\* out only at the end of the list, by as many places as pairs were matched.
THEOREM TailOnly == Spec => []SkippedOnlyAtTail
<1>1. GraphInv => SkippedOnlyAtTail
  <2> SUFFICES ASSUME GraphInv, phase = "mates", i > Bound,
                      NEW p \in mate, p \notin matched, accepted(p[1], p[2])
               PROVE  \E q \in 1..Len(order) :
                        /\ order[q] = p[1]
                        /\ q > Len(order) - Cardinality(mate \cap matched)
    BY DEF SkippedOnlyAtTail
  <2>1. MatesInv
    BY DEF GraphInv
  <2>2. PICK q \in 1..Len(order) : order[q] = p[1]
    BY <2>1 DEF MatesInv
  <2>3. q \notin 1..(i - 1) /\ i \in Nat
    BY <2>1, <2>2 DEF MatesInv
  <2>4. i > Len(order) - Cardinality(mate \cap matched)
    BY <2>1 DEF MatesInv, Bound
  <2>5. Cardinality(mate \cap matched) \in Nat /\ Len(order) \in Nat
    <3>1. IsFiniteSet(mate \cap matched) /\ order \in Seq(Nat)
      BY <2>1, FS_Subset DEF MatesInv
    <3> QED
      BY <3>1, FS_CardinalityType
  <2> QED
    BY <2>2, <2>3, <2>4, <2>5
<1> QED
  BY <1>1, GraphInvariant, PTL

\* The nested loops: a moved-from slot is read only while matching enums, after a
\* pair was erased, when the revision has another.
THEOREM StaleOnlyInEnums == Spec => []StaleSlotOnlyInEnums
<1>1. GraphInv => StaleSlotOnlyInEnums
  BY DEF GraphInv, StaleSlotOnlyInEnums, ErasedInv
<1> QED
  BY <1>1, GraphInvariant, PTL

=============================================================================
