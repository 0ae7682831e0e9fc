------------------------- MODULE BlockHandlersProofs -------------------------
(***************************************************************************)
(* Proof that the handlers account for every conflict block, for every     *)
(* merge and whatever the heuristics answer: none is stored twice, and     *)
(* between two handlers each is stored or still in the list.               *)
(*                                                                         *)
(* The invariant follows a block through a handler: in a file not reached  *)
(* yet nothing is resolved or stored, in the current one the resolved      *)
(* blocks are those of the results, in the files behind it those of the    *)
(* store.                                                                  *)
(*                                                                         *)
(* The second part is about what the text handler says of a block.  It     *)
(* needs that nothing stored before that handler began rests on the base,  *)
(* that a block is still the one that was found, and that without split    *)
(* conflicts both styles number the conflicts alike.                       *)
(*                                                                         *)
(* The third part is about the lines themselves: a resolution that claims  *)
(* to hold both sides has the lines of each in their order, a base mark    *)
(* gets into one only if the first file has no block, and two lists of     *)
(* inclusions are refused only for cause.  It rests on what Kept, Unique,  *)
(* isSubSequence and topologicalSort give for every list, and on an        *)
(* invariant that says why WithBase stays right as the list of files       *)
(* shrinks.                                                                *)
(***************************************************************************)
EXTENDS BlockHandlers, FiniteSetTheorems, NaturalsInduction, TLAPS

-----------------------------------------------------------------------------
(* The inductive invariant. *)

IsList(s) == Len(s) \in Nat /\ s = [n \in 1..Len(s) |-> s[n]]

\* The numbers of the blocks of a file of the list, of its resolved blocks, of the
\* results in a list.
Numbers(file) == {file.blocks[x].c.index : x \in DOMAIN file.blocks}
ResolvedOf(file) ==
  {file.blocks[x].c.index : x \in {y \in DOMAIN file.blocks : file.blocks[y].resolved}}
Indices(list) == {list[n].index : n \in DOMAIN list}
Distinct(list) == \A m, n \in DOMAIN list : list[m].index = list[n].index => m = n

\* The numbers of the blocks a file had to begin with.
AllBlocks == [id \in Ids |-> DOMAIN Original(id)]

IsFile(file, all) ==
  /\ file = [id |-> file.id, blocks |-> file.blocks, resolved |-> file.resolved]
  /\ file.id \in DOMAIN all
  /\ IsList(file.blocks)
  /\ \A x \in DOMAIN file.blocks :
       /\ file.blocks[x] = [c |-> file.blocks[x].c, resolved |-> file.blocks[x].resolved]
       /\ file.blocks[x].resolved \in BOOLEAN
       /\ file.blocks[x].c.index \in all[file.id]
  /\ \A x, y \in DOMAIN file.blocks :
       file.blocks[x].c.index = file.blocks[y].c.index => x = y

FilesInv ==
  /\ IsList(files)
  /\ \A m \in DOMAIN files : IsFile(files[m], AllBlocks)
  /\ \A m, n \in DOMAIN files : files[m].id = files[n].id => m = n

StoreInv ==
  /\ DOMAIN store = Ids
  /\ \A id \in Ids :
       /\ IsList(store[id]) /\ Distinct(store[id])
       /\ Indices(store[id]) \subseteq AllBlocks[id]
       /\ \A x \in AllBlocks[id] \ Indices(store[id]) :
            \E m \in DOMAIN files : files[m].id = id /\ x \in Numbers(files[m])

\* A file the handler has not reached, and one it is through with.
Untouched(file, stored) ==
  ResolvedOf(file) = {} /\ Numbers(file) \cap Indices(stored[file.id]) = {}
Finished(file, stored) ==
  /\ Numbers(file) \cap Indices(stored[file.id]) = ResolvedOf(file)
  /\ file.resolved = AllResolved(file)

ProgressInv ==
  IF phase # "blocks" THEN \A m \in DOMAIN files : Untouched(files[m], store)
  ELSE /\ f \in 1..(Len(files) + 1) /\ b \in Nat \ {0}
       /\ \A m \in DOMAIN files : /\ m < f => Finished(files[m], store)
                                  /\ m > f => Untouched(files[m], store)
       /\ f <= Len(files) =>
            /\ b <= Len(files[f].blocks) + 1
            /\ Numbers(files[f]) \cap Indices(store[files[f].id]) = {}
            /\ \A x \in DOMAIN files[f].blocks : x >= b => ~files[f].blocks[x].resolved
            /\ Indices(results) = ResolvedOf(files[f])

BlocksInv ==
  /\ input \in Inputs
  /\ phase \in {"begin", "blocks", "done"}
  /\ FilesInv /\ StoreInv /\ ProgressInv
  /\ IsList(results) /\ Distinct(results)

-----------------------------------------------------------------------------
(* Lists. *)

LEMMA ListDomain ==
  ASSUME NEW s, IsList(s)
  PROVE  DOMAIN s = 1..Len(s) /\ Len(s) \in Nat
<1>1. DOMAIN [n \in 1..Len(s) |-> s[n]] = 1..Len(s)
  OBVIOUS
<1> QED
  BY <1>1 DEF IsList

LEMMA FunctionList ==
  ASSUME NEW n \in Nat, NEW s, s = [x \in 1..n |-> s[x]]
  PROVE  IsList(s) /\ Len(s) = n
<1> DEFINE S == {s[x] : x \in 1..n}
<1>1. s \in [1..n -> S]
  OBVIOUS
<1>2. s \in Seq(S) /\ Len(s) = n
  <2> HIDE DEF S
  <2> QED
    BY <1>1
<1> QED
  BY <1>2 DEF IsList

\* What Append does.
LEMMA AppendList ==
  ASSUME NEW s, IsList(s), NEW e
  PROVE  LET t == Append(s, e)
         IN  /\ IsList(t) /\ Len(t) = Len(s) + 1
             /\ DOMAIN s = 1..Len(s) /\ DOMAIN t = 1..(Len(s) + 1)
             /\ \A n \in 1..Len(s) : t[n] = s[n]
             /\ t[Len(s) + 1] = e
<1> DEFINE S == {s[n] : n \in DOMAIN s} \cup {e}
           t == Append(s, e)
<1>1. DOMAIN s = 1..Len(s) /\ Len(s) \in Nat
  BY ListDomain
<1>2. s \in [1..Len(s) -> S] /\ e \in S
  BY <1>1 DEF IsList
<1> HIDE DEF S
<1>3. s \in Seq(S)
  BY <1>1, <1>2
<1>4. t \in Seq(S) /\ Len(t) = Len(s) + 1
  BY <1>2, <1>3
<1>5. /\ \A n \in 1..Len(s) : t[n] = s[n]
      /\ t[Len(s) + 1] = e
  BY <1>2, <1>3
<1>6. IsList(t) /\ DOMAIN t = 1..(Len(s) + 1)
  <2> HIDE DEF t
  <2>1. t \in [1..Len(t) -> S] /\ Len(t) \in Nat
    BY <1>4
  <2> QED
    BY <1>1, <1>4, <2>1 DEF IsList
<1> QED
  BY <1>1, <1>4, <1>5, <1>6

\* What \o does.
LEMMA ConcatList ==
  ASSUME NEW s, IsList(s), NEW u, IsList(u)
  PROVE  LET t == s \o u
         IN  /\ IsList(t) /\ Len(t) = Len(s) + Len(u)
             /\ \A n \in 1..Len(s) : t[n] = s[n]
             /\ \A n \in 1..Len(u) : t[Len(s) + n] = u[n]
<1> DEFINE S == {s[n] : n \in DOMAIN s} \cup {u[n] : n \in DOMAIN u}
           t == s \o u
<1>1. DOMAIN s = 1..Len(s) /\ Len(s) \in Nat /\ DOMAIN u = 1..Len(u) /\ Len(u) \in Nat
  BY ListDomain
<1>2. s \in [1..Len(s) -> S] /\ u \in [1..Len(u) -> S]
  BY <1>1 DEF IsList
<1> HIDE DEF S
<1>3. s \in Seq(S) /\ u \in Seq(S)
  BY <1>1, <1>2
<1>4. t \in Seq(S) /\ Len(t) = Len(s) + Len(u)
  BY <1>3
<1>5. \A n \in 1..Len(s) : t[n] = s[n]
  BY <1>1, <1>3
<1>6. \A n \in 1..Len(u) : t[Len(s) + n] = u[n]
  BY <1>1, <1>3
<1>7. IsList(t)
  <2> HIDE DEF t
  <2>1. t \in [1..Len(t) -> S] /\ Len(t) \in Nat
    BY <1>4
  <2> QED
    BY <2>1 DEF IsList
<1> QED
  BY <1>4, <1>5, <1>6, <1>7

\* The numbers in a list that grows.
LEMMA AppendIndices ==
  ASSUME NEW s, IsList(s), Distinct(s), NEW e, e.index \notin Indices(s)
  PROVE  /\ IsList(Append(s, e)) /\ Distinct(Append(s, e))
         /\ Indices(Append(s, e)) = Indices(s) \cup {e.index}
<1>1. PICK t : t = Append(s, e)
  OBVIOUS
<1>2. /\ IsList(t) /\ Len(t) = Len(s) + 1
      /\ DOMAIN s = 1..Len(s) /\ DOMAIN t = 1..(Len(s) + 1)
      /\ \A n \in 1..Len(s) : t[n] = s[n]
      /\ t[Len(s) + 1] = e
  BY <1>1, AppendList
<1>3. Len(s) \in Nat
  BY ListDomain
<1>4. \A n \in DOMAIN t : (n \in DOMAIN s /\ t[n] = s[n]) \/ (n = Len(s) + 1 /\ t[n] = e)
  BY <1>2, <1>3
<1>5. DOMAIN s \subseteq DOMAIN t /\ Len(s) + 1 \in DOMAIN t
  BY <1>2, <1>3
<1>6. \A n \in DOMAIN s : s[n].index \in Indices(s)
  BY DEF Indices
<1>7. Distinct(t)
  BY <1>4, <1>6 DEF Distinct
<1>8. \A k : k \in Indices(t) <=> k \in Indices(s) \/ k = e.index
  BY <1>2, <1>4, <1>5 DEF Indices
<1> QED
  BY <1>1, <1>2, <1>7, <1>8

LEMMA ConcatIndices ==
  ASSUME NEW s, IsList(s), Distinct(s), NEW u, IsList(u), Distinct(u),
         Indices(s) \cap Indices(u) = {}
  PROVE  /\ IsList(s \o u) /\ Distinct(s \o u)
         /\ Indices(s \o u) = Indices(s) \cup Indices(u)
<1>1. PICK t : t = s \o u
  OBVIOUS
<1>2. /\ IsList(t) /\ Len(t) = Len(s) + Len(u)
      /\ \A n \in 1..Len(s) : t[n] = s[n]
      /\ \A n \in 1..Len(u) : t[Len(s) + n] = u[n]
  BY <1>1, ConcatList
<1>3. /\ DOMAIN s = 1..Len(s) /\ Len(s) \in Nat
      /\ DOMAIN u = 1..Len(u) /\ Len(u) \in Nat
      /\ DOMAIN t = 1..Len(t)
  BY <1>2, ListDomain
<1>4. \A n \in DOMAIN t : \/ n \in DOMAIN s /\ t[n] = s[n]
                          \/ n - Len(s) \in DOMAIN u /\ t[n] = u[n - Len(s)]
  <2> SUFFICES ASSUME NEW n \in DOMAIN t, n \notin DOMAIN s
               PROVE  n - Len(s) \in DOMAIN u /\ t[n] = u[n - Len(s)]
    BY <1>2, <1>3
  <2>1. n - Len(s) \in DOMAIN u /\ n = Len(s) + (n - Len(s))
    BY <1>2, <1>3
  <2> QED
    BY <1>2, <1>3, <2>1
<1>5. /\ \A n \in DOMAIN s : n \in DOMAIN t /\ t[n] = s[n]
      /\ \A n \in DOMAIN u : Len(s) + n \in DOMAIN t /\ t[Len(s) + n] = u[n]
  BY <1>2, <1>3
<1>6. /\ \A n \in DOMAIN s : s[n].index \in Indices(s)
      /\ \A n \in DOMAIN u : u[n].index \in Indices(u)
  BY DEF Indices
<1>7. Distinct(t)
  <2> SUFFICES ASSUME NEW m \in DOMAIN t, NEW n \in DOMAIN t, t[m].index = t[n].index
               PROVE  m = n
    BY DEF Distinct
  <2>1. CASE m \in DOMAIN s /\ t[m] = s[m] /\ n \in DOMAIN s /\ t[n] = s[n]
    BY <2>1 DEF Distinct
  <2>2. CASE /\ m - Len(s) \in DOMAIN u /\ t[m] = u[m - Len(s)]
             /\ n - Len(s) \in DOMAIN u /\ t[n] = u[n - Len(s)]
    <3>1. m - Len(s) = n - Len(s)
      BY <2>2 DEF Distinct
    <3> QED
      BY <1>3, <3>1
  <2> QED
    BY <1>4, <1>6, <2>1, <2>2
<1>8. ASSUME NEW k
      PROVE  k \in Indices(t) <=> k \in Indices(s) \/ k \in Indices(u)
  <2>1. ASSUME k \in Indices(t)
        PROVE  k \in Indices(s) \/ k \in Indices(u)
    <3>1. PICK n \in DOMAIN t : t[n].index = k
      BY <2>1 DEF Indices
    <3>2. CASE n \in DOMAIN s /\ t[n] = s[n]
      BY <1>6, <3>1, <3>2
    <3>3. CASE n - Len(s) \in DOMAIN u /\ t[n] = u[n - Len(s)]
      BY <1>6, <3>1, <3>3
    <3> QED
      BY <1>4, <3>2, <3>3
  <2>2. ASSUME k \in Indices(s)
        PROVE  k \in Indices(t)
    BY <1>5, <2>2 DEF Indices
  <2>3. ASSUME k \in Indices(u)
        PROVE  k \in Indices(t)
    <3>1. PICK n \in DOMAIN u : u[n].index = k
      BY <2>3 DEF Indices
    <3>2. Len(s) + n \in DOMAIN t /\ t[Len(s) + n].index = k
      BY <1>5, <3>1
    <3> QED
      BY <3>2 DEF Indices
  <2> QED
    BY <2>1, <2>2, <2>3
<1> QED
  BY <1>1, <1>2, <1>7, <1>8

\* Position enumerates a finite set of numbers: each of them once.
LEMMA Positions ==
  ASSUME NEW P, IsFiniteSet(P), P \subseteq Nat
  PROVE  /\ Cardinality(P) \in Nat
         /\ \A n \in 1..Cardinality(P) : Position(P, n) \in P
         /\ \A m, n \in 1..Cardinality(P) : Position(P, m) = Position(P, n) => m = n
         /\ \A p \in P : \E n \in 1..Cardinality(P) : Position(P, n) = p
         /\ \A m, n \in 1..Cardinality(P) : m < n => Position(P, m) < Position(P, n)
<1> DEFINE N == Cardinality(P)
           below(p) == {q \in P : q <= p}
           rank == [p \in P |-> Cardinality(below(p))]
<1>1. N \in Nat
  BY FS_CardinalityType
<1>2. ASSUME NEW p \in P
      PROVE  /\ IsFiniteSet(below(p)) /\ Cardinality(below(p)) \in 1..N
             /\ below(p) \subseteq P /\ p \in below(p)
  <2>1. below(p) \subseteq P /\ p \in below(p)
    OBVIOUS
  <2> HIDE DEF below
  <2>2. IsFiniteSet(below(p)) /\ Cardinality(below(p)) <= N
    BY <2>1, FS_Subset
  <2>3. Cardinality(below(p)) \in Nat /\ Cardinality(below(p)) # 0
    BY <2>1, <2>2, FS_CardinalityType, FS_EmptySet
  <2> QED
    BY <1>1, <2>1, <2>2, <2>3
<1>3. ASSUME NEW p \in P, NEW q \in P, Cardinality(below(p)) = Cardinality(below(q)), p < q
      PROVE  FALSE
  <2>0. p \in Nat /\ q \in Nat /\ P \subseteq Nat
    OBVIOUS
  <2>3. \A x \in P : x <= p => x <= q
    BY <1>3, <2>0
  <2>1. below(p) \subseteq below(q) /\ q \in below(q) /\ q \notin below(p)
    <3>1. q <= q /\ ~(q <= p)
      BY <1>3, <2>0
    <3> QED
      BY <2>3, <3>1, Zenon
  <2> HIDE DEF below
  <2>2. below(p) = below(q)
    BY <1>2, <1>3, <2>1, FS_Subset
  <2> QED
    BY <2>1, <2>2
<1>4. ASSUME NEW p \in P, NEW q \in P, Cardinality(below(p)) = Cardinality(below(q))
      PROVE  p = q
  <2>1. p \in Nat /\ q \in Nat
    OBVIOUS
  <2> HIDE DEF below
  <2> QED
    BY <1>3, <1>4, <2>1
<1> HIDE DEF below
<1>5. rank \in Injection(P, 1..N)
  BY <1>2, <1>4 DEF Injection, IsInjective
<1>6. IsFiniteSet(1..N) /\ Cardinality(1..N) = N
  BY <1>1, FS_Interval
<1>7. rank \in Surjection(P, 1..N)
  BY <1>5, <1>6, FS_Injection
<1>8. \A n \in 1..N : \E p \in P : Cardinality(below(p)) = n
  BY <1>7 DEF Surjection
<1>9. \A n \in 1..N : Position(P, n) \in P /\ Cardinality(below(Position(P, n))) = n
  BY <1>8 DEF Position, below
<1>10. \A p \in P : Cardinality(below(p)) \in 1..N /\ Position(P, Cardinality(below(p))) = p
  BY <1>2, <1>4, <1>9
<1>11. ASSUME NEW m \in 1..N, NEW n \in 1..N, m < n
       PROVE  Position(P, m) < Position(P, n)
  <2>1. PICK p \in P : p = Position(P, m)
    BY <1>9
  <2>2. PICK q \in P : q = Position(P, n)
    BY <1>9
  <2>3. SUFFICES ASSUME q <= p
                 PROVE  FALSE
    BY <2>1, <2>2
  <2>4. \A x \in P : x <= q => x <= p
    BY <2>3
  <2>5. below(q) \subseteq below(p)
    BY <2>4 DEF below
  <2>6. Cardinality(below(q)) = n /\ Cardinality(below(p)) = m /\ IsFiniteSet(below(p))
    BY <1>2, <1>9, <2>1, <2>2
  <2>7. Cardinality(below(q)) <= Cardinality(below(p))
    BY <2>5, <2>6, FS_Subset
  <2> QED
    BY <1>11, <2>6, <2>7
<1> QED
  BY <1>1, <1>9, <1>10, <1>11

\* tidyUp: what is left of a list are its unresolved items, each once.
LEMMA UnresolvedList ==
  ASSUME NEW s, IsList(s)
  PROVE  LET u == UnresolvedOf(s)
         IN  /\ IsList(u)
             /\ \A n \in DOMAIN u : \E p \in DOMAIN s : ~s[p].resolved /\ u[n] = s[p]
             /\ \A p \in DOMAIN s : ~s[p].resolved => \E n \in DOMAIN u : u[n] = s[p]
             /\ \A m, n \in DOMAIN u :
                  (\A p, q \in DOMAIN s : u[m] = s[p] /\ u[n] = s[q] => p = q) => m = n
<1> DEFINE P == {p \in DOMAIN s : ~s[p].resolved}
           u == UnresolvedOf(s)
<1>1. DOMAIN s = 1..Len(s) /\ Len(s) \in Nat
  BY ListDomain
<1>2. IsFiniteSet(P) /\ P \subseteq Nat
  <2>1. IsFiniteSet(DOMAIN s)
    BY <1>1, FS_Interval
  <2> QED
    BY <1>1, <2>1, FS_Subset
<1>3. /\ u = [n \in 1..Cardinality(P) |-> s[Position(P, n)]]
  BY DEF UnresolvedOf, Kept
<1>4. \A p \in P : p \in DOMAIN s /\ ~s[p].resolved
  OBVIOUS
<1>5. \A p \in DOMAIN s : ~s[p].resolved => p \in P
  OBVIOUS
<1> HIDE DEF P, u
<1>6. /\ Cardinality(P) \in Nat
      /\ \A n \in 1..Cardinality(P) : Position(P, n) \in P
      /\ \A m, n \in 1..Cardinality(P) : Position(P, m) = Position(P, n) => m = n
      /\ \A p \in P : \E n \in 1..Cardinality(P) : Position(P, n) = p
  BY <1>2, Positions
<1>7. /\ DOMAIN u = 1..Cardinality(P)
      /\ \A n \in 1..Cardinality(P) : u[n] = s[Position(P, n)]
      /\ u = [n \in 1..Cardinality(P) |-> u[n]]
  BY <1>3
<1>8. IsList(u)
  BY <1>6, <1>7, FunctionList
<1>9. \A n \in DOMAIN u : \E p \in DOMAIN s : ~s[p].resolved /\ u[n] = s[p]
  BY <1>4, <1>6, <1>7
<1>10. \A p \in DOMAIN s : ~s[p].resolved => \E n \in DOMAIN u : u[n] = s[p]
  BY <1>5, <1>6, <1>7
<1>11. \A m, n \in DOMAIN u :
         (\A p, q \in DOMAIN s : u[m] = s[p] /\ u[n] = s[q] => p = q) => m = n
  BY <1>4, <1>6, <1>7
<1> QED
  BY <1>8, <1>9, <1>10, <1>11 DEF u

-----------------------------------------------------------------------------
(* The start of a merge. *)

\* The parts in which the sides differ are finitely many.
LEMMA PartsFinite ==
  ASSUME input \in Inputs, NEW id \in Ids
  PROVE  IsFiniteSet(Parts(File(id)))
<1> DEFINE regions == File(id).regions
           all == {{r} \X DOMAIN regions[r] : r \in DOMAIN regions}
<1>1. /\ Len(regions) \in Nat /\ DOMAIN regions = 1..Len(regions)
      /\ \A r \in DOMAIN regions : /\ Len(regions[r]) \in Nat
                                   /\ DOMAIN regions[r] = 1..Len(regions[r])
  BY InputAssumption DEF File, Ids
<1>2. IsFiniteSet(all)
  <2>1. IsFiniteSet(DOMAIN regions)
    BY <1>1, FS_Interval
  <2>2. PICK g : g = [r \in DOMAIN regions |-> {r} \X DOMAIN regions[r]]
    OBVIOUS
  <2>3. g \in Surjection(DOMAIN regions, all)
    BY <2>2 DEF Surjection
  <2> HIDE DEF regions, all
  <2> QED
    BY <2>1, <2>3, FS_Surjection
<1>3. \A S \in all : IsFiniteSet(S)
  <2> SUFFICES ASSUME NEW r \in DOMAIN regions
               PROVE  IsFiniteSet({r} \X DOMAIN regions[r])
    OBVIOUS
  <2>0. Len(regions[r]) \in Nat /\ DOMAIN regions[r] = 1..Len(regions[r])
    BY <1>1
  <2>3. ASSUME NEW n \in Nat PROVE IsFiniteSet(1..n)
    BY FS_Interval
  <2>1. IsFiniteSet(DOMAIN regions[r])
    BY <2>0, <2>3
  <2>2. IsFiniteSet({r})
    BY FS_Singleton
  <2> QED
    BY <2>1, <2>2, FS_Product
<1>4. Parts(File(id)) \subseteq UNION all
  BY DEF Parts
<1> HIDE DEF all
<1>5. IsFiniteSet(UNION all)
  BY <1>2, <1>3, FS_UNION
<1> QED
  BY <1>4, <1>5, FS_Subset

\* The blocks of a file are numbered from 1, in either style.
LEMMA OriginalNumbers ==
  ASSUME input \in Inputs, NEW id \in Ids
  PROVE  /\ IsList(Original(id))
         /\ \A x \in DOMAIN Original(id) : Original(id)[x].index = x
<1>1. ASSUME NEW n \in Nat, NEW s, DOMAIN s = 1..n
      PROVE  IsList(Numbered(s)) /\ \A x \in DOMAIN Numbered(s) : Numbered(s)[x].index = x
  <2>1. PICK t : t = Numbered(s)
    OBVIOUS
  <2>2. /\ t = [x \in 1..n |-> t[x]]
        /\ \A x \in DOMAIN t : t[x].index = x
    BY <1>1, <2>1 DEF Numbered
  <2>3. IsList(t)
    BY <2>2, FunctionList
  <2> QED
    BY <2>1, <2>2, <2>3
<1> DEFINE regions == File(id).regions
<1>2. /\ Len(regions) \in Nat /\ DOMAIN regions = 1..Len(regions)
      /\ \A r \in DOMAIN regions : /\ Len(regions[r]) \in Nat
                                   /\ DOMAIN regions[r] = 1..Len(regions[r])
  BY InputAssumption DEF File, Ids
<1>3. CASE input.style = "diff3"
  <2>1. Original(id) = Diff3(File(id))
    BY <1>3 DEF Original, constructConflictFile
  <2>2. PICK s : /\ DOMAIN s = DOMAIN regions /\ Diff3(File(id)) = Numbered(s)
    BY DEF Diff3
  <2> QED
    BY <1>1, <1>2, <2>1, <2>2
<1>4. CASE input.style # "diff3"
  <2>1. Original(id) = Merge(File(id))
    BY <1>4 DEF Original, constructConflictFile
  <2>6. Cardinality(Parts(File(id))) \in Nat
    BY PartsFinite, FS_CardinalityType
  <2>7. PICK s : DOMAIN s = 1..Cardinality(Parts(File(id))) /\ Merge(File(id)) = Numbered(s)
    BY DEF Merge
  <2> QED
    BY <1>1, <2>1, <2>6, <2>7
<1> QED
  BY <1>3, <1>4

LEMMA InitBlocks ==
  ASSUME Init
  PROVE  BlocksInv
<1>1. /\ input \in Inputs /\ phase = "begin" /\ results = <<>>
      /\ store = [id \in Ids |-> <<>>]
      /\ files = [id \in Ids |-> [id |-> id, resolved |-> FALSE,
                                  blocks |-> Unresolved(Original(id))]]
  BY DEF Init, Original
<1>2. Len(input.files) \in Nat /\ Ids = 1..Len(input.files)
  BY <1>1, InputAssumption DEF Ids
<1>3. IsList(files) /\ DOMAIN files = Ids
  <2>1. files = [x \in 1..Len(input.files) |-> files[x]]
    BY <1>1, <1>2
  <2> QED
    BY <1>1, <1>2, <2>1, FunctionList
<1>4. ASSUME NEW id \in Ids
      PROVE  /\ IsFile(files[id], AllBlocks) /\ files[id].id = id
             /\ ResolvedOf(files[id]) = {}
             /\ AllBlocks[id] = Numbers(files[id])
  <2>1. PICK blocks : blocks = Unresolved(Original(id))
    OBVIOUS
  <2>2. files[id] = [id |-> id, resolved |-> FALSE, blocks |-> blocks]
    BY <1>1, <2>1
  <2>3. /\ IsList(Original(id))
        /\ \A x \in DOMAIN Original(id) : Original(id)[x].index = x
    BY <1>1, OriginalNumbers
  <2>4. /\ DOMAIN Original(id) = 1..Len(Original(id)) /\ Len(Original(id)) \in Nat
    BY <2>3, ListDomain
  <2>5. /\ DOMAIN blocks = DOMAIN Original(id)
        /\ \A x \in DOMAIN blocks : blocks[x] = [c |-> Original(id)[x], resolved |-> FALSE]
        /\ blocks = [x \in 1..Len(Original(id)) |-> blocks[x]]
    BY <2>1, <2>4 DEF Unresolved
  <2>6. IsList(blocks)
    BY <2>4, <2>5, FunctionList
  <2>7. ASSUME NEW x \in DOMAIN blocks
        PROVE  /\ blocks[x] = [c |-> blocks[x].c, resolved |-> blocks[x].resolved]
               /\ blocks[x].c.index = x /\ blocks[x].resolved = FALSE
               /\ x \in DOMAIN Original(id)
    <3>1. blocks[x] = [c |-> Original(id)[x], resolved |-> FALSE] /\ x \in DOMAIN Original(id)
      BY <2>5
    <3>2. Original(id)[x].index = x
      BY <2>3, <3>1
    <3>3. blocks[x].c = Original(id)[x] /\ blocks[x].resolved = FALSE
      BY <3>1
    <3> QED
      BY <3>1, <3>2, <3>3
  <2>11. PICK file : file = files[id]
    OBVIOUS
  <2>12. file.id = id /\ file.blocks = blocks /\ file.resolved = FALSE
         /\ file = [id |-> file.id, blocks |-> file.blocks, resolved |-> file.resolved]
    BY <2>2, <2>11
  <2>13. \A x \in DOMAIN file.blocks :
           /\ file.blocks[x] = [c |-> file.blocks[x].c, resolved |-> file.blocks[x].resolved]
           /\ file.blocks[x].c.index = x /\ file.blocks[x].resolved = FALSE
           /\ x \in AllBlocks[file.id]
    BY <2>7, <2>12, Zenon DEF AllBlocks
  <2>14. file.id \in DOMAIN AllBlocks /\ IsList(file.blocks)
    BY <2>6, <2>12 DEF AllBlocks
  <2>8. IsFile(file, AllBlocks)
    BY <2>12, <2>13, <2>14 DEF IsFile
  <2>9. ResolvedOf(file) = {}
    BY <2>7, <2>12 DEF ResolvedOf
  <2>10. DOMAIN Original(id) = Numbers(file)
    <3>1. \A x \in DOMAIN file.blocks : file.blocks[x].c.index = x
      BY <2>13
    <3>2. DOMAIN file.blocks = DOMAIN Original(id)
      BY <2>5, <2>12
    <3>3. \A x \in Numbers(file) : x \in DOMAIN Original(id)
      BY <3>1, <3>2, Zenon DEF Numbers
    <3>4. \A x \in DOMAIN Original(id) : x \in Numbers(file)
      BY <3>1, <3>2, Zenon DEF Numbers
    <3> QED
      BY <3>3, <3>4
  <2> QED
    BY <2>8, <2>9, <2>10, <2>11, <2>12 DEF AllBlocks
<1>5. ASSUME NEW id \in Ids
      PROVE  store[id] = <<>> /\ IsList(store[id]) /\ Distinct(store[id])
             /\ Indices(store[id]) = {}
  BY <1>1 DEF IsList, Distinct, Indices
<1>6. FilesInv
  BY <1>3, <1>4 DEF FilesInv
<1>7. StoreInv
  BY <1>1, <1>3, <1>4, <1>5 DEF StoreInv
<1>8. ProgressInv
  BY <1>1, <1>3, <1>4, <1>5 DEF ProgressInv, Untouched
<1>9. IsList(results) /\ Distinct(results)
  BY <1>1 DEF IsList, Distinct
<1> QED
  BY <1>1, <1>6, <1>7, <1>8, <1>9 DEF BlocksInv

-----------------------------------------------------------------------------
(* The steps of the handlers. *)

\* The merge stays what it is.
LEMMA SameBlocks ==
  ASSUME input' = input
  PROVE  Ids' = Ids /\ AllBlocks' = AllBlocks
<1> QED
  BY DEF Ids, AllBlocks, Original, constructConflictFile, File

\* No block is resolved: so says the set, so say the flags.
LEMMA NoneResolved ==
  ASSUME NEW file, ResolvedOf(file) = {}
  PROVE  \A x \in DOMAIN file.blocks : ~file.blocks[x].resolved
<1> QED
  BY DEF ResolvedOf

LEMMA BeginStep ==
  ASSUME BlocksInv, beginHandler
  PROVE  BlocksInv'
<1>1. /\ phase = "begin" /\ phase' = "blocks" /\ f' = 1 /\ b' = 1 /\ results' = <<>>
      /\ input' = input /\ files' = files /\ store' = store
  BY DEF beginHandler
<1>2. Ids' = Ids /\ AllBlocks' = AllBlocks
  BY <1>1, SameBlocks
<1>3. FilesInv' /\ StoreInv'
  BY <1>1, <1>2 DEF BlocksInv, FilesInv, StoreInv
<1>4. IsList(results)' /\ Distinct(results)' /\ Indices(results)' = {}
  BY <1>1 DEF IsList, Distinct, Indices
<1>5. \A m \in DOMAIN files : Untouched(files[m], store)
  BY <1>1 DEF BlocksInv, ProgressInv
<1>6. DOMAIN files = 1..Len(files) /\ Len(files) \in Nat
  BY ListDomain DEF BlocksInv, FilesInv
<1>7. ASSUME 1 <= Len(files)
      PROVE  /\ 1 <= Len(files[1].blocks) + 1
             /\ Numbers(files[1]) \cap Indices(store[files[1].id]) = {}
             /\ \A x \in DOMAIN files[1].blocks : ~files[1].blocks[x].resolved
             /\ {} = ResolvedOf(files[1])
  <2>1. 1 \in DOMAIN files
    BY <1>6, <1>7
  <2>2. Len(files[1].blocks) \in Nat
    BY <2>1, ListDomain DEF BlocksInv, FilesInv, IsFile
  <2> QED
    BY <1>5, <2>1, <2>2, NoneResolved DEF Untouched
<1>8. ProgressInv'
  <2>1. /\ phase' = "blocks"
        /\ f' \in 1..(Len(files') + 1) /\ b' \in Nat \ {0}
        /\ \A m \in DOMAIN files' : ~(m < f')
    BY <1>1, <1>6
  <2>2. \A m \in DOMAIN files' : Untouched(files'[m], store')
    BY <1>1, <1>5
  <2>3. f' <= Len(files') =>
          /\ b' <= Len(files'[f'].blocks) + 1
          /\ Numbers(files'[f']) \cap Indices(store'[files'[f'].id]) = {}
          /\ \A x \in DOMAIN files'[f'].blocks : x >= b' => ~files'[f'].blocks[x].resolved
          /\ Indices(results') = ResolvedOf(files'[f'])
    BY <1>1, <1>4, <1>7
  <2> QED
    BY <2>1, <2>2, <2>3 DEF ProgressInv
<1> QED
  BY <1>1, <1>3, <1>4, <1>8 DEF BlocksInv

\* A block that is resolved: its file has the same blocks, and one more is resolved.
LEMMA Resolve ==
  ASSUME NEW all, NEW file, IsFile(file, all), NEW x \in DOMAIN file.blocks,
         NEW g, g = [file EXCEPT !.blocks = [file.blocks EXCEPT ![x] =
                                               [file.blocks[x] EXCEPT !.resolved = TRUE]]]
  PROVE  /\ IsFile(g, all) /\ g.id = file.id /\ Len(g.blocks) = Len(file.blocks)
         /\ DOMAIN g.blocks = DOMAIN file.blocks
         /\ Numbers(g) = Numbers(file)
         /\ ResolvedOf(g) = ResolvedOf(file) \cup {file.blocks[x].c.index}
         /\ \A y \in DOMAIN file.blocks :
              y # x => (g.blocks[y].resolved <=> file.blocks[y].resolved)
<1>1. PICK blocks : blocks = [file.blocks EXCEPT ![x] =
                                [file.blocks[x] EXCEPT !.resolved = TRUE]]
  OBVIOUS
<1>2. file = [id |-> file.id, blocks |-> file.blocks, resolved |-> file.resolved]
  BY DEF IsFile
<1>3. g = [id |-> file.id, blocks |-> blocks, resolved |-> file.resolved]
  BY <1>1, <1>2
<1>4. /\ g.id = file.id /\ g.blocks = blocks /\ g.resolved = file.resolved
      /\ g = [id |-> g.id, blocks |-> g.blocks, resolved |-> g.resolved]
  <2>1. g.id = file.id /\ g.blocks = blocks /\ g.resolved = file.resolved
    BY <1>3
  <2> QED
    BY <1>3, <2>1
<1>5. DOMAIN file.blocks = 1..Len(file.blocks) /\ Len(file.blocks) \in Nat
  BY ListDomain DEF IsFile
<1>6. DOMAIN blocks = DOMAIN file.blocks
      /\ blocks = [y \in 1..Len(file.blocks) |-> blocks[y]]
  BY <1>1, <1>5
<1>7. IsList(blocks) /\ Len(blocks) = Len(file.blocks)
  BY <1>5, <1>6, FunctionList
<1>8. blocks[x] = [c |-> file.blocks[x].c, resolved |-> TRUE]
  <2>1. file.blocks[x] = [c |-> file.blocks[x].c, resolved |-> file.blocks[x].resolved]
    BY DEF IsFile
  <2>2. blocks[x] = [file.blocks[x] EXCEPT !.resolved = TRUE]
    BY <1>1
  <2> QED
    BY <2>1, <2>2
<1>9. blocks[x].c = file.blocks[x].c /\ blocks[x].resolved = TRUE
      /\ blocks[x] = [c |-> blocks[x].c, resolved |-> blocks[x].resolved]
  BY <1>8
<1>10. \A y \in DOMAIN file.blocks : y # x => blocks[y] = file.blocks[y]
  BY <1>1
<1>11. \A y \in DOMAIN file.blocks :
         /\ blocks[y] = [c |-> blocks[y].c, resolved |-> blocks[y].resolved]
         /\ blocks[y].resolved \in BOOLEAN
         /\ blocks[y].c = file.blocks[y].c
         /\ y # x => (blocks[y].resolved <=> file.blocks[y].resolved)
  <2> SUFFICES ASSUME NEW y \in DOMAIN file.blocks
               PROVE  /\ blocks[y] = [c |-> blocks[y].c, resolved |-> blocks[y].resolved]
                      /\ blocks[y].resolved \in BOOLEAN
                      /\ blocks[y].c = file.blocks[y].c
                      /\ y # x => (blocks[y].resolved <=> file.blocks[y].resolved)
    OBVIOUS
  <2>1. CASE y = x
    BY <1>9, <2>1
  <2>2. CASE y # x
    BY <1>10, <2>2 DEF IsFile
  <2> QED
    BY <2>1, <2>2
<1>12. \A y \in DOMAIN file.blocks : blocks[y].c.index = file.blocks[y].c.index
  BY <1>11
<1>13. IsFile(g, all)
  <2>1. \A y \in DOMAIN g.blocks :
          /\ g.blocks[y] = [c |-> g.blocks[y].c, resolved |-> g.blocks[y].resolved]
          /\ g.blocks[y].resolved \in BOOLEAN
          /\ g.blocks[y].c.index \in all[g.id]
    <3>1. \A y \in DOMAIN blocks : blocks[y].c.index \in all[file.id]
      BY <1>6, <1>12 DEF IsFile
    <3>2. \A y \in DOMAIN blocks :
            /\ blocks[y] = [c |-> blocks[y].c, resolved |-> blocks[y].resolved]
            /\ blocks[y].resolved \in BOOLEAN
            /\ blocks[y].c.index \in all[file.id]
      BY <1>6, <1>11, <3>1
    <3> QED
      BY <1>4, <3>2, Zenon
  <2>2. \A y, z \in DOMAIN g.blocks : g.blocks[y].c.index = g.blocks[z].c.index => y = z
    <3>1. \A y, z \in DOMAIN blocks : blocks[y].c.index = blocks[z].c.index => y = z
      BY <1>6, <1>12 DEF IsFile
    <3>2. g.blocks = blocks
      BY <1>4
    <3> QED
      BY <3>1, <3>2, Zenon
  <2>3. g.id \in DOMAIN all /\ IsList(g.blocks)
    BY <1>4, <1>7 DEF IsFile
  <2> QED
    BY <1>4, <2>1, <2>2, <2>3 DEF IsFile
<1>14. Numbers(g) = Numbers(file)
  <2>1. {blocks[y].c.index : y \in DOMAIN blocks} =
          {file.blocks[y].c.index : y \in DOMAIN file.blocks}
    BY <1>6, <1>12, Zenon
  <2> QED
    BY <1>4, <2>1 DEF Numbers
<1>15. ResolvedOf(g) = ResolvedOf(file) \cup {file.blocks[x].c.index}
  <2>1. \A n : n \in ResolvedOf(g) <=>
                 \E y \in DOMAIN blocks : blocks[y].resolved /\ blocks[y].c.index = n
    BY <1>4, Zenon DEF ResolvedOf
  <2>2. \A n : n \in ResolvedOf(file) <=>
                 \E y \in DOMAIN file.blocks : /\ file.blocks[y].resolved
                                               /\ file.blocks[y].c.index = n
    BY Zenon DEF ResolvedOf
  <2>3. \A n : (\E y \in DOMAIN blocks : blocks[y].resolved /\ blocks[y].c.index = n) <=>
               \/ n = file.blocks[x].c.index
               \/ \E y \in DOMAIN file.blocks : /\ file.blocks[y].resolved
                                                /\ file.blocks[y].c.index = n
    BY <1>6, <1>9, <1>11, <1>12
  <2> QED
    BY <2>1, <2>2, <2>3
<1> QED
  BY <1>4, <1>6, <1>7, <1>11, <1>13, <1>14, <1>15

LEMMA ResolveStep ==
  ASSUME BlocksInv, resolveBlock
  PROVE  BlocksInv'
<1>1. /\ phase = "blocks" /\ phase' = phase /\ f' = f /\ b' = b + 1
      /\ input' = input /\ store' = store
      /\ f <= Len(files) /\ b <= Len(files[f].blocks)
  BY DEF resolveBlock
<1>2. Ids' = Ids /\ AllBlocks' = AllBlocks
  BY <1>1, SameBlocks
<1>3. DOMAIN files = 1..Len(files) /\ Len(files) \in Nat
  BY ListDomain DEF BlocksInv, FilesInv
<1>4. PICK file : file = files[f]
  OBVIOUS
<1>5. /\ f \in DOMAIN files /\ b \in Nat \ {0}
      /\ \A m \in DOMAIN files : /\ m < f => Finished(files[m], store)
                                 /\ m > f => Untouched(files[m], store)
      /\ b <= Len(file.blocks)
      /\ Numbers(file) \cap Indices(store[file.id]) = {}
      /\ \A x \in DOMAIN file.blocks : x >= b => ~file.blocks[x].resolved
      /\ Indices(results) = ResolvedOf(file)
  BY <1>1, <1>3, <1>4 DEF BlocksInv, ProgressInv
<1>6. IsFile(file, AllBlocks)
  BY <1>4, <1>5 DEF BlocksInv, FilesInv
<1>7. DOMAIN file.blocks = 1..Len(file.blocks) /\ Len(file.blocks) \in Nat
  BY <1>6, ListDomain DEF IsFile
<1>8. b \in DOMAIN file.blocks /\ ~file.blocks[b].resolved
  BY <1>5, <1>7
<1>9. CASE files' = files /\ results' = results
  <2>1. FilesInv' /\ StoreInv' /\ IsList(results)' /\ Distinct(results)'
    BY <1>1, <1>2, <1>9 DEF BlocksInv, FilesInv, StoreInv
  <2>2. b + 1 \in Nat \ {0} /\ b + 1 <= Len(file.blocks) + 1
        /\ \A x \in DOMAIN file.blocks : x >= b + 1 => ~file.blocks[x].resolved
    BY <1>5, <1>7
  <2>3. ProgressInv'
    BY <1>1, <1>3, <1>4, <1>5, <1>9, <2>2 DEF ProgressInv
  <2> QED
    BY <1>1, <2>1, <2>3 DEF BlocksInv
<1>10. ASSUME NEW r,
              files' = [files EXCEPT ![f].blocks[b].resolved = TRUE],
              results' = Append(results, [index |-> file.blocks[b].c.index,
                                          code |-> r.code, desc |-> r.desc])
       PROVE  BlocksInv'
  <2>1. PICK g : g = [file EXCEPT !.blocks = [file.blocks EXCEPT ![b] =
                                                [file.blocks[b] EXCEPT !.resolved = TRUE]]]
    OBVIOUS
  <2>2. /\ IsFile(g, AllBlocks) /\ g.id = file.id /\ Len(g.blocks) = Len(file.blocks)
        /\ DOMAIN g.blocks = DOMAIN file.blocks
        /\ Numbers(g) = Numbers(file)
        /\ ResolvedOf(g) = ResolvedOf(file) \cup {file.blocks[b].c.index}
        /\ \A y \in DOMAIN file.blocks :
             y # b => (g.blocks[y].resolved <=> file.blocks[y].resolved)
    BY <1>6, <1>8, <2>1, Resolve
  <2>3. files' = [files EXCEPT ![f] = g]
    BY <1>4, <1>5, <1>10, <2>1
  <2>4. /\ DOMAIN files' = DOMAIN files /\ files'[f] = g
        /\ \A m \in DOMAIN files : m # f => files'[m] = files[m]
        /\ files' = [m \in 1..Len(files) |-> files'[m]]
    BY <1>3, <1>5, <2>3
  <2>5. IsList(files') /\ Len(files') = Len(files)
    BY <1>3, <2>4, FunctionList
  <2>6. \A m \in DOMAIN files : /\ files'[m].id = files[m].id
                                /\ Numbers(files'[m]) = Numbers(files[m])
                                /\ IsFile(files'[m], AllBlocks)
    BY <1>4, <2>2, <2>4 DEF BlocksInv, FilesInv
  <2>7. FilesInv'
    BY <1>2, <2>4, <2>5, <2>6 DEF BlocksInv, FilesInv
  <2>8. StoreInv'
    BY <1>1, <1>2, <2>4, <2>6 DEF BlocksInv, StoreInv
  <2>9. file.blocks[b].c.index \notin Indices(results)
    <3>1. \A y \in DOMAIN file.blocks :
            file.blocks[y].resolved => file.blocks[y].c.index # file.blocks[b].c.index
      BY <1>6, <1>8 DEF IsFile
    <3>2. file.blocks[b].c.index \notin ResolvedOf(file)
      BY <3>1, Zenon DEF ResolvedOf
    <3> QED
      BY <1>5, <3>2
  <2>10. /\ IsList(results') /\ Distinct(results')
         /\ Indices(results') = Indices(results) \cup {file.blocks[b].c.index}
    <3>1. PICK e : e = [index |-> file.blocks[b].c.index, code |-> r.code, desc |-> r.desc]
      OBVIOUS
    <3>2. e.index = file.blocks[b].c.index /\ results' = Append(results, e)
      BY <1>10, <3>1
    <3>3. IsList(results) /\ Distinct(results)
      BY DEF BlocksInv
    <3> QED
      BY <2>9, <3>2, <3>3, AppendIndices
  <2>11. b + 1 \in Nat \ {0} /\ b + 1 <= Len(g.blocks) + 1
         /\ \A x \in DOMAIN g.blocks : x >= b + 1 => ~g.blocks[x].resolved
    <3>1. \A x \in DOMAIN file.blocks : x >= b + 1 => x >= b /\ x # b
      BY <1>5, <1>7
    <3> QED
      BY <1>5, <1>7, <2>2, <3>1
  <2>12. ProgressInv'
    <3>1. /\ phase' = "blocks"
          /\ f' \in 1..(Len(files') + 1) /\ b' \in Nat \ {0}
      BY <1>1, <1>3, <1>5, <2>5, <2>11
    <3>2. \A m \in DOMAIN files' : /\ m < f' => Finished(files'[m], store')
                                   /\ m > f' => Untouched(files'[m], store')
      <4>1. \A m \in DOMAIN files : m < f \/ m > f => m # f
        BY <1>3, <1>5
      <4> QED
        BY <1>1, <1>5, <2>4, <4>1
    <3>3. /\ b' <= Len(files'[f'].blocks) + 1
          /\ Numbers(files'[f']) \cap Indices(store'[files'[f'].id]) = {}
          /\ \A x \in DOMAIN files'[f'].blocks : x >= b' => ~files'[f'].blocks[x].resolved
          /\ Indices(results') = ResolvedOf(files'[f'])
      BY <1>1, <1>5, <2>2, <2>4, <2>10, <2>11
    <3> QED
      BY <3>1, <3>2, <3>3 DEF ProgressInv
  <2> QED
    BY <1>1, <2>7, <2>8, <2>10, <2>12 DEF BlocksInv
<1>11. \/ files' = files /\ results' = results
       \/ \E r : /\ files' = [files EXCEPT ![f].blocks[b].resolved = TRUE]
                 /\ results' = Append(results, [index |-> file.blocks[b].c.index,
                                                code |-> r.code, desc |-> r.desc])
  BY <1>4, Zenon DEF resolveBlock
<1> QED
  BY <1>9, <1>10, <1>11

LEMMA FinishFileStep ==
  ASSUME BlocksInv, finishFile
  PROVE  BlocksInv'
<1>1. /\ phase = "blocks" /\ phase' = phase /\ f' = f + 1 /\ b' = 1 /\ results' = <<>>
      /\ input' = input
      /\ f <= Len(files) /\ b > Len(files[f].blocks)
  BY DEF finishFile
<1>2. Ids' = Ids /\ AllBlocks' = AllBlocks
  BY <1>1, SameBlocks
<1>3. DOMAIN files = 1..Len(files) /\ Len(files) \in Nat
  BY ListDomain DEF BlocksInv, FilesInv
<1>4. PICK file : file = files[f]
  OBVIOUS
<1>5. /\ f \in DOMAIN files
      /\ \A m \in DOMAIN files : /\ m < f => Finished(files[m], store)
                                 /\ m > f => Untouched(files[m], store)
      /\ Numbers(file) \cap Indices(store[file.id]) = {}
      /\ Indices(results) = ResolvedOf(file)
  BY <1>1, <1>3, <1>4 DEF BlocksInv, ProgressInv
<1>6. IsFile(file, AllBlocks)
  BY <1>4, <1>5 DEF BlocksInv, FilesInv
<1>7. ResolvedOf(file) \subseteq Numbers(file)
  BY DEF ResolvedOf, Numbers
<1>8. Numbers(file) \subseteq AllBlocks[file.id]
  BY <1>6 DEF IsFile, Numbers
<1>9. file.id \in Ids
  BY <1>6 DEF IsFile, AllBlocks
\* The file: only its flag changes.
<1>10. PICK g : g = [file EXCEPT !.resolved = AllResolved(file)]
  OBVIOUS
<1>11. /\ g.id = file.id /\ g.blocks = file.blocks /\ g.resolved = AllResolved(file)
       /\ g = [id |-> file.id, blocks |-> file.blocks, resolved |-> AllResolved(file)]
  BY <1>6, <1>10 DEF IsFile
<1>12. /\ IsFile(g, AllBlocks) /\ Numbers(g) = Numbers(file)
       /\ ResolvedOf(g) = ResolvedOf(file) /\ g.resolved = AllResolved(g)
  <2>1. g = [id |-> g.id, blocks |-> g.blocks, resolved |-> g.resolved]
    BY <1>11
  <2>2. g.id = file.id /\ g.blocks = file.blocks /\ g.resolved = AllResolved(file)
    BY <1>11
  <2>3. IsFile(g, AllBlocks)
    BY <1>6, <2>1, <2>2 DEF IsFile
  <2> QED
    BY <2>2, <2>3 DEF Numbers, ResolvedOf, AllResolved
<1>13. files' = [files EXCEPT ![f] = g]
  BY <1>4, <1>5, <1>10 DEF finishFile
<1>14. /\ DOMAIN files' = DOMAIN files /\ files'[f] = g
       /\ \A m \in DOMAIN files : m # f => files'[m] = files[m]
       /\ files' = [m \in 1..Len(files) |-> files'[m]]
  BY <1>3, <1>5, <1>13
<1>15. IsList(files') /\ Len(files') = Len(files)
  BY <1>3, <1>14, FunctionList
<1>16. \A m \in DOMAIN files : /\ files'[m].id = files[m].id
                               /\ Numbers(files'[m]) = Numbers(files[m])
                               /\ IsFile(files'[m], AllBlocks)
  BY <1>4, <1>11, <1>12, <1>14 DEF BlocksInv, FilesInv
<1>17. FilesInv'
  BY <1>2, <1>14, <1>15, <1>16 DEF BlocksInv, FilesInv
\* The store: it takes the results in, if there are any.
<1>18. /\ DOMAIN store = Ids
       /\ \A id \in Ids : /\ IsList(store[id]) /\ Distinct(store[id])
                          /\ Indices(store[id]) \subseteq AllBlocks[id]
                          /\ \A x \in AllBlocks[id] \ Indices(store[id]) :
                               \E m \in DOMAIN files : files[m].id = id /\ x \in Numbers(files[m])
  BY DEF BlocksInv, StoreInv
<1>19. /\ DOMAIN store' = Ids
       /\ \A id \in Ids : id # file.id => store'[id] = store[id]
       /\ IsList(store'[file.id]) /\ Distinct(store'[file.id])
       /\ Indices(store'[file.id]) = Indices(store[file.id]) \cup ResolvedOf(file)
  <2>1. CASE EverResolved(file)
    <3>1. store' = [store EXCEPT ![file.id] = store[file.id] \o results]
      BY <1>4, <2>1 DEF finishFile, marshalResolutionResult
    <3>2. /\ DOMAIN store' = Ids /\ store'[file.id] = store[file.id] \o results
          /\ \A id \in Ids : id # file.id => store'[id] = store[id]
      BY <1>9, <1>18, <3>1
    <3>3. IsList(results) /\ Distinct(results)
      BY DEF BlocksInv
    <3>4. IsList(store[file.id]) /\ Distinct(store[file.id])
      BY <1>9, <1>18
    <3>5. Indices(store[file.id]) \cap Indices(results) = {}
      BY <1>5, <1>7
    <3> QED
      BY <1>5, <3>2, <3>3, <3>4, <3>5, ConcatIndices
  <2>2. CASE ~EverResolved(file)
    <3>1. ResolvedOf(file) = {}
      BY <2>2 DEF EverResolved, ResolvedOf
    <3>2. store' = store
      BY <1>4, <2>2 DEF finishFile
    <3> QED
      BY <1>9, <1>18, <3>1, <3>2
  <2> QED
    BY <2>1, <2>2
<1>20. ASSUME NEW id \in Ids
       PROVE  /\ IsList(store'[id]) /\ Distinct(store'[id])
              /\ Indices(store'[id]) \subseteq AllBlocks[id]
              /\ Indices(store[id]) \subseteq Indices(store'[id])
  BY <1>7, <1>8, <1>18, <1>19
<1>21. ASSUME NEW id \in Ids, NEW x \in AllBlocks[id] \ Indices(store'[id])
       PROVE  \E m \in DOMAIN files' : files'[m].id = id /\ x \in Numbers(files'[m])
  <2>1. PICK m \in DOMAIN files : files[m].id = id /\ x \in Numbers(files[m])
    BY <1>18, <1>20
  <2> QED
    BY <1>14, <1>16, <2>1
<1>22. StoreInv'
  BY <1>2, <1>19, <1>20, <1>21 DEF StoreInv
\* The progress: this file is finished, the others are as they were.
<1>23. \A m \in DOMAIN files : m # f => files[m].id \in Ids /\ files[m].id # file.id
  BY <1>4, <1>5 DEF BlocksInv, FilesInv, IsFile, AllBlocks
<1>24. \A m \in DOMAIN files : m # f => store'[files'[m].id] = store[files[m].id]
  BY <1>14, <1>19, <1>23
<1>25. Finished(g, store')
  <2>1. Numbers(g) \cap Indices(store'[g.id]) = ResolvedOf(g)
    BY <1>5, <1>7, <1>11, <1>12, <1>19
  <2> QED
    BY <1>12, <2>1 DEF Finished
<1>26. \A m \in DOMAIN files :
         m # f => /\ Finished(files[m], store) => Finished(files'[m], store')
                  /\ Untouched(files[m], store) => Untouched(files'[m], store')
  BY <1>14, <1>24 DEF Finished, Untouched
<1>27. \A m \in DOMAIN files' : /\ m < f + 1 => Finished(files'[m], store')
                                /\ m > f => Untouched(files'[m], store')
  <2>1. \A m \in DOMAIN files : m < f + 1 => m = f \/ (m # f /\ m < f)
    BY <1>3, <1>5
  <2>2. \A m \in DOMAIN files : m > f => m # f
    BY <1>3, <1>5
  <2> QED
    BY <1>5, <1>14, <1>25, <1>26, <2>1, <2>2
<1>28. IsList(results)' /\ Distinct(results)' /\ Indices(results)' = {}
  BY <1>1 DEF IsList, Distinct, Indices
<1>29. ASSUME f + 1 <= Len(files)
       PROVE  /\ 1 <= Len(files'[f + 1].blocks) + 1
              /\ Numbers(files'[f + 1]) \cap Indices(store'[files'[f + 1].id]) = {}
              /\ \A x \in DOMAIN files'[f + 1].blocks : ~files'[f + 1].blocks[x].resolved
              /\ {} = ResolvedOf(files'[f + 1])
  <2>1. f + 1 \in DOMAIN files' /\ f + 1 > f
    BY <1>3, <1>5, <1>14, <1>29
  <2>2. Untouched(files'[f + 1], store')
    BY <1>27, <2>1
  <2>3. IsList(files'[f + 1].blocks)
    BY <1>14, <1>16, <2>1 DEF IsFile
  <2>4. Len(files'[f + 1].blocks) \in Nat
    BY <2>3, ListDomain
  <2> QED
    <3>1. /\ ResolvedOf(files'[f + 1]) = {}
          /\ Numbers(files'[f + 1]) \cap Indices(store'[files'[f + 1].id]) = {}
      BY <2>2, Zenon DEF Untouched
    <3>2. 1 <= Len(files'[f + 1].blocks) + 1
      BY <2>4
    <3> QED
      BY <3>1, <3>2, NoneResolved, Zenon
<1>30. ProgressInv'
  <2>1. /\ phase' = "blocks"
        /\ f' \in 1..(Len(files') + 1) /\ b' \in Nat \ {0}
    BY <1>1, <1>3, <1>5, <1>15
  <2>2. \A m \in DOMAIN files' : m > f + 1 => m > f
    BY <1>3, <1>5, <1>14
  <2>3. \A m \in DOMAIN files' : /\ m < f' => Finished(files'[m], store')
                                 /\ m > f' => Untouched(files'[m], store')
    BY <1>1, <1>27, <2>2
  <2>4. f' <= Len(files') =>
          /\ b' <= Len(files'[f'].blocks) + 1
          /\ Numbers(files'[f']) \cap Indices(store'[files'[f'].id]) = {}
          /\ \A x \in DOMAIN files'[f'].blocks : x >= b' => ~files'[f'].blocks[x].resolved
          /\ Indices(results') = ResolvedOf(files'[f'])
    BY <1>1, <1>15, <1>28, <1>29
  <2> QED
    BY <2>1, <2>3, <2>4 DEF ProgressInv
<1> QED
  BY <1>1, <1>17, <1>22, <1>28, <1>30 DEF BlocksInv

\* A file without its resolved blocks.
LEMMA TidyFile ==
  ASSUME NEW all, NEW file, IsFile(file, all), NEW g, g = tidyUpConflictBlocks(file)
  PROVE  /\ IsFile(g, all) /\ g.id = file.id
         /\ ResolvedOf(g) = {} /\ Numbers(g) = Numbers(file) \ ResolvedOf(file)
<1>1. PICK blocks : blocks = UnresolvedOf(file.blocks)
  OBVIOUS
<1>2. file = [id |-> file.id, blocks |-> file.blocks, resolved |-> file.resolved]
  BY DEF IsFile
<1>3. g = [id |-> file.id, blocks |-> blocks, resolved |-> file.resolved]
  BY <1>1, <1>2 DEF tidyUpConflictBlocks
<1>4. g.id = file.id /\ g.blocks = blocks /\ g.resolved = file.resolved
  BY <1>3
<1>5. g = [id |-> g.id, blocks |-> g.blocks, resolved |-> g.resolved]
  BY <1>3, <1>4
<1>6. /\ IsList(blocks)
      /\ \A n \in DOMAIN blocks :
           \E p \in DOMAIN file.blocks : ~file.blocks[p].resolved /\ blocks[n] = file.blocks[p]
      /\ \A p \in DOMAIN file.blocks :
           ~file.blocks[p].resolved => \E n \in DOMAIN blocks : blocks[n] = file.blocks[p]
      /\ \A m, n \in DOMAIN blocks :
           (\A p, q \in DOMAIN file.blocks :
              blocks[m] = file.blocks[p] /\ blocks[n] = file.blocks[q] => p = q) => m = n
  BY <1>1, UnresolvedList DEF IsFile
<1>7. \A p, q \in DOMAIN file.blocks :
        file.blocks[p].c.index = file.blocks[q].c.index => p = q
  BY DEF IsFile
<1>8. \A m, n \in DOMAIN blocks : blocks[m].c.index = blocks[n].c.index => m = n
  <2> SUFFICES ASSUME NEW m \in DOMAIN blocks, NEW n \in DOMAIN blocks,
                      blocks[m].c.index = blocks[n].c.index
               PROVE  m = n
    OBVIOUS
  <2>1. \A p, q \in DOMAIN file.blocks :
          blocks[m] = file.blocks[p] /\ blocks[n] = file.blocks[q] => p = q
    BY <1>7
  <2> QED
    BY <1>6, <2>1
<1>9. \A n \in DOMAIN blocks :
        /\ blocks[n] = [c |-> blocks[n].c, resolved |-> blocks[n].resolved]
        /\ blocks[n].resolved \in BOOLEAN
        /\ ~blocks[n].resolved
        /\ blocks[n].c.index \in all[file.id]
  <2> SUFFICES ASSUME NEW n \in DOMAIN blocks
               PROVE  /\ blocks[n] = [c |-> blocks[n].c, resolved |-> blocks[n].resolved]
                      /\ blocks[n].resolved \in BOOLEAN
                      /\ ~blocks[n].resolved
                      /\ blocks[n].c.index \in all[file.id]
    OBVIOUS
  <2>1. PICK p \in DOMAIN file.blocks : ~file.blocks[p].resolved /\ blocks[n] = file.blocks[p]
    BY <1>6
  <2>2. /\ file.blocks[p] = [c |-> file.blocks[p].c, resolved |-> file.blocks[p].resolved]
        /\ file.blocks[p].resolved \in BOOLEAN
        /\ file.blocks[p].c.index \in all[file.id]
    BY DEF IsFile
  <2> QED
    BY <2>1, <2>2
<1>10. g.id \in DOMAIN all
  BY <1>4 DEF IsFile
<1>11. IsFile(g, all)
  <2>1. g.id = file.id /\ g.blocks = blocks
    BY <1>4
  <2> QED
    BY <1>5, <1>6, <1>8, <1>9, <1>10, <2>1 DEF IsFile
<1>12. ResolvedOf(g) = {}
  BY <1>4, <1>9 DEF ResolvedOf
<1>13. ASSUME NEW k
       PROVE  k \in Numbers(g) <=> k \in Numbers(file) /\ k \notin ResolvedOf(file)
  <2>1. ASSUME k \in Numbers(g)
        PROVE  k \in Numbers(file) /\ k \notin ResolvedOf(file)
    <3>1. PICK n \in DOMAIN blocks : blocks[n].c.index = k
      BY <1>4, <2>1 DEF Numbers
    <3>2. PICK p \in DOMAIN file.blocks : ~file.blocks[p].resolved /\ blocks[n] = file.blocks[p]
      BY <1>6
    <3>3. file.blocks[p].c.index = k
      BY <3>1, <3>2
    <3>4. k \in Numbers(file)
      BY <3>3 DEF Numbers
    <3>5. \A q \in DOMAIN file.blocks : file.blocks[q].resolved => file.blocks[q].c.index # k
      BY <1>7, <3>2, <3>3
    <3>6. k \notin ResolvedOf(file)
      BY <3>5 DEF ResolvedOf
    <3> QED
      BY <3>4, <3>6
  <2>2. ASSUME k \in Numbers(file), k \notin ResolvedOf(file)
        PROVE  k \in Numbers(g)
    <3>1. PICK p \in DOMAIN file.blocks : file.blocks[p].c.index = k
      BY <2>2 DEF Numbers
    <3>2. ~file.blocks[p].resolved
      BY <2>2, <3>1 DEF ResolvedOf
    <3>3. PICK n \in DOMAIN blocks : blocks[n] = file.blocks[p]
      BY <1>6, <3>2
    <3>4. blocks[n].c.index = k
      BY <3>1, <3>3
    <3> QED
      BY <1>4, <3>4 DEF Numbers
  <2> QED
    BY <2>1, <2>2
<1> QED
  BY <1>4, <1>11, <1>12, <1>13

LEMMA FinishHandlerStep ==
  ASSUME BlocksInv, finishHandler
  PROVE  BlocksInv'
<1>1. /\ phase = "blocks" /\ phase' \in {"begin", "done"}
      /\ input' = input /\ store' = store /\ results' = results
      /\ f > Len(files)
      /\ files' = IF \E i \in DOMAIN files : EverResolved(files[i])
                  THEN tidyUpConflictFiles ELSE files
  BY DEF finishHandler
<1>2. Ids' = Ids /\ AllBlocks' = AllBlocks
  BY <1>1, SameBlocks
<1>3. DOMAIN files = 1..Len(files) /\ Len(files) \in Nat
  BY ListDomain DEF BlocksInv, FilesInv
<1>4. \A m \in DOMAIN files : Finished(files[m], store) /\ IsFile(files[m], AllBlocks)
  <2>1. f \in 1..(Len(files) + 1)
    BY <1>1 DEF BlocksInv, ProgressInv
  <2>2. \A m \in DOMAIN files : m < f
    BY <1>1, <1>3, <2>1
  <2> QED
    BY <1>1, <2>2 DEF BlocksInv, ProgressInv, FilesInv
<1>5. IsList(results)' /\ Distinct(results)'
  BY <1>1 DEF BlocksInv
<1>6. CASE ~\E i \in DOMAIN files : EverResolved(files[i])
  <2>1. files' = files
    BY <1>1, <1>6
  <2>2. \A m \in DOMAIN files : ResolvedOf(files[m]) = {}
    BY <1>6 DEF EverResolved, ResolvedOf
  <2>3. FilesInv' /\ StoreInv'
    BY <1>1, <1>2, <2>1 DEF BlocksInv, FilesInv, StoreInv
  <2>4. \A m \in DOMAIN files : Untouched(files[m], store)
    BY <1>4, <2>2 DEF Untouched, Finished
  <2>5. ProgressInv'
    BY <1>1, <2>1, <2>4 DEF ProgressInv
  <2> QED
    BY <1>1, <1>5, <2>3, <2>5 DEF BlocksInv
<1>7. CASE \E i \in DOMAIN files : EverResolved(files[i])
  <2>1. PICK kept : kept = UnresolvedOf(files)
    OBVIOUS
  <2>2. /\ IsList(kept)
        /\ \A n \in DOMAIN kept : \E p \in DOMAIN files : ~files[p].resolved /\ kept[n] = files[p]
        /\ \A p \in DOMAIN files : ~files[p].resolved => \E n \in DOMAIN kept : kept[n] = files[p]
        /\ \A m, n \in DOMAIN kept :
             (\A p, q \in DOMAIN files : kept[m] = files[p] /\ kept[n] = files[q] => p = q) => m = n
    BY <2>1, UnresolvedList DEF BlocksInv, FilesInv
  <2>3. DOMAIN kept = 1..Len(kept) /\ Len(kept) \in Nat
    BY <2>2, ListDomain
  <2>4. files' = [i \in DOMAIN kept |-> tidyUpConflictBlocks(kept[i])]
    BY <1>1, <1>7, <2>1 DEF tidyUpConflictFiles
  <2>5. /\ DOMAIN files' = DOMAIN kept
        /\ \A n \in DOMAIN kept : files'[n] = tidyUpConflictBlocks(kept[n])
        /\ files' = [n \in 1..Len(kept) |-> files'[n]]
    BY <2>3, <2>4
  <2>6. IsList(files')
    BY <2>3, <2>5, FunctionList
  <2>7. ASSUME NEW n \in DOMAIN kept
        PROVE  /\ IsFile(files'[n], AllBlocks) /\ files'[n].id = kept[n].id
               /\ Untouched(files'[n], store)
               /\ Numbers(files'[n]) = Numbers(kept[n]) \ Indices(store[kept[n].id])
    <3>1. IsFile(kept[n], AllBlocks) /\ Finished(kept[n], store)
      BY <1>4, <2>2
    <3>2. /\ IsFile(files'[n], AllBlocks) /\ files'[n].id = kept[n].id
          /\ ResolvedOf(files'[n]) = {}
          /\ Numbers(files'[n]) = Numbers(kept[n]) \ ResolvedOf(kept[n])
      BY <2>5, <3>1, TidyFile
    <3>3. Numbers(files'[n]) \cap Indices(store[kept[n].id]) = {}
      BY <3>1, <3>2 DEF Finished
    <3>4. Numbers(files'[n]) = Numbers(kept[n]) \ Indices(store[kept[n].id])
      BY <3>1, <3>2 DEF Finished
    <3> QED
      BY <3>2, <3>3, <3>4 DEF Untouched
  <2>8. \A m, n \in DOMAIN kept : kept[m].id = kept[n].id => m = n
    <3> SUFFICES ASSUME NEW m \in DOMAIN kept, NEW n \in DOMAIN kept, kept[m].id = kept[n].id
                 PROVE  m = n
      OBVIOUS
    <3>1. \A p, q \in DOMAIN files : kept[m] = files[p] /\ kept[n] = files[q] => p = q
      BY DEF BlocksInv, FilesInv
    <3> QED
      BY <2>2, <3>1
  <2>9. FilesInv'
    BY <1>2, <2>5, <2>6, <2>7, <2>8 DEF FilesInv
  <2>10. ASSUME NEW id \in Ids, NEW x \in AllBlocks[id] \ Indices(store[id])
         PROVE  \E n \in DOMAIN files' : files'[n].id = id /\ x \in Numbers(files'[n])
    <3>1. PICK m \in DOMAIN files : files[m].id = id /\ x \in Numbers(files[m])
      BY DEF BlocksInv, StoreInv
    <3>2. ~files[m].resolved
      <4>1. x \notin ResolvedOf(files[m])
        BY <1>4, <3>1 DEF Finished
      <4>2. ~AllResolved(files[m])
        BY <3>1, <4>1 DEF AllResolved, Numbers, ResolvedOf
      <4> QED
        BY <1>4, <4>2 DEF Finished
    <3>3. PICK n \in DOMAIN kept : kept[n] = files[m]
      BY <2>2, <3>2
    <3> QED
      BY <2>5, <2>7, <3>1, <3>3
  <2>11. StoreInv'
    BY <1>1, <1>2, <2>10 DEF BlocksInv, StoreInv
  <2>12. ProgressInv'
    BY <1>1, <2>5, <2>7 DEF ProgressInv
  <2> QED
    BY <1>1, <1>5, <2>9, <2>11, <2>12 DEF BlocksInv
<1> QED
  BY <1>6, <1>7

-----------------------------------------------------------------------------
(* The invariant, and what it says. *)

LEMMA BlocksStep ==
  ASSUME BlocksInv, [Next]_vars
  PROVE  BlocksInv'
<1>1. CASE beginHandler
  BY <1>1, BeginStep
<1>2. CASE resolveBlock
  BY <1>2, ResolveStep
<1>3. CASE finishFile
  BY <1>3, FinishFileStep
<1>4. CASE finishHandler
  BY <1>4, FinishHandlerStep
<1>5. CASE UNCHANGED vars
  <2>1. /\ input' = input /\ phase' = phase /\ files' = files /\ f' = f /\ b' = b
        /\ results' = results /\ store' = store
    BY <1>5 DEF vars
  <2>2. Ids' = Ids /\ AllBlocks' = AllBlocks
    BY <2>1, SameBlocks
  <2>3. FilesInv' /\ StoreInv'
    BY <2>1, <2>2 DEF BlocksInv, FilesInv, StoreInv
  <2>4. ProgressInv'
    BY <2>1 DEF BlocksInv, ProgressInv
  <2> QED
    BY <2>1, <2>3, <2>4 DEF BlocksInv
<1> QED
  BY <1>1, <1>2, <1>3, <1>4, <1>5 DEF Next

LEMMA AccountedByInv ==
  ASSUME BlocksInv
  PROVE  BlocksAccounted
<1> SUFFICES ASSUME NEW id \in Ids
             PROVE  /\ Distinct(store[id])
                    /\ phase # "blocks" =>
                         /\ Indices(store[id]) \cap Remaining(id) = {}
                         /\ Indices(store[id]) \cup Remaining(id) = AllBlocks[id]
  <2>1. ASSUME NEW id \in Ids
        PROVE  /\ {r.index : r \in ToSet(store[id])} = Indices(store[id])
               /\ AllBlocks[id] = DOMAIN Original(id)
    BY DEF ToSet, Indices, AllBlocks
  <2> QED
    BY <2>1 DEF BlocksAccounted, Distinct
<1>1. /\ Distinct(store[id]) /\ Indices(store[id]) \subseteq AllBlocks[id]
      /\ \A x \in AllBlocks[id] \ Indices(store[id]) :
           \E m \in DOMAIN files : files[m].id = id /\ x \in Numbers(files[m])
  BY DEF BlocksInv, StoreInv
<1>2. ASSUME phase # "blocks", NEW x
      PROVE  x \in Remaining(id) <=> x \in AllBlocks[id] /\ x \notin Indices(store[id])
  <2>1. \A m \in DOMAIN files : Untouched(files[m], store) /\ IsFile(files[m], AllBlocks)
    BY <1>2 DEF BlocksInv, ProgressInv, FilesInv
  <2>2. ASSUME NEW m \in DOMAIN files
        PROVE  Numbers(files[m]) =
                 {y.c.index : y \in {z \in ToSet(files[m].blocks) : ~z.resolved}}
    <3>1. \A y \in DOMAIN files[m].blocks : ~files[m].blocks[y].resolved
      BY <2>1, NoneResolved DEF Untouched
    <3> QED
      BY <3>1 DEF Numbers, ToSet
  <2>3. x \in Remaining(id) <=>
          \E m \in DOMAIN files : files[m].id = id /\ x \in Numbers(files[m])
    BY <2>2 DEF Remaining
  <2>4. ASSUME NEW m \in DOMAIN files, files[m].id = id, x \in Numbers(files[m])
        PROVE  x \in AllBlocks[id] /\ x \notin Indices(store[id])
    <3>1. x \notin Indices(store[id])
      BY <2>1, <2>4 DEF Untouched
    <3>2. PICK y \in DOMAIN files[m].blocks : files[m].blocks[y].c.index = x
      BY <2>4 DEF Numbers
    <3>3. files[m].blocks[y].c.index \in AllBlocks[files[m].id]
      BY <2>1 DEF IsFile
    <3> QED
      BY <2>4, <3>1, <3>2, <3>3
  <2> QED
    BY <1>1, <2>3, <2>4
<1> QED
  BY <1>1, <1>2

\* The blocks of a file in the list, the results and the store stay in step at every
\* point of a handler, for every merge and every answer of the heuristics
\* (StyleBasedHandler.cpp, TextBasedHandler.cpp, sa_utility.cpp).
THEOREM BlocksInvariant == Spec => []BlocksInv
<1>1. Init => BlocksInv
  BY InitBlocks
<1>2. BlocksInv /\ [Next]_vars => BlocksInv'
  BY BlocksStep
<1> QED
  BY <1>1, <1>2, PTL DEF Spec

\* No block is stored twice, and between two handlers every block of the merge is
\* either stored or in the list that the next handler gets: tidyUpConflictFiles drops
\* nothing that is not marshalled.
THEOREM BlocksAlwaysAccounted == Spec => []BlocksAccounted
<1>1. BlocksInv => BlocksAccounted
  BY AccountedByInv
<1> QED
  BY <1>1, BlocksInvariant, PTL

-----------------------------------------------------------------------------
(* What the text handler says of a block. *)

\* The blocks each file had to begin with, and the files whose conflicts are looked
\* up in the right place.
Originals == [id \in Ids |-> Original(id)]
AlignedIds == {id \in Ids : Aligned(id)}

\* The blocks of a file are as they were found.  A list of results was written by
\* the style handler.  What a list of results says is so.
Genuine(file, found) ==
  \A x \in DOMAIN file.blocks :
    file.blocks[x].c = found[file.id][file.blocks[x].c.index]
OnlyStyle(list) == \A n \in DOMAIN list : list[n].desc = "style"
AllDescribed(found, list) == \A n \in DOMAIN list : Described(found[list[n].index], list[n])

\* The lists under conflicts/ are replaced when the text handler begins: until then
\* nothing is stored that rests on them.
DescInv ==
  /\ \A m \in DOMAIN files : Genuine(files[m], Originals)
  /\ phase = "blocks" /\ f <= Len(files) /\ withBase => input.style = "diff3"
  /\ handler = "style" => OnlyStyle(results)
  /\ handler = "style" \/ phase = "begin" => \A id \in Ids : OnlyStyle(store[id])
  /\ \A id \in AlignedIds : AllDescribed(Originals[id], store[id])
  /\ phase = "blocks" /\ f <= Len(files) /\ files[f].id \in AlignedIds =>
       AllDescribed(Originals[files[f].id], results)

\* Flattening a list of one list gives that list.
LEMMA SingleFlatten ==
  ASSUME NEW s, s = [p \in 1..1 |-> s[p]]
  PROVE  FlattenSeq(s) = s[1]
<1>1. Len(s) = 1 /\ Len(s) # 0
  BY FunctionList
<1> DEFINE flatten == CHOOSE g : g = [i \in 1..Len(s) |-> IF i = 1 THEN s[i] ELSE g[i - 1] \o s[i]]
<1>2. FlattenSeq(s) = flatten[Len(s)]
  BY <1>1, Zenon DEF FlattenSeq
<1>3. PICK h : h = [i \in 1..1 |-> s[1]]
  OBVIOUS
<1>4. h = [i \in 1..Len(s) |-> IF i = 1 THEN s[i] ELSE h[i - 1] \o s[i]]
  BY <1>1, <1>3
<1>5. flatten = [i \in 1..Len(s) |-> IF i = 1 THEN s[i] ELSE flatten[i - 1] \o s[i]]
  BY <1>4, Zenon
<1> HIDE DEF flatten
<1>6. flatten[1] = s[1]
  BY <1>1, <1>5
<1> QED
  BY <1>1, <1>2, <1>6

LEMMA LeastNumber ==
  ASSUME NEW U, U \subseteq Nat, U # {}
  PROVE  \E x \in U : \A y \in U : x <= y
<1> DEFINE R == OpToRel(<, Nat)
<1>1. IsWellFoundedOn(R, Nat)
  BY NatLessThanWellFounded
<1>2. \A m, n \in Nat : m < n => <<m, n>> \in R
  BY DEF OpToRel
<1> HIDE DEF R
<1>3. PICK x \in U : \A y \in U : ~(<<y, x>> \in R)
  BY <1>1, WFMin
<1>4. ASSUME NEW y \in U
      PROVE  x <= y
  <2>1. x \in Nat /\ y \in Nat
    OBVIOUS
  <2>2. ~(y < x)
    BY <1>2, <1>3, <2>1
  <2> QED
    BY <2>1, <2>2
<1> QED
  BY <1>4

\* Induction over the numbers, for a set of them.
LEMMA SetInduction ==
  ASSUME NEW T, T \subseteq Nat, 0 \in T, \A n \in T : n + 1 \in T
  PROVE  T = Nat
<1> SUFFICES ASSUME T # Nat PROVE FALSE
  OBVIOUS
<1>1. PICK U : U = Nat \ T /\ U # {} /\ U \subseteq Nat
  OBVIOUS
<1>2. PICK x \in U : \A y \in U : x <= y
  BY <1>1, LeastNumber
<1>3. x \in Nat /\ x \notin T /\ x # 0
  BY <1>1
<1>4. x - 1 \in Nat /\ ~(x <= x - 1) /\ x = (x - 1) + 1
  BY <1>3
<1>5. x - 1 \in T
  BY <1>1, <1>2, <1>4
<1> QED
  BY <1>3, <1>4, <1>5

\* g follows the steps h from v for n steps.
Unrolled(g, n, v, h) == g[0] = v /\ \A i \in 1..n : g[i] = h[i][g[i - 1]]

\* What a recursive function over 0..n computes exists, if each value is in V.
LEMMA Recursion ==
  ASSUME NEW V, NEW v \in V, NEW h \in [Nat \ {0} -> [V -> V]]
  PROVE  \A n \in Nat : \E g \in [0..n -> V] : Unrolled(g, n, v, h)
<1> DEFINE Good(n, g) == Unrolled(g, n, v, h)
           T == {n \in Nat : \E g \in [0..n -> V] : Good(n, g)}
<1>1. 0 \in T
  <2>1. PICK g : g = [i \in 0..0 |-> v]
    OBVIOUS
  <2>2. g \in [0..0 -> V] /\ Good(0, g)
    BY <2>1 DEF Unrolled
  <2> QED
    BY <2>2
<1>2. ASSUME NEW n \in T
      PROVE  n + 1 \in T
  <2>1. PICK g \in [0..n -> V] : Good(n, g)
    OBVIOUS
  <2>2. n \in Nat /\ n \in 0..n /\ g[n] \in V /\ n + 1 \in Nat \ {0}
    OBVIOUS
  <2>3. h[n + 1][g[n]] \in V
    BY <2>2
  <2>4. PICK w \in V : w = h[n + 1][g[n]]
    BY <2>3
  <2>5. PICK k : k = [i \in 0..(n + 1) |-> IF i = n + 1 THEN w ELSE g[i]]
    OBVIOUS
  <2>6. \A i \in 0..(n + 1) : i # n + 1 => i \in 0..n
    BY <2>2
  <2>7. k \in [0..(n + 1) -> V]
    BY <2>5, <2>6
  <2>8. k[n + 1] = w /\ \A i \in 0..n : k[i] = g[i]
    BY <2>2, <2>5
  <2>9. Good(n + 1, k)
    <3>1. k[0] = v
      BY <2>1, <2>2, <2>8 DEF Unrolled
    <3>2. ASSUME NEW i \in 1..(n + 1)
          PROVE  k[i] = h[i][k[i - 1]]
      <4>1. CASE i = n + 1
        BY <2>2, <2>4, <2>8, <4>1
      <4>2. CASE i # n + 1
        <5>1. i \in 1..n /\ i \in 0..n /\ i - 1 \in 0..n
          BY <2>2, <4>2
        <5> QED
          BY <2>1, <2>8, <5>1 DEF Unrolled
      <4> QED
        BY <4>1, <4>2
    <3> QED
      BY <3>1, <3>2 DEF Unrolled
  <2> QED
    BY <2>2, <2>7, <2>9
<1>3. T = Nat
  <2>1. T \subseteq Nat
    OBVIOUS
  <2> HIDE DEF T
  <2> QED
    BY <1>1, <1>2, <2>1, SetInduction
<1> QED
  BY <1>3

\* FlattenSeq by what it is after each of its lists.
Flattening(s, g, V) ==
  /\ g \in [0..Len(s) -> V]
  /\ g[0] = <<>>
  /\ \A i \in 1..Len(s) : g[i] = g[i - 1] \o s[i]

LEMMA FlattenSteps ==
  ASSUME NEW X, NEW s \in Seq(Seq(X))
  PROVE  \E g : Flattening(s, g, Seq(X)) /\ g[Len(s)] = FlattenSeq(s)
<1>1. PICK V : V = Seq(X)
  OBVIOUS
<1>2. PICK n \in Nat : n = Len(s)
  OBVIOUS
<1>3. \A i \in 1..n : s[i] \in V
  BY <1>1, <1>2
<1>4. /\ <<>> \in V /\ \A x, y \in V : x \o y \in V
      /\ \A x \in V : <<>> \o x = x
  BY <1>1
<1>5. PICK h : h = [i \in Nat \ {0} |-> [x \in V |-> IF i \in 1..n THEN x \o s[i] ELSE x]]
  OBVIOUS
<1>6. h \in [Nat \ {0} -> [V -> V]]
  BY <1>3, <1>4, <1>5
<1>7. \A i \in 1..n : \A x \in V : h[i][x] = x \o s[i]
  <2>1. 1..n \subseteq Nat \ {0}
    OBVIOUS
  <2> QED
    BY <1>5, <2>1
<1>8. PICK g \in [0..n -> V] : g[0] = <<>> /\ \A i \in 1..n : g[i] = h[i][g[i - 1]]
  <2>1. PICK v \in V : v = <<>>
    BY <1>4
  <2>2. \E g \in [0..n -> V] : Unrolled(g, n, v, h)
    BY <1>6, Recursion
  <2> QED
    BY <2>1, <2>2 DEF Unrolled
<1>9. \A i \in 1..n : i - 1 \in 0..n /\ i \in 0..n /\ (i # 1 => i - 1 \in 1..n)
  OBVIOUS
<1>10. \A i \in 1..n : g[i] = g[i - 1] \o s[i] /\ g[i] \in V
  BY <1>7, <1>8, <1>9
<1>11. Flattening(s, g, V)
  BY <1>2, <1>8, <1>10 DEF Flattening
<1>12. CASE n = 0
  <2>1. FlattenSeq(s) = s
    BY <1>2, <1>12, Zenon DEF FlattenSeq
  <2>2. s = <<>>
    <3>1. s \in Seq(Seq(X)) /\ Len(s) = 0
      BY <1>2, <1>12
    <3>2. PICK Y : Y = Seq(X)
      OBVIOUS
    <3>3. s \in Seq(Y)
      BY <3>1, <3>2
    <3> QED
      BY <3>1, <3>3
  <2> QED
    BY <1>1, <1>2, <1>8, <1>11, <1>12, <2>1, <2>2
<1>13. CASE n # 0
  <2> DEFINE flatten == CHOOSE k : k = [i \in 1..Len(s) |-> IF i = 1 THEN s[i] ELSE k[i - 1] \o s[i]]
  <2>1. FlattenSeq(s) = flatten[Len(s)]
    BY <1>2, <1>13, Zenon DEF FlattenSeq
  <2>2. PICK k : k = [i \in 1..n |-> g[i]]
    OBVIOUS
  <2>3. \A i \in 1..n : k[i] = IF i = 1 THEN s[i] ELSE k[i - 1] \o s[i]
    <3> SUFFICES ASSUME NEW i \in 1..n
                 PROVE  k[i] = IF i = 1 THEN s[i] ELSE k[i - 1] \o s[i]
      OBVIOUS
    <3>1. CASE i = 1
      <4>1. 1 \in 1..n /\ 1 - 1 = 0
        BY <3>1
      <4>3. g[1] = g[0] \o s[1] /\ s[1] \in V
        BY <1>3, <1>10, <4>1
      <4>2. g[1] = <<>> \o s[1]
        BY <1>8, <4>3
      <4> QED
        BY <1>4, <2>2, <3>1, <4>2, <4>3
    <3>2. CASE i # 1
      BY <1>9, <1>10, <2>2, <3>2
    <3> QED
      BY <3>1, <3>2
  <2>4. k = [i \in 1..Len(s) |-> IF i = 1 THEN s[i] ELSE k[i - 1] \o s[i]]
    BY <1>2, <2>2, <2>3
  <2>5. flatten = [i \in 1..Len(s) |-> IF i = 1 THEN s[i] ELSE flatten[i - 1] \o s[i]]
    BY <2>4, Zenon
  <2> HIDE DEF flatten
  <2>6. \A i \in 1..n : flatten[i] = IF i = 1 THEN s[i] ELSE flatten[i - 1] \o s[i]
    BY <1>2, <2>5
  <2> DEFINE T == {i \in Nat : i + 1 \in 1..n => flatten[i + 1] = k[i + 1]}
  <2>7. 0 \in T
    BY <2>3, <2>6
  <2>8. ASSUME NEW i \in T
        PROVE  i + 1 \in T
    <3>1. i \in Nat /\ i + 1 \in Nat
      OBVIOUS
    <3>2. SUFFICES ASSUME (i + 1) + 1 \in 1..n
                   PROVE  flatten[(i + 1) + 1] = k[(i + 1) + 1]
      BY <3>1
    <3>3. PICK j : j = (i + 1) + 1
      OBVIOUS
    <3>4. j \in 1..n /\ j # 1 /\ j - 1 = i + 1 /\ i + 1 \in 1..n
      BY <3>1, <3>2, <3>3
    <3>5. flatten[i + 1] = k[i + 1]
      BY <3>4
    <3>6. flatten[j] = flatten[j - 1] \o s[j] /\ k[j] = k[j - 1] \o s[j]
      BY <2>3, <2>6, <3>4
    <3> QED
      BY <3>3, <3>4, <3>5, <3>6
  <2>9. T = Nat
    <3>1. T \subseteq Nat
      OBVIOUS
    <3> HIDE DEF T
    <3> QED
      BY <2>7, <2>8, <3>1, SetInduction
  <2>10. n - 1 \in Nat /\ (n - 1) + 1 = n /\ n \in 1..n
    BY <1>13
  <2>11. flatten[n] = k[n]
    BY <2>9, <2>10
  <2> QED
    BY <1>1, <1>2, <1>11, <2>1, <2>2, <2>10, <2>11
<1> QED
  BY <1>12, <1>13

\* Each prefix stays as it was.
LEMMA FlattenGrows ==
  ASSUME NEW X, NEW s \in Seq(Seq(X)), NEW g, Flattening(s, g, Seq(X))
  PROVE  \A i, k \in 0..Len(s) : i <= k =>
           /\ Len(g[i]) <= Len(g[k]) /\ Len(g[i]) \in Nat /\ Len(g[k]) \in Nat
           /\ \A x \in 1..Len(g[i]) : g[k][x] = g[i][x]
<1>1. PICK n \in Nat : n = Len(s)
  OBVIOUS
<1> SUFFICES ASSUME NEW i \in 0..n
             PROVE  \A k \in 0..n : i <= k =>
                      /\ Len(g[i]) <= Len(g[k]) /\ Len(g[i]) \in Nat /\ Len(g[k]) \in Nat
                      /\ \A x \in 1..Len(g[i]) : g[k][x] = g[i][x]
  BY <1>1
<1> DEFINE Good(k) == /\ Len(g[i]) <= Len(g[k]) /\ Len(g[i]) \in Nat /\ Len(g[k]) \in Nat
                      /\ \A x \in 1..Len(g[i]) : g[k][x] = g[i][x]
           T == {d \in Nat : i + d \in 0..n => Good(i + d)}
<1>2. \A k \in 0..n : g[k] \in Seq(X) /\ Len(g[k]) \in Nat
  <2>1. \A k \in 0..n : g[k] \in Seq(X)
    BY <1>1 DEF Flattening
  <2>2. \A x \in Seq(X) : Len(x) \in Nat
    OBVIOUS
  <2> QED
    BY <2>1, <2>2
<1>3. 0 \in T
  BY <1>2
<1>4. ASSUME NEW d \in T
      PROVE  d + 1 \in T
  <2>1. SUFFICES ASSUME i + (d + 1) \in 0..n
                 PROVE  Good(i + (d + 1))
    OBVIOUS
  <2>2. PICK k : k = i + (d + 1)
    OBVIOUS
  <2>3. k \in 1..n /\ k \in 0..n /\ k - 1 \in 0..n /\ k - 1 = i + d
    BY <2>1, <2>2
  <2>4. Good(k - 1)
    BY <2>3
  <2>5. g[k] = g[k - 1] \o s[k] /\ s[k] \in Seq(X)
    <3>1. k \in 1..Len(s)
      BY <1>1, <2>3
    <3>2. s[k] \in Seq(X)
      BY <3>1
    <3>3. g[k] = g[k - 1] \o s[k]
      BY <3>1 DEF Flattening
    <3> QED
      BY <3>2, <3>3
  <2>6. PICK u \in Seq(X) : u = g[k - 1]
    BY <1>2, <2>3
  <2>7. PICK v \in Seq(X) : v = s[k]
    BY <2>5
  <2>8. /\ Len(u \o v) = Len(u) + Len(v) /\ Len(u) \in Nat /\ Len(v) \in Nat
        /\ \A x \in 1..Len(u) : (u \o v)[x] = u[x]
    OBVIOUS
  <2>9. g[k] = u \o v
    BY <2>5, <2>6, <2>7
  <2>10. Len(g[i]) <= Len(u) /\ Len(g[i]) \in Nat /\ \A x \in 1..Len(g[i]) : u[x] = g[i][x]
    BY <2>4, <2>6
  <2>11. \A x \in 1..Len(g[i]) : x \in 1..Len(u)
    BY <2>8, <2>10
  <2>12. Len(g[i]) <= Len(g[k]) /\ Len(g[k]) \in Nat
    BY <2>8, <2>9, <2>10
  <2> QED
    BY <2>2, <2>8, <2>9, <2>10, <2>11, <2>12
<1>5. T = Nat
  <2>1. T \subseteq Nat
    OBVIOUS
  <2> HIDE DEF T
  <2> QED
    BY <1>3, <1>4, <2>1, SetInduction
<1>6. \A k \in 0..n : i <= k => k - i \in Nat /\ i + (k - i) = k
  OBVIOUS
<1>7. ASSUME NEW k \in 0..n, i <= k
      PROVE  Good(k)
  <2>1. k - i \in Nat
    BY <1>6, <1>7
  <2>2. k - i \in T
    <3> HIDE DEF T
    <3> QED
      BY <1>5, <2>1
  <2> QED
    BY <1>6, <1>7, <2>2
<1> QED
  BY <1>7

LEMMA FlattenCode ==
  ASSUME NEW X, NEW s \in Seq(Seq(X))
  PROVE  FlattenSeq(s) \in Seq(X)
<1>1. PICK g : Flattening(s, g, Seq(X)) /\ g[Len(s)] = FlattenSeq(s)
  BY FlattenSteps
<1>2. Len(s) \in Nat /\ Len(s) \in 0..Len(s)
  OBVIOUS
<1>3. g \in [0..Len(s) -> Seq(X)]
  BY <1>1 DEF Flattening
<1> QED
  BY <1>1, <1>2, <1>3

\* The lists of a list end in the flattened one in the same order.
LEMMA FlattenPlaces ==
  ASSUME NEW X, NEW s \in Seq(Seq(X)), \A i \in 1..Len(s) : s[i] # <<>>
  PROVE  \E at \in [1..Len(s) -> DOMAIN FlattenSeq(s)] :
           /\ \A i \in 1..Len(s) : FlattenSeq(s)[at[i]] = s[i][Len(s[i])]
           /\ \A i, k \in 1..Len(s) : i < k => at[i] < at[k]
<1>1. PICK g : Flattening(s, g, Seq(X)) /\ g[Len(s)] = FlattenSeq(s)
  BY FlattenSteps
<1>2. PICK n \in Nat : n = Len(s)
  OBVIOUS
<1>3. PICK q : q = FlattenSeq(s)
  OBVIOUS
<1>4. \A i, k \in 0..n : i <= k =>
        /\ Len(g[i]) <= Len(g[k]) /\ Len(g[i]) \in Nat /\ Len(g[k]) \in Nat
        /\ \A x \in 1..Len(g[i]) : g[k][x] = g[i][x]
  BY <1>1, <1>2, FlattenGrows
<1>5. q \in Seq(X) /\ q = g[n] /\ DOMAIN q = 1..Len(q) /\ Len(q) \in Nat
  <2>1. q \in Seq(X)
    BY <1>3, FlattenCode
  <2> QED
    BY <1>1, <1>2, <1>3, <2>1
<1>6. ASSUME NEW i \in 1..n
      PROVE  /\ Len(g[i]) \in Nat /\ Len(g[i - 1]) \in Nat
             /\ Len(g[i - 1]) < Len(g[i])
             /\ g[i][Len(g[i])] = s[i][Len(s[i])]
  <2>1. i \in 0..n /\ i - 1 \in 0..n /\ i \in 1..Len(s)
    BY <1>2
  <2>2. PICK u \in Seq(X) : u = g[i - 1]
    BY <1>1, <1>2, <2>1 DEF Flattening
  <2>3. s[i] \in Seq(X) /\ s[i] # <<>>
    BY <2>1
  <2>4. PICK v \in Seq(X) : v = s[i]
    BY <2>3
  <2>5. g[i] = u \o v
    BY <1>1, <2>1, <2>2, <2>4 DEF Flattening
  <2>6. v # <<>>
    BY <2>3, <2>4
  <2>7. Len(v) \in Nat \ {0} /\ Len(u) \in Nat
    BY <2>6
  <2>8. Len(u \o v) = Len(u) + Len(v) /\ (u \o v)[Len(u) + Len(v)] = v[Len(v)]
    BY <2>7
  <2>9. Len(g[i]) = Len(u) + Len(v) /\ g[i][Len(u) + Len(v)] = v[Len(v)]
    BY <2>5, <2>8
  <2>10. g[i][Len(g[i])] = s[i][Len(s[i])]
    BY <2>4, <2>9
  <2>11. Len(g[i]) \in Nat /\ Len(u) < Len(g[i])
    BY <2>7, <2>9
  <2> QED
    BY <2>2, <2>7, <2>10, <2>11
<1>7. PICK at : at = [i \in 1..n |-> Len(g[i])]
  OBVIOUS
<1>8. ASSUME NEW i \in 1..n
      PROVE  at[i] \in DOMAIN q /\ q[at[i]] = s[i][Len(s[i])]
  <2>1. i \in 0..n /\ n \in 0..n /\ i <= n
    OBVIOUS
  <2>2. Len(g[i]) <= Len(q) /\ \A x \in 1..Len(g[i]) : q[x] = g[i][x]
    BY <1>4, <1>5, <2>1
  <2>3. Len(g[i]) \in Nat \ {0}
    <3>1. /\ Len(g[i]) \in Nat /\ Len(g[i - 1]) \in Nat
          /\ Len(g[i - 1]) < Len(g[i])
      BY <1>6
    <3>2. PICK m, l \in Nat : m = Len(g[i - 1]) /\ l = Len(g[i]) /\ m < l
      BY <3>1
    <3> QED
      BY <3>2
  <2>4. Len(g[i]) \in 1..Len(g[i]) /\ Len(g[i]) \in 1..Len(q)
    BY <1>5, <2>2, <2>3
  <2> QED
    BY <1>5, <1>6, <1>7, <2>2, <2>4
<1>9. ASSUME NEW i \in 1..n, NEW k \in 1..n, i < k
      PROVE  at[i] < at[k]
  <2>1. i \in 0..n /\ k - 1 \in 0..n /\ i <= k - 1
    BY <1>9
  <2>2. Len(g[i]) <= Len(g[k - 1]) /\ Len(g[i]) \in Nat
    BY <1>4, <2>1
  <2>3. Len(g[k - 1]) < Len(g[k]) /\ Len(g[k - 1]) \in Nat /\ Len(g[k]) \in Nat
    BY <1>6
  <2> QED
    <3>1. PICK l, m, o \in Nat : /\ l = Len(g[i]) /\ m = Len(g[k - 1]) /\ o = Len(g[k])
                                 /\ l <= m /\ m < o
      BY <2>2, <2>3
    <3>2. at[i] = l /\ at[k] = o
      BY <1>7, <3>1
    <3> QED
      BY <3>1, <3>2
<1>10. at \in [1..n -> DOMAIN q]
  BY <1>7, <1>8
<1> QED
  BY <1>2, <1>3, <1>8, <1>9, <1>10

LEMMA SideCode ==
  ASSUME NEW X, NEW region, NEW n \in Nat, DOMAIN region = 1..n, NEW side,
         \A p \in DOMAIN region : region[p][side] \in Seq(X)
  PROVE  Side(region, side) \in Seq(X)
<1>1. PICK s : s = [p \in 1..n |-> region[p][side]]
  OBVIOUS
<1>2. PICK Y : Y = Seq(X)
  OBVIOUS
<1>3. s \in [1..n -> Y]
  BY <1>1, <1>2
<1>4. s \in Seq(Y)
  BY <1>3
<1>5. FlattenSeq(s) \in Seq(X)
  BY <1>2, <1>4, FlattenCode
<1> QED
  BY <1>1, <1>5 DEF Side

LEMMA SingleSide ==
  ASSUME NEW region, DOMAIN region = 1..1, NEW side
  PROVE  Side(region, side) = region[1][side]
<1>1. PICK s : s = [p \in DOMAIN region |-> region[p][side]]
  OBVIOUS
<1>2. s = [p \in 1..1 |-> s[p]] /\ s[1] = region[1][side]
  BY <1>1
<1>3. FlattenSeq(s) = s[1]
  BY <1>2, SingleFlatten
<1> QED
  BY <1>1, <1>2, <1>3 DEF Side

LEMMA CountOfFirsts ==
  ASSUME NEW n \in Nat
  PROVE  Cardinality({<<q, 1>> : q \in 1..n}) = n
<1> DEFINE S == {<<q, 1>> : q \in 1..n}
           g == [q \in 1..n |-> <<q, 1>>]
<1>1. IsFiniteSet(1..n) /\ Cardinality(1..n) = n
  <2>1. \A m \in Nat : IsFiniteSet(1..m) /\ Cardinality(1..m) = m
    BY FS_Interval
  <2> QED
    BY <2>1
<1>2. g \in Bijection(1..n, S)
  <2>1. g \in [1..n -> S] /\ \A x, y \in 1..n : g[x] = g[y] => x = y
    OBVIOUS
  <2>2. \A t \in S : \E q \in 1..n : g[q] = t
    OBVIOUS
  <2> HIDE DEF g, S
  <2> QED
    BY <2>1, <2>2 DEF Bijection, Injection, Surjection, IsInjective
<1> HIDE DEF g, S
<1>3. ExistsBijection(1..n, S)
  BY <1>2 DEF ExistsBijection
<1>4. Cardinality(S) = Cardinality(1..n)
  BY <1>1, <1>3, FS_Bijection
<1> QED
  BY <1>1, <1>4 DEF S

\* Where no conflict was split, the markers in merge style have the numbers of the
\* conflicts.
LEMMA SingleParts ==
  ASSUME NEW regions, NEW n \in Nat, DOMAIN regions = 1..n,
         \A r \in 1..n : DOMAIN regions[r] = 1..1 /\ regions[r][1].our # regions[r][1].their,
         NEW file, file.regions = regions, NEW P, P = Parts(file)
  PROVE  /\ P = {<<q, 1>> : q \in 1..n} /\ Cardinality(P) = n
         /\ \A i \in 1..n : (CHOOSE y \in P : Ordinal(P, y) = i) = <<i, 1>>
<1>1. P = {<<q, 1>> : q \in 1..n}
  <2>1. ASSUME NEW x \in P
        PROVE  \E q \in 1..n : x = <<q, 1>>
    <3>1. PICK r \in 1..n : x \in {r} \X (DOMAIN regions[r])
      BY DEF Parts
    <3>2. x \in {r} \X (1..1)
      BY <3>1
    <3>3. x = <<r, 1>>
      BY <3>2
    <3> QED
      BY <3>3
  <2>2. ASSUME NEW q \in 1..n
        PROVE  <<q, 1>> \in P
    <3>1. PICK x : x = <<q, 1>>
      OBVIOUS
    <3>2. x[1] = q /\ x[2] = 1 /\ x \in {q} \X (DOMAIN regions[q])
      BY <3>1
    <3>3. regions[x[1]][x[2]].our # regions[x[1]][x[2]].their
      BY <3>2
    <3>4. x \in UNION {{r} \X (DOMAIN regions[r]) : r \in DOMAIN regions}
      BY <3>2
    <3> QED
      BY <3>1, <3>3, <3>4 DEF Parts
  <2> QED
    BY <2>1, <2>2
<1>2. Cardinality(P) = n
  BY <1>1, CountOfFirsts
<1>3. ASSUME NEW i \in 1..n
      PROVE  Ordinal(P, <<i, 1>>) = i
  <2>1. i \in Nat
    OBVIOUS
  <2>2. PICK S : S = {y \in P : y[1] < i \/ (y[1] = i /\ y[2] <= 1)}
    OBVIOUS
  <2>3. \A y \in S : \E q \in 1..i : y = <<q, 1>>
    BY <1>1, <2>1, <2>2
  <2>4. ASSUME NEW q \in 1..i
        PROVE  <<q, 1>> \in S
    <3>1. PICK y : y = <<q, 1>>
      OBVIOUS
    <3>2. y[1] = q /\ y[2] = 1 /\ q \in 1..n
      BY <2>1, <3>1
    <3>3. y \in P /\ (y[1] < i \/ (y[1] = i /\ y[2] <= 1))
      BY <1>1, <2>1, <3>1, <3>2
    <3> QED
      BY <2>2, <3>1, <3>3
  <2>5. S = {<<q, 1>> : q \in 1..i}
    BY <2>3, <2>4
  <2>6. Cardinality(S) = i
    BY <2>1, <2>5, CountOfFirsts
  <2>7. PICK x : x = <<i, 1>>
    OBVIOUS
  <2>8. x[1] = i /\ x[2] = 1
    BY <2>7
  <2>9. Ordinal(P, x) = Cardinality(S)
    BY <2>2, <2>8 DEF Ordinal
  <2> QED
    BY <2>6, <2>7, <2>9
<1>4. ASSUME NEW i \in 1..n
      PROVE  (CHOOSE y \in P : Ordinal(P, y) = i) = <<i, 1>>
  <2>1. <<i, 1>> \in P /\ Ordinal(P, <<i, 1>>) = i
    BY <1>1, <1>3
  <2>2. ASSUME NEW y \in P, Ordinal(P, y) = i
        PROVE  y = <<i, 1>>
    <3>1. PICK q \in 1..n : y = <<q, 1>>
      BY <1>1
    <3>2. Ordinal(P, y) = q
      BY <1>3, <3>1
    <3> QED
      BY <2>2, <3>1, <3>2
  <2> QED
    BY <2>1, <2>2
<1> QED
  BY <1>1, <1>2, <1>4

\* The sides of a conflict as git's diff3 shows them.
LEMMA Diff3Blocks ==
  ASSUME input \in Inputs, NEW id \in Ids
  PROVE  LET regions == File(id).regions
             d == Diff3(File(id))
         IN  /\ DOMAIN d = DOMAIN regions
             /\ \A k \in DOMAIN regions :
                  /\ d[k].our = Side(regions[k], "our")
                  /\ d[k].base = Side(regions[k], "base")
                  /\ d[k].their = Side(regions[k], "their")
                  /\ d[k].hasBase = TRUE
                  /\ d[k].our \in Seq(Lines) /\ d[k].base \in Seq(Lines)
                  /\ d[k].their \in Seq(Lines)
                  /\ d[k].our # d[k].base /\ d[k].their # d[k].base /\ d[k].our # d[k].their
<1> DEFINE regions == File(id).regions
           d == Diff3(File(id))
<1>1. PICK s : s = [i \in DOMAIN regions |->
                      [our |-> Side(regions[i], "our"), base |-> Side(regions[i], "base"),
                       their |-> Side(regions[i], "their"), hasBase |-> TRUE]]
  OBVIOUS
<1>2. d = Numbered(s)
  BY <1>1, Zenon DEF Diff3
<1>3. /\ DOMAIN d = DOMAIN regions
      /\ \A k \in DOMAIN regions :
           /\ d[k].our = s[k].our /\ d[k].base = s[k].base /\ d[k].their = s[k].their
           /\ d[k].hasBase = s[k].hasBase
  <2> HIDE DEF d, regions
  <2>1. DOMAIN s = DOMAIN regions
    BY <1>1
  <2> QED
    BY <1>2, <2>1 DEF Numbered
<1>4. \A k \in DOMAIN regions :
        /\ s[k].our = Side(regions[k], "our")
        /\ s[k].base = Side(regions[k], "base")
        /\ s[k].their = Side(regions[k], "their")
        /\ s[k].hasBase = TRUE
  <2> HIDE DEF regions
  <2> QED
    BY <1>1
<1>5. ASSUME NEW k \in DOMAIN regions
      PROVE  /\ Side(regions[k], "our") \in Seq(Lines)
             /\ Side(regions[k], "base") \in Seq(Lines)
             /\ Side(regions[k], "their") \in Seq(Lines)
             /\ Side(regions[k], "our") # Side(regions[k], "base")
             /\ Side(regions[k], "their") # Side(regions[k], "base")
             /\ Side(regions[k], "our") # Side(regions[k], "their")
  <2>1. \A s1, t1 \in {"our", "base", "their"} :
          Side(regions[k], s1) = Side(regions[k], t1) => s1 = t1
    BY ConflictAssumption DEF File, Ids
  <2>2. /\ Len(regions[k]) \in Nat /\ DOMAIN regions[k] = 1..Len(regions[k])
        /\ \A p \in DOMAIN regions[k] : \A s1 \in {"our", "base", "their"} :
             regions[k][p][s1] \in Seq(Lines)
    BY InputAssumption DEF File, Ids
  <2>3. PICK region : region = regions[k]
    OBVIOUS
  <2>4. PICK n \in Nat : DOMAIN region = 1..n
    BY <2>2, <2>3
  <2>5. /\ \A p \in DOMAIN region : region[p]["our"] \in Seq(Lines)
        /\ \A p \in DOMAIN region : region[p]["base"] \in Seq(Lines)
        /\ \A p \in DOMAIN region : region[p]["their"] \in Seq(Lines)
    BY <2>2, <2>3
  <2>6. /\ Side(region, "our") \in Seq(Lines) /\ Side(region, "base") \in Seq(Lines)
        /\ Side(region, "their") \in Seq(Lines)
    BY <2>4, <2>5, SideCode
  <2> HIDE DEF regions
  <2> QED
    BY <2>1, <2>3, <2>6
<1> HIDE DEF d, regions
<1>6. ASSUME NEW k \in DOMAIN regions
      PROVE  /\ d[k].our = Side(regions[k], "our")
             /\ d[k].base = Side(regions[k], "base")
             /\ d[k].their = Side(regions[k], "their")
             /\ d[k].hasBase = TRUE
  BY <1>3, <1>4
<1>7. \A k \in DOMAIN regions :
        /\ d[k].our = Side(regions[k], "our")
        /\ d[k].base = Side(regions[k], "base")
        /\ d[k].their = Side(regions[k], "their")
        /\ d[k].hasBase = TRUE
        /\ d[k].our \in Seq(Lines) /\ d[k].base \in Seq(Lines)
        /\ d[k].their \in Seq(Lines)
        /\ d[k].our # d[k].base /\ d[k].their # d[k].base /\ d[k].our # d[k].their
  <2> SUFFICES ASSUME NEW k \in DOMAIN regions
               PROVE  /\ d[k].our = Side(regions[k], "our")
                      /\ d[k].base = Side(regions[k], "base")
                      /\ d[k].their = Side(regions[k], "their")
                      /\ d[k].hasBase = TRUE
                      /\ d[k].our \in Seq(Lines) /\ d[k].base \in Seq(Lines)
                      /\ d[k].their \in Seq(Lines)
                      /\ d[k].our # d[k].base /\ d[k].their # d[k].base
                      /\ d[k].our # d[k].their
    OBVIOUS
  <2>1. /\ d[k].our = Side(regions[k], "our") /\ d[k].base = Side(regions[k], "base")
        /\ d[k].their = Side(regions[k], "their") /\ d[k].hasBase = TRUE
    BY <1>6
  <2> QED
    BY <1>5, <2>1
<1>8. DOMAIN d = DOMAIN regions
  BY <1>3
<1> QED
  BY <1>7, <1>8, Zenon DEF d, regions

\* Merge style without split conflicts: the same sides under the same numbers.
LEMMA MergeBlocks ==
  ASSUME input \in Inputs, NEW id \in Ids,
         \A i \in DOMAIN File(id).regions : Len(File(id).regions[i]) = 1
  PROVE  LET d == Diff3(File(id))
             m == Merge(File(id))
         IN  /\ DOMAIN m = DOMAIN d
             /\ \A k \in DOMAIN d : /\ m[k].our = d[k].our /\ m[k].base = d[k].base
                                    /\ m[k].their = d[k].their /\ m[k].hasBase = FALSE
<1>1. PICK regions : regions = File(id).regions
  OBVIOUS
<1>2. PICK d : d = Diff3(File(id))
  OBVIOUS
<1>3. PICK m : m = Merge(File(id))
  OBVIOUS
<1>4. PICK n \in Nat : DOMAIN regions = 1..n
  BY <1>1, InputAssumption DEF File, Ids
<1>5. \A r \in 1..n : DOMAIN regions[r] = 1..1
  <2>1. \A r \in DOMAIN regions : DOMAIN regions[r] = 1..Len(regions[r])
    BY <1>1, InputAssumption DEF File, Ids
  <2> QED
    BY <1>1, <1>4, <2>1
<1>6. /\ DOMAIN d = DOMAIN regions
      /\ \A k \in DOMAIN regions : /\ d[k].our = Side(regions[k], "our")
                                   /\ d[k].base = Side(regions[k], "base")
                                   /\ d[k].their = Side(regions[k], "their")
                                   /\ d[k].our # d[k].their
  BY <1>1, <1>2, Diff3Blocks
<1>7. \A k \in 1..n : /\ d[k].our = regions[k][1].our /\ d[k].base = regions[k][1].base
                      /\ d[k].their = regions[k][1].their
                      /\ regions[k][1].our # regions[k][1].their
  <2> SUFFICES ASSUME NEW k \in 1..n
               PROVE  /\ d[k].our = regions[k][1].our /\ d[k].base = regions[k][1].base
                      /\ d[k].their = regions[k][1].their
                      /\ regions[k][1].our # regions[k][1].their
    OBVIOUS
  <2>1. PICK region : region = regions[k]
    OBVIOUS
  <2>2. DOMAIN region = 1..1
    BY <1>5, <2>1
  <2>3. /\ Side(region, "our") = region[1]["our"] /\ Side(region, "base") = region[1]["base"]
        /\ Side(region, "their") = region[1]["their"]
    BY <2>2, SingleSide
  <2> QED
    BY <1>4, <1>6, <2>1, <2>3
<1>8. PICK P : P = Parts(File(id))
  OBVIOUS
<1>9. /\ Cardinality(P) = n
      /\ \A i \in 1..n : (CHOOSE y \in P : Ordinal(P, y) = i) = <<i, 1>>
  <2>1. \A r \in 1..n : DOMAIN regions[r] = 1..1 /\ regions[r][1].our # regions[r][1].their
    BY <1>5, <1>7
  <2> QED
    BY <1>1, <1>4, <1>8, <2>1, SingleParts
<1>10. PICK s : s = [i \in 1..n |->
         LET x == CHOOSE y \in P : Ordinal(P, y) = i
             part == regions[x[1]][x[2]]
         IN  [our |-> part.our, base |-> part.base, their |-> part.their, hasBase |-> FALSE]]
  OBVIOUS
<1>11. m = Numbered(s)
  BY <1>1, <1>3, <1>8, <1>9, <1>10, Zenon DEF Merge
<1>12. ASSUME NEW k \in 1..n
       PROVE  s[k] = [our |-> regions[k][1].our, base |-> regions[k][1].base,
                      their |-> regions[k][1].their, hasBase |-> FALSE]
  <2>1. PICK x : x = CHOOSE y \in P : Ordinal(P, y) = k
    OBVIOUS
  <2>2. x = <<k, 1>>
    BY <1>9, <2>1
  <2>3. x[1] = k /\ x[2] = 1
    BY <2>2
  <2>4. s[k] = [our |-> regions[x[1]][x[2]].our, base |-> regions[x[1]][x[2]].base,
                their |-> regions[x[1]][x[2]].their, hasBase |-> FALSE]
    BY <1>10, <2>1
  <2> QED
    BY <2>3, <2>4
<1>13. /\ DOMAIN m = 1..n
       /\ \A k \in 1..n : /\ m[k].our = s[k].our /\ m[k].base = s[k].base
                          /\ m[k].their = s[k].their /\ m[k].hasBase = s[k].hasBase
  <2>1. DOMAIN s = 1..n
    BY <1>10
  <2> QED
    BY <1>11, <2>1 DEF Numbered
<1>14. \A k \in 1..n : /\ s[k].our = regions[k][1].our /\ s[k].base = regions[k][1].base
                       /\ s[k].their = regions[k][1].their /\ s[k].hasBase = FALSE
  <2> SUFFICES ASSUME NEW k \in 1..n
               PROVE  /\ s[k].our = regions[k][1].our /\ s[k].base = regions[k][1].base
                      /\ s[k].their = regions[k][1].their /\ s[k].hasBase = FALSE
    OBVIOUS
  <2>1. s[k] = [our |-> regions[k][1].our, base |-> regions[k][1].base,
                their |-> regions[k][1].their, hasBase |-> FALSE]
    BY <1>12
  <2> QED
    BY <2>1
<1>15. \A k \in 1..n : /\ m[k].our = d[k].our /\ m[k].base = d[k].base
                       /\ m[k].their = d[k].their /\ m[k].hasBase = FALSE
  BY <1>7, <1>13, <1>14
<1>16. DOMAIN m = DOMAIN d /\ DOMAIN d = 1..n
  BY <1>4, <1>6, <1>13
<1> QED
  BY <1>2, <1>3, <1>15, <1>16

\* Lexicographic ranks: the part CHOOSE takes for a block is one of the parts.
LEMMA OrdinalChoice ==
  ASSUME NEW P, IsFiniteSet(P), P \subseteq Nat \X Nat
  PROVE  \A i \in 1..Cardinality(P) : (CHOOSE y \in P : Ordinal(P, y) = i) \in P
<1> DEFINE N == Cardinality(P)
           before(y, x) == y[1] < x[1] \/ (y[1] = x[1] /\ y[2] <= x[2])
           below(x) == {y \in P : before(y, x)}
           rank == [x \in P |-> Cardinality(below(x))]
<1>1. N \in Nat
  BY FS_CardinalityType
<1>0. \A x \in P : x[1] \in Nat /\ x[2] \in Nat /\ x = <<x[1], x[2]>>
  OBVIOUS
<1>2. ASSUME NEW x \in P
      PROVE  /\ IsFiniteSet(below(x)) /\ Cardinality(below(x)) \in 1..N
             /\ below(x) \subseteq P /\ x \in below(x)
  <2>0. before(x, x)
    BY <1>0
  <2> HIDE DEF before
  <2>1. below(x) \subseteq P /\ x \in below(x)
    BY <2>0
  <2> HIDE DEF below
  <2>2. IsFiniteSet(below(x)) /\ Cardinality(below(x)) <= N
    BY <2>1, FS_Subset
  <2>3. Cardinality(below(x)) \in Nat /\ Cardinality(below(x)) # 0
    BY <2>1, <2>2, FS_CardinalityType, FS_EmptySet
  <2> QED
    BY <1>1, <2>1, <2>2, <2>3
<1>3. ASSUME NEW x \in P, NEW z \in P, Cardinality(below(x)) = Cardinality(below(z)),
             before(x, z), x # z
      PROVE  FALSE
  <2>1. /\ \A y \in P : before(y, x) => before(y, z)
        /\ ~before(z, x)
    BY <1>0, <1>3
  <2>2. before(z, z)
    BY <1>0
  <2> HIDE DEF before
  <2>3. below(x) \subseteq below(z) /\ z \in below(z) /\ z \notin below(x)
    BY <2>1, <2>2, Zenon
  <2> HIDE DEF below
  <2>4. below(x) = below(z)
    BY <1>2, <1>3, <2>3, FS_Subset
  <2> QED
    BY <2>3, <2>4
<1>4. ASSUME NEW x \in P, NEW z \in P, Cardinality(below(x)) = Cardinality(below(z))
      PROVE  x = z
  <2>1. before(x, z) \/ before(z, x)
    BY <1>0
  <2> HIDE DEF before, below
  <2> QED
    BY <1>3, <1>4, <2>1
<1>9. ASSUME NEW x \in P
      PROVE  Ordinal(P, x) = Cardinality(below(x))
  BY DEF Ordinal
<1> HIDE DEF below
<1>5. rank \in Injection(P, 1..N)
  BY <1>2, <1>4 DEF Injection, IsInjective
<1>6. IsFiniteSet(1..N) /\ Cardinality(1..N) = N
  BY <1>1, FS_Interval
<1>7. rank \in Surjection(P, 1..N)
  BY <1>5, <1>6, FS_Injection
<1>8. \A n \in 1..N : \E x \in P : Cardinality(below(x)) = n
  BY <1>7 DEF Surjection
<1>10. \A n \in 1..N : \E x \in P : Ordinal(P, x) = n
  BY <1>8, <1>9
<1> HIDE DEF N
<1>11. \A n \in 1..N : (CHOOSE y \in P : Ordinal(P, y) = n) \in P
  BY <1>10
<1> QED
  BY <1>11 DEF N

\* Every block is lines of code, with a base in diff3 style only.
IsCode(c) == c.our \in Seq(Lines) /\ c.base \in Seq(Lines) /\ c.their \in Seq(Lines)

LEMMA OriginalCode ==
  ASSUME input \in Inputs, NEW id \in Ids,
         NEW k \in DOMAIN Original(id), NEW c, c = Original(id)[k]
  PROVE  IsCode(c) /\ c.hasBase = (input.style = "diff3")
<1>1. CASE input.style = "diff3"
  <2>1. PICK d : d = Diff3(File(id))
    OBVIOUS
  <2>2. \A x \in DOMAIN d : /\ d[x].hasBase = TRUE
                            /\ d[x].our \in Seq(Lines) /\ d[x].base \in Seq(Lines)
                            /\ d[x].their \in Seq(Lines)
    BY <2>1, Diff3Blocks
  <2>3. Original(id) = d
    BY <1>1, <2>1 DEF Original, constructConflictFile
  <2> QED
    BY <1>1, <2>2, <2>3 DEF IsCode
<1>2. CASE input.style # "diff3"
  <2>1. PICK regions : regions = File(id).regions
    OBVIOUS
  <2>2. PICK P : P = Parts(File(id))
    OBVIOUS
  <2>3. PICK N : N = Cardinality(P)
    OBVIOUS
  <2>4. PICK s : s = [i \in 1..N |->
          LET x == CHOOSE y \in P : Ordinal(P, y) = i
              part == regions[x[1]][x[2]]
          IN  [our |-> part.our, base |-> part.base, their |-> part.their, hasBase |-> FALSE]]
    OBVIOUS
  <2>5. Original(id) = Numbered(s)
    BY <1>2, <2>1, <2>2, <2>3, <2>4, Zenon DEF Original, constructConflictFile, Merge
  <2>6. DOMAIN s = 1..N
    BY <2>4
  <2>7. /\ k \in 1..N
        /\ c.our = s[k].our /\ c.base = s[k].base /\ c.their = s[k].their
        /\ c.hasBase = s[k].hasBase
    BY <2>5, <2>6 DEF Numbered
  <2>8. /\ DOMAIN regions \subseteq Nat
        /\ \A r \in DOMAIN regions : DOMAIN regions[r] \subseteq Nat
        /\ \A r \in DOMAIN regions : \A p \in DOMAIN regions[r] :
             \A side \in {"our", "base", "their"} : regions[r][p][side] \in Seq(Lines)
    BY <2>1, InputAssumption DEF File, Ids
  <2>9. \A x \in P : x[1] \in DOMAIN regions /\ x[2] \in DOMAIN regions[x[1]]
    BY <2>1, <2>2 DEF Parts
  <2>10. P \subseteq Nat \X Nat
    <3>1. \A x \in P : x = <<x[1], x[2]>>
      BY <2>2 DEF Parts
    <3> QED
      BY <2>8, <2>9, <3>1
  <2>11. IsFiniteSet(P)
    BY <2>2, PartsFinite
  <2>12. PICK x : x = CHOOSE y \in P : Ordinal(P, y) = k
    OBVIOUS
  <2>13. x \in P
    BY <2>3, <2>7, <2>10, <2>11, <2>12, OrdinalChoice
  <2>14. s[k] = [our |-> regions[x[1]][x[2]].our, base |-> regions[x[1]][x[2]].base,
                 their |-> regions[x[1]][x[2]].their, hasBase |-> FALSE]
    BY <2>4, <2>7, <2>12, Zenon
  <2>15. PICK part : part = regions[x[1]][x[2]]
    OBVIOUS
  <2>16. part["our"] \in Seq(Lines) /\ part["base"] \in Seq(Lines) /\ part["their"] \in Seq(Lines)
    BY <2>8, <2>9, <2>13, <2>15
  <2>17. c.our = part.our /\ c.base = part.base /\ c.their = part.their /\ c.hasBase = FALSE
    BY <2>7, <2>14, <2>15
  <2> QED
    BY <1>2, <2>16, <2>17 DEF IsCode
<1> QED
  BY <1>1, <1>2

\* The block under conflicts/ and the one found in the project are the same; the
\* sides of a block are what ConflictAssumption says.
SameSides(look, c) ==
  look.our = c.our /\ look.base = c.base /\ look.their = c.their /\ look.hasBase = TRUE
IsConflict(c) ==
  /\ c.our \in Seq(Lines) /\ c.base \in Seq(Lines)
  /\ c.our # c.base /\ c.their # c.base

\* Where a block is looked up in the right place, it is the one that was found.
LEMMA AlignedBlocks ==
  ASSUME input \in Inputs, NEW id \in Ids, Aligned(id),
         NEW k \in DOMAIN Original(id), NEW c, c = Original(id)[k]
  PROVE  /\ SameSides(conflicts[id][k], c) /\ IsConflict(c)
         /\ c.hasBase <=> input.style = "diff3"
<1>1. PICK d : d = Diff3(File(id))
  OBVIOUS
<1>2. conflicts[id] = d
  BY <1>1 DEF Aligned
<1>3. \A x \in DOMAIN d : /\ d[x].hasBase = TRUE
                          /\ d[x].our \in Seq(Lines) /\ d[x].base \in Seq(Lines)
                          /\ d[x].our # d[x].base /\ d[x].their # d[x].base
  BY <1>1, Diff3Blocks
<1>4. CASE input.style = "diff3"
  <2>1. Original(id) = d
    BY <1>1, <1>4 DEF Original, constructConflictFile
  <2> QED
    BY <1>2, <1>3, <1>4, <2>1 DEF SameSides, IsConflict
<1>5. CASE input.style # "diff3"
  <2>1. PICK m : m = Merge(File(id))
    OBVIOUS
  <2>2. Original(id) = m
    BY <1>5, <2>1 DEF Original, constructConflictFile
  <2>3. /\ DOMAIN m = DOMAIN d
        /\ \A x \in DOMAIN d : /\ m[x].our = d[x].our /\ m[x].base = d[x].base
                               /\ m[x].their = d[x].their /\ m[x].hasBase = FALSE
    BY <1>1, <1>5, <2>1, MergeBlocks DEF Aligned
  <2>4. k \in DOMAIN d /\ c = m[k]
    BY <2>2, <2>3
  <2>5. /\ c.our = d[k].our /\ c.base = d[k].base /\ c.their = d[k].their /\ c.hasBase = FALSE
    BY <2>3, <2>4
  <2> QED
    BY <1>2, <1>3, <1>5, <2>4, <2>5 DEF SameSides, IsConflict
<1> QED
  BY <1>4, <1>5

\* The results of the other heuristics claim nothing about the base.
LEMMA InclusionSays ==
  ASSUME NEW kind, NEW our, NEW their, NEW r \in checkInclusion(kind, our, their)
  PROVE  r.desc \in {"added code", "inclusion"}
<1>1. PICK d : d = IF kind = "source" THEN "added code" ELSE "inclusion"
  OBVIOUS
<1> DEFINE accept(code) == {[code |-> code, desc |-> d]}
<1>2. \A code : \A x \in accept(code) : x.desc = d
  OBVIOUS
<1>3. r \in accept(our) \/ r \in accept(their)
  BY <1>1, Zenon DEF checkInclusion
<1> HIDE DEF accept
<1>4. d \in {"added code", "inclusion"}
  BY <1>1
<1> QED
  BY <1>2, <1>3, <1>4

LEMMA ListSays ==
  ASSUME NEW kind, NEW our, NEW their, NEW r \in doListMerge(kind, our, their)
  PROVE  r.desc = "list"
<1> QED
  BY DEF doListMerge

LEMMA MarkedNotEmpty ==
  ASSUME NEW S, NEW u \in Seq(S), NEW v \in Seq(S), NEW m
  PROVE  u \o <<m>> \o v # <<>>
<1> DEFINE T == S \cup {m}
<1>1. u \in Seq(T) /\ v \in Seq(T) /\ <<m>> \in Seq(T)
  OBVIOUS
<1> HIDE DEF T
<1>2. Len(u \o <<m>> \o v) = Len(u) + 1 + Len(v) /\ Len(u) \in Nat /\ Len(v) \in Nat
  BY <1>1
<1> QED
  BY <1>2

LEMMA DescOfResult ==
  ASSUME NEW code, NEW desc, NEW r \in {[code |-> code, desc |-> desc]}
  PROVE  r.desc = desc
<1> QED
  OBVIOUS

\* checkDeletion: one side is missing, and the base is not, as it is not that side.
LEMMA DeletionSays ==
  ASSUME NEW c, IsConflict(c), NEW asked, asked => c.hasBase, NEW id, NEW k,
         NEW r \in checkDeletion(OurCode(c, asked), c.their, id, k)
  PROVE  r.desc = "deletion" /\ c.base # <<>>
<1>1. r.desc = "deletion" /\ (OurCode(c, asked) = <<>> \/ c.their = <<>>)
  BY DEF checkDeletion
<1>2. CASE c.their = <<>>
  BY <1>1, <1>2 DEF IsConflict
<1>3. CASE OurCode(c, asked) = <<>>
  <2>1. CASE asked \/ ~c.hasBase
    <3>1. OurCode(c, asked) = c.our
      BY <2>1 DEF OurCode
    <3> QED
      BY <1>1, <1>3, <3>1 DEF IsConflict
  <2>2. CASE ~asked /\ c.hasBase
    <3>1. OurCode(c, asked) = c.our \o <<Mark>> \o c.base
      BY <2>2 DEF OurCode
    <3> QED
      BY <1>3, <3>1, MarkedNotEmpty, Zenon DEF IsConflict
  <2> QED
    BY <2>1, <2>2
<1> QED
  BY <1>1, <1>2, <1>3

\* checkOneSideDelta looks at the block under conflicts/.
LEMMA DeltaSays ==
  ASSUME NEW c, NEW our, NEW id, NEW k, SameSides(conflicts[id][k], c),
         NEW r \in checkOneSideDelta(our, c.their, id, k)
  PROVE  \/ r.desc = "their delta" /\ Deflated(c.our) = Deflated(c.base)
         \/ r.desc = "our delta" /\ Deflated(c.their) = Deflated(c.base)
<1>1. \A x \in extractConflictBlock(id, k) : x = conflicts[id][k]
  BY DEF extractConflictBlock
<1>2. PICK x \in extractConflictBlock(id, k) :
        r \in (IF Deflated(OurCode(x, TRUE)) = Deflated(BaseCode(x))
               THEN {[code |-> c.their, desc |-> "their delta"]}
               ELSE IF Deflated(x.their) = Deflated(BaseCode(x))
               THEN {[code |-> our, desc |-> "our delta"]} ELSE {})
  BY Zenon DEF checkOneSideDelta
<1>3. SameSides(x, c)
  BY <1>1, Zenon
<1>4. OurCode(x, TRUE) = c.our /\ BaseCode(x) = c.base /\ x.their = c.their
  BY <1>3 DEF SameSides, OurCode, BaseCode
<1>5. CASE Deflated(c.our) = Deflated(c.base) /\ r \in {[code |-> c.their, desc |-> "their delta"]}
  <2>1. r.desc = "their delta"
    BY <1>5, DescOfResult, Zenon
  <2> QED
    BY <1>5, <2>1, Zenon
<1>6. CASE Deflated(c.their) = Deflated(c.base) /\ r \in {[code |-> our, desc |-> "our delta"]}
  <2>1. r.desc = "our delta"
    BY <1>6, DescOfResult, Zenon
  <2> QED
    BY <1>6, <2>1, Zenon
<1> QED
  BY <1>2, <1>4, <1>5, <1>6, Zenon

\* What the text handler says of a block it looks up in the right place is so.
LEMMA TextSays ==
  ASSUME NEW c, NEW id, NEW k, SameSides(conflicts[id][k], c), IsConflict(c),
         NEW asked, asked => c.hasBase,
         NEW r \in text(OurCode(c, asked), c.their, id, k)
  PROVE  \A e : e.desc = r.desc => Described(c, e)
<1>1. PICK our : our = OurCode(c, asked)
  OBVIOUS
<1>2. \/ r \in checkDeletion(our, c.their, id, k)
      \/ r \in checkOneSideDelta(our, c.their, id, k)
      \/ r \in checkInclusion(File(id).kind, our, c.their)
      \/ r \in doListMerge(File(id).kind, our, c.their)
  BY <1>1, Zenon DEF text
<1>3. CASE r \in checkDeletion(our, c.their, id, k)
  <2>1. r \in checkDeletion(OurCode(c, asked), c.their, id, k)
    BY <1>1, <1>3
  <2>2. r.desc = "deletion" /\ c.base # <<>>
    BY <2>1, DeletionSays
  <2> QED
    BY <2>2 DEF Described
<1>4. CASE r \in checkOneSideDelta(our, c.their, id, k)
  <2>1. \/ r.desc = "their delta" /\ Deflated(c.our) = Deflated(c.base)
        \/ r.desc = "our delta" /\ Deflated(c.their) = Deflated(c.base)
    BY <1>4, DeltaSays
  <2> QED
    BY <2>1 DEF Described
<1>5. CASE r \in checkInclusion(File(id).kind, our, c.their)
  <2>1. r.desc \in {"added code", "inclusion"}
    BY <1>5, InclusionSays
  <2> QED
    BY <2>1 DEF Described
<1>6. CASE r \in doListMerge(File(id).kind, our, c.their)
  <2>1. r.desc = "list"
    BY <1>6, ListSays
  <2> QED
    BY <2>1 DEF Described
<1> QED
  BY <1>2, <1>3, <1>4, <1>5, <1>6

-----------------------------------------------------------------------------
(* The steps, for the descriptions. *)

LEMMA SameOriginals ==
  ASSUME input' = input
  PROVE  Ids' = Ids /\ Originals' = Originals
<1> QED
  BY DEF Ids, Originals, Original, constructConflictFile, File

LEMMA SameAligned ==
  ASSUME input' = input, conflicts' = conflicts
  PROVE  AlignedIds' = AlignedIds
<1> QED
  BY DEF AlignedIds, Ids, Aligned, File

\* Nothing that was written by the style handler rests on the base.
LEMMA StyleDescribed ==
  ASSUME NEW list, OnlyStyle(list), NEW found
  PROVE  AllDescribed(found, list)
<1> SUFFICES ASSUME NEW n \in DOMAIN list
             PROVE  Described(found[list[n].index], list[n])
  BY DEF AllDescribed
<1>1. list[n].desc = "style"
  BY DEF OnlyStyle
<1> QED
  BY <1>1 DEF Described

\* A list that grows by one result, or by a list of them.
LEMMA AppendEntries ==
  ASSUME NEW list, IsList(list), NEW e, NEW t, t = Append(list, e)
  PROVE  \A n \in DOMAIN t : (n \in DOMAIN list /\ t[n] = list[n]) \/ t[n] = e
<1>1. /\ DOMAIN list = 1..Len(list) /\ DOMAIN t = 1..(Len(list) + 1)
      /\ \A n \in 1..Len(list) : t[n] = list[n]
      /\ t[Len(list) + 1] = e
  BY AppendList
<1>2. Len(list) \in Nat
  BY ListDomain
<1> QED
  BY <1>1, <1>2

LEMMA ConcatEntries ==
  ASSUME NEW list, IsList(list), NEW more, IsList(more), NEW t, t = list \o more
  PROVE  \A n \in DOMAIN t : \/ n \in DOMAIN list /\ t[n] = list[n]
                             \/ \E m \in DOMAIN more : t[n] = more[m]
<1>1. /\ IsList(t) /\ Len(t) = Len(list) + Len(more)
      /\ \A n \in 1..Len(list) : t[n] = list[n]
      /\ \A n \in 1..Len(more) : t[Len(list) + n] = more[n]
  BY ConcatList
<1>2. /\ DOMAIN list = 1..Len(list) /\ Len(list) \in Nat
      /\ DOMAIN more = 1..Len(more) /\ Len(more) \in Nat
      /\ DOMAIN t = 1..Len(t)
  BY <1>1, ListDomain
<1> SUFFICES ASSUME NEW n \in DOMAIN t, n \notin DOMAIN list
             PROVE  \E m \in DOMAIN more : t[n] = more[m]
  BY <1>1, <1>2
<1>3. n - Len(list) \in DOMAIN more /\ n = Len(list) + (n - Len(list))
  BY <1>1, <1>2
<1>4. t[n] = more[n - Len(list)]
  BY <1>1, <1>2, <1>3
<1> QED
  BY <1>3, <1>4

LEMMA AppendSays ==
  ASSUME NEW list, IsList(list), NEW e, NEW found
  PROVE  /\ OnlyStyle(list) /\ e.desc = "style" => OnlyStyle(Append(list, e))
         /\ AllDescribed(found, list) /\ Described(found[e.index], e) =>
              AllDescribed(found, Append(list, e))
<1>1. PICK t : t = Append(list, e)
  OBVIOUS
<1>2. \A n \in DOMAIN t : (n \in DOMAIN list /\ t[n] = list[n]) \/ t[n] = e
  BY <1>1, AppendEntries
<1>3. OnlyStyle(list) /\ e.desc = "style" => OnlyStyle(t)
  BY <1>2 DEF OnlyStyle
<1>4. AllDescribed(found, list) /\ Described(found[e.index], e) => AllDescribed(found, t)
  BY <1>2 DEF AllDescribed
<1> QED
  BY <1>1, <1>3, <1>4

LEMMA ConcatSays ==
  ASSUME NEW list, IsList(list), NEW more, IsList(more), NEW found
  PROVE  /\ OnlyStyle(list) /\ OnlyStyle(more) => OnlyStyle(list \o more)
         /\ AllDescribed(found, list) /\ AllDescribed(found, more) =>
              AllDescribed(found, list \o more)
<1>1. PICK t : t = list \o more
  OBVIOUS
<1>2. \A n \in DOMAIN t : \/ n \in DOMAIN list /\ t[n] = list[n]
                          \/ \E m \in DOMAIN more : t[n] = more[m]
  BY <1>1, ConcatEntries
<1>3. OnlyStyle(list) /\ OnlyStyle(more) => OnlyStyle(t)
  BY <1>2 DEF OnlyStyle
<1>4. AllDescribed(found, list) /\ AllDescribed(found, more) => AllDescribed(found, t)
  BY <1>2 DEF AllDescribed
<1> QED
  BY <1>1, <1>3, <1>4

LEMMA EmptySays ==
  ASSUME NEW found
  PROVE  OnlyStyle(<<>>) /\ AllDescribed(found, <<>>)
<1> QED
  BY DEF OnlyStyle, AllDescribed

LEMMA InitDesc ==
  ASSUME Init
  PROVE  DescInv
<1>1. /\ input \in Inputs /\ phase = "begin" /\ results = <<>>
      /\ store = [id \in Ids |-> <<>>]
      /\ files = [id \in Ids |-> [id |-> id, resolved |-> FALSE,
                                  blocks |-> Unresolved(Original(id))]]
  BY DEF Init, Original
<1>2. ASSUME NEW m \in Ids
      PROVE  Genuine(files[m], Originals)
  <2>1. PICK blocks : blocks = Unresolved(Original(m))
    OBVIOUS
  <2>2. files[m] = [id |-> m, resolved |-> FALSE, blocks |-> blocks]
    BY <1>1, <2>1
  <2>3. files[m].id = m /\ files[m].blocks = blocks
    BY <2>2
  <2>4. \A x \in DOMAIN Original(m) : Original(m)[x].index = x
    BY <1>1, OriginalNumbers
  <2>5. /\ DOMAIN blocks = DOMAIN Original(m)
        /\ \A x \in DOMAIN blocks : blocks[x].c = Original(m)[x]
    BY <2>1 DEF Unresolved
  <2>6. Originals[m] = Original(m)
    BY DEF Originals
  <2>7. \A x \in DOMAIN blocks : blocks[x].c = Originals[m][blocks[x].c.index]
    BY <2>4, <2>5, <2>6
  <2> QED
    BY <2>3, <2>7 DEF Genuine
<1>3. \A id \in Ids : OnlyStyle(store[id])
  BY <1>1, EmptySays
<1>4. \A id \in AlignedIds : AllDescribed(Originals[id], store[id])
  BY <1>3, StyleDescribed DEF AlignedIds
<1>5. DOMAIN files = Ids /\ OnlyStyle(results)
  BY <1>1, EmptySays
<1> QED
  BY <1>1, <1>2, <1>3, <1>4, <1>5 DEF DescInv

\* The first block of the first file has a base mark only in diff3 style.
LEMMA BeginDesc ==
  ASSUME BlocksInv, DescInv, beginHandler
  PROVE  DescInv'
<1>1. /\ phase = "begin" /\ phase' = "blocks" /\ f' = 1 /\ results' = <<>>
      /\ input' = input /\ files' = files /\ store' = store /\ handler' = handler
      /\ withBase' = WithBase
  BY DEF beginHandler
<1>2. Ids' = Ids /\ Originals' = Originals
  BY <1>1, SameOriginals
<1>3. DOMAIN files = 1..Len(files) /\ Len(files) \in Nat
  BY ListDomain DEF BlocksInv, FilesInv
<1>4. ASSUME 1 <= Len(files), WithBase
      PROVE  input.style = "diff3"
  <2>1. 1 \in DOMAIN files
    BY <1>3, <1>4
  <2>2. PICK file : file = files[1]
    OBVIOUS
  <2>3. IsFile(file, AllBlocks) /\ Genuine(file, Originals)
    BY <2>1, <2>2 DEF BlocksInv, FilesInv, DescInv
  <2>4. file.blocks # <<>> /\ file.blocks[1].c.hasBase
    BY <1>4, <2>2 DEF WithBase
  <2>5. IsList(file.blocks)
    BY <2>3 DEF IsFile
  <2>6. 1 \in DOMAIN file.blocks
    <3>1. DOMAIN file.blocks = 1..Len(file.blocks) /\ Len(file.blocks) \in Nat
      BY <2>5, ListDomain
    <3>2. Len(file.blocks) # 0
      BY <2>4, <2>5 DEF IsList
    <3> QED
      BY <3>1, <3>2
  <2>7. PICK k : k = file.blocks[1].c.index
    OBVIOUS
  <2>8. /\ file.id \in Ids /\ k \in DOMAIN Original(file.id)
        /\ file.blocks[1].c = Original(file.id)[k]
    BY <2>3, <2>6, <2>7 DEF IsFile, AllBlocks, Genuine, Originals
  <2>9. ASSUME input.style # "diff3"
        PROVE  Original(file.id)[k].hasBase = FALSE
    <3>1. Original(file.id) = Merge(File(file.id))
      BY <2>9 DEF Original, constructConflictFile
    <3>2. PICK P : P = Parts(File(file.id))
      OBVIOUS
    <3>3. PICK s : s = [i \in 1..Cardinality(P) |->
            LET x == CHOOSE y \in P : Ordinal(P, y) = i
                part == File(file.id).regions[x[1]][x[2]]
            IN  [our |-> part.our, base |-> part.base, their |-> part.their, hasBase |-> FALSE]]
      OBVIOUS
    <3>4. Original(file.id) = Numbered(s)
      BY <3>1, <3>2, <3>3, Zenon DEF Merge
    <3>5. \A x \in DOMAIN s : s[x].hasBase = FALSE
      BY <3>3
    <3>6. k \in DOMAIN s
      BY <2>8, <3>4 DEF Numbered
    <3>7. Numbered(s)[k].hasBase = s[k].hasBase
      BY <3>6 DEF Numbered
    <3> QED
      BY <3>4, <3>5, <3>6, <3>7
  <2> QED
    BY <2>4, <2>8, <2>9
<1>5. \A id \in Ids : OnlyStyle(store[id])
  BY <1>1 DEF DescInv
<1>6. \A id \in AlignedIds' : AllDescribed(Originals[id], store[id])
  <2>1. AlignedIds' \subseteq Ids
    BY <1>2 DEF AlignedIds
  <2> QED
    BY <1>5, <2>1, StyleDescribed
<1>7. OnlyStyle(results') /\ \A found : AllDescribed(found, results')
  BY <1>1, EmptySays
<1>8. \A m \in DOMAIN files' : Genuine(files'[m], Originals')
  BY <1>1, <1>2 DEF DescInv
<1>9. f' <= Len(files') /\ withBase' => input'.style = "diff3"
  BY <1>1, <1>4
<1> QED
  BY <1>1, <1>2, <1>5, <1>6, <1>7, <1>8, <1>9 DEF DescInv

\* Resolving a block leaves it the block it was.
LEMMA ResolveGenuine ==
  ASSUME NEW all, NEW file, IsFile(file, all), NEW x \in DOMAIN file.blocks,
         NEW g, g = [file EXCEPT !.blocks = [file.blocks EXCEPT ![x] =
                                               [file.blocks[x] EXCEPT !.resolved = TRUE]]],
         NEW found, Genuine(file, found)
  PROVE  g.id = file.id /\ Genuine(g, found)
<1>1. PICK blocks : blocks = [file.blocks EXCEPT ![x] =
                                [file.blocks[x] EXCEPT !.resolved = TRUE]]
  OBVIOUS
<1>2. file = [id |-> file.id, blocks |-> file.blocks, resolved |-> file.resolved]
  BY DEF IsFile
<1>3. g = [id |-> file.id, blocks |-> blocks, resolved |-> file.resolved]
  BY <1>1, <1>2
<1>4. g.id = file.id /\ g.blocks = blocks
  BY <1>3
<1>5. DOMAIN blocks = DOMAIN file.blocks
  BY <1>1
<1>6. blocks[x].c = file.blocks[x].c
  <2>1. file.blocks[x] = [c |-> file.blocks[x].c, resolved |-> file.blocks[x].resolved]
    BY DEF IsFile
  <2>2. blocks[x] = [file.blocks[x] EXCEPT !.resolved = TRUE]
    BY <1>1
  <2> QED
    BY <2>1, <2>2
<1>7. \A y \in DOMAIN file.blocks : blocks[y].c = file.blocks[y].c
  <2>1. \A y \in DOMAIN file.blocks : y # x => blocks[y] = file.blocks[y]
    BY <1>1
  <2> QED
    BY <1>6, <2>1
<1>8. \A y \in DOMAIN blocks : blocks[y].c = found[file.id][blocks[y].c.index]
  BY <1>5, <1>7 DEF Genuine
<1> QED
  BY <1>4, <1>8 DEF Genuine

LEMMA ResolveDesc ==
  ASSUME BlocksInv, DescInv, resolveBlock
  PROVE  DescInv'
<1>1. /\ phase = "blocks" /\ phase' = phase /\ f' = f /\ handler' = handler
      /\ input' = input /\ store' = store /\ conflicts' = conflicts /\ withBase' = withBase
      /\ f <= Len(files) /\ b <= Len(files[f].blocks)
  BY DEF resolveBlock
<1>2. Ids' = Ids /\ Originals' = Originals /\ AlignedIds' = AlignedIds
  BY <1>1, SameOriginals, SameAligned
<1>3. DOMAIN files = 1..Len(files) /\ Len(files) \in Nat
  BY ListDomain DEF BlocksInv, FilesInv
<1>4. PICK file : file = files[f]
  OBVIOUS
<1>5. f \in DOMAIN files /\ b \in Nat \ {0} /\ b <= Len(file.blocks)
  BY <1>1, <1>3, <1>4 DEF BlocksInv, ProgressInv
<1>6. IsFile(file, AllBlocks) /\ Genuine(file, Originals)
  BY <1>4, <1>5 DEF BlocksInv, FilesInv, DescInv
<1>7. b \in DOMAIN file.blocks
  <2>1. DOMAIN file.blocks = 1..Len(file.blocks) /\ Len(file.blocks) \in Nat
    BY <1>6, ListDomain DEF IsFile
  <2> QED
    BY <1>5, <2>1
<1>8. PICK c : c = file.blocks[b].c
  OBVIOUS
<1>9. /\ file.id \in Ids /\ c.index \in DOMAIN Original(file.id)
      /\ Originals[file.id] = Original(file.id)
      /\ c = Original(file.id)[c.index]
  <2>1. file.id \in Ids
    BY <1>6 DEF IsFile, AllBlocks
  <2>2. c.index \in AllBlocks[file.id]
    BY <1>6, <1>7, <1>8 DEF IsFile
  <2>3. c = Originals[file.id][c.index]
    BY <1>6, <1>7, <1>8 DEF Genuine
  <2> QED
    BY <2>1, <2>2, <2>3 DEF AllBlocks, Originals
<1>10. /\ handler = "style" => OnlyStyle(results)
       /\ handler = "style" => \A id \in Ids : OnlyStyle(store[id])
       /\ \A id \in AlignedIds : AllDescribed(Originals[id], store[id])
       /\ file.id \in AlignedIds => AllDescribed(Originals[file.id], results)
       /\ withBase => input.style = "diff3"
       /\ \A m \in DOMAIN files : Genuine(files[m], Originals)
  BY <1>1, <1>4 DEF DescInv
<1>11. CASE files' = files /\ results' = results
  <2>1. files'[f'].id = file.id
    BY <1>1, <1>4, <1>11
  <2> QED
    BY <1>1, <1>2, <1>10, <1>11, <2>1 DEF DescInv
<1>12. ASSUME NEW r \in (IF handler = "style" THEN style(OurCode(c, withBase), c.their)
                         ELSE text(OurCode(c, withBase), c.their, file.id, c.index)),
              files' = [files EXCEPT ![f].blocks[b].resolved = TRUE],
              results' = Append(results, [index |-> c.index, code |-> r.code, desc |-> r.desc])
       PROVE  DescInv'
  <2>1. PICK g : g = [file EXCEPT !.blocks = [file.blocks EXCEPT ![b] =
                                                [file.blocks[b] EXCEPT !.resolved = TRUE]]]
    OBVIOUS
  <2>2. g.id = file.id /\ Genuine(g, Originals)
    BY <1>6, <1>7, <2>1, ResolveGenuine
  <2>3. files' = [files EXCEPT ![f] = g]
    BY <1>4, <1>5, <1>12, <2>1
  <2>4. /\ DOMAIN files' = DOMAIN files /\ files'[f] = g
        /\ \A m \in DOMAIN files : m # f => files'[m] = files[m]
        /\ files' = [m \in 1..Len(files) |-> files'[m]]
    BY <1>3, <1>5, <2>3
  <2>5. \A m \in DOMAIN files' : Genuine(files'[m], Originals)
    BY <1>10, <2>2, <2>4
  <2>6. PICK e : e = [index |-> c.index, code |-> r.code, desc |-> r.desc]
    OBVIOUS
  <2>7. e.index = c.index /\ e.desc = r.desc /\ results' = Append(results, e)
    BY <1>12, <2>6
  <2>8. IsList(results)
    BY DEF BlocksInv
  <2>9. handler = "style" => e.desc = "style"
    <3>1. handler = "style" => r \in style(OurCode(c, withBase), c.their)
      BY <1>12
    <3>2. r \in style(OurCode(c, withBase), c.their) => r.desc = "style"
      BY DEF style
    <3> QED
      BY <2>7, <3>1, <3>2
  <2>10. handler = "style" => OnlyStyle(results')
    BY <1>10, <2>7, <2>8, <2>9, AppendSays
  <2>11. ASSUME file.id \in AlignedIds
         PROVE  Described(c, e)
    <3>1. CASE handler = "style"
      <4>1. e.desc = "style"
        BY <2>9, <3>1
      <4> QED
        BY <4>1 DEF Described
    <3>2. CASE handler # "style"
      <4>1. r \in text(OurCode(c, withBase), c.their, file.id, c.index)
        BY <1>12, <3>2
      <4>2. PICK id \in Ids : id = file.id /\ Aligned(id)
        BY <2>11 DEF AlignedIds
      <4>3. PICK k : k = c.index
        OBVIOUS
      <4>4. k \in DOMAIN Original(id) /\ c = Original(id)[k] /\ input \in Inputs
        BY <1>9, <4>2, <4>3 DEF BlocksInv
      <4>5. /\ SameSides(conflicts[id][k], c) /\ IsConflict(c)
            /\ c.hasBase <=> input.style = "diff3"
        BY <4>2, <4>4, AlignedBlocks
      <4>6. withBase => c.hasBase
        BY <1>10, <4>5
      <4>7. PICK asked : asked = withBase
        OBVIOUS
      <4>8. r \in text(OurCode(c, asked), c.their, id, k) /\ (asked => c.hasBase)
        BY <4>1, <4>2, <4>3, <4>6, <4>7
      <4> QED
        BY <2>7, <4>5, <4>8, TextSays
    <3> QED
      BY <3>1, <3>2
  <2>12. file.id \in AlignedIds => AllDescribed(Originals[file.id], results')
    <3>1. Originals[file.id][e.index] = c
      BY <1>9, <2>7
    <3> QED
      BY <1>10, <2>7, <2>8, <2>11, <3>1, AppendSays
  <2>13. files'[f'].id = file.id
    BY <1>1, <2>2, <2>4
  <2> QED
    BY <1>1, <1>2, <1>10, <2>5, <2>10, <2>12, <2>13 DEF DescInv
<1>13. \/ files' = files /\ results' = results
       \/ \E r \in (IF handler = "style" THEN style(OurCode(c, withBase), c.their)
                    ELSE text(OurCode(c, withBase), c.their, file.id, c.index)) :
            /\ files' = [files EXCEPT ![f].blocks[b].resolved = TRUE]
            /\ results' = Append(results, [index |-> c.index, code |-> r.code, desc |-> r.desc])
  BY <1>4, <1>8, Zenon DEF resolveBlock
<1> QED
  BY <1>11, <1>12, <1>13

LEMMA FinishFileDesc ==
  ASSUME BlocksInv, DescInv, finishFile
  PROVE  DescInv'
<1>1. /\ phase = "blocks" /\ phase' = phase /\ f' = f + 1 /\ results' = <<>>
      /\ input' = input /\ conflicts' = conflicts /\ withBase' = withBase
      /\ handler' = handler /\ f <= Len(files)
  BY DEF finishFile
<1>2. Ids' = Ids /\ Originals' = Originals /\ AlignedIds' = AlignedIds
  BY <1>1, SameOriginals, SameAligned
<1>3. DOMAIN files = 1..Len(files) /\ Len(files) \in Nat
  BY ListDomain DEF BlocksInv, FilesInv
<1>4. PICK file : file = files[f]
  OBVIOUS
<1>5. f \in DOMAIN files
  BY <1>1, <1>3 DEF BlocksInv, ProgressInv
<1>6. IsFile(file, AllBlocks) /\ Genuine(file, Originals)
  BY <1>4, <1>5 DEF BlocksInv, FilesInv, DescInv
<1>7. file.id \in Ids
  BY <1>6 DEF IsFile, AllBlocks
<1>8. /\ handler = "style" => OnlyStyle(results)
      /\ handler = "style" => \A id \in Ids : OnlyStyle(store[id])
      /\ \A id \in AlignedIds : AllDescribed(Originals[id], store[id])
      /\ file.id \in AlignedIds => AllDescribed(Originals[file.id], results)
      /\ withBase => input.style = "diff3"
      /\ \A m \in DOMAIN files : Genuine(files[m], Originals)
  BY <1>1, <1>4 DEF DescInv
\* The file: only its flag changes.
<1>9. PICK g : g = [file EXCEPT !.resolved = AllResolved(file)]
  OBVIOUS
<1>10. g.id = file.id /\ g.blocks = file.blocks
  BY <1>6, <1>9 DEF IsFile
<1>11. Genuine(g, Originals)
  BY <1>6, <1>10 DEF Genuine
<1>12. files' = [files EXCEPT ![f] = g]
  BY <1>4, <1>5, <1>9 DEF finishFile
<1>13. \A m \in DOMAIN files' : Genuine(files'[m], Originals')
  BY <1>2, <1>5, <1>8, <1>11, <1>12
\* The store: the results go to the file they are about.
<1>14. DOMAIN store = Ids /\ IsList(store[file.id]) /\ IsList(results)
  BY <1>7 DEF BlocksInv, StoreInv
<1>15. /\ \A id \in Ids : id # file.id => store'[id] = store[id]
       /\ store'[file.id] = store[file.id] \/ store'[file.id] = store[file.id] \o results
  <2>1. store' = store \/ store' = [store EXCEPT ![file.id] = store[file.id] \o results]
    BY <1>4 DEF finishFile, marshalResolutionResult
  <2> QED
    BY <1>7, <1>14, <2>1
<1>16. handler = "style" => \A id \in Ids : OnlyStyle(store'[id])
  <2>1. handler = "style" => OnlyStyle(store'[file.id])
    BY <1>7, <1>8, <1>14, <1>15, ConcatSays
  <2> QED
    BY <1>8, <1>15, <2>1
<1>17. \A id \in AlignedIds : AllDescribed(Originals[id], store'[id])
  <2>1. file.id \in AlignedIds => AllDescribed(Originals[file.id], store'[file.id])
    <3> SUFFICES ASSUME file.id \in AlignedIds
                 PROVE  AllDescribed(Originals[file.id], store'[file.id])
      OBVIOUS
    <3>1. PICK found : found = Originals[file.id]
      OBVIOUS
    <3>2. PICK list : list = store[file.id]
      OBVIOUS
    <3>3. PICK more : more = results
      OBVIOUS
    <3>4. /\ IsList(list) /\ IsList(more)
          /\ AllDescribed(found, list) /\ AllDescribed(found, more)
      BY <1>8, <1>14, <3>1, <3>2, <3>3
    <3>5. AllDescribed(found, list \o more)
      BY <3>4, ConcatSays
    <3> QED
      BY <1>15, <3>1, <3>2, <3>3, <3>4, <3>5
  <2>2. AlignedIds \subseteq Ids
    BY DEF AlignedIds
  <2> QED
    BY <1>8, <1>15, <2>1, <2>2
<1>18. OnlyStyle(results') /\ \A found : AllDescribed(found, results')
  BY <1>1, EmptySays
<1> QED
  BY <1>1, <1>2, <1>8, <1>13, <1>16, <1>17, <1>18 DEF DescInv

LEMMA FinishHandlerDesc ==
  ASSUME BlocksInv, DescInv, finishHandler
  PROVE  DescInv'
<1>1. /\ phase = "blocks" /\ input' = input /\ store' = store /\ results' = results
      /\ conflicts' = conflicts
      /\ files' = IF \E i \in DOMAIN files : EverResolved(files[i])
                  THEN tidyUpConflictFiles ELSE files
  BY DEF finishHandler
<1>2. \/ handler = "style" /\ phase' = "begin" /\ handler' = "text"
      \/ phase' = "done" /\ handler' = handler
  BY DEF finishHandler
<1>3. Ids' = Ids /\ Originals' = Originals /\ AlignedIds' = AlignedIds
  BY <1>1, SameOriginals, SameAligned
<1>4. \A m \in DOMAIN files' : Genuine(files'[m], Originals)
  <2>1. CASE files' = files
    BY <2>1 DEF DescInv
  <2>2. CASE files' = tidyUpConflictFiles
    <3>1. PICK kept : kept = UnresolvedOf(files)
      OBVIOUS
    <3>2. \A n \in DOMAIN kept : \E p \in DOMAIN files : kept[n] = files[p]
      BY <3>1, UnresolvedList DEF BlocksInv, FilesInv
    <3>3. /\ DOMAIN files' = DOMAIN kept
          /\ \A n \in DOMAIN kept : files'[n] = tidyUpConflictBlocks(kept[n])
      BY <2>2, <3>1 DEF tidyUpConflictFiles
    <3> SUFFICES ASSUME NEW n \in DOMAIN kept
                 PROVE  Genuine(files'[n], Originals)
      BY <3>3
    <3>4. PICK file : file = kept[n]
      OBVIOUS
    <3>5. IsFile(file, AllBlocks) /\ Genuine(file, Originals)
      BY <3>2, <3>4 DEF BlocksInv, FilesInv, DescInv
    <3>6. PICK blocks : blocks = UnresolvedOf(file.blocks)
      OBVIOUS
    <3>7. \A x \in DOMAIN blocks : \E p \in DOMAIN file.blocks : blocks[x] = file.blocks[p]
      BY <3>5, <3>6, UnresolvedList DEF IsFile
    <3>8. file = [id |-> file.id, blocks |-> file.blocks, resolved |-> file.resolved]
      BY <3>5 DEF IsFile
    <3>9. PICK g : g = tidyUpConflictBlocks(file)
      OBVIOUS
    <3>10. g = [id |-> file.id, blocks |-> blocks, resolved |-> file.resolved]
      BY <3>6, <3>8, <3>9 DEF tidyUpConflictBlocks
    <3>11. g.id = file.id /\ g.blocks = blocks
      BY <3>10
    <3>12. \A x \in DOMAIN blocks : blocks[x].c = Originals[file.id][blocks[x].c.index]
      BY <3>5, <3>7 DEF Genuine
    <3>13. Genuine(g, Originals)
      BY <3>11, <3>12 DEF Genuine
    <3> QED
      BY <3>3, <3>4, <3>9, <3>13
  <2> QED
    BY <1>1, <2>1, <2>2
<1>5. handler = "style" => OnlyStyle(results) /\ \A id \in Ids : OnlyStyle(store[id])
  BY DEF DescInv
<1>6. \A id \in AlignedIds : AllDescribed(Originals[id], store[id])
  BY DEF DescInv
<1>7. phase' # "blocks" /\ (phase' = "begin" \/ handler' = "style" => handler = "style")
  BY <1>2
<1> QED
  BY <1>1, <1>3, <1>4, <1>5, <1>6, <1>7 DEF DescInv

LEMMA DescStep ==
  ASSUME BlocksInv, DescInv, [Next]_vars
  PROVE  DescInv'
<1>1. CASE beginHandler
  BY <1>1, BeginDesc
<1>2. CASE resolveBlock
  BY <1>2, ResolveDesc
<1>3. CASE finishFile
  BY <1>3, FinishFileDesc
<1>4. CASE finishHandler
  BY <1>4, FinishHandlerDesc
<1>5. CASE UNCHANGED vars
  <2>1. /\ input' = input /\ phase' = phase /\ handler' = handler /\ withBase' = withBase
        /\ files' = files /\ conflicts' = conflicts /\ f' = f
        /\ results' = results /\ store' = store
    BY <1>5 DEF vars
  <2>2. Ids' = Ids /\ Originals' = Originals /\ AlignedIds' = AlignedIds
    BY <2>1, SameOriginals, SameAligned
  <2> QED
    BY <2>1, <2>2 DEF DescInv
<1> QED
  BY <1>1, <1>2, <1>3, <1>4, <1>5 DEF Next

LEMMA DescribedByInv ==
  ASSUME DescInv
  PROVE  DescribedIfAligned
<1> SUFFICES ASSUME NEW id \in Ids, Aligned(id), NEW n \in DOMAIN store[id]
             PROVE  Described(Original(id)[store[id][n].index], store[id][n])
  BY DEF DescribedIfAligned, ToSet
<1>1. id \in AlignedIds /\ Originals[id] = Original(id)
  BY DEF AlignedIds, Originals
<1>2. AllDescribed(Original(id), store[id])
  BY <1>1 DEF DescInv
<1> QED
  BY <1>2 DEF AllDescribed

\* The blocks a handler gets are those that were found, and its descriptions are so
\* where the blocks were looked up in the right place (TextBasedHandler.cpp).
THEOREM DescInvariant == Spec => []DescInv
<1>1. Init => DescInv
  BY InitDesc
<1>2. BlocksInv /\ DescInv /\ [Next]_vars => DescInv'
  BY DescStep
<1> QED
  BY <1>1, <1>2, BlocksInvariant, PTL DEF Spec

\* Wherever a file's list under conflicts/ is its own diff3 merge and no conflict of
\* it was split, every "deletion" in the store is one, and every one-sided change is
\* one-sided, for every merge and every run of git merge-file that fails
\* (TextBasedHandler.cpp, checkDeletion and checkOneSideDelta).
THEOREM DescriptionsRestOnAlignment == Spec => []DescribedIfAligned
<1>1. DescInv => DescribedIfAligned
  BY DescribedByInv
<1> QED
  BY <1>1, DescInvariant, PTL

-----------------------------------------------------------------------------
(* What is kept of a list, and in which order. *)

LEMMA SeqList ==
  ASSUME NEW X, NEW s \in Seq(X)
  PROVE  /\ IsList(s) /\ DOMAIN s = 1..Len(s) /\ Len(s) \in Nat
         /\ \A n \in DOMAIN s : s[n] \in X
<1> QED
  BY DEF IsList

LEMMA FinitePlaces ==
  ASSUME NEW s, IsList(s), NEW P, P \subseteq DOMAIN s
  PROVE  IsFiniteSet(P) /\ P \subseteq Nat
<1>1. DOMAIN s = 1..Len(s) /\ Len(s) \in Nat
  BY ListDomain
<1>2. PICK n \in Nat : DOMAIN s = 1..n
  BY <1>1, Zenon
<1>3. IsFiniteSet(1..n)
  BY FS_Interval
<1>4. IsFiniteSet(P)
  BY <1>2, <1>3, FS_Subset
<1> QED
  BY <1>2, <1>4

LEMMA KeptList ==
  ASSUME NEW s, NEW P, IsFiniteSet(P), P \subseteq Nat
  PROVE  /\ IsList(Kept(s, P)) /\ DOMAIN Kept(s, P) = 1..Cardinality(P)
         /\ \A n \in 1..Cardinality(P) : Kept(s, P)[n] = s[Position(P, n)]
<1>1. PICK N \in Nat : N = Cardinality(P)
  BY FS_CardinalityType
<1>2. PICK k : k = Kept(s, P)
  OBVIOUS
<1>3. k = [n \in 1..N |-> s[Position(P, n)]]
  BY <1>1, <1>2 DEF Kept
<1>4. k = [n \in 1..N |-> k[n]]
  BY <1>3
<1>5. IsList(k)
  BY <1>4, FunctionList
<1> QED
  BY <1>1, <1>2, <1>3, <1>5

\* If the places of one list can be found in another, in the same order, what is
\* kept of them is there in that order.
LEMMA KeptInOrder ==
  ASSUME NEW P, IsFiniteSet(P), P \subseteq Nat, NEW Q, IsFiniteSet(Q), Q \subseteq Nat,
         NEW u, NEW q, NEW g \in [P -> Q], \A p \in P : q[g[p]] = u[p],
         \A m, n \in P : m < n => g[m] < g[n]
  PROVE  InOrder(Kept(u, P), Kept(q, Q))
<1>1. PICK M \in Nat : M = Cardinality(P)
  BY FS_CardinalityType
<1>2. PICK N \in Nat : N = Cardinality(Q)
  BY FS_CardinalityType
<1>3. /\ \A n \in 1..M : Position(P, n) \in P
      /\ \A m, n \in 1..M : m < n => Position(P, m) < Position(P, n)
  BY <1>1, Positions
<1>4. /\ \A p \in Q : \E n \in 1..N : Position(Q, n) = p
      /\ \A m, n \in 1..N : m < n => Position(Q, m) < Position(Q, n)
      /\ \A n \in 1..N : Position(Q, n) \in Q
  BY <1>2, Positions
<1>5. PICK v : v = Kept(u, P)
  OBVIOUS
<1>6. PICK w : w = Kept(q, Q)
  OBVIOUS
<1>7. /\ DOMAIN v = 1..M /\ \A n \in 1..M : v[n] = u[Position(P, n)]
      /\ DOMAIN w = 1..N /\ \A n \in 1..N : w[n] = q[Position(Q, n)]
  <2>1. DOMAIN v = 1..M /\ \A n \in 1..M : v[n] = u[Position(P, n)]
    BY <1>1, <1>5 DEF Kept
  <2>2. DOMAIN w = 1..N /\ \A n \in 1..N : w[n] = q[Position(Q, n)]
    BY <1>2, <1>6 DEF Kept
  <2> QED
    BY <2>1, <2>2
<1>8. PICK at : at = [n \in 1..M |-> CHOOSE m \in 1..N : Position(Q, m) = g[Position(P, n)]]
  OBVIOUS
<1>9. \A n \in 1..M : at[n] \in 1..N /\ Position(Q, at[n]) = g[Position(P, n)]
  BY <1>3, <1>4, <1>8
<1>10. at \in [DOMAIN v -> DOMAIN w]
  BY <1>7, <1>8, <1>9
<1>11. ASSUME NEW n \in DOMAIN v
       PROVE  w[at[n]] = v[n]
  <2>1. n \in 1..M /\ Position(P, n) \in P
    BY <1>3, <1>7
  <2>2. w[at[n]] = q[g[Position(P, n)]]
    BY <1>7, <1>9, <2>1
  <2>3. q[g[Position(P, n)]] = u[Position(P, n)]
    BY <2>1
  <2> QED
    BY <1>7, <2>1, <2>2, <2>3
<1>12. ASSUME NEW m \in 1..M, NEW n \in 1..M, m < n
       PROVE  at[m] < at[n]
  <2>1. g[Position(P, m)] < g[Position(P, n)]
    BY <1>3, <1>12
  <2>2. PICK x \in 1..N : x = at[m] /\ Position(Q, x) = g[Position(P, m)]
    BY <1>9
  <2>3. PICK y \in 1..N : y = at[n] /\ Position(Q, y) = g[Position(P, n)]
    BY <1>9
  <2>4. Position(Q, x) < Position(Q, y) /\ Position(Q, x) \in Nat /\ Position(Q, y) \in Nat
    BY <1>4, <2>1, <2>2, <2>3
  <2>5. ~(y < x) /\ y # x
    <3>1. y < x => Position(Q, y) < Position(Q, x)
      BY <1>4
    <3> QED
      BY <2>4, <3>1
  <2> QED
    BY <2>2, <2>3, <2>5
<1>13. \A m, n \in DOMAIN v : m < n => at[m] < at[n]
  BY <1>7, <1>12
<1> QED
  BY <1>5, <1>6, <1>10, <1>11, <1>13 DEF InOrder

\* The lines that are not comments.
Places(s) == {p \in DOMAIN s : Core[s[p]] # <<>>}

\* A list has its lines in the other's order if every line of code, and that is
\* the first such, can be found there in the same order.
LEMMA LinesInOrder ==
  ASSUME NEW s, IsList(s), NEW q, IsList(q), NEW G, G \subseteq DOMAIN s,
         NEW g \in [G -> DOMAIN q], \A p \in G : q[g[p]] = s[p],
         \A m, n \in G : m < n => g[m] < g[n],
         \A p \in Places(s) : (\A x \in Places(s) : s[x] = s[p] => p <= x) => p \in G
  PROVE  InOrder(Unique(CodeLines(s)), CodeLines(q))
<1>1. PICK P : P = Places(s)
  OBVIOUS
<1>2. PICK Q : Q = Places(q)
  OBVIOUS
<1>3. IsFiniteSet(P) /\ P \subseteq Nat /\ IsFiniteSet(Q) /\ Q \subseteq Nat
  BY <1>1, <1>2, FinitePlaces DEF Places
<1>4. PICK N \in Nat : N = Cardinality(P)
  BY <1>3, FS_CardinalityType
<1>5. /\ \A n \in 1..N : Position(P, n) \in P
      /\ \A p \in P : \E n \in 1..N : Position(P, n) = p
      /\ \A m, n \in 1..N : m < n => Position(P, m) < Position(P, n)
  BY <1>3, <1>4, Positions
<1>6. PICK u : u = CodeLines(s)
  OBVIOUS
<1>9. u = Kept(s, P) /\ CodeLines(q) = Kept(q, Q)
  BY <1>1, <1>2, <1>6, Zenon DEF CodeLines, Places
<1>11. P \subseteq DOMAIN s /\ \A p \in P : Core[s[p]] # <<>>
  BY <1>1 DEF Places
<1>12. DOMAIN u = 1..N /\ \A n \in 1..N : u[n] = s[Position(P, n)]
  BY <1>4, <1>9 DEF Kept
<1>13. PICK F : F = {n \in DOMAIN u : \A m \in 1..(n - 1) : u[m] # u[n]}
  OBVIOUS
<1>14. Unique(u) = Kept(u, F)
  BY <1>13 DEF Unique
<1>15. F \subseteq 1..N /\ F \subseteq Nat /\ IsFiniteSet(F)
  <2>1. F \subseteq 1..N
    BY <1>12, <1>13
  <2>2. IsFiniteSet(1..N)
    BY FS_Interval
  <2>3. IsFiniteSet(F)
    BY <2>1, <2>2, FS_Subset
  <2> QED
    BY <2>1, <2>3
<1>16. ASSUME NEW n \in F
       PROVE  Position(P, n) \in G
  <2>1. PICK p \in P : p = Position(P, n)
    BY <1>5, <1>15
  <2>2. p \in Places(s) /\ n \in 1..N
    BY <1>1, <1>15, <2>1
  <2>3. ASSUME NEW x \in Places(s), s[x] = s[p]
        PROVE  p <= x
    <3>1. PICK m \in 1..N : Position(P, m) = x
      BY <1>1, <1>5
    <3>2. u[m] = u[n]
      BY <1>12, <2>1, <2>2, <2>3, <3>1
    <3>3. ~(m < n)
      <4>1. m < n => m \in 1..(n - 1)
        BY <2>2
      <4> QED
        BY <1>13, <3>2, <4>1
    <3>4. m = n \/ n < m
      BY <2>2, <3>3
    <3>5. p = x \/ p < x
      BY <1>5, <2>1, <2>2, <3>1, <3>4
    <3>6. p \in Nat /\ x \in Nat
      BY <1>1, <1>3
    <3> QED
      BY <3>5, <3>6
  <2> QED
    BY <2>1, <2>2, <2>3
<1>17. PICK h : h = [n \in F |-> g[Position(P, n)]]
  OBVIOUS
<1>18. ASSUME NEW n \in F
       PROVE  h[n] \in Q /\ q[h[n]] = u[n]
  <2>1. PICK p \in G : p = Position(P, n)
    BY <1>16
  <2>2. n \in 1..N /\ p \in P
    BY <1>5, <1>15, <2>1
  <2>3. h[n] = g[p] /\ g[p] \in DOMAIN q /\ q[g[p]] = s[p]
    BY <1>17, <2>1
  <2>4. Core[s[p]] # <<>> /\ u[n] = s[p]
    BY <1>11, <1>12, <2>1, <2>2
  <2>6. g[p] \in Q
    BY <1>2, <2>3, <2>4 DEF Places
  <2> QED
    BY <2>3, <2>4, <2>6
<1>19. ASSUME NEW m \in F, NEW n \in F, m < n
       PROVE  h[m] < h[n]
  <2>1. Position(P, m) < Position(P, n)
    BY <1>5, <1>15, <1>19
  <2> QED
    BY <1>16, <1>17, <2>1
<1>20. h \in [F -> Q]
  BY <1>17, <1>18
<1>21. InOrder(Kept(u, F), Kept(q, Q))
  BY <1>3, <1>15, <1>18, <1>19, <1>20, KeptInOrder
<1> QED
  BY <1>6, <1>9, <1>14, <1>21

LEMMA OrderKept ==
  ASSUME NEW s, IsList(s), NEW q, IsList(q), InOrder(s, q)
  PROVE  InOrder(Unique(CodeLines(s)), CodeLines(q))
<1>1. PICK at \in [DOMAIN s -> DOMAIN q] :
        /\ \A i \in DOMAIN s : q[at[i]] = s[i]
        /\ \A i, j \in DOMAIN s : i < j => at[i] < at[j]
  BY DEF InOrder
<1>2. PICK G : G = DOMAIN s
  OBVIOUS
<1>3. /\ G \subseteq DOMAIN s /\ at \in [G -> DOMAIN q]
      /\ \A p \in G : q[at[p]] = s[p]
      /\ \A m, n \in G : m < n => at[m] < at[n]
      /\ \A p \in Places(s) : p \in G
  BY <1>1, <1>2 DEF Places
<1> QED
  BY <1>3, LinesInOrder

\* A list is in order in itself and in what it begins.
LEMMA SameOrder ==
  ASSUME NEW s, IsList(s)
  PROVE  InOrder(s, s)
<1>1. PICK at : at = [i \in DOMAIN s |-> i]
  OBVIOUS
<1>2. at \in [DOMAIN s -> DOMAIN s] /\ \A i \in DOMAIN s : at[i] = i
  BY <1>1
<1> QED
  BY <1>2 DEF InOrder

LEMMA PrefixOrder ==
  ASSUME NEW X, NEW s \in Seq(X), NEW v \in Seq(X), NEW q, q = s \o v
  PROVE  InOrder(s, q)
<1>1. PICK at : at = [i \in DOMAIN s |-> i]
  OBVIOUS
<1>2. /\ DOMAIN s = 1..Len(s) /\ Len(s) \in Nat
      /\ DOMAIN q = 1..(Len(s) + Len(v)) /\ Len(v) \in Nat
      /\ \A i \in 1..Len(s) : q[i] = s[i]
  OBVIOUS
<1>3. DOMAIN s \subseteq DOMAIN q
  BY <1>2
<1>4. at \in [DOMAIN s -> DOMAIN q] /\ \A i \in DOMAIN s : at[i] = i
  BY <1>1, <1>3
<1>5. \A i \in DOMAIN s : q[at[i]] = s[i]
  BY <1>2, <1>4
<1>6. \A i, j \in DOMAIN s : i < j => at[i] < at[j]
  BY <1>4
<1> QED
  BY <1>4, <1>5, <1>6, Zenon DEF InOrder

LEMMA OrderWithin ==
  ASSUME NEW s, NEW t, NEW q, InOrder(s, t), InOrder(t, q)
  PROVE  InOrder(s, q)
<1>1. PICK at \in [DOMAIN s -> DOMAIN t] :
        /\ \A i \in DOMAIN s : t[at[i]] = s[i]
        /\ \A i, j \in DOMAIN s : i < j => at[i] < at[j]
  BY DEF InOrder
<1>2. PICK to \in [DOMAIN t -> DOMAIN q] :
        /\ \A i \in DOMAIN t : q[to[i]] = t[i]
        /\ \A i, j \in DOMAIN t : i < j => to[i] < to[j]
  BY DEF InOrder
<1>3. PICK g : g = [i \in DOMAIN s |-> to[at[i]]]
  OBVIOUS
<1>4. /\ g \in [DOMAIN s -> DOMAIN q]
      /\ \A i \in DOMAIN s : g[i] = to[at[i]] /\ at[i] \in DOMAIN t
  BY <1>3
<1>5. \A i \in DOMAIN s : q[g[i]] = s[i]
  BY <1>1, <1>2, <1>4
<1>6. \A i, j \in DOMAIN s : i < j => g[i] < g[j]
  BY <1>1, <1>2, <1>4
<1> QED
  BY <1>4, <1>5, <1>6 DEF InOrder

\* isSubSequence: what it counts are lines of t found in s in order.
LEMMA SubSequenceOrder ==
  ASSUME NEW s, IsList(s), NEW t, IsList(t), isSubSequence(s, t)
  PROVE  InOrder(t, s)
<1>1. PICK n \in Nat : n = Len(s) /\ DOMAIN s = 1..n
  BY ListDomain
<1>2. PICK l \in Nat : l = Len(t) /\ DOMAIN t = 1..l
  BY ListDomain
<1> DEFINE next(i, x) == IF x < Len(t) /\ s[i] = t[x + 1] THEN x + 1 ELSE x
           j == CHOOSE k : k = [i \in 0..Len(s) |-> IF i = 0 THEN 0 ELSE next(i, k[i - 1])]
<1>3. j[n] = l
  <2>1. j[Len(s)] = Len(t)
    BY Zenon DEF isSubSequence
  <2> QED
    BY <1>1, <1>2, <2>1
<1>4. PICK h : h = [i \in Nat \ {0} |-> [x \in Nat |-> next(i, x)]]
  OBVIOUS
<1>5. h \in [Nat \ {0} -> [Nat -> Nat]]
  BY <1>2, <1>4
<1>6. \A i \in 1..n : \A x \in Nat : h[i][x] = next(i, x)
  <2>1. 1..n \subseteq Nat \ {0}
    OBVIOUS
  <2> HIDE DEF next
  <2> QED
    BY <1>4, <2>1
<1>7. PICK g \in [0..n -> Nat] : Unrolled(g, n, 0, h)
  <2>1. PICK V : V = Nat
    OBVIOUS
  <2>2. PICK v \in V : v = 0
    BY <2>1
  <2>3. h \in [Nat \ {0} -> [V -> V]]
    BY <1>5, <2>1
  <2>4. \E g \in [0..n -> V] : Unrolled(g, n, v, h)
    BY <2>3, Recursion
  <2> QED
    BY <2>1, <2>2, <2>4
<1>8. \A i \in 1..n : i - 1 \in 0..n /\ i \in 0..n /\ i # 0
  OBVIOUS
<1>9. g = [i \in 0..Len(s) |-> IF i = 0 THEN 0 ELSE next(i, g[i - 1])]
  <2>1. \A i \in 0..n : g[i] = IF i = 0 THEN 0 ELSE next(i, g[i - 1])
    <3> SUFFICES ASSUME NEW i \in 0..n
                 PROVE  g[i] = IF i = 0 THEN 0 ELSE next(i, g[i - 1])
      OBVIOUS
    <3>1. CASE i = 0
      BY <1>7, <3>1 DEF Unrolled
    <3>2. CASE i # 0
      <4>1. i \in 1..n /\ i - 1 \in 0..n
        BY <3>2
      <4>2. g[i] = h[i][g[i - 1]] /\ g[i - 1] \in Nat
        BY <1>7, <4>1 DEF Unrolled
      <4> HIDE DEF next
      <4> QED
        BY <1>6, <3>2, <4>1, <4>2
    <3> QED
      BY <3>1, <3>2
  <2> HIDE DEF next
  <2> QED
    BY <1>1, <2>1
<1>10. j = [i \in 0..Len(s) |-> IF i = 0 THEN 0 ELSE next(i, j[i - 1])]
  <2> HIDE DEF next
  <2> QED
    BY <1>9, Zenon
<1> HIDE DEF j
<1>11. j[0] = 0 /\ \A i \in 1..n : j[i] = next(i, j[i - 1])
  <2> HIDE DEF next
  <2> QED
    BY <1>1, <1>8, <1>10
<1> DEFINE Placed(k, i) == \E at \in [1..k -> 1..i] :
                            /\ \A x \in 1..k : s[at[x]] = t[x]
                            /\ \A x, y \in 1..k : x < y => at[x] < at[y]
           T == {i \in Nat : i <= n => j[i] \in 0..l /\ Placed(j[i], i)}
<1>12. 0 \in T
  <2>1. PICK at : at = [x \in 1..0 |-> 0]
    OBVIOUS
  <2>2. at \in [1..0 -> 1..0]
    BY <2>1
  <2>4. ~\E x : x \in 1..0
    OBVIOUS
  <2>3. Placed(0, 0)
    BY <2>2, <2>4
  <2> HIDE DEF Placed
  <2> QED
    BY <1>11, <2>3
<1>13. ASSUME NEW i \in T
       PROVE  i + 1 \in T
  <2>1. i \in Nat
    OBVIOUS
  <2>2. SUFFICES ASSUME i + 1 <= n
                 PROVE  j[i + 1] \in 0..l /\ Placed(j[i + 1], i + 1)
    <3> HIDE DEF Placed
    <3> QED
      BY <2>1
  <2>3. PICK k : k = j[i]
    OBVIOUS
  <2>4. k \in 0..l /\ Placed(k, i)
    <3> HIDE DEF Placed
    <3> QED
      BY <2>1, <2>2, <2>3
  <2>5. PICK at \in [1..k -> 1..i] : /\ \A x \in 1..k : s[at[x]] = t[x]
                                     /\ \A x, y \in 1..k : x < y => at[x] < at[y]
    BY <2>4
  <2>6. i + 1 \in 1..n /\ (i + 1) - 1 = i /\ 1..i \subseteq 1..(i + 1)
    BY <2>1, <2>2
  <2>7. j[i + 1] = next(i + 1, k)
    <3> HIDE DEF next
    <3> QED
      BY <1>11, <2>3, <2>6
  <2>8. CASE k < l /\ s[i + 1] = t[k + 1]
    <3>1. j[i + 1] = k + 1 /\ k + 1 \in 0..l /\ k \in Nat
      BY <1>2, <2>4, <2>7, <2>8
    <3>2. PICK to : to = [x \in 1..(k + 1) |-> IF x = k + 1 THEN i + 1 ELSE at[x]]
      OBVIOUS
    <3>3. \A x \in 1..(k + 1) : x # k + 1 => x \in 1..k
      BY <3>1
    <3>4. \A x \in 1..k : at[x] \in 1..i /\ at[x] < i + 1 /\ at[x] \in 1..(i + 1)
      BY <2>1, <2>5
    <3>5. to \in [1..(k + 1) -> 1..(i + 1)]
      BY <2>1, <3>2, <3>3, <3>4
    <3>6. to[k + 1] = i + 1 /\ \A x \in 1..k : to[x] = at[x]
      BY <3>1, <3>2
    <3>7. \A x \in 1..(k + 1) : s[to[x]] = t[x]
      BY <2>5, <2>8, <3>3, <3>6
    <3>8. ASSUME NEW x \in 1..(k + 1), NEW y \in 1..(k + 1), x < y
          PROVE  to[x] < to[y]
      <4>1. x \in 1..k
        BY <3>1, <3>8
      <4>2. CASE y = k + 1
        BY <3>4, <3>6, <4>1, <4>2
      <4>3. CASE y # k + 1
        BY <2>5, <3>3, <3>6, <3>8, <4>1, <4>3
      <4> QED
        BY <4>2, <4>3
    <3>9. Placed(k + 1, i + 1)
      BY <3>5, <3>7, <3>8
    <3> HIDE DEF Placed
    <3> QED
      BY <3>1, <3>9
  <2>9. CASE ~(k < l /\ s[i + 1] = t[k + 1])
    <3>1. j[i + 1] = k
      BY <1>2, <2>7, <2>9
    <3>2. at \in [1..k -> 1..(i + 1)]
      BY <2>5, <2>6
    <3>3. Placed(k, i + 1)
      BY <2>5, <3>2
    <3> HIDE DEF Placed
    <3> QED
      BY <2>4, <3>1, <3>3
  <2> QED
    BY <2>8, <2>9
<1>14. T = Nat
  <2>1. T \subseteq Nat
    OBVIOUS
  <2> HIDE DEF T
  <2> QED
    BY <1>12, <1>13, <2>1, SetInduction
<1>15. Placed(l, n)
  <2>1. n \in T
    <3> HIDE DEF T
    <3> QED
      BY <1>14
  <2> HIDE DEF Placed
  <2> QED
    BY <1>3, <2>1
<1> QED
  BY <1>1, <1>2, <1>15 DEF InOrder

-----------------------------------------------------------------------------
(* List merge. *)

\* The places that Unique keeps.
Firsts(v) == {p \in DOMAIN v : \A q \in 1..(p - 1) : v[q] # v[p]}

LEMMA UniqueList ==
  ASSUME NEW v, IsList(v)
  PROVE  /\ Unique(v) = Kept(v, Firsts(v)) /\ IsList(Unique(v))
         /\ IsFiniteSet(Firsts(v)) /\ Firsts(v) \subseteq Nat /\ Firsts(v) \subseteq DOMAIN v
         /\ DOMAIN Unique(v) = 1..Cardinality(Firsts(v))
         /\ \A n \in DOMAIN Unique(v) : Unique(v)[n] = v[Position(Firsts(v), n)]
         /\ \A n \in DOMAIN Unique(v) : Unique(v)[n] \in ToSet(v)
<1>1. PICK F : F = Firsts(v)
  OBVIOUS
<1>2. PICK u : u = Unique(v)
  OBVIOUS
<1>3. u = Kept(v, F)
  BY <1>1, <1>2 DEF Unique, Firsts
<1>4. F \subseteq DOMAIN v
  BY <1>1 DEF Firsts
<1>5. IsFiniteSet(F) /\ F \subseteq Nat
  BY <1>4, FinitePlaces
<1>6. IsList(Kept(v, F)) /\ DOMAIN Kept(v, F) = 1..Cardinality(F)
  BY <1>5, KeptList
<1>7. \A n \in 1..Cardinality(F) : Kept(v, F)[n] = v[Position(F, n)] /\ Position(F, n) \in F
  <2>1. \A n \in 1..Cardinality(F) : Position(F, n) \in F
    BY <1>5, Positions
  <2>2. \A n \in 1..Cardinality(F) : Kept(v, F)[n] = v[Position(F, n)]
    BY <1>5, KeptList
  <2> QED
    BY <2>1, <2>2
<1>8. \A n \in DOMAIN u : u[n] \in ToSet(v)
  BY <1>3, <1>4, <1>6, <1>7 DEF ToSet
<1> QED
  BY <1>1, <1>2, <1>3, <1>4, <1>5, <1>6, <1>7, <1>8

LEMMA FiniteEdges ==
  ASSUME NEW v, IsList(v)
  PROVE  IsFiniteSet(Edges(v))
<1>1. PICK n \in Nat : n = Len(v)
  BY ListDomain
<1>2. IsFiniteSet(1..(n - 1))
  BY FS_Interval
<1>3. PICK E : E = Edges(v)
  OBVIOUS
<1>4. E = {<<v[i], v[i + 1]>> : i \in 1..(n - 1)}
  BY <1>1, <1>3 DEF Edges
<1>5. PICK g : g = [i \in 1..(n - 1) |-> <<v[i], v[i + 1]>>]
  OBVIOUS
<1>6. g \in Surjection(1..(n - 1), E)
  BY <1>4, <1>5 DEF Surjection
<1>7. PICK S : S = 1..(n - 1)
  OBVIOUS
<1>8. IsFiniteSet(E)
  BY <1>2, <1>6, <1>7, FS_Surjection
<1> QED
  BY <1>3, <1>8

LEMMA FiniteItems ==
  ASSUME NEW v, IsList(v)
  PROVE  IsFiniteSet(ToSet(v))
<1>1. PICK n \in Nat : DOMAIN v = 1..n
  BY ListDomain
<1>2. PICK S : S = 1..n
  OBVIOUS
<1>3. IsFiniteSet(S)
  BY <1>2, FS_Interval
<1>4. PICK E : E = ToSet(v)
  OBVIOUS
<1>5. PICK g : g = [i \in S |-> v[i]]
  OBVIOUS
<1>6. g \in Surjection(S, E)
  BY <1>1, <1>2, <1>4, <1>5 DEF Surjection, ToSet
<1>7. IsFiniteSet(E)
  BY <1>3, <1>6, FS_Surjection
<1> QED
  BY <1>4, <1>7

\* An order of all the nodes names each once.
LEMMA AllNodes ==
  ASSUME NEW S, IsFiniteSet(S), NEW q \in SetToSeqs(S)
  PROVE  /\ IsList(q) /\ Len(q) = Cardinality(S) /\ DOMAIN q = 1..Len(q) /\ Len(q) \in Nat
         /\ \A i \in DOMAIN q : q[i] \in S
         /\ \A i, j \in DOMAIN q : q[i] = q[j] => i = j
         /\ \A x \in S : \E i \in DOMAIN q : q[i] = x
<1>1. PICK N \in Nat : N = Cardinality(S)
  BY FS_CardinalityType
<1>2. q \in [1..N -> S] /\ \A i, j \in 1..N : i # j => q[i] # q[j]
  BY <1>1 DEF SetToSeqs
<1>3. PICK I : I = 1..N
  OBVIOUS
<1>4. q \in Injection(I, S)
  BY <1>2, <1>3 DEF Injection, IsInjective
<1>5. Cardinality(I) = N
  BY <1>3, FS_Interval
<1>6. q \in Surjection(I, S)
  BY <1>1, <1>4, <1>5, FS_Injection
<1>7. \A x \in S : \E i \in 1..N : q[i] = x
  BY <1>3, <1>6 DEF Surjection
<1>8. q = [i \in 1..N |-> q[i]] /\ DOMAIN q = 1..N
  BY <1>2
<1>9. IsList(q) /\ Len(q) = N
  BY <1>8, FunctionList
<1> QED
  BY <1>1, <1>2, <1>7, <1>8, <1>9

\* DependencyGraph::topologicalSort puts the start of every edge before its end: the
\* in-degree, in which an edge added twice counts twice, is covered by the nodes
\* that were taken before.
LEMMA SortOrder ==
  ASSUME NEW S, IsFiniteSet(S), NEW E1, IsFiniteSet(E1), NEW E2, IsFiniteSet(E2),
         E1 \subseteq S \X S, E2 \subseteq S \X S,
         NEW q \in topologicalSort(S, E1, E2), NEW x, NEW y, <<x, y>> \in E1 \cup E2
  PROVE  \E m, n \in DOMAIN q : m < n /\ q[m] = x /\ q[n] = y
<1>1. q \in SetToSeqs(S)
  BY DEF topologicalSort
<1>2. /\ DOMAIN q = 1..Len(q) /\ Len(q) \in Nat
      /\ \A i, j \in DOMAIN q : q[i] = q[j] => i = j
      /\ \A z \in S : \E i \in DOMAIN q : q[i] = z
  BY <1>1, AllNodes
<1>3. y \in S
  OBVIOUS
<1>4. PICK n \in DOMAIN q : q[n] = y
  BY <1>2, <1>3
<1>5. PICK A1 : A1 = {e \in E1 : e[2] = y}
  OBVIOUS
<1>6. PICK A2 : A2 = {e \in E2 : e[2] = y}
  OBVIOUS
<1>7. PICK B : B = {m \in 1..(n - 1) : <<q[m], y>> \in E1 \cup E2}
  OBVIOUS
<1>8. Cardinality(A1) + Cardinality(A2) = Cardinality(B)
  BY <1>4, <1>5, <1>6, <1>7 DEF topologicalSort
<1>9. IsFiniteSet(A1) /\ IsFiniteSet(A2)
  <2>1. A1 \subseteq E1 /\ A2 \subseteq E2
    BY <1>5, <1>6
  <2> QED
    BY <2>1, FS_Subset
<1>10. PICK A : A = A1 \cup A2
  OBVIOUS
<1>11. /\ IsFiniteSet(A) /\ Cardinality(A) <= Cardinality(A1) + Cardinality(A2)
       /\ Cardinality(A) \in Nat
  <2>1. IsFiniteSet(A1 \cup A2) /\ Cardinality(A1 \cup A2) =
          Cardinality(A1) + Cardinality(A2) - Cardinality(A1 \cap A2)
    BY <1>9, FS_Union
  <2>2. IsFiniteSet(A1 \cap A2)
    BY <1>9, FS_Intersection
  <2>3. Cardinality(A1) \in Nat /\ Cardinality(A2) \in Nat /\ Cardinality(A1 \cap A2) \in Nat
    BY <1>9, <2>2, FS_CardinalityType
  <2>4. Cardinality(A1 \cup A2) \in Nat
    BY <2>1, FS_CardinalityType
  <2> QED
    BY <1>10, <2>1, <2>3, <2>4
<1>12. B \subseteq DOMAIN q /\ \A m \in B : m < n /\ <<q[m], y>> \in A
  <2>1. 1..(n - 1) \subseteq 1..Len(q) /\ \A m \in 1..(n - 1) : m < n
    BY <1>2
  <2>2. \A m \in B : m \in 1..(n - 1) /\ (<<q[m], y>> \in E1 \/ <<q[m], y>> \in E2)
    BY <1>7
  <2>3. \A m \in B : <<q[m], y>>[2] = y
    OBVIOUS
  <2>4. \A m \in B : <<q[m], y>> \in A1 \/ <<q[m], y>> \in A2
    BY <1>5, <1>6, <2>2, <2>3
  <2> QED
    BY <1>2, <1>10, <2>1, <2>2, <2>4
<1>13. PICK g : g = [m \in B |-> <<q[m], y>>]
  OBVIOUS
<1>14. g \in Injection(B, A)
  <2>1. g \in [B -> A]
    BY <1>12, <1>13
  <2>2. ASSUME NEW m \in B, NEW k \in B, g[m] = g[k]
        PROVE  m = k
    <3>1. <<q[m], y>> = <<q[k], y>>
      BY <1>13, <2>2
    <3>2. q[m] = q[k]
      BY <3>1
    <3> QED
      BY <1>2, <1>12, <3>2
  <2> QED
    BY <2>1, <2>2 DEF Injection, IsInjective
<1>15. /\ IsFiniteSet(B) /\ Cardinality(B) <= Cardinality(A)
       /\ (Cardinality(B) = Cardinality(A) <=> g \in Surjection(B, A))
  BY <1>11, <1>14, FS_Injection
<1>16. Cardinality(B) = Cardinality(A)
  <2>1. Cardinality(B) \in Nat
    BY <1>15, FS_CardinalityType
  <2> QED
    BY <1>8, <1>11, <1>15, <2>1
<1>17. <<x, y>> \in A
  <2>1. <<x, y>>[2] = y
    OBVIOUS
  <2>2. <<x, y>> \in E1 \/ <<x, y>> \in E2
    OBVIOUS
  <2> QED
    BY <1>5, <1>6, <1>10, <2>1, <2>2
<1>18. PICK m \in B : g[m] = <<x, y>>
  BY <1>15, <1>16, <1>17 DEF Surjection
<1>19. q[m] = x
  <2>1. <<q[m], y>> = <<x, y>>
    BY <1>13, <1>18
  <2> QED
    BY <2>1
<1> QED
  BY <1>4, <1>12, <1>19

\* What grows with each step grows.
LEMMA StepsGrow ==
  ASSUME NEW n \in Nat, NEW at \in [1..n -> Nat],
         \A i \in 1..(n - 1) : at[i] < at[i + 1]
  PROVE  \A i, k \in 1..n : i < k => at[i] < at[k]
<1> SUFFICES ASSUME NEW i \in 1..n
             PROVE  \A k \in 1..n : i < k => at[i] < at[k]
  OBVIOUS
<1> DEFINE T == {d \in Nat : i + d + 1 <= n => at[i] < at[i + d + 1]}
<1>1. 0 \in T
  <2>1. i + 1 <= n => i \in 1..(n - 1)
    OBVIOUS
  <2> QED
    BY <2>1
<1>2. ASSUME NEW d \in T
      PROVE  d + 1 \in T
  <2>1. d \in Nat
    OBVIOUS
  <2>2. SUFFICES ASSUME i + (d + 1) + 1 <= n
                 PROVE  at[i] < at[i + (d + 1) + 1]
    BY <2>1
  <2>3. PICK k : k = i + d + 1
    OBVIOUS
  <2>4. k \in 1..(n - 1) /\ k \in 1..n /\ k + 1 \in 1..n /\ k <= n /\ k + 1 = i + (d + 1) + 1
    BY <2>1, <2>2, <2>3
  <2>5. at[i] < at[k]
    BY <2>3, <2>4
  <2>6. at[k] < at[k + 1] /\ at[k] \in Nat /\ at[i] \in Nat /\ at[k + 1] \in Nat
    BY <2>4
  <2>7. at[i] < at[k + 1]
    BY <2>5, <2>6
  <2> QED
    BY <2>4, <2>7
<1>3. T = Nat
  <2>1. T \subseteq Nat
    OBVIOUS
  <2> HIDE DEF T
  <2> QED
    BY <1>1, <1>2, <2>1, SetInduction
<1> SUFFICES ASSUME NEW k \in 1..n, i < k
             PROVE  at[i] < at[k]
  OBVIOUS
<1>4. k - i - 1 \in Nat /\ i + (k - i - 1) + 1 = k /\ k <= n
  OBVIOUS
<1>5. k - i - 1 \in T
  <2> HIDE DEF T
  <2> QED
    BY <1>3, <1>4
<1> QED
  BY <1>4, <1>5

\* The edges of a list without repetitions are between items of the list.
LEMMA EdgesBetween ==
  ASSUME NEW v, IsList(v), NEW S, ToSet(v) \subseteq S
  PROVE  Edges(Unique(v)) \subseteq S \X S
<1>1. PICK u : u = Unique(v)
  OBVIOUS
<1>2. IsList(u) /\ \A n \in DOMAIN u : u[n] \in S
  BY <1>1, UniqueList
<1>3. DOMAIN u = 1..Len(u) /\ Len(u) \in Nat
  BY <1>2, ListDomain
<1>4. \A i \in 1..(Len(u) - 1) : i \in DOMAIN u /\ i + 1 \in DOMAIN u
  BY <1>3
<1>5. \A i \in 1..(Len(u) - 1) : <<u[i], u[i + 1]>> \in S \X S
  BY <1>2, <1>4
<1> QED
  BY <1>1, <1>5 DEF Edges

\* A list whose edges were added is in order in the sorted one.
LEMMA SortedList ==
  ASSUME NEW S, IsFiniteSet(S), NEW E1, IsFiniteSet(E1), NEW E2, IsFiniteSet(E2),
         E1 \subseteq S \X S, E2 \subseteq S \X S,
         NEW q \in topologicalSort(S, E1, E2), NEW v, IsList(v), ToSet(v) \subseteq S,
         Edges(Unique(v)) \subseteq E1 \cup E2
  PROVE  InOrder(Unique(v), q)
<1>1. PICK u : u = Unique(v)
  OBVIOUS
<1>2. IsList(u) /\ \A n \in DOMAIN u : u[n] \in S
  BY <1>1, UniqueList
<1>3. PICK n \in Nat : n = Len(u) /\ DOMAIN u = 1..n
  BY <1>2, ListDomain
<1>4. q \in SetToSeqs(S)
  BY DEF topologicalSort
<1>5. /\ DOMAIN q = 1..Len(q) /\ Len(q) \in Nat
      /\ \A i, j \in DOMAIN q : q[i] = q[j] => i = j
      /\ \A z \in S : \E i \in DOMAIN q : q[i] = z
  BY <1>4, AllNodes
<1>6. PICK at : at = [i \in 1..n |-> CHOOSE k \in DOMAIN q : q[k] = u[i]]
  OBVIOUS
<1>7. \A i \in 1..n : at[i] \in DOMAIN q /\ q[at[i]] = u[i]
  BY <1>2, <1>3, <1>5, <1>6
<1>8. at \in [1..n -> DOMAIN q] /\ at \in [1..n -> Nat]
  <2>1. at \in [1..n -> DOMAIN q]
    BY <1>6, <1>7
  <2>2. DOMAIN q \subseteq Nat
    BY <1>5
  <2> QED
    BY <2>1, <2>2
<1>9. ASSUME NEW i \in 1..(n - 1)
      PROVE  at[i] < at[i + 1]
  <2>1. i \in 1..n /\ i + 1 \in 1..n
    OBVIOUS
  <2>2. <<u[i], u[i + 1]>> \in Edges(u)
    BY <1>3 DEF Edges
  <2>3. <<u[i], u[i + 1]>> \in E1 \cup E2
    BY <1>1, <2>2
  <2>4. PICK x, y : x = u[i] /\ y = u[i + 1]
    OBVIOUS
  <2>5. <<x, y>> \in E1 \cup E2
    BY <2>3, <2>4
  <2>6. PICK k, l \in DOMAIN q : k < l /\ q[k] = x /\ q[l] = y
    BY <2>5, SortOrder
  <2>7. at[i] = k /\ at[i + 1] = l
    BY <1>5, <1>7, <2>1, <2>4, <2>6
  <2> QED
    BY <2>6, <2>7
<1>10. \A i, k \in 1..n : i < k => at[i] < at[k]
  BY <1>8, <1>9, StepsGrow
<1>11. at \in [DOMAIN u -> DOMAIN q] /\ \A i \in DOMAIN u : q[at[i]] = u[i]
  BY <1>3, <1>7, <1>8
<1>12. \A i, k \in DOMAIN u : i < k => at[i] < at[k]
  BY <1>3, <1>10
<1>13. InOrder(u, q)
  BY <1>11, <1>12 DEF InOrder
<1> QED
  BY <1>1, <1>13

\* mergeVectors: both lists are in order in the merged one, which has nothing else.
LEMMA MergedList ==
  ASSUME NEW v1, IsList(v1), NEW v2, IsList(v2), NEW q \in mergeVectors(v1, v2)
  PROVE  /\ IsList(q) /\ InOrder(Unique(v1), q) /\ InOrder(Unique(v2), q)
         /\ \A i \in DOMAIN q : q[i] \in ToSet(v1) \cup ToSet(v2)
<1>1. PICK S : S = ToSet(v1) \cup ToSet(v2)
  OBVIOUS
<1>2. PICK E1 : E1 = Edges(Unique(v1))
  OBVIOUS
<1>3. PICK E2 : E2 = Edges(Unique(v2))
  OBVIOUS
<1>4. q \in topologicalSort(S, E1, E2)
  BY <1>1, <1>2, <1>3 DEF mergeVectors
<1>5. IsFiniteSet(S)
  <2>1. PICK S1 : S1 = ToSet(v1)
    OBVIOUS
  <2>2. PICK S2 : S2 = ToSet(v2)
    OBVIOUS
  <2>3. IsFiniteSet(S1) /\ IsFiniteSet(S2)
    BY <2>1, <2>2, FiniteItems
  <2>4. IsFiniteSet(S1 \cup S2)
    BY <2>3, FS_Union
  <2> QED
    BY <1>1, <2>1, <2>2, <2>4
<1>6. IsList(Unique(v1)) /\ IsList(Unique(v2))
  BY UniqueList
<1>7. IsFiniteSet(E1) /\ IsFiniteSet(E2)
  BY <1>2, <1>3, <1>6, FiniteEdges
<1>8. ToSet(v1) \subseteq S /\ ToSet(v2) \subseteq S
  BY <1>1
<1>9. E1 \subseteq S \X S /\ E2 \subseteq S \X S
  <2>1. E1 \subseteq S \X S
    BY <1>2, <1>8, EdgesBetween
  <2>2. E2 \subseteq S \X S
    BY <1>3, <1>8, EdgesBetween
  <2> QED
    BY <2>1, <2>2
<1>10. InOrder(Unique(v1), q)
  <2>1. Edges(Unique(v1)) \subseteq E1 \cup E2
    BY <1>2
  <2> QED
    BY <1>4, <1>5, <1>7, <1>8, <1>9, <2>1, SortedList
<1>11. InOrder(Unique(v2), q)
  <2>1. Edges(Unique(v2)) \subseteq E1 \cup E2
    BY <1>3
  <2> QED
    BY <1>4, <1>5, <1>7, <1>8, <1>9, <2>1, SortedList
<1>12. q \in SetToSeqs(S)
  BY <1>4 DEF topologicalSort
<1>13. IsList(q) /\ \A i \in DOMAIN q : q[i] \in S
  BY <1>5, <1>12, AllNodes
<1> QED
  BY <1>1, <1>10, <1>11, <1>13

\* The items that were parsed from code: each ends in a line of it, in order, and
\* every line that is not a comment ends one.
IsItems(code, v, X) ==
  /\ IsList(v)
  /\ \A i \in DOMAIN v : v[i] \in Seq(X) /\ v[i] # <<>>
  /\ \E pl \in [DOMAIN v -> DOMAIN code] :
       /\ \A i \in DOMAIN v : v[i][Len(v[i])] = code[pl[i]]
       /\ \A i, k \in DOMAIN v : i < k => pl[i] < pl[k]
       /\ \A p \in Places(code) : \E i \in DOMAIN v : pl[i] = p

LEMMA ItemsKept ==
  ASSUME NEW X, NEW code, IsList(code), NEW v, IsItems(code, v, X),
         NEW q, IsList(q), \A i \in DOMAIN q : q[i] \in Seq(X) /\ q[i] # <<>>,
         InOrder(Unique(v), q)
  PROVE  InOrder(Unique(CodeLines(code)), CodeLines(FlattenSeq(q)))
<1>1. PICK pl \in [DOMAIN v -> DOMAIN code] :
        /\ \A i \in DOMAIN v : v[i][Len(v[i])] = code[pl[i]]
        /\ \A i, k \in DOMAIN v : i < k => pl[i] < pl[k]
        /\ \A p \in Places(code) : \E i \in DOMAIN v : pl[i] = p
  BY DEF IsItems
<1>2. PICK F : F = Firsts(v)
  OBVIOUS
<1>3. PICK u : u = Unique(v)
  OBVIOUS
<1>4. PICK N : N = Cardinality(F)
  OBVIOUS
<1>5. IsFiniteSet(F) /\ F \subseteq Nat /\ F \subseteq DOMAIN v /\ DOMAIN u = 1..N
  BY <1>2, <1>3, <1>4, UniqueList DEF IsItems
<1>6. \A n \in 1..N : u[n] = v[Position(F, n)]
  BY <1>2, <1>3, <1>5, UniqueList DEF IsItems
<1>7. /\ N \in Nat
      /\ \A n \in 1..N : Position(F, n) \in F
      /\ \A i \in F : \E n \in 1..N : Position(F, n) = i
      /\ \A m, n \in 1..N : m < n => Position(F, m) < Position(F, n)
  BY <1>4, <1>5, Positions
<1>8. PICK at \in [1..N -> DOMAIN q] :
        /\ \A i \in 1..N : q[at[i]] = u[i]
        /\ \A i, j \in 1..N : i < j => at[i] < at[j]
  BY <1>3, <1>5 DEF InOrder
<1>9. PICK l \in Nat : l = Len(q) /\ DOMAIN q = 1..l
  BY ListDomain
<1>10. q \in Seq(Seq(X))
  <2>1. PICK V : V = Seq(X)
    OBVIOUS
  <2>2. q \in [1..l -> V]
    BY <1>9, <2>1 DEF IsList
  <2>3. q \in Seq(V)
    BY <2>2
  <2> QED
    BY <2>1, <2>3
<1>11. PICK t : t = FlattenSeq(q)
  OBVIOUS
<1>12. t \in Seq(X)
  BY <1>10, <1>11, FlattenCode
<1>13. PICK to \in [1..l -> DOMAIN t] :
         /\ \A i \in 1..l : t[to[i]] = q[i][Len(q[i])]
         /\ \A i, k \in 1..l : i < k => to[i] < to[k]
  <2>1. \A i \in 1..Len(q) : q[i] # <<>>
    BY <1>9
  <2>2. \E to \in [1..Len(q) -> DOMAIN FlattenSeq(q)] :
          /\ \A i \in 1..Len(q) : FlattenSeq(q)[to[i]] = q[i][Len(q[i])]
          /\ \A i, k \in 1..Len(q) : i < k => to[i] < to[k]
    BY <1>10, <2>1, FlattenPlaces
  <2> QED
    BY <1>9, <1>11, <2>2
<1>14. IsList(t) /\ IsList(code)
  BY <1>12, SeqList
\* Where the first of each item was parsed from.
<1>15. PICK w : w = [n \in 1..N |-> pl[Position(F, n)]]
  OBVIOUS
<1>16. ASSUME NEW n \in 1..N
       PROVE  /\ w[n] \in DOMAIN code /\ w[n] \in Nat
              /\ u[n][Len(u[n])] = code[w[n]]
  <2>1. Position(F, n) \in DOMAIN v
    BY <1>5, <1>7
  <2>2. w[n] = pl[Position(F, n)]
    BY <1>15
  <2>3. w[n] \in DOMAIN code
    BY <2>1, <2>2
  <2>4. DOMAIN code \subseteq Nat
    BY ListDomain
  <2> QED
    BY <1>1, <1>6, <2>1, <2>2, <2>3, <2>4
<1>17. \A m, n \in 1..N : m < n => w[m] < w[n]
  <2> SUFFICES ASSUME NEW m \in 1..N, NEW n \in 1..N, m < n
               PROVE  w[m] < w[n]
    OBVIOUS
  <2>1. Position(F, m) \in DOMAIN v /\ Position(F, n) \in DOMAIN v
    BY <1>5, <1>7
  <2>2. Position(F, m) < Position(F, n)
    BY <1>7
  <2> QED
    BY <1>1, <1>15, <2>1, <2>2
<1>18. PICK G : G = {w[n] : n \in 1..N}
  OBVIOUS
<1>19. PICK inv : inv = [p \in G |-> CHOOSE n \in 1..N : w[n] = p]
  OBVIOUS
<1>20. \A p \in G : inv[p] \in 1..N /\ w[inv[p]] = p
  BY <1>18, <1>19
<1>21. PICK g : g = [p \in G |-> to[at[inv[p]]]]
  OBVIOUS
<1>22. ASSUME NEW p \in G
       PROVE  g[p] \in DOMAIN t /\ t[g[p]] = code[p]
  <2>1. PICK n \in 1..N : n = inv[p] /\ w[n] = p
    BY <1>20
  <2>2. PICK i \in 1..l : i = at[n] /\ q[i] = u[n]
    BY <1>8, <1>9
  <2>3. g[p] = to[i]
    BY <1>21, <2>1, <2>2
  <2>4. to[i] \in DOMAIN t /\ t[to[i]] = u[n][Len(u[n])]
    BY <1>13, <2>2
  <2> QED
    BY <1>16, <2>1, <2>3, <2>4
<1>23. ASSUME NEW p \in G, NEW r \in G, p < r
       PROVE  g[p] < g[r]
  <2>1. PICK m \in 1..N : m = inv[p] /\ w[m] = p
    BY <1>20
  <2>2. PICK n \in 1..N : n = inv[r] /\ w[n] = r
    BY <1>20
  <2>3. m < n
    <3>1. ~(n < m) /\ m # n
      BY <1>16, <1>17, <1>23, <2>1, <2>2
    <3> QED
      BY <1>7, <3>1
  <2>4. at[m] < at[n] /\ at[m] \in 1..l /\ at[n] \in 1..l
    BY <1>8, <1>9, <2>3
  <2>5. to[at[m]] < to[at[n]]
    BY <1>13, <2>4
  <2> QED
    BY <1>21, <2>1, <2>2, <2>5
<1>24. ASSUME NEW p \in Places(code),
              \A x \in Places(code) : code[x] = code[p] => p <= x
       PROVE  p \in G
  <2>1. PICK i \in DOMAIN v : pl[i] = p
    BY <1>1
  <2>2. DOMAIN v = 1..Len(v) /\ Len(v) \in Nat
    BY ListDomain DEF IsItems
  <2>3. ASSUME NEW k \in 1..(i - 1), v[k] = v[i]
        PROVE  FALSE
    <3>1. k \in DOMAIN v /\ k < i
      BY <2>2
    <3>2. pl[k] < p /\ pl[k] \in DOMAIN code
      BY <1>1, <2>1, <3>1
    <3>3. code[pl[k]] = code[p]
      BY <1>1, <2>1, <2>3, <3>1
    <3>4. pl[k] \in Places(code)
      BY <3>2, <3>3 DEF Places
    <3>5. p <= pl[k]
      BY <1>24, <3>3, <3>4
    <3>6. p \in Nat /\ pl[k] \in Nat
      <4>1. DOMAIN code = 1..Len(code) /\ Len(code) \in Nat
        BY ListDomain
      <4>2. p \in DOMAIN code
        BY DEF Places
      <4> QED
        BY <3>2, <4>1, <4>2
    <3> QED
      BY <3>2, <3>5, <3>6
  <2>4. i \in F
    BY <1>2, <2>3 DEF Firsts
  <2>5. PICK n \in 1..N : Position(F, n) = i
    BY <1>7, <2>4
  <2>6. w[n] = p
    BY <1>15, <2>1, <2>5
  <2> QED
    BY <1>18, <2>6
<1>25. G \subseteq DOMAIN code
  BY <1>16, <1>18
<1>26. g \in [G -> DOMAIN t]
  BY <1>21, <1>22
<1>27. InOrder(Unique(CodeLines(code)), CodeLines(t))
  BY <1>14, <1>23, <1>24, <1>22, <1>25, <1>26, LinesInOrder
<1> QED
  BY <1>11, <1>27

LEMMA ItemEnd ==
  ASSUME NEW X, NEW pre \in Seq(X), NEW l \in X, NEW h, h = pre \o <<l>>
  PROVE  h \in Seq(X) /\ h # <<>> /\ h[Len(h)] = l
<1>1. <<l>> \in Seq(X) /\ Len(<<l>>) = 1 /\ <<l>>[1] = l
  OBVIOUS
<1>2. h \in Seq(X) /\ Len(h) = Len(pre) + 1 /\ Len(pre) \in Nat
  BY <1>1
<1>3. h[Len(pre) + 1] = l
  BY <1>1, <1>2
<1> QED
  BY <1>2, <1>3

LEMMA InclusionItems ==
  ASSUME NEW X, NEW code \in Seq(X), NEW v \in parseInclusions(code)
  PROVE  IsItems(code, v, X)
<1>1. v = [p \in DOMAIN code |-> <<code[p]>>]
  BY DEF parseInclusions
<1>2. PICK n \in Nat : DOMAIN code = 1..n /\ \A p \in 1..n : code[p] \in X
  BY SeqList
<1>3. v = [p \in 1..n |-> v[p]] /\ DOMAIN v = 1..n /\ \A p \in 1..n : v[p] = <<code[p]>>
  BY <1>1, <1>2
<1>4. IsList(v)
  BY <1>3, FunctionList
<1>5. ASSUME NEW i \in DOMAIN v
      PROVE  v[i] \in Seq(X) /\ v[i] # <<>> /\ v[i][Len(v[i])] = code[i]
  <2>1. PICK l \in X : l = code[i]
    BY <1>2, <1>3
  <2>2. v[i] = <<>> \o <<l>> /\ <<>> \in Seq(X)
    BY <1>3, <2>1
  <2> QED
    BY <2>1, <2>2, ItemEnd
<1>6. PICK pl : pl = [i \in DOMAIN v |-> i]
  OBVIOUS
<1>7. pl \in [DOMAIN v -> DOMAIN code] /\ \A i \in DOMAIN v : pl[i] = i
  BY <1>2, <1>3, <1>6
<1>8. \A p \in Places(code) : \E i \in DOMAIN v : pl[i] = p
  BY <1>2, <1>3, <1>7 DEF Places
<1>9. /\ \A i \in DOMAIN v : v[i][Len(v[i])] = code[pl[i]]
      /\ \A i, k \in DOMAIN v : i < k => pl[i] < pl[k]
  BY <1>5, <1>7
<1> QED
  BY <1>4, <1>5, <1>7, <1>8, <1>9 DEF IsItems

\* A list of items without those of the comments, which leave nothing behind.
LEMMA CodeItems ==
  ASSUME NEW code \in Seq(Lines), NEW h, DOMAIN h = DOMAIN code,
         \A p \in DOMAIN code : /\ h[p] \in Seq(Lines) /\ h[p] # <<>>
                                /\ h[p][Len(h[p])] = code[p],
         NEW v, v = Kept(h, NotComments(code))
  PROVE  IsItems(code, v, Lines)
<1>1. PICK P : P = NotComments(code)
  OBVIOUS
<1>2. P \subseteq DOMAIN code
  BY <1>1 DEF NotComments
<1>3. IsList(code) /\ \A p \in DOMAIN code : code[p] \in Lines
  BY SeqList
<1>4. IsFiniteSet(P) /\ P \subseteq Nat
  BY <1>2, <1>3, FinitePlaces
<1>5. PICK N \in Nat : N = Cardinality(P)
  BY <1>4, FS_CardinalityType
<1>6. /\ \A n \in 1..N : Position(P, n) \in P
      /\ \A p \in P : \E n \in 1..N : Position(P, n) = p
      /\ \A m, n \in 1..N : m < n => Position(P, m) < Position(P, n)
  BY <1>4, <1>5, Positions
<1>7. IsList(v)
  BY <1>1, <1>4, KeptList
<1>8. DOMAIN v = 1..N /\ \A n \in 1..N : v[n] = h[Position(P, n)]
  BY <1>1, <1>5 DEF Kept
<1>9. PICK pl : pl = [n \in 1..N |-> Position(P, n)]
  OBVIOUS
<1>10. \A n \in 1..N : pl[n] \in DOMAIN code /\ v[n] = h[pl[n]] /\ pl[n] = Position(P, n)
  BY <1>2, <1>6, <1>8, <1>9
<1>11. pl \in [DOMAIN v -> DOMAIN code]
  BY <1>8, <1>9, <1>10
<1>12. \A i \in DOMAIN v : /\ v[i] \in Seq(Lines) /\ v[i] # <<>>
                           /\ v[i][Len(v[i])] = code[pl[i]]
  BY <1>8, <1>10
<1>13. \A i, k \in DOMAIN v : i < k => pl[i] < pl[k]
  <2> SUFFICES ASSUME NEW i \in 1..N, NEW k \in 1..N, i < k
               PROVE  pl[i] < pl[k]
    BY <1>8
  <2>1. Position(P, i) < Position(P, k)
    BY <1>6
  <2> QED
    BY <1>10, <2>1
<1>14. Places(code) \subseteq P
  <2> SUFFICES ASSUME NEW p \in Places(code), p \notin P
               PROVE  FALSE
    OBVIOUS
  <2>1. PICK l \in Lines : l = code[p] /\ Core[l] # <<>> /\ Kind[l] = "comment"
    BY <1>1, <1>3 DEF Places, NotComments
  <2> QED
    BY <2>1, LayoutAssumption
<1>15. \A p \in Places(code) : \E i \in DOMAIN v : pl[i] = p
  <2> SUFFICES ASSUME NEW p \in P
               PROVE  \E i \in 1..N : pl[i] = p
    BY <1>8, <1>14
  <2>1. PICK n \in 1..N : Position(P, n) = p
    BY <1>6
  <2> QED
    BY <1>10, <2>1
<1> QED
  BY <1>7, <1>11, <1>12, <1>13, <1>15 DEF IsItems

LEMMA DeclarationItems ==
  ASSUME NEW code \in Seq(Lines), NEW v \in parseDeclarations(code)
  PROVE  IsItems(code, v, Lines)
<1>1. PICK h : h = [p \in DOMAIN code |-> CommentBefore(code, p) \o <<code[p]>>]
  OBVIOUS
<1>2. v = Kept(h, NotComments(code))
  BY <1>1 DEF parseDeclarations
<1>3. PICK n \in Nat : DOMAIN code = 1..n /\ \A p \in 1..n : code[p] \in Lines
  BY SeqList
<1>4. ASSUME NEW p \in DOMAIN code
      PROVE  CommentBefore(code, p) \in Seq(Lines)
  <2>1. p > 1 => p - 1 \in 1..n
    BY <1>3
  <2>2. p > 1 => <<code[p - 1]>> \in Seq(Lines)
    BY <1>3, <2>1
  <2>3. <<>> \in Seq(Lines)
    OBVIOUS
  <2> QED
    BY <2>2, <2>3 DEF CommentBefore
<1>5. ASSUME NEW p \in DOMAIN code
      PROVE  h[p] \in Seq(Lines) /\ h[p] # <<>> /\ h[p][Len(h[p])] = code[p]
  <2>1. PICK pre \in Seq(Lines) : pre = CommentBefore(code, p)
    BY <1>4
  <2>2. PICK l \in Lines : l = code[p]
    BY <1>3
  <2>3. h[p] = pre \o <<l>>
    BY <1>1, <2>1, <2>2
  <2> QED
    BY <2>2, <2>3, ItemEnd
<1>6. DOMAIN h = DOMAIN code
  BY <1>1
<1> QED
  BY <1>2, <1>5, <1>6, CodeItems

LEMMA DefinitionItems ==
  ASSUME NEW code \in Seq(Lines), NEW v \in parseDefinitions(code)
  PROVE  IsItems(code, v, Lines)
<1>1. PICK h : h = [p \in DOMAIN code |-> FirstComment(code, p) \o <<code[p]>>]
  OBVIOUS
<1>2. v = Kept(h, NotComments(code))
  BY <1>1 DEF parseDefinitions
<1>3. PICK n \in Nat : DOMAIN code = 1..n /\ \A p \in 1..n : code[p] \in Lines
  BY SeqList
<1>4. ASSUME NEW p \in DOMAIN code
      PROVE  FirstComment(code, p) \in Seq(Lines)
  <2>1. PICK run : run = {q \in 1..(p - 1) : \A x \in q..(p - 1) : Kind[code[x]] = "comment"}
    OBVIOUS
  <2>2. run \subseteq 1..n /\ run \subseteq Nat
    BY <1>3, <2>1
  <2>3. PICK first : first = CHOOSE q \in run : \A x \in run : q <= x
    OBVIOUS
  <2>4. FirstComment(code, p) = IF run = {} THEN <<>> ELSE <<code[first]>>
    BY <2>1, <2>3 DEF FirstComment
  <2>5. CASE run = {}
    BY <2>4, <2>5
  <2>6. CASE run # {}
    <3>1. \E q \in run : \A x \in run : q <= x
      BY <2>2, <2>6, LeastNumber
    <3>2. first \in run
      BY <2>3, <3>1
    <3>3. code[first] \in Lines
      BY <1>3, <2>2, <3>2
    <3>4. <<code[first]>> \in Seq(Lines)
      BY <3>3
    <3> QED
      BY <2>4, <2>6, <3>4
  <2> QED
    BY <2>5, <2>6
<1>5. ASSUME NEW p \in DOMAIN code
      PROVE  h[p] \in Seq(Lines) /\ h[p] # <<>> /\ h[p][Len(h[p])] = code[p]
  <2>1. PICK pre \in Seq(Lines) : pre = FirstComment(code, p)
    BY <1>4
  <2>2. PICK l \in Lines : l = code[p]
    BY <1>3
  <2>3. h[p] = pre \o <<l>>
    BY <1>1, <2>1, <2>2
  <2> QED
    BY <2>2, <2>3, ItemEnd
<1>6. DOMAIN h = DOMAIN code
  BY <1>1
<1> QED
  BY <1>2, <1>5, <1>6, CodeItems

-----------------------------------------------------------------------------
(* What the heuristics write. *)

\* The our side as a handler sees it: the side of the block, or more if the base
\* mark is taken for code.
IsOur(c, our) ==
  /\ our \in Seq(Lines \cup {Mark})
  /\ InOrder(c.our, our)
  /\ our \in Seq(Lines) => our = c.our

\* A result is code, or the our side as it was seen, and holds both sides if it
\* claims so.
Claims == {"style", "added code", "inclusion", "list"}
BothIn(c, r) == \A side \in {"our", "their"} : KeptIn(c[side], r)
Sound(c, our, r) ==
  /\ r.code \in Seq(Lines) \/ r.code = our
  /\ r.desc \in Claims => BothIn(c, r)

LEMMA MarkedCode ==
  ASSUME NEW u \in Seq(Lines), NEW v \in Seq(Lines), NEW s, s = u \o <<Mark>> \o v
  PROVE  /\ s \in Seq(Lines \cup {Mark}) /\ InOrder(u, s)
         /\ \E p \in DOMAIN s : s[p] = Mark
<1> DEFINE m == Mark
<1>1. PICK T : T = Lines \cup {m}
  OBVIOUS
<1>2. u \in Seq(T) /\ v \in Seq(T) /\ <<m>> \in Seq(T) /\ <<m>> \o v \in Seq(T)
  BY <1>1
<1>3. s = u \o (<<m>> \o v)
  BY <1>2
<1>4. s \in Seq(T) /\ InOrder(u, s)
  <2>1. PICK w \in Seq(T) : w = <<m>> \o v
    BY <1>2
  <2>2. s = u \o w
    BY <1>3, <2>1
  <2>3. InOrder(u, s)
    BY <1>2, <2>2, PrefixOrder
  <2> QED
    BY <1>2, <2>2, <2>3
<1>5. PICK w \in Seq(T) : w = u \o <<m>>
  <2>1. PICK e \in Seq(T) : e = <<m>>
    BY <1>2
  <2>2. u \o e \in Seq(T)
    BY <1>2
  <2> QED
    BY <2>1, <2>2
<1>6. Len(w) = Len(u) + 1 /\ Len(u) \in Nat /\ w[Len(u) + 1] = m /\ Len(v) \in Nat
  BY <1>2, <1>5
<1>7. s = w \o v
  BY <1>5
<1>8. Len(s) = Len(w) + Len(v) /\ s[Len(w)] = m /\ DOMAIN s = 1..Len(s)
  BY <1>2, <1>6, <1>7
<1>9. Len(w) \in DOMAIN s
  BY <1>6, <1>8
<1> QED
  BY <1>1, <1>4, <1>8, <1>9

LEMMA NoMark ==
  ASSUME NEW s \in Seq(Lines), NEW p \in DOMAIN s
  PROVE  s[p] # Mark
<1>1. s[p] \in Lines
  BY SeqList
<1> QED
  BY <1>1 DEF Lines

\* The base mark is part of the our side only where there is one that was not asked
\* for.
LEMMA OurSide ==
  ASSUME NEW c, IsCode(c), NEW asked, asked => c.hasBase, NEW our, our = OurCode(c, asked)
  PROVE  IsOur(c, our) /\ (our = c.our \/ (~asked /\ c.hasBase))
<1>1. c.our \in Seq(Lines) /\ c.base \in Seq(Lines)
  BY DEF IsCode
<1>2. CASE asked \/ ~c.hasBase
  <2>1. our = c.our
    BY <1>2 DEF OurCode
  <2>2. c.our \in Seq(Lines \cup {Mark})
    BY <1>1
  <2>3. InOrder(c.our, c.our)
    <3>1. IsList(c.our)
      BY <1>1, SeqList
    <3> QED
      BY <3>1, SameOrder
  <2> QED
    BY <2>1, <2>2, <2>3 DEF IsOur
<1>3. CASE ~asked /\ c.hasBase
  <2>1. our = c.our \o <<Mark>> \o c.base
    BY <1>3 DEF OurCode
  <2>2. PICK u \in Seq(Lines), v \in Seq(Lines) : u = c.our /\ v = c.base
    BY <1>1
  <2>3. our = u \o <<Mark>> \o v
    BY <2>1, <2>2
  <2>4. our \in Seq(Lines \cup {Mark}) /\ InOrder(u, our) /\ \E p \in DOMAIN our : our[p] = Mark
    BY <2>3, MarkedCode
  <2>5. our \notin Seq(Lines)
    BY <2>2, <2>4, NoMark
  <2> QED
    BY <1>3, <2>2, <2>4, <2>5 DEF IsOur
<1> QED
  BY <1>2, <1>3

\* What tree-sitter takes for inclusions, declarations, definitions and comments has
\* no base mark in it.
LEMMA KnownKinds ==
  ASSUME NEW code \in Seq(Lines \cup {Mark}),
         Kinds(code) \subseteq {"include", "comment", "declaration", "definition"}
  PROVE  code \in Seq(Lines)
<1>1. PICK n \in Nat : /\ n = Len(code) /\ DOMAIN code = 1..n
                       /\ \A p \in 1..n : code[p] \in Lines \cup {Mark}
  BY SeqList
<1>2. ASSUME NEW p \in 1..n
      PROVE  code[p] \in Lines
  <2>1. Kind[code[p]] \in Kinds(code)
    BY <1>1 DEF Kinds
  <2>2. Kind[code[p]] \in {"include", "comment", "declaration", "definition"}
    BY <2>1
  <2>3. code[p] # Mark
    BY <2>2, LayoutAssumption
  <2> QED
    BY <1>1, <2>3
<1>3. code = [p \in 1..n |-> code[p]]
  BY <1>1
<1>4. PICK L : L = Lines
  OBVIOUS
<1>5. code \in [1..n -> L]
  BY <1>2, <1>3, <1>4
<1>6. code \in Seq(L)
  BY <1>5
<1> QED
  BY <1>4, <1>6

\* Both sides of a block in a result, if the our side, as the handler sees it, is in
\* its code.
LEMMA LinesKept ==
  ASSUME NEW s, IsList(s), NEW r, IsList(r.code), InOrder(s, r.code)
  PROVE  KeptIn(s, r)
<1>1. PICK code : code = r.code
  OBVIOUS
<1>2. InOrder(Unique(CodeLines(s)), CodeLines(code))
  BY <1>1, OrderKept
<1> QED
  BY <1>1, <1>2 DEF KeptIn

LEMMA BothByOrder ==
  ASSUME NEW c, IsCode(c), NEW our, IsOur(c, our), NEW r, IsList(r.code),
         InOrder(our, r.code) \/ KeptIn(c.our, r), KeptIn(c.their, r)
  PROVE  BothIn(c, r)
<1>1. KeptIn(c.our, r)
  <2>1. CASE InOrder(our, r.code)
    <3>1. PICK s : s = c.our
      OBVIOUS
    <3>2. s \in Seq(Lines) /\ InOrder(s, our)
      BY <3>1 DEF IsCode, IsOur
    <3>3. PICK code : code = r.code
      OBVIOUS
    <3>4. InOrder(s, code)
      BY <2>1, <3>2, <3>3, OrderWithin
    <3>5. IsList(s)
      BY <3>2, SeqList
    <3> QED
      BY <3>1, <3>3, <3>4, <3>5, LinesKept
  <2> QED
    BY <2>1
<1>2. c["our"] = c.our /\ c["their"] = c.their
  OBVIOUS
<1>3. ASSUME NEW side \in {"our", "their"}
      PROVE  KeptIn(c[side], r)
  BY <1>1, <1>2
<1> QED
  BY <1>3 DEF BothIn

LEMMA StyleSound ==
  ASSUME NEW c, IsCode(c), NEW our, IsOur(c, our), NEW r \in style(our, c.their)
  PROVE  Sound(c, our, r)
<1>1. r.code = our /\ r.desc = "style" /\ Deflated(our) = Deflated(c.their)
  BY DEF style
<1>2. IsList(our)
  BY SeqList DEF IsOur
<1>3. InOrder(our, our)
  BY <1>2, SameOrder
<1>4. KeptIn(c.their, r)
  BY <1>1 DEF KeptIn
<1>5. BothIn(c, r)
  BY <1>1, <1>2, <1>3, <1>4, BothByOrder
<1> QED
  BY <1>1, <1>5 DEF Sound

\* checkInclusion: the side that is kept has the other's lines, or its text.
LEMMA InclusionSound ==
  ASSUME NEW kind, NEW c, IsCode(c), NEW our, IsOur(c, our),
         NEW r \in checkInclusion(kind, our, c.their)
  PROVE  Sound(c, our, r)
<1>1. PICK their : their = c.their
  OBVIOUS
<1>2. r \in checkInclusion(kind, our, their)
  BY <1>1
<1>3. \/ r.code = our /\ isSubSequence(our, their)
      \/ r.code = their /\ isSubSequence(their, our)
      \/ /\ Kinds(our) \cup Kinds(their) \subseteq {"comment", "declaration"}
         /\ r.desc = "inclusion"
         /\ \/ r.code = our /\ Holds(our, their)
            \/ r.code = their /\ Holds(their, our)
  <2> DEFINE accept(code, desc) == {[code |-> code, desc |-> desc]}
  <2>1. \A code, desc : \A x \in accept(code, desc) : x.code = code /\ x.desc = desc
    OBVIOUS
  <2> HIDE DEF accept
  <2>2. CASE kind = "source"
    <3>1. PICK d : d = IF kind = "source" THEN "added code" ELSE "inclusion"
      OBVIOUS
    <3>2. \/ r \in accept(our, d) /\ isSubSequence(our, their)
          \/ r \in accept(their, d) /\ isSubSequence(their, our)
      BY <1>2, <2>2, <3>1, Zenon DEF checkInclusion, accept
    <3> QED
      BY <2>1, <3>2
  <2>3. CASE kind # "source"
    <3>1. PICK d : d = IF kind = "source" THEN "added code" ELSE "inclusion"
      OBVIOUS
    <3>2. d = "inclusion"
      BY <2>3, <3>1
    <3>3. /\ Kinds(our) \cup Kinds(their) \subseteq {"comment", "declaration"}
          /\ \/ r \in accept(our, d) /\ Holds(our, their)
             \/ r \in accept(their, d) /\ Holds(their, our)
      BY <1>2, <2>3, <3>1, Zenon DEF checkInclusion, accept
    <3> QED
      BY <2>1, <3>2, <3>3
  <2> QED
    BY <2>2, <2>3
<1>4. their \in Seq(Lines) /\ IsList(their) /\ our \in Seq(Lines \cup {Mark}) /\ IsList(our)
  <2>1. their \in Seq(Lines) /\ our \in Seq(Lines \cup {Mark})
    BY <1>1 DEF IsCode, IsOur
  <2> QED
    BY <2>1, SeqList
<1>5. InOrder(our, our) /\ InOrder(their, their)
  BY <1>4, SameOrder
<1>6. CASE r.code = our /\ isSubSequence(our, their)
  <2>1. InOrder(their, our)
    BY <1>4, <1>6, SubSequenceOrder
  <2>2. KeptIn(their, r)
    BY <1>4, <1>6, <2>1, LinesKept
  <2>3. BothIn(c, r)
    BY <1>1, <1>4, <1>5, <1>6, <2>2, BothByOrder
  <2> QED
    BY <1>6, <2>3 DEF Sound
<1>7. CASE r.code = their /\ isSubSequence(their, our)
  <2>1. InOrder(our, their)
    BY <1>4, <1>7, SubSequenceOrder
  <2>2. KeptIn(their, r)
    BY <1>4, <1>5, <1>7, LinesKept
  <2>3. BothIn(c, r)
    BY <1>1, <1>4, <1>7, <2>1, <2>2, BothByOrder
  <2> QED
    BY <1>4, <1>7, <2>3 DEF Sound
<1>8. CASE /\ Kinds(our) \cup Kinds(their) \subseteq {"comment", "declaration"}
           /\ r.desc = "inclusion"
  <2>1. our \in Seq(Lines)
    BY <1>4, <1>8, KnownKinds
  <2>2. our = c.our
    BY <2>1 DEF IsOur
  <2>3. CASE r.code = our /\ Holds(our, their)
    <3>1. KeptIn(their, r)
      BY <1>8, <2>3 DEF KeptIn, Holds
    <3>2. BothIn(c, r)
      BY <1>1, <1>4, <1>5, <2>3, <3>1, BothByOrder
    <3> QED
      BY <2>3, <3>2 DEF Sound
  <2>4. CASE r.code = their /\ Holds(their, our)
    <3>1. KeptIn(our, r)
      BY <1>8, <2>4 DEF KeptIn, Holds
    <3>2. KeptIn(their, r)
      BY <1>4, <1>5, <2>4, LinesKept
    <3>3. BothIn(c, r)
      BY <1>1, <1>4, <2>2, <2>4, <3>1, <3>2, BothByOrder
    <3> QED
      BY <1>4, <2>4, <3>3 DEF Sound
  <2> QED
    BY <1>3, <1>6, <1>7, <2>3, <2>4
<1> QED
  BY <1>3, <1>6, <1>7, <1>8

Parsed(code) == parseInclusions(code) \cup parseDeclarations(code) \cup parseDefinitions(code)

LEMMA ParsedItems ==
  ASSUME NEW code \in Seq(Lines \cup {Mark}), NEW v \in Parsed(code)
  PROVE  code \in Seq(Lines) /\ IsItems(code, v, Lines)
<1>1. /\ v \in parseInclusions(code) => Kinds(code) = {"include"}
      /\ v \in parseDeclarations(code) => Kinds(code) \subseteq {"comment", "declaration"}
      /\ v \in parseDefinitions(code) =>
           Kinds(code) \subseteq {"comment", "declaration", "definition"}
  BY Zenon DEF parseInclusions, parseDeclarations, parseDefinitions
<1>2. \/ v \in parseInclusions(code) \/ v \in parseDeclarations(code)
      \/ v \in parseDefinitions(code)
  BY DEF Parsed
<1>3. Kinds(code) \subseteq {"include", "comment", "declaration", "definition"}
  BY <1>1, <1>2
<1>4. code \in Seq(Lines)
  BY <1>3, KnownKinds
<1>5. v \in parseInclusions(code) => IsItems(code, v, Lines)
  BY <1>4, InclusionItems
<1>6. v \in parseDeclarations(code) => IsItems(code, v, Lines)
  BY <1>4, DeclarationItems
<1>7. v \in parseDefinitions(code) => IsItems(code, v, Lines)
  BY <1>4, DefinitionItems
<1> QED
  BY <1>2, <1>4, <1>5, <1>6, <1>7

\* doListMerge: the merged list has the items of both sides in their order.
LEMMA ListSound ==
  ASSUME NEW kind, NEW c, IsCode(c), NEW our, IsOur(c, our),
         NEW r \in doListMerge(kind, our, c.their)
  PROVE  Sound(c, our, r)
<1>1. PICK their : their = c.their
  OBVIOUS
<1>2. PICK q \in Lists(kind, our, their) : r.code = FlattenSeq(q)
  BY <1>1 DEF doListMerge
<1> DEFINE merge(P) == UNION {mergeVectors(p[1], p[2]) : p \in P}
<1>3. \/ q \in merge(parseInclusions(our) \X parseInclusions(their))
      \/ q \in merge(parseDeclarations(our) \X parseDeclarations(their))
      \/ q \in merge(parseDefinitions(our) \X parseDefinitions(their))
  BY <1>2, Zenon DEF Lists
<1>4. PICK v1 \in Parsed(our), v2 \in Parsed(their) : q \in mergeVectors(v1, v2)
  BY <1>3 DEF Parsed
<1>5. our \in Seq(Lines \cup {Mark}) /\ their \in Seq(Lines \cup {Mark})
  BY <1>1 DEF IsOur, IsCode
<1>6. our \in Seq(Lines) /\ IsItems(our, v1, Lines)
  BY <1>5, ParsedItems
<1>7. their \in Seq(Lines) /\ IsItems(their, v2, Lines)
  BY <1>5, ParsedItems
<1>8. IsList(v1) /\ IsList(v2) /\ IsList(our) /\ IsList(their)
  BY <1>6, <1>7, SeqList DEF IsItems
<1>9. /\ IsList(q) /\ InOrder(Unique(v1), q) /\ InOrder(Unique(v2), q)
      /\ \A i \in DOMAIN q : q[i] \in ToSet(v1) \cup ToSet(v2)
  BY <1>4, <1>8, MergedList
<1>10. ASSUME NEW i \in DOMAIN q
       PROVE  q[i] \in Seq(Lines) /\ q[i] # <<>>
  <2>1. \A j \in DOMAIN v1 : v1[j] \in Seq(Lines) /\ v1[j] # <<>>
    BY <1>6 DEF IsItems
  <2>2. \A j \in DOMAIN v2 : v2[j] \in Seq(Lines) /\ v2[j] # <<>>
    BY <1>7 DEF IsItems
  <2>3. (\E j \in DOMAIN v1 : q[i] = v1[j]) \/ (\E j \in DOMAIN v2 : q[i] = v2[j])
    BY <1>9 DEF ToSet
  <2> QED
    BY <2>1, <2>2, <2>3
<1>11. PICK code : code = FlattenSeq(q)
  OBVIOUS
<1>12. InOrder(Unique(CodeLines(our)), CodeLines(code))
  BY <1>6, <1>8, <1>9, <1>10, <1>11, ItemsKept
<1>13. InOrder(Unique(CodeLines(their)), CodeLines(code))
  BY <1>7, <1>8, <1>9, <1>10, <1>11, ItemsKept
<1>14. code \in Seq(Lines)
  <2>1. PICK n \in Nat : DOMAIN q = 1..n /\ n = Len(q)
    BY <1>9, ListDomain
  <2>2. PICK V : V = Seq(Lines)
    OBVIOUS
  <2>3. q \in [1..n -> V]
    BY <1>9, <1>10, <2>1, <2>2 DEF IsList
  <2>4. q \in Seq(V)
    BY <2>3
  <2> QED
    BY <1>11, <2>2, <2>4, FlattenCode
<1>15. our = c.our
  BY <1>6 DEF IsOur
<1>16. IsList(code)
  BY <1>14, SeqList
<1>17. KeptIn(our, r) /\ KeptIn(their, r)
  BY <1>2, <1>11, <1>12, <1>13 DEF KeptIn
<1>18. BothIn(c, r)
  BY <1>1, <1>2, <1>11, <1>15, <1>16, <1>17, BothByOrder
<1> QED
  BY <1>2, <1>11, <1>14, <1>18 DEF Sound

\* The other heuristics keep one side, or nothing.
LEMMA DeletionSound ==
  ASSUME NEW c, IsCode(c), NEW our, NEW id, NEW k,
         favour \in {"deletion", "modification"}, NEW r \in checkDeletion(our, c.their, id, k)
  PROVE  Sound(c, our, r)
<1>1. PICK code : /\ r = [desc |-> "deletion", code |-> code]
                  /\ code = <<>> \/ code = c.their \/ code = our
  <2>1. CASE favour = "deletion"
    BY <2>1 DEF checkDeletion
  <2>2. CASE favour = "modification"
    BY <2>2 DEF checkDeletion
  <2> QED
    BY <2>1, <2>2
<1>2. r.desc = "deletion" /\ r.code = code
  BY <1>1
<1>3. c.their \in Seq(Lines) /\ <<>> \in Seq(Lines)
  BY DEF IsCode
<1>4. "deletion" \notin Claims
  BY DEF Claims
<1> QED
  BY <1>1, <1>2, <1>3, <1>4 DEF Sound

LEMMA CodeOfResult ==
  ASSUME NEW code, NEW desc, NEW r \in {[code |-> code, desc |-> desc]}
  PROVE  r.code = code
<1> QED
  OBVIOUS

LEMMA DeltaSound ==
  ASSUME NEW c, IsCode(c), NEW our, NEW id, NEW k, NEW r \in checkOneSideDelta(our, c.their, id, k)
  PROVE  Sound(c, our, r)
<1>1. \/ r \in {[code |-> c.their, desc |-> "their delta"]}
      \/ r \in {[code |-> our, desc |-> "our delta"]}
  BY Zenon DEF checkOneSideDelta
<1>2. \/ r.code = c.their /\ r.desc = "their delta"
      \/ r.code = our /\ r.desc = "our delta"
  <2>1. CASE r \in {[code |-> c.their, desc |-> "their delta"]}
    <3>1. r.desc = "their delta"
      BY <2>1, DescOfResult, Zenon
    <3>2. r.code = c.their
      BY <2>1, CodeOfResult, Zenon
    <3> QED
      BY <3>1, <3>2
  <2>2. CASE r \in {[code |-> our, desc |-> "our delta"]}
    <3>1. r.desc = "our delta"
      BY <2>2, DescOfResult, Zenon
    <3>2. r.code = our
      BY <2>2, CodeOfResult, Zenon
    <3> QED
      BY <3>1, <3>2
  <2> QED
    BY <1>1, <2>1, <2>2
<1>3. "their delta" \notin Claims /\ "our delta" \notin Claims
  BY DEF Claims
<1>4. c.their \in Seq(Lines)
  BY DEF IsCode
<1> QED
  BY <1>2, <1>3, <1>4 DEF Sound

LEMMA TextSound ==
  ASSUME NEW c, IsCode(c), NEW our, IsOur(c, our), NEW id, NEW k,
         favour \in {"deletion", "modification"}, NEW r \in text(our, c.their, id, k)
  PROVE  Sound(c, our, r)
<1>1. PICK kind : kind = File(id).kind
  OBVIOUS
<1>2. \/ r \in checkDeletion(our, c.their, id, k)
      \/ r \in checkOneSideDelta(our, c.their, id, k)
      \/ r \in checkInclusion(kind, our, c.their)
      \/ r \in doListMerge(kind, our, c.their)
  BY <1>1, Zenon DEF text
<1>3. r \in checkDeletion(our, c.their, id, k) => Sound(c, our, r)
  BY DeletionSound
<1>4. r \in checkOneSideDelta(our, c.their, id, k) => Sound(c, our, r)
  BY DeltaSound
<1>5. r \in checkInclusion(kind, our, c.their) => Sound(c, our, r)
  BY InclusionSound
<1>6. r \in doListMerge(kind, our, c.their) => Sound(c, our, r)
  BY ListSound
<1> QED
  BY <1>2, <1>3, <1>4, <1>5, <1>6

-----------------------------------------------------------------------------
(* When a list of inclusions is merged. *)

\* An order that has the start of every edge before its end is one the sort may
\* give, if no edge was added twice.
LEMMA SortFound ==
  ASSUME NEW S, IsFiniteSet(S), NEW q \in SetToSeqs(S),
         NEW E1, IsFiniteSet(E1), NEW E2, IsFiniteSet(E2), E1 \cap E2 = {},
         \A e \in E1 \cup E2 : \E m, n \in DOMAIN q : m < n /\ e = <<q[m], q[n]>>
  PROVE  q \in topologicalSort(S, E1, E2)
<1>1. /\ DOMAIN q = 1..Len(q) /\ Len(q) \in Nat
      /\ \A i, j \in DOMAIN q : q[i] = q[j] => i = j
  BY AllNodes
<1>2. ASSUME NEW n \in DOMAIN q
      PROVE  Cardinality({e \in E1 : e[2] = q[n]}) + Cardinality({e \in E2 : e[2] = q[n]})
               = Cardinality({m \in 1..(n - 1) : <<q[m], q[n]>> \in E1 \cup E2})
  <2>1. PICK A1 : A1 = {e \in E1 : e[2] = q[n]}
    OBVIOUS
  <2>2. PICK A2 : A2 = {e \in E2 : e[2] = q[n]}
    OBVIOUS
  <2>3. PICK B : B = {m \in 1..(n - 1) : <<q[m], q[n]>> \in E1 \cup E2}
    OBVIOUS
  <2>4. IsFiniteSet(A1) /\ IsFiniteSet(A2) /\ A1 \cap A2 = {}
    <3>1. A1 \subseteq E1 /\ A2 \subseteq E2
      BY <2>1, <2>2
    <3> QED
      BY <3>1, FS_Subset
  <2>5. PICK A : A = A1 \cup A2
    OBVIOUS
  <2>6. Cardinality(A) = Cardinality(A1) + Cardinality(A2)
    <3>1. Cardinality(A1 \cup A2) = Cardinality(A1) + Cardinality(A2) - Cardinality(A1 \cap A2)
      BY <2>4, FS_Union
    <3>2. Cardinality(A1 \cap A2) = 0
      BY <2>4, FS_EmptySet
    <3>3. Cardinality(A1) \in Nat /\ Cardinality(A2) \in Nat
      BY <2>4, FS_CardinalityType
    <3> QED
      BY <2>5, <3>1, <3>2, <3>3
  <2>7. PICK g : g = [m \in B |-> <<q[m], q[n]>>]
    OBVIOUS
  <2>8. n \in Nat /\ B \subseteq DOMAIN q /\ B \subseteq 1..(n - 1)
    BY <1>1, <2>3
  <2>9. \A m \in B : g[m] \in A /\ g[m] = <<q[m], q[n]>>
    BY <2>1, <2>2, <2>3, <2>5, <2>7
  <2>10. g \in Injection(B, A)
    <3>1. g \in [B -> A]
      BY <2>7, <2>9
    <3>2. \A i, j \in B : g[i] = g[j] => i = j
      BY <1>1, <2>8, <2>9
    <3> QED
      BY <3>1, <3>2 DEF Injection, IsInjective
  <2>11. \A e \in A : \E m \in B : g[m] = e
    <3> SUFFICES ASSUME NEW e \in A
                 PROVE  \E m \in B : g[m] = e
      OBVIOUS
    <3>1. e \in E1 \cup E2 /\ e[2] = q[n]
      BY <2>1, <2>2, <2>5
    <3>2. PICK m, k \in DOMAIN q : m < k /\ e = <<q[m], q[k]>>
      BY <3>1
    <3>3. k = n
      BY <1>1, <3>1, <3>2
    <3>4. m \in 1..(n - 1)
      BY <1>1, <2>8, <3>2, <3>3
    <3>5. m \in B
      BY <2>3, <3>1, <3>2, <3>3, <3>4
    <3> QED
      BY <2>9, <3>2, <3>3, <3>5
  <2>12. g \in Surjection(B, A)
    BY <2>10, <2>11 DEF Injection, Surjection
  <2>13. ExistsBijection(B, A)
    BY <2>10, <2>12 DEF ExistsBijection, Bijection
  <2>14. IsFiniteSet(B)
    <3>1. PICK N : N = 1..(n - 1)
      OBVIOUS
    <3>2. IsFiniteSet(1..(n - 1))
      BY <2>8, FS_Interval
    <3> QED
      BY <2>8, <3>1, <3>2, FS_Subset
  <2>15. Cardinality(A) = Cardinality(B)
    BY <2>13, <2>14, FS_Bijection
  <2> QED
    BY <2>1, <2>2, <2>3, <2>6, <2>15
<1> QED
  BY <1>2 DEF topologicalSort

\* The first of each item is kept.
LEMMA UniqueAll ==
  ASSUME NEW v, IsList(v)
  PROVE  ToSet(Unique(v)) = ToSet(v)
<1>1. PICK F : F = Firsts(v)
  OBVIOUS
<1>2. PICK u : u = Unique(v)
  OBVIOUS
<1>3. /\ IsFiniteSet(F) /\ F \subseteq Nat /\ F \subseteq DOMAIN v
      /\ DOMAIN u = 1..Cardinality(F)
      /\ \A n \in DOMAIN u : u[n] = v[Position(F, n)]
      /\ \A n \in DOMAIN u : u[n] \in ToSet(v)
  BY <1>1, <1>2, UniqueList
<1>4. \A p \in F : \E n \in 1..Cardinality(F) : Position(F, n) = p
  BY <1>3, Positions
<1>5. DOMAIN v = 1..Len(v) /\ Len(v) \in Nat
  BY ListDomain
<1>6. ASSUME NEW x \in ToSet(v)
      PROVE  x \in ToSet(u)
  <2>1. PICK U : U = {p \in DOMAIN v : v[p] = x}
    OBVIOUS
  <2>2. U \subseteq Nat /\ U # {}
    BY <1>5, <2>1 DEF ToSet
  <2>3. PICK p \in U : \A y \in U : p <= y
    BY <2>2, LeastNumber
  <2>4. p \in DOMAIN v /\ v[p] = x
    BY <2>1
  <2>5. ASSUME NEW y \in 1..(p - 1)
        PROVE  v[y] # v[p]
    <3>1. y \in DOMAIN v /\ ~(p <= y)
      BY <1>5, <2>4
    <3> QED
      BY <2>1, <2>3, <2>4, <3>1
  <2>6. p \in F
    BY <1>1, <2>4, <2>5 DEF Firsts
  <2>7. PICK n \in DOMAIN u : Position(F, n) = p
    BY <1>3, <1>4, <2>6
  <2>8. u[n] = x
    BY <1>3, <2>4, <2>7
  <2> QED
    BY <2>8 DEF ToSet
<1>7. \A x \in ToSet(u) : x \in ToSet(v)
  BY <1>3 DEF ToSet
<1> QED
  BY <1>2, <1>6, <1>7

\* A list of lines, and the list of items with one line each.
Single(x) == <<x>>
Singles(s) == [p \in DOMAIN s |-> Single(s[p])]

LEMMA SingleEqual ==
  ASSUME NEW x, NEW y, Single(x) = Single(y)
  PROVE  x = y
<1> QED
  BY DEF Single

LEMMA SinglesList ==
  ASSUME NEW s, IsList(s)
  PROVE  /\ IsList(Singles(s)) /\ Len(Singles(s)) = Len(s) /\ DOMAIN Singles(s) = DOMAIN s
         /\ \A p \in DOMAIN s : Singles(s)[p] = Single(s[p])
<1>1. PICK v : v = Singles(s)
  OBVIOUS
<1>2. PICK n \in Nat : n = Len(s) /\ DOMAIN s = 1..n
  BY ListDomain
<1>3. v = [p \in 1..n |-> v[p]] /\ \A p \in 1..n : v[p] = Single(s[p])
  BY <1>1, <1>2 DEF Singles
<1>4. IsList(v) /\ Len(v) = n /\ DOMAIN v = 1..n
  BY <1>3, FunctionList
<1> QED
  BY <1>1, <1>2, <1>3, <1>4

LEMMA SinglesSet ==
  ASSUME NEW s, IsList(s)
  PROVE  ToSet(Singles(s)) = {Single(x) : x \in ToSet(s)}
<1>1. DOMAIN Singles(s) = DOMAIN s /\ \A p \in DOMAIN s : Singles(s)[p] = Single(s[p])
  BY SinglesList
<1> QED
  BY <1>1 DEF ToSet

LEMMA SinglesUnique ==
  ASSUME NEW s, IsList(s)
  PROVE  Unique(Singles(s)) = Singles(Unique(s))
<1>1. PICK v : v = Singles(s)
  OBVIOUS
<1>2. IsList(v) /\ DOMAIN v = DOMAIN s /\ \A p \in DOMAIN s : v[p] = Single(s[p])
  BY <1>1, SinglesList
<1>3. DOMAIN s = 1..Len(s) /\ Len(s) \in Nat
  BY ListDomain
<1>4. PICK F : F = Firsts(s)
  OBVIOUS
<1>5. Firsts(v) = F
  <2>1. ASSUME NEW p \in DOMAIN s, NEW x \in 1..(p - 1)
        PROVE  v[x] = v[p] <=> s[x] = s[p]
    <3>1. x \in DOMAIN s
      BY <1>3
    <3>2. v[x] = Single(s[x]) /\ v[p] = Single(s[p])
      BY <1>2, <3>1
    <3> QED
      BY <3>2, SingleEqual
  <2> QED
    BY <1>2, <1>4, <2>1 DEF Firsts
<1>6. PICK u : u = Unique(s)
  OBVIOUS
<1>7. /\ DOMAIN u = 1..Cardinality(F) /\ F \subseteq DOMAIN s /\ IsFiniteSet(F) /\ F \subseteq Nat
      /\ \A n \in DOMAIN u : u[n] = s[Position(F, n)]
  BY <1>4, <1>6, UniqueList
<1>8. \A n \in DOMAIN u : Position(F, n) \in DOMAIN s
  <2>1. \A n \in 1..Cardinality(F) : Position(F, n) \in F
    BY <1>7, Positions
  <2> QED
    BY <1>7, <2>1
<1>9. Unique(v) = [n \in DOMAIN u |-> v[Position(F, n)]]
  <2>1. Unique(v) = Kept(v, F)
    BY <1>2, <1>5, UniqueList
  <2> QED
    BY <1>7, <2>1 DEF Kept
<1>10. \A n \in DOMAIN u : v[Position(F, n)] = Single(u[n])
  BY <1>2, <1>7, <1>8
<1> QED
  BY <1>1, <1>6, <1>9, <1>10 DEF Singles

LEMMA SinglesEdges ==
  ASSUME NEW u, IsList(u), NEW e
  PROVE  e \in Edges(Singles(u)) <=>
           \E i \in 1..(Len(u) - 1) : e = <<Single(u[i]), Single(u[i + 1])>>
<1>1. PICK v : v = Singles(u)
  OBVIOUS
<1>2. Len(v) = Len(u) /\ \A p \in DOMAIN u : v[p] = Single(u[p])
  BY <1>1, SinglesList
<1>3. DOMAIN u = 1..Len(u) /\ Len(u) \in Nat
  BY ListDomain
<1>4. \A i \in 1..(Len(u) - 1) : i \in DOMAIN u /\ i + 1 \in DOMAIN u
  BY <1>3
<1>5. \A i \in 1..(Len(u) - 1) : <<v[i], v[i + 1]>> = <<Single(u[i]), Single(u[i + 1])>>
  BY <1>2, <1>4
<1>6. e \in Edges(v) <=> \E i \in 1..(Len(u) - 1) : e = <<v[i], v[i + 1]>>
  BY <1>2 DEF Edges
<1> QED
  BY <1>1, <1>5, <1>6

\* No edge of the one is an edge of the other.
LEMMA SinglesDisjoint ==
  ASSUME NEW u, IsList(u), NEW v, IsList(v), Edges(u) \cap Edges(v) = {}
  PROVE  Edges(Singles(u)) \cap Edges(Singles(v)) = {}
<1> SUFFICES ASSUME NEW e, e \in Edges(Singles(u)), e \in Edges(Singles(v))
             PROVE  FALSE
  OBVIOUS
<1>1. PICK i \in 1..(Len(u) - 1) : e = <<Single(u[i]), Single(u[i + 1])>>
  BY SinglesEdges
<1>2. PICK k \in 1..(Len(v) - 1) : e = <<Single(v[k]), Single(v[k + 1])>>
  BY SinglesEdges
<1>3. Single(u[i]) = Single(v[k]) /\ Single(u[i + 1]) = Single(v[k + 1])
  BY <1>1, <1>2
<1>4. u[i] = v[k] /\ u[i + 1] = v[k + 1]
  BY <1>3, SingleEqual
<1>5. <<u[i], u[i + 1]>> \in Edges(u) /\ <<v[k], v[k + 1]>> \in Edges(v)
  BY DEF Edges
<1> QED
  BY <1>4, <1>5

\* A list that is in order in q has its edges there.
LEMMA SinglesOrder ==
  ASSUME NEW u, IsList(u), NEW q, IsList(q), InOrder(u, q), NEW e \in Edges(Singles(u))
  PROVE  \E m, n \in DOMAIN q : m < n /\ e = <<Single(q[m]), Single(q[n])>>
<1>1. PICK at \in [DOMAIN u -> DOMAIN q] :
        /\ \A i \in DOMAIN u : q[at[i]] = u[i]
        /\ \A i, j \in DOMAIN u : i < j => at[i] < at[j]
  BY DEF InOrder
<1>2. DOMAIN u = 1..Len(u) /\ Len(u) \in Nat
  BY ListDomain
<1>3. PICK i \in 1..(Len(u) - 1) : e = <<Single(u[i]), Single(u[i + 1])>>
  BY SinglesEdges
<1>4. i \in DOMAIN u /\ i + 1 \in DOMAIN u /\ i < i + 1
  BY <1>2
<1>5. PICK m \in DOMAIN q : m = at[i] /\ q[m] = u[i]
  BY <1>1, <1>4
<1>6. PICK n \in DOMAIN q : n = at[i + 1] /\ q[n] = u[i + 1]
  BY <1>1, <1>4
<1>7. m < n
  BY <1>1, <1>4, <1>5, <1>6
<1> QED
  BY <1>3, <1>5, <1>6, <1>7

LEMMA SinglesNodes ==
  ASSUME NEW S, IsFiniteSet(S), NEW q \in SetToSeqs(S), NEW T, T = {Single(x) : x \in S}
  PROVE  IsFiniteSet(T) /\ Singles(q) \in SetToSeqs(T)
<1>1. PICK N \in Nat : N = Cardinality(S)
  BY FS_CardinalityType
<1>2. PICK g : g = [x \in S |-> Single(x)]
  OBVIOUS
<1>3. g \in [S -> T] /\ \A x \in S : g[x] = Single(x)
  BY <1>2
<1>4. \A x, y \in S : g[x] = g[y] => x = y
  BY <1>3, SingleEqual
<1>5. \A y \in T : \E x \in S : g[x] = y
  BY <1>3
<1>6. ExistsBijection(S, T)
  BY <1>3, <1>4, <1>5 DEF ExistsBijection, Bijection, Injection, Surjection, IsInjective
<1>7. IsFiniteSet(T) /\ Cardinality(T) = N
  BY <1>1, <1>6, FS_Bijection
<1>8. q \in [1..N -> S] /\ \A i, j \in 1..N : i # j => q[i] # q[j]
  BY <1>1 DEF SetToSeqs
<1>9. PICK t : t = Singles(q)
  OBVIOUS
<1>10. t = [p \in 1..N |-> Single(q[p])]
  BY <1>8, <1>9 DEF Singles
<1>11. \A p \in 1..N : t[p] = Single(q[p]) /\ t[p] \in T
  BY <1>8, <1>10
<1>12. \A i, j \in 1..N : i # j => t[i] # t[j]
  BY <1>8, <1>11, SingleEqual
<1>13. t \in [1..N -> T]
  BY <1>10, <1>11
<1>14. t \in SetToSeqs(T)
  BY <1>7, <1>12, <1>13 DEF SetToSeqs
<1> QED
  BY <1>7, <1>9, <1>14

\* Two lists of inclusions that agree on an order, and have no two lines in a row in
\* common, are merged.
LEMMA InclusionsMerged ==
  ASSUME NEW our, IsList(our), NEW their, IsList(their), NEW kind,
         Kinds(our) = {"include"}, Kinds(their) = {"include"},
         Orderable(Unique(our), Unique(their)),
         Edges(Unique(our)) \cap Edges(Unique(their)) = {}
  PROVE  Lists(kind, our, their) # {}
<1>1. PICK u : u = Unique(our)
  OBVIOUS
<1>2. PICK v : v = Unique(their)
  OBVIOUS
<1>3. PICK S : S = ToSet(u) \cup ToSet(v)
  OBVIOUS
<1>4. PICK q \in SetToSeqs(S) : InOrder(u, q) /\ InOrder(v, q)
  BY <1>1, <1>2, <1>3 DEF Orderable
<1>5. IsList(u) /\ IsList(v) /\ ToSet(u) = ToSet(our) /\ ToSet(v) = ToSet(their)
  BY <1>1, <1>2, UniqueList, UniqueAll
<1>6. IsFiniteSet(S)
  <2>1. PICK S1 : S1 = ToSet(u)
    OBVIOUS
  <2>2. PICK S2 : S2 = ToSet(v)
    OBVIOUS
  <2>3. IsFiniteSet(S1) /\ IsFiniteSet(S2)
    BY <1>5, <2>1, <2>2, FiniteItems
  <2>4. IsFiniteSet(S1 \cup S2)
    BY <2>3, FS_Union
  <2> QED
    BY <1>3, <2>1, <2>2, <2>4
<1>7. PICK v1 : v1 = Singles(our)
  OBVIOUS
<1>8. PICK v2 : v2 = Singles(their)
  OBVIOUS
<1>9. PICK T : T = ToSet(v1) \cup ToSet(v2)
  OBVIOUS
<1>10. T = {Single(x) : x \in S}
  <2>1. ToSet(v1) = {Single(x) : x \in ToSet(our)} /\ ToSet(v2) = {Single(x) : x \in ToSet(their)}
    BY <1>7, <1>8, SinglesSet
  <2> QED
    BY <1>3, <1>5, <1>9, <2>1
<1>11. IsFiniteSet(T) /\ Singles(q) \in SetToSeqs(T)
  BY <1>4, <1>6, <1>10, SinglesNodes
<1>12. PICK E1 : E1 = Edges(Unique(v1))
  OBVIOUS
<1>13. PICK E2 : E2 = Edges(Unique(v2))
  OBVIOUS
<1>14. E1 = Edges(Singles(u)) /\ E2 = Edges(Singles(v))
  BY <1>1, <1>2, <1>7, <1>8, <1>12, <1>13, SinglesUnique
<1>15. E1 \cap E2 = {}
  BY <1>1, <1>2, <1>5, <1>14, SinglesDisjoint
<1>16. IsFiniteSet(E1) /\ IsFiniteSet(E2)
  <2>1. IsList(Singles(u)) /\ IsList(Singles(v))
    BY <1>5, SinglesList
  <2> QED
    BY <1>14, <2>1, FiniteEdges
<1>17. IsList(q)
  BY <1>4, <1>6, AllNodes
<1>18. PICK t : t = Singles(q)
  OBVIOUS
<1>19. DOMAIN t = DOMAIN q /\ \A p \in DOMAIN q : t[p] = Single(q[p])
  BY <1>17, <1>18, SinglesList
<1>20. ASSUME NEW e \in E1 \cup E2
       PROVE  \E m, n \in DOMAIN t : m < n /\ e = <<t[m], t[n]>>
  <2>1. e \in Edges(Singles(u)) \/ e \in Edges(Singles(v))
    BY <1>14
  <2>2. \E m, n \in DOMAIN q : m < n /\ e = <<Single(q[m]), Single(q[n])>>
    BY <1>4, <1>5, <1>17, <2>1, SinglesOrder
  <2> QED
    BY <1>19, <2>2
<1>21. t \in SetToSeqs(T)
  BY <1>11, <1>18
<1>22. t \in topologicalSort(T, E1, E2)
  BY <1>11, <1>15, <1>16, <1>20, <1>21, SortFound
<1>23. t \in mergeVectors(v1, v2)
  BY <1>9, <1>12, <1>13, <1>22 DEF mergeVectors
<1>24. v1 \in parseInclusions(our) /\ v2 \in parseInclusions(their)
  BY <1>7, <1>8 DEF parseInclusions, Singles, Single
<1>25. PICK P : P = parseInclusions(our) \X parseInclusions(their)
  OBVIOUS
<1>26. PICK M : M = UNION {mergeVectors(p[1], p[2]) : p \in P}
  OBVIOUS
<1>27. t \in M
  <2>1. PICK p \in P : p = <<v1, v2>>
    BY <1>24, <1>25
  <2>2. p[1] = v1 /\ p[2] = v2
    BY <2>1
  <2> QED
    BY <1>23, <1>26, <2>2
<1>28. Lists(kind, our, their) = M
  BY <1>25, <1>26, <1>27, Zenon DEF Lists
<1> QED
  BY <1>27, <1>28

\* ... so the text handler resolves them.
LEMMA InclusionsResolved ==
  ASSUME NEW our, IsList(our), NEW their, IsList(their), NEW id, NEW k,
         Kinds(our) = {"include"}, Kinds(their) = {"include"},
         Orderable(Unique(our), Unique(their)),
         Edges(Unique(our)) \cap Edges(Unique(their)) = {}
  PROVE  text(our, their, id, k) # {}
<1>1. PICK kind : kind = File(id).kind
  OBVIOUS
<1>2. Lists(kind, our, their) # {}
  BY InclusionsMerged
<1>3. doListMerge(kind, our, their) # {}
  BY <1>2 DEF doListMerge
<1> QED
  BY <1>1, <1>3, Zenon DEF text

-----------------------------------------------------------------------------
(* Both sides, the base mark and the lists that are refused, along the chain. *)

\* No base mark is asked for, although there are some.
NoBase == input.style = "diff3" /\ Original(1) = <<>>

Right(c, noBase, r) ==
  /\ Contains(r.code, Mark) => noBase
  /\ r.desc \in Claims => BothIn(c, r)
AllRight(found, noBase, list) ==
  \A n \in DOMAIN list : Right(found[list[n].index], noBase, list[n])

\* A block the list merge may leave.
Refused(c) ==
  Kinds(c.our) = {"include"} /\ Kinds(c.their) = {"include"} =>
    \/ ~Orderable(Unique(c.our), Unique(c.their))
    \/ Edges(Unique(c.our)) \cap Edges(Unique(c.their)) # {}
Tried(m, x) == phase = "done" \/ m < f \/ (m = f /\ x < b)

\* The first file has no block when a handler begins only if it never had one: a file
\* without blocks counts as resolved, and is dropped only if a block was resolved.
SidesInv ==
  /\ favour \in Favours /\ handler \in {"style", "text"}
  /\ (handler = "style" \/ phase = "begin") /\ files # <<>> /\ files[1].blocks = <<>> =>
       Original(1) = <<>>
  /\ phase # "begin" /\ files # <<>> /\ input.style = "diff3" /\ ~withBase => Original(1) = <<>>
  /\ \A id \in Ids : AllRight(Originals[id], NoBase, store[id])
  /\ phase = "blocks" /\ f <= Len(files) => AllRight(Originals[files[f].id], NoBase, results)
  /\ phase = "done" /\ files # <<>> => handler = "text"
  /\ phase # "begin" /\ handler = "text" =>
       \A m \in DOMAIN files : \A x \in DOMAIN files[m].blocks :
         Tried(m, x) /\ ~files[m].blocks[x].resolved => NoBase \/ Refused(files[m].blocks[x].c)

\* The base mark is asked for only where there is one, and if it is not, noBase says so.
Asks(c, asked, noBase) ==
  IsCode(c) /\ (asked => c.hasBase) /\ (~asked /\ c.hasBase => noBase)

Answers(c, asked, id, k) ==
  style(OurCode(c, asked), c.their) \cup text(OurCode(c, asked), c.their, id, k)

\* What is written for a block.
LEMMA AnswerRight ==
  ASSUME NEW c, NEW asked, NEW noBase, Asks(c, asked, noBase), NEW id, NEW k,
         favour \in {"deletion", "modification"},
         NEW r \in Answers(c, asked, id, k)
  PROVE  \A e : e.code = r.code /\ e.desc = r.desc => Right(c, noBase, e)
<1> USE DEF Asks
<1>1. PICK our : our = OurCode(c, asked)
  OBVIOUS
<1>2. IsOur(c, our) /\ (our = c.our \/ (~asked /\ c.hasBase))
  BY <1>1, OurSide
<1>3. r \in style(our, c.their) => Sound(c, our, r)
  BY <1>2, StyleSound
<1>4. r \in text(our, c.their, id, k) => Sound(c, our, r)
  BY <1>2, TextSound
<1>5. Sound(c, our, r)
  BY <1>1, <1>3, <1>4 DEF Answers
<1>6. ASSUME Contains(r.code, Mark)
      PROVE  noBase
  <2>1. r.code \notin Seq(Lines)
    <3> SUFFICES ASSUME r.code \in Seq(Lines)
                 PROVE  FALSE
      OBVIOUS
    <3>1. PICK s \in Seq(Lines) : s = r.code
      OBVIOUS
    <3>2. PICK p \in 1..Len(s) : s[p] = Mark
      BY <1>6, <3>1 DEF Contains
    <3>3. p \in DOMAIN s
      BY SeqList
    <3> QED
      BY <3>2, <3>3, NoMark
  <2>2. r.code = our
    BY <1>5, <2>1 DEF Sound
  <2>3. our # c.our
    BY <2>1, <2>2 DEF IsCode
  <2> QED
    BY <1>2, <2>3
<1>7. r.desc \in Claims => BothIn(c, r)
  BY <1>5 DEF Sound
<1>8. ASSUME NEW e, e.code = r.code, e.desc = r.desc, BothIn(c, r)
      PROVE  BothIn(c, e)
  BY <1>8 DEF BothIn, KeptIn
<1> QED
  BY <1>6, <1>7, <1>8 DEF Right

\* What is left of a block the text handler has no answer for.
LEMMA NoAnswer ==
  ASSUME NEW c, NEW asked, NEW noBase, Asks(c, asked, noBase), NEW id, NEW k,
         text(OurCode(c, asked), c.their, id, k) = {}
  PROVE  noBase \/ Refused(c)
<1> USE DEF Asks
<1>1. CASE ~asked /\ c.hasBase
  BY <1>1
<1>2. CASE OurCode(c, asked) = c.our
  <2>1. PICK our : our = c.our
    OBVIOUS
  <2>2. PICK their : their = c.their
    OBVIOUS
  <2>3. IsList(our) /\ IsList(their)
    BY <2>1, <2>2, SeqList DEF IsCode
  <2>4. text(our, their, id, k) = {}
    BY <1>2, <2>1, <2>2
  <2>5. ~(/\ Kinds(our) = {"include"} /\ Kinds(their) = {"include"}
          /\ Orderable(Unique(our), Unique(their))
          /\ Edges(Unique(our)) \cap Edges(Unique(their)) = {})
    BY <2>3, <2>4, InclusionsResolved
  <2> QED
    BY <2>1, <2>2, <2>5 DEF Refused
<1>3. OurCode(c, asked) = c.our \/ (~asked /\ c.hasBase)
  BY OurSide
<1> QED
  BY <1>1, <1>2, <1>3

LEMMA AppendRight ==
  ASSUME NEW list, IsList(list), NEW e, NEW found, NEW noBase,
         AllRight(found, noBase, list), Right(found[e.index], noBase, e)
  PROVE  AllRight(found, noBase, Append(list, e))
<1>1. PICK t : t = Append(list, e)
  OBVIOUS
<1>2. \A n \in DOMAIN t : (n \in DOMAIN list /\ t[n] = list[n]) \/ t[n] = e
  BY <1>1, AppendEntries
<1> QED
  BY <1>1, <1>2 DEF AllRight

LEMMA ConcatRight ==
  ASSUME NEW list, IsList(list), NEW more, IsList(more), NEW found, NEW noBase,
         AllRight(found, noBase, list), AllRight(found, noBase, more)
  PROVE  AllRight(found, noBase, list \o more)
<1>1. PICK t : t = list \o more
  OBVIOUS
<1>2. \A n \in DOMAIN t : \/ n \in DOMAIN list /\ t[n] = list[n]
                          \/ \E m \in DOMAIN more : t[n] = more[m]
  BY <1>1, ConcatEntries
<1> QED
  BY <1>1, <1>2 DEF AllRight

LEMMA EmptyRight ==
  ASSUME NEW found, NEW noBase
  PROVE  AllRight(found, noBase, <<>>)
<1> QED
  BY DEF AllRight

LEMMA SameNoBase ==
  ASSUME input' = input
  PROVE  NoBase' = NoBase /\ Original(1)' = Original(1)
<1> QED
  BY DEF NoBase, Original, constructConflictFile, File

LEMMA InitSides ==
  ASSUME Init
  PROVE  SidesInv
<1>1. /\ input \in Inputs /\ favour \in Favours /\ phase = "begin" /\ handler = "style"
      /\ store = [id \in Ids |-> <<>>]
      /\ files = [id \in Ids |-> [id |-> id, resolved |-> FALSE,
                                  blocks |-> Unresolved(Original(id))]]
  BY DEF Init, Original
<1>2. \A id \in Ids : AllRight(Originals[id], NoBase, store[id])
  BY <1>1, EmptyRight
<1>3. ASSUME files # <<>>, files[1].blocks = <<>>
      PROVE  Original(1) = <<>>
  <2>1. Ids = 1..Len(input.files) /\ Len(input.files) \in Nat
    BY <1>1, InputAssumption DEF Ids
  <2>2. DOMAIN files = 1..Len(input.files)
    BY <1>1, <2>1
  <2>3. 1 \in Ids
    <3>1. CASE Len(input.files) = 0
      <4>1. Ids = {}
        BY <2>1, <3>1
      <4>2. files = <<>>
        BY <1>1, <4>1
      <4> QED
        BY <1>3, <4>2
    <3> QED
      BY <2>1, <3>1
  <2>4. PICK orig : orig = Original(1)
    OBVIOUS
  <2>5. IsList(orig)
    BY <1>1, <2>3, <2>4, OriginalNumbers
  <2>6. files[1].blocks = Unresolved(orig)
    BY <1>1, <2>3, <2>4
  <2>7. DOMAIN Unresolved(orig) = DOMAIN orig
    BY DEF Unresolved
  <2>8. DOMAIN orig = {}
    BY <1>3, <2>6, <2>7
  <2>9. Len(orig) = 0
    <3>1. DOMAIN orig = 1..Len(orig) /\ Len(orig) \in Nat
      BY <2>5, ListDomain
    <3> QED
      BY <2>8, <3>1
  <2>10. orig = <<>>
    BY <2>5, <2>9 DEF IsList
  <2> QED
    BY <2>4, <2>10
<1> QED
  BY <1>1, <1>2, <1>3 DEF SidesInv

\* WithBase is FALSE in diff3 style only if the first file has no block.
LEMMA BeginSides ==
  ASSUME BlocksInv, DescInv, SidesInv, beginHandler
  PROVE  SidesInv'
<1>1. /\ phase = "begin" /\ phase' = "blocks" /\ f' = 1 /\ b' = 1 /\ results' = <<>>
      /\ input' = input /\ files' = files /\ store' = store /\ handler' = handler
      /\ favour' = favour /\ withBase' = WithBase
  BY DEF beginHandler
<1>2. Ids' = Ids /\ Originals' = Originals /\ NoBase' = NoBase /\ Original(1)' = Original(1)
  BY <1>1, SameOriginals, SameNoBase
<1>3. DOMAIN files = 1..Len(files) /\ Len(files) \in Nat /\ IsList(files)
  BY ListDomain DEF BlocksInv, FilesInv
<1>4. /\ favour \in Favours /\ handler \in {"style", "text"}
      /\ files # <<>> /\ files[1].blocks = <<>> => Original(1) = <<>>
      /\ \A id \in Ids : AllRight(Originals[id], NoBase, store[id])
  BY <1>1 DEF SidesInv
<1>5. ASSUME files # <<>>, input.style = "diff3", ~WithBase
      PROVE  Original(1) = <<>>
  <2>1. 1 \in DOMAIN files
    <3>1. Len(files) # 0
      BY <1>3, <1>5 DEF IsList
    <3> QED
      BY <1>3, <3>1
  <2>2. PICK file : file = files[1]
    OBVIOUS
  <2>3. IsFile(file, AllBlocks) /\ Genuine(file, Originals)
    BY <2>1, <2>2 DEF BlocksInv, FilesInv, DescInv
  <2>4. file.blocks = <<>> \/ ~file.blocks[1].c.hasBase
    BY <1>5, <2>2 DEF WithBase
  <2>5. CASE file.blocks # <<>>
    <3>1. 1 \in DOMAIN file.blocks
      <4>1. /\ IsList(file.blocks) /\ DOMAIN file.blocks = 1..Len(file.blocks)
            /\ Len(file.blocks) \in Nat
        BY <2>3, ListDomain DEF IsFile
      <4>2. Len(file.blocks) # 0
        BY <2>5, <4>1 DEF IsList
      <4> QED
        BY <4>1, <4>2
    <3>2. PICK c : c = file.blocks[1].c
      OBVIOUS
    <3>3. PICK id \in Ids : id = file.id
      BY <2>3 DEF IsFile, AllBlocks
    <3>4. PICK k \in DOMAIN Original(id) : k = c.index
      BY <2>3, <3>1, <3>2, <3>3 DEF IsFile, AllBlocks
    <3>5. c = Original(id)[k]
      BY <2>3, <3>1, <3>2, <3>3, <3>4 DEF Genuine, Originals
    <3>6. c.hasBase = (input.style = "diff3")
      BY <3>5, OriginalCode DEF BlocksInv
    <3> QED
      BY <1>5, <2>4, <2>5, <3>2, <3>6
  <2> QED
    BY <1>4, <1>5, <2>2, <2>5
<1>6. \A found : AllRight(found, NoBase, results')
  BY <1>1, EmptyRight
<1>7. ASSUME NEW m \in DOMAIN files', NEW x \in DOMAIN files'[m].blocks
      PROVE  ~Tried(m, x)'
  <2>1. m \in Nat \ {0}
    BY <1>1, <1>3
  <2>2. x \in Nat \ {0}
    <3>1. IsList(files[m].blocks)
      BY <1>1 DEF BlocksInv, FilesInv, IsFile
    <3>2. DOMAIN files[m].blocks = 1..Len(files[m].blocks) /\ Len(files[m].blocks) \in Nat
      BY <3>1, ListDomain
    <3> QED
      BY <1>1, <3>2
  <2> QED
    BY <1>1, <2>1, <2>2 DEF Tried
<1>8. /\ favour' \in Favours /\ handler' \in {"style", "text"}
      /\ files' # <<>> /\ files'[1].blocks = <<>> => Original(1)' = <<>>
      /\ files' # <<>> /\ input'.style = "diff3" /\ ~withBase' => Original(1)' = <<>>
      /\ \A id \in Ids' : AllRight(Originals'[id], NoBase', store'[id])
  BY <1>1, <1>2, <1>4, <1>5
<1>9. AllRight(Originals'[files'[f'].id], NoBase', results')
  BY <1>2, <1>6
<1> QED
  BY <1>1, <1>7, <1>8, <1>9 DEF SidesInv

LEMMA ResolveSides ==
  ASSUME BlocksInv, DescInv, SidesInv, resolveBlock
  PROVE  SidesInv'
<1>1. /\ phase = "blocks" /\ phase' = phase /\ f' = f /\ b' = b + 1 /\ handler' = handler
      /\ input' = input /\ store' = store /\ withBase' = withBase /\ favour' = favour
      /\ f <= Len(files) /\ b <= Len(files[f].blocks)
  BY DEF resolveBlock
<1>2. Ids' = Ids /\ Originals' = Originals /\ NoBase' = NoBase /\ Original(1)' = Original(1)
  BY <1>1, SameOriginals, SameNoBase
<1>3. DOMAIN files = 1..Len(files) /\ Len(files) \in Nat
  BY ListDomain DEF BlocksInv, FilesInv
<1>4. PICK file : file = files[f]
  OBVIOUS
<1>5. f \in DOMAIN files /\ b \in Nat \ {0} /\ b <= Len(file.blocks)
  BY <1>1, <1>3, <1>4 DEF BlocksInv, ProgressInv
<1>6. IsFile(file, AllBlocks) /\ Genuine(file, Originals)
  BY <1>4, <1>5 DEF BlocksInv, FilesInv, DescInv
<1>7. b \in DOMAIN file.blocks
  <2>1. DOMAIN file.blocks = 1..Len(file.blocks) /\ Len(file.blocks) \in Nat
    BY <1>6, ListDomain DEF IsFile
  <2> QED
    BY <1>5, <2>1
<1>8. PICK c : c = file.blocks[b].c
  OBVIOUS
<1>9. PICK id \in Ids : id = file.id
  BY <1>6 DEF IsFile, AllBlocks
<1>10. PICK k \in DOMAIN Original(id) : k = c.index
  BY <1>6, <1>7, <1>8, <1>9 DEF IsFile, AllBlocks
<1>11. c = Original(id)[k] /\ c = Originals[id][k]
  BY <1>6, <1>7, <1>8, <1>9, <1>10 DEF Genuine, Originals
<1>12. IsCode(c) /\ c.hasBase = (input.style = "diff3")
  BY <1>11, OriginalCode DEF BlocksInv
<1>13. /\ favour \in Favours /\ handler \in {"style", "text"}
       /\ handler = "style" /\ files # <<>> /\ files[1].blocks = <<>> => Original(1) = <<>>
       /\ files # <<>> /\ input.style = "diff3" /\ ~withBase => Original(1) = <<>>
       /\ \A i \in Ids : AllRight(Originals[i], NoBase, store[i])
       /\ AllRight(Originals[id], NoBase, results)
       /\ handler = "text" =>
            \A m \in DOMAIN files : \A x \in DOMAIN files[m].blocks :
              Tried(m, x) /\ ~files[m].blocks[x].resolved =>
                NoBase \/ Refused(files[m].blocks[x].c)
  BY <1>1, <1>4, <1>9 DEF SidesInv
<1>14. files # <<>>
  BY <1>5
<1>15. PICK asked : asked = withBase
  OBVIOUS
<1>16. PICK noBase : noBase = NoBase
  OBVIOUS
<1>17. Asks(c, asked, noBase)
  <2>1. withBase => input.style = "diff3"
    BY <1>1 DEF DescInv
  <2> QED
    BY <1>12, <1>13, <1>14, <1>15, <1>16, <2>1 DEF NoBase, Asks
\* Only blocks before b, and b itself, were tried.
<1>18. ASSUME NEW m \in DOMAIN files, NEW x \in DOMAIN files[m].blocks, Tried(m, x)'
       PROVE  Tried(m, x) \/ (m = f /\ x = b)
  <2>1. DOMAIN files[m].blocks = 1..Len(files[m].blocks) /\ Len(files[m].blocks) \in Nat
    BY ListDomain DEF BlocksInv, FilesInv, IsFile
  <2>2. x \in Nat
    BY <2>1
  <2> QED
    BY <1>1, <1>5, <1>18, <2>2 DEF Tried
<1>19. PICK found : found = (IF handler = "style" THEN style(OurCode(c, withBase), c.their)
                             ELSE text(OurCode(c, withBase), c.their, id, k))
  OBVIOUS
<1>20. CASE found = {} /\ files' = files /\ results' = results
  <2>1. handler = "text" => noBase \/ Refused(c)
    <3> SUFFICES ASSUME handler = "text"
                 PROVE  noBase \/ Refused(c)
      OBVIOUS
    <3>1. text(OurCode(c, asked), c.their, id, k) = {}
      BY <1>15, <1>19, <1>20
    <3> QED
      BY <1>17, <3>1, NoAnswer
  <2>2. ASSUME handler = "text", NEW m \in DOMAIN files, NEW x \in DOMAIN files[m].blocks,
               Tried(m, x)', ~files[m].blocks[x].resolved
        PROVE  NoBase \/ Refused(files[m].blocks[x].c)
    BY <1>4, <1>8, <1>13, <1>16, <1>18, <2>1, <2>2
  <2>3. files'[f'].id = id
    BY <1>1, <1>4, <1>9, <1>20
  <2> QED
    BY <1>1, <1>2, <1>13, <1>20, <2>2, <2>3 DEF SidesInv
<1>21. ASSUME NEW r \in found,
              files' = [files EXCEPT ![f].blocks[b].resolved = TRUE],
              results' = Append(results, [index |-> c.index, code |-> r.code, desc |-> r.desc])
       PROVE  SidesInv'
  <2>1. PICK blocks : blocks = [file.blocks EXCEPT ![b] =
                                  [file.blocks[b] EXCEPT !.resolved = TRUE]]
    OBVIOUS
  <2>2. PICK g : g = [file EXCEPT !.blocks = blocks]
    OBVIOUS
  <2>3. g.id = file.id /\ g.blocks = blocks
    BY <1>6, <2>2 DEF IsFile
  <2>4. files' = [files EXCEPT ![f] = g]
    BY <1>4, <1>5, <1>21, <2>1, <2>2
  <2>5. /\ DOMAIN files' = DOMAIN files /\ files'[f] = g
        /\ \A m \in DOMAIN files : m # f => files'[m] = files[m]
    BY <1>5, <2>4
  <2>6. /\ DOMAIN blocks = DOMAIN file.blocks
        /\ blocks[b].resolved = TRUE
        /\ \A x \in DOMAIN blocks : x # b => blocks[x] = file.blocks[x]
    <3>1. /\ DOMAIN blocks = DOMAIN file.blocks
          /\ blocks[b] = [file.blocks[b] EXCEPT !.resolved = TRUE]
          /\ \A x \in DOMAIN blocks : x # b => blocks[x] = file.blocks[x]
      BY <1>7, <2>1
    <3>2. file.blocks[b] = [c |-> file.blocks[b].c, resolved |-> file.blocks[b].resolved]
      BY <1>6, <1>7 DEF IsFile
    <3>3. blocks[b].resolved = TRUE
      BY <3>1, <3>2
    <3> QED
      BY <3>1, <3>3
  <2>7. PICK e : e = [index |-> c.index, code |-> r.code, desc |-> r.desc]
    OBVIOUS
  <2>8. e.index = k /\ e.code = r.code /\ e.desc = r.desc /\ results' = Append(results, e)
    BY <1>10, <1>21, <2>7
  <2>9. r \in Answers(c, asked, id, k)
    BY <1>15, <1>19, <1>21 DEF Answers
  <2>10. favour \in {"deletion", "modification"}
    BY <1>13, FavourAssumption
  <2>11. Right(c, noBase, e)
    <3>1. \A x : x.code = r.code /\ x.desc = r.desc => Right(c, noBase, x)
      BY <1>17, <2>9, <2>10, AnswerRight
    <3> QED
      BY <2>8, <3>1
  <2>12. AllRight(Originals[id], NoBase, results')
    <3>1. PICK list : list = results
      OBVIOUS
    <3>2. PICK orig : orig = Originals[id]
      OBVIOUS
    <3>3. IsList(list) /\ AllRight(orig, noBase, list) /\ Right(orig[e.index], noBase, e)
      BY <1>11, <1>13, <1>16, <2>8, <2>11, <3>1, <3>2 DEF BlocksInv
    <3>4. AllRight(orig, noBase, Append(list, e))
      BY <3>3, AppendRight
    <3> QED
      BY <1>16, <2>8, <3>1, <3>2, <3>4
  <2>13. ASSUME handler = "text", NEW m \in DOMAIN files', NEW x \in DOMAIN files'[m].blocks,
                Tried(m, x)', ~files'[m].blocks[x].resolved
         PROVE  NoBase \/ Refused(files'[m].blocks[x].c)
    <3>1. CASE m # f
      <4>1. files'[m] = files[m] /\ m \in DOMAIN files
        BY <2>5, <2>13, <3>1
      <4>2. Tried(m, x)
        BY <1>18, <2>13, <3>1, <4>1
      <4> QED
        BY <1>13, <2>13, <4>1, <4>2
    <3>2. CASE m = f
      <4>1. files'[m].blocks = blocks /\ x \in DOMAIN file.blocks /\ x # b
        BY <2>3, <2>5, <2>6, <2>13, <3>2
      <4>2. blocks[x] = file.blocks[x] /\ files[m].blocks = file.blocks
        BY <1>4, <2>6, <3>2, <4>1
      <4>3. Tried(m, x)
        BY <1>5, <1>18, <2>13, <3>2, <4>1, <4>2
      <4> QED
        BY <1>5, <1>13, <2>13, <3>2, <4>1, <4>2, <4>3
    <3> QED
      BY <3>1, <3>2
  <2>14. ASSUME handler = "style", files'[1].blocks = <<>>
         PROVE  Original(1) = <<>>
    <3>1. 1 \in DOMAIN files
      BY <1>3, <1>5
    <3>2. CASE f = 1
      <4>1. DOMAIN file.blocks = {}
        BY <2>3, <2>5, <2>6, <2>14, <3>2
      <4> QED
        BY <1>7, <4>1
    <3>3. CASE f # 1
      BY <1>13, <1>14, <2>5, <2>14, <3>1, <3>3
    <3> QED
      BY <3>2, <3>3
  <2>15. files'[f'].id = id
    BY <1>1, <1>9, <2>3, <2>5
  <2>16. /\ favour' \in Favours /\ handler' \in {"style", "text"}
         /\ (handler' = "style" \/ phase' = "begin") /\ files'[1].blocks = <<>> =>
              Original(1)' = <<>>
         /\ input'.style = "diff3" /\ ~withBase' => Original(1)' = <<>>
         /\ \A i \in Ids' : AllRight(Originals'[i], NoBase', store'[i])
    BY <1>1, <1>2, <1>13, <1>14, <2>14
  <2>17. AllRight(Originals'[files'[f'].id], NoBase', results')
    BY <1>2, <2>12, <2>15
  <2> QED
    BY <1>1, <1>2, <2>13, <2>16, <2>17 DEF SidesInv
<1>22. \/ found = {} /\ files' = files /\ results' = results
       \/ \E r \in found :
            /\ files' = [files EXCEPT ![f].blocks[b].resolved = TRUE]
            /\ results' = Append(results, [index |-> c.index, code |-> r.code, desc |-> r.desc])
  BY <1>4, <1>8, <1>9, <1>10, <1>19, Zenon DEF resolveBlock
<1> QED
  BY <1>20, <1>21, <1>22

LEMMA FinishFileSides ==
  ASSUME BlocksInv, SidesInv, finishFile
  PROVE  SidesInv'
<1>1. /\ phase = "blocks" /\ phase' = phase /\ f' = f + 1 /\ b' = 1 /\ results' = <<>>
      /\ input' = input /\ withBase' = withBase /\ favour' = favour /\ handler' = handler
      /\ f <= Len(files) /\ b > Len(files[f].blocks)
  BY DEF finishFile
<1>2. Ids' = Ids /\ Originals' = Originals /\ NoBase' = NoBase /\ Original(1)' = Original(1)
  BY <1>1, SameOriginals, SameNoBase
<1>3. DOMAIN files = 1..Len(files) /\ Len(files) \in Nat
  BY ListDomain DEF BlocksInv, FilesInv
<1>4. PICK file : file = files[f]
  OBVIOUS
<1>5. f \in DOMAIN files /\ b \in Nat
  BY <1>1, <1>3 DEF BlocksInv, ProgressInv
<1>6. IsFile(file, AllBlocks)
  BY <1>4, <1>5 DEF BlocksInv, FilesInv
<1>7. file.id \in Ids
  BY <1>6 DEF IsFile, AllBlocks
<1>8. /\ favour \in Favours /\ handler \in {"style", "text"}
      /\ handler = "style" /\ files # <<>> /\ files[1].blocks = <<>> => Original(1) = <<>>
      /\ files # <<>> /\ input.style = "diff3" /\ ~withBase => Original(1) = <<>>
      /\ \A i \in Ids : AllRight(Originals[i], NoBase, store[i])
      /\ AllRight(Originals[file.id], NoBase, results)
      /\ handler = "text" =>
           \A m \in DOMAIN files : \A x \in DOMAIN files[m].blocks :
             Tried(m, x) /\ ~files[m].blocks[x].resolved =>
               NoBase \/ Refused(files[m].blocks[x].c)
  BY <1>1, <1>4 DEF SidesInv
<1>9. files # <<>>
  BY <1>5
\* The file: only its flag changes.
<1>10. PICK g : g = [file EXCEPT !.resolved = AllResolved(file)]
  OBVIOUS
<1>11. g.blocks = file.blocks
  BY <1>6, <1>10 DEF IsFile
<1>12. files' = [files EXCEPT ![f] = g]
  BY <1>4, <1>5, <1>10 DEF finishFile
<1>13. DOMAIN files' = DOMAIN files /\ \A m \in DOMAIN files : files'[m].blocks = files[m].blocks
  <2>1. /\ DOMAIN files' = DOMAIN files /\ files'[f] = g
        /\ \A m \in DOMAIN files : m # f => files'[m] = files[m]
    BY <1>5, <1>12
  <2> QED
    BY <1>4, <1>11, <2>1
\* The store: the results go to the file they are about.
<1>14. DOMAIN store = Ids /\ IsList(store[file.id]) /\ IsList(results)
  BY <1>7 DEF BlocksInv, StoreInv
<1>15. /\ \A id \in Ids : id # file.id => store'[id] = store[id]
       /\ store'[file.id] = store[file.id] \/ store'[file.id] = store[file.id] \o results
  <2>1. store' = store \/ store' = [store EXCEPT ![file.id] = store[file.id] \o results]
    BY <1>4 DEF finishFile, marshalResolutionResult
  <2> QED
    BY <1>7, <1>14, <2>1
<1>16. AllRight(Originals[file.id], NoBase, store'[file.id])
  <2>1. PICK orig : orig = Originals[file.id]
    OBVIOUS
  <2>2. PICK list : list = store[file.id]
    OBVIOUS
  <2>3. PICK more : more = results
    OBVIOUS
  <2>4. PICK noBase : noBase = NoBase
    OBVIOUS
  <2>5. /\ IsList(list) /\ IsList(more)
        /\ AllRight(orig, noBase, list) /\ AllRight(orig, noBase, more)
    BY <1>7, <1>8, <1>14, <2>1, <2>2, <2>3, <2>4
  <2>6. AllRight(orig, noBase, list \o more)
    BY <2>5, ConcatRight
  <2> QED
    BY <1>15, <2>1, <2>2, <2>3, <2>4, <2>5, <2>6
<1>17. \A id \in Ids : AllRight(Originals[id], NoBase, store'[id])
  BY <1>8, <1>15, <1>16
<1>18. \A found : AllRight(found, NoBase, results')
  BY <1>1, EmptyRight
\* All blocks of the file were tried, and none of the next.
<1>19. ASSUME NEW m \in DOMAIN files, NEW x \in DOMAIN files[m].blocks, Tried(m, x)'
       PROVE  Tried(m, x)
  <2>1. DOMAIN files[m].blocks = 1..Len(files[m].blocks) /\ Len(files[m].blocks) \in Nat
    BY ListDomain DEF BlocksInv, FilesInv, IsFile
  <2>2. m \in Nat /\ f \in Nat /\ x \in Nat \ {0} /\ x <= Len(files[m].blocks)
    BY <1>3, <1>5, <2>1
  <2>3. m < f + 1
    BY <1>1, <1>19, <2>2 DEF Tried
  <2>4. m < f \/ m = f
    BY <2>2, <2>3
  <2>5. m = f => x < b
    BY <1>1, <1>5, <2>1, <2>2
  <2> QED
    BY <2>4, <2>5 DEF Tried
<1>20. ASSUME handler = "text", NEW m \in DOMAIN files', NEW x \in DOMAIN files'[m].blocks,
              Tried(m, x)', ~files'[m].blocks[x].resolved
       PROVE  NoBase \/ Refused(files'[m].blocks[x].c)
  BY <1>8, <1>13, <1>19, <1>20
<1>21. 1 \in DOMAIN files
  BY <1>3, <1>5
<1>22. /\ favour' \in Favours /\ handler' \in {"style", "text"}
       /\ (handler' = "style" \/ phase' = "begin") /\ files'[1].blocks = <<>> =>
            Original(1)' = <<>>
       /\ input'.style = "diff3" /\ ~withBase' => Original(1)' = <<>>
       /\ \A i \in Ids' : AllRight(Originals'[i], NoBase', store'[i])
  BY <1>1, <1>2, <1>8, <1>9, <1>13, <1>17, <1>21
<1>23. AllRight(Originals'[files'[f'].id], NoBase', results')
  BY <1>2, <1>18
<1> QED
  BY <1>1, <1>2, <1>20, <1>22, <1>23 DEF SidesInv

\* What tidying up leaves: files with blocks, each as it was.
LEMMA TidySides ==
  ASSUME BlocksInv, phase = "blocks", f > Len(files), files' = tidyUpConflictFiles
  PROVE  /\ IsList(files')
         /\ \A n \in DOMAIN files' :
              /\ files'[n].blocks # <<>>
              /\ \E p \in DOMAIN files : \A x \in DOMAIN files'[n].blocks :
                   \E y \in DOMAIN files[p].blocks : files'[n].blocks[x] = files[p].blocks[y]
<1>1. DOMAIN files = 1..Len(files) /\ Len(files) \in Nat /\ IsList(files)
  BY ListDomain DEF BlocksInv, FilesInv
<1>2. PICK kept : kept = UnresolvedOf(files)
  OBVIOUS
<1>3. IsList(kept) /\ \A n \in DOMAIN kept : \E p \in DOMAIN files :
        ~files[p].resolved /\ kept[n] = files[p]
  BY <1>1, <1>2, UnresolvedList
<1>4. files' = [n \in DOMAIN kept |-> tidyUpConflictBlocks(kept[n])]
  BY <1>2 DEF tidyUpConflictFiles
<1>5. IsList(files')
  <2>1. PICK N \in Nat : DOMAIN kept = 1..N
    BY <1>3, ListDomain
  <2>2. PICK s : s = files'
    OBVIOUS
  <2>3. s = [n \in 1..N |-> s[n]]
    BY <1>4, <2>1, <2>2
  <2>4. IsList(s)
    BY <2>3, FunctionList
  <2> QED
    BY <2>2, <2>4
<1>6. ASSUME NEW n \in DOMAIN files'
      PROVE  /\ files'[n].blocks # <<>>
             /\ \E p \in DOMAIN files : \A x \in DOMAIN files'[n].blocks :
                  \E y \in DOMAIN files[p].blocks : files'[n].blocks[x] = files[p].blocks[y]
  <2>1. n \in DOMAIN kept
    BY <1>4
  <2>2. PICK p \in DOMAIN files : ~files[p].resolved /\ kept[n] = files[p]
    BY <1>3, <2>1
  <2>3. PICK file : file = files[p]
    OBVIOUS
  <2>4. IsFile(file, AllBlocks) /\ ~file.resolved
    BY <2>2, <2>3 DEF BlocksInv, FilesInv
  <2>5. p < f
    BY <1>1 DEF BlocksInv, ProgressInv
  <2>6. file.resolved = AllResolved(file)
    BY <2>3, <2>5 DEF BlocksInv, ProgressInv, Finished
  <2>7. PICK y \in DOMAIN file.blocks : ~file.blocks[y].resolved
    BY <2>4, <2>6 DEF AllResolved
  <2>8. PICK blocks : blocks = UnresolvedOf(file.blocks)
    OBVIOUS
  <2>9. /\ \A x \in DOMAIN blocks : \E z \in DOMAIN file.blocks : blocks[x] = file.blocks[z]
        /\ \E x \in DOMAIN blocks : blocks[x] = file.blocks[y]
    <3>1. PICK s : s = file.blocks
      OBVIOUS
    <3>2. blocks = UnresolvedOf(s) /\ IsList(s) /\ y \in DOMAIN s /\ ~s[y].resolved
      BY <2>4, <2>7, <2>8, <3>1 DEF IsFile
    <3>3. /\ \A x \in DOMAIN blocks : \E z \in DOMAIN s : ~s[z].resolved /\ blocks[x] = s[z]
          /\ \A z \in DOMAIN s : ~s[z].resolved => \E x \in DOMAIN blocks : blocks[x] = s[z]
      BY <3>2, UnresolvedList
    <3> QED
      BY <3>1, <3>2, <3>3
  <2>10. PICK g : g = tidyUpConflictBlocks(file)
    OBVIOUS
  <2>11. g.blocks = blocks
    <3>1. file = [id |-> file.id, blocks |-> file.blocks, resolved |-> file.resolved]
      BY <2>4 DEF IsFile
    <3>2. g = [id |-> file.id, blocks |-> blocks, resolved |-> file.resolved]
      BY <2>8, <2>10, <3>1 DEF tidyUpConflictBlocks
    <3> QED
      BY <3>2
  <2>12. files'[n].blocks = blocks
    BY <1>4, <2>1, <2>2, <2>3, <2>10, <2>11
  <2>13. blocks # <<>>
    BY <2>9
  <2> QED
    BY <2>3, <2>9, <2>12, <2>13
<1> QED
  BY <1>5, <1>6

LEMMA FinishHandlerSides ==
  ASSUME BlocksInv, SidesInv, finishHandler
  PROVE  SidesInv'
<1>1. /\ phase = "blocks" /\ f > Len(files)
      /\ input' = input /\ store' = store /\ favour' = favour /\ withBase' = withBase
      /\ files' = files \/ files' = tidyUpConflictFiles
  BY DEF finishHandler
<1>2. \/ handler = "style" /\ files' # <<>> /\ phase' = "begin" /\ handler' = "text"
      \/ ~(handler = "style" /\ files' # <<>>) /\ phase' = "done" /\ handler' = handler
  BY DEF finishHandler
<1>3. Ids' = Ids /\ Originals' = Originals /\ NoBase' = NoBase /\ Original(1)' = Original(1)
  BY <1>1, SameOriginals, SameNoBase
<1>4. /\ favour \in Favours /\ handler \in {"style", "text"}
      /\ handler = "style" /\ files # <<>> /\ files[1].blocks = <<>> => Original(1) = <<>>
      /\ files # <<>> /\ input.style = "diff3" /\ ~withBase => Original(1) = <<>>
      /\ \A i \in Ids : AllRight(Originals[i], NoBase, store[i])
      /\ handler = "text" =>
           \A m \in DOMAIN files : \A x \in DOMAIN files[m].blocks :
             Tried(m, x) /\ ~files[m].blocks[x].resolved =>
               NoBase \/ Refused(files[m].blocks[x].c)
  BY <1>1 DEF SidesInv
<1>5. DOMAIN files = 1..Len(files) /\ Len(files) \in Nat
  BY ListDomain DEF BlocksInv, FilesInv
<1>6. \A m \in DOMAIN files : \A x : Tried(m, x)
  <2>1. \A m \in DOMAIN files : m < f
    BY <1>1, <1>5 DEF BlocksInv, ProgressInv
  <2> QED
    BY <2>1 DEF Tried
\* Each block that is left is one that was there.
<1>7. /\ files' # <<>> => files # <<>>
      /\ files' # <<>> /\ files'[1].blocks = <<>> => files[1].blocks = <<>>
      /\ \A n \in DOMAIN files' : \E p \in DOMAIN files :
           \A x \in DOMAIN files'[n].blocks : \E y \in DOMAIN files[p].blocks :
             files'[n].blocks[x] = files[p].blocks[y]
  <2>1. CASE files' = files
    BY <2>1
  <2>2. CASE files' = tidyUpConflictFiles
    <3>1. PICK new : new = files'
      OBVIOUS
    <3>2. /\ IsList(new)
          /\ \A n \in DOMAIN new :
               /\ new[n].blocks # <<>>
               /\ \E p \in DOMAIN files : \A x \in DOMAIN new[n].blocks :
                    \E y \in DOMAIN files[p].blocks : new[n].blocks[x] = files[p].blocks[y]
      BY <1>1, <2>2, <3>1, TidySides
    <3>3. new # <<>> => 1 \in DOMAIN new
      <4>1. DOMAIN new = 1..Len(new) /\ Len(new) \in Nat
        BY <3>2, ListDomain
      <4>2. Len(new) = 0 => new = <<>>
        BY <3>2 DEF IsList
      <4> QED
        BY <4>1, <4>2
    <3>4. new # <<>> => new[1].blocks # <<>> /\ files # <<>>
      BY <3>2, <3>3
    <3> QED
      BY <3>1, <3>2, <3>4
  <2> QED
    BY <1>1, <2>1, <2>2
<1>8. ASSUME handler = "text", NEW n \in DOMAIN files', NEW x \in DOMAIN files'[n].blocks,
             ~files'[n].blocks[x].resolved
      PROVE  NoBase \/ Refused(files'[n].blocks[x].c)
  <2>1. PICK p \in DOMAIN files :
          \E y \in DOMAIN files[p].blocks : files'[n].blocks[x] = files[p].blocks[y]
    BY <1>7, <1>8
  <2>2. PICK y \in DOMAIN files[p].blocks : files'[n].blocks[x] = files[p].blocks[y]
    BY <2>1
  <2> QED
    BY <1>4, <1>6, <1>8, <2>2
<1>9. /\ favour' \in Favours /\ handler' \in {"style", "text"}
      /\ (handler' = "style" \/ phase' = "begin") /\ files' # <<>> /\ files'[1].blocks = <<>> =>
           Original(1)' = <<>>
      /\ phase' # "begin" /\ files' # <<>> /\ input'.style = "diff3" /\ ~withBase' =>
           Original(1)' = <<>>
  BY <1>1, <1>2, <1>3, <1>4, <1>7
<1>10. \A i \in Ids' : AllRight(Originals'[i], NoBase', store'[i])
  BY <1>1, <1>3, <1>4
<1>11. phase' # "blocks" /\ (phase' = "done" /\ files' # <<>> => handler' = "text")
  BY <1>2, <1>4
<1>12. ASSUME phase' # "begin", handler' = "text"
       PROVE  \A m \in DOMAIN files' : \A x \in DOMAIN files'[m].blocks :
                ~files'[m].blocks[x].resolved => NoBase' \/ Refused(files'[m].blocks[x].c)
  BY <1>2, <1>3, <1>8, <1>12
<1> QED
  BY <1>9, <1>10, <1>11, <1>12 DEF SidesInv

LEMMA SidesStep ==
  ASSUME BlocksInv, DescInv, SidesInv, [Next]_vars
  PROVE  SidesInv'
<1>1. CASE beginHandler
  BY <1>1, BeginSides
<1>2. CASE resolveBlock
  BY <1>2, ResolveSides
<1>3. CASE finishFile
  BY <1>3, FinishFileSides
<1>4. CASE finishHandler
  BY <1>4, FinishHandlerSides
<1>5. CASE UNCHANGED vars
  <2>1. /\ input' = input /\ phase' = phase /\ handler' = handler /\ withBase' = withBase
        /\ files' = files /\ favour' = favour /\ f' = f /\ b' = b
        /\ results' = results /\ store' = store
    BY <1>5 DEF vars
  <2>2. Ids' = Ids /\ Originals' = Originals /\ NoBase' = NoBase /\ Original(1)' = Original(1)
    BY <2>1, SameOriginals, SameNoBase
  <2>3. \A m, x : Tried(m, x)' = Tried(m, x)
    BY <2>1 DEF Tried
  <2> QED
    BY <2>1, <2>2, <2>3 DEF SidesInv
<1> QED
  BY <1>1, <1>2, <1>3, <1>4, <1>5 DEF Next

\* What the handlers store keeps both sides where it says so, and holds a base mark
\* only where none is asked for, for every merge (TextBasedHandler.cpp,
\* StyleBasedHandler.cpp).
THEOREM SidesInvariant == Spec => []SidesInv
<1>1. Init => SidesInv
  BY InitSides
<1>2. BlocksInv /\ DescInv /\ SidesInv /\ [Next]_vars => SidesInv'
  BY SidesStep
<1> QED
  BY <1>1, <1>2, BlocksInvariant, DescInvariant, PTL DEF Spec

\* A base mark gets into a resolution only if the merge has diff3 markers and its first
\* file no block: WithBase is decided there for all files (StyleBasedHandler.cpp,
\* TextBasedHandler.cpp), and stays right although the list shrinks between the handlers.
THEOREM MarksStayOut == Spec => []MarksOnlyAfterBlocklessFile
<1>1. SidesInv => MarksOnlyAfterBlocklessFile
  <2> SUFFICES ASSUME SidesInv, NEW id \in Ids, NEW r \in ToSet(store[id]),
                      Contains(r.code, Mark)
               PROVE  input.style = "diff3" /\ Original(1) = <<>>
    BY DEF MarksOnlyAfterBlocklessFile
  <2>1. PICK n \in DOMAIN store[id] : store[id][n] = r
    BY DEF ToSet
  <2>2. AllRight(Originals[id], NoBase, store[id])
    BY DEF SidesInv
  <2>3. NoBase
    BY <2>1, <2>2 DEF AllRight, Right
  <2> QED
    BY <2>3 DEF NoBase
<1> QED
  BY <1>1, SidesInvariant, PTL

\* Every resolution that claims to hold both sides of a block has the lines of each in
\* their order (isSubSequence, doListMerge, DependencyGraph::topologicalSort), but for a
\* style resolution, which may break the same text into other lines, and an inclusion
\* in a header, which may have the text of a side inside other words (checkInclusion).
THEOREM BothSidesStay == Spec => []BothSidesKept
<1>1. SidesInv => BothSidesKept
  <2> SUFFICES ASSUME SidesInv, NEW id \in Ids, NEW r \in ToSet(store[id]),
                      r.desc \in Claims
               PROVE  \A side \in {"our", "their"} : KeptIn(Original(id)[r.index][side], r)
    BY DEF BothSidesKept, Claims
  <2>1. PICK n \in DOMAIN store[id] : store[id][n] = r
    BY DEF ToSet
  <2>2. AllRight(Originals[id], NoBase, store[id]) /\ Originals[id] = Original(id)
    BY DEF SidesInv, Originals
  <2>3. BothIn(Original(id)[r.index], r)
    BY <2>1, <2>2 DEF AllRight, Right
  <2> QED
    BY <2>3 DEF BothIn
<1> QED
  BY <1>1, SidesInvariant, PTL

\* Two lists of inclusions stay in conflict only if no order suits both, or if both have
\* the same two lines in a row, an edge that DependencyGraph::addEdge counts twice (or
\* if the base mark was taken for code).
THEOREM ListsRefusedForCause == Spec => []ListsRefusedOnly
<1>1. BlocksInv /\ DescInv /\ SidesInv => ListsRefusedOnly
  <2> SUFFICES ASSUME BlocksInv, DescInv, SidesInv, phase = "done",
                      NEW id \in Ids, NEW index \in Remaining(id), NEW c, c = Original(id)[index],
                      Kinds(c.our) = {"include"} /\ Kinds(c.their) = {"include"}
               PROVE  \/ ~Orderable(Unique(c.our), Unique(c.their))
                      \/ Edges(Unique(c.our)) \cap Edges(Unique(c.their)) # {}
                      \/ input.style = "diff3" /\ Original(1) = <<>>
    BY DEF ListsRefusedOnly
  <2>1. PICK m \in DOMAIN files : files[m].id = id /\
          index \in {y.c.index : y \in {z \in ToSet(files[m].blocks) : ~z.resolved}}
    BY DEF Remaining
  <2>2. PICK x \in DOMAIN files[m].blocks :
          ~files[m].blocks[x].resolved /\ files[m].blocks[x].c.index = index
    BY <2>1 DEF ToSet
  <2>3. files[m].blocks[x].c = c
    BY <2>1, <2>2 DEF DescInv, Genuine, Originals
  <2>4. files # <<>>
    OBVIOUS
  <2>5. handler = "text"
    BY <2>4 DEF SidesInv
  <2>6. NoBase \/ Refused(c)
    BY <2>2, <2>3, <2>5 DEF SidesInv, Tried
  <2> QED
    BY <2>6 DEF NoBase, Refused
<1> QED
  BY <1>1, BlocksInvariant, DescInvariant, SidesInvariant, PTL

=============================================================================
