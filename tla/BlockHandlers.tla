---------------------------- MODULE BlockHandlers ----------------------------
(***************************************************************************)
(* The handler chain on the conflict blocks themselves: the style based    *)
(* handler, then the text based one, and what they write for each block.   *)
(* (The AST based handler between them resolves no block, the LLVM based   *)
(* one does nothing.)                                                      *)
(*                                                                         *)
(* A project has conflict markers in git's "merge" style, which leaves out *)
(* the base and the lines that both sides share (it may split a conflict   *)
(* at them), or in the "diff3" style, which does neither.  A file is       *)
(*   kind, base        source, header or other; whether the base revision  *)
(*                     has it                                              *)
(*   name, top         its name without the directory; whether it is in    *)
(*                     the top directory                                   *)
(*   regions           the conflicts as diff3 sees them, each a sequence   *)
(*                     of parts [our, base, their]                         *)
(* and code a sequence of lines; Expand gives a line with its macros       *)
(* expanded, Core the characters of a line that are neither space nor      *)
(* comment (none for a comment), Kind what tree-sitter takes it for.       *)
(***************************************************************************)
EXTENDS Naturals, FiniteSets, SequencesExt

CONSTANTS
  Inputs,   \* conflicting merges [style, files]
  Expand,   \* a function from lines to lines
  Core,     \* a function from lines to sequences of characters
  Kind,     \* a function from lines to "include", "declaration", ...
  Favours   \* what MERGEBOT_DELETION_INFAVOR may select

Mark == "|||||||"
Lines == DOMAIN Core \ {Mark}   \* of code

\* The files of a merge, the conflicts of a file and the parts of a conflict are
\* lists, and each side of a part is a list of lines.
ASSUME InputAssumption ==
  \A in \in Inputs :
    /\ Len(in.files) \in Nat /\ DOMAIN in.files = 1..Len(in.files)
    /\ \A id \in DOMAIN in.files :
         LET regions == in.files[id].regions
         IN  /\ Len(regions) \in Nat /\ DOMAIN regions = 1..Len(regions)
             /\ \A r \in DOMAIN regions :
                  /\ Len(regions[r]) \in Nat /\ DOMAIN regions[r] = 1..Len(regions[r])
                  /\ \A p \in DOMAIN regions[r] : \A s \in {"our", "base", "their"} :
                       regions[r][p][s] \in Seq(Lines)

\* A base mark is no code to tree-sitter, and a comment leaves nothing behind.
ASSUME LayoutAssumption ==
  /\ Kind[Mark] \notin {"include", "comment", "declaration", "definition"}
  /\ \A l \in Lines : Kind[l] = "comment" => Core[l] = <<>>

\* initDeletionInfavor gives one of two values, whatever the environment holds.
ASSUME FavourAssumption == Favours \subseteq {"deletion", "modification"}

VARIABLES
  input,      \* the conflicting merge
  favour,     \* DeletionInfavor
  phase,      \* "begin", "blocks", "done"
  handler,    \* "style" or "text"
  withBase,   \* WithBase
  files,      \* ConflictFiles: [id, blocks, resolved]
  conflicts,  \* for each file, the blocks in its file under conflicts/
  f, b,       \* loop counters: file and block
  results,    \* ResolvedBlocks of the current file
  store       \* for each file, the results marshalled so far

vars == <<input, favour, phase, handler, withBase, files, conflicts, f, b, results, store>>

File(id) == input.files[id]

\* What is left of a list, in its order, if only the positions P are kept.
Position(P, n) == CHOOSE p \in P : Cardinality({q \in P : q <= p}) = n
Kept(s, P) == [n \in 1..Cardinality(P) |-> s[Position(P, n)]]

-----------------------------------------------------------------------------
(* Conflict files. *)

Side(region, side) == FlattenSeq([p \in DOMAIN region |-> region[p][side]])

\* git calls it a conflict where both sides changed the base, and not alike: no two
\* of the three are the same.
ASSUME ConflictAssumption ==
  \A in \in Inputs : \A id \in DOMAIN in.files : \A r \in DOMAIN in.files[id].regions :
    LET region == in.files[id].regions[r]
    IN  \A s, t \in {"our", "base", "their"} : Side(region, s) = Side(region, t) => s = t

\* Blocks in either style, numbered from 1.
Numbered(s) == [i \in DOMAIN s |-> [index |-> i, our |-> s[i].our, base |-> s[i].base,
                                    their |-> s[i].their, hasBase |-> s[i].hasBase]]
Diff3(file) ==
  Numbered([i \in DOMAIN file.regions |->
    [our |-> Side(file.regions[i], "our"), base |-> Side(file.regions[i], "base"),
     their |-> Side(file.regions[i], "their"), hasBase |-> TRUE]])
\* The parts in which the sides differ, <<region, part>>, and how many there are
\* up to one of them.
Parts(file) ==
  {x \in UNION {{r} \X DOMAIN file.regions[r] : r \in DOMAIN file.regions} :
     file.regions[x[1]][x[2]].our # file.regions[x[1]][x[2]].their}
Ordinal(S, x) == Cardinality({y \in S : y[1] < x[1] \/ (y[1] = x[1] /\ y[2] <= x[2])})
Merge(file) ==
  Numbered([i \in 1..Cardinality(Parts(file)) |->
    LET x == CHOOSE y \in Parts(file) : Ordinal(Parts(file), y) = i
        part == file.regions[x[1]][x[2]]
    IN  [our |-> part.our, base |-> part.base, their |-> part.their, hasBase |-> FALSE]])
constructConflictFile(file) == IF input.style = "diff3" THEN Diff3(file) ELSE Merge(file)

\* The text between two marks: without the base mark there is no our side, and if
\* the base mark is not asked for it is part of the our side.
OurCode(c, asked) ==
  CASE asked /\ c.hasBase -> c.our
    [] asked /\ ~c.hasBase -> <<>>
    [] ~asked /\ c.hasBase -> c.our \o <<Mark>> \o c.base
    [] OTHER -> c.our
BaseCode(c) == IF c.hasBase THEN c.base ELSE <<>>

\* Seeded fault: the counter is compared before it is incremented.
extractConflictBlockNext(id, index) ==
  {conflicts[id][i] : i \in {x \in DOMAIN conflicts[id] : x = index + 1}}
\* The block of that number in the file under conflicts/, if there is one.
extractConflictBlock(id, index) ==
  {conflicts[id][i] : i \in {x \in DOMAIN conflicts[id] : x = index}}

doMacroExpansion(code) == [p \in DOMAIN code |-> Expand[code[p]]]
\* One text without line ends, so that equal texts may be broken differently.
removeCommentsAndSpaces(code) == FlattenSeq([p \in DOMAIN code |-> Core[code[p]]])
Deflated(code) == removeCommentsAndSpaces(doMacroExpansion(code))

-----------------------------------------------------------------------------
(* List merge. *)

Kinds(code) == {Kind[code[p]] : p \in DOMAIN code}
\* A comment right in front of a line; the first one of several in a row.
CommentBefore(code, p) == IF p > 1 /\ Kind[code[p - 1]] = "comment" THEN <<code[p - 1]>> ELSE <<>>
FirstComment(code, p) ==
  LET run == {q \in 1..(p - 1) : \A x \in q..(p - 1) : Kind[code[x]] = "comment"}
  IN  IF run = {} THEN <<>> ELSE <<code[CHOOSE q \in run : \A x \in run : q <= x]>>
NotComments(code) == {p \in DOMAIN code : Kind[code[p]] # "comment"}

\* Each is a set that holds the list of items, or nothing.
parseInclusions(code) ==
  IF Kinds(code) = {"include"} THEN {[p \in DOMAIN code |-> <<code[p]>>]} ELSE {}
parseDeclarations(code) ==
  IF code # <<>> /\ Kinds(code) \subseteq {"comment", "declaration"}
  THEN {Kept([p \in DOMAIN code |-> CommentBefore(code, p) \o <<code[p]>>], NotComments(code))}
  ELSE {}
parseDefinitions(code) ==
  IF "definition" \in Kinds(code) /\ Kinds(code) \subseteq {"comment", "declaration", "definition"}
  THEN {Kept([p \in DOMAIN code |-> FirstComment(code, p) \o <<code[p]>>], NotComments(code))}
  ELSE {}

Edges(v) == {<<v[i], v[i + 1]>> : i \in 1..(Len(v) - 1)}
\* The first of each.
Unique(v) == Kept(v, {p \in DOMAIN v : \A q \in 1..(p - 1) : v[q] # v[p]})

\* DependencyGraph::topologicalSort: a node is taken once its in-degree is zero.
\* An edge that was added twice counts twice in the in-degree of its end, and is
\* taken off once.  Which of the nodes that are free comes first is a matter of
\* their spelling; no order at all is a failure.
topologicalSort(nodes, E1, E2) ==
  {q \in SetToSeqs(nodes) :
     \A n \in DOMAIN q :
       Cardinality({e \in E1 : e[2] = q[n]}) + Cardinality({e \in E2 : e[2] = q[n]})
         = Cardinality({m \in 1..(n - 1) : <<q[m], q[n]>> \in E1 \cup E2})}

\* Seeded fault: the second list adds no edges.
mergeVectorsFirst(v1, v2) ==
  topologicalSort(ToSet(v1) \cup ToSet(v2), Edges(Unique(v1)), {})
\* Seeded fault: the lists are not deduplicated.
mergeVectorsRaw(v1, v2) == topologicalSort(ToSet(v1) \cup ToSet(v2), Edges(v1), Edges(v2))
\* The merged lists that may result; none if the sort fails.
mergeVectors(v1, v2) ==
  topologicalSort(ToSet(v1) \cup ToSet(v2), Edges(Unique(v1)), Edges(Unique(v2)))

Lists(kind, our, their) ==
  LET inc == parseInclusions(our) \X parseInclusions(their)
      decl == parseDeclarations(our) \X parseDeclarations(their)
      defs == parseDefinitions(our) \X parseDefinitions(their)
      merge(P) == UNION {mergeVectors(p[1], p[2]) : p \in P}
  IN  IF merge(inc) # {} THEN merge(inc)
      ELSE CASE kind = "header" -> merge(decl)
             [] kind = "source" -> merge(defs)
             [] OTHER -> {}
doListMerge(kind, our, their) ==
  {[code |-> FlattenSeq(q), desc |-> "list"] : q \in Lists(kind, our, their)}

-----------------------------------------------------------------------------
(* The other heuristics.  Each gives the set of its possible results. *)

\* Without one side: nothing, or the side that is there.  The base is not looked at.
checkDeletion(our, their, id, index) ==
  IF (our # <<>> /\ their # <<>>) \/ extractConflictBlock(id, index) = {} THEN {}
  ELSE {[desc |-> "deletion",
         code |-> CASE favour = "deletion" -> <<>>
                    [] favour = "modification" -> IF our = <<>> THEN their ELSE our]}

checkOneSideDelta(our, their, id, index) ==
  IF our = <<>> \/ their = <<>> THEN {}
  ELSE UNION {LET base == Deflated(BaseCode(c))
              IN  IF Deflated(OurCode(c, TRUE)) = base
                  THEN {[code |-> their, desc |-> "their delta"]}
                  ELSE IF Deflated(c.their) = base
                  THEN {[code |-> our, desc |-> "our delta"]} ELSE {} :
              c \in extractConflictBlock(id, index)}

\* std::string::find: the characters of one text in a row in the other, wherever its
\* words and lines begin.
Found(part, text) ==
  \E at \in 0..(Len(text) - Len(part)) : SubSeq(text, at + 1, at + Len(part)) = part
\* Macros are not expanded here.
Holds(code, part) ==
  LET c == removeCommentsAndSpaces(code)  p == removeCommentsAndSpaces(part)
  IN  Len(c) > Len(p) /\ Found(p, c)
\* j[i] lines of t are found in the first i lines of s.
isSubSequence(s, t) ==
  LET j[i \in 0..Len(s)] ==
        IF i = 0 THEN 0
        ELSE IF j[i - 1] < Len(t) /\ s[i] = t[j[i - 1] + 1] THEN j[i - 1] + 1 ELSE j[i - 1]
  IN  j[Len(s)] = Len(t)

\* Every line of one side in the other of a source file, all the text of one
\* list of declarations in that of the other in a header.
checkInclusion(kind, our, their) ==
  LET accept(code) == {[code |-> code, desc |-> IF kind = "source" THEN "added code" ELSE "inclusion"]}
  IN  IF ~Holds(our, their) /\ ~Holds(their, our) THEN {}
      ELSE CASE kind = "source" ->
                  IF Len(our) > Len(their)
                  THEN IF isSubSequence(our, their) THEN accept(our) ELSE {}
                  ELSE IF isSubSequence(their, our) THEN accept(their) ELSE {}
             [] kind = "header" ->
                  IF ~(Kinds(our) \cup Kinds(their) \subseteq {"comment", "declaration"}) THEN {}
                  ELSE IF Holds(our, their) THEN accept(our) ELSE accept(their)
             [] OTHER -> {}

\* StyleBasedHandler: both sides are the same but for layout, comments and macros.
style(our, their) ==
  IF Deflated(our) = Deflated(their)
  THEN {[code |-> our, desc |-> "style"]} ELSE {}

\* TextBasedHandler: the first heuristic that applies.
text(our, their, id, index) ==
  LET del == checkDeletion(our, their, id, index)
      delta == checkOneSideDelta(our, their, id, index)
      inc == checkInclusion(File(id).kind, our, their)
  IN  CASE del # {} -> del
        [] del = {} /\ delta # {} -> delta
        [] del = {} /\ delta = {} /\ inc # {} -> inc
        [] OTHER -> doListMerge(File(id).kind, our, their)

-----------------------------------------------------------------------------
(* The two handlers over the files. *)

Ids == DOMAIN input.files
Unresolved(blocks) == [i \in DOMAIN blocks |-> [c |-> blocks[i], resolved |-> FALSE]]

\* copyConflicts: the copies are named after the file alone, and the first of a
\* name is kept.  A handler looks for them under the file's path.
copyConflicts(id) ==
  LET same == {x \in Ids : File(x).name = File(id).name}
  IN  IF File(id).top
      THEN constructConflictFile(File(CHOOSE x \in same : \A y \in same : x <= y))
      ELSE <<>>

Init ==
  /\ input \in Inputs
  /\ favour \in Favours
  /\ phase = "begin" /\ handler = "style" /\ withBase = FALSE
  /\ files = [id \in Ids |-> [id |-> id, resolved |-> FALSE,
                              blocks |-> Unresolved(constructConflictFile(File(id)))]]
  /\ conflicts = [id \in Ids |-> copyConflicts(id)]
  /\ f = 1 /\ b = 1
  /\ results = <<>>
  /\ store = [id \in Ids |-> <<>>]

\* Seeded fault: the last file decides.
WithBaseLast ==
  LET blocks == files[Len(files)].blocks IN blocks # <<>> /\ blocks[1].c.hasBase
\* Whether the first block of the first file has a base mark decides for all files.
WithBase == LET blocks == files[1].blocks IN blocks # <<>> /\ blocks[1].c.hasBase

\* git merge-file --diff3 on the three revisions of a file.  The exit code is not
\* checked: if git fails, what it wrote, nothing, replaces the file under
\* conflicts/.  If the command cannot be run the file is left as it is.
threeWayMerge ==
  \E outcome \in [Ids -> {"merged", "git failed", "not run"}] :
    conflicts' = [id \in Ids |->
      IF ~File(id).base \/ outcome[id] = "not run" \/ \A i \in DOMAIN files : files[i].id # id
      THEN conflicts[id]
      ELSE IF outcome[id] = "merged" THEN Diff3(File(id)) ELSE <<>>]

beginHandler ==
  /\ phase = "begin"
  /\ withBase' = WithBase
  /\ IF handler = "text" THEN threeWayMerge ELSE UNCHANGED conflicts
  /\ phase' = "blocks" /\ f' = 1 /\ b' = 1 /\ results' = <<>>
  /\ UNCHANGED <<input, favour, handler, files, store>>

resolveBlock ==
  /\ phase = "blocks" /\ f <= Len(files) /\ b <= Len(files[f].blocks)
  /\ LET c == files[f].blocks[b].c
         our == OurCode(c, withBase)
         found == IF handler = "style" THEN style(our, c.their)
                                       ELSE text(our, c.their, files[f].id, c.index)
     IN  \/ /\ found = {}
            /\ UNCHANGED <<files, results>>
         \/ \E r \in found :
              /\ files' = [files EXCEPT ![f].blocks[b].resolved = TRUE]
              /\ results' = Append(results, [index |-> c.index, code |-> r.code, desc |-> r.desc])
  /\ b' = b + 1
  /\ UNCHANGED <<input, favour, phase, handler, withBase, conflicts, f, store>>

EverResolved(file) == \E i \in DOMAIN file.blocks : file.blocks[i].resolved
AllResolved(file) == \A i \in DOMAIN file.blocks : file.blocks[i].resolved

\* The results are appended to those the file's resolution already holds.
marshalResolutionResult(id) == store' = [store EXCEPT ![id] = @ \o results]

finishFile ==
  /\ phase = "blocks" /\ f <= Len(files) /\ b > Len(files[f].blocks)
  /\ files' = [files EXCEPT ![f].resolved = AllResolved(files[f])]
  /\ IF EverResolved(files[f]) THEN marshalResolutionResult(files[f].id) ELSE UNCHANGED store
  /\ f' = f + 1 /\ b' = 1 /\ results' = <<>>
  /\ UNCHANGED <<input, favour, phase, handler, withBase, conflicts>>

UnresolvedOf(s) == Kept(s, {p \in DOMAIN s : ~s[p].resolved})

tidyUpConflictBlocks(file) == [file EXCEPT !.blocks = UnresolvedOf(@)]
\* Seeded fault: the blocks are left as they are if every file is kept.
tidyUpConflictFilesOnly ==
  IF \E i \in DOMAIN files : files[i].resolved
  THEN LET kept == UnresolvedOf(files)
       IN  [i \in DOMAIN kept |-> tidyUpConflictBlocks(kept[i])]
  ELSE files
\* Resolved files go, and so do the resolved blocks of those that stay.
tidyUpConflictFiles ==
  LET kept == UnresolvedOf(files)
  IN  [i \in DOMAIN kept |-> tidyUpConflictBlocks(kept[i])]

\* NeedShrink, then the next handler if files are left.
finishHandler ==
  /\ phase = "blocks" /\ f > Len(files)
  /\ files' = IF \E i \in DOMAIN files : EverResolved(files[i]) THEN tidyUpConflictFiles ELSE files
  /\ IF handler = "style" /\ files' # <<>>
     THEN phase' = "begin" /\ handler' = "text"
     ELSE phase' = "done" /\ UNCHANGED handler
  /\ UNCHANGED <<input, favour, withBase, conflicts, f, b, results, store>>

Next == beginHandler \/ resolveBlock \/ finishFile \/ finishHandler
Spec == Init /\ [][Next]_vars

-----------------------------------------------------------------------------
(* Properties. *)

InOrder(u, q) ==
  \E at \in [DOMAIN u -> DOMAIN q] :
    /\ \A i \in DOMAIN u : q[at[i]] = u[i]
    /\ \A i, j \in DOMAIN u : i < j => at[i] < at[j]
Original(id) == constructConflictFile(File(id))
Remaining(id) ==
  UNION {{x.c.index : x \in {y \in ToSet(files[i].blocks) : ~y.resolved}} :
           i \in {j \in DOMAIN files : files[j].id = id}}

\* marshalResolutionResult calls an overlap of new results with stored ones "almost
\* impossible": no block is stored twice, and between two handlers every block is
\* either stored or still in the list, whatever was tidied up (sa_utility.cpp).
BlocksAccounted ==
  \A id \in Ids :
    /\ \A i, j \in DOMAIN store[id] : i # j => store[id][i].index # store[id][j].index
    /\ phase # "blocks" =>
         LET stored == {r.index : r \in ToSet(store[id])}
         IN  /\ stored \cap Remaining(id) = {}
             /\ stored \cup Remaining(id) = DOMAIN Original(id)

\* What the text handler says of a block is so: a side that is missing was deleted,
\* and of a one-sided change the other side is the base but for layout.
Described(c, r) ==
  CASE r.desc = "deletion" -> c.base # <<>>
    [] r.desc = "their delta" -> Deflated(c.our) = Deflated(c.base)
    [] r.desc = "our delta" -> Deflated(c.their) = Deflated(c.base)
    [] OTHER -> TRUE
DescriptionHolds ==
  \A id \in Ids : \A r \in ToSet(store[id]) : Described(Original(id)[r.index], r)

\* The descriptions rest on two things nobody checks: the file under conflicts/ is
\* this file's and in diff3 style, and its blocks have the numbers of the project's
\* markers.  Where both are so every description holds (checkDeletion and
\* checkOneSideDelta look blocks up by number).
Aligned(id) ==
  /\ conflicts[id] = Diff3(File(id))
  /\ input.style = "diff3" \/ \A i \in DOMAIN File(id).regions : Len(File(id).regions[i]) = 1
DescribedIfAligned ==
  \A id \in Ids :
    Aligned(id) => \A r \in ToSet(store[id]) : Described(Original(id)[r.index], r)

\* A base mark, and the base after it, gets into a resolution only if the first file
\* of the list has no block, because WithBase is then FALSE for all of them.
MarksOnlyAfterBlocklessFile ==
  \A id \in Ids : \A r \in ToSet(store[id]) :
    Contains(r.code, Mark) => input.style = "diff3" /\ Original(1) = <<>>

\* A resolution that claims to hold both sides (style, added code, inclusion, list
\* merge) has the lines of each side that are not comments, in that side's order.
\* Two of the claims promise less, and only they.  A style resolution may have the
\* other side's text in other lines.  An inclusion (in a header) has the text of the
\* other side in one piece, be it inside other words: "unsigned int a;" is taken to
\* include the declaration "int a;", which then is in neither line.
CodeLines(code) == Kept(code, {p \in DOMAIN code : Core[code[p]] # <<>>})
KeptIn(code, r) ==
  \/ InOrder(Unique(CodeLines(code)), CodeLines(r.code))
  \/ r.desc = "style" /\ Deflated(code) = Deflated(r.code)
  \/ r.desc = "inclusion" /\ Found(removeCommentsAndSpaces(code), removeCommentsAndSpaces(r.code))
BothSidesKept ==
  \A id \in Ids : \A r \in ToSet(store[id]) :
    r.desc \in {"style", "added code", "inclusion", "list"} =>
      \A side \in {"our", "their"} : KeptIn(Original(id)[r.index][side], r)

\* Two lists of inclusions are left unresolved only if their orders contradict each
\* other, or if both have the same two lines in a row: addEdge counts that edge
\* twice in the in-degree, and topologicalSort takes it for a cycle.  (Or the base
\* mark is taken for code, see above.)
Orderable(u, v) ==
  \E q \in SetToSeqs(ToSet(u) \cup ToSet(v)) : InOrder(u, q) /\ InOrder(v, q)
ListsRefusedOnly ==
  phase = "done" =>
    \A id \in Ids : \A index \in Remaining(id) :
      LET c == Original(id)[index]
          u == Unique(c.our)
          v == Unique(c.their)
      IN  Kinds(c.our) = {"include"} /\ Kinds(c.their) = {"include"} =>
            \/ ~Orderable(u, v)
            \/ Edges(u) \cap Edges(v) # {}
            \/ input.style = "diff3" /\ Original(1) = <<>>
=============================================================================
