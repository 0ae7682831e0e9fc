------------------------------ MODULE GraphBuild ------------------------------
(***************************************************************************)
(* GraphBuilder: one builder reads the C++ sources of its side, asks the   *)
(* language server about every symbol, and turns each tree-sitter syntax   *)
(* tree into a tree of semantic nodes that is matched, merged and printed  *)
(* afterwards.  What has no node (and is in no node's comment) is missing  *)
(* from the merged file, so the module follows every child of the syntax   *)
(* tree to the places of the graph its text ends up in.                    *)
(*                                                                         *)
(* A child of a syntax node is an item [id, shape, near].  The shape is    *)
(* its tree-sitter type with the fields the builder looks at; near is the  *)
(* number of rows between the end of the previous sibling and its start    *)
(* (0: same row, 1: next row, 2: an empty row between).  The texts, and    *)
(* what the server answers about a symbol, are data of a node: left out.   *)
(***************************************************************************)
EXTENDS Naturals, Sequences, FiniteSets, SequencesExt

CONSTANTS
  Bodies,     \* what can stand in a file or between two braces: lists of
              \* [shape, near]
  MaxItems,   \* bound: items of all files together
  MaxFiles    \* bound: files of SourceList

CompositeTypes == {"namespace"}
TerminalTypes == {"access_specifier", "using", "enumerator", "ifdef", "preproc",
                  "comment", "declaration", "function", "inline_namespace", "operator_cast",
                  "special_member", "function_template", "function_template_fwd",
                  "class_template", "class_template_fwd", "other_template"}
ComplexTypes == {"class", "class_fwd", "enum", "enum_fwd",
                 "linkage_list", "linkage_decl"}
\* Tokens without a text of their own: "{", "}", ";", "#endif", ",".
Punctuation == {"punct"}
AllShapes == CompositeTypes \cup TerminalTypes \cup ComplexTypes
               \cup Punctuation \cup {"unexpected"}

\* IsTextualNode, and the shapes that parseTextualNode gets on other paths:
\* forward declarations and extern "C" before one declaration.
IsTextualNode == {"using", "enumerator", "ifdef"}
TextualShapes == IsTextualNode \cup {"function_template_fwd", "class_template_fwd",
                                     "class_fwd", "enum_fwd", "linkage_decl"}
\* The shapes whose body parseCompositeNode is called on.
OpeningShapes == {"namespace", "inline_namespace", "class_template", "class",
                  "linkage_list", "enum"}
\* preproc_if, preproc_function_def, preproc_call and preproc_include are in
\* TerminalTypes, but no branch of parseCompositeNode takes them.
UnhandledShapes == {"preproc", "other_template", "unexpected"} \cup Punctuation

\* The shapes whose parse function calls getNodeComment.
CarrierShapes == TextualShapes \cup OpeningShapes
                   \cup {"declaration", "function", "operator_cast",
                         "special_member", "function_template"}

\* getAccessSpecifierKind; protected is treated as the other two are.
Specifiers == {"Public", "Private"}

Item == [id : Nat, shape : AllShapes, near : 0..2]

ASSUME BuildAssumption ==
  /\ MaxItems \in Nat /\ MaxFiles \in Nat \ {0}
  /\ Bodies \subseteq Seq([shape : AllShapes, near : 0..2])

-----------------------------------------------------------------------------
(* src/parser/utils.cpp: what the parse functions ask of the syntax tree.  *)

IsComment(cs, i) == i \in 1..Len(cs) /\ cs[i].shape = "comment"

\* First index of the run of comments that ends at i.
RunStart(cs, i) == CHOOSE m \in 1..i : /\ \A k \in m..i : IsComment(cs, k)
                                       /\ ~IsComment(cs, m - 1)
\* Last index of the run of comments that starts at i.
RunEnd(cs, i) == CHOOSE m \in i..Len(cs) : /\ \A k \in i..m : IsComment(cs, k)
                                           /\ ~IsComment(cs, m + 1)
Ids(cs, m, n) == {cs[k].id : k \in m..n}

\* Seeded fault: only the comment right above.
getNodeCommentNearest(cs, i) ==
  IF IsComment(cs, i - 1) /\ cs[RunStart(cs, i - 1)].near # 0 THEN {cs[i - 1].id} ELSE {}
\* Seeded fault: the "fix for inline comment" left out.
getNodeCommentInline(cs, i) ==
  IF IsComment(cs, i - 1) THEN Ids(cs, RunStart(cs, i - 1), i - 1) ELSE {}
\* The comments above cs[i], unless the first of them shares a row with the
\* node before it.
getNodeComment(cs, i) ==
  IF ~IsComment(cs, i - 1) THEN {}
  ELSE LET m == RunStart(cs, i - 1)
       IN  IF m > 1 /\ cs[m].near = 0 THEN {} ELSE Ids(cs, m, i - 1)

\* getComment: how many comments follow each other from cs[i] on, and whether
\* they stand alone: at the end, beside the previous node, or above an empty row.
getComment(cs, i) ==
  LET m == RunEnd(cs, i)
      beside == i > 1 /\ cs[i].near = 0
  IN  [count |-> m - i + 1,
       orphan |-> m = Len(cs) \/ cs[m + 1].near > 1 \/ beside]

getTranslationUnitComment(cs) == IF IsComment(cs, 1) THEN RunEnd(cs, 1) ELSE 0

isTypeDecl(shape) == shape \in {"class_fwd", "enum_fwd"}
FrontShapes == {"preproc", "ifdef", "using", "linkage_list", "linkage_decl"}

\* getFrontDecls: the index of the last item it takes when it starts after cnt.
FrontItem(cs, k) == IsComment(cs, k) \/ cs[k].shape \in FrontShapes
                      \/ isTypeDecl(cs[k].shape)
getFrontDecls(cs, cnt) ==
  CHOOSE n \in cnt..Len(cs) : /\ \A k \in (cnt + 1)..n : FrontItem(cs, k)
                              /\ n < Len(cs) => ~FrontItem(cs, n + 1)

\* getHeaderGuard looks at the child after the comments; the index is not
\* compared with the number of children.
GuardIndexValid(cs, cnt) == cnt + 1 \in 1..Len(cs)

-----------------------------------------------------------------------------
VARIABLES
  pc,      \* "server", "files", "parse", "walk", "done", "crashed"
  left,    \* files of SourceList still to process
  used,    \* items read so far
  unit,    \* the file being processed: its children, is it a header
  failed,  \* files the parser returned no tree for
  nodes,   \* the vertices of the graph in the order of their IDs
  kids,    \* the Children of each vertex: <<v, "None">> for a vertex v and
           \* <<0, kind>> for an access specifier
  stack,   \* the calls of parseCompositeNode, outermost first
  rep,     \* how many places of the graph hold the text of an item
  docs     \* documents open in the language server

vars == <<pc, left, used, unit, failed, nodes, kids, stack, rep, docs>>

Contents == {s \in Bodies : Len(s) <= MaxItems - used}
Numbered(s) == [k \in 1..Len(s) |->
                  [id |-> used + k, shape |-> s[k].shape, near |-> s[k].near]]
\* A brace, which is a sibling too; number 0 as it has no text to keep.
Token(s, near) == Append(s, [id |-> 0, shape |-> "punct", near |-> near])

\* rep after one more place holds the items of S.
Held(r, S) == [k \in DOMAIN r |-> IF k \in S THEN r[k] + 1 ELSE r[k]]
Grown(r, n) == r \o [k \in 1..n |-> 0]

Top == Last(stack)
Cs == Top.cs
Cur == Cs[Top.i]
Step(d) == [stack EXCEPT ![Len(stack)].i = @ + d]

\* insertToGraphAndParent: the vertex, its CONTAIN edge, Parent and Children.
insertToGraphAndParent(n) ==
  /\ nodes' = Append(nodes, n)
  /\ kids' = Append([kids EXCEPT ![Top.node] = Append(@, <<Len(nodes) + 1, "None">>)], <<>>)
  /\ rep' = Held(Held(rep, {n.item}), n.comment)

\* The fields that matter of the nodes the parse functions make.
Node(kind) == [kind |-> kind, item |-> Cur.id, parent |-> Top.node,
               comment |-> getNodeComment(Cs, Top.i), access |-> "None"]
parseNamespaceNode == Node("NAMESPACE")
parseTextualNode == Node("TEXTUAL")
parseFieldDeclarationNode == Node("FIELD_DECLARATION")
parseLinkageSpecNode == Node("LINKAGE_SPEC_LIST")
parseEnumNode == Node("ENUM")
parseTypeDeclNode == Node("TYPE")
parseFuncDefNode == Node("FUNC_DEF")
parseFuncOperatorCastNode == Node("FUNC_OPERATOR_CAST")
parseFuncSpecialMemberNode == Node("FUNC_SPECIAL_MEMBER")

-----------------------------------------------------------------------------
Init ==
  /\ pc = "server" /\ left = MaxFiles /\ used = 0
  /\ unit = [header |-> FALSE, cs |-> <<>>] /\ failed = {}
  /\ nodes = <<>> /\ kids = <<>> /\ stack = <<>> /\ rep = <<>> /\ docs = {}

\* build: no language server, no graph.
initLanguageServer ==
  /\ pc = "server"
  /\ pc' \in {"files", "done"}
  /\ UNCHANGED <<left, used, unit, failed, nodes, kids, stack, rep, docs>>

\* processTranslationUnit of a file that is missing or is not C++.
SkipFile ==
  /\ pc = "files" /\ left > 0
  /\ left' = left - 1
  /\ UNCHANGED <<pc, used, unit, failed, nodes, kids, stack, rep, docs>>

\* processCppTranslationUnit up to the parse: open the file, ask for the
\* header or source beside it and open that too.
OpenFile ==
  /\ pc = "files" /\ left > 0
  /\ \E s \in Contents, header, alt \in BOOLEAN :
       /\ unit' = [header |-> header, cs |-> Numbered(s)]
       /\ used' = used + Len(s)
       /\ rep' = Grown(rep, Len(s))
       /\ docs' = docs \cup {<<left, "file">>} \cup (IF alt THEN {<<left, "alt">>} ELSE {})
  /\ pc' = "parse"
  /\ UNCHANGED <<left, failed, nodes, kids, stack>>

\* The parser returns no tree: return, with the documents left open.
ParseFails ==
  /\ pc = "parse"
  /\ pc' = "files" /\ left' = left - 1
  /\ failed' = failed \cup {left}
  /\ UNCHANGED <<used, unit, nodes, kids, stack, rep, docs>>

\* parseTranslationUnit: leading comments, the guard of a header, the front
\* declarations; the rest is walked.  With a traditional guard the children of
\* the #ifndef block are walked instead of those of the file.
StartUnit(cs, cnt, held) ==
  LET n == getFrontDecls(cs, cnt)
  IN  /\ nodes' = Append(nodes, [kind |-> "TRANSLATION_UNIT", item |-> 0, parent |-> 0,
                                 comment |-> {}, access |-> "None"])
      /\ kids' = Append(kids, <<>>)
      /\ stack' = <<[node |-> Len(nodes) + 1, cs |-> cs, i |-> n + 1, front |-> n]>>
      /\ rep' = Held(Held(rep, held), Ids(cs, cnt + 1, n))

parseTranslationUnit ==
  /\ pc = "parse"
  /\ LET cs == unit.cs
         cnt == getTranslationUnitComment(cs)
     IN  IF unit.header /\ ~GuardIndexValid(cs, cnt)
         THEN /\ pc' = "crashed" /\ UNCHANGED <<nodes, kids, stack, rep>>
         ELSE /\ pc' = "walk"
              /\ \/ \* no guard, or a source file
                    StartUnit(cs, cnt, Ids(cs, 1, cnt))
                 \/ \* #pragma once
                    /\ unit.header /\ cs[cnt + 1].shape = "preproc"
                    /\ StartUnit(cs, cnt + 1, Ids(cs, 1, cnt + 1))
                 \/ \* #ifndef X / #define X: the block holds the items after
                    \* it up to its #endif; a comment there is kept with it
                    /\ unit.header /\ cs[cnt + 1].shape = "ifdef"
                    /\ \E e \in (cnt + 1)..Len(cs) :
                         StartUnit(Token(SubSeq(cs, cnt + 2, e), 1), 0,
                                   Ids(cs, 1, cnt + 1) \cup
                                     (IF IsComment(cs, e + 1) THEN {cs[e + 1].id} ELSE {}))
  /\ UNCHANGED <<left, used, unit, failed, docs>>

-----------------------------------------------------------------------------
(* parseCompositeNode: one child of the innermost call. *)

At(shapes) == /\ pc = "walk" /\ stack # <<>> /\ Top.i <= Len(Cs)
              /\ Cur.shape \in shapes
Keep == UNCHANGED <<pc, left, unit, failed, docs>>

AddTextual ==
  /\ At(TextualShapes)
  /\ insertToGraphAndParent(parseTextualNode)
  /\ stack' = Step(1)
  /\ UNCHANGED used /\ Keep

AddMember ==
  /\ At({"declaration", "function", "function_template", "operator_cast",
         "special_member"})
  /\ insertToGraphAndParent(
       CASE Cur.shape = "declaration" -> parseFieldDeclarationNode
         [] Cur.shape = "operator_cast" -> parseFuncOperatorCastNode
         [] Cur.shape = "special_member" -> parseFuncSpecialMemberNode
         [] OTHER -> parseFuncDefNode)
  /\ stack' = Step(1)
  /\ UNCHANGED used /\ Keep

\* A comment that stands alone becomes a node with the whole run; one that
\* does not is left to the node below it.
AddComment ==
  /\ At({"comment"})
  /\ LET c == getComment(Cs, Top.i)
     IN  IF c.orphan
         THEN /\ insertToGraphAndParent(
                   [Node("ORPHAN_COMMENT") EXCEPT
                      !.item = 0, !.comment = Ids(Cs, Top.i, Top.i + c.count - 1)])
              /\ stack' = Step(c.count)
         ELSE /\ stack' = Step(1)
              /\ UNCHANGED <<nodes, kids, rep>>
  /\ UNCHANGED used /\ Keep

\* An access specifier is a child of its type and no vertex of the graph.  It
\* is an error anywhere else, and skipped.
AddAccess ==
  /\ At({"access_specifier"})
  /\ IF nodes[Top.node].kind = "TYPE"
     THEN /\ \E k \in Specifiers :
               kids' = [kids EXCEPT ![Top.node] = Append(@, <<0, k>>)]
          /\ rep' = Held(rep, {Cur.id})
     ELSE UNCHANGED <<kids, rep>>
  /\ stack' = Step(1)
  /\ UNCHANGED <<used, nodes>> /\ Keep

\* A namespace, type, enum or extern "C" list: the node, then its body.  The
\* comment on the row of a namespace's closing brace is kept in the node and
\* skipped.
OpenComposite ==
  /\ At(OpeningShapes)
  /\ \E s \in Contents, e \in 1..2 :
       LET ns == Cur.shape \in {"namespace", "inline_namespace"}
           n == CASE ns -> parseNamespaceNode
                  [] Cur.shape = "linkage_list" -> parseLinkageSpecNode
                  [] Cur.shape = "enum" -> parseEnumNode
                  [] OTHER -> parseTypeDeclNode
           nsComment == IF ns /\ IsComment(Cs, Top.i + 1) /\ Cs[Top.i + 1].near = 0
                        THEN {Cs[Top.i + 1].id} ELSE {}
       IN  /\ e = 2 => s # <<>> /\ Last(s).shape = "comment"
           /\ nodes' = Append(nodes, n)
           /\ kids' = Append([kids EXCEPT ![Top.node] = Append(@, <<Len(nodes) + 1, "None">>)], <<>>)
           /\ rep' = Grown(Held(Held(rep, {n.item} \cup nsComment), n.comment), Len(s))
           /\ stack' = Append(Step(1 + Cardinality(nsComment)),
                              [node |-> Len(nodes) + 1, i |-> 1, front |-> 0,
                               cs |-> Token(Token(<<>>, 1) \o Numbered(s), e)])
           /\ used' = used + Len(s)
  /\ Keep

SkipUnhandled ==
  /\ At(UnhandledShapes)
  /\ stack' = Step(1)
  /\ UNCHANGED <<used, nodes, kids, rep>> /\ Keep

\* setMemberAccessSpecifier, as its loop goes: the first child sets the kind
\* to start with and gets none itself.
AccessAfter(ch, k) ==
  LET S == {j \in 1..k : ch[j][1] = 0}
  IN  IF S = {} THEN "Default" ELSE ch[Max(S)][2]
setMemberAccessSpecifier(t) ==
  [v \in DOMAIN nodes |->
     LET S == {k \in 2..Len(kids[t]) : kids[t][k][1] = v}
     IN  IF S = {} THEN nodes[v]
         ELSE [nodes[v] EXCEPT !.access = AccessAfter(kids[t], Max(S))]]

CloseComposite ==
  /\ pc = "walk" /\ stack # <<>> /\ Top.i > Len(Cs)
  /\ nodes' = IF nodes[Top.node].kind = "TYPE"
              THEN setMemberAccessSpecifier(Top.node) ELSE nodes
  /\ stack' = Front(stack)
  /\ UNCHANGED <<used, kids, rep>> /\ Keep

\* Seeded fault: the header or source beside the file is forgotten.
CloseFileOnly ==
  /\ pc = "walk" /\ stack = <<>>
  /\ pc' = "files" /\ left' = left - 1
  /\ docs' = docs \ {<<left, "file">>}
  /\ UNCHANGED <<used, unit, failed, nodes, kids, stack, rep>>
\* The rest of processCppTranslationUnit: DidClose.
CloseFile ==
  /\ pc = "walk" /\ stack = <<>>
  /\ pc' = "files" /\ left' = left - 1
  /\ docs' = docs \ ({left} \X {"file", "alt"})
  /\ UNCHANGED <<used, unit, failed, nodes, kids, stack, rep>>

EndBuild ==
  /\ pc = "files" /\ left = 0
  /\ pc' = "done"
  /\ UNCHANGED <<left, used, unit, failed, nodes, kids, stack, rep, docs>>

Next == \/ initLanguageServer \/ SkipFile \/ OpenFile \/ ParseFails
        \/ parseTranslationUnit \/ AddTextual \/ AddMember \/ AddComment
        \/ AddAccess \/ OpenComposite \/ SkipUnhandled \/ CloseComposite
        \/ CloseFile \/ EndBuild

Spec == Init /\ [][Next]_vars

-----------------------------------------------------------------------------
\* Types; every call of parseCompositeNode works on a node of the graph, and parents
\* have smaller numbers than their children.
TypeOK ==
  /\ pc \in {"server", "files", "parse", "walk", "done", "crashed"}
  /\ left \in 0..MaxFiles /\ used \in 0..MaxItems /\ failed \subseteq 1..MaxFiles
  /\ unit.header \in BOOLEAN /\ unit.cs \in Seq(Item)
  /\ Len(kids) = Len(nodes) /\ rep \in Seq(Nat) /\ Len(rep) = used
  /\ docs \subseteq (1..MaxFiles) \X {"file", "alt"}
  /\ \A k \in 1..Len(stack) : /\ stack[k].node \in DOMAIN nodes
                              /\ stack[k].i \in 1..(Len(stack[k].cs) + 1)
                              /\ stack[k].cs \in Seq(Item)
  /\ \A v \in DOMAIN nodes : nodes[v].parent \in 0..(v - 1)

\* A call of parseCompositeNode that is about to return.
Returning == pc = "walk" /\ stack # <<>> /\ Top.i > Len(Cs)
\* What follows the run of comments the k-th child is in.
AfterRun(k) == RunEnd(Cs, k) + 1
LeadsTo(k) == AfterRun(k) <= Len(Cs) /\ Cs[AfterRun(k)].shape \in CarrierShapes
BesideNamespace(k) ==
  LET m == RunStart(Cs, k)
  IN  m > 1 /\ Cs[m].near = 0 /\ Cs[m - 1].shape \in {"namespace", "inline_namespace"}

\* parseCompositeNode: when a call returns, the only children whose text is
\* nowhere in the graph are the shapes no branch takes, access specifiers
\* outside a type, and comments that stand neither above an empty row nor
\* above something with a comment field, or that run on after the comment of
\* a namespace's closing brace.
LostOnly ==
  Returning => \A k \in DOMAIN Cs :
    Cs[k].id # 0 /\ rep[Cs[k].id] = 0 =>
      \/ Cs[k].shape \in UnhandledShapes
      \/ Cs[k].shape = "access_specifier" /\ nodes[Top.node].kind # "TYPE"
      \/ Cs[k].shape = "comment" /\ (~LeadsTo(k) \/ BesideNamespace(k))

\* The same call: text is in the graph twice only if it is a comment above a
\* node that is also kept on its own, as the comment of the file, among the
\* front declarations or as an orphan, which it is before an empty row or
\* when it shares its row with the comment before it.
TwiceOnly ==
  Returning => \A k \in DOMAIN Cs :
    Cs[k].id # 0 /\ rep[Cs[k].id] > 1 =>
      /\ rep[Cs[k].id] = 2 /\ Cs[k].shape = "comment" /\ LeadsTo(k)
      /\ \/ k <= Top.front
         \/ Cs[AfterRun(k)].near = 2
         \/ \E j \in (RunStart(Cs, k) + 1)..k : Cs[j].near = 0

\* processCppTranslationUnit: a document is open in the server while its file
\* is processed; one stays open for good only if its file could not be parsed.
DocumentsClosed ==
  \A d \in docs : (d[1] = left /\ pc \in {"parse", "walk", "crashed"}) \/ d[1] \in failed
=============================================================================
