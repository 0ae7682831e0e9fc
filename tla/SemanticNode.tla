---------------------------- MODULE SemanticNode ----------------------------
(***************************************************************************)
(* The nodes of a semantic graph and their hash signature, which decides   *)
(* everywhere whether two nodes are "the same": operator==, the keys of    *)
(* the matching and every look-up of the merger go through it.             *)
(*                                                                         *)
(* A node is a record                                                      *)
(*   kind, id      the NodeKind and the ID (the vertex number)             *)
(*   name          qualified name                                          *)
(*   types, after, def                                                     *)
(*                 of a function: ParameterTypes, AfterParameterList (the  *)
(*                 text without its spaces), DefType of a special member   *)
(*   usr           what the language server calls it, "" without an answer *)
(*   path, parent  the file, and the hash signature of the parent          *)
(*   body          the text                                                *)
(* and its signature the tuple of what hash_combine is given: std::hash is *)
(* taken to be free of collisions.                                         *)
(***************************************************************************)
EXTENDS Naturals, Sequences

CompositeKinds == {"TRANSLATION_UNIT", "LINKAGE_SPEC_LIST", "NAMESPACE", "TYPE", "ENUM"}
TerminalKinds == {"FIELD_DECLARATION", "FUNC_DEF", "FUNC_OPERATOR_CAST",
                  "FUNC_SPECIAL_MEMBER", "TEXTUAL", "ORPHAN_COMMENT", "ACCESS_SPECIFIER"}
NodeKinds == CompositeKinds \cup TerminalKinds

TranslationUnitNode(n) == <<n.kind, n.name>>
\* An anonymous namespace has no name; its ID tells it from the others.
NamespaceNode(n) == <<n.kind, n.path, n.name, IF n.name = "" THEN n.id ELSE 0>>
\* Every extern "C" list of one parent has the same signature.
LinkageSpecNode(n) == <<n.kind, n.parent>>
CompositeNode(n) == <<n.kind, IF n.usr # "" THEN n.usr ELSE n.name>>
TypeDeclNode(n) == CompositeNode(n)
EnumNode(n) == CompositeNode(n)
FieldDeclarationNode(n) ==
  <<n.kind, CASE n.usr # "" -> n.usr [] n.name # "" -> n.name [] OTHER -> n.body>>
FuncDefNode(n) == IF n.usr # "" THEN <<n.kind, n.usr>> ELSE <<n.kind, n.name, n.types, n.after>>
FuncOperatorCastNode(n) == IF n.usr # "" THEN <<n.kind, n.usr>> ELSE <<n.kind, n.name, n.after>>
FuncSpecialMemberNode(n) == IF n.usr # "" THEN <<n.kind, n.usr>> ELSE <<n.kind, n.name, n.types, n.def>>
\* Neither the kind nor the parent of a textual node counts.
TextualNode(n) == <<"", n.body>>
TerminalNode(n) == <<n.kind, n.body>>
OrphanCommentNode(n) == TerminalNode(n)
\* An access specifier has no body: all of them have one signature.
AccessSpecifierNode(n) == <<n.kind, "">>

hashSignature(n) ==
  CASE n.kind = "TRANSLATION_UNIT" -> TranslationUnitNode(n)
    [] n.kind = "NAMESPACE" -> NamespaceNode(n)
    [] n.kind = "LINKAGE_SPEC_LIST" -> LinkageSpecNode(n)
    [] n.kind = "TYPE" -> TypeDeclNode(n)
    [] n.kind = "ENUM" -> EnumNode(n)
    [] n.kind = "FIELD_DECLARATION" -> FieldDeclarationNode(n)
    [] n.kind = "FUNC_DEF" -> FuncDefNode(n)
    [] n.kind = "FUNC_OPERATOR_CAST" -> FuncOperatorCastNode(n)
    [] n.kind = "FUNC_SPECIAL_MEMBER" -> FuncSpecialMemberNode(n)
    [] n.kind = "TEXTUAL" -> TextualNode(n)
    [] n.kind = "ORPHAN_COMMENT" -> OrphanCommentNode(n)
    [] n.kind = "ACCESS_SPECIFIER" -> AccessSpecifierNode(n)

\* SemanticNodeEqual: the comparison of the unordered containers.
Same(m, n) == hashSignature(m) = hashSignature(n)

\* The map from signature to node keeps the last vertex of each signature.
Keyed(g) == {v \in DOMAIN g : \A w \in DOMAIN g : w > v => ~Same(g[v], g[w])}

OneToOne(M) == \A p, q \in M : p[1] = q[1] \/ p[2] = q[2] => p = q
=============================================================================
