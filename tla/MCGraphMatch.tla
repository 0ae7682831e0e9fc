---------------------------- MODULE MCGraphMatch ----------------------------
(* Small pairs of graphs for GraphMatch. *)
EXTENDS GraphMatch

N(id, kind, name, parent) ==
  [id |-> id, kind |-> kind, name |-> name, usr |-> "", path |-> "f",
   types |-> <<>>, after |-> "", def |-> "plain", parent |-> parent, body |-> name]
Unit == N(1, "TRANSLATION_UNIT", "f", <<>>)
InUnit == hashSignature(Unit)
In(type) == <<"TYPE", type>>

\* Three functions, each renamed.
Functions == [base |-> <<Unit, N(2, "FUNC_DEF", "a", InUnit), N(3, "FUNC_DEF", "b", InUnit),
                         N(4, "FUNC_DEF", "c", InUnit)>>,
              rev |-> <<Unit, N(2, "FUNC_DEF", "p", InUnit), N(3, "FUNC_DEF", "q", InUnit),
                        N(4, "FUNC_DEF", "r", InUnit)>>]
\* A renamed type with a field and a method, and a member moved out of it.
Types == [base |-> <<Unit, N(2, "TYPE", "T", InUnit), N(3, "FIELD_DECLARATION", "x", In("T")),
                     N(4, "FUNC_DEF", "g", In("T")), N(5, "TYPE", "U", InUnit)>>,
          rev |-> <<Unit, N(2, "TYPE", "V", InUnit), N(3, "FIELD_DECLARATION", "y", In("V")),
                    N(4, "FUNC_DEF", "h", InUnit), N(5, "FUNC_DEF", "m", In("V")),
                    N(6, "TYPE", "U", InUnit)>>]
\* Two enums, renamed or merged into one.
Enums == [base |-> <<Unit, N(2, "ENUM", "D", InUnit), N(3, "ENUM", "E", InUnit)>>,
          rev |-> <<Unit, N(2, "ENUM", "F", InUnit), N(3, "ENUM", "G", InUnit)>>]
OneEnum == [Enums EXCEPT !.rev = <<Unit, N(2, "ENUM", "F", InUnit)>>]
\* One enum that may be any of three, and two of three.
MoreEnums == [Enums EXCEPT !.rev = Append(@, N(4, "ENUM", "H", InUnit))]
OneToThree == [MoreEnums EXCEPT !.base = <<Unit, N(2, "ENUM", "D", InUnit)>>]
\* A reopened namespace, anonymous ones whose IDs moved, constructors, a text
\* that occurs twice.
Blocks == [base |-> <<Unit, N(2, "NAMESPACE", "n", InUnit), N(3, "NAMESPACE", "n", InUnit),
                      N(4, "NAMESPACE", "", InUnit), N(5, "TEXTUAL", "u", InUnit),
                      N(6, "TEXTUAL", "u", InUnit),
                      N(7, "FUNC_SPECIAL_MEMBER", "T()", InUnit)>>,
           rev |-> <<Unit, N(2, "NAMESPACE", "n", InUnit), N(3, "NAMESPACE", "", InUnit),
                     N(4, "TEXTUAL", "u", InUnit),
                     N(5, "FUNC_SPECIAL_MEMBER", "T(int)", InUnit)>>]
\* Other files, with extern "C" lists.
Other(id, name) == N(id, "TRANSLATION_UNIT", name, <<>>)
Linkage(id, file) == N(id, "LINKAGE_SPEC_LIST", "", <<"TRANSLATION_UNIT", file>>)
Units == [base |-> <<Unit, Linkage(2, "f"), Linkage(3, "f"), Other(4, "e"), Linkage(5, "e")>>,
          rev |-> <<Unit, Linkage(2, "f"), Other(3, "g"), Linkage(4, "g"), Other(5, "h")>>]
MCInputs == {Functions, Types, Enums, OneEnum, MoreEnums, OneToThree, Blocks, Units}
=============================================================================
