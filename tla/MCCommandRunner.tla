--------------------------- MODULE MCCommandRunner ---------------------------
(* Instances of CommandRunner for TLC. *)
EXTENDS CommandRunner

CONSTANTS c1, c2, s1

TwoCallers == {c1, c2}
OneServer == {s1}
=============================================================================
