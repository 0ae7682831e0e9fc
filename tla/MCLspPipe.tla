------------------------------ MODULE MCLspPipe ------------------------------
(* LspPipe for TLC: its constants are numbers, set in the configuration. *)
EXTENDS LspPipe
=============================================================================
