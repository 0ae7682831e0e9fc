---------------------------- MODULE MCLspEndpoint ----------------------------
(* Instances of LspEndpoint for TLC. *)
EXTENDS LspEndpoint

CONSTANT ours

OneBuilder == {ours}
AllTraffic == {"didOpen", "notify", "request"}
=============================================================================
