-------------------------- MODULE MC_AntiEntropy --------------------------
(* Two pausers (agent reloads that may overlap), each pausing twice.       *)
EXTENDS AntiEntropy

CONSTANTS p1, p2

MCPausers == {p1, p2}
=============================================================================
