------------------------------- MODULE MCLink -------------------------------
(* K2MMLink for two nodes.                                                 *)
EXTENDS K2MMLink, TLC

CONSTANTS a, b

MCPeer == (a :> b) @@ (b :> a)
Swap == Permutations({a, b})
=============================================================================
