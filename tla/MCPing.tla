------------------------------- MODULE MCPing -------------------------------
(* K2MMPing for two nodes that are both given commands.                    *)
EXTENDS K2MMPing, TLC

CONSTANTS a, b

MCPeer == (a :> b) @@ (b :> a)
=============================================================================
