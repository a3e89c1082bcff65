------------------------------ MODULE MCTester ------------------------------
(* K2MMTester with all lengths up to the width of its counters.            *)
EXTENDS K2MMTester

CONSTANT MaxLen

MCLengths == 0..MaxLen
MCCountMod == MaxLen + 1
=============================================================================
