------------------------------ MODULE MCOptics ------------------------------
(* Two expanders, two switches with three modules, one clock generator.    *)
EXTENDS Optics

MCBanks == [p \in {2, 3} |-> IF p = 2 THEN [first |-> 120, last |-> 121]
                                     ELSE [first |-> 228, last |-> 228]]
=============================================================================
