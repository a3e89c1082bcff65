------------------------------ MODULE MCBuild ------------------------------
(* BuildFlow with the scripts of the repository. *)
EXTENDS BuildFlow

CONSTANT Scripts

All == INSTANCE Designs
MCDesign == [d \in Scripts |-> All!AllDesigns[d]]

(***************************************************************************)
(* A netlist that gets as far as synthesis is consistent with itself and   *)
(* with the tables of its board: the two are kept in different files.      *)
(***************************************************************************)
NetlistConsistent == run.phase = "synthesis" => All!Consistent(Soc(run.design))
=============================================================================
