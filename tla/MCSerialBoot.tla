----------------------------- MODULE MCSerialBoot -----------------------------
(* Hosts that load two chunks of an image, one right behind the other, and *)
(* jump, upwards or downwards, that call the load off, or that speak a     *)
(* command too many.                                                       *)
EXTENDS SerialBoot

Load(a, s) == [cmd |-> "load", addr |-> a, size |-> s]
Order(c) == [cmd |-> c, addr |-> 0, size |-> 0]
MCPrograms == { <<Load(0, 1), Load(1, 1), Order("jump")>>,
                <<Load(2, 1), Load(0, 2), Order("jump")>>,
                <<Load(1, 1), Order("abort")>>,
                <<Order("unknown"), Order("jump")>> }
MCMisread == {0, 1, 6}
MCMagic == <<"z", "6", "m">>
MCKeys == {"z", "6", "m", "Q"}
================================================================================
