------------------------------ MODULE EchoTest ------------------------------
(***************************************************************************)
(* What a test frame command promises: it is answered once, before the     *)
(* next one is taken, by a report without error of the length it asked     *)
(* for.                                                                    *)
(***************************************************************************)
EXTENDS Naturals

CONSTANTS Lengths, BeatBytes, LengthMod

VARIABLES
  pending,   \* the set that holds the length of the unanswered command, if any
  report     \* the last report: err and length

Init == pending = {} /\ report = [err |-> FALSE, length |-> 0]

Ask(l) == pending = {} /\ pending' = {l} /\ UNCHANGED report

Answer ==
  \E l \in pending :
    /\ pending' = {}
    /\ report' = [err |-> FALSE, length |-> ((l + 1) * BeatBytes) % LengthMod]

Next == (\E l \in Lengths : Ask(l)) \/ Answer

Spec == Init /\ [][Next]_<<pending, report>>
=============================================================================
