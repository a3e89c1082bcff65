----------------------------- MODULE K2MMTester -----------------------------
(***************************************************************************)
(* One K2MMTester in front of an echo: what it sends comes back whole, in  *)
(* order and unchanged, after any delay.  This is what the rest of a       *)
(* K2MMNode and its link promise the tester, and K2MMPing is shown to      *)
(* implement it.  The control is the one of cores/tf/framing.py            *)
(* (K2MMTester), tfg.py and tfc.py; echo stands for all the rest.          *)
(* Definitions marked "Slip" are mistakes that the properties must notice. *)
(***************************************************************************)
EXTENDS Naturals, Sequences

CONSTANTS Lengths, CountMod, BeatBytes, LengthMod

ASSUME TesterAssumption ==
  /\ CountMod \in Nat \ {0}
  /\ Lengths \subseteq 0..CountMod - 1
  /\ BeatBytes \in Nat \ {0}
  /\ LengthMod \in Nat \ {0}

VARIABLES
  tester, tfg, len, beats,        \* K2MMTester's FSM and the generator
  chkBeats, frameErr, status,     \* the checker
  echo                            \* beats sent and not yet returned

vars == <<tester, tfg, len, beats, chkBeats, frameErr, status, echo>>

Count == 0..CountMod - 1
Beat  == [data : Count, last : BOOLEAN]

StatusLength(b) == ((b + 1) * BeatBytes) % LengthMod

Init ==
  /\ tester = "STOP" /\ tfg = "IDLE" /\ len = 0 /\ beats = 0
  /\ chkBeats = 0 /\ frameErr = FALSE
  /\ status = [valid |-> FALSE, err |-> FALSE, length |-> 0]
  /\ echo = <<>>

\* Slip: the command is not held back until the tester is in STOP.
CommandAnyTime(l) ==
  /\ tfg = "IDLE"
  /\ tester' = "COUNT_LATENCY" /\ tfg' = "RUN"
  /\ len' = l /\ beats' = 0
  /\ UNCHANGED <<chkBeats, frameErr, status, echo>>

\* A test frame command: taken in STOP, by an idle generator.
Command(l) ==
  /\ tester = "STOP" /\ tfg = "IDLE"
  /\ tester' = "COUNT_LATENCY" /\ tfg' = "RUN"
  /\ len' = l /\ beats' = 0
  /\ UNCHANGED <<chkBeats, frameErr, status, echo>>

\* Slip: last is one beat early, and the state follows the right beat.
GeneratorBeatLastEarly ==
  /\ tfg = "RUN"
  /\ echo' = Append(echo, [data |-> beats, last |-> beats + 1 = len])
  /\ IF beats = len THEN tfg' = "IDLE" /\ beats' = beats
                    ELSE tfg' = tfg /\ beats' = (beats + 1) % CountMod
  /\ UNCHANGED <<tester, len, chkBeats, frameErr, status>>

\* Slip: the beat after the first one may be the last, never the first.
GeneratorBeatNoSingle ==
  /\ tfg = "RUN"
  /\ echo' = Append(echo, [data |-> beats, last |-> beats = len /\ beats # 0])
  /\ IF beats = len THEN tfg' = "IDLE" /\ beats' = beats
                    ELSE tfg' = tfg /\ beats' = (beats + 1) % CountMod
  /\ UNCHANGED <<tester, len, chkBeats, frameErr, status>>

\* The generator sends beat number beats; beat number len is the last.
GeneratorBeat ==
  /\ tfg = "RUN"
  /\ echo' = Append(echo, [data |-> beats, last |-> beats = len])
  /\ IF beats = len THEN tfg' = "IDLE" /\ beats' = beats
                    ELSE tfg' = tfg /\ beats' = (beats + 1) % CountMod
  /\ UNCHANGED <<tester, len, chkBeats, frameErr, status>>

\* Slip: the beat counter is not reset by the last beat.
CheckerBeatNoReset ==
  /\ echo # <<>> /\ ~status.valid
  /\ echo' = Tail(echo)
  /\ IF Head(echo).last
     THEN /\ chkBeats' = chkBeats /\ frameErr' = FALSE
          /\ status' = [valid |-> TRUE, err |-> frameErr, length |-> StatusLength(chkBeats)]
     ELSE /\ chkBeats' = (chkBeats + 1) % CountMod
          /\ frameErr' = (frameErr \/ Head(echo).data # chkBeats)
          /\ status' = status
  /\ UNCHANGED <<tester, tfg, len, beats>>

\* The checker takes a returned beat; the last one raises the status pulse.
CheckerBeat ==
  /\ echo # <<>> /\ ~status.valid
  /\ echo' = Tail(echo)
  /\ IF Head(echo).last
     THEN /\ chkBeats' = 0 /\ frameErr' = FALSE
          /\ status' = [valid |-> TRUE, err |-> frameErr, length |-> StatusLength(chkBeats)]
     ELSE /\ chkBeats' = (chkBeats + 1) % CountMod
          /\ frameErr' = (frameErr \/ Head(echo).data # chkBeats)
          /\ status' = status
  /\ UNCHANGED <<tester, tfg, len, beats>>

\* The status pulse passes and stops the latency count.
StatusPulse ==
  /\ status.valid
  /\ status' = [status EXCEPT !.valid = FALSE]
  /\ tester' = "STOP"
  /\ UNCHANGED <<tfg, len, beats, chkBeats, frameErr, echo>>

Next ==
  \/ \E l \in Lengths : Command(l)
  \/ GeneratorBeat \/ CheckerBeat \/ StatusPulse

Spec == Init /\ [][Next]_vars

\* A clocked generator sends, and a clocked checker takes, whatever it can.
FairSpec == Spec /\ WF_vars(GeneratorBeat) /\ WF_vars(CheckerBeat) /\ WF_vars(StatusPulse)
-----------------------------------------------------------------------------
TypeOK ==
  /\ tester \in {"STOP", "COUNT_LATENCY"} /\ tfg \in {"IDLE", "RUN"}
  /\ len \in Count /\ beats \in Count
  /\ chkBeats \in Count /\ frameErr \in BOOLEAN
  /\ status \in [valid : BOOLEAN, err : BOOLEAN, length : 0..LengthMod - 1]
  /\ echo \in Seq(Beat)

(***************************************************************************)
(* When the tester is back in STOP (framing.py:171-177) nothing of the     *)
(* frame it sent is left: the generator is idle, no beat is on its way     *)
(* and the checker is at the start of a frame.  A command taken then       *)
(* cannot be answered by an echo of an earlier one.                        *)
(***************************************************************************)
StopIsQuiet ==
  tester = "STOP" => /\ tfg = "IDLE" /\ echo = <<>> /\ ~status.valid
                     /\ chkBeats = 0 /\ frameErr = FALSE

(***************************************************************************)
(* A status pulse reports the frame of the command in progress: no error,  *)
(* the length of that command, and it comes only after the generator sent  *)
(* the whole frame (tfc.py:36-40 against tfg.py:83-99).                    *)
(***************************************************************************)
StatusTrue ==
  status.valid => /\ tester = "COUNT_LATENCY" /\ tfg = "IDLE"
                  /\ ~status.err /\ status.length = StatusLength(len)

(***************************************************************************)
(* The inductive strengthening: the echo holds the beats chkBeats, ...,    *)
(* in order, up to the one the generator sends next (or, when it is done,  *)
(* up to the last), and only beat number len is marked last.               *)
(***************************************************************************)
Sent == IF tfg = "RUN" THEN beats ELSE len + 1

EchoInOrder ==
  (tester = "COUNT_LATENCY" /\ ~status.valid) =>
     /\ beats <= len
     /\ Len(echo) + chkBeats = Sent
     /\ \A i \in 1..Len(echo) : /\ echo[i].data = chkBeats + i - 1
                                /\ echo[i].last = (chkBeats + i - 1 = len)
     /\ chkBeats <= len
     /\ ~frameErr

StatusQuiet == status.valid => echo = <<>> /\ chkBeats = 0 /\ ~frameErr

IInv == TypeOK /\ StopIsQuiet /\ StatusTrue /\ EchoInOrder /\ StatusQuiet

(***************************************************************************)
(* Every command is answered: the count always comes to an end on an echo  *)
(* that loses nothing.                                                     *)
(***************************************************************************)
Answered == (tester = "COUNT_LATENCY") ~> (tester = "STOP")

(***************************************************************************)
(* The tester over a faithful echo implements EchoTest: a command is       *)
(* pending from its handshake to the beat that raises the status pulse,    *)
(* and is then answered once, without error, with its own length.          *)
(***************************************************************************)
Unanswered == IF tester = "COUNT_LATENCY" /\ ~status.valid THEN {len} ELSE {}
Report     == [err |-> status.err, length |-> status.length]

EchoTestOf == INSTANCE EchoTest WITH pending <- Unanswered, report <- Report
EchoTestSpec == EchoTestOf!Spec
=============================================================================
