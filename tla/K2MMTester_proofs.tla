-------------------------- MODULE K2MMTester_proofs --------------------------
(***************************************************************************)
(* Proofs about K2MMTester for all lengths, counter widths and delays.     *)
(* The argument: the beats in the echo are exactly the numbers from the    *)
(* checker's counter up to the generator's, so the checker never meets a   *)
(* word it does not expect, meets last at the generator's length only, and *)
(* when it does nothing is left of the frame.                              *)
(***************************************************************************)
EXTENDS K2MMTester, TLAPS

(***************************************************************************)
(* No beat counter wraps: a length fits in a counter, and no counter goes  *)
(* past it (tfg.py:53,81-99, tfc.py:21).                                   *)
(***************************************************************************)
LEMMA CountFacts ==
  ASSUME NEW l \in Count, NEW x \in Nat, x < l
  PROVE  (x + 1) % CountMod = x + 1
<1>1. CountMod \in Nat \ {0}
  BY TesterAssumption
<1>2. x + 1 \in 0..CountMod - 1
  BY <1>1 DEF Count
<1>3. QED
  BY <1>1, <1>2

(***************************************************************************)
(* The status length is a value of its register.                           *)
(***************************************************************************)
LEMMA StatusLengthType ==
  ASSUME NEW b \in Nat
  PROVE  StatusLength(b) \in 0..LengthMod - 1
<1> DEFINE bytes == (b + 1) * BeatBytes
<1>1. LengthMod \in Nat \ {0} /\ BeatBytes \in Nat
  BY TesterAssumption
<1>2. bytes \in Nat
  BY <1>1
<1> HIDE DEF bytes
<1>3. bytes % LengthMod \in 0..LengthMod - 1
  BY <1>1, <1>2
<1>4. QED
  BY <1>3 DEF StatusLength, bytes

-----------------------------------------------------------------------------
LEMMA InitInv == Init => IInv
<1> SUFFICES ASSUME Init PROVE IInv
  OBVIOUS
<1>1. CountMod \in Nat \ {0} /\ LengthMod \in Nat \ {0}
  BY TesterAssumption
<1>2. TypeOK
  <2>1. 0 \in 0..LengthMod - 1 /\ 0 \in Count
    BY <1>1 DEF Count
  <2>2. status \in [valid : BOOLEAN, err : BOOLEAN, length : 0..LengthMod - 1]
    BY <2>1 DEF Init
  <2>3. echo \in Seq(Beat)
    BY DEF Init
  <2>4. QED
    BY <2>1, <2>2, <2>3 DEF Init, TypeOK
<1>3. QED
  BY <1>2 DEF Init, IInv, StopIsQuiet, StatusTrue, EchoInOrder, StatusQuiet

(***************************************************************************)
(* A command starts a frame on an empty echo.                              *)
(***************************************************************************)
LEMMA CommandInv ==
  ASSUME IInv, NEW l \in Lengths, Command(l)
  PROVE  IInv'
<1>1. l \in Count /\ 0 \in Count
  BY TesterAssumption DEF Count
<1>2. TypeOK'
  BY <1>1 DEF IInv, TypeOK, Command
<1>3. echo = <<>> /\ chkBeats = 0 /\ frameErr = FALSE /\ ~status.valid
  BY DEF IInv, StopIsQuiet, Command
<1>4. (StopIsQuiet /\ StatusTrue /\ StatusQuiet)'
  BY <1>3 DEF Command, StopIsQuiet, StatusTrue, StatusQuiet
<1>5. EchoInOrder'
  BY <1>1, <1>3 DEF Command, EchoInOrder, Sent, Count
<1>6. QED
  BY <1>2, <1>4, <1>5 DEF IInv

(***************************************************************************)
(* The generator extends the echo by the next number.                      *)
(***************************************************************************)
LEMMA GeneratorBeatInv ==
  ASSUME IInv, GeneratorBeat
  PROVE  IInv'
<1> DEFINE beat == [data |-> beats, last |-> beats = len]
<1>1. /\ tester = "COUNT_LATENCY" /\ ~status.valid /\ tfg = "RUN"
      /\ TypeOK /\ EchoInOrder /\ Sent = beats
  BY DEF IInv, StopIsQuiet, StatusTrue, GeneratorBeat, Sent, TypeOK
<1>2. /\ len \in Nat /\ beats \in Nat /\ chkBeats \in Nat
      /\ echo \in Seq(Beat) /\ beat \in Beat
  BY <1>1, TesterAssumption DEF TypeOK, Count, Beat
<1>3. beats <= len /\ Len(echo) + chkBeats = beats /\ chkBeats <= len /\ ~frameErr
  BY <1>1 DEF EchoInOrder
<1>4. echo' = Append(echo, beat)
  BY DEF GeneratorBeat
<1>5. /\ echo' \in Seq(Beat) /\ Len(echo') = Len(echo) + 1
      /\ \A i \in 1..Len(echo) : echo'[i] = echo[i]
      /\ echo'[Len(echo) + 1] = beat
  BY <1>2, <1>4
<1>6. \A i \in 1..Len(echo') : /\ echo'[i].data = chkBeats + i - 1
                               /\ echo'[i].last = (chkBeats + i - 1 = len)
  <2> SUFFICES ASSUME NEW i \in 1..Len(echo')
               PROVE  /\ echo'[i].data = chkBeats + i - 1
                      /\ echo'[i].last = (chkBeats + i - 1 = len)
    OBVIOUS
  <2>1. CASE i = Len(echo) + 1
    <3>1. chkBeats + i - 1 = beats
      BY <1>2, <1>3, <2>1
    <3>2. QED
      BY <1>5, <2>1, <3>1
  <2>2. CASE i \in 1..Len(echo)
    BY <1>1, <1>5, <2>2 DEF EchoInOrder
  <2>3. QED
    BY <1>2, <1>5, <2>1, <2>2
<1>7. CASE beats = len
  <2>1. tfg' = "IDLE" /\ beats' = beats
    BY <1>7 DEF GeneratorBeat
  <2>2. TypeOK'
    BY <1>1, <1>5, <2>1 DEF TypeOK, GeneratorBeat
  <2>3. EchoInOrder'
    BY <1>2, <1>3, <1>5, <1>6, <1>7, <2>1 DEF GeneratorBeat, EchoInOrder, Sent
  <2>4. QED
    BY <1>1, <2>2, <2>3 DEF IInv, GeneratorBeat, StopIsQuiet, StatusTrue, StatusQuiet
<1>8. CASE beats # len
  <2>1. tfg' = "RUN" /\ beats' = beats + 1 /\ beats + 1 \in Count
    <3>1. beats < len /\ len \in Count
      BY <1>1, <1>2, <1>3, <1>8 DEF TypeOK
    <3>2. (beats + 1) % CountMod = beats + 1
      BY <1>2, <3>1, CountFacts
    <3>3. QED
      BY <1>1, <1>2, <1>8, <3>1, <3>2, TesterAssumption DEF GeneratorBeat, Count
  <2>2. TypeOK'
    BY <1>1, <1>5, <2>1 DEF TypeOK, GeneratorBeat
  <2>3. EchoInOrder'
    BY <1>2, <1>3, <1>5, <1>6, <1>8, <2>1 DEF GeneratorBeat, EchoInOrder, Sent
  <2>4. QED
    BY <1>1, <2>2, <2>3 DEF IInv, GeneratorBeat, StopIsQuiet, StatusTrue, StatusQuiet
<1>9. QED
  BY <1>7, <1>8

(***************************************************************************)
(* The checker finds the number it expects; the last one empties the echo. *)
(***************************************************************************)
LEMMA CheckerBeatFacts ==
  ASSUME IInv, CheckerBeat
  PROVE  /\ tester = "COUNT_LATENCY" /\ ~frameErr
         /\ chkBeats \in Nat /\ len \in Nat /\ beats \in Nat
         /\ Len(echo) > 0 /\ Len(echo) \in Nat /\ Len(echo) + chkBeats = Sent
         /\ beats <= len /\ chkBeats <= len
         /\ Head(echo).data = chkBeats /\ Head(echo).last = (chkBeats = len)
         /\ echo' \in Seq(Beat) /\ Len(echo') = Len(echo) - 1
         /\ \A i \in 1..Len(echo') : echo'[i] = echo[i + 1]
<1>1. echo # <<>> /\ ~status.valid /\ echo' = Tail(echo)
  BY DEF CheckerBeat
<1>2. TypeOK /\ tester = "COUNT_LATENCY" /\ EchoInOrder
  BY <1>1 DEF IInv, StopIsQuiet, TypeOK
<1>3. chkBeats \in Nat /\ len \in Nat /\ beats \in Nat /\ echo \in Seq(Beat)
  BY <1>2, TesterAssumption DEF TypeOK, Count
<1>4. /\ Len(echo) \in Nat /\ Len(echo) > 0 /\ 1 \in 1..Len(echo) /\ Head(echo) = echo[1]
      /\ echo' \in Seq(Beat) /\ Len(echo') = Len(echo) - 1
      /\ \A i \in 1..Len(echo') : echo'[i] = echo[i + 1]
  BY <1>1, <1>3
<1>5. /\ Len(echo) + chkBeats = Sent /\ ~frameErr /\ beats <= len /\ chkBeats <= len
      /\ echo[1].data = chkBeats + 1 - 1 /\ echo[1].last = (chkBeats + 1 - 1 = len)
  BY <1>1, <1>2, <1>4 DEF EchoInOrder
<1>6. QED
  BY <1>2, <1>3, <1>4, <1>5

LEMMA CheckerBeatInv ==
  ASSUME IInv, CheckerBeat
  PROVE  IInv'
<1>1. /\ tester = "COUNT_LATENCY" /\ ~frameErr
      /\ chkBeats \in Nat /\ len \in Nat /\ beats \in Nat
      /\ Len(echo) > 0 /\ Len(echo) \in Nat /\ Len(echo) + chkBeats = Sent
      /\ beats <= len /\ chkBeats <= len
      /\ Head(echo).data = chkBeats /\ Head(echo).last = (chkBeats = len)
      /\ echo' \in Seq(Beat) /\ Len(echo') = Len(echo) - 1
      /\ \A i \in 1..Len(echo') : echo'[i] = echo[i + 1]
  BY CheckerBeatFacts
<1>2. TypeOK /\ EchoInOrder /\ ~status.valid
  BY DEF IInv, CheckerBeat
<1>3. tester' = tester /\ tfg' = tfg /\ len' = len /\ beats' = beats
  BY DEF CheckerBeat
<1>4. CASE chkBeats = len
  <2>1. /\ chkBeats' = 0 /\ frameErr' = FALSE
        /\ status' = [valid |-> TRUE, err |-> frameErr, length |-> StatusLength(chkBeats)]
    BY <1>1, <1>4 DEF CheckerBeat
  <2>2. tfg = "IDLE" /\ Len(echo) = 1
    BY <1>1, <1>2, <1>4 DEF Sent, TypeOK
  <2>3. echo' = <<>>
    BY <1>1, <2>2
  <2>4. StatusLength(chkBeats) \in 0..LengthMod - 1
    BY <1>1, StatusLengthType
  <2>5. TypeOK'
    <3>1. 0 \in Count
      BY TesterAssumption DEF Count
    <3>2. status' \in [valid : BOOLEAN, err : BOOLEAN, length : 0..LengthMod - 1]
      BY <1>2, <2>1, <2>4 DEF TypeOK
    <3>3. QED
      BY <1>1, <1>2, <1>3, <2>1, <3>1, <3>2 DEF TypeOK
  <2>6. (StopIsQuiet /\ StatusTrue /\ EchoInOrder /\ StatusQuiet)'
    BY <1>1, <1>3, <1>4, <2>1, <2>2, <2>3
       DEF StopIsQuiet, StatusTrue, EchoInOrder, StatusQuiet, StatusLength
  <2>7. QED
    BY <2>5, <2>6 DEF IInv
<1>5. CASE chkBeats # len
  <2>1. chkBeats < len /\ len \in Count
    BY <1>1, <1>2, <1>5 DEF TypeOK
  <2>2. chkBeats' = chkBeats + 1 /\ frameErr' = FALSE /\ status' = status
    <3>1. (chkBeats + 1) % CountMod = chkBeats + 1
      BY <1>1, <2>1, CountFacts
    <3>2. QED
      BY <1>1, <1>5, <3>1 DEF CheckerBeat
  <2>3. TypeOK'
    <3>1. chkBeats + 1 \in Count
      BY <1>1, <2>1, TesterAssumption DEF Count
    <3>2. QED
      BY <1>1, <1>2, <1>3, <2>2, <3>1 DEF TypeOK
  <2>4. Sent' = Sent
    BY <1>3 DEF Sent
  <2>5. \A i \in 1..Len(echo') : /\ echo'[i].data = chkBeats' + i - 1
                                 /\ echo'[i].last = (chkBeats' + i - 1 = len')
    <3> SUFFICES ASSUME NEW i \in 1..Len(echo')
                 PROVE  /\ echo'[i].data = chkBeats' + i - 1
                        /\ echo'[i].last = (chkBeats' + i - 1 = len')
      OBVIOUS
    <3>1. i + 1 \in 1..Len(echo) /\ echo'[i] = echo[i + 1]
      BY <1>1
    <3>2. /\ echo[i + 1].data = chkBeats + (i + 1) - 1
          /\ echo[i + 1].last = (chkBeats + (i + 1) - 1 = len)
      BY <1>1, <1>2, <3>1 DEF EchoInOrder
    <3>3. chkBeats' + i - 1 = chkBeats + (i + 1) - 1
      BY <1>1, <2>2
    <3>4. QED
      BY <1>3, <3>1, <3>2, <3>3
  <2>6. EchoInOrder'
    BY <1>1, <1>3, <2>1, <2>2, <2>4, <2>5 DEF EchoInOrder
  <2>7. QED
    BY <1>1, <1>2, <1>3, <2>2, <2>3, <2>6 DEF IInv, StopIsQuiet, StatusTrue, StatusQuiet
<1>6. QED
  BY <1>4, <1>5

LEMMA StatusPulseInv ==
  ASSUME IInv, StatusPulse
  PROVE  IInv'
<1>1. /\ TypeOK /\ status.valid /\ tfg = "IDLE"
      /\ echo = <<>> /\ chkBeats = 0 /\ ~frameErr
  BY DEF IInv, StatusPulse, StatusTrue, StatusQuiet
<1>2. TypeOK'
  BY <1>1 DEF TypeOK, StatusPulse
<1>3. ~status'.valid /\ tester' = "STOP"
  BY <1>1 DEF StatusPulse, TypeOK
<1>4. QED
  BY <1>1, <1>2, <1>3
     DEF IInv, TypeOK, StopIsQuiet, StatusTrue, EchoInOrder, StatusQuiet, StatusPulse

LEMMA StepInv == IInv /\ [Next]_vars => IInv'
<1> SUFFICES ASSUME IInv, [Next]_vars PROVE IInv'
  OBVIOUS
<1>1. ASSUME NEW l \in Lengths, Command(l) PROVE IInv'
  BY <1>1, CommandInv
<1>2. CASE GeneratorBeat
  BY <1>2, GeneratorBeatInv
<1>3. CASE CheckerBeat
  BY <1>3, CheckerBeatInv
<1>4. CASE StatusPulse
  BY <1>4, StatusPulseInv
<1>5. CASE UNCHANGED vars
  BY <1>5 DEF vars, IInv, TypeOK, StopIsQuiet, StatusTrue, EchoInOrder, StatusQuiet, Sent
<1>6. QED
  BY <1>1, <1>2, <1>3, <1>4, <1>5 DEF Next

(***************************************************************************)
(* The echo always holds exactly the numbers between checker and           *)
(* generator (tfg.py:73-99, tfc.py:28-48, framing.py:169-187).             *)
(***************************************************************************)
THEOREM EchoInvariant == Spec => []IInv
<1>1. QED
  BY InitInv, StepInv, PTL DEF Spec

(***************************************************************************)
(* A report belongs to the command in progress and shows no error, for     *)
(* every length and every delay of the echo (framing.py:179-187).          *)
(***************************************************************************)
THEOREM StatusIsTrue == Spec => []StatusTrue
<1>1. IInv => StatusTrue
  BY DEF IInv
<1>2. QED
  BY <1>1, EchoInvariant, PTL

(***************************************************************************)
(* The tester that is back in STOP has nothing on its way, so the next     *)
(* command starts clean (framing.py:171-185).                              *)
(***************************************************************************)
THEOREM StopIsClean == Spec => []StopIsQuiet
<1>1. IInv => StopIsQuiet
  BY DEF IInv
<1>2. QED
  BY <1>1, EchoInvariant, PTL

-----------------------------------------------------------------------------
(***************************************************************************)
(* Refinement: a command asks, its last echoed beat answers, every other   *)
(* step changes nothing that EchoTest sees.                                *)
(***************************************************************************)
LEMMA InitRefines == Init => EchoTestOf!Init
  BY DEF Init, EchoTestOf!Init, Unanswered, Report

LEMMA CheckerBeatRefines ==
  ASSUME IInv, CheckerBeat
  PROVE  EchoTestOf!Answer \/ UNCHANGED <<Unanswered, Report>>
<1>1. /\ tester = "COUNT_LATENCY" /\ ~status.valid /\ ~frameErr
      /\ Head(echo).last = (chkBeats = len)
  BY CheckerBeatFacts DEF CheckerBeat
<1>2. tester' = tester /\ len' = len
  BY DEF CheckerBeat
<1>3. Unanswered = {len}
  BY <1>1 DEF Unanswered
<1>4. frameErr = FALSE
  BY <1>1 DEF IInv, TypeOK
<1>5. CASE chkBeats = len
  <2>1. status' = [valid |-> TRUE, err |-> FALSE, length |-> StatusLength(len)]
    BY <1>1, <1>4, <1>5 DEF CheckerBeat
  <2>2. Unanswered' = {} /\ Report' = [err |-> FALSE, length |-> StatusLength(len)]
    BY <2>1 DEF Unanswered, Report
  <2>3. QED
    BY <1>3, <2>2 DEF EchoTestOf!Answer, StatusLength
<1>6. CASE chkBeats # len
  <2>1. status' = status
    BY <1>1, <1>6 DEF CheckerBeat
  <2>2. QED
    BY <1>2, <2>1 DEF Unanswered, Report
<1>7. QED
  BY <1>5, <1>6

LEMMA StepRefines ==
  IInv /\ [Next]_vars => [EchoTestOf!Next]_<<Unanswered, Report>>
<1> SUFFICES ASSUME IInv, [Next]_vars
             PROVE  EchoTestOf!Next \/ UNCHANGED <<Unanswered, Report>>
  OBVIOUS
<1>1. ASSUME NEW l \in Lengths, Command(l) PROVE EchoTestOf!Next
  <2>1. tester = "STOP" /\ ~status.valid
    BY <1>1 DEF Command, IInv, StopIsQuiet
  <2>2. Unanswered = {} /\ Unanswered' = {l} /\ Report' = Report
    BY <1>1, <2>1 DEF Command, Unanswered, Report
  <2>3. EchoTestOf!Ask(l)
    BY <2>2 DEF EchoTestOf!Ask
  <2>4. QED
    BY <2>3 DEF EchoTestOf!Next
<1>2. CASE GeneratorBeat
  BY <1>2 DEF GeneratorBeat, Unanswered, Report
<1>3. CASE CheckerBeat
  BY <1>3, CheckerBeatRefines DEF EchoTestOf!Next
<1>4. CASE StatusPulse
  <2>1. /\ status.valid /\ tester' = "STOP" /\ status'.err = status.err
        /\ status'.length = status.length
    BY <1>4 DEF StatusPulse, IInv, TypeOK
  <2>2. QED
    BY <2>1 DEF Unanswered, Report
<1>5. CASE UNCHANGED vars
  BY <1>5 DEF vars, Unanswered, Report
<1>6. QED
  BY <1>1, <1>2, <1>3, <1>4, <1>5 DEF Next

(***************************************************************************)
(* K2MMTester over a faithful echo implements EchoTest: each command is    *)
(* answered at most once, before the next is taken, by a report without    *)
(* error of its own length (framing.py:169-198, tfg.py, tfc.py).           *)
(***************************************************************************)
THEOREM TesterImplementsEchoTest == Spec => EchoTestSpec
<1>1. QED
  BY InitRefines, EchoInvariant, StepRefines, PTL DEF Spec, EchoTestSpec, EchoTestOf!Spec
=============================================================================
