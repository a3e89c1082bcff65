--------------------------- MODULE K2MMNode_proofs ---------------------------
(***************************************************************************)
(* What a node's own steps keep, for every set of nodes, every buffer      *)
(* depth and every counter width: types, the arbiter's frames, and the way *)
(* of a tester's frame to the peer and back.  The theorems about K2MMPing  *)
(* and K2MMLink rest on it.                                                *)
(***************************************************************************)
EXTENDS K2MMNode, TLAPS

\* What an action waits for is read as part of the action.
USE DEF CanGenerate, CanCheck, CanStartEcho, CanEcho, CanRegrant, CanStartFrame,
        CanSendHeader, CanSendData, CanTakeHeader, CanJudge, CanTakeBeat

(***************************************************************************)
(* The queues of a node stay bounded sequences under the two operations    *)
(* its handshakes make on them.                                            *)
(***************************************************************************)
LEMMA QueueAppend ==
  ASSUME NEW S, NEW Q \in [Nodes -> Seq(S)], NEW n \in Nodes, NEW e \in S, NEW d \in Nat,
         \A m \in Nodes : Len(Q[m]) <= d,
         Len(Q[n]) < d
  PROVE  LET R == [Q EXCEPT ![n] = Append(@, e)]
         IN  R \in [Nodes -> Seq(S)] /\ \A m \in Nodes : Len(R[m]) <= d
<1> DEFINE R == [Q EXCEPT ![n] = Append(@, e)]
<1>1. Append(Q[n], e) \in Seq(S) /\ Len(Append(Q[n], e)) = Len(Q[n]) + 1
  OBVIOUS
<1>2. R \in [Nodes -> Seq(S)]
  BY <1>1
<1>3. \A m \in Nodes : Len(R[m]) <= d
  <2> SUFFICES ASSUME NEW m \in Nodes PROVE Len(R[m]) <= d
    OBVIOUS
  <2>1. CASE m = n
    <3>1. Len(Q[n]) \in Nat
      OBVIOUS
    <3>2. R[m] = Append(Q[n], e)
      BY <2>1
    <3>3. QED
      BY <1>1, <3>1, <3>2
  <2>2. CASE m # n
    BY <2>2
  <2>3. QED
    BY <2>1, <2>2
<1>4. QED
  BY <1>2, <1>3

LEMMA QueueTail ==
  ASSUME NEW S, NEW Q \in [Nodes -> Seq(S)], NEW n \in Nodes, NEW d \in Nat,
         \A m \in Nodes : Len(Q[m]) <= d,
         Q[n] # <<>>
  PROVE  LET R == [Q EXCEPT ![n] = Tail(@)]
         IN  /\ R \in [Nodes -> Seq(S)] /\ \A m \in Nodes : Len(R[m]) <= d
             /\ Head(Q[n]) \in S
<1> DEFINE R == [Q EXCEPT ![n] = Tail(@)]
<1>1. /\ Tail(Q[n]) \in Seq(S) /\ Len(Tail(Q[n])) = Len(Q[n]) - 1
      /\ Head(Q[n]) \in S /\ Len(Q[n]) \in Nat
  OBVIOUS
<1>2. R \in [Nodes -> Seq(S)]
  BY <1>1
<1>3. \A m \in Nodes : Len(R[m]) <= d
  <2> SUFFICES ASSUME NEW m \in Nodes PROVE Len(R[m]) <= d
    OBVIOUS
  <2>1. CASE m = n
    <3>1. R[m] = Tail(Q[n])
      BY <2>1
    <3>2. QED
      BY <1>1, <3>1
  <2>2. CASE m # n
    BY <2>2
  <2>3. QED
    BY <2>1, <2>2
<1>4. QED
  BY <1>1, <1>2, <1>3

LEMMA ConstantFacts ==
  /\ CountMod \in Nat /\ 0 \in Count /\ Lengths \subseteq Count
  /\ \A c \in Count : (c + 1) % CountMod \in Count
  /\ Count \subseteq Word /\ HeaderWord \in Word
  /\ FifoDepth \in Nat /\ SkidDepth \in Nat
<1>1. CountMod \in Nat \ {0} /\ FifoDepth \in Nat /\ Lengths \subseteq 0..CountMod - 1
  BY NodeAssumption
<1>2. \A c \in Count : (c + 1) % CountMod \in Count
  <2> SUFFICES ASSUME NEW c \in Count PROVE (c + 1) % CountMod \in Count
    OBVIOUS
  <2>1. c + 1 \in Nat
    BY <1>1 DEF Count
  <2> DEFINE x == c + 1
  <2> HIDE DEF x
  <2>2. x % CountMod \in 0..CountMod - 1
    BY <1>1, <2>1 DEF x
  <2>3. QED
    BY <2>2 DEF x, Count
<1>3. QED
  BY <1>1, <1>2 DEF Count, Word, SkidDepth

LEMMA StatusLengthType ==
  ASSUME NEW b \in Count
  PROVE  StatusLength(b) \in 0..LengthMod - 1
<1> DEFINE bytes == (b + 1) * BeatBytes
<1>1. LengthMod \in Nat \ {0} /\ BeatBytes \in Nat /\ b \in Nat
  BY NodeAssumption DEF Count
<1>2. bytes \in Nat
  BY <1>1
<1> HIDE DEF bytes
<1>3. bytes % LengthMod \in 0..LengthMod - 1
  BY <1>1, <1>2
<1>4. QED
  BY <1>3 DEF StatusLength, bytes

LEMMA NodeInitType == NodeInit => NodeTypeOK
<1> SUFFICES ASSUME NodeInit PROVE NodeTypeOK
  OBVIOUS
<1>1. 0 \in 0..LengthMod - 1
  BY NodeAssumption
<1>2. status \in [Nodes -> Status]
  BY <1>1 DEF NodeInit, Status
<1>3. /\ ptx \in [Nodes -> Seq(UserBeat)] /\ prx \in [Nodes -> Seq(UserBeat)]
      /\ txbuf \in [Nodes -> Seq(WireBeat)] /\ rxbuf \in [Nodes -> Seq(WireBeat)]
  BY DEF NodeInit
<1>4. \A n \in Nodes : /\ Len(ptx[n]) <= SkidDepth /\ Len(prx[n]) <= SkidDepth
                       /\ Len(txbuf[n]) <= FifoDepth /\ Len(rxbuf[n]) <= FifoDepth
  <2> SUFFICES ASSUME NEW n \in Nodes
               PROVE  /\ Len(ptx[n]) <= SkidDepth /\ Len(prx[n]) <= SkidDepth
                      /\ Len(txbuf[n]) <= FifoDepth /\ Len(rxbuf[n]) <= FifoDepth
    OBVIOUS
  <2>1. ptx[n] = <<>> /\ prx[n] = <<>> /\ txbuf[n] = <<>> /\ rxbuf[n] = <<>>
    BY DEF NodeInit
  <2>2. Len(<<>>) = 0
    OBVIOUS
  <2>3. QED
    BY <2>1, <2>2, ConstantFacts
<1>5. hdr \in [Nodes -> [magic : BOOLEAN, pf : BOOLEAN]]
  BY DEF NodeInit
<1>6. QED
  BY <1>2, <1>3, <1>4, <1>5, ConstantFacts DEF NodeInit, NodeTypeOK, Masters

-----------------------------------------------------------------------------
(***************************************************************************)
(* One lemma per action, each naming the queues the action moves a beat    *)
(* through; everything else it leaves alone or sets to a constant.         *)
(***************************************************************************)
LEMMA GrantType ==
  ASSUME NodeTypeOK, NEW n \in Nodes, NEW last \in BOOLEAN
  PROVE  GrantAfter(n, last) \in Masters /\ Other(grant[n]) \in Masters
<1>1. grant[n] \in Masters
  BY DEF NodeTypeOK
<1>2. \E o \in Masters : o # grant[n]
  BY <1>1 DEF Masters
<1>3. QED
  BY <1>1, <1>2 DEF GrantAfter, Other

LEMMA CommandType ==
  ASSUME NodeTypeOK, NEW n \in Nodes, NEW l \in Lengths, Command(n, l)
  PROVE  NodeTypeOK'
<1>1. l \in Count /\ 0 \in Count
  BY ConstantFacts
<1>2. QED
  BY <1>1 DEF NodeTypeOK, Command, chkVars, txVars, rxVars

LEMMA GeneratorBeatType ==
  ASSUME NodeTypeOK, NEW n \in Nodes, GeneratorBeat(n)
  PROVE  NodeTypeOK'
<1> DEFINE last == beats[n] = len[n]
           beat == [data |-> beats[n], last |-> last, pf |-> TRUE]
<1>1. beat \in UserBeat /\ beats[n] \in Count
  BY ConstantFacts DEF NodeTypeOK, UserBeat
<1>2. /\ ptx' = [ptx EXCEPT ![n] = Append(@, beat)]
      /\ Len(ptx[n]) < SkidDepth
  BY DEF GeneratorBeat
<1>3. ptx' \in [Nodes -> Seq(UserBeat)] /\ \A m \in Nodes : Len(ptx'[m]) <= SkidDepth
  <2> HIDE DEF beat
  <2>1. QED
    BY <1>1, <1>2, ConstantFacts, QueueAppend DEF NodeTypeOK
<1>4. beats' \in [Nodes -> Count] /\ tfg' \in [Nodes -> {"IDLE", "RUN"}]
  BY <1>1, ConstantFacts DEF NodeTypeOK, GeneratorBeat
<1>5. grant' \in [Nodes -> Masters]
  BY GrantType DEF NodeTypeOK, GeneratorBeat
<1>6. QED
  BY <1>3, <1>4, <1>5 DEF NodeTypeOK, GeneratorBeat, chkVars, txVars, rxVars

LEMMA CheckerBeatType ==
  ASSUME NodeTypeOK, NEW n \in Nodes, CheckerBeat(n)
  PROVE  NodeTypeOK'
<1>1. prx' = [prx EXCEPT ![n] = Tail(@)] /\ prx[n] # <<>>
  BY DEF CheckerBeat
<1>2. /\ prx' \in [Nodes -> Seq(UserBeat)] /\ \A m \in Nodes : Len(prx'[m]) <= SkidDepth
      /\ Head(prx[n]) \in UserBeat
  BY <1>1, ConstantFacts, QueueTail DEF NodeTypeOK
<1>3. chkBeats[n] \in Count /\ frameErr[n] \in BOOLEAN /\ 0 \in Count
      /\ (chkBeats[n] + 1) % CountMod \in Count
  BY ConstantFacts DEF NodeTypeOK
<1>4. [valid |-> TRUE, err |-> frameErr[n], length |-> StatusLength(chkBeats[n])] \in Status
  BY <1>3, StatusLengthType DEF Status
<1>5. /\ chkBeats' \in [Nodes -> Count] /\ frameErr' \in [Nodes -> BOOLEAN]
      /\ status' \in [Nodes -> Status]
  <2> DEFINE report == [valid |-> TRUE, err |-> frameErr[n],
                        length |-> StatusLength(chkBeats[n])]
  <2>1. CASE Head(prx[n]).last
    <3>1. /\ chkBeats' = [chkBeats EXCEPT ![n] = 0]
          /\ frameErr' = [frameErr EXCEPT ![n] = FALSE]
          /\ status' = [status EXCEPT ![n] = report]
      BY <2>1 DEF CheckerBeat
    <3> HIDE DEF report
    <3>2. QED
      BY <1>3, <1>4, <3>1 DEF NodeTypeOK, report
  <2>2. CASE ~Head(prx[n]).last
    BY <1>3, <2>2, ZenonT(60) DEF NodeTypeOK, CheckerBeat
  <2>3. QED
    BY <2>1, <2>2
<1>6. QED
  BY <1>2, <1>5 DEF NodeTypeOK, CheckerBeat, genVars, txVars, rxVars

LEMMA StatusPulseType ==
  ASSUME NodeTypeOK, NEW n \in Nodes, StatusPulse(n)
  PROVE  NodeTypeOK'
<1>1. status[n] \in Status
  BY DEF NodeTypeOK
<1>2. [status[n] EXCEPT !.valid = FALSE] \in Status
  BY <1>1 DEF Status
<1>3. status' = [status EXCEPT ![n] = [status[n] EXCEPT !.valid = FALSE]]
  BY DEF StatusPulse
<1>4. status' \in [Nodes -> Status]
  BY <1>2, <1>3 DEF NodeTypeOK
<1>5. QED
  BY <1>4 DEF NodeTypeOK, StatusPulse, txVars, rxVars

LEMMA ProbeStartType ==
  ASSUME NodeTypeOK, NEW n \in Nodes, ProbeStart(n)
  PROVE  NodeTypeOK'
<1>1. QED
  BY DEF NodeTypeOK, ProbeStart, genVars, chkVars, txVars, rxVars

LEMMA ProbeBeatType ==
  ASSUME NodeTypeOK, NEW n \in Nodes, ProbeBeat(n)
  PROVE  NodeTypeOK'
<1> DEFINE beat == [Head(prx[n]) EXCEPT !.pf = FALSE]
<1>1. /\ prx' = [prx EXCEPT ![n] = Tail(@)] /\ prx[n] # <<>>
      /\ ptx' = [ptx EXCEPT ![n] = Append(@, beat)] /\ Len(ptx[n]) < SkidDepth
  BY DEF ProbeBeat
<1>2. /\ prx' \in [Nodes -> Seq(UserBeat)] /\ \A m \in Nodes : Len(prx'[m]) <= SkidDepth
      /\ Head(prx[n]) \in UserBeat
  BY <1>1, ConstantFacts, QueueTail DEF NodeTypeOK
<1>3. beat \in UserBeat /\ Head(prx[n]).last \in BOOLEAN
  BY <1>2 DEF UserBeat
<1>4. ptx' \in [Nodes -> Seq(UserBeat)] /\ \A m \in Nodes : Len(ptx'[m]) <= SkidDepth
  <2> HIDE DEF beat
  <2>1. QED
    BY <1>1, <1>3, ConstantFacts, QueueAppend DEF NodeTypeOK
<1>5. grant' \in [Nodes -> Masters] /\ probe' \in [Nodes -> {"IDLE", "PROBE_RESPONSE"}]
  BY <1>3, GrantType DEF NodeTypeOK, ProbeBeat
<1>6. QED
  BY <1>2, <1>4, <1>5 DEF NodeTypeOK, ProbeBeat, genVars, chkVars, txVars, rxVars

LEMMA RegrantType ==
  ASSUME NodeTypeOK, NEW n \in Nodes, Regrant(n)
  PROVE  NodeTypeOK'
<1>1. grant' \in [Nodes -> Masters]
  BY GrantType DEF NodeTypeOK, Regrant
<1>2. QED
  BY <1>1 DEF NodeTypeOK, Regrant, genVars, chkVars, txVars, rxVars

LEMMA TxStartType ==
  ASSUME NodeTypeOK, NEW n \in Nodes, TxStart(n)
  PROVE  NodeTypeOK'
<1>1. QED
  BY DEF NodeTypeOK, TxStart, genVars, chkVars, rxVars

LEMMA TxHeaderType ==
  ASSUME NodeTypeOK, NEW n \in Nodes, TxHeader(n)
  PROVE  NodeTypeOK'
<1>1. Head(ptx[n]) \in UserBeat
  BY DEF NodeTypeOK, TxHeader
<1> DEFINE beat == HeaderBeat(Head(ptx[n]).pf)
<1>2. beat \in WireBeat
  BY <1>1, ConstantFacts DEF UserBeat, WireBeat, HeaderBeat
<1>3. txbuf' = [txbuf EXCEPT ![n] = Append(@, beat)] /\ Len(txbuf[n]) < FifoDepth
  BY DEF TxHeader
<1> HIDE DEF beat
<1>4. txbuf' \in [Nodes -> Seq(WireBeat)] /\ \A m \in Nodes : Len(txbuf'[m]) <= FifoDepth
  BY <1>2, <1>3, ConstantFacts, QueueAppend DEF NodeTypeOK
<1>5. QED
  BY <1>4 DEF NodeTypeOK, TxHeader, genVars, chkVars, rxVars

LEMMA TxDataType ==
  ASSUME NodeTypeOK, NEW n \in Nodes, TxData(n)
  PROVE  NodeTypeOK'
<1>1. ptx' = [ptx EXCEPT ![n] = Tail(@)] /\ ptx[n] # <<>>
  BY DEF TxData
<1>2. /\ ptx' \in [Nodes -> Seq(UserBeat)] /\ \A m \in Nodes : Len(ptx'[m]) <= SkidDepth
      /\ Head(ptx[n]) \in UserBeat
  BY <1>1, ConstantFacts, QueueTail DEF NodeTypeOK
<1> DEFINE beat == DataBeat(Head(ptx[n]))
<1>3. beat \in WireBeat
  BY <1>2 DEF UserBeat, WireBeat, DataBeat
<1>4. txbuf' = [txbuf EXCEPT ![n] = Append(@, beat)] /\ Len(txbuf[n]) < FifoDepth
  BY DEF TxData
<1> HIDE DEF beat
<1>5. txbuf' \in [Nodes -> Seq(WireBeat)] /\ \A m \in Nodes : Len(txbuf'[m]) <= FifoDepth
  BY <1>3, <1>4, ConstantFacts, QueueAppend DEF NodeTypeOK
<1>6. QED
  BY <1>2, <1>5 DEF NodeTypeOK, TxData, genVars, chkVars, rxVars

LEMMA RxHeaderType ==
  ASSUME NodeTypeOK, NEW n \in Nodes, RxHeader(n)
  PROVE  NodeTypeOK'
<1>1. rxbuf' = [rxbuf EXCEPT ![n] = Tail(@)] /\ rxbuf[n] # <<>>
  BY DEF RxHeader
<1>2. /\ rxbuf' \in [Nodes -> Seq(WireBeat)] /\ \A m \in Nodes : Len(rxbuf'[m]) <= FifoDepth
      /\ Head(rxbuf[n]) \in WireBeat
  BY <1>1, ConstantFacts, QueueTail DEF NodeTypeOK
<1>3. Decode(Head(rxbuf[n])) \in [magic : BOOLEAN, pf : BOOLEAN]
  <2> DEFINE b == Head(rxbuf[n])
             magic == b.head \/ b.data \in Lookalike
             pf == IF b.head THEN b.pf ELSE b.data \in Lookalike
  <2>1. b.head \in BOOLEAN /\ b.pf \in BOOLEAN
    BY <1>2 DEF WireBeat
  <2>2. magic \in BOOLEAN
    BY Zenon
  <2>3. pf \in BOOLEAN
    <3>1. CASE b.head
      BY <2>1, <3>1
    <3>2. CASE ~b.head /\ b.data \in Lookalike
      BY <3>2
    <3>3. CASE ~b.head /\ b.data \notin Lookalike
      BY <3>3
    <3>4. QED
      BY <3>1, <3>2, <3>3
  <2>4. Decode(b) = [magic |-> magic, pf |-> pf]
    BY DEF Decode
  <2> HIDE DEF b, magic, pf
  <2>5. [magic |-> magic, pf |-> pf] \in [magic : BOOLEAN, pf : BOOLEAN]
    BY <2>2, <2>3
  <2>6. QED
    BY <2>4, <2>5 DEF b
<1>4. QED
  BY <1>2, <1>3 DEF NodeTypeOK, RxHeader, genVars, chkVars, txVars

LEMMA RxJudgeType ==
  ASSUME NodeTypeOK, NEW n \in Nodes, RxJudge(n)
  PROVE  NodeTypeOK'
<1>1. QED
  BY DEF NodeTypeOK, RxJudge, genVars, chkVars, txVars

LEMMA RxBeatType ==
  ASSUME NodeTypeOK, NEW n \in Nodes, RxBeat(n)
  PROVE  NodeTypeOK'
<1>1. rxbuf' = [rxbuf EXCEPT ![n] = Tail(@)] /\ rxbuf[n] # <<>>
  BY DEF RxBeat
<1>2. /\ rxbuf' \in [Nodes -> Seq(WireBeat)] /\ \A m \in Nodes : Len(rxbuf'[m]) <= FifoDepth
      /\ Head(rxbuf[n]) \in WireBeat
  BY <1>1, ConstantFacts, QueueTail DEF NodeTypeOK
<1> DEFINE beat == [data |-> Head(rxbuf[n]).data, last |-> Head(rxbuf[n]).last,
                    pf |-> hdr[n].pf]
<1>3. beat \in UserBeat
  BY <1>2 DEF NodeTypeOK, UserBeat, WireBeat
<1>4. \/ prx' = [prx EXCEPT ![n] = Append(@, beat)] /\ Len(prx[n]) < SkidDepth
      \/ prx' = prx
  BY DEF RxBeat
<1> HIDE DEF beat
<1>5. prx' \in [Nodes -> Seq(UserBeat)] /\ \A m \in Nodes : Len(prx'[m]) <= SkidDepth
  <2>1. CASE prx' = [prx EXCEPT ![n] = Append(@, beat)] /\ Len(prx[n]) < SkidDepth
    BY <1>3, <2>1, ConstantFacts, QueueAppend DEF NodeTypeOK
  <2>2. CASE prx' = prx
    BY <2>2 DEF NodeTypeOK
  <2>3. QED
    BY <1>4, <2>1, <2>2
<1>6. QED
  BY <1>2, <1>5 DEF NodeTypeOK, RxBeat, RxAfter, genVars, chkVars, txVars

(***************************************************************************)
(* A node keeps its types, whatever it does on its own.                    *)
(***************************************************************************)
LEMMA NodeStepType ==
  ASSUME NodeTypeOK, NEW n \in Nodes, NodeStep(n)
  PROVE  NodeTypeOK'
<1>1. CASE GeneratorBeat(n)
  BY <1>1, GeneratorBeatType
<1>2. CASE CheckerBeat(n)
  BY <1>2, CheckerBeatType
<1>3. CASE StatusPulse(n)
  BY <1>3, StatusPulseType
<1>4. CASE ProbeStart(n)
  BY <1>4, ProbeStartType
<1>5. CASE ProbeBeat(n)
  BY <1>5, ProbeBeatType
<1>6. CASE Regrant(n)
  BY <1>6, RegrantType
<1>7. CASE TxStart(n)
  BY <1>7, TxStartType
<1>8. CASE TxHeader(n)
  BY <1>8, TxHeaderType
<1>9. CASE TxData(n)
  BY <1>9, TxDataType
<1>10. CASE RxHeader(n)
  BY <1>10, RxHeaderType
<1>11. CASE RxJudge(n)
  BY <1>11, RxJudgeType
<1>12. CASE RxBeat(n)
  BY <1>12, RxBeatType
<1>13. QED
  BY <1>1, <1>2, <1>3, <1>4, <1>5, <1>6, <1>7, <1>8, <1>9, <1>10, <1>11, <1>12 DEF NodeStep
-----------------------------------------------------------------------------
(***************************************************************************)
(* The way of a tester's frame, from its generator to the probe of the     *)
(* peer and back to its checker.  Six queues are on it: ptx, the stream    *)
(* and prx on the way out (pf = 1) and on the way back (pf = 0).  What the *)
(* stream is - the wire's two buffers, or a link - is left to w, which     *)
(* holds the framed beats on the way from s to its peer, each with the pf  *)
(* of its frame.  t, r and c count the beats of a frame that have left     *)
(* ptx, that have left the stream, and that the probe has echoed.          *)
(***************************************************************************)
StreamBeat == [head : BOOLEAN, pf : BOOLEAN, data : Word, last : BOOLEAN]

UserKind(k)   == {b \in UserBeat : b.pf = k}
StreamKind(k) == {b \in StreamBeat : ~b.head /\ b.pf = k}

\* A stream beat for a beat of a buffer, which knows its pf in a header only.
Alike(y, x) ==
  /\ y.head = x.head /\ y.data = x.data /\ y.last = x.last
  /\ x.head => y.pf = x.pf

\* The beats of q in K are lo, ..., hi - 1 in order, and only N is a last one.
Lane(q, K, lo, hi, N) ==
  /\ lo <= hi
  /\ \A i \in DOMAIN q : q[i] \in K => /\ lo <= q[i].data /\ q[i].data < hi
                                       /\ q[i].last <=> q[i].data = N
  /\ \A i, j \in DOMAIN q : q[i] \in K /\ q[j] \in K /\ i < j => q[i].data < q[j].data
  /\ \A x \in lo..hi - 1 : \E i \in DOMAIN q : q[i] \in K /\ q[i].data = x

\* Whose frame the beats with pf = k are that s sends, how many of them s has
\* given to ptx, and how many its peer has taken out of prx.
Owner(s, k)      == IF k THEN s ELSE Peer[s]
Entered(c, s, k) == IF k THEN Sent(s) ELSE c[s]
Taken(c, s, k)   == IF k THEN c[Peer[s]] ELSE Seen(Peer[s])

LanesAt(w, t, r, c, s, k) ==
  LET N == len[Owner(s, k)]
      p == Peer[s]
  IN  /\ Lane(ptx[s], UserKind(k), t[s][k], Entered(c, s, k), N)
      /\ Lane(w[s], StreamKind(k), r[s][k], t[s][k], N)
      /\ Lane(prx[p], UserKind(k), Taken(c, s, k), r[s][k], N)
      /\ 0 < r[s][k] /\ r[s][k] <= N => rx[p] = "RECEIVE" /\ hdr[p].pf = k

Lanes(w, t, r, c) == \A s \in Nodes, k \in BOOLEAN : LanesAt(w, t, r, c, s, k)

\* What the tester's own registers say of its command.
Reports ==
  \A n \in Nodes :
    /\ tfg[n] = "RUN" => Open(n) /\ beats[n] <= len[n]
    /\ ~Open(n) => chkBeats[n] = 0
    /\ ~frameErr[n]
    /\ status[n].valid => /\ tester[n] = "COUNT_LATENCY" /\ ~status[n].err
                          /\ status[n].length = StatusLength(len[n])

\* A header follows a last beat and nothing else, and a frame has one pf.
Joined(x, y) == (y.head <=> x.last) /\ (~x.last => y.pf = x.pf)

Chain(x, q, y) ==
  IF q = <<>> THEN Joined(x, y)
  ELSE /\ Joined(x, q[1]) /\ Joined(q[Len(q)], y)
       /\ \A i \in 1..Len(q) - 1 : Joined(q[i], q[i + 1])

\* The beat that the receiver p took last, and the one the transmitter s gives next.
Received(p) == [last |-> rx[p] = "IDLE", pf |-> hdr[p].pf]
Waiting(s)  == [head |-> tx[s] # "SEND_DATA",
                pf   |-> IF ptx[s] = <<>> THEN grant[s] = "tester" ELSE ptx[s][1].pf]

\* The stream from s is a chain, and its peer drops no frame.
FramingAt(w, s) ==
  /\ Chain(Received(Peer[s]), w[s], Waiting(s))
  /\ \A i \in DOMAIN w[s] : w[s][i].head => ~w[s][i].last
  /\ rx[Peer[s]] # "DROP"
  /\ rx[Peer[s]] # "IDLE" => hdr[Peer[s]].magic

Framing(w) == \A s \in Nodes : FramingAt(w, s)

\* The arbiter is inside a frame: the beat it passed last is not a last one.
Midframe(s) ==
  IF ptx[s] = <<>> THEN tx[s] = "SEND_DATA" ELSE ~ptx[s][Len(ptx[s])].last

ArbitrationAt(s) ==
  /\ tx[s] = "SEND_HEADER" => ptx[s] # <<>>
  /\ \A i \in 1..Len(ptx[s]) - 1 : ~ptx[s][i].last => ptx[s][i + 1].pf = ptx[s][i].pf
  /\ Midframe(s) => Requests(s, grant[s])
  /\ ptx[s] # <<>> /\ ~ptx[s][Len(ptx[s])].last
       => ptx[s][Len(ptx[s])].pf = (grant[s] = "tester")

Arbitration == \A s \in Nodes : ArbitrationAt(s)

Frames(w, t, r, c) ==
  /\ w \in [Nodes -> Seq(StreamBeat)] /\ c \in [Nodes -> Nat]
  /\ t \in [Nodes -> [BOOLEAN -> Nat]] /\ r \in [Nodes -> [BOOLEAN -> Nat]]
  /\ Lanes(w, t, r, c) /\ Framing(w) /\ Arbitration /\ Reports

\* The receiver's buffer holds the oldest beats of the stream.
Fed(w) ==
  \A n \in Nodes : rxbuf[n] # <<>> => /\ w[Peer[n]] # <<>>
                                      /\ Alike(w[Peer[n]][1], rxbuf[n][1])

\* What a step of node m does to the stream and to the buffers at its ends.
Moved(m, w, v) ==
  \/ v = w /\ UNCHANGED <<txbuf, rxbuf>>
  \/ /\ \E y \in StreamBeat, x \in WireBeat :
          /\ Alike(y, x) /\ v = [w EXCEPT ![m] = Append(@, y)]
          /\ txbuf' = [txbuf EXCEPT ![m] = Append(@, x)]
     /\ rxbuf' = rxbuf
  \/ /\ rxbuf[m] # <<>> /\ v = [w EXCEPT ![Peer[m]] = Tail(@)]
     /\ rxbuf' = [rxbuf EXCEPT ![m] = Tail(@)] /\ txbuf' = txbuf
-----------------------------------------------------------------------------
(***************************************************************************)
(* What the steps of a node do to a lane: a beat of another kind enters or *)
(* leaves it, its next beat enters, its oldest leaves.                     *)
(***************************************************************************)
LEMMA LaneSkip ==
  ASSUME NEW S, NEW q \in Seq(S), NEW e \in S, NEW K, NEW lo \in Nat, NEW hi \in Nat,
         NEW N \in Nat, Lane(q, K, lo, hi, N), e \notin K
  PROVE  Lane(Append(q, e), K, lo, hi, N)
<1>1. /\ DOMAIN Append(q, e) = 1..Len(q)+1 /\ DOMAIN q = 1..Len(q) /\ Len(q) \in Nat
      /\ \A i \in 1..Len(q) : Append(q, e)[i] = q[i]
      /\ Append(q, e)[Len(q) + 1] = e
  OBVIOUS
<1> DEFINE r == Append(q, e)
<1> HIDE DEF r
<1>2. QED
  BY <1>1 DEF r, Lane

LEMMA LaneAdd ==
  ASSUME NEW S, NEW q \in Seq(S), NEW e \in S, NEW K, NEW lo \in Nat, NEW hi \in Nat,
         NEW N \in Nat, Lane(q, K, lo, hi, N), \A b \in K : b.data \in Nat,
         e \in K, e.data = hi, e.last <=> hi = N
  PROVE  Lane(Append(q, e), K, lo, hi + 1, N)
<1> DEFINE r == Append(q, e)
<1>1. /\ DOMAIN r = 1..Len(q)+1 /\ DOMAIN q = 1..Len(q) /\ Len(q) \in Nat
      /\ \A i \in 1..Len(q) : r[i] = q[i]
      /\ r[Len(q) + 1] = e
  OBVIOUS
<1> HIDE DEF r
<1>2. \A i \in DOMAIN r : r[i] \in K => /\ lo <= r[i].data /\ r[i].data < hi + 1
                                        /\ r[i].last <=> r[i].data = N
  BY <1>1 DEF Lane
<1>3. \A i, j \in DOMAIN r : r[i] \in K /\ r[j] \in K /\ i < j => r[i].data < r[j].data
  BY <1>1 DEF Lane
<1>4. \A x \in Nat : lo <= x /\ x < hi + 1 => \E i \in DOMAIN r : r[i] \in K /\ r[i].data = x
  <2> SUFFICES ASSUME NEW x \in Nat, lo <= x, x < hi + 1
               PROVE  \E i \in DOMAIN r : r[i] \in K /\ r[i].data = x
    OBVIOUS
  <2>1. CASE x = hi
    BY <1>1, <2>1
  <2>2. CASE x < hi
    BY <1>1, <2>2 DEF Lane
  <2>3. QED
    BY <2>1, <2>2
<1>5. lo <= hi + 1
  BY DEF Lane
<1>6. Lane(r, K, lo, hi + 1, N)
  BY <1>2, <1>3, <1>4, <1>5 DEF Lane
<1>7. QED
  BY <1>6 DEF r

LEMMA LaneDrop ==
  ASSUME NEW S, NEW q \in Seq(S), NEW K, NEW lo \in Nat, NEW hi \in Nat,
         NEW N \in Nat, Lane(q, K, lo, hi, N), q # <<>>, q[1] \notin K
  PROVE  Lane(Tail(q), K, lo, hi, N)
<1> DEFINE r == Tail(q)
<1>1. /\ DOMAIN q = 1..Len(q) /\ Len(q) \in Nat /\ Len(q) > 0
      /\ DOMAIN r = 1..Len(q) - 1
      /\ \A i \in DOMAIN r : r[i] = q[i + 1] /\ i + 1 \in DOMAIN q
      /\ \A i \in DOMAIN q : i > 1 => i - 1 \in DOMAIN r /\ r[i - 1] = q[i]
  OBVIOUS
<1> HIDE DEF r
<1>2. \A i \in DOMAIN r : r[i] \in K => /\ lo <= r[i].data /\ r[i].data < hi
                                        /\ r[i].last <=> r[i].data = N
  BY <1>1 DEF Lane
<1>4. \A i, j \in DOMAIN r : r[i] \in K /\ r[j] \in K /\ i < j => r[i].data < r[j].data
  <2> SUFFICES ASSUME NEW i \in DOMAIN r, NEW j \in DOMAIN r, r[i] \in K, r[j] \in K, i < j
               PROVE  r[i].data < r[j].data
    OBVIOUS
  <2>1. r[i] = q[i + 1] /\ r[j] = q[j + 1] /\ i + 1 < j + 1
    BY <1>1
  <2>2. QED
    BY <1>1, <2>1 DEF Lane
<1>3. \A x \in Nat : lo <= x /\ x < hi => \E i \in DOMAIN r : r[i] \in K /\ r[i].data = x
  <2> SUFFICES ASSUME NEW x \in Nat, lo <= x, x < hi
               PROVE  \E i \in DOMAIN r : r[i] \in K /\ r[i].data = x
    OBVIOUS
  <2>1. PICK i \in DOMAIN q : q[i] \in K /\ q[i].data = x
    BY DEF Lane
  <2>2. i > 1
    BY <1>1, <2>1
  <2>3. QED
    BY <1>1, <2>1, <2>2
<1>5. Lane(r, K, lo, hi, N)
  BY <1>2, <1>3, <1>4 DEF Lane
<1>6. QED
  BY <1>5 DEF r

LEMMA LaneNext ==
  ASSUME NEW S, NEW q \in Seq(S), NEW K, NEW lo \in Nat, NEW hi \in Nat,
         NEW N \in Nat, Lane(q, K, lo, hi, N), q # <<>>, q[1] \in K, \A b \in K : b.data \in Nat
  PROVE  /\ q[1].data = lo /\ lo < hi /\ (q[1].last <=> lo = N)
         /\ Lane(Tail(q), K, lo + 1, hi, N)
<1> DEFINE r == Tail(q)
<1>1. /\ DOMAIN q = 1..Len(q) /\ Len(q) \in Nat /\ Len(q) > 0 /\ 1 \in DOMAIN q
      /\ DOMAIN r = 1..Len(q) - 1
      /\ \A i \in DOMAIN r : r[i] = q[i + 1] /\ i + 1 \in DOMAIN q
      /\ \A i \in DOMAIN q : i > 1 => i - 1 \in DOMAIN r /\ r[i - 1] = q[i]
  OBVIOUS
<1> HIDE DEF r
<1>2. lo <= q[1].data /\ q[1].data < hi /\ q[1].data \in Nat
  BY <1>1 DEF Lane
<1>3. q[1].data = lo
  <2>1. PICK i \in DOMAIN q : q[i] \in K /\ q[i].data = lo
    BY <1>2 DEF Lane
  <2>2. CASE i > 1
    BY <1>1, <1>2, <2>1, <2>2, SMTT(40) DEF Lane
  <2>3. CASE i = 1
    BY <2>1, <2>3
  <2>4. QED
    BY <1>1, <2>2, <2>3
<1>4. \A i \in DOMAIN r : r[i] \in K => /\ lo + 1 <= r[i].data /\ r[i].data < hi
                                        /\ r[i].last <=> r[i].data = N
  <2> SUFFICES ASSUME NEW i \in DOMAIN r, r[i] \in K
               PROVE  lo + 1 <= r[i].data /\ r[i].data < hi /\ (r[i].last <=> r[i].data = N)
    OBVIOUS
  <2>1. r[i] = q[i + 1] /\ i + 1 \in DOMAIN q /\ 1 < i + 1 /\ r[i].data \in Nat
    BY <1>1
  <2>2. q[1].data < q[i + 1].data
    BY <1>1, <2>1 DEF Lane
  <2>3. q[i + 1].data < hi /\ (q[i + 1].last <=> q[i + 1].data = N)
    BY <2>1 DEF Lane
  <2>4. QED
    BY <1>3, <2>1, <2>2, <2>3
<1>5. \A i, j \in DOMAIN r : r[i] \in K /\ r[j] \in K /\ i < j => r[i].data < r[j].data
  <2> SUFFICES ASSUME NEW i \in DOMAIN r, NEW j \in DOMAIN r, r[i] \in K, r[j] \in K, i < j
               PROVE  r[i].data < r[j].data
    OBVIOUS
  <2>1. r[i] = q[i + 1] /\ r[j] = q[j + 1] /\ i + 1 < j + 1
    BY <1>1
  <2>2. QED
    BY <1>1, <2>1 DEF Lane
<1>6. \A x \in Nat : lo + 1 <= x /\ x < hi => \E i \in DOMAIN r : r[i] \in K /\ r[i].data = x
  <2> SUFFICES ASSUME NEW x \in Nat, lo + 1 <= x, x < hi
               PROVE  \E i \in DOMAIN r : r[i] \in K /\ r[i].data = x
    OBVIOUS
  <2>1. PICK i \in DOMAIN q : q[i] \in K /\ q[i].data = x
    BY DEF Lane
  <2>2. i > 1
    BY <1>1, <1>3, <2>1
  <2>3. QED
    BY <1>1, <2>1, <2>2
<1>7. q[1].last <=> lo = N
  BY <1>1, <1>3 DEF Lane
<1>8. QED
  BY <1>2, <1>3, <1>4, <1>5, <1>6, <1>7, SMTT(40) DEF r, Lane

(***************************************************************************)
(* The same for a chain: its last beat goes out at the far end, the beat   *)
(* that waits joins it, and what waits may change as long as it stays      *)
(* inside the frame or between frames.                                     *)
(***************************************************************************)
LEMMA ChainTail ==
  ASSUME NEW S, NEW q \in Seq(S), q # <<>>, NEW x, NEW y, NEW z, Chain(x, q, y),
         z.last <=> q[1].last, ~q[1].last => z.pf = q[1].pf
  PROVE  Chain(z, Tail(q), y) /\ Joined(x, q[1])
<1> DEFINE r == Tail(q)
<1>1. /\ Len(q) \in Nat /\ Len(q) > 0 /\ r \in Seq(S)
      /\ Len(r) = Len(q) - 1
      /\ \A i \in 1..Len(r) : r[i] = q[i + 1]
  OBVIOUS
<1> HIDE DEF r
<1>0. r = <<>> <=> Len(q) = 1
  BY <1>1
<1>2. Joined(x, q[1]) /\ Joined(q[Len(q)], y) /\ \A i \in 1..Len(q) - 1 : Joined(q[i], q[i + 1])
  BY DEF Chain
<1>3. \A b : Joined(q[1], b) => Joined(z, b)
  BY DEF Joined
<1>4. CASE Len(q) = 1
  <2>1. Chain(z, r, y)
    BY <1>0, <1>2, <1>3, <1>4 DEF Chain
  <2>2. QED
    BY <1>2, <2>1 DEF r
<1>5. CASE Len(q) # 1
  <2>1. Joined(z, r[1])
    BY <1>1, <1>2, <1>3, <1>5
  <2>2. Joined(r[Len(r)], y)
    BY <1>1, <1>2, <1>5
  <2>3. \A i \in 1..Len(r) - 1 : Joined(r[i], r[i + 1])
    <3> SUFFICES ASSUME NEW i \in 1..Len(r) - 1 PROVE Joined(r[i], r[i + 1])
      OBVIOUS
    <3>1. i + 1 \in 1..Len(q) - 1 /\ r[i] = q[i + 1] /\ r[i + 1] = q[i + 1 + 1]
      BY <1>1, SMTT(40)
    <3>2. QED
      BY <1>2, <3>1
  <2>4. Chain(z, r, y)
    BY <1>0, <1>5, <2>1, <2>2, <2>3 DEF Chain
  <2>5. QED
    BY <1>2, <2>4 DEF r
<1>6. QED
  BY <1>4, <1>5

LEMMA ChainAppend ==
  ASSUME NEW S, NEW q \in Seq(S), NEW e \in S, NEW x, NEW y, NEW z, Chain(x, q, y),
         e.head <=> y.head, ~e.head => e.pf = y.pf, Joined(e, z)
  PROVE  Chain(x, Append(q, e), z)
<1> DEFINE r == Append(q, e)
<1>1. /\ Len(q) \in Nat /\ r \in Seq(S) /\ r # <<>>
      /\ Len(r) = Len(q) + 1 /\ r[Len(r)] = e /\ (q = <<>> <=> Len(q) = 0)
      /\ \A i \in 1..Len(q) : r[i] = q[i]
  OBVIOUS
<1> HIDE DEF r
<1>2. \A b : Joined(b, y) => Joined(b, e)
  BY DEF Joined
<1>3. CASE q = <<>>
  <2>1. Joined(x, r[1])
    BY <1>1, <1>2, <1>3 DEF Chain
  <2>2. Chain(x, r, z)
    BY <1>1, <1>3, <2>1 DEF Chain
  <2>3. QED
    BY <2>2 DEF r
<1>4. CASE q # <<>>
  <2>1. Joined(x, q[1]) /\ Joined(q[Len(q)], y) /\ \A i \in 1..Len(q) - 1 : Joined(q[i], q[i + 1])
    BY <1>4 DEF Chain
  <2>2. Joined(x, r[1])
    BY <1>1, <1>4, <2>1
  <2>3. \A i \in 1..Len(r) - 1 : Joined(r[i], r[i + 1])
    <3> SUFFICES ASSUME NEW i \in 1..Len(r) - 1 PROVE Joined(r[i], r[i + 1])
      OBVIOUS
    <3>1. CASE i = Len(q)
      BY <1>1, <1>2, <2>1, <3>1
    <3>2. CASE i # Len(q)
      BY <1>1, <2>1, <3>2
    <3>3. QED
      BY <3>1, <3>2
  <2>4. Chain(x, r, z)
    BY <1>1, <2>2, <2>3 DEF Chain
  <2>5. QED
    BY <2>4 DEF r
<1>5. QED
  BY <1>3, <1>4

LEMMA ChainEnds ==
  ASSUME NEW S, NEW q \in Seq(S), NEW x, NEW y, NEW u, NEW z, Chain(x, q, y),
         u.last <=> x.last, ~x.last => u.pf = x.pf,
         z.head <=> y.head, ~y.head => z.pf = y.pf
  PROVE  Chain(u, q, z)
<1>1. \A b : Joined(x, b) => Joined(u, b)
  BY DEF Joined
<1>2. \A b : Joined(b, y) => Joined(b, z)
  BY DEF Joined
<1>3. Joined(x, y) => Joined(u, z)
  BY DEF Joined
<1>4. QED
  BY <1>1, <1>2, <1>3 DEF Chain
-----------------------------------------------------------------------------
(***************************************************************************)
(* The arbiter, whatever happens behind the packet engine: it stays with   *)
(* its master inside a frame, so ptx holds whole frames or parts of one.   *)
(***************************************************************************)
LEMMA ArbiterFacts ==
  ASSUME NodeTypeOK, NEW s \in Nodes
  PROVE  /\ grant[s] = "tester" \/ grant[s] = "probe"
         /\ Other("tester") = "probe" /\ Other("probe") = "tester"
         /\ Requests(s, "tester") <=> tfg[s] = "RUN"
         /\ Requests(s, "probe") <=> probe[s] = "PROBE_RESPONSE"
<1>1. Other("tester") = "probe" /\ Other("probe") = "tester"
  BY DEF Other, Masters
<1>2. grant[s] = "tester" \/ grant[s] = "probe"
  BY DEF NodeTypeOK, Masters
<1>3. QED
  BY <1>1, <1>2 DEF Requests

\* Only the node that acts can change what its arbiter keeps.
LEMMA ArbitrationElsewhere ==
  ASSUME Arbitration, NEW m \in Nodes,
         \A s \in Nodes : s # m =>
            /\ ptx'[s] = ptx[s] /\ tx'[s] = tx[s] /\ grant'[s] = grant[s]
            /\ tfg'[s] = tfg[s] /\ probe'[s] = probe[s],
         ArbitrationAt(m)'
  PROVE  Arbitration'
<1> SUFFICES ASSUME NEW s \in Nodes, s # m PROVE ArbitrationAt(s)'
  BY DEF Arbitration
<1>1. QED
  BY DEF Arbitration, ArbitrationAt, Midframe, Requests

\* A master hands a beat of its kind to the engine and keeps requesting
\* unless that was its last.
LEMMA ArbitrationGiven ==
  ASSUME NodeTypeOK, NodeTypeOK', NEW m \in Nodes, ArbitrationAt(m), NEW e \in UserBeat,
         ptx' = [ptx EXCEPT ![m] = Append(@, e)], tx' = tx,
         e.pf = (grant[m] = "tester"), ~e.last => grant'[m] = grant[m],
         ~e.last => Requests(m, grant[m])'
  PROVE  ArbitrationAt(m)'
<1> DEFINE q == ptx[m]
<1>1. q \in Seq(UserBeat) /\ m \in DOMAIN ptx
  BY DEF NodeTypeOK
<1>2. ptx'[m] = Append(q, e)
  BY <1>1
<1>3. /\ Len(q) \in Nat /\ Len(ptx'[m]) = Len(q) + 1 /\ ptx'[m] # <<>>
      /\ ptx'[m][Len(q) + 1] = e /\ \A i \in 1..Len(q) : ptx'[m][i] = q[i]
      /\ q = <<>> <=> Len(q) = 0
  BY <1>1, <1>2
<1>4. \A i \in 1..Len(q) - 1 : ~q[i].last => q[i + 1].pf = q[i].pf
  BY DEF ArbitrationAt
<1>5. q # <<>> /\ ~q[Len(q)].last => q[Len(q)].pf = (grant[m] = "tester")
  BY DEF ArbitrationAt
<1> HIDE DEF q
<1>6. \A i \in 1..Len(ptx'[m]) - 1 : ~ptx'[m][i].last => ptx'[m][i + 1].pf = ptx'[m][i].pf
  <2> SUFFICES ASSUME NEW i \in 1..Len(q), ~q[i].last PROVE ptx'[m][i + 1].pf = q[i].pf
    BY <1>3
  <2>1. CASE i = Len(q)
    BY <1>3, <1>5, <2>1
  <2>2. CASE i # Len(q)
    BY <1>3, <1>4, <2>2
  <2>3. QED
    BY <2>1, <2>2
<1>7. QED
  BY <1>3, <1>6 DEF ArbitrationAt, Midframe

LEMMA ArbitrationStep ==
  ASSUME NodeTypeOK, NodeTypeOK', Arbitration, NEW m \in Nodes,
         NodeStep(m) \/ \E l \in Lengths : Command(m, l)
  PROVE  Arbitration'
<1> USE DEF Arbitration
<1>1. ArbitrationAt(m)
  OBVIOUS
<1>2. ASSUME NEW l \in Lengths, Command(m, l) PROVE Arbitration'
  <2>1. tfg' \in [Nodes -> {"IDLE", "RUN"}] /\ tfg' = [tfg EXCEPT ![m] = "RUN"]
    BY <1>2 DEF Command, NodeTypeOK
  <2>2. ArbitrationAt(m)'
    BY <1>1, <1>2, <2>1, ArbiterFacts DEF ArbitrationAt, Midframe, Requests, Command, txVars
  <2>3. QED
    BY <1>2, <2>2, ArbitrationElsewhere DEF Command, txVars, NodeTypeOK
<1>3. CASE GeneratorBeat(m)
  <2> DEFINE e == [data |-> beats[m], last |-> beats[m] = len[m], pf |-> TRUE]
  <2>1. e \in UserBeat /\ ptx' = [ptx EXCEPT ![m] = Append(@, e)] /\ tx' = tx
    BY <1>3, ConstantFacts DEF GeneratorBeat, NodeTypeOK, UserBeat, txVars
  <2>2. grant[m] = "tester"
    BY <1>3 DEF GeneratorBeat
  <2>3. ~e.last => grant'[m] = grant[m] /\ Requests(m, grant[m])'
    BY <1>3, <2>2, ZenonT(60) DEF GeneratorBeat, GrantAfter, NodeTypeOK, Requests
  <2>4. e.pf = (grant[m] = "tester")
    BY <2>2
  <2> HIDE DEF e
  <2>5. ArbitrationAt(m)'
    BY <1>1, <2>1, <2>2, <2>3, <2>4, ArbitrationGiven
  <2>6. \A s \in Nodes : s # m => tfg'[s] = tfg[s]
    BY <1>3 DEF GeneratorBeat, NodeTypeOK
  <2>7. QED
    BY <1>3, <2>5, <2>6, ArbitrationElsewhere DEF GeneratorBeat, NodeTypeOK, txVars
<1>4. CASE ProbeBeat(m)
  <2>0. Head(prx[m]) \in UserBeat
    BY <1>4 DEF ProbeBeat, NodeTypeOK
  <2> DEFINE e == [Head(prx[m]) EXCEPT !.pf = FALSE]
  <2>1. /\ e \in UserBeat /\ ptx' = [ptx EXCEPT ![m] = Append(@, e)] /\ tx' = tx
        /\ e.pf = FALSE /\ e.last = Head(prx[m]).last
    BY <1>4, <2>0 DEF ProbeBeat, UserBeat, txVars
  <2>2. grant[m] = "probe"
    BY <1>4 DEF ProbeBeat
  <2>3. ~e.last => grant'[m] = grant[m] /\ Requests(m, grant[m])'
    BY <1>4, <2>1, <2>2 DEF ProbeBeat, GrantAfter, NodeTypeOK, Requests
  <2> HIDE DEF e
  <2>5. ArbitrationAt(m)'
    BY <1>1, <2>1, <2>2, <2>3, ArbitrationGiven
  <2>6. QED
    BY <1>4, <2>5, ArbitrationElsewhere DEF ProbeBeat, NodeTypeOK, genVars, txVars
<1>5. CASE ProbeStart(m)
  <2>1. ArbitrationAt(m)'
    BY <1>1, <1>5, ArbiterFacts DEF ArbitrationAt, Midframe, Requests, ProbeStart, txVars, genVars, NodeTypeOK
  <2>2. QED
    BY <1>5, <2>1, ArbitrationElsewhere DEF ProbeStart, txVars, genVars, NodeTypeOK
<1>6. CASE Regrant(m)
  <2>1. ~Midframe(m) /\ ~Requests(m, grant[m])
    BY <1>1, <1>6 DEF ArbitrationAt, Regrant
  <2>2. ArbitrationAt(m)'
    BY <1>1, <1>6, <2>1 DEF ArbitrationAt, Midframe, Regrant, txVars
  <2>3. QED
    BY <1>6, <2>2, ArbitrationElsewhere DEF Regrant, txVars, genVars, NodeTypeOK
<1>7. CASE TxStart(m)
  <2>1. ArbitrationAt(m)'
    BY <1>1, <1>7 DEF ArbitrationAt, Midframe, Requests, TxStart, genVars, NodeTypeOK
  <2>2. QED
    BY <1>7, <2>1, ArbitrationElsewhere DEF TxStart, genVars, NodeTypeOK
<1>8. CASE TxHeader(m)
  <2>1. ArbitrationAt(m)'
    BY <1>1, <1>8 DEF ArbitrationAt, Midframe, Requests, TxHeader, genVars, NodeTypeOK
  <2>2. QED
    BY <1>8, <2>1, ArbitrationElsewhere DEF TxHeader, genVars, NodeTypeOK
<1>9. CASE TxData(m)
  <2> DEFINE q == ptx[m]
  <2>1. /\ q \in Seq(UserBeat) /\ q # <<>> /\ ptx'[m] = Tail(q) /\ tx[m] = "SEND_DATA"
        /\ tx'[m] = IF q[1].last THEN "IDLE" ELSE "SEND_DATA"
    BY <1>9 DEF TxData, NodeTypeOK
  <2> HIDE DEF q
  <2>2. /\ Len(q) \in Nat /\ Len(q) > 0 /\ Tail(q) \in Seq(UserBeat)
        /\ Len(Tail(q)) = Len(q) - 1
        /\ \A i \in 1..Len(q) - 1 : Tail(q)[i] = q[i + 1]
    BY <2>1
  <2>3. Tail(q) = <<>> <=> Len(q) = 1
    BY <2>2
  <2>4. /\ \A i \in 1..Len(q) - 1 : ~q[i].last => q[i + 1].pf = q[i].pf
        /\ ~q[Len(q)].last => q[Len(q)].pf = (grant[m] = "tester") /\ Requests(m, grant[m])
    BY <1>1, <2>1 DEF ArbitrationAt, Midframe, q
  <2>5. Requests(m, grant[m])' <=> Requests(m, grant[m])
    BY <1>9 DEF Requests, TxData, genVars
  <2>6. grant' = grant
    BY <1>9 DEF TxData
  <2>7. ArbitrationAt(m)'
    <3>1. CASE Len(q) = 1
      BY <2>1, <2>2, <2>3, <2>4, <2>5, <2>6, <3>1 DEF ArbitrationAt, Midframe
    <3>2. CASE Len(q) # 1
      <4>1. Tail(q)[Len(Tail(q))] = q[Len(q)] /\ Tail(q) # <<>>
        BY <2>2, <2>3, <3>2
      <4>2. \A i \in 1..Len(Tail(q)) - 1 : ~Tail(q)[i].last => Tail(q)[i + 1].pf = Tail(q)[i].pf
        BY <2>2, <2>4
      <4>3. tx'[m] # "SEND_HEADER"
        BY <2>1
      <4>4. QED
        BY <2>1, <2>4, <2>5, <2>6, <4>1, <4>2, <4>3 DEF ArbitrationAt, Midframe
    <3>3. QED
      BY <3>1, <3>2
  <2>8. QED
    BY <1>9, <2>7, ArbitrationElsewhere DEF TxData, genVars, NodeTypeOK
<1>10. CASE CheckerBeat(m) \/ StatusPulse(m) \/ RxHeader(m) \/ RxJudge(m) \/ RxBeat(m)
  <2>1. UNCHANGED <<ptx, tx, grant, tfg, probe>>
    BY <1>10 DEF CheckerBeat, StatusPulse, RxHeader, RxJudge, RxBeat, genVars, txVars
  <2>2. QED
    BY <2>1 DEF ArbitrationAt, Midframe, Requests
<1>11. QED
  BY <1>2, <1>3, <1>4, <1>5, <1>6, <1>7, <1>8, <1>9, <1>10 DEF NodeStep
-----------------------------------------------------------------------------
(***************************************************************************)
(* The stream stays a chain and the receiver in step with it.              *)
(***************************************************************************)
LEMMA PeerFacts ==
  /\ \A n \in Nodes : Peer[n] \in Nodes /\ Peer[Peer[n]] = n
  /\ \A n, o \in Nodes : n # o => Peer[n] # Peer[o]
  /\ Commanders \subseteq Nodes
<1>1. \A n \in Nodes : Peer[n] \in Nodes /\ Peer[Peer[n]] = n
  BY NodeAssumption
<1>2. \A n, o \in Nodes : n # o => Peer[n] # Peer[o]
  BY <1>1
<1>3. QED
  BY <1>1, <1>2, NodeAssumption

\* Nothing enters or leaves the stream.
LEMMA FramingKept ==
  ASSUME NEW w \in [Nodes -> Seq(StreamBeat)], Framing(w),
         \A n \in Nodes : /\ rx'[n] = "IDLE" <=> rx[n] = "IDLE"
                          /\ rx'[n] = "DROP" => ~hdr[n].magic
                          /\ hdr'[n] = hdr[n],
         \A n \in Nodes : /\ tx'[n] = "SEND_DATA" <=> tx[n] = "SEND_DATA"
                          /\ tx[n] = "SEND_DATA" => Waiting(n).pf' = Waiting(n).pf
  PROVE  Framing(w)'
<1> SUFFICES ASSUME NEW s \in Nodes PROVE FramingAt(w, s)'
  BY DEF Framing
<1> DEFINE p == Peer[s]
<1>1. p \in Nodes
  BY PeerFacts
<1>2. FramingAt(w, s)
  BY DEF Framing
<1>3. /\ Received(p).last' <=> Received(p).last
      /\ Received(p).pf' = Received(p).pf
  BY <1>1 DEF Received
<1>4. /\ Waiting(s).head' <=> Waiting(s).head
      /\ ~Waiting(s).head => Waiting(s).pf' = Waiting(s).pf
  BY DEF Waiting
<1>5. w[s] \in Seq(StreamBeat) /\ Chain(Received(p), w[s], Waiting(s))
  BY <1>2 DEF FramingAt
<1>6. Chain(Received(p)', w[s], Waiting(s)')
  BY <1>3, <1>4, <1>5, ChainEnds
<1>7. QED
  BY <1>1, <1>2, <1>6 DEF FramingAt

\* A beat enters the stream of m.
LEMMA FramingAppend ==
  ASSUME NEW w \in [Nodes -> Seq(StreamBeat)], Framing(w), NEW m \in Nodes,
         NEW e \in StreamBeat, UNCHANGED <<rx, hdr>>,
         \A n \in Nodes : n # m => tx'[n] = tx[n] /\ ptx'[n] = ptx[n] /\ grant'[n] = grant[n],
         e.head <=> Waiting(m).head, ~e.head => e.pf = Waiting(m).pf,
         e.head => ~e.last, Joined(e, Waiting(m)')
  PROVE  Framing([w EXCEPT ![m] = Append(@, e)])'
<1> DEFINE v == [w EXCEPT ![m] = Append(@, e)]
<1> SUFFICES ASSUME NEW s \in Nodes PROVE FramingAt(v, s)'
  BY DEF Framing
<1>1. FramingAt(w, s)
  BY DEF Framing
<1>2. Received(Peer[s])' = Received(Peer[s])
  BY DEF Received
<1>3. CASE s = m
  <2>1. w[m] \in Seq(StreamBeat) /\ Chain(Received(Peer[m]), w[m], Waiting(m))
    BY <1>1, <1>3 DEF FramingAt
  <2>2. Chain(Received(Peer[m]), Append(w[m], e), Waiting(m)')
    BY <2>1, ChainAppend
  <2>3. v[s] = Append(w[m], e)
    BY <1>3
  <2>4. \A i \in DOMAIN Append(w[m], e) : Append(w[m], e)[i].head => ~Append(w[m], e)[i].last
    <3>1. /\ DOMAIN Append(w[m], e) = 1..Len(w[m]) + 1 /\ DOMAIN w[m] = 1..Len(w[m])
          /\ \A i \in 1..Len(w[m]) : Append(w[m], e)[i] = w[m][i]
          /\ Append(w[m], e)[Len(w[m]) + 1] = e /\ Len(w[m]) \in Nat
      BY <2>1
    <3>2. \A i \in DOMAIN w[m] : w[m][i].head => ~w[m][i].last
      BY <1>1, <1>3 DEF FramingAt
    <3> DEFINE q == Append(w[m], e)
    <3> HIDE DEF q
    <3>3. \A i \in DOMAIN q : q[i].head => ~q[i].last
      BY <3>1, <3>2 DEF q
    <3>4. QED
      BY <3>3 DEF q
  <2> HIDE DEF v
  <2>5. QED
    BY <1>1, <1>2, <1>3, <2>2, <2>3, <2>4 DEF FramingAt
<1>4. CASE s # m
  <2>1. v[s] = w[s] /\ Waiting(s)' = Waiting(s)
    BY <1>4 DEF Waiting
  <2> HIDE DEF v
  <2>2. QED
    BY <1>1, <1>2, <2>1 DEF FramingAt
<1>5. QED
  BY <1>3, <1>4

\* The receiver m takes the oldest beat of the stream that comes to it.
LEMMA FramingTail ==
  ASSUME NEW w \in [Nodes -> Seq(StreamBeat)], Framing(w), NEW m \in Nodes,
         UNCHANGED <<tx, ptx, grant>>, w[Peer[m]] # <<>>,
         \A n \in Nodes : n # m => rx'[n] = rx[n] /\ hdr'[n] = hdr[n],
         Received(m).last' <=> w[Peer[m]][1].last,
         ~w[Peer[m]][1].last => Received(m).pf' = w[Peer[m]][1].pf,
         rx'[m] # "DROP", rx'[m] # "IDLE" => hdr'[m].magic
  PROVE  Framing([w EXCEPT ![Peer[m]] = Tail(@)])'
<1> DEFINE o == Peer[m]
           v == [w EXCEPT ![o] = Tail(@)]
<1> SUFFICES ASSUME NEW s \in Nodes PROVE FramingAt(v, s)'
  BY DEF Framing
<1>0. o \in Nodes /\ Peer[o] = m
  BY PeerFacts
<1>1. FramingAt(w, s)
  BY DEF Framing
<1>2. Waiting(s)' = Waiting(s)
  BY DEF Waiting
<1>3. CASE s = o
  <2>1. w[o] \in Seq(StreamBeat) /\ Chain(Received(m), w[o], Waiting(s))
    BY <1>0, <1>1, <1>3 DEF FramingAt
  <2>2. Chain(Received(m)', Tail(w[o]), Waiting(s))
    BY <2>1, ChainTail
  <2>3. v[s] = Tail(w[o])
    BY <1>0, <1>3
  <2>4. \A i \in DOMAIN Tail(w[o]) : Tail(w[o])[i].head => ~Tail(w[o])[i].last
    <3>1. /\ \A i \in DOMAIN Tail(w[o]) : i + 1 \in DOMAIN w[o] /\ Tail(w[o])[i] = w[o][i + 1]
      BY <2>1
    <3>2. \A i \in DOMAIN w[o] : w[o][i].head => ~w[o][i].last
      BY <1>1, <1>3 DEF FramingAt
    <3>3. QED
      BY <3>1, <3>2
  <2>5. Peer[s] = m
    BY <1>0, <1>3
  <2> HIDE DEF v
  <2>6. QED
    BY <1>2, <2>2, <2>3, <2>4, <2>5 DEF FramingAt
<1>4. CASE s # o
  <2>1. v[s] = w[s] /\ Peer[s] # m /\ Peer[s] \in Nodes
    BY <1>4, PeerFacts
  <2>2. Received(Peer[s])' = Received(Peer[s])
    BY <2>1 DEF Received
  <2> HIDE DEF v
  <2>3. QED
    BY <1>1, <1>2, <2>1, <2>2 DEF FramingAt
<1>5. QED
  BY <1>3, <1>4
-----------------------------------------------------------------------------
(***************************************************************************)
(* The counters of a frame never overtake one another.                     *)
(***************************************************************************)
LEMMA CounterTypes ==
  ASSUME NodeTypeOK, NEW n \in Nodes
  PROVE  /\ len[n] \in Nat /\ beats[n] \in Nat /\ chkBeats[n] \in Nat
         /\ len[n] < CountMod /\ CountMod \in Nat
         /\ Sent(n) \in Nat /\ Seen(n) \in Nat
<1>1. CountMod \in Nat
  BY NodeAssumption
<1>2. len[n] \in 0..CountMod - 1 /\ beats[n] \in 0..CountMod - 1 /\ chkBeats[n] \in 0..CountMod - 1
  BY DEF NodeTypeOK, Count
<1>3. Sent(n) \in Nat
  BY <1>1, <1>2 DEF Sent
<1>4. QED
  BY <1>1, <1>2, <1>3 DEF Seen

LEMMA KindData ==
  ASSUME NEW k \in BOOLEAN
  PROVE  /\ \A b \in UserKind(k) : b.data \in Nat
         /\ \A b \in StreamKind(k) : b.data \in Nat
<1>1. Word \subseteq Nat
  BY NodeAssumption DEF Word, Count, HeaderWord
<1>2. QED
  BY <1>1 DEF UserKind, StreamKind, UserBeat, StreamBeat

LEMMA LaneBounds ==
  ASSUME NEW w, NEW t, NEW r, NEW c, Lanes(w, t, r, c), NEW n \in Nodes
  PROVE  LET p == Peer[n] IN
         /\ Seen(n) <= r[p][FALSE] /\ r[p][FALSE] <= t[p][FALSE] /\ t[p][FALSE] <= c[p]
         /\ c[p] <= r[n][TRUE] /\ r[n][TRUE] <= t[n][TRUE] /\ t[n][TRUE] <= Sent(n)
<1> DEFINE p == Peer[n]
<1>1. p \in Nodes /\ Peer[p] = n
  BY PeerFacts
<1>2. LanesAt(w, t, r, c, n, TRUE) /\ LanesAt(w, t, r, c, p, FALSE)
  BY <1>1 DEF Lanes
<1> HIDE DEF p
<1>3. c[p] <= r[n][TRUE] /\ r[n][TRUE] <= t[n][TRUE] /\ t[n][TRUE] <= Sent(n)
  BY <1>2 DEF LanesAt, Lane, Entered, Taken, p
<1>4. Seen(n) <= r[p][FALSE] /\ r[p][FALSE] <= t[p][FALSE] /\ t[p][FALSE] <= c[p]
  BY <1>1, <1>2 DEF LanesAt, Lane, Entered, Taken
<1>5. QED
  BY <1>3, <1>4 DEF p

LEMMA LaneTypes ==
  ASSUME NodeTypeOK, NEW c \in [Nodes -> Nat], NEW s \in Nodes, NEW k \in BOOLEAN
  PROVE  /\ Peer[s] \in Nodes /\ Owner(s, k) \in Nodes
         /\ len[Owner(s, k)] \in Nat
         /\ Entered(c, s, k) \in Nat /\ Taken(c, s, k) \in Nat
<1>1. Peer[s] \in Nodes /\ Owner(s, k) \in Nodes
  BY PeerFacts DEF Owner
<1>2. len[Owner(s, k)] \in Nat /\ Sent(s) \in Nat /\ Seen(Peer[s]) \in Nat
  BY <1>1, CounterTypes
<1>3. c[s] \in Nat /\ c[Peer[s]] \in Nat
  BY <1>1
<1>4. QED
  BY <1>1, <1>2, <1>3 DEF Entered, Taken

(***************************************************************************)
(* Each step moves at most one beat of one frame, and with it one counter. *)
(***************************************************************************)
\* A step that moves at most a header, at either end of the stream.
LEMMA LanesKept ==
  ASSUME NEW w, NEW v, NEW t, NEW r, NEW c, Lanes(w, t, r, c),
         UNCHANGED <<ptx, prx, len>>,
         \A n \in Nodes : Sent(n)' = Sent(n) /\ Seen(n)' = Seen(n),
         \A n \in Nodes : rx[n] = "RECEIVE" => rx'[n] = "RECEIVE" /\ hdr'[n] = hdr[n],
         \A s \in Nodes, k \in BOOLEAN :
            Lane(w[s], StreamKind(k), r[s][k], t[s][k], len[Owner(s, k)])
              => Lane(v[s], StreamKind(k), r[s][k], t[s][k], len[Owner(s, k)])
  PROVE  Lanes(v, t, r, c)'
<1> SUFFICES ASSUME NEW s \in Nodes, NEW k \in BOOLEAN PROVE LanesAt(v, t, r, c, s, k)'
  BY DEF Lanes
<1>1. LanesAt(w, t, r, c, s, k)
  BY DEF Lanes
<1>2. Peer[s] \in Nodes
  BY PeerFacts
<1>3. Entered(c, s, k)' = Entered(c, s, k)
  BY DEF Entered
<1>4. Taken(c, s, k)' = Taken(c, s, k)
  BY <1>2 DEF Taken
<1>5. 0 < r[s][k] /\ r[s][k] <= len[Owner(s, k)]
        => rx'[Peer[s]] = "RECEIVE" /\ hdr'[Peer[s]].pf = k
  BY <1>1, <1>2 DEF LanesAt
<1>6. Lane(v[s], StreamKind(k), r[s][k], t[s][k], len[Owner(s, k)])
  BY <1>1 DEF LanesAt
<1>7. QED
  BY <1>1, <1>3, <1>4, <1>5, <1>6 DEF LanesAt

\* TxData: a beat moves from ptx to the stream.
LEMMA LanesSend ==
  ASSUME NodeTypeOK, NEW w \in [Nodes -> Seq(StreamBeat)], NEW c \in [Nodes -> Nat],
         NEW t \in [Nodes -> [BOOLEAN -> Nat]], NEW r \in [Nodes -> [BOOLEAN -> Nat]],
         Lanes(w, t, r, c), NEW m \in Nodes, ptx[m] # <<>>, NEW k \in BOOLEAN, NEW e \in StreamBeat,
         ptx' = [ptx EXCEPT ![m] = Tail(@)], UNCHANGED <<prx, rx, hdr, len>>,
         \A n \in Nodes : Sent(n)' = Sent(n) /\ Seen(n)' = Seen(n),
         ptx[m][1].pf = k, ~e.head, e.pf = k, e.data = ptx[m][1].data, e.last = ptx[m][1].last
  PROVE  Lanes([w EXCEPT ![m] = Append(@, e)], [t EXCEPT ![m][k] = @ + 1], r, c)'
<1> DEFINE v == [w EXCEPT ![m] = Append(@, e)]
           u == [t EXCEPT ![m][k] = @ + 1]
<1> SUFFICES ASSUME NEW s \in Nodes, NEW j \in BOOLEAN PROVE LanesAt(v, u, r, c, s, j)'
  BY DEF Lanes
<1> DEFINE N == len[Owner(s, j)]
<1>1. Lane(ptx[s], UserKind(j), t[s][j], Entered(c, s, j), N)
  BY DEF Lanes, LanesAt
<1>2. Lane(w[s], StreamKind(j), r[s][j], t[s][j], N)
  BY DEF Lanes, LanesAt
<1>3. Lane(prx[Peer[s]], UserKind(j), Taken(c, s, j), r[s][j], N)
  BY DEF Lanes, LanesAt
<1>4. 0 < r[s][j] /\ r[s][j] <= N => rx'[Peer[s]] = "RECEIVE" /\ hdr'[Peer[s]].pf = j
  BY DEF Lanes, LanesAt
<1>5. Peer[s] \in Nodes /\ Owner(s, j) \in Nodes
  BY LaneTypes
<1>6. Entered(c, s, j)' = Entered(c, s, j) /\ Taken(c, s, j)' = Taken(c, s, j)
  BY <1>5 DEF Entered, Taken
<1>7. /\ N \in Nat /\ t[s][j] \in Nat /\ r[s][j] \in Nat /\ Entered(c, s, j) \in Nat
      /\ ptx[m] \in Seq(UserBeat) /\ w[m] \in Seq(StreamBeat) /\ ptx[m][1] \in UserBeat
  <2>1. N \in Nat /\ t[s][j] \in Nat /\ r[s][j] \in Nat /\ Entered(c, s, j) \in Nat
    BY LaneTypes
  <2>2. ptx[m] \in Seq(UserBeat) /\ w[m] \in Seq(StreamBeat)
    BY DEF NodeTypeOK
  <2>3. ptx[m][1] \in UserBeat
    BY <2>2
  <2>4. QED
    BY <2>1, <2>2, <2>3
<1>8. CASE s = m /\ j = k
  <2>1. /\ v[s] = Append(w[m], e) /\ ptx'[s] = Tail(ptx[m]) /\ u[s][j] = t[s][j] + 1
    BY <1>7, <1>8 DEF NodeTypeOK
  <2>2. ptx[m][1] \in UserKind(j) /\ e \in StreamKind(j)
    BY <1>7, <1>8 DEF UserKind, StreamKind
  <2> HIDE DEF N, v, u
  <2>3. /\ ptx[m][1].data = t[s][j] /\ (ptx[m][1].last <=> t[s][j] = N)
        /\ Lane(Tail(ptx[m]), UserKind(j), t[s][j] + 1, Entered(c, s, j), N)
    BY <1>1, <1>7, <1>8, <2>2, KindData, LaneNext
  <2>4. Lane(Append(w[m], e), StreamKind(j), r[s][j], t[s][j] + 1, N)
    BY <1>2, <1>7, <1>8, <2>2, <2>3, KindData, LaneAdd
  <2>5. QED
    BY <1>3, <1>4, <1>6, <2>1, <2>3, <2>4 DEF LanesAt, N
<1>9. CASE s = m /\ j # k
  <2>1. v[s] = Append(w[m], e) /\ ptx'[s] = Tail(ptx[m]) /\ u[s][j] = t[s][j]
    BY <1>9 DEF NodeTypeOK
  <2>2. ptx[m][1] \notin UserKind(j) /\ e \notin StreamKind(j)
    BY <1>9 DEF UserKind, StreamKind
  <2> HIDE DEF N, v, u
  <2>3. Lane(Tail(ptx[m]), UserKind(j), t[s][j], Entered(c, s, j), N)
    BY <1>1, <1>7, <1>9, <2>2, LaneDrop
  <2>4. Lane(Append(w[m], e), StreamKind(j), r[s][j], t[s][j], N)
    BY <1>2, <1>7, <1>9, <2>2, LaneSkip
  <2>5. QED
    BY <1>3, <1>4, <1>6, <2>1, <2>3, <2>4 DEF LanesAt, N
<1>10. CASE s # m
  <2>1. v[s] = w[s] /\ ptx'[s] = ptx[s] /\ u[s][j] = t[s][j]
    BY <1>10 DEF NodeTypeOK
  <2> HIDE DEF v, u
  <2>2. QED
    BY <1>1, <1>2, <1>3, <1>4, <1>6, <2>1 DEF LanesAt
<1>11. QED
  BY <1>8, <1>9, <1>10

\* RxBeat: a beat moves from the stream to prx.
LEMMA LanesReceive ==
  ASSUME NodeTypeOK, NEW w \in [Nodes -> Seq(StreamBeat)], NEW c \in [Nodes -> Nat],
         NEW t \in [Nodes -> [BOOLEAN -> Nat]], NEW r \in [Nodes -> [BOOLEAN -> Nat]],
         Lanes(w, t, r, c), NEW o \in Nodes, w[o] # <<>>, NEW k \in BOOLEAN, NEW e \in UserBeat,
         prx' = [prx EXCEPT ![Peer[o]] = Append(@, e)], UNCHANGED <<ptx, hdr, len>>,
         \A n \in Nodes : Sent(n)' = Sent(n) /\ Seen(n)' = Seen(n),
         \A n \in Nodes : n # Peer[o] => rx'[n] = rx[n],
         rx[Peer[o]] = "RECEIVE", hdr[Peer[o]].pf = k, ~e.last => rx'[Peer[o]] = "RECEIVE",
         ~w[o][1].head, w[o][1].pf = k, e.pf = k, e.data = w[o][1].data, e.last = w[o][1].last
  PROVE  Lanes([w EXCEPT ![o] = Tail(@)], t, [r EXCEPT ![o][k] = @ + 1], c)'
<1> DEFINE v == [w EXCEPT ![o] = Tail(@)]
           q == [r EXCEPT ![o][k] = @ + 1]
<1> SUFFICES ASSUME NEW s \in Nodes, NEW j \in BOOLEAN PROVE LanesAt(v, t, q, c, s, j)'
  BY DEF Lanes
<1> DEFINE N == len[Owner(s, j)]
<1>1. Lane(ptx[s], UserKind(j), t[s][j], Entered(c, s, j), N)
  BY DEF Lanes, LanesAt
<1>2. Lane(w[s], StreamKind(j), r[s][j], t[s][j], N)
  BY DEF Lanes, LanesAt
<1>3. Lane(prx[Peer[s]], UserKind(j), Taken(c, s, j), r[s][j], N)
  BY DEF Lanes, LanesAt
<1>4. 0 < r[s][j] /\ r[s][j] <= N => rx[Peer[s]] = "RECEIVE" /\ hdr[Peer[s]].pf = j
  BY DEF Lanes, LanesAt
<1>5. Peer[s] \in Nodes /\ Peer[o] \in Nodes /\ (s # o => Peer[s] # Peer[o])
  BY PeerFacts
<1>6. Entered(c, s, j)' = Entered(c, s, j) /\ Taken(c, s, j)' = Taken(c, s, j)
  BY <1>5 DEF Entered, Taken
<1>7. /\ N \in Nat /\ t[s][j] \in Nat /\ r[s][j] \in Nat /\ Taken(c, s, j) \in Nat
      /\ prx[Peer[o]] \in Seq(UserBeat) /\ w[o] \in Seq(StreamBeat) /\ w[o][1] \in StreamBeat
  <2>1. N \in Nat /\ t[s][j] \in Nat /\ r[s][j] \in Nat /\ Taken(c, s, j) \in Nat
    BY LaneTypes
  <2>2. prx[Peer[o]] \in Seq(UserBeat) /\ w[o] \in Seq(StreamBeat)
    BY <1>5 DEF NodeTypeOK
  <2>3. w[o][1] \in StreamBeat
    BY <2>2
  <2>4. QED
    BY <2>1, <2>2, <2>3
<1>8. CASE s = o /\ j = k
  <2>1. v[s] = Tail(w[o]) /\ prx'[Peer[s]] = Append(prx[Peer[o]], e) /\ q[s][j] = r[s][j] + 1
    BY <1>5, <1>7, <1>8 DEF NodeTypeOK
  <2>2. w[o][1] \in StreamKind(j) /\ e \in UserKind(j)
    BY <1>7, <1>8 DEF UserKind, StreamKind
  <2> HIDE DEF N, v, q
  <2>3. /\ w[o][1].data = r[s][j] /\ (w[o][1].last <=> r[s][j] = N)
        /\ Lane(Tail(w[o]), StreamKind(j), r[s][j] + 1, t[s][j], N)
    BY <1>2, <1>7, <1>8, <2>2, KindData, LaneNext
  <2>4. Lane(Append(prx[Peer[o]], e), UserKind(j), Taken(c, s, j), r[s][j] + 1, N)
    BY <1>3, <1>7, <1>8, <2>2, <2>3, KindData, LaneAdd
  <2>5. r[s][j] + 1 <= N => rx'[Peer[s]] = "RECEIVE" /\ hdr'[Peer[s]].pf = j
    BY <1>7, <1>8, <2>3
  <2>6. QED
    BY <1>1, <1>6, <2>1, <2>3, <2>4, <2>5 DEF LanesAt, N
<1>9. CASE s = o /\ j # k
  <2>1. v[s] = Tail(w[o]) /\ prx'[Peer[s]] = Append(prx[Peer[o]], e) /\ q[s][j] = r[s][j]
    BY <1>5, <1>9 DEF NodeTypeOK
  <2>2. w[o][1] \notin StreamKind(j) /\ e \notin UserKind(j)
    BY <1>9 DEF UserKind, StreamKind
  <2> HIDE DEF N, v, q
  <2>3. Lane(Tail(w[o]), StreamKind(j), r[s][j], t[s][j], N)
    BY <1>2, <1>7, <1>9, <2>2, LaneDrop
  <2>4. Lane(Append(prx[Peer[o]], e), UserKind(j), Taken(c, s, j), r[s][j], N)
    BY <1>3, <1>7, <1>9, <2>2, LaneSkip
  <2>5. ~(0 < r[s][j] /\ r[s][j] <= N)
    BY <1>4, <1>9
  <2>6. QED
    BY <1>1, <1>6, <2>1, <2>3, <2>4, <2>5 DEF LanesAt, N
<1>10. CASE s # o
  <2>1. v[s] = w[s] /\ prx'[Peer[s]] = prx[Peer[s]] /\ q[s][j] = r[s][j] /\ rx'[Peer[s]] = rx[Peer[s]]
    BY <1>5, <1>10 DEF NodeTypeOK
  <2> HIDE DEF v, q
  <2>2. QED
    BY <1>1, <1>2, <1>3, <1>4, <1>6, <2>1 DEF LanesAt
<1>11. QED
  BY <1>8, <1>9, <1>10

\* GeneratorBeat: the generator's next beat enters ptx.
LEMMA LanesGenerate ==
  ASSUME NodeTypeOK, NEW w, NEW t \in [Nodes -> [BOOLEAN -> Nat]], NEW r,
         NEW c \in [Nodes -> Nat], Lanes(w, t, r, c), NEW m \in Nodes, NEW e \in UserBeat,
         ptx' = [ptx EXCEPT ![m] = Append(@, e)], UNCHANGED <<prx, rx, hdr, len>>,
         \A n \in Nodes : Seen(n)' = Seen(n),
         \A n \in Nodes : n # m => Sent(n)' = Sent(n),
         Sent(m)' = Sent(m) + 1, e.pf, e.data = Sent(m), e.last <=> Sent(m) = len[m]
  PROVE  Lanes(w, t, r, c)'
<1> SUFFICES ASSUME NEW s \in Nodes, NEW j \in BOOLEAN PROVE LanesAt(w, t, r, c, s, j)'
  BY DEF Lanes
<1> DEFINE N == len[Owner(s, j)]
<1>1. LanesAt(w, t, r, c, s, j)
  BY DEF Lanes
<1>2. Lane(ptx[s], UserKind(j), t[s][j], Entered(c, s, j), N)
  BY <1>1 DEF LanesAt
<1>3. Taken(c, s, j)' = Taken(c, s, j)
  BY LaneTypes DEF Taken
<1>4. /\ N \in Nat /\ t[s][j] \in Nat /\ Entered(c, s, j) \in Nat /\ ptx[s] \in Seq(UserBeat)
  <2>1. N \in Nat /\ t[s][j] \in Nat /\ Entered(c, s, j) \in Nat
    BY LaneTypes
  <2>2. ptx[s] \in Seq(UserBeat)
    BY DEF NodeTypeOK
  <2>3. QED
    BY <2>1, <2>2
<1>5. Lane(ptx'[s], UserKind(j), t[s][j], Entered(c, s, j)', N)
  <2>1. CASE s = m /\ j = TRUE
    <3>1. ptx'[s] = Append(ptx[s], e) /\ e \in UserKind(j)
      BY <2>1 DEF NodeTypeOK, UserKind
    <3>2. /\ Entered(c, s, j) = Sent(m) /\ Entered(c, s, j)' = Entered(c, s, j) + 1
          /\ N = len[m]
      BY <2>1 DEF Entered, Owner
    <3> HIDE DEF N
    <3>3. Lane(Append(ptx[s], e), UserKind(j), t[s][j], Entered(c, s, j) + 1, N)
      BY <1>2, <1>4, <3>1, <3>2, KindData, LaneAdd
    <3>4. QED
      BY <3>1, <3>2, <3>3
  <2>2. CASE s = m /\ j = FALSE
    <3>1. ptx'[s] = Append(ptx[s], e) /\ e \notin UserKind(j) /\ Entered(c, s, j)' = Entered(c, s, j)
      BY <2>2 DEF NodeTypeOK, UserKind, Entered
    <3> HIDE DEF N
    <3>2. Lane(Append(ptx[s], e), UserKind(j), t[s][j], Entered(c, s, j), N)
      BY <1>2, <1>4, <3>1, LaneSkip
    <3>3. QED
      BY <3>1, <3>2
  <2>3. CASE s # m
    <3>1. ptx'[s] = ptx[s] /\ Entered(c, s, j)' = Entered(c, s, j)
      BY <2>3 DEF NodeTypeOK, Entered
    <3>2. QED
      BY <1>2, <3>1
  <2>4. QED
    BY <2>1, <2>2, <2>3
<1>6. QED
  BY <1>1, <1>3, <1>5 DEF LanesAt

\* ProbeBeat: a beat of the peer's frame moves from prx to ptx, on its way back.
LEMMA LanesEcho ==
  ASSUME NodeTypeOK, NEW w, NEW c \in [Nodes -> Nat],
         NEW t \in [Nodes -> [BOOLEAN -> Nat]], NEW r \in [Nodes -> [BOOLEAN -> Nat]],
         Lanes(w, t, r, c), NEW m \in Nodes, prx[m] # <<>>, NEW e \in UserBeat,
         prx' = [prx EXCEPT ![m] = Tail(@)], ptx' = [ptx EXCEPT ![m] = Append(@, e)],
         UNCHANGED <<rx, hdr, len>>,
         \A n \in Nodes : Sent(n)' = Sent(n) /\ Seen(n)' = Seen(n),
         prx[m][1].pf, ~e.pf, e.data = prx[m][1].data, e.last = prx[m][1].last
  PROVE  Lanes(w, t, r, [c EXCEPT ![m] = @ + 1])'
<1> DEFINE d == [c EXCEPT ![m] = @ + 1]
           o == Peer[m]
<1> SUFFICES ASSUME NEW s \in Nodes, NEW j \in BOOLEAN PROVE LanesAt(w, t, r, d, s, j)'
  BY DEF Lanes
<1> DEFINE N == len[Owner(s, j)]
<1>1. LanesAt(w, t, r, c, s, j)
  BY DEF Lanes
<1>2. /\ Lane(ptx[s], UserKind(j), t[s][j], Entered(c, s, j), N)
      /\ Lane(prx[Peer[s]], UserKind(j), Taken(c, s, j), r[s][j], N)
  BY <1>1 DEF LanesAt
<1>3. o \in Nodes /\ Peer[o] = m /\ Peer[s] \in Nodes /\ (s # o => Peer[s] # m)
  BY PeerFacts
<1>4. /\ N \in Nat /\ t[s][j] \in Nat /\ r[s][j] \in Nat
      /\ Entered(c, s, j) \in Nat /\ Taken(c, s, j) \in Nat
  BY LaneTypes
<1>5. /\ ptx[s] \in Seq(UserBeat) /\ prx[m] \in Seq(UserBeat) /\ c[m] \in Nat /\ r[o][TRUE] \in Nat
      /\ len[o] \in Nat
  <2>1. ptx[s] \in Seq(UserBeat) /\ prx[m] \in Seq(UserBeat)
    BY DEF NodeTypeOK
  <2>2. QED
    BY <1>3, <2>1, CounterTypes
<1>6. prx[m][1] \in UserBeat
  BY <1>5
<1>7. /\ prx[m][1].data = c[m] /\ (prx[m][1].last <=> c[m] = len[o])
      /\ Lane(Tail(prx[m]), UserKind(TRUE), c[m] + 1, r[o][TRUE], len[o])
  <2>1. Lane(prx[m], UserKind(TRUE), c[m], r[o][TRUE], len[o])
    BY <1>3 DEF Lanes, LanesAt, Taken, Owner
  <2>2. prx[m][1] \in UserKind(TRUE) /\ \A b \in UserKind(TRUE) : b.data \in Nat
    BY <1>6, KindData DEF UserKind
  <2> HIDE DEF o
  <2>3. QED
    BY <1>5, <2>1, <2>2, LaneNext, ZenonT(60)
<1> HIDE DEF o
<1>8. Lane(ptx'[s], UserKind(j), t[s][j], Entered(d, s, j)', N)
  <2>1. CASE s = m /\ j = FALSE
    <3>0. e.pf = FALSE
      BY DEF UserBeat
    <3>1. ptx'[s] = Append(ptx[s], e) /\ e \in UserKind(j)
      BY <2>1, <3>0 DEF NodeTypeOK, UserKind
    <3>2. /\ Entered(c, s, j) = c[m] /\ Entered(d, s, j)' = Entered(c, s, j) + 1
          /\ N = len[o]
      BY <2>1 DEF Entered, Owner, o
    <3> HIDE DEF N, d
    <3>3. Lane(Append(ptx[s], e), UserKind(j), t[s][j], Entered(c, s, j) + 1, N)
      BY <1>2, <1>4, <1>5, <1>7, <3>1, <3>2, KindData, LaneAdd
    <3>4. QED
      BY <3>1, <3>2, <3>3
  <2>2. CASE s = m /\ j = TRUE
    <3>1. ptx'[s] = Append(ptx[s], e) /\ e \notin UserKind(j) /\ Entered(d, s, j)' = Entered(c, s, j)
      BY <2>2 DEF NodeTypeOK, UserKind, Entered
    <3> HIDE DEF N, d
    <3>2. Lane(Append(ptx[s], e), UserKind(j), t[s][j], Entered(c, s, j), N)
      BY <1>2, <1>4, <1>5, <3>1, LaneSkip
    <3>3. QED
      BY <3>1, <3>2
  <2>3. CASE s # m
    <3>1. ptx'[s] = ptx[s] /\ Entered(d, s, j)' = Entered(c, s, j)
      BY <2>3 DEF NodeTypeOK, Entered
    <3>2. QED
      BY <1>2, <3>1
  <2>4. QED
    BY <2>1, <2>2, <2>3
<1>9. Lane(prx'[Peer[s]], UserKind(j), Taken(d, s, j)', r[s][j], N)
  <2>1. CASE s = o /\ j = TRUE
    <3>1. prx'[Peer[s]] = Tail(prx[m]) /\ N = len[o]
      BY <1>3, <2>1 DEF NodeTypeOK, Owner
    <3>2. Taken(d, s, j)' = c[m] + 1
      BY <1>3, <2>1 DEF Taken
    <3>3. QED
      BY <1>7, <2>1, <3>1, <3>2
  <2>2. CASE s = o /\ j = FALSE
    <3>1. prx'[Peer[s]] = Tail(prx[m]) /\ prx[Peer[s]] = prx[m]
      BY <1>3, <2>2 DEF NodeTypeOK
    <3>2. prx[m][1] \notin UserKind(j)
      BY <2>2 DEF UserKind
    <3>3. Taken(d, s, j)' = Taken(c, s, j)
      BY <1>3, <2>2 DEF Taken
    <3> HIDE DEF N, d
    <3>4. Lane(Tail(prx[m]), UserKind(j), Taken(c, s, j), r[s][j], N)
      BY <1>2, <1>4, <1>5, <3>1, <3>2, LaneDrop
    <3>5. QED
      BY <3>1, <3>3, <3>4
  <2>3. CASE s # o
    <3>1. prx'[Peer[s]] = prx[Peer[s]] /\ Taken(d, s, j)' = Taken(c, s, j)
      BY <1>3, <2>3 DEF NodeTypeOK, Taken
    <3>2. QED
      BY <1>2, <3>1
  <2>4. QED
    BY <2>1, <2>2, <2>3
<1>10. QED
  BY <1>1, <1>8, <1>9 DEF LanesAt

LEMMA Between ==
  ASSUME NEW x \in Nat, NEW y \in Nat, x <= y, y <= x
  PROVE  x = y
  OBVIOUS

\* CheckerBeat: the tester sees the next beat of its own frame, and no other.
LEMMA CheckerSees ==
  ASSUME NodeTypeOK, NEW w, NEW c \in [Nodes -> Nat],
         NEW t \in [Nodes -> [BOOLEAN -> Nat]], NEW r \in [Nodes -> [BOOLEAN -> Nat]],
         Lanes(w, t, r, c), Reports, NEW m \in Nodes, prx[m] # <<>>, ~prx[m][1].pf
  PROVE  /\ Open(m) /\ chkBeats[m] <= len[m] /\ prx[m][1].data = chkBeats[m]
         /\ prx[m][1].last <=> chkBeats[m] = len[m]
         /\ prx[m][1].last => tfg[m] = "IDLE"
         /\ Lane(Tail(prx[m]), UserKind(FALSE), chkBeats[m] + 1, r[Peer[m]][FALSE], len[m])
<1> DEFINE o == Peer[m]
           rb == r[o][FALSE]
           tb == t[o][FALSE]
           ra == r[m][TRUE]
           ta == t[m][TRUE]
           K == UserKind(FALSE)
<1>1. o \in Nodes /\ Peer[o] = m
  BY PeerFacts
<1>2. Lane(prx[m], K, Seen(m), rb, len[m])
  BY <1>1 DEF Lanes, LanesAt, Taken, Owner
<1>3. prx[m] \in Seq(UserBeat)
  BY DEF NodeTypeOK
<1>4. prx[m][1] \in K /\ \A b \in K : b.data \in Nat
  <2>1. prx[m][1] \in UserBeat
    BY <1>3
  <2>2. prx[m][1] \in K
    BY <2>1 DEF UserKind, UserBeat
  <2>3. QED
    BY <2>2, KindData
<1>5. /\ Seen(m) \in Nat /\ Sent(m) \in Nat /\ len[m] \in Nat /\ rb \in Nat
      /\ tb \in Nat /\ c[o] \in Nat /\ ra \in Nat /\ ta \in Nat
      /\ beats[m] \in Nat
  BY <1>1, CounterTypes
<1>6. rb <= tb /\ tb <= c[o] /\ c[o] <= ra /\ ra <= ta /\ ta <= Sent(m)
  BY LaneBounds
<1>7. tfg[m] = "RUN" => beats[m] <= len[m]
  BY DEF Reports
<1> HIDE DEF K, o, rb, tb, ra, ta
<1>8. /\ prx[m][1].data = Seen(m) /\ Seen(m) < rb
      /\ prx[m][1].last <=> Seen(m) = len[m]
      /\ Lane(Tail(prx[m]), K, Seen(m) + 1, rb, len[m])
  BY <1>2, <1>3, <1>4, <1>5, LaneNext
<1>9. Seen(m) < Sent(m)
  BY <1>5, <1>6, <1>8
<1>10. Open(m)
  BY <1>5, <1>9 DEF Seen
<1>11. Seen(m) = chkBeats[m]
  BY <1>10 DEF Seen
<1>12. Seen(m) <= len[m] /\ (Seen(m) = len[m] => tfg[m] # "RUN")
  BY <1>5, <1>7, <1>9 DEF Sent
<1>13. tfg[m] \in {"IDLE", "RUN"}
  BY DEF NodeTypeOK
<1>14. QED
  BY <1>8, <1>10, <1>11, <1>12, <1>13 DEF K, o, rb

LEMMA LanesCheck ==
  ASSUME NodeTypeOK, NEW w, NEW c \in [Nodes -> Nat],
         NEW t \in [Nodes -> [BOOLEAN -> Nat]], NEW r \in [Nodes -> [BOOLEAN -> Nat]],
         Lanes(w, t, r, c), Reports, NEW m \in Nodes, prx[m] # <<>>, ~prx[m][1].pf,
         prx' = [prx EXCEPT ![m] = Tail(@)], UNCHANGED <<ptx, rx, hdr, len>>,
         \A n \in Nodes : Sent(n)' = Sent(n),
         \A n \in Nodes : n # m => Seen(n)' = Seen(n),
         Seen(m)' = chkBeats[m] + 1
  PROVE  Lanes(w, t, r, c)'
<1> SUFFICES ASSUME NEW s \in Nodes, NEW j \in BOOLEAN PROVE LanesAt(w, t, r, c, s, j)'
  BY DEF Lanes
<1> DEFINE N == len[Owner(s, j)]
<1>1. LanesAt(w, t, r, c, s, j)
  BY DEF Lanes
<1>2. Lane(prx[Peer[s]], UserKind(j), Taken(c, s, j), r[s][j], N)
  BY <1>1 DEF LanesAt
<1>3. Entered(c, s, j)' = Entered(c, s, j)
  BY DEF Entered
<1>4. Peer[s] \in Nodes /\ Peer[Peer[s]] = s
  BY PeerFacts
<1>5. N \in Nat /\ r[s][j] \in Nat /\ Taken(c, s, j) \in Nat /\ prx[m] \in Seq(UserBeat)
  <2>1. N \in Nat /\ r[s][j] \in Nat /\ Taken(c, s, j) \in Nat
    BY LaneTypes
  <2>2. QED
    BY <2>1 DEF NodeTypeOK
<1>6. Lane(prx'[Peer[s]], UserKind(j), Taken(c, s, j)', r[s][j], N)
  <2>1. CASE Peer[s] = m /\ j = FALSE
    <3>1. prx'[Peer[s]] = Tail(prx[m]) /\ N = len[m] /\ s = Peer[m]
      BY <1>4, <2>1 DEF NodeTypeOK, Owner
    <3>2. Taken(c, s, j)' = chkBeats[m] + 1
      BY <2>1 DEF Taken
    <3>3. Lane(Tail(prx[m]), UserKind(FALSE), chkBeats[m] + 1, r[Peer[m]][FALSE], len[m])
      BY CheckerSees
    <3>4. QED
      BY <2>1, <3>1, <3>2, <3>3
  <2>2. CASE Peer[s] = m /\ j = TRUE
    <3>1. prx'[Peer[s]] = Tail(prx[m]) /\ prx[m][1] \notin UserKind(j)
      BY <1>4, <2>2 DEF NodeTypeOK, UserKind
    <3>2. Taken(c, s, j)' = Taken(c, s, j)
      BY <2>2 DEF Taken
    <3> HIDE DEF N
    <3>3. Lane(Tail(prx[m]), UserKind(j), Taken(c, s, j), r[s][j], N)
      BY <1>2, <1>5, <2>2, <3>1, LaneDrop
    <3>4. QED
      BY <3>1, <3>2, <3>3
  <2>3. CASE Peer[s] # m
    <3>1. prx'[Peer[s]] = prx[Peer[s]] /\ Taken(c, s, j)' = Taken(c, s, j)
      BY <1>4, <2>3 DEF NodeTypeOK, Taken
    <3>2. QED
      BY <1>2, <3>1
  <2>4. QED
    BY <2>1, <2>2, <2>3
<1>7. QED
  BY <1>1, <1>3, <1>6 DEF LanesAt

LEMMA LaneEmpty ==
  ASSUME NEW q, NEW K, NEW x \in Nat, NEW N, NEW M, Lane(q, K, x, x, N),
         \A b \in K : b.data \in Nat
  PROVE  Lane(q, K, 0, 0, M)
<1>1. \A i \in DOMAIN q : q[i] \notin K
  BY DEF Lane
<1>2. QED
  BY <1>1 DEF Lane

\* A command restarts the counters of the frame of m.
Cleared(x, m) ==
  [s \in Nodes |-> [j \in BOOLEAN |-> IF Owner(s, j) = m THEN 0 ELSE x[s][j]]]
ClearedEchoes(c, m) == [s \in Nodes |-> IF Peer[s] = m THEN 0 ELSE c[s]]

\* Command: nothing of the frame before is left, so all its counters restart.
LEMMA LanesCommand ==
  ASSUME NodeTypeOK, NEW w, NEW c \in [Nodes -> Nat],
         NEW t \in [Nodes -> [BOOLEAN -> Nat]], NEW r \in [Nodes -> [BOOLEAN -> Nat]],
         Lanes(w, t, r, c), NEW m \in Nodes, ~Open(m),
         UNCHANGED <<ptx, prx, rx, hdr>>,
         \A n \in Nodes : n # m => /\ Sent(n)' = Sent(n) /\ Seen(n)' = Seen(n)
                                   /\ len'[n] = len[n],
         Sent(m)' = 0, Seen(m)' = 0
  PROVE  Lanes(w, Cleared(t, m), Cleared(r, m), ClearedEchoes(c, m))'
<1> DEFINE u == Cleared(t, m)
           q == Cleared(r, m)
           d == ClearedEchoes(c, m)
<1>0. /\ \A s \in Nodes, j \in BOOLEAN : u[s][j] = IF Owner(s, j) = m THEN 0 ELSE t[s][j]
      /\ \A s \in Nodes, j \in BOOLEAN : q[s][j] = IF Owner(s, j) = m THEN 0 ELSE r[s][j]
      /\ \A s \in Nodes : d[s] = IF Peer[s] = m THEN 0 ELSE c[s]
  BY DEF Cleared, ClearedEchoes
<1> HIDE DEF u, q, d
<1> SUFFICES ASSUME NEW s \in Nodes, NEW j \in BOOLEAN PROVE LanesAt(w, u, q, d, s, j)'
  BY DEF Lanes, u, q, d
<1>1. LanesAt(w, t, r, c, s, j)
  BY DEF Lanes
<1>2. Peer[s] \in Nodes /\ Peer[Peer[s]] = s /\ Owner(s, j) \in Nodes
  BY PeerFacts, LaneTypes
<1>3. CASE Owner(s, j) = m
  <2>1. u[s][j] = 0 /\ q[s][j] = 0
    BY <1>0, <1>3
  <2>2. Entered(d, s, j)' = 0 /\ Taken(d, s, j)' = 0
    <3>1. CASE j = TRUE
      BY <1>0, <1>2, <1>3, <3>1 DEF Owner, Entered, Taken
    <3>2. CASE j = FALSE
      BY <1>0, <1>2, <1>3, <3>2 DEF Owner, Entered, Taken
    <3>3. QED
      BY <3>1, <3>2
  <2>3. Sent(m) \in Nat /\ Seen(m) = Sent(m)
    BY CounterTypes DEF Seen
  <2>4. /\ t[s][j] = Sent(m) /\ r[s][j] = Sent(m)
        /\ Entered(c, s, j) = Sent(m) /\ Taken(c, s, j) = Sent(m)
    <3> DEFINE o == Peer[m]
               rb == r[o][FALSE]
               tb == t[o][FALSE]
               ra == r[m][TRUE]
               ta == t[m][TRUE]
    <3>1. o \in Nodes
      BY PeerFacts
    <3>2. rb \in Nat /\ tb \in Nat /\ c[o] \in Nat /\ ra \in Nat /\ ta \in Nat
      BY <3>1
    <3>3. /\ Seen(m) <= rb /\ rb <= tb /\ tb <= c[o]
          /\ c[o] <= ra /\ ra <= ta /\ ta <= Sent(m)
      BY LaneBounds
    <3> HIDE DEF o, rb, tb, ra, ta
    <3>7. rb = Sent(m) /\ tb = Sent(m) /\ c[o] = Sent(m) /\ ra = Sent(m) /\ ta = Sent(m)
      <4>1. /\ rb <= Sent(m) /\ tb <= Sent(m) /\ c[o] <= Sent(m) /\ ra <= Sent(m)
        BY <2>3, <3>2, <3>3
      <4>2. /\ Sent(m) <= rb /\ Sent(m) <= tb /\ Sent(m) <= c[o] /\ Sent(m) <= ra
            /\ Sent(m) <= ta
        BY <2>3, <3>2, <3>3
      <4>3. QED
        BY <2>3, <3>2, <3>3, <4>1, <4>2, Between
    <3>4. CASE j = TRUE
      BY <1>3, <3>7, <3>4 DEF Owner, Entered, Taken, o, ra, ta
    <3>5. CASE j = FALSE
      <4>1. Peer[s] = m /\ s = Peer[m]
        BY <1>2, <1>3, <3>5 DEF Owner
      <4>2. QED
        BY <2>3, <3>7, <3>5, <4>1 DEF Entered, Taken, o, rb, tb
    <3>6. QED
      BY <3>4, <3>5
  <2>5. /\ Lane(ptx[s], UserKind(j), 0, 0, len'[m]) /\ Lane(w[s], StreamKind(j), 0, 0, len'[m])
        /\ Lane(prx[Peer[s]], UserKind(j), 0, 0, len'[m])
    <3>1. /\ Lane(ptx[s], UserKind(j), Sent(m), Sent(m), len[m])
          /\ Lane(w[s], StreamKind(j), Sent(m), Sent(m), len[m])
          /\ Lane(prx[Peer[s]], UserKind(j), Sent(m), Sent(m), len[m])
      BY <1>1, <1>3, <2>4 DEF LanesAt
    <3>2. QED
      BY <2>3, <3>1, KindData, LaneEmpty
  <2>6. QED
    BY <1>3, <2>1, <2>2, <2>5 DEF LanesAt
<1>4. CASE Owner(s, j) # m
  <2>1. u[s][j] = t[s][j] /\ q[s][j] = r[s][j] /\ len'[Owner(s, j)] = len[Owner(s, j)]
    BY <1>0, <1>2, <1>4
  <2>2. Entered(d, s, j)' = Entered(c, s, j) /\ Taken(d, s, j)' = Taken(c, s, j)
    <3>1. CASE j = TRUE
      BY <1>0, <1>2, <1>4, <3>1 DEF Owner, Entered, Taken
    <3>2. CASE j = FALSE
      BY <1>0, <1>2, <1>4, <3>2 DEF Owner, Entered, Taken
    <3>3. QED
      BY <3>1, <3>2
  <2>3. QED
    BY <1>1, <2>1, <2>2 DEF LanesAt
<1>5. QED
  BY <1>3, <1>4
-----------------------------------------------------------------------------
(***************************************************************************)
(* One lemma per action: it keeps all of Frames, for new values of the     *)
(* stream and of the counters.                                             *)
(***************************************************************************)
LEMMA CountStep ==
  ASSUME NEW x \in Nat, NEW l \in Nat, x <= l, x # l, l < CountMod
  PROVE  (x + 1) % CountMod = x + 1
<1>1. CountMod \in Nat \ {0}
  BY NodeAssumption
<1>2. x + 1 \in 0..CountMod - 1
  BY <1>1
<1>3. QED
  BY <1>1, <1>2

LEMMA CountersKept ==
  UNCHANGED <<tester, tfg, len, beats, chkBeats, status>>
    => \A n \in Nodes : Sent(n)' = Sent(n) /\ Seen(n)' = Seen(n) /\ (Open(n)' <=> Open(n))
  BY DEF Sent, Seen, Open

LEMMA ReportsKept == Reports /\ UNCHANGED <<genVars, chkVars>> => Reports'
  BY DEF Reports, Open, genVars, chkVars, StatusLength

\* What Framing reads of a node whose transmitter keeps its place.
LEMMA WaitingKept ==
  ASSUME Arbitration, NEW n \in Nodes, tx'[n] = tx[n],
         ptx[n] # <<>> => ptx'[n] # <<>> /\ ptx'[n][1] = ptx[n][1],
         ptx[n] = <<>> /\ Midframe(n) =>
            \/ ptx'[n] = <<>> /\ grant'[n] = grant[n]
            \/ ptx'[n] # <<>> /\ ptx'[n][1].pf = (grant[n] = "tester"),
         tx[n] = "SEND_DATA"
  PROVE  Waiting(n).pf' = Waiting(n).pf
<1>1. CASE ptx[n] = <<>>
  <2>1. Midframe(n)
    BY <1>1 DEF Midframe
  <2>2. QED
    BY <1>1, <2>1 DEF Waiting
<1>2. CASE ptx[n] # <<>>
  BY <1>2 DEF Waiting
<1>3. QED
  BY <1>1, <1>2

\* The place of ptx[m][1] is the same after an append.
LEMMA WaitingAppend ==
  ASSUME NodeTypeOK, Arbitration, NEW m \in Nodes, NEW e \in UserBeat,
         ptx' = [ptx EXCEPT ![m] = Append(@, e)], tx' = tx, e.pf = (grant[m] = "tester"),
         \A n \in Nodes : n # m => grant'[n] = grant[n]
  PROVE  \A n \in Nodes : /\ tx'[n] = "SEND_DATA" <=> tx[n] = "SEND_DATA"
                          /\ tx[n] = "SEND_DATA" => Waiting(n).pf' = Waiting(n).pf
<1> SUFFICES ASSUME NEW n \in Nodes, tx[n] = "SEND_DATA"
             PROVE  Waiting(n).pf' = Waiting(n).pf
  OBVIOUS
<1>1. CASE n # m
  <2>1. ptx'[n] = ptx[n] /\ grant'[n] = grant[n]
    BY <1>1 DEF NodeTypeOK
  <2>2. QED
    BY <2>1 DEF Waiting
<1>2. CASE n = m
  <2>1. ptx[m] \in Seq(UserBeat) /\ ptx'[m] = Append(ptx[m], e)
    BY DEF NodeTypeOK
  <2>2. ptx'[m] # <<>>
    BY <2>1
  <2>3. ptx[m] = <<>> => ptx'[m][1] = e
    BY <2>1
  <2>4. ptx[m] # <<>> => ptx'[m][1] = ptx[m][1]
    BY <2>1
  <2>5. QED
    BY <1>2, <2>2, <2>3, <2>4, WaitingKept
<1>3. QED
  BY <1>1, <1>2

LEMMA GeneratorFrames ==
  ASSUME NodeTypeOK, NodeTypeOK', NEW w, NEW t, NEW r, NEW c, Frames(w, t, r, c),
         NEW m \in Nodes, GeneratorBeat(m)
  PROVE  Frames(w, t, r, c)'
<1> USE DEF Frames
<1> DEFINE e == [data |-> beats[m], last |-> beats[m] = len[m], pf |-> TRUE]
<1>1. /\ e \in UserBeat /\ ptx' = [ptx EXCEPT ![m] = Append(@, e)]
      /\ UNCHANGED <<tester, len, chkBeats, frameErr, status, prx, tx, rx, hdr>>
  BY ConstantFacts DEF GeneratorBeat, NodeTypeOK, UserBeat, chkVars, txVars, rxVars
<1>2. /\ tfg[m] = "RUN" /\ grant[m] = "tester" /\ beats[m] <= len[m] /\ Open(m)
      /\ Sent(m) = beats[m]
  BY DEF GeneratorBeat, Reports, Sent
<1>3. beats[m] \in Nat /\ len[m] \in Nat /\ len[m] < CountMod /\ CountMod \in Nat
  BY CounterTypes
<1>4. /\ \A n \in Nodes : n # m => tfg'[n] = tfg[n] /\ beats'[n] = beats[n] /\ grant'[n] = grant[n]
      /\ IF beats[m] = len[m] THEN tfg'[m] = "IDLE" /\ beats'[m] = beats[m]
         ELSE tfg'[m] = "RUN" /\ beats'[m] = beats[m] + 1
  <2>1. CASE beats[m] = len[m]
    BY <2>1 DEF GeneratorBeat, NodeTypeOK
  <2>2. CASE beats[m] # len[m]
    <3>1. (beats[m] + 1) % CountMod = beats[m] + 1
      BY <1>2, <1>3, <2>2, CountStep
    <3>2. tfg' = tfg /\ beats' = [beats EXCEPT ![m] = (@ + 1) % CountMod]
      BY <2>2 DEF GeneratorBeat
    <3>3. grant' = [grant EXCEPT ![m] = GrantAfter(m, beats[m] = len[m])]
      BY DEF GeneratorBeat
    <3>4. QED
      BY <1>2, <2>2, <3>1, <3>2, <3>3 DEF NodeTypeOK
  <2>3. QED
    BY <2>1, <2>2
<1>5. /\ Sent(m)' = Sent(m) + 1 /\ \A n \in Nodes : n # m => Sent(n)' = Sent(n)
      /\ Open(m)'
  BY <1>1, <1>2, <1>4 DEF Sent, Open
<1>6. \A n \in Nodes : Seen(n)' = Seen(n)
  <2> SUFFICES ASSUME NEW n \in Nodes PROVE Seen(n)' = Seen(n)
    OBVIOUS
  <2>1. CASE n = m
    BY <1>1, <1>2, <1>5, <2>1 DEF Seen
  <2>2. CASE n # m
    BY <1>1, <1>5, <2>2 DEF Seen, Open
  <2>3. QED
    BY <2>1, <2>2
<1>7. e.pf = (grant[m] = "tester") /\ e.pf /\ e.data = Sent(m) /\ (e.last <=> Sent(m) = len[m])
  BY <1>2
<1> HIDE DEF e
<1>8. Lanes(w, t, r, c)'
  BY <1>1, <1>5, <1>6, <1>7, LanesGenerate
<1>9. Framing(w)'
  <2>1. \A n \in Nodes : /\ tx'[n] = "SEND_DATA" <=> tx[n] = "SEND_DATA"
                         /\ tx[n] = "SEND_DATA" => Waiting(n).pf' = Waiting(n).pf
    BY <1>1, <1>4, <1>7, WaitingAppend
  <2>2. \A n \in Nodes : rx[n] # "DROP"
    BY PeerFacts DEF Framing, FramingAt
  <2>3. QED
    BY <1>1, <2>1, <2>2, FramingKept
<1>10. Reports'
  <2> SUFFICES ASSUME NEW n \in Nodes
               PROVE  /\ tfg'[n] = "RUN" => Open(n)' /\ beats'[n] <= len'[n]
                      /\ ~Open(n)' => chkBeats'[n] = 0
                      /\ ~frameErr'[n]
                      /\ status'[n].valid => /\ tester'[n] = "COUNT_LATENCY" /\ ~status'[n].err
                                             /\ status'[n].length = StatusLength(len'[n])
    BY DEF Reports, StatusLength
  <2>1. Open(n)' <=> Open(n)
    BY <1>1 DEF Open
  <2>2. tfg'[n] = "RUN" => tfg[n] = "RUN" /\ beats'[n] <= len[n]
    <3>1. CASE n = m
      BY <1>2, <1>3, <1>4, <3>1
    <3>2. CASE n # m
      BY <1>4, <3>2 DEF Reports
    <3>3. QED
      BY <3>1, <3>2
  <2>3. QED
    BY <1>1, <2>1, <2>2 DEF Reports
<1>11. Arbitration'
  BY ArbitrationStep DEF NodeStep
<1>12. QED
  BY <1>8, <1>9, <1>10, <1>11

LEMMA CheckerFrames ==
  ASSUME NodeTypeOK, NodeTypeOK', NEW w, NEW t, NEW r, NEW c, Frames(w, t, r, c),
         NEW m \in Nodes, CheckerBeat(m)
  PROVE  Frames(w, t, r, c)'
<1> USE DEF Frames
<1>1. /\ prx[m] # <<>> /\ ~prx[m][1].pf /\ prx' = [prx EXCEPT ![m] = Tail(@)]
      /\ UNCHANGED <<tester, tfg, len, beats, ptx, tx, rx, hdr, grant>> /\ ~status[m].valid
  <2>1. Head(prx[m]) = prx[m][1]
    BY DEF NodeTypeOK, CheckerBeat
  <2>2. QED
    BY <2>1 DEF CheckerBeat, genVars, txVars, rxVars
<1>2. /\ Open(m) /\ chkBeats[m] <= len[m] /\ prx[m][1].data = chkBeats[m]
      /\ prx[m][1].last <=> chkBeats[m] = len[m]
      /\ prx[m][1].last => tfg[m] = "IDLE"
  BY <1>1, CheckerSees
<1>3. chkBeats[m] \in Nat /\ len[m] \in Nat /\ len[m] < CountMod /\ CountMod \in Nat
  BY CounterTypes
<1>4. /\ \A n \in Nodes : n # m => /\ chkBeats'[n] = chkBeats[n] /\ frameErr'[n] = frameErr[n]
                                   /\ status'[n] = status[n]
      /\ ~frameErr'[m]
      /\ IF chkBeats[m] = len[m]
         THEN /\ chkBeats'[m] = 0
              /\ status'[m].valid /\ ~status'[m].err /\ status'[m].length = StatusLength(len[m])
         ELSE chkBeats'[m] = chkBeats[m] + 1 /\ status'[m] = status[m]
  <2>1. Head(prx[m]) = prx[m][1] /\ ~frameErr[m] /\ frameErr[m] \in BOOLEAN
    BY <1>1 DEF NodeTypeOK, Reports
  <2>2. CASE chkBeats[m] = len[m]
    <3>1. /\ chkBeats' = [chkBeats EXCEPT ![m] = 0] /\ frameErr' = [frameErr EXCEPT ![m] = FALSE]
          /\ status' = [status EXCEPT ![m] = [valid |-> TRUE, err |-> frameErr[m],
                                              length |-> StatusLength(chkBeats[m])]]
      BY <1>2, <2>1, <2>2 DEF CheckerBeat
    <3>2. status'[m] = [valid |-> TRUE, err |-> frameErr[m], length |-> StatusLength(chkBeats[m])]
      BY <3>1 DEF NodeTypeOK
    <3>3. status'[m].valid /\ ~status'[m].err /\ status'[m].length = StatusLength(len[m])
      BY <2>1, <2>2, <3>2
    <3>4. chkBeats'[m] = 0 /\ ~frameErr'[m]
      BY <3>1 DEF NodeTypeOK
    <3>5. \A n \in Nodes : n # m => /\ chkBeats'[n] = chkBeats[n] /\ frameErr'[n] = frameErr[n]
                                    /\ status'[n] = status[n]
      BY <3>1 DEF NodeTypeOK
    <3>6. QED
      BY <2>2, <3>3, <3>4, <3>5
  <2>3. CASE chkBeats[m] # len[m]
    <3>1. /\ chkBeats' = [chkBeats EXCEPT ![m] = (@ + 1) % CountMod] /\ status' = status
          /\ frameErr' = [frameErr EXCEPT ![m] = @ \/ prx[m][1].data # chkBeats[m]]
      BY <1>2, <2>1, <2>3 DEF CheckerBeat
    <3>2. (chkBeats[m] + 1) % CountMod = chkBeats[m] + 1
      BY <1>2, <1>3, <2>3, CountStep
    <3>3. QED
      BY <1>2, <2>1, <2>3, <3>1, <3>2 DEF NodeTypeOK
  <2>4. QED
    BY <2>2, <2>3
<1>5. Seen(m)' = chkBeats[m] + 1
  <2>1. CASE chkBeats[m] = len[m]
    <3>1. ~Open(m)' /\ Sent(m)' = len[m] + 1
      BY <1>1, <1>2, <1>4, <2>1 DEF Open, Sent
    <3>2. QED
      BY <2>1, <3>1 DEF Seen
  <2>2. CASE chkBeats[m] # len[m]
    <3>1. Open(m)'
      BY <1>1, <1>2, <1>4, <2>2 DEF Open
    <3>2. QED
      BY <1>4, <2>2, <3>1 DEF Seen
  <2>3. QED
    BY <2>1, <2>2
<1>6. \A n \in Nodes : Sent(n)' = Sent(n)
  BY <1>1 DEF Sent
<1>7. \A n \in Nodes : n # m => Seen(n)' = Seen(n) /\ (Open(n)' <=> Open(n))
  BY <1>1, <1>4, <1>6 DEF Seen, Open
<1>8. Lanes(w, t, r, c)'
  BY <1>1, <1>5, <1>6, <1>7, LanesCheck
<1>9. Framing(w)'
  <2>1. \A n \in Nodes : Waiting(n)' = Waiting(n)
    BY <1>1 DEF Waiting
  <2>2. \A n \in Nodes : rx[n] # "DROP"
    BY PeerFacts DEF Framing, FramingAt
  <2>3. QED
    BY <1>1, <2>1, <2>2, FramingKept
<1>10. Reports'
  <2> SUFFICES ASSUME NEW n \in Nodes
               PROVE  /\ tfg'[n] = "RUN" => Open(n)' /\ beats'[n] <= len'[n]
                      /\ ~Open(n)' => chkBeats'[n] = 0
                      /\ ~frameErr'[n]
                      /\ status'[n].valid => /\ tester'[n] = "COUNT_LATENCY" /\ ~status'[n].err
                                             /\ status'[n].length = StatusLength(len'[n])
    BY DEF Reports, StatusLength
  <2>1. CASE n # m
    BY <1>1, <1>4, <1>7, <2>1 DEF Reports
  <2>2. CASE n = m /\ chkBeats[m] = len[m]
    BY <1>1, <1>2, <1>4, <2>2 DEF Open
  <2>3. CASE n = m /\ chkBeats[m] # len[m]
    BY <1>1, <1>2, <1>4, <2>3 DEF Open, Reports
  <2>4. QED
    BY <2>1, <2>2, <2>3
<1>11. Arbitration'
  BY ArbitrationStep DEF NodeStep
<1>12. QED
  BY <1>8, <1>9, <1>10, <1>11

LEMMA EmptyFacts == ASSUME NEW S, NEW q \in Seq(S) PROVE q = <<>> <=> Len(q) = 0
  OBVIOUS

LEMMA TailFacts ==
  ASSUME NEW S, NEW q \in Seq(S), q # <<>>
  PROVE  /\ Len(q) \in Nat /\ Len(q) > 0 /\ Tail(q) \in Seq(S)
         /\ Tail(q) = <<>> <=> Len(q) = 1
         /\ Len(q) > 1 => Tail(q)[1] = q[2]
<1>1. /\ Len(q) \in Nat /\ Len(q) > 0 /\ Tail(q) \in Seq(S) /\ Len(Tail(q)) = Len(q) - 1
      /\ \A i \in 1..Len(q) - 1 : Tail(q)[i] = q[i + 1]
  OBVIOUS
<1>2. Tail(q) = <<>> <=> Len(q) = 1
  <2>1. Tail(q) = <<>> <=> Len(Tail(q)) = 0
    BY <1>1, EmptyFacts
  <2>2. QED
    BY <1>1, <2>1
<1>3. ASSUME Len(q) > 1 PROVE Tail(q)[1] = q[2]
  BY <1>1, <1>3
<1>4. QED
  BY <1>1, <1>2, <1>3

LEMMA ProbeBeatFrames ==
  ASSUME NodeTypeOK, NodeTypeOK', NEW w, NEW t, NEW r, NEW c, Frames(w, t, r, c),
         NEW m \in Nodes, ProbeBeat(m)
  PROVE  Frames(w, t, r, [c EXCEPT ![m] = @ + 1])'
<1> USE DEF Frames
<1>1. prx[m] \in Seq(UserBeat) /\ prx[m] # <<>> /\ prx[m][1].pf /\ Head(prx[m]) = prx[m][1]
  BY DEF ProbeBeat, NodeTypeOK
<1>2. prx[m][1] \in UserBeat
  BY <1>1
<1> DEFINE e == [prx[m][1] EXCEPT !.pf = FALSE]
           d == [c EXCEPT ![m] = @ + 1]
<1>3. /\ e \in UserBeat /\ ~e.pf /\ e.data = prx[m][1].data /\ e.last = prx[m][1].last
      /\ prx' = [prx EXCEPT ![m] = Tail(@)] /\ ptx' = [ptx EXCEPT ![m] = Append(@, e)]
      /\ UNCHANGED <<genVars, chkVars, tx, rx, hdr>> /\ grant[m] = "probe"
      /\ \A n \in Nodes : n # m => grant'[n] = grant[n]
  <2>1. e \in UserBeat /\ ~e.pf /\ e.data = prx[m][1].data /\ e.last = prx[m][1].last
    BY <1>2 DEF UserBeat
  <2>2. prx' = [prx EXCEPT ![m] = Tail(@)] /\ ptx' = [ptx EXCEPT ![m] = Append(@, e)]
    BY <1>1 DEF ProbeBeat
  <2>3. UNCHANGED <<genVars, chkVars, tx, rx, hdr>> /\ grant[m] = "probe"
    BY DEF ProbeBeat, txVars, rxVars
  <2>4. \A n \in Nodes : n # m => grant'[n] = grant[n]
    BY DEF ProbeBeat, NodeTypeOK
  <2>5. QED
    BY <2>1, <2>2, <2>3, <2>4
<1>4. e.pf = (grant[m] = "tester")
  BY <1>2, <1>3 DEF UserBeat
<1> HIDE DEF e
<1>5. \A n \in Nodes : Sent(n)' = Sent(n) /\ Seen(n)' = Seen(n)
  BY <1>3, CountersKept DEF genVars, chkVars
<1>6. Lanes(w, t, r, d)'
  BY <1>1, <1>3, <1>5, LanesEcho DEF genVars
<1>7. Framing(w)'
  <2>1. \A n \in Nodes : /\ tx'[n] = "SEND_DATA" <=> tx[n] = "SEND_DATA"
                         /\ tx[n] = "SEND_DATA" => Waiting(n).pf' = Waiting(n).pf
    BY <1>3, <1>4, WaitingAppend
  <2>2. \A n \in Nodes : rx[n] # "DROP"
    BY PeerFacts DEF Framing, FramingAt
  <2>3. QED
    BY <1>3, <2>1, <2>2, FramingKept
<1>8. Arbitration'
  BY ArbitrationStep DEF NodeStep
<1>9. d \in [Nodes -> Nat]
  OBVIOUS
<1>10. Frames(w, t, r, d)'
  BY <1>3, <1>6, <1>7, <1>8, <1>9, ReportsKept
<1>11. QED
  BY <1>10

LEMMA TxHeaderFrames ==
  ASSUME NodeTypeOK, NodeTypeOK', NEW w, NEW t, NEW r, NEW c, Frames(w, t, r, c),
         NEW m \in Nodes, TxHeader(m)
  PROVE  \E v : Frames(v, t, r, c)' /\ Moved(m, w, v)
<1> USE DEF Frames
<1>1. ptx[m] \in Seq(UserBeat) /\ ptx[m] # <<>> /\ Head(ptx[m]) = ptx[m][1]
  BY DEF TxHeader, NodeTypeOK
<1>2. ptx[m][1] \in UserBeat
  BY <1>1
<1>3. PICK e : e = [head |-> TRUE, pf |-> ptx[m][1].pf, data |-> HeaderWord, last |-> FALSE]
  OBVIOUS
<1>4. e \in StreamBeat /\ e.head /\ ~e.last /\ e.pf = ptx[m][1].pf
  BY <1>2, <1>3, ConstantFacts DEF StreamBeat, UserBeat
<1> DEFINE v == [w EXCEPT ![m] = Append(@, e)]
           x == HeaderBeat(ptx[m][1].pf)
<1>5. /\ x \in WireBeat /\ Alike(e, x) /\ txbuf' = [txbuf EXCEPT ![m] = Append(@, x)]
  BY <1>1, <1>2, <1>3, ConstantFacts DEF TxHeader, WireBeat, HeaderBeat, UserBeat, Alike
<1>6. /\ UNCHANGED <<genVars, chkVars, ptx, prx, rx, hdr, rxbuf, grant>>
      /\ tx[m] = "SEND_HEADER" /\ tx' = [tx EXCEPT ![m] = "SEND_DATA"] /\ tx'[m] = "SEND_DATA"
  BY DEF TxHeader, rxVars, NodeTypeOK
<1>7. Moved(m, w, v)
  <2> HIDE DEF x
  <2>1. QED
    BY <1>4, <1>5, <1>6 DEF Moved
<1>8. \A n \in Nodes : Sent(n)' = Sent(n) /\ Seen(n)' = Seen(n)
  BY <1>6, CountersKept DEF genVars, chkVars
<1>9. Lanes(v, t, r, c)'
  <2>1. \A s \in Nodes, k \in BOOLEAN :
          Lane(w[s], StreamKind(k), r[s][k], t[s][k], len[Owner(s, k)])
            => Lane(v[s], StreamKind(k), r[s][k], t[s][k], len[Owner(s, k)])
    <3> SUFFICES ASSUME NEW s \in Nodes, NEW k \in BOOLEAN,
                        Lane(w[s], StreamKind(k), r[s][k], t[s][k], len[Owner(s, k)])
                 PROVE  Lane(v[s], StreamKind(k), r[s][k], t[s][k], len[Owner(s, k)])
      OBVIOUS
    <3>1. CASE s = m
      <4>1. w[m] \in Seq(StreamBeat) /\ v[s] = Append(w[m], e) /\ e \notin StreamKind(k)
        BY <1>4, <3>1 DEF StreamKind
      <4>2. r[s][k] \in Nat /\ t[s][k] \in Nat /\ len[Owner(s, k)] \in Nat
        BY LaneTypes
      <4> HIDE DEF v
      <4>3. QED
        BY <1>4, <3>1, <4>1, <4>2, LaneSkip
    <3>2. CASE s # m
      BY <3>2
    <3>3. QED
      BY <3>1, <3>2
  <2> HIDE DEF v
  <2>2. QED
    BY <1>6, <1>8, <2>1, LanesKept DEF genVars
<1>10. Framing(v)'
  <2>1. Waiting(m).head /\ Joined(e, Waiting(m)')
    BY <1>1, <1>4, <1>6 DEF Waiting, Joined
  <2>2. \A n \in Nodes : n # m => tx'[n] = tx[n] /\ ptx'[n] = ptx[n] /\ grant'[n] = grant[n]
    BY <1>6
  <2>3. QED
    BY <1>4, <1>6, <2>1, <2>2, FramingAppend
<1>11. Arbitration'
  BY ArbitrationStep DEF NodeStep
<1>12. v \in [Nodes -> Seq(StreamBeat)]
  BY <1>4
<1> HIDE DEF v
<1>13. Frames(v, t, r, c)'
  BY <1>6, <1>9, <1>10, <1>11, <1>12, ReportsKept
<1>14. QED
  BY <1>7, <1>13

\* Behind a beat that is not the last the transmitter waits for one of its frame.
LEMMA WaitingNext ==
  ASSUME NodeTypeOK, Arbitration, NEW m \in Nodes, TxData(m), ~ptx[m][1].last
  PROVE  Waiting(m).pf' = ptx[m][1].pf
<1> DEFINE q == ptx[m]
<1>1. q \in Seq(UserBeat) /\ q # <<>> /\ ptx'[m] = Tail(q) /\ grant' = grant
  BY DEF TxData, NodeTypeOK
<1>2. /\ \A i \in 1..Len(q) - 1 : ~q[i].last => q[i + 1].pf = q[i].pf
      /\ ~q[Len(q)].last => q[Len(q)].pf = (grant[m] = "tester")
  BY <1>1 DEF Arbitration, ArbitrationAt
<1>3. /\ Len(q) \in Nat /\ Len(q) > 0
      /\ Tail(q) = <<>> <=> Len(q) = 1
      /\ Len(q) > 1 => Tail(q)[1] = q[2]
  BY <1>1, TailFacts
<1>4. CASE Len(q) = 1
  <2>1. ptx'[m] = <<>>
    BY <1>1, <1>3, <1>4
  <2>2. q[1].pf = (grant[m] = "tester")
    BY <1>2, <1>4
  <2>3. Waiting(m).pf' = (grant[m] = "tester")
    BY <1>1, <2>1 DEF Waiting
  <2>4. QED
    BY <2>2, <2>3
<1>5. CASE Len(q) # 1
  <2>1. 1 \in 1..Len(q) - 1 /\ 1 + 1 = 2
    BY <1>3, <1>5
  <2>2. Tail(q) # <<>> /\ Tail(q)[1] = q[2]
    BY <1>3, <1>5
  <2>3. q[2].pf = q[1].pf
    <3>1. ~q[1].last => q[1 + 1].pf = q[1].pf
      BY <1>2, <2>1
    <3>2. QED
      BY <2>1, <3>1
  <2>4. Waiting(m).pf' = ptx'[m][1].pf
    BY <1>1, <2>2 DEF Waiting
  <2>5. QED
    BY <1>1, <2>2, <2>3, <2>4
<1>6. QED
  BY <1>4, <1>5

LEMMA TxDataFrames ==
  ASSUME NodeTypeOK, NodeTypeOK', NEW w, NEW t, NEW r, NEW c, Frames(w, t, r, c),
         NEW m \in Nodes, TxData(m)
  PROVE  \E v, u : Frames(v, u, r, c)' /\ Moved(m, w, v)
<1> USE DEF Frames
<1>1. ptx[m] \in Seq(UserBeat) /\ ptx[m] # <<>> /\ Head(ptx[m]) = ptx[m][1]
  BY DEF TxData, NodeTypeOK
<1>2. ptx[m][1] \in UserBeat
  BY <1>1
<1>3. PICK e : e = [head |-> FALSE, pf |-> ptx[m][1].pf, data |-> ptx[m][1].data,
                    last |-> ptx[m][1].last]
  OBVIOUS
<1>4. /\ e \in StreamBeat /\ ~e.head /\ e.pf = ptx[m][1].pf /\ e.last = ptx[m][1].last
      /\ e.data = ptx[m][1].data
  BY <1>2, <1>3 DEF StreamBeat, UserBeat
<1>5. PICK k \in BOOLEAN : k = ptx[m][1].pf
  BY <1>2 DEF UserBeat
<1> DEFINE v == [w EXCEPT ![m] = Append(@, e)]
           u == [t EXCEPT ![m][k] = @ + 1]
           x == DataBeat(ptx[m][1])
<1>6. /\ x \in WireBeat /\ Alike(e, x) /\ txbuf' = [txbuf EXCEPT ![m] = Append(@, x)]
  BY <1>1, <1>2, <1>3 DEF TxData, WireBeat, DataBeat, UserBeat, Alike
<1>7. /\ UNCHANGED <<genVars, chkVars, prx, rx, hdr, rxbuf, grant>>
      /\ tx[m] = "SEND_DATA" /\ ptx' = [ptx EXCEPT ![m] = Tail(@)]
      /\ tx'[m] = IF ptx[m][1].last THEN "IDLE" ELSE "SEND_DATA"
      /\ \A n \in Nodes : n # m => tx'[n] = tx[n] /\ ptx'[n] = ptx[n]
  BY <1>1 DEF TxData, rxVars, NodeTypeOK
<1>8. Moved(m, w, v)
  <2> HIDE DEF x
  <2>1. QED
    BY <1>4, <1>6, <1>7 DEF Moved
<1>9. \A n \in Nodes : Sent(n)' = Sent(n) /\ Seen(n)' = Seen(n)
  BY <1>7, CountersKept DEF genVars, chkVars
<1>10. Lanes(v, u, r, c)'
  BY <1>1, <1>4, <1>5, <1>7, <1>9, LanesSend DEF genVars
<1>11. Framing(v)'
  <2>1. ~Waiting(m).head /\ e.pf = Waiting(m).pf
    BY <1>1, <1>4, <1>7 DEF Waiting
  <2>2. Joined(e, Waiting(m)')
    <3>1. Waiting(m)'.head <=> e.last
      BY <1>4, <1>7 DEF Waiting
    <3>2. ASSUME ~e.last PROVE Waiting(m).pf' = e.pf
      BY <1>4, <3>2, WaitingNext
    <3>3. QED
      BY <3>1, <3>2 DEF Joined
  <2>3. \A n \in Nodes : n # m => tx'[n] = tx[n] /\ ptx'[n] = ptx[n] /\ grant'[n] = grant[n]
    BY <1>7
  <2>4. QED
    BY <1>4, <1>7, <2>1, <2>2, <2>3, FramingAppend
<1>12. Arbitration'
  BY ArbitrationStep DEF NodeStep
<1>13. v \in [Nodes -> Seq(StreamBeat)] /\ u \in [Nodes -> [BOOLEAN -> Nat]]
  BY <1>4
<1> HIDE DEF v, u
<1>14. Frames(v, u, r, c)'
  BY <1>7, <1>10, <1>11, <1>12, <1>13, ReportsKept
<1>15. QED
  BY <1>8, <1>14

\* The beat that the depacketizer takes is the oldest of the stream.
LEMMA NextReceived ==
  ASSUME NodeTypeOK, NEW w \in [Nodes -> Seq(StreamBeat)], Framing(w), Fed(w),
         NEW m \in Nodes, rxbuf[m] # <<>>
  PROVE  LET o == Peer[m]
             y == w[o][1]
             b == rxbuf[m][1]
         IN  /\ o \in Nodes /\ Peer[o] = m
             /\ Head(rxbuf[m]) = b /\ b \in WireBeat
             /\ w[o] \in Seq(StreamBeat) /\ w[o] # <<>> /\ y \in StreamBeat
             /\ Alike(y, b) /\ Joined(Received(m), y) /\ (y.head => ~y.last)
             /\ rx[m] # "DROP" /\ (rx[m] # "IDLE" => hdr[m].magic)
<1> DEFINE o == Peer[m]
<1>1. o \in Nodes /\ Peer[o] = m
  BY PeerFacts
<1>2. rxbuf[m] \in Seq(WireBeat) /\ w[o] \in Seq(StreamBeat)
  BY <1>1 DEF NodeTypeOK
<1>3. Head(rxbuf[m]) = rxbuf[m][1] /\ rxbuf[m][1] \in WireBeat
  BY <1>2
<1>4. w[o] # <<>> /\ Alike(w[o][1], rxbuf[m][1])
  BY DEF Fed
<1>5. w[o][1] \in StreamBeat /\ 1 \in DOMAIN w[o]
  BY <1>2, <1>4
<1>6. FramingAt(w, o)
  BY <1>1 DEF Framing
<1> HIDE DEF o
<1>7. Joined(Received(m), w[o][1])
  BY <1>1, <1>4, <1>6 DEF FramingAt, Chain
<1>8. QED
  BY <1>1, <1>2, <1>3, <1>4, <1>5, <1>6, <1>7 DEF FramingAt, o

LEMMA RxHeaderFrames ==
  ASSUME NodeTypeOK, NodeTypeOK', NEW w, NEW t, NEW r, NEW c, Frames(w, t, r, c),
         Fed(w), NEW m \in Nodes, RxHeader(m)
  PROVE  \E v : Frames(v, t, r, c)' /\ Moved(m, w, v)
<1> USE DEF Frames
<1> DEFINE o == Peer[m]
           v == [w EXCEPT ![o] = Tail(@)]
<1>1. /\ UNCHANGED <<genVars, chkVars, ptx, prx, tx, txbuf, grant>>
      /\ rx[m] = "IDLE" /\ rxbuf[m] # <<>> /\ rxbuf' = [rxbuf EXCEPT ![m] = Tail(@)]
      /\ rx'[m] = "HEADER" /\ hdr'[m] = Decode(Head(rxbuf[m]))
      /\ \A n \in Nodes : n # m => rx'[n] = rx[n] /\ hdr'[n] = hdr[n]
  BY DEF RxHeader, txVars, NodeTypeOK
<1>2. /\ o \in Nodes /\ Peer[o] = m /\ Head(rxbuf[m]) = rxbuf[m][1] /\ rxbuf[m][1] \in WireBeat
      /\ w[o] \in Seq(StreamBeat) /\ w[o] # <<>> /\ w[o][1] \in StreamBeat
      /\ Alike(w[o][1], rxbuf[m][1]) /\ Joined(Received(m), w[o][1])
      /\ w[o][1].head => ~w[o][1].last
  BY <1>1, NextReceived
<1>3. w[o][1].head /\ rxbuf[m][1].head
  BY <1>1, <1>2 DEF Joined, Received, Alike, WireBeat, StreamBeat
<1>4. hdr'[m].magic /\ hdr'[m].pf = w[o][1].pf
  <2> DEFINE b == rxbuf[m][1]
  <2>1. b.head /\ w[o][1].pf = b.pf /\ hdr'[m] = Decode(b)
    BY <1>1, <1>2, <1>3 DEF Alike
  <2> HIDE DEF b
  <2>2. Decode(b).magic /\ Decode(b).pf = b.pf
    BY <2>1 DEF Decode
  <2>3. QED
    BY <2>1, <2>2
<1>5. \A n \in Nodes : Sent(n)' = Sent(n) /\ Seen(n)' = Seen(n)
  BY <1>1, CountersKept DEF genVars, chkVars
<1>6. Lanes(v, t, r, c)'
  <2>1. \A s \in Nodes, k \in BOOLEAN :
          Lane(w[s], StreamKind(k), r[s][k], t[s][k], len[Owner(s, k)])
            => Lane(v[s], StreamKind(k), r[s][k], t[s][k], len[Owner(s, k)])
    <3> SUFFICES ASSUME NEW s \in Nodes, NEW k \in BOOLEAN,
                        Lane(w[s], StreamKind(k), r[s][k], t[s][k], len[Owner(s, k)])
                 PROVE  Lane(v[s], StreamKind(k), r[s][k], t[s][k], len[Owner(s, k)])
      OBVIOUS
    <3>1. CASE s = o
      <4>1. v[s] = Tail(w[o]) /\ w[o][1] \notin StreamKind(k)
        BY <1>2, <1>3, <3>1 DEF StreamKind
      <4>2. r[s][k] \in Nat /\ t[s][k] \in Nat /\ len[Owner(s, k)] \in Nat
        BY LaneTypes
      <4> HIDE DEF v
      <4>3. QED
        BY <1>2, <3>1, <4>1, <4>2, LaneDrop
    <3>2. CASE s # o
      BY <3>2
    <3>3. QED
      BY <3>1, <3>2
  <2>2. \A n \in Nodes : rx[n] = "RECEIVE" => rx'[n] = "RECEIVE" /\ hdr'[n] = hdr[n]
    BY <1>1
  <2> HIDE DEF v
  <2>3. QED
    BY <1>1, <1>5, <2>1, <2>2, LanesKept DEF genVars
<1>7. Framing(v)'
  <2>1. ~Received(m).last' /\ Received(m).pf' = w[o][1].pf
    BY <1>1, <1>4 DEF Received
  <2>2. QED
    BY <1>1, <1>2, <1>3, <1>4, <2>1, FramingTail
<1>8. Arbitration'
  BY ArbitrationStep DEF NodeStep
<1>9. v \in [Nodes -> Seq(StreamBeat)]
  BY <1>2
<1>10. Moved(m, w, v)
  BY <1>1 DEF Moved
<1> HIDE DEF v
<1>11. Frames(v, t, r, c)'
  BY <1>1, <1>6, <1>7, <1>8, <1>9, ReportsKept
<1>12. QED
  BY <1>10, <1>11

LEMMA RxBeatFrames ==
  ASSUME NodeTypeOK, NodeTypeOK', NEW w, NEW t, NEW r, NEW c, Frames(w, t, r, c),
         Fed(w), NEW m \in Nodes, RxBeat(m)
  PROVE  \E v, q : Frames(v, t, q, c)' /\ Moved(m, w, v)
<1> USE DEF Frames
<1> DEFINE o == Peer[m]
           e == [data |-> rxbuf[m][1].data, last |-> rxbuf[m][1].last, pf |-> hdr[m].pf]
<1>1. /\ rxbuf[m] # <<>> /\ rxbuf' = [rxbuf EXCEPT ![m] = Tail(@)]
      /\ UNCHANGED <<genVars, chkVars, ptx, tx, txbuf, hdr, grant>>
  BY DEF RxBeat, txVars
<1>2. /\ o \in Nodes /\ Peer[o] = m /\ Head(rxbuf[m]) = rxbuf[m][1] /\ rxbuf[m][1] \in WireBeat
      /\ w[o] \in Seq(StreamBeat) /\ w[o] # <<>> /\ w[o][1] \in StreamBeat
      /\ Alike(w[o][1], rxbuf[m][1]) /\ Joined(Received(m), w[o][1])
      /\ rx[m] # "DROP" /\ (rx[m] # "IDLE" => hdr[m].magic)
  BY <1>1, NextReceived
<1>3. rx[m] = "RECEIVE" /\ prx' = [prx EXCEPT ![m] = Append(@, e)]
  BY <1>2 DEF RxBeat
<1>4. ~w[o][1].head /\ w[o][1].pf = hdr[m].pf
  BY <1>2, <1>3 DEF Joined, Received, StreamBeat
<1>5. /\ hdr[m].pf \in BOOLEAN /\ e \in UserBeat /\ e.pf = hdr[m].pf
      /\ e.data = w[o][1].data /\ e.last = w[o][1].last
  BY <1>2 DEF UserBeat, WireBeat, Alike, NodeTypeOK
<1> HIDE DEF e
<1>6. /\ rx' = IF e.last THEN [rx EXCEPT ![m] = "IDLE"] ELSE rx
  BY <1>2, <1>5 DEF RxBeat, RxAfter, Alike
<1>7. /\ rx'[m] = "IDLE" <=> e.last
      /\ ~e.last => rx'[m] = "RECEIVE"
      /\ rx'[m] # "DROP"
      /\ \A n \in Nodes : n # m => rx'[n] = rx[n]
  <2>1. CASE e.last
    BY <1>6, <2>1 DEF NodeTypeOK
  <2>2. CASE ~e.last
    BY <1>3, <1>6, <2>2
  <2>3. QED
    BY <2>1, <2>2
<1>8. PICK k \in BOOLEAN : k = hdr[m].pf
  BY <1>5
<1> DEFINE v == [w EXCEPT ![o] = Tail(@)]
           q == [r EXCEPT ![o][k] = @ + 1]
<1>9. \A n \in Nodes : Sent(n)' = Sent(n) /\ Seen(n)' = Seen(n)
  BY <1>1, CountersKept DEF genVars, chkVars
<1>10. Lanes(v, t, q, c)'
  <2>1. /\ prx' = [prx EXCEPT ![Peer[o]] = Append(@, e)] /\ UNCHANGED <<ptx, hdr, len>>
        /\ \A n \in Nodes : n # Peer[o] => rx'[n] = rx[n]
        /\ rx[Peer[o]] = "RECEIVE" /\ hdr[Peer[o]].pf = k
        /\ ~e.last => rx'[Peer[o]] = "RECEIVE"
    BY <1>1, <1>2, <1>3, <1>7, <1>8 DEF genVars
  <2>2. ~w[o][1].head /\ w[o][1].pf = k /\ e.pf = k
    BY <1>4, <1>5, <1>8
  <2> HIDE DEF o
  <2>3. /\ w \in [Nodes -> Seq(StreamBeat)] /\ c \in [Nodes -> Nat]
        /\ t \in [Nodes -> [BOOLEAN -> Nat]] /\ r \in [Nodes -> [BOOLEAN -> Nat]]
        /\ Lanes(w, t, r, c)
    OBVIOUS
  <2>4. o \in Nodes /\ w[o] # <<>> /\ e \in UserBeat
    BY <1>2, <1>5
  <2>5. e.data = w[o][1].data /\ e.last = w[o][1].last
    BY <1>5
  <2>6. QED
    BY <1>9, <2>1, <2>2, <2>3, <2>4, <2>5, LanesReceive, ZenonT(60)
<1>11. Framing(v)'
  <2>1. /\ Received(m).last' <=> w[o][1].last
        /\ Received(m).pf' = w[o][1].pf
    BY <1>1, <1>4, <1>5, <1>7 DEF Received
  <2>2. hdr'[m].magic
    BY <1>1, <1>2, <1>3
  <2>3. QED
    BY <1>1, <1>2, <1>7, <2>1, <2>2, FramingTail
<1>12. Arbitration'
  BY ArbitrationStep DEF NodeStep
<1>13. v \in [Nodes -> Seq(StreamBeat)] /\ q \in [Nodes -> [BOOLEAN -> Nat]]
  BY <1>2
<1>14. Moved(m, w, v)
  BY <1>1 DEF Moved
<1> HIDE DEF v, q
<1>15. Frames(v, t, q, c)'
  BY <1>1, <1>10, <1>11, <1>12, <1>13, ReportsKept
<1>16. QED
  BY <1>14, <1>15

\* The steps that move no beat.
LEMMA IdleFrames ==
  ASSUME NodeTypeOK, NodeTypeOK', NEW w, NEW t, NEW r, NEW c, Frames(w, t, r, c),
         NEW m \in Nodes,
         ProbeStart(m) \/ Regrant(m) \/ TxStart(m) \/ RxJudge(m) \/ StatusPulse(m)
  PROVE  Frames(w, t, r, c)' /\ UNCHANGED <<txbuf, rxbuf>>
<1> USE DEF Frames
<1>1. UNCHANGED <<tfg, len, beats, chkBeats, frameErr, ptx, prx, hdr, txbuf, rxbuf>>
  BY DEF ProbeStart, Regrant, TxStart, RxJudge, StatusPulse, genVars, chkVars, txVars, rxVars
<1>2. \A n \in Nodes : Open(n)' <=> Open(n)
  <2>1. CASE StatusPulse(m)
    BY <2>1 DEF StatusPulse, Open, NodeTypeOK
  <2>2. CASE ~StatusPulse(m)
    BY <2>2 DEF ProbeStart, Regrant, TxStart, RxJudge, genVars, chkVars, Open
  <2>3. QED
    BY <2>1, <2>2
<1>3. \A n \in Nodes : Sent(n)' = Sent(n) /\ Seen(n)' = Seen(n)
  BY <1>1, <1>2 DEF Sent, Seen
<1>4. \A n \in Nodes : /\ rx'[n] = "IDLE" <=> rx[n] = "IDLE"
                       /\ rx'[n] # "DROP"
                       /\ rx[n] = "RECEIVE" => rx'[n] = "RECEIVE"
  <2>1. \A n \in Nodes : rx[n] # "DROP" /\ (rx[n] # "IDLE" => hdr[n].magic)
    BY PeerFacts DEF Framing, FramingAt
  <2>2. CASE RxJudge(m)
    <3>1. hdr[m].magic /\ rx[m] = "HEADER"
      BY <2>1, <2>2 DEF RxJudge
    <3>2. rx' = [rx EXCEPT ![m] = "RECEIVE"]
      BY <2>2, <3>1 DEF RxJudge
    <3>3. QED
      BY <2>1, <3>1, <3>2 DEF NodeTypeOK
  <2>3. CASE ~RxJudge(m)
    BY <2>1, <2>3 DEF ProbeStart, Regrant, TxStart, StatusPulse, rxVars
  <2>4. QED
    BY <2>2, <2>3
<1>5. \A n \in Nodes : /\ tx'[n] = "SEND_DATA" <=> tx[n] = "SEND_DATA"
                       /\ tx[n] = "SEND_DATA" => Waiting(n).pf' = Waiting(n).pf
  <2>1. CASE Regrant(m)
    <3> SUFFICES ASSUME NEW n \in Nodes, tx[n] = "SEND_DATA" PROVE Waiting(n).pf' = Waiting(n).pf
      BY <2>1 DEF Regrant, txVars
    <3>1. n = m /\ ptx[n] = <<>> => ~Midframe(n)
      BY <2>1 DEF Regrant, Arbitration, ArbitrationAt
    <3>2. tx'[n] = tx[n] /\ (n # m => grant'[n] = grant[n])
      BY <2>1 DEF Regrant, txVars, NodeTypeOK
    <3>3. QED
      BY <1>1, <3>1, <3>2, WaitingKept
  <2>2. CASE ~Regrant(m)
    <3>1. grant' = grant
      BY <2>2 DEF ProbeStart, TxStart, RxJudge, StatusPulse
    <3>2. tx' = tx \/ (tx[m] = "IDLE" /\ tx' = [tx EXCEPT ![m] = "SEND_HEADER"])
      BY <2>2 DEF ProbeStart, TxStart, RxJudge, StatusPulse, txVars
    <3>3. \A n \in Nodes : tx'[n] = "SEND_DATA" <=> tx[n] = "SEND_DATA"
      <4>1. CASE tx' = tx
        BY <4>1
      <4>2. CASE tx' # tx
        <5>1. /\ tx[m] = "IDLE" /\ tx'[m] = "SEND_HEADER"
              /\ \A n \in Nodes : n # m => tx'[n] = tx[n]
          BY <3>2, <4>2 DEF NodeTypeOK
        <5>2. QED
          BY <5>1
      <4>3. QED
        BY <4>1, <4>2
    <3>4. QED
      BY <1>1, <3>1, <3>3 DEF Waiting
  <2>3. QED
    BY <2>1, <2>2
<1>6. Lanes(w, t, r, c)'
  BY <1>1, <1>3, <1>4, LanesKept
<1>7. Framing(w)'
  BY <1>1, <1>4, <1>5, FramingKept
<1>8. Arbitration'
  BY ArbitrationStep DEF NodeStep
<1>9. Reports'
  <2> SUFFICES ASSUME NEW n \in Nodes
               PROVE  /\ tfg'[n] = "RUN" => Open(n)' /\ beats'[n] <= len'[n]
                      /\ ~Open(n)' => chkBeats'[n] = 0
                      /\ ~frameErr'[n]
                      /\ status'[n].valid => /\ tester'[n] = "COUNT_LATENCY" /\ ~status'[n].err
                                             /\ status'[n].length = StatusLength(len'[n])
    BY DEF Reports, StatusLength
  <2>1. status'[n].valid => status'[n] = status[n] /\ tester'[n] = tester[n]
    <3>1. CASE StatusPulse(m)
      BY <3>1 DEF StatusPulse, NodeTypeOK
    <3>2. CASE ~StatusPulse(m)
      BY <3>2 DEF ProbeStart, Regrant, TxStart, RxJudge, genVars, chkVars
    <3>3. QED
      BY <3>1, <3>2
  <2>2. QED
    BY <1>1, <1>2, <2>1 DEF Reports
<1>10. QED
  BY <1>1, <1>6, <1>7, <1>8, <1>9

\* A command: the frame before has come back whole, so its counters restart.
LEMMA CommandFrames ==
  ASSUME NodeTypeOK, NodeTypeOK', NEW w, NEW t, NEW r, NEW c, Frames(w, t, r, c),
         NEW m \in Commanders, NEW l \in Lengths, Command(m, l)
  PROVE  /\ \E u, q : Frames(w, u, q, ClearedEchoes(c, m))'
         /\ UNCHANGED <<txbuf, rxbuf>>
<1> USE DEF Frames
<1>0. m \in Nodes
  BY PeerFacts
<1>1. UNCHANGED <<chkVars, probe, grant, ptx, prx, tx, txbuf, rx, hdr, rxbuf>>
  BY DEF Command, txVars, rxVars
<1>2. /\ tester[m] = "STOP" /\ tester'[m] = "COUNT_LATENCY" /\ tfg'[m] = "RUN"
      /\ len'[m] = l /\ beats'[m] = 0
      /\ \A n \in Nodes : n # m => /\ tester'[n] = tester[n] /\ tfg'[n] = tfg[n]
                                   /\ len'[n] = len[n] /\ beats'[n] = beats[n]
  BY <1>0 DEF Command, NodeTypeOK
<1>3. ~Open(m) /\ chkBeats[m] = 0 /\ ~status[m].valid
  BY <1>0, <1>2 DEF Open, Reports
<1>4. Open(m)' /\ \A n \in Nodes : n # m => (Open(n)' <=> Open(n))
  BY <1>1, <1>2, <1>3 DEF Open, chkVars
<1>5. Sent(m)' = 0 /\ Seen(m)' = 0
  BY <1>1, <1>2, <1>3, <1>4 DEF Sent, Seen, chkVars
<1>6. \A n \in Nodes : n # m => Sent(n)' = Sent(n) /\ Seen(n)' = Seen(n)
  BY <1>1, <1>2, <1>4 DEF Sent, Seen, chkVars
<1> DEFINE u == Cleared(t, m)
           q == Cleared(r, m)
           d == ClearedEchoes(c, m)
<1>7. /\ u \in [Nodes -> [BOOLEAN -> Nat]] /\ q \in [Nodes -> [BOOLEAN -> Nat]]
      /\ d \in [Nodes -> Nat]
  BY DEF Cleared, ClearedEchoes
<1>8. Lanes(w, u, q, d)'
  BY <1>0, <1>1, <1>2, <1>3, <1>5, <1>6, LanesCommand
<1> HIDE DEF u, q, d
<1>9. Framing(w)'
  <2>1. \A n \in Nodes : Waiting(n)' = Waiting(n)
    BY <1>1 DEF Waiting
  <2>2. \A n \in Nodes : rx[n] # "DROP"
    BY PeerFacts DEF Framing, FramingAt
  <2>3. QED
    BY <1>1, <2>1, <2>2, FramingKept
<1>10. Arbitration'
  BY <1>0, ArbitrationStep
<1>11. Reports'
  <2> SUFFICES ASSUME NEW n \in Nodes
               PROVE  /\ tfg'[n] = "RUN" => Open(n)' /\ beats'[n] <= len'[n]
                      /\ ~Open(n)' => chkBeats'[n] = 0
                      /\ ~frameErr'[n]
                      /\ status'[n].valid => /\ tester'[n] = "COUNT_LATENCY" /\ ~status'[n].err
                                             /\ status'[n].length = StatusLength(len'[n])
    BY DEF Reports, StatusLength
  <2>1. CASE n = m
    <3>1. l \in Nat
      BY NodeAssumption
    <3>2. QED
      BY <1>1, <1>2, <1>3, <1>4, <2>1, <3>1 DEF Reports, chkVars
  <2>2. CASE n # m
    BY <1>1, <1>2, <1>4, <2>2 DEF Reports, chkVars
  <2>3. QED
    BY <2>1, <2>2
<1>12. Frames(w, u, q, d)'
  BY <1>7, <1>8, <1>9, <1>10, <1>11
<1>13. QED
  BY <1>1, <1>12 DEF d

-----------------------------------------------------------------------------
(***************************************************************************)
(* Who is still at work on a frame.  A checker that waits has not seen all *)
(* of it, a generator in the middle of it has the arbiter, and a probe     *)
(* that echoes has a tester at the other end that waits and has not passed *)
(* back its last beat.  It is what tells a stopped node from a quiet one.  *)
(***************************************************************************)
AtWorkAt(c, n) ==
  /\ Open(n) => chkBeats[n] <= len[n]
  /\ tfg[n] = "RUN" /\ beats[n] > 0 => grant[n] = "tester"
  /\ probe[n] = "PROBE_RESPONSE" => /\ Open(Peer[n]) /\ Sent(Peer[n]) > 0
                                    /\ c[n] <= len[Peer[n]]

AtWork(c) == \A n \in Nodes : AtWorkAt(c, n)

LEMMA AtWorkInit ==
  ASSUME NodeInit, NEW c
  PROVE  AtWork(c)
<1>1. \A n \in Nodes : tester[n] = "STOP" /\ tfg[n] = "IDLE" /\ probe[n] = "IDLE"
  BY DEF NodeInit
<1>2. QED
  BY <1>1 DEF AtWork, AtWorkAt, Open

LEMMA AtWorkUnread ==
  ASSUME NEW c, AtWork(c), UNCHANGED <<genVars, chkVars, probe, grant>>
  PROVE  AtWork(c)'
BY DEF AtWork, AtWorkAt, Open, Sent, genVars, chkVars

\* What a probe finds in front of it is the next beat of a frame whose tester waits.
LEMMA ProbeSees ==
  ASSUME NodeTypeOK, NEW w, NEW t, NEW r, NEW c, Frames(w, t, r, c), NEW m \in Nodes,
         prx[m] # <<>>, prx[m][1].pf
  PROVE  /\ Open(Peer[m]) /\ c[m] < Sent(Peer[m]) /\ c[m] <= len[Peer[m]]
         /\ prx[m][1].last <=> c[m] = len[Peer[m]]
<1> USE DEF Frames
<1> DEFINE o == Peer[m]
           rb == r[m][FALSE]
           tb == t[m][FALSE]
           ra == r[o][TRUE]
           ta == t[o][TRUE]
           K == UserKind(TRUE)
<1>1. o \in Nodes /\ Peer[o] = m
  BY PeerFacts
<1>2. Lane(prx[m], K, c[m], ra, len[o])
  BY <1>1 DEF Lanes, LanesAt, Taken, Owner
<1>3. prx[m] \in Seq(UserBeat)
  BY DEF NodeTypeOK
<1>4. prx[m][1] \in K /\ \A b \in K : b.data \in Nat
  <2>1. prx[m][1] \in UserBeat
    BY <1>3
  <2>2. prx[m][1] \in K
    BY <2>1 DEF UserKind, UserBeat
  <2>3. QED
    BY <2>2, KindData
<1>5. /\ Seen(o) \in Nat /\ Sent(o) \in Nat /\ len[o] \in Nat /\ beats[o] \in Nat
      /\ rb \in Nat /\ tb \in Nat /\ c[m] \in Nat /\ ra \in Nat /\ ta \in Nat
  BY <1>1, CounterTypes
<1>6. Seen(o) <= rb /\ rb <= tb /\ tb <= c[m] /\ c[m] <= ra /\ ra <= ta /\ ta <= Sent(o)
  BY <1>1, LaneBounds
<1>7. tfg[o] = "RUN" => beats[o] <= len[o]
  BY <1>1 DEF Reports
<1> HIDE DEF K, o, rb, tb, ra, ta
<1>8. c[m] < ra /\ (prx[m][1].last <=> c[m] = len[o])
  BY <1>2, <1>3, <1>4, <1>5, LaneNext
<1>9. c[m] < Sent(o) /\ Seen(o) < Sent(o)
  BY <1>5, <1>6, <1>8
<1>10. Open(o)
  BY <1>5, <1>9 DEF Seen
<1>11. c[m] <= len[o]
  BY <1>5, <1>7, <1>9 DEF Sent
<1>12. QED
  BY <1>8, <1>9, <1>10, <1>11 DEF o

LEMMA CommandWork ==
  ASSUME NodeTypeOK, NEW w, NEW t, NEW r, NEW c, Frames(w, t, r, c), AtWork(c),
         NEW m \in Nodes, NEW l \in Lengths, Command(m, l)
  PROVE  AtWork(ClearedEchoes(c, m))'
<1> SUFFICES ASSUME NEW n \in Nodes PROVE AtWorkAt(ClearedEchoes(c, m), n)'
  BY DEF AtWork
<1>1. AtWorkAt(c, n) /\ Peer[n] \in Nodes
  BY PeerFacts DEF AtWork
<1>2. /\ tester[m] = "STOP" /\ UNCHANGED <<chkVars, probe, grant>>
      /\ len'[m] = l /\ beats'[m] = 0
      /\ \A o \in Nodes : o # m => /\ tester'[o] = tester[o] /\ tfg'[o] = tfg[o]
                                   /\ len'[o] = len[o] /\ beats'[o] = beats[o]
  BY DEF Command, NodeTypeOK
<1>3. ~Open(m) /\ chkBeats[m] = 0 /\ l \in Nat
  BY <1>2, NodeAssumption DEF Open, Frames, Reports
<1>4. \A o \in Nodes : o # m => (Open(o)' <=> Open(o)) /\ Sent(o)' = Sent(o)
  BY <1>2 DEF Open, Sent, chkVars
<1>5. Open(n)' => chkBeats'[n] <= len'[n]
  BY <1>1, <1>2, <1>3, <1>4 DEF AtWorkAt, chkVars
<1>6. tfg'[n] = "RUN" /\ beats'[n] > 0 => grant'[n] = "tester"
  BY <1>1, <1>2 DEF AtWorkAt
<1>7. probe'[n] = "PROBE_RESPONSE" => /\ Open(Peer[n])' /\ Sent(Peer[n])' > 0
                                      /\ ClearedEchoes(c, m)[n] <= len'[Peer[n]]
  <2> SUFFICES ASSUME probe'[n] = "PROBE_RESPONSE"
               PROVE  /\ Open(Peer[n])' /\ Sent(Peer[n])' > 0
                      /\ ClearedEchoes(c, m)[n] <= len'[Peer[n]]
    OBVIOUS
  <2>1. Open(Peer[n]) /\ Sent(Peer[n]) > 0 /\ c[n] <= len[Peer[n]]
    BY <1>1, <1>2 DEF AtWorkAt
  <2>2. Peer[n] # m
    BY <1>3, <2>1
  <2>3. ClearedEchoes(c, m)[n] = c[n]
    BY <2>2 DEF ClearedEchoes
  <2>4. QED
    BY <1>1, <1>2, <1>4, <2>1, <2>2, <2>3
<1>8. QED
  BY <1>5, <1>6, <1>7 DEF AtWorkAt

LEMMA GeneratorWork ==
  ASSUME NodeTypeOK, NEW w, NEW t, NEW r, NEW c, Frames(w, t, r, c), AtWork(c),
         NEW m \in Nodes, GeneratorBeat(m)
  PROVE  AtWork(c)'
<1> SUFFICES ASSUME NEW n \in Nodes PROVE AtWorkAt(c, n)'
  BY DEF AtWork
<1>1. AtWorkAt(c, n) /\ Peer[n] \in Nodes
  BY PeerFacts DEF AtWork
<1>2. /\ UNCHANGED <<tester, len, chkBeats, status, probe>>
      /\ \A o \in Nodes : o # m => /\ tfg'[o] = tfg[o] /\ beats'[o] = beats[o]
                                   /\ grant'[o] = grant[o]
      /\ tfg[m] = "RUN" /\ grant[m] = "tester"
  BY DEF GeneratorBeat, chkVars, NodeTypeOK
<1>3. beats[m] <= len[m] /\ beats[m] \in Nat /\ len[m] \in Nat /\ len[m] < CountMod
  BY <1>2, CounterTypes DEF Frames, Reports
<1>4. \A o \in Nodes : Open(o)' <=> Open(o)
  BY <1>2 DEF Open
<1>5. Sent(m)' = beats[m] + 1 /\ Sent(m) = beats[m]
  <2>1. CASE beats[m] = len[m]
    <3>1. tfg'[m] = "IDLE"
      BY <2>1 DEF GeneratorBeat, NodeTypeOK
    <3>2. QED
      BY <1>2, <2>1, <3>1 DEF Sent
  <2>2. CASE beats[m] # len[m]
    <3>1. tfg'[m] = "RUN" /\ beats'[m] = (beats[m] + 1) % CountMod
      BY <1>2, <2>2 DEF GeneratorBeat, NodeTypeOK
    <3>2. QED
      BY <1>2, <1>3, <2>2, <3>1, CountStep DEF Sent
  <2>3. QED
    BY <2>1, <2>2
<1>6. tfg'[m] = "RUN" => grant'[m] = "tester"
  <2>1. CASE beats[m] = len[m]
    BY <2>1 DEF GeneratorBeat, NodeTypeOK
  <2>2. CASE beats[m] # len[m]
    <3>1. grant'[m] = GrantAfter(m, FALSE)
      BY <2>2 DEF GeneratorBeat, NodeTypeOK
    <3>2. QED
      BY <1>2, <3>1 DEF GrantAfter
  <2>3. QED
    BY <2>1, <2>2
<1>7. \A o \in Nodes : Sent(o) > 0 => Sent(o)' > 0
  <2>1. Sent(m)' > 0
    BY <1>3, <1>5
  <2>2. \A o \in Nodes : o # m => Sent(o)' = Sent(o)
    BY <1>2 DEF Sent
  <2>3. QED
    BY <2>1, <2>2
<1>8. QED
  BY <1>1, <1>2, <1>4, <1>6, <1>7 DEF AtWorkAt

LEMMA CheckerWork ==
  ASSUME NodeTypeOK, NEW w, NEW t, NEW r, NEW c, Frames(w, t, r, c), AtWork(c),
         NEW m \in Nodes, CheckerBeat(m)
  PROVE  AtWork(c)'
<1> SUFFICES ASSUME NEW n \in Nodes PROVE AtWorkAt(c, n)'
  BY DEF AtWork
<1>1. AtWorkAt(c, n) /\ Peer[n] \in Nodes /\ Peer[Peer[n]] = n
  BY PeerFacts DEF AtWork
<1>2. /\ UNCHANGED <<tester, tfg, len, beats, probe, grant>> /\ prx[m] # <<>> /\ ~prx[m][1].pf
      /\ \A o \in Nodes : o # m => status'[o] = status[o] /\ chkBeats'[o] = chkBeats[o]
  BY DEF CheckerBeat, genVars, NodeTypeOK
<1>3. /\ c \in [Nodes -> Nat] /\ t \in [Nodes -> [BOOLEAN -> Nat]]
      /\ r \in [Nodes -> [BOOLEAN -> Nat]] /\ Lanes(w, t, r, c) /\ Reports
  BY DEF Frames
<1>4. /\ Open(m) /\ chkBeats[m] <= len[m] /\ (prx[m][1].last <=> chkBeats[m] = len[m])
      /\ Lane(Tail(prx[m]), UserKind(FALSE), chkBeats[m] + 1, r[Peer[m]][FALSE], len[m])
  BY <1>2, <1>3, CheckerSees
<1>5. \A o \in Nodes : Sent(o)' = Sent(o) /\ (o # m => (Open(o)' <=> Open(o)))
  BY <1>2 DEF Sent, Open
<1>6. chkBeats[m] \in Nat /\ len[m] \in Nat /\ len[m] < CountMod
  BY CounterTypes
<1>7. CASE prx[m][1].last
  <2>1. status'[m].valid /\ chkBeats'[m] = 0
    BY <1>2, <1>7 DEF CheckerBeat, NodeTypeOK
  <2>2. ~Open(m)'
    BY <2>1 DEF Open
  <2>3. ASSUME Peer[n] = m PROVE probe[n] # "PROBE_RESPONSE"
    <3> DEFINE rb == r[n][FALSE]
               tb == t[n][FALSE]
    <3>1. n = Peer[m] /\ rb \in Nat /\ tb \in Nat /\ c[n] \in Nat
      BY <1>1, <1>3, <2>3
    <3>2. len[m] + 1 <= rb /\ rb <= tb /\ tb <= c[n]
      BY <1>3, <1>4, <1>7, <3>1, LaneBounds DEF Lane
    <3> HIDE DEF rb, tb
    <3>3. ~(c[n] <= len[m])
      BY <1>6, <3>1, <3>2
    <3>4. QED
      BY <1>1, <2>3, <3>3 DEF AtWorkAt
  <2>4. QED
    BY <1>1, <1>2, <1>5, <2>2, <2>3 DEF AtWorkAt
<1>8. CASE ~prx[m][1].last
  <2>1. status'[m] = status[m] /\ chkBeats'[m] = (chkBeats[m] + 1) % CountMod
    BY <1>2, <1>8 DEF CheckerBeat, NodeTypeOK
  <2>2. chkBeats'[m] = chkBeats[m] + 1
    BY <1>4, <1>6, <1>8, <2>1, CountStep
  <2>3. Open(m)' /\ chkBeats'[m] <= len'[m]
    BY <1>2, <1>4, <1>6, <1>8, <2>1, <2>2 DEF Open
  <2>4. QED
    BY <1>1, <1>2, <1>4, <1>5, <2>3 DEF AtWorkAt
<1>9. QED
  BY <1>7, <1>8

LEMMA ProbeWork ==
  ASSUME NodeTypeOK, NEW w, NEW t, NEW r, NEW c, Frames(w, t, r, c), AtWork(c),
         NEW m \in Nodes
  PROVE  /\ ProbeStart(m) => AtWork(c)'
         /\ ProbeBeat(m) => AtWork([c EXCEPT ![m] = @ + 1])'
<1>1. c \in [Nodes -> Nat] /\ \A n \in Nodes : Peer[n] \in Nodes /\ len[n] \in Nat /\ AtWorkAt(c, n)
  BY PeerFacts, CounterTypes DEF Frames, AtWork
<1>2. ASSUME ProbeStart(m) PROVE AtWork(c)'
  <2>1. /\ UNCHANGED <<genVars, chkVars, grant>> /\ \A n \in Nodes : n # m => probe'[n] = probe[n]
        /\ prx[m] # <<>> /\ prx[m][1].pf
    BY <1>2 DEF ProbeStart, NodeTypeOK
  <2>2. Open(Peer[m]) /\ c[m] < Sent(Peer[m]) /\ c[m] <= len[Peer[m]]
    BY <2>1, ProbeSees
  <2>3. \A n \in Nodes : (Open(n)' <=> Open(n)) /\ Sent(n)' = Sent(n)
    BY <2>1, CountersKept DEF genVars, chkVars
  <2>4. Sent(Peer[m]) > 0
    BY <1>1, <2>2, CounterTypes
  <2>5. ASSUME NEW n \in Nodes PROVE AtWorkAt(c, n)'
    BY <1>1, <2>1, <2>2, <2>3, <2>4 DEF AtWorkAt, genVars, chkVars
  <2>6. QED
    BY <2>5 DEF AtWork
<1>3. ASSUME ProbeBeat(m) PROVE AtWork([c EXCEPT ![m] = @ + 1])'
  <2> DEFINE d == [c EXCEPT ![m] = @ + 1]
  <2>1. /\ UNCHANGED <<genVars, chkVars>>
        /\ \A n \in Nodes : n # m => probe'[n] = probe[n] /\ grant'[n] = grant[n]
        /\ prx[m] # <<>> /\ prx[m][1].pf /\ grant[m] = "probe" /\ probe[m] = "PROBE_RESPONSE"
        /\ prx[m][1].last => probe'[m] = "IDLE"
        /\ grant'[m] = GrantAfter(m, prx[m][1].last)
    BY <1>3 DEF ProbeBeat, NodeTypeOK
  <2>2. c[m] <= len[Peer[m]] /\ (prx[m][1].last <=> c[m] = len[Peer[m]])
    BY <2>1, ProbeSees
  <2>3. \A n \in Nodes : (Open(n)' <=> Open(n)) /\ Sent(n)' = Sent(n)
    BY <2>1, CountersKept DEF genVars, chkVars
  <2>4. d[m] = c[m] + 1 /\ \A n \in Nodes : n # m => d[n] = c[n]
    BY <1>1
  <2> HIDE DEF d
  <2>5. probe'[m] = "PROBE_RESPONSE" => d[m] <= len[Peer[m]]
    BY <1>1, <2>1, <2>2, <2>4
  <2>6. tfg[m] = "RUN" /\ beats[m] > 0 => grant'[m] = "tester"
    BY <1>1, <2>1 DEF AtWorkAt
  <2>7. ASSUME NEW n \in Nodes PROVE AtWorkAt(d, n)'
    <3>1. CASE n = m
      BY <1>1, <2>1, <2>3, <2>5, <2>6, <3>1 DEF AtWorkAt, genVars, chkVars
    <3>2. CASE n # m
      BY <1>1, <2>1, <2>3, <2>4, <3>2 DEF AtWorkAt, genVars, chkVars
    <3>3. QED
      BY <3>1, <3>2
  <2>8. QED
    BY <2>7 DEF AtWork, d
<1>4. QED
  BY <1>2, <1>3

LEMMA PulseWork ==
  ASSUME NodeTypeOK, NEW c, AtWork(c), NEW m \in Nodes, StatusPulse(m) \/ Regrant(m)
  PROVE  AtWork(c)'
<1> SUFFICES ASSUME NEW n \in Nodes PROVE AtWorkAt(c, n)'
  BY DEF AtWork
<1>1. AtWorkAt(c, n) /\ Peer[n] \in Nodes
  BY PeerFacts DEF AtWork
<1>2. CASE StatusPulse(m)
  <2>1. /\ UNCHANGED <<tfg, len, beats, chkBeats, probe, grant>>
        /\ status[m].valid /\ tester'[m] = "STOP"
        /\ \A o \in Nodes : o # m => status'[o] = status[o] /\ tester'[o] = tester[o]
    BY <1>2 DEF StatusPulse, NodeTypeOK
  <2>2. \A o \in Nodes : (Open(o)' <=> Open(o)) /\ Sent(o)' = Sent(o)
    BY <2>1 DEF Open, Sent
  <2>3. QED
    BY <1>1, <2>1, <2>2 DEF AtWorkAt
<1>3. CASE Regrant(m)
  <2>1. /\ UNCHANGED <<genVars, chkVars, probe>>
        /\ \A o \in Nodes : o # m => grant'[o] = grant[o]
        /\ grant[m] = "tester" => tfg[m] # "RUN"
        /\ grant[m] = "probe" => grant'[m] = "tester"
    BY <1>3, ArbiterFacts DEF Regrant, NodeTypeOK
  <2>2. \A o \in Nodes : (Open(o)' <=> Open(o)) /\ Sent(o)' = Sent(o)
    BY <2>1, CountersKept DEF genVars, chkVars
  <2>3. tfg[n] = "RUN" /\ beats[n] > 0 => grant'[n] = "tester"
    BY <1>1, <2>1 DEF AtWorkAt
  <2>4. QED
    BY <1>1, <2>1, <2>2, <2>3 DEF AtWorkAt, genVars, chkVars
<1>4. QED
  BY <1>2, <1>3
-----------------------------------------------------------------------------
(***************************************************************************)
(* Frames and AtWork together: at first, and over each step of a node.     *)
(***************************************************************************)
\* At first no frame is anywhere, and every frame of one beat has come back.
LEMMA NodeInitFrames ==
  ASSUME NodeInit
  PROVE  \E t, r, c : Frames([n \in Nodes |-> <<>>], t, r, c) /\ AtWork(c)
<1> DEFINE w == [n \in Nodes |-> <<>>]
           t == [n \in Nodes |-> [k \in BOOLEAN |-> 1]]
           c == [n \in Nodes |-> 1]
<1>1. \A n \in Nodes : ~Open(n) /\ Sent(n) = 1 /\ Seen(n) = 1 /\ len[n] = 0
  <2>1. \A n \in Nodes : tester[n] = "STOP" /\ tfg[n] = "IDLE" /\ len[n] = 0
    BY DEF NodeInit
  <2>2. \A n \in Nodes : ~Open(n)
    BY <2>1 DEF Open
  <2>5. \A n \in Nodes : Sent(n) = 1
    <3> SUFFICES ASSUME NEW n \in Nodes PROVE Sent(n) = 1
      OBVIOUS
    <3>1. tfg[n] # "RUN" /\ len[n] = 0
      BY <2>1
    <3>2. QED
      BY <3>1 DEF Sent
  <2>3. \A n \in Nodes : Seen(n) = Sent(n)
    BY <2>2 DEF Seen, Open
  <2>4. QED
    BY <2>1, <2>2, <2>3, <2>5
<1>2. Lanes(w, t, t, c)
  <2> SUFFICES ASSUME NEW s \in Nodes, NEW k \in BOOLEAN PROVE LanesAt(w, t, t, c, s, k)
    BY DEF Lanes
  <2>1. Peer[s] \in Nodes /\ Owner(s, k) \in Nodes
    BY PeerFacts DEF Owner
  <2>2. /\ ptx[s] = <<>> /\ prx[Peer[s]] = <<>> /\ w[s] = <<>>
        /\ t[s][k] = 1 /\ Entered(c, s, k) = 1 /\ Taken(c, s, k) = 1 /\ len[Owner(s, k)] = 0
    BY <1>1, <2>1 DEF NodeInit, Entered, Taken
  <2>3. \A K, N : Lane(<<>>, K, 1, 1, N)
    BY DEF Lane
  <2> HIDE DEF w, t, c
  <2>4. QED
    BY <2>2, <2>3 DEF LanesAt
<1>3. Framing(w)
  <2> SUFFICES ASSUME NEW s \in Nodes PROVE FramingAt(w, s)
    BY DEF Framing
  <2>1. Peer[s] \in Nodes
    BY PeerFacts
  <2>2. rx[Peer[s]] = "IDLE" /\ tx[s] = "IDLE" /\ w[s] = <<>>
    BY <2>1 DEF NodeInit
  <2>3. Joined(Received(Peer[s]), Waiting(s))
    BY <2>2 DEF Joined, Received, Waiting
  <2>4. Chain(Received(Peer[s]), w[s], Waiting(s))
    BY <2>2, <2>3 DEF Chain
  <2> HIDE DEF w
  <2>5. QED
    BY <2>2, <2>4 DEF FramingAt
<1>4. Arbitration
  BY DEF NodeInit, Arbitration, ArbitrationAt, Midframe
<1>5. Reports
  BY <1>1 DEF NodeInit, Reports
<1>6. /\ w \in [Nodes -> Seq(StreamBeat)] /\ c \in [Nodes -> Nat]
      /\ t \in [Nodes -> [BOOLEAN -> Nat]]
  OBVIOUS
<1> HIDE DEF t, c
<1>7. Frames(w, t, t, c)
  BY <1>2, <1>3, <1>4, <1>5, <1>6 DEF Frames
<1>8. AtWork(c)
  BY AtWorkInit
<1>9. QED
  BY <1>7, <1>8

\* What a node does by itself, as the modules that join two nodes need it.
LEMMA NodeStepFrames ==
  ASSUME NodeTypeOK, NodeTypeOK', NEW w, NEW t, NEW r, NEW c, Frames(w, t, r, c), AtWork(c),
         Fed(w), NEW m \in Nodes, NodeStep(m)
  PROVE  \E v, u, q, d : Frames(v, u, q, d)' /\ AtWork(d)' /\ Moved(m, w, v)
<1>1. CASE GeneratorBeat(m) \/ CheckerBeat(m)
  <2>1. Frames(w, t, r, c)'
    BY <1>1, GeneratorFrames, CheckerFrames
  <2>2. AtWork(c)'
    BY <1>1, GeneratorWork, CheckerWork
  <2>3. Moved(m, w, w)
    BY <1>1 DEF Moved, GeneratorBeat, CheckerBeat, txVars, rxVars
  <2>4. QED
    BY <2>1, <2>2, <2>3
<1>2. CASE ProbeBeat(m)
  <2> DEFINE d == [c EXCEPT ![m] = @ + 1]
  <2>1. Frames(w, t, r, d)'
    BY <1>2, ProbeBeatFrames
  <2>2. AtWork(d)'
    BY <1>2, ProbeWork
  <2>3. Moved(m, w, w)
    BY <1>2 DEF Moved, ProbeBeat, txVars, rxVars
  <2> HIDE DEF d
  <2>4. QED
    BY <2>1, <2>2, <2>3
<1>3. CASE ProbeStart(m) \/ Regrant(m) \/ TxStart(m) \/ RxJudge(m) \/ StatusPulse(m)
  <2>1. Frames(w, t, r, c)' /\ UNCHANGED <<txbuf, rxbuf>>
    BY <1>3, IdleFrames
  <2>2. CASE TxStart(m) \/ RxJudge(m)
    BY <2>1, <2>2, AtWorkUnread DEF Moved, TxStart, RxJudge
  <2>3. CASE ProbeStart(m) \/ Regrant(m) \/ StatusPulse(m)
    <3>1. AtWork(c)'
      BY <2>3, ProbeWork, PulseWork
    <3>2. QED
      BY <2>1, <3>1 DEF Moved
  <2>4. QED
    BY <1>3, <2>2, <2>3
<1>4. CASE TxHeader(m) \/ TxData(m) \/ RxHeader(m) \/ RxBeat(m)
  <2>1. \E v, u, q : Frames(v, u, q, c)' /\ Moved(m, w, v)
    BY <1>4, TxHeaderFrames, TxDataFrames, RxHeaderFrames, RxBeatFrames
  <2>2. AtWork(c)'
    BY <1>4, AtWorkUnread DEF TxHeader, TxData, RxHeader, RxBeat
  <2>3. QED
    BY <2>1, <2>2
<1>5. QED
  BY <1>1, <1>2, <1>3, <1>4 DEF NodeStep
-----------------------------------------------------------------------------
(***************************************************************************)
(* The stream as it is buffered: b holds the beats of w without the pf of  *)
(* data beats, over however many buffers.                                  *)
(***************************************************************************)
Matches(q, b) == Len(q) = Len(b) /\ \A i \in 1..Len(b) : Alike(q[i], b[i])

LEMMA MatchesNext ==
  ASSUME NEW S, NEW T, NEW q \in Seq(S), NEW a \in Seq(T), NEW b \in Seq(T),
         Matches(q, a \o b), a # <<>>
  PROVE  q # <<>> /\ Alike(q[1], a[1]) /\ Matches(Tail(q), Tail(a) \o b)
<1> DEFINE c == a \o b
           d == Tail(a) \o b
           p == Tail(q)
<1>1. /\ Len(a) \in Nat /\ Len(a) > 0 /\ Len(b) \in Nat /\ Len(q) \in Nat
      /\ Len(c) = Len(a) + Len(b) /\ c[1] = a[1] /\ Len(d) = Len(a) - 1 + Len(b)
      /\ \A i \in 1..Len(a) + Len(b) : c[i] = IF i <= Len(a) THEN a[i] ELSE b[i - Len(a)]
      /\ \A i \in 1..Len(a) - 1 + Len(b) :
            d[i] = IF i <= Len(a) - 1 THEN a[i + 1] ELSE b[i - (Len(a) - 1)]
  OBVIOUS
<1>2. Len(q) = Len(c) /\ \A i \in 1..Len(c) : Alike(q[i], c[i])
  BY DEF Matches
<1> HIDE DEF c, d
<1>3. q # <<>> /\ Len(q) > 0
  BY <1>1, <1>2
<1>4. Len(p) = Len(q) - 1 /\ \A i \in 1..Len(q) - 1 : p[i] = q[i + 1]
  BY <1>3
<1> HIDE DEF p
<1>5. \A i \in 1..Len(d) : d[i] = c[i + 1]
  BY <1>1
<1>6. \A i \in 1..Len(d) : Alike(p[i], d[i])
  BY <1>1, <1>2, <1>4, <1>5
<1>7. Matches(p, d)
  BY <1>1, <1>2, <1>4, <1>6 DEF Matches
<1>8. QED
  BY <1>1, <1>2, <1>3, <1>7 DEF d, p

LEMMA MatchesAppend ==
  ASSUME NEW S, NEW T, NEW q \in Seq(S), NEW a \in Seq(T), NEW b \in Seq(T),
         NEW y \in S, NEW x \in T, Matches(q, a \o b), Alike(y, x)
  PROVE  Matches(Append(q, y), a \o Append(b, x))
<1> DEFINE c == a \o b
           d == a \o Append(b, x)
           p == Append(q, y)
<1>1. /\ Len(a) \in Nat /\ Len(b) \in Nat /\ Len(q) \in Nat
      /\ Len(c) = Len(a) + Len(b) /\ Len(d) = Len(c) + 1 /\ d[Len(c) + 1] = x
      /\ \A i \in 1..Len(c) : d[i] = c[i]
  OBVIOUS
<1>2. Len(p) = Len(q) + 1 /\ p[Len(q) + 1] = y /\ \A i \in 1..Len(q) : p[i] = q[i]
  OBVIOUS
<1>3. Len(q) = Len(c) /\ \A i \in 1..Len(c) : Alike(q[i], c[i])
  BY DEF Matches
<1> HIDE DEF c, d, p
<1>4. \A i \in 1..Len(d) : Alike(p[i], d[i])
  <2> SUFFICES ASSUME NEW i \in 1..Len(c) + 1 PROVE Alike(p[i], d[i])
    BY <1>1
  <2>1. CASE i = Len(c) + 1
    BY <1>1, <1>2, <1>3, <2>1
  <2>2. CASE i # Len(c) + 1
    BY <1>1, <1>2, <1>3, <2>2
  <2>3. QED
    BY <2>1, <2>2
<1>5. Matches(p, d)
  BY <1>1, <1>2, <1>3, <1>4 DEF Matches
<1>6. QED
  BY <1>5 DEF d, p

\* A beat that moves from one buffer to the next stays at its place.
LEMMA MoveKeeps ==
  ASSUME NEW T, NEW a \in Seq(T), NEW b \in Seq(T), b # <<>>
  PROVE  Append(a, Head(b)) \o Tail(b) = a \o b
  OBVIOUS

\* Frames speaks of none of the buffers that carry the stream.
LEMMA FramesUnread ==
  ASSUME NEW w, NEW t, NEW r, NEW c, Frames(w, t, r, c),
         UNCHANGED <<genVars, chkVars, probe, grant, ptx, prx, tx, rx, hdr>>
  PROVE  Frames(w, t, r, c)'
<1> USE DEF Frames
<1>1. UNCHANGED <<tester, tfg, len, beats, chkBeats, frameErr, status>>
  BY DEF genVars, chkVars
<1>2. Lanes(w, t, r, c)'
  BY <1>1 DEF Lanes, LanesAt, Entered, Taken, Sent, Seen, Open
<1>3. Framing(w)'
  <2>1. \A n : Received(n)' = Received(n) /\ Waiting(n)' = Waiting(n)
    BY DEF Received, Waiting
  <2>2. QED
    BY <2>1 DEF Framing, FramingAt
<1>4. Arbitration'
  BY <1>1 DEF Arbitration, ArbitrationAt, Midframe, Requests
<1>5. Reports'
  BY ReportsKept
<1>6. QED
  BY <1>2, <1>3, <1>4, <1>5

(***************************************************************************)
(* What the framing of a stream means for its beats: after a last beat     *)
(* comes a header, after a header beat 0, and after any other the next.    *)
(***************************************************************************)
LEMMA FrameEnds ==
  ASSUME NodeTypeOK, NEW w, NEW t, NEW r, NEW c, Frames(w, t, r, c),
         NEW s \in Nodes, NEW k \in BOOLEAN
  PROVE  t[s][k] <= len[Owner(s, k)] + 1
<1> USE DEF Frames
<1>1. \A n \in Nodes : Sent(n) <= len[n] + 1
  <2> SUFFICES ASSUME NEW n \in Nodes PROVE Sent(n) <= len[n] + 1
    OBVIOUS
  <2>1. len[n] \in Nat /\ beats[n] \in Nat /\ (tfg[n] = "RUN" => beats[n] <= len[n])
    BY CounterTypes DEF Reports
  <2>2. QED
    BY <2>1 DEF Sent
<1> DEFINE p == Peer[s]
<1>2. p \in Nodes /\ Peer[p] = s
  BY PeerFacts
<1>3. /\ t[s][TRUE] \in Nat /\ t[s][FALSE] \in Nat /\ c[s] \in Nat /\ r[p][TRUE] \in Nat
      /\ t[p][TRUE] \in Nat /\ len[s] \in Nat /\ len[p] \in Nat /\ Sent(s) \in Nat /\ Sent(p) \in Nat
  BY <1>2, CounterTypes
<1>4. t[s][TRUE] <= Sent(s)
  BY LaneBounds
<1>5. t[s][FALSE] <= c[s] /\ c[s] <= r[p][TRUE] /\ r[p][TRUE] <= t[p][TRUE] /\ t[p][TRUE] <= Sent(p)
  BY <1>2, LaneBounds
<1> HIDE DEF p
<1>6. t[s][TRUE] <= len[s] + 1
  <2> DEFINE a == t[s][TRUE]
             b == Sent(s)
  <2>1. a \in Nat /\ b \in Nat /\ len[s] \in Nat /\ a <= b /\ b <= len[s] + 1
    BY <1>1, <1>3, <1>4
  <2> HIDE DEF a, b
  <2>2. a <= len[s] + 1
    BY <2>1
  <2>3. QED
    BY <2>2 DEF a
<1>7. t[s][FALSE] <= len[p] + 1
  <2> DEFINE a == t[s][FALSE]
             b == r[p][TRUE]
             d == t[p][TRUE]
             e == Sent(p)
  <2>1. /\ a \in Nat /\ c[s] \in Nat /\ b \in Nat /\ d \in Nat /\ e \in Nat
        /\ len[p] \in Nat /\ a <= c[s] /\ c[s] <= b /\ b <= d /\ d <= e /\ e <= len[p] + 1
    BY <1>1, <1>2, <1>3, <1>5
  <2> HIDE DEF a, b, d, e
  <2>2. a <= len[p] + 1
    BY <2>1
  <2>3. QED
    BY <2>2 DEF a
<1>8. CASE k = TRUE
  BY <1>6, <1>8 DEF Owner
<1>9. CASE k = FALSE
  BY <1>7, <1>9 DEF Owner, p
<1>10. QED
  BY <1>8, <1>9

LEMMA FrameStarts ==
  ASSUME NodeTypeOK, NEW w, NEW t, NEW r, NEW c, Frames(w, t, r, c),
         NEW s \in Nodes, NEW i \in DOMAIN w[s], ~w[s][i].head,
         i > 1, w[s][i - 1].head
  PROVE  w[s][i].data = 0
<1> USE DEF Frames
<1> DEFINE q == w[s]
           k == q[i].pf
           K == StreamKind(k)
           lo == r[s][k]
           hi == t[s][k]
           N == len[Owner(s, k)]
           x == q[i].data
<1>1. /\ q \in Seq(StreamBeat) /\ Len(q) \in Nat /\ i \in 1..Len(q) /\ i - 1 \in 1..Len(q)
      /\ DOMAIN q = 1..Len(q) /\ q # <<>>
      /\ \A j \in 1..Len(q) : q[j] \in StreamBeat
  OBVIOUS
<1>2. k \in BOOLEAN /\ x \in Nat /\ q[i] \in K
  <2>1. q[i] \in StreamBeat
    BY <1>1
  <2>2. k \in BOOLEAN /\ q[i] \in K
    BY <2>1 DEF StreamBeat, StreamKind
  <2>3. QED
    BY <2>2, KindData
<1>3. lo \in Nat /\ hi \in Nat /\ N \in Nat /\ hi <= N + 1
  BY <1>2, LaneTypes, FrameEnds
<1>4. Lane(q, K, lo, hi, N) /\ (0 < lo /\ lo <= N => rx[Peer[s]] = "RECEIVE" /\ hdr[Peer[s]].pf = k)
  BY <1>2 DEF Lanes, LanesAt
<1>5. /\ Joined(Received(Peer[s]), q[1]) /\ \A j \in 1..Len(q) - 1 : Joined(q[j], q[j + 1])
  BY <1>1 DEF Framing, FramingAt, Chain
<1>6. \A j \in 1..Len(q) : ~q[j].head /\ q[j].pf = k => q[j] \in K
  BY <1>1 DEF StreamKind
<1>7. \A j \in 1..Len(q) : q[j] \in K => ~q[j].head /\ q[j].pf = k /\ q[j].data \in Nat
  BY <1>2, KindData DEF StreamKind
<1> HIDE DEF q, k, K, lo, hi, N, x
<1>8. lo <= x /\ x < hi
  BY <1>1, <1>2, <1>4 DEF Lane, x
<1>13. \A a, b \in 1..Len(q) : q[a] \in K /\ q[b] \in K /\ a < b => q[a].data < q[b].data
  BY <1>1, <1>4 DEF Lane
<1>9. ~(lo < x)
  <2> SUFFICES ASSUME lo < x PROVE FALSE
    OBVIOUS
  <2>1. x - 1 \in lo..hi - 1 /\ x - 1 # N
    BY <1>2, <1>3, <1>8
  <2>2. PICK j \in 1..Len(q) : q[j] \in K /\ q[j].data = x - 1
    BY <1>1, <1>4, <2>1 DEF Lane
  <2>3. j < i
    <3>1. ~(i < j)
      <4> SUFFICES ASSUME i < j PROVE FALSE
        OBVIOUS
      <4>1. x < x - 1
        BY <1>1, <1>2, <1>13, <2>2 DEF x
      <4>2. QED
        BY <1>2, <4>1
    <3>2. j # i
      BY <1>2, <2>2 DEF x
    <3>3. QED
      BY <1>1, <3>1, <3>2
  <2>4. j # i - 1
    BY <1>7, <2>2 DEF q
  <2>5. j + 1 \in 1..Len(q) /\ j + 1 < i /\ j \in 1..Len(q) - 1
    BY <1>1, <2>3, <2>4
  <2>6. ~q[j].last
    BY <1>1, <1>4, <2>1, <2>2 DEF Lane
  <2>7. q[j + 1] \in K
    <3>1. Joined(q[j], q[j + 1])
      BY <1>5, <2>5
    <3>2. ~q[j].head /\ q[j].pf = k
      BY <1>7, <2>2
    <3>3. ~q[j + 1].head /\ q[j + 1].pf = k
      BY <2>6, <3>1, <3>2 DEF Joined
    <3>4. QED
      BY <1>6, <2>5, <3>3
  <2>8. q[j].data < q[j + 1].data
    <3>1. j < j + 1
      BY <1>1
    <3>2. QED
      BY <1>13, <2>2, <2>5, <2>7, <3>1
  <2>9. q[j + 1].data < x
    BY <1>1, <1>2, <1>4, <2>5, <2>7 DEF Lane, x
  <2>10. q[j + 1].data \in Nat
    BY <1>7, <2>5, <2>7
  <2>11. QED
    BY <1>2, <2>2, <2>8, <2>9, <2>10
<1>10. x = lo
  BY <1>2, <1>3, <1>8, <1>9
<1>11. ~(0 < lo)
  <2> SUFFICES ASSUME 0 < lo PROVE FALSE
    OBVIOUS
  <2>1. rx[Peer[s]] = "RECEIVE" /\ hdr[Peer[s]].pf = k
    BY <1>3, <1>4, <1>8, <1>10
  <2>2. ~q[1].head /\ q[1].pf = k
    BY <1>5, <2>1 DEF Joined, Received
  <2>3. 1 \in 1..Len(q) /\ q[1] \in K
    BY <1>1, <1>6, <2>2
  <2>4. 1 < i
    BY <1>1
  <2>5. lo <= q[1].data /\ q[1].data < x /\ q[1].data \in Nat
    BY <1>1, <1>2, <1>4, <1>7, <2>3, <2>4 DEF Lane, x
  <2>6. QED
    BY <1>3, <1>10, <2>5
<1>12. QED
  BY <1>3, <1>10, <1>11 DEF x, q

LEMMA FrameGoesOn ==
  ASSUME NodeTypeOK, NEW w, NEW t, NEW r, NEW c, Frames(w, t, r, c),
         NEW s \in Nodes, NEW i \in DOMAIN w[s], ~w[s][i].head,
         i > 1, ~w[s][i - 1].head
  PROVE  w[s][i].data = w[s][i - 1].data + 1
<1> USE DEF Frames
<1> DEFINE q == w[s]
           k == q[i].pf
           K == StreamKind(k)
           lo == r[s][k]
           hi == t[s][k]
           N == len[Owner(s, k)]
           h == i - 1
           x == q[i].data
           y == q[h].data
<1>1. /\ q \in Seq(StreamBeat) /\ Len(q) \in Nat /\ i \in 1..Len(q) /\ h \in 1..Len(q) - 1
      /\ DOMAIN q = 1..Len(q) /\ q # <<>> /\ h < i /\ h + 1 = i /\ h \in 1..Len(q)
      /\ \A j \in 1..Len(q) : q[j] \in StreamBeat
  OBVIOUS
<1>2. k \in BOOLEAN /\ x \in Nat /\ q[i] \in K
  <2>1. q[i] \in StreamBeat
    BY <1>1
  <2>2. k \in BOOLEAN /\ q[i] \in K
    BY <2>1 DEF StreamBeat, StreamKind
  <2>3. QED
    BY <2>2, KindData
<1>3. lo \in Nat /\ hi \in Nat /\ N \in Nat
  BY <1>2, LaneTypes
<1>4. Lane(q, K, lo, hi, N)
  BY <1>2 DEF Lanes, LanesAt
<1>5. Joined(q[h], q[h + 1])
  BY <1>1 DEF Framing, FramingAt, Chain
<1>6. q[h] \in K /\ y \in Nat
  <2>1. ~q[h].head /\ q[h].pf = k
    BY <1>1, <1>5 DEF Joined
  <2>2. q[h] \in K
    BY <1>1, <2>1 DEF StreamKind
  <2>3. QED
    BY <1>2, <2>2, KindData
<1>7. \A j \in 1..Len(q) : q[j] \in K => q[j].data \in Nat
  BY <1>2, KindData
<1> HIDE DEF q, k, K, lo, hi, N, x, y, h
<1>8. lo <= y /\ y < x /\ x < hi
  BY <1>1, <1>2, <1>4, <1>6 DEF Lane, x, y
<1>15. \A a, b \in 1..Len(q) : q[a] \in K /\ q[b] \in K /\ a < b => q[a].data < q[b].data
  BY <1>1, <1>4 DEF Lane
<1>9. y + 1 \in lo..hi - 1
  BY <1>2, <1>3, <1>6, <1>8
<1>10. PICK j \in 1..Len(q) : q[j] \in K /\ q[j].data = y + 1
  BY <1>1, <1>4, <1>9 DEF Lane
<1>11. h < j
  <2>1. ~(j < h)
    <3> SUFFICES ASSUME j < h PROVE FALSE
      OBVIOUS
    <3>1. y + 1 < y
      BY <1>1, <1>6, <1>10, <1>15 DEF y
    <3>2. QED
      BY <1>6, <3>1
  <2>2. j # h
    BY <1>6, <1>10 DEF y
  <2>3. QED
    BY <1>1, <2>1, <2>2
<1>12. ~(i < j)
  <2> SUFFICES ASSUME i < j PROVE FALSE
    OBVIOUS
  <2>1. x < y + 1
    BY <1>1, <1>2, <1>4, <1>10 DEF Lane, x
  <2>2. QED
    BY <1>2, <1>6, <1>8, <2>1
<1>13. j = i
  BY <1>1, <1>11, <1>12
<1>14. QED
  BY <1>10, <1>13 DEF x, y, h, q
-----------------------------------------------------------------------------
\* A node takes no step but one it can take.
LEMMA NodeStepCan ==
  ASSUME NEW n \in Nodes, NodeStep(n)
  PROVE  NodeCanStep(n)
BY DEF NodeStep, NodeCanStep, GeneratorBeat, CheckerBeat, StatusPulse, ProbeStart, ProbeBeat,
       Regrant, TxStart, TxHeader, TxData, RxHeader, RxJudge, RxBeat

(***************************************************************************)
(* A node that waits for others.  A beat in front of its probe waits for   *)
(* ptx, ptx for txbuf, and a beat in rxbuf for prx; a generator that waits *)
(* with nothing in front of it waits for an echo.                          *)
(***************************************************************************)
LEMMA NodeWaits ==
  ASSUME NodeTypeOK, NEW n \in Nodes, ~NodeCanStep(n)
  PROVE  /\ ~status[n].valid
         /\ prx[n] # <<>> => /\ prx[n][1].pf /\ probe[n] = "PROBE_RESPONSE"
                             /\ Len(ptx[n]) = SkidDepth
         /\ ptx[n] # <<>> => Len(txbuf[n]) = FifoDepth
         /\ rxbuf[n] # <<>> => rx[n] = "RECEIVE" /\ Len(prx[n]) = SkidDepth
         /\ tfg[n] = "RUN" /\ ptx[n] = <<>> => grant[n] = "probe" /\ probe[n] = "PROBE_RESPONSE"
<1>1. /\ Len(ptx[n]) < SkidDepth \/ Len(ptx[n]) = SkidDepth
      /\ Len(prx[n]) < SkidDepth \/ Len(prx[n]) = SkidDepth
      /\ Len(txbuf[n]) < FifoDepth \/ Len(txbuf[n]) = FifoDepth
      /\ ptx[n] = <<>> => Len(ptx[n]) < SkidDepth
  <2>1. /\ Len(ptx[n]) <= SkidDepth /\ Len(prx[n]) <= SkidDepth /\ Len(txbuf[n]) <= FifoDepth
        /\ ptx[n] \in Seq(UserBeat) /\ prx[n] \in Seq(UserBeat) /\ txbuf[n] \in Seq(WireBeat)
    BY DEF NodeTypeOK
  <2>2. Len(ptx[n]) \in Nat /\ Len(prx[n]) \in Nat /\ Len(txbuf[n]) \in Nat
        /\ (ptx[n] = <<>> => Len(ptx[n]) = 0)
    BY <2>1
  <2>3. FifoDepth \in Nat /\ SkidDepth = 2
    BY ConstantFacts DEF SkidDepth
  <2>4. \A x, y \in Nat : x <= y => x < y \/ x = y
    OBVIOUS
  <2>5. SkidDepth \in Nat /\ (ptx[n] = <<>> => Len(ptx[n]) < SkidDepth)
    BY <2>2, <2>3
  <2>6. QED
    BY <2>1, <2>2, <2>3, <2>4, <2>5, Zenon
<1>2. ~status[n].valid
  BY DEF NodeCanStep
<1>3. tfg[n] = "RUN" /\ Len(ptx[n]) # SkidDepth
        => grant[n] = "probe" /\ probe[n] = "PROBE_RESPONSE"
  <2> SUFFICES ASSUME tfg[n] = "RUN", Len(ptx[n]) # SkidDepth
               PROVE  grant[n] = "probe" /\ probe[n] = "PROBE_RESPONSE"
    OBVIOUS
  <2>1. grant[n] = "probe"
    BY <1>1, ArbiterFacts DEF NodeCanStep
  <2>2. QED
    BY <2>1, ArbiterFacts DEF NodeCanStep
<1>4. ASSUME prx[n] # <<>>
      PROVE  prx[n][1].pf /\ probe[n] = "PROBE_RESPONSE" /\ Len(ptx[n]) = SkidDepth
  <2>1. Head(prx[n]) = prx[n][1]
    BY <1>4 DEF NodeTypeOK
  <2>2. prx[n][1].pf
    BY <1>2, <1>4, <2>1 DEF NodeCanStep
  <2>3. probe[n] = "PROBE_RESPONSE"
    BY <1>4, <2>1, <2>2 DEF NodeCanStep, NodeTypeOK
  <2>4. ASSUME Len(ptx[n]) # SkidDepth PROVE FALSE
    <3>1. grant[n] = "tester"
      BY <1>1, <1>4, <2>1, <2>2, <2>3, <2>4, ArbiterFacts DEF NodeCanStep
    <3>2. tfg[n] = "RUN"
      BY <2>3, <3>1, ArbiterFacts DEF NodeCanStep
    <3>3. QED
      BY <1>3, <2>4, <3>1, <3>2
  <2>5. QED
    BY <2>2, <2>3, <2>4
<1>5. ASSUME ptx[n] # <<>> PROVE Len(txbuf[n]) = FifoDepth
  BY <1>1, <1>5 DEF NodeCanStep, NodeTypeOK
<1>6. ASSUME rxbuf[n] # <<>> PROVE rx[n] = "RECEIVE" /\ Len(prx[n]) = SkidDepth
  BY <1>1, <1>6 DEF NodeCanStep, NodeTypeOK
<1>7. ptx[n] = <<>> => Len(ptx[n]) # SkidDepth
  BY DEF SkidDepth
<1>8. QED
  BY <1>2, <1>3, <1>4, <1>5, <1>6, <1>7

LEMMA LaneNone ==
  ASSUME NEW K, NEW lo \in Nat, NEW hi \in Nat, NEW N, Lane(<<>>, K, lo, hi, N)
  PROVE  lo = hi
<1>1. ~(lo \in lo..hi - 1)
  BY DEF Lane
<1>2. lo <= hi
  BY DEF Lane
<1>3. QED
  BY <1>1, <1>2

\* With nothing on its way all that was sent has been seen.
LEMMA NothingUnderWay ==
  ASSUME NodeTypeOK, NEW w, NEW t, NEW r, NEW c, Frames(w, t, r, c), NEW n \in Nodes,
         w[n] = <<>>, w[Peer[n]] = <<>>, ptx[n] = <<>>, ptx[Peer[n]] = <<>>,
         prx[n] = <<>>, prx[Peer[n]] = <<>>
  PROVE  c[Peer[n]] = Sent(n) /\ Seen(n) = Sent(n)
<1> USE DEF Frames
<1> DEFINE o == Peer[n]
           rb == r[o][FALSE]
           tb == t[o][FALSE]
           ra == r[n][TRUE]
           ta == t[n][TRUE]
<1>1. o \in Nodes /\ Peer[o] = n
  BY PeerFacts
<1>2. LanesAt(w, t, r, c, n, TRUE) /\ LanesAt(w, t, r, c, o, FALSE)
  BY <1>1 DEF Lanes
<1>3. /\ Lane(<<>>, UserKind(TRUE), ta, Sent(n), len[n])
      /\ Lane(<<>>, StreamKind(TRUE), ra, ta, len[n])
      /\ Lane(<<>>, UserKind(TRUE), c[o], ra, len[n])
      /\ Lane(<<>>, UserKind(FALSE), tb, c[o], len[n])
      /\ Lane(<<>>, StreamKind(FALSE), rb, tb, len[n])
      /\ Lane(<<>>, UserKind(FALSE), Seen(n), rb, len[n])
  BY <1>1, <1>2 DEF LanesAt, Owner, Entered, Taken
<1>4. /\ Seen(n) \in Nat /\ Sent(n) \in Nat /\ rb \in Nat /\ tb \in Nat
      /\ c[o] \in Nat /\ ra \in Nat /\ ta \in Nat
  BY <1>1, CounterTypes
<1> HIDE DEF o, rb, tb, ra, ta
<1>5. ta = Sent(n) /\ ra = ta /\ c[o] = ra
  BY <1>3, <1>4, LaneNone
<1>6. tb = c[o] /\ rb = tb /\ Seen(n) = rb
  BY <1>3, <1>4, LaneNone
<1>7. QED
  BY <1>5, <1>6 DEF o

(***************************************************************************)
(* A pair with empty buffers that waits has nothing to wait for.           *)
(***************************************************************************)
LEMMA EmptyIsIdle ==
  ASSUME NodeTypeOK, NEW w, NEW t, NEW r, NEW c, Frames(w, t, r, c), AtWork(c),
         NEW n \in Nodes, ~NodeCanStep(n), ~NodeCanStep(Peer[n]),
         w[n] = <<>>, w[Peer[n]] = <<>>, ptx[n] = <<>>, ptx[Peer[n]] = <<>>,
         prx[n] = <<>>, prx[Peer[n]] = <<>>
  PROVE  tester[n] = "STOP" /\ tfg[n] = "IDLE" /\ probe[n] = "IDLE"
<1> DEFINE o == Peer[n]
<1>1. o \in Nodes /\ Peer[o] = n
  BY PeerFacts
<1>2. /\ len[n] \in Nat /\ beats[n] \in Nat /\ chkBeats[n] \in Nat
      /\ len[o] \in Nat /\ beats[o] \in Nat /\ Sent(o) \in Nat
  BY <1>1, CounterTypes
<1>3. c[o] = Sent(n) /\ Seen(n) = Sent(n) /\ c[n] = Sent(o)
  BY <1>1, NothingUnderWay
<1>4. AtWorkAt(c, n) /\ AtWorkAt(c, o)
  BY <1>1 DEF AtWork
<1>5. probe[n] # "PROBE_RESPONSE"
  <2> SUFFICES ASSUME probe[n] = "PROBE_RESPONSE" PROVE FALSE
    OBVIOUS
  <2>1. Sent(o) > 0 /\ Sent(o) <= len[o]
    BY <1>3, <1>4 DEF AtWorkAt
  <2>2. tfg[o] = "RUN" /\ beats[o] > 0
    BY <1>2, <2>1 DEF Sent
  <2>3. grant[o] = "tester"
    BY <1>4, <2>2 DEF AtWorkAt
  <2>4. grant[o] = "probe"
    BY <1>1, <2>2, NodeWaits
  <2>5. QED
    BY <2>3, <2>4
<1>6. tfg[n] # "RUN"
  BY <1>5, NodeWaits
<1>7. tester[n] # "COUNT_LATENCY"
  <2> SUFFICES ASSUME tester[n] = "COUNT_LATENCY" PROVE FALSE
    OBVIOUS
  <2>1. Open(n)
    BY NodeWaits DEF Open
  <2>2. chkBeats[n] = len[n] + 1
    BY <1>3, <1>6, <2>1 DEF Seen, Sent
  <2>3. chkBeats[n] <= len[n]
    BY <1>4, <2>1 DEF AtWorkAt
  <2>4. QED
    BY <1>2, <2>2, <2>3
<1>8. QED
  BY <1>5, <1>6, <1>7 DEF NodeTypeOK
=============================================================================
