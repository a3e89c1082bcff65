------------------------------ MODULE K2MMNode ------------------------------
(***************************************************************************)
(* One K2MM test-frame node per member of Nodes: the tester (test frame    *)
(* generator, test frame checker and their control FSM), the probe that    *)
(* echoes the peer's frames, the arbiter and dispatcher that join them to  *)
(* the packet engine, and the packet engine itself (skid buffers, header   *)
(* insertion and removal, TX and RX buffers).  cores/tf/framing.py,        *)
(* tfg.py, tfc.py, packet.py, util/epbuf.py.                               *)
(*                                                                         *)
(* One action is one stream handshake (valid & ready on a clock edge) or   *)
(* one FSM transition that moves no beat.  The hardware does many of them  *)
(* in the same clock cycle; taken from the consumer back to the producer   *)
(* they are a sequence of these actions, so every synchronous run is one   *)
(* of the interleavings.                                                   *)
(*                                                                         *)
(* What joins txbuf of a node to rxbuf of another is left to the modules   *)
(* that extend this one: K2MMPing (wires) and K2MMLink (a serial link).    *)
(*                                                                         *)
(* What an action waits for is its first conjunct, named Can...; the rest  *)
(* of it says what it does.                                                *)
(*                                                                         *)
(* A definition marked "Slip" is a plausible mistake in the one that       *)
(* follows it.  No behaviour uses it: it stands here to show that the      *)
(* properties tell the two apart (PROJECT.json, "mutants").                *)
(***************************************************************************)
EXTENDS Naturals, Sequences

CONSTANTS
  Nodes,       \* the K2MM instances
  Peer,        \* Peer[n]: the node at the other end
  Commanders,  \* the nodes whose tester is given commands
  Lengths,     \* the "length"s that commands carry (a frame is length+1 beats)
  CountMod,    \* 2^w of the beat counters of generator and checker (w = 16)
  FifoDepth,   \* depth of tx_buffer and rx_buffer (256)
  BeatBytes,   \* bytes per beat, dw // 8 (32)
  LengthMod,   \* 2^w of the length field of the checker's status (w = 16)
  Lookalike    \* data words whose first bytes read as the K2MM magic

ASSUME NodeAssumption ==
  /\ Peer \in [Nodes -> Nodes]
  /\ \A n \in Nodes : Peer[Peer[n]] = n
  /\ Commanders \subseteq Nodes
  /\ CountMod \in Nat \ {0}
  /\ Lengths \subseteq 0..CountMod - 1
  /\ FifoDepth \in Nat \ {0}
  /\ BeatBytes \in Nat \ {0}
  /\ LengthMod \in Nat \ {0}
  /\ Lookalike \subseteq 0..CountMod - 1

VARIABLES
  tester,      \* tester[n]: FSM of K2MMTester, "STOP" or "COUNT_LATENCY"
  tfg,         \* tfg[n]: FSM of TestFrameGenerator, "IDLE" or "RUN"
  len, beats,  \* the generator's registers
  chkBeats, frameErr,  \* the checker's registers
  status,      \* status[n]: the checker's registered status endpoint
  probe,       \* probe[n]: FSM of K2MMProbe, "IDLE" or "PROBE_RESPONSE"
  grant,       \* grant[n]: the master the arbiter connects to the packet engine
  ptx,         \* ptx[n]: skid buffer in front of K2MMPacketTX
  tx,          \* tx[n]: FSM of K2MMPacketTX, "SEND" split by the packetizer's state
  txbuf,       \* txbuf[n]: tx_buffer, framed beats that leave the node
  rxbuf,       \* rxbuf[n]: rx_buffer, framed beats that arrived
  rx,          \* rx[n]: FSM of K2MMPacketRX, "IDLE" split by the depacketizer's state
  hdr,         \* hdr[n]: magic and pf of the header the depacketizer holds
  prx          \* prx[n]: skid buffer behind K2MMPacketRX

genVars    == <<tester, tfg, len, beats>>
chkVars    == <<chkBeats, frameErr, status>>
txVars     == <<tx, txbuf>>
rxVars     == <<rx, hdr, rxbuf>>
nodeVars   == <<genVars, chkVars, probe, grant, ptx, prx, txVars, rxVars>>

Count == 0..CountMod - 1
Masters == {"probe", "tester"}

\* A data word is a replicated counter, or a header taken for data, which no
\* replicated counter equals.
HeaderWord == CountMod
Word == Count \cup {HeaderWord}

\* A beat inside a node: its data word, last, and the user field pf of the frame.
UserBeat == [data : Word, last : BOOLEAN, pf : BOOLEAN]

\* A beat on the wire.  head: it is a header beat, whose pf counts.  gap is a
\* history bit that no hardware holds: the link lost the beat before this one.
WireBeat == [head : BOOLEAN, pf : BOOLEAN, data : Word, last : BOOLEAN, gap : BOOLEAN]

HeaderBeat(pf) == [head |-> TRUE, pf |-> pf, data |-> HeaderWord, last |-> FALSE,
                   gap |-> FALSE]
DataBeat(b)    == [head |-> FALSE, pf |-> FALSE, data |-> b.data, last |-> b.last,
                   gap |-> FALSE]

\* What the depacketizer decodes from the beat it takes for a header.  A data
\* word that reads as the magic reads as pf = 1 too (bit 0 of the next byte).
Decode(b) == [magic |-> b.head \/ b.data \in Lookalike,
              pf    |-> IF b.head THEN b.pf ELSE b.data \in Lookalike]

SkidDepth == 2      \* PipeValid and PipeReady hold one beat each

NodeInit ==
  /\ tester   = [n \in Nodes |-> "STOP"]
  /\ tfg      = [n \in Nodes |-> "IDLE"]
  /\ len      = [n \in Nodes |-> 0]
  /\ beats    = [n \in Nodes |-> 0]
  /\ chkBeats = [n \in Nodes |-> 0]
  /\ frameErr = [n \in Nodes |-> FALSE]
  /\ status   = [n \in Nodes |-> [valid |-> FALSE, err |-> FALSE, length |-> 0]]
  /\ probe    = [n \in Nodes |-> "IDLE"]
  /\ grant    = [n \in Nodes |-> "probe"]
  /\ ptx      = [n \in Nodes |-> <<>>]
  /\ tx       = [n \in Nodes |-> "IDLE"]
  /\ txbuf    = [n \in Nodes |-> <<>>]
  /\ rxbuf    = [n \in Nodes |-> <<>>]
  /\ rx       = [n \in Nodes |-> "IDLE"]
  /\ hdr      = [n \in Nodes |-> [magic |-> FALSE, pf |-> FALSE]]
  /\ prx      = [n \in Nodes |-> <<>>]
-----------------------------------------------------------------------------
(***************************************************************************)
(* The tester: K2MMTester, TestFrameGenerator, TestFrameChecker.           *)
(***************************************************************************)

\* A command is taken only in STOP, where sink_ctrl reaches the generator, and
\* only while the generator is ready.  At any other time it is not accepted.
Command(n, l) ==
  /\ tester[n] = "STOP"
  /\ tfg[n] = "IDLE"
  /\ tester' = [tester EXCEPT ![n] = "COUNT_LATENCY"]
  /\ tfg'    = [tfg EXCEPT ![n] = "RUN"]
  /\ len'    = [len EXCEPT ![n] = l]
  /\ beats'  = [beats EXCEPT ![n] = 0]
  /\ UNCHANGED <<chkVars, probe, grant, ptx, prx, txVars, rxVars>>

\* A master requests the arbiter from its first valid beat to its last one.
Requests(n, m) ==
  IF m = "probe" THEN probe[n] = "PROBE_RESPONSE" ELSE tfg[n] = "RUN"

Other(m) == CHOOSE o \in Masters : o # m

\* Slip: the grant follows the other's request after any beat.
GrantAfterAnyBeat(n, last) ==
  IF Requests(n, Other(grant[n])) THEN Other(grant[n]) ELSE grant[n]

\* The grant moves only when its master stops requesting and the other requests.
GrantAfter(n, last) ==
  IF last /\ Requests(n, Other(grant[n])) THEN Other(grant[n]) ELSE grant[n]

\* The generator hands a beat to the packet engine.
CanGenerate(n) == tfg[n] = "RUN" /\ grant[n] = "tester" /\ Len(ptx[n]) < SkidDepth
GeneratorBeat(n) ==
  LET last == beats[n] = len[n]
  IN  /\ CanGenerate(n)
      /\ ptx' = [ptx EXCEPT ![n] = Append(@, [data |-> beats[n], last |-> last, pf |-> TRUE])]
      /\ IF last THEN /\ tfg' = [tfg EXCEPT ![n] = "IDLE"]
                      /\ beats' = beats
                 ELSE /\ tfg' = tfg
                      /\ beats' = [beats EXCEPT ![n] = (@ + 1) % CountMod]
      /\ grant' = [grant EXCEPT ![n] = GrantAfter(n, last)]
      /\ UNCHANGED <<tester, len, chkVars, probe, prx, txVars, rxVars>>

StatusLength(b) == ((b + 1) * BeatBytes) % LengthMod

\* Slip: the beat counter is not reset by the last beat.
CheckerBeatNoReset(n) ==
  /\ prx[n] # <<>>
  /\ ~Head(prx[n]).pf
  /\ ~status[n].valid
  /\ prx' = [prx EXCEPT ![n] = Tail(@)]
  /\ frameErr' = [frameErr EXCEPT ![n] = /\ ~Head(prx[n]).last
                                         /\ @ \/ Head(prx[n]).data # chkBeats[n]]
  /\ chkBeats' = IF Head(prx[n]).last THEN chkBeats
                 ELSE [chkBeats EXCEPT ![n] = (@ + 1) % CountMod]
  /\ status' = IF Head(prx[n]).last
               THEN [status EXCEPT ![n] = [valid |-> TRUE, err |-> frameErr[n],
                                           length |-> StatusLength(chkBeats[n])]]
               ELSE status
  /\ UNCHANGED <<genVars, probe, grant, ptx, txVars, rxVars>>

\* The dispatcher gives a beat with pf = 0 to the checker, which is always
\* ready.  The status pulse of the frame before is sampled before this beat's
\* registers change, so a pulse on display blocks the step.
CanCheck(n) == prx[n] # <<>> /\ ~Head(prx[n]).pf /\ ~status[n].valid
CheckerBeat(n) ==
  /\ CanCheck(n)
  /\ prx' = [prx EXCEPT ![n] = Tail(@)]
  /\ IF Head(prx[n]).last
     THEN /\ chkBeats' = [chkBeats EXCEPT ![n] = 0]
          /\ frameErr' = [frameErr EXCEPT ![n] = FALSE]
          /\ status'   = [status EXCEPT ![n] =
                            [valid |-> TRUE, err |-> frameErr[n],
                             length |-> StatusLength(chkBeats[n])]]
     ELSE /\ chkBeats' = [chkBeats EXCEPT ![n] = (@ + 1) % CountMod]
          /\ frameErr' = [frameErr EXCEPT ![n] = @ \/ Head(prx[n]).data # chkBeats[n]]
          /\ status'   = status
  /\ UNCHANGED <<genVars, probe, grant, ptx, txVars, rxVars>>

\* The one-cycle status pulse: it ends the count if one is running and is
\* dropped after its cycle in any case (nothing waits for ready).
StatusPulse(n) ==
  /\ status[n].valid
  /\ status' = [status EXCEPT ![n].valid = FALSE]
  /\ tester' = [tester EXCEPT ![n] = "STOP"]
  /\ UNCHANGED <<tfg, len, beats, chkBeats, frameErr, probe, grant, ptx, prx, txVars, rxVars>>
-----------------------------------------------------------------------------
(***************************************************************************)
(* The probe and the arbiter.                                              *)
(***************************************************************************)

\* The dispatcher offers the probe a frame with pf = 1.
CanStartEcho(n) == probe[n] = "IDLE" /\ prx[n] # <<>> /\ Head(prx[n]).pf
ProbeStart(n) ==
  /\ CanStartEcho(n)
  /\ probe' = [probe EXCEPT ![n] = "PROBE_RESPONSE"]
  /\ UNCHANGED <<genVars, chkVars, grant, ptx, prx, txVars, rxVars>>

\* The probe passes a beat back with pf cleared.
CanEcho(n) ==
  /\ probe[n] = "PROBE_RESPONSE" /\ grant[n] = "probe"
  /\ prx[n] # <<>> /\ Head(prx[n]).pf /\ Len(ptx[n]) < SkidDepth
ProbeBeat(n) ==
  LET last == Head(prx[n]).last
  IN  /\ CanEcho(n)
      /\ prx' = [prx EXCEPT ![n] = Tail(@)]
      /\ ptx' = [ptx EXCEPT ![n] = Append(@, [Head(prx[n]) EXCEPT !.pf = FALSE])]
      /\ probe' = IF last THEN [probe EXCEPT ![n] = "IDLE"] ELSE probe
      /\ grant' = [grant EXCEPT ![n] = GrantAfter(n, last)]
      /\ UNCHANGED <<genVars, chkVars, txVars, rxVars>>

\* Slip: the arbiter turns by itself to one of the two masters only.
CanRegrantTo(n, m) == ~Requests(n, grant[n]) /\ Requests(n, Other(grant[n])) /\ Other(grant[n]) = m
CanRegrantToProbe(n) == CanRegrantTo(n, "probe")
CanRegrantToTester(n) == CanRegrantTo(n, "tester")

\* The arbiter turns to the master that requests while the other is silent.
CanRegrant(n) == ~Requests(n, grant[n]) /\ Requests(n, Other(grant[n]))
Regrant(n) ==
  /\ CanRegrant(n)
  /\ grant' = [grant EXCEPT ![n] = Other(@)]
  /\ UNCHANGED <<genVars, chkVars, probe, ptx, prx, txVars, rxVars>>
-----------------------------------------------------------------------------
(***************************************************************************)
(* The packet engine: K2MMPacketTX, K2MMPacketRX and their buffers.        *)
(***************************************************************************)

\* IDLE: the packetizer's source is valid as soon as a beat waits.
CanStartFrame(n) == tx[n] = "IDLE" /\ ptx[n] # <<>>
TxStart(n) ==
  /\ CanStartFrame(n)
  /\ tx' = [tx EXCEPT ![n] = "SEND_HEADER"]
  /\ UNCHANGED <<genVars, chkVars, probe, grant, ptx, prx, txbuf, rxVars>>

\* Slip: the packetizer does not wait for tx_buffer.
TxHeaderNoWait(n) ==
  /\ tx[n] = "SEND_HEADER"
  /\ ptx[n] # <<>>
  /\ txbuf' = [txbuf EXCEPT ![n] = Append(@, HeaderBeat(Head(ptx[n]).pf))]
  /\ tx' = [tx EXCEPT ![n] = "SEND_DATA"]
  /\ UNCHANGED <<genVars, chkVars, probe, grant, ptx, prx, rxVars>>

CanSendHeader(n) == tx[n] = "SEND_HEADER" /\ ptx[n] # <<>> /\ Len(txbuf[n]) < FifoDepth
TxHeader(n) ==
  /\ CanSendHeader(n)
  /\ txbuf' = [txbuf EXCEPT ![n] = Append(@, HeaderBeat(Head(ptx[n]).pf))]
  /\ tx' = [tx EXCEPT ![n] = "SEND_DATA"]
  /\ UNCHANGED <<genVars, chkVars, probe, grant, ptx, prx, rxVars>>

\* Slip: the packetizer sends one header and never another.
TxDataStays(n) ==
  /\ tx[n] = "SEND_DATA"
  /\ ptx[n] # <<>>
  /\ Len(txbuf[n]) < FifoDepth
  /\ txbuf' = [txbuf EXCEPT ![n] = Append(@, DataBeat(Head(ptx[n])))]
  /\ ptx' = [ptx EXCEPT ![n] = Tail(@)]
  /\ UNCHANGED <<tx, genVars, chkVars, probe, grant, prx, rxVars>>

CanSendData(n) == tx[n] = "SEND_DATA" /\ ptx[n] # <<>> /\ Len(txbuf[n]) < FifoDepth
TxData(n) ==
  /\ CanSendData(n)
  /\ txbuf' = [txbuf EXCEPT ![n] = Append(@, DataBeat(Head(ptx[n])))]
  /\ ptx' = [ptx EXCEPT ![n] = Tail(@)]
  /\ tx' = IF Head(ptx[n]).last THEN [tx EXCEPT ![n] = "IDLE"] ELSE tx
  /\ UNCHANGED <<genVars, chkVars, probe, grant, prx, rxVars>>

\* The depacketizer takes the first beat for a header, whatever it is.
CanTakeHeader(n) == rx[n] = "IDLE" /\ rxbuf[n] # <<>>
RxHeader(n) ==
  /\ CanTakeHeader(n)
  /\ hdr' = [hdr EXCEPT ![n] = Decode(Head(rxbuf[n]))]
  /\ rxbuf' = [rxbuf EXCEPT ![n] = Tail(@)]
  /\ rx' = [rx EXCEPT ![n] = "HEADER"]
  /\ UNCHANGED <<genVars, chkVars, probe, grant, ptx, prx, txVars>>

\* Slip: only frames to be probed are received.
RxJudgeProbesOnly(n) ==
  /\ rx[n] = "HEADER"
  /\ rxbuf[n] # <<>>
  /\ rx' = [rx EXCEPT ![n] = IF hdr[n].magic /\ hdr[n].pf THEN "RECEIVE" ELSE "DROP"]
  /\ UNCHANGED <<genVars, chkVars, probe, grant, ptx, prx, txVars, hdr, rxbuf>>

\* IDLE of K2MMPacketRX sees the first data beat and judges the magic.
CanJudge(n) == rx[n] = "HEADER" /\ rxbuf[n] # <<>>
RxJudge(n) ==
  /\ CanJudge(n)
  /\ rx' = [rx EXCEPT ![n] = IF hdr[n].magic THEN "RECEIVE" ELSE "DROP"]
  /\ UNCHANGED <<genVars, chkVars, probe, grant, ptx, prx, txVars, hdr, rxbuf>>

\* Slip: one beat is dropped, not the rest of the frame.
RxAfterOneDrop(n) ==
  IF Head(rxbuf[n]).last \/ rx[n] = "DROP" THEN [rx EXCEPT ![n] = "IDLE"] ELSE rx

RxAfter(n) == IF Head(rxbuf[n]).last THEN [rx EXCEPT ![n] = "IDLE"] ELSE rx

\* A data beat leaves the depacketizer: to prx in RECEIVE, nowhere in DROP.
CanTakeBeat(n) ==
  /\ rxbuf[n] # <<>>
  /\ \/ rx[n] = "RECEIVE" /\ Len(prx[n]) < SkidDepth
     \/ rx[n] = "DROP"
RxBeat(n) ==
  LET beat == Head(rxbuf[n])
  IN  /\ CanTakeBeat(n)
      /\ \/ /\ rx[n] = "RECEIVE"
            /\ prx' = [prx EXCEPT ![n] =
                         Append(@, [data |-> beat.data, last |-> beat.last, pf |-> hdr[n].pf])]
         \/ rx[n] = "DROP" /\ prx' = prx
      /\ rxbuf' = [rxbuf EXCEPT ![n] = Tail(@)]
      /\ rx' = RxAfter(n)
      /\ UNCHANGED <<genVars, chkVars, probe, grant, ptx, txVars, hdr>>

\* Everything a node does on its own, without a command and without the link.
NodeStep(n) ==
  \/ GeneratorBeat(n) \/ CheckerBeat(n) \/ StatusPulse(n)
  \/ ProbeStart(n) \/ ProbeBeat(n) \/ Regrant(n)
  \/ TxStart(n) \/ TxHeader(n) \/ TxData(n)
  \/ RxHeader(n) \/ RxJudge(n) \/ RxBeat(n)

\* What NodeStep waits for: the effects of its actions can always take place.
NodeCanStep(n) ==
  \/ CanGenerate(n) \/ CanCheck(n) \/ status[n].valid
  \/ CanStartEcho(n) \/ CanEcho(n) \/ CanRegrant(n)
  \/ CanStartFrame(n) \/ CanSendHeader(n) \/ CanSendData(n)
  \/ CanTakeHeader(n) \/ CanJudge(n) \/ CanTakeBeat(n)
-----------------------------------------------------------------------------
Status == [valid : BOOLEAN, err : BOOLEAN, length : 0..LengthMod - 1]

NodeTypeOK ==
  /\ tester   \in [Nodes -> {"STOP", "COUNT_LATENCY"}]
  /\ tfg      \in [Nodes -> {"IDLE", "RUN"}]
  /\ len      \in [Nodes -> Count]
  /\ beats    \in [Nodes -> Count]
  /\ chkBeats \in [Nodes -> Count]
  /\ frameErr \in [Nodes -> BOOLEAN]
  /\ status   \in [Nodes -> Status]
  /\ probe    \in [Nodes -> {"IDLE", "PROBE_RESPONSE"}]
  /\ grant    \in [Nodes -> Masters]
  /\ ptx      \in [Nodes -> Seq(UserBeat)]
  /\ tx       \in [Nodes -> {"IDLE", "SEND_HEADER", "SEND_DATA"}]
  /\ txbuf    \in [Nodes -> Seq(WireBeat)]
  /\ rxbuf    \in [Nodes -> Seq(WireBeat)]
  /\ rx       \in [Nodes -> {"IDLE", "HEADER", "RECEIVE", "DROP"}]
  /\ hdr      \in [Nodes -> [magic : BOOLEAN, pf : BOOLEAN]]
  /\ prx      \in [Nodes -> Seq(UserBeat)]
  /\ \A n \in Nodes : /\ Len(ptx[n]) <= SkidDepth /\ Len(prx[n]) <= SkidDepth
                      /\ Len(txbuf[n]) <= FifoDepth /\ Len(rxbuf[n]) <= FifoDepth
-----------------------------------------------------------------------------
(***************************************************************************)
(* How far the frame of a tester is: beats sent, answer awaited, beats of  *)
(* the answer seen.  Without an open command all of it has been seen.      *)
(***************************************************************************)
Sent(n) == IF tfg[n] = "RUN" THEN beats[n] ELSE len[n] + 1
Open(n) == tester[n] = "COUNT_LATENCY" /\ ~status[n].valid
Seen(n) == IF Open(n) THEN chkBeats[n] ELSE Sent(n)
=============================================================================
