------------------------------ MODULE K2MMPing ------------------------------
(***************************************************************************)
(* Two K2MM nodes cross-connected by wires with backpressure, as in        *)
(* cores/tf/tests/test_framing_ping.py: a beat leaves txbuf when the       *)
(* peer's rxbuf is ready.  Both nodes may be given commands.               *)
(***************************************************************************)
EXTENDS K2MMNode

vars == nodeVars

Init == NodeInit

\* source_packet_tx of n is connected to sink_packet_rx of its peer.
CanCross(n) == txbuf[n] # <<>> /\ Len(rxbuf[Peer[n]]) < FifoDepth
Wire(n) ==
  /\ CanCross(n)
  /\ txbuf' = [txbuf EXCEPT ![n] = Tail(@)]
  /\ rxbuf' = [rxbuf EXCEPT ![Peer[n]] = Append(@, Head(txbuf[n]))]
  /\ UNCHANGED <<genVars, chkVars, probe, grant, ptx, prx, tx, rx, hdr>>

Transfer(n) == NodeStep(n) \/ Wire(n)
CanTransfer(n) == NodeCanStep(n) \/ CanCross(n)

Next ==
  \/ \E n \in Commanders, l \in Lengths : Command(n, l)
  \/ \E n \in Nodes : Transfer(n)

Spec == Init /\ [][Next]_vars

\* Every clocked element of a node acts when it can.  Each waits for others
\* only in ways that disable it, so weak fairness per node and element is what
\* a running clock gives.
FairSpec ==
  /\ Spec
  /\ \A n \in Nodes :
       /\ WF_vars(GeneratorBeat(n)) /\ WF_vars(CheckerBeat(n)) /\ WF_vars(StatusPulse(n))
       /\ WF_vars(ProbeStart(n)) /\ WF_vars(ProbeBeat(n)) /\ WF_vars(Regrant(n))
       /\ WF_vars(TxStart(n)) /\ WF_vars(TxHeader(n)) /\ WF_vars(TxData(n))
       /\ WF_vars(RxHeader(n)) /\ WF_vars(RxJudge(n)) /\ WF_vars(RxBeat(n))
       /\ WF_vars(Wire(n))
-----------------------------------------------------------------------------
(***************************************************************************)
(* Seen from a tester, the probe of the peer, both packet engines, both    *)
(* arbiters and the wires are an echo that keeps every beat, in order,     *)
(* however the frames of the two nodes mix (framing.py:200-248): each node *)
(* implements K2MMTester, whose echo is what the generator sent and the    *)
(* checker has not seen.                                                   *)
(***************************************************************************)
EchoOf(n) ==
  [i \in 1..Sent(n) - Seen(n) |-> [data |-> Seen(n) + i - 1,
                                   last |-> Seen(n) + i - 1 = len[n]]]

Tester(n) == INSTANCE K2MMTester WITH
  tester <- tester[n], tfg <- tfg[n], len <- len[n], beats <- beats[n],
  chkBeats <- chkBeats[n], frameErr <- frameErr[n], status <- status[n],
  echo <- EchoOf(n)

EachTesterEchoed ==
  /\ \A n \in Nodes : Tester(n)!Init
  /\ [][\A n \in Nodes : [Tester(n)!Next]_(Tester(n)!vars)]_vars
-----------------------------------------------------------------------------
(***************************************************************************)
(* The stream into a receiver is well framed, wherever it is buffered: a   *)
(* header follows each last beat and nothing else, and the beats of a      *)
(* frame are numbered from 0.  It is what the arbiter (one frame at a      *)
(* time, framing.py:227-233), the packetizer and the TX FSM (28-48) owe    *)
(* the depacketizer, which has no other way to find a header.              *)
(***************************************************************************)
Stream(n) == rxbuf[Peer[n]] \o txbuf[n]

WellFramed ==
  \A n \in Nodes : LET s == Stream(n) IN
    \A i \in 2..Len(s) :
      /\ s[i].head = s[i - 1].last
      /\ ~s[i].head => s[i].data = IF s[i - 1].head THEN 0 ELSE s[i - 1].data + 1

(***************************************************************************)
(* The receiver is aligned: it waits for a header exactly when a header is *)
(* next, so without loss no frame is dropped for its magic                 *)
(* (framing.py:63-96).                                                     *)
(***************************************************************************)
Aligned ==
  \A n \in Nodes : LET s == Stream(n)  p == Peer[n] IN
    /\ rx[p] # "DROP"
    /\ s # <<>> => (s[1].head <=> rx[p] = "IDLE")

WellAligned == WellFramed /\ Aligned

(***************************************************************************)
(* Two nodes may stop each other for good (framing.py:227-245): the frames *)
(* of both fill the buffers of both directions, and each probe waits to    *)
(* pass on the beats in front of it into a transmitter that is full.  It   *)
(* is the only way a connected pair stops: whenever nothing can move,      *)
(* either no command is open and every buffer is empty, or both nodes wait *)
(* for an answer, in the middle of an echo, with every buffer full, and    *)
(* their two frames together have more than SafeBeats beats.  Commands     *)
(* that stay within SafeBeats never stop the pair.                         *)
(***************************************************************************)
SafeBeats == 4 * FifoDepth + 5

Quiet(n) ==
  /\ tester[n] = "STOP" /\ tfg[n] = "IDLE" /\ probe[n] = "IDLE"
  /\ ptx[n] = <<>> /\ prx[n] = <<>> /\ txbuf[n] = <<>> /\ rxbuf[n] = <<>>

Wedged(n) ==
  /\ tester[n] = "COUNT_LATENCY" /\ probe[n] = "PROBE_RESPONSE"
  /\ len[n] + 1 + len[Peer[n]] + 1 > SafeBeats
  /\ Len(ptx[n]) = SkidDepth /\ Len(prx[n]) = SkidDepth
  /\ Len(txbuf[n]) = FifoDepth /\ Len(rxbuf[n]) = FifoDepth

\* A node and its peer have nothing left to do by themselves.
Stopped(n) == ~CanTransfer(n) /\ ~CanTransfer(Peer[n])

StopsQuietOrWedged ==
  \A n \in Nodes : Stopped(n) => \/ Quiet(n) /\ Quiet(Peer[n])
                                 \/ Wedged(n) /\ Wedged(Peer[n])

(***************************************************************************)
(* Every command is answered and every probed frame is echoed, however the *)
(* peer's tester competes for the arbiter, unless the two nodes stop each  *)
(* other for good.                                                         *)
(***************************************************************************)
BothWedged == \A n \in Nodes : Wedged(n)

AnsweredOrWedged ==
  \A n \in Nodes :
    /\ (tester[n] = "COUNT_LATENCY") ~> (tester[n] = "STOP" \/ BothWedged)
    /\ (probe[n] = "PROBE_RESPONSE") ~> (probe[n] = "IDLE" \/ BothWedged)
=============================================================================
