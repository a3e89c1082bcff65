------------------------------ MODULE K2MMLink ------------------------------
(***************************************************************************)
(* Two K2MM nodes over a serial link (vcu1525_aurora.py, vcu1525_kyokko.py,*)
(* ted_tfoil.py): an asynchronous FIFO on either side of the transceiver   *)
(* core, cdc_tx and cdc_rx, of cores/kyokko/kyokko.py and aurora.py.  The  *)
(* core offers received beats without looking at ready, so a beat that     *)
(* finds cdc_rx full is lost; while its channel is down a FIFO is in       *)
(* reset and empty.  The core and the far end are external: a beat the     *)
(* core takes is received at once or, if the far channel is down, lost.    *)
(***************************************************************************)
EXTENDS K2MMNode

CONSTANTS
  CdcDepth,    \* depth of cdc_tx and cdc_rx (128 and 512)
  TxReset,     \* cdc_tx is in reset while the channel is down (kyokko.py:122)
  MaxDowns     \* bound on the channel failures of a behaviour

ASSUME LinkAssumption ==
  /\ CdcDepth \in Nat \ {0}
  /\ TxReset \in BOOLEAN
  /\ MaxDowns \in Nat

VARIABLES
  up,          \* up[n]: channel_up at n
  cdcTx, cdcRx,
  missed,      \* history: a beat from n to its peer was lost and none came since
  lost,        \* history: some beat was lost
  fooled,      \* history: a data word was taken for a header
  downs        \* channel failures so far

linkVars == <<up, cdcTx, cdcRx, missed, lost, downs>>
hardware == <<nodeVars, linkVars>>
vars == <<hardware, fooled>>

Init ==
  /\ NodeInit
  /\ up     = [n \in Nodes |-> FALSE]
  /\ cdcTx  = [n \in Nodes |-> <<>>]
  /\ cdcRx  = [n \in Nodes |-> <<>>]
  /\ missed = [n \in Nodes |-> FALSE]
  /\ lost   = FALSE
  /\ downs  = 0
  /\ fooled = FALSE

\* Slip: cdc_tx is written although it is full.
EnterLinkNoWait(n) ==
  /\ txbuf[n] # <<>>
  /\ TxReset => up[n]
  /\ txbuf' = [txbuf EXCEPT ![n] = Tail(@)]
  /\ cdcTx' = [cdcTx EXCEPT ![n] = Append(@, Head(txbuf[n]))]
  /\ UNCHANGED <<genVars, chkVars, probe, grant, ptx, prx, tx, rxVars,
                 up, cdcRx, missed, lost, downs>>

\* source_packet_tx is connected to sink_user_tx, the write side of cdc_tx.
CanEnter(n) == txbuf[n] # <<>> /\ Len(cdcTx[n]) < CdcDepth /\ (TxReset => up[n])
EnterLink(n) ==
  /\ CanEnter(n)
  /\ txbuf' = [txbuf EXCEPT ![n] = Tail(@)]
  /\ cdcTx' = [cdcTx EXCEPT ![n] = Append(@, Head(txbuf[n]))]
  /\ UNCHANGED <<genVars, chkVars, probe, grant, ptx, prx, tx, rxVars,
                 up, cdcRx, missed, lost, downs>>

\* The core of n takes a beat from cdc_tx and the core of the peer puts it to
\* cdc_rx, which has no way to make it wait.
CanTransmit(n) == up[n] /\ cdcTx[n] # <<>>
Serial(n) ==
  LET p == Peer[n] IN
  /\ CanTransmit(n)
  /\ cdcTx' = [cdcTx EXCEPT ![n] = Tail(@)]
  /\ IF up[p] /\ Len(cdcRx[p]) < CdcDepth
     THEN /\ cdcRx' = [cdcRx EXCEPT ![p] =
                         Append(@, [Head(cdcTx[n]) EXCEPT !.gap = missed[n]])]
          /\ missed' = [missed EXCEPT ![n] = FALSE]
          /\ lost' = lost
     ELSE /\ cdcRx' = cdcRx
          /\ missed' = [missed EXCEPT ![n] = TRUE]
          /\ lost' = TRUE
  /\ UNCHANGED <<nodeVars, up, downs>>

\* The read side of cdc_rx is connected to sink_packet_rx.
CanLeave(n) == cdcRx[n] # <<>> /\ Len(rxbuf[n]) < FifoDepth
LeaveLink(n) ==
  /\ CanLeave(n)
  /\ cdcRx' = [cdcRx EXCEPT ![n] = Tail(@)]
  /\ rxbuf' = [rxbuf EXCEPT ![n] = Append(@, Head(cdcRx[n]))]
  /\ UNCHANGED <<genVars, chkVars, probe, grant, ptx, prx, txVars, rx, hdr,
                 up, cdcTx, missed, lost, downs>>

\* The channel of n fails: the datapath domain goes into reset and with it
\* cdc_rx and, with TxReset, cdc_tx.  K2MM is not reset.
ChannelDown(n) ==
  LET p == Peer[n]
      flushTx == TxReset /\ cdcTx[n] # <<>>
      flushRx == cdcRx[n] # <<>>
  IN
  /\ up[n] /\ downs < MaxDowns
  /\ up' = [up EXCEPT ![n] = FALSE]
  /\ cdcRx' = [cdcRx EXCEPT ![n] = <<>>]
  /\ cdcTx' = IF TxReset THEN [cdcTx EXCEPT ![n] = <<>>] ELSE cdcTx
  /\ missed' = [m \in Nodes |-> \/ missed[m]
                                \/ m = n /\ flushTx
                                \/ m = p /\ flushRx]
  /\ lost' = (lost \/ flushTx \/ flushRx)
  /\ downs' = downs + 1
  /\ UNCHANGED nodeVars

ChannelUp(n) ==
  /\ ~up[n]
  /\ up' = [up EXCEPT ![n] = TRUE]
  /\ UNCHANGED <<nodeVars, cdcTx, cdcRx, missed, lost, downs>>

Node(n) == NodeStep(n) /\ UNCHANGED linkVars

Transfer(n) == Node(n) \/ EnterLink(n) \/ Serial(n) \/ LeaveLink(n) \/ ChannelUp(n)
CanTransfer(n) == NodeCanStep(n) \/ CanEnter(n) \/ CanTransmit(n) \/ CanLeave(n) \/ ~up[n]

\* A receiver that missed a header takes data with the bits of the magic for one.
TakesData(n) ==
  /\ rx[n] = "IDLE" /\ rx'[n] = "HEADER"
  /\ ~Head(rxbuf[n]).head /\ Head(rxbuf[n]).data \in Lookalike

Next ==
  /\ \/ \E n \in Commanders, l \in Lengths : Command(n, l) /\ UNCHANGED linkVars
     \/ \E n \in Nodes : Transfer(n) \/ ChannelDown(n)
  /\ fooled' = (fooled \/ \E n \in Nodes : TakesData(n))

Spec == Init /\ [][Next]_vars

\* Clocked elements act when they can, and a channel that is down is brought
\* up again by the core.  Nothing obliges it to fail.
FairSpec ==
  /\ Spec
  /\ \A n \in Nodes :
       /\ WF_hardware(GeneratorBeat(n) /\ UNCHANGED linkVars)
       /\ WF_hardware(CheckerBeat(n) /\ UNCHANGED linkVars)
       /\ WF_hardware(StatusPulse(n) /\ UNCHANGED linkVars)
       /\ WF_hardware(ProbeStart(n) /\ UNCHANGED linkVars)
       /\ WF_hardware(ProbeBeat(n) /\ UNCHANGED linkVars)
       /\ WF_hardware(Regrant(n) /\ UNCHANGED linkVars)
       /\ WF_hardware((TxStart(n) \/ TxHeader(n) \/ TxData(n)) /\ UNCHANGED linkVars)
       /\ WF_hardware((RxHeader(n) \/ RxJudge(n) \/ RxBeat(n)) /\ UNCHANGED linkVars)
       /\ WF_hardware(EnterLink(n)) /\ WF_hardware(Serial(n)) /\ WF_hardware(LeaveLink(n))
       /\ WF_hardware(ChannelUp(n))
-----------------------------------------------------------------------------
TypeOK ==
  /\ NodeTypeOK
  /\ up \in [Nodes -> BOOLEAN] /\ missed \in [Nodes -> BOOLEAN]
  /\ cdcTx \in [Nodes -> Seq(WireBeat)] /\ cdcRx \in [Nodes -> Seq(WireBeat)]
  /\ lost \in BOOLEAN /\ fooled \in BOOLEAN /\ downs \in 0..MaxDowns
  /\ \A n \in Nodes : Len(cdcTx[n]) <= CdcDepth /\ Len(cdcRx[n]) <= CdcDepth

(***************************************************************************)
(* After every last beat the receiver is aligned again: what it takes for  *)
(* a header in IDLE is one, unless the beat just before it was lost.  So a *)
(* loss damages frames only up to the next last beat that arrives in DROP  *)
(* or RECEIVE (framing.py:59-96), however the loss, the magic check and    *)
(* the flushes of the clock-crossing FIFOs fall together.                  *)
(***************************************************************************)
Realigns ==
  \A n \in Nodes : LET s == rxbuf[n] \o cdcRx[n] IN
    s # <<>> /\ rx[n] = "IDLE" /\ ~s[1].gap => s[1].head

(***************************************************************************)
(* Before the first loss the link is as good as a wire: the receiver drops *)
(* nothing and a status reports its own command, without error.            *)
(***************************************************************************)
CleanUntilLoss ==
  ~lost => \A n \in Nodes :
             /\ rx[n] # "DROP"
             /\ status[n].valid => /\ tester[n] = "COUNT_LATENCY" /\ tfg[n] = "IDLE"
                                   /\ ~status[n].err
                                   /\ status[n].length = StatusLength(len[n])

(***************************************************************************)
(* How a pair on a link stops.  The link itself never wedges, because a    *)
(* receiver never makes it wait: whenever nothing can move, all buffers    *)
(* are empty.  A tester is then left without an answer only by a loss (no  *)
(* timeout ends COUNT_LATENCY, framing.py:179-185).  A generator can be    *)
(* left in the middle of its frame too: the probe of its node holds the    *)
(* arbiter for an echo whose last beat was lost (framing.py:110-120).  So  *)
(* one lost last beat may stop both testers, not only the one it belonged  *)
(* to.                                                                     *)
(***************************************************************************)
\* A node and its peer have nothing left to do by themselves.
Stopped(n) == ~CanTransfer(n) /\ ~CanTransfer(Peer[n])

StopsEmpty ==
  \A n \in Nodes : Stopped(n) =>
    /\ ptx[n] = <<>> /\ txbuf[n] = <<>> /\ cdcTx[n] = <<>>
    /\ prx[n] = <<>> /\ rxbuf[n] = <<>> /\ cdcRx[n] = <<>>
    /\ tester[n] = "STOP" \/ lost
    /\ tfg[n] = "IDLE" \/ (/\ probe[n] = "PROBE_RESPONSE" /\ grant[n] = "probe"
                          /\ rx[n] = "RECEIVE" /\ hdr[n].pf)

(***************************************************************************)
(* A command is answered, or the link lost something.                      *)
(***************************************************************************)
AnsweredOrLost == \A n \in Nodes : (tester[n] = "COUNT_LATENCY") ~> (tester[n] = "STOP" \/ lost)

(***************************************************************************)
(* With one tester at work a loss only ever shortens: every report answers *)
(* the command in progress, after its whole frame was sent, and counts no  *)
(* more beats than the command asked for, whatever the receiver ran        *)
(* together or dropped (tfc.py:33-48, framing.py:63-96, 171-185).  It ends *)
(* with a data word that is taken for a header.  With two testers it is    *)
(* false: an echo that lost its last beat and the peer's next frame are    *)
(* counted as one.                                                         *)
(***************************************************************************)
LossShortens ==
  ~fooled =>
    \A n \in Nodes :
      status[n].valid => /\ tester[n] = "COUNT_LATENCY" /\ tfg[n] = "IDLE"
                         /\ status[n].length <= StatusLength(len[n])

(***************************************************************************)
(* Even with two a status pulse never comes to a tester that waits for     *)
(* none: a command that follows a loss is not answered by the remains of   *)
(* an earlier one.  Frames run together by a loss share one header and one *)
(* last beat, so a tester is sent at most one last beat per command        *)
(* (framing.py:98-120, 171-185).  A data word that reads as the magic      *)
(* breaks this: when the header of an echo is lost, the rest of the echo   *)
(* can become a probe, whose echo ends at the tester that sent nothing.    *)
(***************************************************************************)
NoStrayReport ==
  ~fooled => \A n \in Nodes : status[n].valid => tester[n] = "COUNT_LATENCY"
=============================================================================
