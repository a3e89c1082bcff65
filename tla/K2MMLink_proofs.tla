--------------------------- MODULE K2MMLink_proofs ---------------------------
(***************************************************************************)
(* Two nodes over a serial link: types, what holds until the first loss,   *)
(* how a receiver finds the next frame after a loss, that no answer comes  *)
(* to a tester that waits for none, how a pair stops, and that losses only *)
(* shorten a frame.                                                        *)
(***************************************************************************)
EXTENDS K2MMLink, K2MMNode_proofs, FiniteSetTheorems

USE DEF CanGenerate, CanCheck, CanStartEcho, CanEcho, CanRegrant, CanStartFrame,
        CanSendHeader, CanSendData, CanTakeHeader, CanJudge, CanTakeBeat,
        CanEnter, CanTransmit, CanLeave

LEMMA LinkConstants ==
  /\ \A n \in Nodes : Peer[n] \in Nodes
  /\ Commanders \subseteq Nodes /\ CdcDepth \in Nat /\ MaxDowns \in Nat
  BY NodeAssumption, LinkAssumption

LEMMA EnterLinkType ==
  ASSUME TypeOK, NEW n \in Nodes, EnterLink(n), fooled' \in BOOLEAN
  PROVE  TypeOK'
<1>1. /\ txbuf' = [txbuf EXCEPT ![n] = Tail(@)] /\ txbuf[n] # <<>>
      /\ cdcTx' = [cdcTx EXCEPT ![n] = Append(@, Head(txbuf[n]))]
      /\ Len(cdcTx[n]) < CdcDepth
  BY DEF EnterLink
<1>2. /\ txbuf' \in [Nodes -> Seq(WireBeat)] /\ \A m \in Nodes : Len(txbuf'[m]) <= FifoDepth
      /\ Head(txbuf[n]) \in WireBeat
  BY <1>1, ConstantFacts, QueueTail DEF TypeOK, NodeTypeOK
<1>3. cdcTx' \in [Nodes -> Seq(WireBeat)] /\ \A m \in Nodes : Len(cdcTx'[m]) <= CdcDepth
  BY <1>1, <1>2, LinkConstants, QueueAppend DEF TypeOK
<1>4. NodeTypeOK'
  BY <1>2 DEF TypeOK, NodeTypeOK, EnterLink, genVars, chkVars, rxVars
<1>5. QED
  BY <1>3, <1>4 DEF TypeOK, EnterLink

LEMMA LeaveLinkType ==
  ASSUME TypeOK, NEW n \in Nodes, LeaveLink(n), fooled' \in BOOLEAN
  PROVE  TypeOK'
<1>1. /\ cdcRx' = [cdcRx EXCEPT ![n] = Tail(@)] /\ cdcRx[n] # <<>>
      /\ rxbuf' = [rxbuf EXCEPT ![n] = Append(@, Head(cdcRx[n]))]
      /\ Len(rxbuf[n]) < FifoDepth
  BY DEF LeaveLink
<1>2. /\ cdcRx' \in [Nodes -> Seq(WireBeat)] /\ \A m \in Nodes : Len(cdcRx'[m]) <= CdcDepth
      /\ Head(cdcRx[n]) \in WireBeat
  BY <1>1, LinkConstants, QueueTail DEF TypeOK
<1>3. rxbuf' \in [Nodes -> Seq(WireBeat)] /\ \A m \in Nodes : Len(rxbuf'[m]) <= FifoDepth
  BY <1>1, <1>2, ConstantFacts, QueueAppend DEF TypeOK, NodeTypeOK
<1>4. NodeTypeOK'
  BY <1>3 DEF TypeOK, NodeTypeOK, LeaveLink, genVars, chkVars, txVars
<1>5. QED
  BY <1>2, <1>4 DEF TypeOK, LeaveLink

LEMMA NodeVarsType == NodeTypeOK /\ UNCHANGED nodeVars => NodeTypeOK'
  BY DEF nodeVars, genVars, chkVars, txVars, rxVars, NodeTypeOK

LEMMA SerialType ==
  ASSUME TypeOK, NEW n \in Nodes, Serial(n), fooled' \in BOOLEAN
  PROVE  TypeOK'
<1> DEFINE p == Peer[n]
           beat == [Head(cdcTx[n]) EXCEPT !.gap = missed[n]]
<1>1. cdcTx' = [cdcTx EXCEPT ![n] = Tail(@)] /\ cdcTx[n] # <<>> /\ p \in Nodes
  BY LinkConstants DEF Serial
<1>2. /\ cdcTx' \in [Nodes -> Seq(WireBeat)] /\ \A m \in Nodes : Len(cdcTx'[m]) <= CdcDepth
      /\ Head(cdcTx[n]) \in WireBeat
  BY <1>1, LinkConstants, QueueTail DEF TypeOK
<1>3. beat \in WireBeat
  BY <1>2 DEF TypeOK, WireBeat
<1>4. /\ cdcRx' \in [Nodes -> Seq(WireBeat)] /\ \A m \in Nodes : Len(cdcRx'[m]) <= CdcDepth
      /\ missed' \in [Nodes -> BOOLEAN] /\ lost' \in BOOLEAN
  <2>1. CASE up[p] /\ Len(cdcRx[p]) < CdcDepth
    <3>1. /\ cdcRx' = [cdcRx EXCEPT ![p] = Append(@, beat)]
          /\ missed' = [missed EXCEPT ![n] = FALSE] /\ lost' = lost
      BY <2>1 DEF Serial
    <3> HIDE DEF beat, p
    <3>2. cdcRx' \in [Nodes -> Seq(WireBeat)] /\ \A m \in Nodes : Len(cdcRx'[m]) <= CdcDepth
      BY <1>1, <1>3, <2>1, <3>1, LinkConstants, QueueAppend DEF TypeOK
    <3>3. QED
      BY <3>1, <3>2 DEF TypeOK
  <2>2. CASE ~(up[p] /\ Len(cdcRx[p]) < CdcDepth)
    <3>1. cdcRx' = cdcRx /\ missed' = [missed EXCEPT ![n] = TRUE] /\ lost' = TRUE
      BY <2>2 DEF Serial
    <3>2. QED
      BY <3>1 DEF TypeOK
  <2>3. QED
    BY <2>1, <2>2
<1>5. NodeTypeOK'
  BY NodeVarsType DEF TypeOK, Serial
<1>6. QED
  BY <1>2, <1>4, <1>5 DEF TypeOK, Serial

LEMMA ChannelDownType ==
  ASSUME TypeOK, NEW n \in Nodes, ChannelDown(n), fooled' \in BOOLEAN
  PROVE  TypeOK'
<1>1. <<>> \in Seq(WireBeat) /\ Len(<<>>) = 0
  OBVIOUS
<1>2. cdcRx' \in [Nodes -> Seq(WireBeat)] /\ \A m \in Nodes : Len(cdcRx'[m]) <= CdcDepth
  BY <1>1, LinkConstants DEF TypeOK, ChannelDown
<1>3. cdcTx' \in [Nodes -> Seq(WireBeat)] /\ \A m \in Nodes : Len(cdcTx'[m]) <= CdcDepth
  BY <1>1, LinkConstants DEF TypeOK, ChannelDown
<1>4. missed' \in [Nodes -> BOOLEAN]
  <2> DEFINE now(m) == \/ missed[m]
                       \/ m = n /\ TxReset /\ cdcTx[n] # <<>>
                       \/ m = Peer[n] /\ cdcRx[n] # <<>>
  <2>1. \A m \in Nodes : now(m) \in BOOLEAN
    BY Zenon
  <2>2. missed' = [m \in Nodes |-> now(m)]
    BY Zenon DEF ChannelDown
  <2> HIDE DEF now
  <2>3. QED
    BY <2>1, <2>2
<1>5. lost' \in BOOLEAN
  <2> DEFINE was == lost \/ (TxReset /\ cdcTx[n] # <<>>) \/ cdcRx[n] # <<>>
  <2>1. lost' = was
    BY Zenon DEF ChannelDown
  <2>2. was \in BOOLEAN
    BY Zenon
  <2>3. QED
    BY <2>1, <2>2
<1>6. downs' \in 0..MaxDowns /\ up' \in [Nodes -> BOOLEAN]
  BY LinkConstants DEF TypeOK, ChannelDown
<1>7. NodeTypeOK'
  BY NodeVarsType DEF TypeOK, ChannelDown
<1>8. QED
  BY <1>2, <1>3, <1>4, <1>5, <1>6, <1>7 DEF TypeOK

LEMMA InitType == Init => TypeOK
<1> SUFFICES ASSUME Init PROVE TypeOK
  OBVIOUS
<1>1. NodeTypeOK
  BY NodeInitType DEF Init
<1>2. /\ cdcTx \in [Nodes -> Seq(WireBeat)] /\ cdcRx \in [Nodes -> Seq(WireBeat)]
      /\ \A n \in Nodes : Len(cdcTx[n]) = 0 /\ Len(cdcRx[n]) = 0
  <2>1. <<>> \in Seq(WireBeat) /\ Len(<<>>) = 0
    OBVIOUS
  <2>2. QED
    BY <2>1 DEF Init
<1>3. \A n \in Nodes : Len(cdcTx[n]) <= CdcDepth /\ Len(cdcRx[n]) <= CdcDepth
  <2>1. CdcDepth \in Nat /\ 0 <= CdcDepth
    BY LinkConstants
  <2>2. QED
    BY <1>2, <2>1
<1>4. downs \in 0..MaxDowns /\ lost \in BOOLEAN /\ fooled \in BOOLEAN
  <2>1. downs = 0 /\ 0 \in 0..MaxDowns
    BY LinkConstants DEF Init
  <2>2. lost = FALSE /\ fooled = FALSE
    BY DEF Init
  <2>3. QED
    BY <2>1, <2>2
<1>5. up \in [Nodes -> BOOLEAN] /\ missed \in [Nodes -> BOOLEAN]
  BY DEF Init
<1>6. QED
  BY <1>1, <1>2, <1>3, <1>4, <1>5 DEF TypeOK

(***************************************************************************)
(* No register leaves its width and no buffer its depth, whatever the link *)
(* loses or flushes (framing.py, kyokko.py:118-130, aurora.py:178-194).    *)
(***************************************************************************)
THEOREM LinkTypeCorrect == Spec => []TypeOK
<1>1. TypeOK /\ [Next]_vars => TypeOK'
  <2> SUFFICES ASSUME TypeOK, [Next]_vars PROVE TypeOK'
    OBVIOUS
  <2>0. fooled' \in BOOLEAN
    <3>1. CASE Next
      <4> DEFINE now == fooled \/ \E n \in Nodes : TakesData(n)
      <4>1. fooled' = now
        BY Zenon, <3>1 DEF Next
      <4>2. now \in BOOLEAN
        BY Zenon
      <4>3. QED
        BY <4>1, <4>2
    <3>2. CASE UNCHANGED vars
      BY <3>2 DEF vars, TypeOK
    <3>3. QED
      BY <3>1, <3>2
  <2>1. ASSUME NEW n \in Commanders, NEW l \in Lengths,
               Command(n, l), UNCHANGED linkVars
        PROVE  TypeOK'
    <3>1. n \in Nodes
      BY LinkConstants
    <3>2. NodeTypeOK'
      BY <2>1, <3>1, CommandType DEF TypeOK
    <3>3. QED
      BY <2>0, <2>1, <3>2 DEF TypeOK, linkVars
  <2>2. ASSUME NEW n \in Nodes, Node(n) PROVE TypeOK'
    <3>1. NodeTypeOK'
      BY <2>2, NodeStepType DEF TypeOK, Node
    <3>2. QED
      BY <2>0, <2>2, <3>1 DEF TypeOK, Node, linkVars
  <2>3. ASSUME NEW n \in Nodes, EnterLink(n) \/ Serial(n) \/ LeaveLink(n) PROVE TypeOK'
    BY <2>0, <2>3, EnterLinkType, SerialType, LeaveLinkType
  <2>4. ASSUME NEW n \in Nodes, ChannelUp(n) PROVE TypeOK'
    BY <2>0, <2>4, NodeVarsType DEF TypeOK, ChannelUp
  <2>5. ASSUME NEW n \in Nodes, ChannelDown(n) PROVE TypeOK'
    BY <2>0, <2>5, ChannelDownType
  <2>6. CASE UNCHANGED vars
    BY <2>6, NodeVarsType DEF vars, hardware, linkVars, TypeOK
  <2>7. QED
    BY <2>1, <2>2, <2>3, <2>4, <2>5, <2>6 DEF Next, Transfer
<1>2. QED
  BY <1>1, InitType, PTL DEF Spec
-----------------------------------------------------------------------------
(***************************************************************************)
(* Until the first loss the stream of a node is in the buffers of the      *)
(* link: no beat of it is missing, whichever of the four buffers it is in  *)
(* (kyokko.py:118-130, aurora.py:178-194).                                 *)
(***************************************************************************)
Transit(n) == cdcRx[Peer[n]] \o (cdcTx[n] \o txbuf[n])
OnLink(n)  == rxbuf[Peer[n]] \o Transit(n)

Carried(w) == \A n \in Nodes : Matches(w[n], OnLink(n))

LinkInv == lost \/ \E w, t, r, c : Frames(w, t, r, c) /\ Carried(w) /\ AtWork(c)

LEMMA BufferTypes ==
  ASSUME TypeOK, NEW n \in Nodes
  PROVE  /\ rxbuf[n] \in Seq(WireBeat) /\ txbuf[n] \in Seq(WireBeat)
         /\ cdcTx[n] \in Seq(WireBeat) /\ cdcRx[n] \in Seq(WireBeat)
         /\ Transit(n) \in Seq(WireBeat) /\ OnLink(n) \in Seq(WireBeat)
<1>1. \A m \in Nodes : /\ rxbuf[m] \in Seq(WireBeat) /\ txbuf[m] \in Seq(WireBeat)
                       /\ cdcTx[m] \in Seq(WireBeat) /\ cdcRx[m] \in Seq(WireBeat)
  BY DEF TypeOK, NodeTypeOK
<1>2. Peer[n] \in Nodes
  BY LinkConstants
<1>3. \A T : \A a, b \in Seq(T) : a \o b \in Seq(T)
  OBVIOUS
<1>4. cdcTx[n] \o txbuf[n] \in Seq(WireBeat)
  BY <1>1, <1>3
<1>5. Transit(n) \in Seq(WireBeat)
  BY <1>1, <1>2, <1>3, <1>4 DEF Transit
<1>6. OnLink(n) \in Seq(WireBeat)
  BY <1>1, <1>2, <1>3, <1>5 DEF OnLink
<1>7. QED
  BY <1>1, <1>5, <1>6

LEMMA CarriedFed ==
  ASSUME TypeOK, NEW w \in [Nodes -> Seq(StreamBeat)], Carried(w)
  PROVE  Fed(w)
<1> SUFFICES ASSUME NEW n \in Nodes, rxbuf[n] # <<>>
             PROVE  w[Peer[n]] # <<>> /\ Alike(w[Peer[n]][1], rxbuf[n][1])
  BY DEF Fed
<1> DEFINE o == Peer[n]
<1>1. o \in Nodes /\ Peer[o] = n
  BY PeerFacts
<1>2. Matches(w[o], rxbuf[n] \o Transit(o))
  BY <1>1 DEF Carried, OnLink
<1>3. w[o] \in Seq(StreamBeat) /\ rxbuf[n] \in Seq(WireBeat) /\ Transit(o) \in Seq(WireBeat)
  BY <1>1, BufferTypes
<1> HIDE DEF o
<1>4. w[o] # <<>> /\ Alike(w[o][1], rxbuf[n][1])
  BY <1>2, <1>3, MatchesNext
<1>5. QED
  BY <1>4 DEF o

\* A beat that enters the last of three buffers enters all of them.
LEMMA EnterLast ==
  ASSUME NEW a \in Seq(WireBeat), NEW b \in Seq(WireBeat), NEW d \in Seq(WireBeat),
         NEW x \in WireBeat
  PROVE  a \o (b \o Append(d, x)) = Append(a \o (b \o d), x)
<1>1. \A e \in Seq(WireBeat), f \in Seq(WireBeat) :
         e \o Append(f, x) = Append(e \o f, x) /\ e \o f \in Seq(WireBeat)
  OBVIOUS
<1>2. QED
  BY <1>1

LEMMA CarriedMoved ==
  ASSUME TypeOK, NEW w \in [Nodes -> Seq(StreamBeat)], Carried(w), NEW m \in Nodes,
         NEW v, Moved(m, w, v), UNCHANGED <<cdcTx, cdcRx>>
  PROVE  Carried(v)'
<1> SUFFICES ASSUME NEW n \in Nodes PROVE Matches(v[n], rxbuf'[Peer[n]] \o Transit(n)')
  BY DEF Carried, OnLink
<1>1. /\ Matches(w[n], rxbuf[Peer[n]] \o Transit(n)) /\ Peer[n] \in Nodes /\ Peer[m] \in Nodes
      /\ Peer[Peer[m]] = m /\ (Peer[n] = m => n = Peer[m])
  BY PeerFacts DEF Carried, OnLink
<1>2. /\ w[n] \in Seq(StreamBeat) /\ rxbuf[Peer[n]] \in Seq(WireBeat) /\ txbuf[n] \in Seq(WireBeat)
      /\ rxbuf \in [Nodes -> Seq(WireBeat)] /\ txbuf \in [Nodes -> Seq(WireBeat)]
      /\ cdcRx[Peer[n]] \in Seq(WireBeat) /\ cdcTx[n] \in Seq(WireBeat)
      /\ Transit(n) \in Seq(WireBeat)
  BY <1>1, BufferTypes DEF TypeOK, NodeTypeOK
<1>3. CASE v = w /\ UNCHANGED <<txbuf, rxbuf>>
  BY <1>1, <1>3 DEF Transit
<1>4. ASSUME NEW y \in StreamBeat, NEW x \in WireBeat, Alike(y, x),
             v = [w EXCEPT ![m] = Append(@, y)],
             txbuf' = [txbuf EXCEPT ![m] = Append(@, x)], rxbuf' = rxbuf
      PROVE  Matches(v[n], rxbuf'[Peer[n]] \o Transit(n)')
  <2>1. CASE n = m
    <3>1. v[n] = Append(w[n], y) /\ txbuf'[n] = Append(txbuf[n], x) /\ rxbuf'[Peer[n]] = rxbuf[Peer[n]]
      BY <1>2, <1>4, <2>1
    <3>2. Transit(n)' = cdcRx[Peer[n]] \o (cdcTx[n] \o Append(txbuf[n], x))
      BY <3>1 DEF Transit
    <3>3. Transit(n)' = Append(Transit(n), x)
      <4> DEFINE a == cdcRx[Peer[n]]
                 b == cdcTx[n]
                 d == txbuf[n]
      <4>1. a \in Seq(WireBeat) /\ b \in Seq(WireBeat) /\ d \in Seq(WireBeat)
        BY <1>2
      <4> HIDE DEF a, b, d
      <4>2. a \o (b \o Append(d, x)) = Append(a \o (b \o d), x)
        BY <4>1, EnterLast
      <4>3. QED
        BY <3>2, <4>2 DEF Transit, a, b, d
    <3>4. QED
      BY <1>1, <1>2, <1>4, <3>1, <3>3, MatchesAppend
  <2>2. CASE n # m
    <3>1. v[n] = w[n] /\ txbuf'[n] = txbuf[n] /\ rxbuf'[Peer[n]] = rxbuf[Peer[n]]
      BY <1>2, <1>4, <2>2
    <3>2. QED
      BY <1>1, <3>1 DEF Transit
  <2>3. QED
    BY <2>1, <2>2
<1>5. CASE /\ rxbuf[m] # <<>> /\ v = [w EXCEPT ![Peer[m]] = Tail(@)]
           /\ rxbuf' = [rxbuf EXCEPT ![m] = Tail(@)] /\ txbuf' = txbuf
  <2>0. Transit(n)' = Transit(n)
    BY <1>5 DEF Transit
  <2>1. CASE n = Peer[m]
    <3>1. /\ v[n] = Tail(w[n]) /\ rxbuf'[Peer[n]] = Tail(rxbuf[Peer[n]])
          /\ rxbuf[Peer[n]] # <<>>
      BY <1>1, <1>2, <1>5, <2>1
    <3>2. QED
      BY <1>1, <1>2, <2>0, <3>1, MatchesNext
  <2>2. CASE n # Peer[m]
    <3>1. v[n] = w[n] /\ rxbuf'[Peer[n]] = rxbuf[Peer[n]]
      BY <1>1, <1>2, <1>5, <2>2
    <3>2. QED
      BY <1>1, <2>0, <3>1
  <2>3. QED
    BY <2>1, <2>2
<1>6. QED
  BY <1>3, <1>4, <1>5 DEF Moved

(***************************************************************************)
(* The steps of the link that lose nothing keep the stream.                *)
(***************************************************************************)
LEMMA EnterKeeps ==
  ASSUME TypeOK, NEW m \in Nodes, EnterLink(m), NEW n \in Nodes
  PROVE  OnLink(n)' = OnLink(n)
<1>1. /\ txbuf[m] # <<>> /\ txbuf' = [txbuf EXCEPT ![m] = Tail(@)]
      /\ cdcTx' = [cdcTx EXCEPT ![m] = Append(@, Head(txbuf[m]))]
      /\ UNCHANGED <<rxbuf, cdcRx>>
  BY DEF EnterLink, rxVars
<1>2. cdcTx \in [Nodes -> Seq(WireBeat)] /\ txbuf \in [Nodes -> Seq(WireBeat)]
  BY DEF TypeOK, NodeTypeOK
<1>3. cdcTx'[n] \o txbuf'[n] = cdcTx[n] \o txbuf[n]
  <2>1. CASE n = m
    <3>1. cdcTx'[n] = Append(cdcTx[n], Head(txbuf[n])) /\ txbuf'[n] = Tail(txbuf[n])
      BY <1>1, <1>2, <2>1
    <3>2. cdcTx[n] \in Seq(WireBeat) /\ txbuf[n] \in Seq(WireBeat) /\ txbuf[n] # <<>>
      BY <1>1, <1>2, <2>1
    <3>3. QED
      BY <3>1, <3>2, MoveKeeps
  <2>2. CASE n # m
    BY <1>1, <1>2, <2>2
  <2>3. QED
    BY <2>1, <2>2
<1>4. QED
  BY <1>1, <1>3 DEF OnLink, Transit

LEMMA Regroup ==
  ASSUME NEW f \in Seq(WireBeat), NEW g \in Seq(WireBeat), NEW h \in Seq(WireBeat)
  PROVE  f \o (g \o h) = (f \o g) \o h
OBVIOUS

LEMMA LeaveKeeps ==
  ASSUME TypeOK, NEW m \in Nodes, LeaveLink(m), NEW n \in Nodes
  PROVE  OnLink(n)' = OnLink(n)
<1> DEFINE p == Peer[n]
           e == cdcTx[n] \o txbuf[n]
<1>1. /\ cdcRx[m] # <<>> /\ cdcRx' = [cdcRx EXCEPT ![m] = Tail(@)]
      /\ rxbuf' = [rxbuf EXCEPT ![m] = Append(@, Head(cdcRx[m]))]
      /\ UNCHANGED <<txbuf, cdcTx>>
  BY DEF LeaveLink, txVars
<1>2. /\ cdcRx \in [Nodes -> Seq(WireBeat)] /\ rxbuf \in [Nodes -> Seq(WireBeat)]
      /\ p \in Nodes
  BY LinkConstants DEF TypeOK, NodeTypeOK
<1>3. e \in Seq(WireBeat)
  BY BufferTypes
<1> HIDE DEF e, p
<1>4. rxbuf'[p] \o (cdcRx'[p] \o e) = rxbuf[p] \o (cdcRx[p] \o e)
  <2>1. CASE p = m
    <3> DEFINE a == rxbuf[p]
               b == cdcRx[p]
    <3>1. rxbuf'[p] = Append(a, Head(b)) /\ cdcRx'[p] = Tail(b)
      BY <1>1, <1>2, <2>1
    <3>2. a \in Seq(WireBeat) /\ b \in Seq(WireBeat) /\ b # <<>>
      BY <1>1, <1>2, <2>1
    <3> HIDE DEF a, b
    <3>4. Append(a, Head(b)) \in Seq(WireBeat) /\ Tail(b) \in Seq(WireBeat)
      BY <3>2
    <3>5. Append(a, Head(b)) \o (Tail(b) \o e) = (Append(a, Head(b)) \o Tail(b)) \o e
      BY <1>3, <3>4, Regroup
    <3>6. Append(a, Head(b)) \o Tail(b) = a \o b
      BY <3>2, MoveKeeps
    <3>7. a \o (b \o e) = (a \o b) \o e
      BY <1>3, <3>2, Regroup
    <3>8. QED
      BY <3>1, <3>5, <3>6, <3>7 DEF a, b
  <2>2. CASE p # m
    BY <1>1, <1>2, <2>2
  <2>3. QED
    BY <2>1, <2>2
<1>5. QED
  BY <1>1, <1>4 DEF OnLink, Transit, e, p

\* A stream does not see the gap bit of a beat.
LEMMA MatchesMoved ==
  ASSUME NEW q, NEW a \in Seq(WireBeat), NEW b \in Seq(WireBeat), NEW e \in Seq(WireBeat),
         NEW x \in WireBeat, NEW y \in WireBeat,
         y.head = x.head, y.pf = x.pf, y.data = x.data, y.last = x.last,
         Matches(q, a \o (Append(b, x) \o e))
  PROVE  Matches(q, a \o (Append(b, y) \o e))
<1> DEFINE s == a \o (Append(b, x) \o e)
           z == a \o (Append(b, y) \o e)
           N == Len(a) + Len(b) + 1 + Len(e)
<1>1. /\ Len(a) \in Nat /\ Len(b) \in Nat /\ Len(e) \in Nat
      /\ Len(Append(b, x) \o e) = Len(b) + 1 + Len(e)
      /\ Len(Append(b, y) \o e) = Len(b) + 1 + Len(e)
      /\ \A i \in 1..Len(b) + 1 + Len(e) :
           /\ i # Len(b) + 1 => (Append(b, x) \o e)[i] = (Append(b, y) \o e)[i]
           /\ i = Len(b) + 1 => (Append(b, x) \o e)[i] = x
      /\ (Append(b, y) \o e)[Len(b) + 1] = y
  OBVIOUS
<1>2. Len(s) = N /\ Len(z) = N
  BY <1>1
<1>3. ASSUME NEW i \in 1..N
      PROVE  /\ i # Len(a) + Len(b) + 1 => s[i] = z[i]
             /\ i = Len(a) + Len(b) + 1 => s[i] = x
  <2> DEFINE f == Append(b, x) \o e
             g == Append(b, y) \o e
             j == i - Len(a)
  <2>1. f \in Seq(WireBeat) /\ g \in Seq(WireBeat)
    OBVIOUS
  <2>2. Len(f) = Len(b) + 1 + Len(e) /\ Len(g) = Len(f)
    BY <1>1
  <2>3. j \in 1..Len(b) + 1 + Len(e) => (j # Len(b) + 1 => f[j] = g[j]) /\ (j = Len(b) + 1 => f[j] = x)
    BY <1>1
  <2> HIDE DEF f, g
  <2>4. CASE i <= Len(a)
    BY <1>1, <2>1, <2>2, <2>4 DEF f, g
  <2>5. CASE i > Len(a)
    <3>1. (a \o f)[i] = f[j] /\ (a \o g)[i] = g[j]
      BY <1>1, <2>1, <2>2, <2>5
    <3>2. j \in 1..Len(b) + 1 + Len(e) /\ (j = Len(b) + 1 <=> i = Len(a) + Len(b) + 1)
      BY <1>1, <2>5
    <3>3. s[i] = f[j] /\ z[i] = g[j]
      BY <3>1 DEF f, g
    <3> HIDE DEF s, z, j
    <3>4. QED
      BY <2>3, <3>2, <3>3
  <2>6. QED
    BY <1>1, <2>4, <2>5
<1>4. z[Len(a) + Len(b) + 1] = y
  <2> DEFINE g == Append(b, y) \o e
  <2>1. g \in Seq(WireBeat) /\ Len(g) = Len(b) + 1 + Len(e) /\ g[Len(b) + 1] = y
    BY <1>1
  <2> HIDE DEF g
  <2>2. (a \o g)[Len(a) + Len(b) + 1] = g[Len(b) + 1]
    BY <1>1, <2>1
  <2>3. QED
    BY <2>1, <2>2 DEF g
<1> HIDE DEF s, z
<1>5. Len(q) = N /\ \A i \in 1..N : Alike(q[i], s[i])
  BY <1>2 DEF Matches, s
<1>6. \A i \in 1..N : Alike(q[i], z[i])
  <2> SUFFICES ASSUME NEW i \in 1..N PROVE Alike(q[i], z[i])
    OBVIOUS
  <2>1. Alike(q[i], s[i])
    BY <1>5
  <2>2. CASE i = Len(a) + Len(b) + 1
    <3>1. s[i] = x /\ z[i] = y
      BY <1>3, <1>4, <2>2
    <3>2. QED
      BY <2>1, <3>1 DEF Alike
  <2>3. CASE i # Len(a) + Len(b) + 1
    BY <1>3, <2>1, <2>3
  <2>4. QED
    BY <2>2, <2>3
<1>7. Matches(q, z)
  BY <1>2, <1>5, <1>6 DEF Matches
<1>8. QED
  BY <1>7 DEF z

LEMMA SerialKeeps ==
  ASSUME TypeOK, NEW m \in Nodes, Serial(m), ~lost', NEW n \in Nodes,
         NEW q, Matches(q, OnLink(n))
  PROVE  Matches(q, OnLink(n)')
<1> DEFINE p == Peer[m]
           x == Head(cdcTx[m])
           y == [x EXCEPT !.gap = missed[m]]
<1>1. /\ cdcTx[m] # <<>> /\ cdcTx' = [cdcTx EXCEPT ![m] = Tail(@)]
      /\ cdcRx' = [cdcRx EXCEPT ![p] = Append(@, y)]
      /\ UNCHANGED <<txbuf, rxbuf>>
  BY DEF Serial, nodeVars, txVars, rxVars
<1>2. /\ cdcTx \in [Nodes -> Seq(WireBeat)] /\ cdcRx \in [Nodes -> Seq(WireBeat)]
      /\ p \in Nodes /\ Peer[n] \in Nodes /\ (n # m => Peer[n] # p)
  BY PeerFacts DEF TypeOK
<1>3. CASE n = m
  <2> DEFINE a == rxbuf[p]
             b == cdcRx[p]
             d == Tail(cdcTx[m])
             e == d \o txbuf[m]
  <2>1. /\ a \in Seq(WireBeat) /\ b \in Seq(WireBeat) /\ cdcTx[m] \in Seq(WireBeat)
        /\ txbuf[m] \in Seq(WireBeat)
    BY <1>2, BufferTypes
  <2>2. x \in WireBeat /\ d \in Seq(WireBeat)
    BY <1>1, <2>1
  <2>3. y \in WireBeat /\ y.head = x.head /\ y.pf = x.pf /\ y.data = x.data /\ y.last = x.last
    <3>1. missed[m] \in BOOLEAN
      BY DEF TypeOK
    <3> HIDE DEF x
    <3>2. QED
      BY <2>2, <3>1 DEF WireBeat
  <2>4. e \in Seq(WireBeat)
    BY <2>1, <2>2
  <2>5. cdcTx'[n] = d /\ cdcRx'[p] = Append(b, y) /\ txbuf'[n] = txbuf[m] /\ rxbuf'[p] = a
    BY <1>1, <1>2, <1>3
  <2>6. OnLink(n)' = a \o (Append(b, y) \o e)
    BY <1>3, <2>5 DEF OnLink, Transit
  <2>7. OnLink(n) = a \o (b \o (cdcTx[m] \o txbuf[m]))
    BY <1>3 DEF OnLink, Transit
  <2>8. b \o (cdcTx[m] \o txbuf[m]) = Append(b, x) \o e
    <3> DEFINE g == cdcTx[m]
               h == txbuf[m]
    <3>1. g # <<>> /\ g \in Seq(WireBeat) /\ h \in Seq(WireBeat)
      BY <1>1, <2>1
    <3>2. Tail(g \o h) = Tail(g) \o h /\ Head(g \o h) = Head(g) /\ g \o h # <<>> /\ g \o h \in Seq(WireBeat)
      <4> HIDE DEF g, h
      <4>1. QED
        BY <3>1
    <3> DEFINE k == g \o h
    <3>3. Append(b, Head(k)) \o Tail(k) = b \o k
      BY <2>1, <3>2, MoveKeeps
    <3>4. QED
      BY <3>2, <3>3
  <2> HIDE DEF a, b, d, e, x, y, p
  <2>9. Matches(q, a \o (Append(b, x) \o e))
    BY <2>7, <2>8
  <2>10. QED
    BY <2>1, <2>2, <2>3, <2>4, <2>6, <2>9, MatchesMoved
<1>4. CASE n # m
  <2>1. cdcTx'[n] = cdcTx[n] /\ cdcRx'[Peer[n]] = cdcRx[Peer[n]]
    BY <1>1, <1>2, <1>4
  <2>2. QED
    BY <1>1, <2>1 DEF OnLink, Transit
<1>5. QED
  BY <1>3, <1>4

LEMMA DownKeeps ==
  ASSUME TypeOK, NEW m \in Nodes, ChannelDown(m), ~lost', NEW n \in Nodes
  PROVE  OnLink(n)' = OnLink(n)
<1>1. ~(TxReset /\ cdcTx[m] # <<>>) /\ cdcRx[m] = <<>>
  BY DEF ChannelDown
<1>2. /\ cdcRx' = [cdcRx EXCEPT ![m] = <<>>]
      /\ cdcTx' = IF TxReset THEN [cdcTx EXCEPT ![m] = <<>>] ELSE cdcTx
      /\ UNCHANGED <<txbuf, rxbuf>>
  BY DEF ChannelDown, nodeVars, txVars, rxVars
<1>3. cdcTx \in [Nodes -> Seq(WireBeat)] /\ cdcRx \in [Nodes -> Seq(WireBeat)]
  BY DEF TypeOK
<1>4. cdcRx' = cdcRx
  BY <1>1, <1>2, <1>3
<1>5. cdcTx' = cdcTx
  BY <1>1, <1>2, <1>3
<1>6. QED
  BY <1>2, <1>4, <1>5 DEF OnLink, Transit

THEOREM LinkInvariant == Spec => []LinkInv
<1>1. Init => LinkInv
  <2> SUFFICES ASSUME Init PROVE LinkInv
    OBVIOUS
  <2> DEFINE w == [n \in Nodes |-> <<>>]
  <2>1. PICK t, r, c : Frames(w, t, r, c) /\ AtWork(c)
    BY NodeInitFrames DEF Init
  <2>2. Carried(w)
    <3> SUFFICES ASSUME NEW n \in Nodes PROVE Matches(w[n], OnLink(n))
      BY DEF Carried
    <3>1. Peer[n] \in Nodes
      BY PeerFacts
    <3>2. OnLink(n) = <<>> \o (<<>> \o (<<>> \o <<>>))
      BY <3>1 DEF OnLink, Transit, Init, NodeInit
    <3>3. OnLink(n) = <<>>
      BY <3>2
    <3>4. QED
      BY <3>3 DEF Matches
  <2> HIDE DEF w
  <2>3. QED
    BY <2>1, <2>2 DEF LinkInv
<1>2. LinkInv /\ TypeOK /\ TypeOK' /\ [Next]_vars => LinkInv'
  <2> SUFFICES ASSUME TypeOK, TypeOK', [Next]_vars, ~lost',
                      lost \/ \E w, t, r, c : Frames(w, t, r, c) /\ Carried(w) /\ AtWork(c)
               PROVE  \E v, u, q, d : Frames(v, u, q, d)' /\ Carried(v)' /\ AtWork(d)'
    BY DEF LinkInv
  <2>0. ~lost
    BY DEF Next, Transfer, Node, EnterLink, Serial, LeaveLink, ChannelUp, ChannelDown, vars,
           hardware, linkVars
  <2>1. PICK w, t, r, c : Frames(w, t, r, c) /\ Carried(w) /\ AtWork(c)
    BY <2>0
  <2>2. w \in [Nodes -> Seq(StreamBeat)]
    BY <2>1 DEF Frames
  <2>3. ASSUME NEW n \in Commanders, NEW l \in Lengths, Command(n, l), UNCHANGED linkVars
        PROVE  \E v, u, q, d : Frames(v, u, q, d)' /\ Carried(v)' /\ AtWork(d)'
    <3>1. /\ \E u, q : Frames(w, u, q, ClearedEchoes(c, n))'
          /\ UNCHANGED <<txbuf, rxbuf>>
      BY <2>1, <2>3, CommandFrames DEF TypeOK
    <3>2. Carried(w)'
      BY <2>1, <2>3, <3>1 DEF Carried, OnLink, Transit, linkVars
    <3>3. AtWork(ClearedEchoes(c, n))'
      BY <2>1, <2>3, PeerFacts, CommandWork DEF TypeOK
    <3>4. QED
      BY <3>1, <3>2, <3>3
  <2>4. ASSUME NEW n \in Nodes, Node(n)
        PROVE  \E v, u, q, d : Frames(v, u, q, d)' /\ Carried(v)' /\ AtWork(d)'
    <3>1. Fed(w)
      BY <2>1, <2>2, CarriedFed
    <3>2. NodeStep(n) /\ UNCHANGED <<cdcTx, cdcRx>>
      BY <2>4 DEF Node, linkVars
    <3>3. PICK v, u, q, d : Frames(v, u, q, d)' /\ AtWork(d)' /\ Moved(n, w, v)
      BY <2>1, <3>1, <3>2, NodeStepFrames DEF TypeOK
    <3>4. Carried(v)'
      BY <2>1, <2>2, <3>2, <3>3, CarriedMoved
    <3>5. QED
      BY <3>3, <3>4
  <2>5. ASSUME NEW n \in Nodes, \/ EnterLink(n) \/ Serial(n) \/ LeaveLink(n)
                                \/ ChannelUp(n) \/ ChannelDown(n)
        PROVE  \E v, u, q, d : Frames(v, u, q, d)' /\ Carried(v)' /\ AtWork(d)'
    <3>1. UNCHANGED <<genVars, chkVars, probe, grant, ptx, prx, tx, rx, hdr>>
      BY <2>5 DEF EnterLink, Serial, LeaveLink, ChannelUp, ChannelDown, nodeVars, txVars, rxVars
    <3>2. Frames(w, t, r, c)'
      BY <2>1, <3>1, FramesUnread
    <3>3. Carried(w)'
      <4> SUFFICES ASSUME NEW m \in Nodes PROVE Matches(w[m], OnLink(m)')
        BY DEF Carried
      <4>0. Matches(w[m], OnLink(m))
        BY <2>1 DEF Carried
      <4>1. CASE EnterLink(n)
        BY <4>0, <4>1, EnterKeeps
      <4>2. CASE Serial(n)
        BY <4>0, <4>2, SerialKeeps
      <4>3. CASE LeaveLink(n)
        BY <4>0, <4>3, LeaveKeeps
      <4>4. CASE ChannelUp(n)
        BY <4>0, <4>4 DEF ChannelUp, OnLink, Transit, nodeVars, txVars, rxVars
      <4>5. CASE ChannelDown(n)
        BY <4>0, <4>5, DownKeeps
      <4>6. QED
        BY <2>5, <4>1, <4>2, <4>3, <4>4, <4>5
    <3>4. AtWork(c)'
      BY <2>1, <3>1, AtWorkUnread
    <3>5. QED
      BY <3>2, <3>3, <3>4
  <2>6. CASE UNCHANGED vars
    <3>1. /\ UNCHANGED <<genVars, chkVars, probe, grant, ptx, prx, tx, rx, hdr>>
          /\ UNCHANGED <<txbuf, rxbuf, cdcTx, cdcRx>>
      BY <2>6 DEF vars, hardware, linkVars, nodeVars, txVars, rxVars
    <3>2. Frames(w, t, r, c)'
      BY <2>1, <3>1, FramesUnread
    <3>3. Carried(w)'
      BY <2>1, <3>1 DEF Carried, OnLink, Transit
    <3>4. AtWork(c)'
      BY <2>1, <3>1, AtWorkUnread
    <3>5. QED
      BY <3>2, <3>3, <3>4
  <2>7. QED
    BY <2>3, <2>4, <2>5, <2>6 DEF Next, Transfer
<1>3. QED
  BY <1>1, <1>2, LinkTypeCorrect, PTL DEF Spec

(***************************************************************************)
(* Before the first loss the link is as good as a wire: no receiver drops  *)
(* anything and a status reports its own command, whole and without error  *)
(* (framing.py:59-96, 171-185), however often the channels go down empty,  *)
(* for any depths and lengths.                                             *)
(***************************************************************************)
THEOREM LinkCleanUntilLoss == Spec => []CleanUntilLoss
<1>1. TypeOK /\ LinkInv => CleanUntilLoss
  <2> SUFFICES ASSUME TypeOK, NEW w, NEW t, NEW r, NEW c, Frames(w, t, r, c), NEW n \in Nodes
               PROVE  /\ rx[n] # "DROP"
                      /\ status[n].valid => /\ tester[n] = "COUNT_LATENCY" /\ tfg[n] = "IDLE"
                                            /\ ~status[n].err
                                            /\ status[n].length = StatusLength(len[n])
    BY DEF LinkInv, CleanUntilLoss
  <2>1. rx[n] # "DROP"
    BY PeerFacts DEF Frames, Framing, FramingAt
  <2>2. tfg[n] \in {"IDLE", "RUN"}
    BY DEF TypeOK, NodeTypeOK
  <2>3. QED
    BY <2>1, <2>2 DEF Frames, Reports, Open
<1>2. QED
  BY <1>1, LinkTypeCorrect, LinkInvariant, PTL
-----------------------------------------------------------------------------
(***************************************************************************)
(* Where frames begin, with loss (framing.py:28-96): u is what waits for   *)
(* the receiver, in the state r, and v what the sender, in the state t,    *)
(* has handed to the link; m says that a beat between them was lost.  A    *)
(* beat after a beat that is not lost begins a frame exactly when that one *)
(* ends one, and the beat next to an idle receiver begins one.             *)
(***************************************************************************)
NextHead(v, t) == IF v = <<>> THEN t # "SEND_DATA" ELSE v[1].head

Local(u, v, r, t, m) ==
  /\ \A i \in 1..Len(u) - 1 : ~u[i + 1].gap => (u[i + 1].head <=> u[i].last)
  /\ \A i \in 1..Len(v) - 1 : v[i + 1].head <=> v[i].last
  /\ v # <<>> => (v[Len(v)].last <=> t # "SEND_DATA")
  /\ ~m /\ u = <<>> /\ r = "IDLE" => NextHead(v, t)
  /\ ~m /\ u # <<>> => (NextHead(v, t) <=> u[Len(u)].last)
  /\ u # <<>> /\ r = "IDLE" /\ ~u[1].gap => u[1].head

Inbox(n)  == rxbuf[n] \o cdcRx[n]
Outbox(n) == cdcTx[n] \o txbuf[n]

LocalAt(n) == Local(Inbox(n), Outbox(Peer[n]), rx[n], tx[Peer[n]], missed[Peer[n]])

GapInv == \A n \in Nodes : LocalAt(n)

LEMMA LocalIdle ==
  ASSUME NEW u, NEW v, NEW r, NEW t, NEW m, Local(u, v, r, t, m),
         NEW q, q = "IDLE" => r = "IDLE", NEW s, s = "SEND_DATA" <=> t = "SEND_DATA"
  PROVE  Local(u, v, q, s, m)
BY DEF Local, NextHead

\* The sender hands over the next beat.
LEMMA LocalSend ==
  ASSUME NEW u \in Seq(WireBeat), NEW v \in Seq(WireBeat), NEW r, NEW t, NEW m,
         Local(u, v, r, t, m), NEW x \in WireBeat, NEW s,
         x.head <=> t # "SEND_DATA", x.last <=> s # "SEND_DATA"
  PROVE  Local(u, Append(v, x), r, s, m)
<1> DEFINE z == Append(v, x)
<1>1. /\ Len(v) \in Nat /\ z # <<>> /\ Len(z) = Len(v) + 1 /\ z[Len(v) + 1] = x
      /\ \A i \in 1..Len(v) : z[i] = v[i]
      /\ v = <<>> <=> Len(v) = 0
  OBVIOUS
<1> HIDE DEF z
<1>2. NextHead(z, s) <=> NextHead(v, t)
  <2>1. CASE v = <<>>
    <3>1. z[1] = x
      BY <1>1, <2>1
    <3>2. QED
      BY <1>1, <2>1, <3>1 DEF NextHead
  <2>2. CASE v # <<>>
    <3>1. z[1] = v[1]
      BY <1>1, <2>2
    <3>2. QED
      BY <1>1, <2>2, <3>1 DEF NextHead
  <2>3. QED
    BY <2>1, <2>2
<1>3. ASSUME NEW i \in 1..Len(z) - 1 PROVE z[i + 1].head <=> z[i].last
  <2>1. CASE i = Len(v)
    <3>1. z[i + 1] = x /\ z[i] = v[Len(v)] /\ v # <<>>
      BY <1>1, <2>1
    <3>2. v[Len(v)].last <=> t # "SEND_DATA"
      BY <3>1 DEF Local
    <3>3. QED
      BY <3>1, <3>2
  <2>2. CASE i # Len(v)
    <3>1. i \in 1..Len(v) - 1 /\ i + 1 \in 1..Len(v) /\ i \in 1..Len(v)
      BY <1>1, <2>2
    <3>2. z[i + 1] = v[i + 1] /\ z[i] = v[i]
      BY <1>1, <3>1
    <3>3. v[i + 1].head <=> v[i].last
      BY <3>1 DEF Local
    <3>4. QED
      BY <3>2, <3>3
  <2>3. QED
    BY <2>1, <2>2
<1>4. z[Len(z)].last <=> s # "SEND_DATA"
  BY <1>1
<1>5. Local(u, z, r, s, m)
  BY <1>2, <1>3, <1>4 DEF Local
<1>6. QED
  BY <1>5 DEF z

\* The first beat of what was handed over leaves: nothing follows a loss in
\* place, and otherwise it comes behind what waits for the receiver.
LEMMA LocalNextHead ==
  ASSUME NEW u, NEW v \in Seq(WireBeat), NEW r, NEW t, NEW m, Local(u, v, r, t, m), v # <<>>
  PROVE  /\ NextHead(Tail(v), t) <=> v[1].last
         /\ \A i \in 1..Len(Tail(v)) - 1 : Tail(v)[i + 1].head <=> Tail(v)[i].last
         /\ Tail(v) # <<>> => (Tail(v)[Len(Tail(v))].last <=> t # "SEND_DATA")
<1> DEFINE z == Tail(v)
<1>1. /\ Len(v) \in Nat /\ Len(v) > 0 /\ z \in Seq(WireBeat) /\ Len(z) = Len(v) - 1
      /\ \A i \in 1..Len(v) - 1 : z[i] = v[i + 1]
  OBVIOUS
<1>2. z = <<>> <=> Len(v) = 1
  BY TailFacts
<1> HIDE DEF z
<1>3. NextHead(z, t) <=> v[1].last
  <2>1. CASE Len(v) = 1
    <3>1. v[1].last <=> t # "SEND_DATA"
      BY <2>1 DEF Local
    <3>2. QED
      BY <1>2, <2>1, <3>1 DEF NextHead
  <2>2. CASE Len(v) # 1
    <3>1. 1 \in 1..Len(v) - 1
      BY <1>1, <2>2
    <3>2. v[1 + 1].head <=> v[1].last
      BY <3>1 DEF Local
    <3>3. z[1] = v[1 + 1]
      BY <1>1, <3>1
    <3>4. QED
      BY <1>2, <2>2, <3>2, <3>3 DEF NextHead
  <2>3. QED
    BY <2>1, <2>2
<1>4. ASSUME NEW i \in 1..Len(z) - 1 PROVE z[i + 1].head <=> z[i].last
  <2>1. i + 1 \in 1..Len(v) - 1 /\ i \in 1..Len(v) - 1
    BY <1>1
  <2>2. z[i + 1] = v[i + 1 + 1] /\ z[i] = v[i + 1]
    BY <1>1, <2>1
  <2>3. v[i + 1 + 1].head <=> v[i + 1].last
    BY <2>1 DEF Local
  <2>4. QED
    BY <2>2, <2>3
<1>5. ASSUME z # <<>> PROVE z[Len(z)].last <=> t # "SEND_DATA"
  <2>1. Len(z) \in 1..Len(v) - 1 /\ Len(z) + 1 = Len(v)
    BY <1>1, <1>2, <1>5
  <2>2. z[Len(z)] = v[Len(v)]
    BY <1>1, <2>1
  <2>3. QED
    BY <2>2 DEF Local
<1>6. QED
  BY <1>3, <1>4, <1>5 DEF z

LEMMA LocalLose ==
  ASSUME NEW u, NEW v \in Seq(WireBeat), NEW r, NEW t, NEW m, Local(u, v, r, t, m), v # <<>>
  PROVE  Local(u, Tail(v), r, t, TRUE)
<1> DEFINE z == Tail(v)
<1>1. /\ \A i \in 1..Len(z) - 1 : z[i + 1].head <=> z[i].last
      /\ z # <<>> => (z[Len(z)].last <=> t # "SEND_DATA")
  BY LocalNextHead
<1> HIDE DEF z
<1>2. Local(u, z, r, t, TRUE)
  BY <1>1 DEF Local
<1>3. QED
  BY <1>2 DEF z

LEMMA LocalArrive ==
  ASSUME NEW u \in Seq(WireBeat), NEW v \in Seq(WireBeat), NEW r, NEW t, NEW m \in BOOLEAN,
         Local(u, v, r, t, m), v # <<>>,
         NEW y \in WireBeat, y.head = v[1].head, y.last = v[1].last, y.gap = m
  PROVE  Local(Append(u, y), Tail(v), r, t, FALSE)
<1> DEFINE z == Tail(v)
           g == Append(u, y)
<1>1. /\ \A i \in 1..Len(z) - 1 : z[i + 1].head <=> z[i].last
      /\ z # <<>> => (z[Len(z)].last <=> t # "SEND_DATA")
      /\ NextHead(z, t) <=> v[1].last
  BY LocalNextHead
<1>2. /\ Len(u) \in Nat /\ g # <<>> /\ Len(g) = Len(u) + 1 /\ g[Len(u) + 1] = y
      /\ \A i \in 1..Len(u) : g[i] = u[i]
      /\ u = <<>> <=> Len(u) = 0
  OBVIOUS
<1> HIDE DEF z, g
<1>3. NextHead(v, t) <=> y.head
  BY DEF NextHead
<1>4. ASSUME NEW i \in 1..Len(g) - 1, ~g[i + 1].gap PROVE g[i + 1].head <=> g[i].last
  <2>1. CASE i = Len(u)
    <3>1. g[i + 1] = y /\ g[i] = u[Len(u)] /\ u # <<>>
      BY <1>2, <2>1
    <3>2. ~m
      BY <1>4, <3>1
    <3>3. NextHead(v, t) <=> u[Len(u)].last
      BY <3>1, <3>2 DEF Local
    <3>4. QED
      BY <1>3, <3>1, <3>3
  <2>2. CASE i # Len(u)
    <3>1. i \in 1..Len(u) - 1 /\ i + 1 \in 1..Len(u) /\ i \in 1..Len(u)
      BY <1>2, <2>2
    <3>2. g[i + 1] = u[i + 1] /\ g[i] = u[i]
      BY <1>2, <3>1
    <3>3. ~u[i + 1].gap => (u[i + 1].head <=> u[i].last)
      BY <3>1 DEF Local
    <3>4. QED
      BY <1>4, <3>2, <3>3
  <2>3. QED
    BY <2>1, <2>2
<1>5. NextHead(z, t) <=> g[Len(g)].last
  BY <1>1, <1>2
<1>6. ASSUME r = "IDLE", ~g[1].gap PROVE g[1].head
  <2>1. CASE u = <<>>
    <3>1. g[1] = y
      BY <1>2, <2>1
    <3>2. NextHead(v, t)
      BY <1>6, <2>1, <3>1 DEF Local
    <3>3. QED
      BY <1>3, <3>1, <3>2
  <2>2. CASE u # <<>>
    <3>1. g[1] = u[1]
      BY <1>2, <2>2
    <3>2. QED
      BY <1>6, <2>2, <3>1 DEF Local
  <2>3. QED
    BY <2>1, <2>2
<1>7. Local(g, z, r, t, FALSE)
  BY <1>1, <1>2, <1>4, <1>5, <1>6 DEF Local
<1>8. QED
  BY <1>7 DEF g, z

\* The receiver takes a beat, and is idle after it only if it was a last one.
LEMMA LocalTake ==
  ASSUME NEW u \in Seq(WireBeat), NEW v, NEW r, NEW t, NEW m, Local(u, v, r, t, m), u # <<>>,
         NEW q, q = "IDLE" => u[1].last
  PROVE  Local(Tail(u), v, q, t, m)
<1> DEFINE z == Tail(u)
<1>1. /\ Len(u) \in Nat /\ Len(u) > 0 /\ z \in Seq(WireBeat) /\ Len(z) = Len(u) - 1
      /\ \A i \in 1..Len(u) - 1 : z[i] = u[i + 1]
  OBVIOUS
<1>2. z = <<>> <=> Len(u) = 1
  BY TailFacts
<1> HIDE DEF z
<1>3. ASSUME NEW i \in 1..Len(z) - 1, ~z[i + 1].gap PROVE z[i + 1].head <=> z[i].last
  <2>1. i + 1 \in 1..Len(u) - 1 /\ i \in 1..Len(u) - 1
    BY <1>1
  <2>2. z[i + 1] = u[i + 1 + 1] /\ z[i] = u[i + 1]
    BY <1>1, <2>1
  <2>3. ~u[i + 1 + 1].gap => (u[i + 1 + 1].head <=> u[i + 1].last)
    BY <2>1 DEF Local
  <2>4. QED
    BY <1>3, <2>2, <2>3
<1>4. ASSUME ~m, z = <<>>, q = "IDLE" PROVE NextHead(v, t)
  <2>1. Len(u) = 1
    BY <1>2, <1>4
  <2>2. NextHead(v, t) <=> u[1].last
    BY <1>4, <2>1 DEF Local
  <2>3. QED
    BY <1>4, <2>2
<1>5. ASSUME ~m, z # <<>> PROVE NextHead(v, t) <=> z[Len(z)].last
  <2>1. Len(z) \in 1..Len(u) - 1 /\ Len(z) + 1 = Len(u)
    BY <1>1, <1>2, <1>5
  <2>2. z[Len(z)] = u[Len(u)]
    BY <1>1, <2>1
  <2>3. QED
    BY <1>5, <2>2 DEF Local
<1>6. ASSUME z # <<>>, q = "IDLE", ~z[1].gap PROVE z[1].head
  <2>1. 1 \in 1..Len(u) - 1
    BY <1>1, <1>2, <1>6
  <2>2. z[1] = u[1 + 1]
    BY <1>1, <2>1
  <2>3. ~u[1 + 1].gap => (u[1 + 1].head <=> u[1].last)
    BY <2>1 DEF Local
  <2>4. QED
    BY <1>6, <2>2, <2>3
<1>7. Local(z, v, q, t, m)
  <2>1. \A i \in 1..Len(v) - 1 : v[i + 1].head <=> v[i].last
    BY DEF Local
  <2>2. v # <<>> => (v[Len(v)].last <=> t # "SEND_DATA")
    BY DEF Local
  <2>3. QED
    BY <1>3, <1>4, <1>5, <1>6, <2>1, <2>2 DEF Local
<1>8. QED
  BY <1>7 DEF z

\* A clock-crossing FIFO is flushed, on the receiver's side and the sender's.
LEMMA LocalFlushRx ==
  ASSUME NEW a \in Seq(WireBeat), NEW b \in Seq(WireBeat), NEW v, NEW r, NEW t, NEW m,
         Local(a \o b, v, r, t, m)
  PROVE  Local(a, v, r, t, TRUE)
<1> DEFINE u == a \o b
<1>1. /\ Len(a) \in Nat /\ Len(b) \in Nat /\ Len(u) = Len(a) + Len(b)
      /\ \A i \in 1..Len(a) : u[i] = a[i]
      /\ a # <<>> => Len(a) > 0 /\ u # <<>>
  OBVIOUS
<1>2. Local(u, v, r, t, m)
  OBVIOUS
<1> HIDE DEF u
<1>3. ASSUME NEW i \in 1..Len(a) - 1, ~a[i + 1].gap PROVE a[i + 1].head <=> a[i].last
  <2>1. i \in 1..Len(a) /\ i + 1 \in 1..Len(a) /\ i \in 1..Len(u) - 1
    BY <1>1
  <2>2. ~u[i + 1].gap => (u[i + 1].head <=> u[i].last)
    BY <1>2, <2>1 DEF Local
  <2>3. QED
    BY <1>1, <1>3, <2>1, <2>2
<1>4. ASSUME a # <<>>, r = "IDLE", ~a[1].gap PROVE a[1].head
  <2>1. a[1] = u[1] /\ u # <<>>
    BY <1>1, <1>4
  <2>2. QED
    BY <1>2, <1>4, <2>1 DEF Local
<1>5. /\ \A i \in 1..Len(v) - 1 : v[i + 1].head <=> v[i].last
      /\ v # <<>> => (v[Len(v)].last <=> t # "SEND_DATA")
  BY <1>2 DEF Local
<1>6. QED
  BY <1>3, <1>4, <1>5 DEF Local

LEMMA LocalFlushTx ==
  ASSUME NEW u, NEW b \in Seq(WireBeat), NEW e \in Seq(WireBeat), NEW r, NEW t, NEW m,
         Local(u, b \o e, r, t, m)
  PROVE  Local(u, e, r, t, TRUE)
<1> DEFINE v == b \o e
<1>1. /\ Len(e) \in Nat /\ Len(b) \in Nat /\ Len(v) = Len(b) + Len(e)
      /\ \A i \in 1..Len(e) : v[Len(b) + i] = e[i]
      /\ e # <<>> => Len(e) > 0 /\ v # <<>>
  OBVIOUS
<1>2. Local(u, v, r, t, m)
  OBVIOUS
<1> HIDE DEF v
<1>3. ASSUME NEW i \in 1..Len(e) - 1 PROVE e[i + 1].head <=> e[i].last
  <2>1. i \in 1..Len(e) /\ i + 1 \in 1..Len(e) /\ Len(b) + i \in 1..Len(v) - 1
    BY <1>1
  <2>2. v[Len(b) + i + 1].head <=> v[Len(b) + i].last
    BY <1>2, <2>1 DEF Local
  <2>3. v[Len(b) + i] = e[i]
    BY <1>1, <2>1
  <2>4. v[Len(b) + (i + 1)] = e[i + 1]
    BY <1>1, <2>1
  <2>5. Len(b) + (i + 1) = Len(b) + i + 1
    BY <1>1
  <2>6. QED
    BY <2>2, <2>3, <2>4, <2>5
<1>4. ASSUME e # <<>> PROVE e[Len(e)].last <=> t # "SEND_DATA"
  <2>1. Len(e) \in 1..Len(e) /\ Len(b) + Len(e) = Len(v) /\ v # <<>>
    BY <1>1, <1>4
  <2>2. v[Len(v)] = e[Len(e)]
    BY <1>1, <2>1
  <2>3. QED
    BY <1>2, <2>1, <2>2 DEF Local
<1>5. /\ \A i \in 1..Len(u) - 1 : ~u[i + 1].gap => (u[i + 1].head <=> u[i].last)
      /\ u # <<>> /\ r = "IDLE" /\ ~u[1].gap => u[1].head
  BY <1>2 DEF Local
<1>6. QED
  BY <1>3, <1>4, <1>5 DEF Local
-----------------------------------------------------------------------------
(***************************************************************************)
(* The steps of the nodes and of the link, each at the one place where it  *)
(* moves a beat.                                                           *)
(***************************************************************************)
LEMMA AppendLast ==
  ASSUME NEW a \in Seq(WireBeat), NEW b \in Seq(WireBeat), NEW x \in WireBeat
  PROVE  a \o Append(b, x) = Append(a \o b, x)
OBVIOUS

LEMMA BoxTypes ==
  ASSUME TypeOK, NEW n \in Nodes
  PROVE  /\ Peer[n] \in Nodes /\ Inbox(n) \in Seq(WireBeat) /\ Outbox(n) \in Seq(WireBeat)
<1>1. \A T : \A a, b \in Seq(T) : a \o b \in Seq(T)
  OBVIOUS
<1>2. Inbox(n) \in Seq(WireBeat) /\ Outbox(n) \in Seq(WireBeat)
  BY <1>1, BufferTypes DEF Inbox, Outbox
<1>3. QED
  BY <1>2, LinkConstants DEF TypeOK, NodeTypeOK

LEMMA GapIdle ==
  ASSUME GapInv, UNCHANGED <<txbuf, rxbuf, cdcTx, cdcRx, missed>>,
         \A k \in Nodes : /\ rx'[k] = "IDLE" => rx[k] = "IDLE"
                          /\ tx'[k] = "SEND_DATA" <=> tx[k] = "SEND_DATA"
  PROVE  GapInv'
<1> SUFFICES ASSUME NEW n \in Nodes PROVE LocalAt(n)'
  BY DEF GapInv
<1>1. Peer[n] \in Nodes
  BY LinkConstants
<1>2. Local(Inbox(n), Outbox(Peer[n]), rx[n], tx[Peer[n]], missed[Peer[n]])
  BY DEF GapInv, LocalAt
<1>3. Local(Inbox(n), Outbox(Peer[n]), rx'[n], tx'[Peer[n]], missed[Peer[n]])
  BY <1>1, <1>2, LocalIdle
<1>4. Inbox(n)' = Inbox(n) /\ Outbox(Peer[n])' = Outbox(Peer[n]) /\ missed' = missed
  BY DEF Inbox, Outbox
<1>5. Local(Inbox(n)', Outbox(Peer[n])', rx'[n], tx'[Peer[n]], missed'[Peer[n]])
  BY <1>3, <1>4
<1>6. QED
  BY <1>5 DEF LocalAt, Local, NextHead

LEMMA GapSend ==
  ASSUME TypeOK, GapInv, UNCHANGED <<rxbuf, rx, cdcTx, cdcRx, missed>>,
         NEW m \in Nodes, NEW x \in WireBeat,
         txbuf' = [txbuf EXCEPT ![m] = Append(@, x)],
         x.head <=> tx[m] # "SEND_DATA", x.last <=> tx'[m] # "SEND_DATA",
         \A k \in Nodes : k # m => tx'[k] = tx[k]
  PROVE  GapInv'
<1> SUFFICES ASSUME NEW n \in Nodes PROVE LocalAt(n)'
  BY DEF GapInv
<1> DEFINE o == Peer[n]
<1>1. o \in Nodes /\ Inbox(n) \in Seq(WireBeat) /\ Outbox(o) \in Seq(WireBeat)
  BY BoxTypes
<1>2. Local(Inbox(n), Outbox(o), rx[n], tx[o], missed[o])
  BY DEF GapInv, LocalAt
<1>3. Inbox(n)' = Inbox(n) /\ rx'[n] = rx[n] /\ missed'[o] = missed[o]
  BY DEF Inbox
<1> HIDE DEF o
<1>4. Local(Inbox(n)', Outbox(o)', rx'[n], tx'[o], missed'[o])
  <2>1. CASE o = m
    <3>1. txbuf'[o] = Append(txbuf[o], x)
      BY <1>1, <2>1 DEF TypeOK, NodeTypeOK
    <3>2. cdcTx[o] \in Seq(WireBeat) /\ txbuf[o] \in Seq(WireBeat)
      BY <1>1, BufferTypes
    <3>3. Outbox(o)' = Append(Outbox(o), x)
      <4>1. cdcTx[o] \o Append(txbuf[o], x) = Append(cdcTx[o] \o txbuf[o], x)
        BY <3>2, AppendLast
      <4>2. QED
        BY <3>1, <4>1 DEF Outbox
    <3>4. Local(Inbox(n), Append(Outbox(o), x), rx[n], tx'[o], missed[o])
      BY <1>1, <1>2, <2>1, LocalSend
    <3>5. QED
      BY <1>3, <3>3, <3>4
  <2>2. CASE o # m
    <3>1. Outbox(o)' = Outbox(o) /\ tx'[o] = tx[o]
      BY <1>1, <2>2 DEF Outbox, TypeOK, NodeTypeOK
    <3>2. QED
      BY <1>2, <1>3, <3>1
  <2>3. QED
    BY <2>1, <2>2
<1>5. QED
  BY <1>4 DEF LocalAt, Local, NextHead, o

LEMMA GapTake ==
  ASSUME TypeOK, GapInv, UNCHANGED <<txbuf, tx, cdcTx, cdcRx, missed>>,
         NEW m \in Nodes, rxbuf[m] # <<>>,
         rxbuf' = [rxbuf EXCEPT ![m] = Tail(@)],
         rx'[m] = "IDLE" => rxbuf[m][1].last,
         \A k \in Nodes : k # m => rx'[k] = rx[k]
  PROVE  GapInv'
<1> SUFFICES ASSUME NEW n \in Nodes PROVE LocalAt(n)'
  BY DEF GapInv
<1> DEFINE o == Peer[n]
<1>1. o \in Nodes /\ Inbox(n) \in Seq(WireBeat) /\ Outbox(o) \in Seq(WireBeat)
  BY BoxTypes
<1>2. Local(Inbox(n), Outbox(o), rx[n], tx[o], missed[o])
  BY DEF GapInv, LocalAt
<1>3. Outbox(o)' = Outbox(o) /\ tx'[o] = tx[o] /\ missed'[o] = missed[o]
  BY DEF Outbox
<1> HIDE DEF o
<1>4. Local(Inbox(n)', Outbox(o)', rx'[n], tx'[o], missed'[o])
  <2>1. CASE n = m
    <3>1. rxbuf'[n] = Tail(rxbuf[n]) /\ cdcRx' = cdcRx
      BY <2>1 DEF TypeOK, NodeTypeOK
    <3>2. cdcRx[n] \in Seq(WireBeat) /\ rxbuf[n] \in Seq(WireBeat) /\ rxbuf[n] # <<>>
      BY <2>1, BufferTypes
    <3>3. Inbox(n) # <<>> /\ Tail(rxbuf[n]) \o cdcRx[n] = Tail(Inbox(n)) /\ Inbox(n)[1] = rxbuf[n][1]
      <4> DEFINE a == rxbuf[n]
                 b == cdcRx[n]
      <4>1. a \in Seq(WireBeat) /\ b \in Seq(WireBeat) /\ a # <<>>
        BY <3>2
      <4> HIDE DEF a, b
      <4>2. a \o b # <<>> /\ Tail(a) \o b = Tail(a \o b) /\ (a \o b)[1] = a[1]
        BY <4>1
      <4>3. QED
        BY <4>2 DEF a, b, Inbox
    <3>4. Inbox(n)' = Tail(Inbox(n))
      BY <3>1, <3>3 DEF Inbox
    <3>5. Local(Tail(Inbox(n)), Outbox(o), rx'[n], tx[o], missed[o])
      BY <1>1, <1>2, <2>1, <3>3, LocalTake
    <3>6. QED
      BY <1>3, <3>4, <3>5
  <2>2. CASE n # m
    <3>1. Inbox(n)' = Inbox(n) /\ rx'[n] = rx[n]
      BY <1>1, <2>2 DEF Inbox, TypeOK, NodeTypeOK
    <3>2. QED
      BY <1>2, <1>3, <3>1
  <2>3. QED
    BY <2>1, <2>2
<1>5. QED
  BY <1>4 DEF LocalAt, Local, NextHead, o

LEMMA GapNode ==
  ASSUME TypeOK, GapInv, NEW m \in Nodes, NodeStep(m), UNCHANGED <<cdcTx, cdcRx, missed>>
  PROVE  GapInv'
<1>1. CASE GeneratorBeat(m) \/ CheckerBeat(m) \/ StatusPulse(m) \/ ProbeStart(m) \/ ProbeBeat(m)
           \/ Regrant(m)
  <2>1. UNCHANGED <<tx, rx, txbuf, rxbuf>>
    BY <1>1 DEF GeneratorBeat, CheckerBeat, StatusPulse, ProbeStart, ProbeBeat, Regrant,
                txVars, rxVars
  <2>2. QED
    BY <2>1, GapIdle
<1>2. CASE TxStart(m)
  <2>1. tx[m] = "IDLE" /\ tx' = [tx EXCEPT ![m] = "SEND_HEADER"] /\ UNCHANGED <<rx, txbuf, rxbuf>>
    BY <1>2 DEF TxStart, rxVars
  <2>2. \A k \in Nodes : tx'[k] = "SEND_DATA" <=> tx[k] = "SEND_DATA"
    BY <2>1 DEF TypeOK, NodeTypeOK
  <2>3. QED
    BY <2>1, <2>2, GapIdle
<1>3. CASE RxJudge(m)
  <2>1. /\ rx' = [rx EXCEPT ![m] = IF hdr[m].magic THEN "RECEIVE" ELSE "DROP"]
        /\ UNCHANGED <<tx, txbuf, rxbuf>>
    BY <1>3 DEF RxJudge, txVars
  <2>2. \A k \in Nodes : rx'[k] = "IDLE" => rx[k] = "IDLE"
    BY <2>1 DEF TypeOK, NodeTypeOK
  <2>3. QED
    BY <2>1, <2>2, GapIdle
<1>4. CASE TxHeader(m)
  <2> DEFINE x == HeaderBeat(Head(ptx[m]).pf)
  <2>1. /\ tx[m] = "SEND_HEADER" /\ txbuf' = [txbuf EXCEPT ![m] = Append(@, x)]
        /\ tx' = [tx EXCEPT ![m] = "SEND_DATA"] /\ UNCHANGED <<rx, rxbuf>> /\ ptx[m] # <<>>
    BY <1>4 DEF TxHeader, rxVars
  <2>2. Head(ptx[m]) \in UserBeat
    BY <2>1 DEF TypeOK, NodeTypeOK
  <2>3. x \in WireBeat /\ x.head /\ ~x.last
    BY <2>2 DEF UserBeat, WireBeat, HeaderBeat, Word
  <2>4. tx'[m] = "SEND_DATA" /\ \A k \in Nodes : k # m => tx'[k] = tx[k]
    BY <2>1 DEF TypeOK, NodeTypeOK
  <2> HIDE DEF x
  <2>5. QED
    BY <2>1, <2>3, <2>4, GapSend
<1>5. CASE TxData(m)
  <2> DEFINE b == Head(ptx[m])
             x == DataBeat(b)
  <2>1. /\ tx[m] = "SEND_DATA" /\ txbuf' = [txbuf EXCEPT ![m] = Append(@, x)]
        /\ tx' = IF b.last THEN [tx EXCEPT ![m] = "IDLE"] ELSE tx
        /\ UNCHANGED <<rx, rxbuf>> /\ ptx[m] # <<>>
    BY <1>5 DEF TxData, rxVars
  <2>2. b \in UserBeat
    BY <2>1 DEF TypeOK, NodeTypeOK
  <2> HIDE DEF b
  <2>3. x \in WireBeat /\ ~x.head /\ (x.last <=> b.last)
    BY <2>2 DEF UserBeat, WireBeat, DataBeat
  <2>4. (b.last <=> tx'[m] # "SEND_DATA") /\ \A k \in Nodes : k # m => tx'[k] = tx[k]
    <3>1. CASE b.last
      <4>1. tx'[m] = "IDLE" /\ \A k \in Nodes : k # m => tx'[k] = tx[k]
        BY <2>1, <3>1 DEF TypeOK, NodeTypeOK
      <4>2. QED
        BY <3>1, <4>1
    <3>2. CASE ~b.last
      BY <2>1, <3>2
    <3>3. QED
      BY <3>1, <3>2
  <2> HIDE DEF x
  <2>5. QED
    BY <2>1, <2>3, <2>4, GapSend
<1>6. CASE RxHeader(m)
  <2>1. /\ rxbuf[m] # <<>> /\ rxbuf' = [rxbuf EXCEPT ![m] = Tail(@)]
        /\ rx' = [rx EXCEPT ![m] = "HEADER"] /\ UNCHANGED <<tx, txbuf>>
    BY <1>6 DEF RxHeader, txVars
  <2>2. rx'[m] = "HEADER" /\ \A k \in Nodes : k # m => rx'[k] = rx[k]
    BY <2>1 DEF TypeOK, NodeTypeOK
  <2>3. QED
    BY <2>1, <2>2, GapTake
<1>7. CASE RxBeat(m)
  <2>1. /\ rxbuf[m] # <<>> /\ rxbuf' = [rxbuf EXCEPT ![m] = Tail(@)]
        /\ rx' = RxAfter(m) /\ UNCHANGED <<tx, txbuf>>
        /\ rx[m] = "RECEIVE" \/ rx[m] = "DROP"
    BY <1>7 DEF RxBeat, txVars
  <2>2. Head(rxbuf[m]) = rxbuf[m][1]
    BY <2>1 DEF TypeOK, NodeTypeOK
  <2>3. (rx'[m] = "IDLE" => rxbuf[m][1].last) /\ \A k \in Nodes : k # m => rx'[k] = rx[k]
    <3>1. CASE rxbuf[m][1].last
      BY <2>1, <2>2, <3>1 DEF RxAfter, TypeOK, NodeTypeOK
    <3>2. CASE ~rxbuf[m][1].last
      BY <2>1, <2>2, <3>2 DEF RxAfter
    <3>3. QED
      BY <3>1, <3>2
  <2>4. QED
    BY <2>1, <2>3, GapTake
<1>8. QED
  BY <1>1, <1>2, <1>3, <1>4, <1>5, <1>6, <1>7 DEF NodeStep

LEMMA GapEnter ==
  ASSUME TypeOK, GapInv, NEW m \in Nodes, EnterLink(m)
  PROVE  GapInv'
<1>1. /\ txbuf[m] # <<>> /\ txbuf' = [txbuf EXCEPT ![m] = Tail(@)]
      /\ cdcTx' = [cdcTx EXCEPT ![m] = Append(@, Head(txbuf[m]))]
      /\ UNCHANGED <<rxbuf, cdcRx, tx, rx, missed>>
  BY DEF EnterLink, rxVars
<1>2. cdcTx \in [Nodes -> Seq(WireBeat)] /\ txbuf \in [Nodes -> Seq(WireBeat)]
  BY DEF TypeOK, NodeTypeOK
<1>3. ASSUME NEW o \in Nodes PROVE Outbox(o)' = Outbox(o)
  <2>1. CASE o = m
    <3>1. cdcTx'[o] = Append(cdcTx[o], Head(txbuf[o])) /\ txbuf'[o] = Tail(txbuf[o])
      BY <1>1, <1>2, <2>1
    <3>2. cdcTx[o] \in Seq(WireBeat) /\ txbuf[o] \in Seq(WireBeat) /\ txbuf[o] # <<>>
      BY <1>1, <1>2, <2>1
    <3>3. QED
      BY <3>1, <3>2, MoveKeeps DEF Outbox
  <2>2. CASE o # m
    BY <1>1, <1>2, <2>2 DEF Outbox
  <2>3. QED
    BY <2>1, <2>2
<1>4. ASSUME NEW n \in Nodes PROVE LocalAt(n)'
  <2>1. Outbox(Peer[n])' = Outbox(Peer[n]) /\ Inbox(n)' = Inbox(n)
    BY <1>1, <1>3, LinkConstants DEF Inbox
  <2>2. Local(Inbox(n), Outbox(Peer[n]), rx[n], tx[Peer[n]], missed[Peer[n]])
    BY DEF GapInv, LocalAt
  <2>3. Local(Inbox(n)', Outbox(Peer[n])', rx'[n], tx'[Peer[n]], missed'[Peer[n]])
    BY <1>1, <2>1, <2>2
  <2>4. QED
    BY <2>3 DEF LocalAt, Local, NextHead
<1>5. QED
  BY <1>4 DEF GapInv

LEMMA GapLeave ==
  ASSUME TypeOK, GapInv, NEW m \in Nodes, LeaveLink(m)
  PROVE  GapInv'
<1>1. /\ cdcRx[m] # <<>> /\ cdcRx' = [cdcRx EXCEPT ![m] = Tail(@)]
      /\ rxbuf' = [rxbuf EXCEPT ![m] = Append(@, Head(cdcRx[m]))]
      /\ UNCHANGED <<txbuf, cdcTx, tx, rx, missed>>
  BY DEF LeaveLink, txVars
<1>2. cdcRx \in [Nodes -> Seq(WireBeat)] /\ rxbuf \in [Nodes -> Seq(WireBeat)]
  BY DEF TypeOK, NodeTypeOK
<1>3. ASSUME NEW n \in Nodes PROVE Inbox(n)' = Inbox(n)
  <2>1. CASE n = m
    <3>1. rxbuf'[n] = Append(rxbuf[n], Head(cdcRx[n])) /\ cdcRx'[n] = Tail(cdcRx[n])
      BY <1>1, <1>2, <2>1
    <3>2. rxbuf[n] \in Seq(WireBeat) /\ cdcRx[n] \in Seq(WireBeat) /\ cdcRx[n] # <<>>
      BY <1>1, <1>2, <2>1
    <3>3. QED
      BY <3>1, <3>2, MoveKeeps DEF Inbox
  <2>2. CASE n # m
    BY <1>1, <1>2, <2>2 DEF Inbox
  <2>3. QED
    BY <2>1, <2>2
<1>4. ASSUME NEW n \in Nodes PROVE LocalAt(n)'
  <2>1. Outbox(Peer[n])' = Outbox(Peer[n]) /\ Inbox(n)' = Inbox(n)
    BY <1>1, <1>3 DEF Outbox
  <2>2. Local(Inbox(n), Outbox(Peer[n]), rx[n], tx[Peer[n]], missed[Peer[n]])
    BY DEF GapInv, LocalAt
  <2>3. Local(Inbox(n)', Outbox(Peer[n])', rx'[n], tx'[Peer[n]], missed'[Peer[n]])
    BY <1>1, <2>1, <2>2
  <2>4. QED
    BY <2>3 DEF LocalAt, Local, NextHead
<1>5. QED
  BY <1>4 DEF GapInv

LEMMA GapSerial ==
  ASSUME TypeOK, GapInv, NEW m \in Nodes, Serial(m)
  PROVE  GapInv'
<1> SUFFICES ASSUME NEW n \in Nodes PROVE LocalAt(n)'
  BY DEF GapInv
<1> DEFINE o == Peer[n]
           p == Peer[m]
           x == Head(cdcTx[m])
           y == [x EXCEPT !.gap = missed[m]]
<1>1. /\ cdcTx[m] # <<>> /\ cdcTx' = [cdcTx EXCEPT ![m] = Tail(@)]
      /\ UNCHANGED <<txbuf, rxbuf, tx, rx>>
      /\ \/ cdcRx' = [cdcRx EXCEPT ![p] = Append(@, y)] /\ missed' = [missed EXCEPT ![m] = FALSE]
         \/ cdcRx' = cdcRx /\ missed' = [missed EXCEPT ![m] = TRUE]
  BY DEF Serial, nodeVars, txVars, rxVars
<1>2. /\ o \in Nodes /\ Inbox(n) \in Seq(WireBeat) /\ Outbox(o) \in Seq(WireBeat)
      /\ p \in Nodes /\ Peer[p] = m /\ (n # p => o # m)
  BY BoxTypes, PeerFacts
<1>3. Local(Inbox(n), Outbox(o), rx[n], tx[o], missed[o])
  BY DEF GapInv, LocalAt
<1>4. /\ cdcTx \in [Nodes -> Seq(WireBeat)] /\ cdcRx \in [Nodes -> Seq(WireBeat)]
      /\ missed \in [Nodes -> BOOLEAN]
  BY DEF TypeOK
<1>5. x \in WireBeat /\ x = cdcTx[m][1] /\ missed[m] \in BOOLEAN
  BY <1>1, <1>4
<1>6. CASE n = p
  <2>1. o = m
    BY <1>2, <1>6
  <2>2. Outbox(m) # <<>> /\ Outbox(m)' = Tail(Outbox(m)) /\ Outbox(m)[1] = x
    <3> DEFINE a == cdcTx[m]
               b == txbuf[m]
    <3>1. a \in Seq(WireBeat) /\ b \in Seq(WireBeat) /\ a # <<>>
      BY <1>1, <1>4, BufferTypes
    <3>2. cdcTx'[m] = Tail(a) /\ txbuf'[m] = b
      BY <1>1, <1>4
    <3>3. Outbox(m)' = Tail(a) \o b
      BY <3>2 DEF Outbox
    <3> HIDE DEF a, b
    <3>4. a \o b # <<>> /\ Tail(a) \o b = Tail(a \o b) /\ (a \o b)[1] = a[1]
      BY <3>1
    <3>5. QED
      BY <1>5, <3>3, <3>4 DEF a, b, Outbox
  <2>3. y \in WireBeat /\ y.head = x.head /\ y.last = x.last /\ y.gap = missed[m]
    <3> HIDE DEF x
    <3>1. QED
      BY <1>5 DEF WireBeat
  <2> HIDE DEF x, y, o
  <2>4. CASE cdcRx' = [cdcRx EXCEPT ![p] = Append(@, y)] /\ missed' = [missed EXCEPT ![m] = FALSE]
    <3>1. cdcRx'[n] = Append(cdcRx[n], y) /\ rxbuf' = rxbuf
      BY <1>1, <1>2, <1>4, <1>6, <2>4
    <3>2. Inbox(n)' = Append(Inbox(n), y)
      <4>1. rxbuf[n] \in Seq(WireBeat) /\ cdcRx[n] \in Seq(WireBeat)
        BY BufferTypes
      <4>2. rxbuf[n] \o Append(cdcRx[n], y) = Append(rxbuf[n] \o cdcRx[n], y)
        BY <2>3, <4>1, AppendLast
      <4>3. QED
        BY <3>1, <4>2 DEF Inbox
    <3>3. Local(Append(Inbox(n), y), Tail(Outbox(m)), rx[n], tx[m], FALSE)
      BY <1>2, <1>3, <1>5, <2>1, <2>2, <2>3, LocalArrive
    <3>4. missed'[m] = FALSE
      BY <1>4, <2>4
    <3>5. Local(Inbox(n)', Outbox(m)', rx'[n], tx'[m], missed'[m])
      BY <1>1, <2>2, <3>2, <3>3, <3>4
    <3>6. QED
      BY <2>1, <3>5 DEF LocalAt, Local, NextHead, o
  <2>5. CASE cdcRx' = cdcRx /\ missed' = [missed EXCEPT ![m] = TRUE]
    <3>1. Inbox(n)' = Inbox(n) /\ missed'[m] = TRUE
      BY <1>1, <1>4, <2>5 DEF Inbox
    <3>2. Local(Inbox(n), Tail(Outbox(m)), rx[n], tx[m], TRUE)
      BY <1>2, <1>3, <2>1, <2>2, LocalLose
    <3>3. Local(Inbox(n)', Outbox(m)', rx'[n], tx'[m], missed'[m])
      BY <1>1, <2>2, <3>1, <3>2
    <3>4. QED
      BY <2>1, <3>3 DEF LocalAt, Local, NextHead, o
  <2>6. QED
    BY <1>1, <2>4, <2>5
<1>7. CASE n # p
  <2>1. Outbox(o)' = Outbox(o) /\ Inbox(n)' = Inbox(n) /\ missed'[o] = missed[o]
    BY <1>1, <1>2, <1>4, <1>7 DEF Outbox, Inbox
  <2>2. Local(Inbox(n)', Outbox(o)', rx'[n], tx'[o], missed'[o])
    BY <1>1, <1>3, <2>1
  <2>3. QED
    BY <2>2 DEF LocalAt, Local, NextHead
<1>8. QED
  BY <1>6, <1>7

LEMMA GapDown ==
  ASSUME TypeOK, GapInv, NEW m \in Nodes, ChannelDown(m)
  PROVE  GapInv'
<1> SUFFICES ASSUME NEW n \in Nodes PROVE LocalAt(n)'
  BY DEF GapInv
<1> DEFINE o == Peer[n]
<1>1. /\ cdcRx' = [cdcRx EXCEPT ![m] = <<>>] /\ UNCHANGED <<txbuf, rxbuf, tx, rx>>
      /\ cdcTx' = IF TxReset THEN [cdcTx EXCEPT ![m] = <<>>] ELSE cdcTx
      /\ missed' = [k \in Nodes |-> \/ missed[k]
                                    \/ k = m /\ TxReset /\ cdcTx[m] # <<>>
                                    \/ k = Peer[m] /\ cdcRx[m] # <<>>]
  BY DEF ChannelDown, nodeVars, txVars, rxVars
<1>2. /\ o \in Nodes /\ Inbox(n) \in Seq(WireBeat) /\ Outbox(o) \in Seq(WireBeat)
  BY BoxTypes
<1>3. Local(Inbox(n), Outbox(o), rx[n], tx[o], missed[o])
  BY DEF GapInv, LocalAt
<1>4. /\ cdcTx \in [Nodes -> Seq(WireBeat)] /\ cdcRx \in [Nodes -> Seq(WireBeat)]
      /\ missed \in [Nodes -> BOOLEAN]
  BY DEF TypeOK
<1>5. missed'[o] <=> \/ missed[o]
                     \/ o = m /\ TxReset /\ cdcTx[m] # <<>>
                     \/ o = Peer[m] /\ cdcRx[m] # <<>>
  BY <1>1, <1>2, Zenon
<1>6. missed'[o] \in BOOLEAN
  <2>1. missed'[o] = (\/ missed[o]
                      \/ o = m /\ TxReset /\ cdcTx[m] # <<>>
                      \/ o = Peer[m] /\ cdcRx[m] # <<>>)
    BY <1>1, <1>2, Zenon
  <2>2. QED
    BY <2>1, Zenon
\* First the receiver's side, then the sender's.
<1> DEFINE u == Inbox(n)'
           k == missed[o] \/ (n = m /\ cdcRx[n] # <<>>)
<1>7. Local(u, Outbox(o), rx[n], tx[o], k)
  <2>1. CASE n = m /\ cdcRx[n] # <<>>
    <3>1. u = rxbuf[n] \o <<>>
      BY <1>1, <1>4, <2>1 DEF Inbox
    <3>2. rxbuf[n] \in Seq(WireBeat) /\ cdcRx[n] \in Seq(WireBeat)
      BY BufferTypes
    <3>3. u = rxbuf[n]
      BY <3>1, <3>2
    <3>4. Local(rxbuf[n], Outbox(o), rx[n], tx[o], TRUE)
      BY <1>3, <3>2, LocalFlushRx DEF Inbox
    <3> HIDE DEF u
    <3>5. QED
      BY <2>1, <3>3, <3>4 DEF Local
  <2>2. CASE ~(n = m /\ cdcRx[n] # <<>>)
    <3>1. cdcRx'[n] = cdcRx[n]
      BY <1>1, <1>4, <2>2
    <3>2. u = Inbox(n)
      BY <1>1, <3>1 DEF Inbox
    <3> HIDE DEF u
    <3>3. QED
      BY <1>3, <2>2, <3>2 DEF Local
  <2>3. QED
    BY <2>1, <2>2
<1> HIDE DEF u, k
<1>8. k => missed'[o]
  BY <1>5, PeerFacts DEF k
<1>9. Local(u, Outbox(o)', rx[n], tx[o], missed'[o])
  <2>1. CASE o = m /\ TxReset /\ cdcTx[o] # <<>>
    <3>1. Outbox(o)' = <<>> \o txbuf[o]
      BY <1>1, <1>2, <1>4, <2>1 DEF Outbox
    <3>2. cdcTx[o] \in Seq(WireBeat) /\ txbuf[o] \in Seq(WireBeat)
      BY <1>2, BufferTypes
    <3>3. Outbox(o)' = txbuf[o]
      BY <3>1, <3>2
    <3>4. Local(u, txbuf[o], rx[n], tx[o], TRUE)
      BY <1>7, <3>2, LocalFlushTx DEF Outbox
    <3>5. missed'[o]
      BY <1>5, <2>1
    <3>6. QED
      BY <3>3, <3>4, <3>5 DEF Local
  <2>2. CASE ~(o = m /\ TxReset /\ cdcTx[o] # <<>>)
    <3>1. cdcTx'[o] = cdcTx[o]
      BY <1>1, <1>2, <1>4, <2>2
    <3>2. Outbox(o)' = Outbox(o)
      BY <1>1, <3>1 DEF Outbox
    <3>3. QED
      BY <1>7, <1>8, <3>2 DEF Local
  <2>3. QED
    BY <2>1, <2>2
<1>10. Local(Inbox(n)', Outbox(o)', rx'[n], tx'[o], missed'[o])
  BY <1>1, <1>9 DEF u
<1>11. QED
  BY <1>10 DEF LocalAt, Local, NextHead

(***************************************************************************)
(* After every last beat that arrives the receiver is aligned again: what  *)
(* it takes for a header in IDLE is one, unless the beat just before it    *)
(* was lost, whatever was lost earlier, however often the channels fail    *)
(* and whatever data reads as the magic (framing.py:28-96,                 *)
(* kyokko.py:118-130), for any depths and lengths.                         *)
(***************************************************************************)
THEOREM LinkRealigns == Spec => []Realigns
<1>1. Init => GapInv
  <2> SUFFICES ASSUME Init, NEW n \in Nodes PROVE LocalAt(n)
    BY DEF GapInv
  <2>1. Peer[n] \in Nodes
    BY LinkConstants
  <2>2. Inbox(n) = <<>> \o <<>> /\ Outbox(Peer[n]) = <<>> \o <<>> /\ tx[Peer[n]] = "IDLE"
    BY <2>1 DEF Init, NodeInit, Inbox, Outbox
  <2>3. Inbox(n) = <<>> /\ Outbox(Peer[n]) = <<>> /\ Len(<<>>) = 0
    BY <2>2
  <2>4. QED
    BY <2>2, <2>3 DEF LocalAt, Local, NextHead
<1>2. GapInv /\ TypeOK /\ [Next]_vars => GapInv'
  <2> SUFFICES ASSUME TypeOK, GapInv, [Next]_vars PROVE GapInv'
    OBVIOUS
  <2>1. ASSUME NEW n \in Commanders, NEW l \in Lengths, Command(n, l), UNCHANGED linkVars
        PROVE  GapInv'
    <3>1. UNCHANGED <<txbuf, rxbuf, cdcTx, cdcRx, missed, tx, rx>>
      BY <2>1 DEF Command, linkVars, txVars, rxVars
    <3>2. QED
      BY <3>1, GapIdle
  <2>2. ASSUME NEW n \in Nodes, Node(n) PROVE GapInv'
    BY <2>2, GapNode DEF Node, linkVars
  <2>3. ASSUME NEW n \in Nodes, ChannelUp(n) PROVE GapInv'
    <3>1. UNCHANGED <<txbuf, rxbuf, cdcTx, cdcRx, missed, tx, rx>>
      BY <2>3 DEF ChannelUp, nodeVars, txVars, rxVars
    <3>2. QED
      BY <3>1, GapIdle
  <2>4. ASSUME NEW n \in Nodes, EnterLink(n) \/ Serial(n) \/ LeaveLink(n) \/ ChannelDown(n)
        PROVE  GapInv'
    BY <2>4, GapEnter, GapSerial, GapLeave, GapDown
  <2>5. CASE UNCHANGED vars
    <3>1. UNCHANGED <<txbuf, rxbuf, cdcTx, cdcRx, missed, tx, rx>>
      BY <2>5 DEF vars, hardware, linkVars, nodeVars, txVars, rxVars
    <3>2. QED
      BY <3>1, GapIdle
  <2>6. QED
    BY <2>1, <2>2, <2>3, <2>4, <2>5 DEF Next, Transfer
<1>3. GapInv => Realigns
  BY DEF GapInv, LocalAt, Local, Realigns, Inbox
<1>4. QED
  BY <1>1, <1>2, <1>3, LinkTypeCorrect, PTL DEF Spec
-----------------------------------------------------------------------------
(***************************************************************************)
(* Where the one answer to a command can be, after any losses.  A frame is *)
(* for the probe of the node it comes to (pf = 1) or for its checker.  On  *)
(* the wire its header counts: the last beat behind it may come from       *)
(* another frame.  In a skid buffer its last beat counts, in a receiver    *)
(* the frame it is in.  A frame whose header is sent and whose last beat   *)
(* is still in the node would count twice, so a transmitter in SEND_DATA   *)
(* takes one off.                                                          *)
(***************************************************************************)
Ends == {"probe", "checker"}

Marked(q, K) == Cardinality({i \in 1..Len(q) : q[i] \in K})

Header(k)   == {e \in WireBeat : e.head /\ (e.pf <=> k = "probe")}
LastBeat(k) == {e \in UserBeat : e.last /\ (e.pf <=> k = "probe")}

Sending(s, k) ==
  IF tx[s] = "SEND_DATA" /\ (Waiting(s).pf <=> k = "probe") THEN 1 ELSE 0

Receiving(p, k) ==
  IF /\ rx[p] = "RECEIVE" \/ (rx[p] = "HEADER" /\ hdr[p].magic)
     /\ hdr[p].pf <=> k = "probe"
  THEN 1 ELSE 0

\* The frames for k that are to leave a node, and those that reached it.
Leaving(s, k) == (Marked(ptx[s], LastBeat(k)) - Sending(s, k))
                 + (Marked(txbuf[s], Header(k)) + Marked(cdcTx[s], Header(k)))
Arrived(p, k) == (Marked(cdcRx[p], Header(k)) + Marked(rxbuf[p], Header(k)))
                 + (Marked(prx[p], LastBeat(k)) + Receiving(p, k))

\* What a tester has out beyond its command, and what a node has to echo.
Running(n)   == IF tfg[n] = "RUN" THEN 1 ELSE 0
Reporting(n) == IF status[n].valid THEN 1 ELSE 0
Waited(n)    == IF tester[n] = "COUNT_LATENCY" THEN 1 ELSE 0

Owed(n) == ((Running(n) + Leaving(n, "probe")) + (Arrived(n, "checker") + Reporting(n)))
           - Waited(n)
Echoed(p) == Arrived(p, "probe") + Leaving(p, "checker")

\* The beats behind a receiver are frames, and the probe's is at their head.
DispatchAt(p) ==
  /\ \A i \in 1..Len(prx[p]) - 1 : ~prx[p][i].last => prx[p][i + 1].pf = prx[p][i].pf
  /\ prx[p] # <<>> /\ ~prx[p][Len(prx[p])].last
       => rx[p] = "RECEIVE" /\ hdr[p].pf = prx[p][Len(prx[p])].pf
  /\ probe[p] = "PROBE_RESPONSE" =>
       IF prx[p] = <<>> THEN rx[p] = "RECEIVE" /\ hdr[p].pf ELSE prx[p][1].pf

Dispatch == \A p \in Nodes : DispatchAt(p)

Balance == \A n \in Nodes : Owed(n) + Echoed(Peer[n]) <= 0

StrayInv == Arbitration /\ Dispatch /\ (~fooled => Balance)

LEMMA MarkedFinite ==
  ASSUME NEW S, NEW q \in Seq(S), NEW K
  PROVE  /\ IsFiniteSet({i \in 1..Len(q) : q[i] \in K})
         /\ Marked(q, K) \in Nat
         /\ \A i \in 1..Len(q) : q[i] \in K => Marked(q, K) >= 1
<1> DEFINE M == {i \in 1..Len(q) : q[i] \in K}
<1>1. Len(q) \in Nat
  OBVIOUS
<1>2. IsFiniteSet(1..Len(q)) /\ M \in SUBSET (1..Len(q))
  BY <1>1, FS_Interval
<1>3. IsFiniteSet(M)
  BY <1>2, FS_Subset
<1>4. Cardinality(M) \in Nat
  BY <1>3, FS_CardinalityType
<1>5. ASSUME NEW i \in 1..Len(q), q[i] \in K PROVE Cardinality(M) >= 1
  <2>1. i \in M
    BY <1>5
  <2>2. M # {}
    BY <2>1
  <2> HIDE DEF M
  <2>3. Cardinality(M) # 0
    BY <1>3, <2>2, FS_EmptySet
  <2>4. QED
    BY <1>4, <2>3
<1>6. QED
  BY <1>3, <1>4, <1>5 DEF Marked

LEMMA MarkedEmpty == \A K : Marked(<<>>, K) = 0
<1> SUFFICES ASSUME NEW K PROVE Marked(<<>>, K) = 0
  OBVIOUS
<1>1. {i \in 1..Len(<<>>) : <<>>[i] \in K} = {}
  OBVIOUS
<1>2. QED
  BY <1>1, FS_EmptySet DEF Marked

LEMMA MarkedAppend ==
  ASSUME NEW S, NEW q \in Seq(S), NEW e \in S, NEW K
  PROVE  Marked(Append(q, e), K) = Marked(q, K) + (IF e \in K THEN 1 ELSE 0)
<1> DEFINE p == Append(q, e)
           M == {i \in 1..Len(q) : q[i] \in K}
           P == {i \in 1..Len(p) : p[i] \in K}
           z == Len(q) + 1
<1>1. /\ Len(q) \in Nat /\ Len(p) = z /\ p[z] = e
      /\ \A i \in 1..Len(q) : p[i] = q[i]
  OBVIOUS
<1> HIDE DEF p
<1>2. IsFiniteSet(M) /\ z \notin M
  <2>1. IsFiniteSet(M)
    BY MarkedFinite
  <2>2. z \notin 1..Len(q)
    BY <1>1
  <2>3. QED
    BY <2>1, <2>2
<1>3. CASE e \in K
  <2>1. P = M \cup {z}
    BY <1>1, <1>3
  <2> HIDE DEF M, P, z
  <2>2. Cardinality(P) = Cardinality(M) + 1
    BY <1>2, <2>1, FS_AddElement
  <2>3. QED
    BY <1>3, <2>2 DEF Marked, M, P, p
<1>4. CASE e \notin K
  <2>1. P = M
    BY <1>1, <1>4
  <2>2. Marked(q, K) \in Nat
    BY MarkedFinite
  <2>3. Marked(p, K) = Marked(q, K)
    BY <2>1 DEF Marked
  <2>4. QED
    BY <1>4, <2>2, <2>3 DEF p
<1>5. QED
  BY <1>3, <1>4

LEMMA MarkedTail ==
  ASSUME NEW S, NEW q \in Seq(S), q # <<>>, NEW K
  PROVE  Marked(q, K) = Marked(Tail(q), K) + (IF Head(q) \in K THEN 1 ELSE 0)
<1> DEFINE p == Tail(q)
           M == {i \in 1..Len(q) : q[i] \in K}
           P == {i \in 1..Len(p) : p[i] \in K}
           U == M \ {1}
           f == [i \in P |-> i + 1]
<1>1. /\ Len(q) \in Nat /\ Len(q) >= 1 /\ Len(p) = Len(q) - 1 /\ Head(q) = q[1]
      /\ \A i \in 1..Len(q) - 1 : p[i] = q[i + 1]
      /\ p \in Seq(S)
  OBVIOUS
<1> HIDE DEF p
<1>2. IsFiniteSet(M) /\ IsFiniteSet(P) /\ Marked(q, K) \in Nat /\ Marked(p, K) \in Nat
  BY <1>1, MarkedFinite
<1>3. f \in Bijection(P, U)
  <2>1. \A i \in P : i \in Int /\ f[i] = i + 1 /\ i + 1 \in U
    BY <1>1
  <2>2. \A i, j \in P : f[i] = f[j] => i = j
    BY <2>1
  <2>3. \A u \in U : \E i \in P : f[i] = u
    <3> SUFFICES ASSUME NEW u \in U PROVE \E i \in P : f[i] = u
      OBVIOUS
    <3>1. u - 1 \in P /\ (u - 1) + 1 = u
      BY <1>1
    <3>2. QED
      BY <2>1, <3>1
  <2>4. f \in [P -> U]
    BY <2>1
  <2> HIDE DEF f, P, U
  <2>5. f \in Injection(P, U)
    BY <2>2, <2>4 DEF Injection, IsInjective
  <2>6. f \in Surjection(P, U)
    BY <2>3, <2>4 DEF Surjection
  <2>7. QED
    BY <2>5, <2>6 DEF Bijection
<1> HIDE DEF f
<1>4. ExistsBijection(P, U)
  BY <1>3 DEF ExistsBijection
<1>5. IsFiniteSet(U) /\ Cardinality(U) = Cardinality(P)
  <2> HIDE DEF P, U
  <2>1. QED
    BY <1>2, <1>4, FS_Bijection
<1>6. CASE Head(q) \in K
  <2>1. M = U \cup {1} /\ 1 \notin U
    BY <1>1, <1>6
  <2> HIDE DEF M, P, U
  <2>2. Cardinality(M) = Cardinality(U) + 1
    BY <1>5, <2>1, FS_AddElement
  <2>3. QED
    BY <1>5, <1>6, <2>2 DEF Marked, M, P, p
<1>7. CASE Head(q) \notin K
  <2>1. M = U
    BY <1>1, <1>7
  <2>2. Marked(q, K) = Marked(p, K)
    BY <1>5, <2>1 DEF Marked
  <2>3. QED
    BY <1>2, <1>7, <2>2 DEF p
<1>8. QED
  BY <1>6, <1>7

LEMMA MarkedTypes ==
  ASSUME TypeOK, NEW n \in Nodes, NEW k \in Ends
  PROVE  /\ Marked(ptx[n], LastBeat(k)) \in Nat /\ Marked(prx[n], LastBeat(k)) \in Nat
         /\ Marked(txbuf[n], Header(k)) \in Nat /\ Marked(cdcTx[n], Header(k)) \in Nat
         /\ Marked(rxbuf[n], Header(k)) \in Nat /\ Marked(cdcRx[n], Header(k)) \in Nat
<1>1. /\ ptx[n] \in Seq(UserBeat) /\ prx[n] \in Seq(UserBeat)
      /\ txbuf[n] \in Seq(WireBeat) /\ cdcTx[n] \in Seq(WireBeat)
      /\ rxbuf[n] \in Seq(WireBeat) /\ cdcRx[n] \in Seq(WireBeat)
  BY DEF TypeOK, NodeTypeOK
<1>2. QED
  BY <1>1, MarkedFinite

Loads == \A n \in Nodes : /\ \A k \in Ends : Leaving(n, k) \in Int /\ Arrived(n, k) \in Nat
                          /\ Owed(n) \in Int /\ Echoed(n) \in Int

LEMMA LoadTypes == TypeOK => Loads
<1> SUFFICES ASSUME TypeOK, NEW n \in Nodes
             PROVE  /\ \A k \in Ends : Leaving(n, k) \in Int /\ Arrived(n, k) \in Nat
                    /\ Owed(n) \in Int /\ Echoed(n) \in Int
  BY DEF Loads
<1>1. ASSUME NEW k \in Ends PROVE Leaving(n, k) \in Int /\ Arrived(n, k) \in Nat
  <2>1. Sending(n, k) \in 0..1 /\ Receiving(n, k) \in 0..1
    BY DEF Sending, Receiving
  <2>2. QED
    BY <2>1, MarkedTypes DEF Leaving, Arrived
<1>2. Running(n) \in 0..1 /\ Reporting(n) \in 0..1 /\ Waited(n) \in 0..1
  BY DEF Running, Reporting, Waited
<1>3. /\ Leaving(n, "probe") \in Int /\ Leaving(n, "checker") \in Int
      /\ Arrived(n, "probe") \in Int /\ Arrived(n, "checker") \in Int
  BY <1>1 DEF Ends
<1>4. Owed(n) \in Int /\ Echoed(n) \in Int
  BY <1>2, <1>3 DEF Owed, Echoed
<1>5. QED
  BY <1>1, <1>4

LEMMA LoadTypesNext == TypeOK' => Loads'
  BY LoadTypes, PTL

(***************************************************************************)
(* A step at one node leaves the others' loads alone, so it keeps the      *)
(* balance when it adds to neither load of its own node.                   *)
(***************************************************************************)
Same(n) ==
  /\ tester'[n] = tester[n] /\ tfg'[n] = tfg[n] /\ status'[n] = status[n]
  /\ ptx'[n] = ptx[n] /\ tx'[n] = tx[n] /\ txbuf'[n] = txbuf[n] /\ grant'[n] = grant[n]
  /\ prx'[n] = prx[n] /\ rx'[n] = rx[n] /\ rxbuf'[n] = rxbuf[n] /\ hdr'[n] = hdr[n]
  /\ cdcTx'[n] = cdcTx[n] /\ cdcRx'[n] = cdcRx[n]

Elsewhere(m) == \A n \in Nodes : n # m => Same(n)

LEMMA SendingSame ==
  ASSUME NEW n \in Nodes, ptx'[n] = ptx[n], tx'[n] = tx[n], grant'[n] = grant[n], NEW k \in Ends
  PROVE  Sending(n, k)' = Sending(n, k)
<1>1. Waiting(n)' = Waiting(n)
  BY DEF Waiting
<1>2. QED
  BY <1>1 DEF Sending

LEMMA LeavingSame ==
  ASSUME NEW n \in Nodes, NEW k \in Ends, ptx'[n] = ptx[n], tx'[n] = tx[n],
         grant'[n] = grant[n], txbuf'[n] = txbuf[n], cdcTx'[n] = cdcTx[n]
  PROVE  Leaving(n, k)' = Leaving(n, k)
<1>1. Sending(n, k)' = Sending(n, k)
  BY SendingSame
<1>2. QED
  BY <1>1 DEF Leaving

LEMMA ArrivedSame ==
  ASSUME NEW n \in Nodes, NEW k \in Ends, prx'[n] = prx[n], rx'[n] = rx[n],
         rxbuf'[n] = rxbuf[n], hdr'[n] = hdr[n], cdcRx'[n] = cdcRx[n]
  PROVE  Arrived(n, k)' = Arrived(n, k)
<1>1. Receiving(n, k)' = Receiving(n, k)
  BY DEF Receiving
<1>2. QED
  BY <1>1 DEF Arrived

LEMMA LoadSame ==
  ASSUME NEW n \in Nodes, Same(n)
  PROVE  Owed(n)' = Owed(n) /\ Echoed(n)' = Echoed(n)
<1>1. \A k \in Ends : Leaving(n, k)' = Leaving(n, k) /\ Arrived(n, k)' = Arrived(n, k)
  BY LeavingSame, ArrivedSame DEF Same
<1>2. QED
  BY <1>1 DEF Same, Owed, Echoed, Ends, Running, Reporting, Waited

LEMMA BalanceStep ==
  ASSUME TypeOK, TypeOK', Balance, NEW m \in Nodes, Elsewhere(m),
         Owed(m)' <= Owed(m), Echoed(m)' <= Echoed(m)
  PROVE  Balance'
<1> SUFFICES ASSUME NEW n \in Nodes PROVE Owed(n)' + Echoed(Peer[n])' <= 0
  BY DEF Balance
<1>1. Peer[n] \in Nodes
  BY PeerFacts
<1>2. \A o \in Nodes : Owed(o)' <= Owed(o) /\ Echoed(o)' <= Echoed(o)
  <2> SUFFICES ASSUME NEW o \in Nodes PROVE Owed(o)' <= Owed(o) /\ Echoed(o)' <= Echoed(o)
    OBVIOUS
  <2>1. CASE o = m
    BY <2>1
  <2>2. CASE o # m
    <3>1. Owed(o)' = Owed(o) /\ Echoed(o)' = Echoed(o)
      BY <2>2, LoadSame DEF Elsewhere
    <3>2. QED
      BY <3>1, LoadTypes DEF Loads
  <2>3. QED
    BY <2>1, <2>2
<1>3. Owed(n)' \in Int /\ Echoed(Peer[n])' \in Int
  <2>1. \A o \in Nodes : Owed(o)' \in Int /\ Echoed(o)' \in Int
    BY LoadTypesNext DEF Loads
  <2>2. QED
    BY <1>1, <2>1
<1>4. /\ Owed(n) \in Int /\ Echoed(Peer[n]) \in Int
      /\ Owed(n)' <= Owed(n) /\ Echoed(Peer[n])' <= Echoed(Peer[n])
      /\ Owed(n) + Echoed(Peer[n]) <= 0
  BY <1>1, <1>2, LoadTypes DEF Loads, Balance
<1>5. QED
  BY <1>3, <1>4
-----------------------------------------------------------------------------
(***************************************************************************)
(* The steps of the transmitting side.                                     *)
(***************************************************************************)
\* The transmitter is in the same frame before and after a step.
LEMMA SendingKept ==
  ASSUME NEW m \in Nodes, NEW k \in Ends, tx'[m] = "SEND_DATA" <=> tx[m] = "SEND_DATA",
         tx[m] = "SEND_DATA" => Waiting(m).pf' = Waiting(m).pf
  PROVE  Sending(m, k)' = Sending(m, k)
<1>1. CASE tx[m] = "SEND_DATA"
  BY <1>1 DEF Sending
<1>2. CASE tx[m] # "SEND_DATA"
  BY <1>2 DEF Sending
<1>3. QED
  BY <1>1, <1>2

\* A master gives a beat to the packet engine.
LEMMA LeavingGiven ==
  ASSUME TypeOK, Arbitration, NEW m \in Nodes, NEW e \in UserBeat, NEW k \in Ends,
         ptx' = [ptx EXCEPT ![m] = Append(@, e)], e.pf = (grant[m] = "tester"),
         \A n \in Nodes : n # m => grant'[n] = grant[n],
         UNCHANGED <<tx, txbuf, cdcTx>>
  PROVE  Leaving(m, k)' = Leaving(m, k) + (IF e \in LastBeat(k) THEN 1 ELSE 0)
<1>1. NodeTypeOK /\ ptx[m] \in Seq(UserBeat) /\ ptx'[m] = Append(ptx[m], e)
  BY DEF TypeOK, NodeTypeOK
<1>2. Marked(ptx'[m], LastBeat(k)) = Marked(ptx[m], LastBeat(k)) + (IF e \in LastBeat(k) THEN 1 ELSE 0)
  BY <1>1, MarkedAppend
<1>3. Sending(m, k)' = Sending(m, k)
  BY <1>1, WaitingAppend, SendingKept
<1>4. Sending(m, k) \in Int
  BY DEF Sending
<1>5. Marked(ptx[m], LastBeat(k)) \in Int /\ Marked(txbuf[m], Header(k)) \in Int
      /\ Marked(cdcTx[m], Header(k)) \in Int
  BY MarkedTypes
<1>6. Leaving(m, k)' = (Marked(ptx'[m], LastBeat(k)) - Sending(m, k))
                       + (Marked(txbuf[m], Header(k)) + Marked(cdcTx[m], Header(k)))
  BY <1>3 DEF Leaving
<1>7. QED
  BY <1>2, <1>4, <1>5, <1>6 DEF Leaving

\* The tester's frame counts as running up to its last beat, and then as given.
LEMMA GeneratorBalance ==
  ASSUME TypeOK, TypeOK', Arbitration, Balance, NEW m \in Nodes,
         GeneratorBeat(m), UNCHANGED linkVars
  PROVE  Balance'
<1> DEFINE last == beats[m] = len[m]
           e == [data |-> beats[m], last |-> last, pf |-> TRUE]
<1>1. Elsewhere(m)
  BY DEF Elsewhere, Same, GeneratorBeat, chkVars, txVars, rxVars, linkVars, TypeOK, NodeTypeOK
<1>2. /\ e \in UserBeat /\ ptx' = [ptx EXCEPT ![m] = Append(@, e)]
      /\ grant[m] = "tester" /\ \A n \in Nodes : n # m => grant'[n] = grant[n]
      /\ UNCHANGED <<tx, txbuf, cdcTx>>
      /\ UNCHANGED <<tester, status, prx, rx, rxbuf, hdr, cdcRx>>
  BY ConstantFacts DEF GeneratorBeat, TypeOK, NodeTypeOK, UserBeat, chkVars, txVars, rxVars, linkVars
<1>3. /\ e \in LastBeat("probe") <=> last
      /\ e \notin LastBeat("checker")
      /\ e.pf = (grant[m] = "tester")
  BY <1>2 DEF LastBeat
<1>4. Running(m) = 1 /\ Running(m)' = IF last THEN 0 ELSE 1
  BY DEF GeneratorBeat, Running, TypeOK, NodeTypeOK
<1> HIDE DEF e, last
<1>5. /\ Leaving(m, "probe")' = Leaving(m, "probe") + (IF last THEN 1 ELSE 0)
      /\ Leaving(m, "checker")' = Leaving(m, "checker") + 0
  BY <1>2, <1>3, LeavingGiven DEF Ends
<1>6. \A k \in Ends : Arrived(m, k)' = Arrived(m, k)
  BY <1>2, ArrivedSame
<1>7. Reporting(m)' = Reporting(m) /\ Waited(m)' = Waited(m)
  BY <1>2 DEF Reporting, Waited
<1>8. Reporting(m) \in Int /\ Waited(m) \in Int
  BY DEF Reporting, Waited
<1>9. Owed(m)' <= Owed(m) /\ Echoed(m)' <= Echoed(m)
  BY <1>4, <1>5, <1>6, <1>7, <1>8, LoadTypes DEF Owed, Echoed, Ends, Loads
<1>10. QED
  BY <1>1, <1>9, BalanceStep

\* The first beat of a frame comes with its header and the transmitter's one less.
LEMMA HeaderBalance ==
  ASSUME TypeOK, TypeOK', Arbitration, Balance, NEW m \in Nodes,
         TxHeader(m), UNCHANGED linkVars
  PROVE  Balance'
<1> DEFINE h == HeaderBeat(Head(ptx[m]).pf)
<1>1. Elsewhere(m)
  BY DEF Elsewhere, Same, TxHeader, genVars, chkVars, rxVars, linkVars, TypeOK, NodeTypeOK
<1>2. ptx[m] \in Seq(UserBeat) /\ ptx[m] # <<>> /\ Head(ptx[m]) = ptx[m][1] /\ ptx[m][1] \in UserBeat
  BY DEF TypeOK, NodeTypeOK, TxHeader
<1>3. h \in WireBeat /\ h.head /\ h.pf = ptx[m][1].pf
  BY <1>2, ConstantFacts DEF UserBeat, WireBeat, HeaderBeat
<1>4. /\ txbuf[m] \in Seq(WireBeat) /\ txbuf'[m] = Append(txbuf[m], h)
      /\ tx[m] = "SEND_HEADER" /\ tx'[m] = "SEND_DATA"
      /\ UNCHANGED <<tester, tfg, status, ptx, prx, rx, rxbuf, hdr, cdcTx, cdcRx>>
  BY DEF TxHeader, TypeOK, NodeTypeOK, genVars, chkVars, rxVars, linkVars
<1> HIDE DEF h
<1>5. ASSUME NEW k \in Ends PROVE Leaving(m, k)' = Leaving(m, k)
  <2> DEFINE d == IF ptx[m][1].pf <=> k = "probe" THEN 1 ELSE 0
  <2>1. Marked(txbuf'[m], Header(k)) = Marked(txbuf[m], Header(k)) + (IF h \in Header(k) THEN 1 ELSE 0)
    BY <1>3, <1>4, MarkedAppend
  <2>2. h \in Header(k) <=> (ptx[m][1].pf <=> k = "probe")
    BY <1>3 DEF Header
  <2>3. Waiting(m).pf' = ptx[m][1].pf
    BY <1>2, <1>4 DEF Waiting
  <2>4. Sending(m, k) = 0 /\ Sending(m, k)' = d
    BY <1>4, <2>3 DEF Sending
  <2>5. d \in Int /\ Marked(txbuf'[m], Header(k)) = Marked(txbuf[m], Header(k)) + d
    BY <2>1, <2>2
  <2> HIDE DEF d
  <2>6. Marked(ptx[m], LastBeat(k)) \in Int /\ Marked(txbuf[m], Header(k)) \in Int
        /\ Marked(cdcTx[m], Header(k)) \in Int
    BY MarkedTypes
  <2>7. Leaving(m, k)' = (Marked(ptx[m], LastBeat(k)) - d)
                         + (Marked(txbuf'[m], Header(k)) + Marked(cdcTx[m], Header(k)))
    BY <1>4, <2>4 DEF Leaving
  <2>8. QED
    BY <2>4, <2>5, <2>6, <2>7 DEF Leaving
<1>6. \A k \in Ends : Arrived(m, k)' = Arrived(m, k)
  BY <1>4, ArrivedSame
<1>7. Owed(m)' = Owed(m) /\ Echoed(m)' = Echoed(m)
  BY <1>4, <1>5, <1>6 DEF Owed, Echoed, Ends, Running, Reporting, Waited
<1>8. QED
  BY <1>1, <1>7, LoadTypes, BalanceStep DEF Loads

\* The last beat leaves the skid buffer and with it the transmitter's one less.
LEMMA DataBalance ==
  ASSUME TypeOK, TypeOK', Arbitration, Balance, NEW m \in Nodes,
         TxData(m), UNCHANGED linkVars
  PROVE  Balance'
<1> DEFINE x == DataBeat(Head(ptx[m]))
           e == ptx[m][1]
<1>1. Elsewhere(m)
  BY DEF Elsewhere, Same, TxData, genVars, chkVars, rxVars, linkVars, TypeOK, NodeTypeOK
<1>2. ptx[m] \in Seq(UserBeat) /\ ptx[m] # <<>> /\ Head(ptx[m]) = e /\ e \in UserBeat
  BY DEF TypeOK, NodeTypeOK, TxData
<1>3. x \in WireBeat /\ ~x.head
  BY <1>2 DEF UserBeat, WireBeat, DataBeat
<1>4. /\ txbuf[m] \in Seq(WireBeat) /\ txbuf'[m] = Append(txbuf[m], x)
      /\ ptx'[m] = Tail(ptx[m]) /\ tx[m] = "SEND_DATA"
      /\ tx'[m] = IF e.last THEN "IDLE" ELSE "SEND_DATA"
      /\ UNCHANGED <<tester, tfg, status, prx, rx, rxbuf, hdr, cdcTx, cdcRx>>
  BY <1>2 DEF TxData, TypeOK, NodeTypeOK, genVars, chkVars, rxVars, linkVars
<1> HIDE DEF x
<1>5. ASSUME NEW k \in Ends PROVE Leaving(m, k)' = Leaving(m, k)
  <2> DEFINE d == IF e.last /\ (e.pf <=> k = "probe") THEN 1 ELSE 0
  <2>1. Marked(txbuf'[m], Header(k)) = Marked(txbuf[m], Header(k)) + (IF x \in Header(k) THEN 1 ELSE 0)
    BY <1>3, <1>4, MarkedAppend
  <2>2. x \notin Header(k)
    BY <1>3 DEF Header
  <2>3. Marked(ptx[m], LastBeat(k)) = Marked(ptx'[m], LastBeat(k)) + (IF e \in LastBeat(k) THEN 1 ELSE 0)
    BY <1>2, <1>4, MarkedTail
  <2>4. e \in LastBeat(k) <=> e.last /\ (e.pf <=> k = "probe")
    BY <1>2 DEF LastBeat
  <2>5. d \in Int /\ Sending(m, k) \in Int /\ Sending(m, k)' = Sending(m, k) - d
    <3>1. Waiting(m).pf = e.pf
      BY <1>2 DEF Waiting
    <3>2. Sending(m, k) = IF e.pf <=> k = "probe" THEN 1 ELSE 0
      BY <1>4, <3>1 DEF Sending
    <3>3. CASE e.last
      <4>1. Sending(m, k)' = 0
        BY <1>4, <3>3 DEF Sending
      <4>2. QED
        BY <3>2, <3>3, <4>1
    <3>4. CASE ~e.last
      <4>1. Waiting(m).pf' = e.pf
        BY <3>4, WaitingNext DEF TypeOK
      <4>2. Sending(m, k)' = Sending(m, k)
        BY <1>4, <3>1, <3>4, <4>1, SendingKept
      <4>3. QED
        BY <3>2, <3>4, <4>2
    <3>5. QED
      BY <3>3, <3>4
  <2>6. Marked(ptx[m], LastBeat(k)) = Marked(ptx'[m], LastBeat(k)) + d
    BY <2>3, <2>4
  <2> HIDE DEF d, e
  <2>7. Marked(ptx[m], LastBeat(k)) \in Int /\ Marked(txbuf[m], Header(k)) \in Int
        /\ Marked(cdcTx[m], Header(k)) \in Int /\ Marked(ptx'[m], LastBeat(k)) \in Int
    <3>1. ptx'[m] \in Seq(UserBeat)
      BY <1>2, <1>4
    <3>2. Marked(ptx'[m], LastBeat(k)) \in Nat
      BY <3>1, MarkedFinite
    <3>3. QED
      BY <3>2, MarkedTypes
  <2>8. Marked(txbuf'[m], Header(k)) = Marked(txbuf[m], Header(k))
    BY <2>1, <2>2, <2>7
  <2>9. Leaving(m, k)' = (Marked(ptx'[m], LastBeat(k)) - Sending(m, k)')
                         + (Marked(txbuf[m], Header(k)) + Marked(cdcTx[m], Header(k)))
    BY <1>4, <2>8 DEF Leaving
  <2>10. QED
    BY <2>5, <2>6, <2>7, <2>9 DEF Leaving
<1>6. \A k \in Ends : Arrived(m, k)' = Arrived(m, k)
  BY <1>4, ArrivedSame
<1>7. Owed(m)' = Owed(m) /\ Echoed(m)' = Echoed(m)
  BY <1>4, <1>5, <1>6 DEF Owed, Echoed, Ends, Running, Reporting, Waited
<1>8. QED
  BY <1>1, <1>7, LoadTypes, BalanceStep DEF Loads

\* A step that moves no beat moves no load, but for the pulse that ends a count.
LEMMA IdleBalance ==
  ASSUME TypeOK, TypeOK', Arbitration, Balance, NEW m \in Nodes,
         ProbeStart(m) \/ Regrant(m) \/ TxStart(m) \/ RxJudge(m) \/ StatusPulse(m),
         UNCHANGED linkVars
  PROVE  Balance'
<1>1. Elsewhere(m)
  <2>1. CASE ProbeStart(m) \/ Regrant(m)
    BY <2>1 DEF Elsewhere, Same, ProbeStart, Regrant, genVars, chkVars, txVars, rxVars,
                linkVars, TypeOK, NodeTypeOK
  <2>2. CASE TxStart(m) \/ RxJudge(m)
    BY <2>2 DEF Elsewhere, Same, TxStart, RxJudge, genVars, chkVars, txVars, linkVars,
                rxVars, TypeOK, NodeTypeOK
  <2>3. CASE StatusPulse(m)
    BY <2>3 DEF Elsewhere, Same, StatusPulse, txVars, rxVars, linkVars, TypeOK, NodeTypeOK
  <2>4. QED
    BY <2>1, <2>2, <2>3
<1>2. UNCHANGED <<tfg, ptx, prx, txbuf, rxbuf, hdr, cdcTx, cdcRx>>
  BY DEF ProbeStart, Regrant, TxStart, RxJudge, StatusPulse, genVars, chkVars, txVars,
         rxVars, linkVars
<1>3. ASSUME NEW k \in Ends PROVE Sending(m, k)' = Sending(m, k)
  <2>1. CASE Regrant(m)
    <3>1. ~Requests(m, grant[m]) /\ tx' = tx
      BY <2>1 DEF Regrant, txVars
    <3>2. ~Midframe(m)
      BY <3>1 DEF Arbitration, ArbitrationAt
    <3>3. tx[m] = "SEND_DATA" => Waiting(m).pf' = Waiting(m).pf
      BY <1>2, <3>1, <3>2 DEF Waiting, Midframe
    <3>4. QED
      BY <3>1, <3>3, SendingKept
  <2>2. CASE TxStart(m)
    <3>1. tx[m] = "IDLE" /\ tx'[m] = "SEND_HEADER"
      BY <2>2 DEF TxStart, TypeOK, NodeTypeOK
    <3>2. QED
      BY <3>1 DEF Sending
  <2>3. CASE ProbeStart(m) \/ RxJudge(m) \/ StatusPulse(m)
    <3>1. tx' = tx /\ grant' = grant
      BY <2>3 DEF ProbeStart, RxJudge, StatusPulse, txVars
    <3>2. QED
      BY <1>2, <3>1, SendingSame
  <2>4. QED
    BY <2>1, <2>2, <2>3
<1>4. ASSUME NEW k \in Ends PROVE Receiving(m, k)' = Receiving(m, k)
  <2>1. CASE RxJudge(m)
    <3>1. rx[m] = "HEADER" /\ rx'[m] = IF hdr[m].magic THEN "RECEIVE" ELSE "DROP"
      BY <2>1 DEF RxJudge, TypeOK, NodeTypeOK
    <3>2. QED
      BY <1>2, <3>1 DEF Receiving
  <2>2. CASE ~RxJudge(m)
    <3>1. rx' = rx
      BY <2>2 DEF ProbeStart, Regrant, TxStart, StatusPulse, rxVars
    <3>2. QED
      BY <1>2, <3>1 DEF Receiving
  <2>3. QED
    BY <2>1, <2>2
<1>5. \A k \in Ends : Leaving(m, k)' = Leaving(m, k) /\ Arrived(m, k)' = Arrived(m, k)
  BY <1>2, <1>3, <1>4 DEF Leaving, Arrived
<1>6. /\ Running(m)' = Running(m) /\ Reporting(m) \in Int /\ Waited(m) \in Int /\ Running(m) \in Int
      /\ Reporting(m)' \in Int /\ Waited(m)' \in Int
      /\ Reporting(m)' - Waited(m)' <= Reporting(m) - Waited(m)
  <2>1. CASE StatusPulse(m)
    <3>1. status[m].valid /\ ~status'[m].valid /\ tester'[m] = "STOP"
      BY <2>1 DEF StatusPulse, TypeOK, NodeTypeOK, Status
    <3>2. QED
      BY <1>2, <3>1 DEF Running, Reporting, Waited
  <2>2. CASE ~StatusPulse(m)
    <3>1. tester' = tester /\ status' = status
      BY <2>2 DEF ProbeStart, Regrant, TxStart, RxJudge, genVars, chkVars
    <3>2. QED
      BY <1>2, <3>1 DEF Running, Reporting, Waited
  <2>3. QED
    BY <2>1, <2>2
<1>7. Owed(m)' <= Owed(m) /\ Echoed(m)' <= Echoed(m)
  BY <1>5, <1>6, LoadTypes DEF Owed, Echoed, Ends, Loads
<1>8. QED
  BY <1>1, <1>7, BalanceStep

\* A command adds a frame and the wait for its answer.
LEMMA CommandBalance ==
  ASSUME TypeOK, TypeOK', Balance, NEW m \in Nodes, NEW l \in Lengths,
         Command(m, l), UNCHANGED linkVars
  PROVE  Balance'
<1>1. Elsewhere(m)
  BY DEF Elsewhere, Same, Command, chkVars, txVars, rxVars, linkVars, TypeOK, NodeTypeOK
<1>2. UNCHANGED <<status, grant, ptx, prx, tx, txbuf, rx, rxbuf, hdr, cdcTx, cdcRx>>
  BY DEF Command, chkVars, txVars, rxVars, linkVars
<1>3. \A k \in Ends : Leaving(m, k)' = Leaving(m, k) /\ Arrived(m, k)' = Arrived(m, k)
  BY <1>2, LeavingSame, ArrivedSame
<1>4. /\ Running(m) = 0 /\ Running(m)' = 1 /\ Waited(m) = 0 /\ Waited(m)' = 1
      /\ Reporting(m)' = Reporting(m) /\ Reporting(m) \in Int
  BY <1>2 DEF Command, Running, Waited, Reporting, TypeOK, NodeTypeOK
<1>5. Owed(m)' <= Owed(m) /\ Echoed(m)' <= Echoed(m)
  BY <1>3, <1>4, LoadTypes DEF Owed, Echoed, Ends, Loads
<1>6. QED
  BY <1>1, <1>5, BalanceStep

\* A beat between the buffers of one side of the link stays counted.
LEMMA EnterBalance ==
  ASSUME TypeOK, TypeOK', Balance, NEW m \in Nodes, EnterLink(m)
  PROVE  Balance'
<1> DEFINE x == Head(txbuf[m])
<1>1. Elsewhere(m)
  BY DEF Elsewhere, Same, EnterLink, genVars, chkVars, rxVars, TypeOK, NodeTypeOK
<1>2. /\ txbuf[m] \in Seq(WireBeat) /\ cdcTx[m] \in Seq(WireBeat) /\ txbuf[m] # <<>>
      /\ txbuf'[m] = Tail(txbuf[m]) /\ cdcTx'[m] = Append(cdcTx[m], x)
      /\ UNCHANGED <<tester, tfg, status, grant, ptx, prx, tx, rx, rxbuf, hdr, cdcRx>>
  BY DEF EnterLink, genVars, chkVars, rxVars, TypeOK, NodeTypeOK
<1>3. x \in WireBeat
  BY <1>2
<1> HIDE DEF x
<1>4. ASSUME NEW k \in Ends PROVE Leaving(m, k)' = Leaving(m, k)
  <2>1. /\ Marked(txbuf[m], Header(k)) = Marked(txbuf'[m], Header(k)) + (IF x \in Header(k) THEN 1 ELSE 0)
        /\ Marked(cdcTx'[m], Header(k)) = Marked(cdcTx[m], Header(k)) + (IF x \in Header(k) THEN 1 ELSE 0)
    BY <1>2, <1>3, MarkedTail, MarkedAppend DEF x
  <2>2. txbuf'[m] \in Seq(WireBeat)
    BY <1>2
  <2>3. Marked(txbuf'[m], Header(k)) \in Nat
    BY <2>2, MarkedFinite
  <2>4. Sending(m, k)' = Sending(m, k) /\ Sending(m, k) \in Int
    BY <1>2, SendingSame DEF Sending
  <2>5. Leaving(m, k)' = (Marked(ptx[m], LastBeat(k)) - Sending(m, k))
                         + (Marked(txbuf'[m], Header(k)) + Marked(cdcTx'[m], Header(k)))
    BY <1>2, <2>4 DEF Leaving
  <2>6. QED
    BY <2>1, <2>3, <2>4, <2>5, MarkedTypes DEF Leaving
<1>5. \A k \in Ends : Arrived(m, k)' = Arrived(m, k)
  BY <1>2, ArrivedSame
<1>6. Owed(m)' = Owed(m) /\ Echoed(m)' = Echoed(m)
  BY <1>2, <1>4, <1>5 DEF Owed, Echoed, Ends, Running, Reporting, Waited
<1>7. QED
  BY <1>1, <1>6, LoadTypes, BalanceStep DEF Loads

LEMMA LeaveBalance ==
  ASSUME TypeOK, TypeOK', Balance, NEW m \in Nodes, LeaveLink(m)
  PROVE  Balance'
<1> DEFINE x == Head(cdcRx[m])
<1>1. Elsewhere(m)
  BY DEF Elsewhere, Same, LeaveLink, genVars, chkVars, txVars, TypeOK, NodeTypeOK
<1>2. /\ rxbuf[m] \in Seq(WireBeat) /\ cdcRx[m] \in Seq(WireBeat) /\ cdcRx[m] # <<>>
      /\ cdcRx'[m] = Tail(cdcRx[m]) /\ rxbuf'[m] = Append(rxbuf[m], x)
      /\ UNCHANGED <<tester, tfg, status, grant, ptx, prx, tx, txbuf, rx, hdr, cdcTx>>
  BY DEF LeaveLink, genVars, chkVars, txVars, TypeOK, NodeTypeOK
<1>3. x \in WireBeat
  BY <1>2
<1> HIDE DEF x
<1>4. ASSUME NEW k \in Ends PROVE Arrived(m, k)' = Arrived(m, k)
  <2>1. /\ Marked(cdcRx[m], Header(k)) = Marked(cdcRx'[m], Header(k)) + (IF x \in Header(k) THEN 1 ELSE 0)
        /\ Marked(rxbuf'[m], Header(k)) = Marked(rxbuf[m], Header(k)) + (IF x \in Header(k) THEN 1 ELSE 0)
    BY <1>2, <1>3, MarkedTail, MarkedAppend DEF x
  <2>2. cdcRx'[m] \in Seq(WireBeat)
    BY <1>2
  <2>3. Marked(cdcRx'[m], Header(k)) \in Nat
    BY <2>2, MarkedFinite
  <2>4. Receiving(m, k)' = Receiving(m, k) /\ Receiving(m, k) \in Int
    BY <1>2 DEF Receiving
  <2>5. Arrived(m, k)' = (Marked(cdcRx'[m], Header(k)) + Marked(rxbuf'[m], Header(k)))
                         + (Marked(prx[m], LastBeat(k)) + Receiving(m, k))
    BY <1>2, <2>4 DEF Arrived
  <2>6. QED
    BY <2>1, <2>3, <2>4, <2>5, MarkedTypes DEF Arrived
<1>5. \A k \in Ends : Leaving(m, k)' = Leaving(m, k)
  BY <1>2, LeavingSame
<1>6. Owed(m)' = Owed(m) /\ Echoed(m)' = Echoed(m)
  BY <1>2, <1>4, <1>5 DEF Owed, Echoed, Ends, Running, Reporting, Waited
<1>7. QED
  BY <1>1, <1>6, LoadTypes, BalanceStep DEF Loads

\* A channel that fails takes frames away, and adds none.
LEMMA DownBalance ==
  ASSUME TypeOK, TypeOK', Balance, NEW m \in Nodes, ChannelDown(m)
  PROVE  Balance'
<1>1. Elsewhere(m)
  BY DEF Elsewhere, Same, ChannelDown, nodeVars, genVars, chkVars, txVars, rxVars, TypeOK
<1>2. /\ cdcRx'[m] = <<>>
      /\ cdcTx'[m] = cdcTx[m] \/ cdcTx'[m] = <<>>
      /\ UNCHANGED <<tester, tfg, status, grant, ptx, prx, tx, txbuf, rx, rxbuf, hdr>>
  BY DEF ChannelDown, nodeVars, genVars, chkVars, txVars, rxVars, TypeOK
<1>3. ASSUME NEW k \in Ends
      PROVE  /\ Leaving(m, k)' \in Int /\ Leaving(m, k)' <= Leaving(m, k)
             /\ Arrived(m, k)' \in Int /\ Arrived(m, k)' <= Arrived(m, k)
  <2>0. Marked(cdcRx'[m], Header(k)) = 0
    BY <1>2, MarkedEmpty
  <2>1. \/ Marked(cdcTx'[m], Header(k)) = Marked(cdcTx[m], Header(k))
        \/ Marked(cdcTx'[m], Header(k)) = 0
    <3>1. CASE cdcTx'[m] = cdcTx[m]
      BY <3>1
    <3>2. CASE cdcTx'[m] = <<>>
      BY <3>2, MarkedEmpty
    <3>3. QED
      BY <1>2, <3>1, <3>2
  <2>2. /\ Sending(m, k)' = Sending(m, k) /\ Sending(m, k) \in Int
        /\ Receiving(m, k)' = Receiving(m, k) /\ Receiving(m, k) \in Int
    BY <1>2, SendingSame DEF Sending, Receiving
  <2>3. /\ Leaving(m, k)' = (Marked(ptx[m], LastBeat(k)) - Sending(m, k))
                            + (Marked(txbuf[m], Header(k)) + Marked(cdcTx'[m], Header(k)))
        /\ Arrived(m, k)' = (Marked(cdcRx'[m], Header(k)) + Marked(rxbuf[m], Header(k)))
                            + (Marked(prx[m], LastBeat(k)) + Receiving(m, k))
    BY <1>2, <2>2 DEF Leaving, Arrived
  <2>4. QED
    BY <2>0, <2>1, <2>2, <2>3, MarkedTypes DEF Leaving, Arrived
<1>4. /\ Running(m)' = Running(m) /\ Reporting(m)' = Reporting(m) /\ Waited(m)' = Waited(m)
      /\ Running(m) \in Int /\ Reporting(m) \in Int /\ Waited(m) \in Int
  BY <1>2 DEF Running, Reporting, Waited
<1>5. Owed(m)' <= Owed(m) /\ Echoed(m)' <= Echoed(m)
  BY <1>3, <1>4, LoadTypes DEF Owed, Echoed, Ends, Loads
<1>6. QED
  BY <1>1, <1>5, BalanceStep
-----------------------------------------------------------------------------
(***************************************************************************)
(* The steps of the receiving side.                                        *)
(***************************************************************************)
\* A beat leaves the receiver's skid buffer.
LEMMA ArrivedTaken ==
  ASSUME TypeOK, NEW m \in Nodes, NEW k \in Ends, prx[m] # <<>>, prx'[m] = Tail(prx[m]),
         UNCHANGED <<rx, rxbuf, hdr, cdcRx>>
  PROVE  Arrived(m, k) = Arrived(m, k)' + (IF Head(prx[m]) \in LastBeat(k) THEN 1 ELSE 0)
<1>1. prx[m] \in Seq(UserBeat) /\ Tail(prx[m]) \in Seq(UserBeat)
  BY DEF TypeOK, NodeTypeOK
<1>2. Marked(prx[m], LastBeat(k)) =
        Marked(prx'[m], LastBeat(k)) + (IF Head(prx[m]) \in LastBeat(k) THEN 1 ELSE 0)
  BY <1>1, MarkedTail
<1>3. Marked(Tail(prx[m]), LastBeat(k)) \in Nat
  BY <1>1, MarkedFinite
<1>4. Receiving(m, k)' = Receiving(m, k) /\ Receiving(m, k) \in Int
  BY DEF Receiving
<1>5. Arrived(m, k)' = (Marked(cdcRx[m], Header(k)) + Marked(rxbuf[m], Header(k)))
                       + (Marked(prx'[m], LastBeat(k)) + Receiving(m, k))
  BY <1>4 DEF Arrived
<1>6. QED
  BY <1>2, <1>3, <1>4, <1>5, MarkedTypes DEF Arrived

\* The last beat of an answer becomes a report.
LEMMA CheckerBalance ==
  ASSUME TypeOK, TypeOK', Balance, NEW m \in Nodes, CheckerBeat(m), UNCHANGED linkVars
  PROVE  Balance'
<1> DEFINE e == Head(prx[m])
<1>1. Elsewhere(m)
  BY DEF Elsewhere, Same, CheckerBeat, genVars, txVars, rxVars, linkVars, TypeOK, NodeTypeOK
<1>2. /\ prx[m] \in Seq(UserBeat) /\ prx[m] # <<>> /\ prx'[m] = Tail(prx[m])
      /\ UNCHANGED <<tester, tfg, grant, ptx, tx, txbuf, rx, rxbuf, hdr, cdcTx, cdcRx>>
      /\ ~e.pf /\ ~status[m].valid
      /\ status'[m].valid <=> e.last
  <2>1. CASE Head(prx[m]).last
    BY <2>1 DEF CheckerBeat, genVars, txVars, rxVars, linkVars, TypeOK, NodeTypeOK
  <2>2. CASE ~Head(prx[m]).last
    BY <2>2 DEF CheckerBeat, genVars, txVars, rxVars, linkVars, TypeOK, NodeTypeOK
  <2>3. QED
    BY <2>1, <2>2
<1>3. e \in UserBeat
  BY <1>2
<1>4. /\ e \in LastBeat("checker") <=> e.last
      /\ e \notin LastBeat("probe")
  BY <1>2, <1>3 DEF LastBeat
<1> HIDE DEF e
<1>5. /\ Arrived(m, "checker") = Arrived(m, "checker")' + (IF e.last THEN 1 ELSE 0)
      /\ Arrived(m, "probe") = Arrived(m, "probe")' + 0
  BY <1>2, <1>4, ArrivedTaken DEF Ends, e
<1>6. \A k \in Ends : Leaving(m, k)' = Leaving(m, k)
  BY <1>2, LeavingSame
<1>7. /\ Running(m)' = Running(m) /\ Waited(m)' = Waited(m)
      /\ Running(m) \in Int /\ Waited(m) \in Int
      /\ Reporting(m) = 0 /\ Reporting(m)' = IF e.last THEN 1 ELSE 0
  BY <1>2 DEF Running, Waited, Reporting
<1>8. Owed(m)' <= Owed(m) /\ Echoed(m)' <= Echoed(m)
  <2>1. /\ Arrived(m, "checker")' \in Int /\ Arrived(m, "probe")' \in Int
    BY LoadTypesNext DEF Loads, Ends
  <2>2. QED
    BY <1>5, <1>6, <1>7, <2>1, LoadTypes DEF Owed, Echoed, Ends, Loads
<1>9. QED
  BY <1>1, <1>8, BalanceStep

\* A beat to be echoed turns into one of the echo.
LEMMA ProbeBalance ==
  ASSUME TypeOK, TypeOK', Arbitration, Balance, NEW m \in Nodes,
         ProbeBeat(m), UNCHANGED linkVars
  PROVE  Balance'
<1> DEFINE e == Head(prx[m])
           x == [e EXCEPT !.pf = FALSE]
<1>1. Elsewhere(m)
  BY DEF Elsewhere, Same, ProbeBeat, genVars, chkVars, txVars, rxVars, linkVars, TypeOK, NodeTypeOK
<1>2. /\ prx[m] \in Seq(UserBeat) /\ prx[m] # <<>> /\ prx'[m] = Tail(prx[m])
      /\ ptx' = [ptx EXCEPT ![m] = Append(@, x)]
      /\ grant[m] = "probe" /\ \A n \in Nodes : n # m => grant'[n] = grant[n]
      /\ UNCHANGED <<tester, tfg, status, tx, txbuf, rx, rxbuf, hdr, cdcTx, cdcRx>>
      /\ e.pf
  BY DEF ProbeBeat, genVars, chkVars, txVars, rxVars, linkVars, TypeOK, NodeTypeOK
<1>3. e \in UserBeat
  BY <1>2
<1>4. x \in UserBeat /\ ~x.pf /\ x.last = e.last /\ x.pf = FALSE
  BY <1>3 DEF UserBeat
<1>5. /\ e \in LastBeat("probe") <=> e.last
      /\ e \notin LastBeat("checker")
      /\ x \in LastBeat("checker") <=> e.last
      /\ x \notin LastBeat("probe")
      /\ x.pf = (grant[m] = "tester")
  BY <1>2, <1>3, <1>4 DEF LastBeat
<1> HIDE DEF e, x
<1>6. /\ Arrived(m, "probe") = Arrived(m, "probe")' + (IF e.last THEN 1 ELSE 0)
      /\ Arrived(m, "checker") = Arrived(m, "checker")' + 0
  BY <1>2, <1>5, ArrivedTaken DEF Ends, e
<1>7. /\ Leaving(m, "checker")' = Leaving(m, "checker") + (IF e.last THEN 1 ELSE 0)
      /\ Leaving(m, "probe")' = Leaving(m, "probe") + 0
  BY <1>2, <1>4, <1>5, LeavingGiven DEF Ends
<1>8. /\ Running(m)' = Running(m) /\ Waited(m)' = Waited(m) /\ Reporting(m)' = Reporting(m)
      /\ Running(m) \in Int /\ Waited(m) \in Int /\ Reporting(m) \in Int
  BY <1>2 DEF Running, Waited, Reporting
<1>9. Owed(m)' <= Owed(m) /\ Echoed(m)' <= Echoed(m)
  <2>1. /\ Arrived(m, "checker")' \in Int /\ Arrived(m, "probe")' \in Int
    BY LoadTypesNext DEF Loads, Ends
  <2>2. QED
    BY <1>6, <1>7, <1>8, <2>1, LoadTypes DEF Owed, Echoed, Ends, Loads
<1>10. QED
  BY <1>1, <1>9, BalanceStep

\* A header in the buffer becomes the frame the receiver is in.  Only here a
\* frame could come from nowhere: if a data word passed for a header.
LEMMA RxHeaderBalance ==
  ASSUME TypeOK, TypeOK', Balance, NEW m \in Nodes, RxHeader(m), UNCHANGED linkVars,
         ~TakesData(m)
  PROVE  Balance'
<1> DEFINE x == Head(rxbuf[m])
<1>1. Elsewhere(m)
  BY DEF Elsewhere, Same, RxHeader, genVars, chkVars, txVars, linkVars, TypeOK, NodeTypeOK
<1>2. /\ rxbuf[m] \in Seq(WireBeat) /\ rxbuf[m] # <<>> /\ rxbuf'[m] = Tail(rxbuf[m])
      /\ rx[m] = "IDLE" /\ rx'[m] = "HEADER" /\ hdr'[m] = Decode(x)
      /\ UNCHANGED <<tester, tfg, status, grant, ptx, prx, tx, txbuf, cdcTx, cdcRx>>
  BY DEF RxHeader, genVars, chkVars, txVars, linkVars, TypeOK, NodeTypeOK
<1>3. x \in WireBeat /\ (x.head \/ x.data \notin Lookalike)
  BY <1>2 DEF TakesData
<1>4. (x.head => hdr'[m].magic /\ hdr'[m].pf = x.pf) /\ (~x.head => ~hdr'[m].magic)
  <2> HIDE DEF x
  <2> DEFINE a == x.head \/ x.data \in Lookalike
             b == IF x.head THEN x.pf ELSE x.data \in Lookalike
  <2>1. hdr'[m] = [magic |-> a, pf |-> b]
    BY <1>2 DEF Decode
  <2>2. a <=> x.head
    BY <1>3, Zenon
  <2>3. x.head => b = x.pf
    BY Zenon
  <2> HIDE DEF a, b
  <2>4. QED
    BY <2>1, <2>2, <2>3
<1> HIDE DEF x
<1>5. ASSUME NEW k \in Ends PROVE Arrived(m, k)' = Arrived(m, k)
  <2> DEFINE d == IF x \in Header(k) THEN 1 ELSE 0
  <2>1. Marked(rxbuf[m], Header(k)) = Marked(rxbuf'[m], Header(k)) + d
    BY <1>2, MarkedTail DEF x
  <2>2. rxbuf'[m] \in Seq(WireBeat)
    BY <1>2
  <2>3. Marked(rxbuf'[m], Header(k)) \in Nat
    BY <2>2, MarkedFinite
  <2>4. x \in Header(k) <=> x.head /\ (x.pf <=> k = "probe")
    BY <1>3 DEF Header
  <2>5. Receiving(m, k) = 0 /\ Receiving(m, k)' = d
    BY <1>2, <1>4, <2>4 DEF Receiving
  <2>6. d \in Int
    OBVIOUS
  <2> HIDE DEF d
  <2>7. Arrived(m, k)' = (Marked(cdcRx[m], Header(k)) + Marked(rxbuf'[m], Header(k)))
                         + (Marked(prx[m], LastBeat(k)) + d)
    BY <1>2, <2>5 DEF Arrived
  <2>8. QED
    BY <2>1, <2>3, <2>5, <2>6, <2>7, MarkedTypes DEF Arrived
<1>6. \A k \in Ends : Leaving(m, k)' = Leaving(m, k)
  BY <1>2, LeavingSame
<1>7. Owed(m)' = Owed(m) /\ Echoed(m)' = Echoed(m)
  BY <1>2, <1>5, <1>6 DEF Owed, Echoed, Ends, Running, Reporting, Waited
<1>8. QED
  BY <1>1, <1>7, LoadTypes, BalanceStep DEF Loads

\* A frame ends in the receiver and its last beat is in the skid buffer.
LEMMA RxBeatBalance ==
  ASSUME TypeOK, TypeOK', Balance, NEW m \in Nodes, RxBeat(m), UNCHANGED linkVars
  PROVE  Balance'
<1> DEFINE x == Head(rxbuf[m])
           e == [data |-> x.data, last |-> x.last, pf |-> hdr[m].pf]
<1>1. Elsewhere(m)
  BY DEF Elsewhere, Same, RxBeat, RxAfter, genVars, chkVars, txVars, linkVars, TypeOK, NodeTypeOK
<1>2. /\ rxbuf[m] \in Seq(WireBeat) /\ rxbuf[m] # <<>> /\ rxbuf'[m] = Tail(rxbuf[m])
      /\ prx[m] \in Seq(UserBeat)
      /\ \/ rx[m] = "RECEIVE" /\ prx'[m] = Append(prx[m], e)
         \/ rx[m] = "DROP" /\ prx'[m] = prx[m]
      /\ rx'[m] = IF x.last THEN "IDLE" ELSE rx[m]
      /\ UNCHANGED <<tester, tfg, status, grant, ptx, tx, txbuf, hdr, cdcTx, cdcRx>>
  BY DEF RxBeat, RxAfter, genVars, chkVars, txVars, linkVars, TypeOK, NodeTypeOK
<1>3. x \in WireBeat /\ hdr[m] \in [magic : BOOLEAN, pf : BOOLEAN]
  BY <1>2 DEF TypeOK, NodeTypeOK
<1>4. e \in UserBeat
  BY <1>3 DEF WireBeat, UserBeat
<1>5. ASSUME NEW k \in Ends PROVE Arrived(m, k)' <= Arrived(m, k) /\ Arrived(m, k)' \in Int
  <2> DEFINE d == IF x.last /\ (hdr[m].pf <=> k = "probe") THEN 1 ELSE 0
  <2>1. /\ Marked(rxbuf[m], Header(k)) = Marked(rxbuf'[m], Header(k)) + (IF x \in Header(k) THEN 1 ELSE 0)
        /\ Marked(rxbuf'[m], Header(k)) \in Nat
    <3>1. rxbuf'[m] \in Seq(WireBeat)
      BY <1>2
    <3>2. Marked(rxbuf'[m], Header(k)) \in Nat
      BY <3>1, MarkedFinite
    <3>3. QED
      BY <1>2, <3>2, MarkedTail
  <2>2. Marked(prx'[m], LastBeat(k)) + Receiving(m, k)' = Marked(prx[m], LastBeat(k)) + Receiving(m, k)
    <3>1. CASE rx[m] = "RECEIVE" /\ prx'[m] = Append(prx[m], e)
      <4>1. Marked(prx'[m], LastBeat(k)) = Marked(prx[m], LastBeat(k)) + (IF e \in LastBeat(k) THEN 1 ELSE 0)
        BY <1>2, <1>4, <3>1, MarkedAppend
      <4>2. e \in LastBeat(k) <=> x.last /\ (hdr[m].pf <=> k = "probe")
        BY <1>4 DEF LastBeat
      <4>3. Marked(prx'[m], LastBeat(k)) = Marked(prx[m], LastBeat(k)) + d
        BY <4>1, <4>2
      <4>4. d \in Int /\ Receiving(m, k) \in Int /\ Receiving(m, k)' = Receiving(m, k) - d
        BY <1>2, <3>1 DEF Receiving
      <4> HIDE DEF d
      <4>5. QED
        BY <4>3, <4>4, MarkedTypes
    <3>2. CASE rx[m] = "DROP" /\ prx'[m] = prx[m]
      BY <1>2, <3>2 DEF Receiving
    <3>3. QED
      BY <1>2, <3>1, <3>2
  <2>3. Marked(prx'[m], LastBeat(k)) \in Nat /\ Receiving(m, k)' \in Int /\ Receiving(m, k) \in Int
    <3>1. prx'[m] \in Seq(UserBeat)
      <4> HIDE DEF e
      <4>1. Append(prx[m], e) \in Seq(UserBeat)
        BY <1>2, <1>4
      <4>2. QED
        BY <1>2, <4>1
    <3>2. Marked(prx'[m], LastBeat(k)) \in Nat
      BY <3>1, MarkedFinite
    <3>3. QED
      BY <3>2 DEF Receiving
  <2>4. Arrived(m, k)' = (Marked(cdcRx[m], Header(k)) + Marked(rxbuf'[m], Header(k)))
                         + (Marked(prx'[m], LastBeat(k)) + Receiving(m, k)')
    BY <1>2 DEF Arrived
  <2>5. QED
    BY <2>1, <2>2, <2>3, <2>4, MarkedTypes DEF Arrived
<1>6. \A k \in Ends : Leaving(m, k)' = Leaving(m, k)
  BY <1>2, LeavingSame
<1>7. /\ Running(m)' = Running(m) /\ Waited(m)' = Waited(m) /\ Reporting(m)' = Reporting(m)
      /\ Running(m) \in Int /\ Waited(m) \in Int /\ Reporting(m) \in Int
  BY <1>2 DEF Running, Waited, Reporting
<1>8. Owed(m)' <= Owed(m) /\ Echoed(m)' <= Echoed(m)
  BY <1>5, <1>6, <1>7, LoadTypes DEF Owed, Echoed, Ends, Loads
<1>9. QED
  BY <1>1, <1>8, BalanceStep

\* A header goes over to the other side, or is lost.
LEMMA SerialBalance ==
  ASSUME TypeOK, TypeOK', Balance, NEW m \in Nodes, Serial(m)
  PROVE  Balance'
<1> DEFINE p == Peer[m]
           x == Head(cdcTx[m])
           y == [x EXCEPT !.gap = missed[m]]
           d(k) == IF x \in Header(k) THEN 1 ELSE 0
<1>1. p \in Nodes /\ Peer[p] = m
  BY PeerFacts
<1>2. /\ cdcTx \in [Nodes -> Seq(WireBeat)] /\ cdcRx \in [Nodes -> Seq(WireBeat)]
      /\ cdcTx[m] # <<>> /\ cdcTx' = [cdcTx EXCEPT ![m] = Tail(@)]
      /\ \/ cdcRx' = [cdcRx EXCEPT ![p] = Append(@, y)]
         \/ cdcRx' = cdcRx
      /\ missed[m] \in BOOLEAN
  BY DEF Serial, TypeOK
<1>3. UNCHANGED <<tester, tfg, status, grant, ptx, prx, tx, txbuf, rx, rxbuf, hdr>>
  BY DEF Serial, nodeVars, genVars, chkVars, txVars, rxVars
<1>4. x \in WireBeat
  BY <1>2
<1> HIDE DEF x
<1>5. y \in WireBeat /\ \A k \in Ends : y \in Header(k) <=> x \in Header(k)
  BY <1>2, <1>4 DEF WireBeat, Header
<1> HIDE DEF y, p
<1>6. \A k \in Ends : Leaving(m, k) = Leaving(m, k)' + d(k) /\ Leaving(m, k)' \in Int
  <2> SUFFICES ASSUME NEW k \in Ends
               PROVE  Leaving(m, k) = Leaving(m, k)' + d(k) /\ Leaving(m, k)' \in Int
    OBVIOUS
  <2>1. cdcTx[m] \in Seq(WireBeat) /\ cdcTx'[m] = Tail(cdcTx[m]) /\ cdcTx'[m] \in Seq(WireBeat)
    BY <1>2
  <2>2. Marked(cdcTx[m], Header(k)) = Marked(cdcTx'[m], Header(k)) + d(k)
    BY <1>2, <2>1, MarkedTail DEF x
  <2>3. Marked(cdcTx'[m], Header(k)) \in Nat
    BY <2>1, MarkedFinite
  <2>4. Sending(m, k)' = Sending(m, k) /\ Sending(m, k) \in Int
    BY <1>3, SendingSame DEF Sending
  <2>5. Leaving(m, k)' = (Marked(ptx[m], LastBeat(k)) - Sending(m, k))
                         + (Marked(txbuf[m], Header(k)) + Marked(cdcTx'[m], Header(k)))
    BY <1>3, <2>4 DEF Leaving
  <2>6. d(k) \in Int
    OBVIOUS
  <2> HIDE DEF d
  <2>7. QED
    BY <2>2, <2>3, <2>4, <2>5, <2>6, MarkedTypes DEF Leaving
<1>7. \A k \in Ends : Arrived(p, k)' \in Int /\ Arrived(p, k)' <= Arrived(p, k) + d(k)
  <2> SUFFICES ASSUME NEW k \in Ends
               PROVE  Arrived(p, k)' \in Int /\ Arrived(p, k)' <= Arrived(p, k) + d(k)
    OBVIOUS
  <2>1. /\ Marked(cdcRx'[p], Header(k)) \in Int
        /\ Marked(cdcRx'[p], Header(k)) <= Marked(cdcRx[p], Header(k)) + d(k)
    <3>1. CASE cdcRx' = [cdcRx EXCEPT ![p] = Append(@, y)]
      <4>1. cdcRx[p] \in Seq(WireBeat) /\ cdcRx'[p] = Append(cdcRx[p], y)
        BY <1>1, <1>2, <3>1
      <4>2. Marked(cdcRx'[p], Header(k)) = Marked(cdcRx[p], Header(k)) + (IF y \in Header(k) THEN 1 ELSE 0)
        BY <1>5, <4>1, MarkedAppend
      <4>3. QED
        BY <1>1, <1>5, <4>2, MarkedTypes
    <3>2. CASE cdcRx' = cdcRx
      BY <1>1, <3>2, MarkedTypes
    <3>3. QED
      BY <1>2, <3>1, <3>2
  <2>2. Receiving(p, k)' = Receiving(p, k) /\ Receiving(p, k) \in Int
    BY <1>3 DEF Receiving
  <2>3. Arrived(p, k)' = (Marked(cdcRx'[p], Header(k)) + Marked(rxbuf[p], Header(k)))
                         + (Marked(prx[p], LastBeat(k)) + Receiving(p, k))
    BY <1>3, <2>2 DEF Arrived
  <2>4. d(k) \in Int
    OBVIOUS
  <2> HIDE DEF d
  <2>5. QED
    BY <1>1, <2>1, <2>2, <2>3, <2>4, MarkedTypes DEF Arrived
<1>8. \A n \in Nodes, k \in Ends : /\ n # m => Leaving(n, k)' = Leaving(n, k)
                                   /\ n # p => Arrived(n, k)' = Arrived(n, k)
  BY <1>1, <1>2, <1>3, LeavingSame, ArrivedSame
<1>9. \A n \in Nodes : /\ Running(n)' = Running(n) /\ Reporting(n)' = Reporting(n)
                       /\ Waited(n)' = Waited(n) /\ Running(n) \in Int
                       /\ Reporting(n) \in Int /\ Waited(n) \in Int
  BY <1>3 DEF Running, Reporting, Waited
<1>10. \A k \in Ends : d(k) \in Int
  OBVIOUS
<1> HIDE DEF d
\* What m sends to its peer's probe is its own frame, the rest an echo.
<1>11. Owed(m)' + Echoed(p)' <= Owed(m) + Echoed(p)
  <2>1. CASE p = m
    BY <1>1, <1>6, <1>7, <1>9, <1>10, <2>1, LoadTypes DEF Owed, Echoed, Ends, Loads
  <2>2. CASE p # m
    BY <1>1, <1>6, <1>7, <1>8, <1>9, <1>10, <2>2, LoadTypes DEF Owed, Echoed, Ends, Loads
  <2>3. QED
    BY <2>1, <2>2
<1>12. Owed(p)' + Echoed(m)' <= Owed(p) + Echoed(m)
  <2>1. CASE p = m
    BY <1>11, <2>1
  <2>2. CASE p # m
    BY <1>1, <1>6, <1>7, <1>8, <1>9, <1>10, <2>2, LoadTypes DEF Owed, Echoed, Ends, Loads
  <2>3. QED
    BY <2>1, <2>2
<1>13. ASSUME NEW n \in Nodes PROVE Owed(n)' + Echoed(Peer[n])' <= 0
  <2>1. Peer[n] \in Nodes /\ Peer[Peer[n]] = n
    BY PeerFacts
  <2>2. /\ Owed(n) \in Int /\ Echoed(Peer[n]) \in Int /\ Owed(n) + Echoed(Peer[n]) <= 0
        /\ Owed(n)' \in Int /\ Echoed(Peer[n])' \in Int
    BY <2>1, LoadTypes, LoadTypesNext DEF Loads, Balance
  <2>3. CASE n = m
    BY <1>11, <2>2, <2>3 DEF p
  <2>4. CASE n = p
    BY <1>1, <1>12, <2>2, <2>4
  <2>5. CASE n # m /\ n # p
    <3>1. Peer[n] # p /\ Peer[n] # m
      BY <1>1, <2>1, <2>5 DEF p
    <3>2. Owed(n)' = Owed(n)
      BY <1>8, <1>9, <2>5 DEF Owed, Ends
    <3>3. Echoed(Peer[n])' = Echoed(Peer[n])
      BY <1>8, <2>1, <3>1 DEF Echoed, Ends
    <3>4. QED
      BY <2>2, <3>2, <3>3
  <2>6. QED
    BY <2>3, <2>4, <2>5
<1>14. QED
  BY <1>13 DEF Balance
-----------------------------------------------------------------------------
(***************************************************************************)
(* The dispatcher: what is behind a receiver stays a run of frames.        *)
(***************************************************************************)
LEMMA DispatchAtSame ==
  ASSUME NEW n \in Nodes, DispatchAt(n), prx'[n] = prx[n], rx'[n] = rx[n],
         hdr'[n] = hdr[n], probe'[n] = probe[n]
  PROVE  DispatchAt(n)'
  BY DEF DispatchAt

LEMMA DispatchOnly ==
  ASSUME Dispatch, NEW m \in Nodes, DispatchAt(m)',
         \A n \in Nodes : n # m => /\ prx'[n] = prx[n] /\ rx'[n] = rx[n]
                                   /\ hdr'[n] = hdr[n] /\ probe'[n] = probe[n]
  PROVE  Dispatch'
<1> SUFFICES ASSUME NEW n \in Nodes PROVE DispatchAt(n)'
  BY DEF Dispatch
<1>1. CASE n = m
  BY <1>1
<1>2. CASE n # m
  BY <1>2, DispatchAtSame DEF Dispatch
<1>3. QED
  BY <1>1, <1>2

\* The first beat goes to the probe or to the checker.
LEMMA DispatchTaken ==
  ASSUME TypeOK, Dispatch, NEW m \in Nodes, CheckerBeat(m) \/ ProbeBeat(m)
  PROVE  Dispatch'
<1> DEFINE q == prx[m]
           v == Tail(q)
<1>1. /\ q \in Seq(UserBeat) /\ q # <<>> /\ prx'[m] = v /\ Head(q) = q[1]
      /\ rx' = rx /\ hdr' = hdr
      /\ \A n \in Nodes : n # m => prx'[n] = prx[n] /\ probe'[n] = probe[n]
  BY DEF CheckerBeat, ProbeBeat, rxVars, TypeOK, NodeTypeOK
<1>2. /\ Len(q) \in Nat /\ Len(q) > 0 /\ Len(v) = Len(q) - 1
      /\ \A i \in 1..Len(v) : v[i] = q[i + 1]
      /\ v = <<>> <=> Len(q) = 1
  <2>1. Len(q) \in Nat /\ Len(q) > 0 /\ (v = <<>> <=> Len(q) = 1)
    BY <1>1, TailFacts
  <2>2. Len(v) = Len(q) - 1 /\ \A i \in 1..Len(q) - 1 : v[i] = q[i + 1]
    BY <1>1
  <2>3. QED
    BY <2>1, <2>2
<1>3. /\ \A i \in 1..Len(q) - 1 : ~q[i].last => q[i + 1].pf = q[i].pf
      /\ ~q[Len(q)].last => rx[m] = "RECEIVE" /\ hdr[m].pf = q[Len(q)].pf
      /\ probe[m] = "PROBE_RESPONSE" => q[1].pf
  BY <1>1 DEF Dispatch, DispatchAt
<1>4. probe'[m] = "PROBE_RESPONSE" => probe[m] = "PROBE_RESPONSE" /\ q[1].pf /\ ~q[1].last
  <2>1. CASE CheckerBeat(m)
    BY <1>1, <1>3, <2>1 DEF CheckerBeat
  <2>2. CASE ProbeBeat(m)
    BY <1>1, <1>3, <2>2 DEF ProbeBeat, TypeOK, NodeTypeOK
  <2>3. QED
    BY <2>1, <2>2
<1> HIDE DEF q, v
<1>5. \A i \in 1..Len(v) - 1 : ~v[i].last => v[i + 1].pf = v[i].pf
  <2> SUFFICES ASSUME NEW i \in 1..Len(v) - 1, ~v[i].last PROVE v[i + 1].pf = v[i].pf
    OBVIOUS
  <2>1. i + 1 \in 1..Len(v) /\ i \in 1..Len(v) /\ i + 1 \in 1..Len(q) - 1
    BY <1>2
  <2>2. v[i] = q[i + 1] /\ v[i + 1] = q[(i + 1) + 1]
    BY <1>2, <2>1
  <2>3. QED
    BY <1>3, <2>1, <2>2
<1>6. v # <<>> => v[Len(v)] = q[Len(q)]
  <2> SUFFICES ASSUME v # <<>> PROVE v[Len(v)] = q[Len(q)]
    OBVIOUS
  <2>1. Len(v) \in 1..Len(v) /\ Len(v) + 1 = Len(q)
    BY <1>2
  <2>2. QED
    BY <1>2, <2>1
<1>7. ASSUME probe'[m] = "PROBE_RESPONSE"
      PROVE  IF v = <<>> THEN rx[m] = "RECEIVE" /\ hdr[m].pf ELSE v[1].pf
  <2>1. q[1].pf /\ ~q[1].last
    BY <1>4, <1>7
  <2>2. CASE v = <<>>
    BY <1>2, <1>3, <2>1, <2>2
  <2>3. CASE v # <<>>
    <3>1. 1 \in 1..Len(v) /\ 1 \in 1..Len(q) - 1
      BY <1>2, <2>3
    <3>2. v[1] = q[1 + 1] /\ q[1 + 1].pf = q[1].pf
      BY <1>2, <1>3, <2>1, <3>1
    <3>3. QED
      BY <2>1, <2>3, <3>2
  <2>4. QED
    BY <2>2, <2>3
<1>8. DispatchAt(m)'
  BY <1>1, <1>3, <1>5, <1>6, <1>7 DEF DispatchAt
<1>9. \A n \in Nodes : n # m => /\ prx'[n] = prx[n] /\ rx'[n] = rx[n]
                               /\ hdr'[n] = hdr[n] /\ probe'[n] = probe[n]
  BY <1>1
<1>10. QED
  BY <1>8, <1>9, DispatchOnly

\* The receiver adds a beat of the frame it is in, or is between two frames.
LEMMA DispatchReceive ==
  ASSUME TypeOK, Dispatch, NEW m \in Nodes, RxHeader(m) \/ RxJudge(m) \/ RxBeat(m)
  PROVE  Dispatch'
<1> DEFINE q == prx[m]
<1>1. /\ q \in Seq(UserBeat) /\ Len(q) \in Nat /\ (q = <<>> <=> Len(q) = 0)
      /\ probe' = probe
      /\ \A n \in Nodes : n # m => /\ prx'[n] = prx[n] /\ rx'[n] = rx[n]
                                   /\ hdr'[n] = hdr[n] /\ probe'[n] = probe[n]
  <2>1. q \in Seq(UserBeat)
    BY DEF TypeOK, NodeTypeOK
  <2>2. Len(q) \in Nat /\ (q = <<>> <=> Len(q) = 0)
    BY <2>1, EmptyFacts
  <2>3. /\ probe' = probe
        /\ \A n \in Nodes : n # m => /\ prx'[n] = prx[n] /\ rx'[n] = rx[n]
                                     /\ hdr'[n] = hdr[n]
    BY DEF RxHeader, RxJudge, RxBeat, RxAfter, TypeOK, NodeTypeOK
  <2>4. QED
    BY <2>1, <2>2, <2>3
<1>2. DispatchAt(m)
  BY DEF Dispatch
<1>3. ASSUME prx'[m] = q, rx[m] # "RECEIVE" PROVE DispatchAt(m)'
  BY <1>1, <1>2, <1>3 DEF DispatchAt
<1>4. ASSUME NEW e \in UserBeat, prx'[m] = Append(q, e), rx[m] = "RECEIVE", e.pf = hdr[m].pf,
             rx'[m] = IF e.last THEN "IDLE" ELSE "RECEIVE", hdr' = hdr
      PROVE  DispatchAt(m)'
  <2> DEFINE v == Append(q, e)
  <2>1. /\ v # <<>> /\ Len(v) = Len(q) + 1 /\ v[Len(q) + 1] = e
        /\ \A i \in 1..Len(q) : v[i] = q[i]
    BY <1>1
  <2>2. /\ \A i \in 1..Len(q) - 1 : ~q[i].last => q[i + 1].pf = q[i].pf
        /\ q # <<>> /\ ~q[Len(q)].last => hdr[m].pf = q[Len(q)].pf
        /\ probe[m] = "PROBE_RESPONSE" => IF q = <<>> THEN hdr[m].pf ELSE q[1].pf
    BY <1>2 DEF DispatchAt
  <2> HIDE DEF v, q
  <2>3. ASSUME NEW i \in 1..Len(v) - 1, ~v[i].last PROVE v[i + 1].pf = v[i].pf
    <3>1. i \in 1..Len(q) /\ v[i] = q[i] /\ Len(q) \in Nat
      BY <1>1, <2>1
    <3>2. CASE i = Len(q)
      BY <1>1, <1>4, <2>1, <2>2, <2>3, <3>1, <3>2
    <3>3. CASE i # Len(q)
      <4>1. i \in 1..Len(q) - 1 /\ i + 1 \in 1..Len(q)
        BY <3>1, <3>3
      <4>2. v[i + 1] = q[i + 1]
        BY <2>1, <4>1
      <4>3. QED
        BY <2>2, <2>3, <3>1, <4>1, <4>2
    <3>4. QED
      BY <3>2, <3>3
  <2>4. ~v[Len(v)].last => rx'[m] = "RECEIVE" /\ hdr'[m].pf = v[Len(v)].pf
    BY <1>4, <2>1
  <2>5. probe'[m] = "PROBE_RESPONSE" => v[1].pf
    <3>1. CASE q = <<>>
      BY <1>1, <1>4, <2>1, <2>2, <3>1
    <3>2. CASE q # <<>>
      <4>1. 1 \in 1..Len(q)
        BY <1>1, <3>2
      <4>2. v[1] = q[1]
        BY <2>1, <4>1
      <4>3. QED
        BY <1>1, <2>2, <3>2, <4>2
    <3>3. QED
      BY <3>1, <3>2
  <2>6. prx'[m] = v
    BY <1>4 DEF v
  <2>7. QED
    BY <2>1, <2>3, <2>4, <2>5, <2>6 DEF DispatchAt
<1>5. DispatchAt(m)'
  <2>1. CASE RxHeader(m) \/ RxJudge(m)
    <3>1. prx'[m] = q /\ rx[m] # "RECEIVE"
      BY <2>1 DEF RxHeader, RxJudge
    <3>2. QED
      BY <1>3, <3>1
  <2>2. CASE RxBeat(m)
    <3> DEFINE x == Head(rxbuf[m])
               e == [data |-> x.data, last |-> x.last, pf |-> hdr[m].pf]
    <3>1. /\ \/ rx[m] = "RECEIVE" /\ prx'[m] = Append(q, e)
             \/ rx[m] = "DROP" /\ prx'[m] = q
          /\ rx'[m] = IF x.last THEN "IDLE" ELSE rx[m]
          /\ hdr' = hdr /\ x \in WireBeat /\ hdr[m] \in [magic : BOOLEAN, pf : BOOLEAN]
      BY <2>2 DEF RxBeat, RxAfter, TypeOK, NodeTypeOK
    <3>2. e \in UserBeat /\ e.pf = hdr[m].pf /\ e.last = x.last
      BY <3>1 DEF WireBeat, UserBeat
    <3> HIDE DEF e, x
    <3>3. CASE rx[m] = "RECEIVE" /\ prx'[m] = Append(q, e)
      BY <1>4, <3>1, <3>2, <3>3
    <3>4. CASE rx[m] = "DROP" /\ prx'[m] = q
      BY <1>3, <3>4
    <3>5. QED
      BY <3>1, <3>3, <3>4
  <2>3. QED
    BY <2>1, <2>2
<1>6. QED
  BY <1>1, <1>5, DispatchOnly

LEMMA DispatchStep ==
  ASSUME TypeOK, Dispatch, NEW m \in Nodes, NodeStep(m)
  PROVE  Dispatch'
<1>1. CASE CheckerBeat(m) \/ ProbeBeat(m)
  BY <1>1, DispatchTaken
<1>2. CASE RxHeader(m) \/ RxJudge(m) \/ RxBeat(m)
  BY <1>2, DispatchReceive
<1>3. CASE ProbeStart(m)
  <2>1. /\ prx[m] # <<>> /\ prx[m][1].pf /\ UNCHANGED <<prx, rx, hdr>>
        /\ \A n \in Nodes : n # m => probe'[n] = probe[n]
    BY <1>3 DEF ProbeStart, rxVars, TypeOK, NodeTypeOK
  <2>2. DispatchAt(m)'
    BY <2>1 DEF Dispatch, DispatchAt
  <2>3. QED
    BY <2>1, <2>2, DispatchOnly
<1>4. CASE \/ GeneratorBeat(m) \/ StatusPulse(m) \/ Regrant(m)
           \/ TxStart(m) \/ TxHeader(m) \/ TxData(m)
  <2>1. UNCHANGED <<prx, rx, hdr, probe>>
    BY <1>4 DEF GeneratorBeat, StatusPulse, Regrant, TxStart, TxHeader, TxData, rxVars
  <2>2. QED
    BY <2>1 DEF Dispatch, DispatchAt
<1>5. QED
  BY <1>1, <1>2, <1>3, <1>4 DEF NodeStep
-----------------------------------------------------------------------------
(***************************************************************************)
(* No load is negative: the transmitter's one less stands for a frame that *)
(* the arbiter's master has not finished, and a probe that has not         *)
(* finished still gets the last beat of what it echoes.                    *)
(***************************************************************************)
LEMMA LeavingFloor ==
  ASSUME TypeOK, Arbitration, NEW s \in Nodes, NEW k \in Ends
  PROVE  /\ Leaving(s, k) >= -1
         /\ Leaving(s, k) >= 0 \/ Requests(s, IF k = "probe" THEN "tester" ELSE "probe")
<1> DEFINE q == ptx[s]
<1>1. q \in Seq(UserBeat) /\ Len(q) <= 2
  BY DEF TypeOK, NodeTypeOK, SkidDepth
<1>2. /\ Len(q) \in Nat /\ (q = <<>> <=> Len(q) = 0) /\ \A i \in 1..Len(q) : q[i] \in UserBeat
      /\ q # <<>> => Len(q) = 1 \/ Len(q) = 2
  <2>1. \A l \in Nat : l <= 2 /\ l # 0 => l = 1 \/ l = 2
    OBVIOUS
  <2>2. Len(q) \in Nat /\ (q = <<>> <=> Len(q) = 0) /\ \A i \in 1..Len(q) : q[i] \in UserBeat
    BY <1>1, EmptyFacts
  <2> HIDE DEF q
  <2>3. QED
    BY <1>1, <2>1, <2>2
<1>3. /\ Marked(q, LastBeat(k)) \in Nat /\ Marked(txbuf[s], Header(k)) \in Nat
      /\ Marked(cdcTx[s], Header(k)) \in Nat /\ Sending(s, k) \in 0..1
      /\ \A i \in 1..Len(q) : q[i] \in LastBeat(k) => Marked(q, LastBeat(k)) >= 1
  <2>1. \A i \in 1..Len(q) : q[i] \in LastBeat(k) => Marked(q, LastBeat(k)) >= 1
    BY <1>1, MarkedFinite
  <2>2. QED
    BY <2>1, MarkedTypes DEF Sending
<1>4. /\ \A i \in 1..Len(q) - 1 : ~q[i].last => q[i + 1].pf = q[i].pf
      /\ q # <<>> /\ ~q[Len(q)].last => q[Len(q)].pf = (grant[s] = "tester")
      /\ Midframe(s) => Requests(s, grant[s])
      /\ Midframe(s) <=> IF q = <<>> THEN tx[s] = "SEND_DATA" ELSE ~q[Len(q)].last
  BY DEF Arbitration, ArbitrationAt, Midframe
<1>5. /\ Sending(s, k) = 0 \/ (tx[s] = "SEND_DATA" /\ (Waiting(s).pf <=> k = "probe"))
      /\ Waiting(s).pf = IF q = <<>> THEN grant[s] = "tester" ELSE q[1].pf
  BY DEF Sending, Waiting
<1>6. /\ Leaving(s, k) >= -1
      /\ Sending(s, k) = 0 \/ Marked(q, LastBeat(k)) >= 1 => Leaving(s, k) >= 0
  BY <1>3 DEF Leaving
<1>7. NodeTypeOK /\ (grant[s] = "tester" \/ grant[s] = "probe")
  BY ArbiterFacts DEF TypeOK
<1> HIDE DEF q
<1>8. ASSUME tx[s] = "SEND_DATA", Waiting(s).pf <=> k = "probe",
             ~(Marked(q, LastBeat(k)) >= 1)
      PROVE  Requests(s, IF k = "probe" THEN "tester" ELSE "probe")
  <2>1. \A i \in 1..Len(q) : ~(q[i].last /\ (q[i].pf <=> k = "probe"))
    BY <1>2, <1>3, <1>8 DEF LastBeat
  <2>2. CASE q = <<>>
    <3>1. Requests(s, grant[s]) /\ (grant[s] = "tester" <=> k = "probe")
      BY <1>4, <1>5, <1>8, <2>2
    <3>2. QED
      BY <1>7, <3>1
  <2>3. CASE q # <<>>
    <3>1. 1 \in 1..Len(q) /\ (q[1].pf <=> k = "probe") /\ ~q[1].last
      BY <1>2, <1>5, <1>8, <2>1, <2>3
    <3>2. (q[Len(q)].pf <=> k = "probe") /\ ~q[Len(q)].last
      <4>1. CASE Len(q) = 1
        BY <3>1, <4>1
      <4>2. CASE Len(q) = 2
        <5>1. 1 \in 1..Len(q) - 1 /\ 1 + 1 = 2 /\ 2 \in 1..Len(q)
          BY <4>2
        <5>2. q[1 + 1].pf = q[1].pf
          BY <1>4, <3>1, <5>1
        <5>3. q[2].pf <=> k = "probe"
          BY <3>1, <5>1, <5>2
        <5>4. QED
          BY <2>1, <4>2, <5>1, <5>3
      <4>3. Len(q) = 1 \/ Len(q) = 2
        BY <1>2, <2>3
      <4>4. QED
        BY <4>1, <4>2, <4>3
    <3>3. Requests(s, grant[s]) /\ (grant[s] = "tester" <=> k = "probe")
      BY <1>4, <2>3, <3>2
    <3>4. QED
      BY <1>7, <3>3
  <2>4. QED
    BY <2>2, <2>3
<1>9. QED
  BY <1>5, <1>6, <1>8

LEMMA ProbeHasMore ==
  ASSUME TypeOK, Dispatch, NEW p \in Nodes, probe[p] = "PROBE_RESPONSE"
  PROVE  Arrived(p, "probe") >= 1
<1> DEFINE q == prx[p]
           K == LastBeat("probe")
<1>1. q \in Seq(UserBeat) /\ Len(q) <= 2
  BY DEF TypeOK, NodeTypeOK, SkidDepth
<1>2. /\ Len(q) \in Nat /\ (q = <<>> <=> Len(q) = 0) /\ \A i \in 1..Len(q) : q[i] \in UserBeat
      /\ q # <<>> => Len(q) = 1 \/ Len(q) = 2
  <2>1. \A l \in Nat : l <= 2 /\ l # 0 => l = 1 \/ l = 2
    OBVIOUS
  <2>2. Len(q) \in Nat /\ (q = <<>> <=> Len(q) = 0) /\ \A i \in 1..Len(q) : q[i] \in UserBeat
    BY <1>1, EmptyFacts
  <2> HIDE DEF q
  <2>3. QED
    BY <1>1, <2>1, <2>2
<1>3. \A i \in 1..Len(q) : q[i].last /\ q[i].pf => Marked(q, K) >= 1
  <2>1. \A i \in 1..Len(q) : q[i] \in K => Marked(q, K) >= 1
    BY <1>1, MarkedFinite
  <2>2. \A i \in 1..Len(q) : q[i].last /\ q[i].pf => q[i] \in K
    BY <1>2 DEF LastBeat
  <2>3. QED
    BY <2>1, <2>2
<1>4. /\ \A i \in 1..Len(q) - 1 : ~q[i].last => q[i + 1].pf = q[i].pf
      /\ q # <<>> /\ ~q[Len(q)].last => rx[p] = "RECEIVE" /\ hdr[p].pf = q[Len(q)].pf
      /\ IF q = <<>> THEN rx[p] = "RECEIVE" /\ hdr[p].pf ELSE q[1].pf
  BY DEF Dispatch, DispatchAt
<1>5. rx[p] = "RECEIVE" /\ hdr[p].pf => Receiving(p, "probe") = 1
  BY DEF Receiving
<1>6. "probe" \in Ends
  BY DEF Ends
<1>7. /\ Marked(q, K) \in Nat /\ Receiving(p, "probe") \in 0..1
      /\ Marked(rxbuf[p], Header("probe")) \in Nat /\ Marked(cdcRx[p], Header("probe")) \in Nat
  BY <1>6, MarkedTypes DEF Receiving
<1>8. Arrived(p, "probe") = (Marked(cdcRx[p], Header("probe")) + Marked(rxbuf[p], Header("probe")))
                            + (Marked(q, K) + Receiving(p, "probe"))
  BY DEF Arrived
<1> HIDE DEF q, K
<1>9. Marked(q, K) >= 1 \/ (rx[p] = "RECEIVE" /\ hdr[p].pf)
  <2>1. CASE q = <<>>
    BY <1>4, <2>1
  <2>2. CASE q # <<>>
    <3>1. q[1].pf /\ 1 \in 1..Len(q) /\ (Len(q) = 1 \/ Len(q) = 2)
      BY <1>2, <1>4, <2>2
    <3>2. CASE q[1].last
      BY <1>3, <3>1, <3>2
    <3>3. CASE Len(q) = 1
      BY <1>3, <1>4, <2>2, <3>1, <3>3
    <3>4. CASE Len(q) = 2 /\ ~q[1].last
      <4>1. 1 \in 1..Len(q) - 1 /\ 1 + 1 = 2 /\ 2 \in 1..Len(q)
        BY <3>4
      <4>2. q[1 + 1].pf = q[1].pf
        BY <1>4, <3>4, <4>1
      <4>3. q[2].pf
        BY <3>1, <4>1, <4>2
      <4>4. QED
        BY <1>3, <1>4, <2>2, <3>4, <4>1, <4>3
    <3>5. QED
      BY <3>1, <3>2, <3>3, <3>4
  <2>3. QED
    BY <2>1, <2>2
<1>10. QED
  BY <1>5, <1>7, <1>8, <1>9

LEMMA StrayConclusion ==
  ASSUME TypeOK, StrayInv
  PROVE  NoStrayReport
<1> SUFFICES ASSUME ~fooled, NEW n \in Nodes, status[n].valid
             PROVE  tester[n] = "COUNT_LATENCY"
  BY DEF NoStrayReport
<1> DEFINE p == Peer[n]
<1>1. p \in Nodes /\ Arbitration /\ Dispatch /\ NodeTypeOK
  BY PeerFacts DEF StrayInv, TypeOK
<1>2. Owed(n) + Echoed(p) <= 0
  BY DEF StrayInv, Balance
<1> HIDE DEF p
<1>3. Running(n) + Leaving(n, "probe") >= 0
  <2>1. /\ Leaving(n, "probe") >= -1 /\ Leaving(n, "probe") \in Int
        /\ Leaving(n, "probe") >= 0 \/ tfg[n] = "RUN"
    BY <1>1, LeavingFloor, ArbiterFacts, LoadTypes DEF Ends, Loads
  <2>2. QED
    BY <2>1 DEF Running
<1>4. Arrived(p, "probe") + Leaving(p, "checker") >= 0
  <2>1. /\ Leaving(p, "checker") >= -1 /\ Leaving(p, "checker") \in Int
        /\ Leaving(p, "checker") >= 0 \/ probe[p] = "PROBE_RESPONSE"
    BY <1>1, LeavingFloor, ArbiterFacts, LoadTypes DEF Ends, Loads
  <2>2. Arrived(p, "probe") \in Nat /\ (probe[p] = "PROBE_RESPONSE" => Arrived(p, "probe") >= 1)
    BY <1>1, ProbeHasMore, LoadTypes DEF Ends, Loads
  <2>3. QED
    BY <2>1, <2>2
<1>5. /\ Arrived(n, "checker") \in Nat /\ Leaving(n, "probe") \in Int
      /\ Arrived(p, "probe") \in Int /\ Leaving(p, "checker") \in Int
  BY <1>1, LoadTypes DEF Ends, Loads
<1>6. Running(n) \in Int /\ Reporting(n) = 1 /\ Waited(n) \in Int
  BY DEF Running, Reporting, Waited
<1>7. Waited(n) >= 1
  BY <1>2, <1>3, <1>4, <1>5, <1>6 DEF Owed, Echoed
<1>8. QED
  BY <1>7 DEF Waited

LEMMA StrayInit == Init => StrayInv
<1> SUFFICES ASSUME Init PROVE StrayInv
  OBVIOUS
<1>1. \A n \in Nodes : /\ tester[n] = "STOP" /\ tfg[n] = "IDLE" /\ ~status[n].valid
                       /\ probe[n] = "IDLE" /\ tx[n] = "IDLE" /\ rx[n] = "IDLE"
                       /\ ptx[n] = <<>> /\ prx[n] = <<>> /\ txbuf[n] = <<>> /\ rxbuf[n] = <<>>
                       /\ cdcTx[n] = <<>> /\ cdcRx[n] = <<>>
  BY DEF Init, NodeInit
<1>2. Len(<<>>) = 0
  OBVIOUS
<1>3. Arbitration /\ Dispatch
  BY <1>1, <1>2 DEF Arbitration, ArbitrationAt, Midframe, Dispatch, DispatchAt
<1>4. \A n \in Nodes, k \in Ends : Leaving(n, k) = 0 /\ Arrived(n, k) = 0
  <2> SUFFICES ASSUME NEW n \in Nodes, NEW k \in Ends PROVE Leaving(n, k) = 0 /\ Arrived(n, k) = 0
    OBVIOUS
  <2>1. Sending(n, k) = 0 /\ Receiving(n, k) = 0
    BY <1>1 DEF Sending, Receiving
  <2>2. /\ Marked(ptx[n], LastBeat(k)) = 0 /\ Marked(prx[n], LastBeat(k)) = 0
        /\ Marked(txbuf[n], Header(k)) = 0 /\ Marked(cdcTx[n], Header(k)) = 0
        /\ Marked(rxbuf[n], Header(k)) = 0 /\ Marked(cdcRx[n], Header(k)) = 0
    BY <1>1, MarkedEmpty
  <2>3. QED
    BY <2>1, <2>2 DEF Leaving, Arrived
<1>5. Balance
  <2> SUFFICES ASSUME NEW n \in Nodes PROVE Owed(n) + Echoed(Peer[n]) <= 0
    BY DEF Balance
  <2>1. Running(n) = 0 /\ Reporting(n) = 0 /\ Waited(n) = 0
    BY <1>1 DEF Running, Reporting, Waited
  <2>2. Owed(n) = 0 /\ Echoed(Peer[n]) = 0
    BY <1>4, <2>1, PeerFacts DEF Owed, Echoed, Ends
  <2>3. QED
    BY <2>2
<1>6. QED
  BY <1>3, <1>5 DEF StrayInv

\* Nothing of what StrayInv speaks of is touched.
LEMMA StrayUntouched ==
  ASSUME StrayInv, fooled' = fooled, UNCHANGED nodeVars, UNCHANGED <<cdcTx, cdcRx>>
  PROVE  StrayInv'
<1>1. UNCHANGED <<tester, tfg, status, grant, probe, ptx, prx, tx, txbuf, rx, rxbuf, hdr>>
  BY DEF nodeVars, genVars, chkVars, txVars, rxVars
<1>2. Arbitration' /\ Dispatch'
  BY <1>1 DEF StrayInv, Arbitration, ArbitrationAt, Midframe, Requests, Dispatch, DispatchAt
<1>3. Balance => Balance'
  <2>1. \A n \in Nodes : Same(n)
    BY <1>1 DEF Same
  <2>2. \A n \in Nodes : Owed(n)' = Owed(n) /\ Echoed(n)' = Echoed(n)
    BY <2>1, LoadSame
  <2>3. QED
    BY <2>2, PeerFacts DEF Balance
<1>4. QED
  BY <1>2, <1>3 DEF StrayInv

LEMMA NodeBalance ==
  ASSUME TypeOK, TypeOK', Arbitration, Balance, NEW m \in Nodes, Node(m), ~TakesData(m)
  PROVE  Balance'
<1>1. NodeStep(m) /\ UNCHANGED linkVars
  BY DEF Node
<1>2. CASE GeneratorBeat(m) \/ CheckerBeat(m) \/ ProbeBeat(m)
  BY <1>1, <1>2, GeneratorBalance, CheckerBalance, ProbeBalance
<1>3. CASE ProbeStart(m) \/ Regrant(m) \/ TxStart(m) \/ RxJudge(m) \/ StatusPulse(m)
  BY <1>1, <1>3, IdleBalance
<1>4. CASE TxHeader(m) \/ TxData(m)
  BY <1>1, <1>4, HeaderBalance, DataBalance
<1>5. CASE RxHeader(m) \/ RxBeat(m)
  BY <1>1, <1>5, RxHeaderBalance, RxBeatBalance
<1>6. QED
  BY <1>1, <1>2, <1>3, <1>4, <1>5 DEF NodeStep

LEMMA StrayStep == StrayInv /\ TypeOK /\ TypeOK' /\ [Next]_vars => StrayInv'
<1> SUFFICES ASSUME StrayInv, TypeOK, TypeOK', [Next]_vars PROVE StrayInv'
  OBVIOUS
<1>0. CASE UNCHANGED vars
  <2>1. fooled' = fooled /\ UNCHANGED nodeVars /\ UNCHANGED <<cdcTx, cdcRx>>
    BY <1>0 DEF vars, hardware, linkVars
  <2>2. QED
    BY <2>1, StrayUntouched
<1>1. CASE Next
  <2>1. /\ Arbitration /\ Dispatch /\ (~fooled => Balance)
        /\ NodeTypeOK /\ NodeTypeOK'
    BY DEF StrayInv, TypeOK
  <2>2. ~fooled' => ~fooled /\ \A n \in Nodes : ~TakesData(n)
    <3>1. fooled' = (fooled \/ \E n \in Nodes : TakesData(n))
      BY <1>1, Zenon DEF Next
    <3>2. QED
      BY <3>1, Zenon
  <2>3. ASSUME NEW n \in Commanders, NEW l \in Lengths, Command(n, l), UNCHANGED linkVars
        PROVE  StrayInv'
    <3>1. n \in Nodes
      BY LinkConstants
    <3>2. Arbitration'
      BY <2>1, <2>3, <3>1, ArbitrationStep
    <3>3. Dispatch'
      BY <2>1, <2>3 DEF Command, rxVars, Dispatch, DispatchAt
    <3>4. ~fooled' => Balance'
      BY <2>1, <2>2, <2>3, <3>1, CommandBalance
    <3>5. QED
      BY <3>2, <3>3, <3>4 DEF StrayInv
  <2>4. ASSUME NEW n \in Nodes, Node(n) PROVE StrayInv'
    <3>1. NodeStep(n)
      BY <2>4 DEF Node
    <3>2. Arbitration' /\ Dispatch'
      BY <2>1, <3>1, ArbitrationStep, DispatchStep
    <3>3. ~fooled' => Balance'
      BY <2>1, <2>2, <2>4, NodeBalance
    <3>4. QED
      BY <3>2, <3>3 DEF StrayInv
  <2>5. ASSUME NEW n \in Nodes, EnterLink(n) \/ Serial(n) \/ LeaveLink(n) \/ ChannelDown(n)
        PROVE  StrayInv'
    <3>1. UNCHANGED <<tfg, grant, probe, ptx, prx, tx, rx, hdr>>
      BY <2>5 DEF EnterLink, Serial, LeaveLink, ChannelDown, nodeVars, genVars, chkVars,
                  txVars, rxVars
    <3>2. Arbitration' /\ Dispatch'
      BY <2>1, <3>1 DEF Arbitration, ArbitrationAt, Midframe, Requests, Dispatch, DispatchAt
    <3>3. ~fooled' => Balance'
      BY <2>1, <2>2, <2>5, EnterBalance, SerialBalance, LeaveBalance, DownBalance
    <3>4. QED
      BY <3>2, <3>3 DEF StrayInv
  <2>6. ASSUME NEW n \in Nodes, ChannelUp(n) PROVE StrayInv'
    <3>1. UNCHANGED <<tester, tfg, status, grant, probe, ptx, prx, tx, txbuf, rx, rxbuf, hdr, cdcTx, cdcRx>>
      BY <2>6 DEF ChannelUp, nodeVars, genVars, chkVars, txVars, rxVars
    <3>2. Arbitration' /\ Dispatch'
      BY <2>1, <3>1 DEF Arbitration, ArbitrationAt, Midframe, Requests, Dispatch, DispatchAt
    <3>3. \A o \in Nodes : Same(o)
      BY <3>1 DEF Same
    <3>4. \A o \in Nodes : Owed(o)' = Owed(o) /\ Echoed(o)' = Echoed(o)
      BY <3>3, LoadSame
    <3>5. Balance => Balance'
      BY <3>4, PeerFacts DEF Balance
    <3>6. QED
      BY <2>1, <2>2, <3>2, <3>5 DEF StrayInv
  <2>7. QED
    BY <1>1, <2>3, <2>4, <2>5, <2>6 DEF Next, Transfer
<1>2. QED
  BY <1>0, <1>1

(***************************************************************************)
(* A status pulse never comes to a tester that waits for none, with any    *)
(* number of testers at work, whatever the link loses or flushes and       *)
(* however often a channel fails (framing.py:98-120, 171-185,              *)
(* kyokko.py:118-130), until a data word is taken for a header: at most    *)
(* one header or last beat answers a command at any time, wherever the     *)
(* loss left the rest of its frame.                                        *)
(***************************************************************************)
THEOREM NoStrayReports == Spec => []NoStrayReport
<1>1. StrayInv /\ TypeOK /\ TypeOK' /\ [Next]_vars => StrayInv'
  BY StrayStep
<1>2. TypeOK /\ StrayInv => NoStrayReport
  BY StrayConclusion
<1>3. QED
  BY <1>1, <1>2, StrayInit, LinkTypeCorrect, PTL DEF Spec

(***************************************************************************)
(* What CanTransfer stands for: a node that cannot move does not.          *)
(***************************************************************************)
LEMMA MovesIfItCan ==
  ASSUME NEW n \in Nodes, Transfer(n)
  PROVE  CanTransfer(n)
BY NodeStepCan DEF Transfer, CanTransfer, Node, EnterLink, Serial, LeaveLink, ChannelUp

(***************************************************************************)
(* A pair that stops is empty, because a receiver never makes the link     *)
(* wait: with both channels up, cdc_tx drains, then txbuf, then ptx; rxbuf *)
(* would fill up before prx could hold it back.                            *)
(***************************************************************************)
Empty(n) ==
  /\ ptx[n] = <<>> /\ txbuf[n] = <<>> /\ cdcTx[n] = <<>>
  /\ prx[n] = <<>> /\ rxbuf[n] = <<>> /\ cdcRx[n] = <<>>

LEMMA StoppedEmpty ==
  ASSUME TypeOK, NEW n \in Nodes, ~CanTransfer(n)
  PROVE  Empty(n) /\ ~NodeCanStep(n)
<1>1. ~NodeCanStep(n) /\ ~CanEnter(n) /\ ~CanTransmit(n) /\ ~CanLeave(n) /\ up[n]
  BY DEF CanTransfer
<1>2. cdcTx[n] = <<>>
  BY <1>1
<1>3. /\ Len(rxbuf[n]) < FifoDepth \/ Len(rxbuf[n]) = FifoDepth
      /\ FifoDepth # 0 /\ SkidDepth # 0 /\ CdcDepth > 0 /\ 0 # FifoDepth
  <2>1. Len(rxbuf[n]) <= FifoDepth /\ rxbuf[n] \in Seq(WireBeat)
    BY DEF TypeOK, NodeTypeOK
  <2>2. Len(rxbuf[n]) \in Nat
    BY <2>1
  <2>3. FifoDepth \in Nat \ {0} /\ CdcDepth \in Nat \ {0} /\ SkidDepth = 2
    BY NodeAssumption, LinkAssumption DEF SkidDepth
  <2>4. \A x, y \in Nat : x <= y => x < y \/ x = y
    OBVIOUS
  <2>5. CdcDepth > 0 /\ FifoDepth # 0 /\ SkidDepth # 0
    BY <2>3
  <2>6. QED
    BY <2>1, <2>2, <2>3, <2>4, <2>5
<1>4. \A q : q = <<>> => Len(q) = 0
  OBVIOUS
<1>5. txbuf[n] = <<>>
  BY <1>1, <1>2, <1>3, <1>4
<1>6. ptx[n] = <<>>
  BY <1>1, <1>3, <1>4, <1>5, NodeWaits DEF TypeOK
<1>7. prx[n] = <<>>
  BY <1>1, <1>3, <1>4, <1>6, NodeWaits DEF TypeOK
<1>8. rxbuf[n] = <<>>
  BY <1>1, <1>3, <1>4, <1>7, NodeWaits DEF TypeOK
<1>9. cdcRx[n] = <<>>
  BY <1>1, <1>3, <1>4, <1>8
<1>10. QED
  BY <1>1, <1>2, <1>5, <1>6, <1>7, <1>8, <1>9 DEF Empty

LEMMA StoppedAnswered ==
  ASSUME TypeOK, LinkInv, ~lost, NEW n \in Nodes, Stopped(n)
  PROVE  tester[n] = "STOP"
<1>1. PICK w, t, r, c : Frames(w, t, r, c) /\ Carried(w) /\ AtWork(c)
  BY DEF LinkInv
<1>2. /\ Peer[n] \in Nodes /\ Peer[Peer[n]] = n /\ w \in [Nodes -> Seq(StreamBeat)]
  BY <1>1, PeerFacts DEF Frames
<1>3. Empty(n) /\ Empty(Peer[n]) /\ ~NodeCanStep(n) /\ ~NodeCanStep(Peer[n])
  BY <1>2, StoppedEmpty DEF Stopped
<1>4. ASSUME NEW m \in Nodes, Empty(m), Empty(Peer[m]) PROVE w[m] = <<>>
  <2>1. OnLink(m) = <<>> \o (<<>> \o (<<>> \o <<>>))
    BY <1>4 DEF OnLink, Transit, Empty
  <2>2. Len(OnLink(m)) = 0
    BY <2>1
  <2>3. Len(w[m]) = 0
    BY <1>1, <2>2 DEF Carried, Matches
  <2>4. QED
    BY <1>2, <2>3, EmptyFacts
<1>5. w[n] = <<>> /\ w[Peer[n]] = <<>>
  BY <1>2, <1>3, <1>4
<1>6. QED
  BY <1>1, <1>2, <1>3, <1>5, EmptyIsIdle DEF Empty, TypeOK

(***************************************************************************)
(* Whenever nothing of a pair can move every buffer is empty, for any      *)
(* depths, lengths, losses and number of pairs: no tester waits for an     *)
(* answer unless a beat was lost, and a generator is left half way only by *)
(* the probe of its own node, in the middle of an echo whose last beat     *)
(* does not come (framing.py:110-120, 179-185, 223-245).                   *)
(***************************************************************************)
THEOREM LinkStopsEmpty == Spec => []StopsEmpty
<1>1. StrayInv /\ TypeOK /\ TypeOK' /\ [Next]_vars => StrayInv'
  BY StrayStep
<1>2. TypeOK /\ LinkInv /\ StrayInv => StopsEmpty
  <2> SUFFICES ASSUME TypeOK, LinkInv, StrayInv, NEW n \in Nodes, Stopped(n)
               PROVE  /\ Empty(n)
                      /\ tester[n] = "STOP" \/ lost
                      /\ tfg[n] = "IDLE" \/ (/\ probe[n] = "PROBE_RESPONSE" /\ grant[n] = "probe"
                                             /\ rx[n] = "RECEIVE" /\ hdr[n].pf)
    BY DEF StopsEmpty, Empty
  <2>1. Empty(n) /\ ~NodeCanStep(n)
    BY StoppedEmpty DEF Stopped
  <2>2. tester[n] = "STOP" \/ lost
    BY StoppedAnswered
  <2>3. ASSUME tfg[n] # "IDLE"
        PROVE  /\ probe[n] = "PROBE_RESPONSE" /\ grant[n] = "probe"
               /\ rx[n] = "RECEIVE" /\ hdr[n].pf
    <3>1. tfg[n] = "RUN"
      BY <2>3 DEF TypeOK, NodeTypeOK
    <3>2. grant[n] = "probe" /\ probe[n] = "PROBE_RESPONSE"
      BY <2>1, <3>1, NodeWaits DEF TypeOK, Empty
    <3>3. DispatchAt(n)
      BY DEF StrayInv, Dispatch
    <3>4. QED
      BY <2>1, <3>2, <3>3 DEF DispatchAt, Empty
  <2>4. QED
    BY <2>1, <2>2, <2>3
<1>3. QED
  BY <1>1, <1>2, StrayInit, LinkTypeCorrect, LinkInvariant, PTL DEF Spec
-----------------------------------------------------------------------------
(***************************************************************************)
(* With one tester of a pair at work, what is left of its frame stays in   *)
(* order, whatever is lost.  On the way from a transmitter to the receiver *)
(* of its peer (a leg) each buffer has a stretch of the frame to itself.   *)
(* The stretches are parted by cuts: a beat that moves on moves one cut, a *)
(* beat that is lost moves none.  So the last beat leaves nothing behind   *)
(* it, and a checker has seen no more beats than the cut below it says.    *)
(***************************************************************************)
Cuts == [0..7 -> Nat]
End(l) == l + 2

\* What a buffer holds: beats of a node or beats of the wire.
Beats(w) == IF w = "wire" THEN WireBeat ELSE UserBeat
Formats  == {"wire", "user"}

\* The header of a frame comes first, then its data words.  l is the last one.
IsHeader(w, x) == w = "wire" /\ x.head
Place(w, x)    == IF IsHeader(w, x) THEN 0 ELSE x.data + 1
Mark(w, x, l, k) ==
  /\ IsHeader(w, x) \/ w = "user" => (x.pf <=> k = "probe")
  /\ ~IsHeader(w, x) => (x.last <=> x.data = l)

Stretch(w, q, lo, hi, l, k) ==
  /\ lo <= hi
  /\ \A i \in 1..Len(q) : lo <= Place(w, q[i]) /\ Place(w, q[i]) < hi /\ Mark(w, q[i], l, k)
  /\ \A i, j \in 1..Len(q) : i < j => Place(w, q[i]) < Place(w, q[j])

\* From the skid buffer of s to that of d: b[0] is what has left the leg, b[7] what
\* has entered it.  A receiver takes up to b[2] and passes on up to b[1].
Leg(s, d, k, l, b) ==
  /\ b \in Cuts /\ b[7] <= End(l)
  /\ Stretch("user", prx[d], b[0], b[1], l, k)
  /\ b[1] <= b[2]
  /\ Stretch("wire", rxbuf[d], b[2], b[3], l, k)
  /\ Stretch("wire", cdcRx[d], b[3], b[4], l, k)
  /\ Stretch("wire", cdcTx[s], b[4], b[5], l, k)
  /\ Stretch("wire", txbuf[s], b[5], b[6], l, k)
  /\ Stretch("user", ptx[s], b[6], b[7], l, k)
  /\ rx[d] # "IDLE" => b[2] >= 1 /\ b[1] < End(l)
  /\ rx[d] = "RECEIVE" \/ (rx[d] = "HEADER" /\ hdr[d].magic) => (hdr[d].pf <=> k = "probe")
  /\ IF tx[s] = "SEND_DATA" THEN 1 <= b[6] /\ b[6] < End(l) ELSE b[6] \in {0, End(l)}

\* What a tester, its generator and its checker know of the legs out and home.
StrandEnds(n, l, out, home) ==
  /\ home[7] = out[0]
  /\ tester[n] # "STOP" => l \in Lengths
  /\ tfg[n] = "RUN" => beats[n] <= l /\ out[7] <= beats[n] + 1
  /\ tester[n] = "STOP" \/ status[n].valid => home[0] = End(l)
  /\ status[n].valid => /\ tester[n] = "COUNT_LATENCY"
                        /\ \E c \in 0..l : status[n].length = StatusLength(c)
  /\ chkBeats[n] = 0 \/ (chkBeats[n] + 1 <= home[0] /\ home[0] < End(l))

\* The node of a tester has nothing to echo, and its peer no tester at work.
Strand(n) ==
  /\ probe[n] = "IDLE" /\ tfg[Peer[n]] = "IDLE" /\ ~status[Peer[n]].valid
  /\ \E l \in Nat, out, home \in Cuts :
       /\ l = len[n]
       /\ Leg(n, Peer[n], "probe", l, out) /\ Leg(Peer[n], n, "checker", l, home)
       /\ StrandEnds(n, l, out, home)

\* Where no tester is at work nothing is under way.
Silent(n) ==
  /\ tfg[n] = "IDLE" /\ ~status[n].valid
  /\ ptx[n] = <<>> /\ txbuf[n] = <<>> /\ cdcTx[n] = <<>>
  /\ prx[n] = <<>> /\ rxbuf[n] = <<>> /\ cdcRx[n] = <<>>

ShortInv ==
  ~fooled => /\ \A n \in Commanders : Strand(n)
             /\ \A n \in Nodes \ Commanders : Peer[n] \notin Commanders => Silent(n)

\* No more than one tester of a pair is given commands, and none whose frame has more
\* bytes than the status can say.
OneTester   == \A n \in Commanders : Peer[n] \notin Commanders
ShortFrames == \A l \in Lengths : (l + 1) * BeatBytes < LengthMod

LEMMA PlaceTypes ==
  \A w \in Formats : \A x \in Beats(w) : Place(w, x) \in Nat
BY NodeAssumption DEF WireBeat, UserBeat, Beats, Word, Count, HeaderWord, Place, IsHeader

LEMMA StretchAppend ==
  ASSUME NEW w \in Formats, NEW q \in Seq(Beats(w)), NEW x \in Beats(w),
         NEW lo \in Nat, NEW hi \in Nat, NEW l \in Nat, NEW k,
         Stretch(w, q, lo, hi, l, k), hi <= Place(w, x), Mark(w, x, l, k)
  PROVE  Stretch(w, Append(q, x), lo, Place(w, x) + 1, l, k)
<1> DEFINE r == Append(q, x)
<1>1. /\ Len(r) = Len(q) + 1 /\ Len(q) \in Nat /\ r[Len(r)] = x
      /\ \A i \in 1..Len(q) : r[i] = q[i] /\ q[i] \in Beats(w)
  OBVIOUS
<1>2. \A i \in 1..Len(r) : i \in 1..Len(q) \/ i = Len(r)
  BY <1>1
<1> HIDE DEF r
<1>3. Place(w, x) \in Nat /\ lo <= hi /\ lo <= Place(w, x) + 1
  BY PlaceTypes DEF Stretch
<1>4. ASSUME NEW i \in 1..Len(q)
      PROVE  /\ r[i] = q[i] /\ Place(w, q[i]) \in Nat /\ Mark(w, q[i], l, k)
             /\ lo <= Place(w, q[i]) /\ Place(w, q[i]) < hi
  BY <1>1, PlaceTypes DEF Stretch
<1>5. \A i \in 1..Len(r) :
        lo <= Place(w, r[i]) /\ Place(w, r[i]) < Place(w, x) + 1 /\ Mark(w, r[i], l, k)
  <2> TAKE i \in 1..Len(r)
  <2>1. CASE i \in 1..Len(q)
    BY <1>3, <1>4, <2>1
  <2>2. CASE i = Len(r)
    BY <1>1, <1>3, <2>2
  <2>3. QED
    BY <1>2, <2>1, <2>2
<1>6. \A i, j \in 1..Len(r) : i < j => Place(w, r[i]) < Place(w, r[j])
  <2> TAKE i, j \in 1..Len(r)
  <2> HAVE i < j
  <2>1. i \in 1..Len(q)
    BY <1>1, <1>2
  <2>2. CASE j \in 1..Len(q)
    BY <1>4, <2>1, <2>2 DEF Stretch
  <2>3. CASE j = Len(r)
    BY <1>1, <1>3, <1>4, <2>1, <2>3
  <2>4. QED
    BY <1>2, <2>2, <2>3
<1>7. QED
  BY <1>3, <1>5, <1>6 DEF Stretch, r

LEMMA StretchTail ==
  ASSUME NEW w \in Formats, NEW q \in Seq(Beats(w)), q # <<>>,
         NEW lo \in Nat, NEW hi \in Nat, NEW l \in Nat, NEW k, Stretch(w, q, lo, hi, l, k)
  PROVE  /\ Head(q) \in Beats(w) /\ Place(w, Head(q)) \in Nat /\ Mark(w, Head(q), l, k)
         /\ lo <= Place(w, Head(q)) /\ Place(w, Head(q)) < hi
         /\ Stretch(w, Tail(q), Place(w, Head(q)) + 1, hi, l, k)
         /\ Stretch(w, Tail(q), lo, hi, l, k)
<1> DEFINE r == Tail(q)
<1>1. /\ Len(q) \in Nat /\ Len(q) >= 1 /\ Len(r) = Len(q) - 1 /\ Head(q) = q[1]
      /\ \A i \in 1..Len(r) : r[i] = q[i + 1] /\ i + 1 \in 1..Len(q) /\ 1 < i + 1
      /\ \A i \in 1..Len(q) : q[i] \in Beats(w)
  OBVIOUS
<1>2. 1 \in 1..Len(q)
  BY <1>1
<1> HIDE DEF r
<1>3. ASSUME NEW i \in 1..Len(q)
      PROVE  /\ Place(w, q[i]) \in Nat /\ Mark(w, q[i], l, k)
             /\ lo <= Place(w, q[i]) /\ Place(w, q[i]) < hi
  BY <1>1, PlaceTypes DEF Stretch
<1>4. /\ Head(q) \in Beats(w) /\ Place(w, Head(q)) \in Nat /\ Mark(w, Head(q), l, k)
      /\ lo <= Place(w, Head(q)) /\ Place(w, Head(q)) < hi
  BY <1>1, <1>2, <1>3
<1>5. ASSUME NEW i \in 1..Len(r)
      PROVE  /\ Place(w, r[i]) \in Nat /\ Place(w, Head(q)) < Place(w, r[i])
             /\ lo <= Place(w, r[i]) /\ Place(w, r[i]) < hi /\ Mark(w, r[i], l, k)
  <2>1. r[i] = q[i + 1] /\ i + 1 \in 1..Len(q) /\ 1 < i + 1
    BY <1>1
  <2>2. Place(w, q[1]) < Place(w, q[i + 1])
    BY <1>2, <2>1 DEF Stretch
  <2>3. QED
    BY <1>1, <1>3, <2>1, <2>2
<1>6. \A i, j \in 1..Len(r) : i < j => Place(w, r[i]) < Place(w, r[j])
  <2> TAKE i, j \in 1..Len(r)
  <2> HAVE i < j
  <2>1. /\ r[i] = q[i + 1] /\ r[j] = q[j + 1]
        /\ i + 1 \in 1..Len(q) /\ j + 1 \in 1..Len(q) /\ i + 1 < j + 1
    BY <1>1
  <2>2. QED
    BY <2>1 DEF Stretch
<1>7. lo <= hi /\ Place(w, Head(q)) + 1 <= hi
  BY <1>4 DEF Stretch
<1>8. \A i \in 1..Len(r) : Place(w, Head(q)) + 1 <= Place(w, r[i])
  BY <1>4, <1>5
<1>9. QED
  BY <1>4, <1>5, <1>6, <1>7, <1>8 DEF Stretch, r

LEMMA StretchEmpty ==
  ASSUME NEW lo \in Nat, NEW hi \in Nat, lo <= hi
  PROVE  \A w, l, k : Stretch(w, <<>>, lo, hi, l, k)
BY DEF Stretch

LEMMA LegTypes ==
  ASSUME TypeOK, NEW s \in Nodes, NEW d \in Nodes
  PROVE  /\ prx[d] \in Seq(Beats("user")) /\ ptx[s] \in Seq(Beats("user"))
         /\ rxbuf[d] \in Seq(Beats("wire")) /\ cdcRx[d] \in Seq(Beats("wire"))
         /\ txbuf[s] \in Seq(Beats("wire")) /\ cdcTx[s] \in Seq(Beats("wire"))
BY DEF TypeOK, NodeTypeOK, Beats

LEMMA CutTypes ==
  ASSUME NEW b \in Cuts
  PROVE  /\ b[0] \in Nat /\ b[1] \in Nat /\ b[2] \in Nat /\ b[3] \in Nat
         /\ b[4] \in Nat /\ b[5] \in Nat /\ b[6] \in Nat /\ b[7] \in Nat
BY DEF Cuts

OneCut(b, c, j, v) == c[j] = v /\ \A i \in 0..7 \ {j} : c[i] = b[i]

\* One cut can move and leave the others where they are.
LEMMA CutMoved ==
  ASSUME NEW b \in Cuts, NEW j \in 0..7, NEW v \in Nat
  PROVE  \E c \in Cuts : OneCut(b, c, j, v)
<1> DEFINE c == [b EXCEPT ![j] = v]
<1>1. c \in Cuts /\ c[j] = v /\ \A i \in 0..7 \ {j} : c[i] = b[i]
  BY DEF Cuts
<1>2. QED
  BY <1>1 DEF OneCut

\* What a leg is made of.
SameLeg(s, d) ==
  /\ prx'[d] = prx[d] /\ rxbuf'[d] = rxbuf[d] /\ cdcRx'[d] = cdcRx[d]
  /\ cdcTx'[s] = cdcTx[s] /\ txbuf'[s] = txbuf[s] /\ ptx'[s] = ptx[s]
  /\ rx'[d] = rx[d] /\ hdr'[d] = hdr[d] /\ tx'[s] = tx[s]

LegKept(s, d, k, l, b) == \E c \in Cuts : Leg(s, d, k, l, c)' /\ c[0] = b[0] /\ c[7] = b[7]

LEMMA LegSame ==
  ASSUME NEW s \in Nodes, NEW d \in Nodes, NEW k, NEW l \in Nat, NEW b \in Cuts,
         Leg(s, d, k, l, b), SameLeg(s, d)
  PROVE  Leg(s, d, k, l, b)'
BY DEF Leg, SameLeg

LEMMA LegTxData ==
  ASSUME TypeOK, NEW s \in Nodes, NEW d \in Nodes, NEW k, NEW l \in Nat, NEW b \in Cuts,
         Leg(s, d, k, l, b), s # d, TxData(s), UNCHANGED <<cdcTx, cdcRx>>
  PROVE  LegKept(s, d, k, l, b)
<1> DEFINE x == Head(ptx[s])
           y == DataBeat(x)
<1>1. /\ tx[s] = "SEND_DATA" /\ ptx[s] # <<>>
      /\ txbuf'[s] = Append(txbuf[s], y) /\ ptx'[s] = Tail(ptx[s])
      /\ tx'[s] = IF x.last THEN "IDLE" ELSE tx[s]
      /\ UNCHANGED <<prx, rx, hdr, rxbuf, cdcTx, cdcRx>>
  BY DEF TxData, rxVars, TypeOK, NodeTypeOK
<1>2. /\ x \in Beats("user") /\ Place("user", x) \in Nat /\ Mark("user", x, l, k)
      /\ b[6] <= Place("user", x) /\ Place("user", x) < b[7]
      /\ Stretch("user", Tail(ptx[s]), Place("user", x) + 1, b[7], l, k)
  BY <1>1, LegTypes, CutTypes, StretchTail DEF Leg, Formats
<1> HIDE DEF x
<1>3. /\ Place("user", x) = x.data + 1 /\ x.data \in Nat /\ (x.last <=> x.data = l)
  BY <1>2, NodeAssumption DEF Place, Mark, IsHeader, Beats, UserBeat, Word, Count, HeaderWord
<1>4. y \in Beats("wire") /\ Place("wire", y) = x.data + 1 /\ Mark("wire", y, l, k)
  BY <1>2, <1>3 DEF DataBeat, Beats, UserBeat, WireBeat, Place, Mark, IsHeader
<1> HIDE DEF y
<1>5. PICK v \in Nat : v = x.data + 1 + 1
  BY <1>3
<1>6. PICK c \in Cuts : OneCut(b, c, 6, v)
  BY ONLY b \in Cuts, v \in Nat, CutMoved
<1>7. /\ c[0] = b[0] /\ c[1] = b[1] /\ c[2] = b[2] /\ c[3] = b[3]
      /\ c[4] = b[4] /\ c[5] = b[5] /\ c[6] = v /\ c[7] = b[7]
  BY <1>6 DEF OneCut
<1>8. Stretch("wire", txbuf'[s], c[5], c[6], l, k)
  <2>1. Stretch("wire", txbuf[s], b[5], b[6], l, k) /\ b[6] <= x.data + 1
    BY <1>2, <1>3 DEF Leg
  <2>2. Stretch("wire", Append(txbuf[s], y), b[5], x.data + 1 + 1, l, k)
    BY <1>4, <2>1, LegTypes, CutTypes, StretchAppend DEF Formats
  <2>3. QED
    BY <1>1, <1>5, <1>7, <2>2
<1>9. Stretch("user", ptx'[s], c[6], c[7], l, k)
  BY <1>1, <1>2, <1>3, <1>5, <1>7
<1>10. IF tx'[s] = "SEND_DATA" THEN 1 <= c[6] /\ c[6] < End(l) ELSE c[6] \in {0, End(l)}
  <2>1. c[6] = x.data + 2 /\ x.data + 1 < End(l) /\ c[6] >= 1
    BY <1>2, <1>3, <1>5, <1>7, CutTypes DEF Leg, End
  <2>2. QED
    BY <1>1, <1>3, <2>1 DEF End
<1>11. Leg(s, d, k, l, c)'
  BY <1>1, <1>7, <1>8, <1>9, <1>10 DEF Leg
<1>12. QED
  BY <1>7, <1>11 DEF LegKept

LEMMA LegTxHeader ==
  ASSUME TypeOK, NEW s \in Nodes, NEW d \in Nodes, NEW k, NEW l \in Nat, NEW b \in Cuts,
         Leg(s, d, k, l, b), s # d, TxHeader(s), UNCHANGED <<cdcTx, cdcRx>>
  PROVE  LegKept(s, d, k, l, b)
<1> DEFINE x == Head(ptx[s])
           y == HeaderBeat(x.pf)
<1>1. /\ tx[s] = "SEND_HEADER" /\ ptx[s] # <<>>
      /\ txbuf'[s] = Append(txbuf[s], y) /\ tx'[s] = "SEND_DATA"
      /\ UNCHANGED <<ptx, prx, rx, hdr, rxbuf, cdcTx, cdcRx>>
  BY DEF TxHeader, rxVars, TypeOK, NodeTypeOK
<1>2. /\ x \in Beats("user") /\ Place("user", x) \in Nat /\ Mark("user", x, l, k)
      /\ b[6] <= Place("user", x) /\ Place("user", x) < b[7] /\ b[7] <= End(l)
  BY <1>1, LegTypes, CutTypes, StretchTail DEF Leg, Formats
<1> HIDE DEF x
<1>3. b[6] = 0 /\ b[7] >= 1
  BY <1>1, <1>2, CutTypes DEF Leg, End
<1>4. y \in Beats("wire") /\ Place("wire", y) = 0 /\ Mark("wire", y, l, k)
  <2>1. x.pf \in BOOLEAN /\ (x.pf <=> k = "probe")
    BY <1>2 DEF Beats, UserBeat, Mark
  <2>2. y \in WireBeat /\ y.head /\ y.pf = x.pf
    BY <2>1, NodeAssumption DEF HeaderBeat, WireBeat, Word, HeaderWord
  <2>3. QED
    BY <2>1, <2>2 DEF Beats, Place, Mark, IsHeader
<1> HIDE DEF y
<1>5. PICK c \in Cuts : OneCut(b, c, 6, 1)
  BY ONLY b \in Cuts, 1 \in Nat, CutMoved
<1>6. /\ c[0] = b[0] /\ c[1] = b[1] /\ c[2] = b[2] /\ c[3] = b[3]
      /\ c[4] = b[4] /\ c[5] = b[5] /\ c[6] = 1 /\ c[7] = b[7]
  BY <1>5 DEF OneCut
<1>7. Stretch("wire", txbuf'[s], c[5], c[6], l, k)
  <2>1. Stretch("wire", txbuf[s], b[5], 0, l, k)
    BY <1>3 DEF Leg
  <2>2. Stretch("wire", Append(txbuf[s], y), b[5], 0 + 1, l, k)
    BY <1>4, <2>1, LegTypes, CutTypes, StretchAppend DEF Formats
  <2>3. QED
    BY <1>1, <1>6, <2>2
<1>8. Stretch("user", ptx'[s], c[6], c[7], l, k)
  <2>1. Stretch("user", ptx[s], b[6], b[7], l, k)
    BY DEF Leg
  <2>2. \A i \in 1..Len(ptx[s]) : Place("user", ptx[s][i]) >= 1
    <3>1. \A z \in Beats("user") : Place("user", z) >= 1
      BY NodeAssumption DEF Place, IsHeader, Beats, UserBeat, Word, Count, HeaderWord
    <3>2. \A i \in 1..Len(ptx[s]) : ptx[s][i] \in Beats("user")
      BY LegTypes
    <3>3. QED
      BY <3>1, <3>2
  <2>3. QED
    BY <1>1, <1>3, <1>6, <2>1, <2>2 DEF Stretch
<1>9. Leg(s, d, k, l, c)'
  <2>1. 1 <= c[6] /\ c[6] < End(l)
    BY <1>6 DEF End
  <2>2. QED
    BY <1>1, <1>6, <1>7, <1>8, <2>1 DEF Leg
<1>10. QED
  BY <1>6, <1>9 DEF LegKept

LEMMA LegRxHeader ==
  ASSUME TypeOK, NEW s \in Nodes, NEW d \in Nodes, NEW k, NEW l \in Nat, NEW b \in Cuts,
         Leg(s, d, k, l, b), s # d, RxHeader(d), ~TakesData(d), UNCHANGED <<cdcTx, cdcRx>>
  PROVE  LegKept(s, d, k, l, b)
<1> DEFINE x == Head(rxbuf[d])
<1>1. /\ rx[d] = "IDLE" /\ rxbuf[d] # <<>>
      /\ rxbuf'[d] = Tail(rxbuf[d]) /\ rx'[d] = "HEADER" /\ hdr'[d] = Decode(x)
      /\ UNCHANGED <<ptx, prx, tx, txbuf, cdcTx, cdcRx>>
  BY DEF RxHeader, txVars, TypeOK, NodeTypeOK
<1>2. /\ x \in Beats("wire") /\ Place("wire", x) \in Nat /\ Mark("wire", x, l, k)
      /\ b[2] <= Place("wire", x) /\ Place("wire", x) < b[3]
      /\ Stretch("wire", Tail(rxbuf[d]), Place("wire", x) + 1, b[3], l, k)
  BY <1>1, LegTypes, CutTypes, StretchTail DEF Leg, Formats
<1>3. ~x.head => x.data \notin Lookalike
  BY <1>1 DEF TakesData
<1>4. hdr'[d].magic => (hdr'[d].pf <=> k = "probe")
  BY <1>1, <1>2, <1>3 DEF Decode, Mark, IsHeader, Beats, WireBeat
<1> HIDE DEF x
<1>5. PICK v \in Nat : v = Place("wire", x) + 1
  BY <1>2
<1>6. PICK c \in Cuts : OneCut(b, c, 2, v)
  BY ONLY b \in Cuts, v \in Nat, CutMoved
<1>7. /\ c[0] = b[0] /\ c[1] = b[1] /\ c[2] = v /\ c[3] = b[3]
      /\ c[4] = b[4] /\ c[5] = b[5] /\ c[6] = b[6] /\ c[7] = b[7]
  BY <1>6 DEF OneCut
<1>8. b[1] <= v /\ v >= 1
  BY <1>2, <1>5, CutTypes DEF Leg
<1>9. b[1] < End(l)
  <2>1. /\ b[3] <= b[4] /\ b[4] <= b[5] /\ b[5] <= b[6] /\ b[6] <= b[7] /\ b[7] <= End(l)
        /\ b[1] <= b[2]
    BY DEF Leg, Stretch
  <2>2. QED
    BY <1>2, <2>1, CutTypes DEF End
<1>10. Leg(s, d, k, l, c)'
  BY <1>1, <1>2, <1>4, <1>5, <1>7, <1>8, <1>9 DEF Leg
<1>11. QED
  BY <1>7, <1>10 DEF LegKept

LEMMA LegRxBeat ==
  ASSUME TypeOK, NEW s \in Nodes, NEW d \in Nodes, NEW k, NEW l \in Nat, NEW b \in Cuts,
         Leg(s, d, k, l, b), s # d, RxBeat(d), UNCHANGED <<cdcTx, cdcRx>>
  PROVE  LegKept(s, d, k, l, b)
<1> DEFINE x == Head(rxbuf[d])
           y == [data |-> x.data, last |-> x.last, pf |-> hdr[d].pf]
<1>1. /\ rxbuf[d] # <<>> /\ rxbuf'[d] = Tail(rxbuf[d])
      /\ rx'[d] = IF x.last THEN "IDLE" ELSE rx[d]
      /\ UNCHANGED <<ptx, tx, txbuf, hdr, cdcTx, cdcRx>>
  BY DEF RxBeat, RxAfter, txVars, TypeOK, NodeTypeOK
<1>2. /\ x \in Beats("wire") /\ Place("wire", x) \in Nat /\ Mark("wire", x, l, k)
      /\ b[2] <= Place("wire", x) /\ Place("wire", x) < b[3]
      /\ Stretch("wire", Tail(rxbuf[d]), Place("wire", x) + 1, b[3], l, k)
  BY <1>1, LegTypes, CutTypes, StretchTail DEF Leg, Formats
<1>3. \/ rx[d] = "RECEIVE" /\ prx'[d] = Append(prx[d], y)
      \/ rx[d] = "DROP" /\ prx'[d] = prx[d]
  BY DEF RxBeat, TypeOK, NodeTypeOK
<1>4. b[2] >= 1 /\ b[1] < End(l) /\ b[1] <= b[2]
  BY <1>3 DEF Leg
<1> HIDE DEF x
<1>5. Place("wire", x) = x.data + 1 /\ x.data \in Nat /\ (x.last <=> x.data = l)
  <2>1. Place("wire", x) >= 1
    BY <1>2, <1>4, CutTypes
  <2>2. x \in WireBeat /\ ~IsHeader("wire", x)
    BY <1>2, <2>1 DEF Place, Beats
  <2>3. QED
    BY <1>2, <2>2, NodeAssumption DEF Place, Mark, WireBeat, Word, Count, HeaderWord
<1>6. PICK v \in Nat : v = x.data + 1 + 1
  BY <1>5
<1>7. PICK c \in Cuts : OneCut(b, c, 2, v)
  BY ONLY b \in Cuts, v \in Nat, CutMoved
<1>8. /\ c[0] = b[0] /\ c[1] = b[1] /\ c[2] = v /\ c[3] = b[3]
      /\ c[4] = b[4] /\ c[5] = b[5] /\ c[6] = b[6] /\ c[7] = b[7]
  BY <1>7 DEF OneCut
<1>9. b[1] <= v /\ v >= 1 /\ v <= End(l) /\ b[1] <= x.data + 1
  <2>1. b[3] <= b[4] /\ b[4] <= b[5] /\ b[5] <= b[6] /\ b[6] <= b[7] /\ b[7] <= End(l)
    BY DEF Leg, Stretch
  <2>2. QED
    BY <1>2, <1>4, <1>5, <1>6, <2>1, CutTypes DEF End
<1>10. Stretch("wire", rxbuf'[d], v, b[3], l, k)
  BY <1>1, <1>2, <1>5, <1>6
<1>11. CASE rx[d] = "DROP"
  <2>1. prx'[d] = prx[d] /\ rx'[d] # "RECEIVE" /\ rx'[d] # "HEADER"
    BY <1>1, <1>3, <1>11
  <2>2. Leg(s, d, k, l, c)'
    BY <1>1, <1>4, <1>8, <1>9, <1>10, <2>1 DEF Leg
  <2>3. QED
    BY <1>8, <2>2 DEF LegKept
<1>12. CASE rx[d] = "RECEIVE"
  <2>1. prx'[d] = Append(prx[d], y) /\ (hdr[d].pf <=> k = "probe") /\ hdr[d].pf \in BOOLEAN
    BY <1>3, <1>12 DEF Leg, TypeOK, NodeTypeOK
  <2>2. y \in Beats("user") /\ Place("user", y) = x.data + 1 /\ Mark("user", y, l, k)
    BY <1>2, <1>5, <2>1 DEF Beats, UserBeat, WireBeat, Place, Mark, IsHeader
  <2> HIDE DEF y
  <2>3. Stretch("user", prx'[d], b[0], v, l, k)
    <3>1. Stretch("user", prx[d], b[0], b[1], l, k)
      BY DEF Leg
    <3>2. Stretch("user", Append(prx[d], y), b[0], x.data + 1 + 1, l, k)
      BY <1>9, <2>2, <3>1, LegTypes, CutTypes, StretchAppend DEF Formats
    <3>3. QED
      BY <1>6, <2>1, <3>2
  <2>4. PICK e \in Cuts : OneCut(c, e, 1, v)
    BY ONLY c \in Cuts, v \in Nat, CutMoved
  <2>5. /\ e[0] = b[0] /\ e[1] = v /\ e[2] = v /\ e[3] = b[3]
        /\ e[4] = b[4] /\ e[5] = b[5] /\ e[6] = b[6] /\ e[7] = b[7]
    BY <1>8, <2>4 DEF OneCut
  <2>6. rx'[d] # "IDLE" => v < End(l)
    <3>1. ~x.last => x.data + 2 # l + 2
      BY <1>5
    <3>2. QED
      BY <1>1, <1>5, <1>6, <1>9, <3>1 DEF End
  <2>7. rx'[d] = "IDLE" \/ rx'[d] = "RECEIVE"
    BY <1>1, <1>12
  <2>8. Leg(s, d, k, l, e)'
    BY <1>1, <1>9, <1>10, <2>1, <2>3, <2>5, <2>6, <2>7 DEF Leg
  <2>9. QED
    BY <2>5, <2>8 DEF LegKept
<1>13. QED
  BY <1>3, <1>11, <1>12

\* EnterLink, LeaveLink and Serial: a beat moves to the buffer before it, or is lost.
LEMMA LegEnter ==
  ASSUME TypeOK, NEW s \in Nodes, NEW d \in Nodes, NEW k, NEW l \in Nat, NEW b \in Cuts,
         Leg(s, d, k, l, b), s # d, EnterLink(s)
  PROVE  LegKept(s, d, k, l, b)
<1> DEFINE x == Head(txbuf[s])
<1>1. /\ txbuf[s] # <<>> /\ txbuf'[s] = Tail(txbuf[s]) /\ cdcTx'[s] = Append(cdcTx[s], x)
      /\ UNCHANGED <<ptx, prx, tx, rx, hdr, rxbuf, cdcRx>>
  BY DEF EnterLink, rxVars, TypeOK, NodeTypeOK
<1>2. /\ x \in Beats("wire") /\ Place("wire", x) \in Nat /\ Mark("wire", x, l, k)
      /\ b[5] <= Place("wire", x)
      /\ Stretch("wire", Tail(txbuf[s]), Place("wire", x) + 1, b[6], l, k)
  BY <1>1, LegTypes, CutTypes, StretchTail DEF Leg, Formats
<1> HIDE DEF x
<1>3. Stretch("wire", Append(cdcTx[s], x), b[4], Place("wire", x) + 1, l, k)
  <2>1. Stretch("wire", cdcTx[s], b[4], b[5], l, k)
    BY DEF Leg
  <2>2. QED
    BY <1>2, <2>1, LegTypes, CutTypes, StretchAppend DEF Formats
<1>4. PICK v \in Nat : v = Place("wire", x) + 1
  BY <1>2
<1>5. PICK c \in Cuts : OneCut(b, c, 5, v)
  BY ONLY b \in Cuts, v \in Nat, CutMoved
<1>6. /\ c[0] = b[0] /\ c[1] = b[1] /\ c[2] = b[2] /\ c[3] = b[3]
      /\ c[4] = b[4] /\ c[5] = v /\ c[6] = b[6] /\ c[7] = b[7]
  BY <1>5 DEF OneCut
<1>7. Leg(s, d, k, l, c)'
  BY <1>1, <1>2, <1>3, <1>4, <1>6 DEF Leg
<1>8. QED
  BY <1>6, <1>7 DEF LegKept

LEMMA LegLeave ==
  ASSUME TypeOK, NEW s \in Nodes, NEW d \in Nodes, NEW k, NEW l \in Nat, NEW b \in Cuts,
         Leg(s, d, k, l, b), s # d, LeaveLink(d)
  PROVE  LegKept(s, d, k, l, b)
<1> DEFINE x == Head(cdcRx[d])
<1>1. /\ cdcRx[d] # <<>> /\ cdcRx'[d] = Tail(cdcRx[d]) /\ rxbuf'[d] = Append(rxbuf[d], x)
      /\ UNCHANGED <<ptx, prx, tx, txbuf, rx, hdr, cdcTx>>
  BY DEF LeaveLink, txVars, TypeOK, NodeTypeOK
<1>2. /\ x \in Beats("wire") /\ Place("wire", x) \in Nat /\ Mark("wire", x, l, k)
      /\ b[3] <= Place("wire", x)
      /\ Stretch("wire", Tail(cdcRx[d]), Place("wire", x) + 1, b[4], l, k)
  BY <1>1, LegTypes, CutTypes, StretchTail DEF Leg, Formats
<1> HIDE DEF x
<1>3. Stretch("wire", Append(rxbuf[d], x), b[2], Place("wire", x) + 1, l, k)
  <2>1. Stretch("wire", rxbuf[d], b[2], b[3], l, k)
    BY DEF Leg
  <2>2. QED
    BY <1>2, <2>1, LegTypes, CutTypes, StretchAppend DEF Formats
<1>4. PICK v \in Nat : v = Place("wire", x) + 1
  BY <1>2
<1>5. PICK c \in Cuts : OneCut(b, c, 3, v)
  BY ONLY b \in Cuts, v \in Nat, CutMoved
<1>6. /\ c[0] = b[0] /\ c[1] = b[1] /\ c[2] = b[2] /\ c[3] = v
      /\ c[4] = b[4] /\ c[5] = b[5] /\ c[6] = b[6] /\ c[7] = b[7]
  BY <1>5 DEF OneCut
<1>7. Leg(s, d, k, l, c)'
  BY <1>1, <1>2, <1>3, <1>4, <1>6 DEF Leg
<1>8. QED
  BY <1>6, <1>7 DEF LegKept

LEMMA LegSerial ==
  ASSUME TypeOK, NEW s \in Nodes, NEW d \in Nodes, NEW k, NEW l \in Nat, NEW b \in Cuts,
         Leg(s, d, k, l, b), s # d, d = Peer[s], Serial(s)
  PROVE  LegKept(s, d, k, l, b)
<1> DEFINE x == Head(cdcTx[s])
           y == [x EXCEPT !.gap = missed[s]]
<1>1. /\ cdcTx[s] # <<>> /\ cdcTx'[s] = Tail(cdcTx[s])
      /\ cdcRx'[d] = cdcRx[d] \/ cdcRx'[d] = Append(cdcRx[d], y)
      /\ UNCHANGED <<ptx, prx, tx, txbuf, rx, hdr, rxbuf>>
      /\ missed[s] \in BOOLEAN
  BY DEF Serial, nodeVars, txVars, rxVars, TypeOK
<1>2. /\ x \in Beats("wire") /\ Place("wire", x) \in Nat /\ Mark("wire", x, l, k)
      /\ b[4] <= Place("wire", x)
      /\ Stretch("wire", Tail(cdcTx[s]), Place("wire", x) + 1, b[5], l, k)
      /\ Stretch("wire", Tail(cdcTx[s]), b[4], b[5], l, k)
  BY <1>1, LegTypes, CutTypes, StretchTail DEF Leg, Formats
<1> HIDE DEF x
<1>3. y \in Beats("wire") /\ Place("wire", y) = Place("wire", x) /\ Mark("wire", y, l, k)
  BY <1>1, <1>2 DEF Beats, WireBeat, Place, Mark, IsHeader
<1> HIDE DEF y
<1>4. CASE cdcRx'[d] = cdcRx[d]
  <2>1. Leg(s, d, k, l, b)'
    BY <1>1, <1>2, <1>4 DEF Leg
  <2>2. QED
    BY <2>1 DEF LegKept
<1>5. CASE cdcRx'[d] = Append(cdcRx[d], y)
  <2>1. Stretch("wire", Append(cdcRx[d], y), b[3], Place("wire", x) + 1, l, k)
    <3>1. Stretch("wire", cdcRx[d], b[3], b[4], l, k)
      BY DEF Leg
    <3>2. QED
      BY <1>2, <1>3, <3>1, LegTypes, CutTypes, StretchAppend DEF Formats
  <2>2. PICK v \in Nat : v = Place("wire", x) + 1
    BY <1>2
  <2>3. PICK c \in Cuts : OneCut(b, c, 4, v)
    BY ONLY b \in Cuts, v \in Nat, CutMoved
  <2>4. /\ c[0] = b[0] /\ c[1] = b[1] /\ c[2] = b[2] /\ c[3] = b[3]
        /\ c[4] = v /\ c[5] = b[5] /\ c[6] = b[6] /\ c[7] = b[7]
    BY <2>3 DEF OneCut
  <2>5. Leg(s, d, k, l, c)'
    BY <1>1, <1>2, <1>5, <2>1, <2>2, <2>4 DEF Leg
  <2>6. QED
    BY <2>4, <2>5 DEF LegKept
<1>6. QED
  BY <1>1, <1>4, <1>5

\* A channel that fails empties buffers at either end of it.
LEMMA LegDown ==
  ASSUME TypeOK, NEW s \in Nodes, NEW d \in Nodes, NEW k, NEW l \in Nat, NEW b \in Cuts,
         Leg(s, d, k, l, b), NEW x \in Nodes, ChannelDown(x)
  PROVE  LegKept(s, d, k, l, b)
<1>1. /\ cdcTx'[s] = cdcTx[s] \/ cdcTx'[s] = <<>>
      /\ cdcRx'[d] = cdcRx[d] \/ cdcRx'[d] = <<>>
  BY DEF ChannelDown, TypeOK
<1>2. UNCHANGED <<ptx, prx, tx, txbuf, rx, hdr, rxbuf>>
  BY DEF ChannelDown, nodeVars, txVars, rxVars
<1>3. b[4] <= b[5] /\ b[3] <= b[4]
  BY DEF Leg, Stretch
<1>4. Stretch("wire", <<>>, b[4], b[5], l, k) /\ Stretch("wire", <<>>, b[3], b[4], l, k)
  BY <1>3, CutTypes, StretchEmpty
<1>5. Stretch("wire", cdcTx'[s], b[4], b[5], l, k) /\ Stretch("wire", cdcRx'[d], b[3], b[4], l, k)
  BY <1>1, <1>4 DEF Leg
<1>6. Leg(s, d, k, l, b)'
  BY <1>2, <1>5 DEF Leg
<1>7. QED
  BY <1>6 DEF LegKept

\* The steps that feed no leg and take from none.
OnLeg(x) ==
  \/ Node(x) /\ (\/ TxStart(x) \/ TxHeader(x) \/ TxData(x)
                 \/ RxHeader(x) \/ RxJudge(x) \/ RxBeat(x))
  \/ EnterLink(x) \/ Serial(x) \/ LeaveLink(x) \/ ChannelDown(x) \/ ChannelUp(x)

LEMMA LegStep ==
  ASSUME TypeOK, NEW s \in Nodes, NEW d \in Nodes, NEW k, NEW l \in Nat, NEW b \in Cuts,
         Leg(s, d, k, l, b), s # d, d = Peer[s], NEW x \in Nodes, OnLeg(x), ~TakesData(x)
  PROVE  LegKept(s, d, k, l, b)
<1>0. SameLeg(s, d) => LegKept(s, d, k, l, b)
  BY LegSame DEF LegKept
<1>1. CASE Node(x) /\ (TxHeader(x) \/ TxData(x))
  <2>1. UNCHANGED <<cdcTx, cdcRx>>
    BY <1>1 DEF Node, linkVars
  <2>2. CASE x = s
    BY <1>1, <2>1, <2>2, LegTxHeader, LegTxData
  <2>3. CASE x # s
    <3>1. SameLeg(s, d)
      <4>1. CASE TxHeader(x)
        BY <2>1, <2>3, <4>1 DEF SameLeg, TxHeader, rxVars, TypeOK, NodeTypeOK
      <4>2. CASE TxData(x)
        BY <2>1, <2>3, <4>2 DEF SameLeg, TxData, rxVars, TypeOK, NodeTypeOK
      <4>3. QED
        BY <1>1, <4>1, <4>2
    <3>2. QED
      BY <1>0, <3>1
  <2>4. QED
    BY <2>2, <2>3
<1>2. CASE Node(x) /\ TxStart(x)
  <2>1. UNCHANGED <<cdcTx, cdcRx, ptx, prx, txbuf, rx, hdr, rxbuf>>
    BY <1>2 DEF Node, linkVars, TxStart, rxVars
  <2>2. tx'[s] = "SEND_DATA" <=> tx[s] = "SEND_DATA"
    BY <1>2 DEF TxStart, TypeOK, NodeTypeOK
  <2>3. Leg(s, d, k, l, b)'
    BY <2>1, <2>2 DEF Leg
  <2>4. QED
    BY <2>3 DEF LegKept
<1>3. CASE Node(x) /\ RxJudge(x)
  <2>1. UNCHANGED <<cdcTx, cdcRx, ptx, prx, tx, txbuf, hdr, rxbuf>>
    BY <1>3 DEF Node, linkVars, RxJudge, txVars
  <2>2. /\ rx'[d] = rx[d] \/ (rx[d] = "HEADER" /\ rx'[d] = "RECEIVE" /\ hdr[d].magic)
           \/ (rx[d] = "HEADER" /\ rx'[d] = "DROP")
    BY <1>3 DEF RxJudge, TypeOK, NodeTypeOK
  <2>3. Leg(s, d, k, l, b)'
    BY <2>1, <2>2 DEF Leg
  <2>4. QED
    BY <2>3 DEF LegKept
<1>4. CASE Node(x) /\ (RxHeader(x) \/ RxBeat(x))
  <2>1. UNCHANGED <<cdcTx, cdcRx>>
    BY <1>4 DEF Node, linkVars
  <2>2. CASE x = d
    BY <1>4, <2>1, <2>2, LegRxHeader, LegRxBeat
  <2>3. CASE x # d
    <3>1. SameLeg(s, d)
      <4>1. CASE RxHeader(x)
        BY <2>1, <2>3, <4>1 DEF SameLeg, RxHeader, txVars, TypeOK, NodeTypeOK
      <4>2. CASE RxBeat(x)
        BY <2>1, <2>3, <4>2 DEF SameLeg, RxBeat, RxAfter, txVars, TypeOK, NodeTypeOK
      <4>3. QED
        BY <1>4, <4>1, <4>2
    <3>2. QED
      BY <1>0, <3>1
  <2>4. QED
    BY <2>2, <2>3
<1>5. CASE EnterLink(x)
  <2>1. CASE x = s
    BY <1>5, <2>1, LegEnter
  <2>2. CASE x # s
    <3>1. SameLeg(s, d)
      BY <1>5, <2>2 DEF SameLeg, EnterLink, rxVars, TypeOK, NodeTypeOK
    <3>2. QED
      BY <1>0, <3>1
  <2>3. QED
    BY <2>1, <2>2
<1>6. CASE LeaveLink(x)
  <2>1. CASE x = d
    BY <1>6, <2>1, LegLeave
  <2>2. CASE x # d
    <3>1. SameLeg(s, d)
      BY <1>6, <2>2 DEF SameLeg, LeaveLink, txVars, TypeOK, NodeTypeOK
    <3>2. QED
      BY <1>0, <3>1
  <2>3. QED
    BY <2>1, <2>2
<1>7. CASE Serial(x)
  <2>1. CASE x = s
    BY <1>7, <2>1, LegSerial
  <2>2. CASE x # s
    <3>1. Peer[x] \in Nodes /\ Peer[x] # d
      BY <2>2, PeerFacts
    <3>2. cdcTx'[s] = cdcTx[s] /\ cdcRx'[d] = cdcRx[d]
      BY <1>7, <2>2, <3>1 DEF Serial, TypeOK
    <3>3. SameLeg(s, d)
      BY <1>7, <3>2 DEF SameLeg, Serial, nodeVars, txVars, rxVars
    <3>4. QED
      BY <1>0, <3>3
  <2>3. QED
    BY <2>1, <2>2
<1>8. CASE ChannelDown(x)
  BY <1>8, LegDown
<1>9. CASE ChannelUp(x)
  <2>1. SameLeg(s, d)
    BY <1>9 DEF SameLeg, ChannelUp, nodeVars, txVars, rxVars
  <2>2. QED
    BY <1>0, <2>1
<1>10. QED
  BY <1>1, <1>2, <1>3, <1>4, <1>5, <1>6, <1>7, <1>8, <1>9 DEF OnLeg

\* A leg between its skid buffers.
SameWire(s, d) ==
  /\ rxbuf'[d] = rxbuf[d] /\ cdcRx'[d] = cdcRx[d] /\ cdcTx'[s] = cdcTx[s] /\ txbuf'[s] = txbuf[s]
  /\ rx'[d] = rx[d] /\ hdr'[d] = hdr[d] /\ tx'[s] = tx[s]

\* The beat at the end of a leg leaves it: the cut below moves.
LEMMA LegDrawn ==
  ASSUME TypeOK, NEW s \in Nodes, NEW d \in Nodes, NEW k, NEW l \in Nat, NEW b \in Cuts,
         Leg(s, d, k, l, b), prx[d] # <<>>, prx'[d] = Tail(prx[d]), NEW v \in Nat,
         v = Place("user", Head(prx[d])) + 1,
         SameWire(s, d), ptx'[s] = ptx[s]
  PROVE  \E c \in Cuts : Leg(s, d, k, l, c)' /\ c[0] = v /\ c[7] = b[7]
<1>1. Stretch("user", Tail(prx[d]), v, b[1], l, k)
  BY LegTypes, CutTypes, StretchTail DEF Leg, Formats
<1>2. PICK c \in Cuts : OneCut(b, c, 0, v)
  BY ONLY b \in Cuts, v \in Nat, CutMoved
<1>3. /\ c[0] = v /\ c[1] = b[1] /\ c[2] = b[2] /\ c[3] = b[3]
      /\ c[4] = b[4] /\ c[5] = b[5] /\ c[6] = b[6] /\ c[7] = b[7]
  BY <1>2 DEF OneCut
<1>4. Leg(s, d, k, l, c)'
  BY <1>1, <1>3 DEF Leg, SameWire
<1>5. QED
  BY <1>3, <1>4

\* Beat e, behind all that entered a leg, enters it; v is the place after it.
Enters(s, d, k, l, b, e, v) ==
  /\ ptx'[s] = Append(ptx[s], e) /\ prx'[d] = prx[d] /\ SameWire(s, d)
  /\ b[7] <= e.data + 1 /\ e.data <= l /\ v = e.data + 2
  /\ Mark("user", e, l, k)

\* The cut above moves.
LEMMA LegFed ==
  ASSUME TypeOK, NEW s \in Nodes, NEW d \in Nodes, NEW k, NEW l \in Nat, NEW b \in Cuts,
         Leg(s, d, k, l, b), NEW e \in UserBeat, NEW v \in Nat, Enters(s, d, k, l, b, e, v)
  PROVE  \E c \in Cuts : Leg(s, d, k, l, c)' /\ c[0] = b[0] /\ c[7] = v
<1>0. /\ ptx'[s] = Append(ptx[s], e) /\ prx'[d] = prx[d] /\ SameWire(s, d)
      /\ b[7] <= e.data + 1 /\ e.data <= l /\ v = e.data + 2
      /\ Mark("user", e, l, k)
  BY DEF Enters
<1>1. e \in Beats("user") /\ Place("user", e) = e.data + 1 /\ Mark("user", e, l, k)
  BY <1>0 DEF Beats, Place, IsHeader
<1>2. e.data \in Nat
  BY NodeAssumption DEF UserBeat, Word, Count, HeaderWord
<1>3. Stretch("user", Append(ptx[s], e), b[6], v, l, k)
  <2>1. Stretch("user", ptx[s], b[6], b[7], l, k)
    BY DEF Leg
  <2>2. Stretch("user", Append(ptx[s], e), b[6], e.data + 1 + 1, l, k)
    BY <1>0, <1>1, <2>1, LegTypes, CutTypes, StretchAppend DEF Formats
  <2>3. v = e.data + 1 + 1
    BY <1>0, <1>2
  <2>4. QED
    BY <2>2, <2>3
<1>4. v <= End(l)
  BY <1>0, <1>2 DEF End
<1>5. PICK c \in Cuts : OneCut(b, c, 7, v)
  BY ONLY b \in Cuts, v \in Nat, CutMoved
<1>6. /\ c[0] = b[0] /\ c[1] = b[1] /\ c[2] = b[2] /\ c[3] = b[3]
      /\ c[4] = b[4] /\ c[5] = b[5] /\ c[6] = b[6] /\ c[7] = v
  BY <1>5 DEF OneCut
<1>7. Leg(s, d, k, l, c)'
  BY <1>0, <1>3, <1>4, <1>6 DEF Leg, SameWire
<1>8. QED
  BY <1>6, <1>7

EmptyLeg(s, d) ==
  /\ ptx[s] = <<>> /\ txbuf[s] = <<>> /\ cdcTx[s] = <<>>
  /\ cdcRx[d] = <<>> /\ rxbuf[d] = <<>> /\ prx[d] = <<>>
  /\ rx[d] = "IDLE" /\ tx[s] # "SEND_DATA"

\* What has left a leg entered it; when the last beat has left, the leg is empty.
LEMMA LegEnds ==
  ASSUME TypeOK, NEW s \in Nodes, NEW d \in Nodes, NEW k, NEW l \in Nat, NEW b \in Cuts,
         Leg(s, d, k, l, b)
  PROVE  /\ b[0] <= b[7] /\ b[7] <= End(l)
         /\ b[0] = End(l) => EmptyLeg(s, d)
<1>1. /\ b[0] <= b[1] /\ b[1] <= b[2] /\ b[2] <= b[3] /\ b[3] <= b[4] /\ b[4] <= b[5]
      /\ b[5] <= b[6] /\ b[6] <= b[7] /\ b[7] <= End(l)
  BY DEF Leg, Stretch
<1>2. ASSUME NEW w \in Formats, NEW q \in Seq(Beats(w)), Stretch(w, q, End(l), End(l), l, k)
      PROVE  q = <<>>
  <2>1. End(l) \in Nat
    BY DEF End
  <2>2. q # <<>> => End(l) <= Place(w, Head(q)) /\ Place(w, Head(q)) < End(l) /\ Place(w, Head(q)) \in Nat
    BY <1>2, <2>1, StretchTail
  <2>3. QED
    BY <2>1, <2>2
<1>3. ASSUME b[0] = End(l) PROVE EmptyLeg(s, d)
  <2>1. /\ b[1] = End(l) /\ b[2] = End(l) /\ b[3] = End(l) /\ b[4] = End(l)
        /\ b[5] = End(l) /\ b[6] = End(l) /\ b[7] = End(l)
    BY <1>1, <1>3, CutTypes DEF End
  <2>2. /\ Stretch("user", prx[d], End(l), End(l), l, k)
        /\ Stretch("wire", rxbuf[d], End(l), End(l), l, k)
        /\ Stretch("wire", cdcRx[d], End(l), End(l), l, k)
        /\ Stretch("wire", cdcTx[s], End(l), End(l), l, k)
        /\ Stretch("wire", txbuf[s], End(l), End(l), l, k)
        /\ Stretch("user", ptx[s], End(l), End(l), l, k)
    BY <1>3, <2>1 DEF Leg
  <2>3. /\ ptx[s] = <<>> /\ txbuf[s] = <<>> /\ cdcTx[s] = <<>>
        /\ cdcRx[d] = <<>> /\ rxbuf[d] = <<>> /\ prx[d] = <<>>
    BY <1>2, <2>2, LegTypes DEF Formats
  <2>4. rx[d] = "IDLE" /\ tx[s] # "SEND_DATA"
    BY <2>1 DEF Leg, End
  <2>5. QED
    BY <2>3, <2>4 DEF EmptyLeg
<1>4. b[0] <= b[7]
  BY <1>1, CutTypes
<1>5. QED
  BY <1>1, <1>3, <1>4

\* An empty leg is the beginning of any frame.
LEMMA LegNew ==
  ASSUME NEW s \in Nodes, NEW d \in Nodes, NEW k, NEW l \in Nat, EmptyLeg(s, d),
         NEW v \in {0, End(l)}
  PROVE  \E b \in Cuts : Leg(s, d, k, l, b) /\ b[0] = v /\ b[7] = v
<1> DEFINE b == [i \in 0..7 |-> v]
<1>1. b \in Cuts /\ \A i \in 0..7 : b[i] = v
  BY DEF Cuts, End
<1>2. v \in Nat /\ v <= End(l)
  BY DEF End
<1>3. \A w : Stretch(w, <<>>, v, v, l, k)
  BY <1>2, StretchEmpty
<1> HIDE DEF b
<1>4. Leg(s, d, k, l, b)
  BY <1>1, <1>2, <1>3 DEF Leg, EmptyLeg
<1>5. QED
  BY <1>1, <1>4

\* Everything of a node and of the link at it.
Still(n) ==
  /\ SameLeg(n, n)
  /\ tester'[n] = tester[n] /\ tfg'[n] = tfg[n] /\ len'[n] = len[n] /\ beats'[n] = beats[n]
  /\ chkBeats'[n] = chkBeats[n] /\ status'[n] = status[n] /\ probe'[n] = probe[n]

LEMMA StrandFacts ==
  ASSUME TypeOK, OneTester, NEW n \in Commanders
  PROVE  /\ n \in Nodes /\ Peer[n] \in Nodes /\ n # Peer[n] /\ Peer[Peer[n]] = n
         /\ len[n] \in Nat /\ beats[n] \in Nat /\ chkBeats[n] \in Nat
<1>1. n \in Nodes /\ Peer[n] \in Nodes /\ n # Peer[n] /\ Peer[Peer[n]] = n
  BY PeerFacts DEF OneTester
<1>2. QED
  BY <1>1, NodeAssumption DEF TypeOK, NodeTypeOK, Count

LEMMA StrandStill ==
  ASSUME TypeOK, OneTester, NEW n \in Commanders, Strand(n), Still(n), Still(Peer[n])
  PROVE  Strand(n)'
<1> DEFINE p == Peer[n]
<1>1. p \in Nodes /\ n \in Nodes
  BY StrandFacts
<1>2. PICK l \in Nat, out \in Cuts, home \in Cuts :
        /\ l = len[n] /\ Leg(n, p, "probe", l, out) /\ Leg(p, n, "checker", l, home)
        /\ StrandEnds(n, l, out, home)
  BY DEF Strand
<1>3. SameLeg(n, p) /\ SameLeg(p, n)
  BY DEF Still, SameLeg
<1>4. Leg(n, p, "probe", l, out)' /\ Leg(p, n, "checker", l, home)'
  BY <1>1, <1>2, <1>3, LegSame
<1>5. StrandEnds(n, l, out, home)'
  BY <1>2 DEF StrandEnds, Still
<1>6. l = len'[n] /\ probe'[n] = "IDLE" /\ tfg'[p] = "IDLE" /\ ~status'[p].valid
  BY <1>2 DEF Strand, Still
<1>7. QED
  BY <1>4, <1>5, <1>6 DEF Strand

\* A beat inside a leg.
LEMMA StrandLeg ==
  ASSUME TypeOK, OneTester, NEW n \in Commanders, Strand(n),
         NEW x \in Nodes, OnLeg(x), ~TakesData(x)
  PROVE  Strand(n)'
<1> DEFINE p == Peer[n]
<1>1. /\ p \in Nodes /\ n \in Nodes /\ n # p /\ Peer[p] = n
  BY StrandFacts
<1>2. PICK l \in Nat, out \in Cuts, home \in Cuts :
        /\ l = len[n] /\ Leg(n, p, "probe", l, out) /\ Leg(p, n, "checker", l, home)
        /\ StrandEnds(n, l, out, home)
  BY DEF Strand
<1>3. UNCHANGED <<tester, tfg, len, beats, chkBeats, status, probe>>
  BY DEF OnLeg, TxStart, TxHeader, TxData, RxHeader, RxJudge, RxBeat, EnterLink, Serial,
         LeaveLink, ChannelDown, ChannelUp, nodeVars, genVars, chkVars
<1>4. PICK o \in Cuts : Leg(n, p, "probe", l, o)' /\ o[0] = out[0] /\ o[7] = out[7]
  BY <1>1, <1>2, LegStep DEF LegKept
<1>5. PICK h \in Cuts : Leg(p, n, "checker", l, h)' /\ h[0] = home[0] /\ h[7] = home[7]
  BY <1>1, <1>2, LegStep DEF LegKept
<1>6. StrandEnds(n, l, o, h)'
  BY <1>2, <1>3, <1>4, <1>5 DEF StrandEnds
<1>7. l = len'[n] /\ probe'[n] = "IDLE" /\ tfg'[p] = "IDLE" /\ ~status'[p].valid
  BY <1>2, <1>3 DEF Strand
<1>8. QED
  BY <1>4, <1>5, <1>6, <1>7 DEF Strand

\* The pulse of a report, the probe's start and the arbiter's turn move no beat.
LEMMA StrandQuiet ==
  ASSUME TypeOK, OneTester, NEW n \in Commanders, Strand(n), UNCHANGED linkVars,
         NEW x \in Nodes, StatusPulse(x) \/ ProbeStart(x) \/ Regrant(x)
  PROVE  Strand(n)'
<1> DEFINE p == Peer[n]
<1>1. /\ p \in Nodes /\ n \in Nodes /\ n # p /\ Peer[p] = n
  BY StrandFacts
<1>2. PICK l \in Nat, out \in Cuts, home \in Cuts :
        /\ l = len[n] /\ Leg(n, p, "probe", l, out) /\ Leg(p, n, "checker", l, home)
        /\ StrandEnds(n, l, out, home)
  BY DEF Strand
<1>3. UNCHANGED <<tfg, len, beats, chkBeats, ptx, prx, tx, txbuf, rx, hdr, rxbuf, cdcTx, cdcRx>>
  BY DEF StatusPulse, ProbeStart, Regrant, linkVars, genVars, chkVars, txVars, rxVars
<1>4. Leg(n, p, "probe", l, out)' /\ Leg(p, n, "checker", l, home)'
  <2>1. SameLeg(n, p) /\ SameLeg(p, n)
    BY <1>3 DEF SameLeg
  <2>2. QED
    BY <1>1, <1>2, <2>1, LegSame
<1>5. prx[n] # <<>> => ~Head(prx[n]).pf
  <2>1. prx[n] # <<>> => Mark("user", Head(prx[n]), l, "checker")
    BY <1>1, <1>2, LegTypes, CutTypes, StretchTail DEF Leg, Formats
  <2>2. QED
    BY <2>1 DEF Mark
<1>6. probe'[n] = probe[n]
  <2>1. CASE ProbeStart(x)
    <3>1. x # n
      BY <1>5, <2>1 DEF ProbeStart
    <3>2. QED
      BY <2>1, <3>1 DEF ProbeStart, TypeOK, NodeTypeOK
  <2>2. CASE StatusPulse(x) \/ Regrant(x)
    BY <2>2 DEF StatusPulse, Regrant
  <2>3. QED
    BY <2>1, <2>2
<1>7. \/ UNCHANGED <<tester, status>>
      \/ x = n /\ StatusPulse(n)
      \/ x # n /\ x # p /\ StatusPulse(x)
  BY DEF StatusPulse, ProbeStart, Regrant, genVars, chkVars, Strand
<1>8. ~status'[p].valid
  BY <1>1, <1>7 DEF Strand, StatusPulse, TypeOK, NodeTypeOK
<1>9. StrandEnds(n, l, out, home)'
  <2>1. CASE tester'[n] = tester[n] /\ status'[n] = status[n]
    BY <1>2, <1>3, <2>1 DEF StrandEnds
  <2>2. CASE StatusPulse(n)
    <3>1. status[n].valid /\ ~status'[n].valid
      BY <1>1, <2>2 DEF StatusPulse, TypeOK, NodeTypeOK, Status
    <3>2. QED
      BY <1>2, <1>3, <3>1 DEF StrandEnds
  <2>3. CASE x # n /\ StatusPulse(x)
    BY <1>1, <2>1, <2>3 DEF StatusPulse, TypeOK, NodeTypeOK
  <2>4. QED
    BY <1>7, <2>1, <2>2, <2>3
<1>10. l = len'[n] /\ probe'[n] = "IDLE" /\ tfg'[p] = "IDLE"
  BY <1>2, <1>3, <1>6 DEF Strand
<1>11. QED
  BY <1>4, <1>8, <1>9, <1>10 DEF Strand

\* A new command finds the legs empty, because a tester in STOP has seen the last beat.
LEMMA StrandCommand ==
  ASSUME TypeOK, OneTester, NEW n \in Commanders, Strand(n), UNCHANGED linkVars,
         NEW m \in Lengths, Command(n, m)
  PROVE  Strand(n)'
<1> DEFINE p == Peer[n]
<1>1. /\ p \in Nodes /\ n \in Nodes /\ n # p /\ Peer[p] = n
  BY StrandFacts
<1>2. PICK l \in Nat, out \in Cuts, home \in Cuts :
        /\ l = len[n] /\ Leg(n, p, "probe", l, out) /\ Leg(p, n, "checker", l, home)
        /\ StrandEnds(n, l, out, home)
  BY DEF Strand
<1>3. /\ tester[n] = "STOP" /\ tester'[n] = "COUNT_LATENCY" /\ len'[n] = m /\ beats'[n] = 0
      /\ tfg'[p] = tfg[p] /\ m \in Nat
      /\ UNCHANGED <<chkBeats, status, probe, ptx, prx, tx, txbuf, rx, hdr, rxbuf, cdcTx, cdcRx>>
  BY <1>1, NodeAssumption, SMTT(40) DEF Command, linkVars, chkVars, txVars, rxVars, TypeOK, NodeTypeOK, Count
<1>4. home[0] = End(l) /\ home[7] = out[0]
  BY <1>2, <1>3 DEF StrandEnds
<1>5. home[7] = End(l) /\ out[0] = End(l)
  <2>1. home[0] <= home[7] /\ home[7] <= End(l)
    BY <1>1, <1>2, LegEnds
  <2>2. QED
    BY <1>4, <2>1, CutTypes DEF End
<1>6. EmptyLeg(n, p) /\ EmptyLeg(p, n)
  BY <1>1, <1>2, <1>4, <1>5, LegEnds
<1>7. PICK o \in Cuts : Leg(n, p, "probe", m, o) /\ o[0] = 0 /\ o[7] = 0
  BY <1>1, <1>3, <1>6, LegNew
<1>8. PICK h \in Cuts : Leg(p, n, "checker", m, h) /\ h[0] = 0 /\ h[7] = 0
  BY <1>1, <1>3, <1>6, LegNew, SMTT(40)
<1>9. Leg(n, p, "probe", m, o)' /\ Leg(p, n, "checker", m, h)'
  <2>1. SameLeg(n, p) /\ SameLeg(p, n)
    BY <1>3 DEF SameLeg
  <2>2. QED
    BY <1>1, <1>3, <1>7, <1>8, <2>1, LegSame
<1>10. chkBeats[n] = 0 /\ ~status[n].valid
  BY <1>2, <1>3, <1>4, CutTypes DEF StrandEnds, End
<1>11. StrandEnds(n, m, o, h)'
  BY <1>3, <1>7, <1>8, <1>10 DEF StrandEnds
<1>12. m = len'[n] /\ probe'[n] = "IDLE" /\ tfg'[p] = "IDLE" /\ ~status'[p].valid
  BY <1>3 DEF Strand
<1>13. QED
  BY <1>3, <1>9, <1>11, <1>12 DEF Strand

\* The generator's beat comes behind all those it has given.
LEMMA StrandGenerator ==
  ASSUME TypeOK, OneTester, NEW n \in Commanders, Strand(n), UNCHANGED linkVars, GeneratorBeat(n)
  PROVE  Strand(n)'
<1> DEFINE p == Peer[n]
           e == [data |-> beats[n], last |-> beats[n] = len[n], pf |-> TRUE]
<1>1. /\ p \in Nodes /\ n \in Nodes /\ n # p /\ Peer[p] = n /\ beats[n] \in Nat
  BY StrandFacts
<1>2. PICK l \in Nat, out \in Cuts, home \in Cuts :
        /\ l = len[n] /\ Leg(n, p, "probe", l, out) /\ Leg(p, n, "checker", l, home)
        /\ StrandEnds(n, l, out, home)
  BY DEF Strand
<1>3. /\ tfg[n] = "RUN" /\ ptx'[n] = Append(ptx[n], e) /\ ptx'[p] = ptx[p] /\ tfg'[p] = tfg[p]
      /\ UNCHANGED <<tester, len, chkBeats, status, probe, prx, tx, txbuf, rx, hdr, rxbuf, cdcTx, cdcRx>>
  BY <1>1 DEF GeneratorBeat, linkVars, chkVars, txVars, rxVars, TypeOK, NodeTypeOK
<1>4. beats[n] <= l /\ out[7] <= beats[n] + 1 /\ home[7] = out[0]
  BY <1>2, <1>3 DEF StrandEnds
<1>5. e \in UserBeat /\ e.data = beats[n] /\ (e.last <=> e.data = l) /\ e.pf
  BY <1>1, <1>2 DEF UserBeat, Word, TypeOK, NodeTypeOK
<1> HIDE DEF e
<1>6. PICK v \in Nat : v = beats[n] + 2
  BY <1>1
<1>7. PICK o \in Cuts : Leg(n, p, "probe", l, o)' /\ o[0] = out[0] /\ o[7] = v
  <2>1. Enters(n, p, "probe", l, out, e, v)
    BY <1>3, <1>4, <1>5, <1>6 DEF Enters, SameWire, Mark, IsHeader
  <2>2. QED
    BY <1>1, <1>2, <1>5, <2>1, LegFed
<1>8. Leg(p, n, "checker", l, home)'
  <2>1. SameLeg(p, n)
    BY <1>3 DEF SameLeg
  <2>2. QED
    BY <1>1, <1>2, <2>1, LegSame
<1>9. tfg'[n] = "RUN" => beats'[n] <= l /\ v <= beats'[n] + 1
  <2>1. CASE beats[n] = len[n]
    BY <1>1, <2>1 DEF GeneratorBeat, TypeOK, NodeTypeOK
  <2>2. CASE beats[n] # len[n]
    <3>1. beats'[n] = (beats[n] + 1) % CountMod
      BY <1>1, <2>2 DEF GeneratorBeat, TypeOK, NodeTypeOK
    <3>2. beats[n] + 1 <= l /\ l < CountMod
      <4>1. len[n] \in 0..CountMod - 1 /\ CountMod \in Nat
        BY <1>1, NodeAssumption DEF TypeOK, NodeTypeOK, Count
      <4>2. QED
        BY <1>1, <1>2, <1>4, <2>2, <4>1
    <3>3. beats'[n] = beats[n] + 1
      BY <1>1, <3>1, <3>2, NodeAssumption
    <3>4. QED
      BY <1>1, <1>6, <3>2, <3>3
  <2>3. QED
    BY <2>1, <2>2
<1>10. StrandEnds(n, l, o, home)'
  BY <1>2, <1>3, <1>4, <1>7, <1>9 DEF StrandEnds
<1>11. l = len'[n] /\ probe'[n] = "IDLE" /\ tfg'[p] = "IDLE" /\ ~status'[p].valid
  BY <1>2, <1>3 DEF Strand
<1>12. QED
  BY <1>7, <1>8, <1>10, <1>11 DEF Strand

\* The checker has counted no more beats than came before the one it takes.
LEMMA StrandChecker ==
  ASSUME TypeOK, OneTester, NEW n \in Commanders, Strand(n), UNCHANGED linkVars, CheckerBeat(n)
  PROVE  Strand(n)'
<1> DEFINE p == Peer[n]
           e == Head(prx[n])
<1>1. /\ p \in Nodes /\ n \in Nodes /\ n # p /\ Peer[p] = n /\ chkBeats[n] \in Nat
  BY StrandFacts
<1>2. PICK l \in Nat, out \in Cuts, home \in Cuts :
        /\ l = len[n] /\ Leg(n, p, "probe", l, out) /\ Leg(p, n, "checker", l, home)
        /\ StrandEnds(n, l, out, home)
  BY DEF Strand
<1>3. /\ prx[n] # <<>> /\ prx'[n] = Tail(prx[n]) /\ prx'[p] = prx[p] /\ ~status[n].valid
      /\ status'[p] = status[p]
      /\ UNCHANGED <<tester, tfg, len, beats, probe, ptx, tx, txbuf, rx, hdr, rxbuf, cdcTx, cdcRx>>
  BY <1>1 DEF CheckerBeat, linkVars, genVars, txVars, rxVars, TypeOK, NodeTypeOK
<1>4. /\ e \in UserBeat /\ e.data \in Nat /\ (e.last <=> e.data = l)
      /\ home[0] <= e.data + 1 /\ e.data + 1 < home[1]
  <2>1. /\ e \in Beats("user") /\ Mark("user", e, l, "checker")
        /\ home[0] <= Place("user", e) /\ Place("user", e) < home[1]
    BY <1>1, <1>2, <1>3, LegTypes, CutTypes, StretchTail DEF Leg, Formats
  <2> HIDE DEF e
  <2>2. QED
    BY <2>1, NodeAssumption DEF Beats, Mark, Place, IsHeader, UserBeat, Word, Count, HeaderWord
<1>5. e.data + 1 < End(l)
  <2>1. home[1] <= home[7] /\ home[7] <= End(l)
    <3>1. /\ home[1] <= home[2] /\ home[2] <= home[3] /\ home[3] <= home[4] /\ home[4] <= home[5]
          /\ home[5] <= home[6] /\ home[6] <= home[7] /\ home[7] <= End(l)
      BY <1>2 DEF Leg, Stretch
    <3>2. QED
      BY <3>1, CutTypes
  <2>2. QED
    BY <1>4, <2>1, CutTypes DEF End
<1>6. /\ chkBeats[n] <= e.data /\ l < CountMod
      /\ tester[n] = "COUNT_LATENCY"
  <2>1. chkBeats[n] = 0 \/ chkBeats[n] + 1 <= home[0]
    BY <1>2 DEF StrandEnds
  <2>2. l < CountMod
    BY <1>1, <1>2, NodeAssumption DEF TypeOK, NodeTypeOK, Count
  <2>3. tester[n] = "STOP" => home[0] = End(l)
    BY <1>2 DEF StrandEnds
  <2>4. tester[n] # "STOP"
    BY <1>4, <1>5, <2>3 DEF End
  <2>5. tester[n] = "COUNT_LATENCY"
    BY <1>1, <2>4 DEF TypeOK, NodeTypeOK
  <2>6. chkBeats[n] <= e.data
    BY <1>1, <1>4, <2>1, CutTypes
  <2>7. QED
    BY <2>2, <2>5, <2>6
<1>7. PICK v \in Nat : v = e.data + 2
  BY <1>4
<1>8. PICK h \in Cuts : Leg(p, n, "checker", l, h)' /\ h[0] = v /\ h[7] = home[7]
  <2>1. v = Place("user", e) + 1
    BY <1>4, <1>7 DEF Place, IsHeader
  <2>2. QED
    BY <1>1, <1>2, <1>3, <2>1, LegDrawn DEF SameWire
<1>9. Leg(n, p, "probe", l, out)'
  <2>1. SameLeg(n, p)
    BY <1>3 DEF SameLeg
  <2>2. QED
    BY <1>1, <1>2, <2>1, LegSame
<1>10. StrandEnds(n, l, out, h)'
  <2>1. /\ h[7] = out[0] /\ (tester'[n] # "STOP" => l \in Lengths)
        /\ tfg'[n] = "RUN" => beats'[n] <= l /\ out[7] <= beats'[n] + 1
    BY <1>2, <1>3, <1>8 DEF StrandEnds
  <2>2. CASE e.last
    <3>1. /\ chkBeats'[n] = 0 /\ status'[n].length = StatusLength(chkBeats[n])
      BY <1>1, <2>2 DEF CheckerBeat, TypeOK, NodeTypeOK
    <3>2. h[0] = End(l) /\ chkBeats[n] \in 0..l
      BY <1>1, <1>4, <1>6, <1>7, <1>8, <2>2 DEF End
    <3>3. \E c \in 0..l : status'[n].length = StatusLength(c)
      BY <3>1, <3>2
    <3>4. QED
      BY <1>3, <1>6, <2>1, <3>1, <3>2, <3>3 DEF StrandEnds
  <2>3. CASE ~e.last
    <3>1. chkBeats'[n] = (chkBeats[n] + 1) % CountMod /\ status'[n] = status[n]
      BY <1>1, <2>3 DEF CheckerBeat, TypeOK, NodeTypeOK
    <3>2. e.data + 1 <= l /\ h[0] = e.data + 2
      BY <1>4, <1>5, <1>7, <1>8, <2>3 DEF End
    <3>3. chkBeats'[n] = chkBeats[n] + 1
      BY <1>1, <1>4, <1>6, <3>1, <3>2, NodeAssumption
    <3>4. chkBeats'[n] + 1 <= h[0] /\ h[0] < End(l)
      BY <1>1, <1>4, <1>6, <3>2, <3>3 DEF End
    <3>5. QED
      BY <1>3, <1>6, <2>1, <3>1, <3>4 DEF StrandEnds
  <2>4. QED
    BY <2>2, <2>3
<1>11. l = len'[n] /\ probe'[n] = "IDLE" /\ tfg'[p] = "IDLE" /\ ~status'[p].valid
  BY <1>2, <1>3 DEF Strand
<1>12. QED
  BY <1>8, <1>9, <1>10, <1>11 DEF Strand

\* The peer's probe moves a beat from the leg out to the leg home.
LEMMA StrandProbe ==
  ASSUME TypeOK, OneTester, NEW n \in Commanders, Strand(n), UNCHANGED linkVars,
         ProbeBeat(Peer[n])
  PROVE  Strand(n)'
<1> DEFINE p == Peer[n]
           e == Head(prx[p])
           f == [e EXCEPT !.pf = FALSE]
<1>1. /\ p \in Nodes /\ n \in Nodes /\ n # p /\ Peer[p] = n
  BY StrandFacts
<1>2. PICK l \in Nat, out \in Cuts, home \in Cuts :
        /\ l = len[n] /\ Leg(n, p, "probe", l, out) /\ Leg(p, n, "checker", l, home)
        /\ StrandEnds(n, l, out, home)
  BY DEF Strand
<1>3. /\ prx[p] # <<>> /\ prx'[p] = Tail(prx[p]) /\ prx'[n] = prx[n]
      /\ ptx'[p] = Append(ptx[p], f) /\ ptx'[n] = ptx[n] /\ probe'[n] = probe[n]
      /\ UNCHANGED <<tester, tfg, len, beats, chkBeats, status, tx, txbuf, rx, hdr, rxbuf, cdcTx, cdcRx>>
  BY <1>1 DEF ProbeBeat, linkVars, genVars, chkVars, txVars, rxVars, TypeOK, NodeTypeOK
<1>4. /\ e \in UserBeat /\ e.data \in Nat /\ (e.last <=> e.data = l)
      /\ out[0] <= e.data + 1 /\ e.data + 1 < out[1]
  <2>1. /\ e \in Beats("user") /\ Mark("user", e, l, "probe")
        /\ out[0] <= Place("user", e) /\ Place("user", e) < out[1]
    BY <1>1, <1>2, <1>3, LegTypes, CutTypes, StretchTail DEF Leg, Formats
  <2> HIDE DEF e
  <2>2. QED
    BY <2>1, NodeAssumption DEF Beats, Mark, Place, IsHeader, UserBeat, Word, Count, HeaderWord
<1>5. e.data <= l
  <2>1. /\ out[1] <= out[2] /\ out[2] <= out[3] /\ out[3] <= out[4] /\ out[4] <= out[5]
        /\ out[5] <= out[6] /\ out[6] <= out[7] /\ out[7] <= End(l)
    BY <1>2 DEF Leg, Stretch
  <2>2. QED
    BY <1>4, <2>1, CutTypes DEF End
<1>6. f \in UserBeat /\ f.data = e.data /\ (f.last <=> f.data = l) /\ ~f.pf
  BY <1>4 DEF UserBeat
<1>7. PICK v \in Nat : v = e.data + 2
  BY <1>4
<1>8. PICK o \in Cuts : Leg(n, p, "probe", l, o)' /\ o[0] = v /\ o[7] = out[7]
  <2>1. v = Place("user", e) + 1
    BY <1>4, <1>7 DEF Place, IsHeader
  <2>2. QED
    BY <1>1, <1>2, <1>3, <2>1, LegDrawn DEF SameWire
<1>9. PICK h \in Cuts : Leg(p, n, "checker", l, h)' /\ h[0] = home[0] /\ h[7] = v
  <2>1. home[7] <= f.data + 1
    BY <1>2, <1>4, <1>6 DEF StrandEnds
  <2> HIDE DEF f, e
  <2>2. Enters(p, n, "checker", l, home, f, v)
    BY <1>3, <1>5, <1>6, <1>7, <2>1 DEF Enters, SameWire, Mark, IsHeader
  <2>3. QED
    BY <1>1, <1>2, <1>6, <2>2, LegFed
<1>10. StrandEnds(n, l, o, h)'
  BY <1>2, <1>3, <1>8, <1>9 DEF StrandEnds
<1>11. l = len'[n] /\ probe'[n] = "IDLE" /\ tfg'[p] = "IDLE" /\ ~status'[p].valid
  BY <1>2, <1>3 DEF Strand
<1>12. QED
  BY <1>8, <1>9, <1>10, <1>11 DEF Strand

\* A step of any node, of a pair with a tester at work.
LEMMA StrandNode ==
  ASSUME TypeOK, OneTester, NEW n \in Commanders, Strand(n),
         NEW x \in Nodes, Node(x), ~TakesData(x)
  PROVE  Strand(n)'
<1> DEFINE p == Peer[n]
<1>1. /\ p \in Nodes /\ n \in Nodes /\ n # p /\ Peer[p] = n
  BY StrandFacts
<1>2. NodeStep(x) /\ UNCHANGED linkVars
  BY DEF Node
<1>3. CASE x # n /\ x # p
  <2>1. UNCHANGED <<cdcTx, cdcRx>>
    BY <1>2 DEF linkVars
  <2>2. ASSUME NEW m \in Nodes, m # x PROVE Still(m)
    <3>1. CASE GeneratorBeat(x) \/ CheckerBeat(x)
      BY <2>1, <2>2, <3>1 DEF Still, SameLeg, GeneratorBeat, CheckerBeat, genVars, chkVars, txVars,
                              rxVars, TypeOK, NodeTypeOK
    <3>2. CASE StatusPulse(x) \/ ProbeStart(x) \/ Regrant(x)
      BY <2>1, <2>2, <3>2 DEF Still, SameLeg, StatusPulse, ProbeStart, Regrant, genVars, chkVars,
                              txVars, rxVars, TypeOK, NodeTypeOK
    <3>3. CASE ProbeBeat(x)
      BY <2>1, <2>2, <3>3 DEF Still, SameLeg, ProbeBeat, genVars, chkVars, txVars, rxVars,
                              TypeOK, NodeTypeOK
    <3>4. CASE TxStart(x) \/ TxHeader(x) \/ TxData(x)
      BY <2>1, <2>2, <3>4 DEF Still, SameLeg, TxStart, TxHeader, TxData, genVars, chkVars, rxVars,
                              TypeOK, NodeTypeOK
    <3>5. CASE RxHeader(x) \/ RxJudge(x) \/ RxBeat(x)
      BY <2>1, <2>2, <3>5 DEF Still, SameLeg, RxHeader, RxJudge, RxBeat, RxAfter, genVars, chkVars,
                              txVars, TypeOK, NodeTypeOK
    <3>6. QED
      BY <1>2, <3>1, <3>2, <3>3, <3>4, <3>5 DEF NodeStep
  <2>3. QED
    BY <1>1, <1>3, <2>2, StrandStill
<1>4. CASE TxStart(x) \/ TxHeader(x) \/ TxData(x) \/ RxHeader(x) \/ RxJudge(x) \/ RxBeat(x)
  BY <1>4, StrandLeg DEF OnLeg
<1>5. CASE StatusPulse(x) \/ ProbeStart(x) \/ Regrant(x)
  BY <1>2, <1>5, StrandQuiet
<1>6. PICK l \in Nat, out \in Cuts, home \in Cuts :
        Leg(n, p, "probe", l, out) /\ Leg(p, n, "checker", l, home)
  BY DEF Strand
<1>7. CASE GeneratorBeat(x)
  <2>1. x # p
    BY <1>7 DEF GeneratorBeat, Strand
  <2>2. CASE x = n
    BY <1>2, <1>7, <2>2, StrandGenerator
  <2>3. QED
    BY <1>3, <2>1, <2>2
<1>8. CASE CheckerBeat(x)
  <2>1. x # p
    <3>1. prx[p] # <<>> => Mark("user", Head(prx[p]), l, "probe")
      BY <1>1, <1>6, LegTypes, CutTypes, StretchTail DEF Leg, Formats
    <3>2. QED
      BY <1>8, <3>1 DEF CheckerBeat, Mark
  <2>2. CASE x = n
    BY <1>2, <1>8, <2>2, StrandChecker
  <2>3. QED
    BY <1>3, <2>1, <2>2
<1>9. CASE ProbeBeat(x)
  <2>1. x # n
    BY <1>9 DEF ProbeBeat, Strand
  <2>2. CASE x = p
    BY <1>2, <1>9, <2>2, StrandProbe
  <2>3. QED
    BY <1>3, <2>1, <2>2
<1>10. QED
  BY <1>2, <1>4, <1>5, <1>7, <1>8, <1>9 DEF NodeStep

\* A pair without a tester at work has nothing to move.
LEMMA SilentStep ==
  ASSUME TypeOK, NEW n \in Nodes, n \notin Commanders, Peer[n] \notin Commanders,
         Silent(n), Silent(Peer[n]), Next
  PROVE  Silent(n)'
<1>1. Peer[n] \in Nodes /\ Peer[Peer[n]] = n
  BY PeerFacts
<1>2. ASSUME NEW x \in Nodes, Node(x) PROVE Silent(n)'
  <2>1. NodeStep(x) /\ UNCHANGED <<cdcTx, cdcRx>>
    BY <1>2 DEF Node, linkVars
  <2>2. CASE GeneratorBeat(x) \/ CheckerBeat(x)
    BY <2>1, <2>2 DEF Silent, GeneratorBeat, CheckerBeat, genVars, chkVars, txVars,
                      rxVars, TypeOK, NodeTypeOK
  <2>3. CASE StatusPulse(x) \/ ProbeStart(x) \/ Regrant(x)
    BY <2>1, <2>3 DEF Silent, StatusPulse, ProbeStart, Regrant, genVars, chkVars,
                      txVars, rxVars, TypeOK, NodeTypeOK
  <2>4. CASE ProbeBeat(x)
    BY <2>1, <2>4 DEF Silent, ProbeBeat, genVars, chkVars, txVars, rxVars, TypeOK, NodeTypeOK
  <2>5. CASE TxStart(x) \/ TxHeader(x) \/ TxData(x)
    BY <2>1, <2>5 DEF Silent, TxStart, TxHeader, TxData, genVars, chkVars, rxVars, TypeOK, NodeTypeOK
  <2>6. CASE RxHeader(x) \/ RxJudge(x) \/ RxBeat(x)
    BY <2>1, <2>6 DEF Silent, RxHeader, RxJudge, RxBeat, RxAfter, genVars, chkVars,
                      txVars, TypeOK, NodeTypeOK
  <2>7. QED
    BY <2>1, <2>2, <2>3, <2>4, <2>5, <2>6 DEF NodeStep
<1>3. ASSUME NEW x \in Nodes, EnterLink(x) \/ Serial(x) \/ LeaveLink(x) PROVE Silent(n)'
  <2>1. CASE EnterLink(x)
    BY <2>1 DEF Silent, EnterLink, genVars, chkVars, rxVars, TypeOK, NodeTypeOK
  <2>2. CASE LeaveLink(x)
    BY <2>2 DEF Silent, LeaveLink, genVars, chkVars, txVars, TypeOK, NodeTypeOK
  <2>3. CASE Serial(x)
    <3>1. UNCHANGED <<tfg, status, ptx, txbuf, prx, rxbuf>>
      BY <2>3 DEF Serial, nodeVars, genVars, chkVars, txVars, rxVars
    <3>2. x # n /\ x # Peer[n] /\ Peer[x] # n
      BY <1>1, <2>3, PeerFacts DEF Silent, Serial
    <3>3. cdcTx'[n] = cdcTx[n] /\ cdcRx'[n] = cdcRx[n]
      BY <2>3, <3>2, PeerFacts DEF Serial, TypeOK
    <3>4. QED
      BY <3>1, <3>3 DEF Silent
  <2>4. QED
    BY <1>3, <2>1, <2>2, <2>3
<1>4. ASSUME NEW x \in Nodes, ChannelDown(x) \/ ChannelUp(x) PROVE Silent(n)'
  <2>1. UNCHANGED <<tfg, status, ptx, txbuf, prx, rxbuf>>
    BY <1>4 DEF ChannelDown, ChannelUp, nodeVars, genVars, chkVars, txVars, rxVars
  <2>2. cdcTx'[n] = <<>> /\ cdcRx'[n] = <<>>
    BY <1>4 DEF Silent, ChannelDown, ChannelUp, TypeOK
  <2>3. QED
    BY <2>1, <2>2 DEF Silent
<1>5. ASSUME NEW x \in Commanders, NEW l \in Lengths, Command(x, l), UNCHANGED linkVars
      PROVE  Silent(n)'
  BY <1>5 DEF Silent, Command, linkVars, chkVars, txVars, rxVars, TypeOK, NodeTypeOK
<1>6. QED
  BY <1>2, <1>3, <1>4, <1>5 DEF Next, Transfer

LEMMA ShortInit == OneTester /\ Init => ShortInv
<1> SUFFICES ASSUME OneTester, Init PROVE ShortInv
  OBVIOUS
<1>1. TypeOK
  BY InitType
<1>2. ASSUME NEW n \in Nodes
      PROVE  /\ probe[n] = "IDLE" /\ tfg[n] = "IDLE" /\ tester[n] = "STOP" /\ ~status[n].valid
             /\ len[n] = 0 /\ chkBeats[n] = 0 /\ Silent(n)
             /\ rx[n] = "IDLE" /\ tx[n] # "SEND_DATA"
  BY DEF Init, NodeInit, Silent
<1>3. ASSUME NEW n \in Commanders PROVE Strand(n)
  <2> DEFINE p == Peer[n]
  <2>1. p \in Nodes /\ n \in Nodes
    BY <1>1, StrandFacts
  <2>2. EmptyLeg(n, p) /\ EmptyLeg(p, n)
    BY <1>2, <2>1 DEF EmptyLeg, Silent
  <2>3. 0 \in Nat /\ End(0) \in {0, End(0)}
    OBVIOUS
  <2>4. PICK out \in Cuts : Leg(n, p, "probe", 0, out) /\ out[0] = End(0) /\ out[7] = End(0)
    BY <2>1, <2>2, <2>3, LegNew
  <2>5. PICK home \in Cuts : Leg(p, n, "checker", 0, home) /\ home[0] = End(0) /\ home[7] = End(0)
    BY <2>1, <2>2, <2>3, LegNew
  <2>6. StrandEnds(n, 0, out, home)
    BY <1>2, <2>1, <2>4, <2>5 DEF StrandEnds
  <2>7. QED
    BY <1>2, <2>1, <2>3, <2>4, <2>5, <2>6 DEF Strand
<1>4. QED
  BY <1>2, <1>3 DEF ShortInv

LEMMA ShortStep == OneTester /\ ShortInv /\ TypeOK /\ [Next]_vars => ShortInv'
<1> SUFFICES ASSUME OneTester, ShortInv, TypeOK, [Next]_vars, ~fooled'
             PROVE  /\ \A n \in Commanders : Strand(n)'
                    /\ \A n \in Nodes \ Commanders : Peer[n] \notin Commanders => Silent(n)'
  BY DEF ShortInv
<1>1. CASE UNCHANGED vars
  <2>1. UNCHANGED <<tester, tfg, len, beats, chkBeats, status, probe, ptx, prx, tx, txbuf, rx, hdr,
                    rxbuf, cdcTx, cdcRx, fooled>>
    BY <1>1 DEF vars, hardware, linkVars, nodeVars, genVars, chkVars, txVars, rxVars
  <2>2. \A n \in Nodes : Still(n)
    BY <2>1 DEF Still, SameLeg
  <2>3. \A n \in Commanders : Strand(n) /\ Still(n) /\ Still(Peer[n])
    BY <2>1, <2>2, PeerFacts DEF ShortInv
  <2>4. \A n \in Commanders : Strand(n)'
    BY <2>3, StrandStill
  <2>5. \A n \in Nodes \ Commanders : Peer[n] \notin Commanders => Silent(n)'
    BY <2>1 DEF ShortInv, Silent
  <2>6. QED
    BY <2>4, <2>5
<1>2. CASE Next
  <2>1. ~fooled /\ \A x \in Nodes : ~TakesData(x)
    <3>1. fooled' = (fooled \/ \E x \in Nodes : TakesData(x))
      BY <1>2, Zenon DEF Next
    <3>2. QED
      BY <3>1, Zenon
  <2>2. ASSUME NEW n \in Commanders PROVE Strand(n)'
    <3>1. Strand(n)
      BY <2>1 DEF ShortInv
    <3>2. ASSUME NEW x \in Commanders, NEW m \in Lengths, Command(x, m), UNCHANGED linkVars
          PROVE  Strand(n)'
      <4>1. CASE x = n
        BY <3>1, <3>2, <4>1, StrandCommand
      <4>2. CASE x # n
        <5>1. /\ n \in Nodes /\ Peer[n] \in Nodes /\ x # Peer[n]
          BY PeerFacts DEF OneTester
        <5>2. ASSUME NEW o \in Nodes, o # x PROVE Still(o)
          BY <3>2, <5>2 DEF Still, SameLeg, Command, linkVars, chkVars, txVars, rxVars, TypeOK, NodeTypeOK
        <5>3. QED
          BY <3>1, <4>2, <5>1, <5>2, StrandStill
      <4>3. QED
        BY <4>1, <4>2
    <3>3. ASSUME NEW x \in Nodes, Node(x) PROVE Strand(n)'
      BY <2>1, <3>1, <3>3, StrandNode
    <3>4. ASSUME NEW x \in Nodes,
                 EnterLink(x) \/ Serial(x) \/ LeaveLink(x) \/ ChannelUp(x) \/ ChannelDown(x)
          PROVE  Strand(n)'
      BY <2>1, <3>1, <3>4, StrandLeg DEF OnLeg
    <3>5. QED
      BY <1>2, <3>2, <3>3, <3>4 DEF Next, Transfer
  <2>3. ASSUME NEW n \in Nodes \ Commanders, Peer[n] \notin Commanders PROVE Silent(n)'
    <3>1. Silent(n) /\ Silent(Peer[n])
      BY <2>1, <2>3, PeerFacts DEF ShortInv
    <3>2. QED
      BY <1>2, <2>3, <3>1, SilentStep
  <2>4. QED
    BY <2>2, <2>3
<1>3. QED
  BY <1>1, <1>2

LEMMA ShortConclusion == OneTester /\ ShortFrames /\ ShortInv /\ TypeOK => LossShortens
<1> SUFFICES ASSUME OneTester, ShortFrames, ShortInv, TypeOK, ~fooled, NEW n \in Nodes, status[n].valid
             PROVE  /\ tester[n] = "COUNT_LATENCY" /\ tfg[n] = "IDLE"
                    /\ status[n].length <= StatusLength(len[n])
  BY DEF LossShortens
<1>1. n \in Commanders /\ Strand(n)
  <2>1. Peer[n] \in Nodes /\ Peer[Peer[n]] = n
    BY PeerFacts
  <2>2. Peer[n] \notin Commanders
    BY <2>1 DEF ShortInv, Strand
  <2>3. QED
    BY <2>2 DEF ShortInv, Silent
<1> DEFINE p == Peer[n]
<1>2. p \in Nodes /\ beats[n] \in Nat
  BY <1>1, StrandFacts
<1>3. PICK l \in Nat, out \in Cuts, home \in Cuts :
        /\ l = len[n] /\ Leg(n, p, "probe", l, out) /\ Leg(p, n, "checker", l, home)
        /\ StrandEnds(n, l, out, home)
  BY <1>1 DEF Strand
<1>4. home[0] = End(l) /\ home[7] = out[0] /\ tester[n] = "COUNT_LATENCY" /\ l \in Lengths
  BY <1>3 DEF StrandEnds
<1>5. tfg[n] = "IDLE"
  <2>1. out[7] >= End(l)
    <3>1. home[0] <= home[7] /\ home[7] <= End(l) /\ out[0] <= out[7]
      BY <1>2, <1>3, LegEnds
    <3>2. QED
      BY <1>4, <3>1, CutTypes DEF End
  <2>2. tfg[n] # "RUN"
    BY <1>2, <1>3, <2>1, CutTypes DEF StrandEnds, End
  <2>3. QED
    BY <2>2 DEF TypeOK, NodeTypeOK
<1>6. PICK c \in 0..l : status[n].length = StatusLength(c)
  BY <1>3 DEF StrandEnds
<1>7. StatusLength(c) <= StatusLength(l)
  <2>1. c \in Nat /\ l - c \in Nat /\ BeatBytes \in Nat /\ LengthMod \in Nat \ {0}
    BY NodeAssumption
  <2>2. (l + 1) * BeatBytes = (c + 1) * BeatBytes + (l - c) * BeatBytes
    BY <2>1
  <2>3. (c + 1) * BeatBytes \in Nat /\ (l - c) * BeatBytes \in Nat
    BY <2>1
  <2>4. (c + 1) * BeatBytes <= (l + 1) * BeatBytes /\ (l + 1) * BeatBytes < LengthMod
        /\ (l + 1) * BeatBytes \in Nat
    BY <1>4, <2>2, <2>3 DEF ShortFrames
  <2>5. \A x \in Nat : x < LengthMod => x % LengthMod = x
    BY <2>1
  <2>6. /\ ((c + 1) * BeatBytes) % LengthMod = (c + 1) * BeatBytes
        /\ ((l + 1) * BeatBytes) % LengthMod = (l + 1) * BeatBytes
    BY <2>1, <2>3, <2>4, <2>5
  <2>7. QED
    BY <2>4, <2>6 DEF StatusLength
<1>8. QED
  BY <1>3, <1>4, <1>5, <1>6, <1>7

(***************************************************************************)
(* With one tester of a pair at work, for any number of pairs, any depth   *)
(* of the buffers and any losses: a report answers the command in          *)
(* progress, after its whole frame was sent, and counts no more beats      *)
(* (tfc.py:33-48, framing.py:63-96, 171-185), until a data word is taken   *)
(* for a header.  A frame with more bytes than the status can say would    *)
(* wrap, and then nothing can be said of its order.                        *)
(***************************************************************************)
THEOREM LossOnlyShortens ==
  ASSUME OneTester, ShortFrames
  PROVE  Spec => []LossShortens
<1>1. Init => ShortInv
  BY ShortInit
<1>2. ShortInv /\ TypeOK /\ [Next]_vars => ShortInv'
  BY ShortStep
<1>3. ShortInv /\ TypeOK => LossShortens
  BY ShortConclusion
<1>4. QED
  BY <1>1, <1>2, <1>3, LinkTypeCorrect, PTL DEF Spec

=============================================================================
