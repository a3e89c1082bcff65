--------------------------- MODULE K2MMPing_proofs ---------------------------
(***************************************************************************)
(* Two cross-connected nodes: types, the way of every frame, the streams   *)
(* between the nodes, each tester over an echo, and how a pair stops.      *)
(***************************************************************************)
EXTENDS K2MMPing, K2MMNode_proofs, FiniteSetTheorems

USE DEF CanGenerate, CanCheck, CanStartEcho, CanEcho, CanRegrant, CanStartFrame,
        CanSendHeader, CanSendData, CanTakeHeader, CanJudge, CanTakeBeat, CanCross

LEMMA WireType ==
  ASSUME NodeTypeOK, NEW n \in Nodes, Wire(n)
  PROVE  NodeTypeOK'
<1>1. Peer[n] \in Nodes
  BY NodeAssumption
<1>2. /\ txbuf' = [txbuf EXCEPT ![n] = Tail(@)] /\ txbuf[n] # <<>>
      /\ rxbuf' = [rxbuf EXCEPT ![Peer[n]] = Append(@, Head(txbuf[n]))]
      /\ Len(rxbuf[Peer[n]]) < FifoDepth
  BY DEF Wire
<1>3. /\ txbuf' \in [Nodes -> Seq(WireBeat)] /\ \A m \in Nodes : Len(txbuf'[m]) <= FifoDepth
      /\ Head(txbuf[n]) \in WireBeat
  BY <1>2, ConstantFacts, QueueTail DEF NodeTypeOK
<1>4. rxbuf' \in [Nodes -> Seq(WireBeat)] /\ \A m \in Nodes : Len(rxbuf'[m]) <= FifoDepth
  BY <1>1, <1>2, <1>3, ConstantFacts, QueueAppend, SMTT(40) DEF NodeTypeOK
<1>5. QED
  BY <1>3, <1>4 DEF NodeTypeOK, Wire, genVars, chkVars

(***************************************************************************)
(* No register leaves its width and no buffer its depth, for any number of *)
(* nodes, any depth and any set of lengths (framing.py, tfg.py, tfc.py).   *)
(***************************************************************************)
THEOREM PingTypeCorrect == Spec => []NodeTypeOK
<1>1. Init => NodeTypeOK
  BY NodeInitType DEF Init
<1>2. NodeTypeOK /\ [Next]_vars => NodeTypeOK'
  <2> SUFFICES ASSUME NodeTypeOK, [Next]_vars PROVE NodeTypeOK'
    OBVIOUS
  <2>1. ASSUME NEW n \in Commanders, NEW l \in Lengths, Command(n, l) PROVE NodeTypeOK'
    <3>1. n \in Nodes
      BY NodeAssumption
    <3>2. QED
      BY <2>1, <3>1, CommandType
  <2>2. ASSUME NEW n \in Nodes, NodeStep(n) PROVE NodeTypeOK'
    BY <2>2, NodeStepType
  <2>3. ASSUME NEW n \in Nodes, Wire(n) PROVE NodeTypeOK'
    BY <2>3, WireType
  <2>4. CASE UNCHANGED vars
    BY <2>4 DEF vars, nodeVars, genVars, chkVars, txVars, rxVars, NodeTypeOK
  <2>5. QED
    BY <2>1, <2>2, <2>3, <2>4 DEF Next, Transfer
<1>3. QED
  BY <1>1, <1>2, PTL DEF Spec
-----------------------------------------------------------------------------
(***************************************************************************)
(* The way of every frame, from its generator to the probe of the peer and *)
(* back to its checker (framing.py:122-248): a stream of framed beats can  *)
(* be given whose buffered part the two buffers of the wire are.           *)
(***************************************************************************)
Carried(w) == \A n \in Nodes : Matches(w[n], Stream(n))

PairInv == \E w, t, r, c : Frames(w, t, r, c) /\ Carried(w) /\ AtWork(c)

LEMMA CarriedFed ==
  ASSUME NodeTypeOK, NEW w \in [Nodes -> Seq(StreamBeat)], Carried(w)
  PROVE  Fed(w)
<1> SUFFICES ASSUME NEW n \in Nodes, rxbuf[n] # <<>>
             PROVE  w[Peer[n]] # <<>> /\ Alike(w[Peer[n]][1], rxbuf[n][1])
  BY DEF Fed
<1> DEFINE o == Peer[n]
<1>1. o \in Nodes /\ Peer[o] = n
  BY PeerFacts
<1>2. Matches(w[o], rxbuf[n] \o txbuf[o])
  BY <1>1 DEF Carried, Stream
<1>3. w[o] \in Seq(StreamBeat) /\ rxbuf[n] \in Seq(WireBeat) /\ txbuf[o] \in Seq(WireBeat)
  BY <1>1 DEF NodeTypeOK
<1> HIDE DEF o
<1>4. w[o] # <<>> /\ Alike(w[o][1], rxbuf[n][1])
  BY <1>2, <1>3, MatchesNext
<1>5. QED
  BY <1>4 DEF o

LEMMA CarriedMoved ==
  ASSUME NodeTypeOK, NEW w \in [Nodes -> Seq(StreamBeat)], Carried(w), NEW m \in Nodes,
         NEW v, Moved(m, w, v)
  PROVE  Carried(v)'
<1> SUFFICES ASSUME NEW n \in Nodes PROVE Matches(v[n], rxbuf'[Peer[n]] \o txbuf'[n])
  BY DEF Carried, Stream
<1>1. /\ Matches(w[n], rxbuf[Peer[n]] \o txbuf[n]) /\ Peer[n] \in Nodes /\ Peer[m] \in Nodes
      /\ Peer[Peer[m]] = m /\ (Peer[n] = m => n = Peer[m])
  BY PeerFacts DEF Carried, Stream
<1>2. /\ w[n] \in Seq(StreamBeat) /\ rxbuf[Peer[n]] \in Seq(WireBeat) /\ txbuf[n] \in Seq(WireBeat)
      /\ rxbuf \in [Nodes -> Seq(WireBeat)] /\ txbuf \in [Nodes -> Seq(WireBeat)]
  BY <1>1 DEF NodeTypeOK
<1>3. CASE v = w /\ UNCHANGED <<txbuf, rxbuf>>
  BY <1>1, <1>3
<1>4. ASSUME NEW y \in StreamBeat, NEW x \in WireBeat, Alike(y, x),
             v = [w EXCEPT ![m] = Append(@, y)],
             txbuf' = [txbuf EXCEPT ![m] = Append(@, x)], rxbuf' = rxbuf
      PROVE  Matches(v[n], rxbuf'[Peer[n]] \o txbuf'[n])
  <2>1. CASE n = m
    <3>1. v[n] = Append(w[n], y) /\ txbuf'[n] = Append(txbuf[n], x) /\ rxbuf'[Peer[n]] = rxbuf[Peer[n]]
      BY <1>2, <1>4, <2>1
    <3>2. QED
      BY <1>1, <1>2, <1>4, <3>1, MatchesAppend
  <2>2. CASE n # m
    <3>1. v[n] = w[n] /\ txbuf'[n] = txbuf[n] /\ rxbuf'[Peer[n]] = rxbuf[Peer[n]]
      BY <1>2, <1>4, <2>2
    <3>2. QED
      BY <1>1, <3>1
  <2>3. QED
    BY <2>1, <2>2
<1>5. CASE /\ rxbuf[m] # <<>> /\ v = [w EXCEPT ![Peer[m]] = Tail(@)]
           /\ rxbuf' = [rxbuf EXCEPT ![m] = Tail(@)] /\ txbuf' = txbuf
  <2>1. CASE n = Peer[m]
    <3>1. /\ v[n] = Tail(w[n]) /\ txbuf'[n] = txbuf[n] /\ rxbuf'[Peer[n]] = Tail(rxbuf[Peer[n]])
          /\ rxbuf[Peer[n]] # <<>>
      BY <1>1, <1>2, <1>5, <2>1
    <3>2. QED
      BY <1>1, <1>2, <3>1, MatchesNext
  <2>2. CASE n # Peer[m]
    <3>1. v[n] = w[n] /\ txbuf'[n] = txbuf[n] /\ rxbuf'[Peer[n]] = rxbuf[Peer[n]]
      BY <1>1, <1>2, <1>5, <2>2
    <3>2. QED
      BY <1>1, <3>1
  <2>3. QED
    BY <2>1, <2>2
<1>6. QED
  BY <1>3, <1>4, <1>5 DEF Moved

\* The wire moves a beat inside the stream.
LEMMA WireKeeps ==
  ASSUME NodeTypeOK, NEW m \in Nodes, Wire(m), NEW n \in Nodes
  PROVE  Stream(n)' = Stream(n)
<1>1. /\ txbuf[m] # <<>> /\ txbuf' = [txbuf EXCEPT ![m] = Tail(@)]
      /\ rxbuf' = [rxbuf EXCEPT ![Peer[m]] = Append(@, Head(txbuf[m]))]
  BY DEF Wire
<1>2. /\ Peer[m] \in Nodes /\ Peer[n] \in Nodes /\ (n # m => Peer[n] # Peer[m])
  BY PeerFacts
<1>3. /\ txbuf[m] \in Seq(WireBeat) /\ rxbuf[Peer[m]] \in Seq(WireBeat)
      /\ txbuf \in [Nodes -> Seq(WireBeat)] /\ rxbuf \in [Nodes -> Seq(WireBeat)]
  BY <1>2 DEF NodeTypeOK
<1>4. CASE n = m
  <2>1. txbuf'[n] = Tail(txbuf[m]) /\ rxbuf'[Peer[n]] = Append(rxbuf[Peer[m]], Head(txbuf[m]))
    BY <1>1, <1>2, <1>3, <1>4
  <2>2. QED
    BY <1>1, <1>3, <1>4, <2>1, MoveKeeps, SMTT(40) DEF Stream
<1>5. CASE n # m
  BY <1>1, <1>2, <1>3, <1>5 DEF Stream
<1>6. QED
  BY <1>4, <1>5

THEOREM PairInvariant == Spec => []PairInv
<1>1. Init => PairInv
  <2> SUFFICES ASSUME Init PROVE PairInv
    OBVIOUS
  <2> DEFINE w == [n \in Nodes |-> <<>>]
  <2>1. PICK t, r, c : Frames(w, t, r, c) /\ AtWork(c)
    BY NodeInitFrames DEF Init
  <2>2. Carried(w)
    <3> SUFFICES ASSUME NEW n \in Nodes PROVE Matches(w[n], Stream(n))
      BY DEF Carried
    <3>1. Peer[n] \in Nodes
      BY PeerFacts
    <3>2. Stream(n) = <<>> \o <<>>
      BY <3>1 DEF Stream, Init, NodeInit
    <3>3. QED
      BY <3>2 DEF Matches
  <2> HIDE DEF w
  <2>3. QED
    BY <2>1, <2>2 DEF PairInv
<1>2. PairInv /\ NodeTypeOK /\ NodeTypeOK' /\ [Next]_vars => PairInv'
  <2> SUFFICES ASSUME NodeTypeOK, NodeTypeOK', [Next]_vars,
                      NEW w, NEW t, NEW r, NEW c, Frames(w, t, r, c), Carried(w),
                      AtWork(c)
               PROVE  \E v, u, q, d : Frames(v, u, q, d)' /\ Carried(v)' /\ AtWork(d)'
    BY DEF PairInv
  <2>0. w \in [Nodes -> Seq(StreamBeat)]
    BY DEF Frames
  <2>1. ASSUME NEW n \in Commanders, NEW l \in Lengths, Command(n, l)
        PROVE  \E v, u, q, d : Frames(v, u, q, d)' /\ Carried(v)' /\ AtWork(d)'
    <3>1. /\ \E u, q : Frames(w, u, q, ClearedEchoes(c, n))'
          /\ UNCHANGED <<txbuf, rxbuf>>
      BY <2>1, CommandFrames
    <3>2. Carried(w)'
      BY <3>1 DEF Carried, Stream
    <3>3. AtWork(ClearedEchoes(c, n))'
      BY <2>1, PeerFacts, CommandWork
    <3>4. QED
      BY <3>1, <3>2, <3>3
  <2>2. ASSUME NEW n \in Nodes, NodeStep(n)
        PROVE  \E v, u, q, d : Frames(v, u, q, d)' /\ Carried(v)' /\ AtWork(d)'
    <3>1. Fed(w)
      BY <2>0, CarriedFed
    <3>2. PICK v, u, q, d : Frames(v, u, q, d)' /\ AtWork(d)' /\ Moved(n, w, v)
      BY <2>2, <3>1, NodeStepFrames
    <3>3. Carried(v)'
      BY <2>0, <3>2, CarriedMoved
    <3>4. QED
      BY <3>2, <3>3
  <2>3. ASSUME NEW n \in Nodes, Wire(n)
        PROVE  \E v, u, q, d : Frames(v, u, q, d)' /\ Carried(v)' /\ AtWork(d)'
    <3>1. Frames(w, t, r, c)'
      BY <2>3, FramesUnread DEF Wire
    <3>2. Carried(w)'
      BY <2>3, WireKeeps DEF Carried
    <3>3. AtWork(c)'
      BY <2>3, AtWorkUnread DEF Wire
    <3>4. QED
      BY <3>1, <3>2, <3>3
  <2>4. CASE UNCHANGED vars
    <3>1. Frames(w, t, r, c)'
      BY <2>4, FramesUnread DEF vars, nodeVars, txVars, rxVars
    <3>2. Carried(w)'
      BY <2>4 DEF Carried, Stream, vars, nodeVars, txVars, rxVars
    <3>3. AtWork(c)'
      BY <2>4, AtWorkUnread DEF vars, nodeVars
    <3>4. QED
      BY <3>1, <3>2, <3>3
  <2>5. QED
    BY <2>1, <2>2, <2>3, <2>4 DEF Next, Transfer
<1>3. QED
  BY <1>1, <1>2, PingTypeCorrect, PTL DEF Spec

(***************************************************************************)
(* Frames never mix and no receiver loses its place: whatever the two      *)
(* testers, probes and arbiters do, a header follows each last beat, the   *)
(* beats of a frame are numbered, and a receiver waits for a header        *)
(* exactly when one is next (framing.py:33-96, 223-245).                   *)
(***************************************************************************)
THEOREM PingWellAligned == Spec => []WellAligned
<1>1. NodeTypeOK /\ PairInv => WellAligned
  <2> SUFFICES ASSUME NodeTypeOK, NEW w, NEW t, NEW r, NEW c, Frames(w, t, r, c), Carried(w),
                      NEW n \in Nodes
               PROVE  /\ \A i \in 2..Len(Stream(n)) :
                           /\ Stream(n)[i].head = Stream(n)[i - 1].last
                           /\ ~Stream(n)[i].head =>
                                 Stream(n)[i].data = IF Stream(n)[i - 1].head THEN 0
                                                     ELSE Stream(n)[i - 1].data + 1
                      /\ rx[Peer[n]] # "DROP"
                      /\ Stream(n) # <<>> => (Stream(n)[1].head <=> rx[Peer[n]] = "IDLE")
    BY DEF PairInv, WellAligned, WellFramed, Aligned
  <2> DEFINE s == Stream(n)
             q == w[n]
  <2>1. FramingAt(w, n) /\ Matches(q, s)
    BY DEF Frames, Framing, Carried
  <2>2. /\ q \in Seq(StreamBeat) /\ Len(q) \in Nat /\ DOMAIN q = 1..Len(q)
        /\ q = <<>> <=> Len(q) = 0
    BY DEF Frames
  <2>3. s \in Seq(WireBeat) /\ Len(s) \in Nat /\ (s = <<>> <=> Len(s) = 0)
    <3>1. rxbuf[Peer[n]] \in Seq(WireBeat) /\ txbuf[n] \in Seq(WireBeat)
      BY PeerFacts DEF NodeTypeOK
    <3>2. s \in Seq(WireBeat)
      BY <3>1 DEF Stream
    <3> HIDE DEF s
    <3>3. QED
      BY <3>2
  <2>4. \A i \in 1..Len(s) : Alike(q[i], s[i]) /\ s[i] \in WireBeat /\ q[i] \in StreamBeat
    BY <2>1, <2>2, <2>3 DEF Matches
  <2>5. Len(s) = Len(q)
    BY <2>1 DEF Matches
  <2>6. ASSUME NEW i \in 2..Len(q)
        PROVE  /\ q[i].head = q[i - 1].last
               /\ ~q[i].head => q[i].data = IF q[i - 1].head THEN 0 ELSE q[i - 1].data + 1
    <3>1. i \in 1..Len(q) /\ i - 1 \in 1..Len(q) /\ i - 1 \in 1..Len(q) - 1 /\ i > 1
          /\ i - 1 + 1 = i /\ q # <<>>
      BY <2>2
    <3>2. Joined(q[i - 1], q[i])
      BY <2>1, <3>1 DEF FramingAt, Chain
    <3>3. q[i] \in StreamBeat /\ q[i - 1] \in StreamBeat
      BY <2>4, <2>5, <3>1
    <3>4. q[i].head = q[i - 1].last
      BY <3>2, <3>3 DEF Joined, StreamBeat
    <3>5. ASSUME ~q[i].head, q[i - 1].head PROVE q[i].data = 0
      BY <2>2, <3>1, <3>5, FrameStarts
    <3>6. ASSUME ~q[i].head, ~q[i - 1].head PROVE q[i].data = q[i - 1].data + 1
      BY <2>2, <3>1, <3>6, FrameGoesOn
    <3>7. QED
      BY <3>4, <3>5, <3>6
  <2>7. Len(q) > 0 => (q[1].head <=> rx[Peer[n]] = "IDLE")
    <3> SUFFICES ASSUME Len(q) > 0 PROVE q[1].head <=> rx[Peer[n]] = "IDLE"
      OBVIOUS
    <3>1. q # <<>>
      BY <2>2
    <3>2. Joined(Received(Peer[n]), q[1])
      BY <2>1, <3>1 DEF FramingAt, Chain
    <3>3. QED
      BY <3>2 DEF Joined, Received
  <2>8. rx[Peer[n]] # "DROP"
    BY <2>1 DEF FramingAt
  <2> HIDE DEF s, q
  <2>9. ASSUME NEW i \in 2..Len(s)
        PROVE  /\ s[i].head = s[i - 1].last
               /\ ~s[i].head => s[i].data = IF s[i - 1].head THEN 0 ELSE s[i - 1].data + 1
    <3>1. i \in 1..Len(s) /\ i - 1 \in 1..Len(s) /\ i \in 2..Len(q)
      BY <2>2, <2>3, <2>5
    <3>2. Alike(q[i], s[i]) /\ Alike(q[i - 1], s[i - 1])
      BY <2>4, <3>1
    <3>3. QED
      BY <2>6, <3>1, <3>2 DEF Alike
  <2>10. s # <<>> => (s[1].head <=> rx[Peer[n]] = "IDLE")
    <3> SUFFICES ASSUME s # <<>> PROVE s[1].head <=> rx[Peer[n]] = "IDLE"
      OBVIOUS
    <3>1. Len(s) > 0 /\ 1 \in 1..Len(s)
      BY <2>3
    <3>2. Alike(q[1], s[1])
      BY <2>4, <3>1
    <3>3. QED
      BY <2>5, <2>7, <3>1, <3>2 DEF Alike
  <2>11. QED
    BY <2>8, <2>9, <2>10 DEF s
<1>2. QED
  BY <1>1, PingTypeCorrect, PairInvariant, PTL
-----------------------------------------------------------------------------
(***************************************************************************)
(* What a tester has sent and not seen, as a queue: it grows by the beat   *)
(* that the generator sends and shrinks by the one that the checker sees.  *)
(***************************************************************************)
Numbered(lo, hi, N) ==
  [i \in 1..hi - lo |-> [data |-> lo + i - 1, last |-> lo + i - 1 = N]]

LEMMA NumberedFacts ==
  ASSUME NEW lo \in Nat, NEW hi \in Nat, NEW N \in Nat, lo <= hi
  PROVE  /\ Numbered(lo, hi, N) \in Seq([data : Nat, last : BOOLEAN])
         /\ Len(Numbered(lo, hi, N)) = hi - lo
<1>1. hi - lo \in Nat
  OBVIOUS
<1>2. \A i \in 1..hi - lo : [data |-> lo + i - 1, last |-> lo + i - 1 = N] \in [data : Nat, last : BOOLEAN]
  OBVIOUS
<1>3. Numbered(lo, hi, N) \in [1..hi - lo -> [data : Nat, last : BOOLEAN]]
  BY <1>2 DEF Numbered
<1>4. \A S, m, q : m \in Nat /\ q \in [1..m -> S] => q \in Seq(S) /\ Len(q) = m
  OBVIOUS
<1>5. QED
  BY <1>1, <1>3, <1>4

LEMMA NumberedNone ==
  ASSUME NEW lo \in Nat, NEW N
  PROVE  Numbered(lo, lo, N) = <<>>
<1>1. 1..lo - lo = {}
  OBVIOUS
<1>2. QED
  BY <1>1 DEF Numbered

LEMMA NumberedAdd ==
  ASSUME NEW lo \in Nat, NEW hi \in Nat, NEW N \in Nat, lo <= hi
  PROVE  Append(Numbered(lo, hi, N), [data |-> hi, last |-> hi = N]) = Numbered(lo, hi + 1, N)
<1> DEFINE q == Numbered(lo, hi, N)
           e == [data |-> hi, last |-> hi = N]
           p == Numbered(lo, hi + 1, N)
           S == [data : Nat, last : BOOLEAN]
<1>1. q \in Seq(S) /\ Len(q) = hi - lo /\ p \in Seq(S) /\ Len(p) = hi + 1 - lo /\ e \in S
  <2>1. hi + 1 \in Nat /\ lo <= hi + 1
    OBVIOUS
  <2>2. e \in S
    OBVIOUS
  <2>3. q \in Seq(S) /\ Len(q) = hi - lo
    BY NumberedFacts
  <2>4. p \in Seq(S) /\ Len(p) = hi + 1 - lo
    BY <2>1, NumberedFacts
  <2> HIDE DEF e, q, p
  <2>5. QED
    BY <2>2, <2>3, <2>4
<1>2. \A i \in 1..hi - lo : q[i] = p[i]
  BY DEF Numbered
<1>3. p[hi - lo + 1] = e
  <2>1. hi - lo + 1 \in 1..hi + 1 - lo /\ lo + (hi - lo + 1) - 1 = hi
    OBVIOUS
  <2>2. QED
    BY <2>1 DEF Numbered
<1> HIDE DEF q, e, p, S
<1>4. Append(q, e) = p
  <2>1. Append(q, e) \in Seq(S) /\ Len(Append(q, e)) = Len(p)
    BY <1>1
  <2>2. \A i \in 1..Len(p) : Append(q, e)[i] = p[i]
    BY <1>1, <1>2, <1>3
  <2>3. QED
    BY <1>1, <2>1, <2>2
<1>5. QED
  BY <1>4 DEF q, e, p

LEMMA BeatFields ==
  ASSUME NEW b, NEW x, NEW N, b = [data |-> x, last |-> x = N]
  PROVE  b.data = x /\ (b.last <=> x = N)
<1>1. b.data = x
  OBVIOUS
<1>2. b.last <=> x = N
  BY Zenon
<1>3. QED
  BY <1>1, <1>2

LEMMA NumberedNext ==
  ASSUME NEW lo \in Nat, NEW hi \in Nat, NEW N \in Nat, lo < hi
  PROVE  /\ Numbered(lo, hi, N) # <<>>
         /\ Head(Numbered(lo, hi, N)).data = lo
         /\ Tail(Numbered(lo, hi, N)) = Numbered(lo + 1, hi, N)
<1> DEFINE q == Numbered(lo, hi, N)
           p == Numbered(lo + 1, hi, N)
           S == [data : Nat, last : BOOLEAN]
<1>1. q \in Seq(S) /\ Len(q) = hi - lo /\ p \in Seq(S) /\ Len(p) = hi - (lo + 1)
  <2>1. lo + 1 \in Nat /\ lo + 1 <= hi /\ lo <= hi
    OBVIOUS
  <2>2. QED
    BY <2>1, NumberedFacts
<1>2. \A i \in 1..hi - (lo + 1) : q[i + 1] = p[i]
  <2> SUFFICES ASSUME NEW i \in 1..hi - (lo + 1) PROVE q[i + 1] = p[i]
    OBVIOUS
  <2>1. i + 1 \in 1..hi - lo /\ lo + (i + 1) - 1 = lo + 1 + i - 1
    OBVIOUS
  <2>2. QED
    BY <2>1 DEF Numbered
<1>3. q[1].data = lo
  <2>1. 1 \in 1..hi - lo /\ lo + 1 - 1 = lo
    OBVIOUS
  <2>2. q[1] = [data |-> lo, last |-> lo = N]
    BY <2>1 DEF Numbered
  <2> HIDE DEF q
  <2>3. QED
    BY <2>2, BeatFields
<1> HIDE DEF q, p, S
<1>4. q # <<>> /\ Head(q).data = lo
  BY <1>1, <1>3
<1>5. Tail(q) = p
  <2>1. Tail(q) \in Seq(S) /\ Len(Tail(q)) = Len(p)
    BY <1>1, <1>4
  <2>2. \A i \in 1..Len(p) : Tail(q)[i] = p[i]
    BY <1>1, <1>2, <1>4
  <2>3. QED
    BY <1>1, <2>1, <2>2
<1>6. QED
  BY <1>4, <1>5 DEF q, p

LEMMA NumberedLast ==
  ASSUME NEW lo \in Nat, NEW hi \in Nat, NEW N \in Nat, lo < hi
  PROVE  Head(Numbered(lo, hi, N)).last <=> lo = N
<1> DEFINE q == Numbered(lo, hi, N)
<1>1. q \in Seq([data : Nat, last : BOOLEAN]) /\ Len(q) = hi - lo
  BY NumberedFacts
<1>2. q[1].last <=> lo = N
  <2>1. 1 \in 1..hi - lo /\ lo + 1 - 1 = lo
    OBVIOUS
  <2>2. q[1] = [data |-> lo, last |-> lo = N]
    BY <2>1 DEF Numbered
  <2> HIDE DEF q
  <2>3. QED
    BY <2>2, BeatFields
<1> HIDE DEF q
<1>3. Head(q) = q[1]
  BY <1>1
<1>4. Head(q).last <=> lo = N
  BY <1>2, <1>3
<1>5. QED
  BY <1>4 DEF q

LEMMA EchoIsNumbered ==
  ASSUME NodeTypeOK, NEW w, NEW t, NEW r, NEW c, Frames(w, t, r, c), NEW n \in Nodes
  PROVE  /\ EchoOf(n) = Numbered(Seen(n), Sent(n), len[n])
         /\ Seen(n) \in Nat /\ Sent(n) \in Nat /\ len[n] \in Nat /\ Seen(n) <= Sent(n)
<1> USE DEF Frames
<1>1. EchoOf(n) = Numbered(Seen(n), Sent(n), len[n])
  BY DEF EchoOf, Numbered
<1>2. Seen(n) \in Nat /\ Sent(n) \in Nat /\ len[n] \in Nat
  BY CounterTypes
<1>3. Seen(n) <= Sent(n)
  <2> DEFINE p == Peer[n]
             a == r[p][FALSE]
             b == t[p][FALSE]
             d == r[n][TRUE]
             e == t[n][TRUE]
  <2>1. /\ Seen(n) <= a /\ a <= b /\ b <= c[p] /\ c[p] <= d /\ d <= e /\ e <= Sent(n)
    BY LaneBounds
  <2>2. a \in Nat /\ b \in Nat /\ c[p] \in Nat /\ d \in Nat /\ e \in Nat
    <3>1. p \in Nodes
      BY PeerFacts
    <3>2. /\ t[p] \in [BOOLEAN -> Nat] /\ r[p] \in [BOOLEAN -> Nat] /\ c[p] \in Nat
          /\ t[n] \in [BOOLEAN -> Nat] /\ r[n] \in [BOOLEAN -> Nat]
      BY <3>1
    <3>3. QED
      BY <3>2
  <2> HIDE DEF p, a, b, d, e
  <2>3. QED
    BY <1>2, <2>1, <2>2
<1>4. QED
  BY <1>1, <1>2, <1>3

\* A step of another node, or of this one behind its tester.
LEMMA EchoUnmoved ==
  ASSUME NEW n \in Nodes, tester'[n] = tester[n], tfg'[n] = tfg[n], len'[n] = len[n],
         beats'[n] = beats[n], chkBeats'[n] = chkBeats[n], frameErr'[n] = frameErr[n],
         status'[n] = status[n]
  PROVE  UNCHANGED Tester(n)!vars
<1>1. Sent(n)' = Sent(n) /\ Seen(n)' = Seen(n)
  BY DEF Sent, Seen, Open
<1>2. EchoOf(n)' = EchoOf(n)
  BY <1>1 DEF EchoOf
<1>3. QED
  BY <1>2 DEF Tester!vars

LEMMA CommandEchoed ==
  ASSUME NodeTypeOK, NodeTypeOK', NEW w, NEW t, NEW r, NEW c, Frames(w, t, r, c),
         NEW n \in Nodes, NEW l \in Lengths, Command(n, l)
  PROVE  Tester(n)!Command(l)
<1>1. /\ tester[n] = "STOP" /\ tfg[n] = "IDLE" /\ tester'[n] = "COUNT_LATENCY"
      /\ tfg'[n] = "RUN" /\ len'[n] = l /\ beats'[n] = 0
      /\ UNCHANGED <<chkBeats, frameErr, status>>
  BY DEF Command, NodeTypeOK, chkVars
<1>2. ~Open(n) /\ chkBeats[n] = 0 /\ ~status[n].valid
  BY <1>1 DEF Open, Frames, Reports
<1>3. Seen(n) = Sent(n) /\ Sent(n)' = 0 /\ Seen(n)' = 0
  BY <1>1, <1>2 DEF Sent, Seen, Open
<1>4. EchoOf(n) = <<>>
  BY <1>3, EchoIsNumbered, NumberedNone
<1>5. EchoOf(n)' = <<>>
  <2>1. EchoOf(n)' = Numbered(Seen(n), Sent(n), len[n])'
    BY DEF EchoOf, Numbered
  <2>2. Numbered(Seen(n), Sent(n), len[n])' = Numbered(0, 0, l)
    BY <1>1, <1>3 DEF Numbered
  <2>3. QED
    BY <2>1, <2>2, NumberedNone
<1>6. QED
  BY <1>1, <1>4, <1>5 DEF Tester!Command

LEMMA GeneratorEchoed ==
  ASSUME NodeTypeOK, NodeTypeOK', NEW w, NEW t, NEW r, NEW c, Frames(w, t, r, c),
         NEW n \in Nodes, GeneratorBeat(n)
  PROVE  Tester(n)!GeneratorBeat
<1>1. /\ tfg[n] = "RUN" /\ UNCHANGED <<tester, len, chkBeats, frameErr, status>>
      /\ IF beats[n] = len[n] THEN tfg'[n] = "IDLE" /\ beats'[n] = beats[n]
         ELSE tfg'[n] = tfg[n] /\ beats'[n] = (beats[n] + 1) % CountMod
  BY DEF GeneratorBeat, NodeTypeOK, chkVars
<1>2. Open(n) /\ beats[n] <= len[n] /\ Sent(n) = beats[n] /\ Seen(n) = chkBeats[n]
  BY <1>1 DEF Frames, Reports, Sent, Seen
<1>3. beats[n] \in Nat /\ len[n] \in Nat /\ len[n] < CountMod /\ CountMod \in Nat
  BY CounterTypes
<1>4. Sent(n)' = beats[n] + 1 /\ Open(n)'
  <2>1. CASE beats[n] = len[n]
    BY <1>1, <1>2, <2>1 DEF Sent, Open
  <2>2. CASE beats[n] # len[n]
    <3>1. (beats[n] + 1) % CountMod = beats[n] + 1
      BY <1>2, <1>3, <2>2, CountStep
    <3>2. QED
      BY <1>1, <1>2, <2>2, <3>1 DEF Sent, Open
  <2>3. QED
    BY <2>1, <2>2
<1>5. Seen(n)' = chkBeats[n]
  BY <1>1, <1>4 DEF Seen
<1>6. EchoOf(n) = Numbered(chkBeats[n], beats[n], len[n]) /\ chkBeats[n] \in Nat /\ chkBeats[n] <= beats[n]
  BY <1>2, EchoIsNumbered
<1>7. EchoOf(n)' = Numbered(chkBeats[n], beats[n] + 1, len[n])
  BY <1>1, <1>4, <1>5 DEF EchoOf, Numbered
<1>8. EchoOf(n)' = Append(EchoOf(n), [data |-> beats[n], last |-> beats[n] = len[n]])
  BY <1>3, <1>6, <1>7, NumberedAdd
<1>9. QED
  BY <1>1, <1>8 DEF Tester!GeneratorBeat

LEMMA CheckerEchoed ==
  ASSUME NodeTypeOK, NodeTypeOK', NEW w, NEW t, NEW r, NEW c, Frames(w, t, r, c),
         NEW n \in Nodes, CheckerBeat(n)
  PROVE  Tester(n)!CheckerBeat
<1>1. /\ prx[n] # <<>> /\ ~prx[n][1].pf /\ Head(prx[n]) = prx[n][1]
      /\ UNCHANGED <<tester, tfg, len, beats>> /\ ~status[n].valid
  <2>1. Head(prx[n]) = prx[n][1]
    BY DEF NodeTypeOK, CheckerBeat
  <2>2. QED
    BY <2>1 DEF CheckerBeat, genVars
<1>2. /\ Open(n) /\ chkBeats[n] <= len[n] /\ prx[n][1].data = chkBeats[n]
      /\ prx[n][1].last <=> chkBeats[n] = len[n]
      /\ prx[n][1].last => tfg[n] = "IDLE"
  BY <1>1, CheckerSees DEF Frames
<1>3. /\ chkBeats[n] \in Nat /\ len[n] \in Nat /\ len[n] < CountMod /\ CountMod \in Nat
      /\ Sent(n) \in Nat
  BY CounterTypes
<1>4. IF chkBeats[n] = len[n]
      THEN /\ chkBeats'[n] = 0 /\ frameErr'[n] = FALSE
           /\ status'[n] = [valid |-> TRUE, err |-> frameErr[n],
                            length |-> StatusLength(chkBeats[n])]
      ELSE /\ chkBeats'[n] = (chkBeats[n] + 1) % CountMod
           /\ frameErr'[n] = (frameErr[n] \/ chkBeats[n] # chkBeats[n])
           /\ status'[n] = status[n]
  <2>1. CASE chkBeats[n] = len[n]
    <3>1. /\ chkBeats' = [chkBeats EXCEPT ![n] = 0] /\ frameErr' = [frameErr EXCEPT ![n] = FALSE]
          /\ status' = [status EXCEPT ![n] = [valid |-> TRUE, err |-> frameErr[n],
                                              length |-> StatusLength(chkBeats[n])]]
      BY <1>1, <1>2, <2>1 DEF CheckerBeat
    <3>2. QED
      BY <2>1, <3>1 DEF NodeTypeOK
  <2>2. CASE chkBeats[n] # len[n]
    <3>1. /\ chkBeats' = [chkBeats EXCEPT ![n] = (@ + 1) % CountMod] /\ status' = status
          /\ frameErr' = [frameErr EXCEPT ![n] = @ \/ prx[n][1].data # chkBeats[n]]
      BY <1>1, <1>2, <2>2 DEF CheckerBeat
    <3>2. frameErr'[n] = (frameErr[n] \/ prx[n][1].data # chkBeats[n])
      BY <3>1 DEF NodeTypeOK
    <3>3. chkBeats'[n] = (chkBeats[n] + 1) % CountMod
      BY <3>1 DEF NodeTypeOK
    <3>4. QED
      BY <1>2, <2>2, <3>1, <3>2, <3>3
  <2>3. QED
    BY <2>1, <2>2
<1>5. Seen(n) = chkBeats[n] /\ Sent(n)' = Sent(n)
  BY <1>1, <1>2 DEF Seen, Sent
<1>6. Seen(n)' = chkBeats[n] + 1
  <2>1. CASE chkBeats[n] = len[n]
    <3>1. tfg[n] = "IDLE" /\ status'[n].valid
      BY <1>2, <1>4, <2>1
    <3>2. ~Open(n)' /\ Sent(n)' = len[n] + 1
      BY <1>1, <3>1 DEF Open, Sent
    <3>3. QED
      BY <2>1, <3>2 DEF Seen
  <2>2. CASE chkBeats[n] # len[n]
    <3>1. (chkBeats[n] + 1) % CountMod = chkBeats[n] + 1
      BY <1>2, <1>3, <2>2, CountStep
    <3>2. Open(n)'
      BY <1>1, <1>2, <1>4, <2>2 DEF Open
    <3>3. QED
      BY <1>4, <2>2, <3>1, <3>2 DEF Seen
  <2>3. QED
    BY <2>1, <2>2
<1>7. chkBeats[n] < Sent(n)
  <2>1. chkBeats[n] + 1 <= Sent(n)
    <3> DEFINE p == Peer[n]
    <3>1. Lane(Tail(prx[n]), UserKind(FALSE), chkBeats[n] + 1, r[p][FALSE], len[n])
      BY <1>1, CheckerSees DEF Frames
    <3>2. /\ r[p][FALSE] <= t[p][FALSE] /\ t[p][FALSE] <= c[p]
          /\ c[p] <= r[n][TRUE] /\ r[n][TRUE] <= t[n][TRUE] /\ t[n][TRUE] <= Sent(n)
      BY LaneBounds DEF Frames
    <3>3. p \in Nodes
      BY PeerFacts
    <3>4. /\ t[p] \in [BOOLEAN -> Nat] /\ r[p] \in [BOOLEAN -> Nat] /\ c[p] \in Nat
          /\ t[n] \in [BOOLEAN -> Nat] /\ r[n] \in [BOOLEAN -> Nat]
      BY <3>3 DEF Frames
    <3> DEFINE a == r[p][FALSE]
               b == t[p][FALSE]
               g == c[p]
               d == r[n][TRUE]
               e == t[n][TRUE]
    <3>5. a \in Nat /\ b \in Nat /\ g \in Nat /\ d \in Nat /\ e \in Nat
      BY <3>4
    <3>6. chkBeats[n] + 1 <= a
      BY <3>1 DEF Lane
    <3> HIDE DEF a, b, d, e, g, p
    <3>7. a <= b /\ b <= g /\ g <= d /\ d <= e /\ e <= Sent(n)
      BY <3>2 DEF a, b, d, e, g
    <3>8. QED
      BY <1>3, <3>5, <3>6, <3>7
  <2>2. QED
    BY <1>3, <2>1
<1>8. EchoOf(n) = Numbered(chkBeats[n], Sent(n), len[n])
  BY <1>5, EchoIsNumbered
<1>9. EchoOf(n)' = Numbered(chkBeats[n] + 1, Sent(n), len[n])
  BY <1>1, <1>5, <1>6 DEF EchoOf, Numbered
<1>10. /\ EchoOf(n) # <<>> /\ EchoOf(n)' = Tail(EchoOf(n))
       /\ Head(EchoOf(n)).data = chkBeats[n] /\ (Head(EchoOf(n)).last <=> chkBeats[n] = len[n])
  <2> DEFINE q == Numbered(chkBeats[n], Sent(n), len[n])
  <2>1. q # <<>>
    BY <1>3, <1>7, NumberedNext, ZenonT(60)
  <2>2. Head(q).data = chkBeats[n]
    BY <1>3, <1>7, NumberedNext
  <2>3. Head(q).last <=> chkBeats[n] = len[n]
    BY <1>3, <1>7, NumberedLast
  <2>4. Tail(q) = Numbered(chkBeats[n] + 1, Sent(n), len[n])
    BY <1>3, <1>7, NumberedNext
  <2> HIDE DEF q
  <2>5. EchoOf(n) = q
    BY <1>8 DEF q
  <2>6. QED
    BY <1>9, <2>1, <2>2, <2>3, <2>4, <2>5
<1>12. CASE chkBeats[n] = len[n]
  BY <1>1, <1>4, <1>10, <1>12 DEF Tester!CheckerBeat, Tester!StatusLength, StatusLength
<1>13. CASE chkBeats[n] # len[n]
  BY <1>1, <1>4, <1>10, <1>13 DEF Tester!CheckerBeat
<1>14. QED
  BY <1>12, <1>13

LEMMA PulseEchoed ==
  ASSUME NodeTypeOK, NodeTypeOK', NEW w, NEW t, NEW r, NEW c, Frames(w, t, r, c),
         NEW n \in Nodes, StatusPulse(n)
  PROVE  Tester(n)!StatusPulse
<1>1. /\ status[n].valid /\ status'[n] = [status[n] EXCEPT !.valid = FALSE]
      /\ tester'[n] = "STOP" /\ UNCHANGED <<tfg, len, beats, chkBeats, frameErr>>
  BY DEF StatusPulse, NodeTypeOK
<1>2. ~Open(n) /\ ~Open(n)'
  BY <1>1 DEF Open
<1>3. Seen(n) = Sent(n) /\ Seen(n)' = Sent(n)' /\ Sent(n)' = Sent(n)
  BY <1>1, <1>2 DEF Seen, Sent
<1>4. EchoOf(n)' = EchoOf(n)
  BY <1>1, <1>3 DEF EchoOf
<1>5. QED
  BY <1>1, <1>4 DEF Tester!StatusPulse

\* Nothing else reads or writes the registers of a tester.
LEMMA OthersEchoed ==
  ASSUME NodeTypeOK, NEW n \in Nodes, NEW m \in Nodes,
         \/ NodeStep(m) /\ (m # n \/ ~(GeneratorBeat(m) \/ CheckerBeat(m) \/ StatusPulse(m)))
         \/ \E l \in Lengths : Command(m, l) /\ m # n
         \/ Wire(m)
  PROVE  UNCHANGED Tester(n)!vars
<1>1. /\ tester'[n] = tester[n] /\ tfg'[n] = tfg[n] /\ len'[n] = len[n]
      /\ beats'[n] = beats[n] /\ chkBeats'[n] = chkBeats[n] /\ frameErr'[n] = frameErr[n]
      /\ status'[n] = status[n]
  <2>1. CASE m # n /\ GeneratorBeat(m)
    BY <2>1 DEF GeneratorBeat, chkVars, NodeTypeOK
  <2>2. CASE m # n /\ CheckerBeat(m)
    BY <2>2 DEF CheckerBeat, genVars, NodeTypeOK
  <2>3. CASE m # n /\ StatusPulse(m)
    BY <2>3 DEF StatusPulse, NodeTypeOK
  <2>4. CASE m # n /\ \E l \in Lengths : Command(m, l)
    BY <2>4 DEF Command, chkVars, NodeTypeOK
  <2>5. CASE \/ ProbeStart(m) \/ ProbeBeat(m) \/ Regrant(m) \/ TxStart(m) \/ TxHeader(m)
             \/ TxData(m) \/ RxHeader(m) \/ RxJudge(m) \/ RxBeat(m) \/ Wire(m)
    BY <2>5 DEF ProbeStart, ProbeBeat, Regrant, TxStart, TxHeader, TxData, RxHeader, RxJudge,
                RxBeat, Wire, genVars, chkVars
  <2>6. QED
    BY <2>1, <2>2, <2>3, <2>4, <2>5 DEF NodeStep
<1>2. QED
  BY <1>1, EchoUnmoved

(***************************************************************************)
(* Each node implements K2MMTester: for its tester the peer's probe, both  *)
(* packet engines, both arbiters and the wires are an echo that keeps      *)
(* every beat in order, whatever the other tester does (framing.py:103-    *)
(* 269, tfg.py, tfc.py), for any lengths, depths and number of pairs.      *)
(***************************************************************************)
THEOREM PingImplementsTester == Spec => EachTesterEchoed
<1>1. Init => \A n \in Nodes : Tester(n)!Init
  <2> SUFFICES ASSUME Init, NEW n \in Nodes PROVE Tester(n)!Init
    OBVIOUS
  <2>1. /\ tester[n] = "STOP" /\ tfg[n] = "IDLE" /\ len[n] = 0 /\ beats[n] = 0
        /\ chkBeats[n] = 0 /\ frameErr[n] = FALSE
        /\ status[n] = [valid |-> FALSE, err |-> FALSE, length |-> 0]
    BY DEF Init, NodeInit
  <2>2. Sent(n) = 1 /\ Seen(n) = 1
    BY <2>1 DEF Sent, Seen, Open
  <2>3. EchoOf(n) = Numbered(1, 1, 0)
    BY <2>1, <2>2 DEF EchoOf, Numbered
  <2>4. EchoOf(n) = <<>>
    BY <2>3, NumberedNone
  <2>5. QED
    BY <2>1, <2>4 DEF Tester!Init
<1>2. PairInv /\ NodeTypeOK /\ NodeTypeOK' /\ [Next]_vars
        => [\A n \in Nodes : [Tester(n)!Next]_(Tester(n)!vars)]_vars
  <2> SUFFICES ASSUME NodeTypeOK, NodeTypeOK', [Next]_vars,
                      NEW w, NEW t, NEW r, NEW c, Frames(w, t, r, c),
                      vars' # vars, NEW n \in Nodes
               PROVE  Tester(n)!Next \/ UNCHANGED Tester(n)!vars
    BY DEF PairInv
  <2>1. ASSUME NEW m \in Commanders, NEW l \in Lengths, Command(m, l)
        PROVE  Tester(n)!Next \/ UNCHANGED Tester(n)!vars
    <3>1. m \in Nodes
      BY PeerFacts
    <3>2. CASE m = n
      BY <2>1, <3>2, CommandEchoed DEF Tester!Next
    <3>3. CASE m # n
      BY <2>1, <3>1, <3>3, OthersEchoed
    <3>4. QED
      BY <3>2, <3>3
  <2>2. ASSUME NEW m \in Nodes, NodeStep(m) \/ Wire(m)
        PROVE  Tester(n)!Next \/ UNCHANGED Tester(n)!vars
    <3>1. CASE m = n /\ GeneratorBeat(m)
      BY <3>1, GeneratorEchoed DEF Tester!Next
    <3>2. CASE m = n /\ CheckerBeat(m)
      BY <3>2, CheckerEchoed DEF Tester!Next
    <3>3. CASE m = n /\ StatusPulse(m)
      BY <3>3, PulseEchoed DEF Tester!Next
    <3>4. CASE m # n \/ ~(GeneratorBeat(m) \/ CheckerBeat(m) \/ StatusPulse(m))
      BY <2>2, <3>4, OthersEchoed
    <3>5. QED
      BY <3>1, <3>2, <3>3, <3>4
  <2>3. QED
    BY <2>1, <2>2 DEF Next, Transfer
<1>3. QED
  BY <1>1, <1>2, PingTypeCorrect, PairInvariant, PTL DEF Spec, EachTesterEchoed
-----------------------------------------------------------------------------
(***************************************************************************)
(* What CanTransfer stands for: a node that cannot move does not.          *)
(***************************************************************************)
LEMMA MovesIfItCan ==
  ASSUME NEW n \in Nodes, Transfer(n)
  PROVE  CanTransfer(n)
BY NodeStepCan DEF Transfer, CanTransfer, Wire

(***************************************************************************)
(* How many beats fit between the counters of a lane, and how many beats   *)
(* the way from a node to its peer can hold.                               *)
(***************************************************************************)
Places(q, K) == {i \in 1..Len(q) : q[i] \in K}

LEMMA LaneRoom ==
  ASSUME NEW S, NEW q \in Seq(S), NEW K, NEW lo \in Nat, NEW hi \in Nat, NEW N,
         Lane(q, K, lo, hi, N), \A b \in K : b.data \in Nat
  PROVE  IsFiniteSet(Places(q, K)) /\ Cardinality(Places(q, K)) <= hi - lo
<1> DEFINE P == Places(q, K)
           f == [i \in P |-> q[i].data]
<1>1. DOMAIN q = 1..Len(q) /\ Len(q) \in Nat
  OBVIOUS
<1>2. \A i \in P : i \in DOMAIN q /\ i \in Nat /\ q[i] \in K /\ q[i].data \in Nat
  BY <1>1 DEF Places
<1>3. \A i \in P : lo <= q[i].data /\ q[i].data < hi
  BY <1>2 DEF Lane
<1>4. \A i, j \in P : i < j => q[i].data < q[j].data
  BY <1>2 DEF Lane
<1>5. lo <= hi
  BY DEF Lane
<1> HIDE DEF P
<1>6. f \in [P -> lo..hi - 1]
  BY <1>2, <1>3
<1>7. \A i, j \in P : f[i] = f[j] => i = j
  <2> SUFFICES ASSUME NEW i \in P, NEW j \in P, q[i].data = q[j].data PROVE i = j
    OBVIOUS
  <2>1. i \in Nat /\ j \in Nat /\ q[i].data \in Nat
    BY <1>2
  <2>2. ~(i < j) /\ ~(j < i)
    BY <1>4, <2>1
  <2>3. QED
    BY <2>1, <2>2
<1> HIDE DEF f
<1>8. f \in Injection(P, lo..hi - 1)
  BY <1>6, <1>7 DEF Injection, IsInjective
<1>9. IsFiniteSet(lo..hi - 1) /\ Cardinality(lo..hi - 1) = hi - lo
  <2>1. lo \in Int /\ hi - 1 \in Int
    OBVIOUS
  <2>2. /\ IsFiniteSet(lo..hi - 1)
        /\ Cardinality(lo..hi - 1) = IF lo > hi - 1 THEN 0 ELSE (hi - 1) - lo + 1
    BY <2>1, FS_Interval
  <2>3. QED
    BY <1>5, <2>2
<1>10. IsFiniteSet(P) /\ Cardinality(P) <= Cardinality(lo..hi - 1)
  BY <1>8, <1>9, FS_Injection
<1>11. QED
  BY <1>9, <1>10 DEF P

LEMMA QueueRoom ==
  ASSUME NEW S, NEW q \in Seq(S), NEW K, NEW L, NEW H, IsFiniteSet(H),
         IsFiniteSet(Places(q, K)), IsFiniteSet(Places(q, L)),
         \A i \in 1..Len(q) : q[i] \in K \/ q[i] \in L \/ i \in H
  PROVE  Len(q) <= Cardinality(Places(q, K)) + Cardinality(Places(q, L)) + Cardinality(H)
<1> DEFINE A == Places(q, K)
           B == Places(q, L)
           D == 1..Len(q)
<1>1. D \subseteq (A \cup B) \cup H
  BY DEF Places
<1>2. Len(q) \in Nat
  OBVIOUS
<1>3. IsFiniteSet(D) /\ Cardinality(D) = Len(q)
  <2>1. 1 \in Int /\ Len(q) \in Int
    BY <1>2
  <2>2. Cardinality(D) = IF 1 > Len(q) THEN 0 ELSE Len(q) - 1 + 1
    BY <2>1, FS_Interval
  <2>3. IsFiniteSet(D)
    BY <2>1, FS_Interval
  <2>4. QED
    BY <1>2, <2>2, <2>3
<1> HIDE DEF A, B, D
<1>4. IsFiniteSet(A) /\ IsFiniteSet(B)
  BY DEF A, B
<1>5. /\ IsFiniteSet(A \cup B)
      /\ Cardinality(A \cup B) = Cardinality(A) + Cardinality(B) - Cardinality(A \cap B)
  BY <1>4, FS_Union
<1>6. /\ IsFiniteSet((A \cup B) \cup H)
      /\ Cardinality((A \cup B) \cup H)
           = Cardinality(A \cup B) + Cardinality(H) - Cardinality((A \cup B) \cap H)
  BY <1>5, FS_Union
<1>7. IsFiniteSet(A \cap B) /\ IsFiniteSet((A \cup B) \cap H)
  BY <1>4, <1>5, FS_Intersection
<1>8. /\ Cardinality(A) \in Nat /\ Cardinality(B) \in Nat /\ Cardinality(H) \in Nat
      /\ Cardinality(A \cap B) \in Nat /\ Cardinality((A \cup B) \cap H) \in Nat
  BY <1>4, <1>7, FS_CardinalityType
<1>9. Cardinality(D) <= Cardinality((A \cup B) \cup H)
  BY <1>1, <1>6, FS_Subset
<1>10. QED
  BY <1>2, <1>3, <1>5, <1>6, <1>8, <1>9 DEF A, B

\* What has entered a lane is at most the whole frame.
LEMMA EnteredBound ==
  ASSUME NodeTypeOK, NEW w, NEW t, NEW r, NEW c, Frames(w, t, r, c), NEW s \in Nodes
  PROVE  /\ Sent(s) <= len[s] + 1
         /\ \A k \in BOOLEAN : Entered(c, s, k) <= len[Owner(s, k)] + 1
<1> USE DEF Frames
<1>1. \A n \in Nodes : Sent(n) <= len[n] + 1
  <2> SUFFICES ASSUME NEW n \in Nodes PROVE Sent(n) <= len[n] + 1
    OBVIOUS
  <2>1. len[n] \in Nat /\ beats[n] \in Nat /\ (tfg[n] = "RUN" => beats[n] <= len[n])
    BY CounterTypes DEF Reports
  <2>2. QED
    BY <2>1 DEF Sent
<1>2. c[s] <= Sent(Peer[s])
  <2> DEFINE o == Peer[s]
             ra == r[o][TRUE]
             ta == t[o][TRUE]
  <2>1. o \in Nodes /\ Peer[o] = s
    BY PeerFacts
  <2>2. c[s] <= ra /\ ra <= ta /\ ta <= Sent(o)
    BY <2>1, LaneBounds
  <2>3. c[s] \in Nat /\ ra \in Nat /\ ta \in Nat /\ Sent(o) \in Nat
    BY <2>1, CounterTypes
  <2> HIDE DEF o, ra, ta
  <2>4. c[s] <= Sent(o)
    BY <2>2, <2>3
  <2>5. QED
    BY <2>4 DEF o
<1>3. c[s] <= len[Peer[s]] + 1
  <2>1. Peer[s] \in Nodes
    BY PeerFacts
  <2>2. c[s] \in Nat /\ Sent(Peer[s]) \in Nat /\ len[Peer[s]] \in Nat
    BY <2>1, CounterTypes
  <2>3. QED
    BY <1>1, <1>2, <2>1, <2>2
<1>4. QED
  BY <1>1, <1>3 DEF Entered, Owner

LEMMA Elements ==
  ASSUME NEW S, NEW q \in Seq(S), NEW i \in 1..Len(q)
  PROVE  q[i] \in S
OBVIOUS

\* A receiver inside a frame and a transmitter that has a beat to give have at
\* most one header between them: two would follow last beats of both kinds,
\* and then no beat could follow the second.
LEMMA HeadersApart ==
  ASSUME NodeTypeOK, NEW w, NEW t, NEW r, NEW c, Frames(w, t, r, c), NEW s \in Nodes,
         ptx[s] # <<>>, rx[Peer[s]] # "IDLE", NEW i \in 1..Len(w[s]), NEW j \in 1..Len(w[s]),
         w[s][i].head, w[s][j].head, i < j
  PROVE  FALSE
<1> DEFINE q == w[s]
           p == Peer[s]
           k == q[j].pf
           N == len[Owner(s, k)]
           th == t[s][k]
           en == Entered(c, s, k)
<1>1. /\ q \in Seq(StreamBeat) /\ DOMAIN q = 1..Len(q) /\ Len(q) \in Nat
      /\ FramingAt(w, s) /\ \A b \in BOOLEAN : LanesAt(w, t, r, c, s, b)
      /\ p \in Nodes
  BY PeerFacts DEF Frames, Framing, Lanes
<1>2. ASSUME NEW x \in 1..Len(q)
      PROVE  /\ q[x] \in StreamBeat /\ q[x].head \in BOOLEAN
             /\ q[x].last \in BOOLEAN /\ q[x].pf \in BOOLEAN
  <2>1. q[x] \in StreamBeat
    BY <1>1, Elements
  <2> HIDE DEF q
  <2>2. QED
    BY <2>1 DEF StreamBeat
<1>3. i \in Nat /\ j \in Nat /\ 1 <= i /\ j <= Len(q) /\ q # <<>>
  BY <1>1
<1> HIDE DEF q, p
<1>4. q[i].head /\ q[j].head
  BY DEF q
<1>5. /\ Joined(Received(p), q[1]) /\ Joined(q[Len(q)], Waiting(s))
      /\ \A x \in 1..Len(q) - 1 : Joined(q[x], q[x + 1])
  BY <1>1, <1>3 DEF FramingAt, Chain, q, p
<1>6. ~q[1].head
  BY <1>5 DEF Joined, Received, p
<1>7. i > 1
  BY <1>3, <1>4, <1>6
<1>8. \A x \in 1..Len(q) : q[x].head => ~q[x].last
  BY <1>1 DEF FramingAt, q
<1>9. \A x \in 2..Len(q) : q[x].head => q[x - 1].last /\ ~q[x - 1].head
  <2> SUFFICES ASSUME NEW x \in 2..Len(q), q[x].head PROVE q[x - 1].last /\ ~q[x - 1].head
    OBVIOUS
  <2>1. x - 1 \in 1..Len(q) - 1 /\ x - 1 \in 1..Len(q) /\ (x - 1) + 1 = x
    BY <1>1
  <2>2. Joined(q[x - 1], q[x])
    BY <1>5, <2>1
  <2>3. q[x - 1].last
    BY <1>2, <2>1, <2>2 DEF Joined
  <2>4. QED
    BY <1>8, <2>1, <2>3
<1>10. /\ i - 1 \in 1..Len(q) /\ j - 1 \in 1..Len(q) /\ i - 1 < j - 1 /\ j - 1 < j
       /\ q[i - 1].last /\ ~q[i - 1].head /\ q[j - 1].last /\ ~q[j - 1].head
  <2>1. i \in 2..Len(q) /\ j \in 2..Len(q)
    BY <1>1, <1>3, <1>7
  <2>2. QED
    BY <1>1, <1>4, <1>9, <2>1
\* The beats in front of the two headers are of different frames.
<1>11. q[i - 1].pf # q[j - 1].pf
  <2> SUFFICES ASSUME q[i - 1].pf = q[j - 1].pf PROVE FALSE
    OBVIOUS
  <2> DEFINE b == q[i - 1].pf
             K == StreamKind(b)
             M == len[Owner(s, b)]
  <2>1. b \in BOOLEAN /\ q[i - 1] \in K /\ q[j - 1] \in K
    BY <1>2, <1>10 DEF StreamKind
  <2>2. Lane(q, K, r[s][b], t[s][b], M)
    BY <1>1, <2>1 DEF LanesAt, q
  <2>3. q[i - 1].data \in Nat /\ q[j - 1].data \in Nat
    BY <2>1, KindData
  <2> HIDE DEF K, M, b
  <2>4. q[i - 1].data = M /\ q[j - 1].data = M
    BY <1>1, <1>10, <2>1, <2>2 DEF Lane
  <2>5. q[i - 1].data < q[j - 1].data
    BY <1>1, <1>10, <2>1, <2>2 DEF Lane
  <2>6. QED
    BY <2>3, <2>4, <2>5
\* One of them ends the kind of frame that the second header begins.
<1>12. PICK e \in {i - 1, j - 1} : q[e].pf = k
  <2>1. k \in BOOLEAN /\ q[i - 1].pf \in BOOLEAN /\ q[j - 1].pf \in BOOLEAN
    BY <1>2, <1>3, <1>10
  <2>2. QED
    BY <1>11, <2>1
<1>13. k \in BOOLEAN
  BY <1>2, <1>3
<1>14. /\ Lane(q, StreamKind(k), r[s][k], th, N)
       /\ Lane(ptx[s], UserKind(k), th, en, N)
  BY <1>1, <1>13 DEF LanesAt, q
<1>15. N \in Nat /\ th \in Nat /\ en \in Nat /\ en <= N + 1
  <2>1. c \in [Nodes -> Nat] /\ t \in [Nodes -> [BOOLEAN -> Nat]]
    BY DEF Frames
  <2>2. N \in Nat /\ en \in Nat
    BY <1>13, <2>1, LaneTypes
  <2>3. en <= N + 1
    BY <1>13, EnteredBound
  <2>4. th \in Nat
    BY <1>13, <2>1
  <2>5. QED
    BY <2>2, <2>3, <2>4
<1>16. th <= en
  BY <1>14 DEF Lane
<1>17. e \in DOMAIN q /\ e < j /\ q[e] \in StreamKind(k) /\ q[e].last
  <2>1. /\ i - 1 \in DOMAIN q /\ i - 1 < j /\ j - 1 \in DOMAIN q /\ j - 1 < j
        /\ q[i - 1] \in StreamBeat /\ q[j - 1] \in StreamBeat
    BY <1>1, <1>2, <1>3, <1>10
  <2>2. e \in DOMAIN q /\ e < j /\ q[e] \in StreamBeat /\ q[e].last /\ ~q[e].head
    BY <1>10, <1>12, <2>1
  <2>3. QED
    BY <1>12, <2>2 DEF StreamKind
<1> HIDE DEF k, N, th, en
<1>18. q[e].data = N /\ N < th
  BY <1>14, <1>17 DEF Lane
<1>19. ~q[j].last
  BY <1>3, <1>4, <1>8
<1>20. CASE j < Len(q)
  <2>1. j \in 1..Len(q) - 1 /\ j + 1 \in 1..Len(q) /\ e < j + 1
    BY <1>1, <1>3, <1>17, <1>20
  <2>2. Joined(q[j], q[j + 1])
    BY <1>5, <2>1
  <2>3. ~q[j + 1].head /\ q[j + 1].pf = k
    BY <1>2, <1>19, <2>1, <2>2 DEF Joined, k
  <2>4. q[j + 1] \in StreamKind(k)
    BY <1>2, <2>1, <2>3 DEF StreamKind
  <2>5. q[j + 1].data \in Nat
    BY <1>13, <2>4, KindData
  <2>6. q[e].data < q[j + 1].data /\ q[j + 1].data < th
    BY <1>1, <1>14, <1>17, <2>1, <2>4 DEF Lane
  <2>7. QED
    BY <1>15, <1>16, <1>18, <2>5, <2>6
<1>21. CASE j = Len(q)
  <2>1. Joined(q[j], Waiting(s))
    BY <1>5, <1>21
  <2>2. ptx[s][1].pf = k
    BY <1>19, <2>1 DEF Joined, Waiting, k
  <2>3. 1 \in DOMAIN ptx[s] /\ ptx[s][1] \in UserBeat
    BY DEF NodeTypeOK
  <2>4. ptx[s][1] \in UserKind(k)
    BY <2>2, <2>3 DEF UserKind
  <2>5. ptx[s][1].data \in Nat
    BY <1>13, <2>4, KindData
  <2>6. th <= ptx[s][1].data /\ ptx[s][1].data < en
    BY <1>14, <2>3, <2>4 DEF Lane
  <2>7. QED
    BY <1>15, <1>16, <1>18, <2>5, <2>6
<1>22. QED
  BY <1>3, <1>20, <1>21

\* What is on the way from s to its peer: beats that were sent and not
\* received of the frames of both, and a header.
LEMMA WayLoad ==
  ASSUME NodeTypeOK, NEW w, NEW t, NEW r, NEW c, Frames(w, t, r, c), NEW s \in Nodes,
         ptx[s] # <<>>, rx[Peer[s]] # "IDLE"
  PROVE  Len(ptx[s]) + Len(w[s]) + Len(prx[Peer[s]])
           <= (Sent(s) - c[Peer[s]]) + (c[s] - Seen(Peer[s])) + 1
<1> DEFINE p == Peer[s]
           H == {i \in 1..Len(w[s]) : w[s][i].head}
           nP(q, k) == Cardinality(Places(q, UserKind(k)))
           nS(k) == Cardinality(Places(w[s], StreamKind(k)))
<1>1. /\ p \in Nodes /\ c \in [Nodes -> Nat] /\ t \in [Nodes -> [BOOLEAN -> Nat]]
      /\ r \in [Nodes -> [BOOLEAN -> Nat]] /\ w[s] \in Seq(StreamBeat)
      /\ ptx[s] \in Seq(UserBeat) /\ prx[p] \in Seq(UserBeat)
  BY PeerFacts DEF Frames, NodeTypeOK
<1>2. \A k \in BOOLEAN : LanesAt(w, t, r, c, s, k)
  BY DEF Frames, Lanes
<1>3. IsFiniteSet(H) /\ Cardinality(H) \in Nat /\ Cardinality(H) <= 1
  <2>1. CASE H = {}
    <3> HIDE DEF H
    <3>1. IsFiniteSet(H) /\ Cardinality(H) = 0
      BY <2>1, FS_EmptySet
    <3>2. QED
      BY <3>1
  <2>2. CASE H # {}
    <3>1. PICK h : h \in H
      BY <2>2
    <3>2. ASSUME NEW x \in H PROVE x = h
      <4>1. /\ x \in 1..Len(w[s]) /\ h \in 1..Len(w[s]) /\ w[s][x].head /\ w[s][h].head
            /\ x \in Nat /\ h \in Nat
        BY <3>1, <3>2
      <4>2. ~(x < h)
        BY <4>1, HeadersApart
      <4>3. ~(h < x)
        BY <4>1, HeadersApart
      <4>4. QED
        BY <4>1, <4>2, <4>3
    <3> HIDE DEF H
    <3>3. H = {h}
      BY <3>1, <3>2
    <3>4. IsFiniteSet(H) /\ Cardinality(H) = 1
      BY <3>3, FS_Singleton
    <3>5. QED
      BY <3>4
  <2>3. QED
    BY <2>1, <2>2
<1>4. ASSUME NEW k \in BOOLEAN
      PROVE  /\ IsFiniteSet(Places(ptx[s], UserKind(k)))
             /\ nP(ptx[s], k) <= Entered(c, s, k) - t[s][k]
             /\ IsFiniteSet(Places(w[s], StreamKind(k)))
             /\ nS(k) <= t[s][k] - r[s][k]
             /\ IsFiniteSet(Places(prx[p], UserKind(k)))
             /\ nP(prx[p], k) <= r[s][k] - Taken(c, s, k)
  <2> DEFINE N == len[Owner(s, k)]
             ta == t[s][k]
             ra == r[s][k]
             en == Entered(c, s, k)
             tk == Taken(c, s, k)
  <2>1. ta \in Nat /\ ra \in Nat /\ en \in Nat /\ tk \in Nat
    BY <1>1, LaneTypes
  <2>2. /\ Lane(ptx[s], UserKind(k), ta, en, N) /\ Lane(w[s], StreamKind(k), ra, ta, N)
        /\ Lane(prx[p], UserKind(k), tk, ra, N)
    BY <1>2 DEF LanesAt
  <2>3. (\A b \in UserKind(k) : b.data \in Nat) /\ (\A b \in StreamKind(k) : b.data \in Nat)
    BY KindData
  <2> HIDE DEF N, ta, ra, en, tk
  <2>4. IsFiniteSet(Places(ptx[s], UserKind(k))) /\ nP(ptx[s], k) <= en - ta
    BY <1>1, <2>1, <2>2, <2>3, LaneRoom
  <2>5. IsFiniteSet(Places(w[s], StreamKind(k))) /\ nS(k) <= ta - ra
    BY <1>1, <2>1, <2>2, <2>3, LaneRoom
  <2>6. IsFiniteSet(Places(prx[p], UserKind(k))) /\ nP(prx[p], k) <= ra - tk
    BY <1>1, <2>1, <2>2, <2>3, LaneRoom
  <2>7. QED
    BY <2>4, <2>5, <2>6 DEF ta, ra, en, tk
<1>5. Len(ptx[s]) <= nP(ptx[s], TRUE) + nP(ptx[s], FALSE)
  <2> DEFINE a == nP(ptx[s], TRUE)
             b == nP(ptx[s], FALSE)
             z == Cardinality({})
  <2>1. ASSUME NEW i \in 1..Len(ptx[s])
        PROVE  ptx[s][i] \in UserKind(TRUE) \/ ptx[s][i] \in UserKind(FALSE)
    <3>1. ptx[s][i] \in UserBeat
      BY <1>1, Elements
    <3>2. QED
      BY <3>1 DEF UserKind, UserBeat
  <2>2. Len(ptx[s]) <= a + b + z
    BY <1>1, <1>4, <2>1, FS_EmptySet, QueueRoom
  <2>3. a \in Nat /\ b \in Nat /\ z = 0
    BY <1>4, FS_CardinalityType, FS_EmptySet
  <2>4. Len(ptx[s]) \in Nat
    BY <1>1
  <2> HIDE DEF a, b, z
  <2>5. Len(ptx[s]) <= a + b
    BY <2>2, <2>3, <2>4
  <2>6. QED
    BY <2>5 DEF a, b
<1>6. Len(prx[p]) <= nP(prx[p], TRUE) + nP(prx[p], FALSE)
  <2> DEFINE a == nP(prx[p], TRUE)
             b == nP(prx[p], FALSE)
             z == Cardinality({})
  <2>1. ASSUME NEW i \in 1..Len(prx[p])
        PROVE  prx[p][i] \in UserKind(TRUE) \/ prx[p][i] \in UserKind(FALSE)
    <3>1. prx[p][i] \in UserBeat
      BY <1>1, Elements
    <3>2. QED
      BY <3>1 DEF UserKind, UserBeat
  <2>2. Len(prx[p]) <= a + b + z
    BY <1>1, <1>4, <2>1, FS_EmptySet, QueueRoom
  <2>3. a \in Nat /\ b \in Nat /\ z = 0
    BY <1>4, FS_CardinalityType, FS_EmptySet
  <2>4. Len(prx[p]) \in Nat
    BY <1>1
  <2> HIDE DEF a, b, z
  <2>5. Len(prx[p]) <= a + b
    BY <2>2, <2>3, <2>4
  <2>6. QED
    BY <2>5 DEF a, b
<1>7. Len(w[s]) <= nS(TRUE) + nS(FALSE) + Cardinality(H)
  <2>1. ASSUME NEW i \in 1..Len(w[s])
        PROVE  w[s][i] \in StreamKind(TRUE) \/ w[s][i] \in StreamKind(FALSE) \/ i \in H
    <3>1. w[s][i] \in StreamBeat
      BY <1>1, Elements
    <3>2. QED
      BY <3>1 DEF StreamKind, StreamBeat
  <2> HIDE DEF H
  <2>2. QED
    BY <1>1, <1>3, <1>4, <2>1, QueueRoom
<1>8. /\ Entered(c, s, TRUE) = Sent(s) /\ Entered(c, s, FALSE) = c[s]
      /\ Taken(c, s, TRUE) = c[p] /\ Taken(c, s, FALSE) = Seen(p)
  BY DEF Entered, Taken
<1>9. /\ Sent(s) \in Nat /\ c[s] \in Nat /\ c[p] \in Nat /\ Seen(p) \in Nat
      /\ \A k \in BOOLEAN : t[s][k] \in Nat /\ r[s][k] \in Nat
      /\ Len(ptx[s]) \in Nat /\ Len(w[s]) \in Nat /\ Len(prx[p]) \in Nat
  BY <1>1, CounterTypes
<1>10. \A k \in BOOLEAN : /\ nP(ptx[s], k) \in Nat /\ nS(k) \in Nat /\ nP(prx[p], k) \in Nat
  BY <1>4, FS_CardinalityType
<1> DEFINE a1 == nP(ptx[s], TRUE)
           a2 == nP(ptx[s], FALSE)
           b1 == nS(TRUE)
           b2 == nS(FALSE)
           d1 == nP(prx[p], TRUE)
           d2 == nP(prx[p], FALSE)
           t1 == t[s][TRUE]
           t2 == t[s][FALSE]
           r1 == r[s][TRUE]
           r2 == r[s][FALSE]
           hh == Cardinality(H)
<1>11. /\ a1 <= Sent(s) - t1 /\ b1 <= t1 - r1 /\ d1 <= r1 - c[p]
       /\ a2 <= c[s] - t2 /\ b2 <= t2 - r2 /\ d2 <= r2 - Seen(p)
  BY <1>4, <1>8
<1>12. /\ a1 \in Nat /\ a2 \in Nat /\ b1 \in Nat /\ b2 \in Nat /\ d1 \in Nat /\ d2 \in Nat
       /\ t1 \in Nat /\ t2 \in Nat /\ r1 \in Nat /\ r2 \in Nat /\ hh \in Nat /\ hh <= 1
  BY <1>3, <1>9, <1>10
<1>13. Len(ptx[s]) <= a1 + a2 /\ Len(w[s]) <= b1 + b2 + hh /\ Len(prx[p]) <= d1 + d2
  BY <1>5, <1>6, <1>7
<1> HIDE DEF p, H, nP, nS, a1, a2, b1, b2, d1, d2, t1, t2, r1, r2, hh
<1>14. Len(ptx[s]) + Len(w[s]) + Len(prx[p]) <= (Sent(s) - c[p]) + (c[s] - Seen(p)) + 1
  <2>1. /\ Sent(s) \in Nat /\ c[s] \in Nat /\ c[p] \in Nat /\ Seen(p) \in Nat
        /\ Len(ptx[s]) \in Nat /\ Len(w[s]) \in Nat /\ Len(prx[p]) \in Nat
    BY <1>9
  <2>0. \A a, b, d, g, h, i, j \in Nat :
           a <= g - h /\ b <= h - i /\ d <= i - j => a + b + d <= g - j
    OBVIOUS
  <2>2. a1 + b1 + d1 <= Sent(s) - c[p]
    BY <1>11, <1>12, <2>0, <2>1, Zenon
  <2>3. a2 + b2 + d2 <= c[s] - Seen(p)
    BY <1>11, <1>12, <2>0, <2>1, Zenon
  <2> DEFINE X == Sent(s) - c[p]
             Y == c[s] - Seen(p)
             m1 == Len(ptx[s])
             m2 == Len(w[s])
             m3 == Len(prx[p])
  <2>4. X \in Int /\ Y \in Int /\ m1 \in Nat /\ m2 \in Nat /\ m3 \in Nat
    BY <2>1
  <2>5. a1 + b1 + d1 <= X /\ a2 + b2 + d2 <= Y
    BY <2>2, <2>3
  <2>6. m1 <= a1 + a2 /\ m2 <= b1 + b2 + hh /\ m3 <= d1 + d2
    BY <1>13
  <2> HIDE DEF X, Y, m1, m2, m3
  <2>7. m1 + m2 + m3 <= X + Y + 1
    BY <1>12, <2>4, <2>5, <2>6
  <2>8. QED
    BY <2>7 DEF X, Y, m1, m2, m3
<1>15. QED
  BY <1>14 DEF p
-----------------------------------------------------------------------------
(***************************************************************************)
(* A pair that stops is empty, or full in both directions: each queue      *)
(* waits for the next one around the whole loop.                           *)
(***************************************************************************)
Empty(n) == ptx[n] = <<>> /\ prx[n] = <<>> /\ txbuf[n] = <<>> /\ rxbuf[n] = <<>>

Full(n) ==
  /\ Len(ptx[n]) = SkidDepth /\ Len(prx[n]) = SkidDepth
  /\ Len(txbuf[n]) = FifoDepth /\ Len(rxbuf[n]) = FifoDepth
  /\ probe[n] = "PROBE_RESPONSE" /\ rx[n] = "RECEIVE"

LEMMA PairWaits ==
  ASSUME NodeTypeOK, NEW n \in Nodes, ~CanTransfer(n)
  PROVE  /\ ~NodeCanStep(n)
         /\ prx[n] # <<>> => probe[n] = "PROBE_RESPONSE" /\ Len(ptx[n]) = SkidDepth
         /\ ptx[n] # <<>> => Len(txbuf[n]) = FifoDepth
         /\ txbuf[n] # <<>> => Len(rxbuf[Peer[n]]) = FifoDepth
         /\ rxbuf[n] # <<>> => rx[n] = "RECEIVE" /\ Len(prx[n]) = SkidDepth
         /\ Len(ptx[n]) = SkidDepth => ptx[n] # <<>>
         /\ Len(prx[n]) = SkidDepth => prx[n] # <<>>
         /\ Len(txbuf[n]) = FifoDepth => txbuf[n] # <<>>
         /\ Len(rxbuf[n]) = FifoDepth => rxbuf[n] # <<>>
<1>1. ~NodeCanStep(n) /\ ~CanCross(n)
  BY DEF CanTransfer
<1>2. ASSUME txbuf[n] # <<>> PROVE Len(rxbuf[Peer[n]]) = FifoDepth
  <2>1. Peer[n] \in Nodes /\ FifoDepth \in Nat
    BY PeerFacts, ConstantFacts
  <2>2. Len(rxbuf[Peer[n]]) \in Nat /\ Len(rxbuf[Peer[n]]) <= FifoDepth
    BY <2>1 DEF NodeTypeOK
  <2>3. ~(Len(rxbuf[Peer[n]]) < FifoDepth)
    BY <1>1, <1>2 DEF CanCross
  <2>4. QED
    BY <2>1, <2>2, <2>3
<1>3. FifoDepth # 0 /\ SkidDepth # 0
  BY NodeAssumption DEF SkidDepth
<1>4. \A q : q = <<>> => Len(q) = 0
  OBVIOUS
<1>5. QED
  BY <1>1, <1>2, <1>3, <1>4, NodeWaits

LEMMA StoppedPair ==
  ASSUME NodeTypeOK, NEW n \in Nodes, Stopped(n)
  PROVE  (Empty(n) /\ Empty(Peer[n])) \/ (Full(n) /\ Full(Peer[n]))
<1> DEFINE p == Peer[n]
<1>1. p \in Nodes /\ Peer[p] = n
  BY PeerFacts
<1>2. ~CanTransfer(n) /\ ~CanTransfer(p)
  BY DEF Stopped
<1> HIDE DEF p
<1>3. /\ prx[n] # <<>> => probe[n] = "PROBE_RESPONSE" /\ Len(ptx[n]) = SkidDepth
      /\ ptx[n] # <<>> => Len(txbuf[n]) = FifoDepth
      /\ txbuf[n] # <<>> => Len(rxbuf[p]) = FifoDepth
      /\ rxbuf[n] # <<>> => rx[n] = "RECEIVE" /\ Len(prx[n]) = SkidDepth
      /\ Len(ptx[n]) = SkidDepth => ptx[n] # <<>>
      /\ Len(prx[n]) = SkidDepth => prx[n] # <<>>
      /\ Len(txbuf[n]) = FifoDepth => txbuf[n] # <<>>
      /\ Len(rxbuf[n]) = FifoDepth => rxbuf[n] # <<>>
  BY <1>2, PairWaits DEF p
<1>4. /\ prx[p] # <<>> => probe[p] = "PROBE_RESPONSE" /\ Len(ptx[p]) = SkidDepth
      /\ ptx[p] # <<>> => Len(txbuf[p]) = FifoDepth
      /\ txbuf[p] # <<>> => Len(rxbuf[n]) = FifoDepth
      /\ rxbuf[p] # <<>> => rx[p] = "RECEIVE" /\ Len(prx[p]) = SkidDepth
      /\ Len(ptx[p]) = SkidDepth => ptx[p] # <<>>
      /\ Len(prx[p]) = SkidDepth => prx[p] # <<>>
      /\ Len(txbuf[p]) = FifoDepth => txbuf[p] # <<>>
      /\ Len(rxbuf[p]) = FifoDepth => rxbuf[p] # <<>>
  BY <1>1, <1>2, PairWaits
<1>5. ASSUME ~(Empty(n) /\ Empty(p)) PROVE Full(n) /\ Full(p)
  <2>1. ptx[n] # <<>> /\ ptx[p] # <<>>
    BY <1>3, <1>4, <1>5, Zenon DEF Empty
  <2>2. QED
    BY <1>3, <1>4, <2>1, Zenon DEF Full
<1>6. (Empty(n) /\ Empty(p)) \/ (Full(n) /\ Full(p))
  BY <1>5, Zenon
<1>7. QED
  BY <1>6, Zenon DEF p

\* The stream of a full pair is full.
LEMMA StreamLength ==
  ASSUME NodeTypeOK, NEW w \in [Nodes -> Seq(StreamBeat)], Carried(w), NEW n \in Nodes
  PROVE  Len(w[n]) = Len(rxbuf[Peer[n]]) + Len(txbuf[n])
<1>1. rxbuf[Peer[n]] \in Seq(WireBeat) /\ txbuf[n] \in Seq(WireBeat)
  BY PeerFacts DEF NodeTypeOK
<1>2. Len(rxbuf[Peer[n]] \o txbuf[n]) = Len(rxbuf[Peer[n]]) + Len(txbuf[n])
  BY <1>1
<1>3. QED
  BY <1>2 DEF Carried, Matches, Stream

LEMMA FullIsLong ==
  ASSUME NodeTypeOK, NEW w, NEW t, NEW r, NEW c, Frames(w, t, r, c), Carried(w),
         NEW n \in Nodes, Full(n), Full(Peer[n])
  PROVE  len[n] + 1 + len[Peer[n]] + 1 > SafeBeats
<1> DEFINE p == Peer[n]
<1>1. p \in Nodes /\ Peer[p] = n /\ w \in [Nodes -> Seq(StreamBeat)] /\ c \in [Nodes -> Nat]
  BY PeerFacts DEF Frames
<1>2. Full(n) /\ Full(p) /\ FifoDepth \in Nat /\ SkidDepth = 2
  BY ConstantFacts DEF SkidDepth
<1>3. ptx[n] # <<>> /\ ptx[p] # <<>> /\ rx[n] # "IDLE" /\ rx[p] # "IDLE"
  <2>1. \A q : q = <<>> => Len(q) = 0
    OBVIOUS
  <2>2. Len(ptx[n]) # 0 /\ Len(ptx[p]) # 0 /\ rx[n] = "RECEIVE" /\ rx[p] = "RECEIVE"
    BY <1>2 DEF Full
  <2>3. QED
    BY <2>1, <2>2
<1>4. Len(w[n]) = FifoDepth + FifoDepth /\ Len(w[p]) = FifoDepth + FifoDepth
  BY <1>1, <1>2, StreamLength DEF Full
<1>5. /\ 4 + (FifoDepth + FifoDepth) <= (Sent(n) - c[p]) + (c[n] - Seen(p)) + 1
      /\ 4 + (FifoDepth + FifoDepth) <= (Sent(p) - c[n]) + (c[p] - Seen(n)) + 1
  <2>1. Len(ptx[n]) + Len(w[n]) + Len(prx[p]) <= (Sent(n) - c[p]) + (c[n] - Seen(p)) + 1
    BY <1>3, WayLoad
  <2>2. Len(ptx[p]) + Len(w[p]) + Len(prx[n]) <= (Sent(p) - c[n]) + (c[p] - Seen(n)) + 1
    BY <1>1, <1>3, WayLoad
  <2>3. /\ Len(ptx[n]) = 2 /\ Len(prx[n]) = 2 /\ Len(ptx[p]) = 2 /\ Len(prx[p]) = 2
    BY <1>2 DEF Full
  <2> DEFINE X == (Sent(n) - c[p]) + (c[n] - Seen(p)) + 1
             Y == (Sent(p) - c[n]) + (c[p] - Seen(n)) + 1
             F == FifoDepth + FifoDepth
  <2>4. F \in Nat
    BY <1>2
  <2>5. 2 + F + 2 <= X /\ 2 + F + 2 <= Y
    BY <1>4, <2>1, <2>2, <2>3
  <2>6. 2 + F + 2 = 4 + F
    BY <2>4
  <2> HIDE DEF X, Y, F
  <2>7. 4 + F <= X /\ 4 + F <= Y
    BY <2>5, <2>6
  <2>8. QED
    BY <2>7 DEF X, Y, F
<1>6. Sent(n) <= len[n] + 1 /\ Sent(p) <= len[p] + 1
  BY <1>1, EnteredBound
<1>7. /\ Sent(n) \in Nat /\ Sent(p) \in Nat /\ Seen(n) \in Nat /\ Seen(p) \in Nat
      /\ c[n] \in Nat /\ c[p] \in Nat /\ len[n] \in Nat /\ len[p] \in Nat
  BY <1>1, CounterTypes
<1> HIDE DEF p
<1>8. len[n] + 1 + len[p] + 1 > 4 * FifoDepth + 5
  <2>1. \A s1, s2, e1, e2, c1, c2, l1, l2, F \in Nat :
          /\ 4 + (F + F) <= (s1 - c2) + (c1 - e2) + 1
          /\ 4 + (F + F) <= (s2 - c1) + (c2 - e1) + 1
          /\ s1 <= l1 + 1 /\ s2 <= l2 + 1
          => l1 + 1 + l2 + 1 > 4 * F + 5
    OBVIOUS
  <2>2. QED
    BY <1>2, <1>5, <1>6, <1>7, <2>1, Zenon
<1>9. QED
  BY <1>8 DEF SafeBeats, p

LEMMA StoppedIsQuiet ==
  ASSUME NodeTypeOK, PairInv, NEW n \in Nodes, Stopped(n)
  PROVE  /\ Empty(n) /\ Empty(Peer[n]) => Quiet(n)
         /\ Full(n) /\ Full(Peer[n]) => Wedged(n)
<1>1. PICK w, t, r, c : Frames(w, t, r, c) /\ Carried(w) /\ AtWork(c)
  BY DEF PairInv
<1>2. /\ Peer[n] \in Nodes /\ Peer[Peer[n]] = n /\ w \in [Nodes -> Seq(StreamBeat)]
      /\ ~NodeCanStep(n) /\ ~NodeCanStep(Peer[n])
  BY <1>1, PeerFacts DEF Frames, Stopped, CanTransfer
<1>3. ASSUME Empty(n), Empty(Peer[n]) PROVE Quiet(n)
  <2>1. Len(w[n]) = 0 /\ Len(w[Peer[n]]) = 0
    <3>1. Len(w[n]) = Len(<<>>) + Len(<<>>) /\ Len(w[Peer[n]]) = Len(<<>>) + Len(<<>>)
      BY <1>1, <1>2, <1>3, StreamLength DEF Empty
    <3>2. QED
      BY <3>1
  <2>2. w[n] = <<>> /\ w[Peer[n]] = <<>>
    BY <1>2, <2>1, EmptyFacts
  <2>3. tester[n] = "STOP" /\ tfg[n] = "IDLE" /\ probe[n] = "IDLE"
    BY <1>1, <1>2, <1>3, <2>2, EmptyIsIdle DEF Empty
  <2>4. QED
    BY <1>3, <2>3 DEF Quiet, Empty
<1>4. ASSUME Full(n), Full(Peer[n]) PROVE Wedged(n)
  <2>1. len[n] + 1 + len[Peer[n]] + 1 > SafeBeats
    BY <1>1, <1>4, FullIsLong
  <2>2. AtWorkAt(c, Peer[n])
    BY <1>1, <1>2 DEF AtWork
  <2>3. tester[n] = "COUNT_LATENCY"
    BY <1>2, <1>4, <2>2 DEF Full, AtWorkAt, Open
  <2>4. QED
    BY <1>4, <2>1, <2>3 DEF Wedged, Full
<1>5. QED
  BY <1>3, <1>4

(***************************************************************************)
(* Whenever nothing of a pair can move it is quiet, or both nodes wait in  *)
(* the middle of an echo with every buffer full and frames of more than    *)
(* SafeBeats beats together (framing.py:227-245), for any lengths, depths  *)
(* and number of pairs: no frame within SafeBeats is ever left half way.   *)
(***************************************************************************)
THEOREM PingStopsQuietOrWedged == Spec => []StopsQuietOrWedged
<1>1. NodeTypeOK /\ PairInv => StopsQuietOrWedged
  <2> SUFFICES ASSUME NodeTypeOK, PairInv, NEW n \in Nodes, Stopped(n)
               PROVE  \/ Quiet(n) /\ Quiet(Peer[n])
                      \/ Wedged(n) /\ Wedged(Peer[n])
    BY DEF StopsQuietOrWedged
  <2>1. Peer[n] \in Nodes /\ Peer[Peer[n]] = n /\ Stopped(Peer[n])
    BY PeerFacts DEF Stopped
  <2>2. \/ Empty(n) /\ Empty(Peer[n])
        \/ Full(n) /\ Full(Peer[n])
    BY StoppedPair
  <2>3. QED
    BY <2>1, <2>2, StoppedIsQuiet
<1>2. QED
  BY <1>1, PingTypeCorrect, PairInvariant, PTL
=============================================================================
