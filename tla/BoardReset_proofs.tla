-------------------------- MODULE BoardReset_proofs --------------------------
(***************************************************************************)
(* The reset chain is safe for every length of its counters and of its     *)
(* synchronizers: IInv is inductive, and the order of the clock resets,    *)
(* the widths of the pulses, the state of the core at the release and the  *)
(* withdrawal of done follow from it.                                      *)
(***************************************************************************)
EXTENDS BoardReset, TLAPS

LEMMA ConstantFacts ==
  /\ EosLen \in Nat /\ EosLen >= 1
  /\ CounterTop \in Nat /\ CounterTop >= 1
  /\ RstPbCycle \in Nat /\ PmaInitCycle \in Nat
  /\ SyncLen \in Nat /\ SyncLen >= 1
  /\ SyncLen <= RstPbCycle + PmaInitCycle + 2
  /\ Longest \in Nat
  /\ MaxLosses \in Nat
BY StartupAssumption, SequencerAssumption, BoardAssumption DEF Longest
USE ConstantFacts

LEMMA InitInv == Init => IInv
<1> SUFFICES ASSUME Init PROVE IInv
  OBVIOUS
<1> USE DEF Init, StartupInit, SequencerInit
<1>1. BoardTypeOK
  <2>1. /\ eos \in BOOLEAN /\ eosSync \in BOOLEAN
        /\ porRst \in BOOLEAN /\ mmcmRst \in BOOLEAN
        /\ sr \in [1..EosLen -> BOOLEAN]
    OBVIOUS
  <2>2. /\ extReset \in BOOLEAN /\ extBuf \in BOOLEAN
        /\ done \in BOOLEAN /\ resetPb \in BOOLEAN /\ pmaInit \in BOOLEAN
        /\ locked \in BOOLEAN /\ sysReset \in BOOLEAN
        /\ lockedSync \in [1..SyncLen -> BOOLEAN]
        /\ sysResetSync \in [1..SyncLen -> BOOLEAN]
    OBVIOUS
  <2>3. /\ porCount \in 0..CounterTop /\ mmcmCount \in 0..CounterTop
        /\ assertCount \in 0..Longest /\ losses \in 0..MaxLosses
        /\ clockUp \in 0..ClockSeen /\ unlocked \in 0..LockSeen
        /\ pbWidth \in 0..PbSeen /\ pmaWidth \in 0..PmaSeen
    BY SMT DEF ClockSeen, PbSeen, PmaSeen, LockSeen
  <2>4. seqState \in SeqStates
    BY DEF SeqStates
  <2> QED
    BY <2>1, <2>2, <2>3, <2>4 DEF BoardTypeOK, StartupTypeOK, SequencerTypeOK
<1>2. ClockOrder
  BY DEF ClockOrder, MmcmAfterClock
<1>3. WidthsFollow
  BY DEF WidthsFollow, Timed
<1>4. SamplesFresh
  BY DEF SamplesFresh
<1>5. LockFresh
  BY DEF LockFresh, DoneWithdrawn
<1> QED
  BY <1>1, <1>2, <1>3, <1>4, <1>5 DEF IInv

--------------------------------------------------------------------------------
\* The edge of CFGMCLK.

LEMMA ConfigEdgeType == IInv /\ ConfigEdge => BoardTypeOK'
<1> SUFFICES ASSUME IInv, ConfigEdge PROVE BoardTypeOK'
  OBVIOUS
<1> USE DEF IInv, BoardTypeOK, ConfigEdge, ConfigClock
<1>1. sr' \in [1..EosLen -> BOOLEAN]
  BY DEF StartupTypeOK, Shifted
<1>2. porCount' \in 0..CounterTop /\ mmcmCount' \in 0..CounterTop
  BY DEF StartupTypeOK, CountAfter
<1>3. eosSync' \in BOOLEAN /\ porRst' \in BOOLEAN /\ mmcmRst' \in BOOLEAN
  BY DEF StartupTypeOK, ResetAfter
<1>4. StartupTypeOK'
  BY <1>1, <1>2, <1>3 DEF StartupTypeOK
<1>5. SequencerTypeOK'
  BY DEF seqVars, SequencerTypeOK
<1>6. locked' \in BOOLEAN
  BY <1>3
<1>7. clockUp' \in 0..ClockSeen
  BY DEF ClockSeen, Least
<1> QED
  BY <1>4, <1>5, <1>6, <1>7 DEF PbSeen, PmaSeen, LockSeen

LEMMA ConfigEdgeOrder == IInv /\ ConfigEdge => ClockOrder'
<1> SUFFICES ASSUME IInv, ConfigEdge PROVE ClockOrder'
  OBVIOUS
<1>1. /\ mmcmCount \in 0..CounterTop /\ clockUp \in 0..ClockSeen
      /\ porRst \in BOOLEAN /\ mmcmRst \in BOOLEAN
  BY DEF IInv, BoardTypeOK, StartupTypeOK
<1>2. /\ mmcmCount' = CountAfter(mmcmCount, porRst)
      /\ mmcmRst' = ResetAfter(mmcmCount, porRst)
      /\ clockUp' = IF porRst' THEN 0 ELSE Least(clockUp + 1, ClockSeen)
  BY DEF ConfigEdge, ConfigClock
<1>3. ClockOrder
  BY DEF IInv
<1> QED
  BY <1>1, <1>2, <1>3 DEF ClockOrder, MmcmAfterClock, CountAfter, ResetAfter,
                          Least, ClockSeen
--------------------------------------------------------------------------------
\* The edge of init_clk.

LEMMA InitEdgeType == IInv /\ InitEdge => BoardTypeOK'
<1> SUFFICES ASSUME IInv, InitEdge PROVE BoardTypeOK'
  OBVIOUS
<1>1. BoardTypeOK /\ WidthsFollow
  BY DEF IInv
<1>2. lockedSync' \in [1..SyncLen -> BOOLEAN] /\ sysResetSync' \in [1..SyncLen -> BOOLEAN]
  BY <1>1 DEF BoardTypeOK, SequencerTypeOK, InitEdge, InitClock, Sampled
<1>3. seqState' \in SeqStates
  BY <1>1 DEF BoardTypeOK, SequencerTypeOK, InitEdge, InitClock, NextSeqState,
              SeqStates
<1>4. assertCount' \in 0..Longest
  <2>1. assertCount \in 0..Longest /\ assertCount' = NextCount
    BY <1>1 DEF BoardTypeOK, SequencerTypeOK, InitEdge, InitClock
  <2> QED
    BY <1>1, <2>1 DEF WidthsFollow, NextCount, Timed, Target, Longest
<1>5. /\ extReset' \in BOOLEAN /\ extBuf' \in BOOLEAN
      /\ done' \in BOOLEAN /\ resetPb' \in BOOLEAN /\ pmaInit' \in BOOLEAN
  BY <1>1 DEF BoardTypeOK, SequencerTypeOK, InitEdge, InitClock
<1>6. StartupTypeOK' /\ locked' \in BOOLEAN /\ sysReset' \in BOOLEAN
      /\ losses' \in 0..MaxLosses /\ clockUp' \in 0..ClockSeen
  BY <1>1 DEF BoardTypeOK, StartupTypeOK, InitEdge, startupVars, ClockSeen
<1>7. /\ pbWidth' \in 0..PbSeen /\ pmaWidth' \in 0..PmaSeen
      /\ unlocked' \in 0..LockSeen
  BY <1>1 DEF BoardTypeOK, InitEdge, Least, PbSeen, PmaSeen, LockSeen
<1> QED
  BY <1>2, <1>3, <1>4, <1>5, <1>6, <1>7 DEF BoardTypeOK, SequencerTypeOK

\* What the next lemmas need of the edge, without the CASE of the code.
LEMMA SequencerMoves ==
  ASSUME IInv, InitEdge
  PROVE  /\ seqState' # "IDLE" => lockedSync[SyncLen]
         /\ seqState' = "ASSERT_RSTPB" =>
              \/ seqState = "IDLE" /\ assertCount' = assertCount
              \/ /\ seqState = "ASSERT_RSTPB" /\ assertCount # RstPbCycle
                 /\ assertCount' = assertCount + 1
         /\ seqState' = "ASSERT_PMAINIT" =>
              \/ /\ seqState = "ASSERT_RSTPB" /\ assertCount = RstPbCycle
                 /\ assertCount' = 0
              \/ /\ seqState = "ASSERT_PMAINIT" /\ assertCount # PmaInitCycle
                 /\ assertCount' = assertCount + 1
         /\ seqState' = "NEGATE_PMAINIT" =>
              \/ seqState = "ASSERT_PMAINIT" /\ assertCount = PmaInitCycle
              \/ seqState = "NEGATE_PMAINIT"
         /\ seqState' = "NEGATE_RSTPB" =>
              \/ seqState = "NEGATE_PMAINIT" /\ sysResetSync[SyncLen]
              \/ seqState = "NEGATE_RSTPB"
         /\ seqState' \notin {"ASSERT_RSTPB", "ASSERT_PMAINIT"} => assertCount' = 0
         /\ resetPb' = (seqState \in {"ASSERT_RSTPB", "ASSERT_PMAINIT",
                                      "NEGATE_PMAINIT"})
         /\ pmaInit' = (seqState = "ASSERT_PMAINIT")
         /\ done' = (seqState = "NEGATE_RSTPB")
<1>1. /\ seqState' = NextSeqState /\ assertCount' = NextCount
      /\ done' = (seqState = "NEGATE_RSTPB")
      /\ pmaInit' = (seqState = "ASSERT_PMAINIT")
      /\ resetPb' = (seqState \in {"ASSERT_RSTPB", "ASSERT_PMAINIT",
                                   "NEGATE_PMAINIT"})
  BY DEF InitEdge, InitClock
<1>2. /\ ~Timed => assertCount = 0
      /\ seqState \in SeqStates
      /\ assertCount \in 0..Longest
  BY DEF IInv, WidthsFollow, BoardTypeOK, SequencerTypeOK
<1>3. CASE Abort
  BY <1>1, <1>2, <1>3 DEF NextSeqState, NextCount
<1>4. CASE ~Abort
  <2>1. lockedSync[SyncLen]
    BY <1>4 DEF Abort
  <2>2. CASE seqState = "IDLE"
    BY <1>1, <1>2, <1>4, <2>1, <2>2 DEF NextSeqState, NextCount, Timed
  <2>3. CASE seqState = "ASSERT_RSTPB"
    <3>1. Timed /\ Target = RstPbCycle
      BY <2>3 DEF Timed, Target
    <3> QED
      BY <1>1, <1>2, <1>4, <2>1, <2>3, <3>1 DEF NextSeqState, NextCount
  <2>4. CASE seqState = "ASSERT_PMAINIT"
    <3>1. Timed /\ Target = PmaInitCycle
      BY <2>4 DEF Timed, Target
    <3> QED
      BY <1>1, <1>2, <1>4, <2>1, <2>4, <3>1 DEF NextSeqState, NextCount
  <2>5. CASE seqState = "NEGATE_PMAINIT"
    BY <1>1, <1>2, <1>4, <2>1, <2>5 DEF NextSeqState, NextCount, Timed
  <2>6. CASE seqState = "NEGATE_RSTPB"
    BY <1>1, <1>2, <1>4, <2>1, <2>6 DEF NextSeqState, NextCount, Timed
  <2> QED
    BY <1>2, <2>2, <2>3, <2>4, <2>5, <2>6 DEF SeqStates
<1> QED
  BY <1>3, <1>4

LEMMA InitEdgeWidths == IInv /\ InitEdge => WidthsFollow'
<1> SUFFICES ASSUME IInv, InitEdge PROVE WidthsFollow'
  OBVIOUS
<1>1. /\ assertCount \in Nat /\ pbWidth \in Nat /\ pmaWidth \in Nat
      /\ seqState \in SeqStates /\ resetPb \in BOOLEAN /\ pmaInit \in BOOLEAN
  BY DEF IInv, BoardTypeOK, SequencerTypeOK, PbSeen, PmaSeen
<1>2. WidthsFollow
  BY DEF IInv
<1>3. /\ pbWidth' = IF ~resetPb' THEN 0
                    ELSE IF pmaInit' \/ pmaWidth > 0 THEN pbWidth
                    ELSE Least(pbWidth + 1, RstPbCycle + 2)
      /\ pmaWidth' = IF ~resetPb' THEN 0
                     ELSE IF pmaInit' THEN Least(pmaWidth + 1, PmaInitCycle + 2)
                     ELSE pmaWidth
  BY DEF InitEdge, PbSeen, PmaSeen
<1>4. ~resetPb' => pbWidth' = 0 /\ pmaWidth' = 0 /\ ~pmaInit'
  BY <1>3, SequencerMoves
<1>9. resetPb' => ~done'
  BY SequencerMoves
<1>5. ~Timed' => assertCount' = 0
  BY SequencerMoves DEF Timed
<1>6. seqState' = "ASSERT_RSTPB" =>
          /\ assertCount' <= RstPbCycle
          /\ pbWidth' = assertCount' /\ pmaWidth' = 0 /\ ~pmaInit'
          /\ ~resetPb' => assertCount' = 0
  <2>1. CASE seqState = "IDLE"
    <3>1. assertCount = 0
      BY <1>2, <2>1 DEF WidthsFollow, Timed
    <3>2. ~resetPb' /\ ~pmaInit'
      BY <2>1, SequencerMoves
    <3>3. pbWidth' = 0 /\ pmaWidth' = 0
      BY <1>3, <3>2
    <3> QED
      BY <2>1, <3>1, <3>2, <3>3, SequencerMoves
  <2>2. CASE seqState = "ASSERT_RSTPB" /\ assertCount # RstPbCycle
    <3>1. /\ assertCount + 1 <= RstPbCycle /\ pbWidth = assertCount
          /\ pmaWidth = 0
      BY <1>1, <1>2, <2>2 DEF WidthsFollow
    <3>2. resetPb' /\ ~pmaInit'
      BY <2>2, SequencerMoves
    <3>3. pbWidth' = assertCount + 1 /\ pmaWidth' = 0
      BY <1>1, <1>3, <3>1, <3>2 DEF Least
    <3> QED
      BY <2>2, <3>1, <3>2, <3>3, SequencerMoves
  <2> QED
    BY <2>1, <2>2, SequencerMoves
<1>7. seqState' = "ASSERT_PMAINIT" =>
          /\ assertCount' <= PmaInitCycle
          /\ pbWidth' = RstPbCycle + 1 /\ pmaWidth' = assertCount' /\ resetPb'
  <2>1. CASE seqState = "ASSERT_RSTPB" /\ assertCount = RstPbCycle
    <3>1. pbWidth = RstPbCycle /\ pmaWidth = 0
      BY <1>2, <2>1 DEF WidthsFollow
    <3>2. resetPb' /\ ~pmaInit'
      BY <2>1, SequencerMoves
    <3>3. pbWidth' = RstPbCycle + 1 /\ pmaWidth' = 0
      BY <1>1, <1>3, <3>1, <3>2 DEF Least
    <3> QED
      BY <2>1, <3>2, <3>3, SequencerMoves
  <2>2. CASE seqState = "ASSERT_PMAINIT" /\ assertCount # PmaInitCycle
    <3>1. /\ assertCount + 1 <= PmaInitCycle
          /\ pbWidth = RstPbCycle + 1 /\ pmaWidth = assertCount
      BY <1>1, <1>2, <2>2 DEF WidthsFollow
    <3>2. resetPb' /\ pmaInit'
      BY <2>2, SequencerMoves
    <3>3. pbWidth' = RstPbCycle + 1 /\ pmaWidth' = assertCount + 1
      BY <1>1, <1>3, <3>1, <3>2 DEF Least
    <3> QED
      BY <2>2, <3>1, <3>2, <3>3, SequencerMoves
  <2> QED
    BY <2>1, <2>2, SequencerMoves
<1>8. seqState' = "NEGATE_PMAINIT" \/ (seqState' = "NEGATE_RSTPB" /\ ~done') =>
          /\ pbWidth' = RstPbCycle + 1 /\ pmaWidth' = PmaInitCycle + 1
          /\ resetPb'
  <2>1. CASE seqState = "ASSERT_PMAINIT" /\ assertCount = PmaInitCycle
    <3>1. pbWidth = RstPbCycle + 1 /\ pmaWidth = PmaInitCycle
      BY <1>2, <2>1 DEF WidthsFollow
    <3>2. resetPb' /\ pmaInit'
      BY <2>1, SequencerMoves
    <3> QED
      BY <1>1, <1>3, <3>1, <3>2 DEF Least
  <2>2. CASE seqState = "NEGATE_PMAINIT"
    <3>1. pbWidth = RstPbCycle + 1 /\ pmaWidth = PmaInitCycle + 1
      BY <1>2, <2>2 DEF WidthsFollow
    <3>2. resetPb' /\ ~pmaInit'
      BY <2>2, SequencerMoves
    <3> QED
      BY <1>1, <1>3, <3>1, <3>2
  <2>3. CASE seqState = "NEGATE_RSTPB"
    BY <2>3, SequencerMoves
  <2> QED
    BY <2>1, <2>2, <2>3, SequencerMoves
<1> QED
  BY <1>4, <1>5, <1>6, <1>7, <1>8, <1>9 DEF WidthsFollow

LEMMA Earlier ==
  ASSUME NEW a \in Nat, NEW b \in Nat, NEW c \in Nat, NEW d \in Nat, NEW k \in Int,
         k <= c + d, c + d <= a + b + 1
  PROVE  k - 1 <= a + b
OBVIOUS

LEMMA InitEdgeSamples == IInv /\ InitEdge => SamplesFresh'
<1> SUFFICES ASSUME IInv, InitEdge PROVE SamplesFresh'
  OBVIOUS
<1>1. /\ pbWidth \in 0..PbSeen /\ pmaWidth \in 0..PmaSeen
      /\ sysResetSync \in [1..SyncLen -> BOOLEAN]
  BY DEF IInv, BoardTypeOK, SequencerTypeOK
<1>2. /\ sysResetSync' = Sampled(sysResetSync, sysReset)
      /\ sysReset' = sysReset
  BY DEF InitEdge, InitClock
<1>3. WidthsFollow /\ SamplesFresh
  BY DEF IInv
<1>4. pbWidth' + pmaWidth' <= pbWidth + pmaWidth + 1
  BY <1>1 DEF InitEdge, Least, PbSeen, PmaSeen
<1>5. ASSUME resetPb', NEW k \in 1..SyncLen,
             k <= pbWidth' + pmaWidth', sysResetSync'[k]
      PROVE  sysReset'
  <2>1. CASE k = 1
    BY <1>1, <1>2, <1>5, <2>1 DEF Sampled
  <2>2. CASE k # 1
    <3>1. k - 1 \in 1..SyncLen /\ k - 1 <= pbWidth + pmaWidth
      <4>1. pbWidth' \in Nat /\ pmaWidth' \in Nat
        BY InitEdgeType DEF BoardTypeOK, PbSeen, PmaSeen
      <4>2. k - 1 \in 1..SyncLen
        BY <2>2
      <4>3. pbWidth \in Nat /\ pmaWidth \in Nat
        BY <1>1 DEF PbSeen, PmaSeen
      <4>4. k <= pbWidth' + pmaWidth'
        BY <1>5
      <4>5. k \in Int
        OBVIOUS
      <4>6. k - 1 <= pbWidth + pmaWidth
        BY <1>4, <4>1, <4>3, <4>4, <4>5, Earlier
      <4> QED
        BY <4>2, <4>6
    <3>2. sysResetSync[k - 1]
      BY <1>1, <1>2, <1>5, <2>2 DEF Sampled
    <3>3. resetPb
      BY <1>1, <1>3, <3>1 DEF WidthsFollow, PbSeen, PmaSeen
    <3> QED
      BY <1>2, <1>3, <3>1, <3>2, <3>3 DEF SamplesFresh
  <2> QED
    BY <2>1, <2>2
<1>6. ASSUME seqState' = "NEGATE_RSTPB", resetPb' PROVE sysReset'
  <2>1. seqState = "NEGATE_PMAINIT" /\ sysResetSync[SyncLen]
    BY <1>6, SequencerMoves
  <2>2. resetPb /\ SyncLen <= pbWidth + pmaWidth
    BY <1>3, <2>1 DEF WidthsFollow
  <2>3. SyncLen \in 1..SyncLen
    OBVIOUS
  <2> QED
    BY <1>2, <1>3, <2>1, <2>2, <2>3 DEF SamplesFresh
<1> QED
  BY <1>5, <1>6 DEF SamplesFresh

LEMMA InitEdgeLock == IInv /\ InitEdge => LockFresh'
<1> SUFFICES ASSUME IInv, InitEdge PROVE LockFresh'
  OBVIOUS
<1>1. /\ unlocked \in 0..LockSeen
      /\ lockedSync \in [1..SyncLen -> BOOLEAN]
  BY DEF IInv, BoardTypeOK, SequencerTypeOK
<1>2. /\ lockedSync' = Sampled(lockedSync, locked)
      /\ unlocked' = IF locked THEN 0 ELSE Least(unlocked + 1, LockSeen)
  BY DEF InitEdge, InitClock
<1>3. LockFresh
  BY DEF IInv
<1>4. unlocked' <= unlocked + 1
  BY <1>1, <1>2 DEF Least, LockSeen
<1>5. ASSUME NEW k \in 1..SyncLen, lockedSync'[k] PROVE unlocked' < k
  <2>1. CASE k = 1
    <3>1. locked
      BY <1>1, <1>2, <1>5, <2>1 DEF Sampled
    <3> QED
      BY <1>2, <3>1
  <2>2. CASE k # 1
    <3>1. k - 1 \in 1..SyncLen
      BY <2>2
    <3>2. lockedSync[k - 1]
      BY <1>1, <1>2, <1>5, <2>2 DEF Sampled
    <3>3. unlocked < k - 1
      BY <1>3, <3>1, <3>2 DEF LockFresh
    <3>4. unlocked' \in Int
      BY <1>1, <1>2 DEF Least, LockSeen
    <3> QED
      BY <1>1, <1>4, <3>1, <3>3, <3>4 DEF LockSeen
  <2> QED
    BY <2>1, <2>2
<1>6. ASSUME seqState' # "IDLE" PROVE unlocked' <= SyncLen
  <2>1. lockedSync[SyncLen] /\ SyncLen \in 1..SyncLen
    BY <1>6, SequencerMoves
  <2>2. unlocked < SyncLen
    BY <1>3, <2>1 DEF LockFresh
  <2> QED
    BY <1>1, <1>2, <2>2 DEF Least, LockSeen
<1>7. ASSUME done' PROVE unlocked' <= SyncLen + 1
  <2>1. seqState # "IDLE"
    BY <1>7, SequencerMoves
  <2> QED
    BY <1>1, <1>2, <1>3, <2>1 DEF LockFresh, Least, LockSeen
<1> QED
  BY <1>5, <1>6, <1>7 DEF LockFresh, DoneWithdrawn

--------------------------------------------------------------------------------
\* Every step, and the theorems.

LEMMA InitEdgeInv == IInv /\ InitEdge => IInv'
<1> SUFFICES ASSUME IInv, InitEdge PROVE IInv'
  OBVIOUS
<1>1. ClockOrder'
  BY DEF IInv, ClockOrder, MmcmAfterClock, InitEdge, startupVars
<1> QED
  BY <1>1, InitEdgeType, InitEdgeWidths, InitEdgeSamples, InitEdgeLock DEF IInv

LEMMA ConfigEdgeInv == IInv /\ ConfigEdge => IInv'
<1> SUFFICES ASSUME IInv, ConfigEdge PROVE IInv'
  OBVIOUS
<1>1. UNCHANGED <<seqVars, sysReset, pbWidth, pmaWidth, unlocked>>
  BY DEF ConfigEdge
<1>2. WidthsFollow' /\ SamplesFresh' /\ LockFresh'
  BY <1>1 DEF IInv, WidthsFollow, SamplesFresh, LockFresh, DoneWithdrawn, Timed,
              seqVars
<1> QED
  BY <1>2, ConfigEdgeType, ConfigEdgeOrder DEF IInv

\* The other actions move one bit and leave the registers alone.
LEMMA OutsideInv ==
  ASSUME IInv,
         Configuration \/ VioSwitch \/ Lock \/ LockLost \/ CoreResets \/ CoreRuns
  PROVE  IInv'
<1> USE DEF Configuration, EosChange, VioSwitch, ExtResetChange, Lock, LockLost,
            CoreResets, CoreRuns, pinVars
<1>1. BoardTypeOK
  BY DEF IInv
<1>2. /\ UNCHANGED <<porCount, porRst, mmcmCount, mmcmRst, sr, eosSync>>
      /\ UNCHANGED <<lockedSync, sysResetSync, extBuf, seqState, assertCount,
                     done, resetPb, pmaInit>>
      /\ UNCHANGED pinVars
  BY DEF startupVars, seqVars
<1>3. eos' \in BOOLEAN /\ extReset' \in BOOLEAN /\ locked' \in BOOLEAN
      /\ sysReset' \in BOOLEAN
  BY <1>1 DEF BoardTypeOK, StartupTypeOK, SequencerTypeOK, startupVars, seqVars
<1>4. losses' \in 0..MaxLosses
  BY <1>1 DEF BoardTypeOK
<1>5. BoardTypeOK'
  <2>1. StartupTypeOK'
    BY <1>1, <1>2, <1>3 DEF BoardTypeOK, StartupTypeOK
  <2>2. SequencerTypeOK'
    BY <1>1, <1>2, <1>3 DEF BoardTypeOK, SequencerTypeOK
  <2> QED
    BY <1>1, <1>2, <1>3, <1>4, <2>1, <2>2
       DEF BoardTypeOK, ClockSeen, PbSeen, PmaSeen, LockSeen
<1>6. ClockOrder' /\ WidthsFollow' /\ LockFresh'
  BY <1>2 DEF IInv, ClockOrder, MmcmAfterClock, WidthsFollow, Timed, LockFresh,
              DoneWithdrawn
<1>7. resetPb /\ sysReset => sysReset'
  OBVIOUS
<1>8. SamplesFresh'
  BY <1>2, <1>7 DEF IInv, SamplesFresh
<1> QED
  BY <1>5, <1>6, <1>8 DEF IInv

LEMMA StepInv == IInv /\ [Next]_vars => IInv'
<1> SUFFICES ASSUME IInv, [Next]_vars PROVE IInv'
  OBVIOUS
<1>1. CASE UNCHANGED vars
  BY <1>1 DEF vars, startupVars, seqVars, pinVars, IInv, BoardTypeOK,
     StartupTypeOK, SequencerTypeOK, ClockOrder, MmcmAfterClock, WidthsFollow,
     SamplesFresh, LockFresh, DoneWithdrawn, Timed, ClockSeen, PbSeen, PmaSeen,
     LockSeen
<1> QED
  BY <1>1, InitEdgeInv, ConfigEdgeInv, OutsideInv DEF Next

(***************************************************************************)
(* The invariant of the reset chain, for counters and synchronizers of     *)
(* every length (util/reset.py, aurora_reset_seq.sv).                      *)
(***************************************************************************)
THEOREM ResetInvariant == Spec => []IInv
BY InitInv, StepInv, PTL DEF Spec

(***************************************************************************)
(* The MMCM is released only after the reference clock has been up for a   *)
(* whole count (util/reset.py:86-98).                                      *)
(***************************************************************************)
THEOREM ClockBeforeMmcm == Spec => []MmcmAfterClock
<1>1. IInv => MmcmAfterClock
  BY DEF IInv, ClockOrder
<1> QED
  BY <1>1, ResetInvariant, PTL

(***************************************************************************)
(* done does not outlive the lock by more than the way through the         *)
(* synchronizers (aurora_reset_seq.sv:86-119).                             *)
(***************************************************************************)
THEOREM DoneFollowsLock == Spec => []DoneWithdrawn
<1>1. IInv => DoneWithdrawn
  BY DEF IInv, LockFresh
<1> QED
  BY <1>1, ResetInvariant, PTL

(***************************************************************************)
(* A core is declared initialised only after pulses of full width, however *)
(* often the sequence was cut short (aurora_reset_seq.sv:67-84).           *)
(***************************************************************************)
THEOREM PulsesAreFull == Spec => FullWidths
<1>1. ASSUME IInv, InitEdge, done', ~done
      PROVE  pbWidth = RstPbCycle + 1 /\ pmaWidth = PmaInitCycle + 1
  BY <1>1, SequencerMoves DEF IInv, WidthsFollow
<1>2. IInv /\ [Next]_vars =>
        [done' /\ ~done => pbWidth = RstPbCycle + 1 /\ pmaWidth = PmaInitCycle + 1]_vars
  <2> SUFFICES ASSUME IInv, Next, done', ~done
               PROVE  pbWidth = RstPbCycle + 1 /\ pmaWidth = PmaInitCycle + 1
    OBVIOUS
  <2>1. ~InitEdge => UNCHANGED done
    BY DEF Next, ConfigEdge, Configuration, VioSwitch, ExtResetChange, Lock,
           LockLost, CoreResets, CoreRuns, seqVars
  <2> QED
    BY <1>1, <2>1
<1> QED
  BY <1>2, ResetInvariant, PTL DEF Spec, FullWidths

(***************************************************************************)
(* reset_pb gives way to done only while the core is in reset: no level    *)
(* left over from an earlier sequence is taken for the answer to this one  *)
(* (aurora_reset_seq.sv:103-105, aurora.py:119-120).                       *)
(***************************************************************************)
THEOREM CoreIsHeld == Spec => ReleasedInReset
<1>1. ASSUME IInv, InitEdge, resetPb, done' PROVE sysReset
  BY <1>1, SequencerMoves DEF IInv, SamplesFresh
<1>2. IInv /\ [Next]_vars => [resetPb /\ done' => sysReset]_vars
  <2> SUFFICES ASSUME IInv, Next, resetPb, done' PROVE sysReset
    OBVIOUS
  <2>1. ~InitEdge => UNCHANGED done
    BY DEF Next, ConfigEdge, Configuration, VioSwitch, ExtResetChange, Lock,
           LockLost, CoreResets, CoreRuns, seqVars
  <2>2. ~done
    BY DEF IInv, WidthsFollow
  <2> QED
    BY <1>1, <2>1, <2>2
<1> QED
  BY <1>2, ResetInvariant, PTL DEF Spec, ReleasedInReset
================================================================================
