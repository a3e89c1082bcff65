------------------------------ MODULE BoardReset ------------------------------
(***************************************************************************)
(* From configuration to a running Aurora core on the VCU1525, as          *)
(* vcu1525_aurora.py wires it: StartupReset releases the reference clock   *)
(* and then the MMCM, the lock of the MMCM lets AuroraResetSeq run, and    *)
(* that brings the core out of reset.  The MMCM and the core are external. *)
(* CFGMCLK and init_clk are independent, so their edges interleave freely. *)
(***************************************************************************)
EXTENDS StartupReset, AuroraResetSeq

CONSTANT MaxLosses      \* bound: losses of lock that CFGMCLK did not cause
ASSUME BoardAssumption == MaxLosses \in Nat

VARIABLES
    locked,             \* LOCKED of the MMCM
    losses,             \* how often the lock was lost
    sysReset,           \* sys_reset_out of the core
    \* What a logic analyser on the pins would count, saturating.
    clockUp,            \* CFGMCLK edges since the reference clock is released
    pbWidth,            \* init_clk edges of reset_pb before pma_init
    pmaWidth,           \* init_clk edges of pma_init
    unlocked            \* init_clk edges in a row without lock

pinVars == <<clockUp, pbWidth, pmaWidth, unlocked>>
vars == <<startupVars, seqVars, locked, losses, sysReset, pinVars>>

\* Where the counts stop.
ClockSeen == CounterTop + 2
PbSeen    == RstPbCycle + 2
PmaSeen   == PmaInitCycle + 2
LockSeen  == SyncLen + 3

Least(a, b) == IF a < b THEN a ELSE b

BoardTypeOK ==
    /\ StartupTypeOK /\ SequencerTypeOK
    /\ locked \in BOOLEAN /\ sysReset \in BOOLEAN
    /\ losses \in 0..MaxLosses
    /\ clockUp \in 0..ClockSeen /\ unlocked \in 0..LockSeen
    /\ pbWidth \in 0..PbSeen /\ pmaWidth \in 0..PmaSeen

Init ==
    /\ StartupInit /\ SequencerInit
    /\ locked = FALSE /\ losses = 0
    /\ sysReset \in BOOLEAN
    /\ clockUp = 0 /\ pbWidth = 0 /\ pmaWidth = 0 /\ unlocked = 0

(* One edge of CFGMCLK.  The reset of the MMCM takes the lock at once.     *)
ConfigEdge ==
    /\ ConfigClock
    /\ locked' = (locked /\ ~mmcmRst')
    /\ clockUp' = IF porRst' THEN 0 ELSE Least(clockUp + 1, ClockSeen)
    /\ UNCHANGED <<seqVars, losses, sysReset, pbWidth, pmaWidth, unlocked>>

(* One edge of init_clk.                                                   *)
InitEdge ==
    /\ InitClock(locked, sysReset)
    /\ pbWidth' = IF ~resetPb' THEN 0
                  ELSE IF pmaInit' \/ pmaWidth > 0 THEN pbWidth
                  ELSE Least(pbWidth + 1, PbSeen)
    /\ pmaWidth' = IF ~resetPb' THEN 0
                   ELSE IF pmaInit' THEN Least(pmaWidth + 1, PmaSeen)
                   ELSE pmaWidth
    /\ unlocked' = IF locked THEN 0 ELSE Least(unlocked + 1, LockSeen)
    /\ UNCHANGED <<startupVars, locked, losses, sysReset, clockUp>>

Configuration ==
    /\ EosChange
    /\ UNCHANGED <<seqVars, locked, losses, sysReset, pinVars>>

VioSwitch ==
    /\ ExtResetChange
    /\ UNCHANGED <<startupVars, locked, losses, sysReset, pinVars>>

(* External: a released MMCM locks; it loses the lock with its input clock.*)
Lock ==
    /\ ~mmcmRst /\ ~locked
    /\ locked' = TRUE
    /\ UNCHANGED <<startupVars, seqVars, losses, sysReset, pinVars>>

LockLost ==
    /\ locked /\ losses < MaxLosses
    /\ locked' = FALSE
    /\ losses' = losses + 1
    /\ UNCHANGED <<startupVars, seqVars, sysReset, pinVars>>

(* External: the core reports reset once it is told to reset, and reports  *)
(* the end of it only after both resets are gone.                          *)
CoreResets ==
    /\ resetPb /\ ~sysReset
    /\ sysReset' = TRUE
    /\ UNCHANGED <<startupVars, seqVars, locked, losses, pinVars>>

CoreRuns ==
    /\ ~resetPb /\ ~pmaInit /\ sysReset
    /\ sysReset' = FALSE
    /\ UNCHANGED <<startupVars, seqVars, locked, losses, pinVars>>

Next ==
    \/ ConfigEdge \/ InitEdge \/ Configuration \/ VioSwitch
    \/ Lock \/ LockLost \/ CoreResets \/ CoreRuns

Spec == Init /\ [][Next]_vars

\* Clocks tick and the core obeys; EOS, the VIO switch and losses are free.
Fairness ==
    /\ WF_vars(ConfigEdge) /\ WF_vars(InitEdge)
    /\ WF_vars(Lock) /\ WF_vars(CoreResets)
FairSpec == Spec /\ Fairness
--------------------------------------------------------------------------------
(* The MMCM is not released before the reference clock generator has been  *)
(* out of reset for a whole count of CFGMCLK edges, also when EOS drops    *)
(* and comes back (diagram of vcu1525_aurora.py:117-121).                  *)
MmcmAfterClock == ~mmcmRst /\ ~porRst => clockUp > CounterTop

(* A core is declared initialised only after a complete sequence: its last *)
(* reset_pb led pma_init by RstPbCycle + 1 edges and pma_init lasted       *)
(* PmaInitCycle + 1, however often the sequence was cut short before       *)
(* (assert_count of aurora_reset_seq.sv:67-84 starts over).  The widths    *)
(* are read at the edge that lets go of reset_pb.                          *)
FullWidths ==
    [][done' /\ ~done => pbWidth = RstPbCycle + 1 /\ pmaWidth = PmaInitCycle + 1]_vars

(* reset_pb is let go in favour of done only while the core is in reset:   *)
(* the level that the synchronizer shows is never left over from an        *)
(* earlier sequence (aurora_reset_seq.sv:103-105).                         *)
ReleasedInReset == [][resetPb /\ done' => sysReset]_vars

(* done does not outlive the lock by more than the synchronizer and the    *)
(* output register.                                                        *)
DoneWithdrawn == done => unlocked <= SyncLen + 1

(* Once configuration is over and nobody holds the VIO reset, the core is  *)
(* brought up, whatever was cut short before.                              *)
Initialized == <>[](eos /\ ~extReset) => <>[]done
--------------------------------------------------------------------------------
(* The inductive invariant behind the safety properties.                   *)

\* The second counter started no earlier than the reference clock.
ClockOrder ==
    /\ porRst => clockUp = 0
    /\ ~porRst => clockUp > mmcmCount
    /\ MmcmAfterClock

\* In each state of the sequencer the pins have shown what its count says.
WidthsFollow ==
    /\ ~resetPb => pbWidth = 0 /\ pmaWidth = 0 /\ ~pmaInit
    /\ resetPb => ~done
    /\ ~Timed => assertCount = 0
    /\ seqState = "ASSERT_RSTPB" =>
          /\ assertCount <= RstPbCycle
          /\ pbWidth = assertCount /\ pmaWidth = 0 /\ ~pmaInit
          /\ ~resetPb => assertCount = 0
    /\ seqState = "ASSERT_PMAINIT" =>
          /\ assertCount <= PmaInitCycle
          /\ pbWidth = RstPbCycle + 1 /\ pmaWidth = assertCount /\ resetPb
    /\ seqState = "NEGATE_PMAINIT" \/ (seqState = "NEGATE_RSTPB" /\ ~done) =>
          /\ pbWidth = RstPbCycle + 1 /\ pmaWidth = PmaInitCycle + 1
          /\ resetPb

\* A stage of the synchronizer filled since reset_pb rose tells the truth.
SamplesFresh ==
    /\ resetPb => \A k \in 1..SyncLen :
          k <= pbWidth + pmaWidth /\ sysResetSync[k] => sysReset
    /\ seqState = "NEGATE_RSTPB" /\ resetPb => sysReset

\* A lock that a stage still shows is as old as the stage.
LockFresh ==
    /\ \A k \in 1..SyncLen : lockedSync[k] => unlocked < k
    /\ seqState # "IDLE" => unlocked <= SyncLen
    /\ DoneWithdrawn

IInv == BoardTypeOK /\ ClockOrder /\ WidthsFollow /\ SamplesFresh /\ LockFresh
================================================================================
