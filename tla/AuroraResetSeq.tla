---------------------------- MODULE AuroraResetSeq ----------------------------
(***************************************************************************)
(* aurora_reset_seq.sv as aurora.py instantiates it: one sequencer per     *)
(* Aurora core that asserts reset_pb, then pma_init inside it, releases    *)
(* pma_init, waits for the core to say that it is in reset and releases    *)
(* reset_pb.  InitClock is one edge of init_clk; every always_ff block and *)
(* the two synchronizers of aurora.py move in it.                          *)
(***************************************************************************)
EXTENDS Integers, Sequences

CONSTANTS
    RstPbCycle,     \* RSTPB_ASSERT_CYCLE (100)
    PmaInitCycle,   \* PMAINIT_ASSERT_CYCLE (100,000,000)
    SyncLen         \* stages of XPMMultiReg (8)

\* The synchronizers are shorter than the resets they watch, so that what
\* they show at the end of a sequence was sampled during it.
ASSUME SequencerAssumption ==
    /\ RstPbCycle \in Nat /\ PmaInitCycle \in Nat
    /\ SyncLen \in Nat \ {0}
    /\ SyncLen <= RstPbCycle + PmaInitCycle + 2

VARIABLES
    lockedSync,     \* stages of the synchronizer of init_clk_locked
    sysResetSync,   \* stages of the synchronizer of sys_reset_out
    extReset,       \* the VIO probe _vio_reset
    extBuf,         \* ext_reset_in_buf
    seqState, assertCount,
    done, resetPb, pmaInit  \* registered outputs

seqVars == <<lockedSync, sysResetSync, extReset, extBuf, seqState,
             assertCount, done, resetPb, pmaInit>>

SeqStates == {"IDLE", "ASSERT_RSTPB", "ASSERT_PMAINIT", "NEGATE_PMAINIT",
              "NEGATE_RSTPB"}
Longest == IF RstPbCycle > PmaInitCycle THEN RstPbCycle ELSE PmaInitCycle

SequencerTypeOK ==
    /\ lockedSync \in [1..SyncLen -> BOOLEAN]
    /\ sysResetSync \in [1..SyncLen -> BOOLEAN]
    /\ extReset \in BOOLEAN /\ extBuf \in BOOLEAN
    /\ seqState \in SeqStates
    /\ assertCount \in 0..Longest
    /\ done \in BOOLEAN /\ resetPb \in BOOLEAN /\ pmaInit \in BOOLEAN

SequencerInit ==
    /\ lockedSync = [k \in 1..SyncLen |-> FALSE]
    /\ sysResetSync = [k \in 1..SyncLen |-> FALSE]
    /\ extReset = FALSE /\ extBuf = FALSE
    /\ seqState = "IDLE" /\ assertCount = 0
    /\ done = FALSE /\ resetPb = FALSE /\ pmaInit = FALSE

Sampled(s, bit) == [k \in DOMAIN s |-> IF k = 1 THEN bit ELSE s[k - 1]]

(* What sends the sequencer back to IDLE at the next edge.                 *)
Abort == ~lockedSync[SyncLen] \/ extBuf

(* The count that ends the current state, where a state is timed.          *)
Target == CASE seqState = "ASSERT_RSTPB"   -> RstPbCycle
            [] seqState = "ASSERT_PMAINIT" -> PmaInitCycle
            [] OTHER -> -1
Timed == seqState \in {"ASSERT_RSTPB", "ASSERT_PMAINIT"}

\* Slip: the count goes on where it was cut short.
NextCountKept ==
    IF Abort \/ ~Timed THEN assertCount
    ELSE IF assertCount = Target THEN 0
    ELSE assertCount + 1

\* Slip: the count is not taken back between the two timed states.
NextCountNoWrap ==
    IF Abort THEN 0
    ELSE IF ~Timed THEN assertCount
    ELSE assertCount + 1

NextCount ==
    IF Abort THEN 0
    ELSE IF ~Timed THEN assertCount
    ELSE IF assertCount = Target THEN 0
    ELSE assertCount + 1

\* Slip: reset_pb is released without waiting for the core.
NextSeqStateNoWait ==
    CASE Abort -> "IDLE"
      [] ~Abort /\ seqState = "IDLE" -> "ASSERT_RSTPB"
      [] ~Abort /\ seqState = "ASSERT_RSTPB" /\ assertCount = Target
           -> "ASSERT_PMAINIT"
      [] ~Abort /\ seqState = "ASSERT_PMAINIT" /\ assertCount = Target
           -> "NEGATE_PMAINIT"
      [] ~Abort /\ seqState = "NEGATE_PMAINIT" -> "NEGATE_RSTPB"
      [] OTHER -> seqState

\* Slip: a finished sequence does not look at the lock any more.
NextSeqStateLatched ==
    CASE seqState = "NEGATE_RSTPB" -> seqState
      [] Abort /\ seqState # "NEGATE_RSTPB" -> "IDLE"
      [] ~Abort /\ seqState = "IDLE" -> "ASSERT_RSTPB"
      [] ~Abort /\ seqState = "ASSERT_RSTPB" /\ assertCount = Target
           -> "ASSERT_PMAINIT"
      [] ~Abort /\ seqState = "ASSERT_PMAINIT" /\ assertCount = Target
           -> "NEGATE_PMAINIT"
      [] ~Abort /\ seqState = "NEGATE_PMAINIT" /\ sysResetSync[SyncLen]
           -> "NEGATE_RSTPB"
      [] OTHER -> seqState

\* Slip: waits for the end of the core's reset instead of its start.
NextSeqStateInverted ==
    CASE Abort -> "IDLE"
      [] ~Abort /\ seqState = "IDLE" -> "ASSERT_RSTPB"
      [] ~Abort /\ seqState = "ASSERT_RSTPB" /\ assertCount = Target
           -> "ASSERT_PMAINIT"
      [] ~Abort /\ seqState = "ASSERT_PMAINIT" /\ assertCount = Target
           -> "NEGATE_PMAINIT"
      [] ~Abort /\ seqState = "NEGATE_PMAINIT" /\ ~sysResetSync[SyncLen]
           -> "NEGATE_RSTPB"
      [] OTHER -> seqState

NextSeqState ==
    CASE Abort -> "IDLE"
      [] ~Abort /\ seqState = "IDLE" -> "ASSERT_RSTPB"
      [] ~Abort /\ seqState = "ASSERT_RSTPB" /\ assertCount = Target
           -> "ASSERT_PMAINIT"
      [] ~Abort /\ seqState = "ASSERT_PMAINIT" /\ assertCount = Target
           -> "NEGATE_PMAINIT"
      [] ~Abort /\ seqState = "NEGATE_PMAINIT" /\ sysResetSync[SyncLen]
           -> "NEGATE_RSTPB"
      [] OTHER -> seqState

(* are_reset_pb_out is |seq_state[1:0]: the states encoded 1, 2 and 3.     *)
InitClock(locked, sysReset) ==
    /\ lockedSync' = Sampled(lockedSync, locked)
    /\ sysResetSync' = Sampled(sysResetSync, sysReset)
    /\ extBuf' = extReset
    /\ assertCount' = NextCount
    /\ seqState' = NextSeqState
    /\ done' = (seqState = "NEGATE_RSTPB")
    /\ resetPb' = (seqState \in {"ASSERT_RSTPB", "ASSERT_PMAINIT",
                                 "NEGATE_PMAINIT"})
    /\ pmaInit' = (seqState = "ASSERT_PMAINIT")
    /\ UNCHANGED extReset

(* Somebody moves the VIO switch.                                          *)
ExtResetChange ==
    /\ extReset' = ~extReset
    /\ UNCHANGED <<lockedSync, sysResetSync, extBuf, seqState, assertCount,
                   done, resetPb, pmaInit>>
================================================================================
