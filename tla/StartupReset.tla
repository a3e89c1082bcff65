----------------------------- MODULE StartupReset -----------------------------
(***************************************************************************)
(* XilinxStartupReset of util/reset.py: the chain of resets that starts a  *)
(* board.  The end of configuration (EOS) is sampled by a shift register;  *)
(* a first counter then holds the reset of the QSFP reference clock        *)
(* generator, and a second counter, held by the first reset, that of the   *)
(* MMCM.  Everything is clocked by CFGMCLK: ConfigClock is one edge.       *)
(***************************************************************************)
EXTENDS Integers, Sequences

CONSTANTS
    EosLen,         \* stages of _ShiftSync (10)
    CounterTop      \* last value of a PoRCounter (2^10 - 1)

ASSUME StartupAssumption == /\ EosLen \in Nat \ {0}
                            /\ CounterTop \in Nat \ {0}

VARIABLES
    eos,            \* EOS of STARTUPE3
    sr,             \* shift register of _ShiftSync, newest sample first
    eosSync,        \* its registered AND
    porCount, porRst,       \* PoRCounter that resets cfgmclk_por
    mmcmCount, mmcmRst      \* PoRCounter that resets cfgmclk_mmcm

startupVars == <<eos, sr, eosSync, porCount, porRst, mmcmCount, mmcmRst>>

StartupTypeOK ==
    /\ eos \in BOOLEAN /\ eosSync \in BOOLEAN
    /\ sr \in [1..EosLen -> BOOLEAN]
    /\ porCount \in 0..CounterTop /\ porRst \in BOOLEAN
    /\ mmcmCount \in 0..CounterTop /\ mmcmRst \in BOOLEAN

StartupInit ==
    /\ eos = FALSE /\ eosSync = FALSE
    /\ sr = [k \in 1..EosLen |-> FALSE]
    /\ porCount = 0 /\ porRst = TRUE
    /\ mmcmCount = 0 /\ mmcmRst = TRUE

(* A PoRCounter stops at its last value (timeout) and lets go of reset_com *)
(* one clock later; the reset of its domain takes both back.               *)
\* Slip: the counter is not held by the reset of its domain.
CountAfterFree(count, rst) ==
    IF count = CounterTop THEN count ELSE count + 1

CountAfter(count, rst) ==
    IF rst THEN 0 ELSE IF count = CounterTop THEN count ELSE count + 1

ResetAfter(count, rst) == rst \/ count # CounterTop

(* The newest sample enters a shift register of the length of s.           *)
Shifted(s, bit) == [k \in DOMAIN s |-> IF k = 1 THEN bit ELSE s[k - 1]]

ConfigClock ==
    /\ sr' = Shifted(sr, eos)
    /\ eosSync' = (\A k \in 1..EosLen : sr[k])
    /\ porCount' = CountAfter(porCount, ~eosSync)
    /\ porRst' = ResetAfter(porCount, ~eosSync)
    /\ mmcmCount' = CountAfter(mmcmCount, porRst)
    /\ mmcmRst' = ResetAfter(mmcmCount, porRst)
    /\ UNCHANGED eos

(* EOS belongs to the configuration logic; it may move at any time.        *)
EosChange ==
    /\ eos' = ~eos
    /\ UNCHANGED <<sr, eosSync, porCount, porRst, mmcmCount, mmcmRst>>
================================================================================
