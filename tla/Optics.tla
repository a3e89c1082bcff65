------------------------------- MODULE Optics -------------------------------
(***************************************************************************)
(* The optics of the TFOIL board as the BIOS drives them over I2C: the     *)
(* commands of cmd_firefly.c and cmd_i2c.c, trefoil_dev.c, and the list of *)
(* commands that bootcmd.c runs before the first prompt.  A port of the    *)
(* multi-port master (i2c_mp.py, i2c_selector.sv) leads to an I/O expander *)
(* (TCA9555: the reset lines of the FireFly modules, two registers of      *)
(* them), to a switch (TCA9548: the modules themselves, all at the same    *)
(* address) or to a clock generator (Si5341: a paged register file).       *)
(* Any transfer may fail at any byte, and the SoC may be reset anywhere:   *)
(* the chips outside keep what they have.                                  *)
(* Definitions marked "Slip" are mistakes that the properties must notice. *)
(***************************************************************************)
EXTENDS Naturals, Sequences

CONSTANTS
  NExpanders, NSwitches, NPlls,   \* TFOIL: 7, 4 and 2
  SelMod,       \* values of the sel register, 2 ^ bits_for(number of ports)
  Banks,        \* Banks[p]: first and last GTY behind the switch at port p
  Values,       \* settings of a divider
  Wanted        \* the setting that bootcmd.c asks for

ExpanderPorts == 0..(NExpanders - 1)
SwitchPorts   == NExpanders..(NExpanders + NSwitches - 1)
Halves        == ExpanderPorts \X {0, 1}
PllPorts      == (NExpanders + NSwitches)..(NExpanders + NSwitches + NPlls - 1)

ASSUME OpticsAssumption ==
  /\ NExpanders \in Nat \ {0} /\ NSwitches \in Nat \ {0} /\ NPlls \in Nat \ {0}
  /\ SelMod \in Nat /\ SelMod > NExpanders + NSwitches + NPlls
  /\ Banks \in [SwitchPorts -> [first : Nat, last : Nat]]
  /\ \A p \in SwitchPorts : Banks[p].first <= Banks[p].last
  /\ \A p, q \in SwitchPorts : p < q => Banks[p].last < Banks[q].first
  /\ Wanted \in Values /\ {"default", "torn"} \cap Values = {}

VARIABLES
  at,          \* the command that runs, and where it is
  script,      \* commands of bootcmd.c that were started
  clean,       \* history: since the SoC came up only bootcmd.c, and no error
  resetFailed, \* history: the last reset_firefly printed an error
  sel,         \* CSR i2c_sel_w
  sbPll, sbSwitch,  \* CSRs sb_si5341_o (rstb) and sb_tca9548: FALSE is reset
  page, num, den, op,  \* of one divider of each clock generator: its registers
                       \* and the setting in operation
  switch,      \* the channels that each switch connects
  dir, out, held       \* of the two registers of reset lines of each expander;
                       \* history: held low for half a second

csrs == <<sel, sbPll, sbSwitch>>
pll  == <<page, num, den, op>>
expander == <<dir, out, held>>
vars == <<at, script, clean, resetFailed, csrs, pll, switch, expander>>

Gtys == UNION {Banks[p].first..Banks[p].last : p \in SwitchPorts}

\* gty2mux: the port of the switch and its channel.
Gty2Mux(g) ==
  LET p == CHOOSE q \in SwitchPorts : g \in Banks[q].first..Banks[q].last
  IN  [port |-> p, channel |-> g - Banks[p].first]

Channels == UNION {0..(Banks[p].last - Banks[p].first) : p \in SwitchPorts}

Command(cmd, phase, n, v) == [cmd |-> cmd, phase |-> phase, n |-> n, b |-> 0, v |-> v]
Idle == Command("none", "idle", 0, Wanted)

ResetPlls     == Command("reset_si5341", "hold_plls", 0, Wanted)
SetDivider(p, v) == Command("set_si5341_n_divider", "page", p, v)
GetDivider(p) == Command("get_si5341_n_divider", "page", p, Wanted)
ResetSwitches == Command("reset_tca9548", "hold_switches", 0, Wanted)
ResetFirefly  == Command("reset_firefly", "direct", 0, Wanted)
Firefly(g)    == Command("i2c_firefly", "switch", g, Wanted)
Status(g)     == Command("get_firefly_status", "switch", g, Wanted)

\* Slip: the clock generators are reset after they were set.
ScriptLateReset ==
  [i \in 1..NPlls |-> SetDivider(NExpanders + NSwitches + i - 1, Wanted)]
  \o <<ResetPlls, ResetSwitches, ResetFirefly>>

\* bootcmds.
Script ==
  <<ResetPlls>> \o [i \in 1..NPlls |-> SetDivider(NExpanders + NSwitches + i - 1, Wanted)]
  \o <<ResetSwitches, ResetFirefly>>

PageZero      == [p \in PllPorts |-> 0]
DefaultNumber == [p \in PllPorts |-> "default"]
DefaultOp     == [p \in PllPorts |-> <<"default", "default">>]

PllsReset ==
  page' = PageZero /\ num' = DefaultNumber /\ den' = DefaultNumber /\ op' = DefaultOp

Init ==
  /\ at = Idle /\ script = 0 /\ clean = TRUE /\ resetFailed = FALSE
  /\ sel = 0 /\ sbPll = FALSE /\ sbSwitch = FALSE
  /\ page = PageZero /\ num = DefaultNumber /\ den = DefaultNumber /\ op = DefaultOp
  /\ switch = [p \in SwitchPorts |-> {}]
  /\ dir = [h \in Halves |-> "in"] /\ out = [h \in Halves |-> "power_on"]
  /\ held = [h \in Halves |-> FALSE]
-----------------------------------------------------------------------------
\* Where a command goes on after a transfer; an error ends it and is printed.
GoOn(phase, n, b) ==
  /\ at' = [cmd |-> at.cmd, phase |-> phase, n |-> n, b |-> b, v |-> at.v]
  /\ UNCHANGED <<script, clean, resetFailed>>

Finish ==
  /\ at' = Idle
  /\ resetFailed' = (resetFailed /\ at.cmd # "reset_firefly")
  /\ UNCHANGED <<script, clean>>

Fail ==
  /\ at' = Idle
  /\ clean' = FALSE
  /\ resetFailed' = (resetFailed \/ at.cmd = "reset_firefly")
  /\ UNCHANGED script

Selects(p) == sel' = p /\ UNCHANGED <<sbPll, sbSwitch>>

Then(ok, phase, n, b) == IF ok THEN GoOn(phase, n, b) ELSE Fail
-----------------------------------------------------------------------------
(* Clock generators.                                                       *)

\* trefoil_clock_gen_reset
HoldPlls ==
  /\ at.phase = "hold_plls"
  /\ sbPll' = FALSE
  /\ PllsReset
  /\ GoOn("release_plls", 0, 0)
  /\ UNCHANGED <<sel, sbSwitch, switch, expander>>

ReleasePlls ==
  /\ at.phase = "release_plls"
  /\ sbPll' = TRUE
  /\ Finish
  /\ UNCHANGED <<sel, sbSwitch, pll, switch, expander>>

\* A chip in reset, and a port without one, do not acknowledge.
PllAnswers(p) == p \in PllPorts /\ sbPll

\* The registers of a divider are in page 3.
InPage == PllAnswers(sel) /\ page[sel] = 3

SetPage ==
  /\ at.phase = "page"
  /\ Selects(at.n)
  /\ \E ok \in BOOLEAN, x \in {page[at.n], 3} :
       /\ ok => PllAnswers(at.n) /\ x = 3
       /\ page' = IF PllAnswers(at.n) THEN [page EXCEPT ![at.n] = x] ELSE page
       /\ Then(ok, IF at.cmd = "get_si5341_n_divider" THEN "read" ELSE "num", at.n, 0)
  /\ UNCHANGED <<num, den, op, switch, expander>>

SetNumerator ==
  /\ at.phase = "num"
  /\ \E ok \in BOOLEAN, x \in {num[sel], at.v, "torn"} :
       /\ ok => PllAnswers(sel) /\ x = at.v
       /\ num' = IF InPage THEN [num EXCEPT ![sel] = x] ELSE num
       /\ Then(ok, "den", at.n, 0)
  /\ UNCHANGED <<csrs, page, den, op, switch, expander>>

SetDenominator ==
  /\ at.phase = "den"
  /\ \E ok \in BOOLEAN, x \in {den[sel], at.v, "torn"} :
       /\ ok => PllAnswers(sel) /\ x = at.v
       /\ den' = IF InPage THEN [den EXCEPT ![sel] = x] ELSE den
       /\ Then(ok, "update", at.n, 0)
  /\ UNCHANGED <<csrs, page, num, op, switch, expander>>

\* The chip divides by what the registers hold at an update.
Update ==
  /\ at.phase = "update"
  /\ \E ok \in BOOLEAN, x \in {op[sel], <<num[sel], den[sel]>>} :
       /\ ok => PllAnswers(sel) /\ x = <<num[sel], den[sel]>>
       /\ op' = IF InPage THEN [op EXCEPT ![sel] = x] ELSE op
       /\ IF ok THEN Finish ELSE Fail
  /\ UNCHANGED <<csrs, page, num, den, switch, expander>>

ReadDivider ==
  /\ at.phase = "read"
  /\ \/ PllAnswers(sel) /\ Finish
     \/ Fail
  /\ UNCHANGED <<csrs, pll, switch, expander>>
-----------------------------------------------------------------------------
(* Resets of the modules.  Direction, then level, for both registers of    *)
(* one expander after the other; when all are low, half a second; then up. *)

InReset(h) == dir[h] = "out" /\ out[h] = "assert"

SetDirection ==
  /\ at.phase = "direct"
  /\ Selects(at.n)
  /\ \E ok \in BOOLEAN, x \in {dir[<<at.n, at.b>>], "out"} :
       /\ ok => x = "out"
       /\ dir' = [dir EXCEPT ![<<at.n, at.b>>] = x]
       /\ Then(ok, IF at.b = 0 THEN "direct" ELSE "assert", at.n, 1 - at.b)
  /\ UNCHANGED <<pll, switch, out, held>>

\* Slip: each expander is released as soon as it is reset.
AssertResetEach ==
  /\ at.phase = "assert"
  /\ \E ok \in BOOLEAN, x \in {out[<<sel, at.b>>], "assert"} :
       /\ ok => x = "assert"
       /\ out' = [out EXCEPT ![<<sel, at.b>>] = x]
       /\ held' = [held EXCEPT ![<<sel, at.b>>] = @ /\ out[<<sel, at.b>>] = x]
       /\ IF at.b = 0 THEN Then(ok, "assert", at.n, 1) ELSE Then(ok, "release", at.n, 0)
  /\ UNCHANGED <<csrs, pll, switch, dir>>

AssertReset ==
  /\ at.phase = "assert"
  /\ \E ok \in BOOLEAN, x \in {out[<<sel, at.b>>], "assert"} :
       /\ ok => x = "assert"
       /\ out' = [out EXCEPT ![<<sel, at.b>>] = x]
       /\ held' = [held EXCEPT ![<<sel, at.b>>] = @ /\ out[<<sel, at.b>>] = x]
       /\ IF at.b = 0 THEN Then(ok, "assert", at.n, 1)
          ELSE IF at.n + 1 < NExpanders THEN Then(ok, "direct", at.n + 1, 0)
          ELSE Then(ok, "wait", 0, 0)
  /\ UNCHANGED <<csrs, pll, switch, dir>>

\* DELAY_MS(500)
Hold ==
  /\ at.phase = "wait"
  /\ held' = [h \in Halves |-> held[h] \/ InReset(h)]
  /\ GoOn("release", 0, 0)
  /\ UNCHANGED <<csrs, pll, switch, dir, out>>

ReleaseReset ==
  /\ at.phase = "release"
  /\ Selects(at.n)
  /\ \E ok \in BOOLEAN, x \in {out[<<at.n, at.b>>], "release"} :
       /\ ok => x = "release"
       /\ out' = [out EXCEPT ![<<at.n, at.b>>] = x]
       /\ IF at.b = 0 THEN Then(ok, "release", at.n, 1)
          ELSE IF at.n + 1 < NExpanders THEN Then(ok, "release", at.n + 1, 0)
          ELSE IF ok THEN Finish ELSE Fail
  /\ UNCHANGED <<pll, switch, dir, held>>
-----------------------------------------------------------------------------
(* Switches and the modules behind them.                                   *)

\* trefoil_iicio_reset
HoldSwitches ==
  /\ at.phase = "hold_switches"
  /\ sbSwitch' = FALSE
  /\ switch' = [p \in SwitchPorts |-> {}]
  /\ GoOn("release_switches", 0, 0)
  /\ UNCHANGED <<sel, sbPll, pll, expander>>

ReleaseSwitches ==
  /\ at.phase = "release_switches"
  /\ sbSwitch' = TRUE
  /\ Finish
  /\ UNCHANGED <<sel, sbPll, pll, switch, expander>>

SwitchAnswers(p) == p \in SwitchPorts /\ sbSwitch

\* The modules that a transfer to their address reaches.
Connected ==
  IF sel \in SwitchPorts THEN {g \in Gtys : Gty2Mux(g).port = sel /\ Gty2Mux(g).channel \in switch[sel]}
  ELSE {}

\* Slip: the result of the write to the switch is not looked at.
SelectModuleAnyway ==
  /\ at.phase = "switch"
  /\ LET way == Gty2Mux(at.n) IN
       /\ Selects(way.port)
       /\ \E x \in {switch[way.port], {way.channel}} :
            switch' = IF SwitchAnswers(way.port) THEN [switch EXCEPT ![way.port] = x] ELSE switch
  /\ GoOn("access", at.n, 0)
  /\ UNCHANGED <<pll, expander>>

SelectModule ==
  /\ at.phase = "switch"
  /\ LET way == Gty2Mux(at.n) IN
       /\ Selects(way.port)
       /\ \E ok \in BOOLEAN, x \in {switch[way.port], {way.channel}} :
            /\ ok => SwitchAnswers(way.port) /\ x = {way.channel}
            /\ switch' = IF SwitchAnswers(way.port) THEN [switch EXCEPT ![way.port] = x] ELSE switch
            /\ Then(ok, "access", at.n, 0)
  /\ UNCHANGED <<pll, expander>>

Later(g) == {h \in Gtys : g < h}

\* i2c_write or i2c_read to the module.  get_firefly_status asks a module that
\* answers for more, whatever becomes of that, and goes on with the next one.
Access ==
  /\ at.phase = "access"
  /\ IF at.cmd # "get_firefly_status" THEN Finish \/ Fail
     ELSE IF Later(at.n) = {} THEN Finish
     ELSE \E g \in Later(at.n) : (\A h \in Later(at.n) : g <= h) /\ GoOn("switch", g, 0)
  /\ UNCHANGED <<csrs, pll, switch, expander>>
-----------------------------------------------------------------------------
Waiting == at = Idle

\* main: bootcmd.c's commands come before the first prompt.
ScriptStarts ==
  /\ Waiting /\ script < Len(Script)
  /\ script' = script + 1
  /\ at' = Script[script + 1]
  /\ UNCHANGED <<clean, resetFailed, csrs, pll, switch, expander>>

AtPrompt == Waiting /\ script = Len(Script)

UserStarts(c) ==
  /\ AtPrompt
  /\ at' = c
  /\ clean' = FALSE
  /\ UNCHANGED <<script, resetFailed, csrs, pll, switch, expander>>

\* i2c_mux takes any port; the register has as many bits as it needs.
I2cMux(port) ==
  /\ AtPrompt
  /\ sel' = port % SelMod
  /\ clean' = FALSE
  /\ UNCHANGED <<at, script, resetFailed, sbPll, sbSwitch, pll, switch, expander>>

\* i2c_write at the port that is selected: any channels, or any page.
I2cWriteSwitch(channels) ==
  /\ AtPrompt
  /\ switch' = IF SwitchAnswers(sel) THEN [switch EXCEPT ![sel] = channels] ELSE switch
  /\ clean' = FALSE
  /\ UNCHANGED <<at, script, resetFailed, csrs, pll, expander>>

I2cWritePage(x) ==
  /\ AtPrompt
  /\ page' = IF PllAnswers(sel) THEN [page EXCEPT ![sel] = x] ELSE page
  /\ clean' = FALSE
  /\ UNCHANGED <<at, script, resetFailed, csrs, num, den, op, switch, expander>>

\* The SoC is reset or programmed anew, or only its processor is: the registers
\* of a SoC that is reset hold the clock generators and the switches in reset.
Reboot ==
  /\ at' = Idle /\ script' = 0 /\ clean' = TRUE /\ resetFailed' = FALSE
  /\ \/ UNCHANGED <<csrs, pll, switch>>
     \/ /\ sel' = 0 /\ sbPll' = FALSE /\ sbSwitch' = FALSE
        /\ PllsReset
        /\ switch' = [p \in SwitchPorts |-> {}]
  /\ held' = [h \in Halves |-> FALSE]
  /\ UNCHANGED <<dir, out>>

Next ==
  \/ HoldPlls \/ ReleasePlls \/ SetPage \/ SetNumerator \/ SetDenominator \/ Update \/ ReadDivider
  \/ SetDirection \/ AssertReset \/ Hold \/ ReleaseReset
  \/ HoldSwitches \/ ReleaseSwitches \/ SelectModule \/ Access
  \/ ScriptStarts \/ Reboot
  \/ \E port \in 0..SelMod : I2cMux(port)
  \/ \E channels \in SUBSET Channels : I2cWriteSwitch(channels)
  \/ \E x \in {0, 3} : I2cWritePage(x)
  \/ \E p \in PllPorts, v \in Values : UserStarts(SetDivider(p, v))
  \/ \E p \in PllPorts : UserStarts(GetDivider(p))
  \/ \E g \in Gtys : UserStarts(Firefly(g))
  \/ \E g \in Gtys : (\A h \in Gtys : g <= h) /\ UserStarts(Status(g))
  \/ \E c \in {ResetPlls, ResetSwitches, ResetFirefly} : UserStarts(c)

Spec == Init /\ [][Next]_vars
-----------------------------------------------------------------------------
Commands == {"none", "reset_si5341", "set_si5341_n_divider", "get_si5341_n_divider",
             "reset_tca9548", "reset_firefly", "i2c_firefly", "get_firefly_status"}

Phases == {"idle", "hold_plls", "release_plls", "page", "num", "den", "update", "read",
           "direct", "assert", "wait", "release", "hold_switches", "release_switches",
           "switch", "access"}

Registers == Values \cup {"default", "torn"}

Places == [cmd : Commands, phase : Phases, n : Nat, b : {0, 1}, v : Values]

CpuTypeOK ==
  /\ at \in Places
  /\ script \in 0..Len(Script) /\ clean \in BOOLEAN /\ resetFailed \in BOOLEAN
  /\ sel \in 0..(SelMod - 1) /\ sbPll \in BOOLEAN /\ sbSwitch \in BOOLEAN

ChipTypeOK ==
  /\ page \in [PllPorts -> {0, 3}]
  /\ num \in [PllPorts -> Registers] /\ den \in [PllPorts -> Registers]
  /\ op \in [PllPorts -> Registers \X Registers]
  /\ switch \in [SwitchPorts -> SUBSET Channels]
  /\ dir \in [Halves -> {"in", "out"}] /\ held \in [Halves -> BOOLEAN]
  /\ out \in [Halves -> {"power_on", "assert", "release"}]

TypeOK == CpuTypeOK /\ ChipTypeOK

(***************************************************************************)
(* A transfer to the address that all modules share reaches the module     *)
(* whose GTY was named and no other: commands before it may have selected  *)
(* another port or several channels, and the write to the switch may have  *)
(* failed or gone half through (cmd_firefly.c:363-373, 428-440, 466-476).  *)
(***************************************************************************)
NamedModule == at.phase = "access" => Connected = {at.n}

(***************************************************************************)
(* A divider never runs on half a setting: its numerator and denominator   *)
(* are those of one command, also after transfers that failed on the way   *)
(* (cmd_firefly.c:85-123).                                                 *)
(***************************************************************************)
WholeDivider ==
  \A p \in PllPorts : op[p][1] = op[p][2] /\ op[p][1] # "torn"

(***************************************************************************)
(* At the prompt no module stays in reset without reset_firefly having     *)
(* said that it failed (cmd_firefly.c:241-288).                            *)
(***************************************************************************)
NoSilentReset ==
  AtPrompt /\ (\E h \in Halves : InReset(h)) => resetFailed

(***************************************************************************)
(* What the handlers keep between their transfers makes the three          *)
(* inductive: the port that is selected, the registers already written,    *)
(* the expanders already passed; and until reset_firefly has run for the   *)
(* first time nobody has been told anything.                               *)
(***************************************************************************)
RightPort ==
  /\ at.cmd = "reset_firefly" <=> at.phase \in {"direct", "assert", "wait", "release"}
  /\ at.phase = "idle" => at = Idle
  /\ at.phase \in {"page", "num", "den", "update", "read"} => at.n \in PllPorts
  /\ at.phase \in {"direct", "assert", "release"} => at.n \in ExpanderPorts
  /\ at.phase \in {"switch", "access"} => at.n \in Gtys
  /\ at.phase \in {"num", "den", "update", "assert"} => sel = at.n
  /\ at.phase = "access" =>
       sel = Gty2Mux(at.n).port /\ switch[sel] = {Gty2Mux(at.n).channel}

Programmed ==
  /\ at.phase \in {"num", "den", "update"} => page[at.n] = 3
  /\ at.phase \in {"den", "update"} => num[at.n] = at.v
  /\ at.phase = "update" => den[at.n] = at.v

Passed(h) == h[1] < at.n \/ (h[1] = at.n /\ h[2] < at.b)

HalfInStep(h) ==
  /\ out[h] # "power_on" => dir[h] = "out"
  /\ held[h] => out[h] # "power_on"
  /\ at.phase = "direct" => (h[1] < at.n => InReset(h)) /\ (Passed(h) => dir[h] = "out")
  /\ at.phase = "assert" => (h[1] = at.n => dir[h] = "out") /\ (Passed(h) => InReset(h))
  /\ at.phase = "wait" => InReset(h)
  /\ at.phase = "release" => held[h] /\ (Passed(h) => out[h] = "release")

InStep == \A h \in Halves : HalfInStep(h)

Told ==
  script = Len(Script) /\ at.cmd # "reset_firefly"
    /\ (\E h \in Halves : InReset(h)) => resetFailed

IInv == TypeOK /\ NamedModule /\ WholeDivider /\ NoSilentReset
        /\ RightPort /\ Programmed /\ InStep /\ Told

(***************************************************************************)
(* A module leaves reset only after half a second of it, and only when     *)
(* every module was in reset at that time (cmd_firefly.c:241-282).         *)
(***************************************************************************)
ReleasedAfterHold ==
  [][(\E h \in Halves : InReset(h) /\ ~InReset(h)') => \A h \in Halves : held[h]]_vars

(***************************************************************************)
(* When bootcmd.c has run without an error, the clock generators run with  *)
(* the setting it asks for, every module has been reset and is out of it,  *)
(* and no switch connects a module, whatever state a reset in the middle   *)
(* of an earlier command left the chips in (bootcmd.c:4-14).               *)
(***************************************************************************)
BroughtUp ==
  AtPrompt /\ clean =>
    /\ sbPll /\ \A p \in PllPorts : op[p] = <<Wanted, Wanted>>
    /\ sbSwitch /\ \A p \in SwitchPorts : switch[p] = {}
    /\ \A h \in Halves : held[h] /\ ~InReset(h)

(***************************************************************************)
(* What makes it inductive: which command works in which phase, and what   *)
(* the commands of bootcmd.c that are over have left behind.               *)
(***************************************************************************)
Works ==
  /\ at.phase \in {"hold_plls", "release_plls"} => at.cmd = "reset_si5341"
  /\ at.phase = "page" => at.cmd \in {"set_si5341_n_divider", "get_si5341_n_divider"}
  /\ at.phase = "read" => at.cmd = "get_si5341_n_divider"
  /\ at.phase \in {"num", "den", "update"} => at.cmd = "set_si5341_n_divider"
  /\ at.phase \in {"hold_switches", "release_switches"} => at.cmd = "reset_tca9548"
  /\ at.phase \in {"switch", "access"} => at.cmd \in {"i2c_firefly", "get_firefly_status"}

Line(p) == p - (NExpanders + NSwitches) + 2

Over(line) == script > line \/ (script = line /\ at.cmd = "none")

Running ==
  /\ at.cmd = "reset_si5341" => script = 1
  /\ at.cmd = "set_si5341_n_divider" =>
       at.v = Wanted /\ at.n \in PllPorts /\ script = Line(at.n)
  /\ at.cmd = "reset_tca9548" => script = NPlls + 2
  /\ at.cmd = "reset_firefly" => script = NPlls + 3
  /\ at.cmd \notin {"get_si5341_n_divider", "i2c_firefly", "get_firefly_status"}

Behind ==
  /\ Over(1) => sbPll
  /\ \A p \in PllPorts : Over(Line(p)) => op[p] = <<Wanted, Wanted>>
  /\ at.phase = "release_switches" \/ Over(NPlls + 2) => \A p \in SwitchPorts : switch[p] = {}
  /\ Over(NPlls + 2) => sbSwitch
  /\ Over(NPlls + 3) => \A h \in Halves : held[h] /\ out[h] = "release"

BringsUp == Works /\ (clean => Running /\ Behind)
=============================================================================
