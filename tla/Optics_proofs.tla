--------------------------- MODULE Optics_proofs ---------------------------
(***************************************************************************)
(* What the commands keep true, for every number of expanders, switches,   *)
(* clock generators and modules.                                           *)
(***************************************************************************)
EXTENDS Optics, SequenceTheorems, TLAPS

\* The modules, the ports and the first prompt's commands are what they are
\* taken for.
LEMMA PortsApart ==
  /\ ExpanderPorts \cap SwitchPorts = {} /\ SwitchPorts \cap PllPorts = {}
  /\ ExpanderPorts \cap PllPorts = {}
  /\ ExpanderPorts \cup SwitchPorts \cup PllPorts \subseteq 0..(SelMod - 1)
  /\ 0 \in ExpanderPorts
BY OpticsAssumption DEF ExpanderPorts, SwitchPorts, PllPorts

LEMMA WayToModule ==
  ASSUME NEW g \in Gtys
  PROVE  /\ Gty2Mux(g).port \in SwitchPorts
         /\ Gty2Mux(g).channel \in Channels
         /\ Gty2Mux(g).channel + Banks[Gty2Mux(g).port].first = g
         /\ g \in Nat
<1> DEFINE q == CHOOSE q \in SwitchPorts : g \in Banks[q].first..Banks[q].last
<1>1. q \in SwitchPorts /\ g \in Banks[q].first..Banks[q].last
  BY DEF Gtys
<1>2. Banks[q].first \in Nat /\ Banks[q].last \in Nat
  BY <1>1, OpticsAssumption
<1> HIDE DEF q
<1>3. /\ g \in Nat /\ g - Banks[q].first + Banks[q].first = g
      /\ g - Banks[q].first \in 0..(Banks[q].last - Banks[q].first)
  BY <1>1, <1>2
<1>4. Gty2Mux(g) = [port |-> q, channel |-> g - Banks[q].first]
  BY DEF Gty2Mux, q
<1> QED
  BY <1>1, <1>3, <1>4 DEF Channels

\* A command that starts: typed, and at its first transfer.
Startable(c) ==
  /\ c \in Places
  /\ c.cmd = "reset_firefly" <=> c.phase = "direct"
  /\ c.phase \in {"hold_plls", "page", "hold_switches", "direct", "switch"}
  /\ c.phase = "page" => c.n \in PllPorts
  /\ c.phase = "direct" => c.n = 0 /\ c.b = 0
  /\ c.phase = "switch" => c.n \in Gtys

LEMMA CommandsStart ==
  /\ Startable(ResetPlls) /\ Startable(ResetSwitches) /\ Startable(ResetFirefly)
  /\ \A p \in PllPorts, v \in Values : Startable(SetDivider(p, v)) /\ Startable(GetDivider(p))
  /\ \A g \in Gtys : Startable(Firefly(g)) /\ Startable(Status(g))
<1> USE OpticsAssumption DEF Startable, Command, Places, Commands, Phases
<1>1. Startable(ResetPlls) /\ Startable(ResetSwitches) /\ Startable(ResetFirefly)
  BY DEF ResetPlls, ResetSwitches, ResetFirefly
<1>2. \A p \in PllPorts, v \in Values : Startable(SetDivider(p, v)) /\ Startable(GetDivider(p))
  BY DEF SetDivider, GetDivider, PllPorts
<1>3. \A g \in Gtys : Startable(Firefly(g)) /\ Startable(Status(g))
  BY WayToModule DEF Firefly, Status
<1> QED
  BY <1>1, <1>2, <1>3

LEMMA ScriptIs ==
  /\ Len(Script) = NPlls + 3
  /\ \A i \in 1..Len(Script) :
       Startable(Script[i]) /\ (i = Len(Script) => Script[i] = ResetFirefly)
  /\ Script[1] = ResetPlls /\ Script[NPlls + 2] = ResetSwitches
  /\ \A i \in 2..(NPlls + 1) :
       Script[i] = SetDivider(NExpanders + NSwitches + (i - 1) - 1, Wanted)
<1> DEFINE Sets == [i \in 1..NPlls |-> SetDivider(NExpanders + NSwitches + i - 1, Wanted)]
<1>0. \A i \in 1..NPlls : Sets[i] = SetDivider(NExpanders + NSwitches + i - 1, Wanted)
  OBVIOUS
<1>1. Sets \in Seq(Places) /\ Len(Sets) = NPlls /\ \A i \in 1..NPlls : Startable(Sets[i])
  <2>0. NPlls \in Nat \ {0} /\ NExpanders \in Nat /\ NSwitches \in Nat /\ Wanted \in Values
    BY OpticsAssumption
  <2>1. ASSUME NEW i \in 1..NPlls
        PROVE  Startable(Sets[i]) /\ Sets[i] \in Places
    <3>1. NExpanders + NSwitches + i - 1 \in PllPorts
      BY <2>0 DEF PllPorts
    <3>2. Startable(SetDivider(NExpanders + NSwitches + i - 1, Wanted))
      BY <2>0, <3>1, CommandsStart
    <3> QED
      BY <3>2 DEF Startable
  <2>2. Sets \in [1..NPlls -> Places]
    BY <2>1
  <2>3. Sets \in Seq(Places) /\ Len(Sets) = NPlls
    <3> HIDE DEF Sets
    <3> QED
      BY <2>0, <2>2
  <2> QED
    BY <2>1, <2>3
<1>2. <<ResetPlls>> \in Seq(Places) /\ <<ResetSwitches, ResetFirefly>> \in Seq(Places)
  BY CommandsStart DEF Startable
<1> DEFINE One == <<ResetPlls>>
           Front == One \o Sets
<1> HIDE DEF Sets
<1>3. /\ Front \in Seq(Places) /\ Len(Front) = NPlls + 1
      /\ \A i \in 1..Len(Front) : Front[i] = IF i = 1 THEN ResetPlls ELSE Sets[i - 1]
  <2>0. One \in Seq(Places) /\ Len(One) = 1 /\ One[1] = ResetPlls
    BY <1>2
  <2> HIDE DEF One
  <2>1. /\ Front \in Seq(Places) /\ Len(Front) = 1 + Len(Sets)
        /\ \A i \in 1..(1 + Len(Sets)) : Front[i] = IF i <= 1 THEN One[i] ELSE Sets[i - 1]
    <3>1. Sets \in Seq(Places)
      BY <1>1
    <3>2. /\ One \o Sets \in Seq(Places) /\ Len(One \o Sets) = Len(One) + Len(Sets)
          /\ \A i \in 1..(Len(One) + Len(Sets)) :
               (One \o Sets)[i] = IF i <= Len(One) THEN One[i] ELSE Sets[i - Len(One)]
      BY <2>0, <3>1, ConcatProperties
    <3> QED
      BY <2>0, <3>2 DEF Front
  <2>2. NPlls \in Nat
    BY OpticsAssumption
  <2> HIDE DEF Front
  <2> QED
    BY <1>1, <2>0, <2>1, <2>2
<1>4. Script = Front \o <<ResetSwitches, ResetFirefly>>
  BY DEF Script, Sets
<1> HIDE DEF Front, One
<1>5. /\ Len(Script) = NPlls + 3
      /\ \A i \in 1..Len(Script) : Script[i] = IF i <= NPlls + 1 THEN Front[i]
                                   ELSE <<ResetSwitches, ResetFirefly>>[i - (NPlls + 1)]
  BY <1>2, <1>3, <1>4, ConcatProperties, OpticsAssumption
<1>6. ASSUME NEW i \in 1..Len(Script)
      PROVE  Startable(Script[i]) /\ (i = Len(Script) => Script[i] = ResetFirefly)
  <2>1. CASE i = 1
    BY <2>1, <1>3, <1>5, CommandsStart, OpticsAssumption
  <2>2. CASE i > 1 /\ i <= NPlls + 1
    BY <2>2, <1>1, <1>3, <1>5, OpticsAssumption
  <2>3. CASE i = NPlls + 2
    BY <2>3, <1>5, CommandsStart, OpticsAssumption
  <2>4. CASE i = NPlls + 3
    BY <2>4, <1>5, CommandsStart, OpticsAssumption
  <2> QED
    BY <2>1, <2>2, <2>3, <2>4, <1>5, OpticsAssumption
<1>7. Script[1] = ResetPlls /\ Script[NPlls + 2] = ResetSwitches
  BY <1>3, <1>5, OpticsAssumption
<1>8. ASSUME NEW i \in 2..(NPlls + 1)
      PROVE  Script[i] = SetDivider(NExpanders + NSwitches + (i - 1) - 1, Wanted)
  <2>1. Script[i] = Sets[i - 1] /\ i - 1 \in 1..NPlls
    BY <1>3, <1>5, OpticsAssumption
  <2> QED
    BY <1>0, <2>1
<1> QED
  BY <1>5, <1>6, <1>7, <1>8

(***************************************************************************)
(* The registers of the processor stay typed, however a transfer ends.     *)
(***************************************************************************)
CpuKept == at' \in Places /\ script' = script /\ clean' \in BOOLEAN /\ resetFailed' \in BOOLEAN

LEMMA EndTyped ==
  ASSUME CpuTypeOK, Finish \/ Fail
  PROVE  CpuKept
<1>1. at' \in Places /\ script' = script
  BY OpticsAssumption DEF Finish, Fail, Idle, Command, Places, Commands, Phases
<1>2. clean' \in BOOLEAN
  BY DEF Finish, Fail, CpuTypeOK
<1>3. resetFailed' \in BOOLEAN
  BY Zenon DEF Finish, Fail
<1> QED
  BY <1>1, <1>2, <1>3 DEF CpuKept

LEMMA ThenTyped ==
  ASSUME CpuTypeOK, NEW ok \in BOOLEAN, NEW phase \in Phases, NEW n \in Nat, NEW b \in {0, 1},
         Then(ok, phase, n, b)
  PROVE  CpuKept
<1>1. CASE ok
  BY <1>1 DEF Then, GoOn, CpuTypeOK, Places, CpuKept
<1>2. CASE ~ok
  BY <1>2, EndTyped DEF Then
<1> QED
  BY <1>1, <1>2

LEMMA HoldPllsKeeps ==
  ASSUME IInv, HoldPlls PROVE IInv'
<1>0. /\ CpuTypeOK /\ ChipTypeOK /\ NamedModule /\ WholeDivider /\ NoSilentReset
      /\ RightPort /\ Programmed /\ InStep /\ Told
  BY DEF IInv, TypeOK
<1>a. at \in Places /\ at.phase \in Phases /\ at.n \in Nat /\ at.b \in {0, 1} /\ at.v \in Values
  BY <1>0 DEF CpuTypeOK, Places
<1> USE <1>a, OpticsAssumption, PortsApart, WayToModule
<1> USE DEF HoldPlls, csrs, pll, expander
<1>1. CpuTypeOK'
  <2>1. CpuKept
    BY <1>0, EndTyped, ThenTyped
    DEF GoOn, Then, CpuTypeOK, Places, Phases, CpuKept, Later, ExpanderPorts, RightPort, Idle,
        Command, Commands
  <2>2. sel' \in 0..(SelMod - 1) /\ sbPll' \in BOOLEAN /\ sbSwitch' \in BOOLEAN
    BY <1>0 DEF CpuTypeOK, Selects, RightPort
  <2> QED
    BY <1>0, <2>1, <2>2 DEF CpuKept, CpuTypeOK
<1> USE DEF Selects, Then, Fail, Finish, GoOn, Idle, Command, InPage, PllAnswers,
        SwitchAnswers, InReset, Phases, Commands, Registers, PllsReset, PageZero, DefaultNumber,
        DefaultOp
<1>2. ChipTypeOK'
  BY <1>0 DEF CpuTypeOK, ChipTypeOK, RightPort
<1>3. RightPort'
  BY <1>0 DEF RightPort, CpuTypeOK, ChipTypeOK, ExpanderPorts
<1>4. NamedModule'
  BY <1>0 DEF NamedModule, CpuTypeOK, RightPort, Connected
<1>5. WholeDivider'
  BY <1>0 DEF WholeDivider, CpuTypeOK, ChipTypeOK, Programmed, RightPort
<1>6. Programmed'
  BY <1>0 DEF Programmed, CpuTypeOK, ChipTypeOK, RightPort
<1>7. InStep'
  BY <1>0 DEF InStep, HalfInStep, CpuTypeOK, ChipTypeOK, RightPort, Passed, Halves, ExpanderPorts
<1>8. Told' /\ NoSilentReset'
  BY <1>0
  DEF Told, NoSilentReset, AtPrompt, Waiting, CpuTypeOK, ChipTypeOK, RightPort, InStep,
      HalfInStep, Passed, Halves, ExpanderPorts
<1> QED
  BY <1>1, <1>2, <1>3, <1>4, <1>5, <1>6, <1>7, <1>8 DEF IInv, TypeOK

LEMMA ReleasePllsKeeps ==
  ASSUME IInv, ReleasePlls PROVE IInv'
<1>0. /\ CpuTypeOK /\ ChipTypeOK /\ NamedModule /\ WholeDivider /\ NoSilentReset
      /\ RightPort /\ Programmed /\ InStep /\ Told
  BY DEF IInv, TypeOK
<1>a. at \in Places /\ at.phase \in Phases /\ at.n \in Nat /\ at.b \in {0, 1} /\ at.v \in Values
  BY <1>0 DEF CpuTypeOK, Places
<1> USE <1>a, OpticsAssumption, PortsApart, WayToModule
<1> USE DEF ReleasePlls, csrs, pll, expander
<1>1. CpuTypeOK'
  <2>1. CpuKept
    BY <1>0, EndTyped, ThenTyped
    DEF GoOn, Then, CpuTypeOK, Places, Phases, CpuKept, Later, ExpanderPorts, RightPort, Idle,
        Command, Commands
  <2>2. sel' \in 0..(SelMod - 1) /\ sbPll' \in BOOLEAN /\ sbSwitch' \in BOOLEAN
    BY <1>0 DEF CpuTypeOK, Selects, RightPort
  <2> QED
    BY <1>0, <2>1, <2>2 DEF CpuKept, CpuTypeOK
<1> USE DEF Selects, Then, Fail, Finish, GoOn, Idle, Command, InPage, PllAnswers,
        SwitchAnswers, InReset, Phases, Commands, Registers
<1>2. ChipTypeOK'
  BY <1>0 DEF CpuTypeOK, ChipTypeOK, RightPort
<1>3. RightPort'
  BY <1>0 DEF RightPort, CpuTypeOK, ChipTypeOK, ExpanderPorts
<1>4. NamedModule'
  BY <1>0 DEF NamedModule, CpuTypeOK, RightPort, Connected
<1>5. WholeDivider'
  BY <1>0 DEF WholeDivider, CpuTypeOK, ChipTypeOK, Programmed, RightPort
<1>6. Programmed'
  BY <1>0 DEF Programmed, CpuTypeOK, ChipTypeOK, RightPort
<1>7. InStep'
  BY <1>0 DEF InStep, HalfInStep, CpuTypeOK, ChipTypeOK, RightPort, Passed, Halves, ExpanderPorts
<1>8. Told' /\ NoSilentReset'
  BY <1>0
  DEF Told, NoSilentReset, AtPrompt, Waiting, CpuTypeOK, ChipTypeOK, RightPort, InStep,
      HalfInStep, Passed, Halves, ExpanderPorts
<1> QED
  BY <1>1, <1>2, <1>3, <1>4, <1>5, <1>6, <1>7, <1>8 DEF IInv, TypeOK

LEMMA SetPageKeeps ==
  ASSUME IInv, SetPage PROVE IInv'
<1>0. /\ CpuTypeOK /\ ChipTypeOK /\ NamedModule /\ WholeDivider /\ NoSilentReset
      /\ RightPort /\ Programmed /\ InStep /\ Told
  BY DEF IInv, TypeOK
<1>a. at \in Places /\ at.phase \in Phases /\ at.n \in Nat /\ at.b \in {0, 1} /\ at.v \in Values
  BY <1>0 DEF CpuTypeOK, Places
<1> USE <1>a, OpticsAssumption, PortsApart, WayToModule
<1> USE DEF SetPage, csrs, pll, expander
<1>1. CpuTypeOK'
  <2>1. CpuKept
    BY <1>0, EndTyped, ThenTyped
    DEF GoOn, Then, CpuTypeOK, Places, Phases, CpuKept, Later, ExpanderPorts, RightPort, Idle,
        Command, Commands
  <2>2. sel' \in 0..(SelMod - 1) /\ sbPll' \in BOOLEAN /\ sbSwitch' \in BOOLEAN
    BY <1>0 DEF CpuTypeOK, Selects, RightPort
  <2> QED
    BY <1>0, <2>1, <2>2 DEF CpuKept, CpuTypeOK
<1> USE DEF Selects, Then, Fail, Finish, GoOn, Idle, Command, InPage, PllAnswers,
        SwitchAnswers, InReset, Phases, Commands, Registers
<1>2. ChipTypeOK'
  <2>1. page' \in [PllPorts -> {0, 3}]
    BY <1>0 DEF ChipTypeOK
  <2> QED
    BY <1>0, <2>1 DEF ChipTypeOK
<1>3. RightPort'
  BY <1>0 DEF RightPort, CpuTypeOK, ChipTypeOK, ExpanderPorts
<1>4. NamedModule'
  BY <1>0 DEF NamedModule, CpuTypeOK, RightPort, Connected
<1>5. WholeDivider'
  BY <1>0 DEF WholeDivider, CpuTypeOK, ChipTypeOK, Programmed, RightPort
<1>6. Programmed'
  BY <1>0 DEF Programmed, CpuTypeOK, ChipTypeOK, RightPort
<1>7. InStep'
  BY <1>0 DEF InStep, HalfInStep, CpuTypeOK, ChipTypeOK, RightPort, Passed, Halves, ExpanderPorts
<1>8. Told' /\ NoSilentReset'
  BY <1>0
  DEF Told, NoSilentReset, AtPrompt, Waiting, CpuTypeOK, ChipTypeOK, RightPort, InStep,
      HalfInStep, Passed, Halves, ExpanderPorts
<1> QED
  BY <1>1, <1>2, <1>3, <1>4, <1>5, <1>6, <1>7, <1>8 DEF IInv, TypeOK

LEMMA SetNumeratorKeeps ==
  ASSUME IInv, SetNumerator PROVE IInv'
<1>0. /\ CpuTypeOK /\ ChipTypeOK /\ NamedModule /\ WholeDivider /\ NoSilentReset
      /\ RightPort /\ Programmed /\ InStep /\ Told
  BY DEF IInv, TypeOK
<1>a. at \in Places /\ at.phase \in Phases /\ at.n \in Nat /\ at.b \in {0, 1} /\ at.v \in Values
  BY <1>0 DEF CpuTypeOK, Places
<1> USE <1>a, OpticsAssumption, PortsApart, WayToModule
<1> USE DEF SetNumerator, csrs, pll, expander
<1>1. CpuTypeOK'
  <2>1. CpuKept
    BY <1>0, EndTyped, ThenTyped
    DEF GoOn, Then, CpuTypeOK, Places, Phases, CpuKept, Later, ExpanderPorts, RightPort, Idle,
        Command, Commands
  <2>2. sel' \in 0..(SelMod - 1) /\ sbPll' \in BOOLEAN /\ sbSwitch' \in BOOLEAN
    BY <1>0 DEF CpuTypeOK, Selects, RightPort
  <2> QED
    BY <1>0, <2>1, <2>2 DEF CpuKept, CpuTypeOK
<1> USE DEF Selects, Then, Fail, Finish, GoOn, Idle, Command, InPage, PllAnswers,
        SwitchAnswers, InReset, Phases, Commands, Registers
<1>2. ChipTypeOK'
  BY <1>0 DEF CpuTypeOK, ChipTypeOK, RightPort
<1>3. RightPort'
  BY <1>0 DEF RightPort, CpuTypeOK, ChipTypeOK, ExpanderPorts
<1>4. NamedModule'
  BY <1>0 DEF NamedModule, CpuTypeOK, RightPort, Connected
<1>5. WholeDivider'
  BY <1>0 DEF WholeDivider, CpuTypeOK, ChipTypeOK, Programmed, RightPort
<1>6. Programmed'
  BY <1>0 DEF Programmed, CpuTypeOK, ChipTypeOK, RightPort
<1>7. InStep'
  BY <1>0 DEF InStep, HalfInStep, CpuTypeOK, ChipTypeOK, RightPort, Passed, Halves, ExpanderPorts
<1>8. Told' /\ NoSilentReset'
  BY <1>0
  DEF Told, NoSilentReset, AtPrompt, Waiting, CpuTypeOK, ChipTypeOK, RightPort, InStep,
      HalfInStep, Passed, Halves, ExpanderPorts
<1> QED
  BY <1>1, <1>2, <1>3, <1>4, <1>5, <1>6, <1>7, <1>8 DEF IInv, TypeOK

LEMMA SetDenominatorKeeps ==
  ASSUME IInv, SetDenominator PROVE IInv'
<1>0. /\ CpuTypeOK /\ ChipTypeOK /\ NamedModule /\ WholeDivider /\ NoSilentReset
      /\ RightPort /\ Programmed /\ InStep /\ Told
  BY DEF IInv, TypeOK
<1>a. at \in Places /\ at.phase \in Phases /\ at.n \in Nat /\ at.b \in {0, 1} /\ at.v \in Values
  BY <1>0 DEF CpuTypeOK, Places
<1> USE <1>a, OpticsAssumption, PortsApart, WayToModule
<1> USE DEF SetDenominator, csrs, pll, expander
<1>1. CpuTypeOK'
  <2>1. CpuKept
    BY <1>0, EndTyped, ThenTyped
    DEF GoOn, Then, CpuTypeOK, Places, Phases, CpuKept, Later, ExpanderPorts, RightPort, Idle,
        Command, Commands
  <2>2. sel' \in 0..(SelMod - 1) /\ sbPll' \in BOOLEAN /\ sbSwitch' \in BOOLEAN
    BY <1>0 DEF CpuTypeOK, Selects, RightPort
  <2> QED
    BY <1>0, <2>1, <2>2 DEF CpuKept, CpuTypeOK
<1> USE DEF Selects, Then, Fail, Finish, GoOn, Idle, Command, InPage, PllAnswers,
        SwitchAnswers, InReset, Phases, Commands, Registers
<1>2. ChipTypeOK'
  BY <1>0 DEF CpuTypeOK, ChipTypeOK, RightPort
<1>3. RightPort'
  BY <1>0 DEF RightPort, CpuTypeOK, ChipTypeOK, ExpanderPorts
<1>4. NamedModule'
  BY <1>0 DEF NamedModule, CpuTypeOK, RightPort, Connected
<1>5. WholeDivider'
  BY <1>0 DEF WholeDivider, CpuTypeOK, ChipTypeOK, Programmed, RightPort
<1>6. Programmed'
  BY <1>0 DEF Programmed, CpuTypeOK, ChipTypeOK, RightPort
<1>7. InStep'
  BY <1>0 DEF InStep, HalfInStep, CpuTypeOK, ChipTypeOK, RightPort, Passed, Halves, ExpanderPorts
<1>8. Told' /\ NoSilentReset'
  BY <1>0
  DEF Told, NoSilentReset, AtPrompt, Waiting, CpuTypeOK, ChipTypeOK, RightPort, InStep,
      HalfInStep, Passed, Halves, ExpanderPorts
<1> QED
  BY <1>1, <1>2, <1>3, <1>4, <1>5, <1>6, <1>7, <1>8 DEF IInv, TypeOK

LEMMA UpdateKeeps ==
  ASSUME IInv, Update PROVE IInv'
<1>0. /\ CpuTypeOK /\ ChipTypeOK /\ NamedModule /\ WholeDivider /\ NoSilentReset
      /\ RightPort /\ Programmed /\ InStep /\ Told
  BY DEF IInv, TypeOK
<1>a. at \in Places /\ at.phase \in Phases /\ at.n \in Nat /\ at.b \in {0, 1} /\ at.v \in Values
  BY <1>0 DEF CpuTypeOK, Places
<1> USE <1>a, OpticsAssumption, PortsApart, WayToModule
<1> USE DEF Update, csrs, pll, expander
<1>1. CpuTypeOK'
  <2>1. CpuKept
    BY <1>0, EndTyped, ThenTyped
    DEF GoOn, Then, CpuTypeOK, Places, Phases, CpuKept, Later, ExpanderPorts, RightPort, Idle,
        Command, Commands
  <2>2. sel' \in 0..(SelMod - 1) /\ sbPll' \in BOOLEAN /\ sbSwitch' \in BOOLEAN
    BY <1>0 DEF CpuTypeOK, Selects, RightPort
  <2> QED
    BY <1>0, <2>1, <2>2 DEF CpuKept, CpuTypeOK
<1> USE DEF Selects, Then, Fail, Finish, GoOn, Idle, Command, InPage, PllAnswers,
        SwitchAnswers, InReset, Phases, Commands, Registers
<1>2. ChipTypeOK'
  BY <1>0 DEF CpuTypeOK, ChipTypeOK, RightPort
<1>3. RightPort'
  BY <1>0 DEF RightPort, CpuTypeOK, ChipTypeOK, ExpanderPorts
<1>4. NamedModule'
  BY <1>0 DEF NamedModule, CpuTypeOK, RightPort, Connected
<1>5. WholeDivider'
  <2>1. at.n = sel /\ num[sel] = at.v /\ den[sel] = at.v /\ at.v # "torn"
    BY <1>0 DEF RightPort, Programmed
  <2>2. \A p \in PllPorts : op'[p] = op[p] \/ op'[p] = <<at.v, at.v>>
    BY <1>0, <2>1 DEF ChipTypeOK
  <2> QED
    BY <1>0, <2>1, <2>2 DEF WholeDivider
<1>6. Programmed'
  BY <1>0 DEF Programmed, CpuTypeOK, ChipTypeOK, RightPort
<1>7. InStep'
  BY <1>0 DEF InStep, HalfInStep, CpuTypeOK, ChipTypeOK, RightPort, Passed, Halves, ExpanderPorts
<1>8. Told' /\ NoSilentReset'
  BY <1>0
  DEF Told, NoSilentReset, AtPrompt, Waiting, CpuTypeOK, ChipTypeOK, RightPort, InStep,
      HalfInStep, Passed, Halves, ExpanderPorts
<1> QED
  BY <1>1, <1>2, <1>3, <1>4, <1>5, <1>6, <1>7, <1>8 DEF IInv, TypeOK

LEMMA ReadDividerKeeps ==
  ASSUME IInv, ReadDivider PROVE IInv'
<1>0. /\ CpuTypeOK /\ ChipTypeOK /\ NamedModule /\ WholeDivider /\ NoSilentReset
      /\ RightPort /\ Programmed /\ InStep /\ Told
  BY DEF IInv, TypeOK
<1>a. at \in Places /\ at.phase \in Phases /\ at.n \in Nat /\ at.b \in {0, 1} /\ at.v \in Values
  BY <1>0 DEF CpuTypeOK, Places
<1> USE <1>a, OpticsAssumption, PortsApart, WayToModule
<1> USE DEF ReadDivider, csrs, pll, expander
<1>1. CpuTypeOK'
  <2>1. CpuKept
    BY <1>0, EndTyped, ThenTyped
    DEF GoOn, Then, CpuTypeOK, Places, Phases, CpuKept, Later, ExpanderPorts, RightPort, Idle,
        Command, Commands
  <2>2. sel' \in 0..(SelMod - 1) /\ sbPll' \in BOOLEAN /\ sbSwitch' \in BOOLEAN
    BY <1>0 DEF CpuTypeOK, Selects, RightPort
  <2> QED
    BY <1>0, <2>1, <2>2 DEF CpuKept, CpuTypeOK
<1> USE DEF Selects, Then, Fail, Finish, GoOn, Idle, Command, InPage, PllAnswers,
        SwitchAnswers, InReset, Phases, Commands, Registers
<1>2. ChipTypeOK'
  BY <1>0 DEF CpuTypeOK, ChipTypeOK, RightPort
<1>3. RightPort'
  BY <1>0 DEF RightPort, CpuTypeOK, ChipTypeOK, ExpanderPorts
<1>4. NamedModule'
  BY <1>0 DEF NamedModule, CpuTypeOK, RightPort, Connected
<1>5. WholeDivider'
  BY <1>0 DEF WholeDivider, CpuTypeOK, ChipTypeOK, Programmed, RightPort
<1>6. Programmed'
  BY <1>0 DEF Programmed, CpuTypeOK, ChipTypeOK, RightPort
<1>7. InStep'
  BY <1>0 DEF InStep, HalfInStep, CpuTypeOK, ChipTypeOK, RightPort, Passed, Halves, ExpanderPorts
<1>8. Told' /\ NoSilentReset'
  BY <1>0
  DEF Told, NoSilentReset, AtPrompt, Waiting, CpuTypeOK, ChipTypeOK, RightPort, InStep,
      HalfInStep, Passed, Halves, ExpanderPorts
<1> QED
  BY <1>1, <1>2, <1>3, <1>4, <1>5, <1>6, <1>7, <1>8 DEF IInv, TypeOK

LEMMA SetDirectionKeeps ==
  ASSUME IInv, SetDirection PROVE IInv'
<1>0. /\ CpuTypeOK /\ ChipTypeOK /\ NamedModule /\ WholeDivider /\ NoSilentReset
      /\ RightPort /\ Programmed /\ InStep /\ Told
  BY DEF IInv, TypeOK
<1>a. at \in Places /\ at.phase \in Phases /\ at.n \in Nat /\ at.b \in {0, 1} /\ at.v \in Values
  BY <1>0 DEF CpuTypeOK, Places
<1> USE <1>a, OpticsAssumption, PortsApart, WayToModule
<1> USE DEF SetDirection, csrs, pll, expander
<1>1. CpuTypeOK'
  <2>1. CpuKept
    BY <1>0, EndTyped, ThenTyped
    DEF GoOn, Then, CpuTypeOK, Places, Phases, CpuKept, Later, ExpanderPorts, RightPort, Idle,
        Command, Commands
  <2>2. sel' \in 0..(SelMod - 1) /\ sbPll' \in BOOLEAN /\ sbSwitch' \in BOOLEAN
    BY <1>0 DEF CpuTypeOK, Selects, RightPort
  <2> QED
    BY <1>0, <2>1, <2>2 DEF CpuKept, CpuTypeOK
<1> USE DEF Selects, Then, Fail, Finish, GoOn, Idle, Command, InPage, PllAnswers,
        SwitchAnswers, InReset, Phases, Commands, Registers
<1>f. at.cmd = "reset_firefly" /\ (at.phase = "assert" => sel = at.n)
  BY <1>0 DEF RightPort
<1> DEFINE now == <<at.n, at.b>>
<1>b. \A h \in Halves : /\ h[1] \in ExpanderPorts /\ h[2] \in {0, 1} /\ h[1] \in Nat
                       /\ h[1] = at.n /\ h[2] = at.b => h = now
  BY DEF Halves, ExpanderPorts
<1>c. at.phase # "wait" => now \in Halves /\ now[1] = at.n /\ now[2] = at.b
  BY <1>0 DEF Halves, RightPort
<1>n. \A p \in ExpanderPorts : p \in Nat /\ p < NExpanders /\ (p + 1 < NExpanders => p + 1 \in ExpanderPorts)
  BY DEF ExpanderPorts
<1> HIDE DEF now
<1>2. ChipTypeOK'
  <2>1. dir' \in [Halves -> {"in", "out"}]
    BY <1>0, <1>c, <1>f DEF ChipTypeOK, now
  <2>2. out' \in [Halves -> {"power_on", "assert", "release"}]
    BY <1>0, <1>c, <1>f DEF ChipTypeOK, now
  <2>3. held' \in [Halves -> BOOLEAN]
    BY <1>0 DEF ChipTypeOK
  <2> QED
    BY <1>0, <2>1, <2>2, <2>3 DEF ChipTypeOK
<1>3. RightPort'
  BY <1>0 DEF RightPort, CpuTypeOK, ChipTypeOK, ExpanderPorts
<1>4. NamedModule'
  BY <1>0 DEF NamedModule, CpuTypeOK, RightPort, Connected
<1>5. WholeDivider'
  BY <1>0 DEF WholeDivider
<1>6. Programmed'
  BY <1>0 DEF Programmed
<1>p. at.phase = "direct"
  OBVIOUS
<1>d. /\ \A h \in Halves : h # now => dir'[h] = dir[h]
      /\ dir'[now] \in {dir[now], "out"} /\ out' = out /\ held' = held
  BY <1>0, <1>c, <1>f DEF ChipTypeOK, now
<1>k. \/ /\ at'.phase = "idle" /\ at'.cmd = "none" /\ Fail
      \/ /\ at'.cmd = at.cmd /\ at'.n = at.n /\ at'.b = 1 - at.b /\ dir'[now] = "out"
         /\ at'.phase = IF at.b = 0 THEN "direct" ELSE "assert"
  BY <1>0, <1>c, <1>f DEF ChipTypeOK, now
<1> HIDE DEF SetDirection, csrs, pll, expander, Selects, Then, Fail, Finish, GoOn, Idle,
        Command, InPage, PllAnswers
<1> HIDE DEF SwitchAnswers, Phases, Commands, Registers
<1>7. InStep'
  <2> SUFFICES ASSUME NEW h \in Halves PROVE HalfInStep(h)'
    BY DEF InStep
  <2>0. HalfInStep(h)
    BY <1>0 DEF InStep
  <2>3. /\ h[1] \in ExpanderPorts /\ h[2] \in {0, 1} /\ h[1] \in Nat /\ h[1] < NExpanders
        /\ h[1] = at.n /\ h[2] = at.b => h = now
    BY <1>n DEF Halves, ExpanderPorts, now
  <2>1. CASE h = now
    BY <2>0, <2>3, <1>c, <1>d, <1>k, <1>p, <2>1 DEF HalfInStep, Passed
  <2>2. CASE h # now
    BY <2>0, <2>3, <1>d, <1>k, <1>p, <2>2 DEF HalfInStep, Passed
  <2> QED
    BY <2>1, <2>2
<1>r. Fail => resetFailed'
  BY Zenon, <1>f DEF Fail
<1>8. Told' /\ NoSilentReset'
  <2>1. at'.cmd = "reset_firefly" \/ resetFailed'
    BY <1>k, <1>f, <1>r
  <2>2. at'.cmd = "reset_firefly" => at' # Idle
    BY DEF Idle, Command
  <2> QED
    BY <2>1, <2>2 DEF Told, NoSilentReset, AtPrompt, Waiting
<1> QED
  BY <1>1, <1>2, <1>3, <1>4, <1>5, <1>6, <1>7, <1>8 DEF IInv, TypeOK

LEMMA AssertResetKeeps ==
  ASSUME IInv, AssertReset PROVE IInv'
<1>0. /\ CpuTypeOK /\ ChipTypeOK /\ NamedModule /\ WholeDivider /\ NoSilentReset
      /\ RightPort /\ Programmed /\ InStep /\ Told
  BY DEF IInv, TypeOK
<1>a. at \in Places /\ at.phase \in Phases /\ at.n \in Nat /\ at.b \in {0, 1} /\ at.v \in Values
  BY <1>0 DEF CpuTypeOK, Places
<1> USE <1>a, OpticsAssumption, PortsApart, WayToModule
<1> USE DEF AssertReset, csrs, pll, expander
<1>1. CpuTypeOK'
  <2>1. CpuKept
    BY <1>0, EndTyped, ThenTyped
    DEF GoOn, Then, CpuTypeOK, Places, Phases, CpuKept, Later, ExpanderPorts, RightPort, Idle,
        Command, Commands
  <2>2. sel' \in 0..(SelMod - 1) /\ sbPll' \in BOOLEAN /\ sbSwitch' \in BOOLEAN
    BY <1>0 DEF CpuTypeOK, Selects, RightPort
  <2> QED
    BY <1>0, <2>1, <2>2 DEF CpuKept, CpuTypeOK
<1> USE DEF Selects, Then, Fail, Finish, GoOn, Idle, Command, InPage, PllAnswers,
        SwitchAnswers, InReset, Phases, Commands, Registers
<1>f. at.cmd = "reset_firefly" /\ (at.phase = "assert" => sel = at.n)
  BY <1>0 DEF RightPort
<1> DEFINE now == <<at.n, at.b>>
<1>b. \A h \in Halves : /\ h[1] \in ExpanderPorts /\ h[2] \in {0, 1} /\ h[1] \in Nat
                       /\ h[1] = at.n /\ h[2] = at.b => h = now
  BY DEF Halves, ExpanderPorts
<1>c. at.phase # "wait" => now \in Halves /\ now[1] = at.n /\ now[2] = at.b
  BY <1>0 DEF Halves, RightPort
<1>n. \A p \in ExpanderPorts : p \in Nat /\ p < NExpanders /\ (p + 1 < NExpanders => p + 1 \in ExpanderPorts)
  BY DEF ExpanderPorts
<1> HIDE DEF now
<1>x. PICK ok \in BOOLEAN, x \in {out[now], "assert"} :
         /\ ok => x = "assert"
         /\ out' = [out EXCEPT ![now] = x]
         /\ held' = [held EXCEPT ![now] = held[now] /\ out[now] = x]
         /\ IF at.b = 0 THEN Then(ok, "assert", at.n, 1)
            ELSE IF at.n + 1 < NExpanders THEN Then(ok, "direct", at.n + 1, 0)
            ELSE Then(ok, "wait", 0, 0)
  BY <1>f DEF now
<1>2. ChipTypeOK'
  <2>0. now \in Halves /\ x \in {"power_on", "assert", "release"}
    BY <1>0, <1>c DEF ChipTypeOK
  <2>1. out' \in [Halves -> {"power_on", "assert", "release"}]
    BY <1>0, <2>0, <1>x DEF ChipTypeOK
  <2>2. held' \in [Halves -> BOOLEAN]
    BY <1>0, <2>0, <1>x DEF ChipTypeOK
  <2> QED
    BY <1>0, <2>1, <2>2 DEF ChipTypeOK
<1>3. RightPort'
  BY <1>0 DEF RightPort, CpuTypeOK, ChipTypeOK, ExpanderPorts
<1>4. NamedModule'
  BY <1>0 DEF NamedModule, CpuTypeOK, RightPort, Connected
<1>5. WholeDivider'
  BY <1>0 DEF WholeDivider
<1>6. Programmed'
  BY <1>0 DEF Programmed
<1>p. at.phase = "assert"
  OBVIOUS
<1>d. /\ \A h \in Halves : h # now => out'[h] = out[h] /\ held'[h] = held[h]
      /\ out'[now] \in {out[now], "assert"} /\ dir' = dir
  BY <1>0, <1>c, <1>x, ZenonT(60) DEF ChipTypeOK
<1>h. held'[now] => held[now] /\ out'[now] = out[now]
  <2>1. held'[now] = (held[now] /\ out[now] = x)
    BY <1>0, <1>c, <1>x DEF ChipTypeOK
  <2>2. out'[now] = x
    BY <1>0, <1>c, <1>x, ZenonT(60) DEF ChipTypeOK
  <2> QED
    BY <2>1, <2>2
<1>k. \/ /\ at'.phase = "idle" /\ at'.cmd = "none" /\ Fail
      \/ /\ at'.cmd = at.cmd /\ out'[now] = "assert"
         /\ \/ at.b = 0 /\ at'.phase = "assert" /\ at'.n = at.n /\ at'.b = 1
            \/ at.b = 1 /\ at.n + 1 < NExpanders /\ at'.phase = "direct" /\ at'.n = at.n + 1 /\ at'.b = 0
            \/ at.b = 1 /\ at.n + 1 >= NExpanders /\ at'.phase = "wait" /\ at'.n = 0 /\ at'.b = 0
  BY <1>0, <1>c, <1>x DEF ChipTypeOK
<1> HIDE DEF AssertReset, csrs, pll, expander, Selects, Then, Fail, Finish, GoOn, Idle,
        Command, InPage, PllAnswers
<1> HIDE DEF SwitchAnswers, Phases, Commands, Registers
<1>7. InStep'
  <2> SUFFICES ASSUME NEW h \in Halves PROVE HalfInStep(h)'
    BY DEF InStep
  <2>0. HalfInStep(h)
    BY <1>0 DEF InStep
  <2>3. /\ h[1] \in ExpanderPorts /\ h[2] \in {0, 1} /\ h[1] \in Nat /\ h[1] < NExpanders
        /\ h[1] = at.n /\ h[2] = at.b => h = now
    BY <1>n DEF Halves, ExpanderPorts, now
  <2>1. CASE h = now
    <3>1. dir'[h] = "out" /\ (held'[h] => out'[h] # "power_on")
      <4>1. dir'[h] = "out"
        BY <2>0, <1>c, <1>d, <1>p, <2>1 DEF HalfInStep
      <4>2. held'[h] => out'[h] # "power_on"
        BY <2>0, <1>h, <2>1 DEF HalfInStep
      <4> QED
        BY <4>1, <4>2
    <3>2. CASE at'.phase = "direct"
      BY <1>c, <1>d, <1>k, <2>1, <2>3, <3>1, <3>2 DEF HalfInStep, Passed
    <3>3. CASE at'.phase = "wait"
      BY <1>c, <1>d, <1>k, <2>1, <2>3, <3>1, <3>3 DEF HalfInStep, Passed
    <3>4. CASE at'.phase \in {"assert", "idle"}
      BY <1>c, <1>d, <1>k, <1>p, <2>1, <2>3, <3>1, <3>4 DEF HalfInStep, Passed
    <3> QED
      BY <1>k, <3>2, <3>3, <3>4
  <2>2. CASE h # now
    <3>1. h[1] # at.n \/ h[2] # at.b
      BY <2>2, <2>3
    <3>2. out'[h] = out[h] /\ held'[h] = held[h] /\ dir' = dir
      BY <1>d, <2>2
    <3>3. CASE at'.phase = "direct"
      <4>1. at.b = 1 /\ at'.n = at.n + 1 /\ at'.b = 0
        BY <1>k, <1>p, <3>3
      <4>2. h[1] < at.n + 1 => Passed(h)
        BY <2>3, <3>1, <4>1 DEF Passed
      <4>3. Passed(h)' => h[1] < at.n + 1
        BY <2>3, <4>1 DEF Passed
      <4> QED
        BY <2>0, <1>p, <3>2, <3>3, <4>1, <4>2, <4>3 DEF HalfInStep
    <3>4. CASE at'.phase = "wait"
      BY <2>0, <2>3, <1>k, <1>p, <3>1, <3>2, <3>4 DEF HalfInStep, Passed
    <3>5. CASE at'.phase \in {"assert", "idle"}
      BY <2>0, <2>3, <1>k, <1>p, <3>1, <3>2, <3>5 DEF HalfInStep, Passed
    <3> QED
      BY <1>k, <3>3, <3>4, <3>5
  <2> QED
    BY <2>1, <2>2
<1>r. Fail => resetFailed'
  BY Zenon, <1>f DEF Fail
<1>8. Told' /\ NoSilentReset'
  <2>1. at'.cmd = "reset_firefly" \/ resetFailed'
    BY <1>k, <1>f, <1>r
  <2>2. at'.cmd = "reset_firefly" => at' # Idle
    BY DEF Idle, Command
  <2> QED
    BY <2>1, <2>2 DEF Told, NoSilentReset, AtPrompt, Waiting
<1> QED
  BY <1>1, <1>2, <1>3, <1>4, <1>5, <1>6, <1>7, <1>8 DEF IInv, TypeOK

LEMMA HoldKeeps ==
  ASSUME IInv, Hold PROVE IInv'
<1>0. /\ CpuTypeOK /\ ChipTypeOK /\ NamedModule /\ WholeDivider /\ NoSilentReset
      /\ RightPort /\ Programmed /\ InStep /\ Told
  BY DEF IInv, TypeOK
<1>a. at \in Places /\ at.phase \in Phases /\ at.n \in Nat /\ at.b \in {0, 1} /\ at.v \in Values
  BY <1>0 DEF CpuTypeOK, Places
<1> USE <1>a, OpticsAssumption, PortsApart, WayToModule
<1> USE DEF Hold, csrs, pll, expander
<1>1. CpuTypeOK'
  <2>1. CpuKept
    BY <1>0, EndTyped, ThenTyped
    DEF GoOn, Then, CpuTypeOK, Places, Phases, CpuKept, Later, ExpanderPorts, RightPort, Idle,
        Command, Commands
  <2>2. sel' \in 0..(SelMod - 1) /\ sbPll' \in BOOLEAN /\ sbSwitch' \in BOOLEAN
    BY <1>0 DEF CpuTypeOK, Selects, RightPort
  <2> QED
    BY <1>0, <2>1, <2>2 DEF CpuKept, CpuTypeOK
<1> USE DEF Selects, Then, Fail, Finish, GoOn, Idle, Command, InPage, PllAnswers,
        SwitchAnswers, InReset, Phases, Commands, Registers
<1>f. at.cmd = "reset_firefly" /\ (at.phase = "assert" => sel = at.n)
  BY <1>0 DEF RightPort
<1> DEFINE now == <<at.n, at.b>>
<1>b. \A h \in Halves : /\ h[1] \in ExpanderPorts /\ h[2] \in {0, 1} /\ h[1] \in Nat
                       /\ h[1] = at.n /\ h[2] = at.b => h = now
  BY DEF Halves, ExpanderPorts
<1>c. at.phase # "wait" => now \in Halves /\ now[1] = at.n /\ now[2] = at.b
  BY <1>0 DEF Halves, RightPort
<1>n. \A p \in ExpanderPorts : p \in Nat /\ p < NExpanders /\ (p + 1 < NExpanders => p + 1 \in ExpanderPorts)
  BY DEF ExpanderPorts
<1> HIDE DEF now
<1>2. ChipTypeOK'
  <2>1. dir' \in [Halves -> {"in", "out"}]
    BY <1>0, <1>c, <1>f DEF ChipTypeOK, now
  <2>2. out' \in [Halves -> {"power_on", "assert", "release"}]
    BY <1>0, <1>c, <1>f DEF ChipTypeOK, now
  <2>3. held' \in [Halves -> BOOLEAN]
    BY <1>0 DEF ChipTypeOK
  <2> QED
    BY <1>0, <2>1, <2>2, <2>3 DEF ChipTypeOK
<1>3. RightPort'
  BY <1>0 DEF RightPort, CpuTypeOK, ChipTypeOK, ExpanderPorts
<1>4. NamedModule'
  BY <1>0 DEF NamedModule, CpuTypeOK, RightPort, Connected
<1>5. WholeDivider'
  BY <1>0 DEF WholeDivider
<1>6. Programmed'
  BY <1>0 DEF Programmed
<1>p. at.phase = "wait"
  OBVIOUS
<1>d. /\ dir' = dir /\ out' = out
      /\ \A h \in Halves : InReset(h) => held'[h]
  BY <1>0 DEF ChipTypeOK
<1>k. at'.cmd = at.cmd /\ at'.phase = "release" /\ at'.n = 0 /\ at'.b = 0
  OBVIOUS
<1> HIDE DEF Hold, csrs, pll, expander, Selects, Then, Fail, Finish, GoOn, Idle, Command,
        InPage, PllAnswers
<1> HIDE DEF SwitchAnswers, Phases, Commands, Registers
<1>7. InStep'
  <2> SUFFICES ASSUME NEW h \in Halves PROVE HalfInStep(h)'
    BY DEF InStep
  <2>0. HalfInStep(h)
    BY <1>0 DEF InStep
  <2>3. /\ h[1] \in ExpanderPorts /\ h[2] \in {0, 1} /\ h[1] \in Nat /\ h[1] < NExpanders
        /\ h[1] = at.n /\ h[2] = at.b => h = now
    BY <1>n DEF Halves, ExpanderPorts, now
  <2>1. CASE h = now
    BY <2>0, <2>3, <1>c, <1>d, <1>k, <1>p, <2>1 DEF HalfInStep, Passed
  <2>2. CASE h # now
    BY <2>0, <2>3, <1>d, <1>k, <1>p, <2>2 DEF HalfInStep, Passed
  <2> QED
    BY <2>1, <2>2
<1>8. Told' /\ NoSilentReset'
  <2>1. at'.cmd = "reset_firefly" \/ resetFailed'
    BY <1>k, <1>f
  <2>2. at'.cmd = "reset_firefly" => at' # Idle
    BY DEF Idle, Command
  <2> QED
    BY <2>1, <2>2 DEF Told, NoSilentReset, AtPrompt, Waiting
<1> QED
  BY <1>1, <1>2, <1>3, <1>4, <1>5, <1>6, <1>7, <1>8 DEF IInv, TypeOK

LEMMA ReleaseResetKeeps ==
  ASSUME IInv, ReleaseReset PROVE IInv'
<1>0. /\ CpuTypeOK /\ ChipTypeOK /\ NamedModule /\ WholeDivider /\ NoSilentReset
      /\ RightPort /\ Programmed /\ InStep /\ Told
  BY DEF IInv, TypeOK
<1>a. at \in Places /\ at.phase \in Phases /\ at.n \in Nat /\ at.b \in {0, 1} /\ at.v \in Values
  BY <1>0 DEF CpuTypeOK, Places
<1> USE <1>a, OpticsAssumption, PortsApart, WayToModule
<1> USE DEF ReleaseReset, csrs, pll, expander
<1>1. CpuTypeOK'
  <2>1. CpuKept
    BY <1>0, EndTyped, ThenTyped
    DEF GoOn, Then, CpuTypeOK, Places, Phases, CpuKept, Later, ExpanderPorts, RightPort, Idle,
        Command, Commands
  <2>2. sel' \in 0..(SelMod - 1) /\ sbPll' \in BOOLEAN /\ sbSwitch' \in BOOLEAN
    BY <1>0 DEF CpuTypeOK, Selects, RightPort
  <2> QED
    BY <1>0, <2>1, <2>2 DEF CpuKept, CpuTypeOK
<1> USE DEF Selects, Then, Fail, Finish, GoOn, Idle, Command, InPage, PllAnswers,
        SwitchAnswers, InReset, Phases, Commands, Registers
<1>f. at.cmd = "reset_firefly" /\ (at.phase = "assert" => sel = at.n)
  BY <1>0 DEF RightPort
<1> DEFINE now == <<at.n, at.b>>
<1>b. \A h \in Halves : /\ h[1] \in ExpanderPorts /\ h[2] \in {0, 1} /\ h[1] \in Nat
                       /\ h[1] = at.n /\ h[2] = at.b => h = now
  BY DEF Halves, ExpanderPorts
<1>c. at.phase # "wait" => now \in Halves /\ now[1] = at.n /\ now[2] = at.b
  BY <1>0 DEF Halves, RightPort
<1>n. \A p \in ExpanderPorts : p \in Nat /\ p < NExpanders /\ (p + 1 < NExpanders => p + 1 \in ExpanderPorts)
  BY DEF ExpanderPorts
<1> HIDE DEF now
<1>x. PICK ok \in BOOLEAN, x \in {out[now], "release"} :
         /\ ok => x = "release"
         /\ out' = [out EXCEPT ![now] = x]
         /\ IF at.b = 0 THEN Then(ok, "release", at.n, 1)
            ELSE IF at.n + 1 < NExpanders THEN Then(ok, "release", at.n + 1, 0)
            ELSE IF ok THEN Finish ELSE Fail
  BY DEF now
<1>2. ChipTypeOK'
  <2>0. now \in Halves /\ x \in {"power_on", "assert", "release"}
    BY <1>0, <1>c DEF ChipTypeOK
  <2>1. out' \in [Halves -> {"power_on", "assert", "release"}]
    BY <1>0, <2>0, <1>x DEF ChipTypeOK
  <2> QED
    BY <1>0, <2>1 DEF ChipTypeOK
<1>3. RightPort'
  BY <1>0 DEF RightPort, CpuTypeOK, ChipTypeOK, ExpanderPorts
<1>4. NamedModule'
  BY <1>0 DEF NamedModule, CpuTypeOK, RightPort, Connected
<1>5. WholeDivider'
  BY <1>0 DEF WholeDivider
<1>6. Programmed'
  BY <1>0 DEF Programmed
<1>p. at.phase = "release"
  OBVIOUS
<1>d. /\ \A h \in Halves : h # now => out'[h] = out[h]
      /\ out'[now] \in {out[now], "release"} /\ dir' = dir /\ held' = held
  BY <1>0, <1>c, <1>x DEF ChipTypeOK
<1>k. \/ /\ at'.phase = "idle" /\ at'.cmd = "none"
         /\ \/ ~ok
            \/ at.b = 1 /\ at.n + 1 >= NExpanders /\ out'[now] = "release"
      \/ /\ at'.cmd = at.cmd /\ out'[now] = "release"
         /\ \/ at.b = 0 /\ at'.phase = "release" /\ at'.n = at.n /\ at'.b = 1
            \/ at.b = 1 /\ at.n + 1 < NExpanders /\ at'.phase = "release" /\ at'.n = at.n + 1 /\ at'.b = 0
  <2>1. CASE ok
    <3>1. out'[now] = "release"
      BY <1>0, <1>c, <1>x, <2>1 DEF ChipTypeOK
    <3> QED
      BY <1>x, <2>1, <3>1
  <2>2. CASE ~ok
    <3>1. at' = Idle
      BY <1>x, <2>2
    <3> QED
      BY <2>2, <3>1
  <2> QED
    BY <2>1, <2>2
<1> HIDE DEF ReleaseReset, csrs, pll, expander, Selects, Then, Fail, Finish, GoOn, Idle,
        Command, InPage, PllAnswers
<1> HIDE DEF SwitchAnswers, Phases, Commands, Registers
<1>7. InStep'
  <2> SUFFICES ASSUME NEW h \in Halves PROVE HalfInStep(h)'
    BY DEF InStep
  <2>0. HalfInStep(h)
    BY <1>0 DEF InStep
  <2>3. /\ h[1] \in ExpanderPorts /\ h[2] \in {0, 1} /\ h[1] \in Nat /\ h[1] < NExpanders
        /\ h[1] = at.n /\ h[2] = at.b => h = now
    BY <1>n DEF Halves, ExpanderPorts, now
  <2>1. CASE h = now
    BY <2>0, <2>3, <1>c, <1>d, <1>k, <1>p, <2>1 DEF HalfInStep, Passed
  <2>2. CASE h # now
    BY <2>0, <2>3, <1>d, <1>k, <1>p, <2>2 DEF HalfInStep, Passed
  <2> QED
    BY <2>1, <2>2
<1>r. ~ok => resetFailed'
  BY Zenon, <1>f, <1>x DEF Then, Fail
<1>e. ASSUME at'.cmd # "reset_firefly" /\ ~resetFailed' PROVE Told' /\ NoSilentReset'
  <2>1. at.b = 1 /\ at.n + 1 >= NExpanders /\ out'[now] = "release"
    BY <1>e, <1>f, <1>k, <1>r
  <2>2. ASSUME NEW h \in Halves PROVE out'[h] = "release"
    <3>1. CASE h = now
      BY <2>1, <3>1
    <3>2. CASE h # now
      <4>1. h[1] < at.n \/ (h[1] = at.n /\ h[2] < at.b)
        BY <1>n, <2>1, <3>2 DEF Halves, ExpanderPorts, now
      <4>2. out[h] = "release"
        BY <1>0, <1>p, <4>1 DEF InStep, HalfInStep, Passed
      <4> QED
        BY <1>d, <3>2, <4>2
    <3> QED
      BY <3>1, <3>2
  <2> QED
    BY <2>2 DEF Told, NoSilentReset, InReset
<1>8. Told' /\ NoSilentReset'
  <2>2. at'.cmd = "reset_firefly" => at' # Idle
    BY DEF Idle, Command
  <2> QED
    BY <1>e, <2>2 DEF Told, NoSilentReset, AtPrompt, Waiting
<1> QED
  BY <1>1, <1>2, <1>3, <1>4, <1>5, <1>6, <1>7, <1>8 DEF IInv, TypeOK

LEMMA HoldSwitchesKeeps ==
  ASSUME IInv, HoldSwitches PROVE IInv'
<1>0. /\ CpuTypeOK /\ ChipTypeOK /\ NamedModule /\ WholeDivider /\ NoSilentReset
      /\ RightPort /\ Programmed /\ InStep /\ Told
  BY DEF IInv, TypeOK
<1>a. at \in Places /\ at.phase \in Phases /\ at.n \in Nat /\ at.b \in {0, 1} /\ at.v \in Values
  BY <1>0 DEF CpuTypeOK, Places
<1> USE <1>a, OpticsAssumption, PortsApart, WayToModule
<1> USE DEF HoldSwitches, csrs, pll, expander
<1>1. CpuTypeOK'
  <2>1. CpuKept
    BY <1>0, EndTyped, ThenTyped
    DEF GoOn, Then, CpuTypeOK, Places, Phases, CpuKept, Later, ExpanderPorts, RightPort, Idle,
        Command, Commands
  <2>2. sel' \in 0..(SelMod - 1) /\ sbPll' \in BOOLEAN /\ sbSwitch' \in BOOLEAN
    BY <1>0 DEF CpuTypeOK, Selects, RightPort
  <2> QED
    BY <1>0, <2>1, <2>2 DEF CpuKept, CpuTypeOK
<1> USE DEF Selects, Then, Fail, Finish, GoOn, Idle, Command, InPage, PllAnswers,
        SwitchAnswers, InReset, Phases, Commands, Registers
<1>2. ChipTypeOK'
  BY <1>0 DEF CpuTypeOK, ChipTypeOK, RightPort
<1>3. RightPort'
  BY <1>0 DEF RightPort, CpuTypeOK, ChipTypeOK, ExpanderPorts
<1>4. NamedModule'
  BY <1>0 DEF NamedModule, CpuTypeOK, RightPort, Connected
<1>5. WholeDivider'
  BY <1>0 DEF WholeDivider, CpuTypeOK, ChipTypeOK, Programmed, RightPort
<1>6. Programmed'
  BY <1>0 DEF Programmed, CpuTypeOK, ChipTypeOK, RightPort
<1>7. InStep'
  BY <1>0 DEF InStep, HalfInStep, CpuTypeOK, ChipTypeOK, RightPort, Passed, Halves, ExpanderPorts
<1>8. Told' /\ NoSilentReset'
  BY <1>0
  DEF Told, NoSilentReset, AtPrompt, Waiting, CpuTypeOK, ChipTypeOK, RightPort, InStep,
      HalfInStep, Passed, Halves, ExpanderPorts
<1> QED
  BY <1>1, <1>2, <1>3, <1>4, <1>5, <1>6, <1>7, <1>8 DEF IInv, TypeOK

LEMMA ReleaseSwitchesKeeps ==
  ASSUME IInv, ReleaseSwitches PROVE IInv'
<1>0. /\ CpuTypeOK /\ ChipTypeOK /\ NamedModule /\ WholeDivider /\ NoSilentReset
      /\ RightPort /\ Programmed /\ InStep /\ Told
  BY DEF IInv, TypeOK
<1>a. at \in Places /\ at.phase \in Phases /\ at.n \in Nat /\ at.b \in {0, 1} /\ at.v \in Values
  BY <1>0 DEF CpuTypeOK, Places
<1> USE <1>a, OpticsAssumption, PortsApart, WayToModule
<1> USE DEF ReleaseSwitches, csrs, pll, expander
<1>1. CpuTypeOK'
  <2>1. CpuKept
    BY <1>0, EndTyped, ThenTyped
    DEF GoOn, Then, CpuTypeOK, Places, Phases, CpuKept, Later, ExpanderPorts, RightPort, Idle,
        Command, Commands
  <2>2. sel' \in 0..(SelMod - 1) /\ sbPll' \in BOOLEAN /\ sbSwitch' \in BOOLEAN
    BY <1>0 DEF CpuTypeOK, Selects, RightPort
  <2> QED
    BY <1>0, <2>1, <2>2 DEF CpuKept, CpuTypeOK
<1> USE DEF Selects, Then, Fail, Finish, GoOn, Idle, Command, InPage, PllAnswers,
        SwitchAnswers, InReset, Phases, Commands, Registers
<1>2. ChipTypeOK'
  BY <1>0 DEF CpuTypeOK, ChipTypeOK, RightPort
<1>3. RightPort'
  BY <1>0 DEF RightPort, CpuTypeOK, ChipTypeOK, ExpanderPorts
<1>4. NamedModule'
  BY <1>0 DEF NamedModule, CpuTypeOK, RightPort, Connected
<1>5. WholeDivider'
  BY <1>0 DEF WholeDivider, CpuTypeOK, ChipTypeOK, Programmed, RightPort
<1>6. Programmed'
  BY <1>0 DEF Programmed, CpuTypeOK, ChipTypeOK, RightPort
<1>7. InStep'
  BY <1>0 DEF InStep, HalfInStep, CpuTypeOK, ChipTypeOK, RightPort, Passed, Halves, ExpanderPorts
<1>8. Told' /\ NoSilentReset'
  BY <1>0
  DEF Told, NoSilentReset, AtPrompt, Waiting, CpuTypeOK, ChipTypeOK, RightPort, InStep,
      HalfInStep, Passed, Halves, ExpanderPorts
<1> QED
  BY <1>1, <1>2, <1>3, <1>4, <1>5, <1>6, <1>7, <1>8 DEF IInv, TypeOK

LEMMA SelectModuleKeeps ==
  ASSUME IInv, SelectModule PROVE IInv'
<1>0. /\ CpuTypeOK /\ ChipTypeOK /\ NamedModule /\ WholeDivider /\ NoSilentReset
      /\ RightPort /\ Programmed /\ InStep /\ Told
  BY DEF IInv, TypeOK
<1>a. at \in Places /\ at.phase \in Phases /\ at.n \in Nat /\ at.b \in {0, 1} /\ at.v \in Values
  BY <1>0 DEF CpuTypeOK, Places
<1> USE <1>a, OpticsAssumption, PortsApart, WayToModule
<1> USE DEF SelectModule, csrs, pll, expander
<1>1. CpuTypeOK'
  <2>1. CpuKept
    BY <1>0, EndTyped, ThenTyped
    DEF GoOn, Then, CpuTypeOK, Places, Phases, CpuKept, Later, ExpanderPorts, RightPort, Idle,
        Command, Commands
  <2>2. sel' \in 0..(SelMod - 1) /\ sbPll' \in BOOLEAN /\ sbSwitch' \in BOOLEAN
    BY <1>0 DEF CpuTypeOK, Selects, RightPort
  <2> QED
    BY <1>0, <2>1, <2>2 DEF CpuKept, CpuTypeOK
<1> USE DEF Selects, Then, Fail, Finish, GoOn, Idle, Command, InPage, PllAnswers,
        SwitchAnswers, InReset, Phases, Commands, Registers
<1>b. at.n \in Gtys
  BY <1>0 DEF RightPort
<1>2. ChipTypeOK'
  <2>1. {Gty2Mux(at.n).channel} \in SUBSET Channels /\ Gty2Mux(at.n).port \in SwitchPorts
    BY <1>b
  <2> QED
    BY <1>0, <2>1 DEF CpuTypeOK, ChipTypeOK
<1>3. RightPort'
  BY <1>0 DEF RightPort, CpuTypeOK, ChipTypeOK, ExpanderPorts
<1>4. NamedModule'
  <2> SUFFICES ASSUME at'.phase = "access" PROVE Connected' = {at'.n}
    BY DEF NamedModule
  <2>1. /\ at'.n = at.n /\ sel' = Gty2Mux(at.n).port /\ sel' \in SwitchPorts
        /\ switch'[sel'] = {Gty2Mux(at.n).channel}
    BY <1>0, <1>b DEF ChipTypeOK
  <2>2. \A g \in Gtys : Gty2Mux(g).port = sel' /\ Gty2Mux(g).channel = Gty2Mux(at.n).channel => g = at.n
    <3> TAKE g \in Gtys
    <3>1. Gty2Mux(g).channel + Banks[Gty2Mux(g).port].first = g
      BY Zenon, WayToModule
    <3>2. Gty2Mux(at.n).channel + Banks[Gty2Mux(at.n).port].first = at.n
      BY Zenon, WayToModule, <1>b
    <3> QED
      BY <2>1, <3>1, <3>2
  <2>3. Connected' = {g \in Gtys : Gty2Mux(g).port = sel' /\ Gty2Mux(g).channel \in switch'[sel']}
    BY <2>1 DEF Connected
  <2> QED
    BY <1>b, <2>1, <2>2, <2>3
<1>5. WholeDivider'
  BY <1>0 DEF WholeDivider, CpuTypeOK, ChipTypeOK, Programmed, RightPort
<1>6. Programmed'
  BY <1>0 DEF Programmed, CpuTypeOK, ChipTypeOK, RightPort
<1>7. InStep'
  BY <1>0 DEF InStep, HalfInStep, CpuTypeOK, ChipTypeOK, RightPort, Passed, Halves, ExpanderPorts
<1>8. Told' /\ NoSilentReset'
  BY <1>0
  DEF Told, NoSilentReset, AtPrompt, Waiting, CpuTypeOK, ChipTypeOK, RightPort, InStep,
      HalfInStep, Passed, Halves, ExpanderPorts
<1> QED
  BY <1>1, <1>2, <1>3, <1>4, <1>5, <1>6, <1>7, <1>8 DEF IInv, TypeOK

LEMMA AccessKeeps ==
  ASSUME IInv, Access PROVE IInv'
<1>0. /\ CpuTypeOK /\ ChipTypeOK /\ NamedModule /\ WholeDivider /\ NoSilentReset
      /\ RightPort /\ Programmed /\ InStep /\ Told
  BY DEF IInv, TypeOK
<1>a. at \in Places /\ at.phase \in Phases /\ at.n \in Nat /\ at.b \in {0, 1} /\ at.v \in Values
  BY <1>0 DEF CpuTypeOK, Places
<1> USE <1>a, OpticsAssumption, PortsApart, WayToModule
<1> USE DEF Access, csrs, pll, expander
<1>1. CpuTypeOK'
  <2>1. CpuKept
    BY <1>0, EndTyped, ThenTyped
    DEF GoOn, Then, CpuTypeOK, Places, Phases, CpuKept, Later, ExpanderPorts, RightPort, Idle,
        Command, Commands
  <2>2. sel' \in 0..(SelMod - 1) /\ sbPll' \in BOOLEAN /\ sbSwitch' \in BOOLEAN
    BY <1>0 DEF CpuTypeOK, Selects, RightPort
  <2> QED
    BY <1>0, <2>1, <2>2 DEF CpuKept, CpuTypeOK
<1> USE DEF Selects, Then, Fail, Finish, GoOn, Idle, Command, InPage, PllAnswers,
        SwitchAnswers, InReset, Phases, Commands, Registers, Later
<1>2. ChipTypeOK'
  BY <1>0 DEF CpuTypeOK, ChipTypeOK, RightPort
<1>3. RightPort'
  BY <1>0 DEF RightPort, CpuTypeOK, ChipTypeOK, ExpanderPorts
<1>4. NamedModule'
  BY <1>0 DEF NamedModule, CpuTypeOK, RightPort, Connected
<1>5. WholeDivider'
  BY <1>0 DEF WholeDivider, CpuTypeOK, ChipTypeOK, Programmed, RightPort
<1>6. Programmed'
  BY <1>0 DEF Programmed, CpuTypeOK, ChipTypeOK, RightPort
<1>7. InStep'
  BY <1>0 DEF InStep, HalfInStep, CpuTypeOK, ChipTypeOK, RightPort, Passed, Halves, ExpanderPorts
<1>8. Told' /\ NoSilentReset'
  BY <1>0
  DEF Told, NoSilentReset, AtPrompt, Waiting, CpuTypeOK, ChipTypeOK, RightPort, InStep,
      HalfInStep, Passed, Halves, ExpanderPorts
<1> QED
  BY <1>1, <1>2, <1>3, <1>4, <1>5, <1>6, <1>7, <1>8 DEF IInv, TypeOK

LEMMA RebootKeeps ==
  ASSUME IInv, Reboot PROVE IInv'
<1>0. /\ CpuTypeOK /\ ChipTypeOK /\ NamedModule /\ WholeDivider /\ NoSilentReset
      /\ RightPort /\ Programmed /\ InStep /\ Told
  BY DEF IInv, TypeOK
<1>a. at \in Places /\ at.phase \in Phases /\ at.n \in Nat /\ at.b \in {0, 1} /\ at.v \in Values
  BY <1>0 DEF CpuTypeOK, Places
<1> USE <1>a, OpticsAssumption, PortsApart, WayToModule
<1> USE DEF Reboot, csrs, pll, expander
<1>1. CpuTypeOK'
  <2>1. at' \in Places
    BY DEF Places, Phases, Commands, Idle, Command
  <2>2. script' \in 0..Len(Script)
    BY ScriptIs
  <2>3. sel' \in 0..(SelMod - 1) /\ sbPll' \in BOOLEAN /\ sbSwitch' \in BOOLEAN
    BY <1>0 DEF CpuTypeOK
  <2> QED
    BY <2>1, <2>2, <2>3 DEF CpuTypeOK
<1> USE DEF Selects, Then, Fail, Finish, GoOn, Idle, Command, InPage, PllAnswers,
        SwitchAnswers, InReset, Phases, Commands, Registers, PllsReset, PageZero, DefaultNumber,
        DefaultOp
<1>2. ChipTypeOK'
  BY <1>0 DEF CpuTypeOK, ChipTypeOK, RightPort
<1>3. RightPort'
  BY <1>0 DEF RightPort, CpuTypeOK, ChipTypeOK, ExpanderPorts
<1>4. NamedModule'
  BY <1>0 DEF NamedModule, CpuTypeOK, RightPort, Connected
<1>5. WholeDivider'
  BY <1>0 DEF WholeDivider, CpuTypeOK, ChipTypeOK, Programmed, RightPort
<1>6. Programmed'
  BY <1>0 DEF Programmed, CpuTypeOK, ChipTypeOK, RightPort
<1>7. InStep'
  BY <1>0 DEF InStep, HalfInStep, CpuTypeOK, ChipTypeOK, RightPort, Passed, Halves, ExpanderPorts
<1>8. Told' /\ NoSilentReset'
  <2>1. 0 # Len(Script)
    BY ScriptIs
  <2> QED
    BY <2>1 DEF Told, NoSilentReset, AtPrompt
<1> QED
  BY <1>1, <1>2, <1>3, <1>4, <1>5, <1>6, <1>7, <1>8 DEF IInv, TypeOK

(***************************************************************************)
(* A command starts with nothing done; a command of the user with one      *)
(* transfer is done at once.                                               *)
(***************************************************************************)
LEMMA StartKeeps ==
  ASSUME IInv, Waiting, NEW c, Startable(c), at' = c, script' \in 0..Len(Script),
         clean' \in BOOLEAN,
         script = Len(Script) => script' = script,
         script' = Len(Script) => script = script' \/ c.cmd = "reset_firefly",
         UNCHANGED <<resetFailed, csrs, pll, switch, expander>>
  PROVE  IInv'
<1>0. /\ CpuTypeOK /\ ChipTypeOK /\ NamedModule /\ WholeDivider /\ NoSilentReset
      /\ RightPort /\ Programmed /\ InStep /\ Told
  BY DEF IInv, TypeOK
<1> USE DEF csrs, pll, expander
<1>a. /\ at' = c /\ c \in Places
      /\ c.cmd = "reset_firefly" <=> c.phase = "direct"
      /\ c.phase \in {"hold_plls", "page", "hold_switches", "direct", "switch"}
      /\ c.phase = "page" => c.n \in PllPorts
      /\ c.phase = "direct" => c.n = 0 /\ c.b = 0
      /\ c.phase = "switch" => c.n \in Gtys
  BY DEF Startable
<1>1. TypeOK'
  BY <1>0, <1>a DEF TypeOK, CpuTypeOK, ChipTypeOK
<1>2. RightPort'
  BY <1>a, PortsApart DEF RightPort
<1>3. NamedModule' /\ Programmed'
  BY <1>a DEF NamedModule, Programmed
<1>4. WholeDivider'
  BY <1>0 DEF WholeDivider
<1>5. InStep'
  <2> SUFFICES ASSUME NEW h \in Halves PROVE HalfInStep(h)'
    BY DEF InStep
  <2>1. h[1] \in Nat /\ h[2] \in Nat
    BY OpticsAssumption DEF Halves, ExpanderPorts
  <2>2. HalfInStep(h)
    BY <1>0 DEF InStep
  <2> QED
    BY <1>a, <2>1, <2>2 DEF HalfInStep, Passed, InReset
<1>6. Told'
  <2>1. at.cmd = "none"
    BY DEF Waiting, Idle, Command
  <2> QED
    BY <1>0, <1>a, <2>1 DEF Told, InReset
<1>7. NoSilentReset'
  <2>1. at' # Idle
    BY <1>a DEF Idle, Command
  <2> QED
    BY <2>1 DEF NoSilentReset, AtPrompt, Waiting
<1> QED
  BY <1>1, <1>2, <1>3, <1>4, <1>5, <1>6, <1>7 DEF IInv

LEMMA ScriptStartsKeeps ==
  ASSUME IInv, ScriptStarts PROVE IInv'
<1>1. script \in 0..Len(Script) /\ script < Len(Script) /\ script' = script + 1 /\ clean \in BOOLEAN
  BY DEF IInv, TypeOK, CpuTypeOK, ScriptStarts
<1>2. Len(Script) \in Nat
  BY ScriptIs, OpticsAssumption
<1>3. script' \in 1..Len(Script)
  BY <1>1, <1>2
<1>4. /\ Startable(Script[script']) /\ at' = Script[script']
      /\ script' = Len(Script) => Script[script'].cmd = "reset_firefly"
  BY <1>1, <1>3, ScriptIs DEF ScriptStarts, ResetFirefly, Command
<1> DEFINE c == Script[script']
<1> HIDE DEF c
<1>5. /\ Startable(c) /\ at' = c /\ script' \in 0..Len(Script) /\ clean' \in BOOLEAN
      /\ script # Len(Script)
      /\ script' = Len(Script) => script = script' \/ c.cmd = "reset_firefly"
      /\ Waiting /\ UNCHANGED <<resetFailed, csrs, pll, switch, expander>>
  BY <1>1, <1>2, <1>3, <1>4 DEF ScriptStarts, c
<1> QED
  BY <1>5, StartKeeps

LEMMA UserStartsKeeps ==
  ASSUME IInv, NEW c, Startable(c), UserStarts(c) PROVE IInv'
<1>1. /\ Waiting /\ at' = c /\ script' = script /\ clean' \in BOOLEAN
      /\ UNCHANGED <<resetFailed, csrs, pll, switch, expander>>
  BY DEF UserStarts, AtPrompt
<1>2. script' \in 0..Len(Script)
  BY <1>1 DEF IInv, TypeOK, CpuTypeOK
<1> QED
  BY <1>1, <1>2, StartKeeps

LEMMA RawCommandsKeep ==
  ASSUME IInv,
         \/ \E port \in 0..SelMod : I2cMux(port)
         \/ \E channels \in SUBSET Channels : I2cWriteSwitch(channels)
         \/ \E x \in {0, 3} : I2cWritePage(x)
  PROVE  IInv'
<1>0. /\ CpuTypeOK /\ ChipTypeOK /\ NamedModule /\ WholeDivider /\ NoSilentReset
      /\ RightPort /\ Programmed /\ InStep /\ Told
  BY DEF IInv, TypeOK
<1>1. /\ at = Idle /\ UNCHANGED <<at, script, resetFailed, sbPll, sbSwitch, num, den, op, expander>>
      /\ clean' = FALSE
  BY DEF I2cMux, I2cWriteSwitch, I2cWritePage, AtPrompt, Waiting, csrs, pll, expander
<1>2. at.phase = "idle" /\ at.cmd = "none"
  BY <1>1 DEF Idle, Command
<1>3. sel' \in 0..(SelMod - 1)
  <2>1. \A port \in 0..SelMod : port % SelMod \in 0..(SelMod - 1)
    BY OpticsAssumption
  <2> QED
    BY <1>0, <2>1 DEF CpuTypeOK, I2cMux, I2cWriteSwitch, I2cWritePage, csrs
<1>4. switch' \in [SwitchPorts -> SUBSET Channels] /\ page' \in [PllPorts -> {0, 3}]
  BY <1>0 DEF ChipTypeOK, I2cMux, I2cWriteSwitch, I2cWritePage, csrs, pll
<1>5. TypeOK'
  BY <1>0, <1>1, <1>3, <1>4 DEF TypeOK, CpuTypeOK, ChipTypeOK, expander
<1>6. RightPort' /\ NamedModule' /\ Programmed'
  BY <1>0, <1>1, <1>2 DEF RightPort, NamedModule, Programmed
<1>7. InStep'
  <2> SUFFICES ASSUME NEW h \in Halves PROVE HalfInStep(h)'
    BY DEF InStep
  <2> QED
    BY <1>0, <1>1 DEF InStep, HalfInStep, Passed, InReset, expander
<1>8. WholeDivider' /\ NoSilentReset' /\ Told'
  BY <1>0, <1>1 DEF WholeDivider, NoSilentReset, Told, AtPrompt, Waiting, InReset, expander
<1> QED
  BY <1>5, <1>6, <1>7, <1>8 DEF IInv

LEMMA InitInvariant == Init => IInv
<1> SUFFICES ASSUME Init PROVE IInv
  OBVIOUS
<1>1. at.phase = "idle" /\ at.cmd = "none" /\ at \in Places
  BY OpticsAssumption DEF Init, Idle, Command, Places, Phases, Commands
<1>2. 0 \in 0..Len(Script) /\ 0 # Len(Script)
  BY ScriptIs, OpticsAssumption
<1>3. CpuTypeOK
  <2>1. 0 \in 0..(SelMod - 1)
    BY OpticsAssumption
  <2> QED
    BY <1>1, <1>2, <2>1 DEF Init, CpuTypeOK
<1>4. ChipTypeOK
  BY OpticsAssumption DEF Init, ChipTypeOK, PageZero, DefaultNumber, DefaultOp, Registers
<1>5. RightPort /\ NamedModule /\ Programmed
  BY <1>1 DEF Init, RightPort, NamedModule, Programmed
<1>6. InStep
  BY <1>1 DEF Init, InStep, HalfInStep
<1>7. WholeDivider
  BY DEF Init, WholeDivider, DefaultOp
<1>8. NoSilentReset /\ Told
  BY <1>2 DEF Init, NoSilentReset, Told, AtPrompt
<1> QED
  BY <1>3, <1>4, <1>5, <1>6, <1>7, <1>8 DEF IInv, TypeOK

LEMMA StepInvariant == IInv /\ [Next]_vars => IInv'
<1> SUFFICES ASSUME IInv, [Next]_vars PROVE IInv'
  OBVIOUS
<1>1. CASE HoldPlls \/ ReleasePlls \/ SetPage \/ SetNumerator \/ SetDenominator \/ Update \/ ReadDivider
  BY <1>1, HoldPllsKeeps, ReleasePllsKeeps, SetPageKeeps, SetNumeratorKeeps, SetDenominatorKeeps,
     UpdateKeeps, ReadDividerKeeps
<1>2. CASE SetDirection \/ AssertReset \/ Hold \/ ReleaseReset
  BY <1>2, SetDirectionKeeps, AssertResetKeeps, HoldKeeps, ReleaseResetKeeps
<1>3. CASE HoldSwitches \/ ReleaseSwitches \/ SelectModule \/ Access
  BY <1>3, HoldSwitchesKeeps, ReleaseSwitchesKeeps, SelectModuleKeeps, AccessKeeps
<1>4. CASE ScriptStarts \/ Reboot
  BY <1>4, ScriptStartsKeeps, RebootKeeps
<1>5. CASE \/ \E port \in 0..SelMod : I2cMux(port)
           \/ \E channels \in SUBSET Channels : I2cWriteSwitch(channels)
           \/ \E x \in {0, 3} : I2cWritePage(x)
  BY <1>5, RawCommandsKeep
<1>6. CASE \/ \E p \in PllPorts, v \in Values : UserStarts(SetDivider(p, v))
           \/ \E p \in PllPorts : UserStarts(GetDivider(p))
           \/ \E g \in Gtys : UserStarts(Firefly(g))
           \/ \E g \in Gtys : (\A h \in Gtys : g <= h) /\ UserStarts(Status(g))
           \/ \E c \in {ResetPlls, ResetSwitches, ResetFirefly} : UserStarts(c)
  <2>1. \E c : Startable(c) /\ UserStarts(c)
    BY <1>6, CommandsStart, OpticsAssumption
  <2> QED
    BY <2>1, UserStartsKeeps
<1>7. CASE UNCHANGED vars
  BY <1>7
  DEF vars, csrs, pll, expander, IInv, TypeOK, CpuTypeOK, ChipTypeOK, NamedModule, Connected,
              WholeDivider, NoSilentReset, RightPort, Programmed, InStep, HalfInStep, Passed, InReset,
              Told, AtPrompt, Waiting
<1> QED
  BY <1>1, <1>2, <1>3, <1>4, <1>5, <1>6, <1>7 DEF Next

(***************************************************************************)
(* In every reachable state: transfers reach the module that was named, no *)
(* divider runs on half a setting, and no module is left in reset without  *)
(* a word, for every number of chips, switches and modules.                *)
(***************************************************************************)
THEOREM OpticsInvariant == Spec => []IInv
<1> QED
  BY InitInvariant, StepInvariant, PTL DEF Spec

(***************************************************************************)
(* Only the last loop of reset_firefly lets a module out of reset, and it  *)
(* runs after the half second in which all of them were in reset.          *)
(***************************************************************************)
LEMMA StepReleases ==
  IInv /\ [Next]_vars => ((\E h \in Halves : InReset(h) /\ ~InReset(h)') => \A h \in Halves : held[h])
<1> SUFFICES ASSUME IInv, [Next]_vars, NEW h \in Halves, InReset(h), ~InReset(h)'
             PROVE  \A k \in Halves : held[k]
  OBVIOUS
<1>0. ChipTypeOK /\ InStep
  BY DEF IInv, TypeOK
<1>1. CASE ReleaseReset
  BY <1>0, <1>1 DEF ReleaseReset, InStep, HalfInStep
<1>2. CASE SetDirection
  <2>1. out' = out /\ (dir'[h] = dir[h] \/ dir'[h] = "out")
    BY <1>0, <1>2 DEF SetDirection, ChipTypeOK
  <2> QED
    BY <2>1 DEF InReset
<1>3. CASE AssertReset
  <2>1. dir' = dir /\ (out'[h] = out[h] \/ out'[h] = "assert")
    BY <1>0, <1>3 DEF AssertReset, ChipTypeOK
  <2> QED
    BY <2>1 DEF InReset
<1>4. CASE dir' = dir /\ out' = out
  BY <1>4 DEF InReset
<1>5. CASE UNCHANGED vars
  BY <1>4, <1>5 DEF vars, expander
<1> QED
  BY <1>1, <1>2, <1>3, <1>4, <1>5
  DEF Next, expander, HoldPlls, ReleasePlls, SetPage, SetNumerator, SetDenominator, Update,
      ReadDivider, Hold, HoldSwitches, ReleaseSwitches, SelectModule, Access, ScriptStarts, Reboot,
      I2cMux, I2cWriteSwitch, I2cWritePage, UserStarts

THEOREM ReleasesAfterHold == Spec => ReleasedAfterHold
<1> QED
  BY InitInvariant, StepInvariant, StepReleases, PTL DEF Spec, ReleasedAfterHold

(***************************************************************************)
(* What bootcmd.c has brought up stays up: a later command of it touches   *)
(* none of it, and an error on the way is remembered.                      *)
(***************************************************************************)
LEMMA NothingRuns ==
  ASSUME IInv, Waiting PROVE at.phase = "idle" /\ at.cmd = "none"
BY DEF Waiting, Idle, Command

LEMMA WhereNext ==
  /\ \A phase, n, b : GoOn(phase, n, b) => at'.cmd = at.cmd
  /\ Finish \/ Fail => at'.cmd = "none" /\ at'.phase = "idle"
  /\ Fail => ~clean'
BY DEF GoOn, Finish, Fail, Idle, Command

LEMMA HoldPllsBringsUp ==
  ASSUME IInv, BringsUp, HoldPlls PROVE BringsUp'
<1>0. /\ CpuTypeOK /\ ChipTypeOK /\ RightPort /\ Programmed /\ InStep
      /\ Works /\ (clean => Running /\ Behind)
  BY DEF IInv, TypeOK, BringsUp
<1>a. at \in Places /\ at.phase \in Phases /\ at.n \in Nat /\ at.b \in {0, 1} /\ script \in Nat
  BY <1>0, ScriptIs, OpticsAssumption DEF CpuTypeOK, Places
<1>b. NPlls \in Nat \ {0} /\ \A p \in PllPorts : p \in Nat /\ Line(p) \in 2..(NPlls + 1)
  BY OpticsAssumption DEF PllPorts, Line
<1> USE <1>a, <1>b
<1> USE DEF HoldPlls, csrs, pll, expander, Selects, Then, Fail, Finish, GoOn, Idle, Command, InPage,
        PllAnswers, SwitchAnswers, PllsReset, DefaultOp
<1>1. Works'
  BY <1>0 DEF Works, RightPort
<1> SUFFICES ASSUME clean' PROVE Running' /\ Behind'
  BY <1>1 DEF BringsUp
<1>2. clean /\ Running /\ Behind /\ script' = script
  BY <1>0
<1>3. Running'
  BY <1>0, <1>2 DEF Running, Works
<1>4. Behind'
  BY <1>0, <1>2 DEF Behind, Over, Running, Works, ChipTypeOK, RightPort
<1> QED
  BY <1>3, <1>4

LEMMA ReleasePllsBringsUp ==
  ASSUME IInv, BringsUp, ReleasePlls PROVE BringsUp'
<1>0. /\ CpuTypeOK /\ ChipTypeOK /\ RightPort /\ Programmed /\ InStep
      /\ Works /\ (clean => Running /\ Behind)
  BY DEF IInv, TypeOK, BringsUp
<1>a. at \in Places /\ at.phase \in Phases /\ at.n \in Nat /\ at.b \in {0, 1} /\ script \in Nat
  BY <1>0, ScriptIs, OpticsAssumption DEF CpuTypeOK, Places
<1>b. NPlls \in Nat \ {0} /\ \A p \in PllPorts : p \in Nat /\ Line(p) \in 2..(NPlls + 1)
  BY OpticsAssumption DEF PllPorts, Line
<1> USE <1>a, <1>b
<1> USE DEF ReleasePlls, csrs, pll, expander, Selects, Then, Fail, Finish, GoOn, Idle, Command, InPage,
        PllAnswers, SwitchAnswers
<1>1. Works'
  BY <1>0 DEF Works, RightPort
<1> SUFFICES ASSUME clean' PROVE Running' /\ Behind'
  BY <1>1 DEF BringsUp
<1>2. clean /\ Running /\ Behind /\ script' = script
  BY <1>0
<1>3. Running'
  BY <1>0, <1>2 DEF Running, Works
<1>4. Behind'
  BY <1>0, <1>2 DEF Behind, Over, Running, Works, ChipTypeOK, RightPort
<1> QED
  BY <1>3, <1>4

LEMMA SetPageBringsUp ==
  ASSUME IInv, BringsUp, SetPage PROVE BringsUp'
<1>0. /\ CpuTypeOK /\ ChipTypeOK /\ RightPort /\ Programmed /\ InStep
      /\ Works /\ (clean => Running /\ Behind)
  BY DEF IInv, TypeOK, BringsUp
<1>a. at \in Places /\ at.phase \in Phases /\ at.n \in Nat /\ at.b \in {0, 1} /\ script \in Nat
  BY <1>0, ScriptIs, OpticsAssumption DEF CpuTypeOK, Places
<1>b. NPlls \in Nat \ {0} /\ \A p \in PllPorts : p \in Nat /\ Line(p) \in 2..(NPlls + 1)
  BY OpticsAssumption DEF PllPorts, Line
<1> USE <1>a, <1>b
<1> USE DEF SetPage, csrs, pll, expander, Selects, Then, Fail, Finish, GoOn, Idle, Command, InPage,
        PllAnswers, SwitchAnswers
<1>1. Works'
  BY <1>0 DEF Works, RightPort
<1> SUFFICES ASSUME clean' PROVE Running' /\ Behind'
  BY <1>1 DEF BringsUp
<1>2. clean /\ Running /\ Behind /\ script' = script
  BY <1>0
<1>3. Running'
  BY <1>0, <1>2 DEF Running, Works
<1>4. Behind'
  BY <1>0, <1>2 DEF Behind, Over, Running, Works, ChipTypeOK, RightPort
<1> QED
  BY <1>3, <1>4

LEMMA SetNumeratorBringsUp ==
  ASSUME IInv, BringsUp, SetNumerator PROVE BringsUp'
<1>0. /\ CpuTypeOK /\ ChipTypeOK /\ RightPort /\ Programmed /\ InStep
      /\ Works /\ (clean => Running /\ Behind)
  BY DEF IInv, TypeOK, BringsUp
<1>a. at \in Places /\ at.phase \in Phases /\ at.n \in Nat /\ at.b \in {0, 1} /\ script \in Nat
  BY <1>0, ScriptIs, OpticsAssumption DEF CpuTypeOK, Places
<1>b. NPlls \in Nat \ {0} /\ \A p \in PllPorts : p \in Nat /\ Line(p) \in 2..(NPlls + 1)
  BY OpticsAssumption DEF PllPorts, Line
<1> USE <1>a, <1>b
<1> USE DEF SetNumerator, csrs, pll, expander, Selects, Then, Fail, Finish, GoOn, Idle, Command, InPage,
        PllAnswers, SwitchAnswers
<1>1. Works'
  BY <1>0 DEF Works, RightPort
<1> SUFFICES ASSUME clean' PROVE Running' /\ Behind'
  BY <1>1 DEF BringsUp
<1>2. clean /\ Running /\ Behind /\ script' = script
  BY <1>0
<1>3. Running'
  BY <1>0, <1>2 DEF Running, Works
<1>4. Behind'
  BY <1>0, <1>2 DEF Behind, Over, Running, Works, ChipTypeOK, RightPort
<1> QED
  BY <1>3, <1>4

LEMMA SetDenominatorBringsUp ==
  ASSUME IInv, BringsUp, SetDenominator PROVE BringsUp'
<1>0. /\ CpuTypeOK /\ ChipTypeOK /\ RightPort /\ Programmed /\ InStep
      /\ Works /\ (clean => Running /\ Behind)
  BY DEF IInv, TypeOK, BringsUp
<1>a. at \in Places /\ at.phase \in Phases /\ at.n \in Nat /\ at.b \in {0, 1} /\ script \in Nat
  BY <1>0, ScriptIs, OpticsAssumption DEF CpuTypeOK, Places
<1>b. NPlls \in Nat \ {0} /\ \A p \in PllPorts : p \in Nat /\ Line(p) \in 2..(NPlls + 1)
  BY OpticsAssumption DEF PllPorts, Line
<1> USE <1>a, <1>b
<1> USE DEF SetDenominator, csrs, pll, expander, Selects, Then, Fail, Finish, GoOn, Idle, Command, InPage,
        PllAnswers, SwitchAnswers
<1>1. Works'
  BY <1>0 DEF Works, RightPort
<1> SUFFICES ASSUME clean' PROVE Running' /\ Behind'
  BY <1>1 DEF BringsUp
<1>2. clean /\ Running /\ Behind /\ script' = script
  BY <1>0
<1>3. Running'
  BY <1>0, <1>2 DEF Running, Works
<1>4. Behind'
  BY <1>0, <1>2 DEF Behind, Over, Running, Works, ChipTypeOK, RightPort
<1> QED
  BY <1>3, <1>4

LEMMA UpdateBringsUp ==
  ASSUME IInv, BringsUp, Update PROVE BringsUp'
<1>0. /\ CpuTypeOK /\ ChipTypeOK /\ RightPort /\ Programmed /\ InStep
      /\ Works /\ (clean => Running /\ Behind)
  BY DEF IInv, TypeOK, BringsUp
<1>a. at \in Places /\ at.phase \in Phases /\ at.n \in Nat /\ at.b \in {0, 1} /\ script \in Nat
  BY <1>0, ScriptIs, OpticsAssumption DEF CpuTypeOK, Places
<1>b. NPlls \in Nat \ {0} /\ \A p \in PllPorts : p \in Nat /\ Line(p) \in 2..(NPlls + 1)
  BY OpticsAssumption DEF PllPorts, Line
<1>g. at'.phase = "idle"
  BY WhereNext DEF Update
<1> USE <1>a, <1>b
<1> USE DEF Update, csrs, pll, expander, Selects, Then, Fail, Finish, GoOn, Idle, Command, InPage,
        PllAnswers, SwitchAnswers
<1>1. Works'
  BY <1>0 DEF Works, RightPort
<1> SUFFICES ASSUME clean' PROVE Running' /\ Behind'
  BY <1>1 DEF BringsUp
<1>2. clean /\ Running /\ Behind /\ script' = script
  BY <1>0
<1>3. Running'
  BY <1>0, <1>2 DEF Running, Works
<1>4. Behind'
  <2>1. sel = at.n /\ at.n \in PllPorts /\ InPage /\ num[sel] = Wanted /\ den[sel] = Wanted
    BY <1>0, <1>2 DEF RightPort, Programmed, Works, Running
  <2>2. /\ at.cmd = "set_si5341_n_divider" /\ script = Line(at.n)
        /\ \A p \in PllPorts : op'[p] = IF p = at.n THEN <<Wanted, Wanted>> ELSE op[p]
    BY <1>0, <1>2, <2>1 DEF ChipTypeOK, Works, Running
  <2>3. ASSUME NEW p \in PllPorts, Over(Line(p))' PROVE op'[p] = <<Wanted, Wanted>>
    <3>1. CASE p = at.n
      BY <2>2, <3>1
    <3>2. CASE p # at.n
      <4>1. Line(p)' = Line(p) /\ Line(p) # Line(at.n)
        BY <2>1, <3>2, OpticsAssumption DEF Line, PllPorts
      <4>2. Over(Line(p))
        BY <1>2, <2>2, <2>3, <4>1 DEF Over
      <4> QED
        BY <1>2, <2>2, <3>2, <4>2 DEF Behind
    <3> QED
      BY <3>1, <3>2
  <2>4. Line(at.n) \in 2..(NPlls + 1)
    BY <2>1
  <2>5. Over(1) /\ ~Over(NPlls + 2)' /\ ~Over(NPlls + 3)' /\ sbPll' = sbPll
    BY <1>2, <2>2, <2>4 DEF Over
  <2>6. at'.phase # "release_switches"
    BY <1>g
  <2> QED
    BY <1>2, <2>3, <2>5, <2>6 DEF Behind
<1> QED
  BY <1>3, <1>4

LEMMA ReadDividerBringsUp ==
  ASSUME IInv, BringsUp, ReadDivider PROVE BringsUp'
<1>0. /\ CpuTypeOK /\ ChipTypeOK /\ RightPort /\ Programmed /\ InStep
      /\ Works /\ (clean => Running /\ Behind)
  BY DEF IInv, TypeOK, BringsUp
<1>a. at \in Places /\ at.phase \in Phases /\ at.n \in Nat /\ at.b \in {0, 1} /\ script \in Nat
  BY <1>0, ScriptIs, OpticsAssumption DEF CpuTypeOK, Places
<1>b. NPlls \in Nat \ {0} /\ \A p \in PllPorts : p \in Nat /\ Line(p) \in 2..(NPlls + 1)
  BY OpticsAssumption DEF PllPorts, Line
<1> USE <1>a, <1>b
<1> USE DEF ReadDivider, csrs, pll, expander, Selects, Then, Fail, Finish, GoOn, Idle, Command, InPage,
        PllAnswers, SwitchAnswers
<1>1. Works'
  BY <1>0 DEF Works, RightPort
<1> SUFFICES ASSUME clean' PROVE Running' /\ Behind'
  BY <1>1 DEF BringsUp
<1>2. clean /\ Running /\ Behind /\ script' = script
  BY <1>0
<1>3. Running'
  BY <1>0, <1>2 DEF Running, Works
<1>4. Behind'
  BY <1>0, <1>2 DEF Behind, Over, Running, Works, ChipTypeOK, RightPort
<1> QED
  BY <1>3, <1>4

LEMMA SetDirectionBringsUp ==
  ASSUME IInv, BringsUp, SetDirection PROVE BringsUp'
<1>0. /\ CpuTypeOK /\ ChipTypeOK /\ RightPort /\ Programmed /\ InStep
      /\ Works /\ (clean => Running /\ Behind)
  BY DEF IInv, TypeOK, BringsUp
<1>a. at \in Places /\ at.phase \in Phases /\ at.n \in Nat /\ at.b \in {0, 1} /\ script \in Nat
  BY <1>0, ScriptIs, OpticsAssumption DEF CpuTypeOK, Places
<1>b. NPlls \in Nat \ {0} /\ \A p \in PllPorts : p \in Nat /\ Line(p) \in 2..(NPlls + 1)
  BY OpticsAssumption DEF PllPorts, Line
<1>g. at'.cmd = at.cmd \/ at'.cmd = "none"
  BY WhereNext DEF SetDirection, Then
<1> USE <1>a, <1>b
<1> USE DEF SetDirection, csrs, pll, expander, Selects, Then, Fail, Finish, GoOn, Idle, Command, InPage,
        PllAnswers, SwitchAnswers
<1>1. Works'
  BY <1>0 DEF Works, RightPort
<1> SUFFICES ASSUME clean' PROVE Running' /\ Behind'
  BY <1>1 DEF BringsUp
<1>2. clean /\ Running /\ Behind /\ script' = script
  BY <1>0
<1>3. Running'
  <2>1. at.cmd = "reset_firefly"
    BY <1>0 DEF RightPort
  <2> QED
    BY <1>2, <1>g, <2>1 DEF Running
<1>4. Behind'
  BY <1>0, <1>2 DEF Behind, Over, Running, Works, ChipTypeOK, RightPort
<1> QED
  BY <1>3, <1>4

LEMMA AssertResetBringsUp ==
  ASSUME IInv, BringsUp, AssertReset PROVE BringsUp'
<1>0. /\ CpuTypeOK /\ ChipTypeOK /\ RightPort /\ Programmed /\ InStep
      /\ Works /\ (clean => Running /\ Behind)
  BY DEF IInv, TypeOK, BringsUp
<1>a. at \in Places /\ at.phase \in Phases /\ at.n \in Nat /\ at.b \in {0, 1} /\ script \in Nat
  BY <1>0, ScriptIs, OpticsAssumption DEF CpuTypeOK, Places
<1>b. NPlls \in Nat \ {0} /\ \A p \in PllPorts : p \in Nat /\ Line(p) \in 2..(NPlls + 1)
  BY OpticsAssumption DEF PllPorts, Line
<1>g. at'.cmd = at.cmd \/ at'.cmd = "none"
  BY WhereNext DEF AssertReset, Then
<1> USE <1>a, <1>b
<1> USE DEF AssertReset, csrs, pll, expander, Selects, Then, Fail, Finish, GoOn, Idle, Command, InPage,
        PllAnswers, SwitchAnswers
<1>1. Works'
  BY <1>0 DEF Works, RightPort
<1> SUFFICES ASSUME clean' PROVE Running' /\ Behind'
  BY <1>1 DEF BringsUp
<1>2. clean /\ Running /\ Behind /\ script' = script
  BY <1>0
<1>3. Running'
  <2>1. at.cmd = "reset_firefly"
    BY <1>0 DEF RightPort
  <2> QED
    BY <1>2, <1>g, <2>1 DEF Running
<1>4. Behind'
  BY <1>0, <1>2 DEF Behind, Over, Running, Works, ChipTypeOK, RightPort
<1> QED
  BY <1>3, <1>4

LEMMA HoldBringsUp ==
  ASSUME IInv, BringsUp, Hold PROVE BringsUp'
<1>0. /\ CpuTypeOK /\ ChipTypeOK /\ RightPort /\ Programmed /\ InStep
      /\ Works /\ (clean => Running /\ Behind)
  BY DEF IInv, TypeOK, BringsUp
<1>a. at \in Places /\ at.phase \in Phases /\ at.n \in Nat /\ at.b \in {0, 1} /\ script \in Nat
  BY <1>0, ScriptIs, OpticsAssumption DEF CpuTypeOK, Places
<1>b. NPlls \in Nat \ {0} /\ \A p \in PllPorts : p \in Nat /\ Line(p) \in 2..(NPlls + 1)
  BY OpticsAssumption DEF PllPorts, Line
<1>g. at'.cmd = at.cmd \/ at'.cmd = "none"
  BY WhereNext DEF Hold
<1> USE <1>a, <1>b
<1> USE DEF Hold, csrs, pll, expander, Selects, Then, Fail, Finish, GoOn, Idle, Command, InPage,
        PllAnswers, SwitchAnswers
<1>1. Works'
  BY <1>0 DEF Works, RightPort
<1> SUFFICES ASSUME clean' PROVE Running' /\ Behind'
  BY <1>1 DEF BringsUp
<1>2. clean /\ Running /\ Behind /\ script' = script
  BY <1>0
<1>3. Running'
  <2>1. at.cmd = "reset_firefly"
    BY <1>0 DEF RightPort
  <2> QED
    BY <1>2, <1>g, <2>1 DEF Running
<1>4. Behind'
  BY <1>0, <1>2 DEF Behind, Over, Running, Works, ChipTypeOK, RightPort
<1> QED
  BY <1>3, <1>4

LEMMA ReleaseResetBringsUp ==
  ASSUME IInv, BringsUp, ReleaseReset PROVE BringsUp'
<1>0. /\ CpuTypeOK /\ ChipTypeOK /\ RightPort /\ Programmed /\ InStep
      /\ Works /\ (clean => Running /\ Behind)
  BY DEF IInv, TypeOK, BringsUp
<1>a. at \in Places /\ at.phase \in Phases /\ at.n \in Nat /\ at.b \in {0, 1} /\ script \in Nat
  BY <1>0, ScriptIs, OpticsAssumption DEF CpuTypeOK, Places
<1>b. NPlls \in Nat \ {0} /\ \A p \in PllPorts : p \in Nat /\ Line(p) \in 2..(NPlls + 1)
  BY OpticsAssumption DEF PllPorts, Line
<1>g. at'.cmd = at.cmd \/ at'.cmd = "none"
  BY WhereNext DEF ReleaseReset, Then
<1>h. at'.cmd # at.cmd /\ clean' => at.b # 0 /\ ~(at.n + 1 < NExpanders)
  BY WhereNext DEF ReleaseReset, Then
<1> USE <1>a, <1>b
<1> USE DEF ReleaseReset, csrs, pll, expander, Selects, Then, Fail, Finish, GoOn, Idle, Command, InPage,
        PllAnswers, SwitchAnswers
<1>1. Works'
  BY <1>0 DEF Works, RightPort
<1> SUFFICES ASSUME clean' PROVE Running' /\ Behind'
  BY <1>1 DEF BringsUp
<1>2. clean /\ Running /\ Behind /\ script' = script
  BY <1>0
<1>3. Running'
  <2>1. at.cmd = "reset_firefly"
    BY <1>0 DEF RightPort
  <2> QED
    BY <1>2, <1>g, <2>1 DEF Running
<1>4. Behind'
  <2>1. at.phase = "release" /\ at.cmd = "reset_firefly" /\ script = NPlls + 3 /\ held' = held
    BY <1>0, <1>2 DEF RightPort, Running
  <2>2. ASSUME at'.cmd = "none", NEW h \in Halves PROVE held'[h] /\ out'[h] = "release"
    <3>1. at.b = 1 /\ at.n + 1 >= NExpanders /\ out' = [out EXCEPT ![<<at.n, at.b>>] = "release"]
      <4>1. PICK ok \in BOOLEAN, x \in {out[<<at.n, at.b>>], "release"} :
              /\ ok => x = "release"
              /\ out' = [out EXCEPT ![<<at.n, at.b>>] = x]
              /\ IF at.b = 0 THEN Then(ok, "release", at.n, 1)
                 ELSE IF at.n + 1 < NExpanders THEN Then(ok, "release", at.n + 1, 0)
                 ELSE IF ok THEN Finish ELSE Fail
        OBVIOUS
      <4>2. ok
        BY <4>1
      <4>3. x = "release" /\ at'.cmd # at.cmd
        BY <2>1, <2>2, <4>1, <4>2
      <4>4. at.b = 1 /\ at.n + 1 >= NExpanders
        BY <1>h, <4>3, OpticsAssumption
      <4> QED
        BY <4>1, <4>3, <4>4
    <3>2. HalfInStep(h)
      BY <1>0 DEF InStep
    <3>3. CASE h = <<at.n, at.b>>
      BY <1>0, <2>1, <3>1, <3>2, <3>3 DEF HalfInStep, ChipTypeOK
    <3>4. CASE h # <<at.n, at.b>>
      <4>1. Passed(h)
        BY <1>0, <3>1, <3>4, OpticsAssumption DEF Passed, Halves, ExpanderPorts, RightPort
      <4> QED
        BY <1>0, <2>1, <3>1, <3>2, <3>4, <4>1 DEF HalfInStep, ChipTypeOK
    <3> QED
      BY <3>3, <3>4
  <2>3. Over(NPlls + 3)' => at'.cmd = "none"
    BY <1>2, <2>1 DEF Over
  <2> QED
    BY <1>2, <2>1, <2>2, <2>3 DEF Behind, Over
<1> QED
  BY <1>3, <1>4

LEMMA HoldSwitchesBringsUp ==
  ASSUME IInv, BringsUp, HoldSwitches PROVE BringsUp'
<1>0. /\ CpuTypeOK /\ ChipTypeOK /\ RightPort /\ Programmed /\ InStep
      /\ Works /\ (clean => Running /\ Behind)
  BY DEF IInv, TypeOK, BringsUp
<1>a. at \in Places /\ at.phase \in Phases /\ at.n \in Nat /\ at.b \in {0, 1} /\ script \in Nat
  BY <1>0, ScriptIs, OpticsAssumption DEF CpuTypeOK, Places
<1>b. NPlls \in Nat \ {0} /\ \A p \in PllPorts : p \in Nat /\ Line(p) \in 2..(NPlls + 1)
  BY OpticsAssumption DEF PllPorts, Line
<1> USE <1>a, <1>b
<1> USE DEF HoldSwitches, csrs, pll, expander, Selects, Then, Fail, Finish, GoOn, Idle, Command, InPage,
        PllAnswers, SwitchAnswers
<1>1. Works'
  BY <1>0 DEF Works, RightPort
<1> SUFFICES ASSUME clean' PROVE Running' /\ Behind'
  BY <1>1 DEF BringsUp
<1>2. clean /\ Running /\ Behind /\ script' = script
  BY <1>0
<1>3. Running'
  BY <1>0, <1>2 DEF Running, Works
<1>4. Behind'
  BY <1>0, <1>2 DEF Behind, Over, Running, Works, ChipTypeOK, RightPort
<1> QED
  BY <1>3, <1>4

LEMMA ReleaseSwitchesBringsUp ==
  ASSUME IInv, BringsUp, ReleaseSwitches PROVE BringsUp'
<1>0. /\ CpuTypeOK /\ ChipTypeOK /\ RightPort /\ Programmed /\ InStep
      /\ Works /\ (clean => Running /\ Behind)
  BY DEF IInv, TypeOK, BringsUp
<1>a. at \in Places /\ at.phase \in Phases /\ at.n \in Nat /\ at.b \in {0, 1} /\ script \in Nat
  BY <1>0, ScriptIs, OpticsAssumption DEF CpuTypeOK, Places
<1>b. NPlls \in Nat \ {0} /\ \A p \in PllPorts : p \in Nat /\ Line(p) \in 2..(NPlls + 1)
  BY OpticsAssumption DEF PllPorts, Line
<1> USE <1>a, <1>b
<1> USE DEF ReleaseSwitches, csrs, pll, expander, Selects, Then, Fail, Finish, GoOn, Idle, Command, InPage,
        PllAnswers, SwitchAnswers
<1>1. Works'
  BY <1>0 DEF Works, RightPort
<1> SUFFICES ASSUME clean' PROVE Running' /\ Behind'
  BY <1>1 DEF BringsUp
<1>2. clean /\ Running /\ Behind /\ script' = script
  BY <1>0
<1>3. Running'
  BY <1>0, <1>2 DEF Running, Works
<1>4. Behind'
  BY <1>0, <1>2 DEF Behind, Over, Running, Works, ChipTypeOK, RightPort
<1> QED
  BY <1>3, <1>4

LEMMA SelectModuleBringsUp ==
  ASSUME IInv, BringsUp, SelectModule PROVE BringsUp'
<1>0. /\ CpuTypeOK /\ ChipTypeOK /\ RightPort /\ Programmed /\ InStep
      /\ Works /\ (clean => Running /\ Behind)
  BY DEF IInv, TypeOK, BringsUp
<1>a. at \in Places /\ at.phase \in Phases /\ at.n \in Nat /\ at.b \in {0, 1} /\ script \in Nat
  BY <1>0, ScriptIs, OpticsAssumption DEF CpuTypeOK, Places
<1>b. NPlls \in Nat \ {0} /\ \A p \in PllPorts : p \in Nat /\ Line(p) \in 2..(NPlls + 1)
  BY OpticsAssumption DEF PllPorts, Line
<1> USE <1>a, <1>b
<1> USE DEF SelectModule, csrs, pll, expander, Selects, Then, Fail, Finish, GoOn, Idle, Command, InPage,
        PllAnswers, SwitchAnswers
<1>1. Works'
  BY <1>0 DEF Works, RightPort
<1> SUFFICES ASSUME clean' PROVE Running' /\ Behind'
  BY <1>1 DEF BringsUp
<1>2. clean /\ Running /\ Behind /\ script' = script
  BY <1>0
<1>3. Running'
  BY <1>0, <1>2 DEF Running, Works
<1>4. Behind'
  BY <1>0, <1>2 DEF Behind, Over, Running, Works, ChipTypeOK, RightPort
<1> QED
  BY <1>3, <1>4

LEMMA AccessBringsUp ==
  ASSUME IInv, BringsUp, Access PROVE BringsUp'
<1>0. /\ CpuTypeOK /\ ChipTypeOK /\ RightPort /\ Programmed /\ InStep
      /\ Works /\ (clean => Running /\ Behind)
  BY DEF IInv, TypeOK, BringsUp
<1>a. at \in Places /\ at.phase \in Phases /\ at.n \in Nat /\ at.b \in {0, 1} /\ script \in Nat
  BY <1>0, ScriptIs, OpticsAssumption DEF CpuTypeOK, Places
<1>b. NPlls \in Nat \ {0} /\ \A p \in PllPorts : p \in Nat /\ Line(p) \in 2..(NPlls + 1)
  BY OpticsAssumption DEF PllPorts, Line
<1> USE <1>a, <1>b
<1> USE DEF Access, csrs, pll, expander, Selects, Then, Fail, Finish, GoOn, Idle, Command, InPage,
        PllAnswers, SwitchAnswers, Later
<1>1. Works'
  BY <1>0 DEF Works, RightPort
<1> SUFFICES ASSUME clean' PROVE Running' /\ Behind'
  BY <1>1 DEF BringsUp
<1>2. clean /\ Running /\ Behind /\ script' = script
  BY <1>0
<1>3. Running'
  BY <1>0, <1>2 DEF Running, Works
<1>4. Behind'
  BY <1>0, <1>2 DEF Behind, Over, Running, Works, ChipTypeOK, RightPort
<1> QED
  BY <1>3, <1>4

LEMMA ScriptStartsBringsUp ==
  ASSUME IInv, BringsUp, ScriptStarts PROVE BringsUp'
<1>0. /\ script \in 0..Len(Script) /\ script < Len(Script) /\ script' = script + 1
      /\ at' = Script[script'] /\ clean' = clean /\ at.cmd = "none" /\ at.phase = "idle"
      /\ UNCHANGED <<sbPll, sbSwitch, op, switch, held, out>>
  BY NothingRuns DEF IInv, TypeOK, CpuTypeOK, ScriptStarts, csrs, pll, expander
<1>1. Len(Script) = NPlls + 3 /\ NPlls \in Nat \ {0} /\ NExpanders \in Nat /\ NSwitches \in Nat
  BY ScriptIs, OpticsAssumption
<1>2. script \in Nat /\ script' \in 1..(NPlls + 3)
  BY <1>0, <1>1
<1>3. /\ script' = 1 => at' = ResetPlls
      /\ script' \in 2..(NPlls + 1) =>
           at' = SetDivider(NExpanders + NSwitches + (script' - 1) - 1, Wanted)
      /\ script' = NPlls + 2 => at' = ResetSwitches
      /\ script' = NPlls + 3 => at' = ResetFirefly
  BY <1>0, <1>1, <1>2, ScriptIs
<1>4. \/ /\ script' = 1 /\ at'.cmd = "reset_si5341" /\ at'.phase = "hold_plls"
      \/ /\ script' \in 2..(NPlls + 1) /\ at'.cmd = "set_si5341_n_divider" /\ at'.phase = "page"
         /\ at'.v = Wanted /\ at'.n \in PllPorts /\ script' = Line(at'.n)
      \/ /\ script' = NPlls + 2 /\ at'.cmd = "reset_tca9548" /\ at'.phase = "hold_switches"
      \/ /\ script' = NPlls + 3 /\ at'.cmd = "reset_firefly" /\ at'.phase = "direct"
  <2>1. CASE script' = 1
    BY <1>3, <2>1 DEF ResetPlls, Command
  <2>2. CASE script' \in 2..(NPlls + 1)
    <3>1. at' = SetDivider(NExpanders + NSwitches + (script' - 1) - 1, Wanted)
      BY <1>3, <2>2
    <3>2. PICK p \in PllPorts :
            p = NExpanders + NSwitches + (script' - 1) - 1 /\ Line(p) = script'
      <4>1. \A i \in 2..(NPlls + 1) :
              /\ NExpanders + NSwitches + (i - 1) - 1 \in PllPorts
              /\ Line(NExpanders + NSwitches + (i - 1) - 1) = i
        BY OpticsAssumption DEF PllPorts, Line
      <4> QED
        BY <2>2, <4>1
    <3>3. /\ at'.cmd = "set_si5341_n_divider" /\ at'.phase = "page" /\ at'.v = Wanted
          /\ at'.n = p
      BY <3>1, <3>2 DEF SetDivider, Command
    <3> QED
      BY <2>2, <3>2, <3>3
  <2>3. CASE script' = NPlls + 2
    BY <1>3, <2>3 DEF ResetSwitches, Command
  <2>4. CASE script' = NPlls + 3
    BY <1>3, <2>4 DEF ResetFirefly, Command
  <2> QED
    BY <1>1, <1>2, <2>1, <2>2, <2>3, <2>4
<1>5. Works'
  BY <1>4 DEF Works
<1> SUFFICES ASSUME clean' PROVE Running' /\ Behind'
  BY <1>5 DEF BringsUp
<1>6. Behind
  BY <1>0 DEF BringsUp
<1>7. Running'
  BY <1>1, <1>4 DEF Running
<1>8. ASSUME NEW line \in Nat, Over(line)' PROVE Over(line)
  BY <1>0, <1>2, <1>4, <1>8 DEF Over
<1>9. \A p \in PllPorts : Line(p) \in Nat
  BY <1>1 DEF PllPorts, Line
<1>10. Behind'
  BY <1>0, <1>1, <1>4, <1>6, <1>8, <1>9 DEF Behind
<1> QED
  BY <1>7, <1>10

LEMMA RebootBringsUp ==
  ASSUME Reboot PROVE BringsUp'
<1>1. script' = 0 /\ at'.phase = "idle" /\ at'.cmd = "none"
  BY DEF Reboot, Idle, Command
<1>2. NPlls \in Nat /\ \A p \in PllPorts : Line(p) \in Nat \ {0}
  BY OpticsAssumption DEF PllPorts, Line
<1> QED
  BY <1>1, <1>2 DEF BringsUp, Works, Running, Behind, Over

Assigned(c) ==
  /\ c.phase \in {"hold_plls", "page", "hold_switches", "direct", "switch"}
  /\ c.phase = "hold_plls" => c.cmd = "reset_si5341"
  /\ c.phase = "page" => c.cmd \in {"set_si5341_n_divider", "get_si5341_n_divider"}
  /\ c.phase = "hold_switches" => c.cmd = "reset_tca9548"
  /\ c.phase = "switch" => c.cmd \in {"i2c_firefly", "get_firefly_status"}

LEMMA CommandsAssigned ==
  /\ Assigned(ResetPlls) /\ Assigned(ResetSwitches) /\ Assigned(ResetFirefly)
  /\ \A p \in PllPorts, v \in Values : Assigned(SetDivider(p, v)) /\ Assigned(GetDivider(p))
  /\ \A g \in Gtys : Assigned(Firefly(g)) /\ Assigned(Status(g))
BY DEF Assigned, Command, ResetPlls, ResetSwitches, ResetFirefly, SetDivider, GetDivider, Firefly,
       Status

LEMMA UserBringsUp ==
  ASSUME BringsUp, NEW c, Assigned(c), UserStarts(c)
  PROVE  BringsUp'
BY DEF UserStarts, BringsUp, Works, Assigned

LEMMA RawCommandsBringUp ==
  ASSUME IInv, BringsUp,
         \/ \E port \in 0..SelMod : I2cMux(port)
         \/ \E channels \in SUBSET Channels : I2cWriteSwitch(channels)
         \/ \E x \in {0, 3} : I2cWritePage(x)
  PROVE  BringsUp'
BY DEF I2cMux, I2cWriteSwitch, I2cWritePage, BringsUp, Works

LEMMA InitBringsUp == Init => BringsUp
<1> SUFFICES ASSUME Init PROVE BringsUp
  OBVIOUS
<1>1. script = 0 /\ at.phase = "idle" /\ at.cmd = "none"
  BY DEF Init, Idle, Command
<1>2. NPlls \in Nat /\ \A p \in PllPorts : Line(p) \in Nat \ {0}
  BY OpticsAssumption DEF PllPorts, Line
<1> QED
  BY <1>1, <1>2 DEF BringsUp, Works, Running, Behind, Over

LEMMA StepBringsUp == IInv /\ BringsUp /\ [Next]_vars => BringsUp'
<1> SUFFICES ASSUME IInv, BringsUp, [Next]_vars PROVE BringsUp'
  OBVIOUS
<1>1. CASE HoldPlls \/ ReleasePlls \/ SetPage \/ SetNumerator \/ SetDenominator \/ Update \/ ReadDivider
  BY <1>1, HoldPllsBringsUp, ReleasePllsBringsUp, SetPageBringsUp, SetNumeratorBringsUp,
     SetDenominatorBringsUp, UpdateBringsUp, ReadDividerBringsUp
<1>2. CASE SetDirection \/ AssertReset \/ Hold \/ ReleaseReset
  BY <1>2, SetDirectionBringsUp, AssertResetBringsUp, HoldBringsUp, ReleaseResetBringsUp
<1>3. CASE HoldSwitches \/ ReleaseSwitches \/ SelectModule \/ Access
  BY <1>3, HoldSwitchesBringsUp, ReleaseSwitchesBringsUp, SelectModuleBringsUp, AccessBringsUp
<1>4. CASE ScriptStarts \/ Reboot
  BY <1>4, ScriptStartsBringsUp, RebootBringsUp
<1>5. CASE \/ \E port \in 0..SelMod : I2cMux(port)
           \/ \E channels \in SUBSET Channels : I2cWriteSwitch(channels)
           \/ \E x \in {0, 3} : I2cWritePage(x)
  BY <1>5, RawCommandsBringUp
<1>6. CASE \/ \E p \in PllPorts, v \in Values : UserStarts(SetDivider(p, v))
           \/ \E p \in PllPorts : UserStarts(GetDivider(p))
           \/ \E g \in Gtys : UserStarts(Firefly(g))
           \/ \E g \in Gtys : (\A h \in Gtys : g <= h) /\ UserStarts(Status(g))
           \/ \E c \in {ResetPlls, ResetSwitches, ResetFirefly} : UserStarts(c)
  <2>1. \E c : Assigned(c) /\ UserStarts(c)
    BY <1>6, CommandsAssigned, OpticsAssumption
  <2> QED
    BY <2>1, UserBringsUp
<1>7. CASE UNCHANGED vars
  BY <1>7 DEF vars, csrs, pll, expander, BringsUp, Works, Running, Behind, Over
<1> QED
  BY <1>1, <1>2, <1>3, <1>4, <1>5, <1>6, <1>7 DEF Next

(***************************************************************************)
(* After bootcmd.c has run without an error the optics are up, for every   *)
(* number of chips and whatever state they were found in.                  *)
(***************************************************************************)
THEOREM ScriptBringsUp == Spec => []BroughtUp
<1>1. IInv /\ BringsUp => BroughtUp
  <2> SUFFICES ASSUME IInv, BringsUp, AtPrompt, clean
               PROVE  /\ sbPll /\ \A p \in PllPorts : op[p] = <<Wanted, Wanted>>
                      /\ sbSwitch /\ \A p \in SwitchPorts : switch[p] = {}
                      /\ \A h \in Halves : held[h] /\ ~InReset(h)
    BY DEF BroughtUp
  <2>1. at.cmd = "none" /\ script = NPlls + 3 /\ Behind
    BY ScriptIs DEF AtPrompt, Waiting, Idle, Command, BringsUp
  <2>2. NPlls \in Nat \ {0} /\ \A p \in PllPorts : Line(p) \in 2..(NPlls + 1)
    BY OpticsAssumption DEF PllPorts, Line
  <2>3. Over(1) /\ Over(NPlls + 2) /\ Over(NPlls + 3) /\ \A p \in PllPorts : Over(Line(p))
    BY <2>1, <2>2 DEF Over
  <2> QED
    BY <2>1, <2>3 DEF Behind, InReset
<1> QED
  BY <1>1, InitInvariant, StepInvariant, InitBringsUp, StepBringsUp, PTL DEF Spec
=============================================================================
