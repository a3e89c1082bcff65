---------------------------- MODULE Elaboration ----------------------------
(***************************************************************************)
(* What the top-level Python scripts build before Vivado runs: which       *)
(* resources of the board they take, which IP they create and instantiate, *)
(* and with which clocks.  A script is a sequence of steps, performed from *)
(* first to last; the first one that raises ends it.  Pins are left out: a *)
(* resource is its name and number.  Frequencies are in kHz.               *)
(* Definitions marked "Slip" are mistakes that the properties must notice. *)
(***************************************************************************)
EXTENDS Naturals, Sequences, SequencesExt

Numbered(name, n) == {<<name, i>> : i \in 0..n - 1}

\* litex_boards/platforms: the transceiver banks of tfoil, both columns.
LeftBanks  == 120..135
RightBanks == (220..223) \cup (228..235)

tfoil_io ==
  {<<"GTY", b, 0>> : b \in LeftBanks \cup RightBanks}
  \cup {<<"MGTREFCLK", b, i>> : b \in LeftBanks \cup RightBanks, i \in 0..1}
  \cup Numbered("clk_200", 2) \cup Numbered("clk_125", 1)
  \cup Numbered("cpu_resetn", 1) \cup Numbered("user_led", 8) \cup Numbered("serial", 1)
  \cup Numbered("i2c_tca9548", 4) \cup Numbered("i2c_tca9555", 7) \cup Numbered("i2c_si5341", 2)
  \cup Numbered("tca9548_reset_n", 4) \cup Numbered("si5341_in_sel_0", 2)
  \cup Numbered("si5341_syncb", 2) \cup Numbered("si5341_lolb", 2) \cup Numbered("si5341_rstb", 2)
  \cup Numbered("ddram", 1)

vcu1525_io ==
  UNION {Numbered(name, 2) : name \in {"qsfp", "qsfp_fs", "qsfp_ls"}}
  \cup UNION {Numbered(name, 1) : name \in {"qsfp0_refclk156m", "qsfp0_refclk1",
         "qsfp1_refclk156m", "qsfp1_refclk1", "serial",
         "pcie_x2", "pcie_x4", "pcie_x8", "pcie_x16"}}
  \cup Numbered("sys_clk", 4) \cup Numbered("user_led", 3) \cup Numbered("ddram", 4)

sim_io ==
  UNION {Numbered(name, 1) : name \in {"sys_clk", "sys_rst", "gt_sim_clk", "gt_sim_rst", "serial",
         "eth_clocks", "eth", "xgmii_eth", "gmii_eth", "i2c", "spiflash", "spiflash4x", "gpio"}}

Io == [ted_tfoil |-> tfoil_io, xilinx_vcu1525 |-> vcu1525_io, sim |-> sim_io]

\* The quad that PlatformInfo gives for transceiver pads.
Quad(pads) ==
  IF pads[1] = "GTY" THEN [column |-> (pads[2] \div 100) - 1, row |-> (pads[2] % 100) - 20]
                     ELSE [column |-> 1, row |-> 12 - pads[2]]

\* Platform.do_finalize: the period constraints, as the frequency they stand for.
Constrained(res) ==
  CASE res[1] = "clk_200" -> 200000
    [] res[1] = "clk_125" -> 125000
    [] res[1] = "sys_clk" -> 300000
    [] res[1] \in {"qsfp0_refclk156m", "qsfp1_refclk156m"} -> 156250
    [] res[1] \in {"qsfp0_refclk1", "qsfp1_refclk1"} -> 161133
    [] OTHER -> 0
-----------------------------------------------------------------------------
(***************************************************************************)
(* Steps of a script.                                                      *)
(***************************************************************************)
Request(name, n)   == <<[op |-> "request", res |-> <<name, n>>]>>
RequestAll(name)   == <<[op |-> "request_all", name |-> name]>>
Requests(name, n)  == [i \in 1..n |-> [op |-> "request", res |-> <<name, i - 1>>]]
Taking(res)        == <<[op |-> "request", res |-> res]>>
AddTclIp(ip)       == <<[op |-> "add_tcl_ip", ip |-> ip]>>
AddSource(file)    == <<[op |-> "add_source", file |-> file]>>
Instance(cell)     == <<[op |-> "instance", cell |-> cell]>>
Vio                == <<[op |-> "vio"]>>
AddProbe           == <<[op |-> "add_probe"]>>
Uses(res, kHz)     == <<[op |-> "uses", res |-> res, kHz |-> kHz]>>
ClockDomain(cd, k) == <<[op |-> "domain", cd |-> cd, kHz |-> k]>>
Raise              == <<[op |-> "raise"]>>
When(cond, steps)  == IF cond THEN steps ELSE <<>>

AuroraSteps(pads, refclk, cd, initMHz, ila) ==
  LET ip == <<"ar", Quad(pads).column, Quad(pads).row>>
  IN  Taking(pads) \o Taking(refclk) \o AddSource(<<"aurora_reset_seq">>)
      \o Instance(<<"aurora_reset_seq">>)
      \o <<[op |-> "aurora", quad |-> Quad(pads), cd |-> cd, initMHz |-> initMHz]>>
      \o AddTclIp(ip) \o Uses(refclk, 161133) \o When(ila, AddProbe) \o Vio \o Instance(ip)

\* Slip: C_INIT_CLK is left at its default.
AuroraDefaultInit(pads, refclk, cd, initMHz, ila) == AuroraSteps(pads, refclk, cd, 100, ila)

\* An Aurora64b66b and the resources its caller requests for it.
Aurora(pads, refclk, cd, initMHz, ila) == AuroraSteps(pads, refclk, cd, initMHz, ila)

\* CONFIG.C_UCOLUMN_USED: characters 5 to -2 of the quad's name are "X0" only
\* for a row of one digit.
UColumn(quad) == IF quad.column = 0 /\ quad.row < 10 THEN 0 ELSE 1
-----------------------------------------------------------------------------
(***************************************************************************)
(* Performing them.                                                        *)
(***************************************************************************)
Fresh(io) ==
  [free |-> io, ips |-> <<>>, cells |-> {}, sources |-> {}, vios |-> 0, auroras |-> {},
   uses |-> {}, domains |-> {}, probed |-> FALSE, launched |-> {}, raised |-> FALSE]

Raised(soc) == [soc EXCEPT !.raised = TRUE]

Take(soc, res) == IF res \in soc.free THEN [soc EXCEPT !.free = @ \ {res}] ELSE Raised(soc)

\* request_all takes numbers from 0 on while there are any, and at least one.
TakeAll(soc, name) ==
  LET Got(n) == \A i \in 0..n : <<name, i>> \in soc.free
  IN  IF Got(0) THEN [soc EXCEPT !.free = @ \ {<<name, n>> : n \in {n \in 0..15 : Got(n)}}]
                ELSE Raised(soc)

Perform(soc, s) ==
  IF soc.raised THEN soc
  ELSE CASE s.op = "request"     -> Take(soc, s.res)
         [] s.op = "request_all" -> TakeAll(soc, s.name)
         [] s.op = "add_tcl_ip"  -> [soc EXCEPT !.ips = Append(@, s.ip)]
         [] s.op = "add_source"  -> [soc EXCEPT !.sources = @ \cup {s.file}]
         [] s.op = "instance"    -> [soc EXCEPT !.cells = @ \cup {s.cell}]
         [] s.op = "vio"         -> [soc EXCEPT !.vios = @ + 1]
         [] s.op = "add_probe"   -> [soc EXCEPT !.probed = TRUE]
         [] s.op = "uses"        -> [soc EXCEPT !.uses = @ \cup {<<s.res, s.kHz>>}]
         [] s.op = "domain"      -> [soc EXCEPT !.domains = @ \cup {<<s.cd, s.kHz>>}]
         [] s.op = "aurora"      -> [soc EXCEPT !.auroras = @ \cup {s}]
         [] OTHER                -> Raised(soc)

\* finalize_tcl_ip launches the runs of the IP added so far.
FinalizeTclIp(soc) == [soc EXCEPT !.launched = @ \cup ToSet(soc.ips)]

\* XilinxVIO.do_finalize creates and instantiates the IP of each VIO.
FinalizeVios(soc) ==
  [soc EXCEPT !.ips = @ \o [i \in 1..soc.vios |-> <<"vio", i - 1>>],
              !.cells = @ \cup {<<"vio", i - 1>> : i \in 1..soc.vios}]

\* Slip: finalize_tcl_ip runs before the submodules are finalized.
FinalizedTooEarly(soc) == IF soc.raised THEN soc ELSE FinalizeVios(FinalizeTclIp(soc))

\* Submodules are finalized first, then BaseSoC.do_finalize.
Finalized(soc) == IF soc.raised THEN soc ELSE FinalizeTclIp(FinalizeVios(soc))
=============================================================================
