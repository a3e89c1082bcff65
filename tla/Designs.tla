------------------------------ MODULE Designs ------------------------------
(***************************************************************************)
(* The top-level scripts of the repository as sequences of the steps of    *)
(* Elaboration, with the command-line options that change what they build. *)
(* SoCCore itself requests the serial port.                                *)
(***************************************************************************)
EXTENDS Elaboration

SoCCore == Request("serial", 0)

\* The selector in front of the I2C buses is a source of its own.
I2CMasterMP == AddSource(<<"i2c_mux">>) \o Instance(<<"i2c_mux">>)

\* ted_tfoil.py: the buses, reset and status pins of the optical modules.
SideBand ==
  Requests("i2c_tca9555", 7) \o Requests("i2c_tca9548", 4) \o Requests("i2c_si5341", 2)
  \o I2CMasterMP \o RequestAll("tca9548_reset_n")
  \o Requests("si5341_in_sel_0", 2) \o Requests("si5341_syncb", 2) \o Requests("si5341_rstb", 2)
  \o Requests("si5341_lolb", 2)

tfoil_CRG ==
  Request("clk_200", 0) \o Uses(<<"clk_200", 0>>, 200000) \o Request("cpu_resetn", 0)
  \o Request("clk_125", 0) \o ClockDomain("clk125", Constrained(<<"clk_125", 0>>))

tfoil(sdram) ==
  SoCCore \o tfoil_CRG \o When(sdram, Request("ddram", 0)) \o RequestAll("user_led") \o SideBand
  \o Aurora(<<"GTY", 121, 0>>, <<"MGTREFCLK", 121, 0>>, "clk125", 125, TRUE)

\* The two IBERT scripts ask for a clock that the board's table does not have.
ibert_CRG ==
  Request("cpu_resetn", 0) \o Request("sys_clk_0", 0) \o Uses(<<"sys_clk_0", 0>>, 200000)

rimini_ibert == SoCCore \o ibert_CRG \o Request("ddram", 0) \o RequestAll("user_led") \o SideBand

\* The pads of two quads, a preset no platform has, and a second missing clock.
tfoil_ibert ==
  rimini_ibert
  \o Taking(<<"MGTREFCLK", 120, 0>>) \o Taking(<<"MGTREFCLK", 120, 1>>)
  \o Taking(<<"MGTREFCLK", 121, 0>>) \o Taking(<<"MGTREFCLK", 121, 1>>)
  \o Taking(<<"GTY", 120, 0>>) \o Taking(<<"GTY", 121, 0>>) \o Raise \o Request("clk125", 0)

vcu1525_CRG ==
  Requests("qsfp_fs", 2) \o Request("sys_clk", 1) \o Uses(<<"sys_clk", 1>>, 300000)
  \o ClockDomain("clk100", 100000)

\* The check of the frequency compares objects and calls NotImplemented.
vcu1525_CRGBlock ==
  Raise \o AddTclIp(<<"crg_clkgen">>) \o Request("sys_clk", 1) \o Uses(<<"sys_clk", 1>>, 300000)
  \o Instance(<<"crg_clkgen">>) \o ClockDomain("clk100", 100000)
  \o Request("qsfp0_fs", 0) \o Request("qsfp1_fs", 0)

vcu1525_aurora(use_clkwiz) ==
  SoCCore \o (IF use_clkwiz THEN vcu1525_CRGBlock ELSE vcu1525_CRG) \o RequestAll("user_led")
  \o Aurora(<<"qsfp", 0>>, <<"qsfp0_refclk1", 0>>, "clk100", 100, TRUE)
  \o Aurora(<<"qsfp", 1>>, <<"qsfp1_refclk1", 0>>, "clk100", 100, FALSE)
  \o Requests("qsfp_ls", 2)

\* The import of K2MMBlock raises; the fs pads are under another name, too.
vcu1525_kyokko ==
  Raise \o SoCCore \o Request("qsfp0_fs", 0) \o Request("qsfp1_fs", 0) \o Request("sys_clk", 1)
  \o Uses(<<"sys_clk", 1>>, 300000) \o ClockDomain("clk100", 100000)
  \o Request("ddram", 0) \o RequestAll("user_led")
  \o Request("qsfp", 0) \o Request("qsfp0_refclk1", 0) \o Request("qsfp", 1)

\* The simulated SoC with the ports its options ask for; the same import.
sim(ports) ==
  SoCCore \o Request("sys_clk", 0) \o Request("gt_sim_clk", 0)
  \o FoldSet(LAMBDA port, steps : Request(port, 0) \o steps, <<>>, ports) \o Raise
-----------------------------------------------------------------------------
Configured(platform, script) ==
  [platform |-> platform,
   soc |-> Finalized(FoldLeft(Perform, Fresh(Io[platform]), script))]

AllDesigns ==
  [tfoil            |-> Configured("ted_tfoil", tfoil(TRUE)),
   tfoil_no_sdram   |-> Configured("ted_tfoil", tfoil(FALSE)),
   tfoil_ibert      |-> Configured("ted_tfoil", tfoil_ibert),
   rimini_ibert     |-> Configured("ted_tfoil", rimini_ibert),
   vcu1525_aurora   |-> Configured("xilinx_vcu1525", vcu1525_aurora(FALSE)),
   vcu1525_clkwiz   |-> Configured("xilinx_vcu1525", vcu1525_aurora(TRUE)),
   vcu1525_kyokko   |-> Configured("xilinx_vcu1525", vcu1525_kyokko),
   sim              |-> Configured("sim", sim({"eth", "i2c", "gpio"}))]
-----------------------------------------------------------------------------
(***************************************************************************)
(* What a netlist owes Vivado: every cell is a created IP or an added      *)
(* source, no IP is created twice, each clock is constrained to the        *)
(* frequency the design assumes where it is constrained at all, an         *)
(* Aurora's init clock runs at C_INIT_CLK and its quad lies in the column  *)
(* named to the IP (aurora.py:84-152 against the platforms' tables).       *)
(***************************************************************************)
Consistent(soc) ==
  /\ soc.cells \subseteq ToSet(soc.ips) \cup soc.sources
  /\ \A i, j \in DOMAIN soc.ips : soc.ips[i] = soc.ips[j] => i = j
  /\ \A u \in soc.uses : Constrained(u[1]) \in {0, u[2]}
  /\ \A a \in soc.auroras : /\ <<a.cd, a.initMHz * 1000>> \in soc.domains
                            /\ UColumn(a.quad) = a.quad.column
=============================================================================
