----------------------------- MODULE BuildFlow -----------------------------
(***************************************************************************)
(* Repeated runs of the top-level scripts on one tree: main of             *)
(* ted_tfoil.py and vcu1525_aurora.py, LocalBuilder, and the Vivado script *)
(* that litex_boards/xilinx.py, xilinx_ila.py and xilinx_vio.py put        *)
(* together.  A run elaborates the design, writes its sources, runs Vivado *)
(* with --build, writes the probes of the logic analyzer to gen_ila.tcl    *)
(* and programs the board with --load.  It may fail in Vivado, be          *)
(* interrupted anywhere, and be followed by a run of another design or of  *)
(* an edited source.  Files of an earlier run stay in the directory of the *)
(* platform.  Vivado and LiteX's Builder are external.                     *)
(* Definitions marked "Slip" are mistakes that the properties must notice. *)
(***************************************************************************)
EXTENDS Naturals, Sequences, FiniteSets

CONSTANTS
  Design,      \* Design[d]: the platform and the elaborated SoC of script d
  MaxVersion   \* bound: how often the source may be edited

Designs   == DOMAIN Design
Platform(d) == Design[d].platform
Soc(d)      == Design[d].soc
Platforms == {Platform(d) : d \in Designs}

ASSUME BuildAssumption ==
  /\ MaxVersion \in Nat
  /\ "none" \notin Designs
  /\ \A d \in Designs : Soc(d).raised \in BOOLEAN /\ Soc(d).probed \in BOOLEAN

VARIABLES
  version,   \* the version of the source tree
  run,       \* the run in progress: its phase, design, source version and options
  ran,       \* the out-of-context runs of IP that have finished
  probes,    \* probes[p]: what gen_ila.tcl was written for, or None
  bit,       \* bit[p]: the bitstream: what it was built from, whose probes it has
  board,     \* board[p]: the bitstream the board runs
  last       \* last[p]: what the last run in p was of, if it ended well

vars == <<version, run, ran, probes, bit, board, last>>
files == <<probes, bit>>

None == [design |-> "none", version |-> 0]
NoBit == [content |-> None, probes |-> None]

Idle == [phase |-> "idle", design |-> "none", version |-> 0, build |-> FALSE, load |-> FALSE]

Content == [design |-> run.design, version |-> run.version]
Dir     == Platform(run.design)

Enter(phase) == run' = [run EXCEPT !.phase = phase]
End == run' = Idle

Init ==
  /\ version = 1 /\ run = Idle /\ ran = {}
  /\ probes = [p \in Platforms |-> None]
  /\ bit = [p \in Platforms |-> NoBit] /\ board = [p \in Platforms |-> NoBit]
  /\ last = [p \in Platforms |-> None]

\* The next edit changes what the scripts elaborate.
Edit ==
  /\ version < MaxVersion
  /\ version' = version + 1
  /\ UNCHANGED <<run, ran, files, board, last>>

\* BaseSoC.__init__: a script that raises leaves nothing behind.
Elaborate(d, build, load) ==
  /\ run.phase = "idle"
  /\ IF Soc(d).raised THEN run' = Idle
     ELSE run' = [phase |-> "sources", design |-> d, version |-> version,
                  build |-> build, load |-> load]
  /\ last' = [last EXCEPT ![Platform(d)] = IF Soc(d).raised THEN None ELSE @]
  /\ UNCHANGED <<version, ran, files, board>>

\* Builder.build up to Vivado: directories, BIOS, netlist and scripts.
WriteSources ==
  /\ run.phase = "sources"
  /\ Enter(IF run.build THEN "project" ELSE "generate")
  /\ ran' = {}
  /\ UNCHANGED <<version, files, board, last>>

\* An error in Vivado raises in Builder.build; so does any other failure.
Failed ==
  /\ End
  /\ last' = [last EXCEPT ![Dir] = None]
  /\ UNCHANGED <<version, ran, files, board>>

\* The analyzer's add_files comes first and needs the file; then the IP is
\* created and its runs are launched.
AddFiles ==
  /\ run.phase = "project"
  /\ IF probes[Dir] = None THEN Failed
     ELSE Enter("ips") /\ UNCHANGED <<version, ran, files, board, last>>

\* The runs of IP go on side by side and end in any order.
IpRunEnds(ip) ==
  /\ run.phase = "ips"
  /\ ip \in Soc(run.design).launched \ ran
  /\ ran' = ran \cup {ip}
  /\ UNCHANGED <<version, run, files, board, last>>

\* foreach run: wait_on_run.
WaitOnRuns ==
  /\ run.phase = "ips"
  /\ Soc(run.design).launched \subseteq ran
  /\ Enter("synthesis")
  /\ UNCHANGED <<version, ran, files, board, last>>

\* synth_design to write_bitstream: the probes are those of the file, of
\* whatever run it is; the bitstream is only written at the end.
WriteBitstream ==
  /\ run.phase = "synthesis"
  /\ bit' = [bit EXCEPT ![Dir] = [content |-> Content, probes |-> probes[Dir]]]
  /\ Enter("generate")
  /\ UNCHANGED <<version, ran, probes, board, last>>

\* Slip: the exit code of Vivado is not looked at.
VivadoFailsUnnoticed ==
  /\ run.phase \in {"ips", "synthesis"}
  /\ Enter("generate")
  /\ UNCHANGED <<version, ran, files, board, last>>

\* Synthesis, timing, or nets of the file that the netlist does not have.
VivadoFails == run.phase \in {"ips", "synthesis"} /\ Failed

\* Slip: the file is only written when there is none.
GenerateIlaOnce ==
  /\ run.phase = "generate"
  /\ probes' = [probes EXCEPT ![Dir] = IF @ = None /\ Soc(run.design).probed THEN Content ELSE @]
  /\ Enter("end")
  /\ UNCHANGED <<version, ran, bit, board, last>>

\* generate_ila writes inside its loop over the cores: without probes the
\* file of an earlier run stays.
GenerateIla ==
  /\ run.phase = "generate"
  /\ probes' = [probes EXCEPT ![Dir] = IF Soc(run.design).probed THEN Content ELSE @]
  /\ Enter("end")
  /\ UNCHANGED <<version, ran, bit, board, last>>

\* load_bitstream programs the file of the platform's name, if there is one.
Load ==
  /\ run.phase = "end" /\ run.load
  /\ IF bit[Dir] = NoBit THEN Failed
     ELSE /\ board' = [board EXCEPT ![Dir] = bit[Dir]]
          /\ last' = [last EXCEPT ![Dir] = Content]
          /\ End
          /\ UNCHANGED <<version, ran, files>>

Finish ==
  /\ run.phase = "end" /\ ~run.load
  /\ last' = [last EXCEPT ![Dir] = Content]
  /\ End
  /\ UNCHANGED <<version, ran, files, board>>

\* The run is killed.
Interrupt == run.phase # "idle" /\ Failed

Next ==
  \/ Edit \/ Interrupt
  \/ \E d \in Designs, build, load \in BOOLEAN : Elaborate(d, build, load)
  \/ WriteSources \/ AddFiles \/ WaitOnRuns \/ WriteBitstream \/ VivadoFails
  \/ \E d \in Designs : \E ip \in Soc(d).launched : IpRunEnds(ip)
  \/ GenerateIla \/ Load \/ Finish

Spec == Init /\ [][Next]_vars
-----------------------------------------------------------------------------
Contents == [design : Designs \cup {"none"}, version : Nat]
Phases   == {"idle", "sources", "project", "ips", "synthesis", "generate", "end"}

TypeOK ==
  /\ version \in Nat
  /\ run \in [phase : Phases, design : Designs \cup {"none"}, version : Nat,
              build : BOOLEAN, load : BOOLEAN]
  /\ run.phase # "idle" => run.design \in Designs /\ ~Soc(run.design).raised
  /\ probes \in [Platforms -> Contents] /\ last \in [Platforms -> Contents]
  /\ bit \in [Platforms -> [content : Contents, probes : Contents]]
  /\ board \in [Platforms -> [content : Contents, probes : Contents]]

(***************************************************************************)
(* Synthesis finds every IP that the netlist instantiates: its             *)
(* out-of-context run was launched and has finished, in whatever order     *)
(* (xilinx.py:43-50), also that of a VIO, which is created only when       *)
(* Vivado's commands are put together (xilinx_vio.py:53-70).               *)
(***************************************************************************)
IpReady ==
  run.phase = "synthesis" => Soc(run.design).cells \subseteq ran \cup Soc(run.design).sources

(***************************************************************************)
(* The inductive strengthening: after a build the bitstream is that of the *)
(* run, after generate_ila so is gen_ila.tcl, and between the runs         *)
(* gen_ila.tcl is that of the last one, if that ended well.                *)
(***************************************************************************)
OwnBit == run.build /\ run.phase \in {"generate", "end"} => bit[Dir].content = Content

OwnProbes == run.phase = "end" /\ Soc(run.design).probed => probes[Dir] = Content

LastProbes ==
  \A p \in Platforms :
    /\ last[p].design \in Designs
    /\ Soc(last[p].design).probed
    /\ ~(run.phase = "end" /\ Dir = p)
    => probes[p] = last[p]

IInv == TypeOK /\ IpReady /\ OwnBit /\ OwnProbes /\ LastProbes

(***************************************************************************)
(* --build --load programs what this run built (ted_tfoil.py:172-177),     *)
(* never what an earlier run left: not after a failure, an interruption or *)
(* an edit.  (--load alone programs the last bitstream, whatever it is.)   *)
(***************************************************************************)
LoadsOwnBuild ==
  [][board' # board /\ run.build => board'[Dir].content = Content]_vars

(***************************************************************************)
(* The analyzer of a bitstream is connected by names that gen_ila.tcl got  *)
(* from the run before the build (ted_tfoil.py:172-173): it fits the       *)
(* netlist if the last run in this directory ended well and was of the     *)
(* same design and source.                                                 *)
(***************************************************************************)
RebuildFitsProbes ==
  [][bit' # bit /\ last[Dir] = Content /\ Soc(run.design).probed
       => bit'[Dir].probes = Content]_vars
=============================================================================
