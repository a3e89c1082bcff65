# TLA+ specifications of litex-ted-vu13p

This directory holds the formal model of the FPGA design and firmware in this
repository: TLA+ modules translated from the source, the TLC runs that check
them on small instances, and TLAPS proofs of the results that matter for every
instance. `PROJECT.json` maps each definition to the lines it models and lists
the runs, the theorems, the hazards and the deliberate mistakes ("slips") that
each property is known to notice.

## 1. The system

The repository builds LiteX SoCs for several Xilinx boards (VCU1525, trefoil
boards with a VU13P, RiminiVU9P). A SoC carries a K2MM core that tests serial
links between boards, the transceiver core for the link (Kyokko or Aurora
64b/66b), reset and clock support, an I2C multiplexer for the optical modules,
and a RISC-V processor with a BIOS.

| Component | State | Operations | Status |
|---|---|---|---|
| K2MM tester: `tfg.py`, `tfc.py`, `framing.py` `K2MMTester` | generator FSM and registers, checker registers, tester FSM | command, send beat, check beat, status pulse | modelled: `K2MMTester`, `K2MMNode` |
| K2MM probe, arbiter, dispatcher: `framing.py` | probe FSM, grant | start echo, echo a beat, regrant | modelled: `K2MMNode` |
| K2MM packet engine: `framing.py`, `packet.py`, `epbuf.py` | TX and RX FSMs, header registers, skid buffers, packet buffers | send header and data, take header, judge magic, receive, drop | modelled: `K2MMNode`, `K2MMPing` |
| Serial link: `kyokko.py`, `aurora.py`, `xpm_fifo.py` | clock-crossing FIFOs, channel state | enter, cross, leave, fail, come up | modelled up to the transceiver core: `K2MMLink` |
| K2MM CSR control: `framing.py` `K2MMControl` | CSRs | pulse a command | not modelled, see section 6 |
| Start-up resets: `util/reset.py`, `vcu1525_aurora.py` | EOS shift register, two reset counters | one clock edge | modelled: `StartupReset`, `BoardReset` |
| Aurora reset sequencer: `aurora_reset_seq.sv`, `aurora.py` | synchronizers, FSM, count, registered outputs | one clock edge, VIO switch | modelled: `AuroraResetSeq`, `BoardReset` |
| `_ResetSequencer`: `aurora.py` | reset FSM | - | not modelled: only its bench instantiates it, `aurora_reset_seq.sv` took its place |
| Serial boot: `bios/boot.c`, `sfl.h` | receive buffer, frame index, failure count | acknowledge wait, frame, load, jump, abort | modelled: `SerialBoot` |
| Boot sequence, media, boot commands: `main.c`, `boot.c`, `cmd_boot.c` | medium tried, list being handled, registers for the image | serial, network, flash, ROM, SD card, SATA; `boot`, `netboot`, ... | modelled but for file systems, TFTP and the JSON tokenizer: `BootSequence` |
| Console line editor: `readline.c`, `readline.h`, `complete.c` | edit buffer, history ring, terminal line | keys, history, completion | modelled: `ConsoleEditor`, `CommandLine` |
| Optical modules and I2C: `cmd_firefly.c`, `cmd_i2c.c`, `trefoil_dev.c`, `i2c_mp.py`, `i2c_selector.sv` | port selected, reset registers; in the chips: reset lines, switch channels, divider registers | reset, set and read dividers, reset and access modules, start-up commands | modelled but for hand writes to expanders and dividers: `Optics` |
| BIOS prompt: `main.c`, `bootcmd.c`, `helpers.c` | command running, position in the start-up commands | start-up commands, a command of the user | start-up commands in `Optics`; splitting a line keeps no state |
| BIOS commands on memory, SDRAM, flash, network | none of their own | one-shot register and memory accesses | not modelled: no state between commands |
| Platforms, SoC builders: `litex_boards/`, the top-level scripts, `localbuilder.py` | resources left, IP known, files of the build directory, bitstream on the board | elaborate, build, load | modelled up to pins, the C build and Vivado: `Elaboration`, `Designs`, `BuildFlow` |
| Vivado debug: `xilinx_ila.py`, `xilinx_vio.py`; transceiver wrappers | IP to create, `gen_ila.tcl` | add a probe, finalize, generate | order and files modelled: `Elaboration`, `BuildFlow`; port lists are not |

How they interact. The tester and the probe share one packet engine through a
round-robin arbiter; received frames go to one of them by the header bit `pf`.
A test frame (`pf` = 1) is echoed by the probe of the other end with `pf` = 0
and comes back to the checker. The packet engine talks to the link with
valid/ready handshakes, the link talks to the peer without backpressure. The
channel state resets the link's FIFOs but not K2MM. The processor starts tests
and reads results through CSRs, and the BIOS boots it over the console.

Below the link is a chain of resets: the end of configuration releases the
reference clock generator, that one the MMCM, the lock of the MMCM the Aurora
reset sequencer, and the sequencer the core. On the processor, `main()` tries
one boot medium after the other, `serialboot()` among them, and ends at the
prompt, whose lines `readline()` edits. On the TFOIL board it first runs the
commands of `bootcmd.c`, which reset the clock generators, the I2C switches and
the optical modules and set the dividers that feed the transceivers.

All of this exists because a script has built it: each top-level script takes
resources from the tables of its platform, creates vendor IP, hands the netlist
to Vivado and programs the board, in a directory that later runs use again.

### What is hard

* Several masters and buffers move at once; frames of two kinds share every
  buffer; a pair of nodes can wait for each other.
* The link loses beats when a FIFO is full, and flushes FIFOs in the middle of
  a frame when the channel fails; the receiver has to find the next header.
* Nothing has a timeout: a lost echo leaves a tester counting.
* Registers carry over between frames; widths are finite.
* A reset sequence can be cut short at any clock edge and starts again with
  whatever counts and synchronizers hold.
* The serial line garbles lengths as well as data; replies carry no number.
* A boot medium can fail after it has changed memory.
* One key moves, prints and backspaces in three different amounts; the history
  index wraps.
* Every optical module has the same I2C address; which one answers depends on a
  selector in the FPGA and switches outside, and any transfer may fail.
* The chips outside keep their state over a reset of the SoC in the middle of a
  command.
* A build reads a file that the run before it wrote, whatever run that was; a
  load takes the file that is there.

`PROJECT.json`, "hazards", lists each at its line with the properties that
would notice it.

## 2. Modules

```
EchoTest          what a test frame command promises (abstract)
   ^ implements
K2MMTester        one tester over a faithful echo      <- MCTester
   ^ implements (per node)      proofs: K2MMTester_proofs
K2MMNode          one node: tester, probe, arbiter, packet engine
   ^ extends                    lemmas: K2MMNode_proofs
   |-- K2MMPing   two nodes joined by wires            <- MCPing
   |                            proofs: K2MMPing_proofs
   `-- K2MMLink   two nodes joined by a serial link    <- MCLink
                                proofs: K2MMLink_proofs

StartupReset, AuroraResetSeq
   ^ extends
BoardReset        a board from configuration to a running core  <- MCReset
                                proofs: BoardReset_proofs

SerialBoot        serialboot() and its host            <- MCSerialBoot
                                proofs: Bios_proofs
   ^ implements (its action Serial)
BootSequence      the media and the boot commands      <- MCBoot
                                proofs: Bios_proofs
CommandLine       what the prompt promises (abstract)
   ^ implements
ConsoleEditor     readline, history, completion        <- MCConsoleEditor
                                proofs: Bios_proofs

Optics            optical modules, clock generators, I2C, start-up commands
                                proofs: Optics_proofs   <- MCOptics

Elaboration       what a step of a script does to the SoC
   ^ extends
Designs           the steps of each top-level script
   ^ instance
MCBuild           BuildFlow with those designs
   | extends
BuildFlow         runs of the scripts on one tree      proofs: BuildFlow_proofs
```

Operators marked "Slip" are deliberate mistakes that the properties are to
notice; nothing else uses them. `PROJECT.json`, "mutants", says which of them
breaks which property; some break several.

### K2MMNode

Every variable is a function of the node. An action is one handshake on a
stream (valid and ready at a clock edge) or one FSM transition that moves no
beat. In hardware many happen in the same cycle; ordered from consumer to
producer they are a sequence of these actions, so each synchronous run is one
of the interleavings checked here and the asynchronous ones (clock domains of
two boards) are included too.

| Variables | In the code |
|---|---|
| `tester` | FSM of `K2MMTester`, `framing.py:171-186` |
| `tfg`, `len`, `beats` | FSM and registers of `TestFrameGenerator`, `tfg.py:59-99` |
| `chkBeats`, `frameErr`, `status` | registers of `TestFrameChecker`, `tfc.py:20-48` |
| `probe` | FSM of `K2MMProbe`, `framing.py:105-120` |
| `grant` | the arbiter, `framing.py:224-230` |
| `ptx`, `prx` | skid buffers, two beats each, `epbuf.py:4-16` |
| `tx`, `txbuf` | `K2MMPacketTX` and `tx_buffer`; `tx` = SEND is split by the packetizer's state |
| `rx`, `hdr`, `rxbuf` | `K2MMPacketRX`, the depacketizer and `rx_buffer`; `rx` = IDLE is split by the depacketizer's state |

A data word is the counter that the generator replicates over the bus
(`tfg.py:85`), or `HeaderWord` when a lost beat makes the receiver take a
header for data. `Lookalike` is the set of counter values whose first bytes
read as the packet magic (in hardware, beat 0x4f6f or its byte swap, which only
frames of more than 20,000 beats have; the constant brings the case into small
frames). `gap` is a history bit: the beat just before this one was lost.

The LiteX cores (Arbiter, Dispatcher, Packetizer, Depacketizer, SyncFIFO) are
not in this repository. They are modelled as `framing.py` uses them: the arbiter
holds its grant from the first valid beat of a master to its last one and then
turns to the other if it requests; the depacketizer takes the first beat for a
header without looking at `last`; a FIFO is a bounded sequence.

What an action waits for is its first conjunct and has a name, `Can...`; what
follows it always has a value, so an action is enabled exactly when its guard is
true, and `NodeCanStep` and `CanTransfer` say that some action of a node can be
taken. (TLC agreed: `CanTransfer(n)` was equal to `ENABLED Transfer(n)` in every state
of `ping` and `link_both`.) A pair is `Stopped` when neither of its nodes can move.

`Peer` says which node is at the other end and `Commanders` whose tester is given
commands. `Sent`, `Open` and `Seen` read from the registers how far the frame of a
tester is; the refinement and the proofs are stated with them.

### K2MMPing and K2MMLink

`K2MMPing` joins two nodes as `test_framing_ping.py:10-17` does, with
backpressure, and lets both send. `K2MMLink` puts on either side the
clock-crossing FIFOs of `kyokko.py:118-130` and `aurora.py:178-228`. `Serial`
is the transceiver core and its far end: it moves one beat, which is lost when
the far FIFO is full (the receive port has no ready) or the far channel is
down. `ChannelDown` flushes the FIFOs that the channel resets: the receive
FIFO in both cores, the transmit FIFO only with Kyokko (`TxReset`;
`aurora.py` resets its transmit FIFO from the system clock domain). The
contents of the core in between are not modelled: what it could hold when the
channel fails is a beat lost by `Serial` instead. `fooled` records that a
receiver took a data word for a header, which ends two of the promises.
Fairness is stated over all variables but `fooled` (`hardware`).

### K2MMTester and EchoTest

`K2MMTester` is the tester alone; `echo` is the sequence of beats it sent and
has not got back, which stands for everything else. `EchoTest` is the promise
to software: a command is answered once, before the next is taken, without
error and with its own length.

### StartupReset, AuroraResetSeq and BoardReset

`ConfigClock` is one edge of CFGMCLK (`_ShiftSync` and both `PoRCounter`s of
`util/reset.py`), `InitClock` one edge of `init_clk` (every `always_ff` block of
`aurora_reset_seq.sv` and the two `XPMMultiReg` of `aurora.py`). `BoardReset`
puts them together as `vcu1525_aurora.py` does; the two clocks are independent,
so their edges interleave freely. EOS, the lock of the MMCM, the VIO switch and
the core are external: EOS and the switch move at any time, the MMCM may lose
the lock `MaxLosses` times on its own besides the times its reset takes it, and
the core reports reset some time after it is told to, and its end only after
both resets are gone. `clockUp`, `pbWidth`, `pmaWidth` and `unlocked` are what
a logic analyser on the pins would count; they stop a little above the values
that matter.

### SerialBoot

`HearKey` and `AckTimeout` are `check_ack`, `ReadByte` is one turn of the
receive loop of `serialboot()`, with everything that the last byte of a frame
sets off: the CRC, the command, the copy, the answer, the count of failures.
Four bytes of payload, which the code only moves together, are one token, and so
are the two bytes of the CRC. A token names the frame and the place it was sent
in; a garbled byte is `Noise`. The CRC is ideal. What a byte that is no length
reads as when it is taken for one is any member of `Misread`. The host
(`litex_term`, not in this repository) sends the frames of its program one at a
time, goes on at 'K' and otherwise sends the frame again. `early` and `reached`
are history bits: a reply left while bytes of a frame were still to come; a byte
was read since the host sent its frame. The line may lose any number of bytes
(`LoseByte`); other faults are counted (`MaxFaults`), and losses too once a reply
left early. The frames have a payload, as the receiver requires: a frame with a length of zero is never
complete and ends by the timer.

### BootSequence

One action per medium that has no files (`Serial`, `Flash`, `Rom`) and, for
those with files, one for reading `boot.json`, one per element of it, one for
its end and one for `boot.bin`. A host that answers `serialboot()` moves the BIOS
to stage "serial"; from then on it loads anywhere, jumps, or makes the BIOS leave
(`SerialHost`), or does nothing any more. A copy succeeds, fails leaving memory
alone, or fails half way. The network refuses an empty file; card and disk count
it as copied and leave memory as it was. A region of memory is a value and holds
the name of the file copied to it. `hollow` is history: the regions whose last
file was empty.
`Lists` are the elements that the loop over the tokens finds; the tokenizer is
not modelled, nor what the loop finds when the tokenizer reports an error.
`Kind` is the order of the `strncmp` tests on the names. `UserBoots` and
`UserTries` are the commands of `cmd_boot.c` at the prompt.

### ConsoleEditor and CommandLine

One action is one key. The editing operators take and return a record of buffer,
cursor, length and screen, in the order of the calls in `readline.c`, and keep
its arithmetic: how many cells are moved, printed and backspaced. The screen is
the line of the terminal behind the prompt. `buf` has one cell more than the
buffer: `cread_add_char` lets a line grow to the full size and the terminator
then goes behind it. What that changes is up to the compiler's layout of
`main()`, so the model ends there (`overrun`). Cells behind the end of the line
are written before they are read and not kept. An escape sequence that
`read_key` does not know becomes 255, which is DEL: it is `DeleteBackward`.

The candidates of a Tab are kept as their places in the command table; that no
command has an empty name is part of `EditorAssumption`. Init, Next and the type
invariant carry the names `EditorInit`, `EditorNext`, `EditorTypeOK` (`BootInit`
and so on in `BootSequence`), because one module of proofs is about both and
`SerialBoot`.

`CommandLine` knows a text before and a text behind the cursor, and a list of
recent lines. The mapping reads the ring backwards from `histAddIdx`; the list
holds `HIST_MAX - 1` lines, because the slot to be written next is never shown.
Giving up a line with ^C leaves the user where he was in the history (the next
UP goes further back), and `CommandLine` says so.

### Optics

One action is one I2C transfer, one write to a CSR that moves a chip, or the
half second of `reset_firefly`. `at` is the command and where it is; every
handler is a chain of phases, and a transfer that fails ends it, as the returns
of `cmd_firefly.c` do. A transfer may fail at any byte: then the register has
its old value, the new one, or, where several bytes make up a value, `"torn"`.
The registers of the chips are what the properties need: of a clock generator
the page, numerator and denominator of one divider, and the setting in
operation; of a switch the channels it connects; of an expander, for each of its
two registers of reset lines, direction and level. `held` records half a second
in reset, `clean` that only `bootcmd.c` ran since the SoC came up, without
error, `resetFailed` that the last `reset_firefly` printed one. `Reboot` is a
reset anywhere: of the processor alone, or of the SoC, whose CSRs then hold
clock generators and switches in reset; the expanders keep what they have. A
user may start any command at the prompt, select any port and write any channels
to a switch or any page to a clock generator.

### Elaboration, Designs and BuildFlow

`Elaboration` says what a step of a script does to a SoC: requesting takes a
resource out of the table of the platform or raises, `add_tcl_ip` adds an IP, an
`Instance` a cell, and so on; the first step that raises ends the script.
Resources are names and numbers, frequencies are in kHz. `Designs` writes each
top-level script as the sequence of its steps. `Finalized` is what migen and
`do_finalize` do at the end: VIOs create their IP, then the runs of the IP are
launched.

`BuildFlow` runs such designs one after the other on one tree. A run
elaborates, writes sources, runs Vivado with `--build`, writes `gen_ila.tcl`,
and programs the board with `--load`. The directory of a platform keeps
`probes` (what `gen_ila.tcl` was written for) and `bit` (what the bitstream was
built from and whose probes it has). `Interrupt` kills a run at any step,
`VivadoFails` is any error of Vivado, `Edit` is a change of the source or of an
option between two runs; a change of a file that Vivado reads while it builds is
not tracked.

## 3. Runs

| Run | Instance | Checks |
|---|---|---|
| `tester` | all lengths of a 3-bit counter | `IInv`, `StopIsQuiet`, `StatusTrue`; refines `EchoTest`; `Answered` |
| `ping` | two nodes, both test, frames of 1 and 5 beats, buffers of 1 (`SafeBeats` = 9) | `NodeTypeOK`, `WellAligned`, `StopsQuietOrWedged`; each node's tester sees a faithful echo (`EachTesterEchoed`); `AnsweredOrWedged` |
| `link_one` | one tester, frames of 1 and 4 beats, one channel failure, a payload word that reads as the magic | `TypeOK`, `CleanUntilLoss`, `LossShortens`, `Realigns`, `AnsweredOrLost` |
| `link_both` | two testers, frames of 2 beats, one failure, transmit FIFO kept, the same payload word | `StopsEmpty`, `NoStrayReport` |
| `reset` | shift register and synchronizers of 2, counts up to 3, pulses of 2 and 3 edges, one loss of lock | `IInv`, `MmcmAfterClock`, `DoneWithdrawn`, `FullWidths`, `ReleasedInReset`, `Initialized` |
| `serial` | four hosts (load two chunks upwards and jump; downwards and jump; load and abort; unknown command), any number of losses, two other faults | `RecognizesMagic`, `InStepInv`, `ImageIntact`, `LoadingEnds` |
| `serial_copy` | the same over a line that only loses bytes; expected to fail | `CopiesPayload` |
| `boot` | two builds, all lists of up to two elements and some of three, files empty or cut short, a host that may go silent | `EntryInv`, `JsonHonoured`, `SearchEnds` |
| `boot_args` | the same; expected to fail | `BootTakesArgs` |
| `editor` | two characters, lines of up to three, a ring of three, five commands, four of them compared | `ScreenInv`, `TabKeepsMatches`; refines `CommandLine` (`Promised`) |
| `build` | seven scripts, one edit | `IInv`, `NetlistConsistent`, `LoadsOwnBuild`, `RebuildFitsProbes` |
| `optics` | two expanders, two switches with three modules, one clock generator, two settings | `IInv`, `BroughtUp`, `ReleasedAfterHold` |

`InStepInv`, `EntryInv` and `ScreenInv` are the type invariant of their module
with `InStep`, `EntryIsLoaded` and `ScreenShowsLine`; `WellAligned` is
`WellFramed` with `Aligned`. The largest run, `optics`, has 3.6 million states.

What they show.

* Without loss, the probe of the peer, both packet engines, both arbiters and
  the wires together are a FIFO echo for each tester, however the frames of
  both directions mix (`EachTesterEchoed`). Hence every report is that of its
  own command.
* Two nodes on wires with backpressure can stop each other for good when both
  test at once. `StopsQuietOrWedged` says it happens in exactly one way (both in
  the middle of an echo with every buffer full) and only if the two frames
  together have more than `4 * FifoDepth + 5` beats: 1029 beats with the depth
  of 256 in `framing.py:123`. It is stated for each pair and proved for every depth. Otherwise every command is answered and every
  probed frame echoed (`AnsweredOrWedged`). On a serial link, whose receiver
  never makes the sender wait, beats are lost instead.
* After a loss, the receiver is aligned again after the next last beat it sees
  outside IDLE (`Realigns`), reports never reach a tester that waits for none
  (`NoStrayReport`), and with one tester they never count more beats than asked
  (`LossShortens`). The last two hold until a data word is taken for a header
  (`fooled`): a lost header lets the receiver find the magic in the payload, and
  the remains of an echo can become a probe whose echo ends at a tester that
  sent nothing.
* A lost last beat stops more than its own tester: the probe that waits for it
  holds the arbiter, and the tester of that node is stuck in the middle of its
  frame (`StopsEmpty`). No timeout ends either.
* However a reset sequence is cut short, by EOS, by the lock or by the switch,
  the next one has full pulses (`FullWidths`), lets go of `reset_pb` only while
  the core is in reset (`ReleasedInReset`) and, once nothing disturbs it,
  completes (`Initialized`). `done` outlives a lost lock by the synchronizer and
  one register (`DoneWithdrawn`), no longer.
* A jump over the serial line finds the image as the host sent it whatever any
  number of losses and two other faults do, unless a reply left early. The
  condition is needed: two faults, one that makes a frame end too soon and one in
  what follows, produce two replies, and since replies carry no number the host
  skips a chunk.
* Loading ends once no more bytes get lost (`LoadingEnds`), with two exceptions: a
  reply left early, or a frame was lost as a whole. In the second case the board
  waits for a first byte without a timer (`boot.c:200`) and the host for an answer.
  The premise and both exceptions are needed; TLC refutes the property without any
  one of them. Without the premise it shows a line that cuts every frame short: each
  timeout is answered and none is counted (`boot.c:221-226`), so that the 256
  failures that end `serialboot()` are never reached.
* **`serial_copy`**: a LOAD frame writes four bytes more than it carries.
  `payload_length` counts the address, the `memcpy` of `boot.c:263` starts behind
  it and does not subtract it. The four bytes are what an earlier frame left in
  the buffer. A host that loads upwards overwrites them with the next chunk;
  chunks in another order lose a word. `ImageIntact` therefore speaks of the
  words that no later frame writes, the word behind its chunk included; one host
  of `serial` loads downwards.
* A list is honoured whole or not at all, in whatever order it is written, but for
  files that were empty (`JsonHonoured`). Nothing half copied is entered, with one
  exception, which the code has: an empty file on a card or disk counts as copied
  and is entered with whatever was there, an image that an earlier medium left
  half copied included (`EntryInv`).
* The search for a medium ends, unless a host that answered `serialboot()` goes
  silent (`SearchEnds`): then the BIOS stays there, and no other medium is tried.
* **`boot_args`**: the `boot` command puts its fourth argument into `r2`
  (`cmd_boot.c:54`); its usage says `[r1] [r2] [r3]`.
* Every key leaves the terminal showing the line that Enter will execute
  (`ScreenInv`). Tab may
  lead away from a command only after the name of another one has ended
  (`TabKeepsMatches`): `complete.c` stops comparing there, so with names such as
  `i2c_read` and `i2c_read_firefly` the result depends on the link order.
* A transfer to the address that all modules share reaches the module that was
  named, whatever failed before; no divider runs on half a setting; and no module
  stays in reset at the prompt without an error message (`IInv` of `optics`).
* When the commands of `bootcmd.c` end without an error, the board is ready,
  whatever state an earlier run, cut anywhere, left the chips in (`BroughtUp`).
* Every IP that the netlist uses is there when synthesis starts (`IpReady`), the
  frequencies and quads that a design names twice agree (`NetlistConsistent`),
  and `--build --load` programs what it built (`LoadsOwnBuild`). The probes of the
  logic analyser are those of the run before; they fit if that run was of the
  same design and source and ended well (`RebuildFitsProbes`), and only then.

Bounds. Two nodes are the system: a link has two ends. Buffers of one or two
beats reach every full and empty condition; a frame of one beat has first and
last together, longer ones have middle beats. In `ping` two frames of five beats
are more than all buffers hold (10 > 9), and one of five with one of one is
not. (Lengths 3 and 4, 3 and 6, 2 and 6, 1 and 7, 0 and 8 with buffers of 1, and
5 and 6 with buffers of 2, were checked as well and agree.) `CountMod` is the
width of the counters and exceeds the lengths as in the code. `MaxDowns` bounds
only the number of channel failures; losses by a full FIFO are unbounded, and
two failures without the lookalike word were checked as well. Deadlock is not
checked in `ping` and the link runs, where the pair may really stop: the
stopping states are the subject of `StopsQuietOrWedged` and `StopsEmpty`, and
the temporal properties exclude other bad stops. `link_both` uses symmetry of
the two nodes, which have the same role there, and checks invariants only.

The counters of `reset` are short but have all the places that matter: zero, a
middle, the last one, and the wrap; synchronizers of two stages can show an
older level than they have sampled. `BoardReset_proofs` covers all lengths.
In `serial` losses are not bounded while no reply left early, so a frame may be
cut anywhere, lost as a whole, or cut for ever. `MaxFaults` = 2 bounds the other
faults and is what it takes for a second one to hit the recovery from the first;
images of two chunks have chunks that touch. `Misread` has a length that no
frame completes, one that ends a frame too soon and one that is too long for all. `MaxFailures`
= 2 stands for 256 and is reached. In `boot`, two regions of
memory let images collide, and lists of three elements put a setting between two
images. In `editor`, a ring of three wraps and has an oldest line that is not
the newest; lines of three characters have an inside; a fifth command is beyond
what `complete()` looks at. (Lines of four were searched for five minutes
without an error.)

`build` has every script but `ted_tfoil.py --disable-sdram`, which differs in one
resource. Two versions of the source are what it takes for a file to be stale;
the builds in a row are not bounded. In `optics`, two of a kind make "the other
one" possible, a switch with one module and one with two have different first
channels, and ports 5 to 7 have no chip. One clock generator suffices because a
command to one leaves the others alone; the theorems cover any number of each
(TFOIL: 7, 4 and 2).

`serial` and `boot` stop where the program has jumped to the image, and
`serial` also at the prompt; `editor` stops at an overrun. Deadlock is not
checked there. In `tester`, `reset`, `build` and `optics` it is.

Fairness. Each clocked element acts when it can: weak fairness per node and
action, which is what a running clock gives to logic whose guard stays true.
Commands, losses and channel failures are not fair. A channel that is down
comes up again (`ChannelUp`), which is what the transceiver core is for. In
`reset` both clocks tick, a released MMCM locks and the core answers a reset;
the end of a core's reset, EOS, the switch and losses of lock are not fair. The
core's answer is an assumption: one that never reports reset keeps the sequencer
waiting (`aurora_reset_seq.sv:103`), and `Initialized` does not speak of it. In
`serial` the BIOS polls and its timer runs, and the host goes on; faults are not
fair, and neither is a key. Losses may go on for ever, hence the premise of
`LoadingEnds`. In `boot` the BIOS goes on until it waits for the user or for a
host that has answered; neither need do anything. `editor`, `build` and `optics` state safety
only: nothing obliges a user to go on.

## 4. Proofs

`K2MMTester_proofs`, for every counter width, set of lengths, beat size and
width of the length field:

* `EchoInvariant`: `IInv` is inductive. It strengthens `StopIsQuiet` and
  `StatusTrue` by `EchoInOrder` (the echo holds the beats from `chkBeats` up to
  the generator's, in order, and only beat `len` is last) and `StatusQuiet`
  (while a pulse shows, nothing is left). Neither safety property is inductive
  by itself: that a report is true needs that the frame came back in order.
* `StatusIsTrue` and `StopIsClean` follow.
* `TesterImplementsEchoTest`: every step of the tester is a step or a stutter of
  `EchoTest` under the mapping `pending <- Unanswered`, `report <- Report`.

`K2MMNode_proofs`, `K2MMPing_proofs` and `K2MMLink_proofs`, for every set of nodes
in pairs, every set of testers at work, every buffer depth, set of lengths and
counter width:

* `PingTypeCorrect` and `LinkTypeCorrect`: types and capacities, from one lemma per
  action. Registers stay in their width because the increments are modular;
  buffers stay in their depth because each append has its guard.
* `PairInvariant` and `LinkInvariant`: the inductive invariant of the pair. It
  names, by existential counters, how many beats of each frame have left the
  skid buffer (`t`), have left the stream (`r`) and have been echoed (`c`), and the
  stream `w` between the nodes with the pf of each beat. `Lanes`: the beats of one
  frame in `ptx`, in the stream and in `prx` are consecutive numbers that join at
  these counters, so nothing is lost, doubled or reordered on the six queues from
  the generator to the checker. `Framing`: the stream is a chain from the beat the
  receiver took last to the one the transmitter gives next, in which a header
  follows a last beat and nothing else and pf changes only there.
  `Arbitration`: while the transmitter is inside a frame, the granted master is
  the one whose beats it holds, and still requests. `Reports`: what the tester's
  registers say of its command. None of them is inductive alone: a lane needs to
  know that the receiver stamps the right pf (`Framing`), the chain that the next
  beat is of the same frame (`Arbitration`), and both that a command starts on
  empty lanes (`Reports`). The invariant is stated over `w`, so the wires
  (`w` is `rxbuf` and `txbuf`) and the link (`w` is the four buffers between the
  nodes, `Carried`) share it and all the lemmas about the steps of a node.
* `PingWellAligned` (`WellAligned`) and `LinkCleanUntilLoss` (`CleanUntilLoss`) read
  their property off it; on the link it holds until `lost`.
* `PingImplementsTester` (`EachTesterEchoed`): `Init` maps to the initial state of
  `K2MMTester` and each step of the pair, for each tester, to one of its four
  actions or to a stutter. The echo is what was sent and has not been seen;
  that the beat at the checker is the first of it is `Lanes`.
* `PingStopsQuietOrWedged` (`StopsQuietOrWedged`) needs a fifth part of `PairInv`,
  `AtWork`: a checker that waits has not seen its whole frame, a generator in the
  middle of its frame has the arbiter, and a probe that echoes has a waiting tester
  at the other end whose last beat it has not passed on. In a stopped pair each queue
  that is not empty waits for the next one to be full, all around the loop
  (`NodeWaits`, `PairWaits`), so either everything is empty or everything is full
  (`StoppedPair`). If all is empty the lanes are, what was sent has been seen
  (`NothingUnderWay`), and by `AtWork` nobody waits (`EmptyIsIdle`). If all is full
  one counts. With two skid buffers and two packet buffers each direction holds
  `2 * FifoDepth + 4` beats; the data beats among them have different numbers between
  the lane counters (`LaneRoom`), and since frames do not mix there is at most one
  header among them (`HeadersApart`). Hence the two frames have at least
  `4 * FifoDepth + 6` beats (`WayLoad`, `FullIsLong`).
* `LinkStopsEmpty` (`StopsEmpty`): with the channels up the transmit FIFO drains, and
  so does everything behind it; a beat in front of a probe would wait for `ptx` only,
  and a receive buffer for `prx` only (`StoppedEmpty`). Without a loss `AtWork` then says
  that no tester waits, as above. A generator that is left half way waits for the
  probe of its own node, and `Dispatch` (below) says that the receiver is still inside
  the frame which that probe echoes.
* `LinkRealigns` (`Realigns`), which is about what happens after a loss, has an
  invariant of its own, `GapInv`: on either side of the place where beats are
  lost, a beat begins a frame exactly when the one before it ends one, unless
  `gap` or `missed` says that a beat between them is gone. (`GapInv` was checked by
  TLC in both link configurations first.)
* `NoStrayReports` (`NoStrayReport`) counts. Each command owes one echo, and whatever
  can still become an answer starts with a header, ends with a last beat, or is the
  frame a node is in. `Balance` says that for each tester the frames it has under
  way, out and home, never exceed those it waits for; losses and flushes only take
  away from the count, since a frame that lost its end is closed by the next header.
  A step that moves a frame from one place to the next must not count it twice, which
  needs `Arbitration` (the transmitter's frame is the one the granted master feeds)
  and `Dispatch` (pf of the receiver is the dispatcher's choice). A data word taken
  for a header makes a frame out of nothing; the count holds until then (`fooled`).
  (`StrayInv`, the three together, was checked by TLC in both link configurations
  first.)
* `LossOnlyShortens` (`LossShortens`) assumes that no pair has both its testers at
  work (`OneTester`; with two it is false) and that the length field can express
  every frame (`ShortFrames`; a longer one wraps in `tfc_status`, and then lengths
  say nothing of order). Its invariant, `ShortInv`, follows the one frame out (a
  `Leg` from the tester to the peer's probe) and home (a `Leg` back to the checker):
  each of the seven places on a leg has a stretch of the frame to itself, parted by
  cuts (`Cuts`), with gaps where beats were lost. A beat that moves moves one cut, a
  beat that is lost moves none. The header is at place 0, so a receiver that takes
  one finds nothing before it; the last beat leaves the leg empty behind it
  (`LegEnds`), hence a report comes after all was sent and nothing comes after it;
  and `chkBeats` is bounded by the cut at the end of the way home (`StrandEnds`). A
  receiver that has lost a header or a last beat may pass on less, never more.
  (TLC checked `ShortInv` in the configuration of `link_one` first, with the cuts
  computed from the buffers.)

`BoardReset_proofs`, for every length of the shift register, the counters, the
pulses and the synchronizers:

* `ResetInvariant`: `IInv` is inductive. Beside the types it says that the second
  counter is never ahead of the reference clock (`ClockOrder`), that in each state
  the pins have shown what the count says (`WidthsFollow`), that a stage of the
  synchronizer filled since `reset_pb` rose tells the truth about the core
  (`SamplesFresh`), and that a lock still shown by stage k was there less than k
  edges ago (`LockFresh`). The last two go stage by stage; the property at the
  end of the synchronizer is not inductive without them.
* `ClockBeforeMmcm` (`MmcmAfterClock`), `DoneFollowsLock` (`DoneWithdrawn`),
  `PulsesAreFull` and `CoreIsHeld` follow.
* The argument needs `SyncLen <= RstPbCycle + PmaInitCycle + 2`: the synchronizer
  is shorter than the pulses it watches (8 stages against 100 and 100,000,000
  edges). With longer synchronizers a level of an earlier sequence would count.

`Bios_proofs`, on serial boot: for every magic whose first character comes once in
it, every program of a host, every number of faults and every reading of a garbled
length:

* `MagicRecognized`: `check_ack` has always matched the longest beginning of the
  magic that the characters end with. The inductive invariant is the property with
  the types of its variables. The step rests on `MatchGrows` (a match of n
  characters is one of n - 1 and the n-th) and `OneMatch` (no two different matches
  end the same string), which is where the assumption on the magic is needed: with
  a first character that comes twice the matcher of `boot.c` would miss it. 'Q' may
  not be in the magic either, it cancels.
* `ReceiverInvariant`: `IInv`, which is `TypeOK` with three things it needs. A
  receiver at work has failures left and a host that waits does so for a frame
  (`FailuresLeft`, `WaitsForFrame`). `Turn`: as long as no reply left early, nothing
  is under way, or the rest of one frame, or one reply; in the second case the
  bytes read and the bytes to come are no more than the frame has, and the CRC in
  the buffer is noise or of this frame once its place is passed. `Executed`: memory
  holds what the frames up to the last acknowledged one load, and a jump was that
  last one. Hence a CRC that matches is that of the frame the host has just sent,
  although the buffer still holds bytes of earlier ones.
* `HostInStep` (`InStepInv`) and `JumpFindsImage` (`ImageIntact`) follow.
* The assumption on programs is that a frame fits the buffer (`payload[255]`, a
  length of one byte) and a chunk fits the memory. Nothing is assumed of the order
  of chunks. What the buffer would hold behind its end is not modelled; `InStep`
  says that a host in step never gets there.

`Bios_proofs`, on the boot sequence, for every build, every list and every failure of
a medium:

* `BootInvariant`: `BootInv` is inductive. It says of a list under way: what is left
  of it is the end of the list given (`Rest`); each register holds what the last element of its
  kind among those handled has set, or zero (`Latest`, `Registers`); the address is
  that of the last `addr`, or of the last image while there is none (`Address`); and
  each image handled is in memory unless a later one has its place (`Images`).
  An image that is the one to enter is whole or its file was empty, which only a
  card or a disk lets pass (`ImageWhole`): a copy that fails ends the list, so
  nothing this list left half copied is behind an image that was found. `BootInv` was
  checked by TLC in the configuration of `boot` first.
* `EntersWhatItLoaded` (`EntryInv`) and `ListIsHonoured` (`JsonHonoured`) follow.
  Neither property is inductive: both speak of the moment boot() is called.
* `SerialIsAMedium`: `SerialBoot` implements `BootSequence` in every build whose first
  medium it is, under a mapping from where `serialboot()` is to what the sequence
  sees. The end of `check_ack` is `Serial`: the host has answered, the time is up,
  or the user wants the prompt. After an answer the end of the receiver is `SerialJumps` or
  `SerialLeaves`, and the rest stutters (what a host has loaded is no file, so it
  counts as what was there). The main memory of the one is assumed to be
  among the regions of the other. (TLC checked the refinement in the
  configuration of `serial` first.)

`Bios_proofs`, on the line editor, for every set of characters, every table of
commands, every size of the buffer, of the ring and of the list of candidates:

* `TheScreenShowsTheLine` (`ScreenInv`): the property is inductive as it stands
  (`EditorKeeps` is the same conjuncts in parts that a key changes separately). The
  work is in the operators: each of them takes a `Sound` line, one whose terminal
  shows it and whose cursors agree, to a `Sound` line (`HomeSound`, `EraseSound`,
  `RefreshSound`, `AddSound`, `RemoveSound`, `RecallSound`, `ReprintSound`), which
  is where the lengths that `readline.c` moves, prints and backspaces are weighed
  against each other: the spaces must cover what the longer line left behind, and the
  backspaces must undo exactly what was printed. `RemoveSound` is shared by the three
  deletions, one of which moves a cell more and prints one less than the others.
* Tab types its extension one character after the other, a fold over a string of any
  length. `FoldExists` and `TypedInTurn` turn the fold of the community modules into
  a function of the position with `f[k] = AddChar(f[k - 1], s[k])`; the induction
  along it is `CountingUp`, induction over a set of numbers, which follows from the
  least element of a set (`LeastNumber`, from the well-foundedness of < in the
  library). `CompletionSound` is then the induction: after k characters the line is
  sound and holds the k characters behind the old prefix (`Typed`).
* `TabKeepsTheCandidates` (`TabKeepsMatches`): `ExtensionFacts` says that the
  extension continues the first candidate's name up to the first place where the
  loop of `complete.c` sees two names differ, and `ExtensionKeeps` that as long as no
  candidate has ended on the way each of them starts with the extended text. A line
  that is full in the middle of an extension keeps a beginning of it, which is why
  both are stated for every beginning.
* `EveryKeyDoesWhatItIsFor` (`Promised`): `EditorInit` maps to the initial state of
  `CommandLine`, and each key to one of its actions or to a stutter. There is one
  lemma per key on the two texts (`TypeEdits`, `RightEdits`, `DeleteNextEdits`, ...,
  `TabEdits`), and `UpOlder`, `DownNewer` and `LineAdded` on the ring. The ring needs
  one invariant more, `RingInOrder`: until it is full, the next slot to be written is
  the one behind the last in use, so that the first line entered is not taken for
  one older than it. The key that overruns the buffer ends the model and is a
  stutter.

`BuildFlow_proofs`, for every set of designs and any number of edits:

* `BuildInvariant`: `IInv` is inductive. `IpReady` is the guard of `WaitOnRuns`
  carried to synthesis, together with the fact about the designs that their cells
  are among the IP launched and the sources added (`Launched`), which is an
  assumption of the theorem; `build` checks it, as part of `IInv`, for the designs
  there are. `OwnBit`, `OwnProbes` and
  `LastProbes` follow the two files through failures and interruptions.
* `LoadsItsOwnBuild` needs `OwnBit`, `RebuildRepairsProbes` needs `LastProbes`.

`Optics_proofs`, for every number of expanders, switches, modules per switch and
clock generators, and any settings:

* `OpticsInvariant`: `IInv` is inductive. `NamedModule`, `WholeDivider` and
  `NoSilentReset` are not by themselves; they need what a handler has established
  between its transfers: that the port it selected is still selected
  (`RightPort`), that the page and the registers before the update are its own
  (`Programmed`), how far the resets have come (`InStep`), and that a module in
  reset outside `reset_firefly` has been reported (`Told`).
* `ReleasesAfterHold`: from `InStep`, every module has been held when the first one
  is released.
* `ScriptBringsUp`: `BroughtUp` holds, by the invariant `BringsUp`: which command a
  phase belongs to (`Works`), which line of `bootcmd.c` is running (`Running`), and
  what each line that is over has left behind (`Behind`). It starts from nothing
  about the chips, because `Reboot` leaves them as they are.

Assumptions are those on the constants (`TesterAssumption`, `NodeAssumption`,
`LinkAssumption`, `StartupAssumption`, `SequencerAssumption`,
`BoardAssumption`, `SerialAssumption`, `BootAssumption`, `EditorAssumption`,
`BuildAssumption`, `OpticsAssumption`); TLC evaluates them in the runs.

Only model-checked: everything that needs fairness (TLAPS has no rules for it
here), and `NetlistConsistent`, which is about seven given designs, so that the run
is a complete check of it.

## 5. Plan

Done: K2MM and its link, reset chain, serial boot, boot sequence, line editor,
optical modules with the start-up commands, scripts and builds.

Left: the tester and `K2MMControl` cycle by cycle (latency, busy, lost command
pulses).

## 6. Not modelled

* `K2MMControl`: a command is a pulse of one cycle and is lost when the tester is
  busy; the latency counter wraps after 65536 cycles and the report does not say
  so. The commands of the model are the pulses that are taken.
* The contents of the transceiver cores, of the LiteX cores, of Vivado and of the
  chips on the I2C bus; they are modelled from how the code here uses them.
* `i2c_reset` and `i2c_scan`, which change nothing the model keeps, and `i2c_read`,
  whose only effect on it is that reading at the address of a switch writes the
  register number into it, which `I2cWriteSwitch` covers with every value;
  `i2c_write` to expanders and dividers, which can put any value there and would
  make a promise about them the user's; the sideband registers of the QSFP boards.
* The tokenizer behind `boot.json`: on an error `jsmn_parse` answers a negative
  number that becomes a count of about 250 (`boot.c:484`). File systems and TFTP
  deliver, fail, or fail half way.
* What the terminator behind a full edit buffer changes (`readline.c:344`).
* BIOS commands on memory, SDRAM, flash, network, card and disk: one-shot accesses
  through LiteX libraries with no state between two commands. Interrupt handlers
  and the marks for the simulator print or forward.
* Pin tables beyond the names of resources, the C build, the port lists of the IBERT
  and GTY wrappers, `model.py`, and `rimini_vu9p.py`, which no script uses.
* `_ResetSequencer` of `aurora.py` and `readline_simple.c`: no build uses the first,
  the second is the editor of builds without history.

## 7. Observations

Met while modelling, and modelled as the code has them.

* The first `--build` in a fresh directory stops: Vivado's script adds
  `gen_ila.tcl` (`xilinx_ila.py:14`), which is written after the build
  (`ted_tfoil.py:172-173`). One run without `--build` has to come first.
  `generate_ila` writes nothing for a design without probes.
* `ted_tfoil_ibert.py:42` and `rimini_ibert.py:41` request `sys_clk_0`, which the
  platform does not have, and end there. Behind it the first would meet
  `ip_presets`, which no platform has (line 127), and `clk125` (`ibert.py:50`),
  which the board's table calls `clk_125`.
* `vcu1525_kyokko.py:24` and `sim.py:256` import `K2MMBlock`, which does not exist
  (`framing.py` has `K2MM`).
* `vcu1525_aurora.py --use-clkwiz` ends in a `TypeError` (`NotImplemented` is
  called, lines 36-37). The default of `--sys-clk-freq` is 400 MHz, its help says
  300 MHz (line 226).
* `aurora.py:152` takes two characters of the name of the quad; for rows of two
  digits in column 0 it would name the right column. No script uses one.
* An empty `boot.bin` or image on a card or disk is copied without an error and
  without a byte (`boot.c:684-707`, `858-882`), and `boot()` then enters what was
  there before, an image that another medium left half copied included.
* A host that answers `serialboot()` and goes silent, or a first frame of which no
  byte arrives, keeps the BIOS there: `while((i == 0) || ...)` (`boot.c:200`) has no
  timer. A line that cuts every frame short does so, too, since a timeout is not
  counted as a failure (`boot.c:221-226`).
* `cmd_firefly.c`: divider number 5 passes the check (line 62) although the chip has
  0 to 4; `get_firefly_status` prints the bytes of an earlier read when a read
  fails.
* A `sel` beyond the last port selects nothing; every transfer then fails.
