----------------------------- MODULE BootSequence -----------------------------
(***************************************************************************)
(* How the BIOS finds something to run: boot_sequence() of main.c, the     *)
(* media of boot.c, and at the console the boot commands of cmd_boot.c.    *)
(* A medium with files is tried with boot.json (what to copy where, what   *)
(* to pass, where to enter) and then with boot.bin.  A file may be missing *)
(* or empty or fail half way.  boot() does not return.                     *)
(***************************************************************************)
EXTENDS Integers, Sequences

CONSTANTS
    Builds,         \* the media of a build, in the order of main.c
    FileMedia,      \* those that hold files
    Names,          \* names that elements of a boot.json carry
    Kind(_),        \* what strncmp takes a name for
    Values,         \* numbers in a boot.json; as addresses, regions of memory
    MainRam,        \* MAIN_RAM_BASE
    RomAddress,     \* ROM_BOOT_ADDRESS
    Lists           \* the elements that jsmn finds in a boot.json

Kinds == {"bootargs", "addr", "r1", "r2", "r3", "image"}
Element == [name : Names, value : Values]

ASSUME BootAssumption ==
    /\ Builds \subseteq Seq({"serial", "flash", "rom"} \cup FileMedia)
    /\ FileMedia \subseteq {"sdcard", "sata", "net"}
    /\ \A n \in Names : Kind(n) \in Kinds
    /\ Values \subseteq Nat /\ 0 \in Values
    /\ MainRam \in Values /\ RomAddress \in Nat \ Values
    /\ Lists \subseteq Seq(Element)
    /\ Names \cap {"boot.bin", "flash", "old", "partial"} = {}

VARIABLES
    stage,          \* what the BIOS is doing
    media,          \* what this build has: "serial", "flash", "rom", "sdcard", ...
    medium,         \* place in media
    command,        \* the medium was named at the console, with its file or not
    todo,           \* elements of the list not yet handled
    r1, r2, r3, bootAddr, imageFound, addrFound,
    ram,            \* what each region of memory holds
    hollow,         \* history: regions whose last file was empty
    given,          \* history: the list that is being handled
    entry           \* how boot() was called, if it was

jsonVars == <<todo, r1, r2, r3, bootAddr, imageFound, addrFound, given>>
memVars  == <<ram, hollow>>
bootVars == <<stage, media, medium, command, jsonVars, memVars, entry>>

Nothing == <<0, 0, 0>>
NotBooted == [by |-> "nobody", args |-> Nothing, addr |-> 0, asked |-> Nothing]
Stages == {"try", "serial", "json", "bin", "console", "booted"}
Contents == Names \cup {"boot.bin", "flash", "old", "partial"}

Current == media[medium]

BootTypeOK ==
    /\ stage \in Stages
    /\ media \in Builds
    /\ medium \in 1..(Len(media) + 1)
    /\ stage = "serial" => medium \in DOMAIN media /\ Current = "serial"
    /\ stage \in {"json", "bin"} => medium \in DOMAIN media /\ Current \in FileMedia
    /\ command \in {"none", "medium", "file"}
    /\ stage = "console" => command = "none"
    /\ todo \in Seq(Element) /\ given \in Seq(Element)
    /\ {r1, r2, r3, bootAddr} \subseteq Values
    /\ imageFound \in BOOLEAN /\ addrFound \in BOOLEAN
    /\ ram \in [Values -> Contents] /\ hollow \subseteq Values
    /\ entry.by \in {"nobody", "serial", "flash", "rom", "json", "bin", "user"}
    /\ {entry.args, entry.asked} \subseteq Values \X Values \X Values
    /\ entry.addr \in Values \cup {RomAddress}

BootInit ==
    /\ stage = "try" /\ media \in Builds /\ medium = 1 /\ command = "none"
    /\ todo = <<>> /\ given = <<>>
    /\ r1 = 0 /\ r2 = 0 /\ r3 = 0 /\ bootAddr = 0
    /\ imageFound = FALSE /\ addrFound = FALSE
    /\ ram = [v \in Values |-> "old"] /\ hollow = {}
    /\ entry = NotBooted

Trying(kind) == stage = "try" /\ medium \in DOMAIN media /\ Current = kind

\* asked is what the user typed, for boot() called from the console.
BootAs(by, args, addr, asked) ==
    /\ stage' = "booted"
    /\ entry' = [by |-> by, args |-> args, addr |-> addr, asked |-> asked]

Boot(by, args, addr) == BootAs(by, args, addr, args)

\* Slip: the next search still thinks that it was asked for at the console.
GiveUpKeepsCommand ==
    /\ IF command # "none" THEN stage' = "console" /\ UNCHANGED medium
                           ELSE stage' = "try" /\ medium' = medium + 1
    /\ UNCHANGED <<command, entry>>

(* A medium that failed gives way to the next one, or to the prompt when   *)
(* it was asked for there.                                                 *)
GiveUp ==
    /\ IF command # "none" THEN stage' = "console" /\ UNCHANGED medium
                           ELSE stage' = "try" /\ medium' = medium + 1
    /\ command' = "none"
    /\ UNCHANGED entry
--------------------------------------------------------------------------------
(* serialboot(): see SerialBoot.  A host answers in time or the medium     *)
(* gives up; 'Q' skips the other media.                                    *)
Serial ==
    /\ Trying("serial")
    /\ \/ stage' = "serial" /\ UNCHANGED <<medium, command, entry>>
       \/ GiveUp
       \/ /\ stage' = "console" /\ command' = "none"
          /\ UNCHANGED <<medium, entry>>
    /\ UNCHANGED <<media, jsonVars, memVars>>

(* What a host does that has answered.  It may load anywhere.  It may also *)
(* do nothing any more: no timer runs while the BIOS waits for a frame.    *)
SerialLoads ==
    /\ stage = "serial"
    /\ \E loaded \in SUBSET Values :
          ram' = [v \in Values |-> IF v \in loaded THEN "old" ELSE ram[v]]
    /\ UNCHANGED <<stage, media, medium, command, jsonVars, hollow, entry>>

SerialJumps ==
    /\ stage = "serial"
    /\ \E v \in Values : Boot("serial", Nothing, v)
    /\ UNCHANGED <<media, medium, command, jsonVars, memVars>>

\* It calls the load off, or its frames failed too often.
SerialLeaves ==
    /\ stage = "serial"
    /\ GiveUp
    /\ UNCHANGED <<media, jsonVars, memVars>>

SerialHost == SerialLoads \/ SerialJumps \/ SerialLeaves

(* flashboot(): an image whose length or CRC is wrong is not copied.       *)
Flash ==
    /\ Trying("flash")
    /\ \/ /\ Boot("flash", Nothing, MainRam)
          /\ ram' = [ram EXCEPT ![MainRam] = "flash"]
          /\ hollow' = hollow \ {MainRam}
          /\ UNCHANGED <<medium, command>>
       \/ /\ GiveUp
          /\ UNCHANGED memVars
    /\ UNCHANGED <<media, jsonVars>>

Rom ==
    /\ Trying("rom")
    /\ Boot("rom", Nothing, RomAddress)
    /\ UNCHANGED <<media, medium, command, jsonVars, memVars>>

(* Reads boot.json; the variables of the parser are local, so they start   *)
(* afresh.  Without the file the medium goes on with boot.bin, unless a    *)
(* file was named at the console.                                          *)
AfterJson ==
    IF command = "file" THEN GiveUp
    ELSE stage' = "bin" /\ UNCHANGED <<medium, command, entry>>

\* Slip: the registers keep what an earlier list has put there.
ReadJsonStatic ==
    /\ stage = "try" /\ medium \in DOMAIN media /\ Current \in FileMedia
    /\ \/ /\ \E l \in Lists : todo' = l /\ given' = l
          /\ imageFound' = FALSE /\ addrFound' = FALSE
          /\ stage' = "json"
          /\ UNCHANGED <<r1, r2, r3, bootAddr, medium, command, entry>>
       \/ /\ AfterJson
          /\ UNCHANGED jsonVars
    /\ UNCHANGED <<media, memVars>>

ReadJson ==
    /\ stage = "try" /\ medium \in DOMAIN media /\ Current \in FileMedia
    /\ \/ /\ \E l \in Lists : todo' = l /\ given' = l
          /\ r1' = 0 /\ r2' = 0 /\ r3' = 0 /\ bootAddr' = 0
          /\ imageFound' = FALSE /\ addrFound' = FALSE
          /\ stage' = "json"
          /\ UNCHANGED <<medium, command, entry>>
       \/ /\ AfterJson
          /\ UNCHANGED jsonVars
    /\ UNCHANGED <<media, memVars>>

--------------------------------------------------------------------------------
(* Copies a file to a region.  An empty file counts as copied on a card or *)
(* a disk (they count the bytes nowhere) and leaves what was there, but    *)
(* not on the network (size <= 0).                                         *)
Copied(name, region) ==
    \/ /\ ram' = [ram EXCEPT ![region] = name]
       /\ hollow' = hollow \ {region}
    \/ /\ Current # "net"
       /\ hollow' = hollow \cup {region}
       /\ UNCHANGED ram

NotCopied(region) ==
    /\ \/ UNCHANGED ram
       \/ ram' = [ram EXCEPT ![region] = "partial"]
    /\ UNCHANGED hollow

Unset == UNCHANGED <<given, medium, command, entry, stage>>

(* One element of boot.json: a setting, or an image to copy.               *)
Setting(name, value) ==
    /\ CASE Kind(name) = "bootargs" ->
                UNCHANGED <<r1, r2, r3, bootAddr, addrFound>>
         [] Kind(name) = "addr" ->
                /\ bootAddr' = value /\ addrFound' = TRUE
                /\ UNCHANGED <<r1, r2, r3>>
         [] Kind(name) = "r1" ->
                r1' = value /\ UNCHANGED <<r2, r3, bootAddr, addrFound>>
         [] Kind(name) = "r2" ->
                r2' = value /\ UNCHANGED <<r1, r3, bootAddr, addrFound>>
         [] Kind(name) = "r3" ->
                r3' = value /\ UNCHANGED <<r1, r2, bootAddr, addrFound>>
    /\ todo' = Tail(todo)
    /\ Unset
    /\ UNCHANGED <<imageFound, memVars>>

\* Slip: an image that could not be copied is skipped.
ImageSkips(name, value) ==
    /\ todo' = Tail(todo)
    /\ \/ /\ Copied(name, value)
          /\ imageFound' = TRUE
          /\ bootAddr' = IF addrFound THEN bootAddr ELSE value
       \/ /\ NotCopied(value)
          /\ UNCHANGED <<imageFound, bootAddr>>
    /\ Unset
    /\ UNCHANGED <<r1, r2, r3, addrFound>>

ImageFile(name, value) ==
    /\ todo' = Tail(todo)
    /\ \/ /\ Copied(name, value)
          /\ imageFound' = TRUE
          /\ bootAddr' = IF addrFound THEN bootAddr ELSE value
          /\ Unset
       \/ /\ NotCopied(value)
          /\ AfterJson
          /\ UNCHANGED <<imageFound, bootAddr, given>>
    /\ UNCHANGED <<r1, r2, r3, addrFound>>

JsonElement ==
    /\ stage = "json" /\ todo # <<>>
    /\ UNCHANGED media
    /\ LET e == Head(todo)
       IN  \/ Kind(e.name) # "image" /\ Setting(e.name, e.value)
           \/ Kind(e.name) = "image" /\ ImageFile(e.name, e.value)

JsonEnd ==
    /\ stage = "json" /\ todo = <<>>
    /\ \/ imageFound /\ Boot("json", <<r1, r2, r3>>, bootAddr)
                     /\ UNCHANGED <<medium, command>>
       \/ ~imageFound /\ AfterJson
    /\ UNCHANGED <<media, jsonVars, memVars>>

BootBin ==
    /\ stage = "bin"
    /\ \/ /\ Copied("boot.bin", MainRam)
          /\ Boot("bin", Nothing, MainRam)
          /\ UNCHANGED <<medium, command>>
       \/ /\ NotCopied(MainRam)
          /\ GiveUp
    /\ UNCHANGED <<media, jsonVars>>

\* Slip: starts over with the first medium.
NoMediumRestarts ==
    /\ stage = "try" /\ medium = Len(media) + 1
    /\ medium' = 1
    /\ UNCHANGED <<stage, media, command, jsonVars, memVars, entry>>

NoMedium ==
    /\ stage = "try" /\ medium = Len(media) + 1
    /\ stage' = "console"
    /\ medium' = 1
    /\ UNCHANGED <<media, command, jsonVars, memVars, entry>>
--------------------------------------------------------------------------------
(* The prompt: "boot <address> [r1] [r2] [r3]", or a medium by its name;   *)
(* netboot takes the name of a JSON file.  The third argument goes where   *)
(* the second belongs.                                                     *)
BootHandler(addr, typed, n) ==
    LET Typed(k) == IF k <= n THEN typed[k] ELSE 0
        second == IF n = 3 THEN Typed(3) ELSE Typed(2)
    IN  BootAs("user", <<Typed(1), second, 0>>, addr,
               <<Typed(1), Typed(2), Typed(3)>>)

UserBoots ==
    /\ stage = "console"
    /\ \E addr \in Values, typed \in Values \X Values \X Values, n \in 0..3 :
          BootHandler(addr, typed, n)
    /\ UNCHANGED <<media, medium, command, jsonVars, memVars>>

UserTries ==
    /\ stage = "console"
    /\ \E m \in DOMAIN media :
          /\ medium' = m
          /\ \/ command' = "medium"
             \/ media[m] = "net" /\ command' = "file"
    /\ stage' = "try"
    /\ UNCHANGED <<media, jsonVars, memVars, entry>>

Search == Serial \/ Flash \/ Rom \/ ReadJson \/ JsonElement \/ JsonEnd \/ BootBin
          \/ NoMedium
BootNext == Search \/ SerialHost \/ UserBoots \/ UserTries

BootSpec == BootInit /\ [][BootNext]_bootVars
\* The BIOS goes on by itself until it waits for the user or for a host.
BootFairSpec == BootSpec /\ WF_bootVars(Search)
--------------------------------------------------------------------------------
(* What boot() enters has been copied there whole, by this medium or by    *)
(* the list that names the address: a file that failed half way is not     *)
(* entered, whatever other media had left in memory.  The exception is an  *)
(* empty file on a card or a disk, which is entered as if it had been      *)
(* copied, with what was there, a file that failed half way included;      *)
(* network and flash refuse an empty one.                                  *)
EntryIsLoaded ==
    entry.by \in {"flash", "bin"} \/ (entry.by = "json" /\ ~addrFound) =>
        /\ ram[entry.addr] \in {"old", "partial"} => entry.addr \in hollow
        /\ entry.addr \in hollow => Current \notin {"net", "flash"}
EntryInv == BootTypeOK /\ EntryIsLoaded

(* A boot by list has handled all of the list: every image is in memory    *)
(* unless a later one has the same place or the file was empty, the last   *)
(* setting of each kind counts, and the address is the one asked for or    *)
(* that of the last image, in whatever order they came and whatever        *)
(* earlier media had set.                                                  *)
Of(kind) == {k \in DOMAIN given : Kind(given[k].name) = kind}
LastValue(kind) ==
    IF Of(kind) = {} THEN 0
    ELSE given[CHOOSE k \in Of(kind) : \A j \in Of(kind) : j <= k].value
JsonHonoured ==
    entry.by = "json" =>
        /\ entry.args = <<LastValue("r1"), LastValue("r2"), LastValue("r3")>>
        /\ entry.addr = LastValue(IF Of("addr") # {} THEN "addr" ELSE "image")
        /\ \A k \in Of("image") :
              (\A j \in Of("image") : j > k => given[j].value # given[k].value)
              => \/ ram[given[k].value] = given[k].name
                 \/ given[k].value \in hollow

(* The search for something to run ends, at the prompt at the latest,      *)
(* unless a host that answered serialboot() goes silent: the wait for the  *)
(* first byte of a frame (boot.c:200) has no timer.                        *)
SearchEnds ==
    stage = "try" ~> (stage \in {"console", "booted"} \/ [](stage = "serial"))

(* The boot command passes what was typed ("boot <address> [r1] [r2] [r3]",*)
(* cmd_boot.c:28).                                                         *)
BootTakesArgs == entry.by = "user" => entry.args = entry.asked
================================================================================
