-------------------------- MODULE BuildFlow_proofs --------------------------
(***************************************************************************)
(* What the runs of the scripts keep true, for every set of scripts and    *)
(* every number of edits.  The one thing the proofs ask of the elaborated  *)
(* designs is Launched; TLC checks it of the repository's scripts as part  *)
(* of IInv.                                                                *)
(***************************************************************************)
EXTENDS BuildFlow, TLAPS

\* Every cell is an IP whose run is launched, or comes from an added source.
Launched ==
  \A d \in Designs : ~Soc(d).raised => Soc(d).cells \subseteq Soc(d).launched \cup Soc(d).sources

LEMMA InitInvariant == Init => IInv
<1> SUFFICES ASSUME Init PROVE IInv
  OBVIOUS
<1>1. TypeOK
  BY DEF Init, TypeOK, Idle, None, NoBit, Contents, Phases
<1>2. IpReady /\ OwnBit /\ OwnProbes
  BY DEF Init, IpReady, OwnBit, OwnProbes, Idle
<1>3. LastProbes
  BY BuildAssumption DEF Init, LastProbes, None
<1> QED
  BY <1>1, <1>2, <1>3 DEF IInv

\* The directory and the content of a run in progress are well typed.
LEMMA RunTyped ==
  ASSUME TypeOK, run.phase # "idle"
  PROVE  Dir \in Platforms /\ Content \in Contents
BY DEF TypeOK, Dir, Content, Contents, Platforms

(***************************************************************************)
(* A run that ends badly touches no file, and leaves no last run behind.   *)
(***************************************************************************)
LEMMA FailedKeeps ==
  ASSUME IInv, run.phase # "idle", Failed
  PROVE  IInv'
<1>0. TypeOK /\ LastProbes /\ Dir \in Platforms
  BY RunTyped DEF IInv
<1> USE DEF Failed, End, Idle, files
<1>1. TypeOK'
  <2>1. last' \in [Platforms -> Contents]
    BY <1>0 DEF TypeOK, None, Contents
  <2> QED
    BY <1>0, <2>1 DEF TypeOK, Phases
<1>2. IpReady' /\ OwnBit' /\ OwnProbes'
  BY DEF IpReady, OwnBit, OwnProbes
<1>3. LastProbes'
  <2> SUFFICES ASSUME NEW p \in Platforms, last'[p].design \in Designs, Soc(last'[p].design).probed
               PROVE  probes'[p] = last'[p]
    BY DEF LastProbes
  <2>1. p # Dir
    BY <1>0, BuildAssumption DEF TypeOK, None
  <2>2. last'[p] = last[p]
    BY <1>0, <2>1 DEF TypeOK
  <2> QED
    BY <1>0, <2>1, <2>2 DEF LastProbes
<1> QED
  BY <1>1, <1>2, <1>3 DEF IInv

(***************************************************************************)
(* Every step keeps the invariant.                                         *)
(***************************************************************************)
LEMMA StepInvariant ==
  ASSUME Launched, IInv, [Next]_vars
  PROVE  IInv'
<1>0. TypeOK /\ IpReady /\ OwnBit /\ OwnProbes /\ LastProbes
  BY DEF IInv
<1> USE DEF Enter, End, files
<1>1. CASE UNCHANGED vars
  BY <1>0, <1>1 DEF vars, IInv, TypeOK, IpReady, OwnBit, OwnProbes, LastProbes, Dir, Content
<1>2. CASE Edit
  BY <1>0, <1>2 DEF Edit, IInv, TypeOK, IpReady, OwnBit, OwnProbes, LastProbes, Dir, Content
<1>3. CASE Interrupt \/ VivadoFails
  BY <1>3, FailedKeeps DEF Interrupt, VivadoFails
<1>4. ASSUME NEW d \in Designs, NEW build \in BOOLEAN, NEW load \in BOOLEAN, Elaborate(d, build, load)
      PROVE  IInv'
  <2> USE <1>0, <1>4 DEF Elaborate
  <2>1. TypeOK'
    <3>1. None \in Contents /\ Platform(d) \in Platforms
      BY DEF None, Contents, Platforms
    <3>2. last' \in [Platforms -> Contents]
      BY <3>1 DEF TypeOK
    <3>3. CASE Soc(d).raised
      <4>1. run' = Idle
        BY <3>3
      <4> QED
        BY <3>2, <4>1 DEF TypeOK, Idle, Phases
    <3>4. CASE ~Soc(d).raised
      BY <3>2, <3>4 DEF TypeOK, Phases
    <3> QED
      BY <3>3, <3>4
  <2>2. IpReady' /\ OwnBit' /\ OwnProbes'
    BY DEF IpReady, OwnBit, OwnProbes, Idle
  <2>3. LastProbes'
    <3> SUFFICES ASSUME NEW p \in Platforms, last'[p].design \in Designs, Soc(last'[p].design).probed
                 PROVE  probes'[p] = last'[p]
      BY DEF LastProbes
    <3>1. last'[p] = last[p]
      BY BuildAssumption DEF TypeOK, None
    <3> QED
      BY <3>1 DEF LastProbes
  <2> QED
    BY <2>1, <2>2, <2>3 DEF IInv
<1>5. CASE WriteSources
  BY <1>0, <1>5 DEF WriteSources, IInv, TypeOK, Phases, IpReady, OwnBit, OwnProbes, LastProbes, Dir, Content
<1>6. CASE AddFiles
  <2>1. CASE Failed
    BY <1>6, <2>1, FailedKeeps DEF AddFiles
  <2>2. CASE ~Failed
    BY <1>0, <1>6, <2>2
    DEF AddFiles, IInv, TypeOK, Phases, IpReady, OwnBit, OwnProbes, LastProbes, Dir, Content
  <2> QED
    BY <2>1, <2>2
<1>7. ASSUME NEW ip, IpRunEnds(ip)
      PROVE  IInv'
  BY <1>0, <1>7 DEF IpRunEnds, IInv, TypeOK, IpReady, OwnBit, OwnProbes, LastProbes, Dir, Content
<1>8. CASE WaitOnRuns
  <2> USE <1>0, <1>8 DEF WaitOnRuns
  <2>1. IpReady'
    BY DEF TypeOK, IpReady, Launched
  <2> QED
    BY <2>1 DEF IInv, TypeOK, Phases, OwnBit, OwnProbes, LastProbes, Dir, Content
<1>9. CASE WriteBitstream
  <2> USE <1>0, <1>9 DEF WriteBitstream
  <2>1. Dir \in Platforms /\ Content \in Contents /\ Dir' = Dir /\ Content' = Content
    BY RunTyped DEF Dir, Content
  <2>2. TypeOK'
    BY <2>1 DEF TypeOK, Phases
  <2>3. OwnBit'
    BY <2>1 DEF OwnBit, TypeOK
  <2> QED
    BY <2>1, <2>2, <2>3 DEF IInv, TypeOK, IpReady, OwnProbes, LastProbes
<1>10. CASE GenerateIla
  <2> USE <1>0, <1>10 DEF GenerateIla
  <2>1. Dir \in Platforms /\ Content \in Contents /\ Dir' = Dir /\ Content' = Content
    BY RunTyped DEF Dir, Content
  <2>2. TypeOK'
    BY <2>1 DEF TypeOK, Phases
  <2>3. OwnProbes'
    BY <2>1 DEF OwnProbes, TypeOK
  <2>4. LastProbes'
    <3> SUFFICES ASSUME NEW p \in Platforms, last[p].design \in Designs,
                        Soc(last[p].design).probed, p # Dir
                 PROVE  probes'[p] = last[p]
      BY <2>1 DEF LastProbes, TypeOK
    <3> QED
      BY <2>1 DEF LastProbes, TypeOK
  <2> QED
    BY <2>1, <2>2, <2>3, <2>4 DEF IInv, TypeOK, IpReady, OwnBit
<1>11. ASSUME run.phase = "end", last' = [last EXCEPT ![Dir] = Content], End,
              bit' = bit, probes' = probes, version' = version, ran' = ran,
              board' \in [Platforms -> [content : Contents, probes : Contents]]
       PROVE  IInv'
  <2> USE <1>0, <1>11 DEF Idle
  <2>1. Dir \in Platforms /\ Content \in Contents
    BY RunTyped
  <2>2. TypeOK'
    BY <2>1 DEF TypeOK, Phases
  <2>3. IpReady' /\ OwnBit' /\ OwnProbes'
    BY DEF IpReady, OwnBit, OwnProbes
  <2>4. LastProbes'
    <3> SUFFICES ASSUME NEW p \in Platforms, last'[p].design \in Designs, Soc(last'[p].design).probed
                 PROVE  probes[p] = last'[p]
      BY DEF LastProbes
    <3>1. CASE p = Dir
      BY <2>1, <3>1 DEF OwnProbes, TypeOK, Content
    <3>2. CASE p # Dir
      BY <3>2 DEF LastProbes, TypeOK
    <3> QED
      BY <3>1, <3>2
  <2> QED
    BY <2>2, <2>3, <2>4 DEF IInv
<1>12. CASE Load
  <2>1. CASE Failed
    BY <1>12, <2>1, FailedKeeps DEF Load
  <2>2. CASE ~Failed
    <3>1. board' = [board EXCEPT ![Dir] = bit[Dir]]
      BY <1>12, <2>2 DEF Load
    <3>2. board' \in [Platforms -> [content : Contents, probes : Contents]]
      BY <1>0, <1>12, <3>1, RunTyped DEF Load, TypeOK
    <3> QED
      BY <1>11, <1>12, <2>2, <3>2 DEF Load
  <2> QED
    BY <2>1, <2>2
<1>13. CASE Finish
  BY <1>0, <1>11, <1>13 DEF Finish, TypeOK
<1> QED
  BY <1>1, <1>2, <1>3, <1>4, <1>5, <1>6, <1>7, <1>8, <1>9, <1>10, <1>12, <1>13 DEF Next

(***************************************************************************)
(* However runs of the scripts follow each other, fail and are interrupted *)
(* (ted_tfoil.py:155-177): synthesis has every IP it needs, and the files  *)
(* of the directory are those that the state of the run says they are.     *)
(***************************************************************************)
THEOREM BuildInvariant ==
  ASSUME Launched
  PROVE  Spec => []IInv
<1>1. Init => IInv
  BY InitInvariant
<1>2. IInv /\ [Next]_vars => IInv'
  BY StepInvariant
<1> QED
  BY <1>1, <1>2, PTL DEF Spec

(***************************************************************************)
(* A run with --build --load programs its own build, for every history of  *)
(* the directory (ted_tfoil.py:172-177).                                   *)
(***************************************************************************)
THEOREM LoadsItsOwnBuild ==
  ASSUME Launched
  PROVE  Spec => LoadsOwnBuild
<1>1. IInv /\ [Next]_vars => (board' # board /\ run.build => board'[Dir].content = Content)
  <2> SUFFICES ASSUME IInv, [Next]_vars, board' # board, run.build
               PROVE  board'[Dir].content = Content
    OBVIOUS
  <2>1. Load /\ board' = [board EXCEPT ![Dir] = bit[Dir]]
    BY DEF Next, vars, files, Edit, Interrupt, VivadoFails, Failed, Elaborate, WriteSources, AddFiles,
           IpRunEnds, WaitOnRuns, WriteBitstream, GenerateIla, Load, Finish
  <2>2. Dir \in Platforms
    BY <2>1, RunTyped DEF Load, IInv
  <2> QED
    BY <2>1, <2>2 DEF Load, IInv, TypeOK, OwnBit
<1> QED
  BY <1>1, BuildInvariant, PTL DEF Spec, LoadsOwnBuild

(***************************************************************************)
(* Two runs of one design in a row, the first of which ended well: the     *)
(* analyzer of the second one's bitstream fits (xilinx_ila.py:13-71).      *)
(***************************************************************************)
THEOREM RebuildRepairsProbes ==
  ASSUME Launched
  PROVE  Spec => RebuildFitsProbes
<1>1. IInv /\ [Next]_vars => (bit' # bit /\ last[Dir] = Content /\ Soc(run.design).probed
                                => bit'[Dir].probes = Content)
  <2> SUFFICES ASSUME IInv, [Next]_vars, bit' # bit, last[Dir] = Content, Soc(run.design).probed
               PROVE  bit'[Dir].probes = Content
    OBVIOUS
  <2>1. WriteBitstream
    BY DEF Next, vars, files, Edit, Interrupt, VivadoFails, Failed, Elaborate, WriteSources, AddFiles,
           IpRunEnds, WaitOnRuns, WriteBitstream, GenerateIla, Load, Finish
  <2>2. Dir \in Platforms /\ run.design \in Designs
    BY <2>1, RunTyped DEF WriteBitstream, IInv, TypeOK
  <2>3. probes[Dir] = Content
    BY <2>1, <2>2 DEF WriteBitstream, IInv, LastProbes, Content
  <2> QED
    BY <2>1, <2>2, <2>3 DEF WriteBitstream, IInv, TypeOK
<1> QED
  BY <1>1, BuildInvariant, PTL DEF Spec, RebuildFitsProbes
=============================================================================
