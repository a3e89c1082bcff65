------------------------------ MODULE SerialBoot ------------------------------
(***************************************************************************)
(* serialboot() of bios/boot.c: the BIOS asks for a host, waits for its    *)
(* magic answer, then executes the frames that the host sends over a line  *)
(* that may lose or garble bytes.  The host is external: it sends the      *)
(* frames of its program one at a time, goes on when the reply is 'K' and  *)
(* sends the frame again otherwise.                                        *)
(*                                                                         *)
(* Four bytes of payload (an address, a word of the image) are one token   *)
(* here, and so are the two bytes of the CRC.  A token says which frame    *)
(* and which place in it the bytes come from; the CRC is ideal, it accepts *)
(* exactly the tokens of one frame in their places.                        *)
(***************************************************************************)
EXTENDS Integers, Sequences

CONSTANTS
    Programs,       \* the sequences of [cmd, addr, size] a host may send
    MaxAddr,        \* last word of main memory
    MaxFailures,    \* MAX_FAILURES (256)
    Misread,        \* what a byte that is no length reads as when taken for one
    PayloadTop,     \* last place of the frame buffer (payload[255]), in words
    MaxFaults,      \* bound: faults of the line but for losses while in step
    Magic, Keys     \* the magic answer and the characters heard before it

ASSUME SerialAssumption ==
    /\ Programs \subseteq Seq([cmd : {"load", "jump", "abort", "unknown"},
                               addr : 0..MaxAddr, size : Nat])
    /\ \A p \in Programs : \A f \in 1..Len(p) :
           /\ p[f].cmd = "load" => p[f].addr + p[f].size <= MaxAddr
           /\ p[f].size < PayloadTop
    /\ MaxAddr \in Nat /\ PayloadTop \in Nat
    /\ MaxFailures \in Nat \ {0} /\ MaxFaults \in Nat
    /\ Misread \subseteq Nat
    /\ Magic \in Seq(Keys) /\ Magic # <<>> /\ "Q" \in Keys
    /\ \A k \in 2..Len(Magic) : Magic[k] # Magic[1]
    /\ \A k \in 1..Len(Magic) : Magic[k] # "Q"

VARIABLES
    phase,          \* where serialboot() is; how it ended
    recognized,     \* check_ack
    heard,          \* history: the last characters check_ack read
    i, length, crc, cmd, payload,   \* struct sfl_frame and its index
    failures,
    memory,         \* main memory: which token each word holds
    line, replies,  \* bytes on their way to the board, replies to the host
    program,        \* the host: its frames,
    next, waiting,  \* the frame to send, whether it waits for a reply
    faults,
    early,          \* history: a reply left while bytes of the frame were to come
    reached         \* history: a byte was read since the host sent its frame

NoFrame == 0
Frame == 1..Len(program)
\* Places in a frame: length, crc, cmd, address, words of the image.
LenAt == 0
CrcAt == 1
CmdAt == 2
Body  == 3

PayloadLen(f) == 1 + program[f].size
Noise == [of |-> NoFrame, at |-> 0]
Bytes(f) == [k \in 1..(Body + PayloadLen(f)) |-> [of |-> f, at |-> k - 1]]
Token == {Noise} \cup UNION {{Bytes(f)[k] : k \in DOMAIN Bytes(f)} : f \in Frame}
Replies == {"K", "C", "U", "E"}

ackVars   == <<recognized, heard>>
frameVars == <<i, length, crc, cmd, payload>>
hostVars  == <<program, next, waiting>>
vars == <<phase, ackVars, frameVars, failures, memory, line, replies, hostVars,
          faults, early, reached>>

TypeOK ==
    /\ phase \in {"ack", "frame", "next", "console", "jumped"}
    /\ recognized \in 0..(Len(Magic) - 1)
    /\ heard \in Seq(Keys) /\ Len(heard) <= Len(Magic)
    /\ i \in Nat /\ length \in Nat
    /\ crc \in Token /\ cmd \in Token
    /\ payload \in [0..PayloadTop -> Token]
    /\ failures \in 0..MaxFailures
    /\ memory \in [0..MaxAddr -> Token]
    /\ line \in Seq(Token) /\ replies \in Seq(Replies)
    /\ program \in Programs /\ next \in 1..(Len(program) + 1) /\ waiting \in BOOLEAN
    /\ faults \in 0..MaxFaults /\ early \in BOOLEAN /\ reached \in BOOLEAN

Init ==
    /\ phase = "ack" /\ recognized = 0 /\ heard = <<>>
    /\ i = 0 /\ length = 0 /\ crc = Noise /\ cmd = Noise
    /\ payload = [k \in 0..PayloadTop |-> Noise]
    /\ failures = 0
    /\ memory = [a \in 0..MaxAddr |-> Noise]
    /\ line = <<>> /\ replies = <<>>
    /\ program \in Programs /\ next = 1 /\ waiting = FALSE
    /\ faults = 0 /\ early = FALSE /\ reached = FALSE
--------------------------------------------------------------------------------
(* check_ack: 'Q' cancels, the magic is matched character by character.    *)
LastHeard(c) ==
    LET all == Append(heard, c)
    IN  IF Len(all) > Len(Magic) THEN Tail(all) ELSE all

\* Slip: a mismatch never counts as the first character.
MatchAfterForgets(n, c) == IF c = Magic[n + 1] THEN n + 1 ELSE 0

MatchAfter(n, c) ==
    IF c = Magic[n + 1] THEN n + 1 ELSE IF c = Magic[1] THEN 1 ELSE 0

HearKey(c) ==
    /\ phase = "ack"
    /\ heard' = LastHeard(c)
    /\ \/ /\ c = "Q"
          /\ phase' = "console"
          /\ UNCHANGED recognized
       \/ /\ c # "Q" /\ MatchAfter(recognized, c) = Len(Magic)
          /\ phase' = "frame"
          /\ UNCHANGED recognized
       \/ /\ c # "Q" /\ MatchAfter(recognized, c) # Len(Magic)
          /\ recognized' = MatchAfter(recognized, c)
          /\ UNCHANGED phase
    /\ UNCHANGED <<frameVars, failures, memory, line, replies, hostVars, faults,
                   early, reached>>

AckTimeout ==
    /\ phase = "ack"
    /\ phase' = "next"
    /\ UNCHANGED <<ackVars, frameVars, failures, memory, line, replies, hostVars,
                   faults, early, reached>>
--------------------------------------------------------------------------------
\* Slip: the index keeps its value for the next frame.
ReplyKeepsIndex(r) ==
    /\ replies' = Append(replies, r)
    /\ i' = i
    /\ early' = (early \/ line' # <<>>)

(* Every reply leaves the receiver at the start of a frame.                *)
Reply(r) ==
    /\ replies' = Append(replies, r)
    /\ i' = 0
    /\ early' = (early \/ line' # <<>>)

Complete == i >= Body /\ i = length' + Body - 1

\* Slip: the CRC is taken over the command only.
CrcMatchesCommand ==
    \E f \in Frame :
        /\ length' = PayloadLen(f)
        /\ crc = [of |-> f, at |-> CrcAt] /\ cmd = [of |-> f, at |-> CmdAt]

CrcMatches ==
    \E f \in Frame :
        /\ length' = PayloadLen(f)
        /\ crc = [of |-> f, at |-> CrcAt] /\ cmd = [of |-> f, at |-> CmdAt]
        /\ \A k \in 0..(PayloadLen(f) - 1) : payload'[k] = [of |-> f, at |-> Body + k]

\* Slip: compares before it counts.
FailLate(r) ==
    /\ Reply(r)
    /\ failures' = failures + 1
    /\ phase' = IF failures = MaxFailures THEN "next" ELSE phase
    /\ UNCHANGED memory

Fail(r) ==
    /\ Reply(r)
    /\ failures' = failures + 1
    /\ phase' = IF failures + 1 = MaxFailures THEN "next" ELSE phase
    /\ UNCHANGED memory

(* memcpy of payload_length bytes from behind the address: the count       *)
(* includes the address, so the last word is not of this frame.            *)
CopyPayload(addr) ==
    memory' = [a \in 0..MaxAddr |->
                  IF a \in addr..(addr + length' - 1) THEN payload'[1 + a - addr]
                  ELSE memory[a]]

Succeed ==
    /\ Reply("K")
    /\ failures' = 0

Execute ==
    LET f == cmd.of
    IN  \/ /\ program[f].cmd = "abort"
           /\ Succeed
           /\ phase' = "next"
           /\ UNCHANGED memory
        \/ /\ program[f].cmd = "load"
           /\ Succeed
           /\ CopyPayload(program[f].addr)
           /\ UNCHANGED phase
        \/ /\ program[f].cmd = "jump"
           /\ Succeed
           /\ phase' = "jumped"
           /\ UNCHANGED memory
        \/ /\ program[f].cmd = "unknown"
           /\ Fail("U")

FrameEnd ==
    \/ ~CrcMatches /\ Fail("C")
    \/ CrcMatches /\ Execute

(* A length byte says its frame's length; any other byte in its place says *)
(* something else.                                                         *)
ReadAsLength(b) ==
    IF b.of # NoFrame /\ b.at = LenAt THEN {PayloadLen(b.of)} ELSE Misread

(* The byte b arrives at place i.                                          *)
Receive(b) ==
    /\ \/ i = 0 /\ length' \in ReadAsLength(b)
       \/ i # 0 /\ UNCHANGED length
    /\ reached' = TRUE
    /\ crc' = IF i = CrcAt THEN b ELSE crc
    /\ cmd' = IF i = CmdAt THEN b ELSE cmd
    /\ payload' = [k \in 0..PayloadTop |-> IF i = Body + k THEN b ELSE payload[k]]
    /\ \/ Complete /\ FrameEnd
       \/ /\ ~Complete
          /\ i' = i + 1
          /\ UNCHANGED <<phase, failures, memory, replies, early>>

ReadByte ==
    /\ phase = "frame" /\ line # <<>>
    /\ line' = Tail(line)
    /\ Receive(Head(line))
    /\ UNCHANGED <<ackVars, hostVars, faults>>

\* Slip: a timeout is not acknowledged.
EndByTimerSilent ==
    /\ phase = "frame" /\ i > 0
    /\ i' = 0
    /\ UNCHANGED <<line, replies, early>>
    /\ UNCHANGED <<phase, ackVars, length, crc, cmd, payload, failures, memory,
                   hostVars, reached>>

(* The timer runs from the first byte of a frame.  It ends a frame that    *)
(* the line has nothing more for.                                          *)
EndByTimer ==
    /\ phase = "frame" /\ i > 0
    /\ UNCHANGED line
    /\ Reply("E")
    /\ UNCHANGED <<phase, ackVars, length, crc, cmd, payload, failures, memory,
                   hostVars, reached>>

FrameTimeout ==
    /\ line = <<>>
    /\ EndByTimer
    /\ UNCHANGED faults
--------------------------------------------------------------------------------
(* The line and the host.  As long as no reply left early, the line may    *)
(* lose any number of bytes; after that a loss counts as a fault.          *)
Fault == faults < MaxFaults /\ faults' = faults + 1

LoseByte ==
    /\ phase = "frame" /\ line # <<>>
    /\ line' = Tail(line)
    /\ IF early THEN Fault ELSE UNCHANGED faults
    /\ UNCHANGED <<phase, ackVars, frameVars, failures, memory, replies, hostVars,
                   early, reached>>

GarbleByte ==
    /\ phase = "frame" /\ line # <<>> /\ Fault
    /\ line' = Tail(line)
    /\ Receive(Noise)
    /\ UNCHANGED <<ackVars, hostVars>>

\* The host pauses in the middle of a frame for longer than the timer.
HostPauses ==
    /\ line # <<>> /\ Fault
    /\ EndByTimer

HostSends ==
    /\ phase = "frame" /\ ~waiting /\ next \in Frame
    /\ line' = line \o Bytes(next)
    /\ waiting' = TRUE /\ reached' = FALSE
    /\ UNCHANGED <<phase, ackVars, frameVars, failures, memory, replies,
                   program, next, faults, early>>

HostHears ==
    /\ waiting /\ replies # <<>>
    /\ replies' = Tail(replies)
    /\ next' = IF Head(replies) = "K" THEN next + 1 ELSE next
    /\ waiting' = FALSE
    /\ UNCHANGED <<phase, ackVars, frameVars, failures, memory, line, program,
                   faults, early, reached>>

Next ==
    \/ \E c \in Keys : HearKey(c)
    \/ AckTimeout
    \/ ReadByte \/ FrameTimeout
    \/ LoseByte \/ GarbleByte \/ HostPauses
    \/ HostSends \/ HostHears

Spec == Init /\ [][Next]_vars

\* The BIOS polls, its timer runs, the host goes on; no fault ever has to occur.
Fairness ==
    /\ WF_vars(ReadByte) /\ WF_vars(FrameTimeout) /\ WF_vars(AckTimeout)
    /\ WF_vars(HostSends) /\ WF_vars(HostHears)
FairSpec == Spec /\ Fairness
--------------------------------------------------------------------------------
(* check_ack has always matched the longest beginning of the magic that    *)
(* the characters heard so far end with (boot.c:135-144 restarts a failed  *)
(* match without a failure function).                                      *)
EndsWith(s, n) == /\ n <= Len(s)
                  /\ \A k \in 1..n : s[Len(s) - n + k] = Magic[k]
RecognizesMagic ==
    phase = "ack" =>
        /\ EndsWith(heard, recognized)
        /\ \A n \in (recognized + 1)..Len(Magic) : ~EndsWith(heard, n)

(* Host and board stay in step: between frames nothing is left on the line *)
(* and no reply is left over, and a frame never runs out of the buffer,    *)
(* unless a reply once left early.                                         *)
InStep ==
    ~early =>
        /\ phase = "frame" /\ ~waiting => line = <<>> /\ replies = <<>> /\ i = 0
        /\ i <= Body + PayloadTop
InStepInv == TypeOK /\ InStep

(* What the first n frames load is in memory, but for the words that a     *)
(* later one of them writes: its chunk and the word behind it.             *)
Loads(f) == program[f].cmd = "load"
Written(f) == program[f].addr..(program[f].addr + program[f].size)
Word(f, k) == program[f].addr + k - 1
Image(n) ==
    \A f \in 1..n : Loads(f) =>
        \A k \in 1..program[f].size :
            \/ memory[Word(f, k)] = [of |-> f, at |-> Body + k]
            \/ \E g \in (f + 1)..n : Loads(g) /\ Word(f, k) \in Written(g)

(* A jump finds every word of the image where the host put it, whatever    *)
(* the line lost or garbled and however often frames were sent again,      *)
(* unless a reply once left early (the replies carry no number).           *)
ImageIntact == phase = "jumped" /\ ~early => Image(cmd.of)

(* Once no more bytes get lost, loading ends: the board jumps, gives up or *)
(* is told to abort.  The condition is needed, since a timeout is answered *)
(* but not counted (boot.c:221-226): a line that cuts every frame short    *)
(* keeps the BIOS for ever.  Two exceptions.  A reply may have left early. *)
(* A frame may have been lost as a whole: then the board waits for a first *)
(* byte without a timer (boot.c:200) and the host for an answer.  A frame  *)
(* of which a byte was read gets its answer.                               *)
Unheard == waiting /\ ~reached /\ line = <<>> /\ replies = <<>> /\ i = 0
LoadingEnds ==
    <>[][~LoseByte]_vars => (phase = "frame" ~> phase # "frame" \/ early \/ Unheard)

(* A LOAD frame changes no word outside its own chunk ("Copy payload",     *)
(* boot.c:261).                                                            *)
Chunk(f) == program[f].addr..(program[f].addr + program[f].size - 1)
CopiesPayload ==
    [][\A a \in 0..MaxAddr : memory'[a] # memory[a] =>
           \E f \in Frame : program[f].cmd = "load" /\ cmd'.of = f /\ a \in Chunk(f)]_vars
================================================================================
