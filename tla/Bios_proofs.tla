--------------------------- MODULE Bios_proofs ---------------------------
(***************************************************************************)
(* serialboot() finds its magic in whatever it hears: for every magic      *)
(* whose first character comes once, its simple restart is as good as a    *)
(* failure function.  After that host and board take turns: a frame or a   *)
(* reply is under way, never both, so that the CRC compares bytes of one   *)
(* frame only and what is executed is the frame the host has just sent.    *)
(* Then the sequence of media: what it enters, and that serialboot() is    *)
(* what it takes it for.  Last the prompt: the terminal shows the line     *)
(* that will be executed, Tab does not lead away from a command, and each  *)
(* key does to line and history what it is for.                            *)
(***************************************************************************)
EXTENDS SerialBoot, BootSequence, ConsoleEditor, WellFoundedInduction, SequenceTheorems, TLAPS

\* The matcher, the characters heard, and what they say about each other.
AckTypeOK ==
  /\ recognized \in 0..(Len(Magic) - 1)
  /\ heard \in Seq(Keys) /\ Len(heard) <= Len(Magic)
AckInv == AckTypeOK /\ RecognizesMagic

LEMMA MagicFacts ==
  /\ Magic \in Seq(Keys)
  /\ Len(Magic) \in Nat /\ Len(Magic) >= 1
  /\ \A k \in 2..Len(Magic) : Magic[k] # Magic[1]
BY SerialAssumption

\* The characters heard grow at the end; what was heard before moves up by one.
\* They never forget a character that a match may need.
LEMMA HeardGrows ==
  ASSUME AckTypeOK, NEW c \in Keys, NEW s, s = LastHeard(c)
  PROVE  /\ s \in Seq(Keys)
         /\ Len(s) \in 1..Len(Magic)
         /\ Len(heard) < Len(Magic) => Len(s) = Len(heard) + 1
         /\ Len(heard) = Len(Magic) => Len(s) = Len(Magic)
         /\ s[Len(s)] = c
         /\ \A j \in 1..(Len(s) - 1) : s[Len(s) - j] = heard[Len(heard) + 1 - j]
<1> DEFINE all == Append(heard, c)
<1>1. heard \in Seq(Keys) /\ Len(heard) \in Nat /\ Len(heard) <= Len(Magic)
  BY DEF AckTypeOK
<1>2. /\ all \in Seq(Keys) /\ Len(all) = Len(heard) + 1
      /\ all[Len(heard) + 1] = c
      /\ \A k \in 1..Len(heard) : all[k] = heard[k]
  BY <1>1
<1>3. CASE Len(heard) = Len(Magic)
  <2>1. s = Tail(all)
    BY <1>2, <1>3, MagicFacts DEF LastHeard
  <2>2. /\ s \in Seq(Keys) /\ Len(s) = Len(heard)
        /\ \A k \in 1..Len(heard) : s[k] = all[k + 1]
    BY <1>1, <1>2, <1>3, <2>1, MagicFacts
  <2>3. s[Len(s)] = c
    BY <1>1, <1>2, <1>3, <2>2, MagicFacts
  <2>4. ASSUME NEW j \in 1..(Len(s) - 1)
        PROVE  s[Len(s) - j] = heard[Len(heard) + 1 - j]
    <3>1. /\ Len(s) - j \in 1..Len(heard)
          /\ (Len(s) - j) + 1 = Len(heard) + 1 - j
          /\ Len(heard) + 1 - j \in 1..Len(heard)
      BY <1>1, <2>2
    <3> QED
      BY <3>1, <1>2, <2>2
  <2> QED
    BY <1>1, <1>3, <2>2, <2>3, <2>4, MagicFacts
<1>4. CASE Len(heard) < Len(Magic)
  <2>1. s = all
    BY <1>1, <1>2, <1>4, MagicFacts DEF LastHeard
  <2>2. ASSUME NEW j \in 1..(Len(s) - 1)
        PROVE  s[Len(s) - j] = heard[Len(heard) + 1 - j]
    <3>1. /\ Len(s) - j = Len(heard) + 1 - j
          /\ Len(heard) + 1 - j \in 1..Len(heard)
      BY <1>1, <1>2, <2>1
    <3> QED
      BY <3>1, <1>2, <2>1
  <2> QED
    BY <1>1, <1>2, <1>4, <2>1, <2>2, MagicFacts
<1> QED
  BY <1>1, <1>3, <1>4, MagicFacts

\* What is heard ends with n characters of the magic exactly when the last one
\* is the n-th and what was heard before ended with the others.
LEMMA MatchGrows ==
  ASSUME AckTypeOK, NEW c \in Keys, NEW s, s = LastHeard(c), NEW n \in 1..Len(Magic)
  PROVE  EndsWith(s, n) <=> c = Magic[n] /\ EndsWith(heard, n - 1)
<1>1. /\ Len(s) \in 1..Len(Magic)
      /\ Len(heard) < Len(Magic) => Len(s) = Len(heard) + 1
      /\ Len(heard) = Len(Magic) => Len(s) = Len(Magic)
      /\ s[Len(s)] = c
      /\ \A j \in 1..(Len(s) - 1) : s[Len(s) - j] = heard[Len(heard) + 1 - j]
  BY HeardGrows
<1>2. Len(heard) \in Nat /\ Len(heard) <= Len(Magic) /\ Len(Magic) \in Nat
  BY MagicFacts DEF AckTypeOK
<1>3. n <= Len(s) <=> n - 1 <= Len(heard)
  BY <1>1, <1>2
<1>4. ASSUME n <= Len(s), NEW k \in 1..(n - 1)
      PROVE  s[Len(s) - n + k] = heard[Len(heard) - (n - 1) + k]
  <2>1. /\ n - k \in 1..(Len(s) - 1)
        /\ Len(s) - (n - k) = Len(s) - n + k
        /\ Len(heard) + 1 - (n - k) = Len(heard) - (n - 1) + k
    BY <1>1, <1>2, <1>4
  <2> QED
    BY <2>1, <1>1
<1>5. Len(s) - n + n = Len(s)
  BY <1>1, <1>2
<1>6. ASSUME EndsWith(s, n)
      PROVE  c = Magic[n] /\ EndsWith(heard, n - 1)
  <2>1. n <= Len(s) /\ \A k \in 1..n : s[Len(s) - n + k] = Magic[k]
    BY <1>6 DEF EndsWith
  <2>2. c = Magic[n]
    <3>1. n \in 1..n
      OBVIOUS
    <3>2. s[Len(s) - n + n] = Magic[n]
      BY <2>1, <3>1
    <3> QED
      BY <1>1, <1>5, <3>2
  <2>3. \A k \in 1..(n - 1) : heard[Len(heard) - (n - 1) + k] = Magic[k]
    BY <1>4, <2>1
  <2> QED
    BY <1>3, <2>1, <2>2, <2>3 DEF EndsWith
<1>7. ASSUME c = Magic[n], EndsWith(heard, n - 1)
      PROVE  EndsWith(s, n)
  <2>1. n - 1 <= Len(heard)
        /\ \A k \in 1..(n - 1) : heard[Len(heard) - (n - 1) + k] = Magic[k]
    BY <1>7 DEF EndsWith
  <2>2. n <= Len(s)
    BY <1>3, <2>1
  <2>3. ASSUME NEW k \in 1..n PROVE s[Len(s) - n + k] = Magic[k]
    <3>1. CASE k = n
      BY <3>1, <1>1, <1>5, <1>7
    <3>2. CASE k # n
      <4>1. k \in 1..(n - 1)
        BY <3>2
      <4> QED
        BY <4>1, <1>4, <2>1, <2>2
    <3> QED
      BY <3>1, <3>2
  <2> QED
    BY <2>2, <2>3 DEF EndsWith
<1> QED
  BY <1>6, <1>7

\* Two different parts of the magic cannot both end what was heard: the shorter
\* one would put the first character inside the longer one.
LEMMA OneMatch ==
  ASSUME AckTypeOK, NEW m \in 1..Len(Magic), NEW n \in 1..Len(Magic), m < n,
         EndsWith(heard, n)
  PROVE  ~EndsWith(heard, m)
<1>1. Len(heard) \in Nat /\ Len(Magic) \in Nat
  BY MagicFacts DEF AckTypeOK
<1>2. ASSUME EndsWith(heard, m) PROVE FALSE
  <2>1. heard[Len(heard) - m + 1] = Magic[1]
    BY <1>1, <1>2 DEF EndsWith
  <2>2. /\ n - m + 1 \in 1..n
        /\ Len(heard) - n + (n - m + 1) = Len(heard) - m + 1
    BY <1>1
  <2>3. heard[Len(heard) - m + 1] = Magic[n - m + 1]
    BY <2>2 DEF EndsWith
  <2>4. n - m + 1 \in 2..Len(Magic)
    BY <1>1
  <2> QED
    BY <2>1, <2>3, <2>4, MagicFacts
<1> QED
  BY <1>2
--------------------------------------------------------------------------------
\* A character that does not end the wait.
LEMMA MatcherFollows ==
  ASSUME AckInv, phase = "ack", NEW c \in Keys, NEW s, s = LastHeard(c),
         MatchAfter(recognized, c) # Len(Magic)
  PROVE  /\ MatchAfter(recognized, c) \in 0..(Len(Magic) - 1)
         /\ EndsWith(s, MatchAfter(recognized, c))
         /\ \A n \in (MatchAfter(recognized, c) + 1)..Len(Magic) : ~EndsWith(s, n)
<1> DEFINE r == MatchAfter(recognized, c)
<1>1. /\ AckTypeOK /\ recognized \in 0..(Len(Magic) - 1)
      /\ EndsWith(heard, recognized)
      /\ \A n \in (recognized + 1)..Len(Magic) : ~EndsWith(heard, n)
  BY DEF AckInv, AckTypeOK, RecognizesMagic
<1>2. Len(Magic) \in Nat /\ Len(Magic) >= 1
  BY MagicFacts
<1>3. \A n \in 1..Len(Magic) : EndsWith(s, n) <=> c = Magic[n] /\ EndsWith(heard, n - 1)
  BY <1>1, MatchGrows
\* Which longer parts of the magic may end the new string.
<1>4. ASSUME NEW n \in (recognized + 2)..Len(Magic) PROVE ~EndsWith(s, n)
  <2>1. n \in 1..Len(Magic) /\ n - 1 \in (recognized + 1)..Len(Magic)
    BY <1>1, <1>2
  <2> QED
    BY <2>1, <1>1, <1>3
<1>5. CASE c = Magic[recognized + 1]
  <2>1. r = recognized + 1
    BY <1>5 DEF MatchAfter
  <2>2. recognized + 1 \in 1..Len(Magic) /\ recognized + 1 - 1 = recognized
    BY <1>1, <1>2
  <2>3. EndsWith(s, r)
    BY <2>1, <2>2, <1>1, <1>3, <1>5
  <2>4. r \in 0..(Len(Magic) - 1)
    BY <2>1, <2>2, <1>2
  <2>5. r + 1 = recognized + 2
    BY <2>1, <1>1
  <2> QED
    BY <2>3, <2>4, <2>5, <1>4
<1>6. CASE c # Magic[recognized + 1]
  <2>1. ASSUME NEW n \in 2..Len(Magic), EndsWith(s, n)
        PROVE  n <= recognized /\ c = Magic[n] /\ EndsWith(heard, n - 1)
    <3>1. c = Magic[n] /\ EndsWith(heard, n - 1)
      BY <1>3, <2>1
    <3>2. n # recognized + 1
      BY <3>1, <1>6
    <3>3. ~(n >= recognized + 2)
      BY <1>1, <1>2, <1>4, <2>1
    <3> QED
      BY <3>1, <3>2, <3>3, <1>1
  <2>2. ASSUME NEW n \in 2..Len(Magic) PROVE ~EndsWith(s, n)
    <3>1. SUFFICES ASSUME EndsWith(s, n) PROVE FALSE
      OBVIOUS
    <3>2. n <= recognized /\ EndsWith(heard, n - 1)
      BY <2>1, <3>1
    <3>3. n - 1 \in 1..Len(Magic) /\ recognized \in 1..Len(Magic) /\ n - 1 < recognized
      BY <3>2, <1>1, <1>2
    <3> QED
      BY <3>2, <3>3, <1>1, OneMatch
  <2>3. CASE c = Magic[1]
    <3>1. r = 1
      BY <1>6, <2>3 DEF MatchAfter
    <3>2. 1 \in 1..Len(Magic) /\ EndsWith(heard, 0) /\ 1 - 1 = 0
      BY <1>1, <1>2 DEF EndsWith, AckTypeOK
    <3>3. EndsWith(s, 1)
      BY <3>2, <1>3, <2>3
    <3>4. 1 \in 0..(Len(Magic) - 1)
      BY <3>1, <1>2
    <3> QED
      BY <3>1, <3>3, <3>4, <2>2
  <2>4. CASE c # Magic[1]
    <3>1. r = 0
      BY <1>6, <2>4 DEF MatchAfter
    <3>2. EndsWith(s, 0)
      BY <1>1, HeardGrows DEF EndsWith
    <3>3. ~EndsWith(s, 1)
      BY <1>2, <1>3, <2>4
    <3>4. \A n \in 1..Len(Magic) : n = 1 \/ n \in 2..Len(Magic)
      BY <1>2
    <3> QED
      BY <3>1, <3>2, <3>3, <3>4, <2>2, <1>2
  <2> QED
    BY <2>3, <2>4
<1> QED
  BY <1>5, <1>6

LEMMA HearKeyInv ==
  ASSUME AckInv, NEW c \in Keys, HearKey(c)
  PROVE  AckInv'
<1>1. AckTypeOK /\ phase = "ack" /\ heard' = LastHeard(c)
  BY DEF AckInv, HearKey
<1>2. heard' \in Seq(Keys) /\ Len(heard') <= Len(Magic)
  BY <1>1, HeardGrows, MagicFacts
<1>3. CASE phase' # "ack" /\ UNCHANGED recognized
  BY <1>1, <1>2, <1>3 DEF AckInv, AckTypeOK, RecognizesMagic
<1>4. CASE MatchAfter(recognized, c) # Len(Magic) /\ recognized' = MatchAfter(recognized, c)
  <2>1. /\ recognized' \in 0..(Len(Magic) - 1)
        /\ EndsWith(heard', recognized')
        /\ \A n \in (recognized' + 1)..Len(Magic) : ~EndsWith(heard', n)
    BY <1>1, <1>4, MatcherFollows
  <2> QED
    BY <1>2, <2>1 DEF AckInv, AckTypeOK, RecognizesMagic, EndsWith
<1> QED
  BY <1>3, <1>4 DEF HearKey

\* Nothing else touches the matcher or goes back to it.
LEMMA OtherSteps ==
  ASSUME Next, ~(\E c \in Keys : HearKey(c))
  PROVE  UNCHANGED ackVars /\ (phase' = "ack" => phase = "ack")
<1>1. CASE AckTimeout
  BY <1>1 DEF AckTimeout, ackVars
<1>2. ASSUME NEW b, Receive(b) PROVE phase' = "ack" => phase = "ack"
  BY <1>2 DEF Receive, FrameEnd, Fail, Execute, Succeed
<1>3. CASE ReadByte
  BY <1>2, <1>3 DEF ReadByte, ackVars
<1>4. CASE FrameTimeout
  BY <1>4 DEF FrameTimeout, EndByTimer, ackVars
<1>5. CASE LoseByte
  BY <1>5 DEF LoseByte, ackVars
<1>6. CASE GarbleByte
  BY <1>2, <1>6 DEF GarbleByte, ackVars
<1>7. CASE HostPauses
  BY <1>7 DEF HostPauses, EndByTimer, ackVars
<1>8. CASE HostSends
  BY <1>8 DEF HostSends, ackVars
<1>9. CASE HostHears
  BY <1>9 DEF HostHears, ackVars
<1> QED
  BY <1>1, <1>3, <1>4, <1>5, <1>6, <1>7, <1>8, <1>9 DEF Next

LEMMA MatcherInvariant == Spec => []AckInv
<1>1. Init => AckInv
  <2> SUFFICES ASSUME Init PROVE AckInv
    OBVIOUS
  <2>1. recognized = 0 /\ heard = <<>>
    BY DEF Init
  <2>2. AckTypeOK
    BY <2>1, MagicFacts DEF AckTypeOK
  <2>3. EndsWith(heard, recognized) /\ \A n \in 1..Len(Magic) : ~EndsWith(heard, n)
    BY <2>1, MagicFacts DEF EndsWith
  <2> QED
    BY <2>1, <2>2, <2>3 DEF AckInv, RecognizesMagic
<1>2. AckInv /\ [Next]_vars => AckInv'
  <2> SUFFICES ASSUME AckInv, [Next]_vars PROVE AckInv'
    OBVIOUS
  <2>1. CASE \E c \in Keys : HearKey(c)
    BY <2>1, HearKeyInv
  <2>2. CASE UNCHANGED ackVars /\ (phase' = "ack" => phase = "ack")
    BY <2>2 DEF AckInv, AckTypeOK, RecognizesMagic, EndsWith, ackVars
  <2>3. CASE UNCHANGED vars
    BY <2>2, <2>3 DEF vars
  <2> QED
    BY <2>1, <2>2, <2>3, OtherSteps
<1> QED
  BY <1>1, <1>2, PTL DEF Spec

\* check_ack (boot.c:122-146) never misses its magic and never sees one that is
\* not there, whatever the magic, as long as its first character comes once.
THEOREM MagicRecognized == Spec => []RecognizesMagic
<1>1. AckInv => RecognizesMagic
  BY DEF AckInv
<1> QED
  BY <1>1, MatcherInvariant, PTL
--------------------------------------------------------------------------------
(***************************************************************************)
(* Frames and tokens.                                                      *)
(***************************************************************************)
LEMMA Bounds ==
  /\ MaxAddr \in Nat /\ PayloadTop \in Nat /\ MaxFailures \in Nat /\ MaxFailures >= 1
  /\ MaxFaults \in Nat /\ Misread \subseteq Nat
BY SerialAssumption

LEMMA ElementType ==
  ASSUME NEW S, NEW s \in Seq(S), NEW k \in 1..Len(s)
  PROVE  s[k] \in S
OBVIOUS

LEMMA FrameFacts ==
  ASSUME program \in Programs
  PROVE  /\ Len(program) \in Nat
         /\ \A f \in Frame :
               /\ program[f].cmd \in {"load", "jump", "abort", "unknown"}
               /\ program[f].addr \in 0..MaxAddr
               /\ program[f].size \in Nat /\ program[f].size < PayloadTop
               /\ PayloadLen(f) = program[f].size + 1
<1>1. program \in Seq([cmd : {"load", "jump", "abort", "unknown"},
                      addr : 0..MaxAddr, size : Nat])
  BY SerialAssumption
<1>2. Len(program) \in Nat
  BY <1>1
<1>3. ASSUME NEW f \in Frame
      PROVE  program[f] \in [cmd : {"load", "jump", "abort", "unknown"},
                             addr : 0..MaxAddr, size : Nat]
  BY <1>1, ElementType DEF Frame
<1>4. ASSUME NEW f \in Frame PROVE program[f].size < PayloadTop
  BY <1>4, SerialAssumption DEF Frame
<1> QED
  BY <1>2, <1>3, <1>4 DEF PayloadLen

LEMMA TokenFacts ==
  ASSUME program \in Programs
  PROVE  /\ Noise \in Token
         /\ \A t \in Token : t.of = NoFrame \/ t.of \in Frame
         /\ \A f \in Frame : \A k \in 1..(Body + PayloadLen(f)) :
               [of |-> f, at |-> k - 1] \in Token
<1>1. Noise \in Token
  BY DEF Token
<1>2. ASSUME NEW t \in Token PROVE t.of = NoFrame \/ t.of \in Frame
  <2>1. CASE t = Noise
    BY <2>1 DEF Noise
  <2>2. CASE \E f \in Frame : \E k \in DOMAIN Bytes(f) : t = Bytes(f)[k]
    BY <2>2 DEF Bytes
  <2> QED
    BY <1>2, <2>1, <2>2 DEF Token
<1>3. ASSUME NEW f \in Frame, NEW k \in 1..(Body + PayloadLen(f))
      PROVE  [of |-> f, at |-> k - 1] \in Token
  <2>1. k \in DOMAIN Bytes(f) /\ Bytes(f)[k] = [of |-> f, at |-> k - 1]
    BY DEF Bytes
  <2> QED
    BY <2>1 DEF Token
<1> QED
  BY <1>1, <1>2, <1>3

LEMMA BytesFacts ==
  ASSUME program \in Programs, NEW f \in Frame
  PROVE  /\ Bytes(f) \in Seq(Token)
         /\ Len(Bytes(f)) = Body + PayloadLen(f)
         /\ \A k \in 1..Len(Bytes(f)) : Bytes(f)[k].of = f
<1>1. Body + PayloadLen(f) \in Nat
  BY FrameFacts DEF Body
<1>2. \A k \in 1..(Body + PayloadLen(f)) : [of |-> f, at |-> k - 1] \in Token
  BY TokenFacts
<1>3. Bytes(f) \in [1..(Body + PayloadLen(f)) -> Token]
  BY <1>2 DEF Bytes
<1>4. Bytes(f) \in Seq(Token) /\ Len(Bytes(f)) = Body + PayloadLen(f)
  BY <1>1, <1>3
<1> QED
  BY <1>4 DEF Bytes

\* The program stays, and with it the tokens.
LEMMA SameTokens ==
  ASSUME program' = program
  PROVE  Token' = Token /\ Frame' = Frame
BY DEF Token, Bytes, Frame, PayloadLen, Noise
--------------------------------------------------------------------------------

\* What TypeOK leaves out: a receiver at work has failures left, and a host
\* waits for the reply to a frame of its program.
FailuresLeft == phase \in {"ack", "frame"} => failures < MaxFailures
WaitsForFrame == waiting => next \in Frame

\* The last frame that the board has executed and said so.
Done == IF waiting /\ replies = <<"K">> THEN next ELSE next - 1

\* Host and board take turns: nothing is under way, or one frame is, or one
\* reply is.
Idle == ~waiting /\ line = <<>> /\ replies = <<>> /\ i = 0
FrameUnderWay ==
    /\ waiting /\ replies = <<>>
    /\ \A k \in 1..Len(line) : line[k].of = next
    /\ i + Len(line) <= Body + PayloadLen(next)
    /\ i > CrcAt => crc.of \in {NoFrame, next}
ReplyUnderWay ==
    /\ waiting /\ line = <<>> /\ i = 0
    /\ \E r \in Replies : replies = <<r>>
Turn == Idle \/ FrameUnderWay \/ ReplyUnderWay

\* What the board has executed is in memory, and a jump was the last of it.
Executed ==
    /\ Image(Done)
    /\ phase = "jumped" => cmd.of = Done

IInv == TypeOK /\ FailuresLeft /\ WaitsForFrame /\ (~early => Turn /\ Executed)
--------------------------------------------------------------------------------
(***************************************************************************)
(* Types.                                                                  *)
(***************************************************************************)
\* The frame index, the frame buffer and what a frame's end changes.
BufferType ==
  /\ length \in Nat /\ crc \in Token /\ cmd \in Token
  /\ payload \in [0..PayloadTop -> Token]
OutcomeType ==
  /\ phase \in {"ack", "frame", "next", "console", "jumped"}
  /\ i \in Nat /\ failures \in 0..MaxFailures
  /\ memory \in [0..MaxAddr -> Token]
  /\ replies \in Seq(Replies) /\ early \in BOOLEAN
  /\ FailuresLeft

LEMMA ReplyType ==
  ASSUME OutcomeType, NEW r \in Replies, Reply(r)
  PROVE  i' = 0 /\ replies' \in Seq(Replies) /\ early' \in BOOLEAN
<1>1. replies \in Seq(Replies)
  BY DEF OutcomeType
<1>2. Append(replies, r) \in Seq(Replies)
  BY <1>1
<1> QED
  BY <1>2 DEF OutcomeType, Reply

LEMMA FailType ==
  ASSUME OutcomeType, phase = "frame", Token' = Token, NEW r \in Replies, Fail(r)
  PROVE  OutcomeType'
<1>1. failures \in 0..MaxFailures /\ failures < MaxFailures
  BY DEF OutcomeType, FailuresLeft
<1>2. /\ failures' = failures + 1 /\ memory' = memory
      /\ phase' = IF failures + 1 = MaxFailures THEN "next" ELSE phase
  BY DEF Fail
<1>3. i' = 0 /\ replies' \in Seq(Replies) /\ early' \in BOOLEAN
  BY ReplyType DEF Fail
<1>4. failures' \in 0..MaxFailures
  BY <1>1, <1>2, Bounds
<1>5. /\ phase' \in {"ack", "frame", "next", "console", "jumped"}
      /\ phase' \in {"ack", "frame"} => failures' < MaxFailures
  BY <1>1, <1>2, Bounds
<1>6. memory' \in [0..MaxAddr -> Token']
  BY <1>2 DEF OutcomeType
<1> QED
  BY <1>3, <1>4, <1>5, <1>6 DEF OutcomeType, FailuresLeft

LEMMA Offset ==
  ASSUME NEW a \in Int, NEW b \in Nat, NEW n \in Nat, NEW top \in Nat, n <= top,
         a \in b..(b + n - 1)
  PROVE  1 + a - b \in 1..n /\ 1 + a - b \in 0..top
OBVIOUS

LEMMA CopyType ==
  ASSUME memory \in [0..MaxAddr -> Token], payload' \in [0..PayloadTop -> Token],
         NEW addr \in 0..MaxAddr, length' \in Nat, length' <= PayloadTop,
         CopyPayload(addr)
  PROVE  memory' \in [0..MaxAddr -> Token]
<1>1. ASSUME NEW a \in 0..MaxAddr, a \in addr..(addr + length' - 1)
      PROVE  payload'[1 + a - addr] \in Token
  <2>1. 1 + a - addr \in 0..PayloadTop
    <3>1. a \in Int /\ addr \in Nat /\ PayloadTop \in Nat
      BY Bounds
    <3>2. length' \in Nat /\ length' <= PayloadTop /\ a \in addr..(addr + length' - 1)
      BY <1>1
    <3> QED
      BY <3>1, <3>2, Offset
  <2> QED
    BY <2>1
<1>2. ASSUME NEW a \in 0..MaxAddr PROVE memory[a] \in Token
  BY <1>2
<1>3. ASSUME NEW a \in 0..MaxAddr
      PROVE  (IF a \in addr..(addr + length' - 1) THEN payload'[1 + a - addr]
              ELSE memory[a]) \in Token
  BY <1>1, <1>2
<1> QED
  BY <1>3 DEF CopyPayload

LEMMA FrameEndType ==
  ASSUME TypeOK, OutcomeType, phase = "frame", program' = program, FrameEnd,
         BufferType', cmd' = cmd
  PROVE  OutcomeType'
<1>1. Token' = Token /\ program \in Programs
  BY SameTokens DEF TypeOK
<1>2. ASSUME NEW r \in Replies, Fail(r) PROVE OutcomeType'
  BY <1>1, <1>2, FailType
<1>3. CASE ~CrcMatches
  BY <1>2, <1>3 DEF FrameEnd, CrcMatches, Execute, Replies
<1>4. CASE CrcMatches /\ Execute
  <2>1. /\ cmd.of \in Frame
        /\ length' = PayloadLen(cmd.of)
    BY <1>4 DEF CrcMatches
  <2>2. /\ program[cmd.of].addr \in 0..MaxAddr
        /\ length' \in Nat /\ length' <= PayloadTop
    BY <1>1, <2>1, FrameFacts, Bounds
  <2>3. CASE Fail("U")
    BY <1>2, <2>3 DEF Replies
  <2>4. ASSUME Succeed, phase' \in {"frame", "next", "jumped"},
               memory' \in [0..MaxAddr -> Token]
        PROVE  OutcomeType'
    <3>1. i' = 0 /\ replies' \in Seq(Replies) /\ early' \in BOOLEAN
      BY <2>4, ReplyType DEF Succeed, Replies
    <3> QED
      BY <2>4, <3>1, <1>1, Bounds DEF OutcomeType, FailuresLeft, Succeed
  <2>5. CASE UNCHANGED memory /\ Succeed /\ phase' \in {"next", "jumped"}
    BY <2>4, <2>5 DEF OutcomeType
  <2>6. CASE Succeed /\ CopyPayload(program[cmd.of].addr) /\ UNCHANGED phase
    <3>1. memory' \in [0..MaxAddr -> Token]
      BY <1>1, <2>2, <2>6, CopyType DEF OutcomeType, BufferType
    <3> QED
      BY <2>4, <2>6, <3>1
  <2> QED
    BY <1>4, <2>3, <2>5, <2>6 DEF Execute
<1> QED
  BY <1>3, <1>4 DEF FrameEnd

LEMMA ReceiveType ==
  ASSUME TypeOK, FailuresLeft, phase = "frame", program' = program,
         NEW b \in Token, Receive(b)
  PROVE  BufferType' /\ OutcomeType'
<1>1. Token' = Token /\ program \in Programs
  BY SameTokens DEF TypeOK
<1>2. OutcomeType
  BY DEF TypeOK, OutcomeType
<1>3. BufferType'
  <2>1. length' \in Nat
    <3>1. ASSUME length' \in ReadAsLength(b) PROVE length' \in Nat
      <4>1. CASE b.of # NoFrame /\ b.at = LenAt
        <5>1. length' = PayloadLen(b.of) /\ b.of \in Frame
          BY <1>1, <3>1, <4>1, TokenFacts DEF ReadAsLength
        <5> QED
          BY <1>1, <5>1, FrameFacts
      <4>2. CASE ~(b.of # NoFrame /\ b.at = LenAt)
        BY <3>1, <4>2, Bounds DEF ReadAsLength
      <4> QED
        BY <4>1, <4>2
    <3> QED
      BY <3>1 DEF Receive, TypeOK
  <2>2. crc' \in Token /\ cmd' \in Token
    BY DEF Receive, TypeOK
  <2>3. payload' \in [0..PayloadTop -> Token]
    <3>1. payload \in [0..PayloadTop -> Token]
      BY DEF TypeOK
    <3>2. payload' = [k \in 0..PayloadTop |-> IF i = Body + k THEN b ELSE payload[k]]
      BY DEF Receive
    <3> QED
      BY <3>1, <3>2
  <2> QED
    BY <1>1, <2>1, <2>2, <2>3 DEF BufferType
<1>4. CASE Complete /\ FrameEnd
  <2>1. cmd' = cmd
    BY <1>4 DEF Complete, Receive, TypeOK, Body, CmdAt
  <2> QED
    BY <1>2, <1>3, <1>4, <2>1, FrameEndType
<1>5. CASE i' = i + 1 /\ UNCHANGED <<phase, failures, memory, replies, early>>
  BY <1>1, <1>2, <1>3, <1>5 DEF OutcomeType, FailuresLeft
<1>6. \/ Complete /\ FrameEnd
      \/ i' = i + 1 /\ UNCHANGED <<phase, failures, memory, replies, early>>
  BY DEF Receive
<1> QED
  BY <1>3, <1>4, <1>5, <1>6

\* The type of everything but the matcher, in the two parts that steps leave alone.
LineType ==
  /\ line \in Seq(Token) /\ faults \in 0..MaxFaults /\ reached \in BOOLEAN
HostType ==
  /\ program \in Programs
  /\ next \in 1..(Len(program) + 1) /\ waiting \in BOOLEAN
  /\ WaitsForFrame

LEMMA TypeParts ==
  TypeOK /\ FailuresLeft /\ WaitsForFrame <=>
    AckTypeOK /\ BufferType /\ OutcomeType /\ LineType /\ HostType
BY DEF TypeOK, AckTypeOK, BufferType, OutcomeType, LineType, HostType

LEMMA InitType == Init => TypeOK /\ FailuresLeft /\ WaitsForFrame
<1> SUFFICES ASSUME Init PROVE TypeOK /\ FailuresLeft /\ WaitsForFrame
  OBVIOUS
<1>1. program \in Programs /\ Len(program) \in Nat
  BY FrameFacts DEF Init
<1>2. Noise \in Token
  BY <1>1, TokenFacts
<1>3. AckTypeOK
  BY MagicFacts DEF Init, AckTypeOK
<1>4. BufferType
  BY <1>2 DEF Init, BufferType
<1>5. OutcomeType
  <2>1. memory \in [0..MaxAddr -> Token]
    BY <1>2 DEF Init
  <2> QED
    BY <2>1, Bounds DEF Init, OutcomeType, FailuresLeft
<1>6. LineType /\ HostType
  BY <1>1, Bounds, SMTT(40) DEF Init, LineType, HostType, WaitsForFrame
<1> QED
  BY <1>3, <1>4, <1>5, <1>6, TypeParts

\* The board's timer ends a frame.
LEMMA EndByTimerType ==
  ASSUME TypeOK, FailuresLeft, WaitsForFrame, program' = program, EndByTimer
  PROVE  BufferType' /\ OutcomeType'
<1>1. Token' = Token /\ OutcomeType /\ BufferType
  BY SameTokens, TypeParts
<1>2. i' = 0 /\ replies' \in Seq(Replies) /\ early' \in BOOLEAN
  BY <1>1, ReplyType DEF EndByTimer, Replies
<1> QED
  BY <1>1, <1>2 DEF EndByTimer, BufferType, OutcomeType, FailuresLeft

LEMMA StepType ==
  ASSUME TypeOK, FailuresLeft, WaitsForFrame, Next, AckTypeOK'
  PROVE  TypeOK' /\ FailuresLeft' /\ WaitsForFrame'
<1> DEFINE Rest == BufferType' /\ OutcomeType' /\ LineType' /\ HostType'
<1>0. SUFFICES Rest
  <2>1. (TypeOK /\ FailuresLeft /\ WaitsForFrame)' <=>
          (AckTypeOK /\ BufferType /\ OutcomeType /\ LineType /\ HostType)'
    BY TypeParts, PTL
  <2> QED
    BY <1>0, <2>1
<1>1. BufferType /\ OutcomeType /\ LineType /\ HostType
  BY TypeParts
<1>2. program' = program
  BY DEF Next, HearKey, AckTimeout, ReadByte, FrameTimeout, LoseByte, GarbleByte,
         HostPauses, HostSends, HostHears, EndByTimer, hostVars
<1>3. Token' = Token /\ Frame' = Frame /\ program \in Programs
  BY <1>1, <1>2, SameTokens DEF HostType
<1>4. line \in Seq(Token) /\ replies \in Seq(Replies)
  BY <1>1 DEF LineType, OutcomeType
<1>5. line # <<>> => Head(line) \in Token /\ Tail(line) \in Seq(Token)
  BY <1>4
<1>6. ASSUME Fault PROVE faults' \in 0..MaxFaults
  BY <1>1, <1>6, Bounds DEF Fault, LineType
<1>18. reached' \in BOOLEAN
  <2>1. reached \in BOOLEAN
    BY <1>1 DEF LineType
  <2>2. reached' = reached \/ reached' = TRUE \/ reached' = FALSE
    BY DEF Next, HearKey, AckTimeout, ReadByte, FrameTimeout, LoseByte, GarbleByte, Receive,
           HostPauses, HostSends, HostHears, EndByTimer
  <2> QED
    BY <2>1, <2>2
<1>7. ASSUME UNCHANGED frameVars PROVE BufferType'
  BY <1>1, <1>3, <1>7 DEF BufferType, frameVars
<1>8. ASSUME UNCHANGED hostVars PROVE HostType'
  BY <1>1, <1>3, <1>8 DEF HostType, WaitsForFrame, hostVars
<1>9. ASSUME NEW c \in Keys, HearKey(c) PROVE Rest
  <2>1. UNCHANGED <<frameVars, hostVars, line, faults, failures, memory, replies, early>>
    BY <1>9 DEF HearKey
  <2>2. phase = "ack" /\ phase' \in {"ack", "console", "frame"}
    BY <1>9 DEF HearKey
  <2> QED
    BY <1>1, <1>3, <1>7, <1>8, <1>18, <2>1, <2>2
    DEF OutcomeType, LineType, FailuresLeft, frameVars
<1>10. CASE AckTimeout
  BY <1>1, <1>3, <1>7, <1>8, <1>10, <1>18
  DEF AckTimeout, OutcomeType, LineType, FailuresLeft, frameVars
<1>11. CASE ReadByte
  BY <1>1, <1>2, <1>3, <1>5, <1>8, <1>11, <1>18, ReceiveType DEF ReadByte, LineType
<1>12. CASE FrameTimeout
  BY <1>1, <1>2, <1>3, <1>8, <1>12, <1>18, EndByTimerType
  DEF FrameTimeout, EndByTimer, LineType
<1>13. CASE LoseByte
  BY <1>1, <1>3, <1>5, <1>6, <1>7, <1>8, <1>13, <1>18
  DEF LoseByte, OutcomeType, LineType, FailuresLeft, frameVars
<1>14. CASE GarbleByte
  <2>1. Noise \in Token
    BY <1>3, TokenFacts
  <2> QED
    BY <1>1, <1>2, <1>3, <1>5, <1>6, <1>8, <1>14, <1>18, <2>1, ReceiveType
    DEF GarbleByte, LineType
<1>15. CASE HostPauses
  BY <1>1, <1>2, <1>3, <1>6, <1>8, <1>15, <1>18, EndByTimerType
  DEF HostPauses, EndByTimer, LineType
<1>16. CASE HostSends
  <2>1. line' \in Seq(Token)
    <3>1. Bytes(next) \in Seq(Token)
      BY <1>3, <1>16, BytesFacts DEF HostSends
    <3> QED
      BY <1>4, <1>16, <3>1 DEF HostSends
  <2> QED
    BY <1>1, <1>3, <1>7, <1>16, <1>18, <2>1
    DEF HostSends, HostType, WaitsForFrame, OutcomeType, LineType, FailuresLeft, frameVars
<1>17. CASE HostHears
  <2>1. replies' \in Seq(Replies)
    BY <1>4, <1>17 DEF HostHears
  <2>2. next' \in 1..(Len(program) + 1)
    <3>1. next \in Nat /\ next <= Len(program) /\ next >= 1 /\ Len(program) \in Nat
      BY <1>1, <1>3, <1>17, FrameFacts DEF HostHears, HostType, WaitsForFrame, Frame
    <3>2. next' = next \/ next' = next + 1
      BY <1>17 DEF HostHears
    <3> QED
      BY <3>1, <3>2
  <2> QED
    BY <1>1, <1>3, <1>7, <1>17, <1>18, <2>1, <2>2
    DEF HostHears, HostType, WaitsForFrame, OutcomeType, LineType, FailuresLeft, frameVars
<1> QED
  BY <1>9, <1>10, <1>11, <1>12, <1>13, <1>14, <1>15, <1>16, <1>17 DEF Next
--------------------------------------------------------------------------------
(***************************************************************************)
(* Host and board take turns, as long as no reply leaves early.            *)
(***************************************************************************)
\* The receiver's answer to the frame under way.
LEMMA Answer ==
  ASSUME WaitsForFrame, FrameUnderWay, UNCHANGED hostVars, ~early',
         NEW r \in Replies, Reply(r)
  PROVE  /\ ReplyUnderWay'
         /\ Done = next - 1
         /\ Done' = IF r = "K" THEN next ELSE next - 1
<1>1. waiting /\ replies = <<>> /\ waiting' /\ next' = next
  BY DEF FrameUnderWay, hostVars
<1>2. replies' = <<r>> /\ i' = 0 /\ line' = <<>>
  <2>1. early' = (early \/ line' # <<>>)
    BY DEF Reply
  <2>2. line' = <<>>
    BY <2>1, Zenon
  <2>3. Append(<<>>, r) = <<r>>
    OBVIOUS
  <2> QED
    BY <1>1, <2>2, <2>3 DEF Reply
<1>3. ReplyUnderWay'
  BY <1>1, <1>2 DEF ReplyUnderWay, Replies
<1>4. Done = next - 1
  BY <1>1 DEF Done
<1>5. Done' = IF r = "K" THEN next ELSE next - 1
  BY <1>1, <1>2 DEF Done
<1> QED
  BY <1>3, <1>4, <1>5

\* A frame that loads adds its chunk to the image; any other leaves it as it is.
LEMMA ImageGrows ==
  ASSUME program \in Programs, program' = program, next \in Frame, next' = next,
         Image(next - 1),
         \/ ~Loads(next) /\ memory' = memory
         \/ /\ Loads(next)
            /\ \A a \in 0..MaxAddr : a \notin Written(next) => memory'[a] = memory[a]
            /\ \A k \in 1..program[next].size :
                  memory'[Word(next, k)] = [of |-> next, at |-> Body + k]
  PROVE  \A f \in 1..next : Loads(f) =>
           \A k \in 1..program[f].size :
              \/ memory'[Word(f, k)] = [of |-> f, at |-> Body + k]
              \/ \E g \in (f + 1)..next : Loads(g) /\ Word(f, k) \in Written(g)
<1>1. next \in Nat /\ next >= 1 /\ next <= Len(program) /\ Len(program) \in Nat
  BY FrameFacts DEF Frame
<1> SUFFICES ASSUME NEW f \in 1..next, Loads(f), NEW k \in 1..program[f].size
             PROVE  \/ memory'[Word(f, k)] = [of |-> f, at |-> Body + k]
                    \/ \E g \in (f + 1)..next : Loads(g) /\ Word(f, k) \in Written(g)
  OBVIOUS
<1>2. CASE f = next
  BY <1>2
<1>3. CASE f # next
  <2>1. f \in 1..(next - 1) /\ f \in Frame
    BY <1>1, <1>3 DEF Frame
  <2>2. CASE \E g \in (f + 1)..(next - 1) : Loads(g) /\ Word(f, k) \in Written(g)
    <3>1. PICK g \in (f + 1)..(next - 1) : Loads(g) /\ Word(f, k) \in Written(g)
      BY <2>2
    <3>2. g \in (f + 1)..next
      BY <1>1, <2>1
    <3> QED
      BY <3>1, <3>2
  <2>3. CASE memory[Word(f, k)] = [of |-> f, at |-> Body + k]
    <3>1. CASE ~Loads(next) /\ memory' = memory
      BY <2>3, <3>1
    <3>2. CASE Loads(next) /\ Word(f, k) \in Written(next)
      <4>1. next \in (f + 1)..next
        BY <1>1, <2>1
      <4> QED
        BY <3>2, <4>1
    <3>3. CASE Loads(next) /\ Word(f, k) \notin Written(next)
      <4>1. Word(f, k) \in 0..MaxAddr
        <5>1. /\ program[f].addr \in 0..MaxAddr /\ program[f].size \in Nat
              /\ program[f].addr + program[f].size <= MaxAddr
          BY <2>1, FrameFacts, SerialAssumption DEF Loads, Frame
        <5> QED
          BY <5>1, Bounds DEF Word
      <4> QED
        BY <2>3, <3>3, <4>1
    <3> QED
      BY <3>1, <3>2, <3>3
  <2> QED
    BY <2>1, <2>2, <2>3 DEF Image
<1> QED
  BY <1>2, <1>3

\* A LOAD frame whose CRC matches writes its own words where they belong.
LEMMA CopyLoads ==
  ASSUME program \in Programs, NEW f \in Frame, Loads(f), length' = PayloadLen(f),
         \A k \in 0..(PayloadLen(f) - 1) : payload'[k] = [of |-> f, at |-> Body + k],
         CopyPayload(program[f].addr)
  PROVE  /\ \A a \in 0..MaxAddr : a \notin Written(f) => memory'[a] = memory[a]
         /\ \A k \in 1..program[f].size :
               memory'[Word(f, k)] = [of |-> f, at |-> Body + k]
<1>1. /\ program[f].addr \in 0..MaxAddr /\ program[f].size \in Nat
      /\ length' = program[f].size + 1 /\ PayloadLen(f) = program[f].size + 1
      /\ program[f].addr + program[f].size <= MaxAddr
  BY FrameFacts, SerialAssumption DEF Loads, Frame
<1>2. Written(f) = program[f].addr..(program[f].addr + length' - 1)
  BY <1>1 DEF Written
<1>3. ASSUME NEW a \in 0..MaxAddr, a \notin Written(f) PROVE memory'[a] = memory[a]
  BY <1>2, <1>3 DEF CopyPayload
<1>4. ASSUME NEW k \in 1..program[f].size
      PROVE  memory'[Word(f, k)] = [of |-> f, at |-> Body + k]
  <2>1. /\ Word(f, k) \in 0..MaxAddr
        /\ Word(f, k) \in program[f].addr..(program[f].addr + length' - 1)
        /\ 1 + Word(f, k) - program[f].addr = k
        /\ k \in 0..(PayloadLen(f) - 1)
    BY <1>1, Bounds DEF Word
  <2>2. memory'[Word(f, k)] = payload'[1 + Word(f, k) - program[f].addr]
    BY <2>1 DEF CopyPayload
  <2> QED
    BY <2>1, <2>2
<1> QED
  BY <1>3, <1>4

\* A byte of the frame under way, or noise in its place.
LEMMA ReceiveTurn ==
  ASSUME TypeOK, FailuresLeft, WaitsForFrame, phase = "frame", FrameUnderWay, Executed,
         UNCHANGED hostVars, line # <<>>, line' = Tail(line),
         NEW b \in Token, b.of \in {NoFrame, next}, Receive(b), ~early'
  PROVE  Turn' /\ Executed'
<1>1. /\ program \in Programs /\ program' = program /\ next' = next
      /\ waiting /\ waiting' /\ replies = <<>> /\ next \in Frame
      /\ i \in Nat /\ line \in Seq(Token)
  BY DEF TypeOK, WaitsForFrame, FrameUnderWay, hostVars
<1>2. PayloadLen(next) \in Nat /\ next \in Nat /\ next >= 1
  BY <1>1, FrameFacts DEF Frame
<1>3. Done = next - 1 /\ Image(next - 1)
  BY <1>1 DEF Done, Executed
\* The frame goes on.
<1>4. CASE i' = i + 1 /\ UNCHANGED <<phase, failures, memory, replies, early>>
  <2>1. /\ Len(line') = Len(line) - 1 /\ Len(line) \in Nat /\ Len(line) >= 1
        /\ \A k \in 1..Len(line') : line'[k] = line[k + 1]
    BY <1>1
  <2>2. \A k \in 1..Len(line') : line'[k].of = next
    <3> TAKE k \in 1..Len(line')
    <3>1. k + 1 \in 1..Len(line) /\ line'[k] = line[k + 1]
      BY <2>1
    <3> QED
      BY <3>1 DEF FrameUnderWay
  <2>3. i' + Len(line') <= Body + PayloadLen(next)
    BY <1>1, <1>2, <1>4, <2>1 DEF FrameUnderWay, Body
  <2>4. i' > CrcAt => crc'.of \in {NoFrame, next}
    BY <1>1, <1>4 DEF FrameUnderWay, Receive, CrcAt
  <2>5. PayloadLen(next)' = PayloadLen(next)
    BY <1>1 DEF PayloadLen
  <2>6. FrameUnderWay'
    BY <1>1, <1>4, <2>2, <2>3, <2>4, <2>5 DEF FrameUnderWay
  <2>7. Done' = Done
    BY <1>1, <1>4 DEF Done
  <2>8. Image(next - 1)' 
    BY <1>1, <1>3, <1>4 DEF Image, Loads, Written, Word
  <2>9. Executed'
    BY <1>1, <1>3, <1>4, <2>7, <2>8 DEF Executed, Image
  <2> QED
    BY <2>6, <2>9 DEF Turn
\* The frame ends.
<1>5. CASE Complete /\ FrameEnd
  <2>1. cmd' = cmd /\ crc' = crc /\ i > CrcAt
    BY <1>1, <1>5 DEF Complete, Receive, Body, CmdAt, CrcAt
  <2>2. ASSUME NEW r \in Replies, Reply(r), r # "K", memory' = memory, phase' # "jumped"
        PROVE  Turn' /\ Executed'
    <3>1. ReplyUnderWay' /\ Done' = next - 1
      BY <2>2, Answer
    <3>2. Executed'
      BY <1>1, <1>3, <2>2, <3>1 DEF Executed, Image, Loads, Written, Word
    <3> QED
      BY <3>1, <3>2 DEF Turn
  <2>3. ASSUME NEW r \in Replies, Fail(r), r # "K" PROVE Turn' /\ Executed'
    BY <2>2, <2>3 DEF Fail
  <2>4. CASE ~CrcMatches
    BY <1>5, <2>3, <2>4 DEF FrameEnd, Replies
  <2>5. CASE CrcMatches /\ Execute
    <3>1. PICK f \in Frame :
            /\ length' = PayloadLen(f)
            /\ crc = [of |-> f, at |-> CrcAt] /\ cmd = [of |-> f, at |-> CmdAt]
            /\ \A k \in 0..(PayloadLen(f) - 1) :
                  payload'[k] = [of |-> f, at |-> Body + k]
      BY <2>5 DEF CrcMatches
    <3>2. f # NoFrame /\ crc.of \in {NoFrame, next} /\ crc.of = f
      BY <2>1, <3>1 DEF FrameUnderWay, Frame, NoFrame
    <3>3. f = next /\ cmd.of = next /\ cmd'.of = next
      BY <2>1, <3>1, <3>2
    <3>4. ASSUME Succeed,
                 \/ ~Loads(next) /\ memory' = memory
                 \/ Loads(next) /\ CopyPayload(program[next].addr)
          PROVE  Turn' /\ Executed'
      <4>1. ReplyUnderWay' /\ Done' = next
        BY <3>4, Answer DEF Succeed, Replies
      <4>2. \/ ~Loads(next) /\ memory' = memory
            \/ /\ Loads(next)
               /\ \A a \in 0..MaxAddr : a \notin Written(next) => memory'[a] = memory[a]
               /\ \A k \in 1..program[next].size :
                     memory'[Word(next, k)] = [of |-> next, at |-> Body + k]
        BY <1>1, <3>1, <3>3, <3>4, CopyLoads
      <4>3. \A g \in 1..next : Loads(g) =>
              \A k \in 1..program[g].size :
                \/ memory'[Word(g, k)] = [of |-> g, at |-> Body + k]
                \/ \E h \in (g + 1)..next : Loads(h) /\ Word(g, k) \in Written(h)
        BY <1>1, <1>3, <4>2, ImageGrows
      <4>4. Image(Done)'
        BY <1>1, <4>1, <4>3 DEF Image, Loads, Written, Word
      <4> QED
        BY <3>3, <4>1, <4>4 DEF Executed, Turn
    <3>5. CASE program[cmd.of].cmd \in {"abort", "jump"} /\ Succeed /\ UNCHANGED memory
      BY <3>3, <3>4, <3>5 DEF Loads
    <3>6. CASE /\ program[cmd.of].cmd = "load" /\ Succeed
               /\ CopyPayload(program[cmd.of].addr)
      BY <3>3, <3>4, <3>6 DEF Loads
    <3>7. CASE Fail("U")
      BY <2>3, <3>7 DEF Replies
    <3> QED
      BY <2>5, <3>5, <3>6, <3>7 DEF Execute
  <2> QED
    BY <1>5, <2>4, <2>5 DEF FrameEnd
<1>6. \/ Complete /\ FrameEnd
      \/ i' = i + 1 /\ UNCHANGED <<phase, failures, memory, replies, early>>
  BY DEF Receive
<1> QED
  BY <1>4, <1>5, <1>6

\* A reply that left early is never forgotten.
LEMMA EarlyStays ==
  ASSUME Next, ~early'
  PROVE  ~early
<1>1. ASSUME NEW r, Reply(r) PROVE ~early
  <2>1. early' = (early \/ line' # <<>>)
    BY <1>1 DEF Reply
  <2> QED
    BY <2>1, Zenon
<1>2. ASSUME NEW b, Receive(b) PROVE ~early
  <2>1. CASE UNCHANGED early
    BY <2>1
  <2>2. CASE FrameEnd
    BY <1>1, <2>2 DEF FrameEnd, Fail, Execute, Succeed
  <2> QED
    BY <1>2, <2>1, <2>2 DEF Receive
<1>3. CASE ReadByte \/ GarbleByte
  BY <1>2, <1>3 DEF ReadByte, GarbleByte
<1>4. CASE FrameTimeout \/ HostPauses
  BY <1>1, <1>4 DEF FrameTimeout, HostPauses, EndByTimer
<1>5. CASE UNCHANGED early
  BY <1>5
<1> QED
  BY <1>3, <1>4, <1>5
  DEF Next, HearKey, AckTimeout, LoseByte, HostSends, HostHears

\* Steps that neither load nor execute leave the image as it is.
LEMMA ExecutedStays ==
  ASSUME Executed, program' = program, memory' = memory, cmd' = cmd, Done' = Done,
         phase' = "jumped" => phase = "jumped"
  PROVE  Executed'
BY DEF Executed, Image, Loads, Written, Word

LEMMA TurnStep ==
  ASSUME TypeOK, FailuresLeft, WaitsForFrame, Turn, Executed, Next, ~early, ~early'
  PROVE  Turn' /\ Executed'
<1>1. /\ program \in Programs /\ i \in Nat /\ line \in Seq(Token)
      /\ next \in 1..(Len(program) + 1) /\ Noise \in Token /\ Len(program) \in Nat
  BY TokenFacts, FrameFacts DEF TypeOK
\* Nothing of the turn is touched.
<1>2. ASSUME UNCHANGED <<hostVars, line, replies, i, crc>>
      PROVE  Turn' /\ Done' = Done
  <2>1. PayloadLen(next)' = PayloadLen(next)
    BY <1>2 DEF PayloadLen, hostVars
  <2>2. Done' = Done
    BY <1>2 DEF Done, hostVars
  <2>3. CASE Idle
    BY <1>2, <2>2, <2>3 DEF Turn, Idle, hostVars
  <2>4. CASE FrameUnderWay
    BY <1>2, <2>1, <2>2, <2>4 DEF Turn, FrameUnderWay, hostVars
  <2>5. CASE ReplyUnderWay
    BY <1>2, <2>2, <2>5 DEF Turn, ReplyUnderWay, hostVars
  <2> QED
    BY <2>3, <2>4, <2>5 DEF Turn
\* A byte arrives or the timer expires only while a frame is under way.
<1>3. line # <<>> \/ i > 0 => FrameUnderWay
  BY <1>1 DEF Turn, Idle, ReplyUnderWay
<1>4. ASSUME line # <<>>
      PROVE  Head(line) \in Token /\ Head(line).of = next
  <2>1. 1 \in 1..Len(line) /\ Head(line) = line[1]
    BY <1>1, <1>4
  <2>2. FrameUnderWay
    BY <1>3, <1>4
  <2> QED
    BY <1>1, <2>1, <2>2, ElementType DEF FrameUnderWay
<1>5. ASSUME NEW c \in Keys, HearKey(c) PROVE Turn' /\ Executed'
  <2>1. /\ UNCHANGED <<hostVars, line, replies, i, crc, cmd, memory>>
        /\ phase' # "jumped"
    BY <1>5 DEF HearKey, frameVars
  <2> QED
    BY <1>2, <2>1, ExecutedStays DEF hostVars
<1>6. CASE AckTimeout
  <2>1. /\ UNCHANGED <<hostVars, line, replies, i, crc, cmd, memory>>
        /\ phase' # "jumped"
    BY <1>6 DEF AckTimeout, frameVars
  <2> QED
    BY <1>2, <2>1, ExecutedStays DEF hostVars
<1>7. CASE ReadByte
  BY <1>3, <1>4, <1>7, ReceiveTurn DEF ReadByte
<1>8. CASE GarbleByte
  <2>1. Noise.of = NoFrame
    BY DEF Noise
  <2> QED
    BY <1>1, <1>3, <1>8, <2>1, ReceiveTurn DEF GarbleByte
<1>9. CASE EndByTimer /\ UNCHANGED hostVars
  <2>1. FrameUnderWay
    BY <1>3, <1>9 DEF EndByTimer
  <2>2. ReplyUnderWay' /\ Done' = Done
    BY <1>9, <2>1, Answer DEF EndByTimer, Replies
  <2>3. Executed'
    BY <1>9, <2>2, ExecutedStays DEF EndByTimer, hostVars
  <2> QED
    BY <2>2, <2>3 DEF Turn
<1>10. CASE FrameTimeout \/ HostPauses
  BY <1>9, <1>10 DEF FrameTimeout, HostPauses, EndByTimer
<1>11. CASE LoseByte
  <2>1. FrameUnderWay
    BY <1>3, <1>11 DEF LoseByte
  <2>2. /\ line # <<>> /\ line' = Tail(line)
        /\ UNCHANGED <<phase, frameVars, memory, replies, hostVars>>
    BY <1>11 DEF LoseByte
  <2>3. /\ Len(line') = Len(line) - 1 /\ Len(line) \in Nat
        /\ \A k \in 1..Len(line') : k + 1 \in 1..Len(line) /\ line'[k] = line[k + 1]
    BY <1>1, <2>2
  <2>4. PayloadLen(next) \in Nat /\ PayloadLen(next)' = PayloadLen(next)
    BY <1>1, <2>1, <2>2, FrameFacts DEF FrameUnderWay, WaitsForFrame, PayloadLen, hostVars
  <2>5. \A k \in 1..Len(line') : line'[k].of = next'
    BY <2>1, <2>2, <2>3 DEF FrameUnderWay, hostVars
  <2>6. i' + Len(line') <= Body + PayloadLen(next)'
    BY <1>1, <2>1, <2>2, <2>3, <2>4 DEF FrameUnderWay, frameVars, Body
  <2>7. FrameUnderWay'
    BY <2>1, <2>2, <2>5, <2>6 DEF FrameUnderWay, frameVars, hostVars
  <2>8. Done' = Done
    BY <2>2 DEF Done, hostVars
  <2> QED
    BY <2>2, <2>7, <2>8, ExecutedStays DEF Turn, frameVars, hostVars
<1>12. CASE HostSends
  <2>1. /\ ~waiting /\ next \in Frame /\ line' = line \o Bytes(next) /\ waiting'
        /\ UNCHANGED <<phase, frameVars, memory, replies, program, next>>
    BY <1>12 DEF HostSends
  <2>2. Idle
    BY <2>1 DEF Turn, FrameUnderWay, ReplyUnderWay
  <2>3. /\ Bytes(next) \in Seq(Token) /\ Len(Bytes(next)) = Body + PayloadLen(next)
        /\ \A k \in 1..Len(Bytes(next)) : Bytes(next)[k].of = next
    BY <1>1, <2>1, BytesFacts
  <2>4. line' = Bytes(next)
    BY <2>1, <2>2, <2>3 DEF Idle
  <2>5. PayloadLen(next)' = PayloadLen(next) /\ PayloadLen(next) \in Nat
    BY <1>1, <2>1, FrameFacts DEF PayloadLen
  <2>6. i' = 0 /\ replies' = <<>>
    BY <2>1, <2>2 DEF Idle, frameVars
  <2>7. FrameUnderWay'
    BY <2>1, <2>3, <2>4, <2>5, <2>6 DEF FrameUnderWay, CrcAt, Body
  <2>8. Done' = Done
    BY <2>1, <2>2, <2>6 DEF Done, Idle
  <2> QED
    BY <2>1, <2>7, <2>8, ExecutedStays DEF Turn, frameVars
<1>13. CASE HostHears
  <2>1. /\ waiting /\ replies # <<>> /\ replies' = Tail(replies) /\ ~waiting'
        /\ next' = IF Head(replies) = "K" THEN next + 1 ELSE next
        /\ UNCHANGED <<phase, frameVars, memory, line, program>>
    BY <1>13 DEF HostHears
  <2>2. ReplyUnderWay
    BY <2>1 DEF Turn, Idle, FrameUnderWay
  <2>3. PICK r \in Replies : replies = <<r>>
    BY <2>2 DEF ReplyUnderWay
  <2>4. replies' = <<>> /\ Head(replies) = r
    BY <2>1, <2>3
  <2>5. Idle'
    BY <2>1, <2>2, <2>4 DEF ReplyUnderWay, Idle, frameVars
  <2>6. replies = <<"K">> <=> r = "K"
    BY <2>3
  <2>7. Done' = Done
    BY <1>1, <2>1, <2>4, <2>6 DEF Done
  <2> QED
    BY <2>1, <2>5, <2>7, ExecutedStays DEF Turn, frameVars
<1> QED
  BY <1>5, <1>6, <1>7, <1>8, <1>10, <1>11, <1>12, <1>13 DEF Next

LEMMA InitTurn == Init => Turn /\ Executed
<1> SUFFICES ASSUME Init PROVE Turn /\ Executed
  OBVIOUS
<1>1. Idle
  BY DEF Init, Idle
<1>2. Done = 0
  BY DEF Init, Done
<1> QED
  BY <1>1, <1>2 DEF Init, Turn, Executed, Image

(***************************************************************************)
(* The receiver's invariant, for every program, every magic, every number  *)
(* of faults and every reading of a garbled length (boot.c:162-299).       *)
(***************************************************************************)
THEOREM ReceiverInvariant == Spec => []IInv
<1>1. Init => IInv
  BY InitType, InitTurn DEF IInv
<1>2. IInv /\ AckTypeOK' /\ [Next]_vars => IInv'
  <2> SUFFICES ASSUME IInv, AckTypeOK', [Next]_vars PROVE IInv'
    OBVIOUS
  <2>1. CASE Next
    <3>1. TypeOK' /\ FailuresLeft' /\ WaitsForFrame'
      BY <2>1, StepType DEF IInv
    <3>2. ~early' => Turn' /\ Executed'
      BY <2>1, EarlyStays, TurnStep DEF IInv
    <3> QED
      BY <3>1, <3>2 DEF IInv
  <2>2. CASE UNCHANGED vars
    <3>1. TypeOK' /\ FailuresLeft' /\ WaitsForFrame'
      BY <2>2, SameTokens
      DEF IInv, TypeOK, FailuresLeft, WaitsForFrame, vars, ackVars, frameVars, hostVars
    <3>2. Turn' = Turn /\ Executed' = Executed
      BY <2>2
      DEF Turn, Idle, FrameUnderWay, ReplyUnderWay, Executed, Done, Image, Loads, Written,
          Word, PayloadLen, vars, ackVars, frameVars, hostVars
    <3> QED
      BY <2>2, <3>1, <3>2 DEF IInv, vars
  <2> QED
    BY <2>1, <2>2
<1>3. AckInv => AckTypeOK
  BY DEF AckInv
<1> QED
  BY <1>1, <1>2, <1>3, MatcherInvariant, PTL DEF Spec

\* Host and board stay in step and no frame of a host in step runs out of the
\* frame buffer (boot.c:191-226): the replies carry no number, and need none.
THEOREM HostInStep == Spec => []InStepInv
<1>1. IInv => InStepInv
  <2> SUFFICES ASSUME IInv, ~early PROVE InStep
    BY DEF IInv, InStepInv, InStep
  <2>1. TypeOK /\ WaitsForFrame /\ Turn /\ program \in Programs
    BY DEF IInv, TypeOK
  <2>2. ~waiting => Idle
    BY <2>1 DEF Turn, FrameUnderWay, ReplyUnderWay
  <2>3. i <= Body + PayloadTop
    <3>1. CASE i = 0
      BY <3>1, Bounds DEF Body
    <3>2. CASE FrameUnderWay
      <4>1. /\ PayloadLen(next) \in Nat /\ PayloadLen(next) <= PayloadTop
            /\ i + Len(line) <= Body + PayloadLen(next)
        BY <2>1, <3>2, FrameFacts, Bounds DEF FrameUnderWay, WaitsForFrame
      <4>2. i \in Nat /\ Len(line) \in Nat
        BY <2>1 DEF TypeOK
      <4> QED
        BY <4>1, <4>2, Bounds DEF Body
    <3> QED
      BY <2>1, <3>1, <3>2 DEF Turn, Idle, ReplyUnderWay
  <2> QED
    BY <2>2, <2>3 DEF InStep, Idle
<1> QED
  BY <1>1, ReceiverInvariant, PTL

\* A jump finds the whole image, whatever was lost, garbled or sent again
\* (boot.c:244-283), as long as no reply left early.
THEOREM JumpFindsImage == Spec => []ImageIntact
<1>1. IInv => ImageIntact
  BY DEF IInv, ImageIntact, Executed
<1> QED
  BY <1>1, ReceiverInvariant, PTL

--------------------------------------------------------------------------------
(***************************************************************************)
(* The sequence of media that serialboot() is the first of.  What boot()   *)
(* enters is in memory as a whole, unless the file was empty: a medium     *)
(* that stops half way gives way to the next before anything is entered.   *)
(* A list is followed element by element; the registers hold what the last *)
(* element of a kind has set.                                              *)
(***************************************************************************)
\* What is in memory at an address, if it is to be entered.
Whole(addr) ==
  /\ ram[addr] \in {"old", "partial"} => addr \in hollow
  /\ addr \in hollow => Current \notin {"net", "flash"}

\* boot() is the end of the search.
NotYet == stage # "booted" => entry.by = "nobody"

\* An image without an address of the list is the one to enter.
ImageWhole == stage = "json" /\ imageFound /\ ~addrFound => Whole(bootAddr)

\* How many elements of the list have been handled.
Handled == Len(given) - Len(todo)
Rest    == Len(todo) <= Len(given) /\ \A k \in 1..Len(todo) : todo[k] = given[Handled + k]

\* The last element of a kind among the first n, and what it sets.
Is(kind, k)   == Kind(given[k].name) = kind
Has(kind, n)  == \E k \in 1..n : Is(kind, k)
Latest(kind, n, v) ==
  \/ ~Has(kind, n) /\ v = 0
  \/ \E k \in 1..n : /\ Is(kind, k) /\ given[k].value = v
                     /\ \A j \in 1..n : j > k => ~Is(kind, j)
Registers(n) == Latest("r1", n, r1) /\ Latest("r2", n, r2) /\ Latest("r3", n, r3)
Address(n) ==
  /\ addrFound <=> Has("addr", n)
  /\ imageFound <=> Has("image", n)
  /\ IF addrFound THEN Latest("addr", n, bootAddr) ELSE Latest("image", n, bootAddr)
Images(n) ==
  \A k \in 1..n : Is("image", k)
                  /\ (\A j \in 1..n : Is("image", j) /\ j > k => given[j].value # given[k].value)
                  => ram[given[k].value] = given[k].name \/ given[k].value \in hollow
Honours(n) == Registers(n) /\ Address(n) /\ Images(n)

ListInv == /\ stage = "json" => Rest /\ Honours(Handled)
           /\ entry.by = "json" => /\ stage = "booted" /\ Honours(Len(given))
                                   /\ entry.args = <<r1, r2, r3>> /\ entry.addr = bootAddr
                                   /\ imageFound
LEMMA ListFacts ==
  ASSUME BootTypeOK
  PROVE  /\ todo \in Seq(Element) /\ given \in Seq(Element)
         /\ todo # <<>> => /\ Head(todo).name \in Names /\ Head(todo).value \in Values
                           /\ Tail(todo) \in Seq(Element)
<1>1. todo \in Seq(Element) /\ given \in Seq(Element)
  BY DEF BootTypeOK
<1>2. todo # <<>> => Head(todo) \in Element /\ Tail(todo) \in Seq(Element)
  BY <1>1
<1>3. QED
  BY <1>1, <1>2 DEF Element

\* A command of the console names a medium that there is.
Named == command # "none" => medium \in DOMAIN media

LEMMA MediumFacts ==
  ASSUME BootTypeOK
  PROVE  /\ media \in Builds /\ Len(media) \in Nat /\ DOMAIN media = 1..Len(media)
         /\ medium \in Nat
         /\ medium \in DOMAIN media => medium + 1 \in 1..(Len(media) + 1)
<1>1. media \in Seq({"serial", "flash", "rom"} \cup FileMedia)
  BY BootAssumption DEF BootTypeOK
<1>2. Len(media) \in Nat /\ DOMAIN media = 1..Len(media)
  BY <1>1
<1>3. QED
  BY <1>2 DEF BootTypeOK

\* What a medium that gives up leaves behind.
LEMMA GiveUpType ==
  ASSUME BootTypeOK, Named, medium \in DOMAIN media, GiveUp, media' = media
  PROVE  /\ stage' \in {"console", "try"} /\ medium' \in 1..(Len(media') + 1)
         /\ command' = "none" /\ entry' = entry
BY MediumFacts DEF GiveUp, BootTypeOK

LEMMA AfterJsonType ==
  ASSUME BootTypeOK, Named, medium \in DOMAIN media, Current \in FileMedia, AfterJson, media' = media
  PROVE  /\ stage' \in {"console", "try", "bin"} /\ medium' \in 1..(Len(media') + 1)
         /\ stage' = "bin" => medium' \in DOMAIN media' /\ Current' \in FileMedia
         /\ command' \in {"none", "medium", "file"}
         /\ stage' = "console" => command' = "none"
         /\ Named' /\ entry' = entry
<1>1. CASE command = "file"
  BY <1>1, GiveUpType DEF AfterJson, Named
<1>2. CASE command # "file"
  BY <1>2, MediumFacts DEF AfterJson, Named, BootTypeOK, Current
<1>3. QED
  BY <1>1, <1>2

EntryType ==
  /\ entry.by \in {"nobody", "serial", "flash", "rom", "json", "bin", "user"}
  /\ {entry.args, entry.asked} \subseteq Values \X Values \X Values
  /\ entry.addr \in Values \cup {RomAddress}

LEMMA NothingType == Nothing \in Values \X Values \X Values
BY BootAssumption DEF Nothing

LEMMA BootTypes ==
  ASSUME BootTypeOK, Named, EntryType, [BootNext]_bootVars
  PROVE  BootTypeOK' /\ Named'
<1> USE NothingType
<1>0. CASE UNCHANGED bootVars
  BY <1>0 DEF bootVars, jsonVars, memVars, BootTypeOK, Named, Current
<1>1. CASE Serial
  <2>1. /\ medium \in DOMAIN media /\ Current = "serial" /\ media' = media
        /\ UNCHANGED jsonVars /\ UNCHANGED memVars
    BY <1>1 DEF Serial, Trying
  <2>2. CASE stage' = "serial" /\ UNCHANGED <<medium, command, entry>>
    BY <2>1, <2>2 DEF jsonVars, memVars, BootTypeOK, Named, Current, Stages
  <2>3. CASE GiveUp
    BY <2>1, <2>3, GiveUpType DEF jsonVars, memVars, BootTypeOK, Named, Stages
  <2>4. CASE stage' = "console" /\ command' = "none" /\ UNCHANGED <<medium, entry>>
    BY <2>1, <2>4 DEF jsonVars, memVars, BootTypeOK, Named, Stages
  <2>5. QED
    BY <1>1, <2>2, <2>3, <2>4 DEF Serial
<1>11. CASE SerialLoads
  <2>1. ram' \in [Values -> Contents]
    BY <1>11 DEF SerialLoads, BootTypeOK, Contents
  <2>2. QED
    BY <1>11, <2>1 DEF SerialLoads, jsonVars, BootTypeOK, Named, Current
<1>12. CASE SerialJumps
  <2>1. PICK v \in Values : BootAs("serial", Nothing, v, Nothing)
    BY <1>12 DEF SerialJumps, Boot
  <2>2. stage' = "booted" /\ EntryType'
    BY <2>1 DEF BootAs, EntryType
  <2>3. QED
    BY <1>12, <2>2 DEF SerialJumps, jsonVars, memVars, BootTypeOK, Named, EntryType, Stages
<1>13. CASE SerialLeaves
  <2>1. medium \in DOMAIN media /\ media' = media /\ UNCHANGED jsonVars /\ UNCHANGED memVars
    BY <1>13 DEF SerialLeaves, BootTypeOK
  <2>2. QED
    BY <1>13, <2>1, GiveUpType DEF SerialLeaves, jsonVars, memVars, BootTypeOK, Named, Stages
<1>2. CASE Flash
  <2>1. /\ medium \in DOMAIN media /\ media' = media /\ UNCHANGED jsonVars
        /\ ram' \in [Values -> Contents] /\ hollow' \subseteq Values
    BY <1>2, BootAssumption DEF Flash, Trying, memVars, BootTypeOK, Contents
  <2>2. CASE Boot("flash", Nothing, MainRam) /\ UNCHANGED <<medium, command>>
    <3>1. stage' = "booted" /\ EntryType'
      BY <2>2, BootAssumption DEF Boot, BootAs, EntryType
    <3>2. QED
      BY <2>1, <2>2, <3>1 DEF jsonVars, BootTypeOK, Named, EntryType, Stages
  <2>3. CASE GiveUp
    BY <2>1, <2>3, GiveUpType DEF jsonVars, BootTypeOK, Named, Stages
  <2>4. QED
    BY <1>2, <2>2, <2>3 DEF Flash
<1>3. CASE Rom
  <2>1. stage' = "booted" /\ EntryType'
    BY <1>3 DEF Rom, Boot, BootAs, EntryType
  <2>2. QED
    BY <1>3, <2>1 DEF Rom, jsonVars, memVars, BootTypeOK, Named, EntryType, Stages
<1>4. CASE ReadJson
  <2>1. /\ medium \in DOMAIN media /\ Current \in FileMedia /\ media' = media
        /\ ram' = ram /\ hollow' = hollow
    BY <1>4 DEF ReadJson, memVars
  <2>2. CASE AfterJson /\ UNCHANGED jsonVars
    BY <2>1, <2>2, AfterJsonType DEF jsonVars, BootTypeOK, Stages
  <2>3. CASE /\ \E l \in Lists : todo' = l /\ given' = l
             /\ r1' = 0 /\ r2' = 0 /\ r3' = 0 /\ bootAddr' = 0
             /\ imageFound' = FALSE /\ addrFound' = FALSE
             /\ stage' = "json"
             /\ UNCHANGED <<medium, command, entry>>
    <3>1. todo' \in Seq(Element) /\ given' \in Seq(Element)
      BY <2>3, BootAssumption
    <3>2. 0 \in Values
      BY BootAssumption
    <3>3. QED
      BY <2>1, <2>3, <3>1, <3>2 DEF BootTypeOK, Named, Stages, Current
  <2>4. QED
    BY <1>4, <2>2, <2>3 DEF ReadJson
<1>5. CASE JsonElement
  <2> DEFINE e == Head(todo)
  <2>1. /\ stage = "json" /\ medium \in DOMAIN media /\ Current \in FileMedia /\ media' = media
        /\ e.name \in Names /\ e.value \in Values /\ Tail(todo) \in Seq(Element)
    BY <1>5, ListFacts DEF JsonElement, BootTypeOK
  <2> HIDE DEF e
  <2>2. CASE Kind(e.name) # "image" /\ Setting(e.name, e.value)
    <3>1. /\ {r1', r2', r3', bootAddr'} \subseteq Values /\ addrFound' \in BOOLEAN
      BY <2>1, <2>2, BootAssumption DEF Setting, BootTypeOK, Kinds
    <3>2. QED
      BY <2>1, <2>2, <3>1 DEF Setting, Unset, memVars, BootTypeOK, Named, Current
  <2>3. CASE ImageFile(e.name, e.value)
    <3>1. /\ todo' = Tail(todo) /\ UNCHANGED <<r1, r2, r3, addrFound, given>>
          /\ imageFound' \in BOOLEAN /\ bootAddr' \in Values
      BY <2>1, <2>3 DEF ImageFile, Unset, BootTypeOK
    <3>2. ram' \in [Values -> Contents] /\ hollow' \subseteq Values
      BY <2>1, <2>3 DEF ImageFile, Copied, NotCopied, BootTypeOK, Contents
    <3>3. CASE Unset
      BY <2>1, <3>1, <3>2, <3>3 DEF Unset, BootTypeOK, Named, Current
    <3>4. CASE AfterJson
      BY <2>1, <3>1, <3>2, <3>4, AfterJsonType DEF BootTypeOK, Stages
    <3>5. QED
      BY <2>3, <3>3, <3>4 DEF ImageFile
  <2>4. QED
    BY <1>5, <2>2, <2>3 DEF JsonElement, e
<1>6. CASE JsonEnd
  <2>1. /\ medium \in DOMAIN media /\ Current \in FileMedia /\ media' = media
        /\ ram' = ram /\ hollow' = hollow /\ UNCHANGED jsonVars
    BY <1>6 DEF JsonEnd, memVars, BootTypeOK
  <2>2. CASE Boot("json", <<r1, r2, r3>>, bootAddr) /\ UNCHANGED <<medium, command>>
    <3>1. stage' = "booted" /\ EntryType'
      BY <2>2 DEF Boot, BootAs, EntryType, BootTypeOK
    <3>2. QED
      BY <2>1, <2>2, <3>1 DEF jsonVars, BootTypeOK, Named, EntryType, Stages
  <2>3. CASE AfterJson
    BY <2>1, <2>3, AfterJsonType DEF jsonVars, BootTypeOK, Stages
  <2>4. QED
    BY <1>6, <2>2, <2>3 DEF JsonEnd
<1>7. CASE BootBin
  <2>1. medium \in DOMAIN media /\ media' = media /\ UNCHANGED jsonVars
    BY <1>7 DEF BootBin, BootTypeOK
  <2>2. ram' \in [Values -> Contents] /\ hollow' \subseteq Values
    BY <1>7, BootAssumption DEF BootBin, Copied, NotCopied, BootTypeOK, Contents
  <2>3. CASE Boot("bin", Nothing, MainRam) /\ UNCHANGED <<medium, command>>
    <3>1. stage' = "booted" /\ EntryType'
      BY <2>3, BootAssumption DEF Boot, BootAs, EntryType
    <3>2. QED
      BY <2>1, <2>2, <2>3, <3>1 DEF jsonVars, BootTypeOK, Named, EntryType, Stages
  <2>4. CASE GiveUp
    BY <2>1, <2>2, <2>4, GiveUpType DEF jsonVars, BootTypeOK, Named, Stages
  <2>5. QED
    BY <1>7, <2>3, <2>4 DEF BootBin
<1>8. CASE NoMedium
  BY <1>8, MediumFacts DEF NoMedium, jsonVars, memVars, BootTypeOK, Named, Stages
<1>9. CASE UserBoots
  <2>1. PICK addr \in Values, typed \in Values \X Values \X Values, n \in 0..3 :
          BootHandler(addr, typed, n)
    BY <1>9 DEF UserBoots
  <2>2. stage' = "booted" /\ EntryType'
    BY <2>1, BootAssumption DEF BootHandler, BootAs, EntryType
  <2>3. QED
    BY <1>9, <2>2 DEF UserBoots, jsonVars, memVars, BootTypeOK, Named, EntryType, Stages
<1>10. CASE UserTries
  BY <1>10, MediumFacts DEF UserTries, jsonVars, memVars, BootTypeOK, Named, Stages
<1>14. QED
  BY <1>0, <1>1, <1>2, <1>3, <1>4, <1>5, <1>6, <1>7, <1>8, <1>9, <1>10, <1>11, <1>12,
     <1>13 DEF BootNext, Search, SerialHost

LEMMA ContentsDiffer ==
  \A n \in Names : n \notin {"old", "partial", "boot.bin", "flash"}
BY BootAssumption

\* What GiveUp and AfterJson lead to is not a list and not the end.
LEMMA GiveUpSearches ==
  ASSUME GiveUp \/ AfterJson
  PROVE  stage' \notin {"json", "booted"} /\ entry' = entry
BY DEF GiveUp, AfterJson

LEMMA EntryStep ==
  ASSUME BootTypeOK, NotYet, ImageWhole, EntryIsLoaded, [BootNext]_bootVars
  PROVE  NotYet' /\ ImageWhole' /\ EntryIsLoaded'
<1>0. CASE UNCHANGED bootVars
  BY <1>0 DEF bootVars, jsonVars, memVars, NotYet, ImageWhole, EntryIsLoaded, Whole, Current
<1>1. ASSUME stage # "booted", stage' \notin {"json", "booted"}, entry' = entry
      PROVE  NotYet' /\ ImageWhole' /\ EntryIsLoaded'
  BY <1>1 DEF NotYet, ImageWhole, EntryIsLoaded
<1>2. CASE Serial \/ SerialLeaves
  BY <1>1, <1>2, GiveUpSearches DEF Serial, SerialLeaves, Trying
<1>13. CASE SerialLoads
  BY <1>1, <1>13 DEF SerialLoads
<1>14. CASE SerialJumps
  BY <1>14 DEF SerialJumps, Boot, BootAs, NotYet, ImageWhole, EntryIsLoaded
<1>3. CASE Flash
  <2>1. CASE /\ Boot("flash", Nothing, MainRam) /\ medium' = medium
             /\ ram' = [ram EXCEPT ![MainRam] = "flash"] /\ hollow' = hollow \ {MainRam}
    <3>1. /\ ram'[MainRam] = "flash" /\ MainRam \notin hollow'
          /\ entry'.addr = MainRam /\ stage' = "booted"
      BY <1>3, <2>1, BootAssumption DEF Flash, Trying, Current, Boot, BootAs, BootTypeOK
    <3>2. QED
      BY <3>1 DEF NotYet, ImageWhole, EntryIsLoaded
  <2>2. CASE GiveUp
    BY <1>1, <1>3, <2>2, GiveUpSearches DEF Flash, Trying
  <2>3. QED
    BY <1>3, <2>1, <2>2 DEF Flash
<1>4. CASE Rom
  BY <1>4 DEF Rom, Boot, BootAs, NotYet, ImageWhole, EntryIsLoaded
<1>5. CASE ReadJson
  <2>1. CASE AfterJson
    BY <1>1, <1>5, <2>1, GiveUpSearches DEF ReadJson
  <2>2. CASE stage' = "json" /\ imageFound' = FALSE /\ entry' = entry
    BY <1>5, <2>2 DEF ReadJson, NotYet, ImageWhole, EntryIsLoaded
  <2>3. QED
    BY <1>5, <2>1, <2>2 DEF ReadJson
<1>6. CASE JsonElement
  <2> DEFINE e == Head(todo)
  <2>1. /\ stage = "json" /\ media' = media
        /\ e.name \in Names /\ e.value \in Values
    BY <1>6, ListFacts DEF JsonElement, BootTypeOK
  <2> HIDE DEF e
  <2>2. CASE Kind(e.name) # "image" /\ Setting(e.name, e.value)
    <3>1. /\ UNCHANGED <<imageFound, ram, hollow, medium, entry, stage>>
          /\ ~addrFound' => ~addrFound /\ bootAddr' = bootAddr
      BY <2>1, <2>2, BootAssumption DEF Setting, Unset, memVars, BootTypeOK, Kinds
    <3>2. Whole(bootAddr) => (~addrFound' => Whole(bootAddr)')
      BY <2>1, <3>1 DEF Whole, Current
    <3>3. QED
      BY <2>1, <3>1, <3>2 DEF NotYet, ImageWhole, EntryIsLoaded
  <2>3. CASE ImageFile(e.name, e.value)
    <3>1. CASE Copied(e.name, e.value) /\ bootAddr' = (IF addrFound THEN bootAddr ELSE e.value) /\ Unset
      <4>1. /\ ram'[e.value] \in {"old", "partial"} => e.value \in hollow'
            /\ e.value \in hollow' => Current' \notin {"net", "flash"}
        BY <2>1, <3>1, ContentsDiffer, BootAssumption DEF Copied, Unset, Current, BootTypeOK
      <4>2. addrFound' = addrFound
        BY <2>3 DEF ImageFile
      <4>3. QED
        BY <2>1, <3>1, <4>1, <4>2 DEF Unset, NotYet, ImageWhole, EntryIsLoaded, Whole
    <3>2. CASE AfterJson
      BY <1>1, <2>1, <3>2, GiveUpSearches
    <3>3. QED
      BY <2>3, <3>1, <3>2 DEF ImageFile
  <2>4. QED
    BY <1>6, <2>2, <2>3 DEF JsonElement, e
<1>7. CASE JsonEnd
  <2>1. CASE imageFound /\ Boot("json", <<r1, r2, r3>>, bootAddr) /\ medium' = medium
    <3>1. stage = "json" /\ UNCHANGED <<media, ram, hollow, bootAddr, addrFound>>
      BY <1>7 DEF JsonEnd, jsonVars, memVars
    <3>2. stage' = "booted" /\ entry'.addr = bootAddr /\ entry'.by = "json"
      BY <2>1 DEF Boot, BootAs
    <3>3. ~addrFound' => Whole(bootAddr)'
      BY <2>1, <3>1 DEF ImageWhole, Whole, Current
    <3>4. QED
      BY <3>1, <3>2, <3>3 DEF NotYet, ImageWhole, EntryIsLoaded, Whole
  <2>2. CASE AfterJson
    BY <1>1, <1>7, <2>2, GiveUpSearches DEF JsonEnd
  <2>3. QED
    BY <1>7, <2>1, <2>2 DEF JsonEnd
<1>8. CASE BootBin
  <2>1. CASE Copied("boot.bin", MainRam) /\ Boot("bin", Nothing, MainRam) /\ medium' = medium
    <3>1. /\ ram'[MainRam] \in {"old", "partial"} => MainRam \in hollow'
          /\ MainRam \in hollow' => Current' \notin {"net", "flash"}
      BY <1>8, <2>1, BootAssumption DEF BootBin, Copied, Current, BootTypeOK
    <3>2. stage' = "booted" /\ entry'.addr = MainRam
      BY <2>1 DEF Boot, BootAs
    <3>3. QED
      BY <3>1, <3>2 DEF NotYet, ImageWhole, EntryIsLoaded
  <2>2. CASE GiveUp
    BY <1>1, <1>8, <2>2, GiveUpSearches DEF BootBin
  <2>3. QED
    BY <1>8, <2>1, <2>2 DEF BootBin
<1>9. CASE NoMedium
  BY <1>1, <1>9 DEF NoMedium
<1>10. CASE UserBoots
  BY <1>10 DEF UserBoots, BootHandler, BootAs, NotYet, ImageWhole, EntryIsLoaded
<1>11. CASE UserTries
  BY <1>1, <1>11 DEF UserTries
<1>15. QED
  BY <1>0, <1>2, <1>3, <1>4, <1>5, <1>6, <1>7, <1>8, <1>9, <1>10, <1>11, <1>13, <1>14
  DEF BootNext, Search, SerialHost

\* One more element: it is the last of its kind, and the other kinds keep theirs.
LEMMA LatestGrows ==
  ASSUME NEW n \in Nat, NEW kind, NEW v
  PROVE  /\ Has(kind, n + 1) <=> Has(kind, n) \/ Is(kind, n + 1)
         /\ Is(kind, n + 1) => Latest(kind, n + 1, given[n + 1].value)
         /\ ~Is(kind, n + 1) /\ Latest(kind, n, v) => Latest(kind, n + 1, v)
<1>1. 1..(n + 1) = 1..n \cup {n + 1} /\ n + 1 \notin 1..n /\ \A k \in 1..n : k \in Nat /\ k <= n
  OBVIOUS
<1>2. Has(kind, n + 1) <=> Has(kind, n) \/ Is(kind, n + 1)
  BY <1>1 DEF Has
<1>3. ASSUME Is(kind, n + 1) PROVE Latest(kind, n + 1, given[n + 1].value)
  BY <1>1, <1>3 DEF Latest
<1>4. ASSUME ~Is(kind, n + 1), Latest(kind, n, v) PROVE Latest(kind, n + 1, v)
  <2>1. CASE ~Has(kind, n) /\ v = 0
    BY <1>2, <1>4, <2>1 DEF Latest
  <2>2. CASE \E k \in 1..n : /\ Is(kind, k) /\ given[k].value = v
                             /\ \A j \in 1..n : j > k => ~Is(kind, j)
    BY <1>1, <1>4, <2>2 DEF Latest
  <2>3. QED
    BY <1>4, <2>1, <2>2 DEF Latest
<1>5. QED
  BY <1>2, <1>3, <1>4

\* What has been handled depends on the list, the registers and the memory only.
LEMMA HonoursSame ==
  ASSUME NEW n \in Nat, Honours(n), UNCHANGED <<given, r1, r2, r3, bootAddr, addrFound, imageFound, ram, hollow>>
  PROVE  Honours(n)'
BY DEF Honours, Registers, Address, Images, Latest, Has, Is

LEMMA NextElement ==
  ASSUME BootTypeOK, todo # <<>>, Rest, todo' = Tail(todo), given' = given
  PROVE  /\ Handled \in Nat /\ Handled' = Handled + 1 /\ Handled + 1 <= Len(given)
         /\ given[Handled + 1] = Head(todo) /\ Rest'
<1>1. /\ Len(todo) \in Nat /\ Len(given) \in Nat /\ Len(todo) >= 1 /\ Len(Tail(todo)) = Len(todo) - 1
      /\ \A k \in 1..Len(Tail(todo)) : Tail(todo)[k] = todo[k + 1]
      /\ Head(todo) = todo[1]
  BY ListFacts
<1>2. Handled \in Nat /\ Handled' = Handled + 1 /\ Handled + 1 <= Len(given)
  BY <1>1 DEF Handled, Rest
<1>3. given[Handled + 1] = Head(todo)
  BY <1>1 DEF Rest
<1>4. ASSUME NEW k \in 1..Len(Tail(todo)) PROVE Tail(todo)[k] = given[Handled + 1 + k]
  <2>1. k + 1 \in 1..Len(todo) /\ Handled + (k + 1) = Handled + 1 + k
    BY <1>1, <1>2
  <2>2. QED
    BY <1>1, <2>1 DEF Rest
<1>5. Rest'
  <2>1. Len(todo') <= Len(given')
    BY <1>1 DEF Rest
  <2>2. ASSUME NEW k \in 1..Len(todo') PROVE todo'[k] = given'[Handled' + k]
    BY <1>2, <1>4
  <2>3. QED
    BY <2>1, <2>2 DEF Rest
<1>6. QED
  BY <1>2, <1>3, <1>5

LEMMA SettingHonours ==
  ASSUME BootTypeOK, NEW n \in Nat, Honours(n), given' = given, n + 1 <= Len(given),
         NEW e, e = given[n + 1], e.name \in Names, e.value \in Values,
         Kind(e.name) # "image", Setting(e.name, e.value)
  PROVE  Honours(n + 1)'
<1>1. /\ Kind(e.name) \in {"bootargs", "addr", "r1", "r2", "r3"}
      /\ \A kind : Is(kind, n + 1) <=> Kind(e.name) = kind
      /\ given[n + 1].value = e.value
  BY BootAssumption DEF Kinds, Is
<1>2. /\ imageFound' = imageFound /\ ram' = ram /\ hollow' = hollow
      /\ r1' = IF Is("r1", n + 1) THEN e.value ELSE r1
      /\ r2' = IF Is("r2", n + 1) THEN e.value ELSE r2
      /\ r3' = IF Is("r3", n + 1) THEN e.value ELSE r3
      /\ bootAddr' = IF Is("addr", n + 1) THEN e.value ELSE bootAddr
      /\ addrFound' <=> addrFound \/ Is("addr", n + 1)
  <2>1. CASE Kind(e.name) = "bootargs"
    BY <1>1, <2>1 DEF Setting, memVars
  <2>2. CASE Kind(e.name) = "addr"
    BY <1>1, <2>2 DEF Setting, memVars
  <2>3. CASE Kind(e.name) = "r1"
    BY <1>1, <2>3 DEF Setting, memVars
  <2>4. CASE Kind(e.name) = "r2"
    BY <1>1, <2>4 DEF Setting, memVars
  <2>5. CASE Kind(e.name) = "r3"
    BY <1>1, <2>5 DEF Setting, memVars
  <2>6. QED
    BY <1>1, <2>1, <2>2, <2>3, <2>4, <2>5
<1>3. /\ Latest("r1", n + 1, r1') /\ Latest("r2", n + 1, r2') /\ Latest("r3", n + 1, r3')
  BY <1>1, <1>2, LatestGrows DEF Honours, Registers
<1>4. /\ addrFound' <=> Has("addr", n + 1)
      /\ imageFound' <=> Has("image", n + 1)
      /\ IF addrFound' THEN Latest("addr", n + 1, bootAddr') ELSE Latest("image", n + 1, bootAddr')
  <2>1. ~Is("image", n + 1)
    BY <1>1
  <2>2. /\ addrFound <=> Has("addr", n)
        /\ imageFound <=> Has("image", n)
        /\ IF addrFound THEN Latest("addr", n, bootAddr) ELSE Latest("image", n, bootAddr)
    BY DEF Honours, Address
  <2>3. (addrFound' <=> Has("addr", n + 1)) /\ (imageFound' <=> Has("image", n + 1))
    BY <1>2, <2>1, <2>2, LatestGrows
  <2>4. CASE Is("addr", n + 1)
    BY <1>1, <1>2, <2>3, <2>4, LatestGrows
  <2>5. CASE ~Is("addr", n + 1)
    BY <1>2, <2>1, <2>2, <2>3, <2>5, LatestGrows
  <2>6. QED
    BY <2>4, <2>5
<1>5. /\ \A kind, m, v : Latest(kind, m, v) <=> Latest(kind, m, v)'
      /\ \A kind, m : Has(kind, m) <=> Has(kind, m)'
  BY DEF Latest, Has, Is
<1>6. Registers(n + 1)'
  BY <1>3, <1>5 DEF Registers
<1>7. Address(n + 1)'
  BY <1>4, <1>5 DEF Address
<1>8. Images(n + 1)'
  <2>1. Images(n)
    BY DEF Honours
  <2>2. ~Is("image", n + 1)
    BY <1>1
  <2>3. Images(n + 1)
    BY <2>1, <2>2 DEF Images
  <2>4. QED
    BY <1>2, <2>3 DEF Images, Is
<1>9. QED
  BY <1>6, <1>7, <1>8 DEF Honours

\* Images are copied whole or end the list.
LEMMA ImageHonours ==
  ASSUME BootTypeOK, NEW n \in Nat, Honours(n), given' = given, n + 1 <= Len(given),
         NEW e, e = given[n + 1], e.name \in Names, e.value \in Values,
         Kind(e.name) = "image", ImageFile(e.name, e.value), Unset, imageFound' = TRUE,
         Copied(e.name, e.value), bootAddr' = IF addrFound THEN bootAddr ELSE e.value
  PROVE  Honours(n + 1)'
<1>1. \A kind : Is(kind, n + 1) <=> kind = "image"
  BY DEF Is
<1>2. UNCHANGED <<r1, r2, r3, addrFound>>
  BY DEF ImageFile
<1>3. /\ Latest("r1", n + 1, r1') /\ Latest("r2", n + 1, r2') /\ Latest("r3", n + 1, r3')
  BY <1>1, <1>2, LatestGrows DEF Honours, Registers
<1>4. /\ addrFound' <=> Has("addr", n + 1)
      /\ imageFound' <=> Has("image", n + 1)
      /\ IF addrFound' THEN Latest("addr", n + 1, bootAddr') ELSE Latest("image", n + 1, bootAddr')
  <2>1. /\ addrFound <=> Has("addr", n)
        /\ IF addrFound THEN Latest("addr", n, bootAddr) ELSE Latest("image", n, bootAddr)
    BY DEF Honours, Address
  <2>2. (addrFound' <=> Has("addr", n + 1)) /\ Has("image", n + 1)
    <3>1. ~Is("addr", n + 1) /\ Is("image", n + 1) /\ addrFound' = addrFound
      BY <1>1, <1>2
    <3>2. QED
      BY <2>1, <3>1, LatestGrows
  <2>3. CASE addrFound
    BY <1>1, <1>2, <2>1, <2>2, <2>3, LatestGrows
  <2>4. CASE ~addrFound
    BY <1>1, <1>2, <2>1, <2>2, <2>4, LatestGrows
  <2>5. QED
    BY <2>3, <2>4
<1>5. /\ \A kind, m, v : Latest(kind, m, v) <=> Latest(kind, m, v)'
      /\ \A kind, m : Has(kind, m) <=> Has(kind, m)'
  BY DEF Latest, Has, Is
<1>6. Registers(n + 1)'
  BY <1>3, <1>5 DEF Registers
<1>7. Address(n + 1)'
  BY <1>4, <1>5 DEF Address
<1>8. Images(n + 1)'
  <2>1. /\ ram'[e.value] = e.name \/ e.value \in hollow'
        /\ \A a \in Values : a # e.value => ram'[a] = ram[a] /\ (a \in hollow' <=> a \in hollow)
    BY DEF Copied, BootTypeOK
  <2>2. \A k \in 1..Len(given) : given[k].value \in Values
    <3>1. \A k \in 1..Len(given) : given[k] \in Element
      BY ListFacts
    <3>2. QED
      BY <3>1 DEF Element
  <2>3. ASSUME NEW k \in 1..(n + 1), Is("image", k),
               \A j \in 1..(n + 1) : Is("image", j) /\ j > k => given[j].value # given[k].value
        PROVE  ram'[given[k].value] = given[k].name \/ given[k].value \in hollow'
    <3>1. CASE k = n + 1
      BY <2>1, <3>1
    <3>2. CASE k # n + 1
      <4>1. k \in 1..n /\ k < n + 1 /\ n + 1 \in 1..(n + 1) /\ k \in 1..Len(given)
        BY <3>2, ListFacts
      <4>2. given[k].value # e.value
        BY <1>1, <2>3, <4>1
      <4>3. ram[given[k].value] = given[k].name \/ given[k].value \in hollow
        BY <2>3, <4>1 DEF Honours, Images
      <4>4. QED
        BY <2>1, <2>2, <4>1, <4>2, <4>3
    <3>3. QED
      BY <3>1, <3>2
  <2>4. QED
    BY <2>3 DEF Images, Is
<1>9. QED
  BY <1>6, <1>7, <1>8 DEF Honours

LEMMA ListStep ==
  ASSUME BootTypeOK, NotYet, ListInv, [BootNext]_bootVars
  PROVE  ListInv'
<1>0. CASE UNCHANGED bootVars
  <2>1. Len(given) \in Nat /\ Len(todo) \in Nat
    BY ListFacts
  <2>2. UNCHANGED <<todo, given, r1, r2, r3, bootAddr, addrFound, imageFound, ram, hollow, stage, entry>>
    BY <1>0 DEF bootVars, jsonVars, memVars
  <2>3. QED
    BY <2>1, <2>2 DEF ListInv, Rest, Handled, Honours, Registers, Address, Images, Latest, Has, Is
<1>1. ASSUME stage # "booted", stage' \notin {"json", "booted"}, entry' = entry
      PROVE  ListInv'
  BY <1>1 DEF NotYet, ListInv
<1>2. ASSUME stage' = "booted", entry'.by # "json"
      PROVE  ListInv'
  BY <1>2 DEF ListInv
<1>3. CASE Serial \/ SerialHost
  BY <1>1, <1>2, <1>3, GiveUpSearches DEF Serial, SerialHost, SerialLoads, SerialJumps,
     SerialLeaves, Trying, Boot, BootAs
<1>4. CASE Flash
  BY <1>1, <1>2, <1>4, GiveUpSearches DEF Flash, Trying, Boot, BootAs
<1>5. CASE Rom
  BY <1>2, <1>5 DEF Rom, Boot, BootAs
<1>6. CASE ReadJson
  <2>1. CASE AfterJson
    BY <1>1, <1>6, <2>1, GiveUpSearches DEF ReadJson
  <2>2. CASE /\ \E l \in Lists : todo' = l /\ given' = l
             /\ r1' = 0 /\ r2' = 0 /\ r3' = 0 /\ bootAddr' = 0
             /\ imageFound' = FALSE /\ addrFound' = FALSE
             /\ stage' = "json" /\ entry' = entry
    <3>1. todo' = given' /\ Len(given') \in Nat
      BY <2>2, BootAssumption
    <3>2. Rest' /\ Handled' = 0
      BY <3>1 DEF Rest, Handled
    <3>3. Honours(0)'
      BY <2>2 DEF Honours, Registers, Address, Images, Latest, Has
    <3>4. stage # "booted"
      BY <1>6 DEF ReadJson
    <3>5. QED
      BY <2>2, <3>2, <3>3, <3>4 DEF ListInv, NotYet
  <2>3. QED
    BY <1>6, <2>1, <2>2 DEF ReadJson
<1>7. CASE JsonElement
  <2> DEFINE e == Head(todo)
  <2>1. /\ stage = "json" /\ todo # <<>> /\ media' = media
        /\ e.name \in Names /\ e.value \in Values /\ entry.by = "nobody"
    BY <1>7, ListFacts DEF JsonElement, NotYet
  <2>2. Rest /\ Honours(Handled)
    BY <2>1 DEF ListInv
  <2>3. CASE AfterJson
    BY <1>1, <2>1, <2>3, GiveUpSearches
  <2>4. CASE ~AfterJson
    <3>1. todo' = Tail(todo) /\ given' = given /\ stage' = "json" /\ entry' = entry /\ Unset
      BY <1>7, <2>1, <2>4 DEF JsonElement, Setting, ImageFile, Unset
    <3>2. /\ Handled \in Nat /\ Handled' = Handled + 1 /\ Handled + 1 <= Len(given)
          /\ given[Handled + 1] = e /\ Rest'
      BY <2>1, <2>2, <3>1, NextElement
    <3>3. PICK n \in Nat : n = Handled
      BY <3>2
    <3> HIDE DEF e
    <3>4. Honours(n + 1)'
      <4>1. CASE Kind(e.name) # "image" /\ Setting(e.name, e.value)
        BY <2>1, <2>2, <3>1, <3>2, <3>3, <4>1, SettingHonours
      <4>2. CASE Kind(e.name) = "image" /\ ImageFile(e.name, e.value)
        <5>1. /\ Copied(e.name, e.value) /\ imageFound' = TRUE
              /\ bootAddr' = IF addrFound THEN bootAddr ELSE e.value
          BY <2>4, <4>2 DEF ImageFile
        <5>2. QED
          BY <2>1, <2>2, <3>1, <3>2, <3>3, <4>2, <5>1, ImageHonours
      <4>3. QED
        BY <1>7, <4>1, <4>2 DEF JsonElement, e
    <3>5. QED
      BY <2>1, <3>1, <3>2, <3>3, <3>4 DEF ListInv
  <2>5. QED
    BY <2>3, <2>4
<1>8. CASE JsonEnd
  <2>1. CASE imageFound /\ Boot("json", <<r1, r2, r3>>, bootAddr)
    <3>1. /\ stage = "json" /\ todo = <<>>
          /\ UNCHANGED <<given, r1, r2, r3, bootAddr, addrFound, imageFound, ram, hollow>>
      BY <1>8 DEF JsonEnd, jsonVars, memVars
    <3>2. Len(given) \in Nat /\ Handled = Len(given) /\ Honours(Handled)
      BY <3>1, ListFacts DEF Handled, ListInv
    <3>3. PICK n \in Nat : n = Len(given)
      BY <3>2
    <3>4. Honours(n)'
      BY <3>1, <3>2, <3>3, HonoursSame
    <3>5. stage' = "booted" /\ entry'.args = <<r1, r2, r3>> /\ entry'.addr = bootAddr
      BY <2>1 DEF Boot, BootAs
    <3>6. QED
      BY <2>1, <3>1, <3>3, <3>4, <3>5 DEF ListInv
  <2>2. CASE AfterJson
    BY <1>1, <1>8, <2>2, GiveUpSearches DEF JsonEnd
  <2>3. QED
    BY <1>8, <2>1, <2>2 DEF JsonEnd
<1>9. CASE BootBin
  BY <1>1, <1>2, <1>9, GiveUpSearches DEF BootBin, Boot, BootAs
<1>10. CASE NoMedium
  BY <1>1, <1>10 DEF NoMedium
<1>11. CASE UserBoots
  BY <1>2, <1>11 DEF UserBoots, BootHandler, BootAs
<1>12. CASE UserTries
  BY <1>1, <1>12 DEF UserTries
<1>13. QED
  BY <1>0, <1>3, <1>4, <1>5, <1>6, <1>7, <1>8, <1>9, <1>10, <1>11, <1>12 DEF BootNext, Search

BootInv == BootTypeOK /\ Named /\ NotYet /\ ImageWhole /\ EntryIsLoaded /\ ListInv

\* What CHOOSE finds in JsonHonoured is the last element.
LEMMA LatestIsLast ==
  ASSUME NEW n \in Nat, n = Len(given), NEW kind, NEW v, Latest(kind, n, v)
  PROVE  v = LastValue(kind)
<1>1. Of(kind) = {k \in 1..n : Is(kind, k)}
  BY DEF Of, Is
<1>2. CASE ~Has(kind, n)
  BY <1>1, <1>2 DEF Latest, LastValue, Has
<1>3. CASE Has(kind, n)
  <2>1. PICK k \in 1..n : /\ Is(kind, k) /\ given[k].value = v
                          /\ \A j \in 1..n : j > k => ~Is(kind, j)
    BY <1>3 DEF Latest
  <2>2. k \in Of(kind) /\ \A j \in Of(kind) : j <= k
    BY <1>1, <2>1
  <2>3. \A m \in Of(kind) : (\A j \in Of(kind) : j <= m) => m = k
    BY <1>1, <2>2
  <2>4. (CHOOSE m \in Of(kind) : \A j \in Of(kind) : j <= m) = k
    BY <2>2, <2>3
  <2>5. Of(kind) # {}
    BY <2>2
  <2>6. LastValue(kind) = given[k].value
    BY <2>4, <2>5, Zenon DEF LastValue
  <2>7. QED
    BY <2>1, <2>6
<1>4. QED
  BY <1>2, <1>3

LEMMA BootConclusion == BootInv => JsonHonoured
<1> SUFFICES ASSUME BootInv, entry.by = "json"
             PROVE  /\ entry.args = <<LastValue("r1"), LastValue("r2"), LastValue("r3")>>
                    /\ entry.addr = LastValue(IF Of("addr") # {} THEN "addr" ELSE "image")
                    /\ \A k \in Of("image") :
                          (\A j \in Of("image") : j > k => given[j].value # given[k].value)
                          => \/ ram[given[k].value] = given[k].name
                             \/ given[k].value \in hollow
  BY DEF JsonHonoured
<1>1. /\ Honours(Len(given)) /\ entry.args = <<r1, r2, r3>> /\ entry.addr = bootAddr /\ Len(given) \in Nat
  BY ListFacts DEF BootInv, ListInv
<1>2. PICK n \in Nat : n = Len(given)
  BY <1>1
<1>3. r1 = LastValue("r1") /\ r2 = LastValue("r2") /\ r3 = LastValue("r3")
  BY <1>1, <1>2, LatestIsLast DEF Honours, Registers
<1>4. bootAddr = LastValue(IF Of("addr") # {} THEN "addr" ELSE "image")
  <2>1. addrFound <=> Of("addr") # {}
    BY <1>1, <1>2 DEF Honours, Address, Has, Of, Is
  <2>2. IF addrFound THEN Latest("addr", n, bootAddr) ELSE Latest("image", n, bootAddr)
    BY <1>1, <1>2 DEF Honours, Address
  <2>3. CASE addrFound
    BY <1>2, <2>1, <2>2, <2>3, LatestIsLast
  <2>4. CASE ~addrFound
    BY <1>2, <2>1, <2>2, <2>4, LatestIsLast
  <2>5. QED
    BY <2>3, <2>4
<1>5. /\ Images(n) /\ Of("image") = {k \in 1..n : Is("image", k)}
  BY <1>1, <1>2 DEF Honours, Of, Is
<1>6. QED
  BY <1>1, <1>3, <1>4, <1>5 DEF Images

LEMMA BootStart == BootInit => BootInv
<1> SUFFICES ASSUME BootInit PROVE BootInv
  OBVIOUS
<1>1. 0 \in Values /\ RomAddress \notin Values /\ media \in Builds /\ Len(media) \in Nat
  <2>1. media \in Seq({"serial", "flash", "rom"} \cup FileMedia)
    BY BootAssumption DEF BootInit
  <2>2. QED
    BY <2>1, BootAssumption DEF BootInit
<1>2. BootTypeOK
  <2>1. todo \in Seq(Element) /\ given \in Seq(Element)
    BY DEF BootInit
  <2>2. /\ entry.by = "nobody" /\ entry.addr \in Values
        /\ entry.args \in Values \X Values \X Values /\ entry.asked \in Values \X Values \X Values
    BY <1>1, NothingType DEF BootInit, NotBooted
  <2>3. medium \in 1..(Len(media) + 1) /\ stage = "try" /\ command = "none"
    BY <1>1 DEF BootInit
  <2>4. ram \in [Values -> Contents] /\ hollow \subseteq Values
    BY DEF BootInit, Contents
  <2>5. {r1, r2, r3, bootAddr} \subseteq Values /\ imageFound \in BOOLEAN /\ addrFound \in BOOLEAN
    BY <1>1 DEF BootInit
  <2>6. QED
    BY <1>1, <2>1, <2>2, <2>3, <2>4, <2>5 DEF BootTypeOK, Stages
<1>3. QED
  BY <1>2 DEF BootInit, NotBooted, BootInv, Named, NotYet, ImageWhole, EntryIsLoaded, ListInv

(***************************************************************************)
(* The inductive invariant of the boot sequence, for every build, every    *)
(* boot.json and every failure of a medium (main.c:51-76, boot.c:453-590). *)
(***************************************************************************)
THEOREM BootInvariant == BootSpec => []BootInv
<1>1. BootInv /\ [BootNext]_bootVars => BootInv'
  <2>1. BootInv => EntryType
    BY DEF BootInv, BootTypeOK, EntryType
  <2>2. QED
    BY <2>1, BootTypes, EntryStep, ListStep DEF BootInv
<1>2. QED
  BY <1>1, BootStart, PTL DEF BootSpec

\* What boot() enters has been copied there whole, but for an empty file on a card or
\* a disk, which is entered as if it had been (boot.c:453-590, 664-707, 839-882).
THEOREM EntersWhatItLoaded == BootSpec => []EntryInv
<1>1. BootInv => EntryInv
  BY DEF BootInv, EntryInv
<1>2. QED
  BY <1>1, BootInvariant, PTL

\* A boot by list has handled all of the list (boot.c:496-540).
THEOREM ListIsHonoured == BootSpec => []JsonHonoured
BY BootInvariant, BootConclusion, PTL
--------------------------------------------------------------------------------
(* serialboot() as the sequence sees it: it still asks for a host, serves one,    *)
(* has jumped, has gone on to the next medium of the build, or left the user at   *)
(* the prompt.                                                                    *)
Tries(build) == INSTANCE BootSequence WITH
    stage <- IF phase = "jumped" THEN "booted" ELSE IF phase = "console" THEN "console"
             ELSE IF phase = "frame" THEN "serial" ELSE "try",
    media <- build,
    medium <- IF phase = "next" THEN 2 ELSE 1,
    command <- "none",
    todo <- <<>>, given <- <<>>, r1 <- 0, r2 <- 0, r3 <- 0, bootAddr <- 0,
    imageFound <- FALSE, addrFound <- FALSE,
    ram <- [v \in Values |-> "old"], hollow <- {},
    entry <- IF phase = "jumped"
             THEN [by |-> "serial", args |-> <<0, 0, 0>>, addr |-> program[cmd.of].addr,
                   asked |-> <<0, 0, 0>>]
             ELSE [by |-> "nobody", args |-> <<0, 0, 0>>, addr |-> 0, asked |-> <<0, 0, 0>>]

\* Where serialboot() can go; the command of a frame that ends it is executed.
LEMMA SerialOutcome ==
  ASSUME TypeOK, [Next]_vars
  PROVE  \/ phase' = phase /\ (phase = "jumped" => program' = program /\ cmd' = cmd)
         \/ phase = "ack" /\ phase' \in {"frame", "console", "next"}
         \/ phase = "frame" /\ phase' = "next"
         \/ /\ phase = "frame" /\ phase' = "jumped"
            /\ program' = program /\ cmd' = cmd /\ cmd.of \in Frame
<1>1. CASE UNCHANGED vars
  BY <1>1 DEF vars, frameVars, hostVars
<1>2. CASE (\E c \in Keys : HearKey(c)) \/ AckTimeout
  BY <1>2 DEF HearKey, AckTimeout
<1>3. ASSUME NEW b, phase = "frame", Receive(b), program' = program
      PROVE  \/ phase' \in {"frame", "next"}
             \/ phase' = "jumped" /\ cmd' = cmd /\ cmd.of \in Frame
  <2>1. CASE Complete /\ FrameEnd
    <3>1. cmd' = cmd
      BY <1>3, <2>1 DEF Receive, Complete, Body, CmdAt, TypeOK
    <3>2. CASE \E r : Fail(r)
      BY <1>3, <3>2 DEF Fail
    <3>3. CASE CrcMatches /\ Execute
      <4>1. cmd.of \in Frame
        BY <3>3 DEF CrcMatches
      <4>2. phase' \in {"frame", "next", "jumped"}
        BY <1>3, <3>3 DEF Execute, Fail
      <4>3. QED
        BY <3>1, <4>1, <4>2
    <3>4. QED
      BY <2>1, <3>2, <3>3 DEF FrameEnd
  <2>2. CASE phase' = phase
    BY <1>3, <2>2
  <2>3. QED
    BY <1>3, <2>1, <2>2 DEF Receive
<1>4. CASE ReadByte
  BY <1>3, <1>4 DEF ReadByte, hostVars
<1>5. CASE GarbleByte
  BY <1>3, <1>5 DEF GarbleByte, hostVars
<1>6. CASE FrameTimeout \/ HostPauses
  BY <1>6 DEF FrameTimeout, HostPauses, EndByTimer, hostVars
<1>7. CASE LoseByte \/ HostSends \/ HostHears
  BY <1>7 DEF LoseByte, HostSends, HostHears, frameVars, hostVars
<1>8. QED
  BY <1>1, <1>2, <1>4, <1>5, <1>6, <1>7 DEF Next

(* serialboot() is what the boot sequence takes it for (boot.c:162-299,           *)
(* main.c:53-56): it waits for a host to answer, or gives way to the next medium, *)
(* or ends at the prompt; after an answer it enters boot() once with no arguments *)
(* at an address of main memory, or gives way, and does nothing after that.       *)
THEOREM SerialIsAMedium ==
  ASSUME NEW build \in Builds, build # <<>>, build[1] = "serial",
         0..MaxAddr \subseteq Values
  PROVE  Spec => Tries(build)!BootSpec
<1>1. Len(build) \in Nat /\ 1 \in DOMAIN build
  <2>1. build \in Seq({"serial", "flash", "rom"} \cup FileMedia)
    BY BootAssumption
  <2>2. QED
    BY <2>1
<1>2. Init => Tries(build)!BootInit
  BY DEF Init, Tries!BootInit, Tries!NotBooted, Tries!Nothing
<1>3. TypeOK /\ [Next]_vars => [Tries(build)!BootNext]_(Tries(build)!bootVars)
  <2> SUFFICES ASSUME TypeOK, [Next]_vars
               PROVE  Tries(build)!BootNext \/ UNCHANGED Tries(build)!bootVars
    OBVIOUS
  <2>1. CASE phase' = phase /\ (phase = "jumped" => program' = program /\ cmd' = cmd)
    BY <2>1 DEF Tries!bootVars, Tries!jsonVars, Tries!memVars
  <2>2. CASE phase = "ack" /\ phase' \in {"frame", "console", "next"}
    BY <1>1, <2>2 DEF Tries!BootNext, Tries!Search, Tries!Serial, Tries!Trying,
          Tries!Current, Tries!jsonVars, Tries!memVars, Tries!GiveUp
  <2>3. CASE phase = "frame" /\ phase' = "next"
    BY <2>3 DEF Tries!BootNext, Tries!SerialHost, Tries!SerialLeaves, Tries!GiveUp,
          Tries!jsonVars, Tries!memVars
  <2>5. CASE /\ phase = "frame" /\ phase' = "jumped"
             /\ program' = program /\ cmd' = cmd /\ cmd.of \in Frame
    <3>1. program[cmd.of].addr \in Values
      <4>1. program \in Programs
        BY DEF TypeOK
      <4>2. program[cmd.of].addr \in 0..MaxAddr
        BY <2>5, <4>1, FrameFacts
      <4>3. QED
        BY <4>2
    <3>2. PICK v \in Values : v = program[cmd.of].addr
      BY <3>1
    <3>3. Tries(build)!Boot("serial", <<0, 0, 0>>, v)
      BY <2>5, <3>2 DEF Tries!Boot, Tries!BootAs, Tries!Nothing
    <3>4. Tries(build)!SerialJumps
      BY <2>5, <3>3 DEF Tries!SerialJumps, Tries!jsonVars, Tries!memVars, Tries!Nothing
    <3>5. QED
      BY <3>4 DEF Tries!BootNext, Tries!SerialHost
  <2>6. QED
    BY <2>1, <2>2, <2>3, <2>5, SerialOutcome
<1>4. Spec => []TypeOK
  <2>1. IInv => TypeOK
    BY DEF IInv
  <2>2. QED
    BY <2>1, ReceiverInvariant, PTL
<1>5. QED
  BY <1>2, <1>3, <1>4, PTL DEF Spec, Tries!BootSpec

--------------------------------------------------------------------------------
(* Least elements and induction, in the form in which the provers can use them. *)

LEMMA LeastNumber ==
  ASSUME NEW S \in SUBSET Nat, S # {}
  PROVE  \E m \in S : \A k \in S : m <= k
<1> DEFINE R == OpToRel(<, Nat)
<1>1. IsWellFoundedOn(R, Nat)
  BY NatLessThanWellFounded
<1>2. \A x, y \in Nat : <<x, y>> \in R <=> x < y
  BY DEF OpToRel
<1> HIDE DEF R
<1>3. PICK m \in S : \A k \in S : ~ (<<k, m>> \in R)
  BY <1>1, WFMin
<1>4. ASSUME NEW k \in S PROVE m <= k
  <2>1. ~ (k < m)
    BY <1>2, <1>3
  <2>2. QED
    BY <2>1
<1>5. QED
  BY <1>4

LEMMA CountingUp ==
  ASSUME NEW S, NEW n \in Nat, 0 \in S, \A k \in 0..n : k \in S /\ k < n => k + 1 \in S
  PROVE  \A k \in 0..n : k \in S
<1> SUFFICES ASSUME ~ (\A k \in 0..n : k \in S) PROVE FALSE
  OBVIOUS
<1> DEFINE T == (0..n) \ S
<1>1. T \in SUBSET Nat /\ T # {}
  OBVIOUS
<1> HIDE DEF T
<1>2. PICK m \in T : \A k \in T : m <= k
  BY <1>1, LeastNumber
<1>3. m \in 1..n
  BY <1>2 DEF T
<1>4. m - 1 \in S
  BY <1>2, <1>3 DEF T
<1>5. (m - 1) + 1 \in S
  BY <1>3, <1>4
<1>6. QED
  BY <1>2, <1>3, <1>5 DEF T

LEMMA MinIsLeast ==
  ASSUME NEW S \in SUBSET Nat, S # {}
  PROVE  Min(S) \in S /\ \A k \in S : Min(S) <= k
BY LeastNumber, Zenon DEF Min

LEMMA MaxOfInterval ==
  ASSUME NEW n \in Nat \ {0}
  PROVE  Max(1..n) = n
<1>1. n \in 1..n /\ \A k \in 1..n : n >= k
  OBVIOUS
<1>2. \A m \in 1..n : (\A k \in 1..n : m >= k) => m = n
  BY <1>1
<1>3. QED
  BY <1>1, <1>2, Zenon DEF Max

LEMMA MaxExists ==
  ASSUME NEW n \in Nat, NEW S \in SUBSET (1..n), S # {}
  PROVE  Max(S) \in S /\ \A k \in S : Max(S) >= k
<1> DEFINE T == {n - k : k \in S}
<1>1. T \in SUBSET Nat /\ T # {}
  <2>1. PICK k \in S : TRUE
    OBVIOUS
  <2>2. n - k \in T
    BY <2>1
  <2>3. \A j \in S : n - j \in Nat
    OBVIOUS
  <2>4. QED
    BY <2>2, <2>3
<1> HIDE DEF T
<1>2. PICK m \in T : \A k \in T : m <= k
  BY <1>1, LeastNumber
<1>3. PICK j \in S : m = n - j
  BY DEF T
<1>4. \A k \in S : j >= k
  <2> SUFFICES ASSUME NEW k \in S PROVE j >= k
    OBVIOUS
  <2>1. m <= n - k
    BY <1>2 DEF T
  <2>2. QED
    BY <1>3, <2>1
<1>5. QED
  BY <1>4, Zenon DEF Max

--------------------------------------------------------------------------------
(* What FoldLeft computes: the keys of a completion are typed one after the     *)
(* other.  The fold runs over sets of places, of which it needs 1..k only.      *)

FoldStep(g, e, s, T) == IF T = {} THEN e ELSE AddChar(g[T \ {Max(T)}], s[Max(T)])
FoldOver(g, e, s, n) == g = [T \in SUBSET (1..n) |-> FoldStep(g, e, s, T)]

LEMMA FoldGrows ==
  ASSUME NEW e, NEW s, NEW n \in Nat, NEW g, FoldOver(g, e, s, n)
  PROVE  \E h : FoldOver(h, e, s, n + 1)
<1> DEFINE h == [T \in SUBSET (1..(n + 1)) |->
                   IF n + 1 \in T THEN AddChar(g[T \ {n + 1}], s[n + 1]) ELSE g[T]]
<1>1. \A T \in SUBSET (1..n) : T \in SUBSET (1..(n + 1)) /\ n + 1 \notin T
  OBVIOUS
<1>2. \A T \in SUBSET (1..n) : h[T] = g[T]
  BY <1>1
<1>3. \A T \in SUBSET (1..n) : g[T] = FoldStep(g, e, s, T)
  BY DEF FoldOver
<1> HIDE DEF h
<1>4. ASSUME NEW T \in SUBSET (1..(n + 1))
      PROVE  h[T] = FoldStep(h, e, s, T)
  <2>1. CASE n + 1 \in T
    <3>1. Max(T) = n + 1
      <4>1. \A k \in T : n + 1 >= k
        OBVIOUS
      <4>2. \A m \in T : (\A k \in T : m >= k) => m = n + 1
        <5> SUFFICES ASSUME NEW m \in T, \A k \in T : m >= k PROVE m = n + 1
          OBVIOUS
        <5>1. m >= n + 1 /\ n + 1 >= m /\ m \in Nat
          BY <2>1, <4>1
        <5>2. QED
          BY <5>1
      <4>3. QED
        BY <2>1, <4>1, <4>2, Zenon DEF Max
    <3>2. T \ {n + 1} \in SUBSET (1..n)
      OBVIOUS
    <3>3. h[T \ {n + 1}] = g[T \ {n + 1}]
      BY <1>2, <3>2
    <3>4. h[T] = AddChar(g[T \ {n + 1}], s[n + 1])
      BY <2>1 DEF h
    <3>5. T # {}
      BY <2>1
    <3>6. QED
      BY <3>1, <3>3, <3>4, <3>5, Zenon DEF FoldStep
  <2>2. CASE n + 1 \notin T
    <3>1. T \in SUBSET (1..n)
      BY <2>2
    <3>2. h[T] = FoldStep(g, e, s, T)
      BY <1>2, <1>3, <3>1
    <3>3. T \ {Max(T)} \in SUBSET (1..n)
      BY <3>1
    <3>4. h[T \ {Max(T)}] = g[T \ {Max(T)}]
      BY <1>2, <3>3
    <3>5. QED
      BY <3>2, <3>4, Zenon DEF FoldStep
  <2>3. QED
    BY <2>1, <2>2
<1>5. h = [T \in SUBSET (1..(n + 1)) |-> h[T]]
  BY DEF h
<1>6. FoldOver(h, e, s, n + 1)
  BY <1>4, <1>5, Zenon DEF FoldOver
<1>7. QED
  BY <1>6

LEMMA FoldExists ==
  ASSUME NEW e, NEW s, NEW n \in Nat
  PROVE  \E g : FoldOver(g, e, s, n)
<1> DEFINE S == {k \in 0..n : \E g : FoldOver(g, e, s, k)}
<1>1. 0 \in S
  <2> DEFINE g == [T \in SUBSET (1..0) |-> e]
  <2>1. \A T \in SUBSET (1..0) : T = {}
    OBVIOUS
  <2>2. \A T \in SUBSET (1..0) : e = FoldStep(g, e, s, T)
    BY <2>1, Zenon DEF FoldStep
  <2>3. g = [T \in SUBSET (1..0) |-> FoldStep(g, e, s, T)]
    BY <2>2, Zenon
  <2> HIDE DEF g
  <2>4. FoldOver(g, e, s, 0)
    BY <2>3, Zenon DEF FoldOver
  <2>5. QED
    BY <2>4
<1>2. \A k \in 0..n : k \in S /\ k < n => k + 1 \in S
  <2> SUFFICES ASSUME NEW k \in 0..n, k \in S, k < n PROVE k + 1 \in S
    OBVIOUS
  <2>1. PICK g : FoldOver(g, e, s, k)
    OBVIOUS
  <2>2. \E h : FoldOver(h, e, s, k + 1)
    BY <2>1, FoldGrows
  <2>3. QED
    BY <2>2
<1> HIDE DEF S
<1>3. n \in S
  BY <1>1, <1>2, CountingUp
<1>4. QED
  BY <1>3 DEF S

InTurn(f, e, s) ==
  /\ f[0] = e /\ f[Len(s)] = FoldLeft(AddChar, e, s)
  /\ \A k \in 1..Len(s) : f[k] = AddChar(f[k - 1], s[k])

LEMMA TypedInTurn ==
  ASSUME NEW e, NEW s \in Seq(Chars)
  PROVE  \E f : InTurn(f, e, s)
<1> DEFINE g == CHOOSE g : FoldOver(g, e, s, Len(s))
<1>1. Len(s) \in Nat /\ DOMAIN s = 1..Len(s)
  OBVIOUS
<1>2. FoldLeft(AddChar, e, s) = g[1..Len(s)]
  BY <1>1, Zenon DEF FoldLeft, MapThenFoldSet, FoldOver, FoldStep
<1>3. FoldOver(g, e, s, Len(s))
  BY <1>1, FoldExists, Zenon
<1> HIDE DEF g
<1> DEFINE f == [k \in 0..Len(s) |-> g[1..k]]
<1>4. \A T \in SUBSET (1..Len(s)) : g[T] = FoldStep(g, e, s, T)
  BY <1>3 DEF FoldOver
<1>5. f[0] = e
  <2>1. 1..0 = {} /\ {} \in SUBSET (1..Len(s))
    OBVIOUS
  <2>2. g[{}] = e
    BY <1>4, <2>1, Zenon DEF FoldStep
  <2>3. 0 \in 0..Len(s)
    BY <1>1
  <2>4. QED
    BY <2>1, <2>2, <2>3
<1>6. ASSUME NEW k \in 1..Len(s)
      PROVE  f[k] = AddChar(f[k - 1], s[k])
  <2>1. /\ k \in Nat \ {0} /\ 1..k \in SUBSET (1..Len(s)) /\ 1..k # {}
        /\ (1..k) \ {k} = 1..(k - 1) /\ k \in 0..Len(s) /\ k - 1 \in 0..Len(s)
    <3>1. k \in Nat /\ 1 <= k /\ k <= Len(s)
      BY <1>1
    <3>2. \A j : j \in (1..k) \ {k} <=> j \in 1..(k - 1)
      BY <3>1
    <3>3. (1..k) \ {k} = 1..(k - 1)
      BY <3>2
    <3>4. 1..k \in SUBSET (1..Len(s))
      BY <1>1, <3>1
    <3>5. k \in 1..k /\ k \in Nat \ {0} /\ k \in 0..Len(s) /\ k - 1 \in 0..Len(s)
      BY <1>1, <3>1
    <3>6. QED
      BY <3>3, <3>4, <3>5, Zenon
  <2>2. Max(1..k) = k
    BY <2>1, MaxOfInterval
  <2>3. g[1..k] = AddChar(g[1..(k - 1)], s[k])
    BY <1>4, <2>1, <2>2, Zenon DEF FoldStep
  <2>4. f[k] = g[1..k] /\ f[k - 1] = g[1..(k - 1)]
    BY <2>1
  <2>5. QED
    BY <2>3, <2>4, Zenon
<1>7. f[Len(s)] = FoldLeft(AddChar, e, s)
  BY <1>1, <1>2
<1> HIDE DEF f
<1>8. QED
  BY <1>5, <1>6, <1>7 DEF InTurn

--------------------------------------------------------------------------------
(* The line and the terminal.  Sound holds of the state of the line between     *)
(* keys; every editing operator keeps it.                                       *)

Symbol == Chars \cup {Nul, Blank}
Terminal == [text : [Cells -> Symbol], at : Nat]
LineState == [buf : [Cells -> Chars \cup {Nul}], num : Nat, eol : Nat, screen : Terminal]

Record(b, n, m, s) == [buf |-> b, num |-> n, eol |-> m, screen |-> s]

\* A cursor on the line, and characters up to its end.
Held(b, n, m, s) ==
  /\ b \in [Cells -> Chars \cup {Nul}] /\ n \in Nat /\ m \in Nat /\ s \in Terminal
  /\ n <= m /\ m <= Size /\ \A k \in 0..(m - 1) : k \in Cells /\ b[k] \in Chars

\* The terminal shows the line.
Cell(b, m, k)  == IF k < m THEN b[k] ELSE Blank
Shown(b, m, s) == \A k \in Cells : s.text[k] = Cell(b, m, k)

Sound(e) == \E b, n, m, s : /\ Held(b, n, m, s) /\ Shown(b, m, s) /\ s.at = n
                            /\ e = Record(b, n, m, s)

\* n cells of a buffer, and the string they are.
Holds(S, b, from, n) == \A k \in from..(from + n - 1) : b[k] \in S
IsText(S, str, b, from, n) ==
  str \in Seq(S) /\ Len(str) = n /\ \A k \in 1..n : str[k] = b[from + k - 1]

LEMMA TextFacts ==
  ASSUME NEW S, NEW b, NEW from \in Nat, NEW n \in Nat, Holds(S, b, from, n)
  PROVE  IsText(S, Text(b, from, n), b, from, n)
<1>1. \A k \in 1..n : b[from + k - 1] \in S
  <2> SUFFICES ASSUME NEW k \in 1..n PROVE b[from + k - 1] \in S
    OBVIOUS
  <2>1. from + k - 1 \in from..(from + n - 1)
    OBVIOUS
  <2>2. QED
    BY <2>1 DEF Holds
<1>2. Text(b, from, n) \in [1..n -> S]
  BY <1>1 DEF Text
<1>3. Text(b, from, n) \in Seq(S)
  BY <1>2
<1>4. QED
  BY <1>2, <1>3 DEF Text, IsText

LEMMA SpacesFacts ==
  ASSUME NEW n \in Nat
  PROVE  /\ Spaces(n) \in Seq(Symbol) /\ Len(Spaces(n)) = n
         /\ \A k \in 1..n : Spaces(n)[k] = Blank
<1>1. Spaces(n) \in [1..n -> Symbol]
  BY DEF Spaces, Symbol
<1>2. Spaces(n) \in Seq(Symbol)
  BY <1>1
<1>3. QED
  BY <1>1, <1>2 DEF Spaces

LEMMA WriteFacts ==
  ASSUME NEW s \in Terminal, NEW str \in Seq(Symbol)
  PROVE  /\ Write(s, str) \in Terminal
         /\ Write(s, str).at = s.at + Len(str)
         /\ \A k \in Cells : Write(s, str).text[k] =
               IF k \in s.at..(s.at + Len(str) - 1) THEN str[k - s.at + 1] ELSE s.text[k]
<1>1. s.at \in Nat /\ Len(str) \in Nat /\ s.text \in [Cells -> Symbol]
  BY DEF Terminal
<1>2. ASSUME NEW k \in Cells, k \in s.at..(s.at + Len(str) - 1)
      PROVE  str[k - s.at + 1] \in Symbol
  <2>1. k - s.at + 1 \in 1..Len(str)
    BY <1>1, <1>2
  <2>2. QED
    BY <2>1
<1>3. [k \in Cells |-> IF k \in s.at..(s.at + Len(str) - 1) THEN str[k - s.at + 1] ELSE s.text[k]]
      \in [Cells -> Symbol]
  BY <1>1, <1>2
<1>4. PICK tx \in [Cells -> Symbol] :
        tx = [k \in Cells |-> IF k \in s.at..(s.at + Len(str) - 1) THEN str[k - s.at + 1] ELSE s.text[k]]
  BY <1>3
<1>5. Write(s, str) = [text |-> tx, at |-> s.at + Len(str)]
  BY <1>4, Zenon DEF Write
<1>6. s.at + Len(str) \in Nat
  BY <1>1
<1>7. QED
  BY <1>4, <1>5, <1>6 DEF Terminal

LEMMA BackspaceFacts ==
  ASSUME NEW s \in Terminal, NEW n \in Nat, n <= s.at
  PROVE  /\ Backspace(s, n) \in Terminal
         /\ Backspace(s, n).at = s.at - n /\ Backspace(s, n).text = s.text
<1>1. s.at - n \in Nat
  BY DEF Terminal
<1>2. QED
  BY <1>1 DEF Backspace, Terminal

LEMMA SizeFacts == Size \in Nat /\ Cells = 0..Size /\ Blank # Nul /\ Nul \notin Chars
BY EditorAssumption DEF Cells

\* What is printed over a terminal that shows the rest of the line already.
Completes(str, b, m, s) ==
  /\ \A k \in 1..Len(str) : str[k] = Cell(b, m, s.at + k - 1)
  /\ \A k \in Cells : k < s.at \/ k >= s.at + Len(str) => s.text[k] = Cell(b, m, k)

LEMMA Printed ==
  ASSUME NEW s \in Terminal, NEW str \in Seq(Symbol), NEW b, NEW m \in Nat,
         Completes(str, b, m, s)
  PROVE  /\ Write(s, str) \in Terminal /\ Write(s, str).at = s.at + Len(str)
         /\ Shown(b, m, Write(s, str))
<1>1. s.at \in Nat /\ Len(str) \in Nat
  BY DEF Terminal
<1>2. PICK t \in Terminal :
        /\ t = Write(s, str) /\ t.at = s.at + Len(str)
        /\ \A k \in Cells : t.text[k] =
             IF k \in s.at..(s.at + Len(str) - 1) THEN str[k - s.at + 1] ELSE s.text[k]
  BY WriteFacts
<1>3. ASSUME NEW k \in Cells PROVE t.text[k] = Cell(b, m, k)
  <2>1. k \in Nat
    BY SizeFacts
  <2>2. CASE k \in s.at..(s.at + Len(str) - 1)
    <3>1. k - s.at + 1 \in 1..Len(str) /\ s.at + (k - s.at + 1) - 1 = k
      BY <1>1, <2>1, <2>2
    <3>2. str[k - s.at + 1] = Cell(b, m, k)
      BY <3>1 DEF Completes
    <3>3. QED
      BY <1>2, <2>2, <3>2
  <2>3. CASE k \notin s.at..(s.at + Len(str) - 1)
    BY <1>1, <1>2, <2>1, <2>3 DEF Completes
  <2>4. QED
    BY <2>2, <2>3
<1>4. QED
  BY <1>2, <1>3 DEF Shown

\* The same, with the cursor moved back.
LEMMA PrintedBack ==
  ASSUME NEW s \in Terminal, NEW str \in Seq(Symbol), NEW b, NEW m \in Nat,
         Completes(str, b, m, s), NEW q \in 0..Len(str)
  PROVE  /\ Backspace(Write(s, str), q) \in Terminal
         /\ Backspace(Write(s, str), q).at = s.at + Len(str) - q
         /\ Shown(b, m, Backspace(Write(s, str), q))
<1>1. PICK t \in Terminal : t = Write(s, str) /\ t.at = s.at + Len(str) /\ Shown(b, m, t)
  BY Printed
<1>2. q \in Nat /\ s.at \in Nat /\ Len(str) \in Nat /\ q <= t.at
  BY <1>1 DEF Terminal
<1>3. PICK u \in Terminal : u = Backspace(t, q) /\ u.at = t.at - q /\ u.text = t.text
  BY <1>2, BackspaceFacts
<1>4. u.at = s.at + Len(str) - q
  BY <1>1, <1>2, <1>3
<1>5. Shown(b, m, u)
  BY <1>1, <1>3 DEF Shown
<1>6. QED
  BY <1>1, <1>3, <1>4, <1>5, Zenon

LEMMA HomeSound ==
  ASSUME NEW b, NEW n, NEW m, NEW s, Held(b, n, m, s), Shown(b, m, s), s.at = n
  PROVE  \E t : /\ BeginningOfLine(Record(b, n, m, s)) = Record(b, 0, m, t)
                /\ Held(b, 0, m, t) /\ Shown(b, m, t) /\ t.at = 0
<1> DEFINE e == Record(b, n, m, s)
<1>1. PICK t \in Terminal : t = Backspace(s, n) /\ t.at = 0 /\ t.text = s.text
  BY BackspaceFacts DEF Held
<1>2. BeginningOfLine(e) = Record(b, 0, m, t)
  <2>1. e.num = n /\ e.screen = s
    BY DEF Record
  <2>2. BeginningOfLine(e) = [e EXCEPT !.num = 0, !.screen = t]
    BY <1>1, <2>1, Zenon DEF BeginningOfLine
  <2>3. QED
    BY <2>2 DEF Record
<1>3. Held(b, 0, m, t) /\ Shown(b, m, t)
  BY <1>1 DEF Held, Shown
<1>4. QED
  BY <1>1, <1>2, <1>3

LEMMA EraseSound ==
  ASSUME NEW b, NEW n, NEW m, NEW s, Held(b, n, m, s), Shown(b, m, s), s.at = n
  PROVE  \E t : /\ EraseToEol(Record(b, n, m, s)) = Record(b, n, n, t)
                /\ Held(b, n, n, t) /\ Shown(b, n, t) /\ t.at = n
<1> DEFINE e == Record(b, n, m, s)
<1>1. PICK w \in Nat : w = m - n
  BY DEF Held
<1>2. PICK str \in Seq(Symbol) : str = Spaces(w) /\ Len(str) = w /\ \A k \in 1..w : str[k] = Blank
  BY SpacesFacts
<1>3. Completes(str, b, n, s)
  <2>1. n \in Nat /\ m \in Nat /\ n <= m
    BY DEF Held
  <2>2. ASSUME NEW k \in 1..Len(str) PROVE str[k] = Cell(b, n, s.at + k - 1)
    BY <1>2, <2>1, <2>2 DEF Cell
  <2>3. ASSUME NEW k \in Cells, k < s.at \/ k >= s.at + Len(str) PROVE s.text[k] = Cell(b, n, k)
    <3>1. k \in Nat /\ s.text[k] = Cell(b, m, k)
      BY SizeFacts DEF Shown
    <3>2. QED
      BY <1>1, <1>2, <2>1, <2>3, <3>1 DEF Cell
  <2>4. QED
    BY <2>2, <2>3 DEF Completes
<1>4. PICK t \in Terminal : /\ t = Backspace(Write(s, str), w) /\ t.at = s.at + Len(str) - w
                            /\ Shown(b, n, t)
  <2>1. w \in 0..Len(str) /\ s \in Terminal /\ n \in Nat
    BY <1>2 DEF Held
  <2>2. QED
    BY <1>3, <2>1, PrintedBack
<1>5. Held(b, n, n, t) /\ t.at = n
  <2>1. n <= m /\ n \in Nat /\ m \in Nat /\ m <= Size
    BY DEF Held
  <2>2. n <= Size /\ t.at = n /\ \A k \in 0..(n - 1) : k \in 0..(m - 1)
    BY <1>2, <1>4, <2>1, SizeFacts
  <2>3. QED
    BY <2>1, <2>2 DEF Held
<1>6. EraseToEol(e) = Record(b, n, n, t)
  <2>1. e.num = n /\ e.eol = m /\ e.screen = s
    BY DEF Record
  <2>2. Backspace(Write(e.screen, Spaces(e.eol - e.num)), e.eol - e.num) = t
    BY <1>1, <1>2, <1>4, <2>1
  <2>3. EraseToEol(e) = [e EXCEPT !.eol = n, !.screen = t]
    BY <2>1, <2>2, Zenon DEF EraseToEol
  <2>4. QED
    BY <2>3 DEF Record
<1>7. QED
  BY <1>4, <1>5, <1>6

\* RefreshToEol prints what is not shown yet, over blanks or over the line.
RestMissing(b, n, m, s) == \A k \in Cells : k < n \/ k >= m => s.text[k] = Cell(b, m, k)

LEMMA RefreshSound ==
  ASSUME NEW b, NEW n, NEW m, NEW s, Held(b, n, m, s), s.at = n,
         RestMissing(b, n, m, s)
  PROVE  \E t : /\ RefreshToEol(Record(b, n, m, s)) = Record(b, m, m, t)
                /\ Held(b, m, m, t) /\ Shown(b, m, t) /\ t.at = m
<1> DEFINE e == Record(b, n, m, s)
<1>1. PICK w \in Nat : w = m - n
  BY DEF Held
<1>2. IsText(Symbol, Text(b, n, w), b, n, w)
  <2>1. Holds(Symbol, b, n, w)
    BY <1>1 DEF Held, Symbol, Holds
  <2>2. n \in Nat
    BY DEF Held
  <2>3. QED
    BY <2>1, <2>2, TextFacts
<1>3. PICK str \in Seq(Symbol) : /\ str = Text(b, n, w) /\ Len(str) = w
                                 /\ \A k \in 1..w : str[k] = b[n + k - 1]
  BY <1>2 DEF IsText
<1>4. Completes(str, b, m, s)
  <2>1. n \in Nat /\ m \in Nat /\ n <= m
    BY DEF Held
  <2>2. ASSUME NEW k \in 1..Len(str) PROVE str[k] = Cell(b, m, s.at + k - 1)
    BY <1>1, <1>3, <2>1, <2>2 DEF Cell
  <2>3. ASSUME NEW k \in Cells, k < s.at \/ k >= s.at + Len(str) PROVE s.text[k] = Cell(b, m, k)
    BY <1>1, <1>3, <2>1, <2>3 DEF RestMissing
  <2>4. QED
    BY <2>2, <2>3 DEF Completes
<1>5. PICK t \in Terminal : t = Write(s, str) /\ t.at = s.at + Len(str) /\ Shown(b, m, t)
  <2>1. s \in Terminal /\ m \in Nat
    BY DEF Held
  <2>2. QED
    BY <1>4, <2>1, Printed
<1>6. Held(b, m, m, t) /\ t.at = m
  BY <1>1, <1>3, <1>5 DEF Held
<1>7. RefreshToEol(e) = Record(b, m, m, t)
  <2>1. e.num = n /\ e.eol = m /\ e.screen = s /\ e.buf = b
    BY DEF Record
  <2>2. Write(e.screen, Text(e.buf, e.num, e.eol - e.num)) = t
    BY <1>1, <1>3, <1>5, <2>1
  <2>3. RefreshToEol(e) = [e EXCEPT !.num = m, !.screen = t]
    BY <2>1, <2>2, Zenon DEF RefreshToEol
  <2>4. QED
    BY <2>3 DEF Record
<1>8. QED
  BY <1>5, <1>6, <1>7

\* A buffer after n of its cells have been copied.
IsMoved(mv, b, to, from, n) ==
  /\ mv \in [Cells -> Chars \cup {Nul}]
  /\ \A k \in Cells : mv[k] = IF k \in to..(to + n - 1) THEN b[k - to + from] ELSE b[k]

LEMMA MoveFacts ==
  ASSUME NEW b \in [Cells -> Chars \cup {Nul}], NEW to \in Nat, NEW from \in Nat, NEW n \in Nat,
         from + n <= Size + 1
  PROVE  IsMoved(MemMove(b, to, from, n), b, to, from, n)
<1>1. ASSUME NEW k \in Cells, k \in to..(to + n - 1)
      PROVE  b[k - to + from] \in Chars \cup {Nul}
  <2>1. k - to + from \in Cells
    BY <1>1, SizeFacts
  <2>2. QED
    BY <2>1
<1>2. QED
  BY <1>1 DEF MemMove, IsMoved

\* Where a character goes, and what it leaves behind it.
IsAdded(b, n, m, c, b2, m2) ==
  /\ m2 = IF insert \/ n = m THEN m + 1 ELSE m
  /\ \A k \in 0..(m2 - 1) :
       b2[k] = IF k < n THEN b[k] ELSE IF k = n THEN c ELSE b[IF insert THEN k - 1 ELSE k]

LEMMA AddInserts ==
  ASSUME NEW b, NEW n, NEW m, NEW s, Held(b, n, m, s), Shown(b, m, s), s.at = n,
         NEW c \in Chars, insert, m <= Size - 1
  PROVE  \E b2, m2, t : /\ AddChar(Record(b, n, m, s), c) = Record(b2, n + 1, m2, t)
                        /\ Held(b2, n + 1, m2, t) /\ Shown(b2, m2, t) /\ t.at = n + 1
                        /\ IsAdded(b, n, m, c, b2, m2)
<1> DEFINE e == Record(b, n, m, s)
<1>1. /\ n \in Nat /\ m \in Nat /\ n <= m /\ m + 1 <= Size /\ Size \in Nat /\ Cells = 0..Size
      /\ b \in [Cells -> Chars \cup {Nul}] /\ s \in Terminal
  BY SizeFacts DEF Held
<1>2. PICK w \in Nat : w = m + 1 - n
  BY <1>1
<1>3. PICK mv \in [Cells -> Chars \cup {Nul}] :
        /\ mv = MemMove(b, n + 1, n, w - 1)
        /\ \A k \in Cells : mv[k] = IF k \in (n + 1)..(n + 1 + (w - 1) - 1)
                                    THEN b[k - (n + 1) + n] ELSE b[k]
  <2>1. n + 1 \in Nat /\ w - 1 \in Nat /\ n + (w - 1) <= Size + 1
    BY <1>1, <1>2
  <2>2. IsMoved(MemMove(b, n + 1, n, w - 1), b, n + 1, n, w - 1)
    BY <1>1, <2>1, MoveFacts
  <2>3. QED
    BY <2>2 DEF IsMoved
<1>4. PICK b2 \in [Cells -> Chars \cup {Nul}] : b2 = [mv EXCEPT ![n] = c]
  OBVIOUS
<1>5. \A k \in 0..m : b2[k] = IF k < n THEN b[k] ELSE IF k = n THEN c ELSE b[k - 1]
  <2> SUFFICES ASSUME NEW k \in 0..m
               PROVE  b2[k] = IF k < n THEN b[k] ELSE IF k = n THEN c ELSE b[k - 1]
    OBVIOUS
  <2>1. k \in Cells /\ n \in Cells
    BY <1>1
  <2>2. CASE k = n
    BY <1>4, <2>1, <2>2
  <2>3. CASE k # n
    <3>1. b2[k] = mv[k]
      BY <1>4, <2>1, <2>3
    <3>2. CASE k < n
      <4>1. k \notin (n + 1)..(n + 1 + (w - 1) - 1)
        BY <1>1, <3>2
      <4>2. QED
        BY <1>3, <2>1, <3>1, <3>2, <4>1
    <3>3. CASE k > n
      <4>1. k \in (n + 1)..(n + 1 + (w - 1) - 1) /\ k - (n + 1) + n = k - 1
        BY <1>1, <1>2, <3>3
      <4>2. QED
        BY <1>1, <1>3, <2>1, <3>1, <3>3, <4>1
    <3>4. QED
      BY <1>1, <2>3, <3>2, <3>3
  <2>4. QED
    BY <2>2, <2>3
<1>6. \A k \in 0..m : k \in Cells /\ b2[k] \in Chars
  <2> SUFFICES ASSUME NEW k \in 0..m PROVE k \in Cells /\ b2[k] \in Chars
    OBVIOUS
  <2>1. k # n => (k < n /\ k \in 0..(m - 1)) \/ (k > n /\ k - 1 \in 0..(m - 1))
    BY <1>1
  <2>2. \A j \in 0..(m - 1) : b[j] \in Chars
    BY DEF Held
  <2>3. QED
    BY <1>1, <1>5, <2>1, <2>2
<1>7. PICK str \in Seq(Symbol) : /\ str = Text(b2, n, w) /\ Len(str) = w
                                 /\ \A k \in 1..w : str[k] = b2[n + k - 1]
  <2>1. Holds(Symbol, b2, n, w)
    BY <1>1, <1>2, <1>6 DEF Symbol, Holds
  <2>2. IsText(Symbol, Text(b2, n, w), b2, n, w)
    BY <1>1, <2>1, TextFacts
  <2>3. QED
    BY <2>2 DEF IsText
<1>8. Completes(str, b2, m + 1, s)
  <2>1. ASSUME NEW k \in 1..Len(str) PROVE str[k] = Cell(b2, m + 1, s.at + k - 1)
    BY <1>1, <1>2, <1>7 DEF Cell
  <2>2. ASSUME NEW k \in Cells, k < s.at \/ k >= s.at + Len(str)
        PROVE  s.text[k] = Cell(b2, m + 1, k)
    <3>1. s.text[k] = Cell(b, m, k) /\ k \in Nat
      BY <1>1 DEF Shown
    <3>2. CASE k < n
      BY <1>1, <1>5, <3>1, <3>2 DEF Cell
    <3>3. CASE k >= m + 1
      BY <1>1, <3>1, <3>3 DEF Cell
    <3>4. QED
      BY <1>1, <1>2, <1>7, <2>2, <3>1, <3>2, <3>3
  <2>3. QED
    BY <2>1, <2>2 DEF Completes
<1>9. PICK t \in Terminal : /\ t = Backspace(Write(s, str), w - 1)
                            /\ t.at = s.at + Len(str) - (w - 1) /\ Shown(b2, m + 1, t)
  <2>1. w - 1 \in 0..Len(str) /\ m + 1 \in Nat
    BY <1>1, <1>2, <1>7
  <2>2. QED
    BY <1>1, <1>8, <2>1, PrintedBack
<1>10. t.at = n + 1
  BY <1>1, <1>2, <1>7, <1>9
<1>11. Held(b2, n + 1, m + 1, t)
  BY <1>1, <1>6 DEF Held
<1>12. AddChar(e, c) = Record(b2, n + 1, m + 1, t)
  <2>1. e.num = n /\ e.eol = m /\ e.screen = s /\ e.buf = b
    BY DEF Record
  <2>2. ~(e.eol > Size - 1) /\ e.eol + 1 - e.num = w /\ e.num + 1 = n + 1 /\ e.eol + 1 = m + 1
    BY <1>1, <1>2, <2>1
  <2>3. [MemMove(e.buf, e.num + 1, e.num, (e.eol + 1 - e.num) - 1) EXCEPT ![e.num] = c] = b2
    BY <1>3, <1>4, <2>1, <2>2
  <2>4. Backspace(Write(e.screen, Text(b2, e.num, e.eol + 1 - e.num)), (e.eol + 1 - e.num) - 1) = t
    BY <1>7, <1>9, <2>1, <2>2
  <2>5. AddChar(e, c) = [buf |-> b2, num |-> e.num + 1, eol |-> e.eol + 1, screen |-> t]
    BY <2>2, <2>3, <2>4, Zenon DEF AddChar
  <2>6. QED
    BY <2>1, <2>5 DEF Record
<1>13. IsAdded(b, n, m, c, b2, m + 1)
  BY <1>1, <1>5 DEF IsAdded
<1>14. QED
  BY <1>9, <1>10, <1>11, <1>12, <1>13


LEMMA AddOverwrites ==
  ASSUME NEW b, NEW n, NEW m, NEW s, Held(b, n, m, s), Shown(b, m, s), s.at = n,
         NEW c \in Chars, ~insert, n = m => m <= Size - 1
  PROVE  \E b2, m2, t : /\ AddChar(Record(b, n, m, s), c) = Record(b2, n + 1, m2, t)
                        /\ Held(b2, n + 1, m2, t) /\ Shown(b2, m2, t) /\ t.at = n + 1
                        /\ IsAdded(b, n, m, c, b2, m2)
<1> DEFINE e == Record(b, n, m, s)
<1>1. /\ n \in Nat /\ m \in Nat /\ n <= m /\ m <= Size /\ n < Size /\ Size \in Nat /\ Cells = 0..Size
      /\ b \in [Cells -> Chars \cup {Nul}] /\ s \in Terminal
  BY SizeFacts DEF Held
<1>2. PICK m2 \in Nat : m2 = m + (IF n = m THEN 1 ELSE 0)
  BY <1>1
<1>3. m2 <= Size /\ n + 1 <= m2 /\ (m2 = m \/ (m2 = m + 1 /\ n = m))
  <2>1. CASE n = m
    BY <1>1, <1>2, <2>1
  <2>2. CASE n # m
    <3>1. m2 = m /\ n < m
      BY <1>1, <1>2, <2>2
    <3>2. QED
      BY <1>1, <3>1
  <2>3. QED
    BY <2>1, <2>2
<1>4. PICK b2 \in [Cells -> Chars \cup {Nul}] : b2 = [b EXCEPT ![n] = c]
  BY <1>1
<1>5. \A k \in Cells : b2[k] = IF k = n THEN c ELSE b[k]
  BY <1>1, <1>4
<1>6. \A k \in 0..(m2 - 1) : k \in Cells /\ b2[k] \in Chars
  <2> SUFFICES ASSUME NEW k \in 0..(m2 - 1) PROVE k \in Cells /\ b2[k] \in Chars
    OBVIOUS
  <2>1. k \in Cells /\ (k # n => k \in 0..(m - 1))
    BY <1>1, <1>3
  <2>2. \A j \in 0..(m - 1) : b[j] \in Chars
    BY DEF Held
  <2>3. QED
    BY <1>5, <2>1, <2>2
<1>7. PICK str \in Seq(Symbol) : str = <<c>> /\ Len(str) = 1 /\ str[1] = c
  <2>1. c \in Symbol
    BY DEF Symbol
  <2>2. <<c>> \in Seq(Symbol)
    BY <2>1
  <2>3. Len(<<c>>) = 1 /\ <<c>>[1] = c
    OBVIOUS
  <2>4. QED
    BY <2>2, <2>3, Zenon
<1>8. Completes(str, b2, m2, s)
  <2>1. ASSUME NEW k \in 1..Len(str) PROVE str[k] = Cell(b2, m2, s.at + k - 1)
    <3>1. k = 1 /\ s.at + k - 1 = n /\ n < m2 /\ n \in Cells
      BY <1>1, <1>3, <1>7
    <3>2. QED
      BY <1>5, <1>7, <3>1 DEF Cell
  <2>2. ASSUME NEW k \in Cells, k < s.at \/ k >= s.at + Len(str)
        PROVE  s.text[k] = Cell(b2, m2, k)
    <3>1. s.text[k] = Cell(b, m, k) /\ k \in Nat /\ k # n /\ b2[k] = b[k]
      BY <1>1, <1>5, <1>7, <2>2 DEF Shown
    <3>2. k < m2 <=> k < m
      BY <1>1, <1>3, <3>1
    <3>3. QED
      BY <3>1, <3>2 DEF Cell
  <2>3. QED
    BY <2>1, <2>2 DEF Completes
<1>9. PICK t \in Terminal : t = Write(s, str) /\ t.at = s.at + Len(str) /\ Shown(b2, m2, t)
  BY <1>1, <1>8, Printed
<1>10. t.at = n + 1
  BY <1>1, <1>7, <1>9
<1>11. Held(b2, n + 1, m2, t)
  BY <1>1, <1>3, <1>6 DEF Held
<1>12. AddChar(e, c) = Record(b2, n + 1, m2, t)
  <2>1. e.num = n /\ e.eol = m /\ e.screen = s /\ e.buf = b
    BY DEF Record
  <2>2. ~((insert \/ e.num = e.eol) /\ e.eol > Size - 1)
    BY <1>1, <2>1
  <2>3. e.eol + (IF insert \/ e.num = e.eol THEN 1 ELSE 0) = m2
    BY <1>2, <2>1
  <2>4. AddChar(e, c) = [buf |-> b2, num |-> e.num + 1, eol |-> m2, screen |-> Write(e.screen, <<c>>)]
    BY <1>4, <2>1, <2>2, <2>3, Zenon DEF AddChar
  <2>5. QED
    BY <1>7, <1>9, <2>1, <2>4 DEF Record
<1>13. IsAdded(b, n, m, c, b2, m2)
  <2>1. m2 = IF insert \/ n = m THEN m + 1 ELSE m
    BY <1>1, <1>2
  <2>2. \A k \in 0..(m2 - 1) :
          b2[k] = IF k < n THEN b[k] ELSE IF k = n THEN c ELSE b[IF insert THEN k - 1 ELSE k]
    BY <1>1, <1>5, <1>6
  <2>3. QED
    BY <2>1, <2>2 DEF IsAdded
<1>14. QED
  BY <1>9, <1>10, <1>11, <1>12, <1>13

\* A full line stays as it is, whatever is typed at its end or into it.
NoRoom(n, m) == (insert \/ n = m) /\ m > Size - 1
Added(b, n, m, c, b2, n2, m2) ==
  IF NoRoom(n, m) THEN b2 = b /\ n2 = n /\ m2 = m
  ELSE n2 = n + 1 /\ IsAdded(b, n, m, c, b2, m2)

LEMMA AddSound ==
  ASSUME NEW b, NEW n, NEW m, NEW s, Held(b, n, m, s), Shown(b, m, s), s.at = n, NEW c \in Chars
  PROVE  \E b2, n2, m2, t : /\ AddChar(Record(b, n, m, s), c) = Record(b2, n2, m2, t)
                            /\ Held(b2, n2, m2, t) /\ Shown(b2, m2, t) /\ t.at = n2
                            /\ Added(b, n, m, c, b2, n2, m2)
<1>1. n \in Nat /\ m \in Nat /\ Size \in Nat
  BY SizeFacts DEF Held
<1>2. CASE NoRoom(n, m)
  <2> DEFINE e == Record(b, n, m, s)
  <2>1. e.num = n /\ e.eol = m
    BY DEF Record
  <2>2. (insert \/ e.num = e.eol) /\ e.eol > Size - 1
    BY <1>2, <2>1 DEF NoRoom
  <2>3. AddChar(e, c) = e
    BY <2>2, Zenon DEF AddChar
  <2>4. Added(b, n, m, c, b, n, m)
    BY <1>2 DEF Added
  <2>5. QED
    BY <2>3, <2>4, Zenon
<1>3. CASE ~NoRoom(n, m) /\ insert
  <2>1. m <= Size - 1
    BY <1>1, <1>3 DEF NoRoom
  <2>2. PICK b2, m2, t : /\ AddChar(Record(b, n, m, s), c) = Record(b2, n + 1, m2, t)
                         /\ Held(b2, n + 1, m2, t) /\ Shown(b2, m2, t) /\ t.at = n + 1
                         /\ IsAdded(b, n, m, c, b2, m2)
    BY <1>3, <2>1, AddInserts
  <2>3. Added(b, n, m, c, b2, n + 1, m2)
    BY <1>3, <2>2 DEF Added
  <2>4. QED
    BY <2>2, <2>3, Zenon
<1>4. CASE ~NoRoom(n, m) /\ ~insert
  <2>1. n = m => m <= Size - 1
    BY <1>1, <1>4 DEF NoRoom
  <2>2. PICK b2, m2, t : /\ AddChar(Record(b, n, m, s), c) = Record(b2, n + 1, m2, t)
                         /\ Held(b2, n + 1, m2, t) /\ Shown(b2, m2, t) /\ t.at = n + 1
                         /\ IsAdded(b, n, m, c, b2, m2)
    BY <1>4, <2>1, AddOverwrites
  <2>3. Added(b, n, m, c, b2, n + 1, m2)
    BY <1>4, <2>2 DEF Added
  <2>4. QED
    BY <2>2, <2>3, Zenon
<1>5. QED
  BY <1>2, <1>3, <1>4

\* One character is taken out of the line, at p, and the rest of it moves up.
Removed(b, p, m, b2) == \A k \in 0..(m - 2) : b2[k] = IF k < p THEN b[k] ELSE b[k + 1]

LEMMA RemoveSound ==
  ASSUME NEW b, NEW p, NEW m, NEW s, Held(b, p, m, s), Shown(b, m, s), s.at = p, p < m,
         NEW q \in Nat, q = m - p - 1 \/ q = m - p
  PROVE  \E b2, t : /\ b2 = MemMove(b, p, p + 1, q)
                    /\ t = Backspace(Write(s, Append(Text(b2, p, m - p - 1), Blank)), m - p)
                    /\ Held(b2, p, m - 1, t) /\ Shown(b2, m - 1, t) /\ t.at = p
                    /\ Removed(b, p, m, b2)
<1>1. /\ p \in Nat /\ m \in Nat /\ m <= Size /\ Size \in Nat /\ Cells = 0..Size
      /\ b \in [Cells -> Chars \cup {Nul}] /\ s \in Terminal
  BY SizeFacts DEF Held
<1>2. PICK w \in Nat : w = m - p - 1
  BY <1>1
<1>3. PICK b2 \in [Cells -> Chars \cup {Nul}] :
        /\ b2 = MemMove(b, p, p + 1, q)
        /\ \A k \in Cells : b2[k] = IF k \in p..(p + q - 1) THEN b[k - p + (p + 1)] ELSE b[k]
  <2>1. p + 1 \in Nat /\ (p + 1) + q <= Size + 1
    BY <1>1
  <2>2. IsMoved(MemMove(b, p, p + 1, q), b, p, p + 1, q)
    BY <1>1, <2>1, MoveFacts
  <2>3. QED
    BY <2>2 DEF IsMoved
<1>4. \A k \in 0..(m - 2) : k \in Cells /\ b2[k] = IF k < p THEN b[k] ELSE b[k + 1]
  <2> SUFFICES ASSUME NEW k \in 0..(m - 2)
               PROVE  k \in Cells /\ b2[k] = IF k < p THEN b[k] ELSE b[k + 1]
    OBVIOUS
  <2>1. k \in Cells /\ k \in Nat
    BY <1>1
  <2>2. CASE k < p
    <3>1. k \notin p..(p + q - 1)
      BY <1>1, <2>2
    <3>2. QED
      BY <1>3, <2>1, <2>2, <3>1
  <2>3. CASE k >= p
    <3>1. k \in p..(p + q - 1) /\ k - p + (p + 1) = k + 1
      BY <1>1, <2>1, <2>3
    <3>2. QED
      BY <1>1, <1>3, <2>1, <2>3, <3>1
  <2>4. QED
    BY <1>1, <2>1, <2>2, <2>3
<1>5. \A k \in 0..(m - 2) : b2[k] \in Chars
  <2> SUFFICES ASSUME NEW k \in 0..(m - 2) PROVE b2[k] \in Chars
    OBVIOUS
  <2>1. k \in 0..(m - 1) /\ k + 1 \in 0..(m - 1)
    BY <1>1
  <2>2. b[k] \in Chars /\ b[k + 1] \in Chars
    BY <2>1 DEF Held
  <2>3. QED
    BY <1>4, <2>2
<1>6. PICK tx \in Seq(Symbol) : /\ tx = Text(b2, p, w) /\ Len(tx) = w
                                /\ \A k \in 1..w : tx[k] = b2[p + k - 1]
  <2>1. ASSUME NEW k \in p..(p + w - 1) PROVE b2[k] \in Symbol
    <3>1. k \in 0..(m - 2)
      BY <1>1, <1>2
    <3>2. QED
      BY <1>5, <3>1 DEF Symbol
  <2>2. Holds(Symbol, b2, p, w)
    BY <2>1 DEF Holds
  <2>3. IsText(Symbol, Text(b2, p, w), b2, p, w)
    BY <1>1, <2>2, TextFacts
  <2>4. QED
    BY <2>3 DEF IsText
<1>7. PICK str \in Seq(Symbol) : /\ str = Append(tx, Blank) /\ Len(str) = w + 1
                                 /\ \A k \in 1..(w + 1) : str[k] = IF k = w + 1 THEN Blank ELSE tx[k]
  <2>1. Blank \in Symbol
    BY DEF Symbol
  <2>2. Append(tx, Blank) \in Seq(Symbol) /\ Len(Append(tx, Blank)) = w + 1
    BY <1>6, <2>1
  <2>3. \A k \in 1..(w + 1) : Append(tx, Blank)[k] = IF k = w + 1 THEN Blank ELSE tx[k]
    BY <1>6, <2>1
  <2>4. QED
    BY <2>2, <2>3, Zenon
<1>8. Completes(str, b2, m - 1, s)
  <2>1. ASSUME NEW k \in 1..Len(str) PROVE str[k] = Cell(b2, m - 1, s.at + k - 1)
    <3>1. CASE k = w + 1
      <4>1. ~ (s.at + k - 1 < m - 1)
        BY <1>1, <1>2, <3>1
      <4>2. QED
        BY <1>7, <3>1, <4>1 DEF Cell
    <3>2. CASE k # w + 1
      <4>1. k \in 1..w /\ s.at + k - 1 < m - 1
        BY <1>1, <1>2, <1>7, <3>2
      <4>2. QED
        BY <1>6, <1>7, <3>2, <4>1 DEF Cell
    <3>3. QED
      BY <3>1, <3>2
  <2>2. ASSUME NEW k \in Cells, k < s.at \/ k >= s.at + Len(str)
        PROVE  s.text[k] = Cell(b2, m - 1, k)
    <3>1. s.text[k] = Cell(b, m, k) /\ k \in Nat
      BY <1>1 DEF Shown
    <3>2. CASE k < p
      BY <1>1, <1>4, <3>1, <3>2 DEF Cell
    <3>3. CASE k >= m
      BY <1>1, <3>1, <3>3 DEF Cell
    <3>4. QED
      BY <1>1, <1>2, <1>7, <2>2, <3>1, <3>2, <3>3
  <2>3. QED
    BY <2>1, <2>2 DEF Completes
<1>9. PICK t \in Terminal : /\ t = Backspace(Write(s, str), w + 1)
                            /\ t.at = s.at + Len(str) - (w + 1) /\ Shown(b2, m - 1, t)
  <2>1. w + 1 \in 0..Len(str) /\ m - 1 \in Nat
    BY <1>1, <1>2, <1>7
  <2>2. QED
    BY <1>1, <1>8, <2>1, PrintedBack
<1>10. t.at = p
  BY <1>1, <1>7, <1>9
<1>11. Held(b2, p, m - 1, t)
  <2>1. m - 1 \in Nat /\ p <= m - 1 /\ m - 1 <= Size /\ (m - 1) - 1 = m - 2
    BY <1>1
  <2>2. QED
    BY <1>1, <1>4, <1>5, <2>1 DEF Held
<1>12. t = Backspace(Write(s, Append(Text(b2, p, m - p - 1), Blank)), m - p)
  <2>1. m - p - 1 = w /\ m - p = w + 1
    BY <1>1, <1>2
  <2>2. QED
    BY <1>6, <1>7, <1>9, <2>1
<1>13. Removed(b, p, m, b2)
  BY <1>4 DEF Removed
<1>14. QED
  BY <1>3, <1>9, <1>10, <1>11, <1>12, <1>13, Zenon

\* A line for which the buffer has room.
Fits(str) == str \in Seq(Chars) /\ Len(str) <= Size

LEMMA RecallSound ==
  ASSUME NEW b, NEW n, NEW m, NEW s, Held(b, n, m, s), Shown(b, m, s), s.at = n,
         NEW str, Fits(str)
  PROVE  \E b2, t : /\ Recalled(Record(b, n, m, s), str) = Record(b2, Len(str), Len(str), t)
                    /\ Held(b2, Len(str), Len(str), t) /\ Shown(b2, Len(str), t) /\ t.at = Len(str)
                    /\ \A k \in 0..(Len(str) - 1) : b2[k] = str[k + 1]
<1> DEFINE e == Record(b, n, m, s)
<1>1. PICK h : /\ BeginningOfLine(e) = Record(b, 0, m, h)
               /\ Held(b, 0, m, h) /\ Shown(b, m, h) /\ h.at = 0
  BY HomeSound
<1>2. PICK c : /\ EraseToEol(BeginningOfLine(e)) = Record(b, 0, 0, c)
               /\ Held(b, 0, 0, c) /\ Shown(b, 0, c) /\ c.at = 0
  BY <1>1, EraseSound
<1>3. PICK w : w \in Nat /\ w = Len(str) /\ w <= Size
  BY DEF Fits
<1>4. PICK z : z = 0
  OBVIOUS
<1>5. PICK b2 : b2 = [k \in Cells |-> IF k < w THEN str[k + 1] ELSE b[k]]
  OBVIOUS
<1>6. b2 \in [Cells -> Chars \cup {Nul}]
  <2>1. ASSUME NEW k \in Cells, k < w PROVE str[k + 1] \in Chars
    <3>1. k + 1 \in 1..Len(str)
      BY <1>3, <2>1, SizeFacts
    <3>2. QED
      BY <3>1 DEF Fits
  <2>2. b \in [Cells -> Chars \cup {Nul}]
    BY DEF Held
  <2>3. QED
    BY <1>5, <2>1, <2>2
<1>7. \A k \in 0..(w - 1) : k \in Cells /\ b2[k] = str[k + 1] /\ b2[k] \in Chars
  <2> SUFFICES ASSUME NEW k \in 0..(w - 1) PROVE k \in Cells /\ b2[k] = str[k + 1] /\ b2[k] \in Chars
    OBVIOUS
  <2>1. k \in Cells /\ k + 1 \in 1..Len(str) /\ k < w
    BY <1>3, SizeFacts
  <2>2. QED
    BY <1>5, <2>1 DEF Fits
<1>8. Held(b2, 0, w, c)
  BY <1>2, <1>3, <1>6, <1>7 DEF Held
<1>9. RestMissing(b2, 0, w, c)
  <2> SUFFICES ASSUME NEW k \in Cells, k < 0 \/ k >= w PROVE c.text[k] = Cell(b2, w, k)
    BY DEF RestMissing
  <2>1. k \in Nat /\ c.text[k] = Cell(b, 0, k) /\ ~ (k < w) /\ ~ (k < 0)
    BY <1>2, <1>3, SizeFacts DEF Shown
  <2>2. QED
    BY <2>1 DEF Cell
<1>10. PICK t : /\ RefreshToEol(Record(b2, z, w, c)) = Record(b2, w, w, t)
               /\ Held(b2, w, w, t) /\ Shown(b2, w, t) /\ t.at = w
  <2>1. Held(b2, z, w, c) /\ c.at = z /\ RestMissing(b2, z, w, c)
    BY <1>2, <1>8, <1>9, <1>4
  <2>2. QED
    BY <2>1, RefreshSound
<1>11. Recalled(e, str) = Record(b2, w, w, t)
  <2> DEFINE r == Record(b, z, z, c)
  <2>1. b2 = [k \in Cells |-> IF k < Len(str) THEN str[k + 1] ELSE r.buf[k]]
    BY <1>3, <1>5 DEF Record
  <2>2. [r EXCEPT !.buf = b2, !.eol = w] = Record(b2, z, w, c)
    <3>1. [r EXCEPT !.buf = b2] = Record(b2, z, z, c)
      BY DEF Record
    <3>2. [Record(b2, z, z, c) EXCEPT !.eol = w] = Record(b2, z, w, c)
      BY DEF Record
    <3>3. QED
      BY <3>1, <3>2, Zenon
  <2> HIDE DEF r
  <2>3. EraseToEol(BeginningOfLine(e)) = r
    BY <1>2, <1>4, Zenon DEF r
  <2>4. Recalled(e, str) = RefreshToEol([r EXCEPT !.buf = b2, !.eol = w])
    BY <1>3, <2>1, <2>3, Zenon DEF Recalled
  <2>5. QED
    BY <1>10, <2>2, <2>4, Zenon
<1>12. QED
  BY <1>3, <1>7, <1>10, <1>11

\* The line is printed anew.
LEMMA ReprintSound ==
  ASSUME NEW b, NEW n, NEW m, NEW s, Held(b, n, m, s), Shown(b, m, s), s.at = n
  PROVE  \E t : /\ Reprinted(Record(b, n, m, s)) = Record(b, n, m, t)
                /\ Held(b, n, m, t) /\ Shown(b, m, t) /\ t.at = n
<1> DEFINE e == Record(b, n, m, s)
<1>1. /\ n \in Nat /\ m \in Nat /\ n <= m /\ m <= Size /\ Size \in Nat /\ Cells = 0..Size
      /\ b \in [Cells -> Chars \cup {Nul}] /\ s \in Terminal
  BY SizeFacts DEF Held
<1>2. PICK f \in Terminal : f = FreshLine /\ f.at = 0 /\ \A k \in Cells : f.text[k] = Blank
  <2>1. FreshLine.text \in [Cells -> Symbol] /\ FreshLine.at = 0
    BY DEF FreshLine, Symbol
  <2>2. FreshLine \in Terminal /\ \A k \in Cells : FreshLine.text[k] = Blank
    BY DEF FreshLine, Terminal, Symbol
  <2>3. QED
    BY <2>1, <2>2
<1>3. PICK str \in Seq(Symbol) : /\ str = Text(b, 0, m) /\ Len(str) = m
                                 /\ \A k \in 1..m : str[k] = b[0 + k - 1]
  <2>1. Holds(Symbol, b, 0, m)
    BY <1>1 DEF Held, Symbol, Holds
  <2>2. IsText(Symbol, Text(b, 0, m), b, 0, m)
    BY <1>1, <2>1, TextFacts
  <2>3. QED
    BY <2>2 DEF IsText
<1>4. Completes(str, b, m, f)
  <2>1. ASSUME NEW k \in 1..Len(str) PROVE str[k] = Cell(b, m, f.at + k - 1)
    BY <1>1, <1>2, <1>3 DEF Cell
  <2>2. ASSUME NEW k \in Cells, k < f.at \/ k >= f.at + Len(str) PROVE f.text[k] = Cell(b, m, k)
    BY <1>1, <1>2, <1>3, <2>2 DEF Cell
  <2>3. QED
    BY <2>1, <2>2 DEF Completes
<1>5. PICK t \in Terminal : /\ t = Backspace(Write(f, str), m - n)
                            /\ t.at = f.at + Len(str) - (m - n) /\ Shown(b, m, t)
  <2>1. m - n \in 0..Len(str)
    BY <1>1, <1>3
  <2>2. QED
    BY <1>1, <1>4, <2>1, PrintedBack
<1>6. t.at = n /\ Held(b, n, m, t)
  <2>1. t.at = n
    BY <1>1, <1>2, <1>3, <1>5
  <2>2. QED
    BY <1>5, <2>1 DEF Held
<1>7. Reprinted(e) = Record(b, n, m, t)
  <2>1. e.num = n /\ e.eol = m /\ e.screen = s /\ e.buf = b
    BY DEF Record
  <2>2. Reprinted(e) = [e EXCEPT !.screen = t]
    BY <1>2, <1>3, <1>5, <2>1, Zenon DEF Reprinted
  <2>3. QED
    BY <2>2 DEF Record
<1>8. QED
  BY <1>5, <1>6, <1>7, Zenon

\* The line after the first j characters of x have been typed into it, by insert
\* or over what was there.
Typed(b, n, m, x, j, b2, n2, m2) ==
  /\ n2 = n + j /\ m2 = IF insert THEN m + j ELSE IF n + j <= m THEN m ELSE n + j
  /\ \A idx \in 0..(n - 1) : b2[idx] = b[idx]
  /\ \A idx \in 1..j : b2[n + idx - 1] = x[idx]
  /\ \A idx \in (n + j)..(m2 - 1) : b2[idx] = b[IF insert THEN idx - j ELSE idx]
Completed(b, n, m, x, k, b2, n2, m2) ==
  \E j \in 0..k : Typed(b, n, m, x, j, b2, n2, m2) /\ (j < k => NoRoom(n2, m2))

LEMMA TypedGrows ==
  ASSUME NEW b, NEW n \in Nat, NEW m \in Nat, n <= m, NEW x, NEW j \in Nat,
         NEW b2, NEW n2, NEW m2, Typed(b, n, m, x, j, b2, n2, m2),
         NEW b3, NEW m3, IsAdded(b2, n2, m2, x[j + 1], b3, m3)
  PROVE  Typed(b, n, m, x, j + 1, b3, n2 + 1, m3)
<1>1. PICK p \in Nat : p = n + j
  OBVIOUS
<1>2. n2 = p /\ n <= p
  BY <1>1 DEF Typed
<1>3. m2 \in Nat /\ p <= m2 /\ m2 = IF insert THEN m + j ELSE IF p <= m THEN m ELSE p
  BY <1>1 DEF Typed
<1>4. m3 \in Nat /\ p + 1 <= m3 /\ m3 = IF insert \/ p = m2 THEN m2 + 1 ELSE m2
  BY <1>2, <1>3 DEF IsAdded
<1>5. m3 = IF insert THEN m + (j + 1) ELSE IF n + (j + 1) <= m THEN m ELSE n + (j + 1)
  <2>1. CASE insert
    BY <1>3, <1>4, <2>1
  <2>2. CASE ~insert /\ p < m
    BY <1>1, <1>3, <1>4, <2>2
  <2>3. CASE ~insert /\ p >= m
    BY <1>1, <1>3, <1>4, <2>3
  <2>4. QED
    BY <1>1, <2>1, <2>2, <2>3
<1>6. \A idx \in 0..(m3 - 1) :
        b3[idx] = IF idx < p THEN b2[idx] ELSE IF idx = p THEN x[j + 1] ELSE b2[IF insert THEN idx - 1 ELSE idx]
  BY <1>2 DEF IsAdded
<1>7. ASSUME NEW idx \in 0..(n - 1) PROVE b3[idx] = b[idx]
  <2>1. idx \in 0..(m3 - 1) /\ idx < p
    BY <1>2, <1>4
  <2>2. b2[idx] = b[idx]
    BY DEF Typed
  <2>3. QED
    BY <1>6, <2>1, <2>2
<1>8. ASSUME NEW idx \in 1..(j + 1) PROVE b3[n + idx - 1] = x[idx]
  <2>1. CASE idx = j + 1
    <3>1. n + idx - 1 = p /\ p \in 0..(m3 - 1)
      BY <1>1, <1>4, <2>1
    <3>2. QED
      BY <1>6, <2>1, <3>1
  <2>2. CASE idx # j + 1
    <3>1. idx \in 1..j /\ n + idx - 1 \in 0..(m3 - 1) /\ n + idx - 1 < p
      BY <1>1, <1>4, <2>2
    <3>2. b2[n + idx - 1] = x[idx]
      BY <3>1 DEF Typed
    <3>3. QED
      BY <1>6, <3>1, <3>2
  <2>3. QED
    BY <2>1, <2>2
<1>9. ASSUME NEW idx \in (n + (j + 1))..(m3 - 1) PROVE b3[idx] = b[IF insert THEN idx - (j + 1) ELSE idx]
  <2>1. \A q \in p..(m2 - 1) : b2[q] = b[IF insert THEN q - j ELSE q]
    BY <1>1 DEF Typed
  <2>2. idx \in 0..(m3 - 1) /\ idx > p
    BY <1>1, <1>4
  <2>3. CASE insert
    <3>1. idx - 1 \in p..(m2 - 1) /\ (idx - 1) - j = idx - (j + 1)
      <4>1. m3 = m2 + 1
        BY <1>4, <2>3
      <4>2. idx \in Nat /\ idx <= m2 /\ idx > p
        BY <1>3, <2>2, <4>1
      <4>3. QED
        BY <1>1, <1>3, <4>2
    <3>2. b3[idx] = b2[idx - 1]
      BY <1>1, <1>6, <2>2, <2>3
    <3>3. b2[idx - 1] = b[(idx - 1) - j]
      BY <2>1, <2>3, <3>1
    <3>4. QED
      BY <2>3, <3>1, <3>2, <3>3
  <2>4. CASE ~insert
    <3>1. idx \in p..(m2 - 1)
      <4>1. CASE p = m2
        BY <1>4, <2>2, <2>4, <4>1
      <4>2. CASE p # m2
        BY <1>3, <1>4, <2>2, <2>4, <4>2
      <4>3. QED
        BY <4>1, <4>2
    <3>2. b3[idx] = b2[idx]
      BY <1>1, <1>6, <2>2, <2>4
    <3>3. QED
      BY <2>1, <2>4, <3>1, <3>2
  <2>5. QED
    BY <2>3, <2>4
<1>10. n2 + 1 = n + (j + 1)
  BY <1>1, <1>2
<1>11. QED
  BY <1>5, <1>7, <1>8, <1>9, <1>10 DEF Typed

LEMMA TypedStart ==
  ASSUME NEW b, NEW n \in Nat, NEW m \in Nat, n <= m, NEW x
  PROVE  Typed(b, n, m, x, 0, b, n, m)
<1>1. m = IF insert THEN m + 0 ELSE IF n + 0 <= m THEN m ELSE n + 0
  OBVIOUS
<1>2. \A idx \in (n + 0)..(m - 1) : b[idx] = b[IF insert THEN idx - 0 ELSE idx]
  OBVIOUS
<1>3. QED
  BY <1>1, <1>2 DEF Typed

LEMMA CompletedGrows ==
  ASSUME NEW b, NEW n \in Nat, NEW m \in Nat, n <= m, NEW x, NEW k \in Nat,
         NEW b2, NEW n2, NEW m2, Completed(b, n, m, x, k, b2, n2, m2),
         NEW b3, NEW n3, NEW m3, Added(b2, n2, m2, x[k + 1], b3, n3, m3)
  PROVE  Completed(b, n, m, x, k + 1, b3, n3, m3)
<1>1. PICK j \in 0..k : Typed(b, n, m, x, j, b2, n2, m2) /\ (j < k => NoRoom(n2, m2))
  BY DEF Completed
<1>2. CASE NoRoom(n2, m2)
  <2>1. b3 = b2 /\ n3 = n2 /\ m3 = m2
    BY <1>2 DEF Added
  <2>2. j \in 0..(k + 1) /\ Typed(b, n, m, x, j, b3, n3, m3) /\ NoRoom(n3, m3)
    BY <1>1, <1>2, <2>1
  <2>3. QED
    BY <2>2, Zenon DEF Completed
<1>3. CASE ~NoRoom(n2, m2)
  <2>1. j = k /\ k + 1 \in 0..(k + 1) /\ ~(k + 1 < k + 1)
    BY <1>1, <1>3
  <2>2. n3 = n2 + 1 /\ IsAdded(b2, n2, m2, x[k + 1], b3, m3)
    BY <1>3 DEF Added
  <2>3. Typed(b, n, m, x, k, b2, n2, m2)
    BY <1>1, <2>1
  <2>4. Typed(b, n, m, x, k + 1, b3, n3, m3)
    BY <2>2, <2>3, TypedGrows
  <2>5. QED
    BY <2>1, <2>4, Zenon DEF Completed
<1>4. QED
  BY <1>2, <1>3

\* Typing a text keeps the line sound; what is typed behind a full line is lost.
IsCompleted(e, b, n, m, x, k) ==
  \E b2, n2, m2, t : /\ e = Record(b2, n2, m2, t)
                     /\ Held(b2, n2, m2, t) /\ Shown(b2, m2, t) /\ t.at = n2
                     /\ Completed(b, n, m, x, k, b2, n2, m2)

LEMMA CompletionSound ==
  ASSUME NEW b, NEW n, NEW m, NEW s, Held(b, n, m, s), Shown(b, m, s), s.at = n, NEW x \in Seq(Chars)
  PROVE  IsCompleted(FoldLeft(AddChar, Record(b, n, m, s), x), b, n, m, x, Len(x))
<1> DEFINE e == Record(b, n, m, s)
<1>1. PICK f : InTurn(f, e, x)
  BY TypedInTurn
<1>2. n \in Nat /\ m \in Nat /\ n <= m
  BY DEF Held
<1> DEFINE S == {k \in 0..Len(x) : IsCompleted(f[k], b, n, m, x, k)}
<1>3. 0 \in S
  <2>1. Typed(b, n, m, x, 0, b, n, m) /\ 0 \in 0..0 /\ ~(0 < 0)
    BY <1>2, TypedStart
  <2>2. Completed(b, n, m, x, 0, b, n, m)
    BY <2>1, Zenon DEF Completed
  <2>3. IsCompleted(f[0], b, n, m, x, 0)
    BY <1>1, <2>2, Zenon DEF IsCompleted, InTurn
  <2>4. 0 \in 0..Len(x)
    OBVIOUS
  <2>5. QED
    BY <2>3, <2>4
<1>4. \A k \in 0..Len(x) : k \in S /\ k < Len(x) => k + 1 \in S
  <2> SUFFICES ASSUME NEW k \in 0..Len(x), k \in S, k < Len(x) PROVE k + 1 \in S
    OBVIOUS
  <2>1. IsCompleted(f[k], b, n, m, x, k)
    OBVIOUS
  <2>2. PICK b2, n2, m2, t : /\ f[k] = Record(b2, n2, m2, t)
                             /\ Held(b2, n2, m2, t) /\ Shown(b2, m2, t) /\ t.at = n2
                             /\ Completed(b, n, m, x, k, b2, n2, m2)
    BY <2>1 DEF IsCompleted
  <2>3. k \in Nat /\ k + 1 \in 0..Len(x) /\ k + 1 \in 1..Len(x) /\ (k + 1) - 1 = k
    OBVIOUS
  <2>4. PICK q : q = k + 1
    OBVIOUS
  <2>5. PICK c \in Chars : c = x[q]
    BY <2>3, <2>4
  <2>6. PICK b3, n3, m3, u : /\ AddChar(Record(b2, n2, m2, t), c) = Record(b3, n3, m3, u)
                             /\ Held(b3, n3, m3, u) /\ Shown(b3, m3, u) /\ u.at = n3
                             /\ Added(b2, n2, m2, c, b3, n3, m3)
    BY <2>2, AddSound
  <2>7. f[q] = Record(b3, n3, m3, u)
    <3>1. f[q] = AddChar(f[q - 1], x[q]) /\ q - 1 = k
      BY <1>1, <2>3, <2>4 DEF InTurn
    <3>2. QED
      BY <2>2, <2>5, <2>6, <3>1, Zenon
  <2>8. Added(b2, n2, m2, x[k + 1], b3, n3, m3)
    BY <2>4, <2>5, <2>6
  <2>9. Completed(b, n, m, x, k + 1, b3, n3, m3)
    BY <1>2, <2>2, <2>3, <2>8, CompletedGrows
  <2>10. IsCompleted(f[q], b, n, m, x, q)
    <3>1. Completed(b, n, m, x, q, b3, n3, m3)
      BY <2>4, <2>9
    <3>2. QED
      BY <2>6, <2>7, <3>1, Zenon DEF IsCompleted
  <2>11. QED
    BY <2>3, <2>4, <2>10
<1> HIDE DEF S
<1>5. Len(x) \in S
  <2>1. Len(x) \in Nat /\ Len(x) \in 0..Len(x)
    OBVIOUS
  <2>2. \A k \in 0..Len(x) : k \in S
    BY <1>3, <1>4, <2>1, CountingUp
  <2>3. QED
    BY <2>1, <2>2
<1>6. QED
  BY <1>1, <1>5 DEF S, InTurn

--------------------------------------------------------------------------------
(* What the user sees is what the BIOS will execute.                            *)

LineOK ==
  /\ buf \in [Cells -> Chars \cup {Nul}] /\ num \in 0..eolNum /\ eolNum \in 0..Size
  /\ \A idx \in Cells : buf[idx] = Nul <=> idx >= eolNum
  /\ screen \in [text : [Cells -> Chars \cup {Nul, Blank}], at : Nat]
  /\ ScreenShowsLine
RingOK ==
  /\ histMax \in 0..(HistMax - 1) /\ histAddIdx \in 0..histMax /\ histCur \in -1..histMax
  /\ histLines \in [0..(HistMax - 1) -> Lines(Size - 1)]
FlagsOK == insert \in BOOLEAN /\ tabPressed \in BOOLEAN /\ overrun \in BOOLEAN

LEMMA ScreenInvParts == ScreenInv <=> LineOK /\ RingOK /\ FlagsOK /\ (overrun => eolNum = Size)
BY DEF ScreenInv, EditorTypeOK, LineOK, RingOK, FlagsOK

\* The line of the state, as the operators take it.
LineShown == /\ Held(buf, num, eolNum, screen) /\ Shown(buf, eolNum, screen) /\ screen.at = num
           /\ Line = Record(buf, num, eolNum, screen)

LEMMA LineIsCurrent == LineOK => LineShown
<1> SUFFICES ASSUME LineOK PROVE LineShown
  OBVIOUS
<1>1. /\ Size \in Nat /\ Cells = 0..Size /\ eolNum \in 0..Size /\ num \in 0..eolNum
      /\ buf \in [Cells -> Chars \cup {Nul}]
  BY SizeFacts DEF LineOK
<1>2. \A k \in 0..(eolNum - 1) : k \in Cells /\ buf[k] \in Chars
  <2> SUFFICES ASSUME NEW k \in 0..(eolNum - 1) PROVE k \in Cells /\ buf[k] \in Chars
    OBVIOUS
  <2>1. k \in Cells /\ ~(k >= eolNum)
    BY <1>1
  <2>2. buf[k] # Nul
    BY <2>1 DEF LineOK
  <2>3. QED
    BY <1>1, <2>1, <2>2
<1>3. screen \in Terminal
  BY DEF LineOK, Terminal, Symbol
<1>4. Held(buf, num, eolNum, screen)
  BY <1>1, <1>2, <1>3 DEF Held
<1>5. Shown(buf, eolNum, screen) /\ screen.at = num
  BY DEF LineOK, ScreenShowsLine, Shown, Cell
<1>6. Line = Record(buf, num, eolNum, screen)
  BY DEF Line, Record
<1>7. QED
  BY <1>4, <1>5, <1>6 DEF LineShown

\* The cells behind the end of a line are empty.
Kept(b, m) == [idx \in Cells |-> IF idx < m THEN b[idx] ELSE Nul]

LEMMA LineIsKept == LineOK => Kept(buf, eolNum) = buf
<1> SUFFICES ASSUME LineOK PROVE Kept(buf, eolNum) = buf
  OBVIOUS
<1>1. buf = [idx \in Cells |-> buf[idx]]
  BY DEF LineOK
<1>2. ASSUME NEW idx \in Cells PROVE buf[idx] = IF idx < eolNum THEN buf[idx] ELSE Nul
  <2>1. idx \in Nat /\ eolNum \in Nat
    BY SizeFacts DEF LineOK
  <2>2. QED
    BY <2>1 DEF LineOK
<1>3. QED
  BY <1>1, <1>2, Zenon DEF Kept

\* The line becomes a sound one.
Became(b, n, m) == LineOK' /\ num' = n /\ eolNum' = m /\ buf' = Kept(b, m)

LEMMA BecomeSound ==
  ASSUME NEW e, NEW b, NEW n, NEW m, NEW s, e = Record(b, n, m, s),
         Held(b, n, m, s), Shown(b, m, s), s.at = n, Become(e)
  PROVE  Became(b, n, m)
<1>1. e.buf = b /\ e.num = n /\ e.eol = m /\ e.screen = s
  BY DEF Record
<1>2. buf' = Kept(b, m) /\ num' = n /\ eolNum' = m /\ screen' = s
  BY <1>1, Zenon DEF Become, Kept
<1>3. /\ n \in Nat /\ m \in Nat /\ n <= m /\ m <= Size /\ Size \in Nat /\ Cells = 0..Size
      /\ \A k \in 0..(m - 1) : b[k] \in Chars
  BY SizeFacts DEF Held
<1>4. \A idx \in Cells : buf'[idx] = IF idx < m THEN b[idx] ELSE Nul
  BY <1>2 DEF Kept
<1>5. ASSUME NEW idx \in Cells
      PROVE  /\ (IF idx < m THEN b[idx] ELSE Nul) \in Chars \cup {Nul}
             /\ (IF idx < m THEN b[idx] ELSE Nul) = Nul <=> idx >= m
             /\ (IF idx < m THEN b[idx] ELSE Blank) = IF idx < m THEN buf'[idx] ELSE Blank
  <2>1. idx \in Nat
    BY <1>3
  <2>2. CASE idx < m
    <3>1. idx \in 0..(m - 1) /\ ~(idx >= m)
      BY <1>3, <2>1, <2>2
    <3>2. b[idx] \in Chars /\ Nul \notin Chars /\ buf'[idx] = b[idx]
      BY <1>3, <1>4, <2>2, <3>1, SizeFacts
    <3>3. QED
      BY <2>2, <3>1, <3>2
  <2>3. CASE ~(idx < m)
    BY <1>3, <2>1, <2>3
  <2>4. QED
    BY <2>2, <2>3
<1>6. buf' \in [Cells -> Chars \cup {Nul}]
  BY <1>2, <1>5 DEF Kept
<1>7. \A idx \in Cells : buf'[idx] = Nul <=> idx >= eolNum'
  <2> SUFFICES ASSUME NEW idx \in Cells PROVE buf'[idx] = Nul <=> idx >= m
    BY <1>2
  <2>1. QED
    BY <1>4, <1>5
<1>8. screen' \in [text : [Cells -> Chars \cup {Nul, Blank}], at : Nat]
  BY <1>2 DEF Held, Terminal, Symbol
<1>9. \A idx \in Cells : screen'.text[idx] = IF idx < eolNum' THEN buf'[idx] ELSE Blank
  <2> SUFFICES ASSUME NEW idx \in Cells PROVE s.text[idx] = IF idx < m THEN buf'[idx] ELSE Blank
    BY <1>2
  <2>1. s.text[idx] = IF idx < m THEN b[idx] ELSE Blank
    BY DEF Shown, Cell
  <2>2. QED
    BY <1>5, <2>1
<1>10. num' \in 0..eolNum' /\ eolNum' \in 0..Size /\ screen'.at = num'
  BY <1>2, <1>3
<1>11. LineOK'
  BY <1>6, <1>7, <1>8, <1>9, <1>10 DEF LineOK, ScreenShowsLine
<1>12. QED
  BY <1>2, <1>11 DEF Became

\* What each key makes of the line.
LEMMA TypeDoes ==
  ASSUME LineOK, NEW c \in Chars, Type(c)
  PROVE  \E b, n, m : Added(buf, num, eolNum, c, b, n, m) /\ Became(b, n, m)
<1>1. LineShown
  BY LineIsCurrent
<1>2. PICK b, n, m, t : /\ AddChar(Line, c) = Record(b, n, m, t)
                        /\ Held(b, n, m, t) /\ Shown(b, m, t) /\ t.at = n
                        /\ Added(buf, num, eolNum, c, b, n, m)
  BY <1>1, AddSound DEF LineShown
<1>3. Become(AddChar(Line, c))
  BY DEF Type, EditsTo
<1>4. Became(b, n, m)
  BY <1>2, <1>3, BecomeSound
<1>5. QED
  BY <1>2, <1>4

LEMMA HomeDoes ==
  ASSUME LineOK, Home
  PROVE  Became(buf, 0, eolNum)
<1>1. LineShown
  BY LineIsCurrent
<1>2. PICK t : /\ BeginningOfLine(Line) = Record(buf, 0, eolNum, t)
               /\ Held(buf, 0, eolNum, t) /\ Shown(buf, eolNum, t) /\ t.at = 0
  BY <1>1, HomeSound DEF LineShown
<1>3. Become(BeginningOfLine(Line))
  BY DEF Home, EditsTo
<1>4. QED
  BY <1>2, <1>3, BecomeSound

LEMMA EndDoes ==
  ASSUME LineOK, End
  PROVE  Became(buf, eolNum, eolNum)
<1>1. LineShown
  BY LineIsCurrent
<1>2. RestMissing(buf, num, eolNum, screen)
  BY <1>1 DEF LineShown, Shown, RestMissing
<1>3. PICK t : /\ RefreshToEol(Line) = Record(buf, eolNum, eolNum, t)
               /\ Held(buf, eolNum, eolNum, t) /\ Shown(buf, eolNum, t) /\ t.at = eolNum
  BY <1>1, <1>2, RefreshSound DEF LineShown
<1>4. Become(RefreshToEol(Line))
  BY DEF End, EditsTo
<1>5. QED
  BY <1>3, <1>4, BecomeSound

LEMMA EraseRestDoes ==
  ASSUME LineOK, EraseRest
  PROVE  Became(buf, num, num)
<1>1. LineShown
  BY LineIsCurrent
<1>2. PICK t : /\ EraseToEol(Line) = Record(buf, num, num, t)
               /\ Held(buf, num, num, t) /\ Shown(buf, num, t) /\ t.at = num
  BY <1>1, EraseSound DEF LineShown
<1>3. Become(EraseToEol(Line))
  BY DEF EraseRest, EditsTo
<1>4. QED
  BY <1>2, <1>3, BecomeSound

LEMMA EraseLineDoes ==
  ASSUME LineOK, EraseLine
  PROVE  Became(buf, 0, 0)
<1>1. LineShown
  BY LineIsCurrent
<1>2. PICK h : /\ BeginningOfLine(Line) = Record(buf, 0, eolNum, h)
               /\ Held(buf, 0, eolNum, h) /\ Shown(buf, eolNum, h) /\ h.at = 0
  BY <1>1, HomeSound DEF LineShown
<1>3. PICK t : /\ EraseToEol(BeginningOfLine(Line)) = Record(buf, 0, 0, t)
               /\ Held(buf, 0, 0, t) /\ Shown(buf, 0, t) /\ t.at = 0
  BY <1>2, EraseSound
<1>4. Become(EraseToEol(BeginningOfLine(Line)))
  BY DEF EraseLine, EditsTo
<1>5. QED
  BY <1>3, <1>4, BecomeSound

LEMMA RightDoes ==
  ASSUME LineOK, Right
  PROVE  num < eolNum /\ Became(buf, num + 1, eolNum)
<1>1. LineShown /\ num < eolNum
  BY LineIsCurrent DEF Right
<1>2. /\ num \in Nat /\ eolNum \in Nat /\ screen \in Terminal /\ buf[num] \in Chars
  <2>1. num \in 0..(eolNum - 1) /\ eolNum \in Nat /\ screen \in Terminal
    BY <1>1 DEF LineShown, Held
  <2>2. QED
    BY <1>1, <2>1 DEF LineShown, Held
<1>3. PICK str \in Seq(Symbol) : str = <<buf[num]>> /\ Len(str) = 1 /\ str[1] = buf[num]
  <2>1. buf[num] \in Symbol
    BY <1>2 DEF Symbol
  <2>2. <<buf[num]>> \in Seq(Symbol)
    BY <2>1
  <2>3. Len(<<buf[num]>>) = 1 /\ <<buf[num]>>[1] = buf[num]
    OBVIOUS
  <2>4. QED
    BY <2>2, <2>3, Zenon
<1>4. Completes(str, buf, eolNum, screen)
  <2>1. ASSUME NEW k \in 1..Len(str) PROVE str[k] = Cell(buf, eolNum, screen.at + k - 1)
    <3>1. k = 1 /\ screen.at + k - 1 = num
      BY <1>1, <1>2, <1>3 DEF LineShown
    <3>2. QED
      BY <1>1, <1>3, <3>1 DEF Cell
  <2>2. QED
    BY <1>1, <2>1 DEF Completes, LineShown, Shown
<1>5. PICK t \in Terminal : /\ t = Write(screen, str) /\ t.at = screen.at + Len(str)
                            /\ Shown(buf, eolNum, t)
  BY <1>2, <1>4, Printed
<1>6. PICK n \in Nat : n = num + 1
  BY <1>2
<1>7. t.at = n
  BY <1>1, <1>3, <1>5, <1>6 DEF LineShown
<1>8. Held(buf, n, eolNum, t)
  BY <1>1, <1>2, <1>6 DEF LineShown, Held
<1>9. Become(Record(buf, n, eolNum, t))
  <2>1. Line.screen = screen /\ Line = Record(buf, num, eolNum, screen)
    BY <1>1 DEF LineShown, Line
  <2>2. [Line EXCEPT !.num = num + 1, !.screen = Write(@, <<buf[num]>>)]
        = [Line EXCEPT !.num = n, !.screen = t]
    BY <1>3, <1>5, <1>6, <2>1, Zenon
  <2>3. Become([Line EXCEPT !.num = n, !.screen = t])
    BY <2>2, Zenon DEF Right, EditsTo
  <2>4. [Line EXCEPT !.num = n] = Record(buf, n, eolNum, screen)
    BY <2>1 DEF Record
  <2>5. [Record(buf, n, eolNum, screen) EXCEPT !.screen = t] = Record(buf, n, eolNum, t)
    BY DEF Record
  <2>6. QED
    BY <2>3, <2>4, <2>5, Zenon
<1>10. Became(buf, n, eolNum)
  BY <1>5, <1>7, <1>8, <1>9, BecomeSound
<1>11. QED
  BY <1>1, <1>6, <1>10

LEMMA LeftDoes ==
  ASSUME LineOK, Left
  PROVE  num > 0 /\ Became(buf, num - 1, eolNum)
<1>1. LineShown /\ num > 0
  BY LineIsCurrent DEF Left
<1>2. num \in Nat /\ eolNum \in Nat /\ screen \in Terminal
  BY <1>1 DEF LineShown, Held
<1>3. PICK n \in Nat : n = num - 1
  BY <1>1, <1>2
<1>4. PICK t \in Terminal : t = Backspace(screen, 1) /\ t.at = n /\ t.text = screen.text
  <2>1. 1 <= screen.at /\ screen.at - 1 = n
    BY <1>1, <1>2, <1>3 DEF LineShown
  <2>2. QED
    BY <1>2, <2>1, BackspaceFacts
<1>5. Held(buf, n, eolNum, t) /\ Shown(buf, eolNum, t)
  BY <1>1, <1>2, <1>3, <1>4 DEF LineShown, Held, Shown
<1>6. Become(Record(buf, n, eolNum, t))
  <2>1. Line.screen = screen /\ Line = Record(buf, num, eolNum, screen)
    BY <1>1 DEF LineShown, Line
  <2>2. [Line EXCEPT !.num = num - 1, !.screen = Backspace(@, 1)]
        = [Line EXCEPT !.num = n, !.screen = t]
    BY <1>3, <1>4, <2>1, Zenon
  <2>3. Become([Line EXCEPT !.num = n, !.screen = t])
    BY <2>2, Zenon DEF Left, EditsTo
  <2>4. [Line EXCEPT !.num = n] = Record(buf, n, eolNum, screen)
    BY <2>1 DEF Record
  <2>5. [Record(buf, n, eolNum, screen) EXCEPT !.screen = t] = Record(buf, n, eolNum, t)
    BY DEF Record
  <2>6. QED
    BY <2>3, <2>4, <2>5, Zenon
<1>7. Became(buf, n, eolNum)
  BY <1>4, <1>5, <1>6, BecomeSound
<1>8. QED
  BY <1>1, <1>3, <1>7

\* The three keys that take a character out.
Takes(p, n) == \E b : Removed(buf, p, eolNum, b) /\ Became(b, n, eolNum - 1)

LEMMA DeleteForwardDoes ==
  ASSUME LineOK, DeleteForward
  PROVE  num < eolNum /\ Takes(num, num)
<1>1. LineShown /\ num < eolNum
  BY LineIsCurrent DEF DeleteForward
<1>2. num \in Nat /\ eolNum \in Nat
  BY <1>1 DEF LineShown, Held
<1>3. PICK q \in Nat : q = eolNum - num - 1
  BY <1>1, <1>2
<1>4. PICK b, t : /\ b = MemMove(buf, num, num + 1, q)
                  /\ t = Backspace(Write(screen, Append(Text(b, num, eolNum - num - 1), Blank)), eolNum - num)
                  /\ Held(b, num, eolNum - 1, t) /\ Shown(b, eolNum - 1, t) /\ t.at = num
                  /\ Removed(buf, num, eolNum, b)
  BY <1>1, <1>3, RemoveSound DEF LineShown
<1>5. (eolNum - num - 1) + 1 = eolNum - num
  BY <1>2
<1>6. Become(Record(b, num, eolNum - 1, t))
  <2>1. Become([buf |-> b, num |-> num, eol |-> eolNum - 1, screen |-> t])
    BY <1>3, <1>4, <1>5, Zenon DEF DeleteForward, EditsTo
  <2>2. QED
    BY <2>1, Zenon DEF Record
<1>7. Became(b, num, eolNum - 1)
  BY <1>4, <1>6, BecomeSound
<1>8. QED
  BY <1>1, <1>4, <1>7 DEF Takes

LEMMA DeleteDoes ==
  ASSUME LineOK, Delete
  PROVE  num < eolNum /\ Takes(num, num)
<1>1. LineShown /\ num < eolNum
  BY LineIsCurrent DEF Delete
<1>2. num \in Nat /\ eolNum \in Nat
  BY <1>1 DEF LineShown, Held
<1>3. PICK q \in Nat : q = eolNum - num
  BY <1>1, <1>2
<1>4. PICK b, t : /\ b = MemMove(buf, num, num + 1, q)
                  /\ t = Backspace(Write(screen, Append(Text(b, num, eolNum - num - 1), Blank)), eolNum - num)
                  /\ Held(b, num, eolNum - 1, t) /\ Shown(b, eolNum - 1, t) /\ t.at = num
                  /\ Removed(buf, num, eolNum, b)
  BY <1>1, <1>3, RemoveSound DEF LineShown
<1>5. Become(Record(b, num, eolNum - 1, t))
  <2>1. Become([buf |-> b, num |-> num, eol |-> eolNum - 1, screen |-> t])
    BY <1>3, <1>4, Zenon DEF Delete, EditsTo
  <2>2. QED
    BY <2>1, Zenon DEF Record
<1>6. Became(b, num, eolNum - 1)
  BY <1>4, <1>5, BecomeSound
<1>7. QED
  BY <1>1, <1>4, <1>6 DEF Takes

LEMMA DeleteBackwardDoes ==
  ASSUME LineOK, DeleteBackward
  PROVE  num > 0 /\ Takes(num - 1, num - 1)
<1>1. LineShown /\ num > 0
  BY LineIsCurrent DEF DeleteBackward
<1>2. num \in Nat /\ eolNum \in Nat /\ num <= eolNum /\ screen \in Terminal
  BY <1>1 DEF LineShown, Held
<1>3. PICK p \in Nat : p = num - 1
  BY <1>1, <1>2
<1>4. PICK s \in Terminal : s = Backspace(screen, 1) /\ s.at = p /\ s.text = screen.text
  <2>1. 1 <= screen.at /\ screen.at - 1 = p
    BY <1>1, <1>2, <1>3 DEF LineShown
  <2>2. QED
    BY <1>2, <2>1, BackspaceFacts
<1>5. Held(buf, p, eolNum, s) /\ Shown(buf, eolNum, s) /\ p < eolNum
  BY <1>1, <1>2, <1>3, <1>4 DEF LineShown, Held, Shown
<1>6. PICK q \in Nat : q = eolNum - num /\ q = eolNum - p - 1
  BY <1>2, <1>3
<1>7. PICK b, t : /\ b = MemMove(buf, p, p + 1, q)
                  /\ t = Backspace(Write(s, Append(Text(b, p, eolNum - p - 1), Blank)), eolNum - p)
                  /\ Held(b, p, eolNum - 1, t) /\ Shown(b, eolNum - 1, t) /\ t.at = p
                  /\ Removed(buf, p, eolNum, b)
  BY <1>4, <1>5, <1>6, RemoveSound
<1>8. p + 1 = num /\ q + 1 = eolNum - p
  BY <1>2, <1>3, <1>6
<1>9. Become(Record(b, p, eolNum - 1, t))
  <2>1. b = MemMove(buf, num - 1, num, eolNum - num)
    BY <1>3, <1>6, <1>7, <1>8, Zenon
  <2>2. t = Backspace(Write(s, Append(Text(b, num - 1, eolNum - num), Blank)), (eolNum - num) + 1)
    BY <1>3, <1>6, <1>7, <1>8, Zenon
  <2>3. Become([buf |-> b, num |-> p, eol |-> eolNum - 1, screen |-> t])
    BY <1>3, <1>4, <2>1, <2>2, Zenon DEF DeleteBackward, EditsTo
  <2>4. QED
    BY <2>3, Zenon DEF Record
<1>10. Became(b, p, eolNum - 1)
  BY <1>7, <1>9, BecomeSound
<1>11. Takes(p, p)
  BY <1>7, <1>10 DEF Takes
<1>12. QED
  BY <1>1, <1>3, <1>11

LEMMA FreshDoes ==
  ASSUME LineOK, FreshReadline
  PROVE  Became(buf, 0, 0)
<1>1. LineShown
  BY LineIsCurrent
<1>2. FreshLine \in Terminal /\ FreshLine.at = 0 /\ \A k \in Cells : FreshLine.text[k] = Blank
  BY DEF FreshLine, Terminal, Symbol
<1>3. Shown(buf, 0, FreshLine)
  <2>1. ASSUME NEW k \in Cells PROVE Cell(buf, 0, k) = Blank
    <3>1. k \in Nat
      BY SizeFacts
    <3>2. QED
      BY <3>1 DEF Cell
  <2>2. QED
    BY <1>2, <2>1 DEF Shown
<1>4. Held(buf, 0, 0, FreshLine)
  BY <1>1, <1>2, SizeFacts DEF LineShown, Held
<1>5. Become(Record(buf, 0, 0, FreshLine))
  BY Zenon DEF FreshReadline, Record
<1>6. QED
  BY <1>2, <1>3, <1>4, <1>5, BecomeSound

\* A line of the history, on the line.
Calls(str) == \E b : /\ \A k \in 0..(Len(str) - 1) : b[k] = str[k + 1]
                     /\ Became(b, Len(str), Len(str))

LEMMA RecallDoes ==
  ASSUME LineOK, NEW slot, NEW str, Fits(str), Shows(slot, str)
  PROVE  Calls(str)
<1>1. LineShown
  BY LineIsCurrent
<1>2. PICK b, t : /\ Recalled(Line, str) = Record(b, Len(str), Len(str), t)
                  /\ Held(b, Len(str), Len(str), t) /\ Shown(b, Len(str), t) /\ t.at = Len(str)
                  /\ \A k \in 0..(Len(str) - 1) : b[k] = str[k + 1]
  BY <1>1, RecallSound DEF LineShown
<1>3. Become(Recalled(Line, str))
  BY DEF Shows
<1>4. Became(b, Len(str), Len(str))
  BY <1>2, <1>3, BecomeSound
<1>5. QED
  BY <1>2, <1>4 DEF Calls

--------------------------------------------------------------------------------
(* Strings, place by place.                                                     *)

SameText(s, t) == Len(s) = Len(t) /\ \A idx \in 1..Len(s) : s[idx] = t[idx]
StartsWith(s, t) == Len(s) <= Len(t) /\ \A idx \in 1..Len(s) : s[idx] = t[idx]
IsSlice(u, s, m, n) ==
  u \in Seq(Chars) /\ Len(u) = n - m + 1 /\ \A idx \in 1..(n - m + 1) : u[idx] = s[m + idx - 1]

LEMMA SameTextEqual ==
  ASSUME NEW s \in Seq(Chars), NEW t \in Seq(Chars), SameText(s, t)
  PROVE  s = t
BY SeqEqual DEF SameText

LEMMA SliceFacts ==
  ASSUME NEW s \in Seq(Chars), NEW m \in Nat \ {0}, NEW n \in Nat, m <= n + 1, n <= Len(s)
  PROVE  IsSlice(SubSeq(s, m, n), s, m, n)
<1>1. \A idx \in m..n : s[idx] \in Chars
  OBVIOUS
<1>2. SubSeq(s, m, n) \in Seq(Chars)
  BY <1>1, SubSeqProperties
<1>3. Len(SubSeq(s, m, n)) = n - m + 1
  BY <1>1, SubSeqProperties
<1>4. \A idx \in 1..(n - m + 1) : SubSeq(s, m, n)[idx] = s[m + idx - 1]
  OBVIOUS
<1>5. QED
  BY <1>2, <1>3, <1>4 DEF IsSlice

LEMMA StartsFacts ==
  ASSUME NEW s \in Seq(Chars), NEW t \in Seq(Chars)
  PROVE  IsPrefix(s, t) <=> StartsWith(s, t)
<1>1. Len(s) \in Nat /\ Len(t) \in Nat
  OBVIOUS
<1>2. CASE Len(s) > Len(t)
  BY <1>1, <1>2 DEF IsPrefix, StartsWith
<1>3. CASE Len(s) <= Len(t)
  <2>1. PICK n \in Nat : n = Len(s)
    BY <1>1
  <2>2. IsSlice(SubSeq(s, 1, n), s, 1, n) /\ IsSlice(SubSeq(t, 1, n), t, 1, n)
    BY <1>1, <1>3, <2>1, SliceFacts
  <2>3. PICK u, v : u = SubSeq(s, 1, n) /\ v = SubSeq(t, 1, n) /\ IsSlice(u, s, 1, n) /\ IsSlice(v, t, 1, n)
    BY <2>2, Zenon
  <2>4. /\ u \in Seq(Chars) /\ Len(u) = n /\ \A idx \in 1..n : u[idx] = s[idx]
        /\ v \in Seq(Chars) /\ Len(v) = n /\ \A idx \in 1..n : v[idx] = t[idx]
    <3>1. n - 1 + 1 = n /\ \A idx \in 1..n : 1 + idx - 1 = idx
      BY <2>1
    <3>2. QED
      BY <2>3, <3>1 DEF IsSlice
  <2>5. u = v <=> \A idx \in 1..n : s[idx] = t[idx]
    <3>1. ASSUME \A idx \in 1..n : s[idx] = t[idx] PROVE SameText(u, v)
      BY <2>4, <3>1 DEF SameText
    <3>2. QED
      BY <2>4, <3>1, SameTextEqual
  <2>6. QED
    BY <1>3, <2>1, <2>3, <2>4, <2>5 DEF IsPrefix, StartsWith
<1>4. QED
  BY <1>1, <1>2, <1>3

--------------------------------------------------------------------------------
(* Completion.                                                                  *)

CommandNames == {Commands[idx] : idx \in 1..Len(Commands)}

LEMMA CandidateFacts ==
  ASSUME NEW str \in Seq(Chars), NEW idx \in Candidates(str)
  PROVE  /\ idx \in Nat /\ Commands[idx] \in CommandNames /\ Commands[idx] \in Seq(Chars)
         /\ Len(Commands[idx]) \in Nat /\ StartsWith(str, Commands[idx])
<1>1. idx \in DOMAIN Commands /\ IsPrefix(str, Commands[idx])
  BY DEF Candidates, Matching
<1>2. idx \in Nat /\ Commands[idx] \in Seq(Chars)
  BY <1>1, EditorAssumption
<1>3. Commands[idx] \in CommandNames
  <2>1. idx \in 1..Len(Commands)
    BY <1>1, EditorAssumption
  <2>2. QED
    BY <2>1 DEF CommandNames
<1>4. QED
  BY <1>1, <1>2, <1>3, StartsFacts

\* The extension is a piece of the first candidate's name: the one behind str,
\* up to the first place where complete() found a difference.
ExtensionIs(x, str, name, last) ==
  /\ name \in Seq(Chars) /\ name = Commands[Min(Candidates(str))] /\ name \in CommandNames
  /\ StartsWith(str, name)
  /\ last \in Nat /\ Len(str) <= last /\ last <= Len(name)
  /\ IsSlice(x, name, Len(str) + 1, last)
  /\ \A p \in (Len(str) + 1)..last : ~Changed(Candidates(str), p)

LEMMA ExtensionFacts ==
  ASSUME NEW str \in Seq(Chars), Candidates(str) # {}
  PROVE  \E name, last : ExtensionIs(Extension(str), str, name, last)
<1> DEFINE list == Candidates(str)
           name == Commands[Min(list)]
           stops == {p \in (Len(str) + 1)..Len(name) : Changed(list, p)}
           last == IF stops = {} THEN Len(name) ELSE Min(stops) - 1
<1>1. Min(list) \in list
  <2>1. list \in SUBSET Nat
    BY CandidateFacts
  <2>2. QED
    BY <2>1, MinIsLeast
<1>2. name \in CommandNames /\ name \in Seq(Chars) /\ Len(name) \in Nat /\ StartsWith(str, name)
  BY <1>1, CandidateFacts
<1>3. Len(str) \in Nat /\ Len(str) <= Len(name)
  BY <1>2 DEF StartsWith
<1>4. Extension(str) = SubSeq(name, Len(str) + 1, last)
  BY Zenon DEF Extension
<1> HIDE DEF list, name
<1>5. stops # {} => Min(stops) \in stops /\ \A p \in stops : Min(stops) <= p
  <2>1. stops \in SUBSET Nat
    BY <1>3
  <2>2. QED
    BY <2>1, MinIsLeast
<1>6. last \in Nat /\ Len(str) <= last /\ last <= Len(name)
  <2>1. CASE stops = {}
    BY <1>2, <1>3, <2>1
  <2>2. CASE stops # {}
    <3>1. PICK q : q = Min(stops) /\ q \in (Len(str) + 1)..Len(name)
      BY <1>5, <2>2
    <3>2. last = q - 1
      BY <2>2, <3>1
    <3>3. QED
      BY <1>2, <1>3, <3>1, <3>2
  <2>3. QED
    BY <2>1, <2>2
<1>7. ASSUME NEW p \in (Len(str) + 1)..last, Changed(list, p) PROVE FALSE
  <2>1. p \in stops
    BY <1>2, <1>3, <1>6, <1>7
  <2>2. PICK q : q = Min(stops) /\ q \in (Len(str) + 1)..Len(name) /\ q <= p
    BY <1>5, <2>1
  <2>3. last = q - 1
    BY <2>1, <2>2
  <2>4. QED
    BY <1>3, <2>2, <2>3
<1> HIDE DEF last
<1>8. IsSlice(SubSeq(name, Len(str) + 1, last), name, Len(str) + 1, last)
  <2>1. Len(str) + 1 \in Nat \ {0} /\ Len(str) + 1 <= last + 1
    BY <1>3, <1>6
  <2>2. QED
    BY <1>2, <1>6, <2>1, SliceFacts
<1>9. ExtensionIs(Extension(str), str, name, last)
  BY <1>2, <1>4, <1>6, <1>7, <1>8 DEF ExtensionIs, list, name
<1>10. QED
  BY <1>9

LEMMA ExtensionTyped ==
  ASSUME NEW str \in Seq(Chars)
  PROVE  Extension(str) \in Seq(Chars)
<1>1. CASE Candidates(str) = {}
  <2>1. Extension(str) = <<>>
    BY <1>1, Zenon DEF Extension
  <2>2. QED
    BY <2>1
<1>2. CASE Candidates(str) # {}
  <2>1. PICK name, last : ExtensionIs(Extension(str), str, name, last)
    BY <1>2, ExtensionFacts
  <2>2. QED
    BY <2>1 DEF ExtensionIs, IsSlice
<1>3. QED
  BY <1>1, <1>2

LEMMA PrefixFacts ==
  ASSUME LineOK
  PROVE  IsText(Chars, Prefix, buf, 0, num) /\ Prefix \in Seq(Chars)
<1>1. LineShown
  BY LineIsCurrent
<1>2. num \in Nat /\ Holds(Chars, buf, 0, num)
  BY <1>1 DEF LineShown, Held, Holds
<1>3. IsText(Chars, Text(buf, 0, num), buf, 0, num)
  BY <1>2, TextFacts
<1>4. QED
  BY <1>3 DEF Prefix, IsText

\* Tab types the extension, or the terminator of a full line goes behind it.
TabTypes(x) == \E b, n, m : Completed(buf, num, eolNum, x, Len(x), b, n, m) /\ Became(b, n, m)

LEMMA TabDoes ==
  ASSUME LineOK, Tab
  PROVE  Overrun \/ TabTypes(Extension(Prefix))
<1> SUFFICES ASSUME ~Overrun PROVE TabTypes(Extension(Prefix))
  OBVIOUS
<1> DEFINE found == Candidates(Prefix)
           x == Extension(Prefix)
           lists == found # {} /\ Cardinality(found) # 1 /\ x = <<>> /\ tabPressed
           from == IF lists THEN Reprinted(Line) ELSE Line
<1>1. Become(FoldLeft(AddChar, from, x))
  BY Zenon DEF Tab
<1>2. x \in Seq(Chars)
  BY PrefixFacts, ExtensionTyped
<1>3. LineShown
  BY LineIsCurrent
<1>4. \E t : /\ from = Record(buf, num, eolNum, t)
             /\ Held(buf, num, eolNum, t) /\ Shown(buf, eolNum, t) /\ t.at = num
  <2>1. CASE lists
    <3>1. PICK t : /\ Reprinted(Line) = Record(buf, num, eolNum, t)
                   /\ Held(buf, num, eolNum, t) /\ Shown(buf, eolNum, t) /\ t.at = num
      BY <1>3, ReprintSound DEF LineShown
    <3>2. QED
      BY <2>1, <3>1
  <2>2. CASE ~lists
    BY <1>3, <2>2 DEF LineShown
  <2>3. QED
    BY <2>1, <2>2
<1> HIDE DEF found, x, lists, from
<1>5. PICK t : /\ from = Record(buf, num, eolNum, t)
               /\ Held(buf, num, eolNum, t) /\ Shown(buf, eolNum, t) /\ t.at = num
  BY <1>4
<1>6. IsCompleted(FoldLeft(AddChar, Record(buf, num, eolNum, t), x), buf, num, eolNum, x, Len(x))
  BY <1>2, <1>5, CompletionSound
<1>7. PICK e : e = FoldLeft(AddChar, from, x)
  OBVIOUS
<1>8. IsCompleted(e, buf, num, eolNum, x, Len(x))
  BY <1>5, <1>6, <1>7, Zenon
<1>9. PICK b, n, m, u : /\ e = Record(b, n, m, u)
                        /\ Held(b, n, m, u) /\ Shown(b, m, u) /\ u.at = n
                        /\ Completed(buf, num, eolNum, x, Len(x), b, n, m)
  BY <1>8 DEF IsCompleted
<1>10. Become(e)
  BY <1>1, <1>7, Zenon
<1>11. Became(b, n, m)
  BY <1>9, <1>10, BecomeSound
<1>12. QED
  BY <1>9, <1>11 DEF TabTypes, x

\* The text before the cursor and the text behind it, after a key.
BothTexts(b, n, m) ==
  /\ n \in Nat /\ m \in Nat /\ n <= m /\ m <= Size
  /\ IsText(Chars, Text(b, 0, n), b, 0, n)
  /\ IsText(Chars, Text(b, n, m - n), b, n, m - n)

LEMMA HeldTexts ==
  ASSUME NEW b, NEW n \in Nat, NEW m \in Nat, n <= m, m <= Size, \A k \in 0..(m - 1) : b[k] \in Chars
  PROVE  BothTexts(b, n, m)
<1>1. Holds(Chars, b, 0, n)
  BY DEF Holds
<1>2. Holds(Chars, b, n, m - n)
  BY DEF Holds
<1>3. PICK w \in Nat : w = m - n
  OBVIOUS
<1>4. IsText(Chars, Text(b, n, w), b, n, w)
  BY <1>2, <1>3, TextFacts
<1>5. IsText(Chars, Text(b, 0, n), b, 0, n)
  BY <1>1, TextFacts
<1>6. QED
  BY <1>3, <1>4, <1>5 DEF BothTexts

LEMMA TextsNow ==
  ASSUME LineOK
  PROVE  BothTexts(buf, num, eolNum)
<1>1. Held(buf, num, eolNum, screen)
  BY LineIsCurrent DEF LineShown
<1>2. QED
  BY <1>1, HeldTexts DEF Held

\* What the primed texts are made of.
LEMMA TextsThen ==
  ASSUME NEW b, NEW n, NEW m, Became(b, n, m)
  PROVE  BothTexts(buf', n, m) /\ num' = n /\ eolNum' = m /\ \A k \in 0..(m - 1) : buf'[k] = b[k]
<1>1. /\ n \in Nat /\ m \in Nat /\ n <= m /\ m <= Size /\ Size \in Nat /\ Cells = 0..Size
      /\ num' = n /\ eolNum' = m
  BY SizeFacts DEF Became, LineOK
<1>2. ASSUME NEW k \in 0..(m - 1) PROVE buf'[k] \in Chars /\ buf'[k] = b[k]
  <2>1. k \in Cells /\ k < m /\ ~(k >= m)
    BY <1>1
  <2>2. buf'[k] = b[k]
    BY <2>1 DEF Became, Kept
  <2>3. buf'[k] # Nul /\ buf'[k] \in Chars \cup {Nul}
    BY <1>1, <2>1 DEF Became, LineOK
  <2>4. QED
    BY <2>2, <2>3
<1>3. BothTexts(buf', n, m)
  BY <1>1, <1>2, HeldTexts
<1>4. QED
  BY <1>1, <1>2, <1>3

\* Completion follows the first candidate, and so every candidate that did not
\* end earlier.
LEMMA ExtensionKeeps ==
  ASSUME NEW str \in Seq(Chars), NEW name, NEW x, NEW last, ExtensionIs(x, str, name, last),
         NEW text \in Seq(Chars), Len(text) <= last, StartsWith(text, name),
         ~\E idx \in Candidates(str) : IsStrictPrefix(Commands[idx], text)
  PROVE  \A idx \in Candidates(str) : IsPrefix(text, Commands[idx])
<1> DEFINE list == Candidates(str)
<1>1. /\ name = Commands[Min(list)] /\ StartsWith(str, name) /\ last \in Nat /\ Len(text) \in Nat
      /\ Len(str) \in Nat /\ \A p \in (Len(str) + 1)..last : ~Changed(list, p)
  BY DEF ExtensionIs
<1> DEFINE Agrees(idx, p) == Len(Commands[idx]) >= p /\ Commands[idx][p] = name[p]
           Bad == {p \in 1..Len(text) : \E idx \in list : ~Agrees(idx, p)}
<1>2. CASE Bad = {}
  <2> SUFFICES ASSUME NEW idx \in list PROVE IsPrefix(text, Commands[idx])
    OBVIOUS
  <2>1. \A p \in 1..Len(text) : Agrees(idx, p)
    BY <1>2
  <2>2. Commands[idx] \in Seq(Chars) /\ Len(Commands[idx]) \in Nat
    BY CandidateFacts
  <2>3. Len(text) <= Len(Commands[idx])
    <3>1. CASE Len(text) = 0
      BY <1>1, <2>2, <3>1
    <3>2. CASE Len(text) # 0
      <4>1. Len(text) \in 1..Len(text)
        BY <1>1, <3>2
      <4>2. QED
        BY <1>1, <2>1, <2>2, <4>1
    <3>3. QED
      BY <3>1, <3>2
  <2>4. \A p \in 1..Len(text) : text[p] = Commands[idx][p]
    BY <2>1 DEF StartsWith
  <2>5. QED
    BY <2>2, <2>3, <2>4, StartsFacts DEF StartsWith
<1>3. CASE Bad # {}
  <2>1. Bad \in SUBSET Nat
    BY <1>1
  <2>2. PICK p \in Bad : \A q \in Bad : p <= q
    BY <1>3, <2>1, LeastNumber
  <2>3. PICK idx \in list : ~Agrees(idx, p)
    OBVIOUS
  <2>4. p \in Nat /\ 1 <= p /\ p <= Len(text) /\ p <= last
    BY <1>1
  <2>5. ASSUME NEW j \in list, NEW q \in 1..(p - 1) PROVE Agrees(j, q)
    <3>1. q \in 1..Len(text) /\ ~(p <= q)
      BY <1>1, <2>4
    <3>2. q \notin Bad
      BY <2>2, <3>1
    <3>3. QED
      BY <3>1, <3>2
  <2>6. ASSUME NEW j \in list PROVE Len(Commands[j]) >= p
    <3> SUFFICES ASSUME ~(Len(Commands[j]) >= p) PROVE FALSE
      OBVIOUS
    <3>1. Commands[j] \in Seq(Chars) /\ Len(Commands[j]) \in Nat
      BY CandidateFacts
    <3>2. Len(Commands[j]) < p
      BY <2>4, <3>1
    <3>3. \A q \in 1..Len(Commands[j]) : Commands[j][q] = text[q]
      <4> SUFFICES ASSUME NEW q \in 1..Len(Commands[j]) PROVE Commands[j][q] = text[q]
        OBVIOUS
      <4>1. q \in 1..(p - 1) /\ q \in 1..Len(text)
        BY <1>1, <2>4, <3>1, <3>2
      <4>2. Commands[j][q] = name[q]
        BY <2>5, <4>1
      <4>3. QED
        BY <4>1, <4>2 DEF StartsWith
    <3>4. StartsWith(Commands[j], text)
      BY <1>1, <2>4, <3>1, <3>2, <3>3 DEF StartsWith
    <3>5. IsPrefix(Commands[j], text)
      BY <3>1, <3>4, StartsFacts
    <3>6. Commands[j] # text
      BY <2>4, <3>1, <3>2
    <3>7. QED
      BY <3>5, <3>6 DEF IsStrictPrefix
  <2>7. Commands[idx][p] # name[p]
    BY <2>3, <2>6
  <2>8. Changed(list, p)
    <3>1. \A j \in list : Len(Commands[j]) >= p
      BY <2>6
    <3>2. QED
      BY <1>1, <2>7, <3>1 DEF Changed
  <2>9. p > Len(str)
    <3> SUFFICES ASSUME ~(p > Len(str)) PROVE FALSE
      OBVIOUS
    <3>1. p \in 1..Len(str)
      BY <1>1, <2>4
    <3>2. StartsWith(str, Commands[idx])
      BY CandidateFacts
    <3>3. str[p] = Commands[idx][p] /\ str[p] = name[p]
      BY <1>1, <3>1, <3>2 DEF StartsWith
    <3>4. QED
      BY <2>7, <3>3
  <2>10. p \in (Len(str) + 1)..last
    BY <1>1, <2>4, <2>9
  <2>11. QED
    BY <1>1, <2>8, <2>10
<1>4. QED
  BY <1>2, <1>3

\* What Tab has typed is a piece of the first candidate's name.
LEMMA TabFollowsName ==
  ASSUME LineOK, NEW x, NEW name, NEW last, ExtensionIs(x, Prefix, name, last),
         NEW j \in Nat, j <= Len(x), NEW b, NEW n, NEW m,
         Typed(buf, num, eolNum, x, j, b, n, m), Became(b, n, m)
  PROVE  /\ Prefix' \in Seq(Chars) /\ Len(Prefix') = num + j /\ num + j <= last
         /\ StartsWith(Prefix', name)
<1>1. BothTexts(buf', n, m) /\ num' = n /\ \A k \in 0..(m - 1) : buf'[k] = b[k]
  BY TextsThen
<1>2. PICK text : text = Text(buf', 0, n) /\ Prefix' = text
  BY <1>1 DEF Prefix
<1>3. text \in Seq(Chars) /\ Len(text) = n /\ \A k \in 1..n : text[k] = buf'[0 + k - 1]
  BY <1>1, <1>2 DEF BothTexts, IsText
<1>4. n \in Nat /\ m \in Nat /\ n <= m /\ n = num + j
  BY <1>1 DEF BothTexts, Typed
<1>5. /\ Prefix \in Seq(Chars) /\ num \in Nat /\ Len(Prefix) = num
      /\ \A k \in 1..num : Prefix[k] = buf[k - 1]
  <2>1. IsText(Chars, Prefix, buf, 0, num) /\ num \in Nat
    BY PrefixFacts, SizeFacts DEF LineOK
  <2>2. QED
    BY <2>1 DEF IsText
<1>6. /\ last \in Nat /\ num <= last /\ last <= Len(name) /\ name \in Seq(Chars)
      /\ Len(x) = last - num /\ \A k \in 1..Len(x) : x[k] = name[num + k]
      /\ \A k \in 1..num : Prefix[k] = name[k]
  <2>1. IsSlice(x, name, num + 1, last) /\ StartsWith(Prefix, name)
    BY <1>5 DEF ExtensionIs
  <2>2. last \in Nat /\ num <= last /\ last <= Len(name) /\ name \in Seq(Chars)
    BY <1>5 DEF ExtensionIs
  <2>3. last - (num + 1) + 1 = last - num
    BY <1>5, <2>2
  <2>4. \A k \in 1..(last - num) : (num + 1) + k - 1 = num + k
    BY <1>5, <2>2
  <2>5. Len(x) = last - num /\ \A k \in 1..(last - num) : x[k] = name[num + k]
    BY <2>1, <2>3, <2>4 DEF IsSlice
  <2>6. QED
    BY <1>5, <2>1, <2>2, <2>5 DEF StartsWith
<1>7. num + j <= last
  BY <1>5, <1>6
<1>8. \A k \in 1..n : text[k] = name[k]
  <2> SUFFICES ASSUME NEW k \in 1..n PROVE text[k] = name[k]
    OBVIOUS
  <2>1. k - 1 \in 0..(m - 1) /\ 0 + k - 1 = k - 1
    BY <1>4
  <2>2. text[k] = b[k - 1]
    BY <1>1, <1>3, <2>1
  <2>3. CASE k <= num
    <3>1. k - 1 \in 0..(num - 1) /\ k \in 1..num
      BY <1>4, <1>5, <2>3
    <3>2. b[k - 1] = buf[k - 1]
      BY <3>1 DEF Typed
    <3>3. QED
      BY <1>5, <1>6, <2>2, <3>1, <3>2
  <2>4. CASE k > num
    <3>1. PICK idx : idx \in 1..j /\ idx = k - num /\ idx \in 1..Len(x) /\ num + idx = k /\ num + idx - 1 = k - 1
      BY <1>4, <1>5, <1>6, <2>4
    <3>2. b[num + idx - 1] = x[idx]
      BY <3>1 DEF Typed
    <3>3. QED
      BY <1>6, <2>2, <3>1, <3>2
  <2>5. QED
    BY <1>4, <1>5, <2>3, <2>4
<1>9. StartsWith(text, name)
  BY <1>3, <1>4, <1>6, <1>7, <1>8 DEF StartsWith
<1>10. QED
  BY <1>2, <1>3, <1>4, <1>7, <1>9

LEMMA TabKeeps ==
  ASSUME LineOK, Tab
  PROVE  \/ \A idx \in Candidates(Prefix) : IsPrefix(Prefix', Commands[idx])
         \/ \E idx \in Candidates(Prefix) : IsStrictPrefix(Commands[idx], Prefix')
<1>1. CASE Candidates(Prefix) = {}
  BY <1>1
<1>2. CASE Overrun
  <2>1. Prefix' = Prefix
    BY <1>2 DEF Overrun, lineVars, Prefix, Text
  <2>2. \A idx \in Candidates(Prefix) : IsPrefix(Prefix, Commands[idx])
    BY DEF Candidates, Matching
  <2>3. QED
    BY <2>1, <2>2, Zenon
<1>3. CASE Candidates(Prefix) # {} /\ ~Overrun
  <2>1. TabTypes(Extension(Prefix))
    BY <1>3, TabDoes
  <2>2. Prefix \in Seq(Chars)
    BY PrefixFacts
  <2>3. PICK name, last : ExtensionIs(Extension(Prefix), Prefix, name, last)
    BY <1>3, <2>2, ExtensionFacts
  <2>4. PICK x : x = Extension(Prefix) /\ x \in Seq(Chars)
    BY <2>2, ExtensionTyped
  <2>5. PICK b, n, m : Completed(buf, num, eolNum, x, Len(x), b, n, m) /\ Became(b, n, m)
    BY <2>1, <2>4 DEF TabTypes
  <2>6. PICK j \in 0..Len(x) : Typed(buf, num, eolNum, x, j, b, n, m)
    BY <2>5 DEF Completed
  <2>7. ExtensionIs(x, Prefix, name, last) /\ j \in Nat /\ j <= Len(x)
    BY <2>3, <2>4, <2>6
  <2>8. /\ Prefix' \in Seq(Chars) /\ Len(Prefix') = num + j /\ num + j <= last
        /\ StartsWith(Prefix', name)
    BY <2>5, <2>6, <2>7, TabFollowsName
  <2>9. PICK str, text : str = Prefix /\ text = Prefix'
    OBVIOUS
  <2>10. /\ str \in Seq(Chars) /\ ExtensionIs(x, str, name, last)
         /\ text \in Seq(Chars) /\ Len(text) <= last /\ StartsWith(text, name)
    BY <2>2, <2>7, <2>8, <2>9
  <2>11. \/ \A idx \in Candidates(str) : IsPrefix(text, Commands[idx])
         \/ \E idx \in Candidates(str) : IsStrictPrefix(Commands[idx], text)
    BY <2>10, ExtensionKeeps
  <2>12. QED
    BY <2>9, <2>11, Zenon
<1>4. QED
  BY <1>1, <1>2, <1>3

--------------------------------------------------------------------------------
(* The ring.                                                                    *)

LEMMA LinesFacts ==
  ASSUME NEW str, NEW max \in Int
  PROVE  str \in Lines(max) <=> str \in Seq(Chars) /\ Len(str) <= max
<1>1. ASSUME str \in Lines(max) PROVE str \in Seq(Chars) /\ Len(str) <= max
  <2>1. PICK n \in 0..max : str \in [1..n -> Chars]
    BY <1>1 DEF Lines
  <2>2. str \in Seq(Chars) /\ Len(str) = n
    BY <2>1
  <2>3. QED
    BY <2>2
<1>2. ASSUME str \in Seq(Chars), Len(str) <= max PROVE str \in Lines(max)
  <2>1. PICK n \in 0..max : n = Len(str)
    BY <1>2
  <2>2. str \in [1..n -> Chars]
    BY <1>2, <2>1
  <2>3. QED
    BY <2>2 DEF Lines
<1>3. QED
  BY <1>1, <1>2

LEMMA RingFacts ==
  ASSUME RingOK
  PROVE  /\ HistMax \in Nat \ {0} /\ histMax \in 0..(HistMax - 1) /\ histAddIdx \in 0..histMax
         /\ histCur \in -1..histMax
         /\ \A idx \in 0..(HistMax - 1) : histLines[idx] \in Seq(Chars) /\ Fits(histLines[idx])
<1>1. HistMax \in Nat \ {0} /\ Size \in Nat \ {0}
  BY EditorAssumption
<1>2. ASSUME NEW idx \in 0..(HistMax - 1) PROVE histLines[idx] \in Seq(Chars) /\ Fits(histLines[idx])
  <2>1. histLines[idx] \in Lines(Size - 1)
    BY DEF RingOK
  <2>2. PICK str : str = histLines[idx] /\ str \in Lines(Size - 1)
    BY <2>1
  <2>3. str \in Seq(Chars) /\ Len(str) <= Size - 1
    BY <1>1, <2>2, LinesFacts
  <2>4. str \in Seq(Chars) /\ Len(str) <= Size
    BY <1>1, <2>3
  <2>5. QED
    BY <2>2, <2>4 DEF Fits
<1>3. QED
  BY <1>1, <1>2 DEF RingOK

LEMMA UpDoes ==
  ASSUME LineOK, RingOK, Up
  PROVE  Calls(histLines[HistPrev]) /\ HistPrev \in 0..histMax
<1>1. HistPrev \in 0..histMax /\ HistPrev \in 0..(HistMax - 1)
  BY RingFacts DEF HistPrev, Up
<1>2. PICK str : str = histLines[HistPrev] /\ Fits(str)
  BY <1>1, RingFacts
<1>3. Shows(HistPrev, str)
  BY <1>2 DEF Up
<1>4. QED
  BY <1>1, <1>2, <1>3, RecallDoes

DownText == IF HistNext = histAddIdx THEN <<>> ELSE histLines[HistNext]

LEMMA DownDoes ==
  ASSUME LineOK, RingOK, Down
  PROVE  Calls(DownText) /\ HistNext \in 0..histMax
<1>1. HistNext \in 0..histMax /\ HistNext \in 0..(HistMax - 1)
  BY RingFacts DEF HistNext, Down
<1>2. Fits(<<>>)
  BY SizeFacts DEF Fits
<1>3. PICK str : str = DownText /\ Fits(str)
  BY <1>1, <1>2, RingFacts DEF DownText
<1>4. Shows(HistNext, str)
  BY <1>3 DEF Down, DownText
<1>5. QED
  BY <1>1, <1>3, <1>4, RecallDoes

LEMMA EnterKeepsRing ==
  ASSUME LineOK, RingOK, eolNum < Size, AddToHist(Text(buf, 0, eolNum)), histCur' = histAddIdx'
  PROVE  RingOK'
<1>1. PICK str : str = Text(buf, 0, eolNum) /\ str \in Lines(Size - 1)
  <2>1. BothTexts(buf, num, eolNum) /\ LineShown
    BY TextsNow, LineIsCurrent
  <2>2. Holds(Chars, buf, 0, eolNum) /\ eolNum \in Nat /\ Size \in Nat
    BY <2>1, SizeFacts DEF BothTexts, LineShown, Held, Holds
  <2>3. IsText(Chars, Text(buf, 0, eolNum), buf, 0, eolNum)
    BY <2>2, TextFacts
  <2>4. Text(buf, 0, eolNum) \in Seq(Chars) /\ Len(Text(buf, 0, eolNum)) <= Size - 1
    BY <2>2, <2>3 DEF IsText
  <2>5. QED
    BY <2>2, <2>4, LinesFacts
<1>2. histLines' \in [0..(HistMax - 1) -> Lines(Size - 1)]
  <2>1. histLines' = [histLines EXCEPT ![histAddIdx] = str]
    BY <1>1 DEF AddToHist
  <2>2. QED
    BY <1>1, <2>1 DEF RingOK
<1>3. /\ histMax' \in 0..(HistMax - 1) /\ histAddIdx' \in 0..histMax' /\ histCur' \in -1..histMax'
  BY RingFacts DEF AddToHist
<1>4. QED
  BY <1>2, <1>3 DEF RingOK

--------------------------------------------------------------------------------
(* The line on the screen is the line in the buffer, whatever is typed.         *)

EditKeys ==
  \/ \E c \in Chars : Type(c)
  \/ Home \/ End \/ Left \/ Right \/ EraseRest \/ EraseLine
  \/ DeleteForward \/ Delete \/ DeleteBackward

LEMMA EditKeysKeep ==
  ASSUME LineOK, EditKeys
  PROVE  LineOK' /\ ~overrun /\ UNCHANGED <<insert, tabPressed, overrun>> /\ UNCHANGED history
<1>1. LineOK'
  <2>1. CASE \E c \in Chars : Type(c)
    BY <2>1, TypeDoes DEF Became
  <2>2. CASE Home \/ End
    BY <2>2, HomeDoes, EndDoes DEF Became
  <2>3. CASE Left \/ Right
    BY <2>3, LeftDoes, RightDoes DEF Became
  <2>4. CASE EraseRest \/ EraseLine
    BY <2>4, EraseRestDoes, EraseLineDoes DEF Became
  <2>5. CASE DeleteForward \/ Delete \/ DeleteBackward
    BY <2>5, DeleteForwardDoes, DeleteDoes, DeleteBackwardDoes DEF Became, Takes
  <2>6. QED
    BY <2>1, <2>2, <2>3, <2>4, <2>5 DEF EditKeys
<1>2. ~overrun /\ UNCHANGED <<insert, tabPressed, overrun>> /\ UNCHANGED history
  BY Zenon DEF EditKeys, Type, Home, End, Left, Right, EraseRest, EraseLine, DeleteForward, Delete,
     DeleteBackward, EditsTo
<1>3. QED
  BY <1>1, <1>2

EditorKeeps == LineOK /\ RingOK /\ FlagsOK /\ (overrun => eolNum = Size)

LEMMA ScreenStart == EditorInit => EditorKeeps
<1> SUFFICES ASSUME EditorInit PROVE EditorKeeps
  OBVIOUS
<1>1. Size \in Nat \ {0} /\ HistMax \in Nat \ {0} /\ Cells = 0..Size
  BY EditorAssumption, SizeFacts
<1>2. screen.at = 0 /\ \A k \in Cells : screen.text[k] = Blank
  BY DEF EditorInit, FreshLine
<1>3. screen \in [text : [Cells -> Chars \cup {Nul, Blank}], at : Nat]
  BY DEF EditorInit, FreshLine
<1>4. LineOK
  BY <1>1, <1>2, <1>3 DEF EditorInit, LineOK, ScreenShowsLine
<1>5. <<>> \in Lines(Size - 1)
  <2>1. <<>> \in Seq(Chars) /\ Len(<<>>) <= Size - 1 /\ Size - 1 \in Int
    BY <1>1
  <2>2. QED
    BY <2>1, LinesFacts
<1>6. RingOK
  BY <1>1, <1>5 DEF EditorInit, RingOK
<1>7. QED
  BY <1>4, <1>6 DEF EditorInit, EditorKeeps, FlagsOK

LEMMA ScreenStep == EditorKeeps /\ [EditorNext]_editorVars => EditorKeeps'
<1> SUFFICES ASSUME EditorKeeps, [EditorNext]_editorVars PROVE EditorKeeps'
  OBVIOUS
<1>1. CASE EditKeys
  <2>1. LineOK' /\ ~overrun /\ UNCHANGED <<insert, tabPressed, overrun>> /\ UNCHANGED history
    BY <1>1, EditKeysKeep DEF EditorKeeps
  <2>2. QED
    BY <2>1 DEF EditorKeeps, RingOK, FlagsOK, history
<1>2. CASE ToggleInsert
  BY <1>2 DEF EditorKeeps, ToggleInsert, lineVars, history, LineOK, ScreenShowsLine, RingOK, FlagsOK
<1>3. CASE Up
  <2>1. LineOK' /\ HistPrev \in 0..histMax
    BY <1>3, UpDoes DEF EditorKeeps, Calls, Became
  <2>2. /\ histCur' = HistPrev /\ ~overrun
        /\ UNCHANGED <<histLines, histMax, histAddIdx, insert, tabPressed, overrun>>
    BY <1>3, Zenon DEF Up, Shows
  <2>3. QED
    BY <2>1, <2>2 DEF EditorKeeps, RingOK, FlagsOK
<1>4. CASE Down
  <2>1. LineOK' /\ HistNext \in 0..histMax
    BY <1>4, DownDoes DEF EditorKeeps, Calls, Became
  <2>2. /\ histCur' = HistNext /\ ~overrun
        /\ UNCHANGED <<histLines, histMax, histAddIdx, insert, tabPressed, overrun>>
    BY <1>4, Zenon DEF Down, Shows
  <2>3. QED
    BY <2>1, <2>2 DEF EditorKeeps, RingOK, FlagsOK
<1>5. CASE Overrun
  BY <1>5 DEF EditorKeeps, Overrun, lineVars, history, LineOK, ScreenShowsLine, RingOK, FlagsOK
<1>6. CASE Enter /\ ~Overrun
  <2>1. eolNum < Size /\ FreshReadline /\ ~overrun /\ UNCHANGED <<tabPressed, overrun>> /\ insert' = TRUE
    BY <1>6 DEF Enter, FreshReadline
  <2>2. LineOK'
    BY <2>1, FreshDoes DEF EditorKeeps, Became
  <2>3. RingOK'
    <3>1. CASE eolNum > 0 /\ buf[0] # HistChar
      BY <1>6, <2>1, <3>1, EnterKeepsRing DEF Enter, EditorKeeps
    <3>2. CASE ~(eolNum > 0 /\ buf[0] # HistChar)
      <4>1. UNCHANGED <<histLines, histAddIdx, histMax>> /\ histCur' = histAddIdx'
        BY <1>6, <3>2, Zenon DEF Enter
      <4>2. QED
        BY <4>1 DEF EditorKeeps, RingOK
    <3>3. QED
      BY <3>1, <3>2
  <2>4. QED
    BY <2>1, <2>2, <2>3 DEF EditorKeeps, FlagsOK
<1>7. CASE Break
  <2>1. LineOK'
    BY <1>7, FreshDoes DEF Break, EditorKeeps, Became
  <2>2. QED
    BY <1>7, <2>1 DEF Break, FreshReadline, EditorKeeps, RingOK, FlagsOK, history
<1>8. CASE Tab /\ ~Overrun
  <2>1. LineOK'
    BY <1>8, TabDoes DEF EditorKeeps, TabTypes, Became
  <2>2. ~overrun /\ tabPressed' \in BOOLEAN /\ UNCHANGED <<insert, overrun>> /\ UNCHANGED history
    BY <1>8 DEF Tab, EditorKeeps, FlagsOK
  <2>3. QED
    BY <2>1, <2>2 DEF EditorKeeps, RingOK, FlagsOK, history
<1>9. CASE UNCHANGED editorVars
  BY <1>9 DEF EditorKeeps, editorVars, LineOK, ScreenShowsLine, RingOK, FlagsOK
<1>10. QED
  BY <1>1, <1>2, <1>3, <1>4, <1>5, <1>6, <1>7, <1>8, <1>9 DEF EditorNext, EditKeys

(* What the user sees is what the BIOS will execute: for every table of         *)
(* commands, every size of the buffer and of the ring, the terminal shows the   *)
(* line of the buffer and nothing of an older one (readline.c:163-338).         *)
THEOREM TheScreenShowsTheLine == EditorSpec => []ScreenInv
<1>1. EditorKeeps => ScreenInv
  BY ScreenInvParts DEF EditorKeeps
<1>2. QED
  BY <1>1, ScreenStart, ScreenStep, PTL DEF EditorSpec

(* Tab never leads away from a command: each candidate still starts with the    *)
(* text before the cursor, unless another candidate's name ended on the way     *)
(* (complete.c:140-148).                                                        *)
THEOREM TabKeepsTheCandidates == EditorSpec => TabKeepsMatches
<1>1. EditorKeeps /\ [EditorNext]_editorVars =>
        [Tab => \/ \A k \in Candidates(Prefix) : IsPrefix(Prefix', Commands[k])
                \/ \E k \in Candidates(Prefix) : IsStrictPrefix(Commands[k], Prefix')]_editorVars
  BY TabKeeps DEF EditorKeeps
<1>2. QED
  BY <1>1, ScreenStart, ScreenStep, PTL DEF EditorSpec, TabKeepsMatches

--------------------------------------------------------------------------------
(* Pieces of a buffer, as sequences.                                            *)

SameCells(b, from, b2, from2, n) == \A k \in 0..(n - 1) : b2[from2 + k] = b[from + k]

LEMMA TextUnique ==
  ASSUME NEW s, NEW t, NEW b, NEW from, NEW n, IsText(Chars, s, b, from, n), IsText(Chars, t, b, from, n)
  PROVE  s = t
<1>1. s \in Seq(Chars) /\ t \in Seq(Chars) /\ SameText(s, t)
  BY DEF IsText, SameText
<1>2. QED
  BY <1>1, SameTextEqual

LEMMA TextEmpty ==
  ASSUME NEW b, NEW from
  PROVE  IsText(Chars, <<>>, b, from, 0)
BY DEF IsText

LEMMA TextMoved ==
  ASSUME NEW s, NEW b, NEW from \in Nat, NEW n \in Nat, IsText(Chars, s, b, from, n),
         NEW b2, NEW from2 \in Nat, SameCells(b, from, b2, from2, n)
  PROVE  IsText(Chars, s, b2, from2, n)
<1>1. ASSUME NEW k \in 1..n PROVE s[k] = b2[from2 + k - 1]
  <2>1. PICK idx \in 0..(n - 1) : idx = k - 1
    OBVIOUS
  <2>2. from + k - 1 = from + idx /\ from2 + k - 1 = from2 + idx
    BY <2>1
  <2>3. b2[from2 + idx] = b[from + idx]
    BY DEF SameCells
  <2>4. s[k] = b[from + k - 1]
    BY DEF IsText
  <2>5. QED
    BY <2>2, <2>3, <2>4
<1>2. QED
  BY <1>1 DEF IsText

LEMMA TextConcat ==
  ASSUME NEW s, NEW t, NEW b, NEW from \in Nat, NEW n \in Nat, NEW k \in Nat,
         IsText(Chars, s, b, from, n), IsText(Chars, t, b, from + n, k)
  PROVE  IsText(Chars, s \o t, b, from, n + k)
<1>1. s \in Seq(Chars) /\ Len(s) = n /\ t \in Seq(Chars) /\ Len(t) = k
  BY DEF IsText
<1>2. /\ s \o t \in Seq(Chars) /\ Len(s \o t) = n + k
      /\ \A idx \in 1..(n + k) : (s \o t)[idx] = IF idx <= n THEN s[idx] ELSE t[idx - n]
  BY <1>1, ConcatProperties
<1>3. ASSUME NEW idx \in 1..(n + k) PROVE (s \o t)[idx] = b[from + idx - 1]
  <2>1. CASE idx <= n
    <3>1. idx \in 1..n
      BY <2>1
    <3>2. QED
      BY <1>2, <2>1, <3>1 DEF IsText
  <2>2. CASE ~(idx <= n)
    <3>1. idx - n \in 1..k /\ (from + n) + (idx - n) - 1 = from + idx - 1
      BY <2>2
    <3>2. t[idx - n] = b[(from + n) + (idx - n) - 1]
      BY <3>1 DEF IsText
    <3>3. QED
      BY <1>2, <2>2, <3>1, <3>2
  <2>3. QED
    BY <2>1, <2>2, Zenon
<1>4. QED
  BY <1>2, <1>3 DEF IsText

LEMMA TextOfOne ==
  ASSUME NEW b, NEW from \in Nat, NEW c \in Chars, b[from] = c
  PROVE  IsText(Chars, <<c>>, b, from, 1)
<1>1. <<c>> \in Seq(Chars) /\ Len(<<c>>) = 1 /\ <<c>>[1] = c
  OBVIOUS
<1>2. \A k \in 1..1 : <<c>>[k] = b[from + k - 1]
  BY <1>1
<1>3. QED
  BY <1>1, <1>2 DEF IsText

LEMMA TextAppend ==
  ASSUME NEW s, NEW b, NEW from \in Nat, NEW n \in Nat, IsText(Chars, s, b, from, n),
         NEW c \in Chars, b[from + n] = c
  PROVE  IsText(Chars, Append(s, c), b, from, n + 1)
<1>1. s \in Seq(Chars) /\ Len(s) = n /\ \A idx \in 1..n : s[idx] = b[from + idx - 1]
  BY DEF IsText
<1>2. /\ Append(s, c) \in Seq(Chars) /\ Len(Append(s, c)) = n + 1
      /\ \A idx \in 1..(n + 1) : Append(s, c)[idx] = IF idx = n + 1 THEN c ELSE s[idx]
  BY <1>1
<1>3. ASSUME NEW idx \in 1..(n + 1) PROVE Append(s, c)[idx] = b[from + idx - 1]
  <2>1. CASE idx = n + 1
    <3>1. from + idx - 1 = from + n
      BY <2>1
    <3>2. QED
      BY <1>2, <2>1, <3>1
  <2>2. CASE idx # n + 1
    <3>1. idx \in 1..n
      BY <2>2
    <3>2. QED
      BY <1>1, <1>2, <2>2, <3>1
  <2>3. QED
    BY <2>1, <2>2
<1>4. QED
  BY <1>2, <1>3 DEF IsText

LEMMA TextHeadTail ==
  ASSUME NEW s, NEW b, NEW from \in Nat, NEW n \in Nat, n > 0, IsText(Chars, s, b, from, n)
  PROVE  s # <<>> /\ Head(s) = b[from] /\ Head(s) \in Chars /\ IsText(Chars, Tail(s), b, from + 1, n - 1)
<1>1. s \in Seq(Chars) /\ Len(s) = n /\ \A idx \in 1..n : s[idx] = b[from + idx - 1]
  BY DEF IsText
<1>2. s # <<>>
  BY <1>1
<1>3. Head(s) = b[from]
  <2>1. Head(s) = s[1] /\ 1 \in 1..n /\ from + 1 - 1 = from
    BY <1>1, <1>2
  <2>2. QED
    BY <1>1, <2>1
<1>4. Head(s) \in Chars
  BY <1>1, <1>2
<1>5. /\ Tail(s) \in Seq(Chars) /\ Len(Tail(s)) = n - 1
      /\ \A idx \in 1..(n - 1) : Tail(s)[idx] = s[idx + 1]
  BY <1>1, <1>2, HeadTailProperties
<1>6. ASSUME NEW idx \in 1..(n - 1) PROVE Tail(s)[idx] = b[(from + 1) + idx - 1]
  <2>1. idx + 1 \in 1..n /\ from + (idx + 1) - 1 = (from + 1) + idx - 1
    OBVIOUS
  <2>2. QED
    BY <1>1, <1>5, <2>1
<1>7. QED
  BY <1>2, <1>3, <1>4, <1>5, <1>6 DEF IsText

LEMMA TextFrontLast ==
  ASSUME NEW s, NEW b, NEW from \in Nat, NEW n \in Nat, n > 0, IsText(Chars, s, b, from, n)
  PROVE  s # <<>> /\ Last(s) = b[from + n - 1] /\ Last(s) \in Chars /\ IsText(Chars, Front(s), b, from, n - 1)
<1>1. s \in Seq(Chars) /\ Len(s) = n /\ \A idx \in 1..n : s[idx] = b[from + idx - 1]
  BY DEF IsText
<1>2. s # <<>> /\ n \in 1..n
  BY <1>1
<1>3. Last(s) = b[from + n - 1] /\ Last(s) \in Chars
  BY <1>1, <1>2 DEF Last
<1>4. IsSlice(SubSeq(s, 1, n - 1), s, 1, n - 1)
  BY <1>1, SliceFacts
<1>5. PICK u : u = SubSeq(s, 1, n - 1) /\ IsSlice(u, s, 1, n - 1)
  BY <1>4
<1>6. u \in Seq(Chars) /\ Len(u) = n - 1 /\ \A idx \in 1..(n - 1) : u[idx] = s[idx]
  <2>1. (n - 1) - 1 + 1 = n - 1 /\ \A idx \in 1..(n - 1) : 1 + idx - 1 = idx
    OBVIOUS
  <2>2. QED
    BY <1>5, <2>1 DEF IsSlice
<1>7. Front(s) = u
  BY <1>1, <1>5, Zenon DEF Front
<1>8. IsText(Chars, u, b, from, n - 1)
  <2>1. ASSUME NEW k \in 1..(n - 1) PROVE u[k] = b[from + k - 1]
    <3>1. k \in 1..n
      OBVIOUS
    <3>2. QED
      BY <1>1, <1>6, <3>1
  <2>2. QED
    BY <1>6, <2>1 DEF IsText
<1>9. QED
  BY <1>2, <1>3, <1>7, <1>8

--------------------------------------------------------------------------------
(* Every key does to the line and to the recent lines what it is for.           *)

Behind == Text(buf, num, eolNum - num)
RecentLines == [k \in 1 .. histMax |-> histLines[(histAddIdx - k) % HistMax]]
Age == IF histCur < 0 THEN 0 ELSE (histAddIdx - histCur) % HistMax

LEMMA HistoryKept == UNCHANGED history => UNCHANGED <<RecentLines, Age>>
BY DEF history, RecentLines, Age

\* The line before a key ...
LEMMA Before ==
  ASSUME LineOK
  PROVE  /\ num \in Nat /\ eolNum \in Nat /\ num <= eolNum /\ eolNum <= Size
         /\ IsText(Chars, Prefix, buf, 0, num)
         /\ IsText(Chars, Behind, buf, num, eolNum - num)
         /\ Prefix \in Seq(Chars) /\ Len(Prefix) = num
         /\ Behind \in Seq(Chars) /\ Len(Behind) = eolNum - num
         /\ Len(Prefix \o Behind) = eolNum
<1>1. BothTexts(buf, num, eolNum)
  BY TextsNow
<1>2. /\ num \in Nat /\ eolNum \in Nat /\ num <= eolNum /\ eolNum <= Size
      /\ IsText(Chars, Prefix, buf, 0, num)
      /\ IsText(Chars, Behind, buf, num, eolNum - num)
  BY <1>1 DEF BothTexts, Prefix, Behind
<1>3. /\ Prefix \in Seq(Chars) /\ Len(Prefix) = num
      /\ Behind \in Seq(Chars) /\ Len(Behind) = eolNum - num
  BY <1>2 DEF IsText
<1>4. Len(Prefix \o Behind) = eolNum
  BY <1>2, <1>3
<1>5. QED
  BY <1>2, <1>3, <1>4

\* ... and after it.
LEMMA After ==
  ASSUME NEW b, NEW n, NEW m, Became(b, n, m),
         NEW before, IsText(Chars, before, b, 0, n), NEW behind, IsText(Chars, behind, b, n, m - n)
  PROVE  Prefix' = before /\ Behind' = behind
<1>1. BothTexts(buf', n, m) /\ num' = n /\ eolNum' = m /\ \A k \in 0..(m - 1) : buf'[k] = b[k]
  BY TextsThen
<1>2. PICK w \in Nat : w = m - n /\ n \in Nat /\ m \in Nat /\ n <= m
  BY <1>1 DEF BothTexts
<1>3. PICK b2 : b2 = buf'
  OBVIOUS
<1>4. SameCells(b, 0, b2, 0, n) /\ SameCells(b, n, b2, n, w)
  <2>1. \A k \in 0..(n - 1) : 0 + k \in 0..(m - 1)
    BY <1>2
  <2>2. \A k \in 0..(w - 1) : n + k \in 0..(m - 1)
    BY <1>2
  <2>3. QED
    BY <1>1, <1>3, <2>1, <2>2 DEF SameCells
<1>5. IsText(Chars, before, b2, 0, n)
  BY <1>2, <1>4, TextMoved
<1>6. IsText(Chars, behind, b2, n, w)
  BY <1>2, <1>4, TextMoved
<1>7. IsText(Chars, Text(b2, 0, n), b2, 0, n) /\ IsText(Chars, Text(b2, n, w), b2, n, w)
  BY <1>1, <1>2, <1>3 DEF BothTexts
<1>8. Text(b2, 0, n) = before /\ Text(b2, n, w) = behind
  BY <1>5, <1>6, <1>7, TextUnique
<1>9. QED
  BY <1>1, <1>2, <1>3, <1>8, Zenon DEF Prefix, Behind

\* A key that edits the line.
Edits(before, behind) ==
  Prefix' = before /\ Behind' = behind /\ UNCHANGED <<RecentLines, Age>>

LEMMA TypeEdits ==
  ASSUME LineOK, NEW c \in Chars, Type(c)
  PROVE  \/ Len(Prefix \o Behind) < Size /\ Edits(Append(Prefix, c), Behind)
         \/ Behind # <<>> /\ Edits(Append(Prefix, c), Tail(Behind))
         \/ Edits(Prefix, Behind)
<1>1. PICK b, n, m : Added(buf, num, eolNum, c, b, n, m) /\ Became(b, n, m)
  BY TypeDoes
<1>2. /\ num \in Nat /\ eolNum \in Nat /\ num <= eolNum /\ eolNum <= Size /\ Size \in Nat
      /\ IsText(Chars, Prefix, buf, 0, num)
      /\ IsText(Chars, Behind, buf, num, eolNum - num) /\ Len(Prefix \o Behind) = eolNum
  BY Before, SizeFacts
<1>3. UNCHANGED <<RecentLines, Age>>
  BY HistoryKept DEF Type, EditsTo
<1>4. CASE NoRoom(num, eolNum)
  <2>1. Became(buf, num, eolNum)
    BY <1>1, <1>4 DEF Added
  <2>2. QED
    BY <1>2, <1>3, <2>1, After DEF Edits
<1>5. CASE ~NoRoom(num, eolNum)
  <2>1. n = num + 1 /\ IsAdded(buf, num, eolNum, c, b, m)
    BY <1>1, <1>5 DEF Added
  <2>2. /\ m \in Nat /\ n <= m /\ m = IF insert \/ num = eolNum THEN eolNum + 1 ELSE eolNum
        /\ \A k \in 0..(m - 1) :
             b[k] = IF k < num THEN buf[k] ELSE IF k = num THEN c ELSE buf[IF insert THEN k - 1 ELSE k]
    BY <1>2, <2>1 DEF IsAdded
  <2>3. IsText(Chars, Append(Prefix, c), b, 0, n)
    <3>1. SameCells(buf, 0, b, 0, num)
      <4>1. \A k \in 0..(num - 1) : 0 + k = k /\ k \in 0..(m - 1) /\ k < num
        BY <1>2, <2>1, <2>2
      <4>2. QED
        BY <2>2, <4>1 DEF SameCells
    <3>2. IsText(Chars, Prefix, b, 0, num)
      BY <1>2, <3>1, TextMoved
    <3>3. b[0 + num] = c
      <4>1. 0 + num = num /\ num \in 0..(m - 1) /\ ~(num < num)
        BY <1>2, <2>1, <2>2
      <4>2. QED
        BY <2>2, <4>1
    <3>4. QED
      BY <1>2, <2>1, <3>2, <3>3, TextAppend
  <2>4. CASE insert \/ num = eolNum
    <3>1. m = eolNum + 1 /\ m - n = eolNum - num /\ eolNum < Size
      BY <1>2, <1>5, <2>1, <2>2, <2>4 DEF NoRoom
    <3>2. PICK w \in Nat : w = eolNum - num /\ w = m - n
      BY <1>2, <3>1
    <3>3. SameCells(buf, num, b, n, w)
      <4>1. ASSUME NEW k \in 0..(w - 1) PROVE b[n + k] = buf[num + k]
        <5>1. n + k \in 0..(m - 1) /\ ~(n + k < num) /\ n + k # num /\ (n + k) - 1 = num + k /\ num # eolNum
          BY <1>2, <2>1, <3>1, <3>2
        <5>2. insert
          BY <2>4, <5>1
        <5>3. QED
          BY <2>2, <5>1, <5>2
      <4>2. QED
        BY <4>1 DEF SameCells
    <3>4. IsText(Chars, Behind, b, n, w)
      <4>1. n \in Nat /\ IsText(Chars, Behind, buf, num, w)
        BY <1>2, <2>1, <3>2
      <4>2. QED
        BY <1>2, <3>3, <4>1, TextMoved
    <3>5. Prefix' = Append(Prefix, c) /\ Behind' = Behind
      BY <1>1, <2>3, <3>2, <3>4, After
    <3>6. QED
      BY <1>2, <1>3, <3>1, <3>5 DEF Edits
  <2>5. CASE ~insert /\ num # eolNum
    <3>1. PICK w \in Nat : w = eolNum - num /\ w > 0 /\ m = eolNum
      BY <1>2, <2>2, <2>5
    <3>2. Behind # <<>> /\ IsText(Chars, Tail(Behind), buf, num + 1, w - 1)
      BY <1>2, <3>1, TextHeadTail
    <3>3. SameCells(buf, num + 1, b, n, w - 1)
      <4>1. ASSUME NEW k \in 0..((w - 1) - 1) PROVE b[n + k] = buf[(num + 1) + k]
        <5>1. n + k \in 0..(m - 1) /\ ~(n + k < num) /\ n + k # num /\ n + k = (num + 1) + k
          BY <1>2, <2>1, <3>1
        <5>2. QED
          BY <2>2, <2>5, <5>1
      <4>2. QED
        BY <4>1 DEF SameCells
    <3>4. IsText(Chars, Tail(Behind), b, n, w - 1)
      <4>1. PICK p \in Nat, v \in Nat : p = num + 1 /\ v = w - 1
        BY <1>2, <3>1
      <4>2. IsText(Chars, Tail(Behind), buf, p, v) /\ SameCells(buf, p, b, n, v) /\ n \in Nat
        BY <1>2, <2>1, <3>2, <3>3, <4>1
      <4>3. IsText(Chars, Tail(Behind), b, n, v)
        BY <4>2, TextMoved
      <4>4. QED
        BY <4>1, <4>3
    <3>5. w - 1 = m - n
      BY <1>2, <2>1, <3>1
    <3>6. Prefix' = Append(Prefix, c) /\ Behind' = Tail(Behind)
      BY <1>1, <2>3, <3>4, <3>5, After
    <3>7. QED
      BY <1>3, <3>2, <3>6 DEF Edits
  <2>6. QED
    BY <2>4, <2>5
<1>6. QED
  BY <1>4, <1>5

LEMMA WholeLine ==
  ASSUME LineOK
  PROVE  IsText(Chars, Prefix \o Behind, buf, 0, eolNum)
<1>1. /\ num \in Nat /\ eolNum \in Nat /\ num <= eolNum
      /\ IsText(Chars, Prefix, buf, 0, num) /\ IsText(Chars, Behind, buf, num, eolNum - num)
  BY Before
<1>2. PICK w \in Nat : w = eolNum - num
  BY <1>1
<1>3. IsText(Chars, Behind, buf, 0 + num, w)
  BY <1>1, <1>2
<1>4. IsText(Chars, Prefix \o Behind, buf, 0, num + w)
  BY <1>1, <1>3, TextConcat
<1>5. QED
  BY <1>1, <1>2, <1>4

LEMMA HomeEdits == LineOK /\ Home => Edits(<<>>, Prefix \o Behind)
<1> SUFFICES ASSUME LineOK, Home PROVE Edits(<<>>, Prefix \o Behind)
  OBVIOUS
<1>1. Became(buf, 0, eolNum) /\ UNCHANGED <<RecentLines, Age>>
  BY HomeDoes, HistoryKept DEF Home, EditsTo
<1>2. IsText(Chars, <<>>, buf, 0, 0)
  BY TextEmpty
<1>3. eolNum - 0 = eolNum
  BY Before
<1>4. IsText(Chars, Prefix \o Behind, buf, 0, eolNum - 0)
  BY <1>3, WholeLine
<1>5. QED
  BY <1>1, <1>2, <1>4, After DEF Edits

LEMMA EndEdits == LineOK /\ End => Edits(Prefix \o Behind, <<>>)
<1> SUFFICES ASSUME LineOK, End PROVE Edits(Prefix \o Behind, <<>>)
  OBVIOUS
<1>1. Became(buf, eolNum, eolNum) /\ UNCHANGED <<RecentLines, Age>>
  BY EndDoes, HistoryKept DEF End, EditsTo
<1>2. eolNum - eolNum = 0
  BY Before
<1>3. IsText(Chars, <<>>, buf, eolNum, eolNum - eolNum)
  BY <1>2, TextEmpty
<1>4. QED
  BY <1>1, <1>3, WholeLine, After DEF Edits

LEMMA EraseRestEdits == LineOK /\ EraseRest => Edits(Prefix, <<>>)
<1> SUFFICES ASSUME LineOK, EraseRest PROVE Edits(Prefix, <<>>)
  OBVIOUS
<1>1. Became(buf, num, num) /\ UNCHANGED <<RecentLines, Age>>
  BY EraseRestDoes, HistoryKept DEF EraseRest, EditsTo
<1>2. num - num = 0
  BY Before
<1>3. IsText(Chars, <<>>, buf, num, num - num) /\ IsText(Chars, Prefix, buf, 0, num)
  BY <1>2, TextEmpty, Before
<1>4. QED
  BY <1>1, <1>3, After DEF Edits

\* A line without text: ^U, ^C and what follows Enter.
LEMMA EmptyLine ==
  ASSUME Became(buf, 0, 0)
  PROVE  Prefix' = <<>> /\ Behind' = <<>>
<1>1. IsText(Chars, <<>>, buf, 0, 0) /\ 0 - 0 = 0
  BY TextEmpty
<1>2. IsText(Chars, <<>>, buf, 0, 0 - 0)
  BY <1>1
<1>3. QED
  BY <1>1, <1>2, After

LEMMA EraseLineEdits == LineOK /\ EraseLine => Edits(<<>>, <<>>)
<1> SUFFICES ASSUME LineOK, EraseLine PROVE Edits(<<>>, <<>>)
  OBVIOUS
<1>1. Became(buf, 0, 0) /\ UNCHANGED <<RecentLines, Age>>
  BY EraseLineDoes, HistoryKept DEF EraseLine, EditsTo
<1>2. QED
  BY <1>1, EmptyLine DEF Edits

LEMMA BreakEdits == LineOK /\ Break => Edits(<<>>, <<>>)
<1> SUFFICES ASSUME LineOK, Break PROVE Edits(<<>>, <<>>)
  OBVIOUS
<1>1. Became(buf, 0, 0) /\ UNCHANGED <<RecentLines, Age>>
  BY FreshDoes, HistoryKept DEF Break
<1>2. QED
  BY <1>1, EmptyLine DEF Edits

LEMMA LeftEdits ==
  LineOK /\ Left => Prefix # <<>> /\ Edits(Front(Prefix), <<Last(Prefix)>> \o Behind)
<1> SUFFICES ASSUME LineOK, Left PROVE Prefix # <<>> /\ Edits(Front(Prefix), <<Last(Prefix)>> \o Behind)
  OBVIOUS
<1>1. num > 0 /\ Became(buf, num - 1, eolNum) /\ UNCHANGED <<RecentLines, Age>>
  BY LeftDoes, HistoryKept DEF Left, EditsTo
<1>2. /\ num \in Nat /\ eolNum \in Nat /\ num <= eolNum
      /\ IsText(Chars, Prefix, buf, 0, num) /\ IsText(Chars, Behind, buf, num, eolNum - num)
  BY Before
<1>3. PICK p \in Nat, w \in Nat : p = num - 1 /\ w = eolNum - num
  BY <1>1, <1>2
<1>4. /\ Prefix # <<>> /\ Last(Prefix) = buf[0 + num - 1] /\ Last(Prefix) \in Chars
      /\ IsText(Chars, Front(Prefix), buf, 0, num - 1)
  BY <1>1, <1>2, TextFrontLast
<1>5. buf[p] = Last(Prefix) /\ p + 1 = num /\ 1 + w = eolNum - p
  <2>1. p = 0 + num - 1 /\ p + 1 = num /\ 1 + w = eolNum - p
    BY <1>2, <1>3
  <2>2. QED
    BY <1>4, <2>1
<1>6. IsText(Chars, <<Last(Prefix)>>, buf, p, 1)
  BY <1>3, <1>4, <1>5, TextOfOne
<1>7. IsText(Chars, Behind, buf, p + 1, w)
  BY <1>2, <1>3, <1>5
<1>8. IsText(Chars, <<Last(Prefix)>> \o Behind, buf, p, 1 + w)
  BY <1>3, <1>6, <1>7, TextConcat
<1>9. /\ Became(buf, p, eolNum) /\ IsText(Chars, Front(Prefix), buf, 0, p)
      /\ IsText(Chars, <<Last(Prefix)>> \o Behind, buf, p, eolNum - p)
  BY <1>1, <1>3, <1>4, <1>5, <1>8
<1>10. Prefix' = Front(Prefix) /\ Behind' = <<Last(Prefix)>> \o Behind
  BY <1>9, After
<1>11. QED
  BY <1>1, <1>4, <1>10 DEF Edits

LEMMA RightEdits ==
  LineOK /\ Right => Behind # <<>> /\ Edits(Append(Prefix, Head(Behind)), Tail(Behind))
<1> SUFFICES ASSUME LineOK, Right PROVE Behind # <<>> /\ Edits(Append(Prefix, Head(Behind)), Tail(Behind))
  OBVIOUS
<1>1. num < eolNum /\ Became(buf, num + 1, eolNum) /\ UNCHANGED <<RecentLines, Age>>
  BY RightDoes, HistoryKept DEF Right, EditsTo
<1>2. /\ num \in Nat /\ eolNum \in Nat /\ num <= eolNum
      /\ IsText(Chars, Prefix, buf, 0, num) /\ IsText(Chars, Behind, buf, num, eolNum - num)
  BY Before
<1>3. PICK n \in Nat, w \in Nat : n = num + 1 /\ w = eolNum - num /\ w > 0
  BY <1>1, <1>2
<1>4. /\ Behind # <<>> /\ Head(Behind) = buf[num] /\ Head(Behind) \in Chars
      /\ IsText(Chars, Tail(Behind), buf, num + 1, w - 1)
  BY <1>2, <1>3, TextHeadTail
<1>5. buf[0 + num] = Head(Behind) /\ w - 1 = eolNum - n
  <2>1. 0 + num = num /\ w - 1 = eolNum - n
    BY <1>2, <1>3
  <2>2. QED
    BY <1>4, <2>1
<1>6. IsText(Chars, Append(Prefix, Head(Behind)), buf, 0, num + 1)
  BY <1>2, <1>4, <1>5, TextAppend
<1>7. /\ Became(buf, n, eolNum) /\ IsText(Chars, Append(Prefix, Head(Behind)), buf, 0, n)
      /\ IsText(Chars, Tail(Behind), buf, n, eolNum - n)
  BY <1>1, <1>3, <1>4, <1>5, <1>6
<1>8. Prefix' = Append(Prefix, Head(Behind)) /\ Behind' = Tail(Behind)
  BY <1>7, After
<1>9. QED
  BY <1>1, <1>4, <1>8 DEF Edits

LEMMA DeleteNextEdits ==
  LineOK /\ (DeleteForward \/ Delete) => Behind # <<>> /\ Edits(Prefix, Tail(Behind))
<1> SUFFICES ASSUME LineOK, DeleteForward \/ Delete PROVE Behind # <<>> /\ Edits(Prefix, Tail(Behind))
  OBVIOUS
<1>1. num < eolNum /\ Takes(num, num) /\ UNCHANGED <<RecentLines, Age>>
  BY DeleteForwardDoes, DeleteDoes, HistoryKept, Zenon DEF DeleteForward, Delete, EditsTo
<1>2. PICK b : Removed(buf, num, eolNum, b) /\ Became(b, num, eolNum - 1)
  BY <1>1 DEF Takes
<1>3. /\ num \in Nat /\ eolNum \in Nat /\ num <= eolNum
      /\ IsText(Chars, Prefix, buf, 0, num) /\ IsText(Chars, Behind, buf, num, eolNum - num)
  BY Before
<1>4. PICK p \in Nat, v \in Nat, w \in Nat, m \in Nat :
        p = num + 1 /\ w = eolNum - num /\ v = w - 1 /\ w > 0 /\ m = eolNum - 1 /\ v = m - num
  BY <1>1, <1>3
<1>5. Behind # <<>> /\ IsText(Chars, Tail(Behind), buf, num + 1, w - 1)
  BY <1>3, <1>4, TextHeadTail
<1>6. SameCells(buf, 0, b, 0, num)
  <2>1. \A k \in 0..(num - 1) : 0 + k \in 0..(eolNum - 2) /\ 0 + k < num
    BY <1>1, <1>3
  <2>2. QED
    BY <1>2, <2>1 DEF SameCells, Removed
<1>7. SameCells(buf, p, b, num, v)
  <2>1. \A k \in 0..(v - 1) : num + k \in 0..(eolNum - 2) /\ ~(num + k < num) /\ (num + k) + 1 = p + k
    BY <1>3, <1>4
  <2>2. QED
    BY <1>2, <2>1 DEF SameCells, Removed
<1>8. IsText(Chars, Prefix, b, 0, num)
  BY <1>3, <1>6, TextMoved
<1>9. IsText(Chars, Tail(Behind), b, num, v)
  <2>1. IsText(Chars, Tail(Behind), buf, p, v)
    BY <1>4, <1>5
  <2>2. QED
    BY <1>3, <1>7, <2>1, TextMoved
<1>10. Became(b, num, m) /\ IsText(Chars, Tail(Behind), b, num, m - num)
  BY <1>2, <1>4, <1>9
<1>11. Prefix' = Prefix /\ Behind' = Tail(Behind)
  BY <1>8, <1>10, After
<1>12. QED
  BY <1>1, <1>5, <1>11 DEF Edits

LEMMA DeleteBackwardEdits ==
  LineOK /\ DeleteBackward => Prefix # <<>> /\ Edits(Front(Prefix), Behind)
<1> SUFFICES ASSUME LineOK, DeleteBackward PROVE Prefix # <<>> /\ Edits(Front(Prefix), Behind)
  OBVIOUS
<1>1. num > 0 /\ Takes(num - 1, num - 1) /\ UNCHANGED <<RecentLines, Age>>
  BY DeleteBackwardDoes, HistoryKept, Zenon DEF DeleteBackward, EditsTo
<1>2. PICK b : Removed(buf, num - 1, eolNum, b) /\ Became(b, num - 1, eolNum - 1)
  BY <1>1 DEF Takes
<1>3. /\ num \in Nat /\ eolNum \in Nat /\ num <= eolNum
      /\ IsText(Chars, Prefix, buf, 0, num) /\ IsText(Chars, Behind, buf, num, eolNum - num)
  BY Before
<1>4. PICK p \in Nat, w \in Nat, m \in Nat :
        p = num - 1 /\ w = eolNum - num /\ m = eolNum - 1 /\ w = m - p
  BY <1>1, <1>3
<1>5. Prefix # <<>> /\ IsText(Chars, Front(Prefix), buf, 0, num - 1)
  BY <1>1, <1>3, TextFrontLast
<1>6. Removed(buf, p, eolNum, b) /\ Became(b, p, m) /\ IsText(Chars, Front(Prefix), buf, 0, p)
  BY <1>2, <1>4, <1>5
<1>7. SameCells(buf, 0, b, 0, p)
  <2>1. \A k \in 0..(p - 1) : 0 + k \in 0..(eolNum - 2) /\ 0 + k < p
    BY <1>1, <1>3, <1>4
  <2>2. QED
    BY <1>6, <2>1 DEF SameCells, Removed
<1>8. SameCells(buf, num, b, p, w)
  <2>1. \A k \in 0..(w - 1) : p + k \in 0..(eolNum - 2) /\ ~(p + k < p) /\ (p + k) + 1 = num + k
    BY <1>1, <1>3, <1>4
  <2>2. QED
    BY <1>6, <2>1 DEF SameCells, Removed
<1>9. IsText(Chars, Front(Prefix), b, 0, p)
  BY <1>4, <1>6, <1>7, TextMoved
<1>10. IsText(Chars, Behind, b, p, w)
  <2>1. IsText(Chars, Behind, buf, num, w)
    BY <1>3, <1>4
  <2>2. QED
    BY <1>3, <1>4, <1>8, <2>1, TextMoved
<1>11. IsText(Chars, Behind, b, p, m - p)
  BY <1>4, <1>10
<1>12. Prefix' = Front(Prefix) /\ Behind' = Behind
  BY <1>6, <1>9, <1>11, After
<1>13. QED
  BY <1>1, <1>5, <1>12 DEF Edits

\* A recalled line, with the cursor at its end.
LEMMA CallsLine ==
  ASSUME NEW str \in Seq(Chars), Calls(str)
  PROVE  Prefix' = str /\ Behind' = <<>>
<1>1. PICK b : /\ \A k \in 0..(Len(str) - 1) : b[k] = str[k + 1]
               /\ Became(b, Len(str), Len(str))
  BY DEF Calls
<1>2. PICK n \in Nat : n = Len(str)
  OBVIOUS
<1>3. IsText(Chars, str, b, 0, n)
  <2>1. ASSUME NEW k \in 1..n PROVE str[k] = b[0 + k - 1]
    <3>1. 0 + k - 1 \in 0..(Len(str) - 1) /\ (0 + k - 1) + 1 = k
      BY <1>2
    <3>2. QED
      BY <1>1, <3>1
  <2>2. QED
    BY <1>2, <2>1 DEF IsText
<1>4. n - n = 0 /\ IsText(Chars, <<>>, b, n, 0)
  BY TextEmpty
<1>5. IsText(Chars, <<>>, b, n, n - n) /\ Became(b, n, n)
  BY <1>1, <1>2, <1>4
<1>6. QED
  BY <1>3, <1>5, After

\* Completion writes more of a name, before the text behind the cursor or over it.
TextDropped(s, d) == SubSeq(s, d + 1, Len(s))

LEMMA TextDrop ==
  ASSUME NEW s, NEW b, NEW from \in Nat, NEW n \in Nat, IsText(Chars, s, b, from, n), NEW d \in 0..n
  PROVE  IsText(Chars, TextDropped(s, d), b, from + d, n - d)
<1>1. s \in Seq(Chars) /\ Len(s) = n /\ \A k \in 1..n : s[k] = b[from + k - 1]
  BY DEF IsText
<1>2. IsSlice(SubSeq(s, d + 1, n), s, d + 1, n)
  BY <1>1, SliceFacts
<1>3. PICK u : u = SubSeq(s, d + 1, n) /\ IsSlice(u, s, d + 1, n)
  BY <1>2
<1>4. u \in Seq(Chars) /\ Len(u) = n - d /\ \A k \in 1..(n - d) : u[k] = s[k + d]
  <2>1. n - (d + 1) + 1 = n - d /\ \A k \in 1..(n - d) : (d + 1) + k - 1 = k + d
    OBVIOUS
  <2>2. QED
    BY <1>3, <2>1 DEF IsSlice
<1>5. ASSUME NEW k \in 1..(n - d) PROVE u[k] = b[(from + d) + k - 1]
  <2>1. k + d \in 1..n /\ from + (k + d) - 1 = (from + d) + k - 1
    OBVIOUS
  <2>2. QED
    BY <1>1, <1>4, <2>1
<1>6. IsText(Chars, u, b, from + d, n - d)
  BY <1>4, <1>5 DEF IsText
<1>7. QED
  BY <1>1, <1>3, <1>6 DEF TextDropped

\* The number of characters that are overwritten.
Dropped(j) == IF insert THEN 0 ELSE IF num + j <= eolNum THEN j ELSE eolNum - num

LEMMA TypedBehind ==
  ASSUME LineOK, NEW x, NEW j \in Nat, NEW b, NEW n, NEW m,
         Typed(buf, num, eolNum, x, j, b, n, m), Became(b, n, m)
  PROVE  /\ Dropped(j) \in 0..Len(Behind) /\ Dropped(j) \in {0, j, Len(Behind)}
         /\ n + Len(Behind) - Dropped(j) <= Size
         /\ Behind' = TextDropped(Behind, Dropped(j))
<1>1. /\ num \in Nat /\ eolNum \in Nat /\ num <= eolNum
      /\ IsText(Chars, Behind, buf, num, eolNum - num) /\ Len(Behind) = eolNum - num
  BY Before
<1>2. PICK w \in Nat, d \in Nat : w = eolNum - num /\ d = Dropped(j) /\ d <= w /\ d \in {0, j, w}
  <2>1. PICK w \in Nat : w = eolNum - num
    BY <1>1
  <2>2. CASE insert
    BY <2>1, <2>2 DEF Dropped
  <2>3. CASE ~insert /\ num + j <= eolNum
    <3>1. Dropped(j) = j /\ j <= w
      BY <1>1, <2>1, <2>3 DEF Dropped
    <3>2. QED
      BY <2>1, <3>1
  <2>4. CASE ~insert /\ ~(num + j <= eolNum)
    BY <1>1, <2>1, <2>4 DEF Dropped
  <2>5. QED
    BY <2>2, <2>3, <2>4
<1>3. BothTexts(buf', n, m) /\ \A k \in 0..(m - 1) : buf'[k] = b[k]
  BY TextsThen
<1>4. n \in Nat /\ m \in Nat /\ n <= m /\ m <= Size /\ n = num + j
  BY <1>3 DEF BothTexts, Typed
<1>5. m - n = w - d
  BY <1>1, <1>2, <1>4 DEF Typed, Dropped
<1>6. PICK p \in Nat, v \in Nat : p = num + d /\ v = w - d /\ v = m - n
  BY <1>1, <1>2, <1>5
<1>7. SameCells(buf, p, b, n, v)
  <2>1. ASSUME NEW k \in 0..(v - 1) PROVE b[n + k] = buf[p + k]
    <3>1. n + k \in (num + j)..(m - 1)
      BY <1>1, <1>4, <1>6
    <3>2. b[n + k] = buf[IF insert THEN (n + k) - j ELSE n + k]
      BY <3>1 DEF Typed
    <3>3. (IF insert THEN (n + k) - j ELSE n + k) = p + k
      <4>1. CASE insert
        BY <1>1, <1>2, <1>4, <1>6, <4>1 DEF Dropped
      <4>2. CASE ~insert /\ num + j <= eolNum
        BY <1>1, <1>2, <1>4, <1>6, <4>2 DEF Dropped
      <4>3. CASE ~insert /\ ~(num + j <= eolNum)
        BY <1>1, <1>2, <1>4, <1>6, <4>3 DEF Dropped
      <4>4. QED
        BY <4>1, <4>2, <4>3
    <3>4. QED
      BY <3>2, <3>3
  <2>2. QED
    BY <2>1 DEF SameCells
<1>8. IsText(Chars, TextDropped(Behind, d), buf, p, v)
  <2>1. d \in 0..w /\ IsText(Chars, Behind, buf, num, w)
    BY <1>1, <1>2
  <2>2. IsText(Chars, TextDropped(Behind, d), buf, num + d, w - d)
    BY <1>1, <2>1, TextDrop
  <2>3. QED
    BY <1>6, <2>2
<1>9. IsText(Chars, TextDropped(Behind, d), b, n, m - n)
  <2>1. IsText(Chars, TextDropped(Behind, d), b, n, v)
    BY <1>4, <1>7, <1>8, TextMoved
  <2>2. QED
    BY <1>6, <2>1
<1>10. IsText(Chars, Text(b, 0, n), b, 0, n)
  <2>1. \A k \in 0..(0 + n - 1) : b[k] \in Chars
    <3>1. IsText(Chars, Text(buf', 0, n), buf', 0, n)
      BY <1>3 DEF BothTexts
    <3>2. PICK b2, u : b2 = buf' /\ u = Text(buf', 0, n) /\ IsText(Chars, u, b2, 0, n)
      BY <3>1
    <3>3. u \in Seq(Chars) /\ Len(u) = n /\ \A k \in 1..n : u[k] = b2[0 + k - 1]
      BY <3>2 DEF IsText
    <3>4. ASSUME NEW k \in 0..(0 + n - 1) PROVE b[k] \in Chars
      <4>1. k \in 0..(m - 1) /\ k + 1 \in 1..n /\ 0 + (k + 1) - 1 = k
        BY <1>4
      <4>2. b2[k] = b[k] /\ u[k + 1] = b2[k] /\ u[k + 1] \in Chars
        BY <1>3, <3>2, <3>3, <4>1
      <4>3. QED
        BY <4>2
    <3>5. QED
      BY <3>4
  <2>2. Holds(Chars, b, 0, n)
    BY <2>1 DEF Holds
  <2>3. QED
    BY <1>4, <2>2, TextFacts
<1>11. Behind' = TextDropped(Behind, d)
  BY <1>9, <1>10, After
<1>12. QED
  BY <1>1, <1>2, <1>4, <1>5, <1>11

CompletesBy(name, n, d) ==
  /\ name \in CommandNames /\ IsPrefix(Prefix, name)
  /\ n \in Len(Prefix)..Len(name) /\ d \in 0..Len(Behind)
  /\ d \in {0, n - Len(Prefix), Len(Behind)} /\ n + Len(Behind) - d <= Size
  /\ Edits(SubSeq(name, 1, n), TextDropped(Behind, d))

LEMMA TabEdits ==
  ASSUME LineOK, Tab
  PROVE  Edits(Prefix, Behind) \/ \E name, n, d : CompletesBy(name, n, d)
<1>1. CASE Overrun
  BY <1>1, HistoryKept DEF Overrun, lineVars, Edits, Prefix, Behind, Text
<1>2. CASE ~Overrun
  <2>1. TabTypes(Extension(Prefix)) /\ UNCHANGED <<RecentLines, Age>>
    BY <1>2, TabDoes, HistoryKept DEF Tab
  <2>2. PICK x : x = Extension(Prefix) /\ x \in Seq(Chars)
    BY PrefixFacts, ExtensionTyped
  <2>3. PICK b, n, m : Completed(buf, num, eolNum, x, Len(x), b, n, m) /\ Became(b, n, m)
    BY <2>1, <2>2 DEF TabTypes
  <2>4. PICK j \in 0..Len(x) : Typed(buf, num, eolNum, x, j, b, n, m)
    BY <2>3 DEF Completed
  <2>5. j \in Nat /\ j <= Len(x) /\ n = num + j
    BY <2>2, <2>4 DEF Typed
  <2>6. /\ Dropped(j) \in 0..Len(Behind) /\ Dropped(j) \in {0, j, Len(Behind)}
        /\ n + Len(Behind) - Dropped(j) <= Size
        /\ Behind' = TextDropped(Behind, Dropped(j))
    BY <2>3, <2>4, <2>5, TypedBehind
  <2>7. num \in Nat /\ Prefix \in Seq(Chars) /\ Len(Prefix) = num
    BY Before
  <2>8. CASE Candidates(Prefix) = {}
    <3>1. x = <<>>
      BY <2>2, <2>8, Zenon DEF Extension
    <3>2. Completed(buf, num, eolNum, <<>>, 0, b, n, m)
      BY <2>3, <3>1
    <3>3. j = 0 /\ n = num
      BY <2>5, <2>7, <3>1
    <3>4. Dropped(j) = 0
      BY <3>3, Before DEF Dropped
    <3>5. Behind' = Behind
      <4>1. Behind \in Seq(Chars) /\ Len(Behind) \in Nat /\ 0 + 1 = 1
        BY Before
      <4>2. SubSeq(Behind, 1, Len(Behind)) = Behind
        BY <4>1, SubSeqFull
      <4>3. QED
        BY <2>6, <3>4, <4>1, <4>2 DEF TextDropped
    <3>6. Prefix' = Prefix
      <4>1. /\ IsText(Chars, Prefix, buf, 0, num) /\ IsText(Chars, Behind, buf, num, eolNum - num)
            /\ eolNum \in Nat /\ num <= eolNum
        BY Before
      <4>2. m = eolNum /\ \A idx \in 0..(num - 1) : b[idx] = buf[idx]
        BY <2>4, <2>7, <3>3, <4>1 DEF Typed
      <4>3. BothTexts(buf', n, m) /\ num' = n /\ \A k \in 0..(m - 1) : buf'[k] = b[k]
        BY <2>3, TextsThen
      <4>4. PICK b2 : b2 = buf'
        OBVIOUS
      <4>5. SameCells(buf, 0, b2, 0, num)
        <5>1. \A k \in 0..(num - 1) : 0 + k = k /\ k \in 0..(m - 1)
          BY <2>7, <4>1, <4>2
        <5>2. QED
          BY <4>2, <4>3, <4>4, <5>1 DEF SameCells
      <4>6. IsText(Chars, Prefix, b2, 0, num)
        BY <2>7, <4>1, <4>5, TextMoved
      <4>7. IsText(Chars, Text(b2, 0, num), b2, 0, num)
        BY <3>3, <4>3, <4>4 DEF BothTexts
      <4>8. Text(b2, 0, num) = Prefix
        BY <4>6, <4>7, TextUnique
      <4>9. QED
        BY <3>3, <4>3, <4>4, <4>8, Zenon DEF Prefix
    <3>7. QED
      BY <2>1, <3>5, <3>6 DEF Edits
  <2>9. CASE Candidates(Prefix) # {}
    <3>1. PICK name, last : ExtensionIs(Extension(Prefix), Prefix, name, last)
      BY <2>7, <2>9, ExtensionFacts
    <3>2. ExtensionIs(x, Prefix, name, last)
      BY <2>2, <3>1
    <3>3. /\ Prefix' \in Seq(Chars) /\ Len(Prefix') = num + j /\ num + j <= last
          /\ StartsWith(Prefix', name)
      BY <2>3, <2>4, <2>5, <3>2, TabFollowsName
    <3>4. /\ name \in Seq(Chars) /\ name \in CommandNames /\ StartsWith(Prefix, name)
          /\ last \in Nat /\ last <= Len(name) /\ Len(name) \in Nat
      BY <3>2 DEF ExtensionIs
    <3>5. PICK text \in Seq(Chars) : text = Prefix' /\ Len(text) = n /\ StartsWith(text, name)
      BY <2>5, <3>3
    <3>6. n \in Nat /\ num <= n /\ n <= Len(name)
      BY <2>5, <2>7, <3>3, <3>4
    <3>7. text = SubSeq(name, 1, n)
      <4>1. PICK u : u = SubSeq(name, 1, n) /\ IsSlice(u, name, 1, n)
        <5>1. 1 \in Nat \ {0} /\ 1 <= n + 1
          BY <3>6
        <5>2. IsSlice(SubSeq(name, 1, n), name, 1, n)
          BY <3>4, <3>6, <5>1, SliceFacts
        <5>3. QED
          BY <5>2
      <4>2. u \in Seq(Chars) /\ Len(u) = n /\ \A k \in 1..n : u[k] = name[k]
        <5>1. n - 1 + 1 = n /\ \A k \in 1..n : 1 + k - 1 = k
          BY <3>6
        <5>2. QED
          BY <4>1, <5>1 DEF IsSlice
      <4>3. SameText(text, u)
        BY <3>5, <4>2 DEF SameText, StartsWith
      <4>4. QED
        BY <3>5, <4>1, <4>2, <4>3, SameTextEqual
    <3>8. Edits(SubSeq(name, 1, n), TextDropped(Behind, Dropped(j)))
      BY <2>1, <2>6, <3>5, <3>7 DEF Edits
    <3>9. n - Len(Prefix) = j /\ n \in Len(Prefix)..Len(name)
      BY <2>5, <2>7, <3>4, <3>6
    <3>10. IsPrefix(Prefix, name)
      BY <2>7, <3>4, StartsFacts
    <3>11. CompletesBy(name, n, Dropped(j))
      BY <2>6, <3>4, <3>8, <3>9, <3>10 DEF CompletesBy
    <3>12. QED
      BY <3>11
  <2>10. QED
    BY <2>8, <2>9
<1>3. QED
  BY <1>1, <1>2

--------------------------------------------------------------------------------
(* The ring is the list of recent lines.                                        *)

\* The next line goes behind the last slot in use until the ring is full.
RingInOrder == histMax < HistMax - 1 => histAddIdx = histMax

Slot(a, k) == (a - k) % HistMax

LEMMA SlotIs ==
  ASSUME NEW a \in 0..(HistMax - 1), NEW k \in 0..(HistMax - 1)
  PROVE  Slot(a, k) = IF k <= a THEN a - k ELSE a - k + HistMax
<1>1. HistMax \in Nat \ {0}
  BY EditorAssumption
<1>2. CASE k <= a
  <2>1. PICK x \in Int : x = a - k /\ 0 <= x /\ x < HistMax
    BY <1>1, <1>2
  <2>2. x % HistMax = x
    BY <1>1, <2>1
  <2>3. QED
    BY <1>2, <2>1, <2>2 DEF Slot
<1>3. CASE ~(k <= a)
  <2>1. PICK x \in Int : x = a - k /\ x < 0 /\ 0 - HistMax <= x
    BY <1>1, <1>3
  <2>2. x % HistMax = x + HistMax
    BY <1>1, <2>1
  <2>3. QED
    BY <1>3, <2>1, <2>2 DEF Slot
<1>4. QED
  BY <1>2, <1>3

LEMMA AgeIs ==
  ASSUME RingOK, histCur >= 0
  PROVE  Age = IF histCur <= histAddIdx THEN histAddIdx - histCur ELSE histAddIdx - histCur + HistMax
<1>1. HistMax \in Nat \ {0} /\ histAddIdx \in 0..(HistMax - 1) /\ histCur \in 0..(HistMax - 1) /\ ~(histCur < 0)
  BY RingFacts
<1>2. Age = Slot(histAddIdx, histCur)
  BY <1>1 DEF Age, Slot
<1>3. QED
  BY <1>1, <1>2, SlotIs

LEMMA RecentFacts ==
  ASSUME RingOK
  PROVE  /\ RecentLines \in Seq(Seq(Chars)) /\ Len(RecentLines) = histMax /\ histMax \in Nat
         /\ \A k \in 1..histMax : RecentLines[k] = histLines[Slot(histAddIdx, k)]
<1>1. /\ HistMax \in Nat \ {0} /\ histMax \in 0..(HistMax - 1) /\ histAddIdx \in 0..histMax
      /\ \A idx \in 0..(HistMax - 1) : histLines[idx] \in Seq(Chars)
  BY RingFacts
<1>2. ASSUME NEW k \in 1..histMax PROVE Slot(histAddIdx, k) \in 0..(HistMax - 1)
  <2>1. histAddIdx \in 0..(HistMax - 1) /\ k \in 0..(HistMax - 1)
    BY <1>1
  <2>2. Slot(histAddIdx, k) = IF k <= histAddIdx THEN histAddIdx - k ELSE histAddIdx - k + HistMax
    BY <2>1, SlotIs
  <2>3. CASE k <= histAddIdx
    BY <1>1, <2>1, <2>2, <2>3
  <2>4. CASE ~(k <= histAddIdx)
    BY <1>1, <2>1, <2>2, <2>4
  <2>5. QED
    BY <2>3, <2>4
<1>3. RecentLines = [k \in 1..histMax |-> histLines[Slot(histAddIdx, k)]]
  BY DEF RecentLines, Slot
<1>4. RecentLines \in [1..histMax -> Seq(Chars)]
  BY <1>1, <1>2, <1>3
<1>5. RecentLines \in Seq(Seq(Chars)) /\ Len(RecentLines) = histMax
  BY <1>1, <1>4
<1>6. QED
  BY <1>1, <1>3, <1>5

LEMMA UpOlder ==
  ASSUME LineOK, RingOK, RingInOrder, Up
  PROVE  /\ Age < Len(RecentLines) /\ Age' = Age + 1
         /\ Prefix' = RecentLines[Age + 1] /\ Behind' = <<>> /\ RecentLines' = RecentLines
<1>1. /\ HistMax \in Nat \ {0} /\ histMax \in 0..(HistMax - 1) /\ histAddIdx \in 0..histMax
      /\ histCur \in 0..histMax
      /\ \A idx \in 0..(HistMax - 1) : histLines[idx] \in Seq(Chars)
  BY RingFacts DEF Up
<1>2. /\ HistPrev # histAddIdx /\ histCur' = HistPrev
      /\ UNCHANGED <<histLines, histMax, histAddIdx>>
  BY Zenon DEF Up, Shows
<1>3. HistPrev = (IF histCur = 0 THEN histMax ELSE histCur - 1) /\ HistPrev \in 0..histMax
  BY <1>1 DEF HistPrev
<1>4. RecentLines' = RecentLines
  BY <1>2 DEF RecentLines
<1>5. PICK prev \in 0..histMax : prev = HistPrev /\ prev # histAddIdx /\ histCur' = prev
                                 /\ prev = IF histCur = 0 THEN histMax ELSE histCur - 1
  BY <1>2, <1>3
<1>6. Age = IF histCur <= histAddIdx THEN histAddIdx - histCur ELSE histAddIdx - histCur + HistMax
  BY <1>1, AgeIs
<1>7. Age' = IF prev <= histAddIdx THEN histAddIdx - prev ELSE histAddIdx - prev + HistMax
  <2>1. Age' = IF prev < 0 THEN 0 ELSE Slot(histAddIdx, prev)
    BY <1>2, <1>5 DEF Age, Slot
  <2>2. ~(prev < 0) /\ prev \in 0..(HistMax - 1) /\ histAddIdx \in 0..(HistMax - 1)
    BY <1>1
  <2>3. Slot(histAddIdx, prev) = IF prev <= histAddIdx THEN histAddIdx - prev ELSE histAddIdx - prev + HistMax
    BY <2>2, SlotIs
  <2>4. QED
    BY <2>1, <2>2, <2>3
<1>8. histMax < HistMax - 1 => histAddIdx = histMax
  BY DEF RingInOrder
<1>9. Age' = Age + 1 /\ Age \in Nat /\ Age + 1 <= histMax
  <2>1. CASE histCur = 0
    <3>1. prev = histMax /\ histMax = HistMax - 1 /\ histAddIdx < histMax
      BY <1>1, <1>5, <1>8, <2>1
    <3>2. QED
      BY <1>1, <1>6, <1>7, <2>1, <3>1
  <2>2. CASE histCur # 0 /\ histCur <= histAddIdx
    <3>1. prev = histCur - 1
      BY <1>5, <2>2
    <3>2. QED
      BY <1>1, <1>6, <1>7, <2>2, <3>1
  <2>3. CASE histCur # 0 /\ ~(histCur <= histAddIdx)
    <3>1. prev = histCur - 1 /\ prev > histAddIdx /\ histMax = HistMax - 1
      BY <1>1, <1>5, <1>8, <2>3
    <3>2. QED
      BY <1>1, <1>6, <1>7, <2>3, <3>1
  <2>4. QED
    BY <2>1, <2>2, <2>3
<1>10. Slot(histAddIdx, Age + 1) = prev
  <2>1. PICK k \in 0..(HistMax - 1) : k = Age + 1
    BY <1>1, <1>9
  <2>2. histAddIdx \in 0..(HistMax - 1)
    BY <1>1
  <2>3. Slot(histAddIdx, k) = IF k <= histAddIdx THEN histAddIdx - k ELSE histAddIdx - k + HistMax
    BY <2>1, <2>2, SlotIs
  <2>4. k = IF prev <= histAddIdx THEN histAddIdx - prev ELSE histAddIdx - prev + HistMax
    BY <1>7, <1>9, <2>1
  <2>5. CASE prev <= histAddIdx
    BY <1>1, <2>1, <2>3, <2>4, <2>5
  <2>6. CASE ~(prev <= histAddIdx)
    <3>1. k = histAddIdx - prev + HistMax
      BY <2>4, <2>6
    <3>2. /\ HistMax \in Nat /\ histAddIdx \in Nat /\ prev < HistMax /\ prev > histAddIdx
         /\ prev \in Nat
      BY <1>1, <2>6
    <3>3. ~(k <= histAddIdx) /\ histAddIdx - k + HistMax = prev
      BY <3>1, <3>2
    <3>4. QED
      BY <2>1, <2>3, <3>3
  <2>7. QED
    BY <2>5, <2>6
<1>11. RecentLines[Age + 1] = histLines[prev]
  <2>1. Age + 1 \in 1..histMax
    BY <1>1, <1>9
  <2>2. QED
    BY <1>10, <2>1, RecentFacts
<1>12. Prefix' = histLines[prev] /\ Behind' = <<>>
  <2>1. PICK str : str = histLines[prev] /\ str \in Seq(Chars)
    BY <1>1
  <2>2. Calls(str)
    BY <1>5, <2>1, UpDoes
  <2>3. QED
    BY <2>1, <2>2, CallsLine
<1>13. QED
  BY <1>1, <1>4, <1>9, <1>11, <1>12, RecentFacts

LEMMA DownNewer ==
  ASSUME LineOK, RingOK, RingInOrder, Down
  PROVE  /\ Age > 0 /\ Age' = Age - 1
         /\ Prefix' = (IF Age - 1 = 0 THEN <<>> ELSE RecentLines[Age - 1])
         /\ Behind' = <<>> /\ RecentLines' = RecentLines
<1>1. /\ HistMax \in Nat \ {0} /\ histMax \in 0..(HistMax - 1) /\ histAddIdx \in 0..histMax
      /\ histCur \in 0..histMax /\ histCur # histAddIdx
      /\ \A idx \in 0..(HistMax - 1) : histLines[idx] \in Seq(Chars)
  BY RingFacts DEF Down
<1>2. histCur' = HistNext /\ UNCHANGED <<histLines, histMax, histAddIdx>>
  BY Zenon DEF Down, Shows
<1>3. HistNext = (IF histCur = histMax THEN 0 ELSE histCur + 1) /\ HistNext \in 0..histMax
  BY <1>1 DEF HistNext
<1>4. RecentLines' = RecentLines
  BY <1>2 DEF RecentLines
<1>5. PICK later \in 0..histMax : later = HistNext /\ histCur' = later
                                 /\ later = IF histCur = histMax THEN 0 ELSE histCur + 1
  BY <1>2, <1>3
<1>6. Age = IF histCur <= histAddIdx THEN histAddIdx - histCur ELSE histAddIdx - histCur + HistMax
  BY <1>1, AgeIs
<1>7. Age' = IF later <= histAddIdx THEN histAddIdx - later ELSE histAddIdx - later + HistMax
  <2>1. Age' = IF later < 0 THEN 0 ELSE Slot(histAddIdx, later)
    BY <1>2, <1>5 DEF Age, Slot
  <2>2. ~(later < 0) /\ later \in 0..(HistMax - 1) /\ histAddIdx \in 0..(HistMax - 1)
    BY <1>1
  <2>3. Slot(histAddIdx, later) = IF later <= histAddIdx THEN histAddIdx - later ELSE histAddIdx - later + HistMax
    BY <2>2, SlotIs
  <2>4. QED
    BY <2>1, <2>2, <2>3
<1>8. histMax < HistMax - 1 => histAddIdx = histMax
  BY DEF RingInOrder
<1>9. Age' = Age - 1 /\ Age \in Nat /\ Age > 0 /\ Age - 1 <= histMax
  <2>1. CASE histCur = histMax
    <3>1. later = 0 /\ histMax = HistMax - 1 /\ histAddIdx < histMax
      BY <1>1, <1>5, <1>8, <2>1
    <3>2. QED
      BY <1>1, <1>6, <1>7, <2>1, <3>1
  <2>2. CASE histCur # histMax /\ histCur <= histAddIdx
    <3>1. later = histCur + 1 /\ later <= histAddIdx
      BY <1>1, <1>5, <2>2
    <3>2. QED
      BY <1>1, <1>6, <1>7, <2>2, <3>1
  <2>3. CASE histCur # histMax /\ ~(histCur <= histAddIdx)
    <3>1. later = histCur + 1 /\ histMax = HistMax - 1 /\ histCur < histMax
      BY <1>1, <1>5, <1>8, <2>3
    <3>2. QED
      BY <1>1, <1>6, <1>7, <2>3, <3>1
  <2>4. QED
    BY <2>1, <2>2, <2>3
<1>10. later = histAddIdx <=> Age - 1 = 0
  <2>1. CASE later <= histAddIdx
    BY <1>1, <1>7, <1>9, <2>1
  <2>2. CASE ~(later <= histAddIdx)
    BY <1>1, <1>7, <1>9, <2>2
  <2>3. QED
    BY <2>1, <2>2
<1>11. ASSUME Age - 1 # 0 PROVE RecentLines[Age - 1] = histLines[later]
  <2>1. PICK k \in 0..(HistMax - 1) : k = Age - 1 /\ k \in 1..histMax
    BY <1>1, <1>9, <1>11
  <2>2. histAddIdx \in 0..(HistMax - 1)
    BY <1>1
  <2>3. Slot(histAddIdx, k) = IF k <= histAddIdx THEN histAddIdx - k ELSE histAddIdx - k + HistMax
    BY <2>1, <2>2, SlotIs
  <2>4. k = IF later <= histAddIdx THEN histAddIdx - later ELSE histAddIdx - later + HistMax
    BY <1>7, <1>9, <2>1
  <2>5. Slot(histAddIdx, k) = later
    <3>1. CASE later <= histAddIdx
      BY <1>1, <2>1, <2>3, <2>4, <3>1
    <3>2. CASE ~(later <= histAddIdx)
      <4>1. k = histAddIdx - later + HistMax
        BY <2>4, <3>2
      <4>2. /\ HistMax \in Nat /\ histAddIdx \in Nat /\ later < HistMax /\ later > histAddIdx
           /\ later \in Nat
        BY <1>1, <3>2
      <4>3. ~(k <= histAddIdx) /\ histAddIdx - k + HistMax = later
        BY <4>1, <4>2
      <4>4. QED
        BY <2>3, <4>3
    <3>3. QED
      BY <3>1, <3>2
  <2>6. QED
    BY <2>1, <2>5, RecentFacts
<1>12. Prefix' = (IF later = histAddIdx THEN <<>> ELSE histLines[later]) /\ Behind' = <<>>
  <2>1. <<>> \in Seq(Chars)
    OBVIOUS
  <2>2. PICK str : str = DownText /\ str \in Seq(Chars) /\ str = IF later = histAddIdx THEN <<>> ELSE histLines[later]
    <3>1. histLines[later] \in Seq(Chars)
      BY <1>1
    <3>2. DownText = IF later = histAddIdx THEN <<>> ELSE histLines[later]
      BY <1>5 DEF DownText
    <3>3. DownText \in Seq(Chars)
      BY <2>1, <3>1, <3>2
    <3>4. QED
      BY <3>2, <3>3
  <2>3. Calls(str)
    BY <2>2, DownDoes
  <2>4. QED
    BY <2>2, <2>3, CallsLine
<1>13. QED
  BY <1>4, <1>9, <1>10, <1>11, <1>12

\* The list with one more line, cut to what the ring can keep.
WithLine(whole) ==
  LET kept == <<whole>> \o RecentLines IN
  SubSeq(kept, 1, IF Len(kept) > HistMax - 1 THEN HistMax - 1 ELSE Len(kept))

LEMMA LineAdded ==
  ASSUME RingOK, RingInOrder, NEW whole \in Seq(Chars), AddToHist(whole)
  PROVE  RecentLines' = WithLine(whole) /\ RingInOrder'
<1>1. /\ HistMax \in Nat \ {0} /\ histMax \in 0..(HistMax - 1) /\ histAddIdx \in 0..histMax
      /\ histLines \in [0..(HistMax - 1) -> Lines(Size - 1)]
      /\ \A idx \in 0..(HistMax - 1) : histLines[idx] \in Seq(Chars)
  BY RingFacts DEF RingOK
<1>2. PICK add2, max2, lines2 : add2 = histAddIdx' /\ max2 = histMax' /\ lines2 = histLines'
  OBVIOUS
<1>3. /\ add2 = IF histAddIdx + 1 >= HistMax THEN 0 ELSE histAddIdx + 1
      /\ max2 = IF add2 > histMax THEN add2 ELSE histMax
      /\ lines2 = [histLines EXCEPT ![histAddIdx] = whole]
  BY <1>2 DEF AddToHist
<1>4. /\ add2 \in 0..max2 /\ max2 \in 0..(HistMax - 1)
      /\ max2 = IF histMax + 1 > HistMax - 1 THEN HistMax - 1 ELSE histMax + 1
      /\ (max2 < HistMax - 1 => add2 = max2)
  <2>1. CASE histMax < HistMax - 1
    <3>1. histAddIdx = histMax
      BY <2>1 DEF RingInOrder
    <3>2. add2 = histMax + 1 /\ max2 = histMax + 1
      BY <1>1, <1>3, <2>1, <3>1
    <3>3. QED
      BY <1>1, <2>1, <3>2
  <2>2. CASE histMax = HistMax - 1
    <3>1. add2 \in 0..(HistMax - 1)
      BY <1>1, <1>3
    <3>2. max2 = HistMax - 1
      BY <1>1, <1>3, <2>2, <3>1
    <3>3. QED
      BY <1>1, <2>2, <3>1, <3>2
  <2>3. QED
    BY <1>1, <2>1, <2>2
<1>5. RingInOrder'
  BY <1>2, <1>4 DEF RingInOrder
<1>6. PICK kept \in Seq(Seq(Chars)) :
        /\ kept = <<whole>> \o RecentLines /\ Len(kept) = histMax + 1
        /\ kept[1] = whole /\ \A k \in 1..histMax : kept[k + 1] = RecentLines[k]
  <2>1. /\ <<whole>> \in Seq(Seq(Chars)) /\ Len(<<whole>>) = 1 /\ <<whole>>[1] = whole
        /\ RecentLines \in Seq(Seq(Chars)) /\ Len(RecentLines) = histMax
    BY RecentFacts
  <2>2. PICK one, rest : one = <<whole>> /\ rest = RecentLines
    OBVIOUS
  <2>3. /\ one \o rest \in Seq(Seq(Chars)) /\ Len(one \o rest) = 1 + histMax
        /\ \A idx \in 1..(1 + histMax) : (one \o rest)[idx] = IF idx <= 1 THEN one[idx] ELSE rest[idx - 1]
    BY <2>1, <2>2, ConcatProperties
  <2>4. PICK both : both = one \o rest
    OBVIOUS
  <2>5. both[1] = whole
    <3>1. 1 \in 1..(1 + histMax) /\ 1 <= 1
      BY <1>1
    <3>2. QED
      BY <2>1, <2>2, <2>3, <2>4, <3>1
  <2>6. ASSUME NEW k \in 1..histMax PROVE both[k + 1] = rest[k]
    <3>1. k + 1 \in 1..(1 + histMax) /\ ~(k + 1 <= 1) /\ (k + 1) - 1 = k
      BY <1>1
    <3>2. QED
      BY <2>3, <2>4, <3>1
  <2>7. histMax + 1 = 1 + histMax
    BY <1>1
  <2>8. QED
    BY <2>2, <2>3, <2>4, <2>5, <2>6, <2>7
<1>7. PICK n \in Nat : n = max2 /\ n <= Len(kept) /\ n = IF Len(kept) > HistMax - 1 THEN HistMax - 1 ELSE Len(kept)
  BY <1>1, <1>4, <1>6
<1>8. PICK cut \in Seq(Seq(Chars)) : /\ cut = SubSeq(kept, 1, n) /\ Len(cut) = n
                                     /\ \A k \in 1..n : cut[k] = kept[k]
  <2>1. \A k \in 1..n : kept[k] \in Seq(Chars)
    BY <1>6, <1>7
  <2>2. SubSeq(kept, 1, n) \in Seq(Seq(Chars)) /\ Len(SubSeq(kept, 1, n)) = IF 1 <= n THEN n - 1 + 1 ELSE 0
    BY <1>7, <2>1, SubSeqProperties
  <2>3. \A k \in 1..(n - 1 + 1) : SubSeq(kept, 1, n)[k] = kept[1 + k - 1]
    BY <1>7, <2>1, SubSeqProperties
  <2>4. PICK c : c = SubSeq(kept, 1, n)
    OBVIOUS
  <2>5. Len(c) = n /\ \A k \in 1..n : c[k] = kept[k]
    BY <1>7, <2>2, <2>3, <2>4
  <2>6. QED
    BY <2>2, <2>4, <2>5
<1>9. WithLine(whole) = cut
  BY <1>6, <1>7, <1>8, Zenon DEF WithLine
<1>10. ASSUME NEW k \in 1..n PROVE lines2[Slot(add2, k)] = cut[k]
  <2>1. add2 \in 0..(HistMax - 1) /\ k \in 0..(HistMax - 1) /\ histAddIdx \in 0..(HistMax - 1)
    BY <1>1, <1>4, <1>7
  <2>2. Slot(add2, k) = IF k <= add2 THEN add2 - k ELSE add2 - k + HistMax
    BY <2>1, SlotIs
  <2>3. CASE k = 1
    <3>1. Slot(add2, k) = histAddIdx
      BY <1>1, <1>3, <1>4, <1>7, <2>2, <2>3
    <3>2. lines2[histAddIdx] = whole
      BY <1>1, <1>3, <2>1
    <3>3. QED
      BY <1>6, <1>8, <2>3, <3>1, <3>2
  <2>4. CASE k # 1
    <3>1. PICK j : j = k - 1 /\ j \in 1..histMax /\ j \in 0..(HistMax - 1) /\ j + 1 = k
      <4>1. n <= histMax + 1 /\ n <= HistMax - 1
        BY <1>1, <1>4, <1>7
      <4>2. k - 1 \in 1..histMax /\ k - 1 \in 0..(HistMax - 1) /\ (k - 1) + 1 = k
        BY <1>1, <2>4, <4>1
      <4>3. QED
        BY <4>2
    <3>2. Slot(histAddIdx, j) = IF j <= histAddIdx THEN histAddIdx - j ELSE histAddIdx - j + HistMax
      BY <2>1, <3>1, SlotIs
    <3>3. Slot(add2, k) = Slot(histAddIdx, j)
      <4>1. CASE histAddIdx + 1 >= HistMax
        <5>1. add2 = 0 /\ histAddIdx = HistMax - 1
          BY <1>1, <1>3, <4>1
        <5>2. QED
          BY <1>1, <2>1, <2>2, <3>1, <3>2, <5>1
      <4>2. CASE ~(histAddIdx + 1 >= HistMax)
        <5>1. add2 = histAddIdx + 1
          BY <1>1, <1>3, <4>2
        <5>2. QED
          BY <1>1, <2>1, <2>2, <3>1, <3>2, <5>1
      <4>3. QED
        BY <4>1, <4>2
    <3>4. PICK idx : idx = Slot(histAddIdx, j) /\ idx \in 0..(HistMax - 1) /\ idx # histAddIdx
      BY <1>1, <2>1, <3>1, <3>2
    <3>5. lines2[idx] = histLines[idx]
      BY <1>1, <1>3, <3>4
    <3>6. RecentLines[j] = histLines[idx]
      BY <3>1, <3>4, RecentFacts
    <3>7. cut[k] = RecentLines[j]
      BY <1>6, <1>8, <3>1
    <3>8. QED
      BY <3>3, <3>4, <3>5, <3>6, <3>7
  <2>5. QED
    BY <2>3, <2>4
<1>11. RecentLines' = [k \in 1..max2 |-> lines2[Slot(add2, k)]]
  BY <1>2 DEF RecentLines, Slot
<1>12. [k \in 1..max2 |-> lines2[Slot(add2, k)]] = cut
  <2>1. cut = [k \in 1..n |-> cut[k]]
    BY <1>8
  <2>2. [k \in 1..n |-> lines2[Slot(add2, k)]] = [k \in 1..n |-> cut[k]]
    BY <1>10, Zenon
  <2>3. QED
    BY <1>7, <2>1, <2>2, Zenon
<1>13. QED
  BY <1>5, <1>9, <1>11, <1>12

LEMMA EnterEnters ==
  ASSUME LineOK, RingOK, RingInOrder, Enter, ~Overrun
  PROVE  /\ RecentLines' = (IF Prefix \o Behind = <<>> \/ Head(Prefix \o Behind) = HistChar
                            THEN RecentLines ELSE WithLine(Prefix \o Behind))
         /\ Age' = 0 /\ Prefix' = <<>> /\ Behind' = <<>> /\ RingInOrder'
<1>1. eolNum < Size /\ FreshReadline /\ histCur' = histAddIdx'
  BY DEF Enter
<1>2. Prefix' = <<>> /\ Behind' = <<>>
  BY <1>1, FreshDoes, EmptyLine
<1>3. PICK whole \in Seq(Chars) : /\ whole = Prefix \o Behind /\ whole = Text(buf, 0, eolNum)
                                 /\ (whole = <<>> <=> eolNum = 0) /\ (eolNum > 0 => Head(whole) = buf[0])
  <2>1. IsText(Chars, Prefix \o Behind, buf, 0, eolNum) /\ eolNum \in Nat
    BY WholeLine, Before
  <2>2. IsText(Chars, Text(buf, 0, eolNum), buf, 0, eolNum)
    <3>1. Holds(Chars, buf, 0, eolNum)
      BY LineIsCurrent, <2>1 DEF LineShown, Held, Holds
    <3>2. QED
      BY <2>1, <3>1, TextFacts
  <2>3. PICK whole : whole = Prefix \o Behind /\ whole = Text(buf, 0, eolNum) /\ IsText(Chars, whole, buf, 0, eolNum)
    BY <2>1, <2>2, TextUnique
  <2>4. whole \in Seq(Chars) /\ Len(whole) = eolNum
    BY <2>3 DEF IsText
  <2>5. whole = <<>> <=> eolNum = 0
    BY <2>4
  <2>6. eolNum > 0 => Head(whole) = buf[0]
    BY <2>1, <2>3, TextHeadTail
  <2>7. QED
    BY <2>3, <2>4, <2>5, <2>6
<1>4. eolNum \in Nat
  BY Before
<1>5. /\ HistMax \in Nat \ {0} /\ histMax \in 0..(HistMax - 1) /\ histAddIdx \in 0..histMax
  BY RingFacts
<1>6. CASE eolNum > 0 /\ buf[0] # HistChar
  <2>1. AddToHist(Text(buf, 0, eolNum))
    BY <1>1, <1>6 DEF Enter
  <2>2. AddToHist(whole)
    BY <1>3, <2>1
  <2>3. RecentLines' = WithLine(whole) /\ RingInOrder'
    BY <2>2, LineAdded
  <2>4. RingOK'
    BY <1>1, <2>1, EnterKeepsRing
  <2>5. PICK a \in 0..(HistMax - 1) : a = histAddIdx' /\ a = histCur'
    BY <1>1, <1>5, <2>4 DEF RingOK
  <2>6. Age' = 0
    <3>1. Slot(a, a) = 0
      BY <1>5, SlotIs
    <3>2. Age' = Slot(a, a)
      BY <1>5, <2>5 DEF Age, Slot
    <3>3. QED
      BY <3>1, <3>2
  <2>7. ~(Prefix \o Behind = <<>> \/ Head(Prefix \o Behind) = HistChar)
    BY <1>3, <1>4, <1>6
  <2>8. QED
    BY <1>2, <1>3, <2>3, <2>6, <2>7
<1>7. CASE ~(eolNum > 0 /\ buf[0] # HistChar)
  <2>1. UNCHANGED <<histLines, histAddIdx, histMax>>
    BY <1>1, <1>7, Zenon DEF Enter
  <2>2. RecentLines' = RecentLines /\ RingInOrder'
    BY <2>1 DEF RecentLines, RingInOrder
  <2>3. PICK a \in 0..(HistMax - 1) : a = histAddIdx' /\ a = histCur'
    BY <1>1, <1>5, <2>1
  <2>4. Age' = 0
    <3>1. Slot(a, a) = 0
      BY <1>5, SlotIs
    <3>2. Age' = Slot(a, a)
      BY <1>5, <2>3 DEF Age, Slot
    <3>3. QED
      BY <3>1, <3>2
  <2>5. Prefix \o Behind = <<>> \/ Head(Prefix \o Behind) = HistChar
    BY <1>3, <1>4, <1>7
  <2>6. QED
    BY <1>2, <2>2, <2>4, <2>5
<1>8. QED
  BY <1>6, <1>7

--------------------------------------------------------------------------------
(* The editor implements the line that CommandLine promises.                    *)

PromisedLine == <<Prefix, Behind, RecentLines, Age>>

LEMMA PromiseStart == EditorInit => Promise!Init
<1> SUFFICES ASSUME EditorInit PROVE Promise!Init
  OBVIOUS
<1>1. EditorKeeps
  BY ScreenStart
<1>2. num = 0 /\ eolNum = 0 /\ histMax = 0 /\ histAddIdx = 0 /\ histCur = -1
  BY DEF EditorInit
<1>3. Prefix = <<>> /\ Behind = <<>>
  BY <1>1, <1>2, Before DEF EditorKeeps
<1>4. RecentLines = <<>>
  <2>1. Len(RecentLines) = 0 /\ RecentLines \in Seq(Seq(Chars))
    BY <1>1, <1>2, RecentFacts DEF EditorKeeps
  <2>2. QED
    BY <2>1
<1>5. Age = 0
  BY <1>2 DEF Age
<1>6. QED
  BY <1>3, <1>4, <1>5 DEF Promise!Init, Behind, RecentLines, Age

LEMMA PromisedEdit ==
  ASSUME NEW before, NEW behind, Edits(before, behind)
  PROVE  Promise!Edits(before, behind)
BY DEF Edits, Promise!Edits, Behind, RecentLines, Age

LEMMA PromiseStep ==
  ASSUME EditorKeeps, RingInOrder, EditorNext
  PROVE  Promise!Next \/ UNCHANGED PromisedLine
<1>1. LineOK /\ RingOK
  BY DEF EditorKeeps
<1>2. ASSUME NEW c \in Chars, Type(c) PROVE Promise!Insert(c) \/ Promise!Replace(c) \/ UNCHANGED PromisedLine
  <2>1. CASE Len(Prefix \o Behind) < Size /\ Edits(Append(Prefix, c), Behind)
    <3>1. Promise!Edits(Append(Prefix, c), Behind)
      BY <2>1, PromisedEdit
    <3>2. QED
      BY <2>1, <3>1, Zenon DEF Promise!Insert, Behind
  <2>2. CASE Behind # <<>> /\ Edits(Append(Prefix, c), Tail(Behind))
    <3>1. Promise!Edits(Append(Prefix, c), Tail(Behind))
      BY <2>2, PromisedEdit
    <3>2. QED
      BY <2>2, <3>1, Zenon DEF Promise!Replace, Behind
  <2>3. CASE Edits(Prefix, Behind)
    BY <2>3 DEF Edits, PromisedLine
  <2>4. QED
    BY <1>1, <1>2, <2>1, <2>2, <2>3, TypeEdits
<1>3. CASE Home
  <2>1. Promise!Edits(<<>>, Prefix \o Behind)
    BY <1>1, <1>3, HomeEdits, PromisedEdit
  <2>2. QED
    BY <2>1, Zenon DEF Promise!Next, Promise!GoHome, Behind
<1>4. CASE End
  <2>1. Promise!Edits(Prefix \o Behind, <<>>)
    BY <1>1, <1>4, EndEdits, PromisedEdit
  <2>2. QED
    BY <2>1, Zenon DEF Promise!Next, Promise!GoToEnd, Behind
<1>5. CASE Left
  <2>1. Prefix # <<>> /\ Promise!Edits(Front(Prefix), <<Last(Prefix)>> \o Behind)
    BY <1>1, <1>5, LeftEdits, PromisedEdit
  <2>2. QED
    BY <2>1, Zenon DEF Promise!Next, Promise!StepLeft, Promise!Front, Promise!Last, Front, Last, Behind
<1>6. CASE Right
  <2>1. Behind # <<>> /\ Promise!Edits(Append(Prefix, Head(Behind)), Tail(Behind))
    BY <1>1, <1>6, RightEdits, PromisedEdit
  <2>2. QED
    BY <2>1, Zenon DEF Promise!Next, Promise!StepRight, Behind
<1>7. CASE EraseRest
  <2>1. Promise!Edits(Prefix, <<>>)
    BY <1>1, <1>7, EraseRestEdits, PromisedEdit
  <2>2. QED
    BY <2>1, Zenon DEF Promise!Next, Promise!RemoveRest
<1>8. CASE EraseLine \/ Break
  <2>1. Promise!Edits(<<>>, <<>>)
    BY <1>1, <1>8, EraseLineEdits, BreakEdits, PromisedEdit
  <2>2. QED
    BY <2>1, Zenon DEF Promise!Next, Promise!RemoveAll
<1>9. CASE DeleteForward \/ Delete
  <2>1. Behind # <<>> /\ Promise!Edits(Prefix, Tail(Behind))
    BY <1>1, <1>9, DeleteNextEdits, PromisedEdit
  <2>2. QED
    BY <2>1, Zenon DEF Promise!Next, Promise!RemoveNext, Behind
<1>10. CASE DeleteBackward
  <2>1. Prefix # <<>> /\ Promise!Edits(Front(Prefix), Behind)
    BY <1>1, <1>10, DeleteBackwardEdits, PromisedEdit
  <2>2. QED
    BY <2>1, Zenon DEF Promise!Next, Promise!RemoveLast, Promise!Front, Front, Behind
<1>11. CASE ToggleInsert
  <2>1. UNCHANGED lineVars /\ UNCHANGED history
    BY <1>11 DEF ToggleInsert
  <2>2. QED
    BY <2>1, HistoryKept DEF lineVars, PromisedLine, Prefix, Behind, Text
<1>12. CASE Up
  <2>1. /\ Age < Len(RecentLines) /\ Age' = Age + 1
        /\ Prefix' = RecentLines[Age + 1] /\ Behind' = <<>> /\ RecentLines' = RecentLines
    BY <1>1, <1>12, UpOlder
  <2>2. ~(Age + 1 = 0)
    <3>1. Age = IF histCur <= histAddIdx THEN histAddIdx - histCur ELSE histAddIdx - histCur + HistMax
      BY <1>1, <1>12, AgeIs DEF Up
    <3>2. QED
      BY <1>1, <1>12, <3>1, RingFacts DEF Up
  <2>3. Prefix' = IF Age + 1 = 0 THEN <<>> ELSE RecentLines[Age + 1]
    BY <2>1, <2>2, Zenon
  <2>4. Promise!Older
    BY <2>1, <2>3, Zenon DEF Promise!Older, Promise!Recall, Behind, RecentLines, Age
  <2>5. QED
    BY <2>4, Zenon DEF Promise!Next
<1>13. CASE Down
  <2>1. /\ Age > 0 /\ Age' = Age - 1
        /\ Prefix' = (IF Age - 1 = 0 THEN <<>> ELSE RecentLines[Age - 1])
        /\ Behind' = <<>> /\ RecentLines' = RecentLines
    BY <1>1, <1>13, DownNewer
  <2>2. Promise!Newer
    BY <2>1, Zenon DEF Promise!Newer, Promise!Recall, Behind, RecentLines, Age
  <2>3. QED
    BY <2>2, Zenon DEF Promise!Next
<1>14. CASE Enter /\ ~Overrun
  <2>1. /\ RecentLines' = (IF Prefix \o Behind = <<>> \/ Head(Prefix \o Behind) = HistChar
                           THEN RecentLines ELSE WithLine(Prefix \o Behind))
        /\ Age' = 0 /\ Prefix' = <<>> /\ Behind' = <<>>
    BY <1>1, <1>14, EnterEnters
  <2>2. Promise!Enter
    BY <2>1, Zenon DEF Promise!Enter, WithLine, Behind, RecentLines, Age
  <2>3. QED
    BY <2>2, Zenon DEF Promise!Next
<1>15. CASE Overrun
  <2>1. UNCHANGED lineVars /\ UNCHANGED history
    BY <1>15 DEF Overrun
  <2>2. QED
    BY <2>1, HistoryKept DEF lineVars, PromisedLine, Prefix, Behind, Text
<1>16. CASE Tab
  <2>1. CASE Edits(Prefix, Behind)
    BY <2>1 DEF Edits, PromisedLine
  <2>2. CASE \E name, n, d : CompletesBy(name, n, d)
    <3>1. PICK name, n, d : CompletesBy(name, n, d)
      BY <2>2
    <3>2. /\ name \in CommandNames /\ IsPrefix(Prefix, name)
          /\ n \in Len(Prefix)..Len(name) /\ d \in 0..Len(Behind)
          /\ d \in {0, n - Len(Prefix), Len(Behind)} /\ n + Len(Behind) - d <= Size
          /\ Promise!Edits(SubSeq(name, 1, n), SubSeq(Behind, d + 1, Len(Behind)))
      BY <3>1, PromisedEdit DEF CompletesBy, TextDropped
    <3>3. Promise!Complete
      BY <3>2, Zenon DEF Promise!Complete, Promise!IsPrefix, IsPrefix, CommandNames, Behind
    <3>4. QED
      BY <3>3, Zenon DEF Promise!Next
  <2>3. QED
    BY <1>1, <1>16, <2>1, <2>2, TabEdits
<1>17. CASE \E c \in Chars : Type(c)
  BY <1>2, <1>17, Zenon DEF Promise!Next
<1>18. QED
  BY <1>3, <1>4, <1>5, <1>6, <1>7, <1>8, <1>9, <1>10, <1>11, <1>12, <1>13, <1>14, <1>15, <1>16, <1>17
  DEF EditorNext

LEMMA RingStart == EditorInit => RingInOrder
BY DEF EditorInit, RingInOrder

LEMMA RingStep == EditorKeeps /\ RingInOrder /\ [EditorNext]_editorVars => RingInOrder'
<1> SUFFICES ASSUME EditorKeeps, RingInOrder, [EditorNext]_editorVars PROVE RingInOrder'
  OBVIOUS
<1>1. CASE Enter /\ ~Overrun
  BY <1>1, EnterEnters DEF EditorKeeps
<1>2. CASE ~(Enter /\ ~Overrun)
  <2>1. UNCHANGED <<histMax, histAddIdx>>
    <3>1. CASE EditKeys
      BY <3>1, EditKeysKeep DEF EditorKeeps, history
    <3>2. CASE Up \/ Down
      BY <3>2, Zenon DEF Up, Down, Shows
    <3>3. CASE ToggleInsert \/ Overrun \/ Break
      BY <3>3 DEF ToggleInsert, Overrun, Break, history
    <3>4. CASE Tab /\ ~Overrun
      BY <3>4 DEF Tab, history
    <3>5. CASE UNCHANGED editorVars
      BY <3>5 DEF editorVars
    <3>6. QED
      BY <1>2, <3>1, <3>2, <3>3, <3>4, <3>5 DEF EditorNext, EditKeys
  <2>2. QED
    BY <2>1 DEF RingInOrder
<1>3. QED
  BY <1>1, <1>2

(* The buffer, the cursor and the ring of recent lines are the line of text and *)
(* the list of recent lines that CommandLine promises: every key does to them   *)
(* what it is for (readline.c:79-356).                                          *)
THEOREM EveryKeyDoesWhatItIsFor == EditorSpec => Promised
<1>1. EditorKeeps /\ RingInOrder /\ [EditorNext]_editorVars => [Promise!Next]_(Promise!vars)
  <2> SUFFICES ASSUME EditorKeeps, RingInOrder, [EditorNext]_editorVars
               PROVE  Promise!Next \/ UNCHANGED (Promise!vars)
    BY DEF Promise!vars
  <2>1. UNCHANGED PromisedLine => UNCHANGED (Promise!vars)
    BY DEF PromisedLine, Promise!vars, Behind, RecentLines, Age
  <2>2. CASE EditorNext
    BY <2>1, <2>2, PromiseStep
  <2>3. CASE UNCHANGED editorVars
    BY <2>1, <2>3, HistoryKept DEF editorVars, history, PromisedLine, Prefix, Behind, Text
  <2>4. QED
    BY <2>2, <2>3
<1>2. QED
  BY <1>1, PromiseStart, RingStart, RingStep, ScreenStart, ScreenStep, PTL
  DEF EditorSpec, Promised, Promise!Spec
============================================================================
