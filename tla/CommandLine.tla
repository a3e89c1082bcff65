------------------------------ MODULE CommandLine ------------------------------
(* What the console promises to a user who types: a line of text with a cursor, *)
(* and the most recent lines to be called back.  It knows of no buffer, no ring *)
(* and no screen.  ConsoleEditor implements it.                                 *)
EXTENDS Naturals, SequencesExt

CONSTANTS
    Chars,      \* characters that can be typed
    HistChar,   \* a line that starts with it is not kept
    Names,      \* the names of the commands
    Room,       \* the longest line
    Keep        \* number of lines that can be called back

VARIABLES
    left,       \* the text before the cursor
    right,      \* the text behind it
    recent,     \* lines entered, the last one first
    age         \* how far back the user has gone; 0 is the line being typed

vars == <<left, right, recent, age>>

Init == left = <<>> /\ right = <<>> /\ recent = <<>> /\ age = 0

(* Edits leave the lines entered alone.                                         *)
Edits(before, behind) ==
    left' = before /\ right' = behind /\ UNCHANGED <<recent, age>>

Insert(c) == Len(left \o right) < Room /\ Edits(Append(left, c), right)
Replace(c) == right # <<>> /\ Edits(Append(left, c), Tail(right))
StepLeft == left # <<>> /\ Edits(Front(left), <<Last(left)>> \o right)
StepRight == right # <<>> /\ Edits(Append(left, Head(right)), Tail(right))
GoHome == Edits(<<>>, left \o right)
GoToEnd == Edits(left \o right, <<>>)
RemoveLast == left # <<>> /\ Edits(Front(left), right)
RemoveNext == right # <<>> /\ Edits(left, Tail(right))
RemoveRest == Edits(left, <<>>)
RemoveAll == Edits(<<>>, <<>>)

(* Completion writes more of a command's name that starts with the text before  *)
(* the cursor: inserted before the text behind the cursor, or over it.          *)
Complete ==
    \E name \in Names :
        /\ IsPrefix(left, name)
        /\ \E n \in Len(left) .. Len(name), dropped \in 0 .. Len(right) :
            /\ dropped \in {0, n - Len(left), Len(right)}
            /\ n + Len(right) - dropped <= Room
            /\ Edits(SubSeq(name, 1, n), SubSeq(right, dropped + 1, Len(right)))

Recall(n) ==
    /\ age' = n
    /\ left' = IF n = 0 THEN <<>> ELSE recent[n]
    /\ right' = <<>>
    /\ UNCHANGED recent
Older == age < Len(recent) /\ Recall(age + 1)
Newer == age > 0 /\ Recall(age - 1)

(* A line is kept unless it is empty or starts with HistChar.                   *)
Enter ==
    LET line == left \o right
        kept == <<line>> \o recent IN
    /\ recent' = IF line = <<>> \/ Head(line) = HistChar THEN recent
                 ELSE SubSeq(kept, 1, IF Len(kept) > Keep THEN Keep ELSE Len(kept))
    /\ age' = 0
    /\ left' = <<>> /\ right' = <<>>

(* Giving the line up does not bring the user back from where he was in the past. *)
GiveUp == RemoveAll

Next ==
    \/ \E c \in Chars : Insert(c) \/ Replace(c)
    \/ StepLeft \/ StepRight \/ GoHome \/ GoToEnd
    \/ RemoveLast \/ RemoveNext \/ RemoveRest \/ RemoveAll
    \/ Complete \/ Older \/ Newer \/ Enter \/ GiveUp

Spec == Init /\ [][Next]_vars
================================================================================
