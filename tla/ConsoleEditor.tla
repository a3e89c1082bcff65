----------------------------- MODULE ConsoleEditor -----------------------------
(* The line editor of the BIOS prompt: readline.c with its history ring,        *)
(* complete.c, and the line of the terminal they write to.  One action is one   *)
(* key, from read_key to the next; Enter and ^C include the return to main(),   *)
(* which prints a new prompt and calls readline() again.                        *)
EXTENDS Integers, SequencesExt

CONSTANTS
    Chars,      \* characters that can be typed
    HistChar,   \* CREAD_HIST_CHAR
    Nul,        \* the end of a string
    Blank,      \* an empty place on the screen
    Size,       \* CMD_LINE_BUFFER_SIZE
    HistMax,    \* HIST_MAX
    Depth,      \* HIST_DEPTH, the candidates complete() looks at
    Commands    \* the names of the command table, in link order

ASSUME EditorAssumption ==
    /\ Size \in Nat \ {0} /\ HistMax \in Nat \ {0} /\ Depth \in Nat
    /\ Nul \notin Chars /\ Blank # Nul
    /\ Commands \in Seq(Seq(Chars) \ {<<>>})

VARIABLES
    buf,        \* 0 .. Size; the cell Size is behind the buffer
    num,        \* the cursor
    eolNum,     \* the length of the line
    insert,     \* insert mode
    screen,     \* the line of the terminal behind the prompt, and its cursor
    tabPressed,
    histLines, histMax, histAddIdx, histCur,
    overrun     \* the cell behind the buffer was written: nothing is modelled from there on

lineVars == <<buf, num, eolNum, screen>>
history == <<histLines, histMax, histAddIdx, histCur>>
editorVars == <<buf, num, eolNum, screen, insert, tabPressed, histLines, histMax, histAddIdx, histCur, overrun>>

Cells == 0 .. Size

(* What a string of cells holds from one place on.                              *)
Text(b, from, n) == [i \in 1 .. n |-> b[from + i - 1]]

--------------------------------------------------------------------------------
(* The terminal.                                                                *)

FreshLine == [text |-> [i \in Cells |-> Blank], at |-> 0]
Write(s, str) ==
    [text |-> [i \in Cells |-> IF i \in s.at .. (s.at + Len(str) - 1) THEN str[i - s.at + 1] ELSE s.text[i]],
     at |-> s.at + Len(str)]
Spaces(n) == [i \in 1 .. n |-> Blank]
Backspace(s, n) == [s EXCEPT !.at = @ - n]

--------------------------------------------------------------------------------
(* Editing.  These operators take and return the state of the line.             *)

Line == [buf |-> buf, num |-> num, eol |-> eolNum, screen |-> screen]

MemMove(b, to, from, n) ==
    [i \in Cells |-> IF i \in to .. (to + n - 1) THEN b[i - to + from] ELSE b[i]]

BeginningOfLine(e) == [e EXCEPT !.num = 0, !.screen = Backspace(@, e.num)]
EraseToEol(e) ==
    [e EXCEPT !.eol = e.num,
              !.screen = Backspace(Write(@, Spaces(e.eol - e.num)), e.eol - e.num)]
RefreshToEol(e) ==
    [e EXCEPT !.num = e.eol, !.screen = Write(@, Text(e.buf, e.num, e.eol - e.num))]

(* A character goes where the cursor is; a full line beeps instead of growing.  *)
AddChar(e, c) ==
    LET grows == insert \/ e.num = e.eol
        wlen == e.eol + 1 - e.num
        moved == [MemMove(e.buf, e.num + 1, e.num, wlen - 1) EXCEPT ![e.num] = c] IN
    IF grows /\ e.eol > Size - 1 THEN e
    ELSE IF insert
    THEN [buf |-> moved, num |-> e.num + 1, eol |-> e.eol + 1,
          screen |-> Backspace(Write(e.screen, Text(moved, e.num, wlen)), wlen - 1)]
    ELSE [buf |-> [e.buf EXCEPT ![e.num] = c], num |-> e.num + 1,
          eol |-> e.eol + (IF grows THEN 1 ELSE 0), screen |-> Write(e.screen, <<c>>)]

(* The line becomes e.  What lies behind its end is written before it is read,  *)
(* so the model does not keep it.                                               *)
Become(e) ==
    /\ buf' = [i \in Cells |-> IF i < e.eol THEN e.buf[i] ELSE Nul]
    /\ num' = e.num
    /\ eolNum' = e.eol
    /\ screen' = e.screen

EditsTo(e) == ~overrun /\ Become(e) /\ UNCHANGED <<insert, tabPressed, overrun>> /\ UNCHANGED history

(* readline() is called on a fresh line.                                        *)
FreshReadline ==
    /\ Become([buf |-> buf, num |-> 0, eol |-> 0, screen |-> FreshLine])
    /\ insert' = TRUE

Type(c) == EditsTo(AddChar(Line, c))
Home == EditsTo(BeginningOfLine(Line))
End == EditsTo(RefreshToEol(Line))
EraseRest == EditsTo(EraseToEol(Line))
EraseLine == EditsTo(EraseToEol(BeginningOfLine(Line)))

Right ==
    /\ num < eolNum
    /\ EditsTo([Line EXCEPT !.num = num + 1, !.screen = Write(@, <<buf[num]>>)])
Left == num > 0 /\ EditsTo([Line EXCEPT !.num = num - 1, !.screen = Backspace(@, 1)])

(* ^D: what follows moves up; one space covers the last character.              *)
DeleteForward ==
    LET wlen == eolNum - num - 1
        moved == MemMove(buf, num, num + 1, wlen) IN
    /\ num < eolNum
    /\ EditsTo([buf |-> moved, num |-> num, eol |-> eolNum - 1,
                screen |-> Backspace(Write(screen, Append(Text(moved, num, wlen), Blank)), wlen + 1)])

\* Slip: del prints as many cells as it moves.
DeleteUncovered ==
    LET wlen == eolNum - num
        moved == MemMove(buf, num, num + 1, wlen) IN
    /\ num < eolNum
    /\ EditsTo([buf |-> moved, num |-> num, eol |-> eolNum - 1,
                screen |-> Backspace(Write(screen, Append(Text(moved, num, wlen), Blank)), wlen + 1)])

(* Del deletes forward as well, but moves one cell more and prints one less.    *)
Delete ==
    LET wlen == eolNum - num
        moved == MemMove(buf, num, num + 1, wlen) IN
    /\ num < eolNum
    /\ EditsTo([buf |-> moved, num |-> num, eol |-> eolNum - 1,
                screen |-> Backspace(Write(screen, Append(Text(moved, num, wlen - 1), Blank)), wlen)])

(* Backspace.  An escape sequence that read_key does not know is -1 there and,  *)
(* as an unsigned char, the 255 of DEL: it deletes a character, too.            *)
DeleteBackward ==
    LET wlen == eolNum - num
        moved == MemMove(buf, num - 1, num, wlen) IN
    /\ num > 0
    /\ EditsTo([buf |-> moved, num |-> num - 1, eol |-> eolNum - 1,
                screen |-> Backspace(Write(Backspace(screen, 1), Append(Text(moved, num - 1, wlen), Blank)),
                                     wlen + 1)])

ToggleInsert ==
    /\ ~overrun
    /\ insert' = ~insert
    /\ UNCHANGED lineVars /\ UNCHANGED history /\ UNCHANGED <<tabPressed, overrun>>

--------------------------------------------------------------------------------
(* The history ring.  histCur is -1 until the first line has been entered.      *)

(* UP and DOWN replace the whole line.                                          *)
Recalled(e, str) ==
    LET cleared == EraseToEol(BeginningOfLine(e)) IN
    RefreshToEol([cleared EXCEPT !.buf = [i \in Cells |-> IF i < Len(str) THEN str[i + 1] ELSE @[i]],
                                 !.eol = Len(str)])

Shows(slot, str) ==
    /\ ~overrun
    /\ histCur' = slot
    /\ Become(Recalled(Line, str))
    /\ UNCHANGED <<histLines, histMax, histAddIdx, insert, tabPressed, overrun>>

\* Slip: up goes on past the oldest line.
UpPastOldest ==
    LET prev == IF histCur - 1 < 0 THEN histMax ELSE histCur - 1 IN
    histCur >= 0 /\ Shows(prev, histLines[prev])

HistPrev == IF histCur - 1 < 0 THEN histMax ELSE histCur - 1
Up == histCur >= 0 /\ HistPrev # histAddIdx /\ Shows(HistPrev, histLines[HistPrev])

HistNext == IF histCur + 1 > histMax THEN 0 ELSE histCur + 1
Down ==
    /\ histCur >= 0 /\ histCur # histAddIdx
    /\ Shows(HistNext, IF HistNext = histAddIdx THEN <<>> ELSE histLines[HistNext])

\* Slip: the ring is one slot longer than the array.
AddToHistLate(str) ==
    /\ histLines' = [histLines EXCEPT ![histAddIdx] = str]
    /\ histAddIdx' = IF histAddIdx + 1 > HistMax THEN 0 ELSE histAddIdx + 1
    /\ histMax' = IF histAddIdx' > histMax THEN histAddIdx' ELSE histMax

AddToHist(str) ==
    /\ histLines' = [histLines EXCEPT ![histAddIdx] = str]
    /\ histAddIdx' = IF histAddIdx + 1 >= HistMax THEN 0 ELSE histAddIdx + 1
    /\ histMax' = IF histAddIdx' > histMax THEN histAddIdx' ELSE histMax

(* The terminator of a full line goes behind the buffer.  What that changes is  *)
(* up to the layout of main()'s frame, so the model ends there.                 *)
Overrun == eolNum = Size /\ overrun' = TRUE /\ UNCHANGED lineVars /\ UNCHANGED history /\ UNCHANGED <<insert, tabPressed>>

Enter ==
    /\ ~overrun
    /\ \/ Overrun
       \/ /\ eolNum < Size
          /\ IF eolNum > 0 /\ buf[0] # HistChar
             THEN AddToHist(Text(buf, 0, eolNum))
             ELSE UNCHANGED <<histLines, histAddIdx, histMax>>
          /\ histCur' = histAddIdx'
          /\ FreshReadline
          /\ UNCHANGED <<tabPressed, overrun>>

(* ^C empties the line; the place in the history stays.                         *)
Break == ~overrun /\ FreshReadline /\ UNCHANGED <<tabPressed, overrun>> /\ UNCHANGED history

--------------------------------------------------------------------------------
(* Completion.                                                                  *)

(* The list of candidates, as places in the table: the first Depth names that   *)
(* start with str.                                                              *)
Matching(str) == {i \in DOMAIN Commands : IsPrefix(str, Commands[i])}
Candidates(str) == {i \in Matching(str) : Cardinality({j \in Matching(str) : j < i}) < Depth}

\* Slip: the last candidate is not compared.
ChangedButLast(list, pos) ==
    \E i \in list \ {Max(list)} :
        /\ \A j \in list : j <= i => Len(Commands[j]) >= pos
        /\ Commands[i][pos] # Commands[Min(list)][pos]

(* The loop over the candidates ends at the first one that is over at pos, with *)
(* what it has found so far; the candidates behind that one are not compared.   *)
Changed(list, pos) ==
    \E i \in list :
        /\ \A j \in list : j <= i => Len(Commands[j]) >= pos
        /\ Commands[i][pos] # Commands[Min(list)][pos]

Extension(str) ==
    LET list == Candidates(str)
        name == Commands[Min(list)]
        stops == {p \in (Len(str) + 1) .. Len(name) : Changed(list, p)}
        last == IF stops = {} THEN Len(name) ELSE Min(stops) - 1 IN
    IF list = {} THEN <<>> ELSE SubSeq(name, Len(str) + 1, last)

Prefix == Text(buf, 0, num)

(* A second Tab that finds nothing lists the candidates, and the prompt and the *)
(* line are printed anew.                                                       *)
Reprinted(e) ==
    [e EXCEPT !.screen = Backspace(Write(FreshLine, Text(e.buf, 0, e.eol)), e.eol - e.num)]

Tab ==
    LET found == Candidates(Prefix)
        ext == Extension(Prefix)
        lists == found # {} /\ Cardinality(found) # 1 /\ ext = <<>> /\ tabPressed IN
    /\ ~overrun
    /\ \/ Overrun
       \/ /\ eolNum < Size
          /\ Become(FoldLeft(AddChar, IF lists THEN Reprinted(Line) ELSE Line, ext))
          /\ tabPressed' = IF found = {} THEN tabPressed ELSE ext = <<>>
          /\ UNCHANGED <<insert, overrun>> /\ UNCHANGED history

--------------------------------------------------------------------------------
EditorInit ==
    /\ buf = [i \in Cells |-> Nul] /\ num = 0 /\ eolNum = 0
    /\ screen = FreshLine /\ insert = TRUE
    /\ tabPressed = FALSE
    /\ histLines = [i \in 0 .. (HistMax - 1) |-> <<>>]
    /\ histMax = 0 /\ histAddIdx = 0 /\ histCur = -1
    /\ overrun = FALSE

EditorNext ==
    \/ \E c \in Chars : Type(c)
    \/ Home \/ End \/ Left \/ Right
    \/ EraseRest \/ EraseLine \/ DeleteForward \/ Delete \/ DeleteBackward
    \/ ToggleInsert \/ Up \/ Down \/ Enter \/ Break \/ Tab

EditorSpec == EditorInit /\ [][EditorNext]_editorVars

--------------------------------------------------------------------------------
Lines(max) == UNION {[1 .. n -> Chars] : n \in 0 .. max}

(* Everything stays in its array; the ring never points behind its last slot    *)
(* and a line that was not cut by the end of the buffer fits a slot             *)
(* (readline.c:19-24, main.c:80).                                               *)
EditorTypeOK ==
    /\ buf \in [Cells -> Chars \cup {Nul}] /\ num \in 0 .. eolNum /\ eolNum \in 0 .. Size
    /\ \A i \in Cells : buf[i] = Nul <=> i >= eolNum
    /\ screen \in [text : [Cells -> Chars \cup {Nul, Blank}], at : Nat]
    /\ insert \in BOOLEAN /\ tabPressed \in BOOLEAN /\ overrun \in BOOLEAN
    /\ histMax \in 0 .. (HistMax - 1) /\ histAddIdx \in 0 .. histMax /\ histCur \in -1 .. histMax
    /\ histLines \in [0 .. (HistMax - 1) -> Lines(Size - 1)]
    /\ overrun => eolNum = Size

(* What the user sees is what the BIOS will execute: the terminal shows the     *)
(* line, nothing of an older one, and its cursor stands where the next          *)
(* character goes (putnstr, CTL_BACKSPACE and the spaces of readline.c:163-338).*)
ScreenShowsLine ==
    /\ screen.at = num
    /\ \A i \in Cells : screen.text[i] = IF i < eolNum THEN buf[i] ELSE Blank
ScreenInv == EditorTypeOK /\ ScreenShowsLine

(* Tab never leads away from a command: each candidate still starts with what   *)
(* stands before the cursor, unless another candidate's name ends there or      *)
(* earlier; then complete() stops comparing (complete.c:140-148).  It looks at  *)
(* the first Depth matches only.                                                *)
TabKeepsMatches ==
    [][Tab => \/ \A k \in Candidates(Prefix) : IsPrefix(Prefix', Commands[k])
              \/ \E k \in Candidates(Prefix) : IsStrictPrefix(Commands[k], Prefix')]_editorVars

(* The text, the cursor and the ring are the two texts and the list of recent   *)
(* lines that CommandLine speaks of.                                            *)
Promise == INSTANCE CommandLine WITH
    Names <- {Commands[i] : i \in 1 .. Len(Commands)},
    Room <- Size,
    Keep <- HistMax - 1,
    left <- Prefix,
    right <- Text(buf, num, eolNum - num),
    recent <- [k \in 1 .. histMax |-> histLines[(histAddIdx - k) % HistMax]],
    age <- IF histCur < 0 THEN 0 ELSE (histAddIdx - histCur) % HistMax

(* Every key does to the line and to the recent lines what it is for            *)
(* (readline.c:79-356).                                                         *)
Promised == Promise!Spec
================================================================================
