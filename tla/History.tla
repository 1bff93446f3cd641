------------------------------ MODULE History ------------------------------
(***************************************************************************)
(* The shell's line editor and its history, kernel/shell.c: read_line and  *)
(* hist_push, key by key.                                                  *)
(***************************************************************************)
EXTENDS Integers, Sequences, SequencesExt

CONSTANTS
    Chars,       \* printable characters
    CmdBuf,      \* CMD_BUF
    HistoryMax,  \* HISTORY_MAX
    MaxLines     \* bound: lines put into the history

ASSUME HistoryAssumption ==
    {CmdBuf, HistoryMax} \subseteq Nat \ {0} /\ MaxLines \in Nat

VARIABLES
    histSlots,     \* history
    histCount,     \* hist_count
    histPos,       \* hist_pos
    histLine,      \* buf of read_line, up to pos
    histEntered,   \* history: every line entered, without repetitions
    histBrowsing   \* history: the line shown was fetched and not edited

histVars == <<histSlots, histCount, histPos, histLine, histEntered, histBrowsing>>

HistInit ==
    /\ histSlots = [i \in 0 .. HistoryMax - 1 |-> <<>>]
    /\ histCount = 0 /\ histPos = 0 /\ histLine = <<>>
    /\ histEntered = <<>> /\ histBrowsing = FALSE

\* FAULT (HistoryRecalls): the line is compared with the oldest, not the last.
OldestSlot == histCount % HistoryMax
LastSlot == (histCount - 1) % HistoryMax

\* hist_push leaves out empty lines and repetitions.
Pushed == histLine # <<>> /\ ~(histCount > 0 /\ histSlots[LastSlot] = histLine)

\* What the history need not hold: nothing, or the line entered just before.
Repeats == IF histLine = <<>> THEN TRUE ELSE histEntered # <<>> /\ Last(histEntered) = histLine

\* Enter, hist_push by shell_run, and the beginning of the next read_line.
Enter ==
    /\ IF Pushed
       THEN /\ histCount < MaxLines
            /\ histSlots' = [histSlots EXCEPT ![histCount % HistoryMax] = histLine]
            /\ histCount' = histCount + 1
       ELSE UNCHANGED <<histSlots, histCount>>
    /\ histEntered' = IF Repeats THEN histEntered ELSE Append(histEntered, histLine)
    /\ histPos' = histCount'
    /\ histLine' = <<>> /\ histBrowsing' = FALSE

\* Ctrl+C and Ctrl+L give the line up; read_line is called again.
GiveUpLine ==
    /\ histPos' = histCount
    /\ histLine' = <<>> /\ histBrowsing' = FALSE
    /\ UNCHANGED <<histSlots, histCount, histEntered>>

Backspace ==
    /\ histLine # <<>>
    /\ histLine' = SubSeq(histLine, 1, Len(histLine) - 1)
    /\ histBrowsing' = FALSE
    /\ UNCHANGED <<histSlots, histCount, histPos, histEntered>>

Type(c) ==
    /\ Len(histLine) < CmdBuf - 1
    /\ histLine' = Append(histLine, c)
    /\ histBrowsing' = FALSE
    /\ UNCHANGED <<histSlots, histCount, histPos, histEntered>>

Up ==
    /\ histPos > 0
    /\ histPos' = histPos - 1
    /\ histLine' = histSlots[histPos' % HistoryMax]
    /\ histBrowsing' = TRUE
    /\ UNCHANGED <<histSlots, histCount, histEntered>>

Down ==
    /\ histPos < histCount
    /\ histPos' = histPos + 1
    /\ histLine' = IF histPos' = histCount THEN <<>> ELSE histSlots[histPos' % HistoryMax]
    /\ histBrowsing' = TRUE
    /\ UNCHANGED <<histSlots, histCount, histEntered>>

HistNext == Enter \/ GiveUpLine \/ Backspace \/ (\E c \in Chars : Type(c)) \/ Up \/ Down

---------------------------------------------------------------------------
(* Properties *)

HistTypeOK ==
    /\ histSlots \in [0 .. HistoryMax - 1 -> Seq(Chars)]
    /\ histCount \in 0 .. MaxLines /\ histPos \in 0 .. histCount
    /\ histLine \in Seq(Chars) /\ Len(histLine) < CmdBuf
    /\ histBrowsing \in BOOLEAN

\* UP pressed k times shows the k-th last line entered, however UP and DOWN are
\* mixed and often the ring of slots has gone round, as far back as the ring
\* reaches.  (Beyond that UP goes on, and shows newer lines again.)
HistoryRecalls ==
    /\ histCount = Len(histEntered)
    /\ histBrowsing /\ histPos < histCount /\ histCount - histPos <= HistoryMax
         => histLine = histEntered[histPos + 1]
=============================================================================
