--------------------------- MODULE ServicesProofs ---------------------------
(***************************************************************************)
(* Proofs about Services: the line editor, the screen, the keyboard and    *)
(* the frames of memory, for every size of ring, screen and memory.        *)
(***************************************************************************)
EXTENDS Services, Lemmas, FiniteSetTheorems, SequenceTheorems

---------------------------------------------------------------------------
(* The line editor and its history.                                        *)

Lines == {line \in Seq(Chars) : Len(line) < CmdBuf}

(* The inductive invariant: the slots hold the last lines entered, the     *)
(* line with number i in slot (i - 1) % HistoryMax, and a line fetched is  *)
(* the one histPos points at.                                              *)
HistTypes ==
    /\ histSlots \in [0 .. HistoryMax - 1 -> Lines]
    /\ histCount \in 0 .. MaxLines /\ histPos \in 0 .. histCount
    /\ histLine \in Lines
    /\ histEntered \in Seq(Lines) /\ Len(histEntered) = histCount
SlotsAreRecent ==
    \A i \in 1 .. histCount :
        histCount - i < HistoryMax => histSlots[(i - 1) % HistoryMax] = histEntered[i]
Fetched ==
    histBrowsing /\ histPos < histCount /\ histCount - histPos <= HistoryMax
        => histLine = histEntered[histPos + 1]
HistInv == HistTypes /\ SlotsAreRecent /\ Fetched

LEMMA HistSlot ==
    ASSUME HistTypes, NEW n \in Nat
    PROVE  n % HistoryMax \in 0 .. HistoryMax - 1
BY HistoryAssumption DEF HistoryAssumption

LEMMA EmptyLine == <<>> \in Lines
<1>1. <<>> \in Seq(Chars) /\ Len(<<>>) = 0
  BY EmptySeq
<1>2. <<>> \in Seq(Chars) /\ Len(<<>>) < CmdBuf
  BY <1>1, HistoryAssumption DEF HistoryAssumption
<1> QED BY <1>2 DEF Lines

(* hist_push leaves a line out just when the history need not hold it.     *)
LEMMA PushedUnlessRepeated ==
    ASSUME HistInv
    PROVE  Pushed <=> ~Repeats
<1>1. CASE histCount = 0
  BY <1>1 DEF HistInv, HistTypes, Pushed, Repeats
<1>2. CASE histCount > 0
  <2>1. histCount \in 1 .. histCount /\ histCount - histCount < HistoryMax
    BY <1>2, HistoryAssumption DEF HistInv, HistTypes, HistoryAssumption
  <2>2. histSlots[LastSlot] = histEntered[Len(histEntered)]
    BY <2>1 DEF HistInv, HistTypes, SlotsAreRecent, LastSlot
  <2>3. histEntered # <<>>
    BY <1>2, EmptySeq DEF HistInv, HistTypes
  <2> QED BY <1>2, <2>2, <2>3 DEF Pushed, Repeats, Last
<1> QED BY <1>1, <1>2 DEF HistInv, HistTypes

LEMMA EnterKeeps == HistInv /\ Enter => HistInv'
<1> SUFFICES ASSUME HistInv, Enter PROVE HistInv'
  OBVIOUS
<1>1. histLine' = <<>> /\ ~histBrowsing' /\ histPos' = histCount' /\ Fetched'
  BY DEF Enter, Fetched
<1>2. CASE Pushed
  <2>1. /\ histCount < MaxLines /\ histCount' = histCount + 1
        /\ histSlots' = [histSlots EXCEPT ![histCount % HistoryMax] = histLine]
        /\ histEntered' = Append(histEntered, histLine)
    BY <1>2, PushedUnlessRepeated DEF Enter
  <2>2. /\ histEntered' \in Seq(Lines) /\ Len(histEntered') = histCount'
        /\ \A i \in 1 .. histCount : histEntered'[i] = histEntered[i]
        /\ histEntered'[histCount + 1] = histLine
    BY <2>1, AppendProperties DEF HistInv, HistTypes
  <2>3. HistTypes'
    BY <1>1, <2>1, <2>2, EmptyLine, HistSlot, HistoryAssumption
    DEF HistInv, HistTypes, HistoryAssumption
  <2>4. SlotsAreRecent'
    <3> SUFFICES ASSUME NEW i \in 1 .. histCount', histCount' - i < HistoryMax
                 PROVE  histSlots'[(i - 1) % HistoryMax] = histEntered'[i]
      BY DEF SlotsAreRecent
    <3>0. i \in 1 .. histCount + 1 /\ histCount + 1 - i < HistoryMax
      <4>1. histCount' = histCount + 1 /\ histCount \in Nat
        BY <2>1 DEF HistInv, HistTypes
      <4> QED BY <4>1
    <3>1. histCount \in Nat /\ histCount % HistoryMax \in DOMAIN histSlots
      BY HistSlot DEF HistInv, HistTypes
    <3>2. CASE i = histCount + 1
      <4>1. (i - 1) % HistoryMax = histCount % HistoryMax
        BY <3>1, <3>2
      <4> QED BY <2>1, <2>2, <3>1, <3>2, <4>1
    <3>3. CASE i \in 1 .. histCount
      <4>1. (i - 1) % HistoryMax # histCount % HistoryMax
        <5>1. i - 1 \in Nat /\ i - 1 < histCount /\ histCount - (i - 1) < HistoryMax
          BY <3>0, <3>1, <3>3
        <5> QED BY <3>1, <5>1, DistinctMod, HistoryAssumption DEF HistoryAssumption
      <4>2. histSlots'[(i - 1) % HistoryMax] = histSlots[(i - 1) % HistoryMax]
        BY <2>1, <3>1, <3>3, <4>1, HistSlot DEF HistInv, HistTypes
      <4>3. histSlots[(i - 1) % HistoryMax] = histEntered[i]
        <5>1. histCount - i < HistoryMax
          BY <3>0, <3>1, <3>3, HistoryAssumption DEF HistoryAssumption
        <5> QED BY <3>3, <5>1 DEF HistInv, SlotsAreRecent
      <4> QED BY <2>2, <3>3, <4>2, <4>3
    <3> QED BY <3>0, <3>1, <3>2, <3>3
  <2> QED BY <1>1, <2>3, <2>4 DEF HistInv
<1>3. CASE ~Pushed
  <2>1. UNCHANGED <<histSlots, histCount, histEntered>>
    BY <1>3, PushedUnlessRepeated DEF Enter
  <2> QED BY <1>1, <2>1, EmptyLine DEF HistInv, HistTypes, SlotsAreRecent
<1> QED BY <1>2, <1>3

(* A line fetched is the one the position points at, as far back as the    *)
(* ring reaches.                                                           *)
LEMMA SlotFetched ==
    ASSUME HistInv, NEW p \in Nat, p < histCount
    PROVE  /\ histSlots[p % HistoryMax] \in Lines
           /\ histCount - p <= HistoryMax => histSlots[p % HistoryMax] = histEntered[p + 1]
<1>1. p + 1 \in 1 .. histCount /\ (p + 1) - 1 = p
  BY DEF HistInv, HistTypes
<1>2. histSlots[p % HistoryMax] \in Lines
  BY HistSlot DEF HistInv, HistTypes
<1>3. ASSUME histCount - p <= HistoryMax PROVE histSlots[p % HistoryMax] = histEntered[p + 1]
  <2>1. histCount - (p + 1) < HistoryMax
    BY <1>3, HistoryAssumption DEF HistInv, HistTypes, HistoryAssumption
  <2>2. histSlots[((p + 1) - 1) % HistoryMax] = histEntered[p + 1]
    BY <1>1, <2>1 DEF HistInv, SlotsAreRecent
  <2> QED BY <1>1, <2>2
<1> QED BY <1>2, <1>3

LEMMA HistStep == HistInv /\ [HistNext]_histVars => HistInv'
<1> SUFFICES ASSUME HistInv, [HistNext]_histVars PROVE HistInv'
  OBVIOUS
<1>1. CASE Enter
  BY <1>1, EnterKeeps
<1>2. CASE GiveUpLine
  BY <1>2, EmptyLine DEF GiveUpLine, HistInv, HistTypes, SlotsAreRecent, Fetched
<1>3. CASE Backspace
  <2>1. histLine' \in Lines
    <3>1. histLine \in Seq(Chars) /\ Len(histLine) \in Nat \ {0}
      BY <1>3, EmptySeq DEF Backspace, HistInv, HistTypes, Lines
    <3>2. histLine' \in Seq(Chars) /\ Len(histLine') = Len(histLine) - 1
      <4>1. \A i \in 1 .. Len(histLine) - 1 : histLine[i] \in Chars
        BY <3>1, ElementOfSeq
      <4> DEFINE n == Len(histLine) - 1
      <4>2. n \in Int /\ n >= 0 /\ \A i \in 1 .. n : histLine[i] \in Chars
        BY <3>1, <4>1
      <4> HIDE DEF n
      <4>3. SubSeq(histLine, 1, n) \in Seq(Chars) /\ Len(SubSeq(histLine, 1, n)) = n
        BY <4>2, SubSeqProperties
      <4> QED BY <1>3, <4>3 DEF Backspace, n
    <3>3. Len(histLine) < CmdBuf
      BY DEF HistInv, HistTypes, Lines
    <3> QED BY <3>1, <3>2, <3>3, HistoryAssumption DEF Lines, HistoryAssumption
  <2> QED BY <1>3, <2>1 DEF Backspace, HistInv, HistTypes, SlotsAreRecent, Fetched
<1>4. ASSUME NEW c \in Chars, Type(c) PROVE HistInv'
  <2>1. histLine' \in Lines
    <3>1. histLine' \in Seq(Chars) /\ Len(histLine') = Len(histLine) + 1
      BY <1>4, AppendProperties DEF Type, HistInv, HistTypes, Lines
    <3> QED BY <1>4, <3>1, HistoryAssumption
            DEF Type, HistInv, HistTypes, Lines, HistoryAssumption
  <2> QED BY <1>4, <2>1 DEF Type, HistInv, HistTypes, SlotsAreRecent, Fetched
<1>5. CASE Up
  <2>1. /\ histPos' \in Nat /\ histPos' < histCount /\ histPos' = histPos - 1
        /\ histLine' = histSlots[histPos' % HistoryMax]
    BY <1>5 DEF Up, HistInv, HistTypes
  <2>2. /\ histLine' \in Lines
        /\ histCount - histPos' <= HistoryMax => histLine' = histEntered[histPos' + 1]
    BY <2>1, SlotFetched
  <2> QED BY <1>5, <2>1, <2>2 DEF Up, HistInv, HistTypes, SlotsAreRecent, Fetched
<1>6. CASE Down
  <2>1. histPos' \in 0 .. histCount /\ histPos' = histPos + 1
    BY <1>6 DEF Down, HistInv, HistTypes
  <2>2. CASE histPos' = histCount
    BY <1>6, <2>1, <2>2, EmptyLine DEF Down, HistInv, HistTypes, SlotsAreRecent, Fetched
  <2>3. CASE histPos' < histCount
    <3>1. /\ histLine' \in Lines
          /\ histCount - histPos' <= HistoryMax => histLine' = histEntered[histPos' + 1]
      BY <1>6, <2>1, <2>3, SlotFetched DEF Down, HistInv, HistTypes
    <3> QED BY <1>6, <2>1, <2>3, <3>1 DEF Down, HistInv, HistTypes, SlotsAreRecent, Fetched
  <2> QED BY <2>1, <2>2, <2>3 DEF HistInv, HistTypes
<1>7. CASE UNCHANGED histVars
  BY <1>7 DEF histVars, HistInv, HistTypes, SlotsAreRecent, Fetched
<1> QED BY <1>1, <1>2, <1>3, <1>4, <1>5, <1>6, <1>7 DEF HistNext

(* The inductive invariant of the line editor: the ring holds the last     *)
(* lines entered, wherever its index stands.                               *)
THEOREM ServicesHistoryInvariant == Spec => []HistInv
<1>1. Init => HistInv
  BY EmptyLine, EmptySeq, HistoryAssumption
  DEF Init, HistInit, HistInv, HistTypes, SlotsAreRecent, Fetched, HistoryAssumption
<1>2. [Next]_vars => [HistNext]_histVars
  BY DEF Next, vars
<1> QED BY <1>1, <1>2, HistStep, PTL DEF Spec

(* UP and DOWN show the lines entered, as far back as the ring reaches.    *)
THEOREM ServicesHistoryRecalls == Spec => []HistoryRecalls
<1>1. HistInv => HistoryRecalls
  BY DEF HistInv, HistTypes, Fetched, HistoryRecalls
<1> QED BY <1>1, ServicesHistoryInvariant, PTL

---------------------------------------------------------------------------
(* The screen.                                                             *)

LineSet == [1 .. Width -> {"a", Blank}]
TerminalSet ==
    [cells : [1 .. Height -> LineSet], row : 0 .. Height - 1, col : 0 .. Width - 1,
     page : Seq(LineSet)]

(* A line of the screen is the line of the paper as far above the paper's  *)
(* end as it is above the cursor's line; below the cursor all is blank.    *)
Shows(cells, row, page) ==
    /\ row + 1 = IF Len(page) < Height THEN Len(page) ELSE Height
    /\ \A y \in 1 .. Height :
           cells[y] = IF y <= row + 1 THEN page[(Len(page) - (row + 1)) + y] ELSE BlankLine
TermInv(t) == t \in TerminalSet /\ Shows(t.cells, t.row, t.page)

LEMMA TermTypes ==
    ASSUME NEW t, TermInv(t)
    PROVE  /\ Width \in Nat \ {0} /\ Height \in Nat \ {0} /\ Tab \in Nat \ {0}
           /\ t.cells \in [1 .. Height -> LineSet] /\ t.row \in 0 .. Height - 1
           /\ t.col \in 0 .. Width - 1 /\ t.page \in Seq(LineSet)
           /\ Len(t.page) \in Nat \ {0} /\ t.row + 1 <= Len(t.page)
BY ScreenAssumption, LenProperties DEF TermInv, TerminalSet, Shows, ScreenAssumption

LEMMA BlankLineType == BlankLine \in LineSet
BY DEF BlankLine, LineSet

LEMMA ClearedKeeps == TermInv(Cleared)
<1>1. <<BlankLine>> \in Seq(LineSet) /\ Len(<<BlankLine>>) = 1 /\ <<BlankLine>>[1] = BlankLine
  BY BlankLineType
<1> QED BY <1>1, BlankLineType, ScreenAssumption
        DEF Cleared, TermInv, TerminalSet, Shows, BlankScreen, ScreenAssumption

(* One line more on the paper, when the cursor can go down, ...            *)
LEMMA DownShows ==
    ASSUME Height \in Nat \ {0}, NEW cells, NEW row \in Nat, row + 1 < Height,
           NEW page, Len(page) \in Nat, Shows(cells, row, page),
           NEW more, Len(more) = Len(page) + 1, more[Len(page) + 1] = BlankLine,
           \A i \in 1 .. Len(page) : more[i] = page[i]
    PROVE  Shows(cells, row + 1, more)
<1>1. Len(page) = row + 1 /\ Len(more) = row + 2
  BY DEF Shows
<1>2. row + 2 = IF Len(more) < Height THEN Len(more) ELSE Height
  BY <1>1
<1>3. ASSUME NEW y \in 1 .. Height
      PROVE  cells[y] = IF y <= (row + 1) + 1 THEN more[(Len(more) - ((row + 1) + 1)) + y]
                        ELSE BlankLine
  <2>1. cells[y] = IF y <= row + 1 THEN page[(Len(page) - (row + 1)) + y] ELSE BlankLine
    BY DEF Shows
  <2>2. (Len(page) - (row + 1)) + y = y /\ (Len(more) - ((row + 1) + 1)) + y = y
    BY <1>1
  <2>3. y <= row + 1 => more[y] = page[y]
    BY <1>1
  <2>4. y = row + 2 => more[y] = BlankLine /\ ~(y <= row + 1)
    BY <1>1
  <2> QED BY <2>1, <2>2, <2>3, <2>4
<1> QED BY <1>2, <1>3 DEF Shows

(* ... and when the screen has to move up.                                 *)
LEMMA ScrollShows ==
    ASSUME Height \in Nat \ {0}, NEW cells, NEW row \in Nat, row + 1 = Height,
           NEW page, Len(page) \in Nat, Len(page) >= Height, Shows(cells, row, page),
           NEW more, Len(more) = Len(page) + 1, more[Len(page) + 1] = BlankLine,
           \A i \in 1 .. Len(page) : more[i] = page[i]
    PROVE  Shows(Scrolled(cells), row, more)
<1>1. row + 1 = IF Len(more) < Height THEN Len(more) ELSE Height
  OBVIOUS
<1>2. ASSUME NEW y \in 1 .. Height
      PROVE  Scrolled(cells)[y] = more[(Len(more) - (row + 1)) + y]
  <2>1. Scrolled(cells)[y] = IF y < Height THEN cells[y + 1] ELSE BlankLine
    BY DEF Scrolled
  <2>2. CASE y < Height
    <3>1. cells[y + 1] = page[(Len(page) - (row + 1)) + (y + 1)]
      BY <2>2 DEF Shows
    <3>2. /\ (Len(page) - (row + 1)) + (y + 1) = (Len(more) - (row + 1)) + y
          /\ (Len(more) - (row + 1)) + y \in 1 .. Len(page)
      BY <2>2
    <3> QED BY <2>1, <2>2, <3>1, <3>2
  <2>3. CASE y = Height
    <3>1. (Len(more) - (row + 1)) + y = Len(page) + 1
      BY <2>3
    <3> QED BY <2>1, <2>3, <3>1
  <2> QED BY <2>2, <2>3
<1>3. \A y \in 1 .. Height : y <= row + 1
  OBVIOUS
<1> QED BY <1>1, <1>2, <1>3 DEF Shows

LEMMA NewLineKeeps ==
    ASSUME NEW t, TermInv(t)
    PROVE  TermInv(NewLine(t))
<1> DEFINE more == Append(t.page, BlankLine)
<1>1. /\ more \in Seq(LineSet) /\ Len(more) = Len(t.page) + 1
      /\ \A i \in 1 .. Len(t.page) : more[i] = t.page[i]
      /\ more[Len(t.page) + 1] = BlankLine
  BY TermTypes, BlankLineType, AppendProperties
<1>2. /\ Height \in Nat \ {0} /\ Len(t.page) \in Nat /\ t.row \in Nat /\ t.row < Height
      /\ t.row + 1 <= Len(t.page) /\ 0 \in 0 .. Width - 1
      /\ t.cells \in [1 .. Height -> LineSet] /\ Shows(t.cells, t.row, t.page)
  BY TermTypes DEF TermInv
<1>3. Scrolled(t.cells) \in [1 .. Height -> LineSet]
  BY <1>2, BlankLineType DEF Scrolled
<1> HIDE DEF more
<1>4. CASE t.row + 1 = Height
  <2>1. Shows(Scrolled(t.cells), t.row, more)
    BY <1>1, <1>2, <1>4, ScrollShows
  <2>2. NewLine(t) = [cells |-> Scrolled(t.cells), row |-> t.row, col |-> 0, page |-> more]
    <3>1. Height - 1 = t.row
      BY <1>2, <1>4
    <3> QED BY <1>4, <3>1 DEF NewLine, more
  <2> QED BY <1>1, <1>2, <1>3, <2>1, <2>2 DEF TermInv, TerminalSet
<1>5. CASE t.row + 1 < Height
  <2>1. Shows(t.cells, t.row + 1, more)
    BY <1>1, <1>2, <1>5, DownShows
  <2>2. NewLine(t) = [cells |-> t.cells, row |-> t.row + 1, col |-> 0, page |-> more]
    <3>1. t.row + 1 # Height
      BY <1>2, <1>5
    <3> QED BY <3>1 DEF NewLine, more
  <2> QED BY <1>1, <1>2, <1>5, <2>1, <2>2 DEF TermInv, TerminalSet
<1> QED BY <1>2, <1>4, <1>5

(* The cursor is in the last line of the paper.                            *)
LEMMA CursorLine ==
    ASSUME Height \in Nat \ {0}, NEW cells, NEW row \in Nat, row < Height,
           NEW page, Len(page) \in Nat, Shows(cells, row, page)
    PROVE  cells[row + 1] = page[Len(page)]
<1>1. row + 1 \in 1 .. Height /\ (Len(page) - (row + 1)) + (row + 1) = Len(page)
  OBVIOUS
<1>2. cells[row + 1] = page[(Len(page) - (row + 1)) + (row + 1)]
  BY <1>1 DEF Shows
<1> QED BY <1>1, <1>2

(* A character drawn in the cursor's line is drawn in the last one of the  *)
(* paper.                                                                  *)
LEMMA DrawShows ==
    ASSUME Height \in Nat \ {0}, NEW cells \in [1 .. Height -> LineSet],
           NEW row \in Nat, row < Height,
           NEW page, Len(page) \in Nat, Len(page) >= row + 1,
           page \in Seq(LineSet), Shows(cells, row, page), NEW line \in LineSet
    PROVE  Shows([cells EXCEPT ![row + 1] = line], row, [page EXCEPT ![Len(page)] = line])
<1> DEFINE cells2 == [cells EXCEPT ![row + 1] = line]
           page2 == [page EXCEPT ![Len(page)] = line]
<1>1. page \in [1 .. Len(page) -> LineSet] /\ Len(page) \in 1 .. Len(page)
  BY LenProperties
<1>2. Len(page2) = Len(page)
  BY <1>1, ExceptSeq
<1>3. ASSUME NEW y \in 1 .. Height
      PROVE  cells2[y] = IF y <= row + 1 THEN page2[(Len(page) - (row + 1)) + y] ELSE BlankLine
  <2>1. cells[y] = IF y <= row + 1 THEN page[(Len(page) - (row + 1)) + y] ELSE BlankLine
    BY DEF Shows
  <2>2. CASE y = row + 1
    <3>1. (Len(page) - (row + 1)) + y = Len(page)
      BY <2>2
    <3> QED BY <1>1, <2>2, <3>1
  <2>3. CASE y # row + 1
    <3>1. cells2[y] = cells[y]
      BY <2>3
    <3>2. ASSUME y <= row + 1
          PROVE  page2[(Len(page) - (row + 1)) + y] = page[(Len(page) - (row + 1)) + y]
      <4>1. /\ (Len(page) - (row + 1)) + y \in 1 .. Len(page)
            /\ (Len(page) - (row + 1)) + y # Len(page)
        BY <2>3, <3>2
      <4> QED BY <1>1, <4>1
    <3> QED BY <2>1, <3>1, <3>2
  <2> QED BY <2>2, <2>3
<1>4. row + 1 = IF Len(page) < Height THEN Len(page) ELSE Height
  BY DEF Shows
<1> HIDE DEF cells2, page2
<1>5. Shows(cells2, row, page2)
  BY <1>2, <1>3, <1>4 DEF Shows
<1> QED BY <1>5 DEF cells2, page2

LEMMA DrawnKeeps ==
    ASSUME NEW t, TermInv(t), NEW c \in {"a", Blank}, NEW col \in 0 .. Width - 1
    PROVE  TermInv(Drawn(t, c, col))
<1> DEFINE n == Len(t.page)
           line == [t.page[n] EXCEPT ![col + 1] = c]
           cells2 == [t.cells EXCEPT ![t.row + 1] = line]
           page2 == [t.page EXCEPT ![n] = line]
<1>1. /\ Height \in Nat \ {0} /\ n \in Nat /\ t.row \in Nat /\ t.row < Height /\ n >= t.row + 1
      /\ t.cells \in [1 .. Height -> LineSet] /\ t.page \in [1 .. n -> LineSet]
      /\ Shows(t.cells, t.row, t.page) /\ t.page \in Seq(LineSet)
  BY TermTypes, LenProperties DEF TermInv
<1>2. t.cells[t.row + 1] = t.page[n]
  BY <1>1, CursorLine
<1>3. t.page[n] \in LineSet
  BY <1>1
<1>4. line \in LineSet
  BY <1>3 DEF LineSet
<1>5. Drawn(t, c, col) = [cells |-> cells2, row |-> t.row, col |-> col, page |-> page2]
  <2>1. t = [cells |-> t.cells, row |-> t.row, col |-> t.col, page |-> t.page]
    BY DEF TermInv, TerminalSet
  <2>2. Drawn(t, c, col) = [t EXCEPT !.cells = cells2, !.col = col, !.page = page2]
    BY <1>2, <2>1 DEF Drawn
  <2> HIDE DEF line, cells2, page2
  <2> QED BY <2>1, <2>2
<1> HIDE DEF line
<1>6. Shows(cells2, t.row, page2)
  BY <1>1, <1>4, DrawShows
<1>7. cells2 \in [1 .. Height -> LineSet]
  BY <1>1, <1>4
<1>8. page2 \in Seq(LineSet)
  <2>1. page2 \in [1 .. n -> LineSet]
    BY <1>1, <1>4
  <2> QED BY <1>1, <2>1, SeqDef
<1> HIDE DEF cells2, page2
<1> QED BY <1>1, <1>5, <1>6, <1>7, <1>8, TermTypes DEF TermInv, TerminalSet

(* The cursor's column is of no account.                                   *)
LEMMA ColumnKeeps ==
    ASSUME NEW t, TermInv(t), NEW col \in 0 .. Width - 1
    PROVE  TermInv([t EXCEPT !.col = col])
BY DEF TermInv, TerminalSet

LEMMA PutKeeps ==
    ASSUME NEW t, TermInv(t), NEW c \in {"a", Blank}
    PROVE  TermInv(Put(t, c))
<1> DEFINE d == Drawn(t, c, t.col)
<1>1. TermInv(d)
  BY TermTypes, DrawnKeeps
<1>2. t.col + 1 # Width => t.col + 1 \in 0 .. Width - 1
  BY TermTypes
<1> HIDE DEF d
<1>3. TermInv(NewLine(d)) /\ (t.col + 1 # Width => TermInv([d EXCEPT !.col = t.col + 1]))
  BY <1>1, <1>2, NewLineKeeps, ColumnKeeps
<1> QED BY <1>3 DEF Put, d

(* Text mode's tab: the next stop is a column or behind the last.          *)
LEMMA VgaTabKeeps ==
    ASSUME NEW t, TermInv(t)
    PROVE  TermInv(VgaTab(t))
<1> DEFINE q == (t.col + Tab) \div Tab
<1>1. q \in Nat
  <2>1. Tab \in Nat \ {0} /\ t.col + Tab \in Nat
    BY TermTypes
  <2> QED BY <2>1
<1> HIDE DEF q
<1>2. q * Tab \in Nat
  BY <1>1, TermTypes
<1>3. q * Tab < Width => TermInv([t EXCEPT !.col = q * Tab])
  BY <1>2, TermTypes, ColumnKeeps
<1>4. TermInv(NewLine(t))
  BY NewLineKeeps
<1> QED BY <1>2, <1>3, <1>4, TermTypes DEF VgaTab, q

(* The framebuffer's: the loop of fbterm_putchar over the blanks.          *)
BlanksPut(t, put, n) == IF n = 0 THEN t ELSE Put(put[n - 1], Blank)

LEMMA BlanksExist ==
    ASSUME NEW t, NEW k \in Nat
    PROVE  \E put : put = [n \in 0 .. k |-> BlanksPut(t, put, n)]
<1> DEFINE T == {m \in Nat : \E put : put = [n \in 0 .. m |-> BlanksPut(t, put, n)]}
<1>1. 0 \in T
  <2> DEFINE put == [n \in 0 .. 0 |-> t]
  <2>1. put = [n \in 0 .. 0 |-> BlanksPut(t, put, n)]
    BY DEF BlanksPut
  <2> QED BY <2>1
<1>2. ASSUME NEW m \in Nat, m \in T PROVE m + 1 \in T
  <2>1. PICK put : put = [n \in 0 .. m |-> BlanksPut(t, put, n)]
    BY <1>2
  <2> DEFINE more == [n \in 0 .. m + 1 |-> IF n = m + 1 THEN BlanksPut(t, put, n) ELSE put[n]]
  <2>2. \A n \in 0 .. m + 1 : more[n] = BlanksPut(t, more, n)
    <3> SUFFICES ASSUME NEW n \in 0 .. m + 1 PROVE more[n] = BlanksPut(t, more, n)
      OBVIOUS
    <3>1. more[n] = BlanksPut(t, put, n)
      BY <2>1
    <3>2. n # 0 => more[n - 1] = put[n - 1]
      OBVIOUS
    <3> HIDE DEF more
    <3> QED BY <3>1, <3>2 DEF BlanksPut
  <2>3. more = [n \in 0 .. m + 1 |-> BlanksPut(t, more, n)]
    <3>1. more = [n \in 0 .. m + 1 |-> more[n]]
      OBVIOUS
    <3> HIDE DEF more
    <3> QED BY <2>2, <3>1
  <2> HIDE DEF more
  <2> QED BY <2>3
<1> HIDE DEF T
<1>3. k \in T
  BY <1>1, <1>2, SetInduction
<1> QED BY <1>3 DEF T

LEMMA FbTabKeeps ==
    ASSUME NEW t, TermInv(t)
    PROVE  TermInv(FbTab(t))
<1> DEFINE k == Tab - (t.col % Tab)
<1>1. k \in Nat
  <2>1. Tab \in Nat \ {0} /\ t.col \in Nat
    BY TermTypes
  <2>2. t.col % Tab \in 0 .. Tab - 1
    BY <2>1
  <2> QED BY <2>1, <2>2
<1> HIDE DEF k
<1> DEFINE put == CHOOSE g : g = [n \in 0 .. k |-> BlanksPut(t, g, n)]
<1>2. put = [n \in 0 .. k |-> BlanksPut(t, put, n)]
  BY <1>1, BlanksExist
<1>3. FbTab(t) = put[k]
  BY DEF FbTab, BlanksPut, k
<1> HIDE DEF put
<1> DEFINE T == {m \in Nat : m <= k => TermInv(put[m])}
<1>4. 0 \in T
  <2>1. put[0] = t
    BY <1>1, <1>2 DEF BlanksPut
  <2> QED BY <2>1
<1>5. ASSUME NEW m \in Nat, m \in T PROVE m + 1 \in T
  <2> SUFFICES ASSUME m + 1 <= k PROVE TermInv(put[m + 1])
    OBVIOUS
  <2>1. put[m + 1] = BlanksPut(t, put, m + 1)
    BY <1>1, <1>2
  <2>2. put[m + 1] = Put(put[m], Blank)
    BY <2>1 DEF BlanksPut
  <2>3. TermInv(put[m])
    BY <1>1, <1>5
  <2> QED BY <2>2, <2>3, PutKeeps
<1> HIDE DEF T
<1>6. k \in T
  BY <1>1, <1>4, <1>5, SetInduction
<1>7. TermInv(put[k])
  BY <1>1, <1>6 DEF T
<1> QED BY <1>3, <1>7

LEMMA AfterKeeps ==
    ASSUME NEW t, TermInv(t), NEW c \in Input
    PROVE  TermInv(After(t, c))
<1>1. CASE c = "LF"
  BY <1>1, NewLineKeeps DEF After
<1>2. CASE c = "CR"
  <2>1. 0 \in 0 .. Width - 1
    BY TermTypes
  <2> QED BY <1>2, <2>1, ColumnKeeps DEF After
<1>3. CASE c = "TAB"
  BY <1>3, FbTabKeeps, VgaTabKeeps DEF After
<1>4. CASE c = "BS"
  BY <1>4, TermTypes, DrawnKeeps DEF After
<1>5. CASE c = "clear"
  BY <1>5, ClearedKeeps DEF After
<1>6. CASE c = "a"
  BY <1>6, PutKeeps DEF After
<1> QED BY <1>1, <1>2, <1>3, <1>4, <1>5, <1>6 DEF Input

ScrInv == TermInv(Terminal)

LEMMA ScrStep == ScrInv /\ [ScrNext]_scrVars => ScrInv'
<1> SUFFICES ASSUME ScrInv, [ScrNext]_scrVars PROVE ScrInv'
  OBVIOUS
<1>1. ASSUME NEW c \in Input, PutChar(c) PROVE ScrInv'
  <2> DEFINE t == After(Terminal, c)
  <2>1. TermInv(t)
    BY AfterKeeps DEF ScrInv
  <2>2. scrCells' = t.cells /\ scrRow' = t.row /\ scrCol' = t.col /\ scrPage' = t.page
    BY <1>1 DEF PutChar
  <2> HIDE DEF t
  <2>3. t = [cells |-> t.cells, row |-> t.row, col |-> t.col, page |-> t.page]
    BY <2>1 DEF TermInv, TerminalSet
  <2>4. Terminal' = t
    BY <2>2, <2>3 DEF Terminal
  <2> QED BY <2>1, <2>4 DEF ScrInv
<1>2. CASE UNCHANGED scrVars
  BY <1>2 DEF scrVars, ScrInv, Terminal
<1> QED BY <1>1, <1>2 DEF ScrNext

(* The inductive invariant of the screen: cells and cursor are the end of  *)
(* the paper, in both terminals, through wraps, tabs and scrolling.        *)
THEOREM ServicesScreenInvariant == Spec => []ScrInv
<1>1. Init => ScrInv
  <2> SUFFICES ASSUME Init PROVE ScrInv
    OBVIOUS
  <2>1. Terminal = Cleared
    BY DEF Init, ScrInit, Terminal, Cleared
  <2> QED BY <2>1, ClearedKeeps DEF ScrInv
<1>2. [Next]_vars => [ScrNext]_scrVars
  BY DEF Next, vars
<1> QED BY <1>1, <1>2, ScrStep, PTL DEF Spec

LEMMA ScrInvShows == ScrInv => ShowsTail
<1> SUFFICES ASSUME ScrInv PROVE ShowsTail
  OBVIOUS
<1> DEFINE n == Len(scrPage)
           k == scrRow + 1
           tail == SubSeq(scrPage, n - k + 1, n)
           rest == [y \in 1 .. Height - k |-> BlankLine]
<1>1. Terminal.cells = scrCells /\ Terminal.row = scrRow /\ Terminal.page = scrPage
  BY DEF Terminal
<1>2. /\ Height \in Nat \ {0} /\ n \in Nat /\ k \in 1 .. Height /\ k <= n
      /\ scrCells \in [1 .. Height -> LineSet] /\ scrPage \in Seq(LineSet)
      /\ Shows(scrCells, scrRow, scrPage)
  <2>1. TermInv(Terminal)
    BY DEF ScrInv
  <2>2. scrRow \in 0 .. Height - 1 /\ Height \in Nat \ {0}
    BY <1>1, <2>1, TermTypes
  <2> QED BY <1>1, <2>1, <2>2, TermTypes DEF TermInv
<1>3. k = IF n < Height THEN n ELSE Height
  BY <1>2 DEF Shows
<1> HIDE DEF k
<1>4. /\ tail \in Seq(LineSet) /\ Len(tail) = k
      /\ \A y \in 1 .. k : tail[y] = scrPage[(n - k) + y]
  <2>1. \A i \in n - k + 1 .. n : scrPage[i] \in LineSet
    BY <1>2, ElementOfSeq
  <2>2. /\ tail \in Seq(LineSet) /\ Len(tail) = IF n - k + 1 <= n THEN n - (n - k + 1) + 1 ELSE 0
        /\ \A y \in 1 .. n - (n - k + 1) + 1 : tail[y] = scrPage[(n - k + 1) + y - 1]
    <3> DEFINE from == n - k + 1
    <3>1. from \in Int /\ n \in Int /\ \A i \in from .. n : scrPage[i] \in LineSet
      BY <1>2, <2>1
    <3> HIDE DEF from, n
    <3>2. /\ SubSeq(scrPage, from, n) \in Seq(LineSet)
          /\ Len(SubSeq(scrPage, from, n)) = IF from <= n THEN n - from + 1 ELSE 0
          /\ \A y \in 1 .. n - from + 1 : SubSeq(scrPage, from, n)[y] = scrPage[from + y - 1]
      BY <3>1, SubSeqProperties
    <3> QED BY <3>2 DEF from
  <2> HIDE DEF tail, n
  <2>3. n - (n - k + 1) + 1 = k /\ n - k + 1 <= n
    BY <1>2
  <2>4. \A y \in 1 .. k : (n - k + 1) + y - 1 = (n - k) + y
    BY <1>2
  <2> QED BY <2>2, <2>3, <2>4
<1>5. rest \in Seq(LineSet) /\ Len(rest) = Height - k /\ \A y \in 1 .. Height - k : rest[y] = BlankLine
  BY <1>2, BlankLineType
<1> HIDE DEF tail, rest
<1>6. /\ tail \o rest \in Seq(LineSet) /\ Len(tail \o rest) = Height
      /\ \A y \in 1 .. Height : (tail \o rest)[y] = IF y <= k THEN tail[y] ELSE rest[y - k]
  <2>1. /\ tail \o rest \in Seq(LineSet) /\ Len(tail \o rest) = Len(tail) + Len(rest)
        /\ \A y \in 1 .. Len(tail) + Len(rest) :
               (tail \o rest)[y] = IF y <= Len(tail) THEN tail[y] ELSE rest[y - Len(tail)]
    BY <1>4, <1>5, ConcatProperties
  <2>2. Len(tail) + Len(rest) = Height
    BY <1>2, <1>4, <1>5
  <2> QED BY <1>4, <2>1, <2>2
<1>7. tail \o rest \in [1 .. Height -> LineSet]
  BY <1>6, LenProperties
<1>8. ASSUME NEW y \in 1 .. Height PROVE scrCells[y] = (tail \o rest)[y]
  <2>1. scrCells[y] = IF y <= k THEN scrPage[(n - k) + y] ELSE BlankLine
    BY <1>2 DEF Shows, k
  <2>2. CASE y <= k
    BY <1>2, <1>4, <1>6, <2>1, <2>2
  <2>3. CASE ~(y <= k)
    <3>1. y - k \in 1 .. Height - k
      BY <1>2, <2>3
    <3> QED BY <1>5, <1>6, <2>1, <2>3, <3>1
  <2> QED BY <2>2, <2>3
<1>9. scrCells = tail \o rest
  BY <1>2, <1>7, <1>8
<1> QED BY <1>3, <1>9 DEF ShowsTail, tail, rest, n, k

(* The screen shows the end of what was written.                           *)
THEOREM ServicesShowsTail == Spec => []ShowsTail
BY ScrInvShows, ServicesScreenInvariant, PTL

---------------------------------------------------------------------------
(* Frames and directories.                                                 *)

Ram == 0 .. memTotal - 1
Tables == DOMAIN memTables
Mapped == MappedBy(Tables)
PageSet == Frames \cup {NoFrame, Device}

MemTypes ==
    /\ memTotal \in Nat /\ memUsed \subseteq Frames
    /\ KernelDir \in memDirs /\ memDirs \subseteq Frames \cup {KernelDir}
    /\ memEntries \in [memDirs -> [Slots -> Frames \cup {NoFrame, StaticTable}]]
    /\ Tables \subseteq Frames
    /\ memTables \in [Tables -> [Pages -> PageSet]]
    /\ memBrk \in 0 .. SbrkPool

(* Frames outside the memory are in use, and the rest is counted.          *)
Counted ==
    /\ Frames \ memUsed \subseteq Ram
    /\ memCount = Cardinality(memUsed \cap Ram)

(* The frames callers hold, directories, tables, pages mapped and frames   *)
(* lost: no frame is two of these, all are frames of the memory, and with  *)
(* those kept back they are the frames in use.                             *)
Apart(kept, held, dirs, tables, mapped, lost, used, ram) ==
    /\ held \cap dirs = {} /\ held \cap tables = {} /\ held \cap mapped = {} /\ held \cap lost = {}
    /\ dirs \cap tables = {} /\ dirs \cap mapped = {} /\ dirs \cap lost = {}
    /\ tables \cap mapped = {} /\ tables \cap lost = {}
    /\ mapped \cap lost = {}
    /\ used = kept \cup held \cup dirs \cup tables \cup mapped \cup lost
    /\ kept \cap (held \cup dirs \cup tables \cup mapped \cup lost) = {}
    /\ held \cup dirs \cup tables \cup mapped \cup lost \subseteq ram
OwnersApart ==
    Apart(Reserved, memHeld, memDirs \ {KernelDir}, Tables, Mapped, memLost, memUsed, Ram)

(* A table of a user half is in one entry, of one directory; an entry is a *)
(* live table or none that is freed; and a page is mapped once.            *)
EntriesAreTables ==
    \A d \in memDirs, s \in Slots : memEntries[d][s] \in Tables \cup {NoFrame, StaticTable}
OneEntry ==
    \A d, e \in memDirs, s \in UserSlots, z \in Slots :
        memEntries[d][s] \in Tables /\ memEntries[d][s] = memEntries[e][z] => d = e /\ s = z
OnePage ==
    \A t, u \in Tables, p, q \in Pages :
        memTables[t][p] \in Frames /\ memTables[t][p] = memTables[u][q] => t = u /\ p = q

(* The inductive invariant of memory.                                      *)
MemInv == MemTypes /\ Counted /\ OwnersApart /\ EntriesAreTables /\ OneEntry /\ OnePage

LEMMA NamesDiffer ==
    /\ Frames \subseteq Nat
    /\ NoFrame \notin Frames /\ KernelDir \notin Frames /\ StaticTable \notin Frames
    /\ Device \notin Frames
    /\ UserSlots \cap KernelSlots = {} /\ UserSlots \subseteq Slots
BY MemoryAssumption DEF MemoryAssumption, NoFrame, KernelDir, StaticTable, Device, Slots

LEMMA MappedElements ==
    ASSUME NEW tables, NEW ts, NEW T, tables \in [T -> [Pages -> PageSet]], ts \subseteq T, NEW f
    PROVE  f \in (UNION {Range(tables[t]) : t \in ts}) \cap Frames
             <=> f \in Frames /\ \E t \in ts, p \in Pages : tables[t][p] = f
<1>1. \A t \in ts : Range(tables[t]) = {tables[t][p] : p \in Pages}
  BY DEF Range
<1> QED BY <1>1

(* bitmap_first_free gives a free frame, if there is one.                  *)
LEMMA FirstFreeIsFree == FirstFree # NoFrame => FirstFree \in Frames \ memUsed
<1> SUFFICES ASSUME FreeFrames # {} PROVE FirstFree \in Frames \ memUsed
  BY DEF FirstFree
<1>1. FreeFrames \subseteq Nat
  BY NamesDiffer DEF FreeFrames
<1>2. \E x \in FreeFrames : \A y \in FreeFrames : x <= y
  BY <1>1, LeastElement
<1>3. Min(FreeFrames) \in FreeFrames
  BY <1>2 DEF Min
<1> QED BY <1>3 DEF FirstFree, FreeFrames

LEMMA RamFinite ==
    ASSUME MemTypes, NEW fs
    PROVE  IsFiniteSet(fs \cap Ram) /\ Cardinality(fs \cap Ram) \in Nat
<1>1. IsFiniteSet(Ram)
  BY FS_Interval DEF MemTypes, Ram
<1>2. IsFiniteSet(fs \cap Ram)
  BY <1>1, FS_Subset
<1> QED BY <1>2, FS_CardinalityType

LEMMA AllocatedCounts ==
    ASSUME MemTypes, Counted, NEW f \in Frames \ memUsed, Allocated(f), memTotal' = memTotal
    PROVE  Counted' /\ memUsed' = memUsed \cup {f} /\ f \in Ram /\ f \notin memUsed
<1>1. memUsed' = memUsed \cup {f} /\ f \in Ram /\ Ram' = Ram
  BY DEF Allocated, Counted, Ram
<1>2. memUsed' \cap Ram = (memUsed \cap Ram) \cup {f}
  BY <1>1
<1>3. Cardinality(memUsed' \cap Ram) = Cardinality(memUsed \cap Ram) + 1
  BY <1>2, RamFinite, FS_AddElement
<1> QED BY <1>1, <1>3 DEF Allocated, Counted

LEMMA FreedCounts ==
    ASSUME MemTypes, Counted, NEW fs, fs \subseteq Frames, fs \cap memUsed \subseteq Ram,
           Freed(fs), memTotal' = memTotal
    PROVE  Counted' /\ memUsed' = memUsed \ fs
<1>1. memUsed' = memUsed \ fs /\ Ram' = Ram
  BY DEF Freed, Ram
<1>2. memUsed' \cap Ram = (memUsed \cap Ram) \ fs /\ (memUsed \cap Ram) \cap fs = fs \cap memUsed
  BY <1>1
<1>3. Cardinality(memUsed' \cap Ram) = Cardinality(memUsed \cap Ram) - Cardinality(fs \cap memUsed)
  <2> DEFINE used == memUsed \cap Ram
  <2>1. IsFiniteSet(used)
    BY RamFinite
  <2> HIDE DEF used
  <2>2. Cardinality(used \ fs) = Cardinality(used) - Cardinality(used \cap fs)
    BY <2>1, FS_Difference
  <2>3. Cardinality(memUsed' \cap Ram) = Cardinality(used \ fs)
    BY <1>2 DEF used
  <2>4. Cardinality(used \cap fs) = Cardinality(fs \cap memUsed)
    BY <1>2 DEF used
  <2> QED BY <2>2, <2>3, <2>4 DEF used
<1>4. Frames \ memUsed' \subseteq Ram
  BY <1>1 DEF Counted
<1> QED BY <1>1, <1>3, <1>4 DEF Freed, Counted

(* Mapped, by its elements, before and after a step.                       *)
LEMMA MappedIs ==
    ASSUME MemTypes, NEW ts, ts \subseteq Tables, NEW f
    PROVE  f \in MappedBy(ts) <=> f \in Frames /\ \E t \in ts, p \in Pages : memTables[t][p] = f
BY MappedElements DEF MemTypes, MappedBy

LEMMA MappedAfter ==
    ASSUME NEW T, T = Tables', memTables' \in [T -> [Pages -> PageSet]], NEW f
    PROVE  f \in Mapped' <=> f \in Frames /\ \E t \in T, p \in Pages : memTables'[t][p] = f
<1>1. Mapped' = (UNION {Range(memTables'[t]) : t \in T}) \cap Frames
  BY DEF Mapped, MappedBy
<1> QED BY <1>1, MappedElements

LEMMA AllocFrameKeeps == MemInv /\ AllocFrame => MemInv'
<1> SUFFICES ASSUME MemInv, AllocFrame PROVE MemInv'
  OBVIOUS
<1> DEFINE f == FirstFree
<1>1. f \in Frames \ memUsed
  BY FirstFreeIsFree DEF AllocFrame
<1> HIDE DEF f
<1>2. /\ Allocated(f) /\ memHeld' = memHeld \cup {f}
      /\ UNCHANGED <<memTotal, memDirs, memEntries, memTables, memBrk, memLost>>
  BY DEF AllocFrame, f
<1>3. Counted' /\ memUsed' = memUsed \cup {f} /\ f \in Ram /\ f \notin memUsed
  BY <1>1, <1>2, AllocatedCounts DEF MemInv
<1>4. Tables' = Tables /\ Mapped' = Mapped /\ Ram' = Ram /\ Reserved' = Reserved
  BY <1>2 DEF Tables, Mapped, MappedBy, Ram, Reserved
<1>5. OwnersApart'
  BY <1>2, <1>3, <1>4 DEF MemInv, OwnersApart, Apart
<1>6. MemTypes'
  BY <1>1, <1>2, <1>3, <1>4 DEF MemInv, MemTypes
<1>7. EntriesAreTables' /\ OneEntry' /\ OnePage'
  BY <1>2, <1>4 DEF MemInv, EntriesAreTables, OneEntry, OnePage
<1> QED BY <1>3, <1>5, <1>6, <1>7 DEF MemInv

LEMMA FreeFrameKeeps ==
    ASSUME MemInv, NEW f \in Frames, FreeFrame(f)
    PROVE  MemInv'
<1>1. /\ f \in memHeld \cup FreeFrames /\ Freed({f}) /\ memHeld' = memHeld \ {f}
      /\ UNCHANGED <<memTotal, memDirs, memEntries, memTables, memBrk, memLost>>
  BY DEF FreeFrame
<1>2. {f} \cap memUsed \subseteq Ram
  BY <1>1 DEF MemInv, OwnersApart, Apart, FreeFrames
<1>3. Counted' /\ memUsed' = memUsed \ {f}
  BY <1>1, <1>2, FreedCounts DEF MemInv
<1>4. Tables' = Tables /\ Mapped' = Mapped /\ Ram' = Ram /\ Reserved' = Reserved
  BY <1>1 DEF Tables, Mapped, MappedBy, Ram, Reserved
<1>5. OwnersApart'
  BY <1>1, <1>3, <1>4 DEF MemInv, OwnersApart, Apart, FreeFrames
<1>6. MemTypes'
  BY <1>1, <1>3, <1>4 DEF MemInv, MemTypes
<1>7. EntriesAreTables' /\ OneEntry' /\ OnePage'
  BY <1>1, <1>4 DEF MemInv, EntriesAreTables, OneEntry, OnePage
<1> QED BY <1>3, <1>5, <1>6, <1>7 DEF MemInv

LEMMA CreateDirectoryKeeps == MemInv /\ CreateDirectory => MemInv'
<1> SUFFICES ASSUME MemInv, CreateDirectory PROVE MemInv'
  OBVIOUS
<1> DEFINE f == FirstFree
<1>1. f \in Frames \ memUsed
  BY FirstFreeIsFree DEF CreateDirectory
<1> HIDE DEF f
<1>2. /\ Allocated(f) /\ memDirs' = memDirs \cup {f}
      /\ memEntries' = [d \in memDirs' |->
             IF d # f THEN memEntries[d]
             ELSE [s \in Slots |-> IF s \in UserSlots THEN NoFrame ELSE memEntries[KernelDir][s]]]
      /\ UNCHANGED <<memTotal, memTables, memBrk, memHeld, memLost>>
  BY DEF CreateDirectory, f
<1>3. Counted' /\ memUsed' = memUsed \cup {f} /\ f \in Ram /\ f \notin memUsed
  BY <1>1, <1>2, AllocatedCounts DEF MemInv
<1>4. Tables' = Tables /\ Mapped' = Mapped /\ Ram' = Ram /\ Reserved' = Reserved
  BY <1>2 DEF Tables, Mapped, MappedBy, Ram, Reserved
<1>5. f # KernelDir /\ f \notin memDirs
  BY <1>1, <1>3, NamesDiffer DEF MemInv, OwnersApart, Apart
<1>6. OwnersApart'
  BY <1>2, <1>3, <1>4, <1>5 DEF MemInv, OwnersApart, Apart
<1>7. /\ \A d \in memDirs : memEntries'[d] = memEntries[d]
      /\ \A s \in Slots : memEntries'[f][s] = IF s \in UserSlots THEN NoFrame
                                              ELSE memEntries[KernelDir][s]
  BY <1>2, <1>5
<1>8. MemTypes'
  <2>1. memEntries' \in [memDirs' -> [Slots -> Frames \cup {NoFrame, StaticTable}]]
    BY <1>2 DEF MemInv, MemTypes
  <2> QED BY <1>1, <1>2, <1>3, <1>4, <2>1 DEF MemInv, MemTypes
<1>9. EntriesAreTables'
  BY <1>2, <1>4, <1>7 DEF MemInv, MemTypes, EntriesAreTables
<1>10. OneEntry'
  <2> SUFFICES ASSUME NEW d \in memDirs', NEW e \in memDirs', NEW s \in UserSlots, NEW z \in Slots,
                      memEntries'[d][s] \in Tables, memEntries'[d][s] = memEntries'[e][z]
               PROVE  d = e /\ s = z
    BY <1>4 DEF OneEntry
  <2>1. d \in memDirs /\ s \in Slots
    BY <1>2, <1>7, NamesDiffer DEF MemInv, MemTypes
  <2>2. CASE e \in memDirs
    BY <1>7, <2>1, <2>2 DEF MemInv, OneEntry
  <2>3. CASE e = f
    <3>1. z \notin UserSlots /\ memEntries[d][s] = memEntries[KernelDir][z]
      BY <1>7, <2>1, <2>3, NamesDiffer DEF MemInv, MemTypes
    <3>2. s = z
      BY <1>7, <2>1, <3>1 DEF MemInv, MemTypes, OneEntry
    <3> QED BY <3>1, <3>2
  <2> QED BY <1>2, <2>2, <2>3
<1>11. OnePage'
  BY <1>2, <1>4 DEF MemInv, OnePage
<1> QED BY <1>3, <1>6, <1>8, <1>9, <1>10, <1>11 DEF MemInv

LEMMA DestroyDirectoryKeeps ==
    ASSUME MemInv, NEW d \in Frames, DestroyDirectory(d)
    PROVE  MemInv'
<1> DEFINE ts == OwnTables(d)
           freed == ts \cup MappedBy(ts) \cup {d}
<1>1. /\ d \in memDirs \ {KernelDir} /\ Freed(freed) /\ memDirs' = memDirs \ {d}
      /\ memEntries' = [e \in memDirs' |-> memEntries[e]]
      /\ memTables' = [t \in Tables \ ts |-> memTables[t]]
      /\ UNCHANGED <<memTotal, memBrk, memHeld, memLost>>
  BY DEF DestroyDirectory, Tables
<1>2. /\ ts \subseteq Tables
      /\ \A x : x \in ts <=> x \in Tables /\ \E s \in UserSlots : memEntries[d][s] = x
  BY DEF OwnTables, Tables
<1> HIDE DEF ts
<1>3. MappedBy(ts) \subseteq Mapped
  BY <1>2, MappedIs DEF MemInv, Mapped
<1>4. freed \subseteq Frames /\ freed \cap memUsed \subseteq Ram
  BY <1>1, <1>2, <1>3 DEF MemInv, MemTypes, OwnersApart, Apart
<1> HIDE DEF freed
<1>5. Counted' /\ memUsed' = memUsed \ freed
  BY <1>1, <1>4, FreedCounts DEF MemInv
<1>6. Tables' = Tables \ ts /\ Ram' = Ram /\ Reserved' = Reserved
  BY <1>1 DEF Tables, Ram, Reserved
<1>7. memTables' \in [Tables \ ts -> [Pages -> PageSet]]
  BY <1>1 DEF MemInv, MemTypes
<1>8. Mapped' = Mapped \ MappedBy(ts)
  <2>1. ASSUME NEW f PROVE f \in Mapped' <=> f \in Mapped \ MappedBy(ts)
    <3>1. f \in Mapped' <=> f \in Frames /\ \E t \in Tables \ ts, p \in Pages : memTables'[t][p] = f
      BY <1>6, <1>7, MappedAfter
    <3>2. f \in Mapped <=> f \in Frames /\ \E t \in Tables, p \in Pages : memTables[t][p] = f
      BY MappedIs DEF MemInv, Mapped
    <3>3. f \in MappedBy(ts) <=> f \in Frames /\ \E t \in ts, p \in Pages : memTables[t][p] = f
      BY <1>2, MappedIs DEF MemInv
    <3>4. \A t \in Tables \ ts : memTables'[t] = memTables[t]
      BY <1>1
    <3> QED BY <1>2, <3>1, <3>2, <3>3, <3>4 DEF MemInv, OnePage
  <2> QED BY <2>1
<1>9. OwnersApart'
  BY <1>1, <1>2, <1>3, <1>5, <1>6, <1>8 DEF MemInv, OwnersApart, Apart, freed
<1>10. MemTypes'
  <2>1. memEntries' \in [memDirs' -> [Slots -> Frames \cup {NoFrame, StaticTable}]]
    BY <1>1 DEF MemInv, MemTypes
  <2> QED BY <1>1, <1>5, <1>6, <1>7, <2>1 DEF MemInv, MemTypes
<1>11. EntriesAreTables' /\ OneEntry'
  <2>1. \A e \in memDirs' : e \in memDirs /\ e # d /\ memEntries'[e] = memEntries[e]
    BY <1>1
  <2>2. EntriesAreTables'
    <3> SUFFICES ASSUME NEW e \in memDirs', NEW z \in Slots
                 PROVE  memEntries[e][z] \in (Tables \ ts) \cup {NoFrame, StaticTable}
      BY <1>6, <2>1 DEF EntriesAreTables
    <3>1. memEntries[e][z] \in Tables \cup {NoFrame, StaticTable}
      BY <2>1 DEF MemInv, EntriesAreTables
    <3>2. memEntries[e][z] \notin ts
      BY <1>1, <1>2, <2>1, NamesDiffer DEF MemInv, OneEntry
    <3> QED BY <3>1, <3>2
  <2>3. OneEntry'
    BY <1>2, <1>6, <2>1 DEF MemInv, OneEntry
  <2> QED BY <2>2, <2>3
<1>12. OnePage'
  BY <1>1, <1>6 DEF MemInv, OnePage
<1> QED BY <1>5, <1>9, <1>10, <1>11, <1>12 DEF MemInv

(* Frames that pass from one owner to another.                             *)
LEMMA FramesPass ==
    ASSUME NEW kept, NEW held, NEW dirs, NEW tables, NEW mapped, NEW lost, NEW used, NEW ram,
           Apart(kept, held, dirs, tables, mapped, lost, used, ram),
           NEW old, old \subseteq mapped, NEW given, given \subseteq held
    PROVE  /\ Apart(kept, held \cup old, dirs, tables, mapped \ old, lost, used, ram)
           /\ Apart(kept, held \ given, dirs, tables, (mapped \ old) \cup given, lost \cup old, used, ram)
           /\ Apart(kept, held \ given, dirs, tables, mapped, lost \cup given, used, ram)
           /\ \A f \in ram \ used : Apart(kept, held \ given, dirs, tables \cup {f},
                                       mapped \cup given, lost, used \cup {f}, ram)
<1>1. Apart(kept, held \cup old, dirs, tables, mapped \ old, lost, used, ram)
  BY DEF Apart
<1>2. Apart(kept, held \ given, dirs, tables, (mapped \ old) \cup given, lost \cup old, used, ram)
  BY DEF Apart
<1>3. Apart(kept, held \ given, dirs, tables, mapped, lost \cup given, used, ram)
  BY DEF Apart
<1>4. ASSUME NEW f \in ram \ used
      PROVE  Apart(kept, held \ given, dirs, tables \cup {f}, mapped \cup given, lost, used \cup {f}, ram)
  BY DEF Apart
<1> QED BY <1>1, <1>2, <1>3, <1>4

(* One entry of a table is set: what was mapped there is no longer, and    *)
(* the page is.                                                            *)
LEMMA EntrySet ==
    ASSUME MemInv, NEW table \in Tables, NEW p \in Pages, NEW page \in PageSet,
           page \in Frames => page \notin Mapped,
           memTables' = [memTables EXCEPT ![table][p] = page]
    PROVE  /\ memTables' \in [Tables -> [Pages -> PageSet]] /\ Tables' = Tables
           /\ Mapped' = (Mapped \ {memTables[table][p]}) \cup ({page} \cap Frames)
           /\ OnePage'
<1>1. Tables' = Tables
  BY DEF MemInv, MemTypes, Tables
<1>2. \A t \in Tables, q \in Pages :
          memTables'[t][q] = IF t = table /\ q = p THEN page ELSE memTables[t][q]
  BY DEF MemInv, MemTypes
<1>3. memTables' \in [Tables -> [Pages -> PageSet]]
  BY DEF MemInv, MemTypes
<1>4. \A f : f \in Mapped <=> f \in Frames /\ \E t \in Tables, q \in Pages : memTables[t][q] = f
  BY MappedIs DEF MemInv, Mapped
<1>5. \A f : f \in Mapped' <=> f \in Frames /\ \E t \in Tables, q \in Pages : memTables'[t][q] = f
  BY <1>1, <1>3, MappedAfter
<1>6. Mapped' = (Mapped \ {memTables[table][p]}) \cup ({page} \cap Frames)
  <2>1. ASSUME NEW f \in Mapped' PROVE f \in (Mapped \ {memTables[table][p]}) \cup ({page} \cap Frames)
    <3>1. PICK t \in Tables, q \in Pages : memTables'[t][q] = f
      BY <1>5, <2>1
    <3>2. f \in Frames
      BY <1>5, <2>1
    <3>3. CASE t = table /\ q = p
      BY <1>2, <3>1, <3>2, <3>3
    <3>4. CASE ~(t = table /\ q = p)
      <4>1. memTables[t][q] = f /\ f \in Mapped
        BY <1>2, <1>4, <3>1, <3>2, <3>4
      <4>2. f # memTables[table][p]
        BY <3>2, <3>4, <4>1 DEF MemInv, OnePage
      <4> QED BY <4>1, <4>2
    <3> QED BY <3>3, <3>4
  <2>2. ASSUME NEW f \in Mapped, f # memTables[table][p] PROVE f \in Mapped'
    <3>1. PICK t \in Tables, q \in Pages : memTables[t][q] = f
      BY <1>4, <2>2
    <3>2. memTables'[t][q] = f
      BY <1>2, <2>2, <3>1
    <3> QED BY <1>4, <1>5, <2>2, <3>1, <3>2
  <2>3. page \in Frames => page \in Mapped'
    BY <1>2, <1>5
  <2> QED BY <2>1, <2>2, <2>3
<1>7. OnePage'
  <2> SUFFICES ASSUME NEW t \in Tables, NEW u \in Tables, NEW q \in Pages, NEW r \in Pages,
                      memTables'[t][q] \in Frames, memTables'[t][q] = memTables'[u][r]
               PROVE  t = u /\ q = r
    BY <1>1 DEF OnePage
  <2>1. CASE t = table /\ q = p
    <3>1. memTables'[u][r] = page /\ page \in Frames
      BY <1>2, <2>1
    <3>2. ~(u = table /\ r = p) => page \in Mapped
      BY <1>2, <1>4, <3>1
    <3> QED BY <2>1, <3>1, <3>2
  <2>2. CASE u = table /\ r = p
    <3>1. memTables'[t][q] = page /\ page \in Frames
      BY <1>2, <2>2
    <3>2. ~(t = table /\ q = p) => page \in Mapped
      BY <1>2, <1>4, <3>1
    <3> QED BY <2>2, <3>1, <3>2
  <2>3. CASE ~(t = table /\ q = p) /\ ~(u = table /\ r = p)
    BY <1>2, <2>3 DEF MemInv, OnePage
  <2> QED BY <2>1, <2>2, <2>3
<1> QED BY <1>1, <1>3, <1>6, <1>7

LEMMA UnmapPageKeeps ==
    ASSUME MemInv, NEW d \in memDirs, NEW s \in Slots, NEW p \in Pages, UnmapPage(d, s, p)
    PROVE  MemInv'
<1> DEFINE table == memEntries[d][s]
           old == memTables[table][p]
<1>1. /\ table \in Tables
      /\ memTables' = [memTables EXCEPT ![table][p] = NoFrame]
      /\ memHeld' = memHeld \cup ({old} \cap Frames)
      /\ UNCHANGED <<memUsed, memTotal, memCount, memDirs, memEntries, memBrk, memLost>>
  BY DEF UnmapPage, Tables
<1>2. old \in Frames => old \in Mapped
  BY <1>1, MappedIs DEF MemInv, Mapped
<1> HIDE DEF table, old
<1>3. /\ memTables' \in [Tables -> [Pages -> PageSet]] /\ Tables' = Tables
      /\ Mapped' = (Mapped \ {memTables[table][p]}) \cup ({NoFrame} \cap Frames)
      /\ OnePage'
  BY <1>1, NamesDiffer, EntrySet DEF PageSet
<1>4. Mapped' = Mapped \ {old} /\ Ram' = Ram /\ Reserved' = Reserved
  BY <1>1, <1>3, NamesDiffer DEF old, Ram, Reserved
<1>5. OwnersApart'
  <2> DEFINE page == {old} \cap Frames
             dirs == memDirs \ {KernelDir}
  <2>1. page \subseteq Mapped /\ {} \subseteq memHeld
    BY <1>2
  <2>2. Apart(Reserved, memHeld, dirs, Tables, Mapped, memLost, memUsed, Ram)
    BY DEF MemInv, OwnersApart
  <2>3. Mapped' = Mapped \ page /\ memHeld' = memHeld \cup page
    BY <1>1, <1>4 DEF Mapped, MappedBy
  <2>4. dirs' = dirs
    BY <1>1
  <2> HIDE DEF page, dirs
  <2>5. Apart(Reserved, memHeld \cup page, dirs, Tables, Mapped \ page, memLost, memUsed, Ram)
    BY <2>1, <2>2, FramesPass
  <2>6. Apart(Reserved', memHeld', dirs', Tables', Mapped', memLost', memUsed', Ram')
    BY <1>1, <1>3, <1>4, <2>3, <2>4, <2>5
  <2> QED BY <2>6 DEF OwnersApart, dirs
<1>6. Counted' /\ MemTypes'
  BY <1>1, <1>3, <1>4 DEF MemInv, MemTypes, Counted
<1>7. EntriesAreTables' /\ OneEntry'
  BY <1>1, <1>3 DEF MemInv, EntriesAreTables, OneEntry
<1> QED BY <1>3, <1>5, <1>6, <1>7 DEF MemInv

LEMMA MapPageKeeps ==
    ASSUME MemInv, NEW d \in memDirs, NEW s \in Slots, NEW p \in Pages,
           NEW page \in Frames \cup {Device}, MapPage(d, s, p, page)
    PROVE  MemInv'
<1> DEFINE table == memEntries[d][s]
           new == FirstFree
           replaced == IF table \in Tables THEN {memTables[table][p]} \cap Frames ELSE {}
<1>1. /\ IF d = KernelDir THEN page = Device ELSE page \in memHeld
      /\ table # StaticTable /\ memHeld' = memHeld \ {page}
      /\ UNCHANGED <<memTotal, memDirs, memBrk>>
  BY DEF MapPage
<1>2. page \in Frames => page \in memHeld
  BY <1>1, NamesDiffer
<1>3. Ram' = Ram /\ Reserved' = Reserved /\ page \in PageSet /\ (page \in Frames => page \notin Mapped)
  BY <1>1, <1>2 DEF Ram, Reserved, PageSet, MemInv, OwnersApart, Apart
<1>4. table \in Tables \cup {NoFrame, StaticTable}
  BY DEF MemInv, EntriesAreTables
<1> DEFINE given == {page} \cap Frames
           dirs == memDirs \ {KernelDir}
<1>5. /\ given \subseteq memHeld /\ {} \subseteq Mapped
      /\ Apart(Reserved, memHeld, dirs, Tables, Mapped, memLost, memUsed, Ram)
  BY <1>2 DEF MemInv, OwnersApart
<1>6. memHeld' = memHeld \ given /\ dirs' = dirs
  <2>1. memHeld \subseteq Frames
    BY DEF MemInv, MemTypes, OwnersApart, Apart
  <2> QED BY <1>1, <2>1
<1>7. Apart(Reserved', memHeld', dirs', Tables', Mapped', memLost', memUsed', Ram')
         => OwnersApart'
  BY DEF OwnersApart, dirs
<1> HIDE DEF dirs
<1>8. CASE /\ table # NoFrame
           /\ memTables' = [memTables EXCEPT ![table][p] = page]
           /\ memLost' = memLost \cup replaced
           /\ UNCHANGED <<memUsed, memCount, memEntries>>
  <2>1. table \in Tables
    BY <1>1, <1>4, <1>8
  <2>2. replaced \subseteq Mapped /\ replaced = {memTables[table][p]} \cap Frames
    BY <2>1, MappedIs DEF MemInv, Mapped
  <2> HIDE DEF table, replaced
  <2>3. /\ memTables' \in [Tables -> [Pages -> PageSet]] /\ Tables' = Tables
        /\ Mapped' = (Mapped \ {memTables[table][p]}) \cup ({page} \cap Frames)
        /\ OnePage'
    BY <1>3, <1>8, <2>1, EntrySet
  <2>4. Mapped' = (Mapped \ replaced) \cup ({page} \cap Frames)
    BY <2>2, <2>3 DEF Mapped, MappedBy
  <2>5. OwnersApart'
    <3>1. Apart(Reserved, memHeld \ given, dirs, Tables, (Mapped \ replaced) \cup given,
                memLost \cup replaced, memUsed, Ram)
      BY <1>5, <2>2, FramesPass
    <3> QED BY <1>3, <1>6, <1>7, <1>8, <2>3, <2>4, <3>1
  <2>6. Counted' /\ MemTypes'
    BY <1>1, <1>3, <1>8, <2>3 DEF MemInv, MemTypes, Counted
  <2>7. EntriesAreTables' /\ OneEntry'
    BY <1>1, <1>8, <2>3 DEF MemInv, EntriesAreTables, OneEntry
  <2> QED BY <2>3, <2>5, <2>6, <2>7 DEF MemInv
<1>9. CASE /\ table = NoFrame /\ new # NoFrame
           /\ Allocated(new)
           /\ memEntries' = [memEntries EXCEPT ![d][s] = new]
           /\ memTables' = [t \in Tables \cup {new} |->
                  IF t = new THEN [NoEntries EXCEPT ![p] = page] ELSE memTables[t]]
           /\ UNCHANGED memLost
  <2>1. new \in Frames \ memUsed
    BY <1>9, FirstFreeIsFree
  <2> HIDE DEF new, replaced
  <2>2. Counted' /\ memUsed' = memUsed \cup {new} /\ new \in Ram /\ new \notin memUsed
    BY <1>1, <1>9, <2>1, AllocatedCounts DEF MemInv
  <2>3. Tables' = Tables \cup {new} /\ new \notin Tables /\ new \notin Mapped
    BY <1>9, <2>2 DEF MemInv, OwnersApart, Apart, Tables
  <2>4. /\ \A t \in Tables : memTables'[t] = memTables[t]
        /\ \A q \in Pages : memTables'[new][q] = IF q = p THEN page ELSE NoFrame
    BY <1>9, <2>3 DEF NoEntries
  <2>5. memTables' \in [Tables \cup {new} -> [Pages -> PageSet]]
    <3>1. [NoEntries EXCEPT ![p] = page] \in [Pages -> PageSet]
      BY <1>3 DEF NoEntries, PageSet
    <3> QED BY <1>9, <3>1 DEF MemInv, MemTypes
  <2>6. \A f : f \in Mapped <=> f \in Frames /\ \E t \in Tables, q \in Pages : memTables[t][q] = f
    BY MappedIs DEF MemInv, Mapped
  <2>7. Mapped' = Mapped \cup ({page} \cap Frames)
    <3>1. ASSUME NEW f PROVE f \in Mapped' <=> f \in Mapped \cup ({page} \cap Frames)
      <4>1. f \in Mapped' <=>
              f \in Frames /\ \E t \in Tables \cup {new}, q \in Pages : memTables'[t][q] = f
        BY <2>3, <2>5, MappedAfter
      <4>2. ASSUME f \in Mapped' PROVE f \in Mapped \cup ({page} \cap Frames)
        BY <2>4, <2>6, <4>1, <4>2, NamesDiffer
      <4>3. ASSUME f \in Mapped PROVE f \in Mapped'
        BY <2>4, <2>6, <4>1, <4>3
      <4>4. ASSUME f = page, f \in Frames PROVE f \in Mapped'
        BY <2>4, <4>1, <4>4
      <4> QED BY <4>2, <4>3, <4>4
    <3> QED BY <3>1
  <2>8. OwnersApart'
    <3>1. Apart(Reserved, memHeld \ given, dirs, Tables \cup {new}, Mapped \cup given,
                memLost, memUsed \cup {new}, Ram)
      BY <1>5, <2>2, FramesPass
    <3> QED BY <1>3, <1>6, <1>7, <1>9, <2>2, <2>3, <2>7, <3>1
  <2>9. /\ memEntries' \in [memDirs -> [Slots -> Frames \cup {NoFrame, StaticTable}]]
        /\ \A e \in memDirs, z \in Slots :
               memEntries'[e][z] = IF e = d /\ z = s THEN new ELSE memEntries[e][z]
    BY <1>9, <2>1 DEF MemInv, MemTypes
  <2>10. MemTypes'
    BY <1>1, <2>1, <2>2, <2>3, <2>5, <2>9 DEF MemInv, MemTypes
  <2>11. EntriesAreTables'
    BY <1>1, <2>3, <2>9 DEF MemInv, EntriesAreTables
  <2>12. \A e \in memDirs, z \in Slots : memEntries[e][z] # new
    BY <2>1, <2>3, NamesDiffer DEF MemInv, EntriesAreTables
  <2>13. OneEntry'
    <3> SUFFICES ASSUME NEW e \in memDirs, NEW g \in memDirs, NEW y \in UserSlots, NEW z \in Slots,
                        memEntries'[e][y] \in Tables \cup {new},
                        memEntries'[e][y] = memEntries'[g][z]
                 PROVE  e = g /\ y = z
      BY <1>1, <2>3 DEF OneEntry
    <3>1. y \in Slots
      BY NamesDiffer
    <3>2. CASE memEntries'[e][y] = new
      <4>1. e = d /\ y = s
        BY <2>9, <2>12, <3>1, <3>2
      <4>2. g = d /\ z = s
        BY <2>9, <2>12, <3>2
      <4> QED BY <4>1, <4>2
    <3>3. CASE memEntries'[e][y] # new
      <4>1. memEntries[e][y] \in Tables /\ memEntries[e][y] = memEntries[g][z]
        BY <2>9, <3>1, <3>3
      <4> QED BY <4>1 DEF MemInv, OneEntry
    <3> QED BY <3>2, <3>3
  <2>14. OnePage'
    <3> SUFFICES ASSUME NEW t \in Tables \cup {new}, NEW u \in Tables \cup {new},
                        NEW q \in Pages, NEW r \in Pages,
                        memTables'[t][q] \in Frames, memTables'[t][q] = memTables'[u][r]
                 PROVE  t = u /\ q = r
      BY <2>3 DEF OnePage
    <3>1. CASE t = new /\ u = new
      BY <2>4, <3>1, NamesDiffer
    <3>2. CASE t = new /\ u \in Tables
      <4>1. memTables[u][r] = page /\ page \in Frames
        BY <2>3, <2>4, <3>2, NamesDiffer
      <4> QED BY <1>3, <2>6, <3>2, <4>1
    <3>3. CASE t \in Tables /\ u = new
      <4>1. memTables[t][q] = page /\ page \in Frames
        BY <2>3, <2>4, <3>3, NamesDiffer
      <4> QED BY <1>3, <2>6, <3>3, <4>1
    <3>4. CASE t \in Tables /\ u \in Tables
      BY <2>4, <3>4 DEF MemInv, OnePage
    <3> QED BY <3>1, <3>2, <3>3, <3>4
  <2> QED BY <2>2, <2>8, <2>10, <2>11, <2>13, <2>14 DEF MemInv
<1>10. CASE /\ memLost' = memLost \cup ({page} \cap Frames)
            /\ UNCHANGED <<memUsed, memCount, memEntries, memTables>>
  <2>1. Tables' = Tables /\ Mapped' = Mapped
    BY <1>10 DEF Tables, Mapped, MappedBy
  <2>2. OwnersApart'
    <3>1. Apart(Reserved, memHeld \ given, dirs, Tables, Mapped, memLost \cup given, memUsed, Ram)
      BY <1>5, FramesPass
    <3> QED BY <1>3, <1>6, <1>7, <1>10, <2>1, <3>1
  <2>3. Counted' /\ MemTypes'
    BY <1>1, <1>3, <1>10, <2>1 DEF MemInv, MemTypes, Counted
  <2>4. EntriesAreTables' /\ OneEntry' /\ OnePage'
    BY <1>1, <1>10, <2>1 DEF MemInv, EntriesAreTables, OneEntry, OnePage
  <2> QED BY <2>2, <2>3, <2>4 DEF MemInv
<1> QED BY <1>8, <1>9, <1>10 DEF MapPage, Tables

LEMMA SbrkKeeps ==
    ASSUME MemInv, NEW inc \in Increments, Sbrk(inc)
    PROVE  MemInv'
<1>1. /\ memBrk' \in 0 .. SbrkPool
      /\ UNCHANGED <<memUsed, memTotal, memCount, memDirs, memEntries, memTables, memHeld, memLost>>
  BY DEF Sbrk, InPool
<1>2. Tables' = Tables /\ Mapped' = Mapped /\ Ram' = Ram /\ Reserved' = Reserved
  BY <1>1 DEF Tables, Mapped, MappedBy, Ram, Reserved
<1>3. OwnersApart'
  BY <1>1, <1>2 DEF MemInv, OwnersApart, Apart
<1>4. Counted' /\ MemTypes'
  BY <1>1, <1>2 DEF MemInv, MemTypes, Counted
<1>5. EntriesAreTables' /\ OneEntry' /\ OnePage'
  BY <1>1, <1>2 DEF MemInv, EntriesAreTables, OneEntry, OnePage
<1> QED BY <1>3, <1>4, <1>5 DEF MemInv

LEMMA MemInitial == MemInit => MemInv
<1> SUFFICES ASSUME MemInit PROVE MemInv
  OBVIOUS
<1>1. PICK kb \in MemSizes :
          /\ memTotal = ((kb * KiB) % WordSize) \div PageSize
          /\ memUsed = Reserved
          /\ memCount = Cardinality(memUsed \cap (0 .. memTotal - 1))
          /\ memDirs = {KernelDir}
          /\ memEntries = [d \in memDirs |-> [s \in Slots |->
                 IF s \in {Min(UserSlots), Min(KernelSlots)} THEN StaticTable ELSE NoFrame]]
          /\ memTables = [t \in {} |-> NoEntries]
          /\ memBrk = 0 /\ memHeld = {} /\ memLost = {}
  BY DEF MemInit
<1>2. memTotal \in Nat /\ KernelFrames \in Nat
  <2>1. /\ PageSize \in Nat \ {0} /\ WordSize \in Nat \ {0} /\ KernelEnd \in Nat
        /\ kb \in Nat /\ KiB \in Nat
    BY MemoryAssumption DEF MemoryAssumption
  <2>2. kb * KiB \in Nat
    BY <2>1
  <2>3. (kb * KiB) % WordSize \in Nat
    BY <2>1, <2>2
  <2>4. \A n \in Nat : n \div PageSize \in Nat
    BY <2>1
  <2> QED BY <1>1, <2>1, <2>3, <2>4 DEF KernelFrames
<1>3. Tables = {} /\ Mapped = {}
  BY <1>1 DEF Tables, Mapped, MappedBy
<1>4. Counted
  <2>1. Frames \ memUsed \subseteq Ram
    BY <1>1, <1>2, NamesDiffer DEF Ram, Reserved
  <2> QED BY <1>1, <2>1 DEF Counted, Ram
<1>5. MemTypes
  BY <1>1, <1>2, <1>3, MemoryAssumption DEF MemTypes, MemoryAssumption, Reserved
<1>6. OwnersApart
  BY <1>1, <1>3 DEF OwnersApart, Apart
<1>7. EntriesAreTables /\ OneEntry /\ OnePage
  BY <1>1, <1>3, NamesDiffer DEF EntriesAreTables, OneEntry, OnePage, NoFrame, StaticTable
<1> QED BY <1>4, <1>5, <1>6, <1>7 DEF MemInv

LEMMA MemStep == MemInv /\ [MemNext]_memVars => MemInv'
<1> SUFFICES ASSUME MemInv, [MemNext]_memVars PROVE MemInv'
  OBVIOUS
<1>1. CASE UNCHANGED memVars
  <2>1. /\ UNCHANGED <<memUsed, memTotal, memCount, memDirs, memEntries, memTables, memHeld, memLost>>
        /\ memBrk' = memBrk
    BY <1>1 DEF memVars
  <2>2. Tables' = Tables /\ Mapped' = Mapped /\ Ram' = Ram /\ Reserved' = Reserved
    BY <2>1 DEF Tables, Mapped, MappedBy, Ram, Reserved
  <2>3. OwnersApart' /\ Counted' /\ MemTypes'
    BY <2>1, <2>2 DEF MemInv, OwnersApart, Apart, Counted, MemTypes
  <2>4. EntriesAreTables' /\ OneEntry' /\ OnePage'
    BY <2>1, <2>2 DEF MemInv, EntriesAreTables, OneEntry, OnePage
  <2> QED BY <2>3, <2>4 DEF MemInv
<1>2. CASE MemNext
  BY <1>2, AllocFrameKeeps, FreeFrameKeeps, CreateDirectoryKeeps, DestroyDirectoryKeeps,
     UnmapPageKeeps, MapPageKeeps, SbrkKeeps DEF MemNext
<1> QED BY <1>1, <1>2

(* The inductive invariant of frames and directories: who owns which frame *)
(* in pmm_alloc, paging_map_page, unmapping and destruction.               *)
THEOREM ServicesMemoryInvariant == Spec => []MemInv
<1>1. Init => MemInv
  BY MemInitial DEF Init
<1>2. [Next]_vars => [MemNext]_memVars
  BY DEF Next, vars
<1> QED BY <1>1, <1>2, MemStep, PTL DEF Spec

LEMMA MemInvOwns == MemInv => FramesOwned
<1> SUFFICES ASSUME MemInv PROVE FramesOwned
  OBVIOUS
<1>1. /\ DOMAIN Owners = 1 .. 5
      /\ Owners[1] = memHeld /\ Owners[2] = memDirs \ {KernelDir} /\ Owners[3] = Tables
      /\ Owners[4] = Mapped /\ Owners[5] = memLost
  BY DEF Owners, Tables, Mapped
<1>2. 1 .. 5 = {1, 2, 3, 4, 5}
  OBVIOUS
<1>3. \A i, j \in DOMAIN Owners : i # j => Owners[i] \cap Owners[j] = {}
  BY <1>1, <1>2 DEF MemInv, OwnersApart, Apart
<1>4. memUsed = Reserved \cup UNION Range(Owners) /\ Reserved \cap UNION Range(Owners) = {}
  <2>1. Range(Owners) = {Owners[1], Owners[2], Owners[3], Owners[4], Owners[5]}
    BY <1>1, <1>2 DEF Range
  <2> QED BY <1>1, <2>1 DEF MemInv, OwnersApart, Apart
<1>5. memCount = Cardinality(memUsed \cap (0 .. memTotal - 1))
  BY DEF MemInv, Counted, Ram
<1>6. \A d, e \in memDirs : d # e => OwnTables(d) \cap OwnTables(e) = {}
  BY NamesDiffer DEF MemInv, OneEntry, OwnTables, Tables
<1>7. \A d \in memDirs : \A s \in Slots :
          memEntries[d][s] \in DOMAIN memTables \cup {NoFrame, StaticTable}
  BY DEF MemInv, EntriesAreTables, Tables
<1>8. \A f, g \in (DOMAIN memTables) \X Pages :
          f # g /\ memTables[f[1]][f[2]] \in Frames => memTables[f[1]][f[2]] # memTables[g[1]][g[2]]
  <2> SUFFICES ASSUME NEW f \in Tables \X Pages, NEW g \in Tables \X Pages,
                      memTables[f[1]][f[2]] \in Frames,
                      memTables[f[1]][f[2]] = memTables[g[1]][g[2]]
               PROVE  f = g
    BY DEF Tables
  <2>1. f[1] = g[1] /\ f[2] = g[2]
    BY DEF MemInv, OnePage
  <2> QED BY <2>1
<1> QED BY <1>3, <1>4, <1>5, <1>6, <1>7, <1>8 DEF FramesOwned

(* Every frame handed out has one owner and is free again when that gives  *)
(* it back; the frames in use are counted.                                 *)
THEOREM ServicesFramesOwned == Spec => []FramesOwned
BY MemInvOwns, ServicesMemoryInvariant, PTL

---------------------------------------------------------------------------
(* The bytes of a sequence of keys.                                        *)

Keys == {"UP", "RCTRL", "c", "C", "ctrlC", "eight"}

(* A key is one byte, or the marker and a code.                            *)
LEMMA KeyBytesIs ==
    /\ DOMAIN KeyBytes = Keys
    /\ \A k \in Keys : /\ KeyBytes[k] \in Seq(Bytes) /\ Len(KeyBytes[k]) \in {1, 2}
                       /\ KeyBytes[k][1] = "E0" <=> Len(KeyBytes[k]) = 2
<1>1. DOMAIN KeyBytes = Keys
  BY DEF KeyBytes, Keys
<1>2. /\ KeyBytes["UP"] = <<"E0", "H">> /\ KeyBytes["RCTRL"] = <<"E0", "1D">>
      /\ KeyBytes["c"] = <<"c">> /\ KeyBytes["C"] = <<"C">>
      /\ KeyBytes["ctrlC"] = <<"^C">> /\ KeyBytes["eight"] = <<"8">>
  BY DEF KeyBytes
<1>3. ASSUME NEW k \in Keys
      PROVE  /\ KeyBytes[k] \in Seq(Bytes) /\ Len(KeyBytes[k]) \in {1, 2}
             /\ KeyBytes[k][1] = "E0" <=> Len(KeyBytes[k]) = 2
  <2>1. ASSUME NEW a \in Bytes PROVE <<a>> \in Seq(Bytes) /\ Len(<<a>>) = 1 /\ <<a>>[1] = a
    OBVIOUS
  <2>2. ASSUME NEW a \in Bytes
        PROVE  <<"E0", a>> \in Seq(Bytes) /\ Len(<<"E0", a>>) = 2 /\ <<"E0", a>>[1] = "E0"
    BY DEF Bytes
  <2>3. {"H", "1D", "c", "C", "^C", "8"} \subseteq Bytes
    BY DEF Bytes
  <2>4. CASE k \in {"UP", "RCTRL"}
    BY <1>2, <2>2, <2>3, <2>4
  <2>5. CASE k \in {"c", "C", "ctrlC", "eight"}
    <3>1. PICK a \in {"c", "C", "^C", "8"} : KeyBytes[k] = <<a>>
      BY <1>2, <2>5
    <3>2. a \in Bytes /\ a # "E0"
      BY <2>3
    <3> QED BY <2>1, <3>1, <3>2
  <2> QED BY <2>4, <2>5 DEF Keys
<1> QED BY <1>1, <1>3

(* The bytes of the keys typed, as KeysInOrder has them.                   *)
Flat(typed) == FlattenSeq([i \in DOMAIN typed |-> KeyBytes[typed[i]]])

(* f[n] is the bytes of the first n keys.                                  *)
IsFlat(typed, f) ==
    /\ f \in [0 .. Len(typed) -> Seq(Bytes)] /\ f[0] = <<>>
    /\ \A n \in 1 .. Len(typed) : f[n] = f[n - 1] \o KeyBytes[typed[n]]

(* There is such an f, for every sequence of keys ...                      *)
LEMMA FlatExists ==
    ASSUME NEW typed \in Seq(Keys)
    PROVE  \E f : IsFlat(typed, f)
<1> DEFINE Good(m, f) == /\ f \in [0 .. m -> Seq(Bytes)] /\ f[0] = <<>>
                         /\ \A n \in 1 .. m : f[n] = f[n - 1] \o KeyBytes[typed[n]]
           T == {m \in Nat : m <= Len(typed) => \E f : Good(m, f)}
<1>0. Len(typed) \in Nat /\ \A n \in 1 .. Len(typed) : typed[n] \in Keys
  BY LenProperties, ElementOfSeq
<1> HIDE DEF Good
<1>1. 0 \in T
  <2> DEFINE f == [n \in 0 .. 0 |-> <<>>]
  <2>1. <<>> \in Seq(Bytes)
    BY EmptySeq
  <2>2. Good(0, f)
    BY <2>1 DEF Good
  <2> QED BY <2>2
<1>2. ASSUME NEW m \in Nat, m \in T PROVE m + 1 \in T
  <2> SUFFICES ASSUME m + 1 <= Len(typed) PROVE \E f : Good(m + 1, f)
    OBVIOUS
  <2>1. PICK f : Good(m, f)
    BY <1>0, <1>2
  <2>f. f \in [0 .. m -> Seq(Bytes)] /\ f[0] = <<>>
    BY <2>1 DEF Good
  <2> DEFINE e == f[m] \o KeyBytes[typed[m + 1]]
             g == [n \in 0 .. m + 1 |-> IF n = m + 1 THEN e ELSE f[n]]
  <2>2. e \in Seq(Bytes)
    <3>1. f[m] \in Seq(Bytes)
      BY <2>f
    <3>2. KeyBytes[typed[m + 1]] \in Seq(Bytes)
      BY <1>0, KeyBytesIs
    <3> QED BY <3>1, <3>2, ConcatProperties
  <2>3. g[m + 1] = g[m] \o KeyBytes[typed[m + 1]]
    OBVIOUS
  <2> HIDE DEF e
  <2>4. g \in [0 .. m + 1 -> Seq(Bytes)] /\ g[0] = <<>>
    BY <2>f, <2>2
  <2>5. ASSUME NEW n \in 1 .. m PROVE g[n] = g[n - 1] \o KeyBytes[typed[n]]
    <3>1. g[n] = f[n] /\ g[n - 1] = f[n - 1]
      OBVIOUS
    <3> QED BY <2>1, <3>1 DEF Good
  <2> HIDE DEF g
  <2>6. \A n \in 1 .. m + 1 : g[n] = g[n - 1] \o KeyBytes[typed[n]]
    <3> SUFFICES ASSUME NEW n \in 1 .. m + 1 PROVE g[n] = g[n - 1] \o KeyBytes[typed[n]]
      OBVIOUS
    <3>1. CASE n = m + 1
      <4>1. n - 1 = m
        BY <3>1
      <4> QED BY <2>3, <3>1, <4>1
    <3>2. CASE n \in 1 .. m
      BY <2>5, <3>2
    <3>3. n = m + 1 \/ n \in 1 .. m
      OBVIOUS
    <3> QED BY <3>1, <3>2, <3>3
  <2>7. Good(m + 1, g)
    BY <2>4, <2>6 DEF Good
  <2> QED BY <2>7
<1> HIDE DEF T
<1>3. Len(typed) \in T
  BY <1>0, <1>1, <1>2, SetInduction
<1>4. PICK f : Good(Len(typed), f)
  BY <1>0, <1>3 DEF T
<1> QED BY <1>4 DEF IsFlat, Good

(* ... only one ...                                                        *)
LEMMA FlatUnique ==
    ASSUME NEW s \in Seq(Keys), NEW t \in Seq(Keys), NEW f, NEW g, IsFlat(s, f), IsFlat(t, g),
           NEW k \in Nat, k <= Len(s), k <= Len(t), \A n \in 1 .. k : s[n] = t[n]
    PROVE  f[k] = g[k]
<1> DEFINE T == {m \in Nat : m <= k => f[m] = g[m]}
<1>1. 0 \in T
  BY DEF IsFlat
<1>2. ASSUME NEW m \in Nat, m \in T PROVE m + 1 \in T
  <2> SUFFICES ASSUME m + 1 <= k PROVE f[m + 1] = g[m + 1]
    OBVIOUS
  <2>1. m + 1 \in 1 .. Len(s) /\ m + 1 \in 1 .. Len(t) /\ (m + 1) - 1 = m
    BY LenProperties
  <2>2. f[m + 1] = f[m] \o KeyBytes[s[m + 1]] /\ g[m + 1] = g[m] \o KeyBytes[t[m + 1]]
    BY <2>1 DEF IsFlat
  <2>3. s[m + 1] = t[m + 1] /\ f[m] = g[m]
    BY <1>2
  <2> QED BY <2>2, <2>3
<1> HIDE DEF T
<1>3. k \in T
  BY <1>1, <1>2, SetInduction
<1> QED BY <1>3 DEF T

(* ... and its end is what FlattenSeq gives.                               *)
LEMMA FlatIs ==
    ASSUME NEW typed \in Seq(Keys), NEW f, IsFlat(typed, f)
    PROVE  Flat(typed) = f[Len(typed)]
<1> DEFINE k == Len(typed)
           seqs == [i \in DOMAIN typed |-> KeyBytes[typed[i]]]
           Turn(g, i) == IF i = 1 THEN seqs[i] ELSE g[i - 1] \o seqs[i]
           flatten == CHOOSE g : g = [i \in 1 .. k |-> Turn(g, i)]
<1>1. k \in Nat /\ DOMAIN typed = 1 .. k /\ \A n \in 1 .. k : typed[n] \in Keys
  BY LenProperties, ElementOfSeq
<1>2. seqs \in Seq(Seq(Bytes)) /\ Len(seqs) = k /\ \A i \in 1 .. k : seqs[i] = KeyBytes[typed[i]]
  <2>1. \A i \in 1 .. k : KeyBytes[typed[i]] \in Seq(Bytes)
    BY <1>1, KeyBytesIs
  <2> QED BY <1>1, <2>1
<1> HIDE DEF seqs
<1>3. CASE k = 0
  <2>1. Flat(typed) = seqs
    BY <1>2, <1>3 DEF Flat, FlattenSeq, seqs
  <2>2. seqs = <<>>
    BY <1>2, <1>3, EmptySeq
  <2> QED BY <1>3, <2>1, <2>2 DEF IsFlat
<1>4. CASE k # 0
  <2> DEFINE h == [i \in 1 .. k |-> f[i]]
  <2>1. \A i \in 1 .. k : h[i] = Turn(h, i)
    <3> SUFFICES ASSUME NEW i \in 1 .. k PROVE h[i] = Turn(h, i)
      OBVIOUS
    <3>1. f[i] = f[i - 1] \o seqs[i]
      BY <1>2 DEF IsFlat
    <3>2. CASE i = 1
      <4>1. f[i - 1] = <<>>
        BY <3>2 DEF IsFlat
      <4>2. <<>> \o seqs[i] = seqs[i]
        BY <1>1, <1>2, KeyBytesIs, ConcatEmptySeq
      <4> QED BY <3>1, <3>2, <4>1, <4>2
    <3>3. CASE i # 1
      <4>1. h[i - 1] = f[i - 1]
        BY <3>3
      <4> QED BY <3>1, <3>3, <4>1
    <3> QED BY <3>2, <3>3
  <2>2. h = [i \in 1 .. k |-> Turn(h, i)]
    <3>1. h = [i \in 1 .. k |-> h[i]]
      OBVIOUS
    <3> HIDE DEF h, Turn
    <3> QED BY <2>1, <3>1
  <2>3. flatten = [i \in 1 .. k |-> Turn(flatten, i)]
    BY <2>2
  <2>4. Flat(typed) = flatten[k]
    BY <1>2, <1>4 DEF Flat, FlattenSeq, seqs
  <2> HIDE DEF flatten, h
  <2> DEFINE T == {m \in Nat : m + 1 <= k => flatten[m + 1] = f[m + 1]}
  <2>5. \A i \in 1 .. k : h[i] = f[i] /\ h[i] = Turn(h, i) /\ flatten[i] = Turn(flatten, i)
    BY <2>1, <2>3 DEF h
  <2>6. 0 \in T
    BY <2>5
  <2>7. ASSUME NEW m \in Nat, m \in T PROVE m + 1 \in T
    <3> SUFFICES ASSUME (m + 1) + 1 <= k PROVE flatten[(m + 1) + 1] = f[(m + 1) + 1]
      OBVIOUS
    <3>1. flatten[m + 1] = h[m + 1]
      BY <1>1, <2>5, <2>7
    <3>2. ((m + 1) + 1) - 1 = m + 1 /\ (m + 1) + 1 # 1 /\ (m + 1) + 1 \in 1 .. k
      BY <1>1
    <3> QED BY <2>5, <3>1, <3>2
  <2> HIDE DEF T
  <2>8. k - 1 \in T
    BY <1>1, <1>4, <2>6, <2>7, SetInduction
  <2>9. (k - 1) + 1 = k /\ k - 1 \in Nat
    BY <1>1, <1>4
  <2> QED BY <2>4, <2>8, <2>9 DEF T
<1> QED BY <1>3, <1>4

LEMMA FlatType ==
    ASSUME NEW typed \in Seq(Keys)
    PROVE  Flat(typed) \in Seq(Bytes)
<1>1. PICK f : IsFlat(typed, f)
  BY FlatExists
<1>2. Flat(typed) = f[Len(typed)] /\ Len(typed) \in Nat
  BY <1>1, FlatIs, LenProperties
<1> QED BY <1>1, <1>2 DEF IsFlat

LEMMA FlatEmpty == Flat(<<>>) = <<>>
<1>1. <<>> \in Seq(Keys)
  BY EmptySeq
<1>2. Len(<<>>) = 0
  BY EmptySeq
<1>3. PICK f : IsFlat(<<>>, f)
  BY <1>1, FlatExists
<1>4. Flat(<<>>) = f[0]
  BY <1>1, <1>2, <1>3, FlatIs
<1> QED BY <1>3, <1>4 DEF IsFlat

(* One key more adds its bytes at the end.                                 *)
LEMMA FlatAppend ==
    ASSUME NEW typed \in Seq(Keys), NEW key \in Keys
    PROVE  Flat(Append(typed, key)) = Flat(typed) \o KeyBytes[key]
<1> DEFINE more == Append(typed, key)
           k == Len(typed)
<1>1. /\ k \in Nat /\ more \in Seq(Keys) /\ Len(more) = k + 1 /\ more[k + 1] = key
      /\ \A n \in 1 .. k : typed[n] = more[n]
  BY AppendProperties, LenProperties
<1> HIDE DEF more
<1>2. PICK f : IsFlat(typed, f)
  BY FlatExists
<1>3. PICK g : IsFlat(more, g)
  BY <1>1, FlatExists
<1>4. f[k] = g[k]
  BY <1>1, <1>2, <1>3, FlatUnique
<1>5. g[k + 1] = g[k] \o KeyBytes[key]
  <2>1. k + 1 \in 1 .. Len(more) /\ (k + 1) - 1 = k
    BY <1>1
  <2>2. g[k + 1] = g[(k + 1) - 1] \o KeyBytes[more[k + 1]]
    BY <1>3, <2>1 DEF IsFlat
  <2> QED BY <1>1, <2>1, <2>2
<1>6. Flat(more) = g[k + 1] /\ Flat(typed) = f[k]
  BY <1>1, <1>2, <1>3, FlatIs
<1>7. Flat(more) = Flat(typed) \o KeyBytes[key]
  BY <1>4, <1>5, <1>6
<1> QED BY <1>7 DEF more

(* The first key's bytes come first.                                       *)
LEMMA FlatFirst ==
    ASSUME NEW typed \in Seq(Keys), typed # <<>>
    PROVE  /\ Tail(typed) \in Seq(Keys) /\ typed[1] \in Keys
           /\ Flat(typed) = KeyBytes[typed[1]] \o Flat(Tail(typed))
<1> DEFINE rest == Tail(typed)
           k == Len(rest)
           first == KeyBytes[typed[1]]
<1>1. /\ rest \in Seq(Keys) /\ k \in Nat /\ Len(typed) = k + 1
      /\ \A n \in 1 .. k : rest[n] = typed[n + 1]
  BY HeadTailProperties, LenProperties, EmptySeq
<1>2. typed[1] \in Keys /\ first \in Seq(Bytes)
  BY <1>1, ElementOfSeq, KeyBytesIs
<1> HIDE DEF rest, first
<1>3. PICK f : IsFlat(typed, f)
  BY FlatExists
<1>4. PICK g : IsFlat(rest, g)
  BY <1>1, FlatExists
<1> DEFINE T == {m \in Nat : m <= k => f[m + 1] = first \o g[m]}
<1>5. 0 \in T
  <2>1. 1 \in 1 .. Len(typed) /\ 1 - 1 = 0
    BY <1>1
  <2>2. f[1] = f[1 - 1] \o KeyBytes[typed[1]]
    BY <1>3, <2>1 DEF IsFlat
  <2>3. f[1 - 1] = <<>>
    BY <1>3, <2>1 DEF IsFlat
  <2>4. f[1] = first
    BY <1>2, <2>2, <2>3, ConcatEmptySeq DEF first
  <2>5. first \o g[0] = first
    BY <1>2, <1>4, ConcatEmptySeq DEF IsFlat
  <2> QED BY <2>4, <2>5
<1>6. ASSUME NEW m \in Nat, m \in T PROVE m + 1 \in T
  <2> SUFFICES ASSUME m + 1 <= k PROVE f[(m + 1) + 1] = first \o g[m + 1]
    OBVIOUS
  <2>1. /\ (m + 1) + 1 \in 1 .. Len(typed) /\ ((m + 1) + 1) - 1 = m + 1
        /\ m + 1 \in 1 .. k /\ (m + 1) - 1 = m /\ m \in 0 .. k
    BY <1>1
  <2>2. f[(m + 1) + 1] = f[((m + 1) + 1) - 1] \o KeyBytes[typed[(m + 1) + 1]]
    BY <1>3, <2>1 DEF IsFlat
  <2>3. g[m + 1] = g[(m + 1) - 1] \o KeyBytes[rest[m + 1]]
    BY <1>4, <2>1 DEF IsFlat
  <2>4. f[m + 1] = first \o g[m]
    BY <1>1, <1>6
  <2>5. rest[m + 1] = typed[(m + 1) + 1] /\ rest[m + 1] \in Keys
    BY <1>1, <2>1, ElementOfSeq
  <2>6. f[(m + 1) + 1] = (first \o g[m]) \o KeyBytes[rest[m + 1]]
    BY <2>1, <2>2, <2>4, <2>5
  <2>7. g[m + 1] = g[m] \o KeyBytes[rest[m + 1]]
    BY <2>1, <2>3
  <2>8. g[m] \in Seq(Bytes) /\ KeyBytes[rest[m + 1]] \in Seq(Bytes)
    BY <1>4, <2>1, <2>5, KeyBytesIs DEF IsFlat
  <2>9. (first \o g[m]) \o KeyBytes[rest[m + 1]] = first \o (g[m] \o KeyBytes[rest[m + 1]])
    <3>1. ASSUME NEW a \in Seq(Bytes), NEW b \in Seq(Bytes), NEW c \in Seq(Bytes)
          PROVE  (a \o b) \o c = a \o (b \o c)
      BY ConcatAssociative, SMTT(20)
    <3> QED BY <1>2, <2>8, <3>1
  <2> QED BY <2>6, <2>7, <2>9
<1> HIDE DEF T
<1>7. k \in T
  BY <1>1, <1>5, <1>6, SetInduction
<1>8. f[k + 1] = first \o g[k]
  BY <1>1, <1>7 DEF T
<1>9. Flat(typed) = f[k + 1] /\ Flat(rest) = g[k]
  BY <1>1, <1>3, <1>4, FlatIs
<1> QED BY <1>1, <1>2, <1>8, <1>9 DEF rest, first

---------------------------------------------------------------------------
(* The ring of the keyboard.  Wrap is the remainder for numbers at most one *)
(* turn away, and Place the place of the i-th byte that waits.             *)

Wrap(d) == IF d < 0 THEN d + KbBuf ELSE IF d < KbBuf THEN d ELSE d - KbBuf
Place(rp, i) == Wrap(rp + i - 1)

LEMMA ModIsWrap ==
    /\ KbBuf \in Nat \ {0}
    /\ \A d \in Int : d >= -KbBuf /\ d < 2 * KbBuf => d % KbBuf = Wrap(d)
BY KeyboardAssumption, WrapMod DEF KeyboardAssumption, Wrap

(* ring2 is ring with the first fits of the bytes put in at wp.            *)
WithBytes(ring, wp, bytes, fits, ring2) ==
    \A i \in 0 .. KbBuf - 1 :
        ring2[i] = IF Wrap(i - wp) + 1 <= fits THEN bytes[Wrap(i - wp) + 1] ELSE ring[i]

(* Bytes that fit are put behind those that wait.                          *)
PutBehind(ring, rp, wp, bytes, fits, ring2) ==
    LET w == Wrap(wp - rp)
    IN  /\ Wrap(wp + fits) \in 0 .. KbBuf - 1
        /\ Wrap(Wrap(wp + fits) - rp) = w + fits
        /\ \A i \in 1 .. w + fits :
               ring2[Place(rp, i)] = IF i <= w THEN ring[Place(rp, i)] ELSE bytes[i - w]

LEMMA RingPush ==
    ASSUME KbBuf \in Nat \ {0},
           NEW rp \in 0 .. KbBuf - 1, NEW wp \in 0 .. KbBuf - 1,
           NEW ring, NEW bytes, NEW fits \in Nat, fits <= KbBuf - 1 - Wrap(wp - rp),
           NEW ring2, WithBytes(ring, wp, bytes, fits, ring2)
    PROVE  PutBehind(ring, rp, wp, bytes, fits, ring2)
<1> DEFINE w == Wrap(wp - rp)
           wp2 == Wrap(wp + fits)
<1>1. w \in 0 .. KbBuf - 1 /\ w = IF wp < rp THEN wp - rp + KbBuf ELSE wp - rp
  BY DEF Wrap
<1>2. fits <= KbBuf - 1 - w
  OBVIOUS
<1> HIDE DEF w
<1>3. wp2 \in 0 .. KbBuf - 1 /\ wp2 = IF wp + fits < KbBuf THEN wp + fits ELSE wp + fits - KbBuf
  BY <1>1, <1>2 DEF Wrap
<1> HIDE DEF wp2
<1>4. Wrap(wp2 - rp) = w + fits
  BY <1>1, <1>2, <1>3 DEF Wrap
<1>5. ASSUME NEW i \in 1 .. w + fits
      PROVE  ring2[Place(rp, i)] = IF i <= w THEN ring[Place(rp, i)] ELSE bytes[i - w]
  <2> DEFINE q == Place(rp, i)
             k == Wrap(q - wp) + 1
  <2>1. q \in 0 .. KbBuf - 1 /\ q = IF rp + i - 1 < KbBuf THEN rp + i - 1 ELSE rp + i - 1 - KbBuf
    BY <1>1, <1>2 DEF Place, Wrap
  <2>2. ring2[q] = IF k <= fits THEN bytes[k] ELSE ring[q]
    BY <2>1 DEF WithBytes
  <2> HIDE DEF q
  <2>3. k = IF q - wp < 0 THEN q - wp + KbBuf + 1 ELSE q - wp + 1
    BY <2>1 DEF Wrap
  <2> HIDE DEF k
  <2>4. i <= w => ~(k <= fits)
    BY <1>1, <1>2, <2>1, <2>3
  <2>5. ~(i <= w) => k = i - w /\ k <= fits
    BY <1>1, <1>2, <2>1, <2>3
  <2> QED BY <2>2, <2>4, <2>5 DEF q
<1> QED BY <1>3, <1>4, <1>5 DEF PutBehind, w, wp2

(* A byte taken was the first; the others move up.                         *)
MovedUp(rp, wp) ==
    LET w == Wrap(wp - rp)
        rp2 == Wrap(rp + 1)
    IN  /\ rp2 \in 0 .. KbBuf - 1 /\ w \in 1 .. KbBuf - 1
        /\ Wrap(wp - rp2) = w - 1
        /\ Place(rp, 1) = rp
        /\ \A i \in 1 .. w - 1 : Place(rp2, i) = Place(rp, i + 1)

LEMMA RingTake ==
    ASSUME KbBuf \in Nat \ {0},
           NEW rp \in 0 .. KbBuf - 1, NEW wp \in 0 .. KbBuf - 1, rp # wp
    PROVE  MovedUp(rp, wp)
<1> DEFINE w == Wrap(wp - rp)
           rp2 == Wrap(rp + 1)
<1>1. w \in 1 .. KbBuf - 1 /\ w = IF wp < rp THEN wp - rp + KbBuf ELSE wp - rp
  BY DEF Wrap
<1>2. rp2 \in 0 .. KbBuf - 1 /\ rp2 = IF rp + 1 < KbBuf THEN rp + 1 ELSE rp + 1 - KbBuf
  BY DEF Wrap
<1> HIDE DEF w, rp2
<1>3. Wrap(wp - rp2) = w - 1
  BY <1>1, <1>2 DEF Wrap
<1>4. Place(rp, 1) = rp
  BY DEF Place, Wrap
<1>5. ASSUME NEW i \in 1 .. w - 1 PROVE Place(rp2, i) = Place(rp, i + 1)
  BY <1>1, <1>2 DEF Place, Wrap
<1> QED BY <1>1, <1>2, <1>3, <1>4, <1>5 DEF MovedUp, w, rp2

---------------------------------------------------------------------------
(* The keyboard.                                                           *)

KbWaits == Wrap(kbWp - kbRp)
KbHeld == IF kbMarker THEN 1 ELSE 0

(* The inductive invariant.  Unless torn, the bytes of the keys typed are  *)
(* the marker read_key has, if it has one, and the bytes in the ring; once *)
(* torn, no key counts as typed until the ring is empty.  A reader about   *)
(* to take a byte finds one: only it empties the ring.                     *)
KbTypes ==
    /\ kbRing \in [0 .. KbBuf - 1 -> Bytes \cup {NoByte}]
    /\ kbRp \in 0 .. KbBuf - 1 /\ kbWp \in 0 .. KbBuf - 1
    /\ kbAt \in {"poll", "hlt", "halted", "take"}
    /\ kbTyped \in Seq(Keys)
    /\ kbAt = "take" => kbRp # kbWp
    /\ kbTorn => kbTyped = <<>>
RingHolds(bytes) ==
    /\ Len(bytes) = KbHeld + KbWaits
    /\ kbMarker => bytes[1] = "E0"
    /\ \A i \in 1 .. KbWaits : kbRing[Place(kbRp, i)] = bytes[KbHeld + i]
KbInv == KbTypes /\ (~kbTorn => RingHolds(Flat(kbTyped)))

LEMMA WaitingLength ==
    ASSUME KbTypes
    PROVE  /\ KbBuf \in Nat \ {0} /\ KbWaits \in 0 .. KbBuf - 1
           /\ KbWaiting = [i \in 1 .. KbWaits |-> kbRing[Place(kbRp, i)]]
           /\ Len(KbWaiting) = KbWaits
<1>1. KbBuf \in Nat \ {0}
  BY ModIsWrap
<1>2. KbWaits \in 0 .. KbBuf - 1
  BY <1>1 DEF KbTypes, KbWaits, Wrap
<1>3. (kbWp - kbRp) % KbBuf = KbWaits
  <2>1. kbWp - kbRp \in Int /\ kbWp - kbRp >= -KbBuf /\ kbWp - kbRp < 2 * KbBuf
    BY <1>1 DEF KbTypes
  <2> QED BY <2>1, ModIsWrap DEF KbWaits
<1>4. ASSUME NEW i \in 1 .. KbWaits PROVE (kbRp + i - 1) % KbBuf = Place(kbRp, i)
  <2>1. kbRp + i - 1 \in Int /\ kbRp + i - 1 >= -KbBuf /\ kbRp + i - 1 < 2 * KbBuf
    BY <1>1, <1>2 DEF KbTypes
  <2> QED BY <2>1, ModIsWrap DEF Place
<1>5. KbWaiting = [i \in 1 .. KbWaits |-> kbRing[Place(kbRp, i)]]
  BY <1>3, <1>4 DEF KbWaiting
<1> HIDE DEF KbWaits
<1>6. Len(KbWaiting) = KbWaits
  BY <1>2, <1>5
<1> QED BY <1>1, <1>2, <1>5, <1>6

LEMMA PushKeeps ==
    ASSUME KbInv, NEW key \in Keys, Push(key), kbRp' = kbRp, kbMarker' = kbMarker
    PROVE  /\ kbRing' \in [0 .. KbBuf - 1 -> Bytes \cup {NoByte}]
           /\ kbWp' \in 0 .. KbBuf - 1 /\ kbTyped' \in Seq(Keys)
           /\ kbTorn' => kbTyped' = <<>>
           /\ kbRp # kbWp => kbRp # kbWp'
           /\ ~kbTorn' => RingHolds(Flat(kbTyped))'
<1> DEFINE bytes == KeyBytes[key]
           fits == IF KbFree < Len(bytes) THEN KbFree ELSE Len(bytes)
           w == KbWaits
<1>1. bytes \in Seq(Bytes) /\ Len(bytes) \in {1, 2} /\ \A j \in 1 .. Len(bytes) : bytes[j] \in Bytes
  BY KeyBytesIs, ElementOfSeq
<1> HIDE DEF bytes
<1>2. /\ KbBuf \in Nat \ {0} /\ w \in 0 .. KbBuf - 1 /\ KbFree = KbBuf - 1 - w
      /\ kbRp \in 0 .. KbBuf - 1 /\ kbWp \in 0 .. KbBuf - 1
  BY WaitingLength DEF KbInv, KbTypes, KbFree
<1>3. fits \in Nat /\ fits <= KbBuf - 1 - w /\ fits <= Len(bytes)
  BY <1>1, <1>2
<1>4. /\ kbRing' = [i \in 0 .. KbBuf - 1 |->
             IF ((i - kbWp) % KbBuf) + 1 <= fits THEN bytes[((i - kbWp) % KbBuf) + 1] ELSE kbRing[i]]
      /\ kbWp' = (kbWp + fits) % KbBuf
      /\ kbTorn' = (kbTorn \/ fits \in 1 .. Len(bytes) - 1)
      /\ kbTyped' = IF kbTorn' THEN <<>> ELSE IF fits = 0 THEN kbTyped ELSE Append(kbTyped, key)
  <2>1. DOMAIN kbRing = 0 .. KbBuf - 1
    BY DEF KbInv, KbTypes
  <2> QED BY <2>1 DEF Push, bytes
<1> HIDE DEF fits
<1>5. kbWp' = Wrap(kbWp + fits)
  <2>1. kbWp + fits \in Int /\ kbWp + fits >= -KbBuf /\ kbWp + fits < 2 * KbBuf
    BY <1>2, <1>3
  <2> QED BY <1>4, <2>1, ModIsWrap
<1>6. ASSUME NEW i \in 0 .. KbBuf - 1
      PROVE  kbRing'[i] = IF Wrap(i - kbWp) + 1 <= fits THEN bytes[Wrap(i - kbWp) + 1] ELSE kbRing[i]
  <2>1. i - kbWp \in Int /\ i - kbWp >= -KbBuf /\ i - kbWp < 2 * KbBuf
    BY <1>2
  <2>2. (i - kbWp) % KbBuf = Wrap(i - kbWp)
    BY <2>1, ModIsWrap
  <2>3. kbRing'[i] = IF ((i - kbWp) % KbBuf) + 1 <= fits
                     THEN bytes[((i - kbWp) % KbBuf) + 1] ELSE kbRing[i]
    BY <1>4
  <2> QED BY <2>2, <2>3
<1>7. /\ Wrap(kbWp + fits) \in 0 .. KbBuf - 1
      /\ Wrap(Wrap(kbWp + fits) - kbRp) = w + fits
      /\ \A i \in 1 .. w + fits :
             kbRing'[Place(kbRp, i)] = IF i <= w THEN kbRing[Place(kbRp, i)] ELSE bytes[i - w]
  <2>1. w = Wrap(kbWp - kbRp)
    BY DEF KbWaits
  <2>2. WithBytes(kbRing, kbWp, bytes, fits, kbRing')
    BY <1>6 DEF WithBytes
  <2>3. PutBehind(kbRing, kbRp, kbWp, bytes, fits, kbRing')
    BY <1>2, <1>3, <2>1, <2>2, RingPush
  <2> QED BY <2>1, <2>3 DEF PutBehind
<1>8. KbWaits' = w + fits /\ KbHeld' = KbHeld /\ KbHeld \in {0, 1} /\ (KbHeld = 1 <=> kbMarker)
  BY <1>5, <1>7 DEF KbWaits, KbHeld
<1>9. kbRing' \in [0 .. KbBuf - 1 -> Bytes \cup {NoByte}]
  <2>1. ASSUME NEW i \in 0 .. KbBuf - 1 PROVE kbRing'[i] \in Bytes \cup {NoByte}
    <3>1. Wrap(i - kbWp) + 1 >= 1 /\ Wrap(i - kbWp) \in Int
      BY <1>2 DEF Wrap
    <3>2. Wrap(i - kbWp) + 1 <= fits => Wrap(i - kbWp) + 1 \in 1 .. Len(bytes)
      BY <1>1, <1>3, <3>1
    <3> QED BY <1>1, <1>6, <3>2 DEF KbInv, KbTypes
  <2>2. kbRing' = [i \in 0 .. KbBuf - 1 |-> kbRing'[i]]
    BY <1>4
  <2> QED BY <2>1, <2>2
<1>10. kbTyped' \in Seq(Keys)
  <2>1. <<>> \in Seq(Keys) /\ Append(kbTyped, key) \in Seq(Keys)
    BY EmptySeq, AppendProperties DEF KbInv, KbTypes
  <2> QED BY <1>4, <2>1 DEF KbInv, KbTypes
<1>11. kbRp # kbWp => kbRp # kbWp'
  <2>1. kbRp # kbWp => w >= 1
    BY <1>2 DEF KbWaits, Wrap
  <2>2. kbRp = kbWp' => w + fits = 0
    BY <1>2, <1>5, <1>7 DEF Wrap
  <2> QED BY <1>2, <1>3, <2>1, <2>2
<1>12. ASSUME ~kbTorn' PROVE RingHolds(Flat(kbTyped))'
  <2> DEFINE old == Flat(kbTyped)
  <2>1. ~kbTorn /\ ~(fits \in 1 .. Len(bytes) - 1) /\ (fits = 0 \/ fits = Len(bytes))
    <3>1. ~kbTorn /\ ~(fits \in 1 .. Len(bytes) - 1)
      BY <1>4, <1>12, Zenon
    <3> QED BY <1>1, <1>3, <3>1
  <2>2. /\ Len(old) = KbHeld + w /\ (kbMarker => old[1] = "E0")
        /\ \A i \in 1 .. w : kbRing[Place(kbRp, i)] = old[KbHeld + i]
    BY <2>1 DEF KbInv, RingHolds
  <2>3. old \in Seq(Bytes)
    BY FlatType DEF KbInv, KbTypes
  <2>4. CASE fits = 0
    <3>1. kbTyped' = kbTyped /\ Flat(kbTyped)' = old
      BY <1>4, <1>12, <2>4
    <3> HIDE DEF old
    <3>2. \A i \in 1 .. w : kbRing'[Place(kbRp, i)] = old[KbHeld + i]
      BY <1>2, <1>7, <2>2, <2>4
    <3> QED BY <1>2, <1>8, <2>2, <2>4, <3>1, <3>2 DEF RingHolds
  <2>5. CASE fits = Len(bytes)
    <3> DEFINE new == old \o bytes
    <3>1. Flat(kbTyped)' = new
      <4>1. kbTyped' = Append(kbTyped, key)
        BY <1>1, <1>4, <1>12, <2>5
      <4>2. Flat(Append(kbTyped, key)) = new
        BY FlatAppend DEF KbInv, KbTypes, bytes
      <4> QED BY <4>1, <4>2
    <3> HIDE DEF old
    <3>2. /\ Len(new) = Len(old) + Len(bytes)
          /\ \A i \in 1 .. Len(old) + Len(bytes) :
                 new[i] = IF i <= Len(old) THEN old[i] ELSE bytes[i - Len(old)]
      BY <1>1, <2>3, ConcatProperties
    <3> HIDE DEF new
    <3>3. Len(new) = KbHeld + (w + fits)
      BY <1>1, <1>2, <1>8, <2>2, <2>5, <3>2
    <3>4. kbMarker => new[1] = "E0"
      BY <1>1, <1>2, <1>8, <2>2, <3>2
    <3>5. ASSUME NEW i \in 1 .. w + fits PROVE kbRing'[Place(kbRp, i)] = new[KbHeld + i]
      <4>1. /\ KbHeld + i \in 1 .. Len(old) + Len(bytes)
            /\ i <= w <=> KbHeld + i <= Len(old)
            /\ (KbHeld + i) - Len(old) = i - w
        <5>1. Len(old) = KbHeld + w /\ Len(bytes) = fits /\ w \in Nat /\ KbHeld \in {0, 1}
          BY <1>2, <1>8, <2>2, <2>5
        <5> HIDE DEF w
        <5> QED BY <1>3, <5>1
      <4>2. i <= w => kbRing'[Place(kbRp, i)] = old[KbHeld + i]
        BY <1>2, <1>7, <2>2
      <4>3. ~(i <= w) => kbRing'[Place(kbRp, i)] = bytes[i - w]
        BY <1>7
      <4> QED BY <3>2, <4>1, <4>2, <4>3
    <3> QED BY <1>8, <3>1, <3>3, <3>4, <3>5 DEF RingHolds
  <2> QED BY <2>1, <2>4, <2>5
<1>13. kbTorn' => kbTyped' = <<>>
  BY <1>4
<1> QED BY <1>5, <1>7, <1>9, <1>10, <1>11, <1>12, <1>13

LEMMA KbIrqKeeps ==
    ASSUME KbInv, NEW sc \in Scancodes, KbIrq(sc)
    PROVE  KbInv'
<1>1. /\ kbRp' = kbRp /\ kbMarker' = kbMarker
      /\ kbAt' = IF kbAt = "halted" THEN "poll" ELSE kbAt
  BY DEF KbIrq
<1>2. NoKey \/ \E key \in Keys : Push(key)
  <2>1. Letter \in Keys
    BY DEF Letter, Keys
  <2>2. {"UP", "RCTRL", "eight"} \subseteq Keys
    BY DEF Keys
  <2>3. NoKey \/ Push("UP") \/ Push("RCTRL") \/ Push("eight") \/ Push(Letter)
    BY DEF KbIrq
  <2> QED BY <2>1, <2>2, <2>3
<1>3. CASE NoKey
  <2>1. /\ kbRing' = kbRing /\ kbWp' = kbWp /\ kbTyped' = kbTyped /\ kbTorn' = kbTorn
    BY <1>3 DEF NoKey
  <2>2. KbHeld' = KbHeld /\ KbWaits' = KbWaits /\ Flat(kbTyped)' = Flat(kbTyped)
    BY <1>1, <2>1 DEF KbHeld, KbWaits
  <2>3. RingHolds(Flat(kbTyped))' <=> RingHolds(Flat(kbTyped))
    BY <1>1, <2>1, <2>2 DEF RingHolds
  <2>4. KbTypes'
    BY <1>1, <2>1 DEF KbInv, KbTypes
  <2> QED BY <2>1, <2>3, <2>4 DEF KbInv
<1>4. ASSUME NEW key \in Keys, Push(key) PROVE KbInv'
  <2>1. /\ kbRing' \in [0 .. KbBuf - 1 -> Bytes \cup {NoByte}]
        /\ kbWp' \in 0 .. KbBuf - 1 /\ kbTyped' \in Seq(Keys)
        /\ kbTorn' => kbTyped' = <<>>
        /\ kbRp # kbWp => kbRp # kbWp'
        /\ ~kbTorn' => RingHolds(Flat(kbTyped))'
    BY <1>1, <1>4, PushKeeps
  <2>2. KbTypes'
    BY <1>1, <2>1 DEF KbInv, KbTypes
  <2> QED BY <2>1, <2>2 DEF KbInv
<1> QED BY <1>2, <1>3, <1>4

LEMMA KbTakeKeeps == KbInv /\ KbTake => KbInv'
<1> SUFFICES ASSUME KbInv, KbTake PROVE KbInv'
  OBVIOUS
<1> DEFINE w == KbWaits
           bytes == Flat(kbTyped)
           resync == kbRp' = kbWp /\ ~kbMarker'
<1>1. /\ kbAt = "take" /\ kbRp' = (kbRp + 1) % KbBuf
      /\ kbMarker' = (~kbMarker /\ kbRing[kbRp] = "E0")
      /\ kbTorn' = (kbTorn /\ ~resync)
      /\ kbTyped' = IF kbTyped = <<>> \/ kbMarker' THEN kbTyped ELSE Tail(kbTyped)
      /\ kbAt' = "poll" /\ kbRing' = kbRing /\ kbWp' = kbWp
  BY DEF KbTake
<1>2. /\ KbBuf \in Nat \ {0} /\ kbRp \in 0 .. KbBuf - 1 /\ kbWp \in 0 .. KbBuf - 1
      /\ kbRp # kbWp /\ kbTyped \in Seq(Keys)
  BY <1>1, ModIsWrap DEF KbInv, KbTypes
<1>3. kbRp' = Wrap(kbRp + 1)
  <2>1. kbRp + 1 \in Int /\ kbRp + 1 >= -KbBuf /\ kbRp + 1 < 2 * KbBuf
    BY <1>2
  <2> QED BY <1>1, <2>1, ModIsWrap
<1>4. /\ kbRp' \in 0 .. KbBuf - 1 /\ w \in 1 .. KbBuf - 1
      /\ KbWaits' = w - 1
      /\ Place(kbRp, 1) = kbRp
      /\ \A i \in 1 .. w - 1 : Place(kbRp', i) = Place(kbRp, i + 1)
  <2>1. w = Wrap(kbWp - kbRp) /\ KbWaits' = Wrap(kbWp - kbRp')
    BY <1>1 DEF KbWaits
  <2>2. MovedUp(kbRp, kbWp)
    BY <1>2, RingTake
  <2> QED BY <1>3, <2>1, <2>2 DEF MovedUp
<1> HIDE DEF w
<1>5. KbTypes'
  <2>1. kbTyped' \in Seq(Keys)
    BY <1>1, <1>2, HeadTailProperties
  <2>2. kbTorn' => kbTyped' = <<>>
    <3>1. kbTorn' => kbTorn
      BY <1>1, Zenon
    <3>2. kbTyped = <<>> => kbTyped' = <<>>
      BY <1>1
    <3> QED BY <3>1, <3>2 DEF KbInv, KbTypes
  <2> QED BY <1>1, <1>4, <2>1, <2>2 DEF KbInv, KbTypes
<1>6. ASSUME kbTorn, ~kbTorn' PROVE RingHolds(Flat(kbTyped))'
  <2>1. kbRp' = kbWp /\ ~kbMarker'
    BY <1>1, <1>6, Zenon
  <2>2. KbWaits' = 0 /\ KbHeld' = 0
    BY <1>1, <1>2, <1>4, <2>1 DEF KbWaits, KbHeld, Wrap
  <2>3. kbTyped' = <<>>
    BY <1>1, <1>6 DEF KbInv, KbTypes
  <2>4. Flat(kbTyped)' = <<>>
    BY <2>3, FlatEmpty
  <2>5. Len(<<>>) = 0
    BY EmptySeq
  <2> QED BY <2>1, <2>2, <2>4, <2>5 DEF RingHolds
<1>7. ASSUME ~kbTorn PROVE RingHolds(Flat(kbTyped))'
  <2>1. /\ Len(bytes) = KbHeld + w /\ (kbMarker => bytes[1] = "E0")
        /\ \A i \in 1 .. w : kbRing[Place(kbRp, i)] = bytes[KbHeld + i]
    BY <1>7 DEF KbInv, RingHolds, w
  <2>2. bytes \in Seq(Bytes)
    BY <1>2, FlatType
  <2>3. KbHeld = IF kbMarker THEN 1 ELSE 0
    BY DEF KbHeld
  <2>4. kbTyped # <<>>
    <3>1. kbTyped = <<>> => bytes = <<>>
      BY FlatEmpty
    <3> HIDE DEF bytes
    <3>2. bytes # <<>>
      BY <1>4, <2>1, <2>3, EmptySeq
    <3> QED BY <3>1, <3>2
  <2> DEFINE first == KeyBytes[kbTyped[1]]
             rest == Flat(Tail(kbTyped))
  <2>5. /\ first \in Seq(Bytes) /\ Len(first) \in {1, 2}
        /\ first[1] = "E0" <=> Len(first) = 2
        /\ rest \in Seq(Bytes) /\ bytes = first \o rest
    BY <1>2, <2>4, FlatFirst, FlatType, KeyBytesIs
  <2>6. kbRing[kbRp] = bytes[KbHeld + 1]
    BY <1>4, <2>1
  <2> HIDE DEF first, bytes
  <2>7. bytes[1] = first[1]
    BY <2>5, ConcatProperties, LenProperties
  <2>8. CASE ~kbMarker /\ kbRing[kbRp] = "E0"
    <3>1. kbMarker' /\ KbHeld' = 1 /\ KbHeld = 0
      BY <1>1, <2>8, Zenon DEF KbHeld
    <3>2. kbTyped' = kbTyped /\ Flat(kbTyped)' = bytes
      BY <1>1, <3>1 DEF bytes
    <3>3. Len(bytes) = 1 + (w - 1) /\ bytes[1] = "E0"
      BY <1>2, <1>4, <2>1, <2>6, <2>8, <3>1
    <3>4. ASSUME NEW i \in 1 .. w - 1 PROVE kbRing[Place(kbRp', i)] = bytes[1 + i]
      <4>1. i + 1 \in 1 .. w
        BY <1>2, <1>4
      <4> QED BY <1>4, <2>1, <3>1, <4>1
    <3> QED BY <1>1, <1>4, <3>1, <3>2, <3>3, <3>4 DEF RingHolds
  <2>9. CASE kbMarker \/ kbRing[kbRp] # "E0"
    <3>1. ~kbMarker' /\ KbHeld' = 0
      BY <1>1, <2>9, Zenon DEF KbHeld
    <3>2. kbTyped' = Tail(kbTyped) /\ Flat(kbTyped)' = rest
      BY <1>1, <2>4, <3>1
    <3> HIDE DEF rest
    <3>3. Len(first) = KbHeld + 1
      BY <2>1, <2>3, <2>5, <2>6, <2>7, <2>9
    <3>4. /\ Len(bytes) = Len(first) + Len(rest)
          /\ \A j \in 1 .. Len(first) + Len(rest) :
                 bytes[j] = IF j <= Len(first) THEN first[j] ELSE rest[j - Len(first)]
      BY <2>5, ConcatProperties
    <3>5. Len(rest) = w - 1 /\ KbHeld \in {0, 1}
      BY <1>4, <2>1, <2>3, <2>5, <3>3, <3>4, LenProperties
    <3>6. ASSUME NEW i \in 1 .. w - 1 PROVE kbRing[Place(kbRp', i)] = rest[i]
      <4>1. i + 1 \in 1 .. w
        BY <1>2, <1>4
      <4>2. kbRing[Place(kbRp', i)] = bytes[KbHeld + (i + 1)]
        BY <1>4, <2>1, <4>1
      <4>3. /\ KbHeld + (i + 1) \in 1 .. Len(first) + Len(rest)
            /\ ~(KbHeld + (i + 1) <= Len(first)) /\ (KbHeld + (i + 1)) - Len(first) = i
        BY <1>2, <1>4, <3>3, <3>5
      <4> QED BY <3>4, <4>2, <4>3
    <3> QED BY <1>1, <1>4, <3>1, <3>2, <3>5, <3>6 DEF RingHolds
  <2> QED BY <2>8, <2>9
<1>8. ~kbTorn' => RingHolds(Flat(kbTyped))'
  BY <1>6, <1>7
<1> QED BY <1>5, <1>8 DEF KbInv

LEMMA KbStep == KbInv /\ [KbNext]_kbVars => KbInv'
<1> SUFFICES ASSUME KbInv, [KbNext]_kbVars PROVE KbInv'
  OBVIOUS
<1>1. ASSUME NEW sc \in Scancodes, KbIrq(sc) PROVE KbInv'
  BY <1>1, KbIrqKeeps
<1>2. CASE KbTake
  BY <1>2, KbTakeKeeps
<1>3. CASE KbTimer \/ KbLook \/ KbHlt \/ UNCHANGED kbVars
  <2>1. /\ UNCHANGED <<kbRing, kbRp, kbWp, kbMarker, kbTyped, kbTorn>>
        /\ kbAt' \in {"poll", "hlt", "halted", "take"} /\ (kbAt' = "take" => kbRp # kbWp)
    BY <1>3 DEF KbTimer, KbLook, KbHlt, kbVars, KbInv, KbTypes
  <2>2. KbHeld' = KbHeld /\ KbWaits' = KbWaits /\ Flat(kbTyped)' = Flat(kbTyped)
    BY <2>1 DEF KbHeld, KbWaits
  <2>3. RingHolds(Flat(kbTyped))' <=> RingHolds(Flat(kbTyped))
    BY <2>1, <2>2 DEF RingHolds
  <2>4. KbTypes'
    BY <2>1 DEF KbInv, KbTypes
  <2> QED BY <2>1, <2>3, <2>4 DEF KbInv
<1> QED BY <1>1, <1>2, <1>3 DEF KbNext, KbReader

(* The inductive invariant of the keyboard: what lies in the ring between  *)
(* handler and reader is what was typed and not yet read.                  *)
THEOREM ServicesKeyboardInvariant == Spec => []KbInv
<1>1. Init => KbInv
  <2> SUFFICES ASSUME Init PROVE KbInv
    OBVIOUS
  <2>1. /\ kbRing = [i \in 0 .. KbBuf - 1 |-> NoByte] /\ kbRp = 0 /\ kbWp = 0
        /\ kbAt = "poll" /\ kbMarker = FALSE /\ kbTyped = <<>> /\ kbTorn = FALSE
    BY DEF Init, KbInit
  <2>2. KbBuf \in Nat \ {0}
    BY ModIsWrap
  <2>3. <<>> \in Seq(Keys)
    BY EmptySeq
  <2>4. KbTypes
    BY <2>1, <2>2, <2>3 DEF KbTypes
  <2>5. KbHeld = 0 /\ KbWaits = 0 /\ Flat(kbTyped) = <<>>
    BY <2>1, <2>2, FlatEmpty DEF KbHeld, KbWaits, Wrap
  <2>6. Len(<<>>) = 0
    BY EmptySeq
  <2>7. RingHolds(Flat(kbTyped))
    BY <2>1, <2>5, <2>6 DEF RingHolds
  <2> QED BY <2>4, <2>7 DEF KbInv
<1>2. [Next]_vars => [KbNext]_kbVars
  BY DEF Next, vars
<1> QED BY <1>1, <1>2, KbStep, PTL DEF Spec

LEMMA KbInvInOrder == KbInv => KeysInOrder
<1> SUFFICES ASSUME KbInv, ~kbTorn
             PROVE  (IF kbMarker THEN <<"E0">> ELSE <<>>) \o KbWaiting = Flat(kbTyped)
  BY DEF KeysInOrder, Flat
<1> DEFINE bytes == Flat(kbTyped)
           marker == IF kbMarker THEN <<"E0">> ELSE <<>>
           S == Bytes \cup {NoByte}
<1>1. /\ Len(bytes) = KbHeld + KbWaits /\ (kbMarker => bytes[1] = "E0")
      /\ \A i \in 1 .. KbWaits : kbRing[Place(kbRp, i)] = bytes[KbHeld + i]
  BY DEF KbInv, RingHolds
<1>2. bytes \in Seq(Bytes)
  BY FlatType DEF KbInv, KbTypes
<1>3. /\ KbWaits \in Nat /\ KbWaiting = [i \in 1 .. KbWaits |-> kbRing[Place(kbRp, i)]]
      /\ Len(KbWaiting) = KbWaits
  BY WaitingLength DEF KbInv
<1> HIDE DEF bytes
<1>4. /\ marker \in Seq(Bytes) /\ Len(marker) = KbHeld /\ KbHeld \in {0, 1}
      /\ KbHeld = 1 => marker[1] = bytes[1]
  <2>1. <<"E0">> \in Seq(Bytes) /\ Len(<<"E0">>) = 1 /\ <<"E0">>[1] = "E0"
    BY DEF Bytes
  <2>2. <<>> \in Seq(Bytes) /\ Len(<<>>) = 0
    BY EmptySeq
  <2>3. CASE kbMarker
    BY <1>1, <2>1, <2>3 DEF KbHeld
  <2>4. CASE ~kbMarker
    <3>1. marker = <<>> /\ KbHeld = 0
      BY <2>4 DEF KbHeld
    <3> QED BY <2>2, <3>1
  <2> QED BY <2>3, <2>4
<1> HIDE DEF marker
<1>5. \A i \in 1 .. KbWaits : KbHeld + i \in 1 .. Len(bytes) /\ KbWaiting[i] = bytes[KbHeld + i]
  BY <1>1, <1>3, <1>4
<1>6. KbWaiting \in Seq(Bytes)
  <2>1. \A i \in 1 .. KbWaits : KbWaiting[i] \in Bytes
    BY <1>2, <1>5, ElementOfSeq
  <2>2. KbWaiting \in [1 .. KbWaits -> Bytes]
    BY <1>3, <2>1
  <2> QED BY <1>3, <2>2, SeqDef
<1> DEFINE all == marker \o KbWaiting
<1>7. /\ all \in Seq(Bytes) /\ Len(all) = Len(marker) + Len(KbWaiting)
      /\ \A i \in 1 .. Len(marker) + Len(KbWaiting) :
             all[i] = IF i <= Len(marker) THEN marker[i] ELSE KbWaiting[i - Len(marker)]
  BY <1>4, <1>6, ConcatProperties
<1> HIDE DEF all
<1>8. Len(all) = Len(bytes)
  BY <1>1, <1>3, <1>4, <1>7
<1>9. ASSUME NEW i \in 1 .. Len(all) PROVE all[i] = bytes[i]
  <2>1. all[i] = IF i <= KbHeld THEN marker[i] ELSE KbWaiting[i - KbHeld]
    BY <1>4, <1>7
  <2>2. i <= KbHeld => KbHeld = 1 /\ i = 1
    BY <1>4
  <2>3. ~(i <= KbHeld) => i - KbHeld \in 1 .. KbWaits /\ KbHeld + (i - KbHeld) = i
    BY <1>3, <1>4, <1>7
  <2> QED BY <1>4, <1>5, <2>1, <2>2, <2>3
<1>10. all = bytes
  BY <1>2, <1>7, <1>8, <1>9, SeqEqual
<1> QED BY <1>10 DEF all, marker, bytes

(* Keys are read whole and in order.                                       *)
THEOREM ServicesKeysInOrder == Spec => []KeysInOrder
BY KbInvInOrder, ServicesKeyboardInvariant, PTL
=============================================================================
