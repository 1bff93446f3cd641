------------------------------- MODULE Screen -------------------------------
(***************************************************************************)
(* The two terminals behind terminal_putchar: text mode (kernel/drivers/   *)
(* vga.c) and framebuffer (kernel/gui/fbterm.c).  A cell is the character  *)
(* drawn in it; colours are left out.                                      *)
(***************************************************************************)
EXTENDS Integers, Sequences

CONSTANTS
    Width, Height,  \* characters of a line, lines
    Tab,            \* 8, the distance of tab stops
    MaxOut          \* bound: characters written

ASSUME ScreenAssumption ==
    {Width, Height, Tab} \subseteq Nat \ {0} /\ MaxOut \in Nat

\* A printable character, and the control characters by name.
Input == {"a", "LF", "CR", "TAB", "BS", "clear"}
Blank == " "

VARIABLES
    scrFb,          \* fbterm_active()
    scrCells,       \* what is on the screen
    scrRow, scrCol, \* row, col; fbt_row, fbt_col
    scrOut,         \* characters written so far, for the bound
    scrPage         \* history: the lines since the last clear, on endless paper

scrVars == <<scrFb, scrCells, scrRow, scrCol, scrOut, scrPage>>

BlankLine == [x \in 1 .. Width |-> Blank]
BlankScreen == [y \in 1 .. Height |-> BlankLine]

\* terminal_init, fbterm_init.
ScrInit ==
    /\ scrFb \in BOOLEAN
    /\ scrCells = BlankScreen /\ scrRow = 0 /\ scrCol = 0
    /\ scrOut = 0 /\ scrPage = <<BlankLine>>

\* A terminal's state: t.cells, t.row, t.col, and the paper t.page.
Terminal == [cells |-> scrCells, row |-> scrRow, col |-> scrCol, page |-> scrPage]

\* FAULT (ShowsTail): the last line is not blanked.
ScrolledOnly(cells) == [y \in 1 .. Height |-> cells[IF y < Height THEN y + 1 ELSE y]]

\* vga_scroll, fbt_scroll.
Scrolled(cells) == [y \in 1 .. Height |-> IF y < Height THEN cells[y + 1] ELSE BlankLine]

NewLine(t) ==
    [cells |-> IF t.row + 1 = Height THEN Scrolled(t.cells) ELSE t.cells,
     row |-> IF t.row + 1 = Height THEN Height - 1 ELSE t.row + 1,
     col |-> 0,
     page |-> Append(t.page, BlankLine)]

\* The character in the cell at the cursor, on the screen and on the paper.
Drawn(t, c, col) ==
    [t EXCEPT !.cells[t.row + 1][col + 1] = c, !.page[Len(t.page)][col + 1] = c, !.col = col]

\* A printable character; behind the last column the line ends.
Put(t, c) ==
    LET d == Drawn(t, c, t.col)
    IN  IF t.col + 1 = Width THEN NewLine(d) ELSE [d EXCEPT !.col = t.col + 1]

\* Text mode moves to the next stop, the framebuffer terminal writes blanks,
\* on to the next line if they do not fit.
VgaTab(t) ==
    LET col == ((t.col + Tab) \div Tab) * Tab
    IN  IF col >= Width THEN NewLine(t) ELSE [t EXCEPT !.col = col]
FbTab(t) ==
    LET blanks == Tab - (t.col % Tab)
        put[n \in 0 .. blanks] == IF n = 0 THEN t ELSE Put(put[n - 1], Blank)
    IN  put[blanks]

Cleared == [cells |-> BlankScreen, row |-> 0, col |-> 0, page |-> <<BlankLine>>]

\* terminal_putchar and fbterm_putchar; terminal_clear and fbterm_clear.
After(t, c) ==
    CASE c = "LF" -> NewLine(t)
      [] c = "CR" -> [t EXCEPT !.col = 0]
      [] c = "TAB" -> IF scrFb THEN FbTab(t) ELSE VgaTab(t)
      [] c = "BS" -> IF t.col > 0 THEN Drawn(t, Blank, t.col - 1) ELSE t
      [] c = "clear" -> Cleared
      [] OTHER -> Put(t, c)

PutChar(c) ==
    /\ scrOut < MaxOut
    /\ scrOut' = scrOut + 1
    /\ LET t == After(Terminal, c)
       IN  scrCells' = t.cells /\ scrRow' = t.row /\ scrCol' = t.col /\ scrPage' = t.page
    /\ UNCHANGED scrFb

ScrNext == \E c \in Input : PutChar(c)

---------------------------------------------------------------------------
(* Properties *)

ScrTypeOK ==
    /\ scrCells \in [1 .. Height -> [1 .. Width -> {"a", Blank}]]
    /\ scrRow \in 0 .. Height - 1 /\ scrCol \in 0 .. Width - 1

\* The screen shows the end of what was written: its lines up to the cursor are
\* the last ones of the paper, those below are blank, and the cursor is in the
\* last line, through wrapping, tabs over the edge, and scrolling.
ShowsTail ==
    LET lines == scrRow + 1
    IN  /\ lines = IF Len(scrPage) < Height THEN Len(scrPage) ELSE Height
        /\ scrCells = SubSeq(scrPage, Len(scrPage) - lines + 1, Len(scrPage))
                      \o [y \in 1 .. Height - lines |-> BlankLine]
=============================================================================
