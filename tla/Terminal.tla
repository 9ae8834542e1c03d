------------------------------ MODULE Terminal ------------------------------
(***************************************************************************)
(* The text screen (tty.c): characters go to the position behind the last  *)
(* one, a full screen scrolls, and the keyboard's reader takes back the    *)
(* character it echoed last (ps2.c).  Every output of the kernel and of    *)
(* programs ends here.                                                     *)
(***************************************************************************)
EXTENDS Integers, SequencesExt

CONSTANTS
  TERMINAL_WIDTH, TERMINAL_HEIGHT,   \* 80 and 25
  SIZE_T,                            \* 2^32: a size_t wraps there
  Strings,                           \* what is written in one call
  MaxText                            \* bound: characters written

ASSUME TerminalAssumption ==
  /\ {TERMINAL_WIDTH, TERMINAL_HEIGHT, SIZE_T} \subseteq Nat \ {0, 1}
  /\ TERMINAL_WIDTH * TERMINAL_HEIGHT <= SIZE_T
  /\ \A s \in Strings : s \in Seq(STRING)
  /\ MaxText \in Nat

VARIABLES
  tty,        \* terminal_row, terminal_col and terminal_buff
  text,       \* what has been written and not taken back
  crossed     \* a character was taken back at the start of a row

ttyVars == <<tty, text, crossed>>

NEWLINE == "\n"
Blank   == " "

Cells == 0 .. TERMINAL_WIDTH * TERMINAL_HEIGHT - 1

Place(row, col) == (row * TERMINAL_WIDTH + col) % SIZE_T

\* A store behind the screen's memory hits nothing that is modelled.
Draw(buff, row, col, c) ==
  [i \in Cells |-> IF i = Place(row, col) THEN c ELSE buff[i]]

\* Wrong on purpose: the last row keeps its text.
scroll_kept(t) ==
  [row  |-> TERMINAL_HEIGHT - 1, col |-> 0,
   buff |-> [i \in Cells |-> IF i + TERMINAL_WIDTH \in Cells
                              THEN t.buff[i + TERMINAL_WIDTH] ELSE t.buff[i]]]

terminal_scroll(t) ==
  [row  |-> TERMINAL_HEIGHT - 1, col |-> 0,
   buff |-> [i \in Cells |-> IF i + TERMINAL_WIDTH \in Cells
                              THEN t.buff[i + TERMINAL_WIDTH] ELSE Blank]]

NewRow(t) ==
  LET u == [t EXCEPT !.col = 0, !.row = (t.row + 1) % SIZE_T]
  IN  IF u.row = TERMINAL_HEIGHT THEN terminal_scroll(u) ELSE u

putchar(t, c) ==
  IF c = NEWLINE THEN NewRow(t)
  ELSE LET u == [t EXCEPT !.buff = Draw(@, t.row, t.col, c), !.col = @ + 1]
       IN  IF u.col = TERMINAL_WIDTH THEN NewRow(u) ELSE u

\* One character after the other.
Written(t, str) ==
  LET after[i \in 0 .. Len(str)] == IF i = 0 THEN t ELSE putchar(after[i - 1], str[i])
  IN  after[Len(str)]

terminal_write(str) ==
  /\ Len(text) + Len(str) <= MaxText
  /\ tty' = Written(tty, str)
  /\ text' = text \o str
  /\ UNCHANGED crossed

\* PS2_read takes back what it echoed, and that is never a new line.  At the
\* start of a row the code blanks that position instead of the one before it,
\* and goes to a column behind the last one.
terminal_delchar ==
  /\ text # <<>> /\ Last(text) # NEWLINE
  /\ LET row == IF tty.col # 0 THEN tty.row ELSE (tty.row - 1) % SIZE_T
         col == IF tty.col # 0 THEN tty.col - 1 ELSE TERMINAL_WIDTH
     IN  tty' = [row |-> row, col |-> col, buff |-> Draw(tty.buff, row, col, Blank)]
  /\ text' = Front(text)
  /\ crossed' = (crossed \/ tty.col = 0)

\* terminal_init
TerminalInit ==
  /\ tty = [row |-> 0, col |-> 0, buff |-> [i \in Cells |-> Blank]]
  /\ text = <<>> /\ crossed = FALSE

TerminalNext ==
  \/ \E s \in Strings : terminal_write(s)
  \/ terminal_delchar

TerminalSpec == TerminalInit /\ [][TerminalNext]_ttyVars

-----------------------------------------------------------------------------
(* Properties                                                              *)

\* The rows a text is laid out in, the last one being written.
Lay(rows, c) ==
  LET full == Append(Last(rows), c) IN
  IF c = NEWLINE THEN Append(rows, <<>>)
  ELSE IF Len(full) = TERMINAL_WIDTH THEN Append(Append(Front(rows), full), <<>>)
  ELSE Append(Front(rows), full)

Rows(str) ==
  LET upto[i \in 0 .. Len(str)] == IF i = 0 THEN << <<>> >> ELSE Lay(upto[i - 1], str[i])
  IN  upto[Len(str)]

\* The screen shows the end of what was written, however often it scrolled,
\* without what was taken back, and the next character goes behind it; until
\* terminal_delchar is called at the start of a row.
ShowsEndOfText ==
  ~crossed =>
    LET rows == Rows(text)
        top  == IF Len(rows) > TERMINAL_HEIGHT THEN Len(rows) - TERMINAL_HEIGHT ELSE 0
        Shown(y, x) == IF top + y < Len(rows) /\ x < Len(rows[top + y + 1])
                       THEN rows[top + y + 1][x + 1] ELSE Blank
    IN  /\ tty.row = Len(rows) - top - 1 /\ tty.col = Len(Last(rows))
        /\ \A y \in 0 .. TERMINAL_HEIGHT - 1, x \in 0 .. TERMINAL_WIDTH - 1 :
             tty.buff[Place(y, x)] = Shown(y, x)
=============================================================================
