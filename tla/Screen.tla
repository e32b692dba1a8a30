------------------------------- MODULE Screen -------------------------------
(***************************************************************************)
(* The text screen (main.c): video memory, the cursor and scrolling.       *)
(*                                                                         *)
(* paper is not in the code: it is a typewriter's view of the same         *)
(* characters, on paper without end. A comment says that a backspace moves *)
(* the cursor back until it is against the edge (main.c:71); at the edge   *)
(* the code draws the character 0x08 and moves on. The two disagree, and   *)
(* nothing is claimed of the screen from there on: the paper is gone.      *)
(***************************************************************************)
EXTENDS Integers, Sequences, Ascii

CONSTANTS SCREEN_WIDTH, SCREEN_HEIGHT,
          TabStop  \* 8 in the code

ASSUME ScreenAssumption ==
  /\ SCREEN_WIDTH \in Nat \ {0} /\ SCREEN_HEIGHT \in Nat \ {0}
  /\ TabStop \in Nat \ {0}

VARIABLES screen,      \* the characters in video memory, row after row
          xpos, ypos,
          paper        \* [rows, col], col being the column in the last row

screenVars == <<screen, xpos, ypos, paper>>

Cells == 0 .. (SCREEN_WIDTH * SCREEN_HEIGHT - 1)
Rows == 0 .. (SCREEN_HEIGHT - 1)
Columns == 0 .. (SCREEN_WIDTH - 1)

BlankRow == [x \in Columns |-> SPACE]
NoPaper == [rows |-> <<>>, col |-> 0]

(* kmain clears the screen.                                                *)
ScreenInit ==
  /\ screen = [k \in Cells |-> SPACE]
  /\ xpos = 0 /\ ypos = 0
  /\ paper = [rows |-> <<BlankRow>>, col |-> 0]

(* The faulty variant does not clear the last line.                        *)
ScrolledKeeping(s) ==
  [s EXCEPT !.c = [k \in Cells |-> IF k + SCREEN_WIDTH \in Cells THEN s.c[k + SCREEN_WIDTH]
                                   ELSE s.c[k]],
            !.y = @ - 1]
scroll(s) ==
  [s EXCEPT !.c = [k \in Cells |-> IF k + SCREEN_WIDTH \in Cells THEN s.c[k + SCREEN_WIDTH]
                                   ELSE SPACE],
            !.y = @ - 1]

(* One character. At the left edge a backspace is drawn like any other.    *)
Shown(s, ch) ==
  LET here  == s.y * SCREEN_WIDTH + s.x
      moved == IF ch = NEWLINE THEN [s EXCEPT !.x = 0, !.y = @ + 1]
               ELSE IF ch = TAB THEN [s EXCEPT !.x = @ + TabStop - (@ % TabStop)]
               ELSE IF ch = BACKSPACE /\ s.x > 0
               THEN [s EXCEPT !.x = @ - 1, !.c[here - 1] = "NUL"]
               ELSE [s EXCEPT !.x = @ + 1, !.c[here] = ch]
      wrapped == IF moved.x >= SCREEN_WIDTH THEN [moved EXCEPT !.x = 0, !.y = @ + 1] ELSE moved
  IN IF wrapped.y >= SCREEN_HEIGHT THEN scroll(wrapped) ELSE wrapped

(* The same character on paper. It has no backspace at the left edge.      *)
Typewritten(p, ch) ==
  LET NewRow(q) == [rows |-> Append(q.rows, BlankRow), col |-> 0]
      At(col, c, next) ==
        LET q == [p EXCEPT !.rows[Len(p.rows)][col] = c, !.col = next] IN
        IF next >= SCREEN_WIDTH THEN NewRow(q) ELSE q
      tab == (p.col \div TabStop + 1) * TabStop
  IN IF p = NoPaper \/ (ch = BACKSPACE /\ p.col = 0) THEN NoPaper
     ELSE IF ch = NEWLINE THEN NewRow(p)
     ELSE IF ch = TAB THEN IF tab >= SCREEN_WIDTH THEN NewRow(p) ELSE [p EXCEPT !.col = tab]
     ELSE IF ch = BACKSPACE THEN At(p.col - 1, "NUL", p.col - 1)
     ELSE At(p.col, ch, p.col + 1)

(* Cursor and video memory after the first k characters of a text.         *)
ShownUpTo(text) ==
  LET after[k \in 0 .. Len(text)] ==
        IF k = 0 THEN [c |-> screen, x |-> xpos, y |-> ypos]
        ELSE Shown(after[k - 1], text[k])
  IN after

TypewrittenUpTo(text) ==
  LET after[k \in 0 .. Len(text)] ==
        IF k = 0 THEN paper ELSE Typewritten(after[k - 1], text[k])
  IN after

write_to_screen(text) ==
  LET s == ShownUpTo(text)[Len(text)] IN
  /\ screen' = s.c /\ xpos' = s.x /\ ypos' = s.y
  /\ paper' = TypewrittenUpTo(text)[Len(text)]

(* The cursor stays inside video memory whatever is written. As long as no *)
(* backspace was written at the left edge, the screen shows the last rows  *)
(* of everything that was written, however lines wrap and scroll, and the  *)
(* cursor is where the next character goes.                                *)
ScreenShowsEnd ==
  LET n   == Len(paper.rows)
      top == IF n > SCREEN_HEIGHT THEN n - SCREEN_HEIGHT ELSE 0
  IN /\ xpos \in Columns /\ ypos \in Rows
     /\ paper # NoPaper =>
          /\ \A y \in Rows, x \in Columns :
               screen[y * SCREEN_WIDTH + x] =
                 IF top + y < n THEN paper.rows[top + y + 1][x] ELSE SPACE
          /\ xpos = paper.col /\ ypos = n - 1 - top
=============================================================================
