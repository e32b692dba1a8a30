--------------------------- MODULE TerminalSafety ---------------------------
(***************************************************************************)
(* Proofs about module Terminal. The screen shows the end of what was      *)
(* written to it, for any size of the screen, any tab stops and any texts  *)
(* (ScreenShowsEnd); no flag of a meta key gets stuck, for any order of    *)
(* keys (NoStuckMeta); and what a user types reaches the shell line by     *)
(* line, for any size of its buffer (LinesIntact).                         *)
(***************************************************************************)
EXTENDS Terminal, ListFacts, FiniteSetTheorems

-----------------------------------------------------------------------------
(***************************************************************************)
(* Rows and columns of video memory.                                       *)
(***************************************************************************)
LEMMA ScreenFacts ==
  /\ SCREEN_WIDTH \in Nat /\ SCREEN_WIDTH > 0
  /\ SCREEN_HEIGHT \in Nat /\ SCREEN_HEIGHT > 0
  /\ TabStop \in Nat /\ TabStop > 0
BY ScreenAssumption

LEMMA RowsApart ==
  ASSUME NEW w \in Nat, NEW a \in Nat, NEW b \in Nat, a < b
  PROVE  a * w + w <= b * w
<1>1. PICK d \in Nat : b = a + 1 + d
  <2>1. b - a - 1 \in Nat /\ b = a + 1 + (b - a - 1)
    OBVIOUS
  <2> QED
    BY <2>1
<1>2. b * w = a * w + w + d * w
  BY <1>1
<1>3. d * w \in Nat /\ a * w \in Nat
  OBVIOUS
<1> QED
  BY <1>2, <1>3

(* The cell of a row and column.                                           *)
CellAt(y, x) == y * SCREEN_WIDTH + x

LEMMA CellIn ==
  ASSUME NEW y \in Nat, NEW x \in Columns
  PROVE  /\ CellAt(y, x) \in Nat
         /\ CellAt(y, x) \in Cells <=> y \in Rows
<1> DEFINE W == SCREEN_WIDTH
           H == SCREEN_HEIGHT
<1>0. W \in Nat /\ W > 0 /\ H \in Nat /\ H > 0
  BY ScreenFacts
<1>1. x \in Nat /\ x < W
  BY <1>0 DEF Columns
<1>2. CellAt(y, x) = y * W + x /\ y * W \in Nat
  BY <1>0 DEF CellAt
<1>3. H * W \in Nat
  BY <1>0
<1>a. W * H = H * W
  BY <1>0
<1>b. Cells = 0 .. (H * W - 1) /\ Rows = 0 .. (H - 1)
  BY <1>a DEF Cells, Rows
<1> HIDE DEF W, H
<1>4. CASE y < H
  <2>1. y * W + W <= H * W
    BY <1>0, <1>4, RowsApart
  <2> QED
    BY <1>0, <1>1, <1>2, <1>3, <1>b, <1>4, <2>1
<1>5. CASE ~ (y < H)
  <2>1. H * W <= y * W
    <3>1. CASE y = H
      BY <1>2, <3>1
    <3>2. CASE H < y
      <4>1. H * W + W <= y * W
        BY <1>0, <3>2, RowsApart
      <4> QED
        BY <1>0, <1>2, <1>3, <4>1
    <3> QED
      BY <1>0, <1>5, <3>1, <3>2
  <2> QED
    BY <1>0, <1>1, <1>2, <1>3, <1>b, <1>5, <2>1
<1> QED
  BY <1>4, <1>5

(* Different rows or columns have different cells.                         *)
LEMMA CellsApart ==
  ASSUME NEW y \in Nat, NEW x \in Columns, NEW v \in Nat, NEW u \in Columns,
         CellAt(y, x) = CellAt(v, u)
  PROVE  y = v /\ x = u
<1> DEFINE W == SCREEN_WIDTH
<1>0. W \in Nat
  BY ScreenFacts
<1>1. x \in Nat /\ x < W /\ u \in Nat /\ u < W
  BY <1>0 DEF Columns
<1>2. y * W + x = v * W + u /\ y * W \in Nat /\ v * W \in Nat
  BY <1>0 DEF CellAt
<1> HIDE DEF W
<1>3. ~ (y < v)
  <2>1. ASSUME y < v PROVE FALSE
    <3>1. y * W + W <= v * W
      BY <1>0, <2>1, RowsApart
    <3> QED
      BY <1>0, <1>1, <1>2, <3>1
  <2> QED
    BY <2>1
<1>4. ~ (v < y)
  <2>1. ASSUME v < y PROVE FALSE
    <3>1. v * W + W <= y * W
      BY <1>0, <2>1, RowsApart
    <3> QED
      BY <1>0, <1>1, <1>2, <3>1
  <2> QED
    BY <2>1
<1>5. y = v
  BY <1>3, <1>4
<1> QED
  BY <1>1, <1>2, <1>5

(* The next row's cell in the same column.                                 *)
LEMMA CellBelow ==
  ASSUME NEW y \in Nat, NEW x \in Columns
  PROVE  CellAt(y, x) + SCREEN_WIDTH = CellAt(y + 1, x)
<1>1. SCREEN_WIDTH \in Nat /\ x \in Nat
  BY ScreenFacts DEF Columns
<1>2. (y + 1) * SCREEN_WIDTH = y * SCREEN_WIDTH + SCREEN_WIDTH
  BY <1>1
<1> QED
  BY <1>1, <1>2 DEF CellAt

-----------------------------------------------------------------------------
(***************************************************************************)
(* What one character does to screen and paper. Ch is any set of           *)
(* characters with the two that the screen itself makes.                   *)
(***************************************************************************)
Screens(Ch) == [c : [Cells -> Ch], x : Columns, y : Rows]
Papers(Ch) == [rows : Seq([Columns -> Ch]), col : Columns]

(* The rows of paper above the screen.                                     *)
Top(n) == IF n > SCREEN_HEIGHT THEN n - SCREEN_HEIGHT ELSE 0

ShowsEnd(s, p) ==
  LET n == Len(p.rows) IN
  /\ \A y \in Rows, x \in Columns :
       s.c[CellAt(y, x)] = IF Top(n) + y < n THEN p.rows[Top(n) + y + 1][x] ELSE SPACE
  /\ s.x = p.col /\ s.y = n - 1 - Top(n)

(* The steps that a character is made of: to the next line, and to another *)
(* column, with or without a change of a cell.                             *)
NextLine(s) == [s EXCEPT !.x = 0, !.y = @ + 1]
Newline(s) ==
  LET t == NextLine(s) IN IF t.y >= SCREEN_HEIGHT THEN scroll(t) ELSE t
PaperNewline(p) == [rows |-> Append(p.rows, BlankRow), col |-> 0]

Put(s, x, ch, next) == [s EXCEPT !.c[CellAt(s.y, x)] = ch, !.x = next]
PaperPut(p, x, ch, next) == [p EXCEPT !.rows[Len(p.rows)][x] = ch, !.col = next]

(* The cursor's row is the last row of the paper.                          *)
LEMMA CursorRow ==
  ASSUME NEW Ch, NEW s \in Screens(Ch), NEW p \in Papers(Ch), ShowsEnd(s, p)
  PROVE  /\ Len(p.rows) \in Nat /\ Len(p.rows) >= 1 /\ Top(Len(p.rows)) \in Nat
         /\ Top(Len(p.rows)) + s.y + 1 = Len(p.rows)
         /\ s.y \in Nat /\ s.y < SCREEN_HEIGHT
<1>1. Len(p.rows) \in Nat
  BY DEF Papers
<1>2. SCREEN_HEIGHT \in Nat /\ s.y \in 0 .. (SCREEN_HEIGHT - 1)
  BY ScreenFacts DEF Screens, Rows
<1>3. s.y = Len(p.rows) - 1 - Top(Len(p.rows))
  BY DEF ShowsEnd
<1> DEFINE n == Len(p.rows)
<1>4. n \in Nat /\ s.y = n - 1 - Top(n)
  BY <1>1, <1>3
<1> HIDE DEF n
<1>5. Top(n) \in Nat
  BY <1>2, <1>4 DEF Top
<1>6. n >= 1 /\ Top(n) + s.y + 1 = n /\ s.y \in Nat /\ s.y < SCREEN_HEIGHT
  BY <1>2, <1>4, <1>5
<1> QED
  BY <1>4, <1>5, <1>6 DEF n

LEMMA PutInside ==
  ASSUME NEW Ch, NEW s \in Screens(Ch), NEW x \in Columns, NEW ch \in Ch, NEW next \in Columns
  PROVE  Put(s, x, ch, next) \in Screens(Ch)
<1>1. s.y \in Rows /\ s.y \in Nat
  BY ScreenFacts DEF Screens, Rows
<1>2. CellAt(s.y, x) \in Cells
  BY <1>1, CellIn
<1> QED
  BY <1>2 DEF Put, Screens

LEMMA ShowsPut ==
  ASSUME NEW Ch, NEW s \in Screens(Ch), NEW p \in Papers(Ch), ShowsEnd(s, p),
         NEW x \in Columns, NEW ch \in Ch, NEW next \in Columns
  PROVE  /\ Put(s, x, ch, next) \in Screens(Ch)
         /\ PaperPut(p, x, ch, next) \in Papers(Ch)
         /\ ShowsEnd(Put(s, x, ch, next), PaperPut(p, x, ch, next))
<1> DEFINE n == Len(p.rows)
           t == Put(s, x, ch, next)
           q == PaperPut(p, x, ch, next)
<1>0. n \in Nat /\ n >= 1 /\ Top(n) \in Nat /\ Top(n) + s.y + 1 = n /\ s.y \in Nat /\ s.y \in Rows
  BY CursorRow DEF Screens
<1>1. /\ t \in Screens(Ch) /\ t.x = next /\ t.y = s.y
      /\ \A k \in Cells : t.c[k] = IF k = CellAt(s.y, x) THEN ch ELSE s.c[k]
  <2>1. CellAt(s.y, x) \in Cells
    BY <1>0, CellIn
  <2> QED
    BY <2>1 DEF Put, Screens
<1>a. p.rows \in Seq([Columns -> Ch]) /\ n \in 1 .. n
  BY <1>0 DEF Papers
<1>b. p.rows \in [1 .. n -> [Columns -> Ch]]
  BY <1>a
<1>2. /\ q.rows = [p.rows EXCEPT ![n] = [@ EXCEPT ![x] = ch]] /\ q.col = next
      /\ q = [rows |-> q.rows, col |-> next]
  <2>1. p = [rows |-> p.rows, col |-> p.col]
    BY DEF Papers
  <2>2. q = [p EXCEPT !.rows = [p.rows EXCEPT ![n] = [p.rows[n] EXCEPT ![x] = ch]], !.col = next]
    BY DEF PaperPut
  <2> HIDE DEF q
  <2> QED
    BY <2>1, <2>2
<1>3. /\ q.rows \in [1 .. n -> [Columns -> Ch]]
      /\ \A k \in 1 .. n, u \in Columns :
           q.rows[k][u] = IF k = n /\ u = x THEN ch ELSE p.rows[k][u]
  BY <1>a, <1>b, <1>2
<1>4. q.rows \in Seq([Columns -> Ch]) /\ Len(q.rows) = n
  <2> HIDE DEF q, n
  <2>1. DOMAIN q.rows = 1 .. n
    BY <1>3
  <2> QED
    BY <1>0, <1>3, <2>1, SeqDef, LenProperties
<1>5. q \in Papers(Ch)
  BY <1>2, <1>4 DEF Papers
<1> HIDE DEF t, q, n
<1>6. ASSUME NEW v \in Rows, NEW u \in Columns
      PROVE  t.c[CellAt(v, u)] =
               IF Top(n) + v < n THEN q.rows[Top(n) + v + 1][u] ELSE SPACE
  <2>1. v \in Nat /\ CellAt(v, u) \in Cells
    BY CellIn, ScreenFacts DEF Rows
  <2>2. s.c[CellAt(v, u)] = IF Top(n) + v < n THEN p.rows[Top(n) + v + 1][u] ELSE SPACE
    BY DEF ShowsEnd, n
  <2>3. CASE v = s.y /\ u = x
    BY <1>0, <1>1, <1>3, <2>1, <2>3
  <2>4. CASE ~ (v = s.y /\ u = x)
    <3>1. CellAt(v, u) # CellAt(s.y, x)
      BY <1>0, <2>1, <2>4, CellsApart
    <3>2. t.c[CellAt(v, u)] = s.c[CellAt(v, u)]
      BY <1>1, <2>1, <3>1
    <3>3. Top(n) + v < n => /\ Top(n) + v + 1 \in 1 .. n
                            /\ ~ (Top(n) + v + 1 = n /\ u = x)
      BY <1>0, <2>1, <2>4
    <3> QED
      BY <1>3, <2>2, <3>2, <3>3
  <2> QED
    BY <2>3, <2>4
<1>7. t.x = q.col /\ t.y = n - 1 - Top(n)
  BY <1>1, <1>2 DEF ShowsEnd, n
<1>8. ShowsEnd(t, q)
  BY <1>4, <1>6, <1>7 DEF ShowsEnd
<1> QED
  BY <1>1, <1>5, <1>8 DEF t, q

LEMMA ShowsMove ==
  ASSUME NEW Ch, NEW s \in Screens(Ch), NEW p \in Papers(Ch), ShowsEnd(s, p),
         NEW next \in Columns
  PROVE  /\ [s EXCEPT !.x = next] \in Screens(Ch)
         /\ [p EXCEPT !.col = next] \in Papers(Ch)
         /\ ShowsEnd([s EXCEPT !.x = next], [p EXCEPT !.col = next])
BY DEF Screens, Papers, ShowsEnd

(* What a new row does to the screen: the last one scrolls it.             *)
LEMMA NewlineInside ==
  ASSUME NEW Ch, SPACE \in Ch, NEW s \in Screens(Ch)
  PROVE  LET t == Newline(s) IN
         /\ t \in Screens(Ch) /\ t.x = 0
         /\ s.y + 1 < SCREEN_HEIGHT => t.y = s.y + 1 /\ t.c = s.c
         /\ ~ (s.y + 1 < SCREEN_HEIGHT) =>
              /\ t.y = s.y
              /\ t.c = [k \in Cells |-> IF k + SCREEN_WIDTH \in Cells THEN s.c[k + SCREEN_WIDTH]
                                        ELSE SPACE]
<1> DEFINE H == SCREEN_HEIGHT
           t == Newline(s)
<1>0. s.y \in Nat /\ s.y < H /\ H \in Nat /\ H > 0
  BY ScreenFacts DEF Screens, Rows
<1>a. Rows = 0 .. (H - 1) /\ 0 \in Columns
  BY ScreenFacts DEF Rows, Columns
<1>5. CASE s.y + 1 < H
  <2>1. t = [s EXCEPT !.x = 0, !.y = @ + 1]
    BY <1>0, <1>5 DEF Newline, NextLine, Screens
  <2>a. s = [c |-> s.c, x |-> s.x, y |-> s.y] /\ s.c \in [Cells -> Ch]
    BY DEF Screens
  <2>b. t = [c |-> s.c, x |-> 0, y |-> s.y + 1]
    <3> HIDE DEF t
    <3> QED
      BY <2>1, <2>a
  <2>c. 0 \in Columns /\ s.y + 1 \in Rows
    BY <1>0, <1>a, <1>5
  <2>2. t \in Screens(Ch) /\ t.x = 0 /\ t.y = s.y + 1 /\ t.c = s.c
    <3> HIDE DEF t
    <3> QED
      BY <2>a, <2>b, <2>c DEF Screens
  <2> QED
    BY <1>5, <2>2
<1>6. CASE ~ (s.y + 1 < H)
  <2>0. s.y + 1 = H
    BY <1>0, <1>6
  <2> DEFINE r == [s EXCEPT !.x = 0, !.y = @ + 1]
             C == [k \in Cells |-> IF k + SCREEN_WIDTH \in Cells THEN s.c[k + SCREEN_WIDTH]
                                   ELSE SPACE]
  <2>1. t = scroll(r)
    BY <1>0, <2>0 DEF Newline, NextLine, Screens
  <2>a. s = [c |-> s.c, x |-> s.x, y |-> s.y]
    BY DEF Screens
  <2>e. r = [s EXCEPT !.x = 0, !.y = s.y + 1]
    OBVIOUS
  <2>b. r = [c |-> s.c, x |-> 0, y |-> s.y + 1]
    <3> HIDE DEF r
    <3> QED
      BY <2>a, <2>e
  <2>f. scroll(r) = [r EXCEPT !.c = [k \in Cells |-> IF k + SCREEN_WIDTH \in Cells
                                                     THEN r.c[k + SCREEN_WIDTH] ELSE SPACE],
                              !.y = r.y - 1]
    <3> HIDE DEF r
    <3> QED
      BY DEF scroll
  <2>g. r.c = s.c
    <3> HIDE DEF r
    <3> QED
      BY <2>b
  <2>h. t = [r EXCEPT !.c = C, !.y = r.y - 1]
    <3> HIDE DEF r, t
    <3> QED
      BY <2>1, <2>f, <2>g
  <2>c. t = [c |-> C, x |-> 0, y |-> s.y + 1 - 1]
    <3> DEFINE b == r.y - 1
    <3> HIDE DEF r, t, C
    <3>1. t = [r EXCEPT !.c = C, !.y = b]
      BY <2>h
    <3>2. b = s.y + 1 - 1
      BY <1>0, <2>b
    <3> HIDE DEF b
    <3>3. t = [c |-> C, x |-> 0, y |-> b]
      BY <2>b, <3>1
    <3> QED
      BY <3>2, <3>3
  <2>d. s.y + 1 - 1 = s.y
    BY <1>0
  <2>2. /\ t.x = 0 /\ t.y = s.y /\ t = [c |-> t.c, x |-> 0, y |-> s.y]
        /\ t.c = [k \in Cells |-> IF k + SCREEN_WIDTH \in Cells THEN s.c[k + SCREEN_WIDTH]
                                  ELSE SPACE]
    <3> HIDE DEF t
    <3> QED
      BY <2>c, <2>d
  <2>3. t \in Screens(Ch)
    BY <1>0, <1>a, <2>2 DEF Screens
  <2> QED
    BY <1>6, <2>2, <2>3
<1> QED
  BY <1>5, <1>6

(* A new row scrolls the screen once the paper has as many rows as it.     *)
LEMMA ShowsNewline ==
  ASSUME NEW Ch, SPACE \in Ch, NEW s \in Screens(Ch), NEW p \in Papers(Ch), ShowsEnd(s, p)
  PROVE  /\ Newline(s) \in Screens(Ch)
         /\ PaperNewline(p) \in Papers(Ch)
         /\ ShowsEnd(Newline(s), PaperNewline(p))
<1> DEFINE n == Len(p.rows)
           H == SCREEN_HEIGHT
           t == Newline(s)
           q == PaperNewline(p)
<1>0. /\ n \in Nat /\ n >= 1 /\ Top(n) \in Nat /\ Top(n) + s.y + 1 = n
      /\ s.y \in Nat /\ s.y < H /\ H \in Nat /\ H > 0
  BY CursorRow, ScreenFacts
<1>a. Rows = 0 .. (H - 1) /\ 0 \in Columns
  BY ScreenFacts DEF Rows, Columns
<1>b. BlankRow \in [Columns -> Ch] /\ \A u \in Columns : BlankRow[u] = SPACE
  BY DEF BlankRow
<1>c. p.rows \in Seq([Columns -> Ch])
  BY DEF Papers
<1>1. /\ q.rows \in Seq([Columns -> Ch]) /\ Len(q.rows) = n + 1 /\ q.col = 0
      /\ q.rows[n + 1] = BlankRow
      /\ \A k \in 1 .. n : q.rows[k] = p.rows[k]
  <2> HIDE DEF n
  <2>1. q.rows = Append(p.rows, BlankRow) /\ q.col = 0
    BY DEF PaperNewline
  <2> QED
    BY <1>b, <1>c, <2>1 DEF n
<1>2. q \in Papers(Ch)
  BY <1>1, <1>a DEF PaperNewline, Papers
<1>3. Top(n) = IF n > H THEN n - H ELSE 0
  BY DEF Top
<1>4. Top(n + 1) = IF n + 1 > H THEN n + 1 - H ELSE 0
  <2> HIDE DEF n
  <2> QED
    BY <1>0 DEF Top
<1>in. /\ t \in Screens(Ch) /\ t.x = 0
       /\ s.y + 1 < H => t.y = s.y + 1 /\ t.c = s.c
       /\ ~ (s.y + 1 < H) =>
            /\ t.y = s.y
            /\ t.c = [k \in Cells |-> IF k + SCREEN_WIDTH \in Cells THEN s.c[k + SCREEN_WIDTH]
                                      ELSE SPACE]
  BY NewlineInside
<1>old. ASSUME NEW v \in Rows, NEW u \in Columns
        PROVE  s.c[CellAt(v, u)] = IF Top(n) + v < n THEN p.rows[Top(n) + v + 1][u] ELSE SPACE
  BY DEF ShowsEnd
<1>5. CASE s.y + 1 < H
  <2>2. t.x = 0 /\ t.y = s.y + 1 /\ t.c = s.c /\ t \in Screens(Ch)
    BY <1>5, <1>in
  <2>3. Top(n) = 0 /\ Top(n + 1) = 0 /\ t.y = n
    BY <1>0, <1>3, <1>4, <1>5, <2>2
  <2> HIDE DEF t, q, n, H
  <2>4. ASSUME NEW v \in Rows, NEW u \in Columns
        PROVE  t.c[CellAt(v, u)] = IF 0 + v < n + 1 THEN q.rows[0 + v + 1][u] ELSE SPACE
    <3>1. s.c[CellAt(v, u)] = IF 0 + v < n THEN p.rows[0 + v + 1][u] ELSE SPACE
      BY <1>old, <2>3
    <3>2. v \in Nat
      BY <1>0, <1>a
    <3>3. CASE v < n
      BY <1>0, <1>1, <2>2, <3>1, <3>2, <3>3
    <3>4. CASE v = n
      BY <1>0, <1>1, <1>b, <2>2, <3>1, <3>4
    <3>5. CASE v > n
      BY <1>0, <2>2, <3>1, <3>2, <3>5
    <3> QED
      BY <1>0, <3>2, <3>3, <3>4, <3>5
  <2>5. ShowsEnd(t, q)
    BY <1>0, <1>1, <2>2, <2>3, <2>4 DEF ShowsEnd
  <2> QED
    BY <1>2, <2>2, <2>5 DEF t, q
<1>6. CASE ~ (s.y + 1 < H)
  <2>0. s.y + 1 = H
    BY <1>0, <1>6
  <2>2. /\ t.x = 0 /\ t.y = s.y /\ t \in Screens(Ch)
        /\ t.c = [k \in Cells |-> IF k + SCREEN_WIDTH \in Cells THEN s.c[k + SCREEN_WIDTH]
                                  ELSE SPACE]
    BY <1>6, <1>in
  <2>4. Top(n + 1) = Top(n) + 1 /\ Top(n) = n - H
    BY <1>0, <1>3, <1>4, <2>0
  <2> HIDE DEF t, q, n, H
  <2>5. ASSUME NEW v \in Rows, NEW u \in Columns
        PROVE  t.c[CellAt(v, u)] =
                 IF Top(n + 1) + v < n + 1 THEN q.rows[Top(n + 1) + v + 1][u] ELSE SPACE
    <3>1. v \in Nat /\ v < H /\ CellAt(v, u) \in Cells
      BY <1>0, <1>a, CellIn
    <3>2. CellAt(v, u) + SCREEN_WIDTH = CellAt(v + 1, u)
      BY <3>1, CellBelow
    <3>3. CellAt(v + 1, u) \in Cells <=> v + 1 \in Rows
      BY <3>1, CellIn
    <3>4. t.c[CellAt(v, u)] = IF v + 1 \in Rows THEN s.c[CellAt(v + 1, u)] ELSE SPACE
      BY <2>2, <3>1, <3>2, <3>3
    <3>5. CASE v + 1 < H
      <4>1. v + 1 \in Rows /\ Top(n) + (v + 1) < n
        BY <1>0, <1>a, <2>4, <3>1, <3>5
      <4>2. t.c[CellAt(v, u)] = p.rows[Top(n) + (v + 1) + 1][u]
        BY <1>old, <3>4, <4>1
      <4>3. /\ Top(n) + (v + 1) + 1 = Top(n + 1) + v + 1
            /\ Top(n) + (v + 1) + 1 \in 1 .. n /\ Top(n + 1) + v < n + 1
        BY <1>0, <2>4, <3>1, <4>1
      <4> QED
        BY <1>1, <4>2, <4>3
    <3>6. CASE ~ (v + 1 < H)
      <4>1. v + 1 = H /\ v + 1 \notin Rows /\ Top(n + 1) + v + 1 = n + 1 /\ Top(n + 1) + v < n + 1
        BY <1>0, <1>a, <2>4, <3>1, <3>6
      <4> QED
        BY <1>1, <1>b, <3>4, <4>1
    <3> QED
      BY <3>5, <3>6
  <2>6. t.x = q.col /\ t.y = (n + 1) - 1 - Top(n + 1)
    BY <1>0, <1>1, <2>2, <2>4
  <2>7. ShowsEnd(t, q)
    BY <1>1, <2>5, <2>6 DEF ShowsEnd
  <2> QED
    BY <1>2, <2>2, <2>7 DEF t, q
<1> QED
  BY <1>5, <1>6

(* What write_to_screen does once the character is written: the line wraps *)
(* at the right edge and the screen scrolls at the bottom.                 *)
Wrapped(m) == IF m.x >= SCREEN_WIDTH THEN [m EXCEPT !.x = 0, !.y = @ + 1] ELSE m
Settled(m) == IF Wrapped(m).y >= SCREEN_HEIGHT THEN scroll(Wrapped(m)) ELSE Wrapped(m)

LEMMA SettledInside ==
  ASSUME NEW Ch, NEW s \in Screens(Ch)
  PROVE  Settled(s) = s
<1>1. s.x < SCREEN_WIDTH /\ s.y < SCREEN_HEIGHT /\ s.x \in Nat /\ s.y \in Nat
  BY ScreenFacts DEF Screens, Columns, Rows
<1>2. Wrapped(s) = s
  BY <1>1, ScreenFacts DEF Wrapped
<1> QED
  BY <1>1, <1>2, ScreenFacts DEF Settled

LEMMA SettledNewline ==
  ASSUME NEW Ch, NEW s \in Screens(Ch)
  PROVE  Settled(NextLine(s)) = Newline(s)
<1> DEFINE r == NextLine(s)
<1>1. r.x = 0
  BY DEF Screens, NextLine
<1>2. Newline(s) = IF r.y >= SCREEN_HEIGHT THEN scroll(r) ELSE r
  BY DEF Newline
<1> HIDE DEF r
<1>3. Wrapped(r) = r
  BY <1>1, ScreenFacts DEF Wrapped
<1>4. Settled(r) = Newline(s)
  BY <1>2, <1>3 DEF Settled
<1> QED
  BY <1>4 DEF r

LEMMA SettledWrap ==
  ASSUME NEW Ch, NEW s \in Screens(Ch), NEW next \in Nat, next >= SCREEN_WIDTH
  PROVE  Settled([s EXCEPT !.x = next]) = Newline(s)
<1> DEFINE m == [s EXCEPT !.x = next]
           r == [s EXCEPT !.x = 0, !.y = @ + 1]
<1>1. s = [c |-> s.c, x |-> s.x, y |-> s.y] /\ s.y \in Nat
  BY ScreenFacts DEF Screens, Rows
<1>2. m = [c |-> s.c, x |-> next, y |-> s.y]
  BY <1>1
<1>a. r = [s EXCEPT !.x = 0, !.y = s.y + 1]
  OBVIOUS
<1>3. r = [c |-> s.c, x |-> 0, y |-> s.y + 1]
  <2> HIDE DEF r
  <2> QED
    BY <1>1, <1>a
<1>4. Newline(s) = IF r.y >= SCREEN_HEIGHT THEN scroll(r) ELSE r
  BY DEF Newline, NextLine
<1> HIDE DEF m, r
<1>5. Wrapped(m) = r
  <2>1. m.x >= SCREEN_WIDTH /\ m.y = s.y
    BY <1>2
  <2>2. Wrapped(m) = [m EXCEPT !.x = 0, !.y = m.y + 1]
    BY <2>1 DEF Wrapped
  <2>3. Wrapped(m) = [m EXCEPT !.x = 0, !.y = s.y + 1]
    BY <2>1, <2>2
  <2> QED
    BY <1>2, <1>3, <2>3
<1>6. Settled(m) = Newline(s)
  BY <1>4, <1>5 DEF Settled
<1> QED
  BY <1>6 DEF m

(* The character itself.                                                   *)
ToTab(s) == [s EXCEPT !.x = @ + TabStop - (@ % TabStop)]
Erased(s) == [s EXCEPT !.x = @ - 1, !.c[(s.y * SCREEN_WIDTH + s.x) - 1] = "NUL"]
Written(s, ch) == [s EXCEPT !.x = @ + 1, !.c[s.y * SCREEN_WIDTH + s.x] = ch]
Moved(s, ch) ==
  IF ch = NEWLINE THEN NextLine(s)
  ELSE IF ch = TAB THEN ToTab(s)
  ELSE IF ch = BACKSPACE /\ s.x > 0 THEN Erased(s)
  ELSE Written(s, ch)

LEMMA ShownIs ==
  ASSUME NEW s, NEW ch
  PROVE  Shown(s, ch) = Settled(Moved(s, ch))
<1> DEFINE here == s.y * SCREEN_WIDTH + s.x
           moved == IF ch = NEWLINE THEN [s EXCEPT !.x = 0, !.y = @ + 1]
                    ELSE IF ch = TAB THEN [s EXCEPT !.x = @ + TabStop - (@ % TabStop)]
                    ELSE IF ch = BACKSPACE /\ s.x > 0
                    THEN [s EXCEPT !.x = @ - 1, !.c[here - 1] = "NUL"]
                    ELSE [s EXCEPT !.x = @ + 1, !.c[here] = ch]
<1>1. Shown(s, ch) = Settled(moved)
  BY Zenon DEF Shown, Settled, Wrapped
<1>2. moved = Moved(s, ch)
  <2>1. NextLine(s) = [s EXCEPT !.x = 0, !.y = @ + 1]
    BY Zenon DEF NextLine
  <2>2. ToTab(s) = [s EXCEPT !.x = @ + TabStop - (@ % TabStop)]
    BY Zenon DEF ToTab
  <2>3. Erased(s) = [s EXCEPT !.x = @ - 1, !.c[here - 1] = "NUL"]
    BY Zenon DEF Erased
  <2>4. Written(s, ch) = [s EXCEPT !.x = @ + 1, !.c[here] = ch]
    BY Zenon DEF Written
  <2> QED
    BY <2>1, <2>2, <2>3, <2>4, Zenon DEF Moved
<1> HIDE DEF moved
<1> QED
  BY <1>1, <1>2

(* Screen and paper as records.                                            *)
LEMMA PutIs ==
  ASSUME NEW Ch, NEW s \in Screens(Ch), NEW x, NEW ch, NEW next
  PROVE  Put(s, x, ch, next) =
           [c |-> [s.c EXCEPT ![CellAt(s.y, x)] = ch], x |-> next, y |-> s.y]
<1>1. s = [c |-> s.c, x |-> s.x, y |-> s.y]
  BY DEF Screens
<1> DEFINE a == CellAt(s.y, x)
           d == [s.c EXCEPT ![a] = ch]
           t == Put(s, x, ch, next)
<1>2. t = [s EXCEPT !.c = d, !.x = next]
  BY DEF Put
<1> HIDE DEF a, d, t
<1>3. t = [c |-> d, x |-> next, y |-> s.y]
  BY <1>1, <1>2
<1> QED
  BY <1>3 DEF a, d, t

LEMMA PaperPutIs ==
  ASSUME NEW Ch, NEW p \in Papers(Ch), NEW x, NEW ch, NEW next
  PROVE  PaperPut(p, x, ch, next) =
           [rows |-> [p.rows EXCEPT ![Len(p.rows)] = [@ EXCEPT ![x] = ch]], col |-> next]
<1>1. p = [rows |-> p.rows, col |-> p.col]
  BY DEF Papers
<1> DEFINE d == [p.rows EXCEPT ![Len(p.rows)] = [@ EXCEPT ![x] = ch]]
           t == PaperPut(p, x, ch, next)
<1>2. t = [p EXCEPT !.rows = d, !.col = next]
  BY DEF PaperPut
<1> HIDE DEF d, t
<1>3. t = [rows |-> d, col |-> next]
  BY <1>1, <1>2
<1> QED
  BY <1>3 DEF d, t

(* A character written where the cursor is or was, and the cursor's next   *)
(* column, which may be past the edge.                                     *)
LEMMA ShowsWritten ==
  ASSUME NEW Ch, SPACE \in Ch, NEW s \in Screens(Ch), NEW p \in Papers(Ch), ShowsEnd(s, p),
         NEW x \in Columns, NEW ch \in Ch, NEW next \in Nat
  PROVE  LET t == Settled(Put(s, x, ch, next))
             q == IF next >= SCREEN_WIDTH THEN PaperNewline(PaperPut(p, x, ch, next))
                  ELSE PaperPut(p, x, ch, next)
         IN t \in Screens(Ch) /\ q \in Papers(Ch) /\ ShowsEnd(t, q)
<1> DEFINE t == Settled(Put(s, x, ch, next))
           q == IF next >= SCREEN_WIDTH THEN PaperNewline(PaperPut(p, x, ch, next))
                ELSE PaperPut(p, x, ch, next)
<1>1. CASE next < SCREEN_WIDTH
  <2>1. next \in Columns /\ ~ (next >= SCREEN_WIDTH)
    BY <1>1, ScreenFacts DEF Columns
  <2>2. /\ Put(s, x, ch, next) \in Screens(Ch) /\ PaperPut(p, x, ch, next) \in Papers(Ch)
        /\ ShowsEnd(Put(s, x, ch, next), PaperPut(p, x, ch, next))
    BY <2>1, ShowsPut
  <2>3. t = Put(s, x, ch, next)
    BY <2>2, SettledInside
  <2>4. q = PaperPut(p, x, ch, next)
    BY <2>1
  <2> HIDE DEF t, q
  <2>5. t \in Screens(Ch) /\ q \in Papers(Ch) /\ ShowsEnd(t, q)
    BY <2>2, <2>3, <2>4
  <2> QED
    BY <2>5 DEF t, q
<1>2. CASE next >= SCREEN_WIDTH
  <2> DEFINE u == Put(s, x, ch, s.x)
             v == PaperPut(p, x, ch, p.col)
  <2>0. s.x \in Columns /\ p.col \in Columns /\ s.x = p.col
    BY DEF Screens, Papers, ShowsEnd
  <2>1. u \in Screens(Ch) /\ v \in Papers(Ch) /\ ShowsEnd(u, v)
    BY <2>0, ShowsPut
  <2>2. Put(s, x, ch, next) = [u EXCEPT !.x = next]
    <3> DEFINE d == [s.c EXCEPT ![CellAt(s.y, x)] = ch]
               w == Put(s, x, ch, next)
    <3>1. w = [c |-> d, x |-> next, y |-> s.y]
      BY PutIs
    <3>2. u = [c |-> d, x |-> s.x, y |-> s.y]
      BY PutIs
    <3> HIDE DEF d, u, w
    <3>3. w = [u EXCEPT !.x = next]
      BY <3>1, <3>2
    <3> QED
      BY <3>3 DEF w
  <2>3. PaperNewline(PaperPut(p, x, ch, next)) = PaperNewline(v)
    <3> DEFINE d == [p.rows EXCEPT ![Len(p.rows)] = [@ EXCEPT ![x] = ch]]
               w == PaperPut(p, x, ch, next)
    <3>1. w = [rows |-> d, col |-> next]
      BY PaperPutIs
    <3>a. ASSUME NEW k PROVE PaperPut(p, x, ch, k) = [rows |-> d, col |-> k]
      BY PaperPutIs
    <3>2. v = [rows |-> d, col |-> p.col]
      <4> HIDE DEF d
      <4> QED
        BY <3>a
    <3> HIDE DEF d, v, w
    <3>3. w.rows = v.rows
      BY <3>1, <3>2
    <3>4. PaperNewline(w) = PaperNewline(v)
      BY <3>3 DEF PaperNewline
    <3> QED
      BY <3>4 DEF w
  <2> HIDE DEF u, v
  <2>4. t = Newline(u)
    BY <1>2, <2>1, <2>2, SettledWrap
  <2>5. q = PaperNewline(v)
    BY <1>2, <2>3
  <2>6. Newline(u) \in Screens(Ch) /\ PaperNewline(v) \in Papers(Ch)
        /\ ShowsEnd(Newline(u), PaperNewline(v))
    BY <2>1, ShowsNewline
  <2> HIDE DEF t, q
  <2>7. t \in Screens(Ch) /\ q \in Papers(Ch) /\ ShowsEnd(t, q)
    BY <2>4, <2>5, <2>6
  <2> QED
    BY <2>7 DEF t, q
<1> QED
  BY <1>1, <1>2, ScreenFacts

(* The next tab stop, computed in two ways.                                *)
LEMMA TabStops ==
  ASSUME NEW x \in Nat
  PROVE  /\ x + TabStop - (x % TabStop) \in Nat
         /\ (x \div TabStop + 1) * TabStop = x + TabStop - (x % TabStop)
<1> DEFINE T == TabStop
<1>0. T \in Nat /\ T > 0
  BY ScreenFacts
<1> HIDE DEF T
<1>1. PICK d, m \in Nat : d = x \div T /\ m = x % T /\ m < T
  <2>1. x \div T \in Nat /\ x % T \in Nat /\ x % T < T
    BY <1>0
  <2> QED
    BY <2>1
<1>2. x = T * d + m
  BY <1>0, <1>1
<1>3. (d + 1) * T = T * d + T
  BY <1>0, <1>1
<1>4. T * d \in Nat
  BY <1>0, <1>1
<1>5. (x \div T + 1) * T = x + T - (x % T) /\ x + T - (x % T) \in Nat
  BY <1>0, <1>1, <1>2, <1>3, <1>4
<1> QED
  BY <1>5 DEF T

LEMMA ShowsTab ==
  ASSUME NEW Ch, SPACE \in Ch, NEW s \in Screens(Ch), NEW p \in Papers(Ch), ShowsEnd(s, p),
         NEW next \in Nat
  PROVE  LET t == Settled([s EXCEPT !.x = next])
             q == IF next >= SCREEN_WIDTH THEN PaperNewline(p) ELSE [p EXCEPT !.col = next]
         IN t \in Screens(Ch) /\ q \in Papers(Ch) /\ ShowsEnd(t, q)
<1> DEFINE m == [s EXCEPT !.x = next]
           t == Settled(m)
           q == IF next >= SCREEN_WIDTH THEN PaperNewline(p) ELSE [p EXCEPT !.col = next]
<1>1. CASE next < SCREEN_WIDTH
  <2>1. next \in Columns /\ ~ (next >= SCREEN_WIDTH)
    BY <1>1, ScreenFacts DEF Columns
  <2>2. m \in Screens(Ch) /\ [p EXCEPT !.col = next] \in Papers(Ch)
        /\ ShowsEnd(m, [p EXCEPT !.col = next])
    BY <2>1, ShowsMove
  <2> HIDE DEF m
  <2>3. t = m
    BY <2>2, SettledInside
  <2> QED
    BY <2>1, <2>2, <2>3 DEF m
<1>2. CASE next >= SCREEN_WIDTH
  <2>1. t = Newline(s)
    BY <1>2, SettledWrap
  <2>2. Newline(s) \in Screens(Ch) /\ PaperNewline(p) \in Papers(Ch)
        /\ ShowsEnd(Newline(s), PaperNewline(p))
    BY ShowsNewline
  <2> QED
    BY <1>2, <2>1, <2>2
<1> QED
  BY <1>1, <1>2, ScreenFacts

(* A backspace and a plain character put a character into a cell.          *)
LEMMA MovedErased ==
  ASSUME NEW Ch, NEW s \in Screens(Ch), NEW ch,
         ch # NEWLINE, ch # TAB, ch = BACKSPACE, s.x > 0
  PROVE  Moved(s, ch) = Put(s, s.x - 1, "NUL", s.x - 1)
<1> DEFINE a == (s.y * SCREEN_WIDTH + s.x) - 1
           m == Moved(s, ch)
           b == s.x - 1
<1>0. s.x \in Nat /\ s.y \in Nat /\ s = [c |-> s.c, x |-> s.x, y |-> s.y]
  BY ScreenFacts DEF Screens, Columns, Rows
<1>1. m = [s EXCEPT !.x = b, !.c[a] = "NUL"]
  <2>1. Moved(s, ch) = Erased(s)
    BY Zenon DEF Moved
  <2> QED
    BY <2>1 DEF Erased
<1>2. a = CellAt(s.y, b)
  <2>1. s.y * SCREEN_WIDTH \in Nat
    BY <1>0, ScreenFacts
  <2> QED
    BY <1>0, <2>1 DEF CellAt
<1> HIDE DEF a, m, b
<1>3. m = [c |-> [s.c EXCEPT ![a] = "NUL"], x |-> b, y |-> s.y]
  BY <1>0, <1>1
<1>4. m = [c |-> [s.c EXCEPT ![CellAt(s.y, b)] = "NUL"], x |-> b, y |-> s.y]
  BY <1>2, <1>3
<1>5. m = Put(s, b, "NUL", b)
  BY <1>4, PutIs
<1> QED
  BY <1>5 DEF m, b

LEMMA MovedWritten ==
  ASSUME NEW Ch, NEW s \in Screens(Ch), NEW ch,
         ch # NEWLINE, ch # TAB, ~ (ch = BACKSPACE /\ s.x > 0)
  PROVE  Moved(s, ch) = Put(s, s.x, ch, s.x + 1)
<1> DEFINE a == s.y * SCREEN_WIDTH + s.x
           m == Moved(s, ch)
           b == s.x + 1
<1>0. s = [c |-> s.c, x |-> s.x, y |-> s.y]
  BY DEF Screens
<1>1. m = [s EXCEPT !.x = b, !.c[a] = ch]
  <2>1. Moved(s, ch) = Written(s, ch)
    BY Zenon DEF Moved
  <2> QED
    BY <2>1 DEF Written
<1>2. a = CellAt(s.y, s.x)
  BY DEF CellAt
<1> HIDE DEF a, m, b
<1>3. m = [c |-> [s.c EXCEPT ![a] = ch], x |-> b, y |-> s.y]
  BY <1>0, <1>1
<1>4. m = [c |-> [s.c EXCEPT ![CellAt(s.y, s.x)] = ch], x |-> b, y |-> s.y]
  BY <1>2, <1>3
<1>5. m = Put(s, s.x, ch, b)
  BY <1>4, PutIs
<1> QED
  BY <1>5 DEF m, b

(* Whatever the character, the cursor stays on the screen.                 *)
LEMMA SettledType ==
  ASSUME NEW Ch, SPACE \in Ch, NEW s \in Screens(Ch), NEW next \in Nat
  PROVE  Settled([s EXCEPT !.x = next]) \in Screens(Ch)
<1> DEFINE m == [s EXCEPT !.x = next]
<1>1. CASE next < SCREEN_WIDTH
  <2>1. next \in Columns
    BY <1>1, ScreenFacts DEF Columns
  <2>2. m \in Screens(Ch)
    BY <2>1 DEF Screens
  <2> HIDE DEF m
  <2>3. Settled(m) = m
    BY <2>2, SettledInside
  <2> QED
    BY <2>2, <2>3 DEF m
<1>2. CASE next >= SCREEN_WIDTH
  <2>1. Settled(m) = Newline(s)
    BY <1>2, SettledWrap
  <2>2. Newline(s) \in Screens(Ch)
    BY NewlineInside
  <2> QED
    BY <2>1, <2>2
<1> QED
  BY <1>1, <1>2, ScreenFacts

LEMMA ShownInside ==
  ASSUME NEW Ch, SPACE \in Ch, "NUL" \in Ch, NEW ch \in Ch, NEW s \in Screens(Ch)
  PROVE  Shown(s, ch) \in Screens(Ch)
<1>0. s.x \in Nat /\ s.x \in Columns
  BY ScreenFacts DEF Screens, Columns
<1>1. Shown(s, ch) = Settled(Moved(s, ch))
  BY ShownIs
<1>2. CASE ch = NEWLINE
  <2>1. Moved(s, ch) = NextLine(s)
    BY <1>2, Zenon DEF Moved
  <2>2. Newline(s) \in Screens(Ch)
    BY NewlineInside
  <2> QED
    BY <1>1, <2>1, <2>2, SettledNewline
<1>3. CASE ch # NEWLINE /\ ch = TAB
  <2> DEFINE next == s.x + TabStop - (s.x % TabStop)
  <2>1. next \in Nat
    BY <1>0, TabStops
  <2>2. Moved(s, ch) = [s EXCEPT !.x = next]
    <3>1. Moved(s, ch) = ToTab(s)
      BY <1>3, Zenon DEF Moved
    <3> QED
      BY <3>1 DEF ToTab
  <2> HIDE DEF next
  <2> QED
    BY <1>1, <2>1, <2>2, SettledType
<1>4. CASE ch # NEWLINE /\ ch # TAB /\ ch = BACKSPACE /\ s.x > 0
  <2> DEFINE x == s.x - 1
  <2>1. x \in Columns
    BY <1>0, <1>4, ScreenFacts DEF Columns
  <2>2. Moved(s, ch) = Put(s, x, "NUL", x)
    BY <1>4, MovedErased
  <2> HIDE DEF x
  <2>3. Put(s, x, "NUL", x) \in Screens(Ch)
    BY <2>1, PutInside
  <2> QED
    BY <1>1, <2>2, <2>3, SettledInside
<1>5. CASE ch # NEWLINE /\ ch # TAB /\ ~ (ch = BACKSPACE /\ s.x > 0)
  <2> DEFINE next == s.x + 1
             u == Put(s, s.x, ch, s.x)
             w == Put(s, s.x, ch, next)
             d == [s.c EXCEPT ![CellAt(s.y, s.x)] = ch]
  <2>1. next \in Nat /\ u \in Screens(Ch)
    BY <1>0, PutInside
  <2>2. Moved(s, ch) = w
    BY <1>5, MovedWritten
  <2>3. w = [c |-> d, x |-> next, y |-> s.y] /\ u = [c |-> d, x |-> s.x, y |-> s.y]
    BY PutIs
  <2> HIDE DEF next, u, w, d
  <2>4. w = [u EXCEPT !.x = next]
    BY <2>3
  <2>5. Settled([u EXCEPT !.x = next]) \in Screens(Ch)
    BY <2>1, SettledType
  <2> QED
    BY <1>1, <2>2, <2>4, <2>5
<1> QED
  BY <1>2, <1>3, <1>4, <1>5

(* One character.                                                          *)
LEMMA ShowsCharacter ==
  ASSUME NEW Ch, SPACE \in Ch, "NUL" \in Ch, NEW ch \in Ch,
         NEW s \in Screens(Ch), NEW p \in Papers(Ch), ShowsEnd(s, p),
         ~ (ch = BACKSPACE /\ p.col = 0)
  PROVE  /\ Shown(s, ch) \in Screens(Ch) /\ Typewritten(p, ch) \in Papers(Ch)
         /\ ShowsEnd(Shown(s, ch), Typewritten(p, ch))
<1> DEFINE t == Shown(s, ch)
           q == Typewritten(p, ch)
           Good(a, b) == a \in Screens(Ch) /\ b \in Papers(Ch) /\ ShowsEnd(a, b)
<1>0. /\ s.x = p.col /\ p.col \in Columns /\ s.x \in Nat
      /\ s.y \in Nat /\ s = [c |-> s.c, x |-> s.x, y |-> s.y]
  BY ScreenFacts DEF Screens, Papers, Columns, Rows, ShowsEnd
<1>a. ~ (p = NoPaper \/ (ch = BACKSPACE /\ p.col = 0))
  BY CursorRow DEF NoPaper
<1>1. t = Settled(Moved(s, ch))
  BY ShownIs
<1>2. CASE ch = NEWLINE
  <2>1. t = Newline(s)
    <3>1. Moved(s, ch) = NextLine(s)
      BY <1>2, Zenon DEF Moved
    <3> QED
      BY <1>1, <3>1, SettledNewline
  <2>2. q = PaperNewline(p)
    BY <1>2, <1>a, Zenon DEF Typewritten, PaperNewline
  <2>3. Good(Newline(s), PaperNewline(p))
    BY ShowsNewline
  <2> QED
    BY <2>1, <2>2, <2>3
<1>3. CASE ch # NEWLINE /\ ch = TAB
  <2> DEFINE next == s.x + TabStop - (s.x % TabStop)
             tab == (p.col \div TabStop + 1) * TabStop
  <2>1. next \in Nat /\ tab = next
    BY <1>0, TabStops
  <2>2. Moved(s, ch) = [s EXCEPT !.x = next]
    <3>1. Moved(s, ch) = ToTab(s)
      BY <1>3, Zenon DEF Moved
    <3> QED
      BY <3>1 DEF ToTab
  <2>3. q = IF tab >= SCREEN_WIDTH THEN PaperNewline(p) ELSE [p EXCEPT !.col = tab]
    BY <1>3, <1>a, Zenon DEF Typewritten, PaperNewline
  <2> HIDE DEF next, tab, t, q
  <2>4. t = Settled([s EXCEPT !.x = next])
    BY <1>1, <2>2
  <2>5. q = IF next >= SCREEN_WIDTH THEN PaperNewline(p) ELSE [p EXCEPT !.col = next]
    BY <2>1, <2>3
  <2>6. Good(t, q)
    BY <2>1, <2>4, <2>5, ShowsTab
  <2> QED
    BY <2>6 DEF t, q
<1>4. CASE ch # NEWLINE /\ ch # TAB /\ ch = BACKSPACE /\ s.x > 0
  <2> DEFINE x == s.x - 1
  <2>1. x \in Columns /\ x \in Nat /\ x < SCREEN_WIDTH
    BY <1>0, <1>4, ScreenFacts DEF Columns
  <2>3. Moved(s, ch) = Put(s, x, "NUL", x)
    BY <1>4, MovedErased
  <2>4. q = PaperPut(p, x, "NUL", x)
    <3>1. ~ (x >= SCREEN_WIDTH) /\ p.col - 1 = x
      BY <1>0, <1>4, <2>1, ScreenFacts
    <3>2. q = IF p.col - 1 >= SCREEN_WIDTH THEN PaperNewline(PaperPut(p, p.col - 1, "NUL", p.col - 1))
              ELSE PaperPut(p, p.col - 1, "NUL", p.col - 1)
      BY <1>4, <1>a, Zenon DEF Typewritten, PaperNewline, PaperPut
    <3> HIDE DEF x, q
    <3> QED
      BY <3>1, <3>2
  <2> HIDE DEF x, t, q
  <2>5. Put(s, x, "NUL", x) \in Screens(Ch) /\ q \in Papers(Ch)
        /\ ShowsEnd(Put(s, x, "NUL", x), q)
    BY <2>1, <2>4, ShowsPut
  <2>6. t = Put(s, x, "NUL", x)
    BY <1>1, <2>3, <2>5, SettledInside
  <2> QED
    BY <2>5, <2>6 DEF t, q
<1>5. CASE ch # NEWLINE /\ ch # TAB /\ ~ (ch = BACKSPACE /\ s.x > 0)
  <2> DEFINE next == s.x + 1
             x == s.x
  <2>1. next \in Nat /\ x \in Columns
    BY <1>0
  <2>2. Moved(s, ch) = Put(s, x, ch, next)
    BY <1>5, MovedWritten
  <2>3. q = IF next >= SCREEN_WIDTH THEN PaperNewline(PaperPut(p, x, ch, next))
            ELSE PaperPut(p, x, ch, next)
    <3>1. ch # BACKSPACE
      <4>1. s.x = 0 => p.col = 0
        BY <1>0
      <4>2. s.x = 0 \/ s.x > 0
        BY <1>0
      <4> QED
        BY <1>a, <1>5, <4>1, <4>2
    <3>2. q = IF p.col + 1 >= SCREEN_WIDTH THEN PaperNewline(PaperPut(p, p.col, ch, p.col + 1))
              ELSE PaperPut(p, p.col, ch, p.col + 1)
      BY <1>5, <1>a, <3>1, Zenon DEF Typewritten, PaperNewline, PaperPut
    <3>3. p.col = x /\ p.col + 1 = next
      BY <1>0
    <3> HIDE DEF x, q, next
    <3> QED
      BY <3>2, <3>3
  <2> HIDE DEF x, next, q, t
  <2>4. t = Settled(Put(s, x, ch, next))
    BY <1>1, <2>2
  <2>5. Good(t, q)
    BY <2>1, <2>3, <2>4, ShowsWritten
  <2> QED
    BY <2>5 DEF t, q
<1> QED
  BY <1>2, <1>3, <1>4, <1>5

(* Screen and paper agree, unless a backspace at the edge ended the paper. *)
Agree(Ch, s, p) ==
  /\ s \in Screens(Ch)
  /\ p = NoPaper \/ (p \in Papers(Ch) /\ ShowsEnd(s, p))

LEMMA CharacterAgrees ==
  ASSUME NEW Ch, SPACE \in Ch, "NUL" \in Ch, NEW ch \in Ch, NEW s, NEW p, Agree(Ch, s, p)
  PROVE  Agree(Ch, Shown(s, ch), Typewritten(p, ch))
<1>1. s \in Screens(Ch) /\ Shown(s, ch) \in Screens(Ch)
  BY ShownInside DEF Agree
<1>2. CASE p = NoPaper \/ (ch = BACKSPACE /\ p.col = 0)
  <2>1. Typewritten(p, ch) = NoPaper
    BY <1>2, Zenon DEF Typewritten
  <2> QED
    BY <1>1, <2>1 DEF Agree
<1>3. CASE ~ (p = NoPaper \/ (ch = BACKSPACE /\ p.col = 0))
  <2>1. p \in Papers(Ch) /\ ShowsEnd(s, p)
    BY <1>3 DEF Agree
  <2>2. Typewritten(p, ch) \in Papers(Ch) /\ ShowsEnd(Shown(s, ch), Typewritten(p, ch))
    BY <1>1, <1>3, <2>1, ShowsCharacter
  <2> QED
    BY <1>1, <2>2 DEF Agree
<1> QED
  BY <1>2, <1>3

-----------------------------------------------------------------------------
(***************************************************************************)
(* A whole text: what the two recursive functions compute.                 *)
(***************************************************************************)
ShownWalk(f, a, text, n) ==
  f = [k \in 0 .. n |-> IF k = 0 THEN a ELSE Shown(f[k - 1], text[k])]
TypedWalk(f, a, text, n) ==
  f = [k \in 0 .. n |-> IF k = 0 THEN a ELSE Typewritten(f[k - 1], text[k])]

LEMMA ShownWalkExists ==
  ASSUME NEW a, NEW text, NEW n \in Nat
  PROVE  \E f : ShownWalk(f, a, text, n)
<1> DEFINE Bad == {m \in Nat : ~ \E f : ShownWalk(f, a, text, m)}
<1>1. SUFFICES ASSUME Bad # {} PROVE FALSE
  OBVIOUS
<1>2. PICK m \in Bad : \A y \in Bad : m <= y
  BY <1>1, LeastNat
<1>3. m # 0
  <2> DEFINE g == [k \in 0 .. 0 |-> a]
  <2>1. ShownWalk(g, a, text, 0)
    BY DEF ShownWalk
  <2> QED
    BY <2>1
<1>4. m - 1 \in Nat /\ m - 1 \notin Bad
  BY <1>2, <1>3
<1>5. PICK f : ShownWalk(f, a, text, m - 1)
  BY <1>4
<1> DEFINE v == Shown(f[m - 1], text[m])
           g == [k \in 0 .. m |-> IF k = m THEN v ELSE f[k]]
<1>6. \A k \in 0 .. (m - 1) : f[k] = IF k = 0 THEN a ELSE Shown(f[k - 1], text[k])
  BY <1>5, Zenon DEF ShownWalk
<1>7. \A k \in 0 .. (m - 1) : g[k] = f[k]
  BY <1>4
<1>8. \A k \in 0 .. m : g[k] = IF k = 0 THEN a ELSE Shown(g[k - 1], text[k])
  <2> TAKE k \in 0 .. m
  <2>1. CASE k = m
    <3>1. k - 1 \in 0 .. (m - 1) /\ g[k] = v /\ k # 0
      BY <1>3, <1>4, <2>1
    <3> QED
      BY <1>7, <2>1, <3>1
  <2>2. CASE k # m
    <3>1. k \in 0 .. (m - 1) /\ (k # 0 => k - 1 \in 0 .. (m - 1))
      BY <1>4, <2>2
    <3> HIDE DEF g
    <3> QED
      BY <1>6, <1>7, <3>1
  <2> QED
    BY <2>1, <2>2
<1>9. ShownWalk(g, a, text, m)
  BY <1>8 DEF ShownWalk
<1> QED
  BY <1>2, <1>9

LEMMA ShownUpToIs ==
  ASSUME NEW text, Len(text) \in Nat
  PROVE  LET f == ShownUpTo(text) IN
         \A k \in 0 .. Len(text) : f[k] = IF k = 0 THEN [c |-> screen, x |-> xpos, y |-> ypos] ELSE Shown(f[k - 1], text[k])
<1> DEFINE W(f) == ShownWalk(f, [c |-> screen, x |-> xpos, y |-> ypos], text, Len(text))
<1>1. \E f : W(f)
  BY ShownWalkExists
<1>2. ShownUpTo(text) = CHOOSE f : W(f)
  BY DEF ShownUpTo, ShownWalk
<1>3. W(ShownUpTo(text))
  BY <1>1, <1>2, Zenon
<1> QED
  BY <1>3, Zenon DEF ShownWalk

LEMMA TypedWalkExists ==
  ASSUME NEW a, NEW text, NEW n \in Nat
  PROVE  \E f : TypedWalk(f, a, text, n)
<1> DEFINE Bad == {m \in Nat : ~ \E f : TypedWalk(f, a, text, m)}
<1>1. SUFFICES ASSUME Bad # {} PROVE FALSE
  OBVIOUS
<1>2. PICK m \in Bad : \A y \in Bad : m <= y
  BY <1>1, LeastNat
<1>3. m # 0
  <2> DEFINE g == [k \in 0 .. 0 |-> a]
  <2>1. TypedWalk(g, a, text, 0)
    BY DEF TypedWalk
  <2> QED
    BY <2>1
<1>4. m - 1 \in Nat /\ m - 1 \notin Bad
  BY <1>2, <1>3
<1>5. PICK f : TypedWalk(f, a, text, m - 1)
  BY <1>4
<1> DEFINE v == Typewritten(f[m - 1], text[m])
           g == [k \in 0 .. m |-> IF k = m THEN v ELSE f[k]]
<1>6. \A k \in 0 .. (m - 1) : f[k] = IF k = 0 THEN a ELSE Typewritten(f[k - 1], text[k])
  BY <1>5, Zenon DEF TypedWalk
<1>7. \A k \in 0 .. (m - 1) : g[k] = f[k]
  BY <1>4
<1>8. \A k \in 0 .. m : g[k] = IF k = 0 THEN a ELSE Typewritten(g[k - 1], text[k])
  <2> TAKE k \in 0 .. m
  <2>1. CASE k = m
    <3>1. k - 1 \in 0 .. (m - 1) /\ g[k] = v /\ k # 0
      BY <1>3, <1>4, <2>1
    <3> QED
      BY <1>7, <2>1, <3>1
  <2>2. CASE k # m
    <3>1. k \in 0 .. (m - 1) /\ (k # 0 => k - 1 \in 0 .. (m - 1))
      BY <1>4, <2>2
    <3> HIDE DEF g
    <3> QED
      BY <1>6, <1>7, <3>1
  <2> QED
    BY <2>1, <2>2
<1>9. TypedWalk(g, a, text, m)
  BY <1>8 DEF TypedWalk
<1> QED
  BY <1>2, <1>9

LEMMA TypewrittenUpToIs ==
  ASSUME NEW text, Len(text) \in Nat
  PROVE  LET f == TypewrittenUpTo(text) IN
         \A k \in 0 .. Len(text) : f[k] = IF k = 0 THEN paper ELSE Typewritten(f[k - 1], text[k])
<1> DEFINE W(f) == TypedWalk(f, paper, text, Len(text))
<1>1. \E f : W(f)
  BY TypedWalkExists
<1>2. TypewrittenUpTo(text) = CHOOSE f : W(f)
  BY DEF TypewrittenUpTo, TypedWalk
<1>3. W(TypewrittenUpTo(text))
  BY <1>1, <1>2, Zenon
<1> QED
  BY <1>3, Zenon DEF TypedWalk

(* Cursor and video memory as one record.                                  *)
Cursor == [c |-> screen, x |-> xpos, y |-> ypos]

(* After every character of a text, screen and paper agree.                *)
LEMMA ShowsText ==
  ASSUME NEW Ch, SPACE \in Ch, "NUL" \in Ch, NEW text, Len(text) \in Nat,
         \A k \in 1 .. Len(text) : text[k] \in Ch,
         Agree(Ch, Cursor, paper)
  PROVE  LET f == ShownUpTo(text)
             g == TypewrittenUpTo(text)
             n == Len(text)
         IN Agree(Ch, f[n], g[n])
<1> DEFINE f == ShownUpTo(text)
           g == TypewrittenUpTo(text)
           n == Len(text)
           Good(k) == Agree(Ch, f[k], g[k])
           Bad == {k \in 0 .. n : ~ Good(k)}
<1>1. /\ \A k \in 0 .. n : f[k] = IF k = 0 THEN Cursor ELSE Shown(f[k - 1], text[k])
      /\ \A k \in 0 .. n : g[k] = IF k = 0 THEN paper ELSE Typewritten(g[k - 1], text[k])
  BY ShownUpToIs, TypewrittenUpToIs DEF Cursor
<1> HIDE DEF f, g
<1>2. ASSUME Bad # {} PROVE FALSE
  <2>1. Bad \in SUBSET Nat
    OBVIOUS
  <2>2. PICK m \in Bad : \A y \in Bad : m <= y
    BY <1>2, <2>1, LeastNat
  <2>3. m # 0
    BY <1>1, <2>2
  <2>4. m \in 1 .. n /\ m - 1 \in 0 .. n /\ m - 1 \notin Bad
    BY <2>2, <2>3
  <2>5. Good(m - 1)
    BY <2>4
  <2>6. text[m] \in Ch
    BY <2>4
  <2>7. f[m] = Shown(f[m - 1], text[m]) /\ g[m] = Typewritten(g[m - 1], text[m])
    BY <1>1, <2>3, <2>4
  <2>8. Good(m)
    BY <2>5, <2>6, <2>7, CharacterAgrees
  <2> QED
    BY <2>2, <2>8
<1>3. Good(n)
  BY <1>2
<1> QED
  BY <1>3 DEF f, g

(* The inductive invariant of the screen: it and the paper hold some       *)
(* characters, and agree.                                                  *)
ScreenInv == \E Ch : SPACE \in Ch /\ "NUL" \in Ch /\ Agree(Ch, Cursor, paper)

LEMMA ScreenInvStep ==
  ASSUME ScreenInv, NEW text, Len(text) \in Nat, write_to_screen(text)
  PROVE  ScreenInv'
<1>1. PICK Ch : SPACE \in Ch /\ "NUL" \in Ch /\ Agree(Ch, Cursor, paper)
  BY DEF ScreenInv
<1> DEFINE D == Ch \cup {text[k] : k \in 1 .. Len(text)}
           n == Len(text)
           s == ShownUpTo(text)[n]
           p == TypewrittenUpTo(text)[n]
<1>2. SPACE \in D /\ "NUL" \in D /\ \A k \in 1 .. Len(text) : text[k] \in D
  BY <1>1
<1>3. Agree(D, Cursor, paper)
  <2>0. Ch \subseteq D
    OBVIOUS
  <2> HIDE DEF D
  <2>1. [Cells -> Ch] \subseteq [Cells -> D] /\ [Columns -> Ch] \subseteq [Columns -> D]
    BY <2>0
  <2>2. Cursor \in Screens(D)
    BY <1>1, <2>1 DEF Agree, Screens
  <2>3. ASSUME paper \in Papers(Ch) PROVE paper \in Papers(D)
    <3>1. paper.rows \in Seq([Columns -> Ch])
      BY <2>3 DEF Papers
    <3>2. paper.rows \in Seq([Columns -> D])
      BY <2>1, <3>1
    <3> QED
      BY <2>3, <3>2 DEF Papers
  <2> QED
    BY <1>1, <2>2, <2>3 DEF Agree
<1> HIDE DEF D
<1>4. Agree(D, s, p)
  BY <1>2, <1>3, ShowsText
<1>5. screen' = s.c /\ xpos' = s.x /\ ypos' = s.y /\ paper' = p
  BY DEF write_to_screen
<1> HIDE DEF s, p
<1>6. Cursor' = s
  BY <1>4, <1>5 DEF Cursor, Agree, Screens
<1>7. Agree(D, Cursor', paper')
  BY <1>4, <1>5, <1>6
<1>8. (Agree(D, Cursor, paper))' <=> Agree(D, Cursor', paper')
  BY DEF Agree, ShowsEnd
<1> QED
  BY <1>2, <1>7, <1>8 DEF ScreenInv

LEMMA ScreenInvInit == ScreenInit => ScreenInv
<1> SUFFICES ASSUME ScreenInit PROVE ScreenInv
  OBVIOUS
<1> DEFINE Ch == {SPACE, "NUL"}
<1>1. 0 \in Rows /\ 0 \in Columns /\ SCREEN_HEIGHT \in Nat /\ SCREEN_HEIGHT >= 1
  BY ScreenFacts DEF Rows, Columns
<1>2. Cursor \in Screens(Ch)
  BY <1>1 DEF ScreenInit, Cursor, Screens
<1>3. BlankRow \in [Columns -> Ch]
  BY DEF BlankRow
<1>4. paper \in Papers(Ch) /\ Len(paper.rows) = 1 /\ paper.rows[1] = BlankRow /\ paper.col = 0
  BY <1>1, <1>3 DEF ScreenInit, Papers
<1>5. Top(1) = 0
  BY <1>1 DEF Top
<1>6. ASSUME NEW y \in Rows, NEW x \in Columns
      PROVE  Cursor.c[CellAt(y, x)] = IF 0 + y < 1 THEN paper.rows[0 + y + 1][x] ELSE SPACE
  <2>1. y \in Nat
    BY <1>1 DEF Rows
  <2>2. CellAt(y, x) \in Cells
    BY <2>1, CellIn
  <2>3. Cursor.c[CellAt(y, x)] = SPACE
    BY <2>2 DEF ScreenInit, Cursor
  <2>4. y < 1 => 0 + y + 1 = 1
    BY <2>1
  <2> QED
    BY <1>4, <2>1, <2>3, <2>4 DEF BlankRow
<1>7. Cursor.x = 0 /\ Cursor.y = 0
  BY DEF ScreenInit, Cursor
<1>8. ShowsEnd(Cursor, paper)
  BY <1>4, <1>5, <1>6, <1>7 DEF ShowsEnd
<1> QED
  BY <1>2, <1>4, <1>8 DEF ScreenInv, Agree

-----------------------------------------------------------------------------
(***************************************************************************)
(* The buffers of shell and pipe.                                          *)
(***************************************************************************)

(* What the shell may do with its indices at each place: a read begins in  *)
(* the lower half of input, a scan is at or before the end of the bytes.   *)
ShellInv ==
  /\ pos \in Nat /\ linestart \in Nat /\ end \in Nat /\ len \in Nat /\ alloc \in Nat
  /\ alloc >= 1 /\ len <= alloc
  /\ linestart <= pos /\ end <= 2 * BUFSIZE
  /\ at \in {"start", "read"} => pos < BUFSIZE
  /\ at \in {"echo", "scan", "wait"} => pos <= end
  /\ at \in {"start", "read", "echo", "scan", "wait", "exited"}

TerminalInv == ShellInv /\ ScreenInv

LEMMA BufferFacts == BUFSIZE \in Nat /\ BUFSIZE >= 1
BY ShellAssumption

LEMMA FirstNewline ==
  ASSUME ShellInv, Newlines # {}
  PROVE  Min(Newlines) \in Newlines /\ Min(Newlines) \in pos .. (end - 1)
<1>1. Newlines \in SUBSET Nat
  BY DEF Newlines, ShellInv
<1>2. \E x \in Newlines : \A y \in Newlines : x <= y
  BY <1>1, LeastNat
<1>3. Min(Newlines) \in Newlines
  BY <1>2 DEF Min
<1> QED
  BY <1>3 DEF Newlines

(* Every text that is written has a length.                                *)
LEMMA TextLengths ==
  /\ Len(Reply \o Prompt) \in Nat /\ Len(Prompt) \in Nat /\ Len(TooLong) \in Nat
  /\ ShellInv /\ at = "echo" => Len(Characters(pos, end)) \in Nat
<1>1. Reply \in Seq({"?", NEWLINE, "$"}) /\ Prompt \in Seq({"?", NEWLINE, "$"})
  BY DEF Reply, Prompt
<1>2. Len(TooLong) \in Nat
  BY DEF TooLong
<1>3. ASSUME ShellInv, at = "echo" PROVE Len(Characters(pos, end)) \in Nat
  <2>1. end - pos \in Nat
    BY <1>3 DEF ShellInv
  <2> QED
    BY <2>1, LenProperties DEF Characters
<1> QED
  BY <1>1, <1>2, <1>3

LEMMA ShellInvInit == Init => ShellInv
BY BufferFacts DEF Init, ShellInit, ShellInv

LEMMA ShellInvNext ==
  ASSUME ShellInv, [Next]_vars
  PROVE  ShellInv'
<1> USE BufferFacts DEF ShellInv
<1>1. CASE UNCHANGED vars
  BY <1>1 DEF vars, shellVars, pipeVars, lineVars
<1>2. CASE UserTypes /\ UNCHANGED shellVars
  BY <1>2 DEF shellVars, pipeVars, lineVars
<1>3. CASE keyboard_handler
  <2>1. UNCHANGED <<pos, linestart, end, at>>
    BY <1>3 DEF keyboard_handler, lineVars
  <2>2. CASE UNCHANGED pipeVars
    BY <2>1, <2>2 DEF pipeVars
  <2>3. ASSUME NEW char, write_to_pipe(char) PROVE ShellInv'
    <3>1. alloc' = IF len + 1 > alloc THEN alloc * 2 ELSE alloc
      BY <2>3 DEF write_to_pipe
    <3>2. len' = len + 1
      BY <2>3 DEF write_to_pipe
    <3>3. alloc * 2 = alloc + alloc
      OBVIOUS
    <3>4. alloc' \in Nat /\ alloc' >= 1 /\ len' \in Nat /\ len' <= alloc'
      BY <3>1, <3>2, <3>3
    <3> QED
      BY <2>1, <3>4
  <2> QED
    BY <1>3, <2>2, <2>3 DEF keyboard_handler
<1>4. CASE Start
  BY <1>4 DEF Start, pipeVars, lineVars
<1>5. CASE Read
  <2> DEFINE n == IF BUFSIZE < len THEN BUFSIZE ELSE len
  <2>1. n \in Nat /\ n <= len /\ n <= BUFSIZE
    OBVIOUS
  <2>2. /\ at = "read" /\ at' = "echo" /\ len' = len - n /\ end' = pos + n
        /\ UNCHANGED <<alloc, pos, linestart>>
    BY <1>5 DEF Read
  <2> HIDE DEF n
  <2> QED
    BY <2>1, <2>2
<1>6. CASE Echo
  BY <1>6 DEF Echo, pipeVars, lineVars
<1>7. CASE process_line
  <2> DEFINE eol == Min(Newlines)
  <2>1. at = "scan" /\ eol \in pos .. (end - 1)
    BY <1>7, FirstNewline DEF process_line
  <2>2. pos' = eol + 1 /\ linestart' = eol + 1 /\ UNCHANGED <<len, alloc, end>>
    BY <1>7 DEF process_line, pipeVars
  <2>3. at' \in {"scan", "wait"}
    <3>1. at' = at \/ at' = "wait"
      BY <1>7, Zenon DEF process_line
    <3> QED
      BY <2>1, <3>1
  <2> HIDE DEF eol
  <2> QED
    BY <2>1, <2>2, <2>3
<1>8. CASE ProgramEnds
  BY <1>8 DEF ProgramEnds, pipeVars, lineVars
<1>9. CASE Shift
  <2> DEFINE rest == end - linestart
  <2>1. /\ at = "scan" /\ linestart' = 0 /\ end' = 0 /\ UNCHANGED <<len, alloc>>
        /\ at' = IF done THEN "exited" ELSE "read"
        /\ pos' = IF rest >= BUFSIZE THEN 0 ELSE rest
    BY <1>9 DEF Shift, pipeVars
  <2>2. rest \in Nat
    BY <2>1
  <2> HIDE DEF rest
  <2> QED
    BY <2>1, <2>2
<1> QED
  BY <1>1, <1>2, <1>3, <1>4, <1>5, <1>6, <1>7, <1>8, <1>9 DEF Next, ShellStep

LEMMA ScreenInvNext ==
  ASSUME ShellInv, ScreenInv, [Next]_vars
  PROVE  ScreenInv'
<1>0. ASSUME UNCHANGED screenVars PROVE ScreenInv'
  BY <1>0 DEF ScreenInv, screenVars, Cursor, Agree, ShowsEnd
<1>1. CASE UNCHANGED vars
  BY <1>0, <1>1 DEF vars, shellVars
<1>2. CASE UserTypes /\ UNCHANGED shellVars
  BY <1>0, <1>2 DEF shellVars
<1>3. CASE keyboard_handler
  BY <1>0, <1>3 DEF keyboard_handler
<1>4. CASE Start
  BY <1>4, TextLengths, ScreenInvStep DEF Start
<1>5. CASE Read
  BY <1>0, <1>5 DEF Read
<1>6. CASE Echo
  <2>1. at = "echo" /\ write_to_screen(Characters(pos, end))
    BY <1>6 DEF Echo
  <2> QED
    BY <2>1, TextLengths, ScreenInvStep
<1>7. CASE process_line
  <2>1. \/ write_to_screen(Prompt) \/ write_to_screen(Reply \o Prompt)
        \/ UNCHANGED screenVars
    BY <1>7, Zenon DEF process_line
  <2> QED
    BY <1>0, <2>1, TextLengths, ScreenInvStep
<1>8. CASE ProgramEnds
  BY <1>8, TextLengths, ScreenInvStep DEF ProgramEnds
<1>9. CASE Shift
  <2>1. write_to_screen(TooLong) \/ UNCHANGED screenVars
    BY <1>9 DEF Shift
  <2> QED
    BY <1>0, <2>1, TextLengths, ScreenInvStep
<1> QED
  BY <1>1, <1>2, <1>3, <1>4, <1>5, <1>6, <1>7, <1>8, <1>9 DEF Next, ShellStep

LEMMA TerminalCorrect == Spec => []TerminalInv
<1>1. Init => TerminalInv
  BY ShellInvInit, ScreenInvInit DEF Init, ShellInit, TerminalInv
<1>2. TerminalInv /\ [Next]_vars => TerminalInv'
  BY ShellInvNext, ScreenInvNext DEF TerminalInv
<1> QED
  BY <1>1, <1>2, PTL DEF Spec

(* The cursor never leaves video memory, and the screen shows the last     *)
(* rows of what was written to it until a backspace is written at the left *)
(* edge, for any width, height and tab stops and any texts: wrapping,      *)
(* tabs, other backspaces and scrolling lose and move nothing (main.c,     *)
(* write_to_screen and scroll).                                            *)
THEOREM ScreenCorrect == Spec => []ScreenShowsEnd
<1>1. ScreenInv => ScreenShowsEnd
  <2> SUFFICES ASSUME ScreenInv PROVE ScreenShowsEnd
    OBVIOUS
  <2>1. PICK Ch : Agree(Ch, Cursor, paper)
    BY DEF ScreenInv
  <2>2. Cursor.c = screen /\ Cursor.x = xpos /\ Cursor.y = ypos
    BY DEF Cursor
  <2>3. xpos \in Columns /\ ypos \in Rows
    BY <2>1, <2>2 DEF Agree, Screens
  <2>4. paper # NoPaper => ShowsEnd(Cursor, paper)
    BY <2>1 DEF Agree
  <2> QED
    BY <2>2, <2>3, <2>4 DEF ShowsEnd, ScreenShowsEnd, CellAt, Top
<1> QED
  BY <1>1, TerminalCorrect, PTL DEF TerminalInv

-----------------------------------------------------------------------------
(***************************************************************************)
(* The flags of the meta keys.                                             *)
(***************************************************************************)
(* A flag that is set belongs to a key that is held, or only releases are  *)
(* on their way and the last is that of its key. Every make code on its    *)
(* way is of a key without a flag, or of one that is held.                 *)
KeyInv ==
  /\ wire \in Seq(Nat) /\ held \subseteq MetaKeys
  /\ \A k \in 1 .. Len(wire) :
       wire[k] < Release => MetaFlag(wire[k]) \in HeldFlags(held) \cup {"none"}
  /\ \A f \in kbd_status \cap {"ALT", "CTRL", "SHIFT"} :
       \/ f \in HeldFlags(held)
       \/ /\ Len(wire) > 0
          /\ \A k \in 1 .. Len(wire) : wire[k] >= Release
          /\ MetaFlag(wire[Len(wire)] - Release) = f
  /\ rebooted => {"ALT", "CTRL"} \subseteq HeldFlags(held)

LEMMA FlagNames ==
  ASSUME NEW key
  PROVE  /\ LockFlag(key) \notin {"ALT", "CTRL", "SHIFT"}
         /\ MetaFlag(key) \in {"ALT", "CTRL", "SHIFT", "none"}
BY DEF LockFlag, MetaFlag

(* A make code adds no meta flag but its own, a release removes its own.   *)
LEMMA FlagsAfter ==
  ASSUME NEW status, NEW code \in Nat
  PROVE  /\ code < Release =>
              Flags(status, code) \cap {"ALT", "CTRL", "SHIFT"} \subseteq
                (status \cap {"ALT", "CTRL", "SHIFT"}) \cup ({MetaFlag(code)} \ {"none"})
         /\ code >= Release => Flags(status, code) = status \ {MetaFlag(code - Release)}
<1>1. ~ (code < Release /\ code >= Release) /\ (code < Release \/ code >= Release)
  BY DEF Release
<1>2. ASSUME code < Release
      PROVE  Flags(status, code) \cap {"ALT", "CTRL", "SHIFT"} \subseteq
               (status \cap {"ALT", "CTRL", "SHIFT"}) \cup ({MetaFlag(code)} \ {"none"})
  <2>1. Flags(status, code) = FlagsDown(status, code)
    BY <1>2 DEF Flags
  <2> QED
    BY <2>1, FlagNames DEF FlagsDown
<1>3. ASSUME code >= Release PROVE Flags(status, code) = status \ {MetaFlag(code - Release)}
  BY <1>1, <1>3 DEF Flags
<1> QED
  BY <1>2, <1>3

(* Only the make code of Del gives KEY_DEL.                                *)
LEMMA DelIsMake ==
  ASSUME NEW status, NEW code, convert(status, code) = "KEY_DEL"
  PROVE  code \in Nat /\ code < Release
<1>1. DOMAIN key_map = KeyCodes
  BY DEF key_map
<1>2. /\ DOMAIN key_map_shift = KeyCodes /\ DOMAIN key_map_caps = KeyCodes
      /\ DOMAIN key_map_caps_shift = KeyCodes
  BY <1>1 DEF key_map_shift, key_map_caps, key_map_caps_shift
<1>3. code \in KeyCodes
  BY <1>1, <1>2 DEF convert, NoChar
<1> QED
  BY <1>3 DEF KeyCodes, A, Enter, Back, Tab, Blank, Star, Del, Release

(* The codes in the tables are make codes of keys without a flag.          *)
LEMMA CodesOfKeys ==
  ASSUME NEW key \in KeyCodes
  PROVE  /\ key \in Nat /\ key < Release
         /\ MetaFlag(key) = "none" /\ LockFlag(key) = "none"
BY DEF KeyCodes, A, Enter, Back, Tab, Blank, Star, Del, Release, MetaFlag, LockFlag,
       RAW1_CTRL, RAW1_LEFT_SHIFT, RAW1_RIGHT_SHIFT, RAW1_ALT, RAW1_CAPS_LOCK, RAW1_NUM_LOCK,
       RAW1_SCROLL_LOCK

LEMMA KeyInvInit == Init => KeyInv
BY DEF Init, KeyboardInit, KeyInv

LEMMA KeyTypes ==
  ASSUME NEW key \in MetaKeys
  PROVE  key[1] \in Nat /\ key[1] < Release /\ key[1] \notin KeyCodes /\ key[2] \in BOOLEAN
BY KeyboardAssumption DEF Release

(* The bytes of a make or break code.                                      *)
LEMMA BytesAre ==
  ASSUME NEW code \in Nat, NEW extended \in BOOLEAN
  PROVE  /\ Bytes(code, extended) \in Seq(Nat) /\ Len(Bytes(code, extended)) > 0
         /\ Bytes(code, extended)[Len(Bytes(code, extended))] = code
         /\ \A k \in 1 .. Len(Bytes(code, extended)) :
              /\ Bytes(code, extended)[k] \in {code, Extended}
              /\ k # Len(Bytes(code, extended)) => Bytes(code, extended)[k] = Extended
<1>1. Extended \in Nat
  BY DEF Extended
<1>2. CASE extended
  <2>1. Bytes(code, extended) = <<Extended, code>>
    BY <1>2 DEF Bytes
  <2> QED
    BY <1>1, <2>1
<1>3. CASE ~ extended
  <2>1. Bytes(code, extended) = <<code>>
    BY <1>3 DEF Bytes
  <2> QED
    BY <1>1, <2>1
<1> QED
  BY <1>2, <1>3

LEMMA KeyInvType ==
  ASSUME KeyInv, NEW key \in CharKeys, TypeChar(key)
  PROVE  KeyInv'
<1> DEFINE b == Bytes(key, key = Del)
           c == Bytes(key + Release, key = Del)
<1>0. key \in Nat /\ key < Release /\ MetaFlag(key) = "none" /\ Release \in Nat
  BY KeyboardAssumption, CodesOfKeys DEF Release
<1>1. Extended \in Nat /\ Extended >= Release /\ key + Release \in Nat /\ key + Release >= Release
  BY <1>0 DEF Extended, Release
<1>2. /\ b \in Seq(Nat) /\ \A k \in 1 .. Len(b) : b[k] \in {key, Extended}
      /\ c \in Seq(Nat) /\ \A k \in 1 .. Len(c) : c[k] \in {key + Release, Extended}
  BY <1>0, <1>1, BytesAre
<1> HIDE DEF b, c
<1>3. wire = <<>> /\ wire' = b \o c /\ UNCHANGED <<kbd_status, rebooted, held>>
  BY DEF TypeChar, b, c
<1>4. wire' \in Seq(Nat) /\ \A k \in 1 .. Len(wire') : wire'[k] \in {key, key + Release, Extended}
  BY <1>2, <1>3
<1>5. \A k \in 1 .. Len(wire') : wire'[k] < Release => MetaFlag(wire'[k]) = "none"
  BY <1>0, <1>1, <1>4
<1>6. \A f \in kbd_status \cap {"ALT", "CTRL", "SHIFT"} : f \in HeldFlags(held)
  BY <1>3 DEF KeyInv
<1> QED
  BY <1>3, <1>4, <1>5, <1>6 DEF KeyInv

LEMMA KeyInvDown ==
  ASSUME KeyInv, NEW key \in MetaKeys, MetaDown(key)
  PROVE  KeyInv'
<1> DEFINE b == Bytes(key[1], key[2])
<1>0. key[1] \in Nat /\ key[2] \in BOOLEAN
  BY KeyTypes
<1>1. Extended \in Nat /\ ~ (Extended < Release)
  BY DEF Extended, Release
<1>2. b \in Seq(Nat) /\ \A k \in 1 .. Len(b) : b[k] \in {key[1], Extended}
  BY <1>0, BytesAre
<1>3. /\ wire = <<>> /\ wire' = b /\ held' = held \cup {key}
      /\ UNCHANGED <<kbd_status, rebooted>>
  BY DEF MetaDown
<1> HIDE DEF b
<1>4. MetaFlag(key[1]) \in HeldFlags(held') /\ HeldFlags(held) \subseteq HeldFlags(held')
  BY <1>3 DEF HeldFlags
<1>5. \A f \in kbd_status \cap {"ALT", "CTRL", "SHIFT"} : f \in HeldFlags(held)
  BY <1>3 DEF KeyInv
<1>6. \A k \in 1 .. Len(wire') : wire'[k] < Release => MetaFlag(wire'[k]) \in HeldFlags(held')
  BY <1>1, <1>2, <1>3, <1>4
<1> QED
  BY <1>2, <1>3, <1>4, <1>5, <1>6 DEF KeyInv

LEMMA KeyInvUp ==
  ASSUME KeyInv, NEW key \in MetaKeys, MetaUp(key), ~ rebooted
  PROVE  KeyInv'
<1> DEFINE r == key[1] + Release
           b == Bytes(r, key[2])
<1>0. /\ key[1] \in Nat /\ key[2] \in BOOLEAN /\ r \in Nat /\ r >= Release
      /\ r - Release = key[1] /\ Release \in Nat
  BY KeyTypes DEF Release
<1>1. Extended \in Nat /\ Extended >= Release
  BY DEF Extended, Release
<1>3. /\ wire = <<>> /\ wire' = b /\ held' = held \ {key}
      /\ UNCHANGED <<kbd_status, rebooted>>
  BY DEF MetaUp
<1> HIDE DEF r
<1>2. /\ b \in Seq(Nat) /\ \A k \in 1 .. Len(b) : b[k] \in {r, Extended}
      /\ Len(b) > 0 /\ b[Len(b)] = r
  BY <1>0, BytesAre
<1> HIDE DEF b
<1>4. \A k \in 1 .. Len(wire') : wire'[k] >= Release /\ ~ (wire'[k] < Release)
  <2>1. \A v \in {r, Extended} : v >= Release /\ ~ (v < Release)
    BY <1>0, <1>1
  <2> QED
    BY <1>2, <1>3, <2>1
<1>5. \A f \in kbd_status \cap {"ALT", "CTRL", "SHIFT"} : f \in HeldFlags(held)
  BY <1>3 DEF KeyInv
<1>6. \A f \in HeldFlags(held) : f \in HeldFlags(held') \/ f = MetaFlag(key[1])
  BY <1>3 DEF HeldFlags
<1>7. Len(wire') > 0 /\ MetaFlag(wire'[Len(wire')] - Release) = MetaFlag(key[1])
  BY <1>0, <1>2, <1>3
<1> QED
  BY <1>2, <1>3, <1>4, <1>5, <1>6, <1>7 DEF KeyInv

LEMMA KeyInvHandler ==
  ASSUME KeyInv, keyboard_handler, ~ rebooted
  PROVE  KeyInv'
<1> DEFINE code == Head(wire)
           M == {"ALT", "CTRL", "SHIFT"}
           H == HeldFlags(held)
<1>0. wire \in Seq(Nat) /\ wire # <<>>
  BY DEF KeyInv, keyboard_handler
<1>1. /\ Len(wire) \in Nat /\ Len(wire) > 0 /\ code = wire[1] /\ code \in Nat
      /\ Tail(wire) \in Seq(Nat) /\ Len(Tail(wire)) = Len(wire) - 1
      /\ \A k \in 1 .. (Len(wire) - 1) : Tail(wire)[k] = wire[k + 1]
  BY <1>0
<1>2. wire' = Tail(wire) /\ kbd_status' = Flags(kbd_status, code) /\ held' = held
  BY DEF keyboard_handler
<1>3. rebooted' => {"CTRL", "ALT"} \subseteq kbd_status /\ code \in Nat /\ code < Release
  <2>1. rebooted' = Salute(kbd_status, convert(Flags(kbd_status, code), code))
    BY DEF keyboard_handler
  <2> QED
    BY <2>1, DelIsMake DEF Salute
<1>4. /\ wire' \in Seq(Nat) /\ Len(wire') = Len(wire) - 1
      /\ \A k \in 1 .. Len(wire') : k + 1 \in 1 .. Len(wire) /\ wire'[k] = wire[k + 1]
  BY <1>1, <1>2
<1>5. \A k \in 1 .. Len(wire') : wire'[k] < Release => MetaFlag(wire'[k]) \in H \cup {"none"}
  BY <1>4 DEF KeyInv
<1> HIDE DEF code, H
<1>6. CASE code < Release
  <2>1. ~ (code >= Release)
    BY <1>1, <1>6 DEF Release
  <2>2. kbd_status \cap M \subseteq H
    BY <1>1, <2>1 DEF KeyInv, H
  <2>3. MetaFlag(code) \in H \cup {"none"}
    BY <1>1, <1>6 DEF KeyInv, H
  <2>4. kbd_status' \cap M \subseteq H
    BY <1>1, <1>2, <1>6, <2>2, <2>3, FlagsAfter
  <2>5. rebooted' => {"ALT", "CTRL"} \subseteq H
    BY <1>3, <2>2
  <2> QED
    BY <1>2, <1>4, <1>5, <2>4, <2>5 DEF KeyInv, H
<1>7. CASE ~ (code < Release)
  <2>0. code >= Release
    BY <1>1, <1>7 DEF Release
  <2>1. kbd_status' = kbd_status \ {MetaFlag(code - Release)}
    BY <1>1, <1>2, <2>0, FlagsAfter
  <2>2. ~ rebooted'
    BY <1>3, <1>7
  <2>3. ASSUME NEW f \in kbd_status' \cap M
        PROVE  \/ f \in H
               \/ /\ Len(wire') > 0
                  /\ \A k \in 1 .. Len(wire') : wire'[k] >= Release
                  /\ MetaFlag(wire'[Len(wire')] - Release) = f
    <3>1. f \in kbd_status \cap M /\ f # MetaFlag(code - Release)
      BY <2>1
    <3>2. SUFFICES ASSUME f \notin H
                   PROVE  /\ Len(wire') > 0
                          /\ \A k \in 1 .. Len(wire') : wire'[k] >= Release
                          /\ MetaFlag(wire'[Len(wire')] - Release) = f
      OBVIOUS
    <3>3. /\ \A k \in 1 .. Len(wire) : wire[k] >= Release
          /\ MetaFlag(wire[Len(wire)] - Release) = f
      BY <3>1, <3>2 DEF KeyInv, H
    <3>4. Len(wire) # 1
      BY <1>1, <3>1, <3>3
    <3>5. Len(wire') > 0 /\ wire'[Len(wire')] = wire[Len(wire)]
      <4>1. Len(wire) - 1 \in 1 .. (Len(wire) - 1) /\ (Len(wire) - 1) + 1 = Len(wire)
        BY <1>1, <3>4
      <4> QED
        BY <1>1, <1>4, <4>1
    <3> QED
      BY <1>4, <3>3, <3>5
  <2> QED
    BY <1>2, <1>4, <1>5, <2>2, <2>3 DEF KeyInv, H
<1> QED
  BY <1>6, <1>7

LEMMA KeyInvNext ==
  ASSUME KeyInv, [Next]_vars
  PROVE  KeyInv'
<1>1. ASSUME UNCHANGED keyVars PROVE KeyInv'
  BY <1>1 DEF KeyInv, keyVars
<1>2. CASE UNCHANGED vars
  BY <1>1, <1>2 DEF vars
<1>3. CASE Next
  <2>1. ~ rebooted /\ (UserTypes \/ keyboard_handler \/ UNCHANGED keyVars)
    BY <1>3 DEF Next
  <2> QED
    BY <1>1, <2>1, KeyInvType, KeyInvDown, KeyInvUp, KeyInvHandler DEF UserTypes
<1> QED
  BY <1>2, <1>3

-----------------------------------------------------------------------------
(***************************************************************************)
(* The way of a character from the keyboard to a line. What was typed is,  *)
(* in this order: what the shell has done with, the bytes in its buffer,   *)
(* those in the pipe, and at most one character still on the wire.         *)
(***************************************************************************)
FlagsRight(st) ==
  /\ capitals \in BOOLEAN /\ (capitals <=> "CAPS" \in st)
  /\ \A f \in HoldFlags : f \in st <=> f \in HeldFlags(held) \ lost

(* A byte that changes no flag and brings no character.                    *)
Neutral(code) == code >= Release /\ MetaFlag(code - Release) = "none"
OthersNeutral(j) == \A k \in (1 .. Len(wire)) \ {j} : Neutral(wire[k])

Idle == OthersNeutral(0) /\ FlagsRight(kbd_status)
CharComes(j) ==
  /\ wire[j] \in KeyCodes /\ j < Len(wire) /\ OthersNeutral(j) /\ FlagsRight(kbd_status)
  /\ TypeScope(wire[j])
MetaComes ==
  /\ Len(wire) > 0 /\ OthersNeutral(Len(wire)) /\ wire[Len(wire)] \notin KeyCodes
  /\ FlagsRight(Flags(kbd_status, wire[Len(wire)]))

(* The wire brings w characters that are in typed already; a reboot loses  *)
(* the one that causes it.                                                 *)
WireBrings(w) ==
  \/ w = 0 /\ (Idle \/ MetaComes)
  \/ \E j \in 1 .. Len(wire) :
       /\ CharComes(j)
       /\ IF Meant(wire[j]) = NoChar THEN w = 0
          ELSE w = 1 /\ Len(typed) > 0 /\ typed[Len(typed)] = Meant(wire[j])
  \/ rebooted /\ wire # <<>>

LEMMA TableDomains ==
  /\ DOMAIN key_map = KeyCodes /\ DOMAIN key_map_shift = KeyCodes
  /\ DOMAIN key_map_caps = KeyCodes /\ DOMAIN key_map_caps_shift = KeyCodes
<1>1. DOMAIN key_map = KeyCodes
  BY DEF key_map
<1> QED
  BY <1>1 DEF key_map_shift, key_map_caps, key_map_caps_shift

LEMMA NoCharFrom ==
  ASSUME NEW st, NEW code, code \notin KeyCodes
  PROVE  convert(st, code) = NoChar
BY TableDomains DEF convert

(* With the right flags the driver gives the character that was meant.     *)
LEMMA MeantIsConverted ==
  ASSUME NEW st, FlagsRight(st), NEW key \in KeyCodes, TypeScope(key)
  PROVE  convert(st, key) = Meant(key)
<1>1. A \in KeyCodes /\ Star \in KeyCodes /\ A # Star
  BY DEF KeyCodes, A, Star
<1>2. key_map[A] = "a" /\ key_map[Star] = NoChar
  <2>1. ASSUME NEW k \in KeyCodes
        PROVE  /\ k = A => key_map[k] = "a"
               /\ k = Star => key_map[k] = NoChar
    BY DEF key_map, KeyCodes, A, Star, Enter, Back, Tab, Blank, Del
  <2> QED
    BY <1>1, <2>1
<1>3. key_map = [k \in KeyCodes |-> key_map[k]]
  <2>1. \E F : key_map = [k \in KeyCodes |-> F[k]]
    <3> DEFINE C(x) ==
          CASE x = A -> "a" [] x = Enter -> NEWLINE [] x = Back -> BACKSPACE
            [] x = Tab -> TAB [] x = Blank -> SPACE [] x = Star -> NoChar
            [] x = Del -> "KEY_DEL"
    <3>1. key_map = [x \in KeyCodes |-> C(x)]
      BY DEF key_map
    <3> HIDE DEF C
    <3> QED
      BY <3>1
  <2> QED
    BY <2>1
<1>4. /\ key_map_shift[key] = IF key = A THEN "A" ELSE IF key = Star THEN "*" ELSE key_map[key]
      /\ key_map_caps[key] = IF key = A THEN "A" ELSE key_map[key]
      /\ key_map_caps_shift[key] = IF key = Star THEN "*" ELSE key_map[key]
  BY <1>1, <1>3 DEF key_map_shift, key_map_caps, key_map_caps_shift
<1>5. convert(st, key) =
        IF "CAPS" \in st
        THEN IF "SHIFT" \in st THEN key_map_caps_shift[key] ELSE key_map_caps[key]
        ELSE IF "SHIFT" \in st THEN key_map_shift[key] ELSE key_map[key]
  BY TableDomains DEF convert
<1> DEFINE shifted == "SHIFT" \in HeldFlags(held)
<1>6. Meant(key) = IF key = A THEN (IF shifted # capitals THEN "A" ELSE "a")
                   ELSE IF key = Star THEN (IF shifted THEN "*" ELSE NoChar)
                   ELSE key_map[key]
  BY <1>1 DEF Meant
<1>7. shifted \in BOOLEAN /\ capitals \in BOOLEAN
  BY DEF FlagsRight
<1>c. CASE key \notin {A, Star}
  BY <1>4, <1>5, <1>6, <1>c
<1>d. CASE key \in {A, Star}
  <2>0. "SHIFT" \notin lost
    BY <1>d DEF TypeScope
  <2>1. capitals <=> "CAPS" \in st
    BY DEF FlagsRight
  <2>2. shifted <=> "SHIFT" \in st
    BY <2>0 DEF FlagsRight, HoldFlags
  <2> HIDE DEF shifted
  <2>3. (shifted # capitals) <=> ~ ("SHIFT" \in st <=> "CAPS" \in st)
    <3>1. CASE shifted = TRUE /\ capitals = TRUE
      BY <2>1, <2>2, <3>1, Zenon
    <3>2. CASE shifted = TRUE /\ capitals = FALSE
      BY <2>1, <2>2, <3>2, Zenon
    <3>3. CASE shifted = FALSE /\ capitals = TRUE
      BY <2>1, <2>2, <3>3, Zenon
    <3>4. CASE shifted = FALSE /\ capitals = FALSE
      BY <2>1, <2>2, <3>4, Zenon
    <3> QED
      BY <1>7, <3>1, <3>2, <3>3, <3>4, Zenon
  <2> QED
    BY <1>1, <1>2, <1>4, <1>5, <1>6, <2>1, <2>2, <2>3
<1> QED
  BY <1>c, <1>d

(* Whether these flags are set after a byte depends only on whether        *)
(* they were before, and is not changed by keys without a flag.            *)
Alike(st, tt) == \A f \in HoldFlags \cup {"CAPS"} : f \in st <=> f \in tt

LEMMA MetaIsNoLock ==
  ASSUME NEW key
  PROVE  /\ MetaFlag(key) \in {"ALT", "CTRL", "SHIFT", "none"}
         /\ LockFlag(key) \in {"SCRL", "NUM", "CAPS", "none"}
BY DEF LockFlag, MetaFlag

LEMMA AlikeAfter ==
  ASSUME NEW st, NEW tt, NEW code \in Nat, Alike(st, tt)
  PROVE  Alike(Flags(st, code), Flags(tt, code))
<1>1. CASE code < Release
  BY <1>1, MetaIsNoLock DEF Alike, Flags, FlagsDown
<1>2. CASE ~ (code < Release)
  BY <1>2, MetaIsNoLock DEF Alike, Flags
<1> QED
  BY <1>1, <1>2

LEMMA NeutralAfter ==
  ASSUME NEW st, NEW code \in Nat, Neutral(code) \/ code \in KeyCodes
  PROVE  Alike(Flags(st, code), st)
<1>1. CASE Neutral(code)
  <2>1. ~ (code < Release)
    BY <1>1 DEF Neutral, Release
  <2> QED
    BY <1>1, <2>1 DEF Neutral, Flags, Alike, HoldFlags
<1>2. CASE code \in KeyCodes
  <2>1. Flags(st, code) = st \/ Flags(st, code) = st \ {"none"}
    BY <1>2, CodesOfKeys DEF Flags, FlagsDown
  <2> QED
    BY <2>1 DEF Alike, HoldFlags
<1> QED
  BY <1>1, <1>2

LEMMA NeutralBrings ==
  ASSUME NEW st, NEW code \in Nat, Neutral(code)
  PROVE  convert(st, code) = NoChar
<1>1. code \notin KeyCodes
  BY CodesOfKeys DEF Neutral, Release
<1> QED
  BY <1>1, NoCharFrom

(* No byte is on its way: the flags are right.                             *)
LEMMA EmptyWire ==
  ASSUME NEW w, WireBrings(w), wire = <<>>
  PROVE  w = 0 /\ FlagsRight(kbd_status)
<1>1. Len(wire) = 0
  OBVIOUS
<1> QED
  BY <1>1 DEF WireBrings, Idle, MetaComes

LEMMA ExtendedIsNeutral == Neutral(Extended)
BY DEF Neutral, Extended, Release, MetaFlag, RAW1_CTRL, RAW1_LEFT_SHIFT, RAW1_RIGHT_SHIFT, RAW1_ALT

LEMMA WireTypeChar ==
  ASSUME NEW w, WireBrings(w), NEW key \in CharKeys, TypeChar(key), NEW C, typed \in Seq(C)
  PROVE  /\ w = 0 /\ wire' \in Seq(Nat)
         /\ \/ typed' = typed /\ WireBrings(0)'
            \/ \E c : typed' = Append(typed, c) /\ WireBrings(1)'
<1> DEFINE b == Bytes(key, key = Del)
           c == Bytes(key + Release, key = Del)
<1>0. /\ key \in KeyCodes /\ key \in Nat /\ key < Release /\ MetaFlag(key) = "none"
      /\ Release \in Nat /\ key + Release \in Nat
  BY KeyboardAssumption, CodesOfKeys DEF Release
<1>1. /\ b \in Seq(Nat) /\ Len(b) > 0 /\ b[Len(b)] = key
      /\ c \in Seq(Nat) /\ Len(c) > 0 /\ \A k \in 1 .. Len(c) : c[k] \in {key + Release, Extended}
      /\ \A k \in 1 .. Len(b) : k # Len(b) => b[k] = Extended
  BY <1>0, BytesAre
<1>2. /\ wire = <<>> /\ wire' = b \o c /\ UNCHANGED <<kbd_status, rebooted, held, lost, capitals>>
      /\ typed' = IF Meant(key) = NoChar THEN typed ELSE Append(typed, Meant(key))
  BY DEF TypeChar
<1> HIDE DEF b, c
<1>3. w = 0 /\ FlagsRight(kbd_status)
  BY <1>2, EmptyWire
<1>4. /\ wire' \in Seq(Nat) /\ Len(wire') = Len(b) + Len(c) /\ wire'[Len(b)] = key
      /\ \A k \in (1 .. Len(wire')) \ {Len(b)} : wire'[k] \in {key + Release, Extended}
  BY <1>1, <1>2
<1>5. Neutral(key + Release) /\ Neutral(Extended)
  BY <1>0, ExtendedIsNeutral DEF Neutral
<1>6. Len(b) \in 1 .. Len(wire') /\ CharComes(Len(b))'
  <2>1. Len(b) \in Nat /\ Len(c) \in Nat /\ Len(b) < Len(wire')
    BY <1>1, <1>4
  <2>2. OthersNeutral(Len(b))'
    BY <1>4, <1>5, Zenon DEF OthersNeutral
  <2>3. FlagsRight(kbd_status)'
    BY <1>2, <1>3 DEF FlagsRight
  <2>4. TypeScope(wire[Len(b)])'
    BY <1>2, <1>4 DEF TypeChar, TypeScope
  <2> QED
    BY <1>0, <1>1, <1>4, <2>1, <2>2, <2>3, <2>4 DEF CharComes
<1>7. Meant(wire[Len(b)])' = Meant(key)
  BY <1>2, <1>4 DEF Meant
<1>8. CASE Meant(key) = NoChar
  <2>1. typed' = typed
    BY <1>2, <1>8
  <2>2. WireBrings(0)'
    BY <1>6, <1>7, <1>8 DEF WireBrings
  <2> QED
    BY <1>3, <1>4, <2>1, <2>2
<1>9. CASE Meant(key) # NoChar
  <2>1. typed' = Append(typed, Meant(key))
    BY <1>2, <1>9
  <2>2. Len(typed') > 0 /\ typed'[Len(typed')] = Meant(key)
    <3> DEFINE x == Meant(key)
    <3>1. typed' = Append(typed, x)
      BY <2>1
    <3> HIDE DEF x
    <3>2. Len(typed') = Len(typed) + 1 /\ typed'[Len(typed) + 1] = x /\ Len(typed) \in Nat
      BY <3>1
    <3> QED
      BY <3>2 DEF x
  <2>3. WireBrings(1)'
    BY <1>6, <1>7, <1>9, <2>2 DEF WireBrings
  <2> QED
    BY <1>3, <1>4, <2>1, <2>3
<1> QED
  BY <1>8, <1>9

(* A wire with one make or break code of a meta key.                       *)
LEMMA WireMeta ==
  ASSUME NEW code \in Nat, code \notin KeyCodes, NEW extended \in BOOLEAN,
         wire' = Bytes(code, extended), FlagsRight(Flags(kbd_status, code))'
  PROVE  wire' \in Seq(Nat) /\ WireBrings(0)'
<1>1. /\ wire' \in Seq(Nat) /\ Len(wire') > 0 /\ wire'[Len(wire')] = code
      /\ \A k \in (1 .. Len(wire')) \ {Len(wire')} : wire'[k] = Extended
  <2> DEFINE b == Bytes(code, extended)
  <2>1. /\ b \in Seq(Nat) /\ Len(b) > 0 /\ b[Len(b)] = code
        /\ \A k \in 1 .. Len(b) : k # Len(b) => b[k] = Extended
    BY BytesAre
  <2>2. wire' = b
    OBVIOUS
  <2> HIDE DEF b
  <2> QED
    BY <2>1, <2>2
<1>2. OthersNeutral(Len(wire))'
  BY <1>1, ExtendedIsNeutral DEF OthersNeutral
<1>3. MetaComes'
  BY <1>1, <1>2 DEF MetaComes
<1> QED
  BY <1>1, <1>3 DEF WireBrings

LEMMA WireMetaDown ==
  ASSUME NEW w, WireBrings(w), NEW key \in MetaKeys, MetaDown(key)
  PROVE  w = 0 /\ typed' = typed /\ wire' \in Seq(Nat) /\ WireBrings(0)'
<1>1. /\ wire = <<>> /\ wire' = Bytes(key[1], key[2]) /\ UNCHANGED <<kbd_status, typed>>
      /\ held' = held \cup {key} /\ lost' = lost \ {MetaFlag(key[1])}
      /\ capitals' = (capitals # (key[1] = RAW1_CAPS_LOCK))
  BY DEF MetaDown
<1>2. w = 0 /\ FlagsRight(kbd_status)
  BY <1>1, EmptyWire
<1>3. /\ key[1] \in Nat /\ key[1] < Release /\ key[1] \notin KeyCodes /\ key[2] \in BOOLEAN
  BY KeyTypes
<1>4. Flags(kbd_status, key[1]) = FlagsDown(kbd_status, key[1])
  BY <1>3 DEF Flags
<1> DEFINE st == Flags(kbd_status, key[1])
<1>5. \A f \in HoldFlags : f \in st <=> f \in kbd_status \/ f = MetaFlag(key[1])
  BY <1>4, MetaIsNoLock DEF FlagsDown, HoldFlags
<1>6. "CAPS" \in st <=> ("CAPS" \in kbd_status <=> key[1] # RAW1_CAPS_LOCK)
  <2>1. LockFlag(key[1]) = "CAPS" <=> key[1] = RAW1_CAPS_LOCK
    BY DEF LockFlag, RAW1_CAPS_LOCK, RAW1_NUM_LOCK, RAW1_SCROLL_LOCK
  <2>2. key[1] = RAW1_CAPS_LOCK => MetaFlag(key[1]) = "none"
    BY DEF MetaFlag, RAW1_CAPS_LOCK, RAW1_CTRL, RAW1_LEFT_SHIFT, RAW1_RIGHT_SHIFT, RAW1_ALT
  <2> QED
    BY <1>4, <2>1, <2>2, MetaIsNoLock DEF FlagsDown
<1> HIDE DEF st
<1>7. \A f \in HoldFlags : f \in st <=> f \in HeldFlags(held') \ lost'
  <2>1. \A f : f \in HeldFlags(held') <=> f \in HeldFlags(held) \/ f = MetaFlag(key[1])
    BY <1>1, Zenon DEF HeldFlags
  <2>2. \A f \in HoldFlags : f \in kbd_status <=> f \in HeldFlags(held) \ lost
    BY <1>2 DEF FlagsRight
  <2> QED
    BY <1>1, <1>5, <2>1, <2>2
<1>8. capitals' \in BOOLEAN /\ (capitals' <=> "CAPS" \in st)
  <2>1. (capitals <=> "CAPS" \in kbd_status) /\ capitals \in BOOLEAN
    BY <1>2 DEF FlagsRight
  <2>2. capitals' \in BOOLEAN /\ (capitals' <=> ~ (capitals <=> key[1] = RAW1_CAPS_LOCK))
    <3> DEFINE lock == key[1] = RAW1_CAPS_LOCK
    <3>1. capitals' = (capitals # lock) /\ lock \in BOOLEAN
      BY <1>1
    <3> HIDE DEF lock
    <3>2. (capitals = TRUE \/ capitals = FALSE) /\ (lock = TRUE \/ lock = FALSE)
      BY <2>1, <3>1, Zenon
    <3>3. (capitals # lock) <=> ~ (capitals <=> lock)
      BY <3>2, Zenon
    <3> QED
      BY <3>1, <3>3, Zenon DEF lock
  <2> QED
    BY <1>6, <2>1, <2>2, Zenon
<1>9. FlagsRight(Flags(kbd_status, key[1]))'
  BY <1>1, <1>7, <1>8 DEF FlagsRight, st
<1> QED
  BY <1>1, <1>2, <1>3, <1>9, WireMeta

LEMMA WireMetaUp ==
  ASSUME NEW w, WireBrings(w), NEW key \in MetaKeys, MetaUp(key)
  PROVE  w = 0 /\ typed' = typed /\ wire' \in Seq(Nat) /\ WireBrings(0)'
<1> DEFINE r == key[1] + Release
<1>1. /\ wire = <<>> /\ wire' = Bytes(r, key[2]) /\ UNCHANGED <<kbd_status, typed, capitals>>
      /\ held' = held \ {key}
      /\ lost' = (lost \ {MetaFlag(key[1])}) \cup (HeldFlags(held') \cap {MetaFlag(key[1])})
  BY DEF MetaUp
<1>2. w = 0 /\ FlagsRight(kbd_status)
  BY <1>1, EmptyWire
<1>3. /\ key[1] \in Nat /\ key[2] \in BOOLEAN /\ r \in Nat /\ ~ (r < Release) /\ r - Release = key[1]
  BY KeyTypes DEF Release
<1>4. r \notin KeyCodes
  BY <1>3, CodesOfKeys
<1>5. Flags(kbd_status, r) = kbd_status \ {MetaFlag(key[1])}
  BY <1>3 DEF Flags
<1> HIDE DEF r
<1>6. \A f \in HoldFlags : f \in Flags(kbd_status, r) <=> f \in HeldFlags(held') \ lost'
  <2>1. \A f : f # MetaFlag(key[1]) => (f \in HeldFlags(held') <=> f \in HeldFlags(held))
    BY <1>1, Zenon DEF HeldFlags
  <2>2. \A f \in HoldFlags : f \in kbd_status <=> f \in HeldFlags(held) \ lost
    BY <1>2 DEF FlagsRight
  <2> QED
    BY <1>1, <1>5, <2>1, <2>2
<1>7. "CAPS" \in Flags(kbd_status, r) <=> "CAPS" \in kbd_status
  BY <1>5, MetaIsNoLock
<1>8. FlagsRight(Flags(kbd_status, r))'
  BY <1>1, <1>2, <1>6, <1>7, Zenon DEF FlagsRight
<1> QED
  BY <1>1, <1>2, <1>3, <1>4, <1>8, WireMeta

(* A keyboard interrupt brings the character that was typed last, or none. *)
LEMMA WireHandler ==
  ASSUME NEW w, WireBrings(w), keyboard_handler, ~ rebooted, wire \in Seq(Nat)
  PROVE  /\ typed' = typed /\ wire' \in Seq(Nat)
         /\ \/ UNCHANGED pipeVars /\ WireBrings(w)'
            \/ /\ w = 1 /\ Len(typed) > 0 /\ WireBrings(0)'
               /\ write_to_pipe(typed[Len(typed)])
<1> DEFINE code == Head(wire)
           char == convert(Flags(kbd_status, code), code)
<1>1. /\ wire # <<>> /\ Len(wire) \in Nat /\ Len(wire) > 0 /\ code = wire[1] /\ code \in Nat
      /\ Tail(wire) \in Seq(Nat) /\ Len(Tail(wire)) = Len(wire) - 1
      /\ \A k \in 1 .. (Len(wire) - 1) : Tail(wire)[k] = wire[k + 1]
  BY DEF keyboard_handler
<1>2. /\ wire' = Tail(wire) /\ kbd_status' = Flags(kbd_status, code)
      /\ rebooted' = Salute(kbd_status, char)
      /\ UNCHANGED <<held, lost, capitals, typed>>
      /\ IF char # NoChar /\ ~ rebooted' THEN write_to_pipe(char) ELSE UNCHANGED pipeVars
  BY DEF keyboard_handler
<1> HIDE DEF code, char
<1>3. /\ wire' \in Seq(Nat) /\ Len(wire') = Len(wire) - 1 /\ Len(wire') \in Nat
      /\ \A k \in 1 .. Len(wire') : k + 1 \in 1 .. Len(wire) /\ wire'[k] = wire[k + 1]
  BY <1>1, <1>2
<1>4. ASSUME NEW j \in Int, OthersNeutral(j) PROVE OthersNeutral(j - 1)'
  <2>1. \A k \in (1 .. Len(wire')) \ {j - 1} :
           k + 1 \in (1 .. Len(wire)) \ {j} /\ wire'[k] = wire[k + 1]
    BY <1>1, <1>3
  <2>2. \A k \in (1 .. Len(wire')) \ {j - 1} : Neutral(wire'[k])
    BY <1>4, <2>1, Zenon DEF OthersNeutral
  <2> QED
    BY <2>2, Zenon DEF OthersNeutral
<1>5. ASSUME Neutral(code)
      PROVE  UNCHANGED pipeVars /\ Alike(kbd_status', kbd_status)
  <2>1. char = NoChar
    BY <1>1, <1>5, NeutralBrings DEF char
  <2> QED
    BY <1>1, <1>2, <1>5, <2>1, NeutralAfter
<1>6. ASSUME NEW st, NEW tt, Alike(st, tt), FlagsRight(tt) PROVE FlagsRight(st)'
  BY <1>2, <1>6 DEF Alike, FlagsRight
<1>7. CASE w = 0 /\ Idle
  <2>1. Neutral(code)
    BY <1>1, <1>7 DEF Idle, OthersNeutral
  <2>2. FlagsRight(kbd_status)'
    BY <1>5, <1>6, <1>7, <2>1 DEF Idle
  <2>3. OthersNeutral(0)'
    <3>1. \A k \in 1 .. Len(wire') : k + 1 \in (1 .. Len(wire)) \ {0} /\ wire'[k] = wire[k + 1]
      BY <1>3
    <3>2. \A k \in 1 .. Len(wire') : Neutral(wire'[k])
      BY <1>7, <3>1, Zenon DEF Idle, OthersNeutral
    <3> QED
      BY <3>2 DEF OthersNeutral
  <2> QED
    BY <1>2, <1>3, <1>5, <1>7, <2>1, <2>2, <2>3 DEF WireBrings, Idle
<1>8. CASE w = 0 /\ MetaComes
  <2>l. PICK l : l = Len(wire)
    OBVIOUS
  <2>0. /\ OthersNeutral(l) /\ wire[l] \notin KeyCodes /\ FlagsRight(Flags(kbd_status, wire[l]))
        /\ l \in Nat /\ l > 0 /\ wire[l] \in Nat
    BY <1>1, <1>8, <2>l DEF MetaComes
  <2>1. CASE l = 1
    <3>0. Len(wire) = 1
      BY <2>l, <2>1
    <3>1. char = NoChar
      BY <1>1, <2>0, <2>1, NoCharFrom DEF char
    <3>2. FlagsRight(kbd_status)'
      BY <1>1, <1>2, <2>0, <2>1 DEF FlagsRight
    <3>3. Idle'
      BY <1>3, <3>0, <3>2 DEF Idle, OthersNeutral
    <3> QED
      BY <1>2, <1>3, <1>8, <3>1, <3>3 DEF WireBrings
  <2>2. CASE l # 1
    <3>1. Neutral(code)
      <4>1. 1 \in (1 .. Len(wire)) \ {l}
        BY <1>1, <2>2
      <4> QED
        BY <1>1, <2>0, <4>1 DEF OthersNeutral
    <3>2. l - 1 \in 1 .. Len(wire') /\ Len(wire') = l - 1 /\ wire'[Len(wire')] = wire[l]
      BY <1>3, <2>l, <2>0, <2>2
    <3>3. OthersNeutral(Len(wire))'
      <4>1. OthersNeutral(l - 1)'
        BY <1>4, <2>0
      <4> QED
        BY <3>2, <4>1 DEF OthersNeutral
    <3>4. Alike(Flags(kbd_status', wire[l]), Flags(kbd_status, wire[l]))
      BY <1>5, <2>0, <3>1, AlikeAfter
    <3>5. FlagsRight(Flags(kbd_status, wire[Len(wire)]))'
      BY <1>2, <2>0, <3>2, <3>4 DEF FlagsRight, Alike
    <3>6. MetaComes'
      BY <2>0, <3>2, <3>3, <3>5 DEF MetaComes
    <3> QED
      BY <1>2, <1>3, <1>5, <1>8, <3>1, <3>6 DEF WireBrings
  <2> QED
    BY <2>1, <2>2
<1>9. ASSUME NEW j \in 1 .. Len(wire), CharComes(j),
             IF Meant(wire[j]) = NoChar THEN w = 0
             ELSE w = 1 /\ Len(typed) > 0 /\ typed[Len(typed)] = Meant(wire[j])
      PROVE  \/ UNCHANGED pipeVars /\ WireBrings(w)'
             \/ /\ w = 1 /\ Len(typed) > 0 /\ WireBrings(0)'
                /\ write_to_pipe(typed[Len(typed)])
  <2>0. /\ wire[j] \in KeyCodes /\ j < Len(wire) /\ OthersNeutral(j) /\ FlagsRight(kbd_status)
        /\ j \in Nat /\ j >= 1 /\ TypeScope(wire[j])
    BY <1>9 DEF CharComes
  <2>1. CASE j = 1
    <3>1. Alike(kbd_status', kbd_status)
      BY <1>1, <1>2, <2>0, <2>1, NeutralAfter
    <3>2. FlagsRight(kbd_status)' /\ FlagsRight(kbd_status')
      <4>1. FlagsRight(kbd_status)'
        BY <1>6, <2>0, <3>1
      <4> QED
        BY <2>0, <3>1, <4>1 DEF FlagsRight, Alike
    <3>3. char = Meant(wire[1])
      BY <1>1, <1>2, <2>0, <2>1, <3>2, MeantIsConverted DEF char
    <3>4. Idle'
      <4>1. OthersNeutral(0)'
        <5>1. OthersNeutral(j - 1)' /\ j - 1 = 0
          BY <1>4, <2>0, <2>1
        <5> QED
          BY <5>1
      <4> QED
        BY <3>2, <4>1 DEF Idle
    <3>5. CASE char = NoChar
      <4>1. w = 0 /\ UNCHANGED pipeVars
        BY <1>2, <1>9, <2>1, <3>3, <3>5
      <4> QED
        BY <3>4, <4>1 DEF WireBrings
    <3>6. CASE char # NoChar /\ rebooted'
      <4>1. UNCHANGED pipeVars
        BY <1>2, <3>6
      <4>2. wire' # <<>>
        BY <1>3, <2>0, <2>1
      <4> QED
        BY <3>6, <4>1, <4>2 DEF WireBrings
    <3>7. CASE char # NoChar /\ ~ rebooted'
      <4>1. w = 1 /\ Len(typed) > 0 /\ typed[Len(typed)] = char
        BY <1>9, <2>1, <3>3, <3>7
      <4>2. write_to_pipe(char)
        BY <1>2, <3>7
      <4>3. WireBrings(0)'
        BY <3>4 DEF WireBrings
      <4> QED
        BY <4>1, <4>2, <4>3
    <3> QED
      BY <3>5, <3>6, <3>7
  <2>2. CASE j # 1
    <3>1. Neutral(code)
      BY <1>1, <2>0, <2>2 DEF OthersNeutral
    <3>2. j - 1 \in 1 .. Len(wire') /\ j - 1 < Len(wire') /\ wire'[j - 1] = wire[j]
      BY <1>3, <2>0, <2>2
    <3>3. OthersNeutral(j - 1)'
      BY <1>4, <2>0
    <3>4. FlagsRight(kbd_status)'
      BY <1>5, <1>6, <2>0, <3>1
    <3>5. CharComes(j - 1)'
      <4>1. TypeScope(wire[j - 1])'
        BY <1>2, <2>0, <3>2 DEF TypeScope
      <4> QED
        BY <2>0, <3>2, <3>3, <3>4, <4>1 DEF CharComes
    <3>6. Meant(wire[j - 1])' = Meant(wire[j])
      BY <1>2, <3>2 DEF Meant
    <3>7. WireBrings(w)'
      BY <1>2, <1>9, <3>2, <3>5, <3>6 DEF WireBrings
    <3> QED
      BY <1>5, <3>1, <3>7
  <2> QED
    BY <2>1, <2>2
<1> QED
  BY <1>2, <1>3, <1>7, <1>8, <1>9 DEF WireBrings

-----------------------------------------------------------------------------
(* ty without its first d characters is the input from from to to, then n  *)
(* bytes of the pipe, and then w more.                                     *)
Streams(ty, inp, from, to, dat, n, d, w) ==
  /\ Len(ty) = d + (to - from) + n + w
  /\ \A k \in from .. (to - 1) : inp[k] = ty[d + 1 + (k - from)]
  /\ \A k \in 0 .. (n - 1) : dat[k] = ty[d + 1 + (to - from) + k]

(* The shell has done with the first d characters of ty: the newlines      *)
(* among them are at nl, the lines rn that it has processed each end       *)
(* before one, and begin after the one before unless they are long. If it  *)
(* is inside a line, it has dropped BUFSIZE characters of it or more.      *)
RanIs(ty, rn, d, nl) ==
  LET m == Len(rn) IN
  /\ nl \in [0 .. m -> 0 .. d] /\ nl[0] = 0
  /\ \A i, j \in 0 .. m : i < j => nl[i] < nl[j]
  /\ \A n \in 1 .. m : ty[nl[n]] = NEWLINE
  /\ \A k \in 1 .. d : ty[k] = NEWLINE => \E n \in 1 .. m : nl[n] = k
  /\ \A n \in 1 .. m : \E s \in (nl[n - 1] + 1) .. nl[n] :
       /\ rn[n] = [k \in 1 .. (nl[n] - s) |-> ty[s + k - 1]]
       /\ nl[n] - 1 - nl[n - 1] < BUFSIZE => s = nl[n - 1] + 1
  /\ d = nl[m] \/ d - nl[m] >= BUFSIZE

(* How far the bytes of the shell's buffer go.                             *)
Edge == IF at \in {"echo", "scan", "wait"} THEN end ELSE pos

(* The inductive invariant behind LinesIntact.                             *)
LinesInv ==
  /\ wire \in Seq(Nat) /\ (\E C : typed \in Seq(C)) /\ (\E C : ran \in Seq(C))
  /\ data = [k \in 0 .. (alloc - 1) |-> data[k]]
  /\ input = [k \in 0 .. (2 * BUFSIZE) |-> input[k]]
  /\ \A k \in linestart .. (pos - 1) : input[k] # NEWLINE
  /\ \E d \in Nat, w \in {0, 1} : \E nl :
       /\ WireBrings(w)
       /\ Streams(typed, input, linestart, Edge, data, len, d, w)
       /\ RanIs(typed, ran, d, nl)

LEMMA StreamTyped ==
  ASSUME NEW C, NEW ty \in Seq(C), NEW c, NEW inp, NEW dat, NEW from \in Nat, NEW to \in Nat,
         from <= to, NEW n \in Nat, NEW d \in Nat, Streams(ty, inp, from, to, dat, n, d, 0)
  PROVE  Streams(Append(ty, c), inp, from, to, dat, n, d, 1)
<1>1. /\ Len(Append(ty, c)) = Len(ty) + 1 /\ Len(ty) \in Nat
      /\ \A k \in 1 .. Len(ty) : Append(ty, c)[k] = ty[k]
  OBVIOUS
<1>2. Len(ty) = d + (to - from) + n
  BY DEF Streams
<1>3. Len(Append(ty, c)) = d + (to - from) + n + 1
  BY <1>1, <1>2
<1>4. ASSUME NEW k \in from .. (to - 1) PROVE inp[k] = Append(ty, c)[d + 1 + (k - from)]
  <2>1. d + 1 + (k - from) \in 1 .. Len(ty)
    BY <1>2
  <2> QED
    BY <1>1, <2>1 DEF Streams
<1>5. ASSUME NEW k \in 0 .. (n - 1) PROVE dat[k] = Append(ty, c)[d + 1 + (to - from) + k]
  <2>1. d + 1 + (to - from) + k \in 1 .. Len(ty)
    BY <1>2
  <2> QED
    BY <1>1, <2>1 DEF Streams
<1> QED
  BY <1>3, <1>4, <1>5 DEF Streams

LEMMA StreamPipe ==
  ASSUME NEW ty, NEW inp, NEW dat, NEW from \in Nat, NEW to \in Nat,
         from <= to, NEW n \in Nat, NEW d \in Nat, Streams(ty, inp, from, to, dat, n, d, 1),
         NEW dat2, \A k \in 0 .. (n - 1) : dat2[k] = dat[k], dat2[n] = ty[Len(ty)]
  PROVE  Streams(ty, inp, from, to, dat2, n + 1, d, 0)
<1>1. Len(ty) = d + 1 + (to - from) + n
  BY DEF Streams
<1>2. \A k \in 0 .. n : dat2[k] = ty[d + 1 + (to - from) + k]
  <2>1. \A k \in 0 .. n : k \in 0 .. (n - 1) \/ k = n
    OBVIOUS
  <2>2. dat2[n] = ty[d + 1 + (to - from) + n]
    BY <1>1
  <2> QED
    BY <2>1, <2>2 DEF Streams
<1>3. (n + 1) - 1 = n /\ Len(ty) = d + (to - from) + (n + 1) + 0
  BY <1>1
<1> QED
  BY <1>2, <1>3 DEF Streams

(* m bytes go from the pipe to the buffer, the others move up.             *)
Moves(inp, dat, from, to, n, m, inp2, dat2) ==
  /\ \A k \in from .. (to - 1) : inp2[k] = inp[k]
  /\ \A k \in to .. (to + m - 1) : inp2[k] = dat[k - to]
  /\ \A k \in 0 .. (n - m - 1) : dat2[k] = dat[m + k]

LEMMA StreamRead ==
  ASSUME NEW ty, NEW inp, NEW dat, NEW from \in Nat, NEW to \in Nat,
         from <= to, NEW n \in Nat, NEW d \in Nat, NEW w \in Nat,
         Streams(ty, inp, from, to, dat, n, d, w),
         NEW m \in Nat, m <= n, NEW inp2, NEW dat2,
         Moves(inp, dat, from, to, n, m, inp2, dat2)
  PROVE  Streams(ty, inp2, from, to + m, dat2, n - m, d, w)
<1> USE DEF Moves
<1>1. Len(ty) = d + ((to + m) - from) + (n - m) + w
  BY DEF Streams
<1>2. ASSUME NEW k \in from .. ((to + m) - 1) PROVE inp2[k] = ty[d + 1 + (k - from)]
  <2>1. CASE k < to
    <3>1. k \in from .. (to - 1)
      BY <2>1
    <3> QED
      BY <3>1 DEF Streams
  <2>2. CASE k >= to
    <3>1. k \in to .. (to + m - 1) /\ k - to \in 0 .. (n - 1)
      BY <2>2
    <3>2. dat[k - to] = ty[d + 1 + (to - from) + (k - to)]
      BY <3>1 DEF Streams
    <3>3. d + 1 + (to - from) + (k - to) = d + 1 + (k - from)
      OBVIOUS
    <3> QED
      BY <3>1, <3>2, <3>3
  <2> QED
    BY <2>1, <2>2
<1>3. ASSUME NEW k \in 0 .. ((n - m) - 1) PROVE dat2[k] = ty[d + 1 + ((to + m) - from) + k]
  <2>1. m + k \in 0 .. (n - 1) /\ k \in 0 .. (n - m - 1)
    OBVIOUS
  <2>2. dat[m + k] = ty[d + 1 + (to - from) + (m + k)]
    BY <2>1 DEF Streams
  <2>3. d + 1 + (to - from) + (m + k) = d + 1 + ((to + m) - from) + k
    OBVIOUS
  <2> QED
    BY <2>1, <2>2, <2>3
<1> QED
  BY <1>1, <1>2, <1>3 DEF Streams

LEMMA StreamLine ==
  ASSUME NEW ty, NEW inp, NEW dat, NEW from \in Nat, NEW to \in Nat,
         NEW n \in Nat, NEW d \in Nat, NEW w \in Nat,
         Streams(ty, inp, from, to, dat, n, d, w),
         NEW eol \in from .. (to - 1), NEW inp2,
         \A k \in (eol + 1) .. (to - 1) : inp2[k] = inp[k]
  PROVE  Streams(ty, inp2, eol + 1, to, dat, n, d + (eol - from) + 1, w)
<1>1. Len(ty) = (d + (eol - from) + 1) + (to - (eol + 1)) + n + w
  BY DEF Streams
<1>2. ASSUME NEW k \in (eol + 1) .. (to - 1)
      PROVE  inp2[k] = ty[(d + (eol - from) + 1) + 1 + (k - (eol + 1))]
  <2>1. k \in from .. (to - 1)
    OBVIOUS
  <2>2. inp[k] = ty[d + 1 + (k - from)]
    BY <2>1 DEF Streams
  <2>3. (d + (eol - from) + 1) + 1 + (k - (eol + 1)) = d + 1 + (k - from)
    BY <2>1
  <2> QED
    BY <2>2, <2>3
<1>3. ASSUME NEW k \in 0 .. (n - 1)
      PROVE  dat[k] = ty[(d + (eol - from) + 1) + 1 + (to - (eol + 1)) + k]
  <2>1. dat[k] = ty[d + 1 + (to - from) + k]
    BY DEF Streams
  <2>2. (d + (eol - from) + 1) + 1 + (to - (eol + 1)) + k = d + 1 + (to - from) + k
    OBVIOUS
  <2> QED
    BY <2>1, <2>2
<1> QED
  BY <1>1, <1>2, <1>3 DEF Streams

LEMMA StreamShift ==
  ASSUME NEW ty, NEW inp, NEW dat, NEW from \in Nat, NEW to \in Nat, from <= to,
         NEW n \in Nat, NEW d \in Nat, NEW w \in Nat,
         Streams(ty, inp, from, to, dat, n, d, w), NEW inp2,
         \A k \in 0 .. (to - from - 1) : inp2[k] = inp[from + k]
  PROVE  /\ Streams(ty, inp2, 0, to - from, dat, n, d, w)
         /\ Streams(ty, inp2, 0, 0, dat, n, d + (to - from), w)
<1>1. /\ Len(ty) = d + ((to - from) - 0) + n + w
      /\ Len(ty) = (d + (to - from)) + (0 - 0) + n + w
  BY DEF Streams
<1>2. ASSUME NEW k \in 0 .. ((to - from) - 1) PROVE inp2[k] = ty[d + 1 + (k - 0)]
  <2>1. from + k \in from .. (to - 1) /\ k \in 0 .. (to - from - 1)
    OBVIOUS
  <2>2. inp[from + k] = ty[d + 1 + ((from + k) - from)]
    BY <2>1 DEF Streams
  <2>3. d + 1 + ((from + k) - from) = d + 1 + (k - 0)
    OBVIOUS
  <2> QED
    BY <2>1, <2>2, <2>3
<1>3. ASSUME NEW k \in 0 .. (n - 1)
      PROVE  /\ dat[k] = ty[d + 1 + ((to - from) - 0) + k]
             /\ dat[k] = ty[(d + (to - from)) + 1 + (0 - 0) + k]
  <2>1. dat[k] = ty[d + 1 + (to - from) + k]
    BY DEF Streams
  <2>2. /\ d + 1 + ((to - from) - 0) + k = d + 1 + (to - from) + k
        /\ (d + (to - from)) + 1 + (0 - 0) + k = d + 1 + (to - from) + k
    OBVIOUS
  <2> QED
    BY <2>1, <2>2
<1>4. \A k \in 0 .. (0 - 1) : FALSE
  OBVIOUS
<1> QED
  BY <1>1, <1>2, <1>3, <1>4 DEF Streams

(* Only the first d characters matter.                                     *)
LEMMA RanKept ==
  ASSUME NEW ty, NEW ty2, NEW R, NEW rn \in Seq(R), NEW d \in Nat, NEW nl,
         RanIs(ty, rn, d, nl), \A k \in 1 .. d : ty2[k] = ty[k]
  PROVE  RanIs(ty2, rn, d, nl)
<1> DEFINE m == Len(rn)
<1>0. m \in Nat
  OBVIOUS
<1> HIDE DEF m
<1>1. /\ nl \in [0 .. m -> 0 .. d] /\ nl[0] = 0
      /\ \A i, j \in 0 .. m : i < j => nl[i] < nl[j]
      /\ \A n \in 1 .. m : ty[nl[n]] = NEWLINE
      /\ \A k \in 1 .. d : ty[k] = NEWLINE => \E n \in 1 .. m : nl[n] = k
      /\ d = nl[m] \/ d - nl[m] >= BUFSIZE
  BY DEF RanIs, m
<1>2. \A n \in 1 .. m : n - 1 \in 0 .. m /\ nl[n] \in Nat /\ nl[n - 1] \in Nat /\ nl[n] \in 1 .. d
  <2> TAKE n \in 1 .. m
  <2>1. n \in 0 .. m /\ 0 \in 0 .. m /\ n - 1 \in 0 .. m /\ 0 < n
    BY <1>0
  <2>2. nl[n] \in 0 .. d /\ nl[n - 1] \in 0 .. d /\ nl[0] < nl[n]
    BY <1>1, <2>1
  <2> QED
    BY <1>1, <2>1, <2>2
<1>3. \A n \in 1 .. m : ty2[nl[n]] = NEWLINE
  BY <1>1, <1>2
<1>4. \A k \in 1 .. d : ty2[k] = NEWLINE => \E n \in 1 .. m : nl[n] = k
  BY <1>1
<1>5. ASSUME NEW n \in 1 .. m
      PROVE  \E s \in (nl[n - 1] + 1) .. nl[n] :
               /\ rn[n] = [k \in 1 .. (nl[n] - s) |-> ty2[s + k - 1]]
               /\ nl[n] - 1 - nl[n - 1] < BUFSIZE => s = nl[n - 1] + 1
  <2>1. PICK s \in (nl[n - 1] + 1) .. nl[n] :
               /\ rn[n] = [k \in 1 .. (nl[n] - s) |-> ty[s + k - 1]]
               /\ nl[n] - 1 - nl[n - 1] < BUFSIZE => s = nl[n - 1] + 1
    BY DEF RanIs, m
  <2>2. \A k \in 1 .. (nl[n] - s) : s + k - 1 \in 1 .. d
    BY <1>2
  <2>3. [k \in 1 .. (nl[n] - s) |-> ty2[s + k - 1]] = [k \in 1 .. (nl[n] - s) |-> ty[s + k - 1]]
    BY <2>2
  <2> QED
    BY <2>1, <2>3
<1> QED
  BY <1>1, <1>3, <1>4, <1>5 DEF RanIs, m

(* A line is processed.                                                    *)
LEMMA RanLine ==
  ASSUME NEW ty, NEW R, NEW rn \in Seq(R), NEW d \in Nat, NEW nl, RanIs(ty, rn, d, nl),
         NEW z \in Nat, ty[d + z + 1] = NEWLINE, \A k \in 1 .. z : ty[d + k] # NEWLINE,
         NEW line, line = [k \in 1 .. z |-> ty[d + k]]
  PROVE  \E nl2 : RanIs(ty, Append(rn, line), d + z + 1, nl2)
<1> DEFINE m == Len(rn)
           e == d + z + 1
           rn2 == Append(rn, line)
           nl2 == [k \in 0 .. (m + 1) |-> IF k = m + 1 THEN e ELSE nl[k]]
<1>0. m \in Nat /\ e \in Nat /\ e > d /\ BUFSIZE \in Nat
  BY BufferFacts
<1>1. /\ nl \in [0 .. m -> 0 .. d] /\ nl[0] = 0
      /\ \A i, j \in 0 .. m : i < j => nl[i] < nl[j]
      /\ \A n \in 1 .. m : ty[nl[n]] = NEWLINE
      /\ \A k \in 1 .. d : ty[k] = NEWLINE => \E n \in 1 .. m : nl[n] = k
      /\ d = nl[m] \/ d - nl[m] >= BUFSIZE
  BY DEF RanIs
<1>r. rn2 \in Seq(R \cup {line}) /\ Len(rn2) = m + 1 /\ rn2[m + 1] = line
      /\ \A n \in 1 .. m : rn2[n] = rn[n]
  <2>1. rn \in Seq(R \cup {line}) /\ line \in R \cup {line}
    OBVIOUS
  <2> HIDE DEF rn2
  <2> QED
    BY <2>1 DEF rn2
<1>p. \A n \in 1 .. m : \E s \in (nl[n - 1] + 1) .. nl[n] :
               /\ rn[n] = [k \in 1 .. (nl[n] - s) |-> ty[s + k - 1]]
               /\ nl[n] - 1 - nl[n - 1] < BUFSIZE => s = nl[n - 1] + 1
  BY DEF RanIs
<1>2. /\ \A k \in 0 .. m : nl2[k] = nl[k] /\ nl[k] \in 0 .. d
      /\ nl2[m + 1] = e
  BY <1>0, <1>1
<1>3. nl2 \in [0 .. (m + 1) -> 0 .. e] /\ nl2[0] = 0
  BY <1>0, <1>1
<1>l. ty[e] = NEWLINE /\ e = d + z + 1
  OBVIOUS
<1> HIDE DEF m, e, rn2, nl2
<1>4. \A n \in 1 .. (m + 1) : n \in 1 .. m \/ n = m + 1
  BY <1>0
<1>5. ASSUME NEW i \in 0 .. (m + 1), NEW j \in 0 .. (m + 1), i < j PROVE nl2[i] < nl2[j]
  <2>0. i \in 0 .. m
    BY <1>0, <1>5
  <2>1. CASE j = m + 1
    <3>1. nl2[i] \in 0 .. d /\ nl2[j] = e
      BY <1>2, <2>0, <2>1
    <3> QED
      BY <1>0, <3>1
  <2>2. CASE j # m + 1
    <3>1. j \in 0 .. m
      BY <1>0, <2>2
    <3> QED
      BY <1>1, <1>2, <1>5, <2>0, <3>1
  <2> QED
    BY <2>1, <2>2
<1>6. \A n \in 1 .. (m + 1) : ty[nl2[n]] = NEWLINE
  <2>1. \A n \in 1 .. m : n \in 0 .. m
    BY <1>0
  <2> QED
    BY <1>1, <1>2, <1>4, <1>l, <2>1
<1>7. ASSUME NEW k \in 1 .. e, ty[k] = NEWLINE PROVE \E n \in 1 .. (m + 1) : nl2[n] = k
  <2>1. CASE k \in 1 .. d
    <3>1. PICK n \in 1 .. m : nl[n] = k
      BY <1>1, <1>7, <2>1
    <3>2. n \in 1 .. (m + 1) /\ n \in 0 .. m
      BY <1>0
    <3> QED
      BY <1>2, <3>1, <3>2
  <2>2. CASE k = e
    <3>1. m + 1 \in 1 .. (m + 1)
      BY <1>0
    <3> QED
      BY <1>2, <2>2, <3>1
  <2>3. CASE k \notin 1 .. d /\ k # e
    <3>1. k - d \in 1 .. z /\ d + (k - d) = k
      BY <1>0, <1>l, <2>3
    <3> QED
      BY <1>7, <3>1
  <2> QED
    BY <2>1, <2>2, <2>3
<1>8. ASSUME NEW n \in 1 .. (m + 1)
      PROVE  \E s \in (nl2[n - 1] + 1) .. nl2[n] :
               /\ rn2[n] = [k \in 1 .. (nl2[n] - s) |-> ty[s + k - 1]]
               /\ nl2[n] - 1 - nl2[n - 1] < BUFSIZE => s = nl2[n - 1] + 1
  <2>1. CASE n \in 1 .. m
    <3>1. n \in 0 .. m /\ n - 1 \in 0 .. m
      BY <1>0, <2>1
    <3>2. nl2[n] = nl[n] /\ nl2[n - 1] = nl[n - 1] /\ rn2[n] = rn[n]
      BY <1>2, <1>r, <2>1, <3>1
    <3> QED
      BY <1>p, <2>1, <3>2
  <2>2. CASE n = m + 1
    <3>1. nl2[n] = e /\ n - 1 = m /\ nl2[n - 1] = nl[m] /\ nl[m] \in 0 .. d /\ rn2[n] = line
      BY <1>0, <1>2, <1>r, <2>2
    <3>2. d + 1 \in (nl[m] + 1) .. e
      BY <1>0, <3>1
    <3>3. line = [k \in 1 .. (e - (d + 1)) |-> ty[(d + 1) + k - 1]]
      <4>1. e - (d + 1) = z /\ \A k \in 1 .. z : (d + 1) + k - 1 = d + k
        BY <1>l
      <4> QED
        BY <4>1
    <3>4. e - 1 - nl[m] < BUFSIZE => d + 1 = nl[m] + 1
      <4>1. PICK b \in Nat : b = nl[m] /\ b <= d
        BY <3>1
      <4>2. d = b \/ d - b >= BUFSIZE
        BY <1>1, <4>1 DEF m
      <4>3. e - 1 - b = (d - b) + z
        BY <1>l, <4>1
      <4>4. ~ (d - b >= BUFSIZE /\ (d - b) + z < BUFSIZE)
        BY <1>0, <4>1
      <4>5. e - 1 - b < BUFSIZE => d = b
        BY <4>2, <4>3, <4>4, Zenon
      <4> QED
        BY <4>1, <4>5, Zenon
    <3> QED
      BY <3>1, <3>2, <3>3, <3>4
  <2> QED
    BY <1>4, <2>1, <2>2
<1>9. e = nl2[m + 1]
  BY <1>2
<1>10. RanIs(ty, rn2, e, nl2)
  BY <1>r, <1>3, <1>5, <1>6, <1>7, <1>8, <1>9 DEF RanIs
<1> QED
  BY <1>10 DEF rn2, e

(* BUFSIZE or more characters of a line are dropped.                       *)
LEMMA RanDropped ==
  ASSUME NEW ty, NEW R, NEW rn \in Seq(R), NEW d \in Nat, NEW nl, RanIs(ty, rn, d, nl),
         NEW z \in Nat, z >= BUFSIZE, \A k \in 1 .. z : ty[d + k] # NEWLINE
  PROVE  RanIs(ty, rn, d + z, nl)
<1> DEFINE m == Len(rn)
<1>0. m \in Nat /\ BUFSIZE \in Nat
  BY BufferFacts
<1> HIDE DEF m
<1>1. /\ nl \in [0 .. m -> 0 .. d] /\ nl[0] = 0
      /\ \A i, j \in 0 .. m : i < j => nl[i] < nl[j]
      /\ \A n \in 1 .. m : ty[nl[n]] = NEWLINE
      /\ \A k \in 1 .. d : ty[k] = NEWLINE => \E n \in 1 .. m : nl[n] = k
      /\ \A n \in 1 .. m : \E s \in (nl[n - 1] + 1) .. nl[n] :
           /\ rn[n] = [k \in 1 .. (nl[n] - s) |-> ty[s + k - 1]]
           /\ nl[n] - 1 - nl[n - 1] < BUFSIZE => s = nl[n - 1] + 1
  BY DEF RanIs, m
<1>2. nl \in [0 .. m -> 0 .. (d + z)]
  <2>1. \A k \in 0 .. m : nl[k] \in 0 .. (d + z)
    BY <1>1
  <2> QED
    BY <1>1, <2>1
<1>3. ASSUME NEW k \in 1 .. (d + z), ty[k] = NEWLINE PROVE \E n \in 1 .. m : nl[n] = k
  <2>1. CASE k <= d
    BY <1>1, <1>3, <2>1
  <2>2. CASE k > d
    <3>1. k - d \in 1 .. z /\ d + (k - d) = k
      BY <2>2
    <3> QED
      BY <1>3, <3>1
  <2> QED
    BY <2>1, <2>2
<1>4. (d + z) - nl[m] >= BUFSIZE
  <2>1. nl[m] \in 0 .. d
    BY <1>0, <1>1
  <2> QED
    BY <1>0, <2>1
<1> QED
  BY <1>1, <1>2, <1>3, <1>4 DEF RanIs, m

-----------------------------------------------------------------------------
LEMMA LinesInvInit == Init => LinesInv
<1> SUFFICES ASSUME Init PROVE LinesInv
  OBVIOUS
<1>1. /\ kbd_status = {} /\ wire = <<>> /\ held = {} /\ lost = {} /\ capitals = FALSE /\ typed = <<>>
      /\ alloc = BUFSIZE /\ len = 0 /\ data = [k \in 0 .. (BUFSIZE - 1) |-> Garbage]
      /\ input = [k \in 0 .. (2 * BUFSIZE) |-> Garbage]
      /\ pos = 0 /\ linestart = 0 /\ at = "start" /\ ran = <<>>
  BY DEF Init, KeyboardInit, ShellInit
<1> DEFINE nl == [k \in 0 .. 0 |-> 0]
<1>2. Edge = 0
  BY <1>1 DEF Edge
<1>3. WireBrings(0)
  <2>1. FlagsRight(kbd_status)
    BY <1>1 DEF FlagsRight, HeldFlags
  <2>2. OthersNeutral(0)
    BY <1>1 DEF OthersNeutral
  <2> QED
    BY <2>1, <2>2 DEF WireBrings, Idle
<1>4. Streams(typed, input, linestart, Edge, data, len, 0, 0)
  BY <1>1, <1>2 DEF Streams
<1>5. RanIs(typed, ran, 0, nl)
  <2>1. Len(ran) = 0 /\ 0 \in 0 .. 0 /\ \A i \in 0 .. 0 : i = 0
    BY <1>1
  <2>2. nl \in [0 .. 0 -> 0 .. 0] /\ nl[0] = 0
    BY <2>1
  <2>3. \A n \in 1 .. 0 : FALSE
    OBVIOUS
  <2>4. \A i, j \in 0 .. 0 : ~ (i < j)
    OBVIOUS
  <2> HIDE DEF nl
  <2> QED
    BY <2>1, <2>2, <2>3, <2>4 DEF RanIs
<1>6. /\ wire \in Seq(Nat) /\ typed \in Seq(Nat) /\ ran \in Seq(Nat)
      /\ data = [k \in 0 .. (alloc - 1) |-> data[k]]
      /\ input = [k \in 0 .. (2 * BUFSIZE) |-> input[k]]
      /\ \A k \in linestart .. (pos - 1) : input[k] # NEWLINE
  BY <1>1
<1> HIDE DEF nl
<1> QED
  BY <1>3, <1>4, <1>5, <1>6 DEF LinesInv

LEMMA WireSame ==
  ASSUME NEW w, WireBrings(w), UNCHANGED keyVars
  PROVE  WireBrings(w)' /\ typed' = typed /\ wire' = wire
BY DEF keyVars, WireBrings, Idle, MetaComes, CharComes, OthersNeutral, FlagsRight, Meant, TypeScope

LEMMA EdgeFacts ==
  ASSUME ShellInv
  PROVE  Edge \in Nat /\ linestart \in Nat /\ linestart <= Edge /\ len \in Nat
BY DEF ShellInv, Edge

LEMMA LinesQuiet ==
  ASSUME LinesInv, UNCHANGED <<keyVars, pipeVars, lineVars, ran>>, Edge' = Edge
  PROVE  LinesInv'
<1>0. PICK d \in Nat, w \in {0, 1} : \E nl :
        /\ WireBrings(w)
        /\ Streams(typed, input, linestart, Edge, data, len, d, w)
        /\ RanIs(typed, ran, d, nl)
  BY DEF LinesInv
<1>1. PICK nl :
        /\ WireBrings(w)
        /\ Streams(typed, input, linestart, Edge, data, len, d, w)
        /\ RanIs(typed, ran, d, nl)
  BY <1>0
<1>2. WireBrings(w)' /\ typed' = typed /\ wire' = wire
  BY <1>1, WireSame
<1>3. UNCHANGED <<data, alloc, len, input, pos, linestart, ran, Edge>>
  BY DEF pipeVars, lineVars
<1>4. /\ Streams(typed, input, linestart, Edge, data, len, d, w)'
      /\ RanIs(typed, ran, d, nl)'
  BY <1>1, <1>2, <1>3
<1> QED
  BY <1>2, <1>3, <1>4 DEF LinesInv

(* The user types: at most one character more is on its way.               *)
LEMMA LinesUser ==
  ASSUME ShellInv, LinesInv, UserTypes, UNCHANGED shellVars
  PROVE  LinesInv'
<1>0. PICK d \in Nat, w \in {0, 1} : \E nl :
        /\ WireBrings(w)
        /\ Streams(typed, input, linestart, Edge, data, len, d, w)
        /\ RanIs(typed, ran, d, nl)
  BY DEF LinesInv
<1>1. PICK nl :
        /\ WireBrings(w)
        /\ Streams(typed, input, linestart, Edge, data, len, d, w)
        /\ RanIs(typed, ran, d, nl)
  BY <1>0
<1>2. PICK C : typed \in Seq(C)
  BY DEF LinesInv
<1>3. PICK R : ran \in Seq(R)
  BY DEF LinesInv
<1>4. UNCHANGED <<data, alloc, len, input, pos, linestart, ran, Edge>>
  BY DEF shellVars, pipeVars, lineVars, Edge
<1>5. /\ w = 0 /\ wire' \in Seq(Nat)
      /\ \/ typed' = typed /\ WireBrings(0)'
         \/ \E c : typed' = Append(typed, c) /\ WireBrings(1)'
  <2>1. ASSUME NEW key \in CharKeys, TypeChar(key)
        PROVE  /\ w = 0 /\ wire' \in Seq(Nat)
               /\ \/ typed' = typed /\ WireBrings(0)'
                  \/ \E c : typed' = Append(typed, c) /\ WireBrings(1)'
    BY <1>1, <1>2, <2>1, WireTypeChar
  <2>2. ASSUME NEW key \in MetaKeys, MetaDown(key) \/ MetaUp(key)
        PROVE  w = 0 /\ wire' \in Seq(Nat) /\ typed' = typed /\ WireBrings(0)'
    BY <1>1, <2>2, WireMetaDown, WireMetaUp
  <2> QED
    BY <2>1, <2>2, Zenon DEF UserTypes
<1>6. CASE typed' = typed /\ WireBrings(0)'
  <2>1. /\ Streams(typed, input, linestart, Edge, data, len, d, 0)'
        /\ RanIs(typed, ran, d, nl)'
    BY <1>1, <1>4, <1>5, <1>6
  <2> QED
    BY <1>2, <1>4, <1>5, <1>6, <2>1 DEF LinesInv
<1>7. ASSUME NEW c, typed' = Append(typed, c), WireBrings(1)' PROVE LinesInv'
  <2>1. Streams(typed', input, linestart, Edge, data, len, d, 1)
    BY <1>1, <1>2, <1>5, <1>7, StreamTyped, EdgeFacts
  <2>2. d \in 0 .. Len(typed)
    <3>1. Len(typed) = d + (Edge - linestart) + len + 0 /\ Len(typed) \in Nat
      BY <1>1, <1>2, <1>5 DEF Streams
    <3> QED
      BY <3>1, EdgeFacts
  <2>3. \A k \in 1 .. d : typed'[k] = typed[k]
    BY <1>2, <1>7, <2>2
  <2>4. RanIs(typed', ran, d, nl)
    BY <1>1, <1>3, <2>3, RanKept
  <2>5. typed' \in Seq(C \cup {c})
    BY <1>2, <1>7
  <2>6. Streams(typed, input, linestart, Edge, data, len, d, 1)' /\ RanIs(typed, ran, d, nl)'
    BY <1>4, <2>1, <2>4
  <2>7. 1 \in {0, 1}
    OBVIOUS
  <2>8. \E d_1 \in Nat, w_1 \in {0, 1} : \E nl_1 :
          /\ WireBrings(w_1)'
          /\ Streams(typed, input, linestart, Edge, data, len, d_1, w_1)'
          /\ RanIs(typed, ran, d_1, nl_1)'
    BY <1>7, <2>6, <2>7
  <2>9. /\ data' = [k \in 0 .. (alloc' - 1) |-> data'[k]]
        /\ input' = [k \in 0 .. (2 * BUFSIZE) |-> input'[k]]
        /\ \A k \in linestart' .. (pos' - 1) : input'[k] # NEWLINE
        /\ \E S : ran' \in Seq(S)
    BY <1>4 DEF LinesInv
  <2> QED
    BY <1>5, <2>5, <2>8, <2>9 DEF LinesInv
<1> QED
  BY <1>5, <1>6, <1>7

(* An interrupt moves a character from the wire to the pipe.               *)
LEMMA LinesHandler ==
  ASSUME ShellInv, LinesInv, keyboard_handler, ~ rebooted
  PROVE  LinesInv'
<1>0. PICK d \in Nat, w \in {0, 1} : \E nl :
        /\ WireBrings(w)
        /\ Streams(typed, input, linestart, Edge, data, len, d, w)
        /\ RanIs(typed, ran, d, nl)
  BY DEF LinesInv
<1>1. PICK nl :
        /\ WireBrings(w)
        /\ Streams(typed, input, linestart, Edge, data, len, d, w)
        /\ RanIs(typed, ran, d, nl)
  BY <1>0
<1>2. wire \in Seq(Nat) /\ data = [k \in 0 .. (alloc - 1) |-> data[k]]
  BY DEF LinesInv
<1>4. UNCHANGED <<input, pos, linestart, ran, Edge>>
  BY DEF keyboard_handler, lineVars, Edge
<1>5. /\ typed' = typed /\ wire' \in Seq(Nat)
      /\ \/ UNCHANGED pipeVars /\ WireBrings(w)'
         \/ /\ w = 1 /\ Len(typed) > 0 /\ WireBrings(0)'
            /\ write_to_pipe(typed[Len(typed)])
  BY <1>1, <1>2, WireHandler
<1>6. CASE UNCHANGED pipeVars /\ WireBrings(w)'
  <2>1. UNCHANGED <<data, alloc, len>>
    BY <1>6 DEF pipeVars
  <2>2. Streams(typed, input, linestart, Edge, data, len, d, w)' /\ RanIs(typed, ran, d, nl)'
    BY <1>1, <1>4, <1>5, <2>1
  <2> QED
    BY <1>4, <1>5, <1>6, <2>1, <2>2 DEF LinesInv
<1>7. CASE w = 1 /\ Len(typed) > 0 /\ WireBrings(0)' /\ write_to_pipe(typed[Len(typed)])
  <2>1. PICK c : c = typed[Len(typed)]
    OBVIOUS
  <2>2. /\ alloc' = IF len + 1 > alloc THEN alloc * 2 ELSE alloc
        /\ len' = len + 1
        /\ data' = [(IF len + 1 > alloc THEN Grown(alloc * 2) ELSE data) EXCEPT ![len] = c]
    BY <1>7, <2>1 DEF write_to_pipe
  <2>3. alloc \in Nat /\ alloc >= 1 /\ len \in Nat /\ len <= alloc
    BY DEF ShellInv
  <2>4. /\ data' = [k \in 0 .. (alloc' - 1) |-> data'[k]]
        /\ data'[len] = c /\ \A k \in 0 .. (len - 1) : data'[k] = data[k]
    <3>1. CASE len + 1 > alloc
      <4>1. data' = [Grown(alloc * 2) EXCEPT ![len] = c] /\ alloc' = alloc + alloc
        BY <2>2, <2>3, <3>1
      <4>2. Grown(alloc * 2) = [k \in 0 .. (alloc' - 1) |-> IF k < len THEN data[k] ELSE Garbage]
        BY <2>3, <4>1 DEF Grown
      <4>3. len \in 0 .. (alloc' - 1) /\ \A k \in 0 .. (len - 1) : k \in 0 .. (alloc' - 1) /\ k < len /\ k # len
        BY <2>3, <4>1
      <4> QED
        BY <4>1, <4>2, <4>3
    <3>2. CASE ~ (len + 1 > alloc)
      <4>1. data' = [data EXCEPT ![len] = c] /\ alloc' = alloc
        BY <2>2, <3>2
      <4>2. len \in 0 .. (alloc - 1) /\ \A k \in 0 .. (len - 1) : k \in 0 .. (alloc - 1) /\ k # len
        BY <2>3, <3>2
      <4> QED
        BY <1>2, <4>1, <4>2
    <3> QED
      BY <3>1, <3>2
  <2>5. Streams(typed, input, linestart, Edge, data', len + 1, d, 0)
    <3>1. Streams(typed, input, linestart, Edge, data, len, d, 1)
      BY <1>1, <1>7
    <3> QED
      BY <2>1, <2>4, <3>1, EdgeFacts, StreamPipe
  <2>6. Streams(typed, input, linestart, Edge, data, len, d, 0)' /\ RanIs(typed, ran, d, nl)'
    BY <1>1, <1>4, <1>5, <2>2, <2>5
  <2> QED
    BY <1>4, <1>5, <1>7, <2>4, <2>6 DEF LinesInv
<1> QED
  BY <1>5, <1>6, <1>7

(* A read moves bytes from the pipe to the buffer.                         *)
LEMMA LinesRead ==
  ASSUME ShellInv, LinesInv, Read, UNCHANGED keyVars
  PROVE  LinesInv'
<1>0. PICK d \in Nat, w \in {0, 1} : \E nl :
        /\ WireBrings(w)
        /\ Streams(typed, input, linestart, Edge, data, len, d, w)
        /\ RanIs(typed, ran, d, nl)
  BY DEF LinesInv
<1>1. PICK nl :
        /\ WireBrings(w)
        /\ Streams(typed, input, linestart, Edge, data, len, d, w)
        /\ RanIs(typed, ran, d, nl)
  BY <1>0
<1>2. /\ data = [k \in 0 .. (alloc - 1) |-> data[k]]
      /\ input = [k \in 0 .. (2 * BUFSIZE) |-> input[k]]
      /\ \A k \in linestart .. (pos - 1) : input[k] # NEWLINE
  BY DEF LinesInv
<1>3. PICK n \in Nat : n = (IF BUFSIZE < len THEN BUFSIZE ELSE len) /\ n <= len /\ n <= BUFSIZE
  BY BufferFacts DEF ShellInv
<1>4. /\ at = "read" /\ at' = "echo" /\ len' = len - n /\ end' = pos + n
      /\ input' = [k \in DOMAIN input |-> IF k \in pos .. (pos + n - 1) THEN data[k - pos]
                                          ELSE IF k = pos + n THEN "NUL" ELSE input[k]]
      /\ data' = IF len > n THEN memmove(data, 0, n, len - n) ELSE data
      /\ UNCHANGED <<alloc, pos, linestart, ran>>
  BY <1>3 DEF Read
<1>5. /\ pos \in Nat /\ linestart \in Nat /\ linestart <= pos /\ pos < BUFSIZE
      /\ len \in Nat /\ len <= alloc /\ alloc \in Nat /\ BUFSIZE \in Nat
  BY <1>4, BufferFacts DEF ShellInv
<1>6. Edge = pos /\ Edge' = pos + n
  BY <1>4 DEF Edge
<1>7. /\ input' = [k \in 0 .. (2 * BUFSIZE) |-> input'[k]]
      /\ \A k \in linestart .. (pos - 1) : input'[k] = input[k]
      /\ \A k \in pos .. (pos + n - 1) : input'[k] = data[k - pos]
  <2>1. DOMAIN input = 0 .. (2 * BUFSIZE)
    BY <1>2
  <2>2. \A k \in linestart .. (pos - 1) :
          k \in 0 .. (2 * BUFSIZE) /\ k \notin pos .. (pos + n - 1) /\ k # pos + n
    BY <1>3, <1>5
  <2>3. \A k \in pos .. (pos + n - 1) : k \in 0 .. (2 * BUFSIZE)
    BY <1>3, <1>5
  <2> QED
    BY <1>4, <2>1, <2>2, <2>3
<1>8. /\ data' = [k \in 0 .. (alloc' - 1) |-> data'[k]]
      /\ \A k \in 0 .. (len - n - 1) : data'[k] = data[n + k]
  <2>0. DOMAIN data = 0 .. (alloc - 1)
    BY <1>2
  <2>1. CASE len > n
    <3>1. data' = memmove(data, 0, n, len - n)
      BY <1>4, <2>1
    <3>2. /\ data' = [k \in 0 .. (alloc - 1) |-> data'[k]]
          /\ \A k \in 0 .. (alloc - 1) :
               ~ (k < 0 \/ k >= 0 + (len - n)) /\ ~ (n < 0) => data'[k] = data[n + (k - 0)]
      BY <2>0, <3>1 DEF memmove
    <3>3. \A k \in 0 .. (len - n - 1) :
            /\ k \in 0 .. (alloc - 1) /\ ~ (k < 0 \/ k >= 0 + (len - n)) /\ ~ (n < 0)
            /\ n + (k - 0) = n + k
      BY <1>3, <1>5
    <3> QED
      BY <1>4, <3>2, <3>3
  <2>2. CASE ~ (len > n)
    <3>1. data' = data /\ \A k \in 0 .. (len - n - 1) : FALSE
      BY <1>3, <1>4, <1>5, <2>2
    <3> QED
      BY <1>2, <1>4, <3>1
  <2> QED
    BY <2>1, <2>2
<1>9. WireBrings(w)' /\ typed' = typed /\ wire' = wire
  BY <1>1, WireSame
<1>10. Streams(typed, input', linestart, pos + n, data', len - n, d, w)
  <2>1. Streams(typed, input, linestart, pos, data, len, d, w) /\ w \in Nat
    BY <1>1, <1>6
  <2>2. /\ linestart \in Nat /\ pos \in Nat /\ linestart <= pos /\ len \in Nat
        /\ n \in Nat /\ n <= len
    BY <1>3, <1>5
  <2>3. Moves(input, data, linestart, pos, len, n, input', data')
    BY <1>7, <1>8 DEF Moves
  <2> QED
    BY <2>1, <2>2, <2>3, StreamRead
<1>11. Streams(typed, input, linestart, Edge, data, len, d, w)' /\ RanIs(typed, ran, d, nl)'
  BY <1>1, <1>4, <1>6, <1>9, <1>10
<1>12. \A k \in linestart' .. (pos' - 1) : input'[k] # NEWLINE
  BY <1>2, <1>4, <1>7
<1>13. wire' \in Seq(Nat) /\ (\E C : typed' \in Seq(C)) /\ (\E C : ran' \in Seq(C))
  BY <1>4, <1>9 DEF LinesInv
<1> QED
  BY <1>7, <1>8, <1>9, <1>11, <1>12, <1>13 DEF LinesInv

(* The line before the next newline is processed.                          *)
LEMMA LinesProcess ==
  ASSUME ShellInv, LinesInv, process_line, UNCHANGED keyVars
  PROVE  LinesInv'
<1>0. PICK d \in Nat, w \in {0, 1} : \E nl :
        /\ WireBrings(w)
        /\ Streams(typed, input, linestart, Edge, data, len, d, w)
        /\ RanIs(typed, ran, d, nl)
  BY DEF LinesInv
<1>1. PICK nl :
        /\ WireBrings(w)
        /\ Streams(typed, input, linestart, Edge, data, len, d, w)
        /\ RanIs(typed, ran, d, nl)
  BY <1>0
<1>2. /\ data = [k \in 0 .. (alloc - 1) |-> data[k]]
      /\ input = [k \in 0 .. (2 * BUFSIZE) |-> input[k]]
      /\ \A k \in linestart .. (pos - 1) : input[k] # NEWLINE
  BY DEF LinesInv
<1>3. PICK R : ran \in Seq(R)
  BY DEF LinesInv
<1>4. PICK eol : eol = Min(Newlines)
  OBVIOUS
<1>5. PICK line : line = Characters(linestart, eol)
  OBVIOUS
<1>6. /\ at = "scan" /\ Newlines # {}
      /\ input' = [input EXCEPT ![eol] = "NUL"]
      /\ ran' = Append(ran, line)
      /\ pos' = eol + 1 /\ linestart' = eol + 1
      /\ UNCHANGED <<data, alloc, len, end>>
  BY <1>4, <1>5 DEF process_line, pipeVars
<1>7. at' \in {"scan", "wait"}
  <2>1. at' = at \/ at' = "wait"
    BY Zenon DEF process_line
  <2> QED
    BY <1>6, <2>1
<1>8. /\ pos \in Nat /\ linestart \in Nat /\ linestart <= pos /\ pos <= end /\ end \in Nat
      /\ end <= 2 * BUFSIZE /\ len \in Nat /\ BUFSIZE \in Nat
  BY <1>6, BufferFacts DEF ShellInv
<1>9. /\ eol \in Newlines /\ eol \in pos .. (end - 1)
      /\ \A k \in pos .. (eol - 1) : input[k] # NEWLINE
  <2>1. eol \in Newlines /\ eol \in pos .. (end - 1)
    BY <1>4, <1>6, FirstNewline
  <2>2. \A k \in Newlines : eol <= k
    <3>1. Newlines \in SUBSET Nat
      BY <1>8 DEF Newlines
    <3>2. \E x \in Newlines : \A y \in Newlines : x <= y
      BY <1>6, <3>1, LeastNat
    <3> QED
      BY <1>4, <3>2 DEF Min
  <2>3. ASSUME NEW k \in pos .. (eol - 1), input[k] = NEWLINE PROVE FALSE
    <3>1. k \in pos .. (end - 1) /\ ~ (eol <= k)
      BY <1>8, <2>1
    <3> QED
      BY <2>2, <2>3, <3>1 DEF Newlines
  <2> QED
    BY <2>1, <2>3
<1>10. Edge = end /\ Edge' = end
  BY <1>6, <1>7 DEF Edge
<1>11. PICK z \in Nat : z = eol - linestart
  BY <1>8, <1>9
<1>12. Streams(typed, input, linestart, end, data, len, d, w)
  BY <1>1, <1>10
<1>13. \A k \in linestart .. (end - 1) : input[k] = typed[d + 1 + (k - linestart)]
  BY <1>12 DEF Streams
<1>14. eol \in linestart .. (end - 1) /\ input[eol] = NEWLINE
  BY <1>8, <1>9 DEF Newlines
<1>15. typed[d + z + 1] = NEWLINE
  <2>1. d + 1 + (eol - linestart) = d + z + 1
    BY <1>8, <1>9, <1>11
  <2> QED
    BY <1>13, <1>14, <2>1
<1>16. ASSUME NEW k \in 1 .. z
       PROVE  /\ typed[d + k] = input[linestart + k - 1]
              /\ typed[d + k] # NEWLINE
  <2>1. PICK j \in Nat : j = linestart + k - 1
    BY <1>8
  <2>2. /\ j \in linestart .. (end - 1) /\ d + 1 + (j - linestart) = d + k
        /\ j \in linestart .. (pos - 1) \/ j \in pos .. (eol - 1)
    BY <1>8, <1>9, <1>11, <2>1
  <2>3. typed[d + k] = input[j]
    BY <1>13, <2>2
  <2>4. input[j] # NEWLINE
    BY <1>2, <1>9, <2>2
  <2> QED
    BY <2>1, <2>3, <2>4
<1>17. line = [k \in 1 .. z |-> typed[d + k]]
  BY <1>5, <1>11, <1>16 DEF Characters
<1>18. PICK nl2 : RanIs(typed, Append(ran, line), d + z + 1, nl2)
  BY <1>1, <1>3, <1>15, <1>16, <1>17, RanLine
<1>19. /\ input' = [k \in 0 .. (2 * BUFSIZE) |-> input'[k]]
       /\ \A k \in (eol + 1) .. (end - 1) : input'[k] = input[k]
  <2>1. \A k \in (eol + 1) .. (end - 1) : k # eol /\ k \in 0 .. (2 * BUFSIZE)
    BY <1>8, <1>9
  <2> QED
    BY <1>2, <1>6, <2>1
<1>20. Streams(typed, input', eol + 1, end, data, len, d + z + 1, w)
  <2>1. w \in Nat /\ d + (eol - linestart) + 1 = d + z + 1
    BY <1>8, <1>9, <1>11
  <2>2. Streams(typed, input', eol + 1, end, data, len, d + (eol - linestart) + 1, w)
    BY <1>8, <1>12, <1>14, <1>19, <2>1, StreamLine
  <2> QED
    BY <2>1, <2>2
<1>21. WireBrings(w)' /\ typed' = typed /\ wire' = wire
  BY <1>1, WireSame
<1>22. /\ Streams(typed, input, linestart, Edge, data, len, d + z + 1, w)'
       /\ RanIs(typed, ran, d + z + 1, nl2)'
  BY <1>6, <1>10, <1>18, <1>20, <1>21
<1>23. /\ \A k \in linestart' .. (pos' - 1) : input'[k] # NEWLINE
       /\ data' = [k \in 0 .. (alloc' - 1) |-> data'[k]]
  BY <1>2, <1>6, <1>8, <1>9
<1>24. wire' \in Seq(Nat) /\ (\E C : typed' \in Seq(C)) /\ ran' \in Seq(R \cup {line})
  BY <1>3, <1>6, <1>21 DEF LinesInv
<1>25. d + z + 1 \in Nat
  OBVIOUS
<1> QED
  BY <1>19, <1>21, <1>22, <1>23, <1>24, <1>25 DEF LinesInv

(* What is left of a line moves to the beginning of the buffer.            *)
LEMMA LinesShift ==
  ASSUME ShellInv, LinesInv, Shift, UNCHANGED keyVars
  PROVE  LinesInv'
<1>0. PICK d \in Nat, w \in {0, 1} : \E nl :
        /\ WireBrings(w)
        /\ Streams(typed, input, linestart, Edge, data, len, d, w)
        /\ RanIs(typed, ran, d, nl)
  BY DEF LinesInv
<1>1. PICK nl :
        /\ WireBrings(w)
        /\ Streams(typed, input, linestart, Edge, data, len, d, w)
        /\ RanIs(typed, ran, d, nl)
  BY <1>0
<1>2. /\ data = [k \in 0 .. (alloc - 1) |-> data[k]]
      /\ input = [k \in 0 .. (2 * BUFSIZE) |-> input[k]]
      /\ \A k \in linestart .. (pos - 1) : input[k] # NEWLINE
  BY DEF LinesInv
<1>3. PICK R : ran \in Seq(R)
  BY DEF LinesInv
<1>4. at = "scan" /\ Newlines = {}
  BY DEF Shift
<1>5. /\ pos \in Nat /\ linestart \in Nat /\ linestart <= pos /\ pos <= end /\ end \in Nat
      /\ end <= 2 * BUFSIZE /\ len \in Nat /\ BUFSIZE \in Nat
  BY <1>4, BufferFacts DEF ShellInv
<1>6. PICK z \in Nat : z = end - linestart
  BY <1>5
<1>7. /\ input' = memmove(input, 0, linestart, z) /\ linestart' = 0
      /\ pos' = (IF z >= BUFSIZE THEN 0 ELSE z) /\ at' \in {"exited", "read"}
      /\ UNCHANGED <<data, alloc, len, ran>>
  BY <1>6 DEF Shift, pipeVars
<1>8. Edge = end /\ Edge' = pos'
  BY <1>4, <1>7 DEF Edge
<1>9. /\ input' = [k \in 0 .. (2 * BUFSIZE) |-> input'[k]]
      /\ \A k \in 0 .. (z - 1) : input'[k] = input[linestart + k]
  <2>0. DOMAIN input = 0 .. (2 * BUFSIZE)
    BY <1>2
  <2>1. /\ input' = [k \in 0 .. (2 * BUFSIZE) |-> input'[k]]
        /\ \A k \in 0 .. (2 * BUFSIZE) :
             ~ (k < 0 \/ k >= 0 + z) /\ ~ (linestart < 0) => input'[k] = input[linestart + (k - 0)]
    BY <1>7, <2>0 DEF memmove
  <2>2. \A k \in 0 .. (z - 1) :
          /\ k \in 0 .. (2 * BUFSIZE) /\ ~ (k < 0 \/ k >= 0 + z) /\ ~ (linestart < 0)
          /\ linestart + (k - 0) = linestart + k
    BY <1>5, <1>6
  <2> QED
    BY <2>1, <2>2
<1>10. \A k \in linestart .. (end - 1) : input[k] # NEWLINE
  <2>1. \A k \in linestart .. (end - 1) : k \in linestart .. (pos - 1) \/ k \in pos .. (end - 1)
    BY <1>5
  <2> QED
    BY <1>2, <1>4, <2>1 DEF Newlines
<1>11. Streams(typed, input, linestart, end, data, len, d, w)
  BY <1>1, <1>8
<1>12. \A k \in 1 .. z : typed[d + k] # NEWLINE
  <2> TAKE k \in 1 .. z
  <2>1. PICK j \in Nat : j = linestart + k - 1
    BY <1>5
  <2>2. j \in linestart .. (end - 1) /\ d + 1 + (j - linestart) = d + k
    BY <1>5, <1>6, <2>1
  <2>3. typed[d + k] = input[j]
    BY <1>11, <2>2 DEF Streams
  <2> QED
    BY <1>10, <2>2, <2>3
<1>13. /\ Streams(typed, input', 0, z, data, len, d, w)
       /\ Streams(typed, input', 0, 0, data, len, d + z, w)
  <2>1. w \in Nat /\ linestart <= end
    BY <1>5
  <2>2. \A k \in 0 .. (end - linestart - 1) : input'[k] = input[linestart + k]
    BY <1>6, <1>9
  <2> QED
    BY <1>5, <1>6, <1>11, <2>1, <2>2, StreamShift
<1>14. WireBrings(w)' /\ typed' = typed /\ wire' = wire
  BY <1>1, WireSame
<1>15. /\ wire' \in Seq(Nat) /\ (\E C : typed' \in Seq(C)) /\ ran' \in Seq(R)
       /\ data' = [k \in 0 .. (alloc' - 1) |-> data'[k]]
  BY <1>2, <1>3, <1>7, <1>14 DEF LinesInv
<1>16. CASE z >= BUFSIZE
  <2>1. pos' = 0 /\ \A k \in 0 .. (0 - 1) : FALSE
    BY <1>7, <1>16
  <2>2. RanIs(typed, ran, d + z, nl)
    BY <1>1, <1>3, <1>12, <1>16, RanDropped
  <2>3. /\ Streams(typed, input, linestart, Edge, data, len, d + z, w)'
        /\ RanIs(typed, ran, d + z, nl)'
    BY <1>7, <1>8, <1>13, <1>14, <2>1, <2>2
  <2>4. \A k \in linestart' .. (pos' - 1) : input'[k] # NEWLINE
    BY <1>7, <2>1
  <2>5. d + z \in Nat
    OBVIOUS
  <2> QED
    BY <1>9, <1>14, <1>15, <2>3, <2>4, <2>5 DEF LinesInv
<1>17. CASE ~ (z >= BUFSIZE)
  <2>1. pos' = z
    BY <1>7, <1>17
  <2>3. /\ Streams(typed, input, linestart, Edge, data, len, d, w)'
        /\ RanIs(typed, ran, d, nl)'
    BY <1>1, <1>7, <1>8, <1>13, <1>14, <2>1
  <2>4. \A k \in linestart' .. (pos' - 1) : input'[k] # NEWLINE
    <3>1. \A k \in 0 .. (z - 1) : linestart + k \in linestart .. (end - 1)
      BY <1>5, <1>6
    <3> QED
      BY <1>7, <1>9, <1>10, <2>1, <3>1
  <2> QED
    BY <1>9, <1>14, <1>15, <2>3, <2>4 DEF LinesInv
<1> QED
  BY <1>16, <1>17

LEMMA LinesInvNext ==
  ASSUME ShellInv, LinesInv, [Next]_vars
  PROVE  LinesInv'
<1>1. CASE UNCHANGED vars
  <2>1. UNCHANGED <<keyVars, pipeVars, lineVars, ran>> /\ Edge' = Edge
    BY <1>1 DEF vars, shellVars, lineVars, Edge
  <2> QED
    BY <2>1, LinesQuiet
<1>2. CASE UserTypes /\ UNCHANGED shellVars
  BY <1>2, LinesUser
<1>3. CASE keyboard_handler /\ ~ rebooted
  BY <1>3, LinesHandler
<1>4. CASE (Start \/ Echo \/ ProgramEnds) /\ UNCHANGED keyVars
  <2>1. UNCHANGED <<pipeVars, lineVars, ran>> /\ UNCHANGED <<pos, end>>
    BY <1>4 DEF Start, Echo, ProgramEnds, lineVars
  <2>2. Edge' = Edge
    BY <1>4, <2>1 DEF Start, Echo, ProgramEnds, Edge
  <2> QED
    BY <1>4, <2>1, <2>2, LinesQuiet
<1>5. CASE Read /\ UNCHANGED keyVars
  BY <1>5, LinesRead
<1>6. CASE process_line /\ UNCHANGED keyVars
  BY <1>6, LinesProcess
<1>7. CASE Shift /\ UNCHANGED keyVars
  BY <1>7, LinesShift
<1> QED
  BY <1>1, <1>2, <1>3, <1>4, <1>5, <1>6, <1>7, Zenon DEF Next, ShellStep

-----------------------------------------------------------------------------
(* The newlines in what was typed, and those of them up to a place.        *)
Ends == {k \in DOMAIN typed : typed[k] = NEWLINE}
Below(k) == {j \in Ends : j <= k}

(* nl are the first newlines, in order.                                    *)
LEMMA NewlinesAre ==
  ASSUME NEW C, typed \in Seq(C), NEW R, ran \in Seq(R), NEW d \in Nat, d <= Len(typed),
         NEW nl, RanIs(typed, ran, d, nl)
  PROVE  /\ \A n \in 0 .. Len(ran) : nl[n] \in 0 .. d
         /\ \A n \in 1 .. Len(ran) : nl[n] \in Ends
         /\ \A i, j \in 0 .. Len(ran) : i < j <=> nl[i] < nl[j]
         /\ \A k \in Ends : k <= d => \E n \in 1 .. Len(ran) : nl[n] = k
<1> DEFINE m == Len(ran)
<1>0. m \in Nat /\ Len(typed) \in Nat /\ DOMAIN typed = 1 .. Len(typed)
  OBVIOUS
<1> HIDE DEF m
<1>1. /\ nl \in [0 .. m -> 0 .. d] /\ nl[0] = 0
      /\ \A i, j \in 0 .. m : i < j => nl[i] < nl[j]
      /\ \A n \in 1 .. m : typed[nl[n]] = NEWLINE
      /\ \A k \in 1 .. d : typed[k] = NEWLINE => \E n \in 1 .. m : nl[n] = k
  BY DEF RanIs, m
<1>2. \A n \in 0 .. m : nl[n] \in 0 .. d
  BY <1>1
<1>3. \A n \in 1 .. m : nl[n] \in Ends
  <2> TAKE n \in 1 .. m
  <2>1. 0 \in 0 .. m /\ n \in 0 .. m /\ 0 < n
    BY <1>0
  <2>2. nl[n] \in 0 .. d /\ 0 < nl[n]
    BY <1>1, <2>1
  <2>3. nl[n] \in 1 .. Len(typed)
    BY <1>0, <2>2
  <2> QED
    BY <1>0, <1>1, <2>3 DEF Ends
<1>4. ASSUME NEW i \in 0 .. m, NEW j \in 0 .. m, nl[i] < nl[j] PROVE i < j
  <2>1. nl[i] \in Nat /\ nl[j] \in Nat
    BY <1>2
  <2>2. i # j /\ ~ (j < i)
    BY <1>1, <1>4, <2>1
  <2> QED
    BY <1>0, <2>2
<1>5. \A k \in Ends : k <= d => \E n \in 1 .. m : nl[n] = k
  BY <1>0, <1>1 DEF Ends
<1> QED
  BY <1>1, <1>2, <1>3, <1>4, <1>5 DEF m

LEMMA EndsFinite ==
  ASSUME NEW C, typed \in Seq(C)
  PROVE  /\ Ends \in SUBSET Nat /\ IsFiniteSet(Ends) /\ Cardinality(Ends) \in Nat
         /\ \A k : IsFiniteSet(Below(k)) /\ Cardinality(Below(k)) <= Cardinality(Ends)
<1>0. Len(typed) \in Nat /\ DOMAIN typed = 1 .. Len(typed)
  OBVIOUS
<1>1. Ends \in SUBSET (1 .. Len(typed)) /\ Ends \in SUBSET Nat
  BY <1>0 DEF Ends
<1>2. IsFiniteSet(1 .. Len(typed))
  BY <1>0, FS_Interval
<1>3. IsFiniteSet(Ends)
  BY <1>1, <1>2, FS_Subset
<1>4. \A k : Below(k) \in SUBSET Ends
  BY DEF Below
<1> QED
  BY <1>1, <1>3, <1>4, FS_Subset, FS_CardinalityType

LEMMA BelowGrows ==
  ASSUME NEW C, typed \in Seq(C), NEW i \in Nat, NEW k \in Nat, i <= k
  PROVE  Below(i) \in SUBSET Below(k)
<1>1. \A j \in Below(i) : j \in Ends /\ j \in Nat /\ j <= i
  BY EndsFinite DEF Below
<1>2. \A j \in Below(i) : j <= k
  BY <1>1
<1> QED
  BY <1>1, <1>2 DEF Below

(* Up to the n-th there are n.                                             *)
LEMMA NewlinesCounted ==
  ASSUME NEW C, typed \in Seq(C), NEW R, ran \in Seq(R), NEW d \in Nat, d <= Len(typed),
         NEW nl, RanIs(typed, ran, d, nl), NEW n \in 1 .. Len(ran)
  PROVE  /\ Cardinality(Below(nl[n])) = n
         /\ \A k \in Ends : Cardinality(Below(k)) = n => k = nl[n]
<1> DEFINE m == Len(ran)
           f == [i \in 1 .. n |-> nl[i]]
<1>0. m \in Nat /\ n \in 1 .. m /\ n \in Nat
  OBVIOUS
<1>1. /\ \A i \in 0 .. m : nl[i] \in 0 .. d
      /\ \A i \in 1 .. m : nl[i] \in Ends
      /\ \A i, j \in 0 .. m : i < j <=> nl[i] < nl[j]
      /\ \A k \in Ends : k <= d => \E i \in 1 .. m : nl[i] = k
  BY NewlinesAre
<1>2. Ends \in SUBSET Nat /\ \A k : IsFiniteSet(Below(k))
  BY EndsFinite
<1> HIDE DEF m
<1>3. \A i \in 1 .. m : i \in 0 .. m /\ nl[i] \in Nat /\ nl[i] <= d
  BY <1>0, <1>1
<1>4. \A i \in 1 .. n : i \in 1 .. m /\ i \in 0 .. m
  BY <1>0
<1>5. \A i \in 1 .. n : f[i] = nl[i] /\ nl[i] \in Below(nl[n])
  <2> TAKE i \in 1 .. n
  <2>1. nl[i] \in Ends /\ nl[i] \in Nat /\ nl[n] \in Nat
    BY <1>0, <1>1, <1>3, <1>4
  <2>2. i < n \/ i = n
    BY <1>0
  <2>3. nl[i] <= nl[n]
    BY <1>0, <1>1, <1>3, <1>4, <2>1, <2>2
  <2> QED
    BY <2>1, <2>3 DEF Below
<1>6. ASSUME NEW k \in Below(nl[n]) PROVE \E i \in 1 .. n : f[i] = k
  <2>1. k \in Ends /\ k <= nl[n] /\ k \in Nat /\ nl[n] \in Nat /\ nl[n] <= d
    BY <1>0, <1>2, <1>3 DEF Below
  <2>2. PICK i \in 1 .. m : nl[i] = k
    BY <1>1, <2>1
  <2>3. ~ (nl[n] < nl[i])
    BY <2>1, <2>2
  <2>4. ~ (n < i)
    BY <1>0, <1>1, <1>3, <2>3
  <2>5. i \in 1 .. n
    BY <1>0, <2>4
  <2> QED
    BY <1>5, <2>2, <2>5
<1>7. \A i, j \in 1 .. n : f[i] = f[j] => i = j
  <2> TAKE i, j \in 1 .. n
  <2>1. nl[i] \in Nat /\ nl[j] \in Nat /\ f[i] = nl[i] /\ f[j] = nl[j]
    BY <1>3, <1>4, <1>5
  <2>2. (i < j <=> nl[i] < nl[j]) /\ (j < i <=> nl[j] < nl[i])
    BY <1>1, <1>4
  <2> QED
    BY <2>1, <2>2
<1>8. f \in Bijection(1 .. n, Below(nl[n]))
  BY <1>5, <1>6, <1>7 DEF Bijection, Injection, Surjection, IsInjective
<1>9. Cardinality(Below(nl[n])) = n
  BY <1>0, <1>8, FS_CountingElements DEF ExistsBijection
<1>10. ASSUME NEW k \in Ends, Cardinality(Below(k)) = n PROVE k = nl[n]
  <2>1. k \in Nat /\ nl[n] \in Nat /\ nl[n] \in Ends
    BY <1>0, <1>1, <1>2, <1>3
  <2>2. k \in Below(k) /\ nl[n] \in Below(nl[n])
    BY <2>1 DEF Below
  <2>3. CASE k <= nl[n]
    <3>1. Below(k) \in SUBSET Below(nl[n])
      BY <2>1, <2>3, BelowGrows
    <3>2. Below(k) = Below(nl[n])
      BY <1>2, <1>9, <1>10, <3>1, FS_Subset
    <3>3. nl[n] <= k
      BY <2>2, <3>2 DEF Below
    <3> QED
      BY <2>1, <2>3, <3>3
  <2>4. CASE nl[n] <= k
    <3>1. Below(nl[n]) \in SUBSET Below(k)
      BY <2>1, <2>4, BelowGrows
    <3>2. Below(k) = Below(nl[n])
      BY <1>2, <1>9, <1>10, <3>1, FS_Subset
    <3>3. k <= nl[n]
      BY <2>2, <3>2 DEF Below
    <3> QED
      BY <2>1, <2>4, <3>3
  <2> QED
    BY <2>1, <2>3, <2>4
<1> QED
  BY <1>9, <1>10

(* The lines that were typed lie between the newlines.                     *)
LEMMA TypedLinesAre ==
  ASSUME NEW C, typed \in Seq(C), NEW R, ran \in Seq(R), NEW d \in Nat, d <= Len(typed),
         NEW nl, RanIs(typed, ran, d, nl)
  PROVE  /\ Len(TypedLines) \in Nat /\ Len(ran) <= Len(TypedLines)
         /\ \A n \in 1 .. Len(ran) : TypedLines[n] = SubSeq(typed, nl[n - 1] + 1, nl[n] - 1)
         /\ (\A k \in Ends : k <= d) => Len(TypedLines) = Len(ran)
<1> DEFINE m == Len(ran)
           N == Cardinality(Ends)
           Begin1(k) == Max({0} \cup {j \in Ends : j < k}) + 1
           Nth(n) == CHOOSE k \in Ends : Cardinality({j \in Ends : j <= k}) = n
           L(n) == SubSeq(typed, Begin1(Nth(n)), Nth(n) - 1)
<1>0. m \in Nat /\ N \in Nat /\ Ends \in SUBSET Nat
  BY EndsFinite
<1>1. TypedLines = [n \in 1 .. N |-> L(n)]
  BY DEF TypedLines, Ends
<1>2. Len(TypedLines) = N
  <2> HIDE DEF L, N
  <2> QED
    BY <1>0, <1>1
<1>3. /\ \A i \in 0 .. m : nl[i] \in 0 .. d
      /\ \A i \in 1 .. m : nl[i] \in Ends
      /\ \A i, j \in 0 .. m : i < j <=> nl[i] < nl[j]
      /\ \A k \in Ends : k <= d => \E i \in 1 .. m : nl[i] = k
  BY NewlinesAre
<1>z. nl[0] = 0
  BY DEF RanIs
<1>4. \A n \in 1 .. m : Nth(n) = nl[n]
  <2> TAKE n \in 1 .. m
  <2>1. /\ Cardinality(Below(nl[n])) = n /\ nl[n] \in Ends
        /\ \A k \in Ends : Cardinality(Below(k)) = n => k = nl[n]
    BY <1>3, NewlinesCounted
  <2>2. Nth(n) = CHOOSE k \in Ends : Cardinality(Below(k)) = n
    BY DEF Below
  <2> QED
    BY <2>1, <2>2
<1>5. ASSUME NEW n \in 1 .. m PROVE Begin1(nl[n]) = nl[n - 1] + 1
  <2> DEFINE S == {0} \cup {j \in Ends : j < nl[n]}
  <2>0. n \in 0 .. m /\ n - 1 \in 0 .. m /\ n - 1 < n /\ (n - 1 = 0 \/ n - 1 \in 1 .. m)
    BY <1>0
  <2>1. nl[n] \in 0 .. d /\ nl[n - 1] \in 0 .. d /\ nl[n - 1] < nl[n]
    BY <1>3, <2>0
  <2>2. nl[n - 1] \in S
    BY <1>3, <1>z, <2>0, <2>1
  <2>3. ASSUME NEW j \in S PROVE nl[n - 1] >= j
    <3>1. CASE j = 0
      BY <2>1, <3>1
    <3>2. CASE j # 0
      <4>1. j \in Ends /\ j < nl[n] /\ j \in Nat
        BY <1>0, <3>2
      <4>2. PICK i \in 1 .. m : nl[i] = j
        BY <1>3, <2>1, <4>1
      <4>3. i \in 0 .. m /\ nl[i] \in 0 .. d
        BY <1>0, <1>3
      <4>4. i < n
        BY <1>3, <2>0, <4>1, <4>2, <4>3
      <4>5. ~ (n - 1 < i)
        BY <1>0, <4>4
      <4>6. ~ (nl[n - 1] < nl[i])
        BY <1>3, <2>0, <4>3, <4>5
      <4> QED
        BY <2>1, <4>2, <4>3, <4>6
    <3> QED
      BY <3>1, <3>2
  <2>4. S \subseteq Nat
    <3>1. \A j \in S : j = 0 \/ j \in Ends
      OBVIOUS
    <3> HIDE DEF S
    <3>2. 0 \in Nat /\ \A j \in Ends : j \in Nat
      BY EndsFinite
    <3>3. \A j \in S : j \in Nat
      BY <3>1, <3>2, Zenon
    <3> QED
      BY <3>3, Zenon
  <2> HIDE DEF S
  <2>5. Max(S) \in S /\ \A y \in S : Max(S) >= y
    BY <2>2, <2>3 DEF Max
  <2>6. Max(S) = nl[n - 1]
    <3>1. PICK x, y : x = Max(S) /\ y = nl[n - 1]
      OBVIOUS
    <3>2. x \in Nat /\ y \in Nat /\ x >= y /\ y >= x
      BY <2>2, <2>3, <2>4, <2>5, <3>1
    <3>3. x = y
      BY <3>2
    <3> QED
      BY <3>1, <3>3
  <2> QED
    BY <2>6 DEF S
<1>6. m <= N
  <2>1. CASE m = 0
    BY <1>0, <2>1
  <2>2. CASE m # 0
    <3>1. m \in 1 .. m
      BY <1>0, <2>2
    <3>2. Cardinality(Below(nl[m])) = m
      BY <3>1, NewlinesCounted
    <3> QED
      BY <3>2, EndsFinite
  <2> QED
    BY <2>1, <2>2
<1>7. ASSUME NEW n \in 1 .. m PROVE TypedLines[n] = SubSeq(typed, nl[n - 1] + 1, nl[n] - 1)
  <2>1. n \in 1 .. N
    BY <1>0, <1>6
  <2>2. TypedLines[n] = L(n)
    BY <1>1, <2>1
  <2>3. Nth(n) = nl[n] /\ Begin1(nl[n]) = nl[n - 1] + 1
    BY <1>4, <1>5
  <2> HIDE DEF Begin1, Nth
  <2> QED
    BY <2>2, <2>3
<1>8. ASSUME \A k \in Ends : k <= d PROVE N = m
  <2>1. CASE m = 0
    <3>1. Ends = {}
      BY <1>3, <1>8, <2>1
    <3> QED
      BY <2>1, <3>1, FS_EmptySet
  <2>2. CASE m # 0
    <3>1. m \in 1 .. m
      BY <1>0, <2>2
    <3>2. Ends = Below(nl[m])
      <4>1. ASSUME NEW k \in Ends PROVE k <= nl[m]
        <5>1. PICK i \in 1 .. m : nl[i] = k
          BY <1>3, <1>8
        <5>2. i \in 0 .. m /\ m \in 0 .. m /\ ~ (m < i)
          BY <1>0
        <5>3. ~ (nl[m] < nl[i]) /\ nl[m] \in 0 .. d /\ nl[i] \in 0 .. d
          BY <1>3, <5>2
        <5> QED
          BY <5>1, <5>3
      <4> QED
        BY <4>1 DEF Below
    <3> QED
      BY <3>1, <3>2, NewlinesCounted
  <2> QED
    BY <2>1, <2>2
<1> QED
  BY <1>0, <1>2, <1>6, <1>7, <1>8

LEMMA LinesInvImplies ==
  ASSUME ShellInv, LinesInv
  PROVE  LinesIntact
<1>0. PICK d \in Nat, w \in {0, 1} : \E nl :
        /\ WireBrings(w)
        /\ Streams(typed, input, linestart, Edge, data, len, d, w)
        /\ RanIs(typed, ran, d, nl)
  BY DEF LinesInv
<1>1. PICK nl :
        /\ WireBrings(w)
        /\ Streams(typed, input, linestart, Edge, data, len, d, w)
        /\ RanIs(typed, ran, d, nl)
  BY <1>0
<1>2. PICK C : typed \in Seq(C)
  BY DEF LinesInv
<1>3. PICK R : ran \in Seq(R)
  BY DEF LinesInv
<1>4. Len(typed) = d + (Edge - linestart) + len + w /\ Len(typed) \in Nat
  BY <1>1, <1>2 DEF Streams
<1>5. d <= Len(typed)
  BY <1>4, EdgeFacts
<1>6. /\ Len(TypedLines) \in Nat /\ Len(ran) <= Len(TypedLines)
      /\ \A n \in 1 .. Len(ran) : TypedLines[n] = SubSeq(typed, nl[n - 1] + 1, nl[n] - 1)
      /\ (\A k \in Ends : k <= d) => Len(TypedLines) = Len(ran)
  BY <1>1, <1>2, <1>3, <1>5, TypedLinesAre
<1>7. ASSUME NEW n \in DOMAIN ran
      PROVE  /\ EndsWith(TypedLines[n], ran[n])
             /\ Len(TypedLines[n]) < BUFSIZE => ran[n] = TypedLines[n]
  <2>0. n \in 1 .. Len(ran) /\ Len(ran) \in Nat /\ n - 1 \in 0 .. Len(ran) /\ n \in 0 .. Len(ran)
    BY <1>3
  <2>1. PICK e \in Nat, b \in Nat : e = nl[n] /\ b = nl[n - 1] /\ e <= d
    BY <1>1, <1>2, <1>3, <1>5, <2>0, NewlinesAre
  <2>2. PICK s \in (b + 1) .. e :
          /\ ran[n] = [k \in 1 .. (e - s) |-> typed[s + k - 1]]
          /\ e - 1 - b < BUFSIZE => s = b + 1
    BY <1>1, <2>0, <2>1 DEF RanIs
  <2>a. s \in Nat /\ b + 1 <= s /\ s <= e
    BY <2>1
  <2>3. PICK t : t = TypedLines[n]
    OBVIOUS
  <2>4. t = SubSeq(typed, b + 1, e - 1)
    BY <1>6, <2>0, <2>1, <2>3
  <2>5. t = [k \in 1 .. (e - 1 - b) |-> typed[b + k]]
    <3>1. SubSeq(typed, b + 1, e - 1) = [k \in 1 .. (e - 1) - (b + 1) + 1 |-> typed[(b + 1) + k - 1]]
      OBVIOUS
    <3>2. (e - 1) - (b + 1) + 1 = e - 1 - b
      BY <2>1
    <3>3. \A k \in 1 .. (e - 1 - b) : (b + 1) + k - 1 = b + k
      BY <2>1
    <3> QED
      BY <2>4, <3>1, <3>2, <3>3
  <2>6. PICK r : r = ran[n]
    OBVIOUS
  <2>7. Len(t) = e - 1 - b /\ Len(r) = e - s /\ e - s \in Nat /\ e - 1 - b \in Nat
    <3>1. e - s \in Nat /\ e - 1 - b \in Nat
      BY <2>1, <2>2
    <3> QED
      BY <2>2, <2>5, <2>6, <3>1
  <2>8. EndsWith(t, r)
    <3>1. Len(r) <= Len(t)
      BY <2>1, <2>2, <2>7
    <3>2. PICK o \in Nat : o = Len(t) - Len(r)
      BY <2>7, <3>1
    <3>3. o = s - 1 - b
      <4>1. (e - 1 - b) - (e - s) = s - 1 - b
        BY <2>1, <2>a
      <4> QED
        BY <2>7, <3>2, <4>1
    <3>4. SubSeq(t, o + 1, Len(t)) = [k \in 1 .. (Len(t) - (o + 1) + 1) |-> t[(o + 1) + k - 1]]
      OBVIOUS
    <3>5. Len(t) - (o + 1) + 1 = e - s
      <4>1. (e - 1 - b) - ((s - 1 - b) + 1) + 1 = e - s
        BY <2>1, <2>a
      <4> QED
        BY <2>7, <3>3, <4>1
    <3>6. \A k \in 1 .. (e - s) : t[(o + 1) + k - 1] = typed[s + k - 1]
      <4> TAKE k \in 1 .. (e - s)
      <4>1. (o + 1) + k - 1 \in 1 .. (e - 1 - b) /\ b + ((o + 1) + k - 1) = s + k - 1
        <5>1. ((s - 1 - b) + 1) + k - 1 \in 1 .. (e - 1 - b)
          BY <2>1, <2>a
        <5>2. b + (((s - 1 - b) + 1) + k - 1) = s + k - 1
          BY <2>1, <2>a
        <5> QED
          BY <3>3, <5>1, <5>2
      <4> QED
        BY <2>5, <4>1
    <3>7. SubSeq(t, o + 1, Len(t)) = r
      BY <2>2, <2>6, <3>4, <3>5, <3>6
    <3> QED
      BY <3>1, <3>2, <3>7 DEF EndsWith
  <2>9. Len(t) < BUFSIZE => r = t
    <3> SUFFICES ASSUME Len(t) < BUFSIZE PROVE r = t
      OBVIOUS
    <3>1. s = b + 1
      BY <2>2, <2>7
    <3>2. e - s = e - 1 - b /\ \A k \in 1 .. (e - s) : s + k - 1 = b + k
      BY <2>1, <3>1
    <3> QED
      BY <2>2, <2>5, <2>6, <3>2
  <2> QED
    BY <2>3, <2>6, <2>8, <2>9
<1>8. ASSUME at = "read", len = 0, wire = <<>> PROVE Len(ran) = Len(TypedLines)
  <2>1. w = 0
    BY <1>1, <1>8, EmptyWire
  <2>2. Edge = pos /\ pos \in Nat /\ linestart \in Nat /\ linestart <= pos
    BY <1>8 DEF Edge, ShellInv
  <2>3. ASSUME NEW k \in Ends, ~ (k <= d) PROVE FALSE
    <3>1. k \in 1 .. Len(typed) /\ typed[k] = NEWLINE
      BY <1>2 DEF Ends
    <3>2. PICK j \in Nat : j = linestart + (k - d - 1)
      BY <2>2, <2>3, <3>1
    <3>3. j \in linestart .. (pos - 1) /\ d + 1 + (j - linestart) = k
      BY <1>4, <1>8, <2>1, <2>2, <2>3, <3>1, <3>2
    <3>4. input[j] = typed[k]
      BY <1>1, <2>2, <3>3 DEF Streams
    <3>5. input[j] # NEWLINE
      BY <3>3 DEF LinesInv
    <3> QED
      BY <3>1, <3>4, <3>5
  <2> QED
    BY <1>6, <2>3
<1>9. BuffersFit
  BY DEF ShellInv, BuffersFit
<1> QED
  BY <1>6, <1>7, <1>8, <1>9 DEF LinesIntact

(* Whatever is typed, however the bytes are spread over the shell's reads  *)
(* and for any size of its buffer: the lines that the shell processes are  *)
(* those that were typed, each once and in order, whole if shorter than    *)
(* BUFSIZE, and none is left over when it waits for input (keyboard.c,     *)
(* convert; pipe.c, write_to_pipe; dsh.c, main).                           *)
THEOREM LinesStayIntact == Spec => []LinesIntact
<1>1. Init => ShellInv /\ LinesInv
  BY ShellInvInit, LinesInvInit
<1>2. ShellInv /\ LinesInv /\ [Next]_vars => (ShellInv /\ LinesInv)'
  BY ShellInvNext, LinesInvNext
<1>3. ShellInv /\ LinesInv => LinesIntact
  BY LinesInvImplies
<1> QED
  BY <1>1, <1>2, <1>3, PTL DEF Spec

(* For any set of keys and any order in which they go down, repeat and     *)
(* come up: once no byte is on its way, the meta flags that are set are    *)
(* those of the keys that are held, but for one lost when the other of two *)
(* keys of its kind came up, and the machine reboots only with Ctrl and    *)
(* Alt held (keyboard.c, convert and keyboard_handler).                    *)
THEOREM MetaNeverStuck == Spec => []NoStuckMeta
<1> DEFINE I == ShellInv /\ LinesInv /\ KeyInv
<1>1. Init => I
  BY ShellInvInit, LinesInvInit, KeyInvInit
<1>2. I /\ [Next]_vars => I'
  BY ShellInvNext, LinesInvNext, KeyInvNext
<1>3. I => NoStuckMeta
  <2> SUFFICES ASSUME LinesInv, KeyInv PROVE NoStuckMeta
    OBVIOUS
  <2>1. ASSUME wire = <<>>
        PROVE  kbd_status \cap HoldFlags = (HeldFlags(held) \cap HoldFlags) \ lost
    <3>1. PICK w : WireBrings(w)
      BY DEF LinesInv
    <3>2. FlagsRight(kbd_status)
      BY <2>1, <3>1, EmptyWire
    <3> QED
      BY <3>2 DEF FlagsRight
  <2>2. rebooted => {"ALT", "CTRL"} \subseteq HeldFlags(held)
    BY DEF KeyInv
  <2> QED
    BY <2>1, <2>2 DEF NoStuckMeta
<1> QED
  BY <1>1, <1>2, <1>3, PTL DEF Spec
=============================================================================
