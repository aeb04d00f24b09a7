--------------------------- MODULE KeyboardProofs ---------------------------
(***************************************************************************)
(* Proofs about the keyboard: the terminal is the page it promises to be   *)
(* and its marker stays at the cursor, on a screen of any size, and the    *)
(* flags of the shared page follow the keys that are held, in whatever     *)
(* order they are pressed, repeated and released.                          *)
(***************************************************************************)
EXTENDS Keyboard, SequenceTheorems, TLAPS

-----------------------------------------------------------------------------
(* Cells and positions                                                      *)

SIZE == VIDEO_FILS * VIDEO_COLS

Positions == 0 .. SIZE - 1

CellOf(p) == <<p \div VIDEO_COLS, p % VIDEO_COLS>>

PosOf(t) == t.curr_row * VIDEO_COLS + t.curr_column

(* Division with a remainder.                                               *)
LEMMA Division ==
    ASSUME NEW n \in Nat \ {0}, NEW x \in Int
    PROVE  /\ x \div n \in Int /\ x % n \in 0 .. n - 1
           /\ x = n * (x \div n) + (x % n)
  OBVIOUS

(* A quotient and a remainder are the only ones.                            *)
LEMMA DivisionUnique ==
    ASSUME NEW n \in Nat \ {0}, NEW q \in Int, NEW r \in 0 .. n - 1, NEW x \in Int,
           x = n * q + r
    PROVE  x \div n = q /\ x % n = r
<1> DEFINE e == x \div n
           s == x % n
<1>1. e \in Int /\ s \in 0 .. n - 1 /\ x = n * e + s
  BY Division
<1> HIDE DEF e, s
<1>2. \A k \in Int : n * k \in Int /\ n * (k + 1) = n * k + n
  OBVIOUS
<1>3. \A k, l \in Int : k <= l => n * k <= n * l
  OBVIOUS
<1>4. ~(e < q)
  <2>1. SUFFICES ASSUME e + 1 <= q PROVE FALSE
    BY <1>1
  <2>2. n * (e + 1) <= n * q
    BY <1>1, <1>3, <2>1
  <2> QED BY <1>1, <1>2, <2>2
<1>5. ~(q < e)
  <2>1. SUFFICES ASSUME q + 1 <= e PROVE FALSE
    BY <1>1
  <2>2. n * (q + 1) <= n * e
    BY <1>1, <1>3, <2>1
  <2> QED BY <1>1, <1>2, <2>2
<1>6. e = q
  BY <1>1, <1>4, <1>5
<1>7. s = r
  BY <1>1, <1>2, <1>6
<1> QED BY <1>6, <1>7 DEF e, s

(* The size of the screen.                                                  *)
LEMMA Sizes ==
    /\ VIDEO_FILS \in Nat \ {0} /\ VIDEO_COLS \in Nat \ {0}
    /\ SIZE \in Nat \ {0} /\ SIZE = VIDEO_COLS * VIDEO_FILS
    /\ \A r \in Int : /\ VIDEO_COLS * r \in Int /\ r * VIDEO_COLS = VIDEO_COLS * r
                      /\ VIDEO_COLS * (r + 1) = VIDEO_COLS * r + VIDEO_COLS
    /\ \A r, s \in Int : r <= s => VIDEO_COLS * r <= VIDEO_COLS * s
<1>1. VIDEO_FILS \in Nat \ {0} /\ VIDEO_COLS \in Nat \ {0}
  BY ScreenAssumption
<1>2. \A a, b \in Nat \ {0} : a * b \in Nat \ {0} /\ a * b = b * a
  OBVIOUS
<1>3. \A n \in Nat \ {0} : \A r \in Int : n * r \in Int /\ r * n = n * r /\ n * (r + 1) = n * r + n
  OBVIOUS
<1>4. \A n \in Nat \ {0} : \A r, s \in Int : r <= s => n * r <= n * s
  OBVIOUS
<1> QED BY <1>1, <1>2, <1>3, <1>4 DEF SIZE

(* Rows and columns count the cells one after the other.                    *)
LEMMA CellAt ==
    ASSUME NEW r \in 0 .. VIDEO_FILS - 1, NEW c \in 0 .. VIDEO_COLS - 1
    PROVE  r * VIDEO_COLS + c \in Positions /\ CellOf(r * VIDEO_COLS + c) = <<r, c>>
<1> DEFINE p == r * VIDEO_COLS + c
<1>1. p \in Int /\ p = VIDEO_COLS * r + c /\ VIDEO_COLS * r >= 0
  <2>1. VIDEO_COLS * 0 <= VIDEO_COLS * r /\ VIDEO_COLS * 0 = 0
    BY Sizes
  <2> QED BY <2>1, Sizes
<1>2. VIDEO_COLS * r + VIDEO_COLS <= SIZE
  <2>1. r + 1 <= VIDEO_FILS /\ r \in Int /\ VIDEO_FILS \in Int
    BY Sizes
  <2>2. VIDEO_COLS * (r + 1) <= VIDEO_COLS * VIDEO_FILS
    BY <2>1, Sizes
  <2> QED BY <2>1, <2>2, Sizes
<1>3. p \in Positions
  BY <1>1, <1>2, Sizes DEF Positions
<1>4. p \div VIDEO_COLS = r /\ p % VIDEO_COLS = c
  BY <1>1, DivisionUnique, Sizes
<1> QED BY <1>3, <1>4 DEF CellOf

(* And every position is that of its cell.                                  *)
LEMMA CellsAre ==
    ASSUME NEW p \in Positions
    PROVE  /\ CellOf(p) \in Cells
           /\ p = CellOf(p)[1] * VIDEO_COLS + CellOf(p)[2]
<1> DEFINE r == p \div VIDEO_COLS
           c == p % VIDEO_COLS
<1>1. p \in Nat /\ p < SIZE
  BY Sizes DEF Positions
<1>2. r \in Int /\ c \in 0 .. VIDEO_COLS - 1 /\ p = VIDEO_COLS * r + c
  BY <1>1, Division, Sizes
<1> HIDE DEF r, c
<1>3. ~(r < 0)
  <2>1. SUFFICES ASSUME r + 1 <= 0 PROVE FALSE
    BY <1>2
  <2>2. VIDEO_COLS * (r + 1) <= VIDEO_COLS * 0 /\ VIDEO_COLS * 0 = 0
    BY <1>2, <2>1, Sizes
  <2> QED BY <1>1, <1>2, <2>2, Sizes
<1>4. ~(VIDEO_FILS <= r)
  <2>1. SUFFICES ASSUME VIDEO_FILS <= r PROVE FALSE
    OBVIOUS
  <2>2. VIDEO_COLS * VIDEO_FILS <= VIDEO_COLS * r
    BY <1>2, <2>1, Sizes
  <2> QED BY <1>1, <1>2, <2>2, Sizes
<1>5. r \in 0 .. VIDEO_FILS - 1
  BY <1>2, <1>3, <1>4, Sizes
<1>6. CellOf(p) = <<r, c>> /\ p = r * VIDEO_COLS + c
  BY <1>2, Sizes DEF CellOf, r, c
<1> QED BY <1>2, <1>5, <1>6 DEF Cells

(* What fix_rowcol does to a row and a column is what a position modulo the *)
(* size of the page does.                                                   *)
LEMMA Wrapped ==
    ASSUME NEW r \in Int, NEW x \in Int
    PROVE  LET c == x % VIDEO_COLS
               s == (r + (x - c) \div VIDEO_COLS) % VIDEO_FILS
           IN  /\ c \in 0 .. VIDEO_COLS - 1 /\ s \in 0 .. VIDEO_FILS - 1
               /\ s * VIDEO_COLS + c = (r * VIDEO_COLS + x) % SIZE
<1> DEFINE c == x % VIDEO_COLS
           q == x \div VIDEO_COLS
           y == r + q
           s == y % VIDEO_FILS
           u == y \div VIDEO_FILS
<1>1. c \in 0 .. VIDEO_COLS - 1 /\ q \in Int /\ x = VIDEO_COLS * q + c
  BY Division, Sizes
<1>2. s \in 0 .. VIDEO_FILS - 1 /\ u \in Int /\ y = VIDEO_FILS * u + s /\ y \in Int
  BY <1>1, Division, Sizes
<1>3. (x - c) \div VIDEO_COLS = q
  <2>1. x - c \in Int /\ x - c = VIDEO_COLS * q + 0
    BY <1>1, Sizes
  <2>2. 0 \in 0 .. VIDEO_COLS - 1
    BY Sizes
  <2> HIDE DEF c, q
  <2> QED BY <1>1, <2>1, <2>2, DivisionUnique, Sizes
<1> HIDE DEF c, q, s, u
<1>4. s * VIDEO_COLS + c \in 0 .. SIZE - 1
  BY <1>1, <1>2, CellAt DEF Positions
<1>5. r * VIDEO_COLS + x = SIZE * u + (s * VIDEO_COLS + c)
  <2>1. \A n \in Int : n \in Nat => \A a, b \in Int : n * (a + b) = n * a + n * b
    OBVIOUS
  <2>2. VIDEO_COLS * y = VIDEO_COLS * r + VIDEO_COLS * q
    BY <1>1, <2>1, Sizes
  <2>3. VIDEO_COLS * y = VIDEO_COLS * (VIDEO_FILS * u) + VIDEO_COLS * s
    <3>1. VIDEO_FILS * u \in Int
      BY <1>2, Sizes
    <3>2. VIDEO_COLS * (VIDEO_FILS * u + s) = VIDEO_COLS * (VIDEO_FILS * u) + VIDEO_COLS * s
      BY <1>2, <2>1, <3>1, Sizes
    <3> QED BY <1>2, <3>2
  <2>4. VIDEO_COLS * (VIDEO_FILS * u) = SIZE * u
    <3>1. \A a, b, d \in Int : a * (b * d) = (a * b) * d
      OBVIOUS
    <3> QED BY <1>2, <3>1, Sizes
  <2> HIDE DEF y
  <2>5. /\ VIDEO_COLS * r \in Int /\ VIDEO_COLS * q \in Int /\ VIDEO_COLS * s \in Int
        /\ SIZE * u \in Int
    BY <1>1, <1>2, <2>4, Sizes
  <2>6. r * VIDEO_COLS = VIDEO_COLS * r /\ s * VIDEO_COLS = VIDEO_COLS * s
    BY <1>2, Sizes
  <2> DEFINE Vr == VIDEO_COLS * r
             Vq == VIDEO_COLS * q
             Vs == VIDEO_COLS * s
             Su == SIZE * u
  <2>7. /\ Vr \in Int /\ Vq \in Int /\ Vs \in Int /\ Su \in Int /\ c \in Int
        /\ Vr + Vq = Su + Vs /\ x = Vq + c /\ r * VIDEO_COLS = Vr /\ s * VIDEO_COLS = Vs
    BY <1>1, <2>2, <2>3, <2>4, <2>5, <2>6
  <2> HIDE DEF Vr, Vq, Vs, Su
  <2>8. Vr + x = Su + (Vs + c)
    BY <2>7
  <2> QED BY <2>7, <2>8 DEF Su
<1>6. (r * VIDEO_COLS + x) % SIZE = s * VIDEO_COLS + c
  <2>1. r * VIDEO_COLS + x \in Int
    BY Sizes
  <2> DEFINE w == s * VIDEO_COLS + c
             z == r * VIDEO_COLS + x
  <2> HIDE DEF w, z
  <2>2. w \in 0 .. SIZE - 1 /\ z = SIZE * u + w /\ z \in Int
    BY <1>4, <1>5, <2>1 DEF w, z
  <2>3. u \in Int /\ SIZE \in Nat \ {0}
    BY <1>2, Sizes
  <2>4. z % SIZE = w
    BY ONLY <2>2, <2>3, DivisionUnique
  <2> QED BY <2>4 DEF w, z
<1>7. s = (r + (x - c) \div VIDEO_COLS) % VIDEO_FILS
  BY <1>3 DEF s
<1> QED BY <1>1, <1>2, <1>6, <1>7 DEF c

-----------------------------------------------------------------------------
(* The marker                                                               *)

Letter == {Char(s, b) : s \in Printable, b \in BOOLEAN}

Glyphs == Letter \cup {NOTICE, BOOT}

(* A terminal without a marker, at a row and column that may be one too far.*)
Clean == [screen : [Cells -> Glyphs], curr_row : Int, curr_column : Int,
          is_shift_pressed : BOOLEAN, under_marker : Glyphs]

Screens == [Cells -> Glyphs \cup {MARKER}]

Terms == [screen : Screens, curr_row : 0 .. VIDEO_FILS - 1, curr_column : 0 .. VIDEO_COLS - 1,
          is_shift_pressed : BOOLEAN, under_marker : Glyphs]

(* The marker is no letter.                                                 *)
LEMMA MarkerIsNoGlyph == MARKER \notin Glyphs
<1>1. \A s, b : Char(s, b) # MARKER
  BY DEF Char, MARKER
<1>2. NOTICE # MARKER /\ BOOT # MARKER
  BY DEF NOTICE, BOOT, MARKER
<1> QED BY <1>1, <1>2 DEF Glyphs, Letter

(* What the marker covers is put back where it was.                         *)
LEMMA Restored ==
    ASSUME NEW t \in Terms, \A cell \in Cells \ {Here(t)} : t.screen[cell] # MARKER
    PROVE  /\ Here(t) \in Cells
           /\ restore_marker(t) \in Clean /\ restore_marker(t) \in Terms
           /\ restore_marker(t) = [t EXCEPT !.screen = restore_marker(t).screen]
           /\ \A cell \in Cells : restore_marker(t).screen[cell]
                                    = IF cell = Here(t) THEN t.under_marker ELSE t.screen[cell]
<1> DEFINE r == restore_marker(t)
<1>1. Here(t) \in Cells
  BY DEF Here, Cells, Terms
<1>2. r = [t EXCEPT !.screen = [t.screen EXCEPT ![Here(t)] = t.under_marker]]
  BY DEF restore_marker, put, Terms
<1>3. r.screen = [t.screen EXCEPT ![Here(t)] = t.under_marker]
  BY <1>2 DEF Terms
<1>4. \A cell \in Cells : r.screen[cell]
                            = IF cell = Here(t) THEN t.under_marker ELSE t.screen[cell]
  BY <1>1, <1>3 DEF Terms, Screens
<1>5. r.screen \in [Cells -> Glyphs]
  <2>1. \A cell \in Cells : r.screen[cell] \in Glyphs
    BY <1>4 DEF Terms, Screens
  <2>2. r.screen = [cell \in Cells |-> r.screen[cell]]
    BY <1>3 DEF Terms, Screens
  <2> QED BY <2>1, <2>2
<1> HIDE DEF r
<1>6. r = [t EXCEPT !.screen = r.screen]
  BY <1>2, <1>3
<1>7. r \in Clean
  <2>1. r = [screen |-> r.screen, curr_row |-> t.curr_row, curr_column |-> t.curr_column,
             is_shift_pressed |-> t.is_shift_pressed, under_marker |-> t.under_marker]
    BY <1>6 DEF Terms
  <2>2. t.curr_row \in Int /\ t.curr_column \in Int
    BY DEF Terms
  <2> QED BY <1>5, <2>1, <2>2 DEF Clean, Terms
<1>8. r \in Terms
  BY <1>5, <1>6 DEF Terms, Screens
<1> QED BY <1>1, <1>4, <1>6, <1>7, <1>8 DEF r

Placed(t, u) ==
    /\ u \in Terms
    /\ PosOf(u) = PosOf(t) % SIZE
    /\ u.is_shift_pressed = t.is_shift_pressed
    /\ u.under_marker = t.screen[Here(u)]
    /\ u.screen[Here(u)] = MARKER
    /\ \A cell \in Cells \ {Here(u)} : u.screen[cell] = t.screen[cell]

(* The row and column are brought back to the screen and the marker drawn.  *)
LEMMA MarkerPlaced ==
    ASSUME NEW t \in Clean
    PROVE  Placed(t, put_marker(fix_rowcol(t)))
<1> DEFINE f == fix_rowcol(t)
           u == put_marker(f)
           c == t.curr_column % VIDEO_COLS
           s == (t.curr_row + (t.curr_column - c) \div VIDEO_COLS) % VIDEO_FILS
<1>1. f = [t EXCEPT !.curr_column = c, !.curr_row = s]
  BY DEF fix_rowcol, Clean
<1>2. /\ c \in 0 .. VIDEO_COLS - 1 /\ s \in 0 .. VIDEO_FILS - 1
      /\ s * VIDEO_COLS + c = (t.curr_row * VIDEO_COLS + t.curr_column) % SIZE
  BY Wrapped DEF Clean
<1> HIDE DEF c, s, f
<1>3. f = [screen |-> t.screen, curr_row |-> s, curr_column |-> c,
           is_shift_pressed |-> t.is_shift_pressed, under_marker |-> t.under_marker]
  BY <1>1 DEF Clean
<1>4. Here(f) = <<s, c>> /\ Here(f) \in Cells
  BY <1>2, <1>3 DEF Here, Cells
<1>5. u = [screen |-> [t.screen EXCEPT ![Here(f)] = MARKER], curr_row |-> s, curr_column |-> c,
           is_shift_pressed |-> t.is_shift_pressed, under_marker |-> t.screen[Here(f)]]
  <2> DEFINE h == Here(f)
             g == [screen |-> t.screen, curr_row |-> s, curr_column |-> c,
                   is_shift_pressed |-> t.is_shift_pressed, under_marker |-> t.screen[h]]
  <2>1. u = [f EXCEPT !.under_marker = f.screen[h], !.screen[h] = MARKER]
    BY DEF put_marker
  <2> HIDE DEF h
  <2>2. [f EXCEPT !.under_marker = f.screen[h]] = g
    BY <1>3
  <2>3. u = [g EXCEPT !.screen[h] = MARKER]
    BY <2>1, <2>2
  <2>4. u = [screen |-> [t.screen EXCEPT ![h] = MARKER], curr_row |-> s, curr_column |-> c,
             is_shift_pressed |-> t.is_shift_pressed, under_marker |-> t.screen[h]]
    BY <2>3
  <2> QED BY <2>4 DEF h
<1> HIDE DEF u
<1>6. Here(u) = Here(f)
  BY <1>4, <1>5 DEF Here
<1>7. u.screen = [t.screen EXCEPT ![Here(u)] = MARKER] /\ u.under_marker = t.screen[Here(u)]
  BY <1>5, <1>6
<1>8. t.screen \in [Cells -> Glyphs] /\ t.is_shift_pressed \in BOOLEAN
  BY DEF Clean
<1>9. u.screen \in Screens /\ u.under_marker \in Glyphs
  BY <1>4, <1>6, <1>7, <1>8 DEF Screens
<1>10. u \in Terms
  BY <1>2, <1>5, <1>8, <1>9 DEF Terms
<1>11. PosOf(u) = PosOf(t) % SIZE
  BY <1>2, <1>5 DEF PosOf
<1>12. u.is_shift_pressed = t.is_shift_pressed
  BY <1>5
<1> QED BY <1>4, <1>6, <1>7, <1>8, <1>10, <1>11, <1>12 DEF Placed, u, f

-----------------------------------------------------------------------------
(* What a byte does to the terminal                                         *)

(* The page that a terminal without a marker shows.                         *)
PageClean(t) == [p \in Positions |-> t.screen[CellOf(p)]]

(* The page of a terminal, by its cells.                                    *)
LEMMA PageIs ==
    ASSUME NEW t
    PROVE  PageOf(t) = [p \in Positions |->
                          IF CellOf(p) = Here(t) THEN t.under_marker ELSE t.screen[CellOf(p)]]
  BY DEF PageOf, Positions, SIZE, CellOf

(* Drawing the marker leaves the page as it was.                            *)
LEMMA PagePlaced ==
    ASSUME NEW t, NEW u, Placed(t, u)
    PROVE  PageOf(u) = PageClean(t)
<1>1. \A p \in Positions : CellOf(p) \in Cells
  BY CellsAre
<1>2. \A p \in Positions : t.screen[CellOf(p)]
                             = IF CellOf(p) = Here(u) THEN u.under_marker
                               ELSE u.screen[CellOf(p)]
  BY <1>1 DEF Placed
<1>3. PageOf(u) = [p \in Positions |->
                     IF CellOf(p) = Here(u) THEN u.under_marker ELSE u.screen[CellOf(p)]]
  BY PageIs
<1> QED BY <1>2, <1>3 DEF PageClean

(* So does taking it away.                                                  *)
LEMMA PageRestored ==
    ASSUME NEW t \in Terms, \A cell \in Cells \ {Here(t)} : t.screen[cell] # MARKER
    PROVE  PageClean(restore_marker(t)) = PageOf(t)
<1>1. \A p \in Positions : restore_marker(t).screen[CellOf(p)]
                             = IF CellOf(p) = Here(t) THEN t.under_marker
                               ELSE t.screen[CellOf(p)]
  BY CellsAre, Restored
<1> QED BY <1>1, PageIs DEF PageClean

(* The position is that of the cursor and no other cell's.                  *)
LEMMA CursorAt ==
    ASSUME NEW t \in Terms
    PROVE  /\ PosOf(t) \in Positions /\ CellOf(PosOf(t)) = Here(t)
           /\ PosOf(t) \div VIDEO_COLS = t.curr_row
           /\ \A p \in Positions : CellOf(p) = Here(t) => p = PosOf(t)
<1>1. t.curr_row \in 0 .. VIDEO_FILS - 1 /\ t.curr_column \in 0 .. VIDEO_COLS - 1
  BY DEF Terms
<1>2. PosOf(t) \in Positions /\ CellOf(PosOf(t)) = Here(t)
  BY <1>1, CellAt DEF PosOf, Here
<1>3. PosOf(t) \div VIDEO_COLS = t.curr_row
  BY <1>2 DEF CellOf, Here
<1>4. ASSUME NEW p \in Positions, CellOf(p) = Here(t) PROVE p = PosOf(t)
  <2>1. CellOf(p)[1] = t.curr_row /\ CellOf(p)[2] = t.curr_column
    BY <1>4 DEF Here
  <2> QED BY <2>1, CellsAre DEF PosOf
<1> QED BY <1>2, <1>3, <1>4

(* A move of the cursor: the page stays, the position is the new one.       *)
LEMMA Moved ==
    ASSUME NEW t \in Terms, \A cell \in Cells \ {Here(t)} : t.screen[cell] # MARKER,
           NEW row \in Int, NEW column \in Int
    PROVE  LET u == MoveTo(t, row, column)
           IN  /\ u \in Terms /\ PageOf(u) = PageOf(t)
               /\ PosOf(u) = (row * VIDEO_COLS + column) % SIZE
               /\ u.is_shift_pressed = t.is_shift_pressed
               /\ u.screen[Here(u)] = MARKER
               /\ \A cell \in Cells \ {Here(u)} : u.screen[cell] # MARKER
<1> DEFINE r == restore_marker(t)
           m == [r EXCEPT !.curr_row = row, !.curr_column = column]
           u == put_marker(fix_rowcol(m))
<1>1. r \in Clean /\ r.is_shift_pressed = t.is_shift_pressed /\ PageClean(r) = PageOf(t)
  <2>1. r \in Clean /\ r = [t EXCEPT !.screen = r.screen]
    BY Restored
  <2> HIDE DEF r
  <2>2. r.is_shift_pressed = t.is_shift_pressed
    BY <2>1 DEF Terms
  <2> QED BY <2>1, <2>2, PageRestored DEF r
<1> HIDE DEF r
<1>2. /\ m \in Clean /\ m.screen = r.screen /\ m.curr_row = row /\ m.curr_column = column
      /\ m.is_shift_pressed = r.is_shift_pressed
  BY <1>1 DEF Clean
<1>3. u = MoveTo(t, row, column)
  BY DEF MoveTo, r
<1> HIDE DEF m
<1>4. Placed(m, u)
  BY <1>2, MarkerPlaced
<1> HIDE DEF u
<1>5. PageOf(u) = PageClean(m) /\ PageClean(m) = PageClean(r)
  BY <1>2, <1>4, PagePlaced DEF PageClean
<1>6. PosOf(u) = (row * VIDEO_COLS + column) % SIZE
  BY <1>2, <1>4 DEF Placed, PosOf
<1>7. \A cell \in Cells : m.screen[cell] # MARKER
  BY <1>2, MarkerIsNoGlyph DEF Clean
<1> QED BY <1>1, <1>2, <1>3, <1>4, <1>5, <1>6, <1>7 DEF Placed

(* A character: it is put at the position, over the marker, and the         *)
(* position advances.                                                       *)
LEMMA Typed ==
    ASSUME NEW t \in Terms, \A cell \in Cells \ {Here(t)} : t.screen[cell] # MARKER,
           NEW c \in Letter
    PROVE  LET u == put_marker(fix_rowcol([put(t, c) EXCEPT !.curr_column = @ + 1]))
           IN  /\ u \in Terms /\ PageOf(u) = [PageOf(t) EXCEPT ![PosOf(t)] = c]
               /\ PosOf(u) = (PosOf(t) + 1) % SIZE
               /\ u.is_shift_pressed = t.is_shift_pressed
               /\ u.screen[Here(u)] = MARKER
               /\ \A cell \in Cells \ {Here(u)} : u.screen[cell] # MARKER
<1> DEFINE m == [put(t, c) EXCEPT !.curr_column = @ + 1]
           u == put_marker(fix_rowcol(m))
<1>1. Here(t) \in Cells
  BY DEF Here, Cells, Terms
<1>2. m = [screen |-> [t.screen EXCEPT ![Here(t)] = c], curr_row |-> t.curr_row,
           curr_column |-> t.curr_column + 1, is_shift_pressed |-> t.is_shift_pressed,
           under_marker |-> t.under_marker]
  <2> DEFINE h == Here(t)
  <2>1. m = [[t EXCEPT !.screen[h] = c] EXCEPT !.curr_column = @ + 1]
    BY DEF put
  <2> HIDE DEF h, m
  <2>2. [t EXCEPT !.screen[h] = c] =
          [screen |-> [t.screen EXCEPT ![h] = c], curr_row |-> t.curr_row,
           curr_column |-> t.curr_column, is_shift_pressed |-> t.is_shift_pressed,
           under_marker |-> t.under_marker]
    BY DEF Terms
  <2>3. m = [screen |-> [t.screen EXCEPT ![h] = c], curr_row |-> t.curr_row,
             curr_column |-> t.curr_column + 1, is_shift_pressed |-> t.is_shift_pressed,
             under_marker |-> t.under_marker]
    BY <2>1, <2>2
  <2> QED BY <2>3 DEF h
<1> HIDE DEF m
<1>3. \A cell \in Cells : m.screen[cell] = IF cell = Here(t) THEN c ELSE t.screen[cell]
  BY <1>1, <1>2 DEF Terms, Screens
<1>4. m.screen \in [Cells -> Glyphs]
  <2>1. \A cell \in Cells : m.screen[cell] \in Glyphs
    BY <1>3 DEF Terms, Screens, Glyphs
  <2>2. m.screen = [cell \in Cells |-> m.screen[cell]]
    BY <1>2 DEF Terms, Screens
  <2> QED BY <2>1, <2>2
<1>5. m \in Clean
  <2>1. /\ t.curr_row \in Int /\ t.curr_column + 1 \in Int /\ t.is_shift_pressed \in BOOLEAN
        /\ t.under_marker \in Glyphs
    BY DEF Terms
  <2> QED BY <1>2, <1>4, <2>1 DEF Clean
<1>6. Placed(m, u)
  BY <1>5, MarkerPlaced
<1> HIDE DEF u
<1>7. PageOf(u) = PageClean(m)
  BY <1>6, PagePlaced
<1>8. PageClean(m) = [PageOf(t) EXCEPT ![PosOf(t)] = c]
  <2>1. \A p \in Positions : m.screen[CellOf(p)] = IF p = PosOf(t) THEN c
                                                   ELSE PageOf(t)[p]
    <3> TAKE p \in Positions
    <3>1. CellOf(p) \in Cells /\ (CellOf(p) = Here(t) <=> p = PosOf(t))
      BY CellsAre, CursorAt
    <3>2. PageOf(t)[p] = IF CellOf(p) = Here(t) THEN t.under_marker ELSE t.screen[CellOf(p)]
      BY PageIs
    <3> QED BY <1>3, <3>1, <3>2
  <2>2. PageOf(t) = [p \in Positions |-> PageOf(t)[p]]
    BY PageIs
  <2> QED BY <2>1, <2>2, CursorAt DEF PageClean
<1>9. PosOf(u) = (PosOf(t) + 1) % SIZE
  <2>1. PosOf(m) = PosOf(t) + 1
    <3>1. t.curr_row \in Int /\ t.curr_column \in Int
      BY DEF Terms
    <3>2. t.curr_row * VIDEO_COLS \in Int
      BY <3>1, Sizes
    <3> QED BY <1>2, <3>1, <3>2 DEF PosOf
  <2> QED BY <1>6, <2>1 DEF Placed
<1>10. \A cell \in Cells : m.screen[cell] # MARKER
  BY <1>4, MarkerIsNoGlyph
<1> QED BY <1>2, <1>6, <1>7, <1>8, <1>9, <1>10 DEF Placed, u, m

(* The notice about an unknown key.                                         *)
LEMMA Noticed ==
    ASSUME NEW t \in Terms, \A cell \in Cells \ {Here(t)} : t.screen[cell] # MARKER
    PROVE  LET u == [t EXCEPT !.screen = [cell \in Cells |->
                                 IF cell \in NoticeCells THEN NOTICE ELSE @[cell]]]
           IN  /\ u \in Terms /\ PosOf(u) = PosOf(t) /\ Here(u) = Here(t)
               /\ u.is_shift_pressed = t.is_shift_pressed
               /\ PageOf(u) = [p \in Positions |-> IF CellOf(p) \in NoticeCells /\ p # PosOf(t)
                                                   THEN NOTICE ELSE PageOf(t)[p]]
               /\ \A cell \in Cells : u.screen[cell] = NOTICE \/ u.screen[cell] = t.screen[cell]
<1> DEFINE S == [cell \in Cells |-> IF cell \in NoticeCells THEN NOTICE ELSE t.screen[cell]]
           u == [t EXCEPT !.screen = S]
<1>1. \A cell \in Cells : S[cell] = IF cell \in NoticeCells THEN NOTICE ELSE t.screen[cell]
  OBVIOUS
<1>2. S \in Screens
  BY DEF Terms, Screens, Glyphs
<1>3. [t EXCEPT !.screen = [cell \in Cells |->
                              IF cell \in NoticeCells THEN NOTICE ELSE @[cell]]] = u
  OBVIOUS
<1> HIDE DEF S
<1>4. u = [screen |-> S, curr_row |-> t.curr_row, curr_column |-> t.curr_column,
           is_shift_pressed |-> t.is_shift_pressed, under_marker |-> t.under_marker]
  BY DEF Terms
<1> HIDE DEF u
<1>5. /\ u \in Terms /\ PosOf(u) = PosOf(t) /\ Here(u) = Here(t)
      /\ u.is_shift_pressed = t.is_shift_pressed
  BY <1>2, <1>4 DEF Terms, PosOf, Here
<1>6. PageOf(u) = [p \in Positions |-> IF CellOf(p) \in NoticeCells /\ p # PosOf(t)
                                       THEN NOTICE ELSE PageOf(t)[p]]
  <2>1. ASSUME NEW p \in Positions
        PROVE  (IF CellOf(p) = Here(u) THEN u.under_marker ELSE u.screen[CellOf(p)])
                 = IF CellOf(p) \in NoticeCells /\ p # PosOf(t) THEN NOTICE ELSE PageOf(t)[p]
    <3>1. CellOf(p) \in Cells /\ (CellOf(p) = Here(t) <=> p = PosOf(t))
      BY CellsAre, CursorAt
    <3>2. PageOf(t)[p] = IF CellOf(p) = Here(t) THEN t.under_marker ELSE t.screen[CellOf(p)]
      BY PageIs
    <3>3. u.screen[CellOf(p)] = IF CellOf(p) \in NoticeCells THEN NOTICE
                                ELSE t.screen[CellOf(p)]
      BY <1>1, <1>4, <3>1
    <3> QED BY <1>4, <1>5, <3>1, <3>2, <3>3
  <2> QED BY <2>1, PageIs
<1>7. \A cell \in Cells : u.screen[cell] = NOTICE \/ u.screen[cell] = t.screen[cell]
  BY <1>1, <1>4
<1> QED BY <1>3, <1>5, <1>6, <1>7

-----------------------------------------------------------------------------
(* The terminal is a page                                                   *)

Moves == {\h50, \h48, \h0E, \h4B, \h4D, \h1C}

(* Where the keys move the cursor: the row and the column, before they are  *)
(* brought back to the screen.                                              *)
Target(t, scancode) ==
    CASE scancode = \h50           -> <<t.curr_row + 1, t.curr_column>>
      [] scancode = \h48           -> <<t.curr_row - 1, t.curr_column>>
      [] scancode \in {\h0E, \h4B} -> <<t.curr_row, t.curr_column - 1>>
      [] scancode = \h4D           -> <<t.curr_row, t.curr_column + 1>>
      [] scancode = \h1C           -> <<t.curr_row + 1, 0>>

Shifted(t) == [t EXCEPT !.is_shift_pressed = ~@]

(* What special_scancodes does, by the kind of key.                         *)
LEMMA SpecialKinds ==
    ASSUME NEW t, NEW scancode
    PROVE  /\ scancode \in TogglesShift => special_scancodes(t, scancode) = Shifted(t)
           /\ scancode \in Moves =>
                 special_scancodes(t, scancode)
                   = MoveTo(t, Target(t, scancode)[1], Target(t, scancode)[2])
           /\ scancode \notin TogglesShift \cup Moves =>
                 special_scancodes(t, scancode) = unrecognized_scancode(t, scancode)
<1>1. CASE scancode \in TogglesShift
  <2>1. /\ scancode \notin Moves /\ scancode # \h50 /\ scancode # \h48
        /\ scancode \notin {\h0E, \h4B} /\ scancode # \h4D /\ scancode # \h1C
    BY <1>1 DEF TogglesShift, Moves
  <2>2. special_scancodes(t, scancode) = [t EXCEPT !.is_shift_pressed = ~@]
    BY ONLY <1>1, <2>1 DEF special_scancodes
  <2> QED BY <1>1, <2>1, <2>2 DEF Shifted
<1>2. CASE scancode \notin TogglesShift /\ scancode \in Moves
  BY <1>2 DEF special_scancodes, Moves, Target
<1>3. CASE scancode \notin TogglesShift \cup Moves
  BY <1>3 DEF special_scancodes, Moves
<1> QED BY <1>1, <1>2, <1>3

(* The targets, as positions.                                               *)
LEMMA Targets ==
    ASSUME NEW t \in Terms, NEW scancode \in Moves
    PROVE  LET row    == Target(t, scancode)[1]
               column == Target(t, scancode)[2]
               to     == row * VIDEO_COLS + column
           IN  /\ row \in Int /\ column \in Int
               /\ \/ \E d \in {-1, 1, -VIDEO_COLS, VIDEO_COLS} : to = PosOf(t) + d
                  \/ to = (PosOf(t) \div VIDEO_COLS + 1) * VIDEO_COLS
<1> DEFINE r == t.curr_row
           c == t.curr_column
           row == Target(t, scancode)[1]
           column == Target(t, scancode)[2]
<1>1. r \in Int /\ c \in Int /\ PosOf(t) = r * VIDEO_COLS + c
      /\ PosOf(t) \div VIDEO_COLS = r /\ VIDEO_COLS \in Nat
  BY CursorAt, Sizes DEF Terms, PosOf
<1>2. /\ r * VIDEO_COLS \in Int /\ (r + 1) * VIDEO_COLS = r * VIDEO_COLS + VIDEO_COLS
      /\ (r - 1) * VIDEO_COLS = r * VIDEO_COLS - VIDEO_COLS
  <2>1. \A n \in Nat : \A x \in Int : /\ x * n \in Int /\ (x + 1) * n = x * n + n
                                      /\ (x - 1) * n = x * n - n
    OBVIOUS
  <2> QED BY <1>1, <2>1
<1> HIDE DEF r, c
<1>3. CASE scancode = \h50
  <2>1. row = r + 1 /\ column = c
    BY <1>3 DEF Target, r, c
  <2>2. row * VIDEO_COLS + column = PosOf(t) + VIDEO_COLS
    BY <1>1, <1>2, <2>1
  <2> QED BY <1>1, <2>1, <2>2
<1>4. CASE scancode = \h48
  <2>1. row = r - 1 /\ column = c
    BY <1>4 DEF Target, r, c
  <2>2. row * VIDEO_COLS + column = PosOf(t) + (-VIDEO_COLS)
    BY <1>1, <1>2, <2>1
  <2> QED BY <1>1, <2>1, <2>2
<1>5. CASE scancode \in {\h0E, \h4B}
  <2>1. row = r /\ column = c - 1
    BY <1>5 DEF Target, r, c
  <2>2. row * VIDEO_COLS + column = PosOf(t) + (-1)
    BY <1>1, <1>2, <2>1
  <2> QED BY <1>1, <2>1, <2>2
<1>6. CASE scancode = \h4D
  <2>1. row = r /\ column = c + 1
    BY <1>6 DEF Target, r, c
  <2>2. row * VIDEO_COLS + column = PosOf(t) + 1
    BY <1>1, <1>2, <2>1
  <2> QED BY <1>1, <2>1, <2>2
<1>7. CASE scancode = \h1C
  <2>1. row = r + 1 /\ column = 0
    BY <1>7 DEF Target, r, c
  <2>2. row * VIDEO_COLS + column = (PosOf(t) \div VIDEO_COLS + 1) * VIDEO_COLS
    BY <1>1, <1>2, <2>1
  <2> QED BY <1>1, <2>1, <2>2
<1> HIDE DEF row, column
<1> QED BY <1>3, <1>4, <1>5, <1>6, <1>7 DEF Moves, row, column

(* What a byte makes of a terminal with its marker at the cursor.           *)
Next1(t, scancode) ==
    IF scancode \in Printable
      THEN put_marker(fix_rowcol([put(t, Char(scancode, t.is_shift_pressed))
                                    EXCEPT !.curr_column = @ + 1]))
      ELSE special_scancodes(t, scancode)

MarkerOf(t) ==
    /\ \A cell \in Cells \ {Here(t)} : t.screen[cell] # MARKER
    /\ Here(t) # <<0, 0>> => t.screen[Here(t)] \in {MARKER, NOTICE}

(* The five kinds of bytes.                                                 *)
PageStep(t, u) ==
    \/ /\ \E c \in Letters(t.is_shift_pressed) : PageOf(u) = [PageOf(t) EXCEPT ![PosOf(t)] = c]
       /\ PosOf(u) = (PosOf(t) + 1) % SIZE
       /\ u.is_shift_pressed = t.is_shift_pressed
    \/ /\ \/ \E d \in {-1, 1, -VIDEO_COLS, VIDEO_COLS} : PosOf(u) = (PosOf(t) + d) % SIZE
          \/ PosOf(u) = ((PosOf(t) \div VIDEO_COLS + 1) * VIDEO_COLS) % SIZE
       /\ PageOf(u) = PageOf(t) /\ u.is_shift_pressed = t.is_shift_pressed
    \/ /\ u.is_shift_pressed = ~t.is_shift_pressed
       /\ PageOf(u) = PageOf(t) /\ PosOf(u) = PosOf(t)
    \/ /\ PageOf(u) = [p \in Positions |-> IF CellOf(p) \in NoticeCells /\ p # PosOf(t)
                                           THEN NOTICE ELSE PageOf(t)[p]]
       /\ PosOf(u) = PosOf(t) /\ u.is_shift_pressed = t.is_shift_pressed
    \/ u = t

(* One byte keeps the marker at the cursor and is a step of the page.       *)
LEMMA ByteStep ==
    ASSUME NEW t \in Terms, MarkerOf(t), NEW scancode \in 0 .. 255
    PROVE  LET u == Next1(t, scancode)
           IN  u \in Terms /\ MarkerOf(u) /\ PageStep(t, u)
<1> DEFINE u == Next1(t, scancode)
<1>1. /\ \A cell \in Cells \ {Here(t)} : t.screen[cell] # MARKER
      /\ t.is_shift_pressed \in BOOLEAN
  BY DEF MarkerOf, Terms
<1>2. CASE scancode \in Printable
  <2> DEFINE c == Char(scancode, t.is_shift_pressed)
             v == put_marker(fix_rowcol([put(t, c) EXCEPT !.curr_column = @ + 1]))
  <2>1. c \in Letter /\ c \in Letters(t.is_shift_pressed)
    BY <1>1, <1>2 DEF Letter, Letters
  <2> HIDE DEF c
  <2>2. /\ v \in Terms /\ PageOf(v) = [PageOf(t) EXCEPT ![PosOf(t)] = c]
        /\ PosOf(v) = (PosOf(t) + 1) % SIZE
        /\ v.is_shift_pressed = t.is_shift_pressed
        /\ v.screen[Here(v)] = MARKER
        /\ \A cell \in Cells \ {Here(v)} : v.screen[cell] # MARKER
    BY <1>1, <2>1, Typed
  <2>3. u = v
    BY <1>2 DEF Next1, c
  <2> HIDE DEF u, v
  <2>5. MarkerOf(v)
    BY <2>2 DEF MarkerOf
  <2>7. PageStep(t, v)
    BY <2>1, <2>2 DEF PageStep
  <2> QED BY <2>2, <2>3, <2>5, <2>7 DEF u
<1>3. CASE scancode \notin Printable /\ scancode \in TogglesShift
  <2>1. u = Shifted(t)
    BY <1>3, SpecialKinds DEF Next1
  <2>2. u = [screen |-> t.screen, curr_row |-> t.curr_row, curr_column |-> t.curr_column,
             is_shift_pressed |-> ~t.is_shift_pressed, under_marker |-> t.under_marker]
    BY <2>1 DEF Shifted, Terms
  <2> HIDE DEF u
  <2>3. u \in Terms /\ PosOf(u) = PosOf(t) /\ Here(u) = Here(t)
    BY <1>1, <2>2 DEF Terms, PosOf, Here
  <2>4. PageOf(u) = PageOf(t)
    BY <2>2, <2>3, PageIs
  <2>5. MarkerOf(u)
    BY <2>2, <2>3 DEF MarkerOf
  <2>6. u.is_shift_pressed = ~t.is_shift_pressed
    BY <2>2
  <2>8. PageStep(t, u)
    BY <2>3, <2>4, <2>6 DEF PageStep
  <2> QED BY <2>3, <2>5, <2>8 DEF u
<1>4. CASE scancode \in Moves
  <2> DEFINE row == Target(t, scancode)[1]
             column == Target(t, scancode)[2]
  <2>1. scancode \notin Printable /\ scancode \notin TogglesShift
    BY <1>4 DEF Printable, TogglesShift, Moves
  <2>2. u = MoveTo(t, row, column)
    BY <1>4, <2>1, SpecialKinds DEF Next1
  <2>3. /\ row \in Int /\ column \in Int
        /\ \/ \E d \in {-1, 1, -VIDEO_COLS, VIDEO_COLS} :
                 row * VIDEO_COLS + column = PosOf(t) + d
           \/ row * VIDEO_COLS + column = (PosOf(t) \div VIDEO_COLS + 1) * VIDEO_COLS
    BY <1>4, Targets
  <2> HIDE DEF row, column, u
  <2>4. /\ u \in Terms /\ PageOf(u) = PageOf(t)
        /\ PosOf(u) = (row * VIDEO_COLS + column) % SIZE
        /\ u.is_shift_pressed = t.is_shift_pressed
        /\ u.screen[Here(u)] = MARKER
        /\ \A cell \in Cells \ {Here(u)} : u.screen[cell] # MARKER
    BY <1>1, <2>2, <2>3, Moved
  <2>5. MarkerOf(u)
    BY <2>4 DEF MarkerOf
  <2>7. PageStep(t, u)
    BY <2>3, <2>4 DEF PageStep
  <2> QED BY <2>4, <2>5, <2>7 DEF u
<1>5. CASE scancode \notin Printable \cup TogglesShift \cup Moves
  <2>1. u = unrecognized_scancode(t, scancode)
    BY <1>5, SpecialKinds DEF Next1
  <2>3. CASE scancode >= \h80
    <3>1. u = t
      BY <2>1, <2>3 DEF unrecognized_scancode
    <3> QED BY <3>1 DEF PageStep
  <2>4. CASE ~(scancode >= \h80)
    <3> DEFINE v == [t EXCEPT !.screen = [cell \in Cells |->
                                   IF cell \in NoticeCells THEN NOTICE ELSE @[cell]]]
    <3>1. u = v
      BY <2>1, <2>4 DEF unrecognized_scancode
    <3>2. /\ v \in Terms /\ PosOf(v) = PosOf(t) /\ Here(v) = Here(t)
          /\ v.is_shift_pressed = t.is_shift_pressed
          /\ PageOf(v) = [p \in Positions |-> IF CellOf(p) \in NoticeCells /\ p # PosOf(t)
                                              THEN NOTICE ELSE PageOf(t)[p]]
          /\ \A cell \in Cells : v.screen[cell] = NOTICE \/ v.screen[cell] = t.screen[cell]
      BY <1>1, Noticed
    <3> HIDE DEF u, v
    <3>3. Here(t) \in Cells /\ NOTICE # MARKER
      BY DEF Here, Cells, Terms, NOTICE, MARKER
    <3>4. MarkerOf(v)
      BY <3>2, <3>3 DEF MarkerOf
    <3>6. PageStep(t, v)
      BY <3>2 DEF PageStep
    <3> QED BY <3>1, <3>2, <3>4, <3>6 DEF u
  <2> QED BY <2>3, <2>4
<1> QED BY <1>2, <1>3, <1>4, <1>5

-----------------------------------------------------------------------------
(* What a key sends                                                         *)

Bytes == 0 .. 255

Keys == {k \in [code : 1 .. LAST_FIELD, extended : BOOLEAN] : k.extended => k.code # \h2A}

(* The codes among the bytes of a key, now.                                 *)
Sends(k) == {k.code} \cup IF Pretends(k) THEN {\h2A} ELSE {}

(* The codes C, all pressed or all released; the prefix is the release of   *)
(* no key.                                                                  *)
BytesOf(bytes, C, v) ==
    /\ bytes \in Seq(Bytes)
    /\ \A j \in 1 .. Len(bytes) :
          \/ KeyOf(bytes[j]) \in C /\ (IsPress(bytes[j]) <=> v)
          \/ KeyOf(bytes[j]) = \h60 /\ ~IsPress(bytes[j])
    /\ \A c \in C : \E j \in 1 .. Len(bytes) : KeyOf(bytes[j]) = c

(* What a key of the keyboard is.                                           *)
LEMMA KeyIs ==
    ASSUME NEW k \in Keys
    PROVE  /\ k.code \in 1 .. LAST_FIELD
           /\ Codes(k) \subseteq 1 .. LAST_FIELD
           /\ k.code \in Sends(k) /\ Sends(k) \subseteq Codes(k)
<1>1. k.code \in 1 .. LAST_FIELD
  BY DEF Keys
<1>2. Codes(k) \subseteq 1 .. LAST_FIELD
  BY <1>1 DEF Codes, LAST_FIELD
<1>3. Sends(k) \subseteq Codes(k)
  BY DEF Sends, Codes, Pretends
<1> QED BY <1>1, <1>2, <1>3 DEF Sends

(* A code and its release stand for the same key.                           *)
LEMMA ByteOfKey ==
    ASSUME NEW c \in 1 .. LAST_FIELD
    PROVE  /\ c \in Bytes /\ KeyOf(c) = c /\ IsPress(c)
           /\ c + \h80 \in Bytes /\ KeyOf(c + \h80) = c /\ ~IsPress(c + \h80)
<1>1. c \in 1 .. 88
  BY DEF LAST_FIELD
<1>2. \A d \in 1 .. 88 : /\ d \in 0 .. 255 /\ d + 128 \in 0 .. 255
                         /\ d % 128 = d /\ d < 128
                         /\ (d + 128) % 128 = d /\ ~(d + 128 < 128)
  OBVIOUS
<1> QED BY <1>1, <1>2 DEF Bytes, KeyOf, IsPress

(* The prefix.                                                              *)
LEMMA Prefix == \hE0 \in Bytes /\ KeyOf(\hE0) = \h60 /\ ~IsPress(\hE0)
  BY DEF Bytes, KeyOf, IsPress

(* Two bytes and two more.                                                  *)
LEMMA FourBytes ==
    ASSUME NEW a \in Bytes, NEW b \in Bytes, NEW c \in Bytes, NEW d \in Bytes
    PROVE  <<a, b>> \o <<c, d>> = <<a, b, c, d>>
<1> DEFINE s == <<a, b>>
           t == <<c, d>>
           u == s \o t
           v == <<a, b, c, d>>
<1>1. s \in Seq(Bytes) /\ Len(s) = 2 /\ s[1] = a /\ s[2] = b
  OBVIOUS
<1>2. t \in Seq(Bytes) /\ Len(t) = 2 /\ t[1] = c /\ t[2] = d
  OBVIOUS
<1>3. v \in Seq(Bytes) /\ Len(v) = 4 /\ v[1] = a /\ v[2] = b /\ v[3] = c /\ v[4] = d
  OBVIOUS
<1> HIDE DEF s, t, v
<1>4. /\ u \in Seq(Bytes) /\ Len(u) = Len(s) + Len(t)
      /\ \A i \in 1 .. Len(s) : u[i] = s[i]
      /\ \A i \in 1 .. Len(t) : u[Len(s) + i] = t[i]
  <2>1. s \in Seq(Bytes) /\ t \in Seq(Bytes)
    BY <1>1, <1>2
  <2> QED BY ONLY <2>1, ConcatProperties
<1> HIDE DEF u
<1>5. Len(u) = 4 /\ u[1] = a /\ u[2] = b /\ u[2 + 1] = c /\ u[2 + 2] = d
  BY ONLY <1>1, <1>2, <1>4
<1>6. \A i \in 1 .. Len(u) : u[i] = v[i]
  BY <1>3, <1>5
<1>7. u = v
  BY <1>3, <1>4, <1>5, <1>6, SeqEqual
<1> QED BY <1>7 DEF u, v, s, t

(* One code, with the prefix or without.                                    *)
LEMMA OneCode ==
    ASSUME NEW k \in Keys, NEW b \in Bytes, NEW v \in BOOLEAN,
           KeyOf(b) = k.code, IsPress(b) <=> v,
           NEW bytes, bytes = IF k.extended THEN <<\hE0, b>> ELSE <<b>>
    PROVE  BytesOf(bytes, {k.code}, v)
<1>1. CASE k.extended
  <2> DEFINE w == <<\hE0, b>>
  <2>1. w \in Seq(Bytes) /\ Len(w) = 2 /\ w[1] = \hE0 /\ w[2] = b
    BY Prefix
  <2> HIDE DEF w
  <2>2. BytesOf(w, {k.code}, v)
    BY <2>1, Prefix DEF BytesOf
  <2> QED BY <1>1, <2>2 DEF w
<1>2. CASE ~k.extended
  <2> DEFINE w == <<b>>
  <2>1. w \in Seq(Bytes) /\ Len(w) = 1 /\ w[1] = b
    OBVIOUS
  <2> HIDE DEF w
  <2>2. BytesOf(w, {k.code}, v)
    BY <2>1 DEF BytesOf
  <2> QED BY <1>2, <2>2 DEF w
<1> QED BY <1>1, <1>2

(* The code of a key.                                                       *)
LEMMA CodeBytes ==
    ASSUME NEW k \in Keys
    PROVE  BytesOf(Code(k), {k.code}, TRUE)
<1>1. k.code \in Bytes /\ KeyOf(k.code) = k.code /\ IsPress(k.code)
  BY ByteOfKey, KeyIs
<1> QED BY <1>1, OneCode DEF Code

(* A key that is pressed.                                                   *)
LEMMA MakeBytes ==
    ASSUME NEW k \in Keys
    PROVE  BytesOf(Make(k), Sends(k), TRUE)
<1>1. CASE ~Pretends(k)
  <2>1. Make(k) = Code(k) /\ Sends(k) = {k.code}
    BY <1>1 DEF Make, Sends
  <2> QED BY <2>1, CodeBytes
<1>2. CASE Pretends(k)
  <2> DEFINE b == <<\hE0, \h2A, \hE0, \h37>>
  <2>1. Make(k) = b /\ Sends(k) = {\h37, \h2A}
    <3>1. k.code = \h37 /\ k.extended
      BY <1>2 DEF Pretends, PRINT_SCREEN
    <3>2. Make(k) = <<\hE0, \h2A>> \o <<\hE0, \h37>>
      BY <1>2, <3>1 DEF Make, Code
    <3>3. \hE0 \in Bytes /\ \h2A \in Bytes /\ \h37 \in Bytes
      BY DEF Bytes
    <3>4. Make(k) = b
      BY ONLY <3>2, <3>3, FourBytes
    <3>5. Sends(k) = {\h37, \h2A}
      BY <1>2, <3>1 DEF Sends
    <3> QED BY <3>4, <3>5
  <2>2. /\ b \in Seq(Bytes) /\ Len(b) = 4
        /\ b[1] = \hE0 /\ b[2] = \h2A /\ b[3] = \hE0 /\ b[4] = \h37
    BY DEF Bytes
  <2>3. KeyOf(\h2A) = \h2A /\ KeyOf(\h37) = \h37 /\ IsPress(\h2A) /\ IsPress(\h37)
    BY DEF KeyOf, IsPress
  <2> HIDE DEF b
  <2>4. \A j \in 1 .. 4 : j = 1 \/ j = 2 \/ j = 3 \/ j = 4
    OBVIOUS
  <2>5. \A j \in 1 .. 4 : \/ KeyOf(b[j]) \in {\h37, \h2A} /\ IsPress(b[j])
                          \/ KeyOf(b[j]) = \h60 /\ ~IsPress(b[j])
    BY <2>2, <2>3, <2>4, Prefix
  <2>6. 2 \in 1 .. 4 /\ 4 \in 1 .. 4 /\ KeyOf(b[2]) = \h2A /\ KeyOf(b[4]) = \h37
    BY <2>2, <2>3
  <2>7. BytesOf(b, {\h37, \h2A}, TRUE)
    BY <2>2, <2>5, <2>6 DEF BytesOf
  <2> QED BY <2>1, <2>7
<1> QED BY <1>1, <1>2

(* A key that is released.                                                  *)
LEMMA BreakBytes ==
    ASSUME NEW k \in Keys
    PROVE  BytesOf(Break(k), Sends(k), FALSE)
<1> DEFINE r == k.code + \h80
           code == IF k.extended THEN <<\hE0, r>> ELSE <<r>>
<1>1. CASE ~Pretends(k)
  <2>1. Break(k) = code /\ Sends(k) = {k.code}
    BY <1>1 DEF Break, Sends
  <2>2. r \in Bytes /\ KeyOf(r) = k.code /\ ~IsPress(r)
    BY ByteOfKey, KeyIs
  <2> HIDE DEF r
  <2>3. BytesOf(code, {k.code}, FALSE)
    BY <2>2, OneCode
  <2> QED BY <2>1, <2>3
<1>2. CASE Pretends(k)
  <2> DEFINE b == <<\hE0, \hB7, \hE0, \hAA>>
  <2>1. Break(k) = b /\ Sends(k) = {\h37, \h2A}
    <3>1. k.code = \h37 /\ k.extended
      BY <1>2 DEF Pretends, PRINT_SCREEN
    <3>2. k.code + \h80 = \hB7
      BY <3>1
    <3>3. Break(k) = <<\hE0, \hB7>> \o <<\hE0, \hAA>>
      BY <1>2, <3>1, <3>2 DEF Break
    <3>4. \hE0 \in Bytes /\ \hB7 \in Bytes /\ \hAA \in Bytes
      BY DEF Bytes
    <3>5. Break(k) = b
      BY ONLY <3>3, <3>4, FourBytes
    <3>6. Sends(k) = {\h37, \h2A}
      BY <1>2, <3>1 DEF Sends
    <3> QED BY <3>5, <3>6
  <2>2. /\ b \in Seq(Bytes) /\ Len(b) = 4
        /\ b[1] = \hE0 /\ b[2] = \hB7 /\ b[3] = \hE0 /\ b[4] = \hAA
    BY DEF Bytes
  <2>3. KeyOf(\hAA) = \h2A /\ KeyOf(\hB7) = \h37 /\ ~IsPress(\hAA) /\ ~IsPress(\hB7)
    BY DEF KeyOf, IsPress
  <2> HIDE DEF b
  <2>4. \A j \in 1 .. 4 : j = 1 \/ j = 2 \/ j = 3 \/ j = 4
    OBVIOUS
  <2>5. \A j \in 1 .. 4 : \/ KeyOf(b[j]) \in {\h37, \h2A} /\ ~IsPress(b[j])
                          \/ KeyOf(b[j]) = \h60 /\ ~IsPress(b[j])
    BY <2>2, <2>3, <2>4, Prefix
  <2>6. 2 \in 1 .. 4 /\ 4 \in 1 .. 4 /\ KeyOf(b[4]) = \h2A /\ KeyOf(b[2]) = \h37
    BY <2>2, <2>3
  <2>7. BytesOf(b, {\h37, \h2A}, FALSE)
    BY <2>2, <2>5, <2>6 DEF BytesOf
  <2> QED BY <2>1, <2>7
<1> QED BY <1>1, <1>2

-----------------------------------------------------------------------------
(* The invariant                                                            *)

Flags == 0 .. \h7F

DeviceInv == use \in Uses /\ wire \in Seq(Bytes) /\ held \subseteq use.keys

KeyInv ==
    /\ DeviceInv
    /\ term \in Terms /\ MarkerOf(term)
    /\ keyboard \in [Flags -> BOOLEAN] /\ written \subseteq Flags

(* The keys of a use are keys.                                              *)
LEMMA UsedKeys ==
    ASSUME DeviceInv
    PROVE  use.keys \subseteq Keys /\ use.routine \in Routines
  BY KeysAssumption DEF DeviceInv, Keys

(* Why a flag may be set.                                                   *)
Explained(i) == (\E k \in held : k.code = i) \/ (i = \h2A /\ pretended)

(* The key k, now held or not as v says, sends the codes C; the ones it     *)
(* presses are explained, and nothing else loses its explanation.           *)
Sending(k, bytes, C, v) ==
    /\ BytesOf(bytes, C, v) /\ k.code \in C /\ C \subseteq Codes(k)
    /\ wire' = wire \o bytes
    /\ UNCHANGED <<term, use, keyboard, written>>
    /\ held' \subseteq use.keys
    /\ k \in held' <=> v
    /\ \A other \in use.keys \ {k} : other \in held' <=> other \in held
    /\ \A i \in C : v => Explained(i)'
    /\ \A i \in Flags \ C : Explained(i) => Explained(i)'

(* Pressing a key is sending its bytes.                                     *)
LEMMA PressSends ==
    ASSUME DeviceInv, NEW k \in use.keys, Press(k)
    PROVE  Sending(k, Make(k), Sends(k), TRUE)
<1>1. /\ k \in Keys /\ wire' = wire \o Make(k) /\ UNCHANGED <<term, use, keyboard, written>>
      /\ held' = held \cup {k} /\ pretended' = (pretended \/ Pretends(k))
  BY UsedKeys DEF Press, Send
<1>2. BytesOf(Make(k), Sends(k), TRUE) /\ k.code \in Sends(k) /\ Sends(k) \subseteq Codes(k)
  BY <1>1, MakeBytes, KeyIs
<1>3. held' \subseteq use.keys /\ k \in held'
  BY <1>1 DEF DeviceInv
<1>4. \A other \in use.keys \ {k} : other \in held' <=> other \in held
  BY <1>1
<1>5. \A i \in Sends(k) : Explained(i)'
  BY <1>1 DEF Sends, Explained
<1>6. \A i \in Flags \ Sends(k) : Explained(i) => Explained(i)'
  BY <1>1 DEF Explained
<1> QED BY <1>1, <1>2, <1>3, <1>4, <1>5, <1>6 DEF Sending

(* So is releasing it.                                                      *)
LEMMA ReleaseSends ==
    ASSUME DeviceInv, NEW k \in use.keys, Release(k)
    PROVE  Sending(k, Break(k), Sends(k), FALSE)
<1>1. /\ k \in Keys /\ wire' = wire \o Break(k) /\ UNCHANGED <<term, use, keyboard, written>>
      /\ held' = held \ {k} /\ pretended' = (pretended /\ k # LEFT_SHIFT /\ ~Pretends(k))
  BY UsedKeys DEF Release, Send
<1>2. BytesOf(Break(k), Sends(k), FALSE) /\ k.code \in Sends(k) /\ Sends(k) \subseteq Codes(k)
  BY <1>1, BreakBytes, KeyIs
<1>3. held' \subseteq use.keys /\ k \notin held'
  BY <1>1 DEF DeviceInv
<1>4. \A other \in use.keys \ {k} : other \in held' <=> other \in held
  BY <1>1
<1>5. ASSUME NEW i \in Flags \ Sends(k), Explained(i) PROVE Explained(i)'
  <2>1. CASE \E j \in held : j.code = i
    <3>1. PICK j \in held : j.code = i
      BY <2>1
    <3>2. j # k
      BY <1>2, <3>1
    <3> QED BY <1>1, <3>1, <3>2 DEF Explained
  <2>2. CASE i = \h2A /\ pretended
    <3>1. k # LEFT_SHIFT /\ ~Pretends(k)
      BY <2>2 DEF Sends, LEFT_SHIFT
    <3> QED BY <1>1, <2>2, <3>1 DEF Explained
  <2> QED BY <1>5, <2>1, <2>2 DEF Explained
<1> QED BY <1>1, <1>2, <1>3, <1>4, <1>5 DEF Sending

(* And repeating it.                                                        *)
LEMMA RepeatSends ==
    ASSUME DeviceInv, Repeat
    PROVE  /\ last \in use.keys
           /\ \/ Sending(last, Code(last), {last.code}, TRUE)
              \/ Sending(last, Make(last), Sends(last), TRUE)
<1>1. /\ last \in held /\ last \in use.keys /\ last \in Keys
      /\ UNCHANGED <<term, use, held, keyboard, written>>
  BY UsedKeys DEF Repeat, DeviceInv
<1>2. held' \subseteq use.keys /\ last \in held'
  BY <1>1 DEF DeviceInv
<1>3. \A other \in use.keys \ {last} : other \in held' <=> other \in held
  BY <1>1
<1>4. CASE Send(Code(last)) /\ UNCHANGED pretended
  <2>1. /\ BytesOf(Code(last), {last.code}, TRUE)
        /\ last.code \in {last.code} /\ {last.code} \subseteq Codes(last)
    BY <1>1, CodeBytes DEF Codes
  <2>2. \A i \in {last.code} : Explained(i)'
    BY <1>2 DEF Explained
  <2>3. \A i \in Flags \ {last.code} : Explained(i) => Explained(i)'
    BY <1>1, <1>4 DEF Explained
  <2>4. wire' = wire \o Code(last)
    BY <1>4 DEF Send
  <2>5. Sending(last, Code(last), {last.code}, TRUE)
    BY <1>1, <1>2, <1>3, <2>1, <2>2, <2>3, <2>4 DEF Sending
  <2> QED BY <1>1, <2>5
<1>5. CASE Send(Make(last)) /\ pretended' = (pretended \/ Pretends(last))
  <2>1. /\ BytesOf(Make(last), Sends(last), TRUE)
        /\ last.code \in Sends(last) /\ Sends(last) \subseteq Codes(last)
    BY <1>1, MakeBytes, KeyIs
  <2>2. \A i \in Sends(last) : Explained(i)'
    BY <1>2, <1>5 DEF Explained, Sends
  <2>3. \A i \in Flags \ Sends(last) : Explained(i) => Explained(i)'
    BY <1>1, <1>5 DEF Explained
  <2>4. wire' = wire \o Make(last)
    BY <1>5 DEF Send
  <2>5. Sending(last, Make(last), Sends(last), TRUE)
    BY <1>1, <1>2, <1>3, <2>1, <2>2, <2>3, <2>4 DEF Sending
  <2> QED BY <1>1, <2>5
<1> QED BY <1>4, <1>5 DEF Repeat

(* Whatever the device does, it sends the bytes of a key.                   *)
LEMMA DeviceSends ==
    ASSUME DeviceInv, (\E k \in use.keys : Press(k) \/ Release(k)) \/ Repeat
    PROVE  \E k \in use.keys, v \in BOOLEAN : \E bytes, C : Sending(k, bytes, C, v)
  BY PressSends, ReleaseSends, RepeatSends

(* Power on.                                                                *)
LEMMA InvInit == Init => KeyInv
<1> SUFFICES ASSUME Init PROVE KeyInv
  OBVIOUS
<1>1. use \in Uses /\ held = {} /\ wire = <<>> /\ written = {}
  BY DEF Init
<1>2. DeviceInv
  BY <1>1, EmptySeq DEF DeviceInv
<1>3. term = [screen |-> [cell \in Cells |-> BOOT], curr_row |-> 0, curr_column |-> 0,
              is_shift_pressed |-> FALSE, under_marker |-> BLANK]
  BY DEF Init, TerminalInit
<1>4. BLANK \in Glyphs /\ BOOT \in Glyphs /\ BOOT # MARKER
  <2>1. SPACE \in Printable
    BY DEF SPACE, Printable
  <2>2. BLANK \in Letter
    <3>1. ASSUME NEW s \in Printable, NEW b \in BOOLEAN PROVE Char(s, b) \in Letter
      BY DEF Letter
    <3> QED BY <2>1, <3>1 DEF BLANK
  <2>3. BOOT # MARKER
    BY DEF BOOT, MARKER
  <2> QED BY <2>2, <2>3 DEF Glyphs
<1>5. term \in Terms
  <2>1. 0 \in 0 .. VIDEO_FILS - 1 /\ 0 \in 0 .. VIDEO_COLS - 1
    BY Sizes
  <2>2. [cell \in Cells |-> BOOT] \in Screens
    BY <1>4 DEF Screens
  <2> QED BY <1>3, <1>4, <2>1, <2>2 DEF Terms
<1>6. MarkerOf(term)
  BY <1>3, <1>4 DEF MarkerOf, Here
<1>7. keyboard \in [Flags -> BOOLEAN]
  BY KeysAssumption DEF Init, Flags
<1> QED BY <1>1, <1>2, <1>5, <1>6, <1>7 DEF KeyInv

(* A byte is read: the terminal makes a step of the page, or the routine    *)
(* leaves it alone.                                                         *)
LEMMA ByteRead ==
    ASSUME KeyInv, isr33
    PROVE  /\ wire # <<>> /\ Tail(wire) \in Seq(Bytes)
           /\ term' \in Terms /\ MarkerOf(term')
           /\ keyboard' \in [Flags -> BOOLEAN] /\ written' \subseteq Flags
           /\ term' = term \/ PageStep(term, term')
<1> DEFINE b == Head(wire)
           q == use.routine
<1>1. /\ wire # <<>> /\ wire \in Seq(Bytes) /\ term \in Terms /\ MarkerOf(term)
      /\ keyboard \in [Flags -> BOOLEAN] /\ written \subseteq Flags
  BY DEF KeyInv, DeviceInv, isr33
<1>2. b \in Bytes /\ Tail(wire) \in Seq(Bytes)
  BY <1>1, HeadTailProperties
<1> HIDE DEF b
<1>3. CASE q = "tasks_input_process"
  <2>1. tasks_input_process(b) /\ term' = term
    BY <1>3 DEF isr33, b
  <2>2. KeyOf(b) \in Flags /\ IsPress(b) \in BOOLEAN
    BY <1>2 DEF Bytes, Flags, KeyOf, IsPress
  <2>3. keyboard' \in [Flags -> BOOLEAN] /\ written' \subseteq Flags
    BY <1>1, <2>1, <2>2 DEF tasks_input_process
  <2> QED BY <1>1, <1>2, <2>1, <2>3
<1>4. CASE q = "process_scancode"
  <2>1. process_scancode(b) /\ UNCHANGED <<keyboard, written>>
    BY <1>4 DEF isr33, b
  <2>2. term' = Next1(term, b)
    BY <2>1 DEF process_scancode, Next1
  <2>3. term' \in Terms /\ MarkerOf(term') /\ PageStep(term, term')
    BY <1>1, <1>2, <2>2, ByteStep DEF Bytes
  <2> QED BY <1>1, <1>2, <2>1, <2>3
<1> QED BY <1>3, <1>4 DEF isr33

(* No step breaks the invariant.                                            *)
LEMMA InvNext == KeyInv /\ [Next]_vars => KeyInv'
<1> SUFFICES ASSUME KeyInv, [Next]_vars PROVE KeyInv'
  OBVIOUS
<1>1. CASE (\E k \in use.keys : Press(k) \/ Release(k)) \/ Repeat
  <2>1. PICK k \in use.keys, v \in BOOLEAN : \E bytes, C : Sending(k, bytes, C, v)
    BY <1>1, DeviceSends DEF KeyInv
  <2>2. PICK bytes, C : Sending(k, bytes, C, v)
    BY <2>1
  <2>3. /\ bytes \in Seq(Bytes) /\ wire' = wire \o bytes /\ held' \subseteq use.keys
        /\ UNCHANGED <<term, use, keyboard, written>>
    BY <2>2 DEF Sending, BytesOf
  <2>4. wire' \in Seq(Bytes)
    BY <2>3, ConcatProperties DEF KeyInv, DeviceInv
  <2> QED BY <2>3, <2>4 DEF KeyInv, DeviceInv
<1>2. CASE isr33
  <2>1. wire' = Tail(wire) /\ UNCHANGED <<use, held>>
    BY <1>2 DEF isr33
  <2> QED BY <1>2, <2>1, ByteRead DEF KeyInv, DeviceInv
<1>3. CASE UNCHANGED vars
  BY <1>3 DEF vars, device_vars, KeyInv, DeviceInv
<1> QED BY <1>1, <1>2, <1>3 DEF Next

(* The invariant holds in every state.                                      *)
THEOREM InvHolds == Spec => []KeyInv
  BY InvInit, InvNext, PTL DEF Spec

(* The marker is at the cursor and nowhere else, whatever is typed, on a    *)
(* screen of any size.                                                      *)
THEOREM MarkerAtCursorHolds == Spec => []MarkerAtCursor
<1>1. KeyInv => MarkerAtCursor
  BY DEF KeyInv, MarkerOf, MarkerAtCursor
<1> QED BY <1>1, InvHolds, PTL

(* The terminal is a page                                                   *)

(* The cells of a notice are on the page, and each position is that of one  *)
(* cell.                                                                    *)
LEMMA NoticePositions ==
    ASSUME NEW p \in Positions
    PROVE  p \in {c[1] * VIDEO_COLS + c[2] : c \in NoticeCells} <=> CellOf(p) \in NoticeCells
<1> DEFINE row == VIDEO_FILS \div 2
           column == VIDEO_COLS \div 2
<1>1. row \in 0 .. VIDEO_FILS - 1 /\ column \in 1 .. VIDEO_COLS - 1
  BY ScreenAssumption
<1>2. NoticeCells = {<<row, column - 1>>, <<row, column>>}
  BY DEF NoticeCells
<1> HIDE DEF row, column
<1>3. /\ CellOf(row * VIDEO_COLS + (column - 1)) = <<row, column - 1>>
      /\ CellOf(row * VIDEO_COLS + column) = <<row, column>>
  <2>1. column - 1 \in 0 .. VIDEO_COLS - 1 /\ column \in 0 .. VIDEO_COLS - 1
    BY <1>1, Sizes
  <2> QED BY <1>1, <2>1, CellAt
<1>4. {c[1] * VIDEO_COLS + c[2] : c \in NoticeCells}
        = {row * VIDEO_COLS + (column - 1), row * VIDEO_COLS + column}
  BY <1>2
<1>5. p = CellOf(p)[1] * VIDEO_COLS + CellOf(p)[2]
  BY CellsAre
<1>6. ASSUME CellOf(p) \in NoticeCells
      PROVE  p \in {c[1] * VIDEO_COLS + c[2] : c \in NoticeCells}
  BY <1>5, <1>6
<1>7. ASSUME p \in {c[1] * VIDEO_COLS + c[2] : c \in NoticeCells}
      PROVE  CellOf(p) \in NoticeCells
  BY <1>2, <1>3, <1>4, <1>7
<1> QED BY <1>6, <1>7

(* Power on: the first cell is taken to be blank.                           *)
LEMMA PageInit == Init => P!Init
<1> SUFFICES ASSUME Init PROVE P!Init
  OBVIOUS
<1>1. /\ term.curr_row = 0 /\ term.curr_column = 0 /\ term.under_marker = BLANK
      /\ term.is_shift_pressed = FALSE
  BY DEF Init, TerminalInit
<1>2. 0 \in 0 .. VIDEO_FILS - 1 /\ 0 \in 0 .. VIDEO_COLS - 1 /\ 0 * VIDEO_COLS + 0 = 0
  BY Sizes
<1>3. 0 \in Positions /\ CellOf(0) = <<0, 0>>
  <2>1. 0 * VIDEO_COLS + 0 \in Positions /\ CellOf(0 * VIDEO_COLS + 0) = <<0, 0>>
    BY <1>2, CellAt
  <2> QED BY <1>2, <2>1
<1>4. PageOf(term)[0] = BLANK
  <2>1. Here(term) = <<0, 0>>
    BY <1>1 DEF Here
  <2> QED BY <1>1, <1>3, <2>1, PageIs
<1>5. term.curr_row * VIDEO_COLS + term.curr_column = 0
  BY <1>1, <1>2
<1> QED BY <1>1, <1>4, <1>5 DEF P!Init

(* A step of the page, or none, by what the byte did.                       *)
LEMMA PageOfByte ==
    ASSUME KeyInv, term' \in Terms, PageStep(term, term')
    PROVE  P!Next \/ UNCHANGED term
<1> DEFINE page == PageOf(term)
           pos == term.curr_row * VIDEO_COLS + term.curr_column
           shift == term.is_shift_pressed
           cells == {c[1] * VIDEO_COLS + c[2] : c \in NoticeCells}
<1>1. pos = PosOf(term) /\ pos' = PosOf(term') /\ page' = PageOf(term')
      /\ pos \in Positions /\ VIDEO_FILS * VIDEO_COLS = SIZE
  BY CursorAt DEF PosOf, KeyInv, SIZE
<1>2. CASE /\ \E c \in Letters(shift) : page' = [page EXCEPT ![pos] = c]
           /\ pos' = (pos + 1) % SIZE
           /\ shift' = shift
  <2>1. P!Type
    BY <1>1, <1>2 DEF P!Type
  <2> QED BY <2>1 DEF P!Next
<1>3. CASE /\ \/ \E d \in {-1, 1, -VIDEO_COLS, VIDEO_COLS} : pos' = (pos + d) % SIZE
              \/ pos' = ((pos \div VIDEO_COLS + 1) * VIDEO_COLS) % SIZE
           /\ page' = page /\ shift' = shift
  <2>1. \/ \E d \in {-1, 1, -VIDEO_COLS, VIDEO_COLS} : P!Move(pos + d)
        \/ P!Move((pos \div VIDEO_COLS + 1) * VIDEO_COLS)
    BY <1>1, <1>3 DEF P!Move
  <2> QED BY <2>1 DEF P!Next
<1>4. CASE shift' = ~shift /\ page' = page /\ pos' = pos
  <2>1. P!Shift
    BY <1>1, <1>4 DEF P!Shift
  <2> QED BY <2>1 DEF P!Next
<1>5. CASE /\ page' = [p \in Positions |-> IF CellOf(p) \in NoticeCells /\ p # pos
                                           THEN NOTICE ELSE page[p]]
           /\ pos' = pos /\ shift' = shift
  <2>1. DOMAIN page = Positions
    BY PageIs
  <2>2. \A p \in Positions : p \in cells \ {pos} <=> CellOf(p) \in NoticeCells /\ p # pos
    BY NoticePositions
  <2> HIDE DEF page, pos, cells
  <2>3. page' = [p \in DOMAIN page |-> IF p \in cells \ {pos} THEN NOTICE ELSE page[p]]
    BY <1>5, <2>1, <2>2
  <2>4. P!Notice
    BY <1>5, <2>3 DEF P!Notice, page, pos, cells
  <2> QED BY <2>4 DEF P!Next
<1>6. CASE term' = term
  BY <1>6
<1>7. PageStep(term, term')
  OBVIOUS
<1> QED BY <1>1, <1>2, <1>3, <1>4, <1>5, <1>6, <1>7 DEF PageStep

(* A byte that is read is a step of the page; the device leaves the page    *)
(* alone.                                                                   *)
LEMMA PageNext == KeyInv /\ [Next]_vars => P!Next \/ UNCHANGED term
<1> SUFFICES ASSUME KeyInv, [Next]_vars PROVE P!Next \/ UNCHANGED term
  OBVIOUS
<1>1. CASE isr33
  BY <1>1, ByteRead, PageOfByte
<1>2. ASSUME NEW k \in use.keys, Press(k) \/ Release(k) PROVE UNCHANGED term
  BY <1>2 DEF Press, Release
<1>3. CASE Repeat
  BY <1>3 DEF Repeat
<1>4. CASE UNCHANGED vars
  BY <1>4 DEF vars
<1> QED BY <1>1, <1>2, <1>3, <1>4 DEF Next

(* Whatever is typed on a screen of any size, the terminal is a page: each  *)
(* byte changes the cell of the position or moves it, around the edges too, *)
(* and the marker costs no letter.                                          *)
THEOREM ImplementsPageHolds == Spec => ImplementsPage
<1>1. KeyInv /\ [Next]_vars =>
        [P!Next]_<<PageOf(term), term.curr_row * VIDEO_COLS + term.curr_column,
                   term.is_shift_pressed>>
  BY PageNext
<1>2. Spec => P!Spec
  BY <1>1, PageInit, InvHolds, PTL DEF Spec, P!Spec
<1> QED BY <1>2 DEF ImplementsPage


-----------------------------------------------------------------------------

-----------------------------------------------------------------------------
(* What the wire makes of a flag                                            *)

(* Without its first byte the wire makes of a flag what that byte and the   *)
(* rest would.                                                              *)
LEMMA FlagOfTail ==
    ASSUME NEW w \in Seq(Bytes), w # <<>>, NEW c, NEW f \in BOOLEAN,
           NEW g \in BOOLEAN, NEW n \in 0 .. Len(w) - 1,
           g = IF KeyOf(w[1]) = c THEN IsPress(w[1]) ELSE f
    PROVE  FlagOf(g, Tail(w), c, n) <=> FlagOf(f, w, c, n + 1)
<1> DEFINE u == Tail(w)
           Hits(i) == KeyOf(w[i]) = c
           Sets(i) == IsPress(w[i])
<1>1. /\ Len(w) \in Nat \ {0}
      /\ \A j \in 1 .. n : u[j] = w[j + 1]
  BY EmptySeq, HeadTailProperties
<1>2. \A i \in 1 .. n : KeyOf(u[i]) = c <=> Hits(i + 1)
  BY <1>1
<1>3. \A i \in 1 .. n : IsPress(u[i]) <=> Sets(i + 1)
  BY <1>1
<1>4. \A a, b \in Int : ReleasedIn(w, c, a, b) <=> \E i \in a .. b : Hits(i) /\ ~Sets(i)
  BY DEF ReleasedIn
<1>5. g <=> IF Hits(1) THEN Sets(1) ELSE f
  OBVIOUS
<1>6. \A m \in Int : FlagOf(f, w, c, m) <=>
         \/ f /\ ~ReleasedIn(w, c, 1, m)
         \/ \E j \in 1 .. m : Hits(j) /\ Sets(j) /\ ~ReleasedIn(w, c, j, m)
  BY DEF FlagOf
<1> HIDE DEF u, Hits, Sets
<1>7. \A a \in 1 .. n + 1 : ReleasedIn(u, c, a, n) <=> ReleasedIn(w, c, a + 1, n + 1)
  <2> SUFFICES ASSUME NEW a \in 1 .. n + 1
               PROVE  ReleasedIn(u, c, a, n) <=> ReleasedIn(w, c, a + 1, n + 1)
    OBVIOUS
  <2>1. ReleasedIn(u, c, a, n) <=> \E i \in a .. n : Hits(i + 1) /\ ~Sets(i + 1)
    <3>1. \A i \in a .. n : i \in 1 .. n
      OBVIOUS
    <3> QED BY <1>2, <1>3, <3>1 DEF ReleasedIn
  <2>2. \A i \in a .. n : i + 1 \in a + 1 .. n + 1
    OBVIOUS
  <2>3. \A i \in a + 1 .. n + 1 : i - 1 \in a .. n /\ (i - 1) + 1 = i
    OBVIOUS
  <2>4. ReleasedIn(w, c, a + 1, n + 1) <=> \E i \in a + 1 .. n + 1 : Hits(i) /\ ~Sets(i)
    BY <1>4
  <2> QED BY <2>1, <2>2, <2>3, <2>4
<1>8. FlagOf(g, u, c, n) <=>
         \/ g /\ ~ReleasedIn(w, c, 2, n + 1)
         \/ \E j \in 2 .. n + 1 : Hits(j) /\ Sets(j) /\ ~ReleasedIn(w, c, j, n + 1)
  <2>1. FlagOf(g, u, c, n) <=>
          \/ g /\ ~ReleasedIn(u, c, 1, n)
          \/ \E j \in 1 .. n : Hits(j + 1) /\ Sets(j + 1) /\ ~ReleasedIn(u, c, j, n)
    BY <1>2, <1>3 DEF FlagOf
  <2>2. \A j \in 1 .. n : j + 1 \in 2 .. n + 1
    OBVIOUS
  <2>3. \A j \in 2 .. n + 1 : j - 1 \in 1 .. n /\ (j - 1) + 1 = j
    OBVIOUS
  <2>4. ReleasedIn(u, c, 1, n) <=> ReleasedIn(w, c, 2, n + 1)
    BY <1>7
  <2>5. \A j \in 1 .. n : ReleasedIn(u, c, j, n) <=> ReleasedIn(w, c, j + 1, n + 1)
    BY <1>7
  <2> QED BY <2>1, <2>2, <2>3, <2>4, <2>5
<1>9. ReleasedIn(w, c, 1, n + 1) <=> (Hits(1) /\ ~Sets(1)) \/ ReleasedIn(w, c, 2, n + 1)
  <2>1. 1 .. n + 1 = {1} \cup 2 .. n + 1
    OBVIOUS
  <2> QED BY <1>4, <2>1
<1>10. FlagOf(f, w, c, n + 1) <=>
         \/ f /\ ~ReleasedIn(w, c, 1, n + 1)
         \/ Hits(1) /\ Sets(1) /\ ~ReleasedIn(w, c, 1, n + 1)
         \/ \E j \in 2 .. n + 1 : Hits(j) /\ Sets(j) /\ ~ReleasedIn(w, c, j, n + 1)
  <2>1. 1 .. n + 1 = {1} \cup 2 .. n + 1
    OBVIOUS
  <2> QED BY <1>6, <2>1
<1> QED BY <1>5, <1>8, <1>9, <1>10 DEF u

(* Bytes behind w, of which those with this code all say v: what w makes of *)
(* a flag is not changed; if that is v, or one of them has the code, v is   *)
(* what they make of it.                                                    *)
LEMMA FlagOfMore ==
    ASSUME NEW w \in Seq(Bytes), NEW bytes \in Seq(Bytes),
           NEW c, NEW f, NEW v \in BOOLEAN,
           \A j \in 1 .. Len(bytes) : KeyOf(bytes[j]) = c => (IsPress(bytes[j]) <=> v)
    PROVE  LET u == w \o bytes IN
           /\ Len(u) = Len(w) + Len(bytes)
           /\ \A n \in 0 .. Len(w) : FlagOf(f, u, c, n) <=> FlagOf(f, w, c, n)
           /\ (FlagOf(f, w, c, Len(w)) <=> v) =>
                \A n \in Len(w) .. Len(u) : FlagOf(f, u, c, n) <=> v
           /\ (\E j \in 1 .. Len(bytes) : KeyOf(bytes[j]) = c) =>
                (FlagOf(f, u, c, Len(u)) <=> v)
<1> DEFINE u == w \o bytes
           L == Len(w)
           M == Len(u)
           Hits(i) == KeyOf(u[i]) = c
           Sets(i) == IsPress(u[i])
<1>1. /\ L \in Nat /\ Len(bytes) \in Nat /\ M = L + Len(bytes)
      /\ \A j \in 1 .. L : u[j] = w[j]
      /\ \A j \in 1 .. Len(bytes) : u[L + j] = bytes[j]
  BY ConcatProperties, LenProperties
<1>2. \A j \in 1 .. L : (KeyOf(w[j]) = c <=> Hits(j)) /\ (IsPress(w[j]) <=> Sets(j))
  BY <1>1
<1>3. \A j \in 1 .. Len(bytes) : /\ KeyOf(bytes[j]) = c <=> Hits(L + j)
                                 /\ Hits(L + j) => (Sets(L + j) <=> v)
  BY <1>1
<1>4. /\ \A a, b \in Int : ReleasedIn(u, c, a, b) <=> \E i \in a .. b : Hits(i) /\ ~Sets(i)
      /\ \A n \in Int : FlagOf(f, u, c, n) <=>
            \/ f /\ ~ReleasedIn(u, c, 1, n)
            \/ \E j \in 1 .. n : Hits(j) /\ Sets(j) /\ ~ReleasedIn(u, c, j, n)
  BY DEF ReleasedIn, FlagOf
<1> HIDE DEF u, L, M, Hits, Sets
<1>5. \A j \in L + 1 .. M : Hits(j) => (Sets(j) <=> v)
  <2> SUFFICES ASSUME NEW j \in L + 1 .. M PROVE Hits(j) => (Sets(j) <=> v)
    OBVIOUS
  <2>1. j - L \in 1 .. Len(bytes) /\ L + (j - L) = j
    BY <1>1
  <2> QED BY <1>3, <2>1
<1>6. ASSUME NEW n \in 0 .. L PROVE FlagOf(f, u, c, n) <=> FlagOf(f, w, c, n)
  <2>1. \A j \in 1 .. n : j \in 1 .. L
    BY <1>1
  <2>2. ASSUME NEW a \in 1 .. n + 1 PROVE ReleasedIn(u, c, a, n) <=> ReleasedIn(w, c, a, n)
    <3>1. \A i \in a .. n : i \in 1 .. L
      BY <1>1
    <3>2. ReleasedIn(w, c, a, n) <=> \E i \in a .. n : Hits(i) /\ ~Sets(i)
      BY <1>2, <3>1 DEF ReleasedIn
    <3>3. a \in Int /\ n \in Int
      OBVIOUS
    <3> QED BY <1>4, <3>2, <3>3
  <2>3. ReleasedIn(u, c, 1, n) <=> ReleasedIn(w, c, 1, n)
    BY <2>2
  <2>4. FlagOf(f, w, c, n) <=>
            \/ f /\ ~ReleasedIn(w, c, 1, n)
            \/ \E j \in 1 .. n : Hits(j) /\ Sets(j) /\ ~ReleasedIn(w, c, j, n)
    BY <1>2, <2>1 DEF FlagOf
  <2> QED BY <1>1, <1>4, <2>2, <2>3, <2>4
<1>7. ASSUME NEW n \in L .. M, NEW j \in L + 1 .. n, Hits(j)
      PROVE  FlagOf(f, u, c, n) <=> v
  <2>1. j \in L + 1 .. M /\ j \in 1 .. n /\ n \in Int /\ j \in Int
    BY <1>1
  <2>2. CASE v
    <3>1. Sets(j)
      BY <1>5, <1>7, <2>1, <2>2
    <3>2. \A i \in j .. n : i \in L + 1 .. M
      BY <1>1, <2>1
    <3>3. ~ReleasedIn(u, c, j, n)
      BY <1>4, <1>5, <2>1, <2>2, <3>2
    <3> QED BY <1>4, <1>7, <2>1, <2>2, <3>1, <3>3
  <2>3. CASE ~v
    <3>1. ~Sets(j)
      BY <1>5, <1>7, <2>1, <2>3
    <3>2. ReleasedIn(u, c, 1, n)
      BY <1>4, <1>7, <2>1, <3>1
    <3>3. ASSUME NEW i \in 1 .. n, Hits(i), Sets(i)
          PROVE  ReleasedIn(u, c, i, n)
      <4>1. ~(i \in L + 1 .. M)
        BY <1>5, <2>3, <3>3
      <4>2. i <= L /\ i \in Int /\ j \in i .. n
        BY <1>1, <2>1, <4>1
      <4> QED BY <1>4, <1>7, <2>1, <3>1, <4>2
    <3> QED BY <1>4, <2>1, <2>3, <3>2, <3>3
  <2> QED BY <2>2, <2>3
<1>8. ASSUME NEW n \in L .. M, \A j \in L + 1 .. n : ~Hits(j)
      PROVE  FlagOf(f, u, c, n) <=> FlagOf(f, u, c, L)
  <2>1. n \in Int /\ L \in Int /\ \A j \in 1 .. n : Hits(j) => j \in 1 .. L
    BY <1>1, <1>8
  <2>2. \A j \in 1 .. L : j \in 1 .. n /\ j \in Int
    BY <1>1
  <2>3. ASSUME NEW a \in 1 .. L + 1 PROVE ReleasedIn(u, c, a, n) <=> ReleasedIn(u, c, a, L)
    <3>1. \A j \in a .. L : j \in a .. n
      BY <1>1
    <3>2. \A j \in a .. n : Hits(j) => j \in a .. L
      BY <1>1, <1>8
    <3> QED BY <1>4, <2>1, <3>1, <3>2
  <2>4. ReleasedIn(u, c, 1, n) <=> ReleasedIn(u, c, 1, L)
    BY <1>1, <2>3
  <2>5. \A j \in 1 .. L : ReleasedIn(u, c, j, n) <=> ReleasedIn(u, c, j, L)
    BY <1>1, <2>3
  <2> QED BY <1>4, <2>1, <2>2, <2>4, <2>5
<1>9. L \in 0 .. L /\ M \in L .. M /\ L \in L .. M
  BY <1>1
<1>10. ASSUME FlagOf(f, w, c, L) <=> v, NEW n \in L .. M PROVE FlagOf(f, u, c, n) <=> v
  <2>1. FlagOf(f, u, c, L) <=> v
    BY <1>6, <1>9, <1>10
  <2> QED BY <1>7, <1>8, <2>1
<1>11. ASSUME NEW j \in 1 .. Len(bytes), KeyOf(bytes[j]) = c
       PROVE  FlagOf(f, u, c, M) <=> v
  <2>1. L + j \in L + 1 .. M /\ Hits(L + j)
    BY <1>1, <1>3, <1>11
  <2> QED BY <1>7, <1>9, <2>1
<1> QED BY <1>1, <1>6, <1>10, <1>11 DEF u, L, M


-----------------------------------------------------------------------------
(* Nearer with each byte                                                    *)

Within(c, bytes) == \E j \in 1 .. Len(bytes) : KeyOf(bytes[j]) = c

(* Bytes are sent, of which those with the code c all say v.                *)
LEMMA FlagSent ==
    ASSUME wire \in Seq(Bytes), NEW bytes \in Seq(Bytes), wire' = wire \o bytes,
           UNCHANGED <<keyboard, written>>, NEW c, NEW v \in BOOLEAN,
           \A j \in 1 .. Len(bytes) : KeyOf(bytes[j]) = c => (IsPress(bytes[j]) <=> v)
    PROVE  /\ Len(wire) \in Nat /\ Len(wire') \in Nat /\ Len(wire) <= Len(wire')
           /\ \A n \in 0 .. Len(wire) : FlagAfter(c, n)' <=> FlagAfter(c, n)
           /\ (FlagAfter(c, Len(wire)) <=> v) =>
                \A n \in Len(wire) .. Len(wire') : FlagAfter(c, n)' <=> v
           /\ (FlagAfter(c, Len(wire)) <=> v) => (FlagAfter(c, Len(wire))' <=> v)
           /\ Within(c, bytes) => (FlagAfter(c, Len(wire))' <=> v)
           /\ Heard(c)' <=> Heard(c) \/ Within(c, bytes)
<1> DEFINE f == keyboard[c]
           u == wire'
           L == Len(wire)
           M == Len(u)
<1>1. /\ M = L + Len(bytes) /\ L \in Nat /\ M \in Nat /\ Len(bytes) \in Nat
      /\ \A j \in 1 .. L : u[j] = wire[j]
      /\ \A j \in 1 .. Len(bytes) : u[L + j] = bytes[j]
  BY ConcatProperties, LenProperties
<1> HIDE DEF f, u, L, M
<1>2. \A n \in 0 .. L : FlagOf(f, u, c, n) <=> FlagOf(f, wire, c, n)
  BY FlagOfMore DEF L, u
<1>3. (FlagOf(f, wire, c, L) <=> v) => \A n \in L .. M : FlagOf(f, u, c, n) <=> v
  BY FlagOfMore DEF L, M, u
<1>4. Within(c, bytes) => (FlagOf(f, u, c, M) <=> v)
  BY FlagOfMore DEF M, u, Within
<1>5. /\ \A n : FlagAfter(c, n) <=> FlagOf(f, wire, c, n)
      /\ \A n : FlagAfter(c, n)' <=> FlagOf(f, u, c, n)
      /\ FlagAfter(c, Len(wire))' <=> FlagOf(f, u, c, M)
  BY DEF FlagAfter, f, u, M
<1>6. Heard(c)' <=> Heard(c) \/ Within(c, bytes)
  <2> DEFINE Hits(j) == KeyOf(u[j]) = c
  <2>1. Heard(c) <=> c \in written \/ \E j \in 1 .. L : KeyOf(wire[j]) = c
    BY DEF Heard, L
  <2>2. Heard(c)' <=> c \in written \/ \E j \in 1 .. M : Hits(j)
    BY DEF Heard, M, u
  <2>3. \A j \in 1 .. M : j \in 1 .. L \/ (j - L \in 1 .. Len(bytes) /\ L + (j - L) = j)
    BY <1>1
  <2>4. /\ \A j \in 1 .. L : j \in 1 .. M
        /\ \A j \in 1 .. Len(bytes) : L + j \in 1 .. M
    BY <1>1
  <2>5. /\ \A j \in 1 .. L : KeyOf(wire[j]) = c <=> Hits(j)
        /\ \A j \in 1 .. Len(bytes) : KeyOf(bytes[j]) = c <=> Hits(L + j)
    BY <1>1
  <2> HIDE DEF Hits
  <2>6. (\E j \in 1 .. M : Hits(j)) <=>
          \/ \E j \in 1 .. L : Hits(j)
          \/ \E j \in 1 .. Len(bytes) : Hits(L + j)
    BY ONLY <2>3, <2>4
  <2> QED BY <2>1, <2>2, <2>5, <2>6 DEF Within
<1>7. (FlagOf(f, wire, c, L) <=> v) => (FlagOf(f, u, c, M) <=> v)
  <2>1. M \in L .. M
    BY <1>1
  <2> QED BY <1>3, <2>1
<1> QED BY <1>1, <1>2, <1>3, <1>4, <1>5, <1>6, <1>7 DEF L, M, u

(* A byte is read: what the wire makes of any flag comes one byte sooner.   *)
LEMMA FlagRead ==
    ASSUME KeyInv, isr33, use.routine = "tasks_input_process", NEW c \in Flags
    PROVE  /\ Len(wire) \in Nat \ {0} /\ Len(wire') = Len(wire) - 1
           /\ \A n \in 0 .. Len(wire) - 1 : FlagAfter(c, n)' <=> FlagAfter(c, n + 1)
           /\ FlagAfter(c, Len(wire))' <=> FlagAfter(c, Len(wire))
           /\ Heard(c)' <=> Heard(c)
<1> DEFINE f == keyboard[c]
           g == keyboard'[c]
           u == wire'
           b == wire[1]
           L == Len(wire)
<1>1. /\ wire \in Seq(Bytes) /\ wire # <<>> /\ u = Tail(wire) /\ Head(wire) = b
      /\ keyboard \in [Flags -> BOOLEAN]
  BY DEF KeyInv, DeviceInv, isr33
<1>2. tasks_input_process(b)
  BY <1>1 DEF isr33
<1>3. /\ L \in Nat \ {0} /\ Len(u) = L - 1 /\ \A j \in 1 .. L - 1 : u[j] = wire[j + 1]
  BY <1>1, EmptySeq, HeadTailProperties, LenProperties
<1>4. f \in BOOLEAN /\ g \in BOOLEAN /\ g = (IF KeyOf(b) = c THEN IsPress(b) ELSE f)
  <2>1. keyboard' = [keyboard EXCEPT ![KeyOf(b)] = IsPress(b)] /\ IsPress(b) \in BOOLEAN
    BY <1>2 DEF tasks_input_process, IsPress
  <2> QED BY <1>1, <2>1
<1> HIDE DEF f, g, u, L
<1>5. \A n \in 0 .. L - 1 : FlagOf(g, u, c, n) <=> FlagOf(f, wire, c, n + 1)
  BY ONLY <1>1, <1>4, FlagOfTail DEF L, b
<1>6. /\ \A n : FlagAfter(c, n) <=> FlagOf(f, wire, c, n)
      /\ \A n : FlagAfter(c, n)' <=> FlagOf(g, u, c, n)
      /\ FlagAfter(c, Len(wire))' <=> FlagOf(g, u, c, Len(u))
  BY DEF FlagAfter, f, g, u
<1>7. Heard(c)' <=> Heard(c)
  <2> DEFINE Hits(j) == KeyOf(wire[j]) = c
  <2>1. Heard(c) <=> c \in written \/ \E j \in 1 .. L : Hits(j)
    BY DEF Heard, L
  <2>2. Heard(c)' <=> \/ c \in written \/ c = KeyOf(b)
                      \/ \E j \in 1 .. L - 1 : KeyOf(u[j]) = c
    BY <1>2, <1>3 DEF Heard, u, tasks_input_process
  <2>3. \A j \in 1 .. L : j = 1 \/ (j - 1 \in 1 .. L - 1 /\ (j - 1) + 1 = j)
    BY <1>3
  <2>4. 1 \in 1 .. L /\ \A j \in 1 .. L - 1 : j + 1 \in 1 .. L
    BY <1>3
  <2>5. (KeyOf(b) = c <=> Hits(1)) /\ \A j \in 1 .. L - 1 : KeyOf(u[j]) = c <=> Hits(j + 1)
    BY <1>3
  <2> HIDE DEF Hits
  <2>6. (\E j \in 1 .. L : Hits(j)) <=> Hits(1) \/ \E j \in 1 .. L - 1 : Hits(j + 1)
    BY <2>3, <2>4
  <2> QED BY <2>1, <2>2, <2>5, <2>6
<1>8. FlagOf(g, u, c, Len(u)) <=> FlagOf(f, wire, c, L)
  <2>1. Len(u) \in 0 .. L - 1 /\ Len(u) + 1 = L
    BY <1>3
  <2> QED BY <1>5, <2>1
<1> QED BY <1>3, <1>5, <1>6, <1>7, <1>8 DEF L, u

(* The codes of another key's bytes are not those of a key that is alone.   *)
LEMMA OtherBytes ==
    ASSUME DeviceInv, NEW k \in use.keys, Alone(k), NEW k0 \in use.keys, k0 # k,
           NEW bytes, NEW C, NEW v0, BytesOf(bytes, C, v0), C \subseteq Codes(k0)
    PROVE  ~Within(k.code, bytes)
<1>1. k.code \notin C
  BY DEF Alone
<1>2. k.code # \h60
  BY UsedKeys, KeyIs DEF LAST_FIELD
<1> QED BY <1>1, <1>2 DEF BytesOf, Within

(* A key sends: what the wire would make of a flag is right no later than   *)
(* it was, unless the key is the one of the flag and has just changed.      *)
LEMMA FlagsSent ==
    ASSUME KeyInv, NEW k0 \in use.keys, NEW v0 \in BOOLEAN, NEW bytes, NEW C,
           Sending(k0, bytes, C, v0), NEW k \in use.keys, Alone(k)
    PROVE  /\ Len(wire) \in Nat /\ Len(wire') \in Nat /\ Len(wire) <= Len(wire')
           /\ Heard(k.code)' <=> Heard(k.code) \/ k0 = k
           /\ (Heard(k.code) => CaughtUpAfter(k, Len(wire))) =>
                (Heard(k.code) => CaughtUpAfter(k, Len(wire)))'
           /\ (k \in held <=> k \in held') =>
                \A n \in 0 .. Len(wire) : CaughtUpAfter(k, n) => CaughtUpAfter(k, n)'
<1> DEFINE c == k.code
           v == k \in held'
           L == Len(wire)
           M == Len(wire')
<1>1. /\ DeviceInv /\ wire \in Seq(Bytes) /\ bytes \in Seq(Bytes) /\ wire' = wire \o bytes
      /\ UNCHANGED <<keyboard, written>> /\ BytesOf(bytes, C, v0) /\ C \subseteq Codes(k0)
      /\ v \in BOOLEAN
      /\ k0 = k => (v <=> v0) /\ k.code \in C
      /\ k0 # k => (v <=> k \in held)
  BY DEF KeyInv, DeviceInv, Sending, BytesOf
<1>2. c # \h60
  <2>1. k.code \in 1 .. LAST_FIELD
    BY <1>1, UsedKeys, KeyIs
  <2> QED BY <2>1 DEF LAST_FIELD
<1>3. \A j \in 1 .. Len(bytes) : KeyOf(bytes[j]) = c => (IsPress(bytes[j]) <=> v)
  <2>1. CASE k0 = k
    BY <1>1, <1>2, <2>1 DEF BytesOf
  <2>2. CASE k0 # k
    BY <1>1, <2>2, OtherBytes DEF Within
  <2> QED BY <2>1, <2>2
<1>4. Within(c, bytes) <=> k0 = k
  <2>1. k0 # k => ~Within(c, bytes)
    BY <1>1, OtherBytes
  <2>2. k0 = k => Within(c, bytes)
    BY <1>1 DEF BytesOf, Within
  <2> QED BY <2>1, <2>2
<1> HIDE DEF c, v
<1>5. /\ L \in Nat /\ M \in Nat /\ L <= M
      /\ \A n \in 0 .. L : FlagAfter(c, n)' <=> FlagAfter(c, n)
      /\ (FlagAfter(c, L) <=> v) => \A n \in L .. M : FlagAfter(c, n)' <=> v
      /\ (FlagAfter(c, L) <=> v) => (FlagAfter(c, Len(wire))' <=> v)
      /\ k0 = k => (FlagAfter(c, Len(wire))' <=> v)
      /\ Heard(c)' <=> Heard(c) \/ k0 = k
  BY <1>1, <1>3, <1>4, FlagSent
<1>6. /\ \A n : CaughtUpAfter(k, n) <=> \A m \in n .. L : FlagAfter(c, m) <=> k \in held
      /\ \A n : CaughtUpAfter(k, n)' <=> \A m \in n .. M : FlagAfter(c, m)' <=> v
      /\ CaughtUpAfter(k, Len(wire))' <=> (FlagAfter(c, Len(wire))' <=> v)
  <2>1. CaughtUpAfter(k, Len(wire))' <=> \A m \in M .. M : FlagAfter(c, m)' <=> v
    BY DEF CaughtUpAfter, c, v
  <2>2. M \in M .. M /\ \A m \in M .. M : m = M
    BY <1>5
  <2>3. FlagAfter(c, Len(wire))' <=> FlagOf(keyboard'[c], wire', c, M)
    BY DEF FlagAfter, c
  <2>4. \A m : FlagAfter(c, m)' <=> FlagOf(keyboard'[c], wire', c, m)
    BY DEF FlagAfter, c
  <2> HIDE DEF M
  <2>5. (\A m \in M .. M : FlagAfter(c, m)' <=> v) <=> (FlagAfter(c, Len(wire))' <=> v)
    BY <2>2, <2>3, <2>4
  <2>6. \A n : CaughtUpAfter(k, n)' <=> \A m \in n .. M : FlagAfter(c, m)' <=> v
    BY DEF CaughtUpAfter, c, v, M
  <2>7. \A n : CaughtUpAfter(k, n) <=> \A m \in n .. L : FlagAfter(c, m) <=> k \in held
    BY DEF CaughtUpAfter, c
  <2> QED BY <2>1, <2>5, <2>6, <2>7
<1> HIDE DEF L, M
<1>7. ASSUME Heard(c) => CaughtUpAfter(k, L), Heard(c)'
      PROVE  CaughtUpAfter(k, Len(wire))'
  <2>1. CASE k0 = k
    BY <1>5, <1>6, <2>1
  <2>2. CASE k0 # k
    <3>1. L \in L .. L
      BY <1>5
    <3>2. (k \in held <=> v) /\ Heard(c)
      BY <1>1, <1>5, <1>7, <2>2 DEF v
    <3>3. FlagAfter(c, L) <=> v
      BY <1>6, <1>7, <3>1, <3>2
    <3> QED BY <1>5, <1>6, <3>3
  <2> QED BY <2>1, <2>2
<1>8. ASSUME k \in held <=> v, NEW n \in 0 .. L, CaughtUpAfter(k, n)
      PROVE  CaughtUpAfter(k, n)'
  <2>1. \A m \in n .. L : FlagAfter(c, m) <=> v
    BY <1>6, <1>8
  <2>2. L \in n .. L /\ \A m \in n .. M : m \in n .. L \/ m \in L .. M
    BY <1>5
  <2>3. \A m \in n .. L : m \in 0 .. L
    BY <1>5
  <2> QED BY <1>5, <1>6, <2>1, <2>2, <2>3
<1> QED BY <1>5, <1>7, <1>8 DEF c, v, L, M

(* A byte is read: the flag is right one byte sooner.                       *)
LEMMA FlagsRead ==
    ASSUME KeyInv, isr33, use.routine = "tasks_input_process", NEW k \in use.keys, Alone(k)
    PROVE  /\ use' = use /\ held' = held
           /\ Len(wire) \in Nat \ {0} /\ Len(wire') = Len(wire) - 1
           /\ Heard(k.code)' <=> Heard(k.code)
           /\ \A n \in 0 .. Len(wire) : CaughtUpAfter(k, n) =>
                 /\ CaughtUpAfter(k, n)'
                 /\ n > 0 => CaughtUpAfter(k, n - 1)'
<1> DEFINE c == k.code
           L == Len(wire)
<1>1. DeviceInv /\ UNCHANGED <<use, held>>
  BY DEF KeyInv, isr33
<1>2. c \in Flags
  BY <1>1, UsedKeys, KeyIs DEF Flags, LAST_FIELD
<1>3. /\ L \in Nat \ {0} /\ Len(wire') = L - 1
      /\ \A n \in 0 .. L - 1 : FlagAfter(c, n)' <=> FlagAfter(c, n + 1)
      /\ Heard(c)' <=> Heard(c)
  BY <1>2, FlagRead
<1> HIDE DEF c, L
<1>4. /\ \A n : CaughtUpAfter(k, n) <=> \A m \in n .. L : FlagAfter(c, m) <=> k \in held
      /\ \A n : CaughtUpAfter(k, n)' <=> \A m \in n .. L - 1 : FlagAfter(c, m)' <=> k \in held
  BY <1>1, <1>3 DEF CaughtUpAfter, L, c
<1>5. ASSUME NEW n \in 0 .. L, CaughtUpAfter(k, n)
      PROVE  CaughtUpAfter(k, n)' /\ (n > 0 => CaughtUpAfter(k, n - 1)')
  <2>1. ASSUME NEW m \in 0 .. L - 1, m + 1 >= n PROVE FlagAfter(c, m)' <=> k \in held
    <3>1. m + 1 \in n .. L
      BY <1>3, <2>1
    <3> QED BY <1>3, <1>4, <1>5, <3>1
  <2>2. \A m \in n .. L - 1 : m \in 0 .. L - 1 /\ m + 1 >= n
    BY <1>3
  <2>3. n > 0 => \A m \in n - 1 .. L - 1 : m \in 0 .. L - 1 /\ m + 1 >= n
    BY <1>3
  <2> QED BY <1>4, <2>1, <2>2, <2>3
<1> QED BY <1>1, <1>3, <1>5 DEF c, L

InSight(k) ==
    /\ k \in held => Heard(k.code)
    /\ Heard(k.code) => CaughtUpAfter(k, Len(wire))

Nearer(k) ==
    (k \in held <=> k \in held') =>
      \A n \in 0 .. Len(wire) : CaughtUpAfter(k, n) =>
         /\ CaughtUpAfter(k, n)'
         /\ Len(wire') < Len(wire) /\ n > 0 => CaughtUpAfter(k, n - 1)'

(* Every step keeps the flag of every key in sight, and brings it nearer.   *)
LEMMA FlagsStep ==
    ASSUME KeyInv, [Next]_vars, use.routine = "tasks_input_process",
           NEW k \in use.keys, Alone(k)
    PROVE  use' = use /\ (InSight(k) => InSight(k)') /\ Nearer(k)
<1>1. CASE isr33
  <2>1. /\ use' = use /\ held' = held /\ Len(wire) \in Nat \ {0} /\ Len(wire') = Len(wire) - 1
        /\ Heard(k.code)' <=> Heard(k.code)
    BY <1>1, FlagsRead
  <2>2. \A n \in 0 .. Len(wire) : CaughtUpAfter(k, n) =>
            CaughtUpAfter(k, n)' /\ (n > 0 => CaughtUpAfter(k, n - 1)')
    BY <1>1, FlagsRead
  <2>3. Nearer(k)
    BY <2>2 DEF Nearer
  <2>4. CaughtUpAfter(k, Len(wire)) => CaughtUpAfter(k, Len(wire))'
    <3>1. Len(wire) \in 0 .. Len(wire) /\ Len(wire) > 0
      BY <2>1
    <3>2. CaughtUpAfter(k, Len(wire)) =>
            \A m \in Len(wire) - 1 .. Len(wire') : FlagAfter(k.code, m)' <=> k \in held'
      BY <2>2, <3>1 DEF CaughtUpAfter
    <3>3. CaughtUpAfter(k, Len(wire))' <=>
            \A m \in Len(wire') .. Len(wire') : FlagAfter(k.code, m)' <=> k \in held'
      BY DEF CaughtUpAfter
    <3> QED BY <2>1, <3>2, <3>3
  <2>5. InSight(k) => InSight(k)'
    BY <2>1, <2>4 DEF InSight
  <2> QED BY <2>1, <2>3, <2>5
<1>2. CASE (\E j \in use.keys : Press(j) \/ Release(j)) \/ Repeat
  <2>1. PICK k0 \in use.keys, v0 \in BOOLEAN : \E bytes, C : Sending(k0, bytes, C, v0)
    BY <1>2, DeviceSends DEF KeyInv
  <2>2. PICK bytes, C : Sending(k0, bytes, C, v0)
    BY <2>1
  <2>3. use' = use /\ (k0 # k => (k \in held' <=> k \in held))
    BY <2>2 DEF Sending
  <2>4. /\ Len(wire) \in Nat /\ Len(wire') \in Nat /\ Len(wire) <= Len(wire')
        /\ Heard(k.code)' <=> Heard(k.code) \/ k0 = k
        /\ (Heard(k.code) => CaughtUpAfter(k, Len(wire))) =>
             (Heard(k.code) => CaughtUpAfter(k, Len(wire)))'
        /\ (k \in held <=> k \in held') =>
             \A n \in 0 .. Len(wire) : CaughtUpAfter(k, n) => CaughtUpAfter(k, n)'
    BY <2>2, FlagsSent
  <2>5. Nearer(k)
    BY <2>4 DEF Nearer
  <2>6. InSight(k) => InSight(k)'
    BY <2>3, <2>4 DEF InSight
  <2> QED BY <2>3, <2>5, <2>6
<1>3. CASE UNCHANGED vars
  <2>1. UNCHANGED <<use, held, wire, keyboard, written>> /\ wire \in Seq(Bytes)
    BY <1>3 DEF vars, device_vars, KeyInv, DeviceInv
  <2>2. \A n : CaughtUpAfter(k, n)' <=> CaughtUpAfter(k, n)
    BY <2>1 DEF CaughtUpAfter, FlagAfter
  <2>3. /\ Heard(k.code)' <=> Heard(k.code)
        /\ CaughtUpAfter(k, Len(wire))' <=> CaughtUpAfter(k, Len(wire))
    BY <2>1 DEF Heard, CaughtUpAfter, FlagAfter
  <2>4. ~(Len(wire') < Len(wire))
    BY <2>1, LenProperties
  <2> QED BY <2>1, <2>2, <2>3, <2>4 DEF InSight, Nearer
<1> QED BY <1>1, <1>2, <1>3 DEF Next

(* Whatever is pressed, repeated and released, on any keyboard and with as  *)
(* many bytes waiting as there may be: the last byte that waits leaves the  *)
(* flag of a key that sends its code alone as the key is.                   *)
THEOREM FlagsInSightHolds == Spec => []FlagsInSight
<1>1. Init => FlagsInSight
  <2> SUFFICES ASSUME Init, NEW k \in use.keys PROVE k \notin held /\ ~Heard(k.code)
    BY DEF FlagsInSight
  <2>1. held = {} /\ written = {} /\ wire = <<>>
    BY DEF Init
  <2> QED BY <2>1, EmptySeq DEF Heard
<1>2. KeyInv /\ FlagsInSight /\ [Next]_vars => FlagsInSight'
  <2> SUFFICES ASSUME KeyInv, FlagsInSight, [Next]_vars,
                      (use.routine = "tasks_input_process")',
                      NEW k \in use'.keys, Alone(k)'
               PROVE  InSight(k)'
    BY DEF FlagsInSight, InSight
  <2>1. use' = use
    BY DEF Next, Press, Release, Repeat, isr33, vars
  <2>2. Alone(k) /\ k \in use.keys /\ use.routine = "tasks_input_process"
    BY <2>1 DEF Alone
  <2>3. InSight(k)
    BY <2>2 DEF FlagsInSight, InSight
  <2> QED BY <2>2, <2>3, FlagsStep
<1> QED BY <1>1, <1>2, InvHolds, PTL DEF Spec

(* And while the key stays as it is, every byte that is read brings the     *)
(* flag nearer, whatever else is typed meanwhile.                           *)
THEOREM FlagsNearerHolds == Spec => FlagsNearer
<1> DEFINE Step == use.routine = "tasks_input_process" =>
                     \A k \in use.keys : Alone(k) => Nearer(k)
<1>1. KeyInv /\ [Next]_vars => [Step]_vars
  BY FlagsStep
<1>2. Step <=> use.routine = "tasks_input_process" =>
         \A k \in use.keys : Alone(k) /\ (k \in held <=> k \in held') =>
            \A n \in 0 .. Len(wire) : CaughtUpAfter(k, n) =>
               /\ CaughtUpAfter(k, n)'
               /\ Len(wire') < Len(wire) /\ n > 0 => CaughtUpAfter(k, n - 1)'
  BY DEF Nearer
<1> HIDE DEF Step
<1>3. KeyInv /\ [Next]_vars =>
        [use.routine = "tasks_input_process" =>
           \A k \in use.keys : Alone(k) /\ (k \in held <=> k \in held') =>
              \A n \in 0 .. Len(wire) : CaughtUpAfter(k, n) =>
                 /\ CaughtUpAfter(k, n)'
                 /\ Len(wire') < Len(wire) /\ n > 0 => CaughtUpAfter(k, n - 1)']_vars
  BY <1>1, <1>2
<1> QED BY <1>3, InvHolds, PTL DEF Spec, FlagsNearer

(* A flag that is set, or will be when the wire is read, is explained by a  *)
(* key that is held, or by print screen.                                    *)
FlagsExplained ==
    use.routine = "tasks_input_process" =>
      \A i \in Flags : Heard(i) /\ FlagAfter(i, Len(wire)) => Explained(i)

(* No step leaves a flag unexplained.                                       *)
LEMMA ExplainedStep == KeyInv /\ FlagsExplained /\ [Next]_vars => FlagsExplained'
<1> SUFFICES ASSUME KeyInv, FlagsExplained, [Next]_vars,
                    (use.routine = "tasks_input_process")',
                    NEW i \in Flags, Heard(i)', FlagAfter(i, Len(wire))'
             PROVE  Explained(i)'
  BY DEF FlagsExplained
<1>1. use' = use /\ use.routine = "tasks_input_process"
  BY DEF Next, Press, Release, Repeat, isr33, vars
<1>2. Heard(i) /\ FlagAfter(i, Len(wire)) => Explained(i)
  BY <1>1 DEF FlagsExplained
<1>3. CASE (\E k \in use.keys : Press(k) \/ Release(k)) \/ Repeat
  <2>1. PICK k \in use.keys, v \in BOOLEAN : \E bytes, C : Sending(k, bytes, C, v)
    BY <1>3, DeviceSends DEF KeyInv
  <2>2. PICK bytes, C : Sending(k, bytes, C, v)
    BY <2>1
  <2>3. /\ wire \in Seq(Bytes) /\ bytes \in Seq(Bytes) /\ wire' = wire \o bytes
        /\ UNCHANGED <<keyboard, written>> /\ BytesOf(bytes, C, v)
    BY <2>2 DEF Sending, BytesOf, KeyInv, DeviceInv
  <2>4. \h60 \notin C
    <3>1. C \subseteq 1 .. LAST_FIELD
      BY <2>2, UsedKeys, KeyIs DEF Sending, KeyInv
    <3> QED BY <3>1 DEF LAST_FIELD
  <2>5. CASE i \in C
    <3>1. \A j \in 1 .. Len(bytes) : KeyOf(bytes[j]) = i => (IsPress(bytes[j]) <=> v)
      BY <2>3, <2>4, <2>5 DEF BytesOf
    <3>2. Within(i, bytes)
      BY <2>3, <2>5 DEF BytesOf, Within
    <3>3. FlagAfter(i, Len(wire))' <=> v
      BY <2>3, <3>1, <3>2, FlagSent
    <3> QED BY <2>2, <2>5, <3>3 DEF Sending
  <2>6. CASE i \notin C
    <3>1. \A j \in 1 .. Len(bytes) : KeyOf(bytes[j]) = i => (IsPress(bytes[j]) <=> FALSE)
      BY <2>3, <2>6 DEF BytesOf
    <3>2. /\ (FlagAfter(i, Len(wire)) <=> FALSE) => (FlagAfter(i, Len(wire))' <=> FALSE)
          /\ Within(i, bytes) => (FlagAfter(i, Len(wire))' <=> FALSE)
          /\ Heard(i)' <=> Heard(i) \/ Within(i, bytes)
      BY <2>3, <3>1, FlagSent
    <3> QED BY <1>2, <2>2, <2>6, <3>2 DEF Sending
  <2> QED BY <2>5, <2>6
<1>4. CASE isr33
  <2>1. /\ FlagAfter(i, Len(wire))' <=> FlagAfter(i, Len(wire))
        /\ Heard(i)' <=> Heard(i)
    BY <1>1, <1>4, FlagRead
  <2>2. held' = held /\ pretended' = pretended
    BY <1>4 DEF isr33
  <2> QED BY <1>2, <2>1, <2>2 DEF Explained
<1>5. CASE UNCHANGED vars
  BY <1>2, <1>5 DEF vars, device_vars, Explained, Heard, FlagAfter
<1> QED BY <1>3, <1>4, <1>5 DEF Next

(* Every flag that is set has an explanation.                               *)
THEOREM ExplainedHolds == Spec => []FlagsExplained
<1>1. Init => FlagsExplained
  <2> SUFFICES ASSUME Init, NEW i \in Flags PROVE ~Heard(i)
    BY DEF FlagsExplained
  <2>1. written = {} /\ wire = <<>>
    BY DEF Init
  <2> QED BY <2>1, EmptySeq DEF Heard
<1> QED BY <1>1, ExplainedStep, InvHolds, PTL DEF Spec

(* With nothing on the wire the flags agree with the keys that are held,    *)
(* whichever keys there are.                                                *)
THEOREM FlagsFollowKeysHolds == Spec => []FlagsFollowKeys
<1>1. ASSUME KeyInv, FlagsExplained, FlagsInSight PROVE FlagsFollowKeys
  <2> SUFFICES ASSUME use.routine = "tasks_input_process", wire = <<>>
               PROVE  /\ \A i \in written : keyboard[i] => Explained(i)
                      /\ \A k \in held : Alone(k) => keyboard[k.code]
    BY DEF FlagsFollowKeys, Explained
  <2>1. Len(wire) = 0 /\ \A c : FlagAfter(c, 0) <=> keyboard[c]
    <3>1. Len(wire) = 0 /\ 1 .. 0 = {}
      BY EmptySeq
    <3>2. \A c : ~ReleasedIn(wire, c, 1, 0)
      BY <3>1 DEF ReleasedIn
    <3> QED BY <3>1, <3>2 DEF FlagAfter, FlagOf
  <2>2. \A i \in written : keyboard[i] => Explained(i)
    BY <1>1, <2>1 DEF FlagsExplained, Heard, KeyInv
  <2>3. ASSUME NEW k \in held, Alone(k) PROVE keyboard[k.code]
    <3>1. CaughtUpAfter(k, Len(wire))
      BY <1>1, <2>3 DEF FlagsInSight, KeyInv, DeviceInv
    <3>2. FlagAfter(k.code, 0) <=> k \in held
      BY <2>1, <3>1 DEF CaughtUpAfter
    <3> QED BY <2>1, <3>2
  <2> QED BY <2>2, <2>3
<1> QED BY <1>1, InvHolds, ExplainedHolds, FlagsInSightHolds, PTL
=============================================================================
