---------------------------- MODULE SnakeProofs ----------------------------
(***************************************************************************)
(* Proofs about Snake, for every size of the map, every number of apples   *)
(* and every seed: while it lives the snake is one path from its tail to   *)
(* its head, and body_size is not less than its body.                      *)
(***************************************************************************)
EXTENDS Snake, FiniteSetTheorems, FunctionTheorems, WellFoundedInduction, TLAPS

Types == {"HEAD", "BODY", "TAIL", "EMPTY", "APPLE"}

Maps == [Cells -> [type : Types, direction : Directions]]

Snakes == [score : Nat, remaining_growth : Nat, body_size : Nat, map : Maps]

(* The type of the cell that is i steps from the tail of a path of n steps. *)
Segment(i, n) == IF i = 0 THEN "TAIL" ELSE IF i = n THEN "HEAD" ELSE "BODY"

(* The snake lies along p, and every other cell is empty or an apple.       *)
Path(m, p, n) ==
    /\ n \in Nat \ {0} /\ p \in [0 .. n -> Cells]
    /\ \A i, j \in 0 .. n : p[i] = p[j] => i = j
    /\ \A i \in 0 .. n : m[p[i]].type = Segment(i, n)
    /\ \A i \in 0 .. n - 1 : p[i + 1] = Step(p[i], m[p[i]].direction)
    /\ \A c \in Cells : (\A i \in 0 .. n : p[i] # c) => m[c] \in {EMPTY_CELL, Apple}

OneApple(m) == \E a \in Cells : \A c \in Cells : m[c].type = "APPLE" <=> c = a

(* A snake with n - 1 cells between tail and head.                          *)
Living(s) ==
    \E n \in Nat : \E p \in [0 .. n -> Cells] :
       /\ Path(s.map, p, n) /\ n >= 2 /\ OneApple(s.map)
       /\ s.body_size - (n - 1) \in 0 .. s.score
       /\ s.body_size + s.remaining_growth = 1 + 4 * s.score

SnakeInv ==
    /\ snake \in Snakes /\ beheaded \in BOOLEAN
    /\ beheaded => OfType(snake.map, "HEAD") = {}
    /\ playing /\ ~beheaded => Living(snake)

-----------------------------------------------------------------------------
(* Numbers and cells                                                        *)

(* A set of natural numbers has a least one.                                *)
LEMMA Least ==
    ASSUME NEW A \in SUBSET Nat, A # {}
    PROVE  \E x \in A : \A y \in A : x <= y
<1>1. IsWellFoundedOn(OpToRel(<, Nat), Nat)
  BY NatLessThanWellFounded
<1>2. PICK x \in A : \A y \in A : ~(<<y, x>> \in OpToRel(<, Nat))
  BY <1>1, WFMin
<1>3. \A y \in A : ~(y < x)
  BY <1>2 DEF OpToRel
<1> QED BY <1>3

(* There are as many cells as the height times the width.                   *)
LEMMA CellsAre ==
    IsFiniteSet(Cells) /\ Cardinality(Cells) = HEIGHT * WIDTH
<1> DEFINE rows == 0 .. HEIGHT - 1
           columns == 0 .. WIDTH - 1
           S == rows \X columns
           f == [q \in S |-> [y |-> q[1], x |-> q[2]]]
<1>1. HEIGHT \in Nat \ {0} /\ WIDTH \in Nat \ {0}
  BY BoardAssumption
<1>2. /\ IsFiniteSet(rows) /\ Cardinality(rows) = HEIGHT
      /\ IsFiniteSet(columns) /\ Cardinality(columns) = WIDTH
  BY <1>1, FS_Interval
<1>3. IsFiniteSet(S) /\ Cardinality(S) = HEIGHT * WIDTH
  <2> HIDE DEF rows, columns
  <2> QED BY <1>2, FS_Product
<1>4. f \in Bijection(S, Cells)
  <2>1. f \in [S -> Cells]
    BY DEF Cells
  <2>2. \A q, r \in S : f[q] = f[r] => q = r
    OBVIOUS
  <2>3. \A c \in Cells : \E q \in S : f[q] = c
    <3> SUFFICES ASSUME NEW c \in Cells PROVE \E q \in S : f[q] = c
      OBVIOUS
    <3>1. c = [y |-> c.y, x |-> c.x] /\ <<c.y, c.x>> \in S
      BY DEF Cells
    <3>2. f[<<c.y, c.x>>] = c
      BY <3>1
    <3> QED BY <3>1, <3>2
  <2> HIDE DEF S, f
  <2> QED BY <2>1, <2>2, <2>3, Fun_IsBij
<1>5. ExistsBijection(S, Cells)
  BY <1>4 DEF ExistsBijection
<1> HIDE DEF S
<1> QED BY <1>3, <1>5, FS_Bijection

-----------------------------------------------------------------------------
(* The walk along the snake                                                 *)

(* The cell that the walk reaches after c.                                  *)
After(m, c) == IF c \in Cells THEN Step(c, m[c].direction) ELSE c

Walks(m, w, k) ==
    w = [n \in 0 .. k |-> IF n = 0 THEN TailCell(m) ELSE After(m, w[n - 1])]

(* There is a walk of any length.                                           *)
LEMMA WalkExists ==
    ASSUME NEW m, NEW k \in Nat
    PROVE  \E w : Walks(m, w, k)
<1> DEFINE Stuck == {n \in Nat : ~\E w : Walks(m, w, n)}
<1>1. SUFFICES ASSUME Stuck # {} PROVE FALSE
  OBVIOUS
<1>2. Stuck \in SUBSET Nat
  OBVIOUS
<1> HIDE DEF Stuck
<1>3. PICK l \in Stuck : \A n \in Stuck : l <= n
  BY <1>1, <1>2, Least
<1>4. l \in Nat /\ ~\E w : Walks(m, w, l)
  BY <1>3 DEF Stuck
<1>5. CASE l = 0
  <2> DEFINE w == [n \in 0 .. 0 |-> TailCell(m)]
  <2>1. Walks(m, w, 0)
    BY DEF Walks
  <2> QED BY <1>4, <1>5, <2>1
<1>6. CASE l # 0
  <2>1. l - 1 \in Nat /\ l - 1 \notin Stuck
    BY <1>3, <1>4, <1>6
  <2>2. PICK v : Walks(m, v, l - 1)
    BY <2>1 DEF Stuck
  <2> DEFINE w == [n \in 0 .. l |-> IF n = l THEN After(m, v[l - 1]) ELSE v[n]]
  <2>3. \A n \in 0 .. l - 1 : v[n] = IF n = 0 THEN TailCell(m) ELSE After(m, v[n - 1])
    BY <2>2 DEF Walks
  <2>4. ASSUME NEW n \in 0 .. l
        PROVE  w[n] = IF n = 0 THEN TailCell(m) ELSE After(m, w[n - 1])
    <3>1. CASE n = l
      <4>1. w[n] = After(m, v[n - 1]) /\ n # 0
        BY <1>4, <1>6, <3>1
      <4>2. w[n - 1] = v[n - 1]
        BY <1>4, <1>6, <3>1
      <4> QED BY <4>1, <4>2
    <3>2. CASE n # l
      <4>1. n \in 0 .. l - 1 /\ w[n] = v[n]
        BY <1>4, <3>2
      <4>2. n # 0 => w[n - 1] = v[n - 1]
        BY <1>4, <4>1
      <4> QED BY <2>3, <4>1, <4>2
    <3> QED BY <3>1, <3>2
  <2>5. w = [n \in 0 .. l |-> w[n]]
    OBVIOUS
  <2> HIDE DEF w
  <2>6. Walks(m, w, l)
    BY <2>4, <2>5 DEF Walks
  <2> QED BY <1>4, <2>6
<1> QED BY <1>5, <1>6

(* Along is that walk.                                                      *)
LEMMA WalkIs ==
    ASSUME NEW m
    PROVE  Walks(m, Along(m), HEIGHT * WIDTH)
<1>1. HEIGHT * WIDTH \in Nat
  BY BoardAssumption
<1>2. PICK w : Walks(m, w, HEIGHT * WIDTH)
  BY <1>1, WalkExists
<1>3. Along(m) = CHOOSE v : Walks(m, v, HEIGHT * WIDTH)
  BY DEF Along, Walks, After
<1> QED BY <1>2, <1>3

-----------------------------------------------------------------------------
(* A path                                                                   *)

(* Its ends are the only tail and the only head.                            *)
LEMMA PathEnds ==
    ASSUME NEW m \in Maps, NEW p, NEW n, Path(m, p, n)
    PROVE  /\ OfType(m, "TAIL") = {p[0]} /\ TailCell(m) = p[0]
           /\ OfType(m, "HEAD") = {p[n]}
           /\ (CHOOSE c \in Cells : m[c].type = "HEAD") = p[n]
<1>1. n \in Nat \ {0} /\ p \in [0 .. n -> Cells] /\ p[0] \in Cells /\ p[n] \in Cells
  BY DEF Path
<1>2. ASSUME NEW c \in Cells, m[c].type \in {"HEAD", "TAIL"}
      PROVE  \E i \in 0 .. n : p[i] = c
  BY <1>2 DEF Path, EMPTY_CELL, Apple, cell
<1>3. \A i \in 0 .. n : /\ m[p[i]].type = "TAIL" <=> i = 0
                        /\ m[p[i]].type = "HEAD" <=> i = n
  BY <1>1 DEF Path, Segment
<1>4. \A c \in Cells : /\ m[c].type = "TAIL" <=> c = p[0]
                       /\ m[c].type = "HEAD" <=> c = p[n]
  BY <1>1, <1>2, <1>3
<1> QED BY <1>1, <1>4 DEF OfType, TailCell

(* A path of n steps is n + 1 cells, and no longer than the map; the walk   *)
(* from the tail follows it.                                                *)
LEMMA PathWalked ==
    ASSUME NEW m \in Maps, NEW p, NEW n, Path(m, p, n)
    PROVE  /\ SnakeCells(m) = {p[i] : i \in 0 .. n}
           /\ Cardinality(SnakeCells(m)) = n + 1
           /\ \A i \in 0 .. n : Along(m)[i] = p[i]
<1> DEFINE S == SnakeCells(m)
           L == HEIGHT * WIDTH
           w == Along(m)
<1>1. n \in Nat \ {0} /\ p \in [0 .. n -> Cells] /\ p[0] \in Cells
  BY DEF Path
<1>2. S = {p[i] : i \in 0 .. n}
  <2>1. \A i \in 0 .. n : p[i] \in S
    BY <1>1 DEF Path, Segment, SnakeCells
  <2>2. \A c \in S : \E i \in 0 .. n : p[i] = c
    BY DEF Path, SnakeCells, EMPTY_CELL, Apple, cell
  <2> QED BY <2>1, <2>2
<1>3. p \in [0 .. n -> S] /\ \A i, j \in 0 .. n : p[i] = p[j] => i = j
  BY <1>1, <1>2 DEF Path
<1>4. \A c \in S : \E i \in 0 .. n : p[i] = c
  BY <1>2
<1>5. IsFiniteSet(0 .. n) /\ Cardinality(0 .. n) = n + 1
  BY <1>1, FS_Interval
<1>6. Cardinality(S) = n + 1
  <2>1. p \in Bijection(0 .. n, S)
    <3> HIDE DEF S
    <3> QED BY <1>3, <1>4, Fun_IsBij
  <2>2. ExistsBijection(0 .. n, S)
    BY <2>1 DEF ExistsBijection
  <2> QED BY <1>5, <2>2, FS_Bijection
<1>7. n <= L - 1 /\ L \in Nat
  <2>1. S \in SUBSET Cells
    BY DEF SnakeCells
  <2>2. Cardinality(S) <= L
    BY <2>1, CellsAre, FS_Subset
  <2>3. L \in Nat
    BY BoardAssumption
  <2> HIDE DEF L
  <2> QED BY <1>1, <1>6, <2>2, <2>3
<1>8. Walks(m, w, L)
  BY WalkIs
<1> HIDE DEF S, L, w
<1>9. w[0] = p[0] /\ \A i \in 0 .. n - 1 : w[i + 1] = After(m, w[i])
  <2>1. w[0] = TailCell(m) /\ \A i \in 1 .. L : w[i] = After(m, w[i - 1])
    BY <1>7, <1>8 DEF Walks
  <2>2. \A i \in 0 .. n - 1 : i + 1 \in 1 .. L /\ (i + 1) - 1 = i
    BY <1>1, <1>7
  <2> QED BY <2>1, <2>2, PathEnds
<1> DEFINE Wrong == {i \in 0 .. n : w[i] # p[i]}
<1>10. Wrong = {}
  <2> SUFFICES ASSUME Wrong # {} PROVE FALSE
    OBVIOUS
  <2>1. Wrong \in SUBSET Nat
    OBVIOUS
  <2>2. PICK i \in Wrong : \A j \in Wrong : i <= j
    <3> HIDE DEF Wrong
    <3> QED BY <2>1, Least
  <2>3. i \in 0 .. n /\ w[i] # p[i] /\ i # 0
    BY <1>9
  <2>4. i - 1 \in 0 .. n - 1 /\ i - 1 \notin Wrong /\ (i - 1) + 1 = i
    BY <1>1, <2>2, <2>3
  <2>5. w[i - 1] = p[i - 1] /\ p[i - 1] \in Cells
    BY <1>1, <2>4
  <2>6. p[(i - 1) + 1] = Step(p[i - 1], m[p[i - 1]].direction)
    BY <2>4 DEF Path
  <2>7. w[(i - 1) + 1] = After(m, w[i - 1])
    BY <1>9, <2>4
  <2> QED BY <2>3, <2>4, <2>5, <2>6, <2>7 DEF After
<1> QED BY <1>2, <1>6, <1>10 DEF S, w

-----------------------------------------------------------------------------
(* The two ends move                                                        *)

(* The tail goes to the next cell and leaves its own empty.                 *)
LEMMA PathLosesTail ==
    ASSUME NEW m \in Maps, NEW p, NEW n, Path(m, p, n), n >= 2,
           NEW u \in Maps, u[p[0]] = EMPTY_CELL, u[p[1]] = [m[p[1]] EXCEPT !.type = "TAIL"],
           \A c \in Cells \ {p[0], p[1]} : u[c] = m[c]
    PROVE  Path(u, [i \in 0 .. n - 1 |-> p[i + 1]], n - 1)
<1> DEFINE q == [i \in 0 .. n - 1 |-> p[i + 1]]
<1>1. n \in Nat /\ p \in [0 .. n -> Cells] /\ p[0] # p[1] /\ 0 \in 0 .. n /\ 1 \in 0 .. n
  BY DEF Path
<1>2. n - 1 \in Nat \ {0} /\ q \in [0 .. n - 1 -> Cells]
  BY <1>1
<1>3. \A i, j \in 0 .. n - 1 : q[i] = q[j] => i = j
  BY <1>1 DEF Path
<1>4. \A i \in 2 .. n : p[i] \in Cells /\ u[p[i]] = m[p[i]]
  BY <1>1 DEF Path
<1>5. u[p[1]].type = "TAIL" /\ u[p[1]].direction = m[p[1]].direction
  BY <1>1 DEF Maps
<1>6. ASSUME NEW i \in 0 .. n - 1
      PROVE  u[q[i]].type = Segment(i, n - 1) /\ u[q[i]].direction = m[q[i]].direction
  <2>1. CASE i = 0
    <3>1. q[i] = p[1]
      BY <1>1, <2>1
    <3> HIDE DEF q
    <3> QED BY <1>5, <2>1, <3>1 DEF Segment
  <2>2. CASE i # 0
    <3>1. i + 1 \in 2 .. n /\ q[i] = p[i + 1]
      BY <1>1, <2>2
    <3>2. m[p[i + 1]].type = Segment(i + 1, n)
      BY <1>1, <3>1 DEF Path
    <3> QED BY <1>1, <1>4, <2>2, <3>1, <3>2 DEF Segment
  <2> QED BY <2>1, <2>2
<1>7. ASSUME NEW i \in 0 .. (n - 1) - 1
      PROVE  q[i + 1] = Step(q[i], u[q[i]].direction)
  <2>1. i + 1 \in 0 .. n - 1 /\ q[i] = p[i + 1] /\ q[i + 1] = p[(i + 1) + 1] /\ i \in 0 .. n - 1
    BY <1>1
  <2>2. p[(i + 1) + 1] = Step(p[i + 1], m[p[i + 1]].direction)
    BY <2>1 DEF Path
  <2> QED BY <1>6, <2>1, <2>2
<1>8. ASSUME NEW c \in Cells, \A i \in 0 .. n - 1 : q[i] # c
      PROVE  u[c] \in {EMPTY_CELL, Apple}
  <2>1. \A i \in 1 .. n : p[i] # c
    <3> SUFFICES ASSUME NEW i \in 1 .. n PROVE p[i] # c
      OBVIOUS
    <3>1. i - 1 \in 0 .. n - 1 /\ q[i - 1] = p[i]
      BY <1>1
    <3> QED BY <1>8, <3>1
  <2>2. CASE c = p[0]
    BY <2>2
  <2>3. CASE c # p[0]
    <3>1. \A i \in 0 .. n : p[i] # c
      BY <1>1, <2>1, <2>3
    <3>2. u[c] = m[c]
      BY <1>1, <2>1, <2>3
    <3> QED BY <3>1, <3>2 DEF Path
  <2> QED BY <2>2, <2>3
<1> HIDE DEF q
<1> QED BY <1>2, <1>3, <1>6, <1>7, <1>8 DEF Path, q

(* The head goes on to a cell that is off the path and leaves body behind.  *)
LEMMA PathGainsHead ==
    ASSUME NEW m \in Maps, NEW p, NEW n, Path(m, p, n), NEW next \in Cells,
           next = Step(p[n], m[p[n]].direction), m[next].type \in {"EMPTY", "APPLE"},
           NEW u \in Maps, u[p[n]] = cell("BODY", m[p[n]].direction),
           u[next].type = "HEAD", \A c \in Cells \ {p[n], next} : u[c] = m[c]
    PROVE  Path(u, [i \in 0 .. n + 1 |-> IF i = n + 1 THEN next ELSE p[i]], n + 1)
<1> DEFINE q == [i \in 0 .. n + 1 |-> IF i = n + 1 THEN next ELSE p[i]]
<1>1. n \in Nat \ {0} /\ p \in [0 .. n -> Cells] /\ n \in 0 .. n
  BY DEF Path
<1>2. n + 1 \in Nat \ {0} /\ q \in [0 .. n + 1 -> Cells]
  BY <1>1
<1>3. \A i \in 0 .. n : p[i] # next /\ q[i] = p[i]
  BY <1>1 DEF Path, Segment
<1>4. q[n + 1] = next
  BY <1>1
<1>5. ASSUME NEW i \in 0 .. n + 1, NEW j \in 0 .. n + 1, q[i] = q[j] PROVE i = j
  <2>1. CASE i \in 0 .. n /\ j \in 0 .. n
    BY <1>3, <1>5, <2>1 DEF Path
  <2> HIDE DEF q
  <2>2. CASE i \in 0 .. n /\ j = n + 1
    BY <1>3, <1>4, <1>5, <2>2
  <2>3. CASE i = n + 1 /\ j \in 0 .. n
    BY <1>3, <1>4, <1>5, <2>3
  <2>4. i \in 0 .. n \/ i = n + 1
    BY <1>1
  <2>5. j \in 0 .. n \/ j = n + 1
    BY <1>1
  <2> QED BY <2>1, <2>2, <2>3, <2>4, <2>5
<1>6. /\ u[p[n]].type = "BODY" /\ u[p[n]].direction = m[p[n]].direction
  BY DEF cell
<1>7. \A i \in 0 .. n - 1 : p[i] \in Cells /\ p[i] # p[n] /\ u[p[i]] = m[p[i]]
  <2> SUFFICES ASSUME NEW i \in 0 .. n - 1
               PROVE  p[i] \in Cells /\ p[i] # p[n] /\ u[p[i]] = m[p[i]]
    OBVIOUS
  <2>1. i \in 0 .. n /\ i # n /\ p[i] \in Cells
    BY <1>1
  <2>2. p[i] # p[n]
    BY <1>1, <2>1 DEF Path
  <2> QED BY <1>3, <2>1, <2>2
<1>8. ASSUME NEW i \in 0 .. n
      PROVE  u[p[i]].type = Segment(i, n + 1) /\ u[p[i]].direction = m[p[i]].direction
  <2>1. CASE i = n
    BY <1>1, <1>6, <2>1 DEF Segment
  <2>2. CASE i # n
    <3>1. i \in 0 .. n - 1 /\ m[p[i]].type = Segment(i, n)
      BY <1>1, <2>2 DEF Path
    <3> QED BY <1>1, <1>7, <3>1 DEF Segment
  <2> QED BY <2>1, <2>2
<1>9. ASSUME NEW i \in 0 .. n + 1 PROVE u[q[i]].type = Segment(i, n + 1)
  <2>1. CASE i = n + 1
    BY <1>1, <1>4, <2>1 DEF Segment
  <2>2. CASE i # n + 1
    BY <1>1, <1>3, <1>8, <2>2
  <2> QED BY <2>1, <2>2
<1>10. ASSUME NEW i \in 0 .. (n + 1) - 1
       PROVE  q[i + 1] = Step(q[i], u[q[i]].direction)
  <2>1. CASE i = n
    BY <1>1, <1>3, <1>4, <1>6, <2>1
  <2>2. CASE i # n
    <3>1. i \in 0 .. n - 1 /\ i \in 0 .. n /\ i + 1 \in 0 .. n
      BY <1>1, <2>2
    <3>2. p[i + 1] = Step(p[i], m[p[i]].direction)
      BY <3>1 DEF Path
    <3> QED BY <1>3, <1>8, <3>1, <3>2
  <2> QED BY <2>1, <2>2
<1>11. ASSUME NEW c \in Cells, \A i \in 0 .. n + 1 : q[i] # c
       PROVE  u[c] \in {EMPTY_CELL, Apple}
  <2>1. \A i \in 0 .. n : p[i] # c
    BY <1>1, <1>3, <1>11
  <2>2. c # next
    BY <1>1, <1>4, <1>11
  <2>3. u[c] = m[c]
    BY <1>1, <2>1, <2>2
  <2> QED BY <2>1, <2>3 DEF Path
<1> HIDE DEF q
<1> QED BY <1>2, <1>5, <1>9, <1>10, <1>11 DEF Path, q

(* A turn of the head, or an apple on an empty cell, leaves the path.       *)
LEMMA PathStays ==
    ASSUME NEW m \in Maps, NEW p, NEW n, Path(m, p, n), NEW u \in Maps,
           \/ \E d \in Directions : u = [m EXCEPT ![p[n]].direction = d]
           \/ \E c \in EmptyCells(m) : u = [m EXCEPT ![c] = Apple]
    PROVE  Path(u, p, n)
<1>1. n \in Nat \ {0} /\ p \in [0 .. n -> Cells] /\ n \in 0 .. n
  BY DEF Path
<1>2. /\ \A i \in 0 .. n : u[p[i]].type = m[p[i]].type
      /\ \A i \in 0 .. n - 1 : u[p[i]] = m[p[i]]
      /\ \A c \in Cells : (\A i \in 0 .. n : p[i] # c) => u[c] \in {m[c], Apple}
  <2>1. CASE \E d \in Directions : u = [m EXCEPT ![p[n]].direction = d]
    <3>1. PICK d \in Directions : u = [m EXCEPT ![p[n]].direction = d]
      BY <2>1
    <3>2. u[p[n]].type = m[p[n]].type /\ \A c \in Cells \ {p[n]} : u[c] = m[c]
      BY <1>1, <3>1 DEF Maps
    <3>3. \A i \in 0 .. n - 1 : p[i] \in Cells \ {p[n]} /\ i \in 0 .. n
      BY <1>1 DEF Path
    <3>4. \A i \in 0 .. n : i = n \/ i \in 0 .. n - 1
      BY <1>1
    <3> QED BY <1>1, <3>2, <3>3, <3>4
  <2>2. CASE \E c \in EmptyCells(m) : u = [m EXCEPT ![c] = Apple]
    <3>1. PICK e \in EmptyCells(m) : u = [m EXCEPT ![e] = Apple]
      BY <2>2
    <3>2. e \in Cells /\ m[e].type = "EMPTY" /\ u[e] = Apple /\ \A c \in Cells \ {e} : u[c] = m[c]
      BY <3>1 DEF Maps, EmptyCells, EMPTY_CELL
    <3>3. \A i \in 0 .. n : p[i] \in Cells \ {e}
      BY <1>1, <3>2 DEF Path, Segment
    <3> QED BY <1>1, <3>2, <3>3
  <2> QED BY <2>1, <2>2
<1>3. \A i \in 0 .. n - 1 : p[i + 1] = Step(p[i], u[p[i]].direction)
  BY <1>2 DEF Path
<1> QED BY <1>2, <1>3 DEF Path

-----------------------------------------------------------------------------
(* A turn                                                                   *)

Headless(m) == OfType(m, "HEAD") = {}

Lies(m, n) == \E p \in [0 .. n -> Cells] : Path(m, p, n) /\ OneApple(m)

SameCounts(s, t) ==
    t.score = s.score /\ t.remaining_growth = s.remaining_growth /\ t.body_size = s.body_size

(* A snake with another map.                                                *)
LEMMA WithMap ==
    ASSUME NEW s \in Snakes, NEW u \in Maps, NEW t, t = [s EXCEPT !.map = u]
    PROVE  t \in Snakes /\ t.map = u /\ SameCounts(s, t)
  BY DEF Snakes, SameCounts

(* The tail's move keeps what a snake is, makes no head, and leaves a path  *)
(* that is one cell shorter, unless something is left to grow.              *)
LEMMA TailMoves ==
    ASSUME NEW s \in Snakes
    PROVE  /\ TailMove(s) \in Snakes /\ SameCounts(s, TailMove(s))
           /\ Headless(s.map) => Headless(TailMove(s).map)
           /\ \A n \in Nat : n >= 2 /\ Lies(s.map, n) =>
                Lies(TailMove(s).map, IF s.remaining_growth = 0 THEN n - 1 ELSE n)
<1> DEFINE m    == s.map
           tail == TailCell(m)
           next == Step(tail, m[tail].direction)
           u    == [m EXCEPT ![tail] = EMPTY_CELL, ![next].type = "TAIL"]
           Goes == OfType(m, "TAIL") # {} /\ next \in Cells /\ s.remaining_growth = 0
<1>1. m \in Maps
  BY DEF Snakes
<1>2. TailMove(s) = IF Goes THEN [s EXCEPT !.map = u] ELSE s
  BY DEF TailMove, Snakes
<1>3. ASSUME Goes
      PROVE  /\ tail \in Cells /\ next \in Cells /\ tail # next
             /\ u \in Maps /\ u[tail] = EMPTY_CELL /\ u[next] = [m[next] EXCEPT !.type = "TAIL"]
             /\ \A c \in Cells \ {tail, next} : u[c] = m[c]
  <2>1. tail \in Cells /\ next \in Cells
    BY <1>3 DEF OfType, TailCell
  <2>2. m[tail].direction \in Directions
    BY <1>1, <2>1 DEF Maps
  <2>3. tail # next
    BY <2>1, <2>2 DEF Step, Cells, Directions
  <2>4. [m[next] EXCEPT !.type = "TAIL"] \in [type : Types, direction : Directions]
    BY <1>1, <2>1 DEF Maps, Types
  <2>5. EMPTY_CELL \in [type : Types, direction : Directions]
    BY DEF EMPTY_CELL, Types, Directions
  <2> HIDE DEF tail, next, m
  <2>6. /\ u[tail] = EMPTY_CELL /\ u[next] = [m[next] EXCEPT !.type = "TAIL"]
        /\ \A c \in Cells \ {tail, next} : u[c] = m[c]
        /\ DOMAIN u = Cells /\ u = [c \in Cells |-> u[c]]
    BY <1>1, <2>1, <2>3 DEF Maps
  <2>7. \A c \in Cells : u[c] \in [type : Types, direction : Directions]
    BY <1>1, <2>4, <2>5, <2>6 DEF Maps
  <2>8. u \in Maps
    BY <2>6, <2>7 DEF Maps
  <2> QED BY <2>1, <2>3, <2>6, <2>8
<1> HIDE DEF u, Goes
<1>4. CASE ~Goes
  <2>1. TailMove(s) = s
    BY <1>2, <1>4
  <2>2. ASSUME NEW n \in Nat, n >= 2, Lies(m, n) PROVE s.remaining_growth # 0
    <3>1. PICK p \in [0 .. n -> Cells] : Path(m, p, n)
      BY <2>2 DEF Lies
    <3>2. OfType(m, "TAIL") # {} /\ tail = p[0]
      BY <1>1, <3>1, PathEnds
    <3>3. p[0 + 1] = Step(p[0], m[p[0]].direction) /\ p[0 + 1] \in Cells
      BY <2>2, <3>1 DEF Path
    <3>4. next \in Cells
      BY <3>2, <3>3
    <3> QED BY <1>4, <3>2, <3>4 DEF Goes
  <2> QED BY <2>1, <2>2 DEF SameCounts
<1>5. CASE Goes
  <2>1. TailMove(s) \in Snakes /\ TailMove(s).map = u /\ SameCounts(s, TailMove(s))
    BY <1>2, <1>3, <1>5, WithMap
  <2>2. ASSUME Headless(m) PROVE Headless(u)
    <3>1. \A c \in Cells : m[c].type # "HEAD"
      BY <2>2 DEF Headless, OfType
    <3>2. u[next].type = "TAIL"
      BY <1>1, <1>3, <1>5 DEF Maps
    <3> HIDE DEF next, tail, m
    <3>3. \A c \in Cells : u[c].type # "HEAD"
      BY <1>3, <1>5, <3>1, <3>2 DEF EMPTY_CELL
    <3> QED BY <3>3 DEF Headless, OfType
  <2>3. ASSUME NEW n \in Nat, n >= 2, Lies(m, n) PROVE Lies(u, n - 1)
    <3>1. PICK p \in [0 .. n -> Cells] : Path(m, p, n) /\ OneApple(m)
      BY <2>3 DEF Lies
    <3>2. tail = p[0]
      BY <1>1, <3>1, PathEnds
    <3>3. p[0 + 1] = Step(p[0], m[p[0]].direction) /\ p[0 + 1] = p[1]
      BY <2>3, <3>1 DEF Path
    <3>4. next = p[1]
      BY <3>2, <3>3
    <3> HIDE DEF tail, next, m
    <3>5. Path(u, [i \in 0 .. n - 1 |-> p[i + 1]], n - 1)
      BY <1>1, <1>3, <1>5, <2>3, <3>1, <3>2, <3>4, PathLosesTail
    <3>6. OneApple(u)
      <4>1. PICK a \in Cells : \A c \in Cells : m[c].type = "APPLE" <=> c = a
        BY <3>1 DEF OneApple
      <4>2. 0 \in 0 .. n /\ 1 \in 0 .. n
        BY <2>3
      <4>3. m[tail].type # "APPLE" /\ m[next].type # "APPLE"
        BY <3>1, <3>2, <3>4, <4>2 DEF Path, Segment
      <4>4. u[tail].type # "APPLE" /\ u[next].type # "APPLE"
        BY <1>1, <1>3, <1>5 DEF EMPTY_CELL, Maps
      <4>5. \A c \in Cells : u[c].type = "APPLE" <=> c = a
        BY <1>3, <1>5, <4>1, <4>3, <4>4
      <4> QED BY <4>5 DEF OneApple
    <3>7. [i \in 0 .. n - 1 |-> p[i + 1]] \in [0 .. n - 1 -> Cells]
      BY <3>5 DEF Path
    <3> QED BY <3>5, <3>6, <3>7 DEF Lies
  <2>4. s.remaining_growth = 0
    BY <1>5 DEF Goes
  <2> QED BY <2>1, <2>2, <2>3, <2>4
<1> QED BY <1>4, <1>5

(* What a turn does to the counters before Counters.                        *)
Ate(s, t) ==
    /\ t.score = s.score + 1 /\ t.remaining_growth = s.remaining_growth + 4
    /\ t.body_size = s.body_size

(* The head's move loses it, or leaves a path that is one cell longer and,  *)
(* after an apple, another apple.                                           *)
LEMMA HeadMakesPath ==
    ASSUME NEW s \in Snakes, NEW seed, NEW t \in HeadMoves(s, seed), NEW n \in Nat,
           Lies(s.map, n)
    PROVE  /\ t \in Snakes /\ t.body_size = s.body_size
           /\ Headless(t.map) \/ (Lies(t.map, n + 1) /\ (SameCounts(s, t) \/ Ate(s, t)))
<1> DEFINE m    == s.map
           head == CHOOSE c \in Cells : m[c].type = "HEAD"
           d    == m[head].direction
           next == Step(head, d)
           lost == [m EXCEPT ![head] = cell("BODY", d)]
           u    == [lost EXCEPT ![next] = cell("HEAD", d)]
           dead == [s EXCEPT !.map = lost]
           went == [s EXCEPT !.map = u]
           ate  == [went EXCEPT !.score = @ + 1, !.remaining_growth = @ + 4]
<1>1. m \in Maps
  BY DEF Snakes
<1>2. PICK p \in [0 .. n -> Cells] : Path(m, p, n) /\ OneApple(m)
  BY DEF Lies
<1>3. OfType(m, "HEAD") = {p[n]} /\ head = p[n] /\ head \in Cells /\ n \in 0 .. n
  BY <1>1, <1>2, PathEnds DEF OfType
<1>4. m[head].type = "HEAD" /\ d \in Directions
  BY <1>1, <1>3 DEF Maps, OfType
<1>5. \/ ~CanEnter(m, next) /\ t = dead
      \/ CanEnter(m, next) /\ m[next].type = "EMPTY" /\ t = went
      \/ /\ CanEnter(m, next) /\ m[next].type # "EMPTY"
         /\ \E c \in AppleCells(u, seed) : t = [ate EXCEPT !.map[c] = Apple]
  <2> DEFINE dead1 == [s EXCEPT !.map[head] = cell("BODY", d)]
             went1 == [dead1 EXCEPT !.map[next] = cell("HEAD", d)]
             ate1  == [went1 EXCEPT !.score = @ + 1, !.remaining_growth = @ + 4]
  <2>1. HeadMoves(s, seed) =
          IF OfType(m, "HEAD") = {} THEN {s}
          ELSE IF ~CanEnter(m, next) THEN {dead1}
          ELSE IF m[next].type = "EMPTY" THEN {went1}
          ELSE {[ate1 EXCEPT !.map[c] = Apple] : c \in AppleCells(ate1.map, seed)}
    BY DEF HeadMoves
  <2> HIDE DEF m, head, d, next
  <2>2. dead1 = dead
    BY DEF Snakes, m
  <2>3. dead.map = lost /\ went1 = went
    <3> HIDE DEF lost
    <3>1. dead.map = lost
      BY DEF Snakes
    <3>2. went1 = [dead EXCEPT !.map[next] = cell("HEAD", d)]
      BY <2>2
    <3> QED BY <3>1, <3>2 DEF Snakes
  <2>4. ate1 = ate /\ ate.map = u
    <3> HIDE DEF u, dead1
    <3> QED BY <2>3 DEF Snakes
  <2>5. OfType(m, "HEAD") # {} /\ t \in HeadMoves(s, seed)
    BY <1>3
  <2> HIDE DEF lost, u, dead1, went1, ate1, dead, went, ate
  <2>6. CASE CanEnter(m, next) /\ m[next].type # "EMPTY"
    <3>1. t \in {[ate EXCEPT !.map[c] = Apple] : c \in AppleCells(u, seed)}
      BY <2>1, <2>4, <2>5, <2>6
    <3> QED BY <2>6, <3>1
  <2>7. CASE CanEnter(m, next) /\ m[next].type = "EMPTY"
    BY <2>1, <2>3, <2>5, <2>7
  <2>8. CASE ~CanEnter(m, next)
    BY <2>1, <2>2, <2>5, <2>8
  <2> QED BY <2>6, <2>7, <2>8
<1>6. /\ cell("BODY", d) \in [type : Types, direction : Directions]
      /\ cell("HEAD", d) \in [type : Types, direction : Directions]
      /\ Apple \in [type : Types, direction : Directions]
  BY <1>4 DEF cell, Types, Apple, Directions
<1> HIDE DEF m, head, d, next
<1>7. /\ lost \in Maps /\ lost[head] = cell("BODY", d)
      /\ \A c \in Cells \ {head} : lost[c] = m[c]
  BY <1>1, <1>3, <1>6 DEF Maps
<1>8. ASSUME CanEnter(m, next)
      PROVE  /\ next \in Cells /\ m[next].type \in {"EMPTY", "APPLE"} /\ next # head
             /\ u \in Maps /\ u[head] = cell("BODY", d) /\ u[next] = cell("HEAD", d)
             /\ \A c \in Cells \ {head, next} : u[c] = m[c]
  <2>1. next \in Cells /\ m[next].type \in {"EMPTY", "APPLE"} /\ next # head
    BY <1>4, <1>8 DEF CanEnter
  <2> HIDE DEF lost
  <2>2. u \in Maps
    BY <1>6, <1>7, <2>1 DEF Maps
  <2>3. u[next] = cell("HEAD", d) /\ \A c \in Cells \ {next} : u[c] = lost[c]
    BY <1>7, <2>1 DEF Maps
  <2> QED BY <1>3, <1>7, <2>1, <2>2, <2>3
<1> HIDE DEF lost, u
<1>9. CASE ~CanEnter(m, next)
  <2>1. t = [s EXCEPT !.map = lost]
    BY <1>5, <1>9
  <2>2. t \in Snakes /\ t.map = lost /\ SameCounts(s, t)
    BY <1>7, <2>1, WithMap
  <2>3. \A c \in Cells : lost[c].type # "HEAD"
    BY <1>1, <1>3, <1>7 DEF OfType, cell
  <2> QED BY <2>2, <2>3 DEF Headless, OfType, SameCounts
<1> DEFINE q == [i \in 0 .. n + 1 |-> IF i = n + 1 THEN next ELSE p[i]]
<1>10. ASSUME CanEnter(m, next) PROVE Path(u, q, n + 1) /\ q \in [0 .. n + 1 -> Cells]
  <2>1. next = Step(p[n], m[p[n]].direction) /\ u[p[n]] = cell("BODY", m[p[n]].direction)
    BY <1>3, <1>8, <1>10 DEF next, d
  <2>2. u[next].type = "HEAD"
    BY <1>8, <1>10 DEF cell
  <2>3. Path(u, q, n + 1)
    BY <1>1, <1>2, <1>3, <1>8, <1>10, <2>1, <2>2, PathGainsHead
  <2> QED BY <2>3 DEF Path
<1> HIDE DEF q
<1>11. CASE CanEnter(m, next) /\ m[next].type = "EMPTY"
  <2>1. t \in Snakes /\ t.map = u /\ SameCounts(s, t)
    BY <1>5, <1>8, <1>11, WithMap
  <2>2. PICK a \in Cells : \A c \in Cells : m[c].type = "APPLE" <=> c = a
    BY <1>2 DEF OneApple
  <2>3. \A c \in Cells : u[c].type = "APPLE" <=> c = a
    BY <1>3, <1>4, <1>8, <1>11, <2>2 DEF cell
  <2>4. t.body_size = s.body_size
    BY <2>1 DEF SameCounts
  <2> QED BY <1>10, <1>11, <2>1, <2>3, <2>4 DEF Lies, OneApple
<1>12. CASE CanEnter(m, next) /\ m[next].type # "EMPTY"
  <2>1. PICK a \in AppleCells(u, seed) : t = [ate EXCEPT !.map[a] = Apple]
    BY <1>5, <1>12
  <2>2. a \in EmptyCells(u) /\ a \in Cells
    BY <2>1 DEF AppleCells, EmptyCells
  <2> DEFINE v == [u EXCEPT ![a] = Apple]
  <2>3. v \in Maps /\ v[a] = Apple /\ \A c \in Cells \ {a} : v[c] = u[c]
    BY <1>6, <1>8, <1>12, <2>2 DEF Maps
  <2>4. t \in Snakes /\ t.map = v /\ Ate(s, t)
    <3>1. t = [score |-> s.score + 1, remaining_growth |-> s.remaining_growth + 4,
               body_size |-> s.body_size, map |-> v]
      BY <2>1 DEF Snakes
    <3> HIDE DEF v
    <3> QED BY <2>3, <3>1 DEF Snakes, Ate
  <2>5. Path(v, q, n + 1)
    BY <1>8, <1>10, <1>12, <2>2, <2>3, PathStays
  <2>6. \A c \in Cells : u[c].type # "APPLE"
    <3>1. PICK b \in Cells : \A c \in Cells : m[c].type = "APPLE" <=> c = b
      BY <1>2 DEF OneApple
    <3>2. next = b
      BY <1>8, <1>12, <3>1
    <3> QED BY <1>8, <1>12, <3>1, <3>2 DEF cell
  <2>7. \A c \in Cells : v[c].type = "APPLE" <=> c = a
    BY <2>3, <2>6 DEF Apple, cell
  <2>8. t.body_size = s.body_size
    BY <2>4 DEF Ate
  <2> HIDE DEF v
  <2>9. Lies(v, n + 1)
    BY <1>10, <1>12, <2>2, <2>5, <2>7 DEF Lies, OneApple
  <2> QED BY <2>4, <2>8, <2>9
<1> QED BY <1>9, <1>11, <1>12

(* A turn leaves a path that is as long, or one cell longer if something    *)
(* was left to grow, or after an apple, when the head was met first; or it  *)
(* loses the head.                                                          *)
Scanned(s, t, n) ==
    \/ SameCounts(s, t) /\ Lies(t.map, IF s.remaining_growth = 0 THEN n ELSE n + 1)
    \/ Ate(s, t) /\ (Lies(t.map, n + 1) \/ (s.remaining_growth = 0 /\ Lies(t.map, n)))

(* A turn of a living snake, in either order of the scan.                   *)
LEMMA ScanMakesPath ==
    ASSUME NEW s \in Snakes, NEW seed, NEW t \in Scan(s, seed), NEW n \in Nat, n >= 2,
           Lies(s.map, n)
    PROVE  /\ t \in Snakes /\ t.body_size = s.body_size
           /\ Headless(t.map) \/ Scanned(s, t, n)
<1>1. CASE HeadFirst(s.map)
  <2>1. PICK h \in HeadMoves(s, seed) : t = TailMove(h)
    BY <1>1 DEF Scan
  <2>2. /\ h \in Snakes /\ h.body_size = s.body_size
        /\ Headless(h.map) \/ (Lies(h.map, n + 1) /\ (SameCounts(s, h) \/ Ate(s, h)))
    BY HeadMakesPath
  <2>3. /\ t \in Snakes /\ SameCounts(h, t)
        /\ Headless(h.map) => Headless(t.map)
        /\ \A k \in Nat : k >= 2 /\ Lies(h.map, k) =>
             Lies(t.map, IF h.remaining_growth = 0 THEN k - 1 ELSE k)
    BY <2>1, <2>2, TailMoves
  <2>4. ASSUME Lies(h.map, n + 1)
        PROVE  Lies(t.map, IF h.remaining_growth = 0 THEN n ELSE n + 1)
    <3>1. n + 1 \in Nat /\ n + 1 >= 2 /\ (n + 1) - 1 = n
      OBVIOUS
    <3> QED BY <2>3, <2>4, <3>1
  <2>7. t.body_size = s.body_size
    BY <2>2, <2>3 DEF SameCounts
  <2>5. CASE Lies(h.map, n + 1) /\ SameCounts(s, h)
    <3>1. SameCounts(s, t) /\ h.remaining_growth = s.remaining_growth
      BY <2>3, <2>5 DEF SameCounts
    <3> QED BY <2>3, <2>4, <2>5, <2>7, <3>1 DEF Scanned
  <2>6. CASE Lies(h.map, n + 1) /\ Ate(s, h)
    <3>1. Ate(s, t)
      BY <2>3, <2>6 DEF SameCounts, Ate
    <3>2. h.remaining_growth # 0
      BY <2>6 DEF Ate, Snakes
    <3> QED BY <2>3, <2>4, <2>6, <2>7, <3>1, <3>2 DEF Scanned
  <2> QED BY <2>2, <2>3, <2>5, <2>6, <2>7
<1>2. CASE ~HeadFirst(s.map)
  <2> DEFINE h == TailMove(s)
             k == IF s.remaining_growth = 0 THEN n - 1 ELSE n
  <2>1. t \in HeadMoves(h, seed)
    BY <1>2 DEF Scan
  <2>2. h \in Snakes /\ SameCounts(s, h) /\ Lies(h.map, k)
    BY TailMoves
  <2>3. k \in Nat /\ k + 1 = IF s.remaining_growth = 0 THEN n ELSE n + 1
    OBVIOUS
  <2> HIDE DEF h, k
  <2>4. /\ t \in Snakes /\ t.body_size = h.body_size
        /\ Headless(t.map) \/ (Lies(t.map, k + 1) /\ (SameCounts(h, t) \/ Ate(h, t)))
    BY <2>1, <2>2, <2>3, HeadMakesPath
  <2>5. SameCounts(h, t) => SameCounts(s, t)
    BY <2>2 DEF SameCounts
  <2>6. Ate(h, t) => Ate(s, t)
    BY <2>2 DEF SameCounts, Ate
  <2>7. h.body_size = s.body_size
    BY <2>2 DEF SameCounts
  <2> QED BY <2>3, <2>4, <2>5, <2>6, <2>7 DEF Scanned
<1> QED BY <1>1, <1>2

(* A turn of a snake that has lost its head.                                *)
LEMMA ScanHeadless ==
    ASSUME NEW s \in Snakes, NEW seed, NEW t \in Scan(s, seed), Headless(s.map)
    PROVE  t \in Snakes /\ Headless(t.map) /\ SameCounts(s, t)
<1> DEFINE h == TailMove(s)
<1>1. ~HeadFirst(s.map)
  BY DEF Headless, HeadFirst
<1>2. h \in Snakes /\ Headless(h.map) /\ SameCounts(s, h)
  BY TailMoves
<1>3. t = h
  BY <1>1, <1>2 DEF Scan, HeadMoves, Headless
<1> QED BY <1>2, <1>3

(* A key turns the head and nothing else.                                   *)
LEMMA SteeredKeeps ==
    ASSUME NEW s \in Snakes, NEW t \in Steered(s)
    PROVE  /\ t \in Snakes /\ SameCounts(s, t)
           /\ Headless(s.map) => Headless(t.map)
           /\ \A n \in Nat : Lies(s.map, n) => Lies(t.map, n)
<1> DEFINE m == s.map
<1>1. m \in Maps
  BY DEF Snakes
<1>2. CASE Headless(m)
  <2>1. t = s
    BY <1>2 DEF Steered, Headless
  <2> QED BY <2>1 DEF SameCounts
<1>3. CASE ~Headless(m)
  <2>1. PICK h \in OfType(m, "HEAD"), d \in Directions : t = [s EXCEPT !.map[h].direction = d]
    BY <1>3 DEF Steered, Headless
  <2> DEFINE u == [m EXCEPT ![h].direction = d]
  <2>2. h \in Cells
    BY DEF OfType
  <2>3. u \in Maps
    <3>1. [m[h] EXCEPT !.direction = d] \in [type : Types, direction : Directions]
      BY <1>1, <2>2 DEF Maps
    <3> QED BY <1>1, <2>2, <3>1 DEF Maps
  <2>4. \A c \in Cells : u[c].type = m[c].type
    BY <1>1, <2>2 DEF Maps
  <2>5. t = [s EXCEPT !.map = u]
    BY <2>1 DEF Snakes
  <2> HIDE DEF u
  <2>6. t \in Snakes /\ t.map = u /\ SameCounts(s, t)
    BY <2>3, <2>5, WithMap
  <2>7. ASSUME NEW n \in Nat, Lies(m, n) PROVE Lies(u, n)
    <3>1. PICK p \in [0 .. n -> Cells] : Path(m, p, n) /\ OneApple(m)
      BY <2>7 DEF Lies
    <3>2. h = p[n]
      BY <1>1, <3>1, PathEnds
    <3>3. Path(u, p, n)
      BY <1>1, <2>3, <3>1, <3>2, PathStays DEF u
    <3>4. OneApple(u)
      BY <2>4, <3>1 DEF OneApple
    <3> QED BY <3>3, <3>4 DEF Lies
  <2> QED BY <1>3, <2>6, <2>7
<1> QED BY <1>2, <1>3

(* The counters keep the map and stay in their types: body_size is not      *)
(* taken below zero.  Without a head they come nearer to zero together.     *)
LEMMA CountersKeep ==
    ASSUME NEW s \in Snakes, s.body_size # 0
    PROVE  /\ Counters(s) \in Snakes /\ Counters(s).map = s.map
           /\ Counters(s).score = s.score
           /\ ~Headless(s.map) =>
                /\ Counters(s).body_size
                     = IF s.remaining_growth > 0 THEN s.body_size + 1 ELSE s.body_size
                /\ Counters(s).body_size + Counters(s).remaining_growth
                     = s.body_size + s.remaining_growth
           /\ Headless(s.map) =>
                /\ Counters(s).body_size <= s.body_size
                /\ Counters(s).body_size + Counters(s).remaining_growth
                     = s.body_size + s.remaining_growth - 1
<1> DEFINE lost == OfType(s.map, "HEAD") = {}
           grow == s.remaining_growth > 0
           rest == IF grow THEN s.remaining_growth - 1 ELSE s.remaining_growth
           size == s.body_size - (IF lost THEN 1 ELSE 0) + (IF grow THEN 1 ELSE 0)
<1>1. Counters(s) = [score |-> s.score, remaining_growth |-> rest, body_size |-> size,
                     map |-> s.map]
  <2>1. Counters(s) = [s EXCEPT !.remaining_growth = rest, !.body_size = size]
    BY DEF Snakes, Counters
  <2> HIDE DEF rest, size
  <2> QED BY <2>1 DEF Snakes
<1>2. rest \in Nat /\ size \in Nat /\ s.score \in Nat /\ s.map \in Maps
  BY DEF Snakes
<1>3. ~Headless(s.map) =>
        /\ size = IF s.remaining_growth > 0 THEN s.body_size + 1 ELSE s.body_size
        /\ size + rest = s.body_size + s.remaining_growth
  BY DEF Headless, Snakes
<1>4. Headless(s.map) => size <= s.body_size /\ size + rest = s.body_size + s.remaining_growth - 1
  BY DEF Headless, Snakes
<1> HIDE DEF lost, grow, rest, size
<1> QED BY <1>1, <1>2, <1>3, <1>4 DEF Snakes

(* So body_size stays as far from the body as it was, or comes one closer   *)
(* to the score that an apple adds.                                         *)
LEMMA TurnLives ==
    ASSUME NEW s \in Snakes, Living(s), NEW seed, NEW t \in Scan(s, seed),
           NEW u \in Steered(t), ~Headless(u.map)
    PROVE  Counters(u) \in Snakes /\ Living(Counters(u))
<1>1. PICK n \in Nat : /\ n >= 2 /\ Lies(s.map, n) /\ s.body_size - (n - 1) \in 0 .. s.score
                      /\ s.body_size + s.remaining_growth = 1 + 4 * s.score
  BY DEF Living, Lies
<1>2. t \in Snakes /\ t.body_size = s.body_size /\ (Headless(t.map) \/ Scanned(s, t, n))
  BY <1>1, ScanMakesPath
<1>3. /\ u \in Snakes /\ SameCounts(t, u)
      /\ Headless(t.map) => Headless(u.map)
      /\ \A k \in Nat : Lies(t.map, k) => Lies(u.map, k)
  BY <1>2, SteeredKeeps
<1>4. Scanned(s, u, n)
  <2>1. Scanned(s, t, n)
    BY <1>2, <1>3
  <2>2. (SameCounts(s, t) => SameCounts(s, u)) /\ (Ate(s, t) => Ate(s, u))
    BY <1>3 DEF SameCounts, Ate
  <2>3. n \in Nat /\ n + 1 \in Nat
    OBVIOUS
  <2> QED BY <1>3, <2>1, <2>2, <2>3 DEF Scanned
<1>5. /\ s.score \in Nat /\ s.remaining_growth \in Nat /\ s.body_size \in Nat
      /\ u.body_size # 0
  BY <1>1, <1>2, <1>3 DEF Snakes, SameCounts
<1>6. /\ Counters(u) \in Snakes /\ Counters(u).map = u.map /\ Counters(u).score = u.score
      /\ Counters(u).body_size
           = IF u.remaining_growth > 0 THEN u.body_size + 1 ELSE u.body_size
      /\ Counters(u).body_size + Counters(u).remaining_growth
           = u.body_size + u.remaining_growth
  BY <1>3, <1>5, CountersKeep
<1>7. PICK k \in {n, n + 1} : /\ Lies(u.map, k)
                              /\ Counters(u).body_size - (k - 1) \in 0 .. Counters(u).score
  <2>1. CASE SameCounts(s, u) /\ Lies(u.map, IF s.remaining_growth = 0 THEN n ELSE n + 1)
    <3>1. CASE s.remaining_growth = 0
      BY <1>1, <1>5, <1>6, <2>1, <3>1 DEF SameCounts
    <3>2. CASE s.remaining_growth # 0
      BY <1>1, <1>5, <1>6, <2>1, <3>2 DEF SameCounts
    <3> QED BY <3>1, <3>2
  <2>2. CASE Ate(s, u) /\ Lies(u.map, n + 1)
    BY <1>1, <1>5, <1>6, <2>2 DEF Ate
  <2>3. CASE Ate(s, u) /\ Lies(u.map, n)
    BY <1>1, <1>5, <1>6, <2>3 DEF Ate
  <2> QED BY <1>4, <2>1, <2>2, <2>3 DEF Scanned
<1>8. k \in Nat /\ k >= 2
  BY <1>1
<1>9. Counters(u).body_size + Counters(u).remaining_growth = 1 + 4 * Counters(u).score
  <2>1. CASE SameCounts(s, u)
    BY <1>1, <1>6, <2>1 DEF SameCounts
  <2>2. CASE Ate(s, u)
    BY <1>1, <1>5, <1>6, <2>2 DEF Ate
  <2> QED BY <1>4, <2>1, <2>2 DEF Scanned
<1> QED BY <1>6, <1>7, <1>8, <1>9 DEF Living, Lies

-----------------------------------------------------------------------------
(* The steps                                                                *)

(* The new snake is one.                                                    *)
LEMMA NewSnakeTyped == NewSnake \in Snakes
<1> DEFINE middle == [y |-> HEIGHT \div 2, x |-> WIDTH \div 2]
           top    == Step(middle, "UP")
           bottom == Step(middle, "DOWN")
           m      == NewSnake.map
<1>1. m = [c \in Cells |-> CASE c = top    -> cell("HEAD", "UP")
                             [] c = middle -> cell("BODY", "UP")
                             [] c = bottom -> cell("TAIL", "UP")
                             [] OTHER      -> EMPTY_CELL]
  BY DEF NewSnake
<1>2. NewSnake = [score |-> 0, remaining_growth |-> 0, body_size |-> 1, map |-> m]
  BY DEF NewSnake
<1> HIDE DEF middle, top, bottom, m
<1>3. /\ \A type \in Types : cell(type, "UP") \in [type : Types, direction : Directions]
      /\ EMPTY_CELL \in [type : Types, direction : Directions]
  BY DEF cell, EMPTY_CELL, Types, Directions
<1>4. \A c \in Cells : m[c] \in {cell("HEAD", "UP"), cell("BODY", "UP"), cell("TAIL", "UP"),
                              EMPTY_CELL}
  BY <1>1
<1>5. \A c \in Cells : m[c] \in [type : Types, direction : Directions]
  BY <1>3, <1>4 DEF Types
<1>6. m \in Maps
  BY <1>1, <1>5 DEF Maps
<1> QED BY <1>2, <1>6 DEF Snakes

(* It is three cells in a column, and gets an apple elsewhere.              *)
LEMMA NewSnakeLives ==
    ASSUME NEW a \in EmptyCells(NewSnake.map)
    PROVE  /\ [NewSnake EXCEPT !.map[a] = Apple] \in Snakes
           /\ Living([NewSnake EXCEPT !.map[a] = Apple])
<1> DEFINE middle == [y |-> HEIGHT \div 2, x |-> WIDTH \div 2]
           top    == Step(middle, "UP")
           bottom == Step(middle, "DOWN")
           m      == NewSnake.map
           u      == [m EXCEPT ![a] = Apple]
           t      == [NewSnake EXCEPT !.map[a] = Apple]
           p      == [i \in 0 .. 2 |-> IF i = 0 THEN bottom ELSE IF i = 1 THEN middle ELSE top]
<1>1. /\ top = [y |-> HEIGHT \div 2 - 1, x |-> WIDTH \div 2]
      /\ bottom = [y |-> HEIGHT \div 2 + 1, x |-> WIDTH \div 2]
  BY DEF Step
<1>2. HEIGHT \div 2 \in 1 .. HEIGHT - 2 /\ WIDTH \div 2 \in 0 .. WIDTH - 1
  BY BoardAssumption
<1>3. /\ middle \in Cells /\ top \in Cells /\ bottom \in Cells
      /\ top # middle /\ top # bottom /\ middle # bottom
      /\ Step(bottom, "UP") = middle /\ Step(middle, "UP") = top
  BY <1>1, <1>2, BoardAssumption DEF Cells, Step
<1>4. m = [c \in Cells |-> CASE c = top    -> cell("HEAD", "UP")
                             [] c = middle -> cell("BODY", "UP")
                             [] c = bottom -> cell("TAIL", "UP")
                             [] OTHER      -> EMPTY_CELL]
  BY DEF NewSnake
<1>5. /\ NewSnake.score = 0 /\ NewSnake.remaining_growth = 0 /\ NewSnake.body_size = 1
      /\ NewSnake = [score |-> 0, remaining_growth |-> 0, body_size |-> 1, map |-> m]
  BY DEF NewSnake
<1> HIDE DEF middle, top, bottom, m
<1>6. /\ m[top] = cell("HEAD", "UP") /\ m[middle] = cell("BODY", "UP")
      /\ m[bottom] = cell("TAIL", "UP")
      /\ \A c \in Cells \ {top, middle, bottom} : m[c] = EMPTY_CELL
  BY <1>3, <1>4
<1>7. m \in Maps
  BY NewSnakeTyped DEF Snakes, m
<1>8. NewSnake \in Snakes
  BY NewSnakeTyped
<1>9. a \in Cells /\ m[a] = EMPTY_CELL
  BY DEF EmptyCells, m
<1>10. u \in Maps /\ u[a] = Apple /\ \A c \in Cells \ {a} : u[c] = m[c]
  <2>1. Apple \in [type : Types, direction : Directions]
    BY DEF Apple, cell, Types, Directions
  <2> QED BY <1>7, <1>9, <2>1 DEF Maps
<1>11. t = [NewSnake EXCEPT !.map = u]
  BY <1>8 DEF Snakes, m
<1> HIDE DEF t
<1>12. t \in Snakes /\ t.map = u /\ SameCounts(NewSnake, t)
  BY <1>8, <1>10, <1>11, WithMap
<1>13. Path(m, p, 2)
  <2>1. p[0] = bottom /\ p[1] = middle /\ p[2] = top /\ p \in [0 .. 2 -> Cells]
    BY <1>3
  <2> HIDE DEF p
  <2>2. \A i \in 0 .. 2 : i = 0 \/ i = 1 \/ i = 2
    OBVIOUS
  <2>3. \A i, j \in 0 .. 2 : p[i] = p[j] => i = j
    BY <1>3, <2>1, <2>2
  <2>4. \A i \in 0 .. 2 : m[p[i]].type = Segment(i, 2)
    BY <1>6, <2>1, <2>2 DEF Segment, cell
  <2>5. \A i \in 0 .. 2 - 1 : p[i + 1] = Step(p[i], m[p[i]].direction)
    <3>1. \A i \in 0 .. 2 - 1 : i = 0 \/ i = 1
      OBVIOUS
    <3>2. m[p[0]].direction = "UP" /\ m[p[1]].direction = "UP"
      BY <1>6, <2>1 DEF cell
    <3>3. p[0 + 1] = middle /\ p[1 + 1] = top
      BY <2>1
    <3> QED BY <1>3, <2>1, <3>1, <3>2, <3>3
  <2>6. \A c \in Cells : (\A i \in 0 .. 2 : p[i] # c) => m[c] \in {EMPTY_CELL, Apple}
    BY <1>6, <2>1
  <2> QED BY <2>1, <2>3, <2>4, <2>5, <2>6 DEF Path
<1>14. p \in [0 .. 2 -> Cells] /\ 2 \in Nat
  BY <1>13 DEF Path
<1> HIDE DEF p
<1>15. Path(u, p, 2)
  <2>1. a \in EmptyCells(m)
    BY DEF m
  <2> HIDE DEF u
  <2> QED BY <1>7, <1>10, <1>13, <2>1, PathStays DEF u
<1>16. OneApple(u)
  <2>1. \A c \in Cells : m[c].type # "APPLE"
    BY <1>6 DEF cell, EMPTY_CELL
  <2>2. \A c \in Cells : u[c].type = "APPLE" <=> c = a
    BY <1>9, <1>10, <2>1 DEF Apple, cell
  <2> QED BY <1>9, <2>2 DEF OneApple
<1>17. /\ t.body_size - (2 - 1) \in 0 .. t.score
       /\ t.body_size + t.remaining_growth = 1 + 4 * t.score
  BY <1>5, <1>12 DEF SameCounts
<1> HIDE DEF u
<1>18. Living(t)
  <2>1. /\ Path(t.map, p, 2) /\ 2 >= 2 /\ OneApple(t.map)
        /\ t.body_size - (2 - 1) \in 0 .. t.score
        /\ t.body_size + t.remaining_growth = 1 + 4 * t.score
    BY <1>12, <1>15, <1>16, <1>17
  <2>2. \E q \in [0 .. 2 -> Cells] :
          /\ Path(t.map, q, 2) /\ 2 >= 2 /\ OneApple(t.map)
          /\ t.body_size - (2 - 1) \in 0 .. t.score
          /\ t.body_size + t.remaining_growth = 1 + 4 * t.score
    BY <1>14, <2>1
  <2> QED BY <1>14, <2>2, Zenon DEF Living
<1> QED BY <1>12, <1>18 DEF t

(* Before the first game there is a snake and no game.                      *)
LEMMA InvInit == Init => SnakeInv
  BY NewSnakeTyped DEF Init, SnakeInv

(* A game starts.                                                           *)
LEMMA StartInv == ASSUME SnakeInv, Start PROVE SnakeInv'
<1>1. PICK seed \in Seeds : \E a \in AppleCells(NewSnake.map, seed) :
        snake' = [NewSnake EXCEPT !.map[a] = Apple]
  BY DEF Start
<1>2. PICK a \in AppleCells(NewSnake.map, seed) :
        snake' = [NewSnake EXCEPT !.map[a] = Apple]
  BY <1>1
<1>3. a \in EmptyCells(NewSnake.map)
  BY DEF AppleCells
<1>4. snake' \in Snakes /\ Living(snake')
  BY <1>2, <1>3, NewSnakeLives
<1>5. beheaded' = FALSE
  BY DEF Start
<1> QED BY <1>4, <1>5 DEF SnakeInv

(* A turn.                                                                  *)
LEMMA TickInv == ASSUME SnakeInv, snake_tick PROVE SnakeInv'
<1>1. playing /\ playing' = playing /\ snake \in Snakes /\ snake.body_size # 0
  BY DEF snake_tick, SnakeInv, GoesOn
<1>2. CASE UNCHANGED <<snake, beheaded>>
  BY <1>1, <1>2 DEF SnakeInv
<1>3. CASE \E t \in Scan(snake, "other") : \E u \in Steered(t) :
             /\ snake' = Counters(u)
             /\ beheaded' = (OfType(u.map, "HEAD") = {})
  <2>1. PICK t \in Scan(snake, "other") : \E u \in Steered(t) :
          snake' = Counters(u) /\ beheaded' = Headless(u.map)
    BY <1>3 DEF Headless
  <2>2. PICK u \in Steered(t) : snake' = Counters(u) /\ beheaded' = Headless(u.map)
    BY <2>1
  <2>3. CASE beheaded
    <3>1. Headless(snake.map)
      BY <2>3 DEF SnakeInv, Headless
    <3>2. t \in Snakes /\ Headless(t.map) /\ SameCounts(snake, t)
      BY <1>1, <3>1, ScanHeadless
    <3>3. u \in Snakes /\ Headless(u.map) /\ u.body_size # 0
      BY <1>1, <3>2, SteeredKeeps DEF SameCounts
    <3>4. snake' \in Snakes /\ snake'.map = u.map
      BY <2>2, <3>3, CountersKeep
    <3>5. beheaded' = TRUE
      BY <2>2, <3>3
    <3> QED BY <3>3, <3>4, <3>5 DEF SnakeInv, Headless
  <2>4. CASE ~beheaded
    <3>1. Living(snake)
      BY <1>1, <2>4 DEF SnakeInv
    <3>2. t \in Snakes /\ t.body_size = snake.body_size
      BY <1>1, <3>1, ScanMakesPath DEF Living, Lies
    <3>3. u \in Snakes /\ u.body_size # 0
      BY <1>1, <3>2, SteeredKeeps DEF SameCounts
    <3>4. snake' \in Snakes /\ snake'.map = u.map
      BY <2>2, <3>3, CountersKeep
    <3>5. CASE Headless(u.map)
      <4>1. beheaded' = TRUE
        BY <2>2, <3>5
      <4> QED BY <3>4, <3>5, <4>1 DEF SnakeInv, Headless
    <3>6. CASE ~Headless(u.map)
      <4>1. beheaded' = FALSE
        BY <2>2, <3>6 DEF Headless
      <4>2. Living(snake')
        BY <1>1, <2>2, <3>1, <3>6, TurnLives
      <4> QED BY <3>4, <4>1, <4>2 DEF SnakeInv
    <3> QED BY <3>5, <3>6
  <2> QED BY <2>3, <2>4
<1> QED BY <1>2, <1>3 DEF snake_tick

(* The game is over.                                                        *)
LEMMA OverInv == ASSUME SnakeInv, Over PROVE SnakeInv'
<1>1. snake' = NewSnake /\ beheaded' = FALSE /\ playing' = FALSE
  BY DEF Over
<1> QED BY <1>1, NewSnakeTyped DEF SnakeInv

(* Every step keeps the invariant.                                          *)
LEMMA InvNext == SnakeInv /\ [Next]_vars => SnakeInv'
<1> SUFFICES ASSUME SnakeInv, [Next]_vars PROVE SnakeInv'
  OBVIOUS
<1>1. CASE UNCHANGED vars
  BY <1>1 DEF vars, SnakeInv
<1>2. CASE SpawnForever
  BY <1>1, <1>2 DEF SpawnForever
<1> QED BY <1>1, <1>2, StartInv, TickInv, OverInv DEF Next

(* The invariant holds in every state.                                      *)
THEOREM InvHolds == Spec => []SnakeInv
  BY InvInit, InvNext, PTL DEF Spec

-----------------------------------------------------------------------------
(* What follows from it                                                     *)

(* Until it is beheaded the snake is one path from its only tail to its     *)
(* only head, and there is one apple, on a map of any size.                 *)
THEOREM SnakeConnectedHolds == Spec => []SnakeConnected
<1>1. ASSUME SnakeInv PROVE SnakeConnected
  <2> DEFINE m    == snake.map
             last == Cardinality(SnakeCells(m)) - 1
             walk == Along(m)
  <2> SUFFICES ASSUME playing, ~beheaded
               PROVE  /\ Cardinality(OfType(m, "HEAD")) = 1
                      /\ Cardinality(OfType(m, "TAIL")) = 1
                      /\ Cardinality(OfType(m, "APPLE")) = 1
                      /\ {walk[i] : i \in 0 .. last} = SnakeCells(m)
                      /\ m[walk[last]].type = "HEAD"
    BY DEF SnakeConnected
  <2>1. m \in Maps /\ Living(snake)
    BY <1>1 DEF SnakeInv, Snakes
  <2>2. PICK n \in Nat : \E p \in [0 .. n -> Cells] : Path(m, p, n) /\ OneApple(m)
    BY <2>1 DEF Living
  <2>3. PICK p \in [0 .. n -> Cells] : Path(m, p, n) /\ OneApple(m)
    BY <2>2
  <2> HIDE DEF m
  <2>4. OfType(m, "TAIL") = {p[0]} /\ OfType(m, "HEAD") = {p[n]}
    BY <2>1, <2>3, PathEnds
  <2>5. /\ SnakeCells(m) = {p[i] : i \in 0 .. n} /\ Cardinality(SnakeCells(m)) = n + 1
        /\ \A i \in 0 .. n : walk[i] = p[i]
    BY <2>1, <2>3, PathWalked
  <2>6. PICK a \in Cells : OfType(m, "APPLE") = {a}
    BY <2>3 DEF OneApple, OfType
  <2>7. last = n
    BY <2>5
  <2>8. m[p[n]].type = "HEAD"
    BY <2>4 DEF OfType
  <2> HIDE DEF last, walk
  <2>9. {walk[i] : i \in 0 .. last} = SnakeCells(m)
    BY <2>5, <2>7
  <2>10. m[walk[last]].type = "HEAD"
    BY <2>5, <2>7, <2>8
  <2> QED BY <2>4, <2>6, <2>9, <2>10, FS_Singleton
<1> QED BY <1>1, InvHolds, PTL

(* body_size is the number of cells between head and tail of a living       *)
(* snake, or more by at most one for each apple, never less; with what is   *)
(* left to grow it is four for each apple.                                  *)
THEOREM BodyCountedHolds == Spec => []BodyCounted
<1>1. ASSUME SnakeInv, playing, ~beheaded
      PROVE  /\ snake.body_size - (Cardinality(SnakeCells(snake.map)) - 2) \in 0 .. snake.score
             /\ snake.body_size + snake.remaining_growth = 1 + 4 * snake.score
  <2>1. snake.map \in Maps /\ snake.body_size \in Int /\ Living(snake)
    BY <1>1 DEF SnakeInv, Snakes
  <2>2. PICK n \in Nat : \E p \in [0 .. n -> Cells] :
          /\ Path(snake.map, p, n) /\ snake.body_size - (n - 1) \in 0 .. snake.score
          /\ snake.body_size + snake.remaining_growth = 1 + 4 * snake.score
    BY <2>1 DEF Living
  <2>3. Cardinality(SnakeCells(snake.map)) = n + 1
    BY <2>1, <2>2, PathWalked
  <2>4. snake.body_size - ((n + 1) - 2) = snake.body_size - (n - 1)
    BY <2>1
  <2> QED BY <2>2, <2>3, <2>4
<1>2. SnakeInv => BodyCounted
  BY <1>1 DEF BodyCounted
<1> QED BY <1>2, InvHolds, PTL

(* A snake without a head has a turn: it needs no empty cell.               *)
LEMMA HeadlessScans ==
    ASSUME NEW s \in Snakes, NEW seed, Headless(s.map)
    PROVE  Scan(s, seed) # {}
<1> DEFINE h == TailMove(s)
<1>1. ~HeadFirst(s.map)
  BY DEF Headless, HeadFirst
<1>2. Headless(h.map)
  BY TailMoves
<1>3. HeadMoves(h, seed) = {h}
  BY <1>2 DEF HeadMoves, Headless
<1> QED BY <1>1, <1>3 DEF Scan

(* A head has a turn while some cell is empty: if it eats, another apple    *)
(* fits there.                                                              *)
LEMMA HeadHasTurn ==
    ASSUME NEW s \in Snakes, NEW c \in Cells, s.map[c] = EMPTY_CELL
    PROVE  HeadMoves(s, "other") # {}
<1> DEFINE head == CHOOSE h \in Cells : s.map[h].type = "HEAD"
           d    == s.map[head].direction
           next == Step(head, d)
           dead == [s EXCEPT !.map[head] = cell("BODY", d)]
           went == [dead EXCEPT !.map[next] = cell("HEAD", d)]
           ate  == [went EXCEPT !.score = @ + 1, !.remaining_growth = @ + 4]
<1>1. HeadMoves(s, "other") =
        IF OfType(s.map, "HEAD") = {} THEN {s}
        ELSE IF ~CanEnter(s.map, next) THEN {dead}
        ELSE IF s.map[next].type = "EMPTY" THEN {went}
        ELSE {[ate EXCEPT !.map[a] = Apple] : a \in AppleCells(ate.map, "other")}
  BY DEF HeadMoves
<1>2. ASSUME OfType(s.map, "HEAD") # {}, CanEnter(s.map, next), s.map[next].type # "EMPTY"
      PROVE  c \in AppleCells(ate.map, "other")
  <2>1. head \in Cells /\ s.map[head].type = "HEAD" /\ next \in Cells
    BY <1>2 DEF OfType, CanEnter
  <2>3. s.map \in [Cells -> [type : Types, direction : Directions]]
    BY DEF Snakes, Maps
  <2>4. ate.map = [s.map EXCEPT ![head] = cell("BODY", d), ![next] = cell("HEAD", d)]
    BY DEF Snakes
  <2> HIDE DEF head, next, ate
  <2>2. c # head /\ c # next
    BY <1>2, <2>1 DEF EMPTY_CELL
  <2>5. ate.map[c] = EMPTY_CELL
    BY <2>1, <2>2, <2>3, <2>4
  <2> QED BY <2>5 DEF AppleCells, EmptyCells
<1> HIDE DEF head, next, dead, went, ate
<1> QED BY <1>1, <1>2

(* So has the whole snake, whichever end the scan meets first: the cell the *)
(* tail leaves is empty too.                                                *)
LEMMA SnakeHasTurn ==
    ASSUME NEW s \in Snakes, NEW c \in Cells, s.map[c] = EMPTY_CELL
    PROVE  Scan(s, "other") # {}
<1>1. CASE HeadFirst(s.map)
  BY <1>1, HeadHasTurn DEF Scan
<1>2. CASE ~HeadFirst(s.map)
  <2> DEFINE m    == s.map
             tail == TailCell(m)
             next == Step(tail, m[tail].direction)
             u    == [m EXCEPT ![tail] = EMPTY_CELL, ![next].type = "TAIL"]
             Goes == OfType(m, "TAIL") # {} /\ next \in Cells /\ s.remaining_growth = 0
  <2>1. TailMove(s) = IF Goes THEN [s EXCEPT !.map = u] ELSE s
    BY DEF TailMove, Snakes
  <2>2. ASSUME Goes PROVE tail \in Cells /\ u[tail] = EMPTY_CELL
    <3>1. m \in Maps /\ tail \in Cells /\ next \in Cells
      BY <2>2 DEF OfType, TailCell, Snakes
    <3>2. m[tail].direction \in Directions
      BY <3>1 DEF Maps
    <3>3. tail # next
      BY <3>1, <3>2 DEF Step, Cells, Directions
    <3> HIDE DEF m, tail, next
    <3> QED BY <3>1, <3>3 DEF Maps
  <2>3. \E e \in Cells : TailMove(s).map[e] = EMPTY_CELL
    <3> HIDE DEF u, tail, Goes
    <3> QED BY <2>1, <2>2 DEF Snakes
  <2>4. TailMove(s) \in Snakes
    BY TailMoves
  <2> QED BY <1>2, <2>3, <2>4, HeadHasTurn DEF Scan
<1> QED BY <1>1, <1>2

(* A living snake of few apples leaves a cell empty.                        *)
LEMMA RoomLeft ==
    ASSUME NEW s \in Snakes, Living(s), 4 * s.score + 4 < Cardinality(Cells)
    PROVE  \E c \in Cells : s.map[c] = EMPTY_CELL
<1>1. s.map \in Maps /\ s.score \in Nat /\ s.remaining_growth \in Nat /\ s.body_size \in Nat
  BY DEF Snakes
<1>2. PICK n \in Nat : \E p \in [0 .. n -> Cells] :
        /\ Path(s.map, p, n) /\ OneApple(s.map)
        /\ s.body_size - (n - 1) \in 0 .. s.score
        /\ s.body_size + s.remaining_growth = 1 + 4 * s.score
  BY DEF Living
<1>3. PICK p \in [0 .. n -> Cells] : Path(s.map, p, n) /\ OneApple(s.map)
  BY <1>2
<1>4. /\ SnakeCells(s.map) = {p[i] : i \in 0 .. n}
      /\ Cardinality(SnakeCells(s.map)) = n + 1
  BY <1>1, <1>3, PathWalked
<1>5. n + 1 <= 4 * s.score + 3
  BY <1>1, <1>2
<1>6. IsFiniteSet(SnakeCells(s.map))
  <2>1. SnakeCells(s.map) \in SUBSET Cells
    BY DEF SnakeCells
  <2> QED BY <2>1, CellsAre, FS_Subset
<1>7. PICK a \in Cells : \A c \in Cells : s.map[c].type = "APPLE" <=> c = a
  BY <1>3 DEF OneApple
<1>8. SUFFICES ASSUME \A c \in Cells : s.map[c] # EMPTY_CELL
               PROVE  FALSE
  OBVIOUS
<1>9. ASSUME NEW c \in Cells, c # a PROVE c \in SnakeCells(s.map)
  <2>1. s.map[c] # Apple
    BY <1>7, <1>9 DEF Apple, cell
  <2>2. PICK i \in 0 .. n : p[i] = c
    BY <1>3, <1>8, <1>9, <2>1 DEF Path
  <2> QED BY <1>4, <2>2
<1>10. Cells \subseteq SnakeCells(s.map) \cup {a}
  BY <1>9
<1>11. /\ IsFiniteSet(SnakeCells(s.map) \cup {a})
       /\ Cardinality(SnakeCells(s.map) \cup {a}) <= n + 2
  <2>1. /\ IsFiniteSet(SnakeCells(s.map) \cup {a})
        /\ Cardinality(SnakeCells(s.map) \cup {a}) =
             IF a \in SnakeCells(s.map) THEN Cardinality(SnakeCells(s.map))
                                        ELSE Cardinality(SnakeCells(s.map)) + 1
    BY <1>6, FS_AddElement
  <2> QED BY <1>4, <2>1
<1>12. Cardinality(Cells) <= Cardinality(SnakeCells(s.map) \cup {a})
  BY <1>10, <1>11, FS_Subset
<1>13. Cardinality(Cells) \in Nat /\ Cardinality(SnakeCells(s.map) \cup {a}) \in Nat
  BY <1>10, <1>11, FS_Subset, FS_CardinalityType
<1> QED BY <1>1, <1>5, <1>11, <1>12, <1>13

(* On a map of any size, spawn_apple ends while the snake cannot have       *)
(* filled it, if task_random did not start at 0.                            *)
THEOREM SpawnFindsRoomHolds == Spec => []SpawnFindsRoom
<1>1. ASSUME SnakeInv, playing, 4 * snake.score + 4 < Cardinality(Cells)
      PROVE  Scan(snake, "other") # {}
  <2>1. snake \in Snakes
    BY <1>1 DEF SnakeInv
  <2>2. CASE beheaded
    BY <1>1, <2>1, <2>2, HeadlessScans DEF SnakeInv, Headless
  <2>3. CASE ~beheaded
    <3>1. \E c \in Cells : snake.map[c] = EMPTY_CELL
      BY <1>1, <2>1, <2>3, RoomLeft DEF SnakeInv
    <3> QED BY <2>1, <3>1, SnakeHasTurn
  <2> QED BY <1>1, <2>2, <2>3 DEF SnakeInv
<1>2. SnakeInv => SpawnFindsRoom
  BY <1>1 DEF SpawnFindsRoom
<1> QED BY <1>2, InvHolds, PTL

(* Every turn of a beheaded snake brings it nearer to the end of the game   *)
(* (taskSnake.c, lines 198-207): it takes one from what body_size and       *)
(* remaining_growth are together, and body_size, which is unsigned, neither *)
(* grows nor passes zero; the head does not come back.                      *)
BeheadedShrinks ==
    [][snake_tick /\ beheaded =>
         /\ beheaded' /\ snake'.body_size \in 0 .. snake.body_size
         /\ snake'.body_size + snake'.remaining_growth
              = snake.body_size + snake.remaining_growth - 1]_vars

(* So it is in every game, on any map and after any number of apples: no    *)
(* game goes on for ever because body_size went past zero.                  *)
THEOREM BeheadedShrinksHolds == Spec => BeheadedShrinks
<1> DEFINE Shrinks ==
             snake_tick /\ beheaded =>
               /\ beheaded' /\ snake'.body_size \in 0 .. snake.body_size
               /\ snake'.body_size + snake'.remaining_growth
                    = snake.body_size + snake.remaining_growth - 1
<1>1. ASSUME SnakeInv, snake_tick, beheaded
      PROVE  /\ beheaded' /\ snake'.body_size \in 0 .. snake.body_size
             /\ snake'.body_size + snake'.remaining_growth
                  = snake.body_size + snake.remaining_growth - 1
  <2>1. snake \in Snakes /\ snake.body_size # 0 /\ Headless(snake.map)
    BY <1>1 DEF SnakeInv, snake_tick, GoesOn, Headless
  <2>2. \A seed \in Seeds : Scan(snake, seed) # {}
    BY <2>1, HeadlessScans
  <2>3. PICK t \in Scan(snake, "other") : \E u \in Steered(t) :
          snake' = Counters(u) /\ beheaded' = Headless(u.map)
    BY <1>1, <2>2 DEF snake_tick, Headless
  <2>4. PICK u \in Steered(t) : snake' = Counters(u) /\ beheaded' = Headless(u.map)
    BY <2>3
  <2>5. t \in Snakes /\ Headless(t.map) /\ SameCounts(snake, t)
    BY <2>1, ScanHeadless
  <2>6. u \in Snakes /\ Headless(u.map) /\ SameCounts(t, u)
    BY <2>5, SteeredKeeps
  <2>7. u.body_size = snake.body_size /\ u.remaining_growth = snake.remaining_growth
    BY <2>5, <2>6 DEF SameCounts
  <2>8. /\ snake' \in Snakes /\ snake'.body_size <= u.body_size
        /\ snake'.body_size + snake'.remaining_growth = u.body_size + u.remaining_growth - 1
    BY <2>1, <2>4, <2>6, <2>7, CountersKeep
  <2>9. snake'.body_size \in Nat /\ u.body_size \in Nat
    BY <2>6, <2>8 DEF Snakes
  <2>10. beheaded'
    BY <2>4, <2>6
  <2> QED BY <2>7, <2>8, <2>9, <2>10
<1>2. SnakeInv => Shrinks
  BY <1>1
<1> QED BY <1>2, InvHolds, PTL DEF BeheadedShrinks
=============================================================================
