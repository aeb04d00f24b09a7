-------------------------------- MODULE Page --------------------------------
(***************************************************************************)
(* What a character terminal promises: a page of cells, one after the      *)
(* other, and a position that typing and the arrows move around it without *)
(* touching anything else.  There is no marker on the page.                *)
(***************************************************************************)
EXTENDS Integers

CONSTANTS
    SIZE, COLS,     \* cells of the page, cells of a line
    Letters(_),     \* what the keys print, with shift and without
    BLANK,
    NOTICE,         \* what is written in
    NoticeCells     \* these cells about a key that means nothing

VARIABLES page, pos, shift

(* The page holds what was on the screen, but for its first cell. *)
Init == page[0] = BLANK /\ pos = 0 /\ ~shift

Type == /\ \E c \in Letters(shift) : page' = [page EXCEPT ![pos] = c]
        /\ pos' = (pos + 1) % SIZE
        /\ UNCHANGED shift

Move(to) == pos' = to % SIZE /\ UNCHANGED <<page, shift>>

Shift == shift' = ~shift /\ UNCHANGED <<page, pos>>

(* A notice does not cover the cell of the position. *)
Notice == /\ page' = [p \in DOMAIN page |->
                        IF p \in NoticeCells \ {pos} THEN NOTICE ELSE page[p]]
          /\ UNCHANGED <<pos, shift>>

Next == \/ Type \/ Shift \/ Notice
        \/ \E d \in {-1, 1, -COLS, COLS} : Move(pos + d)
        \/ Move((pos \div COLS + 1) * COLS)

Spec == Init /\ [][Next]_<<page, pos, shift>>
==============================================================================
