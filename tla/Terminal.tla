------------------------------ MODULE Terminal ------------------------------
(***************************************************************************)
(* The character terminal of keyboard_input.c: what process_scancode makes *)
(* of each byte of the keyboard.  A character is the key that prints it    *)
(* and whether shift is on; colours are left out.                          *)
(***************************************************************************)
EXTENDS Integers

CONSTANTS VIDEO_FILS, VIDEO_COLS

ASSUME ScreenAssumption ==
    VIDEO_FILS \in Nat \ {0, 1} /\ VIDEO_COLS \in Nat \ {0, 1}

VARIABLE term   \* the screen, curr_row, curr_column, is_shift_pressed, under_marker

Cells == (0 .. VIDEO_FILS - 1) \X (0 .. VIDEO_COLS - 1)

Printable == \h02 .. \h0D \cup \h10 .. \h1B \cup \h1E .. \h29 \cup \h2B .. \h35 \cup {\h39}

SPACE == \h39

(* main_value or special_value of a key that prints; the space bar prints  *)
(* the same with shift.                                                    *)
Char(scancode, shift) == <<"char", scancode, shift /\ scancode # SPACE>>

BLANK  == Char(SPACE, FALSE)
MARKER == <<"marker">>
NOTICE == <<"hex digit">>
BOOT   == <<"boot message">>

(* Mutant: a step over the end of a line stays in the line. *)
fix_rowcol_same_row(t) == [t EXCEPT !.curr_column = @ % VIDEO_COLS,
                                    !.curr_row = @ % VIDEO_FILS]

fix_rowcol(t) ==
    LET column == t.curr_column % VIDEO_COLS
    IN  [t EXCEPT !.curr_column = column,
                  !.curr_row = (@ + (t.curr_column - column) \div VIDEO_COLS) % VIDEO_FILS]

Here(t) == <<t.curr_row, t.curr_column>>

put(t, c) == [t EXCEPT !.screen[Here(t)] = c]

put_marker(t) == [t EXCEPT !.under_marker = t.screen[Here(t)],
                           !.screen[Here(t)] = MARKER]

(* Mutant: the marker stays where it was. *)
restore_marker_forgotten(t) == t

restore_marker(t) == put(t, t.under_marker)

(* Two hex digits near the middle of the screen, for a key that is pressed. *)
NoticeCells == {<<VIDEO_FILS \div 2, VIDEO_COLS \div 2 - 1>>,
                <<VIDEO_FILS \div 2, VIDEO_COLS \div 2>>}

unrecognized_scancode(t, scancode) ==
    IF scancode >= \h80 THEN t
    ELSE [t EXCEPT !.screen = [cell \in Cells |->
                                 IF cell \in NoticeCells THEN NOTICE ELSE @[cell]]]

(* move_down, move_up, move_left, move_right and new_line. *)
MoveTo(t, row, column) ==
    put_marker(fix_rowcol([restore_marker(t) EXCEPT !.curr_row = row,
                                                    !.curr_column = column]))

(* Left shift pressed, left shift released, caps lock pressed. *)
TogglesShift == {\h2A, \hAA, \h3A}

special_scancodes(t, scancode) ==
    CASE scancode \in TogglesShift -> [t EXCEPT !.is_shift_pressed = ~@]
      [] scancode = \h50           -> MoveTo(t, t.curr_row + 1, t.curr_column)
      [] scancode = \h48           -> MoveTo(t, t.curr_row - 1, t.curr_column)
      [] scancode \in {\h0E, \h4B} -> MoveTo(t, t.curr_row, t.curr_column - 1)
      [] scancode = \h4D           -> MoveTo(t, t.curr_row, t.curr_column + 1)
      [] scancode = \h1C           -> MoveTo(t, t.curr_row + 1, 0)
      [] OTHER                     -> unrecognized_scancode(t, scancode)

process_scancode(scancode) ==
    term' = IF scancode \in Printable
              THEN put_marker(fix_rowcol(
                     [put(term, Char(scancode, term.is_shift_pressed))
                        EXCEPT !.curr_column = @ + 1]))
              ELSE special_scancodes(term, scancode)

(* No marker has been put, and a blank is taken to be under it. *)
TerminalInit ==
    term = [screen |-> [cell \in Cells |-> BOOT], curr_row |-> 0, curr_column |-> 0,
            is_shift_pressed |-> FALSE, under_marker |-> BLANK]

-----------------------------------------------------------------------------
(* Properties *)

(* The page is what is on the screen, with what is under the marker in its *)
(* place; the cells are counted row by row.                                *)
PageOf(t) == [p \in 0 .. VIDEO_FILS * VIDEO_COLS - 1 |->
                LET cell == <<p \div VIDEO_COLS, p % VIDEO_COLS>>
                IN  IF cell = Here(t) THEN t.under_marker ELSE t.screen[cell]]

Letters(shift) == {Char(s, shift) : s \in Printable}

P == INSTANCE Page WITH
       SIZE <- VIDEO_FILS * VIDEO_COLS, COLS <- VIDEO_COLS,
       Letters <- Letters,
       NoticeCells <- {c[1] * VIDEO_COLS + c[2] : c \in NoticeCells},
       page <- PageOf(term),
       pos <- term.curr_row * VIDEO_COLS + term.curr_column,
       shift <- term.is_shift_pressed

(* Whatever is typed, the terminal is a page: a key changes the cell of    *)
(* the position or moves the position, around the edges too, and the       *)
(* marker that is drawn over the text and taken away costs no letter       *)
(* (keyboard_input.c, lines 170-194).                                      *)
ImplementsPage == P!Spec

(* Once the cursor has left the first cell the marker is where it is, and  *)
(* only there.  The digits that report an unknown key may cover it.        *)
MarkerAtCursor ==
    /\ \A cell \in Cells \ {Here(term)} : term.screen[cell] # MARKER
    /\ Here(term) # <<0, 0>> => term.screen[Here(term)] \in {MARKER, NOTICE}
==============================================================================
