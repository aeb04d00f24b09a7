----------------------------- MODULE MCKeyboard -----------------------------
(***************************************************************************)
(* For the flags: a letter and shift with print screen, which pretends     *)
(* shift, both shifts with print screen, which pretends only without them, *)
(* and a letter with the two keys whose code is 48.  For the terminal:     *)
(* letters with each kind of key that changes shift, the position or the   *)
(* screen, on a screen of two lines.                                       *)
(***************************************************************************)
EXTENDS Keyboard

Plain(code) == [code |-> code, extended |-> FALSE]
Extended(code) == [code |-> code, extended |-> TRUE]

RIGHT_SHIFT == Plain(\h36)
CAPS_LOCK == Plain(\h3A)

Use(routine, room, keys) == [routine |-> routine, room |-> room, keys |-> keys]

MCUses == {
    Use("tasks_input_process", 4, {Plain(\h1E), LEFT_SHIFT, PRINT_SCREEN}),
    Use("tasks_input_process", 4, {LEFT_SHIFT, RIGHT_SHIFT, PRINT_SCREEN}),
    Use("tasks_input_process", 4, {Plain(\h1E), Plain(\h48), Extended(\h48)}),
    Use("process_scancode", 1, {Plain(\h1E), LEFT_SHIFT, CAPS_LOCK}),
    Use("process_scancode", 1, {Plain(\h1E), Plain(\h4B), Plain(\h01)}),
    Use("process_scancode", 2, {Plain(\h1E), Extended(\h1C)}),
    Use("process_scancode", 4, {LEFT_SHIFT, PRINT_SCREEN}),
    Use("process_scancode", 1, {Plain(\h48), Plain(\h4D), Plain(\h50)})}
==============================================================================
