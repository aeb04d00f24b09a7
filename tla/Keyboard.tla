------------------------------ MODULE Keyboard ------------------------------
(***************************************************************************)
(* The keyboard, byte by byte: what it sends when keys are pressed, held   *)
(* and released, and what the interrupt handler makes of each byte.        *)
(* _isr33 calls tasks_input_process (tasks.c), which keeps a flag for each *)
(* key in the shared page; in the exercise that 02_interrupciones.md asks  *)
(* for it called process_scancode, which is still linked.  A behaviour     *)
(* has one of the two.                                                     *)
(***************************************************************************)
EXTENDS Terminal, Sequences

CONSTANTS
    Uses,       \* the routine, the keys that are used, how many bytes may wait
    BootFlags   \* what the flags may be at power on: nobody clears the page

Routines == {"tasks_input_process", "process_scancode"}

LAST_FIELD == \h58    \* f12, the last field of struct keyboard_state

PRINT_SCREEN == [code |-> \h37, extended |-> TRUE]

(* No key sends the code of left shift after the prefix, but print screen,  *)
(* which is another key.  With alt (38) print screen is yet another, SysRq: *)
(* it is not used with alt here.                                            *)
ASSUME KeysAssumption ==
    /\ BootFlags \subseteq BOOLEAN
    /\ \A u \in Uses :
          /\ u.routine \in Routines
          /\ u.keys \subseteq [code : 1 .. LAST_FIELD, extended : BOOLEAN]
          /\ \A k \in u.keys : k.extended => k.code # \h2A
          /\ PRINT_SCREEN \in u.keys => \A k \in u.keys : k.code # \h38
          /\ u.room \in Nat

VARIABLES
    use,       \* which of Uses this is
    held,      \* the keys that are held down
    last,      \* the key that repeats while it is held
    wire,      \* bytes sent and not yet read
    keyboard,  \* the flags in the shared page, and the bytes behind them
    written,   \* history: the flags that have been written
    pretended  \* history: print screen pretended shift, and nothing took it back

device_vars == <<held, last, wire>>
vars == <<term, use, device_vars, keyboard, written, pretended>>

LEFT_SHIFT == [code |-> \h2A, extended |-> FALSE]

(* A shift key or a control key is held. *)
Modified == \E k \in held : k.code \in {\h2A, \h36, \h1D}

(* Print screen without them pretends that left shift is held.              *)
Pretends(k) == k = PRINT_SCREEN /\ ~Modified

(* What a key sends: its code, after E0 if it is an extended key; the       *)
(* release has bit 7 set.                                                   *)
Code(k) == IF k.extended THEN <<\hE0, k.code>> ELSE <<k.code>>

Make(k) == IF Pretends(k) THEN <<\hE0, \h2A>> \o Code(k) ELSE Code(k)

Break(k) ==
    LET code == IF k.extended THEN <<\hE0, k.code + \h80>> ELSE <<k.code + \h80>>
    IN  IF Pretends(k) THEN code \o <<\hE0, \hAA>> ELSE code

(* The codes that a key may send. *)
Codes(k) == {k.code} \cup IF k = PRINT_SCREEN THEN {\h2A} ELSE {}

NoKey == [code |-> 0, extended |-> FALSE]

Init ==
    /\ TerminalInit
    /\ use \in Uses
    /\ held = {} /\ last = NoKey /\ wire = <<>>
    /\ \E b \in BootFlags : keyboard = [i \in 0 .. \h7F |-> b]
    /\ written = {} /\ pretended = FALSE

-----------------------------------------------------------------------------
(* The device *)

Send(bytes) == /\ Len(wire) + Len(bytes) <= use.room
               /\ wire' = wire \o bytes

Press(k) ==
    /\ k \notin held
    /\ Send(Make(k))
    /\ held' = held \cup {k} /\ last' = k
    /\ pretended' = (pretended \/ Pretends(k))
    /\ UNCHANGED <<term, use, keyboard, written>>

(* A keyboard repeats the code of the key alone, QEMU all that it sends.    *)
Repeat ==
    /\ last \in held
    /\ \/ Send(Code(last)) /\ UNCHANGED pretended
       \/ Send(Make(last)) /\ pretended' = (pretended \/ Pretends(last))
    /\ UNCHANGED <<term, use, held, last, keyboard, written>>

Release(k) ==
    /\ k \in held
    /\ Send(Break(k))
    /\ held' = held \ {k}
    /\ last' = IF last = k THEN NoKey ELSE last
    /\ pretended' = (pretended /\ k # LEFT_SHIFT /\ ~Pretends(k))
    /\ UNCHANGED <<term, use, keyboard, written>>

-----------------------------------------------------------------------------
(* The handler *)

(* Mutant: the byte is stored whatever bit 7 says. *)
IsPressAlways(scancode) == TRUE

IsPress(scancode) == scancode < \h80

(* Mutant: bit 7 is not taken off the index. *)
KeyOfPressOnly(scancode) == IF scancode < \h80 THEN scancode ELSE 0

KeyOf(scancode) == scancode % \h80

tasks_input_process(scancode) ==
    /\ keyboard' = [keyboard EXCEPT ![KeyOf(scancode)] = IsPress(scancode)]
    /\ written' = written \cup {KeyOf(scancode)}

isr33 ==
    /\ wire # <<>>
    /\ wire' = Tail(wire)
    /\ \/ /\ use.routine = "tasks_input_process"
          /\ tasks_input_process(Head(wire))
          /\ UNCHANGED term
       \/ /\ use.routine = "process_scancode"
          /\ process_scancode(Head(wire))
          /\ UNCHANGED <<keyboard, written>>
    /\ UNCHANGED <<use, held, last, pretended>>

Next == \/ \E k \in use.keys : Press(k) \/ Release(k)
        \/ Repeat \/ isr33

(* Bytes that wait are read: ScancodesRead of Kernel.  Keys need not be     *)
(* pressed, repeated or released.                                           *)
Spec == Init /\ [][Next]_vars /\ WF_vars(isr33)

-----------------------------------------------------------------------------
(* Properties *)

(* The key that alone sends its code; 48 is up, on the arrows and on the    *)
(* keypad, and 2A is left shift and the shift of print screen.              *)
Alone(k) == \A other \in use.keys \ {k} : k.code \notin Codes(other)

(* With nothing on the wire, a flag that has been written is set only while *)
(* the key of its code is held, and is set if that key is the only one that *)
(* sends the code; the one flag that may be set without its key is that of  *)
(* left shift, when print screen pretended it and nothing took it back.  So *)
(* it is in whatever order two keys of one code are pressed, repeated and   *)
(* released; and a prefix sets no byte behind the fields (tasks.c, 182).    *)
FlagsFollowKeys ==
    use.routine = "tasks_input_process" /\ wire = <<>> =>
      /\ \A i \in written : keyboard[i] =>
            (\E k \in held : k.code = i) \/ (i = \h2A /\ pretended)
      /\ \A k \in held : Alone(k) => keyboard[k.code]

(* A key that is held, or let go, for long enough is seen to be, however    *)
(* much the others send.                                                    *)
FlagsCatchUp ==
    \A k \in UNION {u.keys : u \in Uses} :
      use.routine = "tasks_input_process" /\ k \in use.keys /\ Alone(k) =>
        /\ <>[](k \in held) => <>[](keyboard[k.code])
        /\ <>(k \in held) /\ <>[](k \notin held) => <>[](~keyboard[k.code])

(* What FlagsCatchUp rests on.  A release of the code c is among the bytes  *)
(* of w from the a-th to the b-th.                                          *)
ReleasedIn(w, c, a, b) == \E i \in a .. b : KeyOf(w[i]) = c /\ ~IsPress(w[i])

(* What n bytes of w make of a flag: it is set if it was, or if one of them *)
(* sets it, and none clears it after.                                       *)
FlagOf(flag, w, c, n) ==
    \/ flag /\ ~ReleasedIn(w, c, 1, n)
    \/ \E j \in 1 .. n : /\ KeyOf(w[j]) = c /\ IsPress(w[j])
                         /\ ~ReleasedIn(w, c, j, n)

FlagAfter(c, n) == FlagOf(keyboard[c], wire, c, n)

(* After n more bytes the flag is right, and what else waits leaves it so.  *)
CaughtUpAfter(k, n) == \A m \in n .. Len(wire) : FlagAfter(k.code, m) <=> k \in held

Heard(c) == c \in written \/ \E j \in 1 .. Len(wire) : KeyOf(wire[j]) = c

(* The wire always holds what makes a flag right: once the last byte has    *)
(* been read, a key that sends its code alone and was ever pressed is seen  *)
(* as it is (tasks.c, lines 178-183).                                       *)
FlagsInSight ==
    use.routine = "tasks_input_process" =>
      \A k \in use.keys : Alone(k) =>
         /\ k \in held => Heard(k.code)
         /\ Heard(k.code) => CaughtUpAfter(k, Len(wire))

(* While a key is held, or let go, each byte that is read brings its flag   *)
(* one byte nearer to being right, and no other key, no repeat and no       *)
(* prefix takes it further away or makes it wrong again.                    *)
FlagsNearer ==
    [][use.routine = "tasks_input_process" =>
         \A k \in use.keys : Alone(k) /\ (k \in held <=> k \in held') =>
            \A n \in 0 .. Len(wire) : CaughtUpAfter(k, n) =>
               /\ CaughtUpAfter(k, n)'
               /\ Len(wire') < Len(wire) /\ n > 0 => CaughtUpAfter(k, n - 1)']_vars
=============================================================================
