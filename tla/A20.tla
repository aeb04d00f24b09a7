--------------------------------- MODULE A20 ---------------------------------
(***************************************************************************)
(* The real-mode start of the kernel (kernel.asm, lines 58-98) and the     *)
(* routines of a20.asm: A20_check looks whether the address line A20 is    *)
(* open, and A20_enable is to open it when it is not.                      *)
(*                                                                         *)
(* The test writes two bytes that are one and the same while the line is   *)
(* closed: low is at 0:0500, high at FFFF:0510, one megabyte above it.     *)
(* Of the flags only ZF is looked at.                                      *)
(***************************************************************************)
EXTENDS Integers

CONSTANTS
    Bytes,         \* what the two bytes may hold, 0 and 255 among it
    LeftOpen       \* how the firmware may leave the line

VARIABLES
    at,            \* the next instructions
    open,          \* the line A20
    mem, saved,    \* the bytes, and what A20_check has pushed of them
    zf, ax,
    message        \* what A20_check printed

vars == <<at, open, mem, saved, zf, ax, message>>

Init ==
    /\ at = "start"
    /\ open \in LeftOpen
    /\ mem \in [{"low", "high"} -> Bytes] /\ saved = mem
    /\ zf \in BOOLEAN /\ ax = 0
    /\ message = ""

(* Where high is. *)
High == IF open THEN "high" ELSE "low"

start ==
    /\ at = "start"
    /\ at' = "write"
    /\ UNCHANGED <<open, mem, saved, zf, ax, message>>

(* REAL_MODE_PRINT ends with "inc di", on an address that is not the last   *)
(* of a segment, and with instructions that leave the flags alone.          *)
REAL_MODE_PRINT(text) == message' = text /\ zf' = FALSE

WriteBytes ==
    /\ at = "write"
    /\ saved' = [low |-> mem["low"], high |-> mem[High]]
    /\ mem' = [mem EXCEPT !["low"] = IF open THEN 0 ELSE 255,
                          !["high"] = IF open THEN 255 ELSE @]
    /\ at' = "compare"
    /\ UNCHANGED <<open, zf, ax, message>>

(* The byte is compared, and the outcome printed. *)
Compare ==
    /\ at = "compare"
    /\ REAL_MODE_PRINT(IF mem["low"] = 255 THEN "OFF!" ELSE "OK!")
    /\ at' = "restore"
    /\ UNCHANGED <<open, mem, saved, ax>>

(* The bytes get back what they held, high first; neither pop nor mov       *)
(* changes the flags that je then looks at.                                 *)
RestoreBytes ==
    /\ at = "restore"
    /\ mem' = [mem EXCEPT !["high"] = IF open THEN saved.high ELSE @,
                          !["low"] = saved.low]
    /\ ax' = IF zf THEN 0 ELSE 1
    /\ at' = "checked"
    /\ UNCHANGED <<open, saved, zf, message>>

(* The caller skips A20_enable when ax is 1.                                *)
Checked ==
    /\ at = "checked"
    /\ at' = IF ax = 1 THEN "protected" ELSE "enable"
    /\ UNCHANGED <<open, mem, saved, zf, ax, message>>

(* The dialogue with the keyboard controller; interrupts are off.           *)
A20_enable ==
    /\ at = "enable"
    /\ open' = TRUE
    /\ at' = "protected"
    /\ UNCHANGED <<mem, saved, zf, ax, message>>

(* Protected mode: from here on addresses above one megabyte are used.      *)
modo_protegido == at = "protected" /\ UNCHANGED vars

Next == \/ start \/ WriteBytes \/ Compare \/ RestoreBytes \/ Checked
        \/ A20_enable \/ modo_protegido

Spec == Init /\ [][Next]_vars /\ WF_vars(Next)

-----------------------------------------------------------------------------
(* kernel.asm, line 77: "Habilitar A20".  Whatever the firmware left, the   *)
(* line is open in protected mode, where the pages of the pools (mmu.c,     *)
(* lines 20-21) lie above one megabyte.                                     *)
A20Open == at = "protected" => open
==============================================================================
