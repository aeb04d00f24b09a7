-------------------------------- MODULE MCA20 --------------------------------
(***************************************************************************)
(* A20 with the line left open or closed by the firmware.                  *)
(***************************************************************************)
EXTENDS A20
==============================================================================
