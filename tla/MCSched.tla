------------------------------- MODULE MCSched -------------------------------
(***************************************************************************)
(* The scheduler with the four slots of task_defines.h and two selectors,  *)
(* so that two slots can hold the same or different ones.                  *)
(***************************************************************************)
EXTENDS SchedWaiting
==============================================================================
