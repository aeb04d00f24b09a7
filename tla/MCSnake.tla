------------------------------ MODULE MCSnake ------------------------------
(***************************************************************************)
(* Snake on small boards; see the configurations.                          *)
(***************************************************************************)
EXTENDS Snake
=============================================================================
