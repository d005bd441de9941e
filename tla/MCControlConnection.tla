------------------------- MODULE MCControlConnection -------------------------
(***************************************************************************)
(* ControlConnection on a small instance.                                  *)
(***************************************************************************)
EXTENDS ControlConnection
=============================================================================
