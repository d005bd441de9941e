-------------------------- MODULE MCDataConnection --------------------------
(***************************************************************************)
(* DataConnection on small instances: enough transfers, PASV commands and  *)
(* waiting connections for two transfers to overlap on one port, and for   *)
(* a late accept handler to meet a later PASV.                             *)
(***************************************************************************)
EXTENDS DataConnection
=============================================================================
