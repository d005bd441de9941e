----------------------------- MODULE MCFtpServer -----------------------------
(***************************************************************************)
(* FtpServer for TLC: the cfg files give the bounds, and the constants'    *)
(* assumptions are evaluated.                                              *)
(***************************************************************************)
EXTENDS FtpServer
=============================================================================
