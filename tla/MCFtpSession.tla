---------------------------- MODULE MCFtpSession ----------------------------
(***************************************************************************)
(* FtpSession on a small instance: a transfer on a first port, a second    *)
(* PASV, and a QUIT, in any order, from a client that waits for the        *)
(* greeting before it sends its first command (it may close before).       *)
(***************************************************************************)
EXTENDS FtpSession

WaitingNext == Next /\ (sent' # sent => Greeted)

WaitingSpec == Init /\ [][WaitingNext]_vars /\ Fairness
=============================================================================
