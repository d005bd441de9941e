----------------------------- MODULE ReplyStream -----------------------------
(***************************************************************************)
(* What the control connection promises of replies: they reach the client  *)
(* in the order in which the session posted them, each at most once and    *)
(* none left out in between.  A connection that ends may cut the stream.   *)
(***************************************************************************)
EXTENDS Naturals, Sequences

CONSTANT Codes \* reply codes

VARIABLES posted,   \* every reply passed to sendFtpMessage, in order
          delivered \* every reply the client was sent, in order

Init == /\ posted = <<>>
        /\ delivered = <<>>

Post == /\ \E c \in Codes : posted' = Append(posted, c)
        /\ UNCHANGED delivered

Deliver == /\ Len(delivered) < Len(posted)
           /\ delivered' = Append(delivered, posted[Len(delivered) + 1])
           /\ UNCHANGED posted

Next == Post \/ Deliver

Spec == Init /\ [][Next]_<<posted, delivered>>
=============================================================================
