---------------------------- MODULE FtpSession ----------------------------
(***************************************************************************)
(* One FtpSession as a whole: the control connection and the data          *)
(* connections, which command handlers and completion replies join.  Each  *)
(* part is the module of its name; a step of both is a step of each.       *)
(*                                                                         *)
(* ControlConnection leaves open when a transfer replies, DataConnection   *)
(* when commands come and replies are written.  Here both are what the     *)
(* other part does, and the session lives as long as either refers to it.  *)
(***************************************************************************)
EXTENDS Naturals, Sequences, FiniteSets

CONSTANTS MaxCommands, MaxTransfers, MaxPasv, MaxBacklog  \* bounds

ASSUME BoundsAssumption == /\ MaxCommands \in Nat
                           /\ MaxTransfers \in Nat
                           /\ MaxPasv \in Nat
                           /\ MaxBacklog \in Nat

VARIABLES
  input, sent, client, reading, command_strand, command_output_queue,
  writing, shutdown_requested, posted, wire,
  command, ipv6, pasvs, announced, data_acceptor, backlog, accepting,
  data_strand, kind, peer, port, data_socket, io, data_buffer, weak, replies,
  pipelined,
  command_socket,
  session  \* "starting", "alive", "destroyed" or "terminated"

controlVars == <<input, sent, client, reading, command_strand,
                 command_output_queue, writing, shutdown_requested, posted,
                 wire>>
dataVars == <<command, ipv6, pasvs, announced, data_acceptor, backlog,
              accepting, data_strand, kind, peer, port, data_socket, io,
              data_buffer, weak, replies, pipelined>>
vars == <<controlVars, dataVars, command_socket, session>>

Data == INSTANCE DataConnection WITH
  strand  <- data_strand,
  session <- IF session = "starting" THEN "alive" ELSE session

(***************************************************************************)
(* The transfers that got their 150 and may still post a reply: an accept, *)
(* a handler or an operation is theirs.                                    *)
(***************************************************************************)
InHand(t) == \/ \E i \in DOMAIN accepting : accepting[i] = t
             \/ \E i \in DOMAIN data_strand : data_strand[i].t = t
             \/ io[t] # "none"

Greeted == \E i \in DOMAIN posted : posted[i] = "220"

Control == INSTANCE ControlConnection WITH
  strand    <- command_strand,
  socket    <- IF command_socket = "closed" THEN "closed" ELSE "open",
  transfers <- Cardinality({t \in Data!Transfers :
                              Data!Unanswered(t) /\ InHand(t)}),
  session   <- IF session = "terminated"
               THEN IF Greeted THEN "alive" ELSE "starting"
               ELSE session

Init == /\ session = "starting"
        /\ Data!Init
        /\ Control!Init

-----------------------------------------------------------------------------
(* Steps of the control connection. *)

Terminated == session = "terminated"

DataUnchanged    == UNCHANGED <<dataVars, command_socket, session>>
ControlUnchanged == UNCHANGED <<controlVars, session>>

Greet ==
  /\ session = "starting"
  /\ session' = "alive"
  /\ UNCHANGED <<dataVars, command_socket>>
  /\ Control!Greet

\* Commands of a kind that wait, run or were answered by a reply with the code.
Requests(c, code) ==
  Cardinality({i \in DOMAIN input : input[i] = c})
  + Cardinality({i \in DOMAIN command_strand : command_strand[i].run = c})
  + Cardinality({i \in DOMAIN posted : posted[i] = code})

\* One command waits unread (a bound: the server reads one at a time anyway).
Client ==
  /\ ~Terminated
  /\ DataUnchanged
  /\ \/ /\ input = <<>>
        /\ \/ Requests("NOOP", "200") < MaxPasv /\ Control!ClientSends("NOOP")
           \/ /\ Requests("RETR", "150") < MaxTransfers
              /\ Control!ClientSends("RETR")
           \/ Control!ClientSends("QUIT")
     \/ Control!ClientCloses

\* The client's end answers with a reset, at any time after it closed.
ClientResets ==
  /\ client = "closed"
  /\ ControlUnchanged
  /\ Data!ClientResets

Reading ==
  /\ ~Terminated
  /\ DataUnchanged
  /\ Control!ReadCompletes \/ Control!ReadFails

\* A write to a peer that closed fails once the peer has answered with a reset.
Writing ==
  /\ ~Terminated
  /\ \/ DataUnchanged /\ Control!WriteCompletes
     \/ /\ IF command_socket = "open"
           THEN UNCHANGED session /\ Data!ClientResets
           ELSE DataUnchanged
        /\ Control!WriteFails

Replies ==
  \/ DataUnchanged /\ (Control!StartReading \/ Control!PushReply
                         \/ Control!WriteError)
  \/ /\ IF Control!CloseAfterQuit
        THEN UNCHANGED session /\ Data!CloseCommandSocket
        ELSE DataUnchanged
     /\ Control!Written

-----------------------------------------------------------------------------
(***************************************************************************)
(* Command handlers.  Of the commands with one reply, NOOP, the one that   *)
(* concerns the data connections is PASV.  While a handler is under way it *)
(* stays at the head of the command strand.                                *)
(***************************************************************************)
PasvUnderWay ==
  /\ Control!First("NOOP")
  /\ ControlUnchanged
  /\ Data!PasvOpen \/ Data!PasvBind \/ Data!PasvListen

PasvReplies ==
  /\ UNCHANGED session
  /\ Data!PasvFail \/ Data!PasvAnnounce
  /\ Control!HandleCommand

PasvTerminate ==
  /\ session' = "terminated"
  /\ Data!PasvTerminate
  /\ UNCHANGED controlVars

CheckTransfer ==
  /\ Control!First("RETR")
  /\ ControlUnchanged
  /\ \E k \in Data!Kinds : Data!TransferChecked(k)

HandleTransfer ==
  /\ UNCHANGED session
  /\ Data!AcceptDataConnection
  /\ Control!HandleTransfer

HandleQuit ==
  /\ UNCHANGED session
  /\ Data!Quit
  /\ Control!HandleQuit

ReadErrorHandler ==
  /\ UNCHANGED session
  /\ Data!CommandReadError
  /\ Control!ReadErrorHandler

-----------------------------------------------------------------------------
(* Steps of the data connections, and the replies they post. *)

TransferEnds ==
  /\ Control!SendFtpMessage(command_strand, "226")
  /\ UNCHANGED <<input, sent, client, reading, command_output_queue, writing,
                 shutdown_requested, wire, session>>
  /\ \/ Data!AcceptFailed \/ Data!Rejected \/ Data!SendEmptyFile
     \/ Data!EndOfListing \/ Data!EndDataReceiving
     \/ \E t \in Data!Transfers : Data!SendFileHandler(t)

TransferRuns ==
  /\ ControlUnchanged
  /\ \/ Data!SendFile \/ Data!ReceiveFile \/ Data!SendDirectoryListing
     \/ Data!AddDataToBufferAndSend \/ Data!WriteDataToSocket
     \/ Data!ListingWritten \/ Data!ReceivedChunk \/ Data!ReceivedLast
     \/ Data!CloseNewestDataSocket

\* By the client; foreign peers are those of DataConnection.
Connect == ControlUnchanged /\ Data!Connect("client")

AcceptCompletes ==
  /\ ControlUnchanged
  /\ \/ Data!AcceptCompletes
     \/ \E t \in Data!Transfers : Data!AcceptPosted(t)

\* Nothing obliges the system to do so: it is not part of Server.
AcceptErrs == ControlUnchanged /\ Data!AcceptErrs

DataIO(t) ==
  /\ ControlUnchanged
  /\ \/ Data!SendCompletes(t) \/ Data!ListingWriteCompletes(t)
     \/ Data!ReceiveCompletes(t, TRUE)

ReceiveEnds(t) == ControlUnchanged /\ Data!ReceiveCompletes(t, FALSE)

-----------------------------------------------------------------------------
\* Faulty variants: what belongs to one of the strands holds no shared_ptr.
UnreferencedByControl == command_strand = <<>> /\ ~reading /\ ~writing

UnreferencedByData ==
  /\ data_strand = <<>> /\ accepting = <<>>
  /\ \A t \in Data!Transfers : io[t] = "none"

Unreferenced ==
  /\ command_strand = <<>> /\ ~reading /\ ~writing
  /\ data_strand = <<>> /\ accepting = <<>>
  /\ \A t \in Data!Transfers : io[t] = "none"

Destroy ==
  /\ session = "alive"
  /\ Unreferenced
  /\ session' = "destroyed"
  /\ command_socket' = "closed"
  /\ Data!CloseDataAcceptor
  /\ UNCHANGED <<controlVars, command, ipv6, pasvs, announced, data_strand,
                 kind, peer, port, data_socket, io, data_buffer, weak, replies,
                 pipelined>>

CommandStrand ==
  /\ ~Terminated
  /\ \/ Replies \/ PasvUnderWay \/ PasvReplies \/ PasvTerminate
     \/ CheckTransfer \/ HandleTransfer \/ HandleQuit \/ ReadErrorHandler

DataStrand == TransferEnds \/ TransferRuns

Server ==
  \/ Greet \/ Reading \/ Writing \/ CommandStrand \/ DataStrand
  \/ AcceptCompletes
  \/ \E t \in Data!Transfers : DataIO(t) \/ ReceiveEnds(t)
  \/ Destroy

Next == Server \/ Client \/ ClientResets \/ Connect \/ AcceptErrs

Spec == Init /\ [][Next]_vars

(***************************************************************************)
(* Fairness.  No more is needed than that the server does something as     *)
(* long as it can, and that no client sends an upload for ever.            *)
(***************************************************************************)
Fairness == /\ WF_vars(Server)
            /\ \A t \in Data!Transfers : SF_vars(ReceiveEnds(t))

FairSpec == Spec /\ Fairness

-----------------------------------------------------------------------------
(***************************************************************************)
(* Properties.                                                             *)
(***************************************************************************)

(***************************************************************************)
(* What each part assumes of the other is what the other does: a transfer  *)
(* posts at most one completion reply, after its 150; the command socket   *)
(* is closed only after a QUIT; and the session is destroyed only when the *)
(* command connection has ended in one of the ways the data connections    *)
(* know, and no transfer may reply any more.                               *)
(***************************************************************************)
ControlSpec == Control!Spec
DataSpec    == Data!Spec

(***************************************************************************)
(* A session that is destroyed owes its client nothing: every file         *)
(* transfer it began has posted its completion reply, and every reply that *)
(* was posted has been sent or is queued behind one that could not be.     *)
(***************************************************************************)
NothingOwed ==
  session = "destroyed" =>
    /\ \A t \in 1 .. Len(kind) :
          kind[t] \in Data!FileKinds => ~Data!Unanswered(t)
    /\ Len(posted) = Len(wire) + Len(command_output_queue)

(***************************************************************************)
(* When the client is gone the session is destroyed, whatever commands,    *)
(* transfers and accepts were under way: unless it said QUIT before, which *)
(* may leave an accept waiting (EndDestroysSession of DataConnection), or  *)
(* the server terminated.                                                  *)
(***************************************************************************)
GoneDestroysSession ==
  client = "closed" ~> \/ session \in {"destroyed", "terminated"}
                       \/ shutdown_requested
=============================================================================
