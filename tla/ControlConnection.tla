-------------------------- MODULE ControlConnection --------------------------
(***************************************************************************)
(* The control connection of one FtpSession (ftp_session.cpp:94-291): the  *)
(* loop that reads one command after the other, the queue of replies and   *)
(* its one asynchronous write, QUIT, and the end of the session.           *)
(*                                                                         *)
(* The handlers posted to command_strand_ wait in `strand` and run one at  *)
(* a time, in order.  Replies are posted by command handlers, which run on *)
(* this strand, and by transfers, which run on another (DataConnection).   *)
(***************************************************************************)
EXTENDS Naturals, Sequences

CONSTANT MaxCommands \* bound: commands the client sends

ASSUME MaxCommandsAssumption == MaxCommands \in Nat

(***************************************************************************)
(* NOOP stands for every command answered by one reply (a refused or       *)
(* unrecognized one too), RETR for those answered by a 150 and, later, a   *)
(* completion reply.                                                       *)
(***************************************************************************)
Commands == {"NOOP", "RETR", "QUIT"}
Codes    == {"220", "200", "150", "226", "221"}

(***************************************************************************)
(* A handler posted to command_strand_: readFtpCommand as posted by start, *)
(* the lambda of a read that got the named command or failed, the lambda   *)
(* of sendRawFtpMessage with the number of its reply, and the lambda of a  *)
(* write that succeeded or failed.                                         *)
(***************************************************************************)
ReadLambdas == Commands \cup {"readerror"}
Lambdas     == ReadLambdas \cup {"start", "push", "written", "writeerror"}
Handlers    == [run : Lambdas, n : Nat]

VARIABLES
  input,                \* commands sent by the client and not yet read
  sent,                 \* how many commands it sent
  client,               \* the client's end: "open" or "closed"
  reading,              \* an async_read_until is pending
  strand,               \* the handlers posted to command_strand_
  command_output_queue, \* command_output_queue_: numbers of replies
  writing,              \* an async_write of its front is pending
  shutdown_requested,   \* shutdown_requested_
  socket,               \* command_socket_: "open" or "closed"
  transfers,            \* transfers under way: each may post one more reply
  posted,               \* the replies passed to sendRawFtpMessage, in order
  wire,                 \* the numbers of those sent to the client, in order
  session               \* "starting", "alive" or "destroyed"

clientVars == <<input, sent, client>>
writeVars  == <<command_output_queue, writing, wire>>
vars == <<clientVars, writeVars, reading, strand, shutdown_requested, socket,
          transfers, posted, session>>

-----------------------------------------------------------------------------
Handler(run, n) == [run |-> run, n |-> n]

First(run) == strand # <<>> /\ Head(strand).run = run

\* sendFtpMessage from where the handlers left to run are s.
SendFtpMessage(s, code) ==
  /\ posted' = Append(posted, code)
  /\ strand' = Append(s, Handler("push", Len(posted) + 1))

TypeOK ==
  /\ input \in Seq(Commands)
  /\ sent \in 0 .. MaxCommands
  /\ client \in {"open", "closed"}
  /\ reading \in BOOLEAN
  /\ strand \in Seq(Handlers)
  /\ command_output_queue \in Seq(Nat)
  /\ writing \in BOOLEAN
  /\ shutdown_requested \in BOOLEAN
  /\ socket \in {"open", "closed"}
  /\ transfers \in Nat
  /\ posted \in Seq(Codes)
  /\ wire \in Seq(Nat)
  /\ session \in {"starting", "alive", "destroyed"}

\* start() has posted the first read; the greeting comes next.
Init ==
  /\ input = <<>>
  /\ sent = 0
  /\ client = "open"
  /\ reading = FALSE
  /\ strand = <<Handler("start", 0)>>
  /\ command_output_queue = <<>>
  /\ writing = FALSE
  /\ shutdown_requested = FALSE
  /\ socket = "open"
  /\ transfers = 0
  /\ posted = <<>>
  /\ wire = <<>>
  /\ session = "starting"

-----------------------------------------------------------------------------
(***************************************************************************)
(* The rest of start(), on a thread of its own: the posted read may get    *)
(* there first, and be answered first.                                     *)
(***************************************************************************)
Greet ==
  /\ session = "starting"
  /\ session' = "alive"
  /\ SendFtpMessage(strand, "220")
  /\ UNCHANGED <<clientVars, writeVars, reading, shutdown_requested, socket,
                 transfers>>

(***************************************************************************)
(* The client.                                                             *)
(***************************************************************************)
ClientSends(c) ==
  /\ client = "open"
  /\ sent < MaxCommands
  /\ sent' = sent + 1
  /\ input' = Append(input, c)
  /\ UNCHANGED <<client, writeVars, reading, strand, shutdown_requested,
                 socket, transfers, posted, session>>

ClientCloses ==
  /\ client = "open"
  /\ client' = "closed"
  /\ UNCHANGED <<input, sent, writeVars, reading, strand, shutdown_requested,
                 socket, transfers, posted, session>>

-----------------------------------------------------------------------------
(***************************************************************************)
(* readFtpCommand and handleFtpCommand.                                    *)
(***************************************************************************)
StartReading ==
  /\ First("start")
  /\ strand' = Tail(strand)
  /\ reading' = TRUE
  /\ UNCHANGED <<clientVars, writeVars, shutdown_requested, socket, transfers,
                 posted, session>>

ReadCompletes ==
  /\ reading
  /\ input # <<>>
  /\ reading' = FALSE
  /\ input' = Tail(input)
  /\ strand' = Append(strand, Handler(Head(input), 0))
  /\ UNCHANGED <<sent, client, writeVars, shutdown_requested, socket,
                 transfers, posted, session>>

\* End of file, or a reset, which loses what was not read.
ReadFails ==
  /\ reading
  /\ client = "closed"
  /\ reading' = FALSE
  /\ strand' = Append(strand, Handler("readerror", 0))
  /\ UNCHANGED <<clientVars, writeVars, shutdown_requested, socket, transfers,
                 posted, session>>

\* Faulty variant: the command behind a QUIT is read.
WaitAlways == reading' = TRUE

\* The end of handleFtpCommand: wait for the next command.
WaitForNextCommand == reading' = ~shutdown_requested'

HandleCommand ==
  /\ First("NOOP")
  /\ SendFtpMessage(Tail(strand), "200")
  /\ UNCHANGED shutdown_requested
  /\ WaitForNextCommand
  /\ UNCHANGED <<clientVars, writeVars, socket, transfers, session>>

HandleTransfer ==
  /\ First("RETR")
  /\ SendFtpMessage(Tail(strand), "150")
  /\ transfers' = transfers + 1
  /\ UNCHANGED shutdown_requested
  /\ WaitForNextCommand
  /\ UNCHANGED <<clientVars, writeVars, socket, session>>

HandleQuit ==
  /\ First("QUIT")
  /\ shutdown_requested' = TRUE
  /\ SendFtpMessage(Tail(strand), "221")
  /\ WaitForNextCommand
  /\ UNCHANGED <<clientVars, writeVars, socket, transfers, session>>

\* No further read; what it does to the data connections is in DataConnection.
ReadErrorHandler ==
  /\ First("readerror")
  /\ strand' = Tail(strand)
  /\ UNCHANGED <<clientVars, writeVars, reading, shutdown_requested, socket,
                 transfers, posted, session>>

(***************************************************************************)
(* A transfer posts its completion reply, from another strand, or ends     *)
(* without one (all that are under way do when the process terminates).    *)
(***************************************************************************)
TransferReplies ==
  /\ transfers > 0
  /\ transfers' = transfers - 1
  /\ SendFtpMessage(strand, "226")
  /\ UNCHANGED <<clientVars, writeVars, reading, shutdown_requested, socket,
                 session>>

TransferDropped ==
  /\ transfers > 0
  /\ transfers' \in 0 .. transfers - 1
  /\ UNCHANGED <<clientVars, writeVars, reading, strand, shutdown_requested,
                 socket, posted, session>>

-----------------------------------------------------------------------------
(***************************************************************************)
(* sendRawFtpMessage's lambda and startSendingMessages.                    *)
(***************************************************************************)
\* Faulty variants: every reply starts a write; the queue is asked when the
\* reply is in it already; push_front.
NoWriteInProgressEver == TRUE
NoWriteInProgressThen == command_output_queue' = <<>>
PushFront(n) == <<n>> \o command_output_queue

NoWriteInProgress == command_output_queue = <<>>
PushBack(n)       == Append(command_output_queue, n)

PushReply ==
  /\ First("push")
  /\ strand' = Tail(strand)
  /\ command_output_queue' = PushBack(Head(strand).n)
  /\ writing' = (writing \/ NoWriteInProgress)
  /\ UNCHANGED <<clientVars, reading, shutdown_requested, socket, transfers,
                 posted, wire, session>>

WriteCompletes ==
  /\ writing
  /\ socket = "open"
  /\ writing' = FALSE
  /\ wire' = Append(wire, Head(command_output_queue))
  /\ strand' = Append(strand, Handler("written", 0))
  /\ UNCHANGED <<clientVars, reading, command_output_queue,
                 shutdown_requested, socket, transfers, posted, session>>

WriteFails ==
  /\ writing
  /\ client = "closed" \/ socket = "closed"
  /\ writing' = FALSE
  /\ strand' = Append(strand, Handler("writeerror", 0))
  /\ UNCHANGED <<clientVars, reading, command_output_queue, wire,
                 shutdown_requested, socket, transfers, posted, session>>

\* Faulty variants: the last reply is forgotten; QUIT is.
RepliesLeftButOne == Len(command_output_queue) > 2
KeepAfterQuit     == FALSE

RepliesLeft    == Len(command_output_queue) > 1
CloseAfterQuit == shutdown_requested

\* The lambda of the write: on to the next reply, or, after a QUIT, the end.
Written ==
  /\ First("written")
  /\ strand' = Tail(strand)
  /\ command_output_queue' = Tail(command_output_queue)
  /\ IF CloseAfterQuit
     THEN /\ socket' = "closed"
          /\ UNCHANGED writing
     ELSE /\ writing' = RepliesLeft
          /\ UNCHANGED socket
  /\ UNCHANGED <<clientVars, reading, wire, shutdown_requested, transfers,
                 posted, session>>

\* On an error the reply stays in the queue, and nothing is sent any more.
WriteError ==
  /\ First("writeerror")
  /\ strand' = Tail(strand)
  /\ UNCHANGED <<clientVars, writeVars, reading, shutdown_requested, socket,
                 transfers, posted, session>>

-----------------------------------------------------------------------------
\* ~FtpSession, when no operation, handler or transfer refers to it any more.
Destroy ==
  /\ session = "alive"
  /\ strand = <<>> /\ ~reading /\ ~writing /\ transfers = 0
  /\ session' = "destroyed"
  /\ socket' = "closed"
  /\ UNCHANGED <<clientVars, writeVars, reading, strand, shutdown_requested,
                 transfers, posted>>

Client == (\E c \in Commands : ClientSends(c)) \/ ClientCloses

CommandStrand ==
  \/ StartReading \/ HandleCommand \/ HandleTransfer \/ HandleQuit
  \/ ReadErrorHandler \/ PushReply \/ Written \/ WriteError

Transfer == TransferReplies \/ TransferDropped

Network == ReadCompletes \/ ReadFails \/ WriteCompletes \/ WriteFails

Next == Greet \/ Client \/ CommandStrand \/ Transfer \/ Network \/ Destroy

Spec == Init /\ [][Next]_vars

(***************************************************************************)
(* Fairness: the pool's threads run what is posted, and the system ends a  *)
(* read that has a command or a closed peer and a write, which needs no    *)
(* more than the room of its few bytes in the socket's buffer.  Nothing    *)
(* obliges the client to send or to close, or a transfer to end.           *)
(***************************************************************************)
Fairness == /\ WF_vars(Greet)
            /\ WF_vars(CommandStrand)
            /\ WF_vars(ReadCompletes \/ ReadFails)
            /\ WF_vars(WriteCompletes \/ WriteFails)
            /\ WF_vars(Destroy)

FairSpec == Spec /\ Fairness

-----------------------------------------------------------------------------
(***************************************************************************)
(* Properties.                                                             *)
(***************************************************************************)

WriteDone(h) == h.run \in {"written", "writeerror"}

(***************************************************************************)
(* startSendingMessages writes front(), and the lambda of the write pops   *)
(* it, without asking whether there is one; a second async_write on the    *)
(* socket before the first has ended would mix the bytes of two replies.   *)
(* There is always a front, and never a second write (ftp_session.cpp:     *)
(* 118-167), although replies come from two strands.                       *)
(***************************************************************************)
OneWrite ==
  /\ writing => command_output_queue # <<>>
  /\ \A i \in DOMAIN strand : WriteDone(strand[i]) =>
       /\ command_output_queue # <<>>
       /\ ~writing
       /\ \A j \in DOMAIN strand : WriteDone(strand[j]) => j = i

(***************************************************************************)
(* The client gets the replies in the order they were posted, none twice   *)
(* and none left out.                                                      *)
(***************************************************************************)
RepliesInOrder ==
  /\ Len(wire) <= Len(posted)
  /\ \A i \in DOMAIN wire : wire[i] = i

\* ... which makes the control connection a reply stream.
Stream == INSTANCE ReplyStream WITH
            delivered <- [i \in 1 .. Len(wire) |-> posted[wire[i]]]
StreamSpec == Stream!Spec

ReadPosted(h) == h.run \in ReadLambdas \cup {"start"}

(***************************************************************************)
(* One read at a time uses command_input_stream_, so one command handler   *)
(* at a time is posted, and after QUIT there is none: commands sent behind *)
(* it are not run (ftp_session.cpp:286-290).                               *)
(***************************************************************************)
OneRead ==
  /\ shutdown_requested => ~reading
  /\ \A i \in DOMAIN strand : ReadPosted(strand[i]) =>
       /\ ~reading
       /\ ~shutdown_requested
       /\ \A j \in DOMAIN strand : ReadPosted(strand[j]) => j = i

\* A handler that runs one of the lambdas is posted.
IsPosted(runs) == \E i \in DOMAIN strand : strand[i].run \in runs

(***************************************************************************)
(* No step of the two loops is lost, whoever posts replies in between: as  *)
(* long as both ends are open, a queue that is not empty is being written  *)
(* or about to go on, after a QUIT there is a reply whose write will close *)
(* the socket, and without one the next command will be read               *)
(* (ftp_session.cpp:118-167, 286-290).                                     *)
(***************************************************************************)
ConnectionGoesOn ==
  (client = "open" /\ socket = "open") =>
    /\ command_output_queue # <<>> => writing \/ IsPosted({"written"})
    /\ shutdown_requested => command_output_queue # <<>> \/ IsPosted({"push"})
    /\ ~shutdown_requested => reading \/ IsPosted(Commands \cup {"start"})

(***************************************************************************)
(* No reply is forgotten in the queue: each one posted is sent, unless an  *)
(* end of the connection is closed first.                                  *)
(***************************************************************************)
RepliesSent ==
  \A n \in 1 .. 2 * MaxCommands + 1 :
    (n <= Len(posted))
      ~> (n <= Len(wire) \/ client = "closed" \/ socket = "closed")

\* QUIT closes the control connection, unless the client did.
QuitCloses == shutdown_requested ~> (socket = "closed" \/ client = "closed")

(***************************************************************************)
(* "QUIT: SERVICE_CLOSING_CONTROL_CONNECTION" ("Command return codes.txt": *)
(* 39-40): when the session has closed the control connection because of   *)
(* QUIT, the client was sent the 221.                                      *)
(***************************************************************************)
QuitAnswered ==
  (shutdown_requested /\ socket = "closed" /\ client = "open")
    => \E i \in DOMAIN wire : posted[wire[i]] = "221"
=============================================================================
