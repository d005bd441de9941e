--------------------------- MODULE DataConnection ---------------------------
(***************************************************************************)
(* The data connections of one FtpSession (ftp_session.cpp): passive mode, *)
(* the accept of a data connection, the three ways a transfer runs on it   *)
(* (sendFile, the data_buffer_ chain of the listings, the receive loop),   *)
(* and how they end when the client quits or its control connection does.  *)
(*                                                                         *)
(* Two strands run at the same time on the server's thread pool.  The one  *)
(* handler that command_strand_ runs for the last command read is          *)
(* `command`; it is cut into steps where it touches data_acceptor_, which  *)
(* the other strand closes.  The handlers posted to data_socket_strand_    *)
(* wait in `strand` and run one at a time, in order.  An asynchronous      *)
(* operation that ends appends its handler there (the handlers are         *)
(* strand.wrap'ped), except the write of sendFile, whose handler is run by *)
(* any thread of the pool.                                                 *)
(***************************************************************************)
EXTENDS Naturals, Sequences

CONSTANTS MaxTransfers, \* bound: transfer commands read in the session
          MaxPasv,      \* bound: PASV commands read in the session
          MaxBacklog    \* bound: connections waiting in the acceptor's backlog

ASSUME BoundsAssumption == /\ MaxTransfers \in Nat
                           /\ MaxPasv \in Nat
                           /\ MaxBacklog \in Nat

Transfers == 1 .. MaxTransfers
FileKinds == {"RETR", "STOR"}          \* STOU and APPE are STOR here
Kinds     == FileKinds \cup {"LIST"}   \* NLST is LIST here

(***************************************************************************)
(* A handler posted to data_socket_strand_: which lambda, the transfer     *)
(* whose socket it captured (0: none), and what it was posted with: that   *)
(* the operation succeeded, or, for "add", that there is data (FALSE: the  *)
(* null pointer that ends a listing).  Only "close" is about no transfer.  *)
(***************************************************************************)
Lambdas  == {"accepted", "add", "write", "listed", "chunk", "endrecv", "close"}
Handlers == {h \in [run : Lambdas, t : Transfers \cup {0}, arg : BOOLEAN] :
               h.t = 0 <=> h.run = "close"}
Chunks   == [t : Transfers, data : BOOLEAN]
Replies  == {"refused", "150", "226", "425", "426"}
Operations == {"none", "accepted", "send", "sent", "unsent", "receive", "list"}

\* Faulty variant: the other completion reply of the table of return codes.
DoneWrong == "250"

\* FtpMessage(FtpReplyCode::CLOSING_DATA_CONNECTION, "Done")
Done == "226"

VARIABLES
  command,        \* the step of the command handler, or what ended the reading
  ipv6,           \* the control connection is one over IPv6
  pasvs,          \* PASV commands read; also the number of the newest port
  announced,      \* the port of the last 227 (0: none)
  data_acceptor,  \* data_acceptor_: "closed", "opened", "bound" or "listening"
  backlog,        \* who connected to the listening port and was not accepted
  accepting,      \* pending async_accepts, in the order they were started
  strand,         \* the handlers posted to data_socket_strand_
  kind,           \* the transfer commands read so far
  peer,           \* who is at the other end of a transfer's data connection
  port,           \* the PASV port that accepted it (0: none)
  data_socket,    \* a transfer's data socket: "none", "open" or "closed"
  io,             \* the operation pending on it, or that ended and has its
                  \* handler on the way ("accepted", "sent", "unsent")
  data_buffer,    \* data_buffer_
  weak,           \* data_socket_weakptr_ (0: empty)
  command_socket, \* command_socket_: "open", "broken" (reset) or "closed"
  replies,        \* replies posted for each transfer, in order
  pipelined,      \* a command was sent before the last transfer was answered
  session         \* "alive", "destroyed", or "terminated" (std::terminate)

acceptVars   == <<data_acceptor, backlog, accepting>>
transferVars == <<kind, peer, port, data_socket, io, replies>>
commandVars  == <<command, ipv6, pasvs, announced, command_socket, pipelined>>
vars == <<acceptVars, transferVars, commandVars, strand, data_buffer, weak,
          session>>

-----------------------------------------------------------------------------
Handler(run, t, arg) == [run |-> run, t |-> t, arg |-> arg]

IsOpen == data_acceptor # "closed"

\* The error handlers of the accepts that closing the acceptor aborts.
AbortedAccepts ==
  [i \in 1 .. Len(accepting) |-> Handler("accepted", accepting[i], FALSE)]

\* data_acceptor_ closed: the port, its backlog and its accepts are gone.
CloseDataAcceptor == /\ data_acceptor' = "closed"
                     /\ backlog' = <<>>
                     /\ accepting' = <<>>

\* A transfer that got its 150 and no completion reply.
Unanswered(t) == replies[t] = <<"150">>
Outstanding   == \E t \in 1 .. Len(kind) : Unanswered(t)

Reply(t, code) == replies' = [replies EXCEPT ![t] = Append(@, code)]

CloseDataSocket(t) == data_socket' = [data_socket EXCEPT ![t] = "closed"]

Start(t, op) == io' = [io EXCEPT ![t] = op]

-----------------------------------------------------------------------------
TypeOK ==
  /\ command \in {"reading", "bind", "listen", "announce", "accept",
                  "quit", "ended", "terminated"}
  /\ ipv6 \in BOOLEAN
  /\ pasvs \in 0 .. MaxPasv
  /\ announced \in 0 .. MaxPasv
  /\ data_acceptor \in {"closed", "opened", "bound", "listening"}
  /\ backlog \in Seq({"client", "foreign"})
  /\ accepting \in Seq(Transfers)
  /\ strand \in Seq(Handlers)
  /\ kind \in Seq(Kinds)
  /\ Len(kind) \in 0 .. MaxTransfers
  /\ command = "accept" => kind # <<>>
  /\ peer \in [Transfers -> {"none", "client", "foreign"}]
  /\ port \in [Transfers -> 0 .. MaxPasv]
  /\ data_socket \in [Transfers -> {"none", "open", "closed"}]
  /\ io \in [Transfers -> Operations]
  /\ data_buffer \in Seq(Chunks)
  /\ weak \in Transfers \cup {0}
  /\ command_socket \in {"open", "broken", "closed"}
  /\ replies \in [Transfers -> Seq(Replies)]
  /\ pipelined \in BOOLEAN
  /\ session \in {"alive", "destroyed", "terminated"}

Init ==
  /\ command = "reading"
  /\ ipv6 \in BOOLEAN
  /\ pasvs = 0
  /\ announced = 0
  /\ data_acceptor = "closed"
  /\ backlog = <<>>
  /\ accepting = <<>>
  /\ strand = <<>>
  /\ kind = <<>>
  /\ peer = [t \in Transfers |-> "none"]
  /\ port = [t \in Transfers |-> 0]
  /\ data_socket = [t \in Transfers |-> "none"]
  /\ io = [t \in Transfers |-> "none"]
  /\ data_buffer = <<>>
  /\ weak = 0
  /\ command_socket = "open"
  /\ replies = [t \in Transfers |-> <<>>]
  /\ pipelined = FALSE
  /\ session = "alive"

-----------------------------------------------------------------------------
(***************************************************************************)
(* handleFtpCommandPASV: close what is open and open it again, bind,       *)
(* listen, ask for the port.  The system may refuse each of the first      *)
(* three, and bind and listen fail when the acceptor is no longer open:    *)
(* the reply is then 421, and the acceptor stays as it is.  An address     *)
(* that is not IPv4 has no to_v4, and a closed acceptor no endpoint: each  *)
(* throws out of the handler and of the thread that runs it, which ends    *)
(* the process and all that was pending.                                   *)
(***************************************************************************)
PasvOpen ==
  /\ command = "reading"
  /\ pasvs < MaxPasv
  /\ command' = "bind"
  /\ pasvs' = pasvs + 1
  /\ data_acceptor' \in {"opened", "closed"}
  /\ backlog' = <<>>
  /\ accepting' = <<>>
  /\ strand' = strand \o AbortedAccepts
  /\ pipelined' = (pipelined \/ Outstanding)
  /\ UNCHANGED <<ipv6, announced, command_socket, transferVars, data_buffer,
                 weak, session>>

PasvBind ==
  /\ command = "bind"
  /\ data_acceptor = "opened"
  /\ command' = "listen"
  /\ data_acceptor' = "bound"
  /\ UNCHANGED <<ipv6, pasvs, announced, command_socket, pipelined, backlog,
                 accepting, transferVars, strand, data_buffer, weak, session>>

PasvListen ==
  /\ command = "listen"
  /\ data_acceptor = "bound"
  /\ command' = "announce"
  /\ data_acceptor' = "listening"
  /\ UNCHANGED <<ipv6, pasvs, announced, command_socket, pipelined, backlog,
                 accepting, transferVars, strand, data_buffer, weak, session>>

\* Faulty variant: no return after the error.
PasvFailContinues ==
  /\ command \in {"bind", "listen"}
  /\ command' = "announce"
  /\ UNCHANGED <<ipv6, pasvs, announced, command_socket, pipelined, acceptVars,
                 transferVars, strand, data_buffer, weak, session>>

PasvFail ==
  /\ command \in {"bind", "listen"}
  /\ command' = "reading"
  /\ UNCHANGED <<ipv6, pasvs, announced, command_socket, pipelined, acceptVars,
                 transferVars, strand, data_buffer, weak, session>>

PasvAnnounce ==
  /\ command = "announce"
  /\ ~ipv6 /\ IsOpen
  /\ command' = "reading"
  /\ announced' = pasvs
  /\ UNCHANGED <<ipv6, pasvs, command_socket, pipelined, acceptVars,
                 transferVars, strand, data_buffer, weak, session>>

PasvTerminate ==
  /\ command = "announce"
  /\ ipv6 \/ ~IsOpen
  /\ session' = "terminated"
  /\ command' = "terminated"
  /\ CloseDataAcceptor
  /\ strand' = <<>>
  /\ io' = [t \in Transfers |-> "none"]
  /\ UNCHANGED <<ipv6, pasvs, announced, command_socket, pipelined, kind, peer,
                 port, data_socket, replies, data_buffer, weak>>

(***************************************************************************)
(* RETR, STOR, STOU, APPE, LIST and NLST.  A command whose checks fail is  *)
(* answered at once.  Only the file transfers ask whether the acceptor is  *)
(* open.  The 150 and the async_accept come after the checks.              *)
(***************************************************************************)
TransferRefused(k) ==
  /\ command = "reading"
  /\ Len(kind) < MaxTransfers
  /\ kind' = Append(kind, k)
  /\ Reply(Len(kind) + 1, "refused")
  /\ UNCHANGED <<commandVars, acceptVars, peer, port, data_socket, io, strand,
                 data_buffer, weak, session>>

TransferChecked(k) ==
  /\ command = "reading"
  /\ Len(kind) < MaxTransfers
  /\ k \in FileKinds => IsOpen
  /\ command' = "accept"
  /\ kind' = Append(kind, k)
  /\ pipelined' = (pipelined \/ Outstanding)
  /\ UNCHANGED <<ipv6, pasvs, announced, command_socket, acceptVars, peer,
                 port, data_socket, io, replies, strand, data_buffer, weak,
                 session>>

AcceptDataConnection ==
  /\ command = "accept"
  /\ command' = "reading"
  /\ Reply(Len(kind), "150")
  /\ IF data_acceptor = "listening"
     THEN /\ accepting' = Append(accepting, Len(kind))
          /\ strand' = strand
     ELSE /\ accepting' = accepting
          /\ strand' = Append(strand, Handler("accepted", Len(kind), FALSE))
  /\ UNCHANGED <<ipv6, pasvs, announced, command_socket, pipelined,
                 data_acceptor, backlog, kind, peer, port, data_socket, io,
                 data_buffer, weak, session>>

(***************************************************************************)
(* The end of the control connection.  QUIT: no further command is read,   *)
(* and the socket is closed when the write of a reply ends (or, when that  *)
(* write fails, stays as it is, of no use to anybody).  A read that        *)
(* fails (end of file, reset): the acceptor is closed, and the newest data *)
(* socket from its strand; the command socket itself stays.  A reset may   *)
(* be seen by validateDataConnection before it ends the read.              *)
(***************************************************************************)
Quit ==
  /\ command = "reading"
  /\ command' = "quit"
  /\ UNCHANGED <<ipv6, pasvs, announced, command_socket, pipelined, acceptVars,
                 transferVars, strand, data_buffer, weak, session>>

CloseCommandSocket ==
  /\ command = "quit"
  /\ command_socket # "closed"
  /\ command_socket' = "closed"
  /\ UNCHANGED <<command, ipv6, pasvs, announced, pipelined, acceptVars,
                 transferVars, strand, data_buffer, weak, session>>

\* Faulty variant: the acceptor is left alone.
CommandReadErrorKeepsPort ==
  /\ command = "reading"
  /\ command' = "ended"
  /\ strand' = Append(strand, Handler("close", 0, TRUE))
  /\ UNCHANGED <<ipv6, pasvs, announced, command_socket, pipelined, acceptVars,
                 transferVars, data_buffer, weak, session>>

CommandReadError ==
  /\ command = "reading"
  /\ command' = "ended"
  /\ CloseDataAcceptor
  /\ strand' = Append(strand \o AbortedAccepts, Handler("close", 0, TRUE))
  /\ UNCHANGED <<ipv6, pasvs, announced, command_socket, pipelined,
                 transferVars, data_buffer, weak, session>>

-----------------------------------------------------------------------------
(***************************************************************************)
(* Client and system.  A "foreign" peer stands for every data connection   *)
(* validateDataConnection refuses for its own sake: another host's, or one *)
(* reset before its address is asked for.                                  *)
(*                                                                         *)
(* An accept that was completed is posted to the strand by the thread that *)
(* learns of it: what another thread posts meanwhile is before it.  For    *)
(* the other operations the two are one step; on an order that differs     *)
(* their handlers go on or fail one operation later, and reply the same.   *)
(***************************************************************************)
ClientResets ==
  /\ command_socket = "open"
  /\ session = "alive"
  /\ command_socket' = "broken"
  /\ UNCHANGED <<command, ipv6, pasvs, announced, pipelined, acceptVars,
                 transferVars, strand, data_buffer, weak, session>>

Connect(who) ==
  /\ data_acceptor = "listening"
  /\ Len(backlog) < MaxBacklog
  /\ backlog' = Append(backlog, who)
  /\ UNCHANGED <<commandVars, data_acceptor, accepting, transferVars, strand,
                 data_buffer, weak, session>>

AcceptCompletes ==
  /\ data_acceptor = "listening"
  /\ accepting # <<>>
  /\ backlog # <<>>
  /\ accepting' = Tail(accepting)
  /\ backlog' = Tail(backlog)
  /\ peer' = [peer EXCEPT ![Head(accepting)] = Head(backlog)]
  /\ port' = [port EXCEPT ![Head(accepting)] = pasvs]
  /\ data_socket' = [data_socket EXCEPT ![Head(accepting)] = "open"]
  /\ Start(Head(accepting), "accepted")
  /\ UNCHANGED <<commandVars, data_acceptor, kind, replies, strand,
                 data_buffer, weak, session>>

\* Out of descriptors, or the connection was aborted before it was accepted.
AcceptErrs ==
  /\ data_acceptor = "listening"
  /\ accepting # <<>>
  /\ accepting' = Tail(accepting)
  /\ strand' = Append(strand, Handler("accepted", Head(accepting), FALSE))
  /\ UNCHANGED <<commandVars, data_acceptor, backlog, transferVars,
                 data_buffer, weak, session>>

AcceptPosted(t) ==
  /\ io[t] = "accepted"
  /\ Start(t, "none")
  /\ strand' = Append(strand, Handler("accepted", t, TRUE))
  /\ UNCHANGED <<commandVars, acceptVars, kind, peer, port, data_socket,
                 replies, data_buffer, weak, session>>

\* An operation on a closed socket fails; on an open one it may do either.
Outcomes(t) == IF data_socket[t] = "open" THEN BOOLEAN ELSE {FALSE}

SendCompletes(t) ==
  /\ io[t] = "send"
  /\ \E ok \in Outcomes(t) : Start(t, IF ok THEN "sent" ELSE "unsent")
  /\ UNCHANGED <<commandVars, acceptVars, kind, peer, port, data_socket,
                 replies, strand, data_buffer, weak, session>>

\* Faulty variants: no else; no reply to an error.
SendFileRepliesBoth(t)  == IF io[t] = "sent" THEN <<Done>> ELSE <<"426", Done>>
SendFileRepliesDone(t)  == IF io[t] = "sent" THEN <<Done>> ELSE <<>>

SendFileReplies(t) == IF io[t] = "sent" THEN <<Done>> ELSE <<"426">>

\* The handler of sendFile's async_write, on any thread.  On an error it does
\* not close the socket, but was the last to refer to it.
SendFileHandler(t) ==
  /\ io[t] \in {"sent", "unsent"}
  /\ Start(t, "none")
  /\ CloseDataSocket(t)
  /\ replies' = [replies EXCEPT ![t] = @ \o SendFileReplies(t)]
  /\ UNCHANGED <<commandVars, acceptVars, kind, peer, port, strand,
                 data_buffer, weak, session>>

ReceiveCompletes(t, ok) ==
  /\ io[t] = "receive"
  /\ ok \in Outcomes(t)
  /\ Start(t, "none")
  /\ strand' = Append(strand, Handler("chunk", t, ok))
  /\ UNCHANGED <<commandVars, acceptVars, kind, peer, port, data_socket,
                 replies, data_buffer, weak, session>>

ListingWriteCompletes(t) ==
  /\ io[t] = "list"
  /\ Start(t, "none")
  /\ \E ok \in Outcomes(t) : strand' = Append(strand, Handler("listed", t, ok))
  /\ UNCHANGED <<commandVars, acceptVars, kind, peer, port, data_socket,
                 replies, data_buffer, weak, session>>

-----------------------------------------------------------------------------
(***************************************************************************)
(* The handlers of data_socket_strand_.                                    *)
(***************************************************************************)
First(run) == strand # <<>> /\ Head(strand).run = run

\* Faulty variant: an accept that was aborted is answered by nobody.
AcceptFailedSilently ==
  /\ First("accepted") /\ ~Head(strand).arg
  /\ strand' = Tail(strand)
  /\ UNCHANGED <<commandVars, acceptVars, transferVars, data_buffer, weak,
                 session>>

\* The lambda of acceptDataConnection, on an error.
AcceptFailed ==
  /\ First("accepted") /\ ~Head(strand).arg
  /\ strand' = Tail(strand)
  /\ Reply(Head(strand).t, "426")
  /\ UNCHANGED <<commandVars, acceptVars, kind, peer, port, data_socket, io,
                 data_buffer, weak, session>>

\* Faulty variant: the addresses are not compared.
ValidateAnyPeer(t) == command_socket = "open"

ValidateDataConnection(t) == peer[t] = "client" /\ command_socket = "open"

Rejected ==
  /\ First("accepted") /\ Head(strand).arg
  /\ ~ValidateDataConnection(Head(strand).t)
  /\ CloseDataAcceptor
  /\ strand' = Tail(strand) \o AbortedAccepts
  /\ CloseDataSocket(Head(strand).t)
  /\ Reply(Head(strand).t, "425")
  /\ UNCHANGED <<commandVars, kind, peer, port, io, data_buffer, weak,
                 session>>

\* Faulty variant: the port is not closed.
ConnectedKeepsPort(k) ==
  /\ First("accepted") /\ Head(strand).arg
  /\ ValidateDataConnection(Head(strand).t)
  /\ kind[Head(strand).t] = k
  /\ weak' = Head(strand).t
  /\ UNCHANGED <<commandVars, acceptVars, kind, peer, port, data_buffer,
                 session>>

\* ... and on success, for the connected_handler of the given kind.
Connected(k) ==
  /\ First("accepted") /\ Head(strand).arg
  /\ ValidateDataConnection(Head(strand).t)
  /\ kind[Head(strand).t] = k
  /\ CloseDataAcceptor
  /\ weak' = Head(strand).t
  /\ UNCHANGED <<commandVars, kind, peer, port, data_buffer, session>>

SendFile ==
  /\ Connected("RETR")
  /\ strand' = Tail(strand) \o AbortedAccepts
  /\ Start(Head(strand).t, "send")
  /\ UNCHANGED <<data_socket, replies>>

SendEmptyFile ==
  /\ Connected("RETR")
  /\ strand' = Tail(strand) \o AbortedAccepts
  /\ CloseDataSocket(Head(strand).t)
  /\ Reply(Head(strand).t, Done)
  /\ UNCHANGED io

ReceiveFile ==
  /\ Connected("STOR")
  /\ strand' = Tail(strand) \o AbortedAccepts
  /\ Start(Head(strand).t, "receive")
  /\ UNCHANGED <<data_socket, replies>>

SendDirectoryListing ==
  /\ Connected("LIST")
  /\ strand' = (Tail(strand) \o AbortedAccepts)
               \o << Handler("add", Head(strand).t, TRUE),
                     Handler("add", Head(strand).t, FALSE) >>
  /\ UNCHANGED <<data_socket, io, replies>>

\* Faulty variant: a write is started for every element.
WriteNotInProgressAlways == TRUE

WriteNotInProgress == data_buffer = <<>>

AddDataToBufferAndSend ==
  /\ First("add")
  /\ data_buffer' = Append(data_buffer, [t    |-> Head(strand).t,
                                         data |-> Head(strand).arg])
  /\ strand' = IF WriteNotInProgress
               THEN Append(Tail(strand), Handler("write", Head(strand).t, TRUE))
               ELSE Tail(strand)
  /\ UNCHANGED <<commandVars, acceptVars, transferVars, weak, session>>

WriteDataToSocket ==
  /\ First("write") /\ Head(data_buffer).data
  /\ strand' = Tail(strand)
  /\ Start(Head(strand).t, "list")
  /\ UNCHANGED <<commandVars, acceptVars, kind, peer, port, data_socket,
                 replies, data_buffer, weak, session>>

EndOfListing ==
  /\ First("write") /\ ~Head(data_buffer).data
  /\ strand' = Tail(strand)
  /\ data_buffer' = Tail(data_buffer)
  /\ CloseDataSocket(Head(strand).t)
  /\ Reply(Head(strand).t, Done)
  /\ UNCHANGED <<commandVars, acceptVars, kind, peer, port, io, weak, session>>

ListingWritten ==
  /\ First("listed")
  /\ data_buffer' = Tail(data_buffer)
  /\ strand' = IF Head(strand).arg /\ data_buffer' # <<>>
               THEN Append(Tail(strand), Handler("write", Head(strand).t, TRUE))
               ELSE Tail(strand)
  /\ UNCHANGED <<commandVars, acceptVars, transferVars, weak, session>>

\* The lambda of receiveDataFromSocketAndWriteToFile.
ReceivedChunk ==
  /\ First("chunk") /\ Head(strand).arg
  /\ strand' = Tail(strand)
  /\ Start(Head(strand).t, "receive")
  /\ UNCHANGED <<commandVars, acceptVars, kind, peer, port, data_socket,
                 replies, data_buffer, weak, session>>

ReceivedLast ==
  /\ First("chunk") /\ ~Head(strand).arg
  /\ strand' = Append(Tail(strand), Handler("endrecv", Head(strand).t, TRUE))
  /\ UNCHANGED <<commandVars, acceptVars, transferVars, data_buffer, weak,
                 session>>

EndDataReceiving ==
  /\ First("endrecv")
  /\ strand' = Tail(strand)
  /\ CloseDataSocket(Head(strand).t)
  /\ Reply(Head(strand).t, Done)
  /\ UNCHANGED <<commandVars, acceptVars, kind, peer, port, io, data_buffer,
                 weak, session>>

\* Faulty variant: the lambda has no effect.
CloseNothing ==
  /\ First("close")
  /\ strand' = Tail(strand)
  /\ UNCHANGED <<commandVars, acceptVars, transferVars, data_buffer, weak,
                 session>>

\* What CommandReadError posted: close the newest data socket, if any.
CloseNewestDataSocket ==
  /\ First("close")
  /\ strand' = Tail(strand)
  /\ data_socket' = [t \in Transfers |->
                       IF t = weak THEN "closed" ELSE data_socket[t]]
  /\ UNCHANGED <<commandVars, acceptVars, kind, peer, port, io, replies,
                 data_buffer, weak, session>>

-----------------------------------------------------------------------------
(***************************************************************************)
(* The session is destroyed when no operation or handler holds a pointer   *)
(* to it any more.                                                         *)
(***************************************************************************)
Unreferenced ==
  /\ \/ command = "ended"
     \/ command = "quit" /\ command_socket # "open"
  /\ strand = <<>>
  /\ accepting = <<>>
  /\ \A t \in Transfers : io[t] = "none"

Destroy ==
  /\ session = "alive"
  /\ Unreferenced
  /\ session' = "destroyed"
  /\ command_socket' = "closed"
  /\ CloseDataAcceptor
  /\ UNCHANGED <<command, ipv6, pasvs, announced, pipelined, transferVars,
                 strand, data_buffer, weak>>

CommandStrand ==
  \/ PasvOpen \/ PasvBind \/ PasvListen \/ PasvFail
  \/ PasvAnnounce \/ PasvTerminate
  \/ \E k \in Kinds : TransferRefused(k) \/ TransferChecked(k)
  \/ AcceptDataConnection
  \/ Quit \/ CloseCommandSocket \/ CommandReadError

DataStrand ==
  \/ AcceptFailed \/ Rejected
  \/ SendFile \/ SendEmptyFile \/ ReceiveFile \/ SendDirectoryListing
  \/ AddDataToBufferAndSend \/ WriteDataToSocket \/ EndOfListing
  \/ ListingWritten
  \/ ReceivedChunk \/ ReceivedLast \/ EndDataReceiving
  \/ CloseNewestDataSocket

System ==
  \/ ClientResets
  \/ \E who \in {"client", "foreign"} : Connect(who)
  \/ AcceptCompletes \/ AcceptErrs
  \/ \E t \in Transfers :
       \/ AcceptPosted(t)
       \/ SendCompletes(t) \/ SendFileHandler(t)
       \/ \E ok \in BOOLEAN : ReceiveCompletes(t, ok)
       \/ ListingWriteCompletes(t)

Next == CommandStrand \/ DataStrand \/ System \/ Destroy

Spec == Init /\ [][Next]_vars

(***************************************************************************)
(* Fairness.  The pool's threads run what is posted and continue a command *)
(* handler they began; the system completes an accept that has somebody to *)
(* accept, and ends every operation on a closed socket.  Nothing obliges a *)
(* client to connect, to send a command or to close, nor the peer of an    *)
(* open data connection to read, to write or to go: the server has no      *)
(* timeouts.                                                               *)
(***************************************************************************)
OperationAborted(t) ==
  /\ data_socket[t] = "closed"
  /\ SendCompletes(t) \/ ReceiveCompletes(t, FALSE) \/ ListingWriteCompletes(t)

Fairness ==
  /\ WF_vars(DataStrand)
  /\ WF_vars(PasvBind \/ PasvListen \/ PasvFail \/ PasvAnnounce
                   \/ PasvTerminate \/ AcceptDataConnection)
  /\ WF_vars(AcceptCompletes)
  /\ WF_vars(Destroy)
  /\ \A t \in Transfers : /\ WF_vars(AcceptPosted(t))
                          /\ WF_vars(SendFileHandler(t))
                          /\ WF_vars(OperationAborted(t))

FairSpec == Spec /\ Fairness

(***************************************************************************)
(* What the peers of data connections owe the server: they read what is    *)
(* sent, or are gone, and do not go on with an upload for ever.  A premise *)
(* of the properties that need it.                                         *)
(***************************************************************************)
PeersGoOn ==
  \A t \in Transfers : /\ WF_vars(SendCompletes(t))
                       /\ WF_vars(ListingWriteCompletes(t))
                       /\ SF_vars(ReceiveCompletes(t, FALSE))

-----------------------------------------------------------------------------
(***************************************************************************)
(* Properties.                                                             *)
(***************************************************************************)

\* A lambda that continues the chain of listing writes when it runs.
Driver(h) == h.run \in {"write", "listed"}

(***************************************************************************)
(* writeDataToSocket's lambda calls data_buffer_.front(), and the lambda   *)
(* of its write pop_front(), without asking whether there is an element.   *)
(* There always is: the chain of listing writes has at most one            *)
(* continuation, posted or pending, however listings overlap, fail and end *)
(* (ftp_session.cpp:1501-1555), and none when data_buffer_ is empty.       *)
(***************************************************************************)
ListingChain ==
  /\ \A i \in DOMAIN strand : Driver(strand[i]) =>
       /\ data_buffer # <<>>
       /\ \A j \in DOMAIN strand : Driver(strand[j]) => j = i
       /\ \A t \in Transfers : io[t] # "list"
  /\ \A t \in Transfers : io[t] = "list" =>
       /\ data_buffer # <<>>
       /\ \A u \in Transfers : io[u] = "list" => u = t

(***************************************************************************)
(* A transfer command is refused, or gets its 150 and then at most one     *)
(* completion reply, whatever closes its socket, aborts its accept or      *)
(* overlaps with it.                                                       *)
(***************************************************************************)
OneCompletion ==
  \A t \in Transfers :
    replies[t] \in {<<>>, <<"refused">>, <<"150">>}
                  \cup {<<"150", c>> : c \in {"226", "425", "426"}}

(***************************************************************************)
(* For a client that waits for the answer to a transfer before it sends    *)
(* its next transfer command or PASV, the two strands do not meet in       *)
(* data_acceptor_.  PASV throws over IPv6 and never because the other      *)
(* strand closed the port; the port of the last 227 listens until a data   *)
(* connection is accepted on it, or the control connection ends; and "a    *)
(* PASV port is single-use for one data connection" (ftp_session.cpp:1320) *)
(* is true, though a port is closed only by the handler of the accept.     *)
(***************************************************************************)
SequentialClient ==
  ~pipelined =>
    /\ session = "terminated" => ipv6
    /\ (announced # 0 /\ announced = pasvs
        /\ command # "ended" /\ session = "alive"
        /\ \A t \in Transfers : port[t] # announced)
       => data_acceptor = "listening"
    /\ \A t, u \in Transfers : port[t] = port[u] /\ port[t] # 0 => t = u

(***************************************************************************)
(* No port that served a transfer still listens when the transfer has its  *)
(* completion reply (PasvSecurityTest.PasvPortIsClosedAfterTransfer, for   *)
(* every interleaving and every kind of transfer).                         *)
(***************************************************************************)
PortClosedAfterTransfer ==
  \A t \in Transfers :
    (port[t] # 0 /\ Len(replies[t]) = 2 /\ IsOpen) => port[t] < pasvs

(***************************************************************************)
(* Once the control connection has failed nothing can be accepted any      *)
(* more, and no accept is pending: the session cannot be kept alive by a   *)
(* data connection nobody opens.                                           *)
(***************************************************************************)
NoAcceptAfterEnd ==
  command = "ended" => /\ ~IsOpen
                       /\ accepting = <<>>

(***************************************************************************)
(* No data flows to or from a peer that validateDataConnection refuses:    *)
(* no operation follows the accept of its connection, it never becomes the *)
(* newest data socket, and it is never told that a transfer is done.       *)
(***************************************************************************)
ForeignNotServed ==
  \A t \in Transfers : peer[t] = "foreign" =>
    /\ io[t] \in {"none", "accepted"}
    /\ weak # t
    /\ replies[t] # <<"150", "226">>

(***************************************************************************)
(* A file transfer that got its 150 is never dropped without an answer: an *)
(* accept, a handler or an operation that goes on with it is left until it *)
(* has its completion reply, whatever ends the accept, closes the socket   *)
(* or takes over data_socket_weakptr_ (ftp_session.cpp:1307-1615).         *)
(***************************************************************************)
FileTransferCarriedOn ==
  session # "terminated" =>
    \A t \in 1 .. Len(kind) : kind[t] \in FileKinds /\ Unanswered(t) =>
      \/ \E i \in DOMAIN accepting : accepting[i] = t
      \/ \E i \in DOMAIN strand : strand[i].t = t
      \/ io[t] # "none"

(***************************************************************************)
(* A data connection that its peer may keep open for ever: an operation or *)
(* a handler goes on with it, and nothing that was posted closes it.       *)
(***************************************************************************)
Loose(t) ==
  /\ data_socket[t] = "open"
  /\ io[t] # "none" \/ \E i \in DOMAIN strand : strand[i].t = t
  /\ ~(t = weak /\ \E i \in DOMAIN strand : strand[i].run = "close")

(***************************************************************************)
(* When the control connection has failed the session is destroyed, though *)
(* a transfer waits for a data connection nobody will open (closing the    *)
(* acceptor ends its accept, ftp_session.cpp:186) or the peer of the       *)
(* newest one says nothing (:188 closes it): unless another connection, an *)
(* older one or one just accepted, is loose.  After a QUIT it is destroyed *)
(* if also no accept waits, which nobody would end.                        *)
(***************************************************************************)
EndDestroysSession ==
  (/\ \/ command = "ended"
      \/ command = "quit" /\ command_socket # "open" /\ accepting = <<>>
   /\ \A t \in Transfers : ~Loose(t))
    ~> (session = "destroyed")

(***************************************************************************)
(* A file transfer whose data connection was accepted gets its completion  *)
(* reply if its peer goes on, unless the server terminated.                *)
(***************************************************************************)
FileTransferAnswered ==
  PeersGoOn =>
    \A t \in Transfers :
      (port[t] # 0 /\ kind[t] \in FileKinds)
        ~> (Len(replies[t]) = 2 \/ session = "terminated")

(***************************************************************************)
(* "LIST: FILE_STATUS_OK_OPENING_DATA_CONNECTION", then one of the         *)
(* completion replies ("Command return codes.txt":87-90): a listing whose  *)
(* data connection was accepted gets one if its peer goes on, or the       *)
(* client ends its session.                                                *)
(***************************************************************************)
ListingAnswered ==
  PeersGoOn =>
    \A t \in Transfers :
      (port[t] # 0 /\ kind[t] = "LIST")
        ~> (Len(replies[t]) = 2 \/ command \in {"quit", "ended", "terminated"})
=============================================================================
