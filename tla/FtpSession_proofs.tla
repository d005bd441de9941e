-------------------------- MODULE FtpSession_proofs --------------------------
(***************************************************************************)
(* Proofs about FtpSession: that it implements both of its parts, and that *)
(* a session which is destroyed owes its client nothing.                   *)
(*                                                                         *)
(* The invariants of the parts are those of their own proofs, with what    *)
(* the composition puts in for their parameters.                           *)
(***************************************************************************)
EXTENDS FtpSession, FiniteSetTheorems, HandlerQueues

DataProofs == INSTANCE DataConnection_proofs WITH
  strand  <- data_strand,
  session <- IF session = "starting" THEN "alive" ELSE session

ControlProofs == INSTANCE ControlConnection_proofs WITH
  strand    <- command_strand,
  socket    <- IF command_socket = "closed" THEN "closed" ELSE "open",
  transfers <- Cardinality({t \in Data!Transfers :
                              Data!Unanswered(t) /\ InHand(t)}),
  session   <- IF session = "terminated"
               THEN IF Greeted THEN "alive" ELSE "starting"
               ELSE session

-----------------------------------------------------------------------------
(***************************************************************************)
(* The modules of the proofs contain those of the parts: the operators of  *)
(* the two instances of each are the same.                                 *)
(***************************************************************************)
LEMMA SameData ==
  /\ Data!Init <=> DataProofs!Init
  /\ Data!Next <=> DataProofs!Next
  /\ Data!vars = DataProofs!vars
  BY DEF Data!Transfers, DataProofs!Transfers, Data!FileKinds,
         DataProofs!FileKinds,
         Data!Kinds, DataProofs!Kinds, Data!Done, DataProofs!Done,
         Data!Handler, DataProofs!Handler, Data!IsOpen, DataProofs!IsOpen,
         Data!AbortedAccepts, DataProofs!AbortedAccepts,
         Data!CloseDataAcceptor, DataProofs!CloseDataAcceptor, Data!Unanswered,
         DataProofs!Unanswered, Data!Outstanding, DataProofs!Outstanding,
         Data!Reply, DataProofs!Reply, Data!CloseDataSocket,
         DataProofs!CloseDataSocket, Data!Start, DataProofs!Start, Data!Init,
         DataProofs!Init, Data!PasvOpen, DataProofs!PasvOpen, Data!PasvBind,
         DataProofs!PasvBind, Data!PasvListen, DataProofs!PasvListen,
         Data!PasvFail, DataProofs!PasvFail, Data!PasvAnnounce,
         DataProofs!PasvAnnounce, Data!PasvTerminate, DataProofs!PasvTerminate,
         Data!TransferRefused, DataProofs!TransferRefused,
         Data!TransferChecked, DataProofs!TransferChecked,
         Data!AcceptDataConnection, DataProofs!AcceptDataConnection, Data!Quit,
         DataProofs!Quit, Data!CloseCommandSocket,
         DataProofs!CloseCommandSocket, Data!CommandReadError,
         DataProofs!CommandReadError, Data!ClientResets,
         DataProofs!ClientResets, Data!Connect, DataProofs!Connect,
         Data!AcceptCompletes, DataProofs!AcceptCompletes, Data!AcceptErrs,
         DataProofs!AcceptErrs, Data!AcceptPosted, DataProofs!AcceptPosted,
         Data!Outcomes, DataProofs!Outcomes,
         Data!SendCompletes, DataProofs!SendCompletes, Data!SendFileReplies,
         DataProofs!SendFileReplies,
         Data!SendFileHandler, DataProofs!SendFileHandler,
         Data!ReceiveCompletes, DataProofs!ReceiveCompletes,
         Data!ListingWriteCompletes, DataProofs!ListingWriteCompletes,
         Data!First, DataProofs!First, Data!AcceptFailed,
         DataProofs!AcceptFailed, Data!ValidateDataConnection,
         DataProofs!ValidateDataConnection, Data!Rejected, DataProofs!Rejected,
         Data!Connected, DataProofs!Connected, Data!SendFile,
         DataProofs!SendFile, Data!SendEmptyFile, DataProofs!SendEmptyFile,
         Data!ReceiveFile, DataProofs!ReceiveFile, Data!SendDirectoryListing,
         DataProofs!SendDirectoryListing, Data!WriteNotInProgress,
         DataProofs!WriteNotInProgress, Data!AddDataToBufferAndSend,
         DataProofs!AddDataToBufferAndSend, Data!WriteDataToSocket,
         DataProofs!WriteDataToSocket, Data!EndOfListing,
         DataProofs!EndOfListing, Data!ListingWritten,
         DataProofs!ListingWritten, Data!ReceivedChunk,
         DataProofs!ReceivedChunk, Data!ReceivedLast, DataProofs!ReceivedLast,
         Data!EndDataReceiving, DataProofs!EndDataReceiving,
         Data!CloseNewestDataSocket, DataProofs!CloseNewestDataSocket,
         Data!Unreferenced, DataProofs!Unreferenced, Data!Destroy,
         DataProofs!Destroy, Data!CommandStrand, DataProofs!CommandStrand,
         Data!DataStrand, DataProofs!DataStrand, Data!System,
         DataProofs!System, Data!Next, DataProofs!Next, Data!acceptVars,
         DataProofs!acceptVars, Data!transferVars, DataProofs!transferVars,
         Data!commandVars, DataProofs!commandVars, Data!vars, DataProofs!vars

LEMMA SameControl ==
  /\ Control!Init <=> ControlProofs!Init
  /\ Control!Next <=> ControlProofs!Next
  /\ Control!vars = ControlProofs!vars
  BY DEF Control!Commands, ControlProofs!Commands, Control!Handler,
         ControlProofs!Handler, Control!First, ControlProofs!First,
         Control!SendFtpMessage, ControlProofs!SendFtpMessage, Control!Init,
         ControlProofs!Init, Control!Greet, ControlProofs!Greet,
         Control!ClientSends, ControlProofs!ClientSends, Control!ClientCloses,
         ControlProofs!ClientCloses, Control!StartReading,
         ControlProofs!StartReading, Control!ReadCompletes,
         ControlProofs!ReadCompletes, Control!ReadFails,
         ControlProofs!ReadFails, Control!WaitForNextCommand,
         ControlProofs!WaitForNextCommand, Control!HandleCommand,
         ControlProofs!HandleCommand, Control!HandleTransfer,
         ControlProofs!HandleTransfer, Control!HandleQuit,
         ControlProofs!HandleQuit, Control!ReadErrorHandler,
         ControlProofs!ReadErrorHandler, Control!TransferReplies,
         ControlProofs!TransferReplies, Control!TransferDropped,
         ControlProofs!TransferDropped, Control!NoWriteInProgress,
         ControlProofs!NoWriteInProgress, Control!PushBack,
         ControlProofs!PushBack, Control!PushReply, ControlProofs!PushReply,
         Control!WriteCompletes, ControlProofs!WriteCompletes,
         Control!WriteFails, ControlProofs!WriteFails, Control!RepliesLeft,
         ControlProofs!RepliesLeft, Control!CloseAfterQuit,
         ControlProofs!CloseAfterQuit, Control!Written, ControlProofs!Written,
         Control!WriteError, ControlProofs!WriteError, Control!Destroy,
         ControlProofs!Destroy, Control!Client, ControlProofs!Client,
         Control!CommandStrand, ControlProofs!CommandStrand, Control!Transfer,
         ControlProofs!Transfer, Control!Network, ControlProofs!Network,
         Control!Next, ControlProofs!Next, Control!clientVars,
         ControlProofs!clientVars, Control!writeVars, ControlProofs!writeVars,
         Control!vars, ControlProofs!vars

\* The terms in which the proofs of the data connections put it.
LEMMA SameTerms ==
  /\ Data!AcceptDataConnection <=> DataProofs!AcceptDataConnection
  /\ Data!PasvTerminate <=> DataProofs!PasvTerminate
  /\ Data!AcceptFailed \/ Data!Rejected \/ Data!SendEmptyFile
       \/ Data!EndOfListing \/ Data!EndDataReceiving
       \/ (\E t \in Data!Transfers : Data!SendFileHandler(t))
     <=> DataProofs!Completes
<1>1. /\ Data!AcceptDataConnection <=> DataProofs!AcceptDataConnection
      /\ Data!PasvTerminate <=> DataProofs!PasvTerminate
      /\ Data!AcceptFailed <=> DataProofs!AcceptFailed
      /\ Data!Rejected <=> DataProofs!Rejected
      /\ Data!SendEmptyFile <=> DataProofs!SendEmptyFile
      /\ Data!EndOfListing <=> DataProofs!EndOfListing
      /\ Data!EndDataReceiving <=> DataProofs!EndDataReceiving
      /\ \A t : Data!SendFileHandler(t) <=> DataProofs!SendFileHandler(t)
      /\ Data!Transfers = DataProofs!Transfers
  BY DEF Data!AcceptDataConnection, DataProofs!AcceptDataConnection,
         Data!PasvTerminate, DataProofs!PasvTerminate, Data!IsOpen,
         DataProofs!IsOpen,
         Data!AcceptFailed, DataProofs!AcceptFailed,
         Data!Rejected, DataProofs!Rejected, Data!SendEmptyFile,
         DataProofs!SendEmptyFile, Data!EndOfListing, DataProofs!EndOfListing,
         Data!EndDataReceiving, DataProofs!EndDataReceiving,
         Data!SendFileHandler, DataProofs!SendFileHandler,
         Data!SendFileReplies, DataProofs!SendFileReplies, Data!Done,
         DataProofs!Done, Data!Connected, DataProofs!Connected, Data!First,
         DataProofs!First, Data!ValidateDataConnection,
         DataProofs!ValidateDataConnection, Data!CloseDataAcceptor,
         DataProofs!CloseDataAcceptor, Data!CloseDataSocket,
         DataProofs!CloseDataSocket, Data!Reply, DataProofs!Reply, Data!Start,
         DataProofs!Start, Data!AbortedAccepts, DataProofs!AbortedAccepts,
         Data!Handler, DataProofs!Handler, Data!Transfers,
         DataProofs!Transfers, Data!commandVars, DataProofs!commandVars,
         Data!acceptVars, DataProofs!acceptVars, Data!transferVars,
         DataProofs!transferVars
<1> QED
  BY <1>1 DEF DataProofs!Completes

\* The handlers of a transfer.
LEMMA HeldBy ==
  ASSUME NEW s \in Seq(DataProofs!Handlers), NEW t
  PROVE  DataProofs!NoneIn(s, DataProofs!Held(t))
           <=> ~ \E i \in DOMAIN s : s[i].t = t
<1>1. \A i \in DOMAIN s : s[i] \in DataProofs!Handlers
  OBVIOUS
<1>2. \A i \in DOMAIN s : s[i] \in DataProofs!Held(t) <=> s[i].t = t
  BY <1>1 DEF DataProofs!Held
<1> QED
  BY <1>2 DEF DataProofs!NoneIn

LEMMA SameHands ==
  ASSUME data_strand \in Seq(DataProofs!Handlers), NEW t
  PROVE  /\ DataProofs!Unanswered(t) <=> Data!Unanswered(t)
         /\ DataProofs!InHand(t) <=> InHand(t)
  BY HeldBy DEF DataProofs!Unanswered, Data!Unanswered, DataProofs!InHand,
                InHand, DataProofs!NoneIn

LEMMA SameHandsNext ==
  ASSUME data_strand' \in Seq(DataProofs!Handlers), NEW t
  PROVE  /\ DataProofs!Unanswered(t)' <=> Data!Unanswered(t)'
         /\ DataProofs!InHand(t)' <=> InHand(t)'
  BY HeldBy DEF DataProofs!Unanswered, Data!Unanswered, DataProofs!InHand,
                InHand, DataProofs!NoneIn

-----------------------------------------------------------------------------
(***************************************************************************)
(* What couples the parts.  As long as commands are read, a read is        *)
(* pending or a handler of the reading is posted; as long as the command   *)
(* socket is open, a reply in the queue is being written, and after a QUIT *)
(* there is one to write.  So a session nothing refers to is one whose     *)
(* reading has ended in one of the ways DataConnection knows.              *)
(***************************************************************************)
Reads == {"start", "NOOP", "RETR", "QUIT", "readerror"}

Busy == {"reading", "bind", "listen", "announce", "accept"}

Coupled ==
  /\ session \in {"starting", "alive", "destroyed", "terminated"}
  /\ session # "terminated" => (session = "starting" <=> ~Greeted)
  /\ command = "quit" <=> shutdown_requested
  /\ command = "terminated" => session = "terminated"
  /\ command \in Busy => reading \/ ~None(command_strand, Reads)
  /\ shutdown_requested /\ command_socket = "open" =>
       command_output_queue # <<>> \/ ~None(command_strand, {"push"})
  /\ command_output_queue # <<>> /\ command_socket = "open" =>
       writing \/ ~None(command_strand, {"written"})
  /\ session = "destroyed" => Unreferenced /\ data_acceptor = "closed"

DataInv    == DataProofs!TransferInv
ControlInv == /\ ControlProofs!TypeOK
              /\ ControlProofs!WriteInv
              /\ ControlProofs!OrderInv

\* Types of what both parts are about.
LEMMA Types ==
  ASSUME DataInv, ControlInv
  PROVE  /\ command \in Busy \cup {"quit", "ended", "terminated"}
         /\ accepting \in Seq(Data!Transfers)
         /\ data_strand \in Seq(DataProofs!Handlers)
         /\ command_strand \in Seq(Control!Handlers)
         /\ command_output_queue \in Seq(Nat)
         /\ input \in Seq(Control!Commands)
         /\ command_socket \in {"open", "broken", "closed"}
         /\ reading \in BOOLEAN /\ writing \in BOOLEAN
         /\ shutdown_requested \in BOOLEAN
         /\ posted \in Seq(Control!Codes)
<1>1. DataProofs!TypeOK /\ ControlProofs!TypeOK
  BY DEF DataInv, ControlInv, DataProofs!TransferInv, DataProofs!StrandInv
<1>2. /\ DataProofs!Transfers = Data!Transfers
      /\ ControlProofs!Handlers = Control!Handlers
      /\ ControlProofs!Commands = Control!Commands
      /\ ControlProofs!Codes = Control!Codes
  BY DEF DataProofs!Transfers, Data!Transfers, ControlProofs!Handlers,
         Control!Handlers, ControlProofs!Commands, Control!Commands,
         ControlProofs!Codes, Control!Codes, ControlProofs!Lambdas,
         Control!Lambdas, ControlProofs!ReadLambdas, Control!ReadLambdas
<1> QED
  BY <1>1, <1>2 DEF DataProofs!TypeOK, ControlProofs!TypeOK, Busy

\* Nothing is left to run once nothing refers to the session.
LEMMA ReadingEnded ==
  ASSUME Coupled, Unreferenced PROVE command \notin Busy
  BY EmptyNone DEF Coupled, Unreferenced

-----------------------------------------------------------------------------
(***************************************************************************)
(* Each step is a step of the data connections, or leaves them.  Only      *)
(* destroying the session is more than one of their actions: it must be    *)
(* one in which they know the command connection has ended.                *)
(***************************************************************************)
LEMMA DataStep ==
  ASSUME DataInv, ControlInv, Coupled, [Next]_vars
  PROVE  [Data!Next]_(Data!vars)
<1>1. ASSUME UNCHANGED <<dataVars, command_socket>>,
             session' = session \/ (session = "starting" /\ session' = "alive")
      PROVE  UNCHANGED Data!vars
  BY <1>1 DEF dataVars, Data!vars, Data!acceptVars, Data!transferVars,
              Data!commandVars
<1>2. CASE Greet
  BY <1>1, <1>2 DEF Greet
<1>3. CASE Client \/ Reading
  BY <1>1, <1>3 DEF Client, Reading, DataUnchanged
<1>4. CASE ClientResets
  BY <1>4 DEF ClientResets, Data!Next, Data!System
<1>5. CASE Writing
  <2>1. Data!ClientResets \/ DataUnchanged
    BY <1>5 DEF Writing
  <2> QED
    BY <1>1, <2>1 DEF DataUnchanged, Data!Next, Data!System
<1>6. CASE Replies
  <2>1. Data!CloseCommandSocket \/ DataUnchanged
    BY <1>6 DEF Replies
  <2> QED
    BY <1>1, <2>1 DEF DataUnchanged, Data!Next, Data!CommandStrand
<1>7. CASE \/ PasvUnderWay \/ PasvReplies \/ PasvTerminate \/ CheckTransfer
           \/ HandleTransfer \/ HandleQuit \/ ReadErrorHandler
  <2>1. Data!CommandStrand
    BY <1>7 DEF PasvUnderWay, PasvReplies, PasvTerminate, CheckTransfer,
                HandleTransfer, HandleQuit, ReadErrorHandler,
                Data!CommandStrand
  <2> QED
    BY <2>1 DEF Data!Next
<1>8. CASE TransferEnds \/ TransferRuns
  <2>1. Data!DataStrand \/ \E t \in Data!Transfers : Data!SendFileHandler(t)
    BY <1>8 DEF TransferEnds, TransferRuns, Data!DataStrand
  <2> QED
    BY <2>1 DEF Data!Next, Data!System
<1>9. CASE Connect \/ AcceptCompletes \/ AcceptErrs
  BY <1>9 DEF Connect, AcceptCompletes, AcceptErrs, Data!Next, Data!System
<1>10. ASSUME NEW t \in Data!Transfers, DataIO(t) \/ ReceiveEnds(t)
       PROVE  Data!Next
  BY <1>10 DEF DataIO, ReceiveEnds, Data!Next, Data!System
<1>11. CASE Destroy
  <2>1. /\ Unreferenced /\ session = "alive" /\ session' = "destroyed"
        /\ command_socket' = "closed" /\ Data!CloseDataAcceptor
        /\ UNCHANGED <<command, ipv6, pasvs, announced, data_strand, kind, peer,
                       port, data_socket, io, data_buffer, weak, replies,
                       pipelined>>
    BY <1>11 DEF Destroy
  <2>2. command \notin Busy /\ command # "terminated"
    BY <2>1, ReadingEnded DEF Coupled
  <2>3. command = "quit" => command_socket # "open"
    BY <2>1, EmptyNone DEF Coupled, Unreferenced
  <2>4. Data!Unreferenced
    BY <2>1, <2>2, <2>3, Types DEF Unreferenced, Data!Unreferenced
  <2>5. Data!Destroy
    BY <2>1, <2>4 DEF Data!Destroy, Data!transferVars
  <2> QED
    BY <2>5 DEF Data!Next
<1>12. CASE UNCHANGED vars
  BY <1>1, <1>12 DEF vars
<1> QED
  BY <1>2, <1>3, <1>4, <1>5, <1>6, <1>7, <1>8, <1>9, <1>10, <1>11, <1>12
     DEF Next, Server, CommandStrand, DataStrand

-----------------------------------------------------------------------------
(***************************************************************************)
(* Each step is a step of the control connection, or leaves it.  What it   *)
(* calls transfers are those that got their 150 and are in hand: of the    *)
(* steps of the data connections, those that post a completion reply end   *)
(* one of them, and no other adds one.                                     *)
(***************************************************************************)
Replying == {t \in Data!Transfers : Data!Unanswered(t) /\ InHand(t)}

LEMMA ReplyingFinite ==
  /\ IsFiniteSet(Replying) /\ Cardinality(Replying) \in Nat
  /\ IsFiniteSet(Replying') /\ Cardinality(Replying') \in Nat
<1>1. IsFiniteSet(Data!Transfers)
  BY FS_Interval, BoundsAssumption DEF Data!Transfers
<1>2. Replying \in SUBSET Data!Transfers /\ Replying' \in SUBSET Data!Transfers
  BY DEF Replying, Data!Transfers
<1> QED
  BY <1>1, <1>2, FS_Subset, FS_CardinalityType

\* What the control connection knows of the session.
ControlSession == IF session = "terminated"
                  THEN IF Greeted THEN "alive" ELSE "starting"
                  ELSE session

\* Fewer transfers, and nothing else, is a step or none.
LEMMA FewerTransfers ==
  ASSUME UNCHANGED controlVars,
         session' = session \/ ControlSession' = ControlSession,
         command_socket' = "closed" <=> command_socket = "closed",
         Replying' \subseteq Replying
  PROVE  [Control!Next]_(Control!vars)
<1> DEFINE n == Cardinality(Replying)
<1>1. n \in Nat /\ n' \in Nat /\ n' <= n
  BY ReplyingFinite, FS_Subset
<1>2. UNCHANGED <<input, sent, client, reading, command_strand,
                  command_output_queue, writing, shutdown_requested, posted,
                  wire>>
  BY DEF controlVars
<1>3. ControlSession' = ControlSession
  BY <1>2 DEF Greeted, ControlSession
<1>4. CASE n' = n
  BY <1>2, <1>3, <1>4
     DEF Control!vars, Control!clientVars, Control!writeVars, Replying,
         ControlSession
<1>5. CASE n' # n
  <2>1. n > 0 /\ n' \in 0 .. n - 1
    BY <1>1, <1>5
  <2>2. Control!TransferDropped
    BY <1>2, <1>3, <2>1
       DEF Control!TransferDropped, Control!clientVars, Control!writeVars,
           Replying, ControlSession
  <2> QED
    BY <2>2 DEF Control!Next, Control!Transfer
<1> QED
  BY <1>4, <1>5

\* ... and of what their proofs call them.
LEMMA DataProofsStep ==
  ASSUME DataInv, ControlInv, Coupled, [Next]_vars
  PROVE  [DataProofs!Next]_(DataProofs!vars)
<1>1. CASE Data!Next
  BY <1>1, SameData
<1>2. CASE UNCHANGED Data!vars
  BY <1>2 DEF Data!vars, Data!acceptVars, Data!transferVars, Data!commandVars,
              DataProofs!vars, DataProofs!acceptVars, DataProofs!transferVars,
              DataProofs!commandVars
<1> QED
  BY <1>1, <1>2, DataStep

LEMMA DataInvStep ==
  ASSUME DataInv, ControlInv, Coupled, [Next]_vars
  PROVE  DataInv' /\ data_strand' \in Seq(DataProofs!Handlers)
<1>1. DataInv'
  BY DataProofsStep, DataProofs!TransferStep, BoundsAssumption DEF DataInv
<1> QED
  BY <1>1 DEF DataInv, DataProofs!TransferInv, DataProofs!StrandInv,
              DataProofs!TypeOK

\* No step but an accept begins a transfer.
LEMMA NoNewTransfer ==
  ASSUME DataInv, ControlInv, Coupled, [Next]_vars,
         ~Data!AcceptDataConnection
  PROVE  Replying' \subseteq Replying
<1>1. /\ DataProofs!TypeOK
      /\ [DataProofs!Next]_(DataProofs!vars)
      /\ ~DataProofs!AcceptDataConnection
      /\ DataProofs!Transfers = Data!Transfers
  BY DataProofsStep, SameTerms
     DEF DataInv, DataProofs!TransferInv, DataProofs!StrandInv,
         DataProofs!Transfers, Data!Transfers
<1>2. ASSUME NEW t \in Data!Transfers, Data!Unanswered(t)', InHand(t)'
      PROVE  Data!Unanswered(t) /\ InHand(t)
  <2>1. DataProofs!Unanswered(t)' /\ DataProofs!InHand(t)'
    BY <1>2, DataInvStep, SameHandsNext
  <2>2. DataProofs!Unanswered(t) /\ DataProofs!InHand(t)
    BY <1>1, <2>1, DataProofs!OtherStep, BoundsAssumption
  <2> QED
    BY <2>2, SameHands, Types
<1> QED
  BY <1>2 DEF Replying, Data!Transfers

\* A completion reply ends one.
LEMMA OneTransferLess ==
  ASSUME DataInv, ControlInv, Coupled, [Next]_vars, DataProofs!Completes
  PROVE  \E u \in Replying : Replying' = Replying \ {u}
<1>1. DataProofs!StrandInv /\ DataProofs!Transfers = Data!Transfers
  BY DEF DataInv, DataProofs!TransferInv, DataProofs!Transfers, Data!Transfers
<1>2. PICK u \in Data!Transfers :
        /\ DataProofs!Unanswered(u) /\ DataProofs!InHand(u)
        /\ ~DataProofs!Unanswered(u)'
        /\ \A t \in Data!Transfers \ {u} :
             /\ DataProofs!Unanswered(t)' <=> DataProofs!Unanswered(t)
             /\ DataProofs!InHand(t)' <=> DataProofs!InHand(t)
  BY <1>1, DataProofs!CompletionStep, BoundsAssumption
<1>3. ASSUME NEW t \in Data!Transfers
      PROVE  /\ DataProofs!Unanswered(t) <=> Data!Unanswered(t)
             /\ DataProofs!InHand(t) <=> InHand(t)
             /\ DataProofs!Unanswered(t)' <=> Data!Unanswered(t)'
             /\ DataProofs!InHand(t)' <=> InHand(t)'
  BY DataInvStep, SameHands, SameHandsNext, Types
<1>4. u \in Replying /\ u \notin Replying'
  BY <1>2, <1>3 DEF Replying
<1>5. \A t \in Data!Transfers \ {u} : t \in Replying' <=> t \in Replying
  BY <1>2, <1>3 DEF Replying, Data!Transfers
<1>6. Replying \subseteq Data!Transfers /\ Replying' \subseteq Data!Transfers
  BY DEF Replying, Data!Transfers
<1> QED
  BY <1>4, <1>5, <1>6

\* Another reply than the greeting does not greet.
LEMMA GreetedStep ==
  ASSUME posted \in Seq(Control!Codes), NEW c \in Control!Codes,
         posted' = Append(posted, c)
  PROVE  Greeted' <=> Greeted \/ c = "220"
<1>1. /\ DOMAIN posted = 1 .. Len(posted) /\ Len(posted) \in Nat
      /\ DOMAIN posted' = 1 .. Len(posted) + 1
      /\ \A i \in 1 .. Len(posted) : posted'[i] = posted[i]
      /\ posted'[Len(posted) + 1] = c
  BY AppendFacts
<1>2. \A i \in 1 .. Len(posted) + 1 :
        i \in 1 .. Len(posted) \/ i = Len(posted) + 1
  BY <1>1
<1>3. /\ Len(posted) + 1 \in 1 .. Len(posted) + 1
      /\ \A i \in 1 .. Len(posted) : i \in 1 .. Len(posted) + 1
  BY <1>1
<1> QED
  BY <1>1, <1>2, <1>3 DEF Greeted

LEMMA ControlStep ==
  ASSUME DataInv, ControlInv, Coupled, [Next]_vars
  PROVE  [Control!Next]_(Control!vars)
<1>1. ASSUME Control!CommandStrand \/ Control!Client \/ Control!Network
      PROVE  Control!Next
  BY <1>1 DEF Control!Next
<1>2. CASE Greet
  BY <1>2 DEF Greet, Control!Next
<1>3. CASE Client
  BY <1>1, <1>3 DEF Client, Control!Client, Control!Commands
<1>4. CASE Reading \/ Writing
  BY <1>1, <1>4 DEF Reading, Writing, Control!Network
<1>5. CASE \/ Replies \/ PasvReplies \/ HandleTransfer \/ HandleQuit
           \/ ReadErrorHandler
  BY <1>1, <1>5 DEF Replies, PasvReplies, HandleTransfer, HandleQuit,
                    ReadErrorHandler, Control!CommandStrand
<1>6. CASE ClientResets
  <2>1. /\ UNCHANGED <<controlVars, session>>
        /\ command_socket = "open" /\ command_socket' = "broken"
        /\ Data!ClientResets
    BY <1>6 DEF ClientResets, ControlUnchanged, Data!ClientResets
  <2>2. Replying' = Replying
    BY <2>1 DEF Replying, Data!ClientResets, Data!acceptVars,
                Data!transferVars, Data!Unanswered, InHand, Data!Transfers
  <2> QED
    BY <2>1, <2>2, FewerTransfers
<1>7. CASE PasvUnderWay \/ CheckTransfer
  <2>1. /\ UNCHANGED <<controlVars, session, command_socket>>
        /\ command # "accept"
    BY <1>7 DEF PasvUnderWay, CheckTransfer, ControlUnchanged, Data!PasvOpen,
                Data!PasvBind, Data!PasvListen, Data!TransferChecked
  <2>2. ~Data!AcceptDataConnection
    BY <2>1 DEF Data!AcceptDataConnection
  <2> QED
    BY <2>1, <2>2, NoNewTransfer, FewerTransfers
<1>8. CASE TransferRuns \/ Connect \/ AcceptCompletes \/ AcceptErrs
  <2>1. UNCHANGED <<controlVars, session, command_socket, command>>
    BY <1>8
       DEF TransferRuns, Connect, AcceptCompletes, AcceptErrs, ControlUnchanged,
           Data!SendFile, Data!ReceiveFile, Data!SendDirectoryListing,
           Data!Connected, Data!AddDataToBufferAndSend, Data!WriteDataToSocket,
           Data!ListingWritten, Data!ReceivedChunk, Data!ReceivedLast,
           Data!CloseNewestDataSocket, Data!Connect, Data!AcceptCompletes,
           Data!AcceptErrs, Data!AcceptPosted, Data!commandVars
  <2>2. ~Data!AcceptDataConnection
    BY <2>1 DEF Data!AcceptDataConnection
  <2> QED
    BY <2>1, <2>2, NoNewTransfer, FewerTransfers
<1>9. ASSUME NEW t \in Data!Transfers, DataIO(t) \/ ReceiveEnds(t)
      PROVE  [Control!Next]_(Control!vars)
  <2>1. UNCHANGED <<controlVars, session, command_socket, command>>
    BY <1>9
       DEF DataIO, ReceiveEnds, ControlUnchanged, Data!SendCompletes,
           Data!ListingWriteCompletes, Data!ReceiveCompletes, Data!commandVars
  <2>2. ~Data!AcceptDataConnection
    BY <2>1 DEF Data!AcceptDataConnection
  <2> QED
    BY <2>1, <2>2, NoNewTransfer, FewerTransfers
<1>10. CASE TransferEnds
  <2> DEFINE n == Cardinality(Replying)
  <2>1. DataProofs!Completes
    BY <1>10, SameTerms DEF TransferEnds
  <2>2. PICK u \in Replying : Replying' = Replying \ {u}
    BY <2>1, OneTransferLess
  <2>3. n \in Nat /\ n # 0 /\ n' = n - 1
    BY <2>2, ReplyingFinite, FS_RemoveElement, FS_EmptySet
  <2>4. /\ Control!SendFtpMessage(command_strand, "226")
        /\ UNCHANGED <<input, sent, client, reading, command_output_queue,
                       writing, shutdown_requested, wire, session,
                       command_socket>>
    BY <1>10
       DEF TransferEnds, Data!AcceptFailed, Data!Rejected, Data!SendEmptyFile,
           Data!Connected, Data!EndOfListing, Data!EndDataReceiving,
           Data!SendFileHandler, Data!commandVars
  <2>5. posted \in Seq(Control!Codes) /\ posted' = Append(posted, "226")
    BY <2>4, Types DEF Control!SendFtpMessage
  <2>6. Greeted' <=> Greeted
    BY <2>5, GreetedStep DEF Control!Codes
  <2>7. Control!TransferReplies
    BY <2>3, <2>4, <2>6
       DEF Control!TransferReplies, Control!clientVars, Control!writeVars,
           Replying
  <2> QED
    BY <2>7 DEF Control!Next, Control!Transfer
<1>11. CASE PasvTerminate /\ ~Terminated
  <2>1. /\ UNCHANGED <<controlVars, command_socket>>
        /\ session' = "terminated" /\ command = "announce"
        /\ session # "terminated"
    BY <1>11 DEF PasvTerminate, Data!PasvTerminate, Terminated
  <2>2. ~Data!AcceptDataConnection
    BY <2>1 DEF Data!AcceptDataConnection
  <2>3. session # "destroyed"
    BY <2>1, ReadingEnded DEF Coupled, Busy
  <2>4. Greeted' <=> Greeted
    BY <2>1 DEF Greeted, controlVars
  <2>5. ControlSession' = ControlSession
    BY <2>1, <2>3, <2>4 DEF ControlSession, Coupled
  <2> QED
    BY <2>1, <2>2, <2>5, NoNewTransfer, FewerTransfers
<1>12. CASE Destroy
  <2>1. /\ session = "alive" /\ session' = "destroyed" /\ Unreferenced
        /\ command_socket' = "closed" /\ accepting' = <<>>
        /\ UNCHANGED <<controlVars, data_strand, io, replies>>
    BY <1>12 DEF Destroy, Data!CloseDataAcceptor
  <2>2. Replying = {} /\ Replying' = {}
    BY <2>1 DEF Replying, Unreferenced, InHand, Data!Transfers
  <2>3. Cardinality(Replying) = 0 /\ Cardinality(Replying') = 0
    BY <2>2, FS_EmptySet
  <2>4. Control!Destroy
    BY <2>1, <2>3
       DEF Control!Destroy, Control!clientVars, Control!writeVars, Replying,
           Unreferenced, controlVars
  <2> QED
    BY <2>4 DEF Control!Next
<1>13. CASE UNCHANGED vars
  BY <1>13 DEF vars, controlVars, dataVars, Control!vars, Control!clientVars,
               Control!writeVars, Greeted, InHand, Data!Unanswered,
               Data!Transfers
<1> QED
  BY <1>2, <1>3, <1>4, <1>5, <1>6, <1>7, <1>8, <1>9, <1>10, <1>11, <1>12,
     <1>13 DEF Next, Server, CommandStrand, DataStrand

-----------------------------------------------------------------------------
(***************************************************************************)
(* Each step keeps the invariants of the parts, and what couples them.     *)
(***************************************************************************)
LEMMA ControlInvStep ==
  ASSUME DataInv, ControlInv, Coupled, [Next]_vars
  PROVE  ControlInv'
<1>1. [ControlProofs!Next]_(ControlProofs!vars)
  <2>1. CASE Control!Next
    BY <2>1, SameControl
  <2>2. CASE UNCHANGED Control!vars
    BY <2>2 DEF Control!vars, Control!clientVars, Control!writeVars,
                ControlProofs!vars, ControlProofs!clientVars,
                ControlProofs!writeVars
  <2> QED
    BY <2>1, <2>2, ControlStep
<1>2. ControlProofs!TypeOK'
  BY <1>1, ControlProofs!TypeStep, BoundsAssumption DEF ControlInv
<1>3. ControlProofs!WriteInv'
  BY <1>1, ControlProofs!WriteStep, BoundsAssumption DEF ControlInv
<1>4. ControlProofs!OrderInv'
  BY <1>1, ControlProofs!OrderStep, BoundsAssumption DEF ControlInv
<1> QED
  BY <1>2, <1>3, <1>4 DEF ControlInv

\* A session to which something refers is not destroyed.
LEMMA NotDestroyed ==
  ASSUME Coupled,
         \/ reading \/ writing \/ command_strand # <<>> \/ data_strand # <<>>
         \/ accepting # <<>> \/ data_acceptor # "closed" \/ command \in Busy
         \/ \E t \in Data!Transfers : io[t] # "none"
  PROVE  session # "destroyed"
  BY ReadingEnded DEF Coupled, Unreferenced

\* Running the first handler of the command strand.
LEMMA Runs ==
  ASSUME DataInv, ControlInv, NEW run, Control!First(run)
  PROVE  /\ command_strand # <<>>
         /\ Tail(command_strand) \in Seq(Control!Handlers)
         /\ \A runs : run \in runs => ~None(command_strand, runs)
         /\ \A runs : run \notin runs =>
              (None(Tail(command_strand), runs) <=> None(command_strand, runs))
<1>1. /\ command_strand \in Seq(Control!Handlers)
      /\ command_strand # <<>> /\ Head(command_strand).run = run
  BY Types DEF Control!First
<1>2. /\ 1 \in DOMAIN command_strand
      /\ command_strand[1] = Head(command_strand)
      /\ Tail(command_strand) \in Seq(Control!Handlers)
  BY <1>1, TailFacts
<1> QED
  BY <1>1, <1>2, TailNone DEF None

\* Posting a handler to it.
LEMMA Posts ==
  ASSUME NEW s \in Seq(Control!Handlers), NEW run \in Control!Lambdas,
         NEW n \in Nat, NEW runs
  PROVE  None(Append(s, Control!Handler(run, n)), runs)
           <=> None(s, runs) /\ run \notin runs
<1>1. /\ Control!Handler(run, n) \in Control!Handlers
      /\ Control!Handler(run, n).run = run
  BY DEF Control!Handler, Control!Handlers
<1> QED
  BY <1>1, AppendNone

\* A reply posted from what is left of the command strand.
LEMMA SendsReply ==
  ASSUME DataInv, ControlInv, NEW s \in Seq(Control!Handlers),
         NEW c \in Control!Codes, Control!SendFtpMessage(s, c)
  PROVE  /\ ~None(command_strand', {"push"})
         /\ None(command_strand', Reads) <=> None(s, Reads)
         /\ None(command_strand', {"written"}) <=> None(s, {"written"})
         /\ Greeted' <=> Greeted \/ c = "220"
<1>1. posted \in Seq(Control!Codes) /\ Len(posted) + 1 \in Nat
  BY Types
<1>2. command_strand' = Append(s, Control!Handler("push", Len(posted) + 1))
  BY DEF Control!SendFtpMessage
<1>3. "push" \in Control!Lambdas
  BY DEF Control!Lambdas
<1>4. \A runs : None(command_strand', runs)
                  <=> None(s, runs) /\ "push" \notin runs
  BY <1>1, <1>2, <1>3, Posts
<1>5. Greeted' <=> Greeted \/ c = "220"
  BY <1>1, GreetedStep DEF Control!SendFtpMessage
<1> QED
  BY <1>4, <1>5 DEF Reads

LEMMA CoupledStep ==
  ASSUME DataInv, ControlInv, Coupled, [Next]_vars
  PROVE  Coupled'
<1> USE DEF dataVars, controlVars
<1>1. command_strand \in Seq(Control!Handlers)
  BY Types
<1>2. \A c \in {"220", "200", "150", "226", "221"} : c \in Control!Codes
  BY DEF Control!Codes
<1>3. CASE Greet
  <2>1. /\ session' = "alive"
        /\ Control!SendFtpMessage(command_strand, "220")
        /\ UNCHANGED <<reading, writing, command_output_queue,
                       shutdown_requested, command, command_socket>>
    BY <1>3 DEF Greet, Control!Greet, Control!writeVars
  <2>2. session = "starting"
    BY <1>3 DEF Greet
  <2> QED
    BY <1>1, <1>2, <2>1, <2>2, SendsReply DEF Coupled
<1>4. CASE Client
  <2>1. UNCHANGED <<reading, writing, command_output_queue, posted,
                    command_strand, shutdown_requested, session, dataVars,
                    command_socket>>
    BY <1>4 DEF Client, DataUnchanged, Control!ClientSends,
                Control!ClientCloses, Control!writeVars
  <2> QED
    BY <2>1 DEF Coupled, Greeted, Unreferenced, Data!Transfers
<1>5. CASE ClientResets
  <2>1. /\ UNCHANGED <<controlVars, session, command>>
        /\ command_socket' = "broken"
    BY <1>5 DEF ClientResets, ControlUnchanged, Data!ClientResets
  <2>2. session # "destroyed"
    BY <1>5 DEF ClientResets, Data!ClientResets
  <2> QED
    BY <2>1, <2>2 DEF Coupled, Greeted
<1>6. CASE Reading
  <2>1. PICK run \in Reads :
          /\ reading
          /\ command_strand' = Append(command_strand, Control!Handler(run, 0))
          /\ UNCHANGED <<session, dataVars, command_socket, writing, posted,
                         command_output_queue, shutdown_requested>>
    <3>1. CASE Control!ReadCompletes
      <4>1. Head(input) \in Reads
        BY <3>1, Types, TailFacts
           DEF Control!ReadCompletes, Control!Commands, Reads
      <4> QED
        BY <1>6, <3>1, <4>1
           DEF Reading, DataUnchanged, Control!ReadCompletes,
               Control!writeVars
    <3>2. CASE Control!ReadFails
      BY <1>6, <3>2
         DEF Reading, DataUnchanged, Control!ReadFails, Control!writeVars,
             Reads
    <3> QED
      BY <1>6, <3>1, <3>2 DEF Reading
  <2>2. run \in Control!Lambdas
    BY DEF Reads, Control!Lambdas, Control!ReadLambdas, Control!Commands
  <2>3. \A runs : None(command_strand', runs)
                    <=> None(command_strand, runs) /\ run \notin runs
    BY <1>1, <2>1, <2>2, Posts
  <2>4. run \notin {"push"} /\ run \notin {"written"}
    BY DEF Reads
  <2>5. session # "destroyed"
    BY <2>1, NotDestroyed
  <2> QED
    BY <2>1, <2>3, <2>4, <2>5 DEF Coupled, Greeted
<1>7. CASE Writing
  <2>1. PICK run \in {"written", "writeerror"} :
          /\ writing
          /\ command_strand' = Append(command_strand, Control!Handler(run, 0))
          /\ run = "writeerror" => command_socket' # "open"
          /\ command_socket' = "open" => command_socket = "open"
          /\ UNCHANGED <<session, command, reading, posted,
                         command_output_queue, shutdown_requested>>
    BY <1>7
       DEF Writing, DataUnchanged, Control!WriteCompletes, Control!WriteFails,
           Data!ClientResets, Control!clientVars
  <2>2. run \in Control!Lambdas
    BY DEF Control!Lambdas
  <2>3. \A runs : None(command_strand', runs)
                    <=> None(command_strand, runs) /\ run \notin runs
    BY <1>1, <2>1, <2>2, Posts
  <2>4. run \notin {"push"} /\ run \notin Reads
    BY DEF Reads
  <2>5. session # "destroyed"
    BY <2>1, NotDestroyed
  <2>6. run \in {"written"} \/ command_socket' # "open"
    BY <2>1
  <2> QED
    BY <2>1, <2>3, <2>4, <2>5, <2>6 DEF Coupled, Greeted
<1>8. CASE Replies
  <2>1. CASE DataUnchanged /\ Control!StartReading
    BY <2>1, Runs, NotDestroyed
       DEF DataUnchanged, Control!StartReading, Control!writeVars, Coupled,
           Greeted
  <2>2. CASE DataUnchanged /\ Control!PushReply
    <3>1. /\ Control!First("push")
          /\ command_strand' = Tail(command_strand)
          /\ command_output_queue' # <<>>
          /\ writing' = (writing \/ command_output_queue = <<>>)
          /\ UNCHANGED <<reading, shutdown_requested, posted, session,
                         command, command_socket>>
      <4>1. Head(command_strand) \in Control!Handlers
        BY <2>2, Types, TailFacts DEF Control!PushReply, Control!First
      <4>2. Head(command_strand).n \in Nat
        BY <4>1 DEF Control!Handlers
      <4>3. command_output_queue \in Seq(Nat)
        BY Types
      <4>4. Append(command_output_queue, Head(command_strand).n) # <<>>
        BY <4>2, <4>3, AppendFacts
      <4> QED
        BY <2>2, <4>4
           DEF DataUnchanged, Control!PushReply, Control!PushBack,
               Control!NoWriteInProgress
    <3>2. session # "destroyed"
      BY <3>1, Runs, NotDestroyed
    <3>3. "push" \notin Reads /\ "push" \notin {"written"}
      BY DEF Reads
    <3> QED
      BY <3>1, <3>2, <3>3, Runs DEF Coupled, Greeted
  <2>3. CASE DataUnchanged /\ Control!WriteError
    <3>1. /\ Control!First("writeerror")
          /\ command_strand' = Tail(command_strand)
          /\ UNCHANGED <<reading, writing, command_output_queue, posted,
                         shutdown_requested, session, command, command_socket>>
      BY <2>3 DEF DataUnchanged, Control!WriteError, Control!writeVars
    <3>2. session # "destroyed"
      BY <3>1, Runs, NotDestroyed
    <3>3. "writeerror" \notin Reads \cup {"push", "written"}
      BY DEF Reads
    <3> QED
      BY <3>1, <3>2, <3>3, Runs DEF Coupled, Greeted
  <2>4. CASE Control!Written
    <3>1. /\ Control!First("written")
          /\ command_strand' = Tail(command_strand)
          /\ UNCHANGED <<reading, posted, shutdown_requested, session,
                         command>>
      BY <1>8, <2>4
         DEF Replies, DataUnchanged, Data!CloseCommandSocket,
             Control!StartReading, Control!PushReply, Control!WriteError,
             Control!Written, Control!First
    <3>2. session # "destroyed"
      BY <3>1, Runs, NotDestroyed
    <3>3. "written" \notin Reads /\ "written" \notin {"push"}
      BY DEF Reads
    <3>4. shutdown_requested => command_socket' = "closed"
      BY <2>4, Types DEF Control!Written, Control!CloseAfterQuit
    <3>5. command_output_queue' # <<>> /\ ~shutdown_requested => writing'
      <4>1. command_output_queue \in Seq(Nat) /\ command_output_queue # <<>>
        <5>1. ~None(command_strand, ControlProofs!Ends)
          BY <3>1, Runs DEF ControlProofs!Ends
        <5> QED
          BY <5>1, Types DEF ControlInv, ControlProofs!WriteInv,
                             ControlProofs!None, None
      <4>2. Len(command_output_queue) <= 1 => Tail(command_output_queue) = <<>>
        BY <4>1
      <4>3. Len(command_output_queue) \in Nat
        BY <4>1
      <4>4. /\ command_output_queue' = Tail(command_output_queue)
            /\ ~shutdown_requested /\ Len(command_output_queue) > 1 => writing'
        BY <2>4
           DEF Control!Written, Control!CloseAfterQuit, Control!RepliesLeft
      <4> QED
        BY <4>2, <4>3, <4>4
    <3> QED
      BY <3>1, <3>2, <3>3, <3>4, <3>5, Runs, Types DEF Coupled, Greeted
  <2> QED
    BY <1>8, <2>1, <2>2, <2>3, <2>4 DEF Replies
<1>9. CASE PasvUnderWay \/ CheckTransfer
  <2>1. PICK run \in Reads :
          /\ Control!First(run)
          /\ UNCHANGED <<controlVars, session, command_socket>>
          /\ command \in Busy /\ command' \in Busy
    BY <1>9
       DEF PasvUnderWay, CheckTransfer, ControlUnchanged, Data!PasvOpen,
           Data!PasvBind, Data!PasvListen, Data!TransferChecked, Reads, Busy
  <2>2. ~None(command_strand, Reads) /\ session # "destroyed"
    BY <2>1, Runs, NotDestroyed
  <2> QED
    BY <2>1, <2>2 DEF Coupled, Greeted, Busy
<1>10. CASE PasvReplies \/ HandleTransfer
  <2>1. PICK run \in Reads, c \in Control!Codes \ {"220"} :
          /\ Control!First(run)
          /\ Control!SendFtpMessage(Tail(command_strand), c)
          /\ reading' = ~shutdown_requested'
          /\ command \in Busy /\ command' \in Busy
          /\ UNCHANGED <<session, writing, command_output_queue,
                         shutdown_requested, command_socket>>
    BY <1>10, <1>2
       DEF PasvReplies, HandleTransfer, Data!PasvFail, Data!PasvAnnounce,
           Data!AcceptDataConnection, Control!HandleCommand,
           Control!HandleTransfer, Control!WaitForNextCommand,
           Control!writeVars, Reads, Busy
  <2>2. session # "destroyed"
    BY <2>1, NotDestroyed
  <2>3. ~shutdown_requested /\ reading'
    BY <2>1, Types DEF Coupled, Busy
  <2>4. run \notin {"written"}
    BY DEF Reads
  <2> QED
    BY <2>1, <2>2, <2>3, <2>4, Runs, SendsReply DEF Coupled, Busy
<1>11. CASE PasvTerminate
  <2>1. /\ UNCHANGED <<controlVars, command_socket>>
        /\ session' = "terminated" /\ command' = "terminated"
        /\ command = "announce"
    BY <1>11 DEF PasvTerminate, Data!PasvTerminate
  <2> QED
    BY <2>1 DEF Coupled, Busy
<1>12. CASE HandleQuit
  <2>1. /\ Control!First("QUIT")
        /\ Control!SendFtpMessage(Tail(command_strand), "221")
        /\ shutdown_requested' = TRUE
        /\ command = "reading" /\ command' = "quit"
        /\ UNCHANGED <<session, writing, command_output_queue, command_socket>>
    BY <1>12 DEF HandleQuit, Data!Quit, Control!HandleQuit, Control!writeVars
  <2>2. session # "destroyed"
    BY <2>1, NotDestroyed DEF Busy
  <2>3. /\ Tail(command_strand) \in Seq(Control!Handlers)
        /\ None(Tail(command_strand), {"written"})
             <=> None(command_strand, {"written"})
    BY <2>1, Runs
  <2>4. /\ ~None(command_strand', {"push"})
        /\ None(command_strand', {"written"})
             <=> None(command_strand, {"written"})
        /\ Greeted' <=> Greeted
    BY <1>2, <2>1, <2>3, SendsReply
  <2>5. shutdown_requested' /\ (command' = "quit")
    BY <2>1
  <2> QED
    BY <2>1, <2>2, <2>4, <2>5 DEF Coupled, Busy
<1>13. CASE ReadErrorHandler
  <2>1. /\ Control!First("readerror")
        /\ command_strand' = Tail(command_strand)
        /\ command = "reading" /\ command' = "ended"
        /\ UNCHANGED <<session, reading, writing, command_output_queue, posted,
                       shutdown_requested, command_socket>>
    BY <1>13 DEF ReadErrorHandler, Data!CommandReadError,
                 Control!ReadErrorHandler, Control!writeVars
  <2>2. session # "destroyed"
    BY <2>1, NotDestroyed DEF Busy
  <2> QED
    BY <2>1, <2>2, Runs DEF Coupled, Busy, Greeted
<1>14. CASE TransferEnds
  <2>1. /\ Control!SendFtpMessage(command_strand, "226")
        /\ data_strand # <<>> \/ \E t \in Data!Transfers : io[t] # "none"
        /\ UNCHANGED <<reading, command_output_queue, writing, session,
                       shutdown_requested, command, command_socket>>
    BY <1>14
       DEF TransferEnds, Data!AcceptFailed, Data!Rejected, Data!SendEmptyFile,
           Data!Connected, Data!EndOfListing, Data!EndDataReceiving,
           Data!SendFileHandler, Data!First, Data!commandVars
  <2>2. session # "destroyed"
    BY <2>1, NotDestroyed
  <2> QED
    BY <1>1, <1>2, <2>1, <2>2, SendsReply DEF Coupled
<1>15. ASSUME \/ TransferRuns \/ Connect \/ AcceptCompletes \/ AcceptErrs
              \/ \E t \in Data!Transfers : DataIO(t) \/ ReceiveEnds(t)
       PROVE  Coupled'
  <2>1. /\ UNCHANGED <<controlVars, session, command, command_socket>>
        /\ \/ data_strand # <<>> \/ data_acceptor # "closed"
           \/ \E t \in Data!Transfers : io[t] # "none"
    BY <1>15
       DEF TransferRuns, Connect, AcceptCompletes, AcceptErrs, DataIO, ReceiveEnds,
           ControlUnchanged, Data!SendFile, Data!ReceiveFile,
           Data!SendDirectoryListing, Data!Connected,
           Data!AddDataToBufferAndSend, Data!WriteDataToSocket,
           Data!ListingWritten, Data!ReceivedChunk, Data!ReceivedLast,
           Data!CloseNewestDataSocket, Data!Connect, Data!AcceptCompletes,
           Data!AcceptErrs, Data!AcceptPosted, Data!SendCompletes,
           Data!ListingWriteCompletes,
           Data!ReceiveCompletes, Data!First, Data!commandVars
  <2>2. session # "destroyed"
    BY <2>1, NotDestroyed
  <2> QED
    BY <2>1, <2>2 DEF Coupled, Greeted
<1>16. CASE Destroy
  <2>1. /\ session = "alive" /\ session' = "destroyed" /\ Unreferenced
        /\ command_socket' = "closed" /\ data_acceptor' = "closed"
        /\ accepting' = <<>>
        /\ UNCHANGED <<controlVars, command, data_strand, io>>
    BY <1>16 DEF Destroy, Data!CloseDataAcceptor
  <2>2. Unreferenced'
    BY <2>1 DEF Unreferenced, Data!Transfers
  <2>3. command \notin Busy
    BY <2>1, ReadingEnded
  <2> QED
    BY <2>1, <2>2, <2>3 DEF Coupled, Greeted
<1>17. CASE UNCHANGED vars
  BY <1>17 DEF vars, Coupled, Greeted, Unreferenced, Data!Transfers
<1> QED
  BY <1>3, <1>4, <1>5, <1>6, <1>7, <1>8, <1>9, <1>10, <1>11, <1>12, <1>13,
     <1>14, <1>15, <1>16, <1>17 DEF Next, Server, CommandStrand, DataStrand

-----------------------------------------------------------------------------
(***************************************************************************)
(* The invariant of the whole session, and the theorems.                   *)
(***************************************************************************)
SessionInv == DataInv /\ ControlInv /\ Coupled

LEMMA SessionInit == Init => SessionInv
<1> SUFFICES ASSUME Init PROVE SessionInv
  OBVIOUS
<1>1. DataInv
  BY SameData, DataProofs!TransferInit, BoundsAssumption DEF Init, DataInv
<1>2. ControlInv
  BY SameControl, ControlProofs!WriteInit, ControlProofs!OrderInit,
     BoundsAssumption DEF Init, ControlInv
<1>3. Coupled
  <2>1. /\ session = "starting" /\ posted = <<>> /\ command = "reading"
        /\ shutdown_requested = FALSE /\ command_output_queue = <<>>
        /\ command_strand = <<Control!Handler("start", 0)>>
    BY DEF Init, Control!Init, Data!Init
  <2>2. ~None(command_strand, Reads)
    BY <2>1 DEF None, Reads, Control!Handler
  <2>3. ~Greeted
    BY <2>1 DEF Greeted
  <2> QED
    BY <2>1, <2>2, <2>3 DEF Coupled
<1> QED
  BY <1>1, <1>2, <1>3 DEF SessionInv

LEMMA SessionStep == SessionInv /\ [Next]_vars => SessionInv'
  BY DataInvStep, ControlInvStep, CoupledStep DEF SessionInv

LEMMA SessionInvariant == Spec => []SessionInv
  BY SessionInit, SessionStep, PTL DEF Spec

(***************************************************************************)
(* The session implements its data connections: the commands come, the     *)
(* command socket is closed and the session is destroyed only in ways      *)
(* DataConnection, which leaves the control connection out, allows.        *)
(***************************************************************************)
THEOREM ImplementsDataConnection == Spec => DataSpec
<1>1. Init => Data!Init
  BY DEF Init
<1>2. SessionInv /\ [Next]_vars => [Data!Next]_(Data!vars)
  BY DataStep DEF SessionInv
<1> QED
  BY <1>1, <1>2, SessionInvariant, PTL DEF Spec, DataSpec, Data!Spec

(***************************************************************************)
(* The session implements its control connection: no transfer posts a      *)
(* completion reply before its 150 or more than one, which is all that     *)
(* ControlConnection assumes of the transfers.                             *)
(***************************************************************************)
THEOREM ImplementsControlConnection == Spec => ControlSpec
<1>1. Init => Control!Init
  BY DEF Init
<1>2. SessionInv /\ [Next]_vars => [Control!Next]_(Control!vars)
  BY ControlStep DEF SessionInv
<1> QED
  BY <1>1, <1>2, SessionInvariant, PTL DEF Spec, ControlSpec, Control!Spec

\* Once the command strand is empty every posted reply was taken to the queue.
LEMMA AllPushed ==
  ASSUME ControlInv, command_strand = <<>>
  PROVE  Len(posted) = Len(wire) + Len(command_output_queue)
<1>1. /\ Len(posted) \in Nat /\ Len(wire) \in Nat
      /\ Len(command_output_queue) \in Nat
  BY DEF ControlInv, ControlProofs!TypeOK
<1>2. ControlProofs!Queued = Len(wire) + Len(command_output_queue)
  BY DEF ControlProofs!Queued, ControlProofs!Popped, ControlProofs!None
<1>3. ControlProofs!Pushes(<<>>, ControlProofs!Queued, Len(posted))
  BY DEF ControlInv, ControlProofs!OrderInv
<1>4. /\ ControlProofs!Queued <= Len(posted)
      /\ \A n \in ControlProofs!Queued + 1 .. Len(posted) : FALSE
  BY <1>3 DEF ControlProofs!Pushes
<1>5. Len(posted) \notin ControlProofs!Queued + 1 .. Len(posted)
  BY <1>4
<1> QED
  BY <1>1, <1>2, <1>4, <1>5

(***************************************************************************)
(* A destroyed session owes its client nothing, whichever of the handlers  *)
(* and operations of the two connections was the last to refer to it:      *)
(* every file transfer has posted its completion reply, and every posted   *)
(* reply was sent or is queued behind one that could not be.               *)
(***************************************************************************)
THEOREM NothingIsOwed == Spec => []NothingOwed
<1>1. SessionInv => NothingOwed
  <2> SUFFICES ASSUME SessionInv, session = "destroyed"
               PROVE  /\ \A t \in 1 .. Len(kind) :
                           kind[t] \in Data!FileKinds => ~Data!Unanswered(t)
                      /\ Len(posted) = Len(wire) + Len(command_output_queue)
    BY DEF NothingOwed
  <2>1. Unreferenced /\ DataInv /\ ControlInv
    BY DEF SessionInv, Coupled
  <2>2. ASSUME NEW t \in 1 .. Len(kind), kind[t] \in Data!FileKinds
        PROVE  ~Data!Unanswered(t)
    <3>1. /\ t \in DataProofs!Transfers /\ t <= Len(kind)
          /\ kind[t] \in DataProofs!FileKinds
      <4>1. Len(kind) \in 0 .. MaxTransfers
        BY <2>1 DEF DataInv, DataProofs!TransferInv, DataProofs!StrandInv,
                    DataProofs!TypeOK
      <4> QED
        BY <2>2, <4>1, BoundsAssumption
           DEF DataProofs!Transfers, DataProofs!FileKinds, Data!FileKinds
    <3>2. ~InHand(t)
      BY <2>1, <3>1
         DEF Unreferenced, InHand, DataProofs!Transfers, Data!Transfers
    <3>3. DataProofs!OwedInv(t)
      BY <2>1, <3>1 DEF DataInv, DataProofs!TransferInv
    <3>4. ~DataProofs!InHand(t)
      BY <2>1, <3>2, SameHands, Types
    <3>5. ~DataProofs!Unanswered(t)
      BY <3>1, <3>3, <3>4 DEF DataProofs!OwedInv
    <3> QED
      BY <3>5 DEF DataProofs!Unanswered, Data!Unanswered
  <2>3. Len(posted) = Len(wire) + Len(command_output_queue)
    BY <2>1, AllPushed DEF Unreferenced
  <2> QED
    BY <2>2, <2>3
<1> QED
  BY <1>1, SessionInvariant, PTL
=============================================================================
