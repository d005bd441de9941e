------------------------ MODULE DataConnection_proofs ------------------------
(***************************************************************************)
(* Proofs about DataConnection, for any number of transfers, PASV commands *)
(* and waiting connections.                                                *)
(***************************************************************************)
EXTENDS DataConnection, HandlerQueues

-----------------------------------------------------------------------------
(***************************************************************************)
(* Types of the handlers that are run and posted.                          *)
(***************************************************************************)
Drivers == {"write", "listed"}

\* A handler posted for a transfer.
LEMMA PostedHandlers ==
  ASSUME NEW run \in Lambdas \ {"close"}, NEW t \in Transfers, NEW arg \in BOOLEAN
  PROVE  /\ Handler(run, t, arg) \in Handlers
         /\ Handler(run, t, arg).run = run
<1>1. t # 0
  BY BoundsAssumption DEF Transfers
<1> QED
  BY <1>1 DEF Handler, Handlers

\* The handler posted for none.
LEMMA CloseHandler == Handler("close", 0, TRUE) \in Handlers
                      /\ Handler("close", 0, TRUE).run \notin Drivers
  BY DEF Handler, Handlers, Lambdas, Drivers

\* The first handler, when one is run.
LEMMA RunHandlers ==
  ASSUME strand \in Seq(Handlers), strand # <<>>
  PROVE  /\ Head(strand) \in Handlers
         /\ Tail(strand) \in Seq(Handlers)
         /\ Head(strand).run \in Lambdas
         /\ Head(strand).arg \in BOOLEAN
         /\ Head(strand).t \in Transfers \cup {0}
         /\ Head(strand).run # "close" => Head(strand).t \in Transfers
         /\ Head(strand).run = "close" => Head(strand).t = 0
<1>1. Head(strand) \in Handlers /\ Tail(strand) \in Seq(Handlers)
  BY TailFacts
<1> QED
  BY <1>1 DEF Handlers

\* The handlers posted when the acceptor is closed.
LEMMA AbortedHandlers ==
  ASSUME accepting \in Seq(Transfers)
  PROVE  AbortedAccepts \in Seq(Handlers) /\ None(AbortedAccepts, Drivers)
<1>1. DOMAIN accepting = 1 .. Len(accepting) /\ Len(accepting) \in Nat
  OBVIOUS
<1>2. \A i \in 1 .. Len(accepting) :
        /\ Handler("accepted", accepting[i], FALSE) \in Handlers
        /\ Handler("accepted", accepting[i], FALSE).run = "accepted"
  <2>1. "accepted" \in Lambdas \ {"close"}
    BY DEF Lambdas
  <2>2. \A i \in 1 .. Len(accepting) : accepting[i] \in Transfers
    BY <1>1
  <2> QED
    BY <2>1, <2>2, PostedHandlers
<1>3. AbortedAccepts \in [1 .. Len(accepting) -> Handlers]
  BY <1>1, <1>2 DEF AbortedAccepts
<1>4. None(AbortedAccepts, Drivers)
  BY <1>1, <1>2 DEF AbortedAccepts, None, Drivers
<1> QED
  BY <1>1, <1>3, <1>4, ListedQueue

-----------------------------------------------------------------------------
(***************************************************************************)
(* The inductive invariant: types, and the one continuation of the chain   *)
(* of listing writes.  The types need the chain: what runs pops            *)
(* data_buffer, and the tail of an empty sequence has no type.             *)
(***************************************************************************)
ChainInv ==
  /\ AtMostOne(strand, Drivers)
  /\ \A t, u \in Transfers : io[t] = "list" /\ io[u] = "list" => t = u
  /\ ~None(strand, Drivers) => /\ data_buffer # <<>>
                               /\ \A t \in Transfers : io[t] # "list"
  /\ \A t \in Transfers : io[t] = "list" => data_buffer # <<>>

LEMMA TypeInit == Init => TypeOK
<1> SUFFICES ASSUME Init PROVE TypeOK
  OBVIOUS
<1> USE DEF Operations
<1>1. /\ pasvs \in 0 .. MaxPasv /\ announced \in 0 .. MaxPasv
      /\ kind \in Seq(Kinds) /\ Len(kind) \in 0 .. MaxTransfers
      /\ port \in [Transfers -> 0 .. MaxPasv]
  BY BoundsAssumption DEF Init
<1>2. replies \in [Transfers -> Seq(Replies)]
  BY DEF Init
<1>3. /\ backlog \in Seq({"client", "foreign"}) /\ accepting \in Seq(Transfers)
      /\ strand \in Seq(Handlers) /\ data_buffer \in Seq(Chunks)
  BY DEF Init
<1>4. /\ peer \in [Transfers -> {"none", "client", "foreign"}]
      /\ data_socket \in [Transfers -> {"none", "open", "closed"}]
      /\ io \in [Transfers -> Operations]
  BY DEF Init
<1> QED
  BY <1>1, <1>2, <1>3, <1>4 DEF Init, TypeOK

LEMMA TypeStep == TypeOK /\ ChainInv /\ [Next]_vars => TypeOK'
<1> SUFFICES ASSUME TypeOK, ChainInv, [Next]_vars PROVE TypeOK'
  OBVIOUS
<1>0. /\ strand \in Seq(Handlers) /\ accepting \in Seq(Transfers)
      /\ kind \in Seq(Kinds) /\ Len(kind) \in 0 .. MaxTransfers
      /\ MaxTransfers \in Nat /\ MaxPasv \in Nat /\ MaxBacklog \in Nat
  BY BoundsAssumption DEF TypeOK
<1>1. AbortedAccepts \in Seq(Handlers)
  BY <1>0, AbortedHandlers
<1>2. strand \o AbortedAccepts \in Seq(Handlers)
  BY <1>0, <1>1
<1>3. ASSUME strand # <<>>
      PROVE  /\ Head(strand).t \in Transfers \cup {0}
             /\ Head(strand).run # "close" => Head(strand).t \in Transfers
             /\ Head(strand).arg \in BOOLEAN
             /\ Tail(strand) \in Seq(Handlers)
             /\ Tail(strand) \o AbortedAccepts \in Seq(Handlers)
  BY <1>0, <1>1, <1>3, RunHandlers, ConcatFacts
<1>4. ASSUME NEW t, NEW code \in Replies, Reply(t, code)
      PROVE  replies' \in [Transfers -> Seq(Replies)]
  <2>1. replies \in [Transfers -> Seq(Replies)]
    BY DEF TypeOK
  <2>2. \A u \in Transfers : Append(replies[u], code) \in Seq(Replies)
    BY <2>1, AppendFacts
  <2> QED
    BY <1>4, <2>1, <2>2 DEF Reply
<1>5. ASSUME NEW t, CloseDataSocket(t)
      PROVE  data_socket' \in [Transfers -> {"none", "open", "closed"}]
  BY <1>5 DEF CloseDataSocket, TypeOK
<1>6. ASSUME NEW t, NEW op \in Operations,
             Start(t, op)
      PROVE  io' \in [Transfers -> Operations]
  BY <1>6 DEF Start, TypeOK
<1>7. ASSUME NEW run \in Lambdas \ {"close"}, NEW t \in Transfers, NEW arg \in BOOLEAN,
             NEW s \in Seq(Handlers)
      PROVE  Append(s, Handler(run, t, arg)) \in Seq(Handlers)
  BY PostedHandlers, AppendFacts
<1>8. ASSUME First("write") \/ First("listed")
      PROVE  Tail(data_buffer) \in Seq(Chunks)
  <2>1. data_buffer # <<>>
    BY <1>0, <1>8, TailFacts DEF First, ChainInv, None, Drivers
  <2> QED
    BY <2>1, TailFacts DEF TypeOK
<1>9. ASSUME CloseDataAcceptor
      PROVE  /\ data_acceptor' \in {"closed", "opened", "bound", "listening"}
             /\ backlog' \in Seq({"client", "foreign"})
             /\ accepting' \in Seq(Transfers)
  BY <1>9 DEF CloseDataAcceptor
<1>10. ASSUME strand' \in Seq(Handlers), data_buffer' \in Seq(Chunks),
              io' \in [Transfers -> Operations],
              UNCHANGED <<commandVars, acceptVars, kind, peer, port, data_socket,
                          replies, weak, session>>
       PROVE  TypeOK'
  BY <1>10 DEF commandVars, acceptVars, TypeOK
<1>11. CASE PasvOpen
  BY <1>11, <1>0, <1>2 DEF PasvOpen, TypeOK, transferVars
<1>12. CASE PasvBind \/ PasvListen \/ PasvFail \/ PasvAnnounce
  BY <1>12 DEF PasvBind, PasvListen, PasvFail, PasvAnnounce, TypeOK,
     transferVars, acceptVars
<1>13. CASE PasvTerminate
  BY <1>13 DEF PasvTerminate, CloseDataAcceptor, Operations, TypeOK
<1>14. ASSUME NEW k \in Kinds, TransferRefused(k)
       PROVE  TypeOK'
  <2>1. replies' \in [Transfers -> Seq(Replies)]
    BY <1>14, <1>4 DEF TransferRefused, Replies
  <2>2. kind' \in Seq(Kinds) /\ Len(kind') \in 0 .. MaxTransfers /\ kind' # <<>>
    BY <1>14, <1>0, AppendFacts DEF TransferRefused
  <2> QED
    BY <1>14, <2>1, <2>2 DEF TransferRefused, commandVars, acceptVars, TypeOK
<1>15. ASSUME NEW k \in Kinds, TransferChecked(k)
       PROVE  TypeOK'
  <2>1. kind' \in Seq(Kinds) /\ Len(kind') \in 0 .. MaxTransfers /\ kind' # <<>>
    BY <1>15, <1>0, AppendFacts DEF TransferChecked
  <2> QED
    BY <1>15, <2>1 DEF TransferChecked, acceptVars, TypeOK
<1>16. CASE AcceptDataConnection
  <2>1. replies' \in [Transfers -> Seq(Replies)]
    BY <1>16, <1>4 DEF AcceptDataConnection, Replies
  <2>2. kind # <<>>
    BY <1>16 DEF AcceptDataConnection, TypeOK
  <2>3. Len(kind) \in Transfers
    BY <1>0, <2>2 DEF Transfers
  <2>4. /\ Append(accepting, Len(kind)) \in Seq(Transfers)
        /\ Append(strand, Handler("accepted", Len(kind), FALSE)) \in Seq(Handlers)
    BY <1>0, <1>7, <2>3, AppendFacts DEF Lambdas
  <2>5. strand' \in Seq(Handlers) /\ accepting' \in Seq(Transfers)
    BY <1>16, <1>0, <2>4 DEF AcceptDataConnection
  <2> QED
    BY <1>16, <2>1, <2>5 DEF AcceptDataConnection, TypeOK
<1>17. CASE Quit \/ CloseCommandSocket \/ ClientResets
  BY <1>17 DEF Quit, CloseCommandSocket, ClientResets, acceptVars,
     transferVars, TypeOK
<1>18. CASE CommandReadError
  <2>1. strand' \in Seq(Handlers)
    BY <1>18, <1>2, CloseHandler, AppendFacts DEF CommandReadError
  <2> QED
    BY <1>18, <1>9, <2>1 DEF CommandReadError, transferVars, TypeOK
<1>20. CASE AcceptFailed
  <2>1. replies' \in [Transfers -> Seq(Replies)]
    BY <1>20, <1>4 DEF AcceptFailed, Replies
  <2> QED
    BY <1>20, <1>3, <2>1 DEF AcceptFailed, First, commandVars, acceptVars, TypeOK
<1>21. CASE Rejected
  <2>1. replies' \in [Transfers -> Seq(Replies)]
    BY <1>21, <1>4 DEF Rejected, Replies
  <2>2. data_socket' \in [Transfers -> {"none", "open", "closed"}]
    BY <1>21, <1>5 DEF Rejected
  <2> QED
    BY <1>21, <1>3, <2>1, <2>2
       DEF Rejected, First, CloseDataAcceptor, commandVars, TypeOK
<1>22. CASE SendFile \/ ReceiveFile
  <2>1. io' \in [Transfers -> Operations]
    BY <1>22, <1>6 DEF Operations, SendFile, ReceiveFile
  <2> QED
    BY <1>22, <1>3, <1>9, <2>1 DEF SendFile, ReceiveFile, Connected, First,
       commandVars, TypeOK
<1>23. CASE SendEmptyFile
  <2>1. replies' \in [Transfers -> Seq(Replies)]
    BY <1>23, <1>4 DEF SendEmptyFile, Replies, Done
  <2>2. data_socket' \in [Transfers -> {"none", "open", "closed"}]
    BY <1>23, <1>5 DEF SendEmptyFile
  <2> QED
    BY <1>23, <1>3, <2>1, <2>2 DEF SendEmptyFile, Connected, First,
       CloseDataAcceptor, commandVars, TypeOK
<1>24. CASE SendDirectoryListing
  <2>1. Head(strand).t \in Transfers
    BY <1>24, <1>3 DEF SendDirectoryListing, Connected, First
  <2>2. /\ Handler("add", Head(strand).t, TRUE) \in Handlers
        /\ Handler("add", Head(strand).t, FALSE) \in Handlers
    BY <2>1, PostedHandlers DEF Lambdas
  <2>3. << Handler("add", Head(strand).t, TRUE),
           Handler("add", Head(strand).t, FALSE) >> \in Seq(Handlers)
    BY <2>2, ShortQueues
  <2>4. strand' \in Seq(Handlers)
    BY <1>24, <1>3, <2>3, ConcatFacts DEF SendDirectoryListing, Connected, First
  <2> QED
    BY <1>24, <1>3, <1>9, <2>4 DEF SendDirectoryListing, Connected, First,
       commandVars, TypeOK
<1>25. CASE AddDataToBufferAndSend
  <2>1. /\ Head(strand).t \in Transfers /\ Head(strand).arg \in BOOLEAN
        /\ Tail(strand) \in Seq(Handlers)
    BY <1>25, <1>3 DEF AddDataToBufferAndSend, First
  <2>2. data_buffer' \in Seq(Chunks)
    BY <1>25, <2>1 DEF AddDataToBufferAndSend, Chunks, TypeOK
  <2>3. strand' \in Seq(Handlers)
    BY <1>25, <2>1, <1>7 DEF AddDataToBufferAndSend, Lambdas
  <2> QED
    BY <1>10, <1>25, <2>2, <2>3
       DEF AddDataToBufferAndSend, transferVars, TypeOK
<1>26. CASE WriteDataToSocket
  <2>1. io' \in [Transfers -> Operations]
    BY <1>26, <1>6 DEF Operations, WriteDataToSocket
  <2> QED
    BY <1>26, <1>3, <2>1
       DEF WriteDataToSocket, First, commandVars, acceptVars, TypeOK
<1>27. CASE EndOfListing
  <2>1. replies' \in [Transfers -> Seq(Replies)]
    BY <1>27, <1>4 DEF EndOfListing, Replies, Done
  <2>2. data_socket' \in [Transfers -> {"none", "open", "closed"}]
    BY <1>27, <1>5 DEF EndOfListing
  <2>3. data_buffer' \in Seq(Chunks)
    BY <1>27, <1>8 DEF EndOfListing
  <2> QED
    BY <1>27, <1>3, <2>1, <2>2, <2>3
       DEF EndOfListing, First, commandVars, acceptVars, TypeOK
<1>28. CASE ListingWritten
  <2>1. Head(strand).t \in Transfers /\ Tail(strand) \in Seq(Handlers)
    BY <1>28, <1>3 DEF ListingWritten, First
  <2>2. strand' \in Seq(Handlers)
    BY <1>28, <2>1, <1>7 DEF ListingWritten, Lambdas
  <2>3. data_buffer' \in Seq(Chunks)
    BY <1>28, <1>8 DEF ListingWritten
  <2> QED
    BY <1>10, <1>28, <2>2, <2>3 DEF ListingWritten, transferVars, TypeOK
<1>29. CASE ReceivedChunk
  <2>1. io' \in [Transfers -> Operations]
    BY <1>29, <1>6 DEF Operations, ReceivedChunk
  <2> QED
    BY <1>29, <1>3, <2>1
       DEF ReceivedChunk, First, commandVars, acceptVars, TypeOK
<1>30. CASE ReceivedLast
  <2>1. strand' \in Seq(Handlers)
    BY <1>30, <1>3, <1>7 DEF ReceivedLast, First, Lambdas
  <2> QED
    BY <1>10, <1>30, <2>1 DEF ReceivedLast, transferVars, TypeOK
<1>31. CASE EndDataReceiving
  <2>1. replies' \in [Transfers -> Seq(Replies)]
    BY <1>31, <1>4 DEF EndDataReceiving, Replies, Done
  <2>2. data_socket' \in [Transfers -> {"none", "open", "closed"}]
    BY <1>31, <1>5 DEF EndDataReceiving
  <2> QED
    BY <1>31, <1>3, <2>1, <2>2
       DEF EndDataReceiving, First, commandVars, acceptVars, TypeOK
<1>32. CASE CloseNewestDataSocket
  BY <1>32, <1>3
     DEF CloseNewestDataSocket, First, commandVars, acceptVars, TypeOK
<1>40. ASSUME NEW who \in {"client", "foreign"}, Connect(who)
       PROVE  TypeOK'
  BY <1>40 DEF Connect, commandVars, transferVars, TypeOK
<1>41. CASE AcceptCompletes
  <2>1. /\ Head(accepting) \in Transfers /\ Tail(accepting) \in Seq(Transfers)
        /\ Head(backlog) \in {"client", "foreign"}
        /\ Tail(backlog) \in Seq({"client", "foreign"})
    BY <1>41, <1>0, TailFacts DEF AcceptCompletes, TypeOK
  <2>2. io' \in [Transfers -> Operations]
    BY <1>41, <1>6 DEF Operations, AcceptCompletes
  <2>3. /\ peer' \in [Transfers -> {"none", "client", "foreign"}]
        /\ port' \in [Transfers -> 0 .. MaxPasv]
        /\ data_socket' \in [Transfers -> {"none", "open", "closed"}]
    BY <1>41, <2>1 DEF AcceptCompletes, TypeOK
  <2> QED
    BY <1>41, <2>1, <2>2, <2>3 DEF AcceptCompletes, commandVars, TypeOK
<1>47. CASE AcceptErrs
  <2>1. Head(accepting) \in Transfers /\ Tail(accepting) \in Seq(Transfers)
    BY <1>47, <1>0, TailFacts DEF AcceptErrs
  <2>2. strand' \in Seq(Handlers)
    BY <1>47, <1>0, <2>1, <1>7 DEF AcceptErrs, Lambdas
  <2> QED
    BY <1>47, <2>1, <2>2 DEF AcceptErrs, commandVars, transferVars, TypeOK
<1>48. ASSUME NEW t \in Transfers, AcceptPosted(t)
       PROVE  TypeOK'
  <2>1. io' \in [Transfers -> Operations]
    BY <1>48, <1>6 DEF Operations, AcceptPosted
  <2>2. strand' \in Seq(Handlers)
    BY <1>48, <1>0, <1>7 DEF AcceptPosted, Lambdas
  <2> QED
    BY <1>10, <1>48, <2>1, <2>2 DEF AcceptPosted, TypeOK
<1>42. ASSUME NEW t \in Transfers, SendCompletes(t)
       PROVE  TypeOK'
  <2>1. io' \in [Transfers -> Operations]
    BY <1>42, <1>6 DEF Operations, SendCompletes
  <2> QED
    BY <1>42, <2>1 DEF SendCompletes, commandVars, acceptVars, TypeOK
<1>43. ASSUME NEW t \in Transfers, SendFileHandler(t)
       PROVE  TypeOK'
  <2>1. io' \in [Transfers -> Operations]
    BY <1>43, <1>6 DEF Operations, SendFileHandler
  <2>2. data_socket' \in [Transfers -> {"none", "open", "closed"}]
    BY <1>43, <1>5 DEF SendFileHandler
  <2>3. SendFileReplies(t) \in Seq(Replies)
    BY ShortQueues DEF SendFileReplies, Replies, Done
  <2>4. replies' \in [Transfers -> Seq(Replies)]
    BY <1>43, <2>3 DEF SendFileHandler, TypeOK
  <2> QED
    BY <1>43, <2>1, <2>2, <2>4 DEF SendFileHandler, commandVars, acceptVars, TypeOK
<1>44. ASSUME NEW t \in Transfers, NEW ok \in BOOLEAN,
              ReceiveCompletes(t, ok) \/ ListingWriteCompletes(t)
       PROVE  TypeOK'
  <2>1. io' \in [Transfers -> Operations]
    BY <1>44, <1>6 DEF Operations, ReceiveCompletes, ListingWriteCompletes
  <2>2. Outcomes(t) \subseteq BOOLEAN
    BY DEF Outcomes
  <2>3. strand' \in Seq(Handlers)
    BY <1>44, <1>0, <2>2, <1>7
       DEF ReceiveCompletes, ListingWriteCompletes, Lambdas
  <2> QED
    BY <1>44, <2>1, <2>3
       DEF ReceiveCompletes, ListingWriteCompletes, commandVars, acceptVars, TypeOK
<1>45. CASE Destroy
  BY <1>45 DEF Destroy, CloseDataAcceptor, transferVars, TypeOK
<1>46. CASE UNCHANGED vars
  BY <1>46 DEF vars, acceptVars, transferVars, commandVars, TypeOK
<1> QED
  BY <1>11, <1>12, <1>13, <1>14, <1>15, <1>16, <1>17, <1>18, <1>20, <1>21,
     <1>22, <1>23, <1>24, <1>25, <1>26, <1>27, <1>28, <1>29, <1>30, <1>31,
     <1>32, <1>40, <1>41, <1>42, <1>43, <1>44, <1>45, <1>46, <1>47, <1>48
     DEF Next, CommandStrand, DataStrand, System

-----------------------------------------------------------------------------
(***************************************************************************)
(* One continuation of the chain of listing writes.                        *)
(***************************************************************************)
LEMMA ChainInit == Init => ChainInv
<1> SUFFICES ASSUME Init PROVE ChainInv
  OBVIOUS
<1>1. strand = <<>> /\ \A t \in Transfers : io[t] = "none"
  BY DEF Init
<1>2. AtMostOne(strand, Drivers) /\ None(strand, Drivers)
  BY <1>1 DEF AtMostOne, None
<1> QED
  BY <1>1, <1>2 DEF ChainInv

LEMMA ChainStep == TypeOK /\ ChainInv /\ [Next]_vars => ChainInv'
<1> SUFFICES ASSUME TypeOK, ChainInv, [Next]_vars PROVE ChainInv'
  OBVIOUS
\* Queues that hold no driver that was not posted before.
<1> DEFINE NoNewDriver(s) ==
             /\ s \in Seq(Handlers)
             /\ AtMostOne(s, Drivers)
             /\ None(strand, Drivers) => None(s, Drivers)
<1>0. /\ strand \in Seq(Handlers) /\ accepting \in Seq(Transfers)
      /\ io \in [Transfers -> Operations]
      /\ data_buffer \in Seq(Chunks)
  BY DEF TypeOK
<1>1. ASSUME strand # <<>>
      PROVE  /\ Tail(strand) \in Seq(Handlers)
             /\ AtMostOne(Tail(strand), Drivers)
             /\ NoNewDriver(Tail(strand))
             /\ Head(strand).run \in Drivers =>
                  None(Tail(strand), Drivers) /\ ~None(strand, Drivers)
             /\ Head(strand).t \in Transfers \cup {0}
             /\ Head(strand).run # "close" => Head(strand).t \in Transfers
  <2>1. AtMostOne(strand, Drivers)
    BY DEF ChainInv
  <2>2. Head(strand).run \in Drivers => ~None(strand, Drivers)
    BY <1>0, <1>1, TailFacts DEF None
  <2> QED
    BY <1>0, <1>1, <2>1, <2>2, TailAtMostOne, RunHandlers
<1>2. ASSUME NEW s, NoNewDriver(s) PROVE NoNewDriver(s \o AbortedAccepts)
  <2>1. AbortedAccepts \in Seq(Handlers) /\ None(AbortedAccepts, Drivers)
    BY <1>0, AbortedHandlers
  <2>2. s \o AbortedAccepts \in Seq(Handlers)
    BY <1>2, <2>1, ConcatFacts
  <2>3. /\ AtMostOne(s \o AbortedAccepts, Drivers)
        /\ None(s \o AbortedAccepts, Drivers) <=> None(s, Drivers)
    BY <1>2, <2>1, ConcatAtMostOne
  <2> QED
    BY <1>2, <2>2, <2>3
<1>3. ASSUME NEW s \in Seq(Handlers), AtMostOne(s, Drivers), None(s, Drivers),
             NEW run \in Lambdas \ {"close"}, NEW t \in Transfers, NEW arg \in BOOLEAN
      PROVE  AtMostOne(Append(s, Handler(run, t, arg)), Drivers)
  BY <1>3, PostedHandlers, AppendAtMostOne
<1>4. NoNewDriver(strand)
  BY <1>0 DEF ChainInv
<1>7. ASSUME NEW s, NoNewDriver(s),
             NEW h \in Handlers, h.run \notin Drivers
      PROVE  NoNewDriver(Append(s, h))
  <2>1. Append(s, h) \in Seq(Handlers)
    BY <1>7, AppendFacts
  <2>2. /\ AtMostOne(Append(s, h), Drivers)
        /\ None(Append(s, h), Drivers) <=> None(s, Drivers)
    BY <1>7, AppendAtMostOne
  <2> QED
    BY <1>7, <2>1, <2>2
<1>8. ASSUME NEW s, NoNewDriver(s), NEW t \in Transfers, NEW arg \in BOOLEAN,
             NEW run \in {"accepted", "chunk", "endrecv"}
      PROVE  NoNewDriver(Append(s, Handler(run, t, arg)))
  <2>1. run \in Lambdas \ {"close"} /\ run \notin Drivers
    BY DEF Lambdas, Drivers
  <2> QED
    BY <1>7, <1>8, <2>1, PostedHandlers
<1> HIDE DEF NoNewDriver
\* What most steps come to.
<1>5. ASSUME NoNewDriver(strand'), UNCHANGED data_buffer,
             \A t \in Transfers : io'[t] = "list" => io[t] = "list"
      PROVE  ChainInv'
  <2>1. AtMostOne(strand', Drivers) /\ (None(strand, Drivers) => None(strand', Drivers))
    BY <1>5 DEF NoNewDriver
  <2>2. data_buffer' = data_buffer
    BY <1>5
  <2>3. \A t \in Transfers : io'[t] = "list" => io[t] = "list"
    BY <1>5
  <2>4. ~None(strand', Drivers) => /\ data_buffer' # <<>>
                                   /\ \A t \in Transfers : io'[t] # "list"
    BY <2>1, <2>2, <2>3 DEF ChainInv
  <2>5. /\ \A t, u \in Transfers : io'[t] = "list" /\ io'[u] = "list" => t = u
        /\ \A t \in Transfers : io'[t] = "list" => data_buffer' # <<>>
    BY <2>2, <2>3 DEF ChainInv
  <2> QED
    BY <2>1, <2>4, <2>5 DEF ChainInv
<1>6. ASSUME NEW t, NEW op, op # "list", Start(t, op)
      PROVE  \A u \in Transfers : io'[u] = "list" => io[u] = "list" /\ u # t
  BY <1>0, <1>6 DEF Start
<1>11. CASE PasvOpen
  BY <1>11, <1>2, <1>4, <1>5 DEF PasvOpen, transferVars
<1>12. CASE \/ PasvBind \/ PasvListen \/ PasvFail \/ PasvAnnounce
            \/ Quit \/ CloseCommandSocket \/ ClientResets
            \/ Destroy \/ UNCHANGED vars
  BY <1>12, <1>4, <1>5 DEF PasvBind, PasvListen, PasvFail, PasvAnnounce, Quit,
     CloseCommandSocket, ClientResets, Destroy, vars, transferVars
<1>13. CASE PasvTerminate
  <2>1. strand' = <<>> /\ \A t \in Transfers : io'[t] # "list"
    BY <1>13 DEF PasvTerminate
  <2> QED
    BY <2>1 DEF ChainInv, AtMostOne, None
<1>14. ASSUME NEW k \in Kinds, TransferRefused(k) \/ TransferChecked(k)
       PROVE  ChainInv'
  BY <1>14, <1>4, <1>5 DEF TransferRefused, TransferChecked
<1>16. CASE AcceptDataConnection
  <2>1. Len(kind) \in Transfers
    BY <1>16, BoundsAssumption DEF AcceptDataConnection, Transfers, TypeOK
  <2>2. NoNewDriver(Append(strand, Handler("accepted", Len(kind), FALSE)))
    BY <1>4, <1>8, <2>1
  <2> QED
    BY <1>16, <1>4, <1>5, <2>2 DEF AcceptDataConnection
<1>18. CASE CommandReadError
  <2>1. NoNewDriver(strand \o AbortedAccepts)
    BY <1>2, <1>4
  <2>2. NoNewDriver(strand')
    BY <1>7, <1>18, <2>1, CloseHandler DEF CommandReadError
  <2> QED
    BY <1>18, <1>5, <2>2 DEF CommandReadError, transferVars
<1>20. CASE AcceptFailed \/ EndDataReceiving \/ CloseNewestDataSocket
  BY <1>20, <1>1, <1>5
     DEF AcceptFailed, EndDataReceiving, CloseNewestDataSocket, First
<1>21. CASE Rejected \/ SendEmptyFile
  BY <1>21, <1>1, <1>2, <1>5 DEF Rejected, SendEmptyFile, Connected, First
<1>22. CASE SendFile \/ ReceiveFile
  <2>1. \A t \in Transfers : io'[t] = "list" => io[t] = "list"
    BY <1>22, <1>6 DEF SendFile, ReceiveFile
  <2> QED
    BY <1>22, <1>1, <1>2, <1>5, <2>1 DEF SendFile, ReceiveFile, Connected, First
<1>24. CASE SendDirectoryListing
  <2>1. strand # <<>> /\ Head(strand).t \in Transfers
    BY <1>24, <1>1 DEF SendDirectoryListing, Connected, First
  <2> DEFINE data == Handler("add", Head(strand).t, TRUE)
             end  == Handler("add", Head(strand).t, FALSE)
  <2>2. data \in Handlers /\ data.run = "add" /\ end \in Handlers /\ end.run = "add"
    BY <2>1, PostedHandlers DEF Lambdas
  <2> HIDE DEF data, end
  <2>3. <<data, end>> \in Seq(Handlers) /\ None(<<data, end>>, Drivers)
    BY <2>2, ShortQueues DEF None, Drivers
  <2>4. NoNewDriver(Tail(strand) \o AbortedAccepts)
    BY <1>1, <1>2, <2>1
  <2>5. NoNewDriver((Tail(strand) \o AbortedAccepts) \o <<data, end>>)
    <3> DEFINE s == Tail(strand) \o AbortedAccepts
               r == <<data, end>>
    <3>1. s \in Seq(Handlers) /\ AtMostOne(s, Drivers)
      BY <2>4 DEF NoNewDriver
    <3>2. r \in Seq(Handlers) /\ None(r, Drivers)
      BY <2>3
    <3>3. None(strand, Drivers) => None(s, Drivers)
      BY <2>4 DEF NoNewDriver
    <3> HIDE DEF s, r
    <3>4. s \o r \in Seq(Handlers)
      BY <3>1, <3>2, ConcatFacts
    <3>5. AtMostOne(s \o r, Drivers) /\ (None(s \o r, Drivers) <=> None(s, Drivers))
      BY <3>1, <3>2, ConcatAtMostOne
    <3> QED
      BY <3>3, <3>4, <3>5 DEF NoNewDriver, s, r
  <2> QED
    BY <1>24, <1>5, <2>5 DEF SendDirectoryListing, Connected, data, end
<1>25. CASE AddDataToBufferAndSend
  <2>1. /\ strand # <<>> /\ Head(strand).t \in Transfers
        /\ UNCHANGED io /\ data_buffer' # <<>>
    BY <1>25, <1>0, <1>1, AppendFacts
       DEF AddDataToBufferAndSend, First, transferVars
  <2>2. CASE data_buffer = <<>>
    <3>1. /\ None(strand, Drivers)
          /\ \A t \in Transfers : io[t] # "list"
      BY <2>2 DEF ChainInv
    <3>2. strand' = Append(Tail(strand), Handler("write", Head(strand).t, TRUE))
      BY <1>25, <2>2 DEF AddDataToBufferAndSend, WriteNotInProgress
    <3>3. None(Tail(strand), Drivers)
      BY <1>1, <2>1, <3>1 DEF NoNewDriver
    <3>4. AtMostOne(strand', Drivers)
      BY <1>1, <1>3, <2>1, <3>2, <3>3 DEF Lambdas
    <3> QED
      BY <2>1, <3>1, <3>4 DEF ChainInv
  <2>3. CASE data_buffer # <<>>
    <3>1. strand' = Tail(strand)
      BY <1>25, <2>3 DEF AddDataToBufferAndSend, WriteNotInProgress
    <3>2. NoNewDriver(strand')
      BY <1>1, <2>1, <3>1
    <3>3. AtMostOne(strand', Drivers) /\ (None(strand, Drivers) => None(strand', Drivers))
      BY <3>2 DEF NoNewDriver
    <3> QED
      BY <2>1, <3>3 DEF ChainInv
  <2> QED
    BY <2>2, <2>3
<1>26. CASE WriteDataToSocket
  <2>1. strand # <<>> /\ Head(strand).run \in Drivers /\ strand' = Tail(strand)
    BY <1>26 DEF WriteDataToSocket, First, Drivers
  <2>2. None(strand', Drivers) /\ AtMostOne(strand', Drivers)
    BY <1>1, <2>1
  <2>3. data_buffer' # <<>> /\ \A t \in Transfers : io[t] # "list"
    BY <1>26, <1>1, <2>1 DEF WriteDataToSocket, ChainInv
  <2>4. \A t \in Transfers : io'[t] = "list" => t = Head(strand).t
    BY <1>26, <1>0, <2>3 DEF WriteDataToSocket, Start
  <2> QED
    BY <2>2, <2>3, <2>4 DEF ChainInv
<1>27. CASE EndOfListing
  <2>1. strand # <<>> /\ Head(strand).run \in Drivers /\ strand' = Tail(strand)
    BY <1>27 DEF EndOfListing, First, Drivers
  <2>2. None(strand', Drivers) /\ AtMostOne(strand', Drivers)
    BY <1>1, <2>1
  <2>3. UNCHANGED io /\ \A t \in Transfers : io[t] # "list"
    BY <1>27, <1>1, <2>1 DEF EndOfListing, ChainInv
  <2> QED
    BY <2>2, <2>3 DEF ChainInv
<1>28. CASE ListingWritten
  <2>1. /\ strand # <<>> /\ Head(strand).run \in Drivers
        /\ Head(strand).t \in Transfers
    BY <1>28, <1>1 DEF ListingWritten, First, Drivers
  <2>2. None(Tail(strand), Drivers)
    BY <1>1, <2>1
  <2>3. UNCHANGED io /\ \A t \in Transfers : io[t] # "list"
    BY <1>28, <1>1, <2>1 DEF ListingWritten, ChainInv, transferVars
  <2>4. CASE strand' = Tail(strand)
    BY <1>1, <2>1, <2>2, <2>3, <2>4 DEF ChainInv
  <2>5. CASE strand' # Tail(strand)
    <3>1. /\ data_buffer' # <<>>
          /\ strand' = Append(Tail(strand), Handler("write", Head(strand).t, TRUE))
      BY <1>28, <2>5 DEF ListingWritten
    <3>2. AtMostOne(strand', Drivers)
      BY <1>1, <1>3, <2>1, <2>2, <3>1 DEF Lambdas
    <3> QED
      BY <2>3, <3>1, <3>2 DEF ChainInv
  <2> QED
    BY <2>4, <2>5
<1>29. CASE ReceivedChunk
  <2>1. \A t \in Transfers : io'[t] = "list" => io[t] = "list"
    BY <1>29, <1>6 DEF ReceivedChunk
  <2> QED
    BY <1>29, <1>1, <1>5, <2>1 DEF ReceivedChunk, First
<1>30. CASE ReceivedLast
  <2>1. /\ NoNewDriver(Tail(strand)) /\ Head(strand).t \in Transfers
        /\ strand' = Append(Tail(strand), Handler("endrecv", Head(strand).t, TRUE))
    BY <1>30, <1>1 DEF ReceivedLast, First
  <2>2. NoNewDriver(strand')
    BY <1>8, <2>1
  <2> QED
    BY <1>30, <1>5, <2>2 DEF ReceivedLast, transferVars
<1>40. ASSUME NEW who, Connect(who) PROVE ChainInv'
  BY <1>40, <1>4, <1>5 DEF Connect, transferVars
<1>41. CASE AcceptCompletes
  <2>1. \A u \in Transfers : io'[u] = "list" => io[u] = "list"
    BY <1>41, <1>6 DEF AcceptCompletes
  <2> QED
    BY <1>41, <1>4, <1>5, <2>1 DEF AcceptCompletes
<1>45. CASE AcceptErrs
  <2>1. Head(accepting) \in Transfers
    BY <1>45, <1>0, TailFacts DEF AcceptErrs
  <2>2. NoNewDriver(strand')
    BY <1>45, <1>4, <1>8, <2>1 DEF AcceptErrs
  <2> QED
    BY <1>45, <1>5, <2>2 DEF AcceptErrs, transferVars
<1>46. ASSUME NEW t \in Transfers, AcceptPosted(t)
       PROVE  ChainInv'
  <2>1. \A u \in Transfers : io'[u] = "list" => io[u] = "list"
    BY <1>46, <1>6 DEF AcceptPosted
  <2>2. NoNewDriver(strand')
    BY <1>46, <1>4, <1>8 DEF AcceptPosted
  <2> QED
    BY <1>46, <1>5, <2>1, <2>2 DEF AcceptPosted
<1>42. ASSUME NEW t \in Transfers, SendCompletes(t) \/ SendFileHandler(t)
       PROVE  ChainInv'
  <2>1. \A u \in Transfers : io'[u] = "list" => io[u] = "list"
    BY <1>42, <1>6 DEF SendCompletes, SendFileHandler
  <2> QED
    BY <1>42, <1>4, <1>5, <2>1 DEF SendCompletes, SendFileHandler
<1>43. ASSUME NEW t \in Transfers, NEW ok \in BOOLEAN, ReceiveCompletes(t, ok)
       PROVE  ChainInv'
  <2>1. \A u \in Transfers : io'[u] = "list" => io[u] = "list"
    BY <1>43, <1>6 DEF ReceiveCompletes
  <2>2. NoNewDriver(strand')
    BY <1>43, <1>4, <1>8 DEF ReceiveCompletes
  <2> QED
    BY <1>43, <1>5, <2>1, <2>2 DEF ReceiveCompletes
<1>44. ASSUME NEW t \in Transfers, ListingWriteCompletes(t)
       PROVE  ChainInv'
  <2>1. /\ None(strand, Drivers) /\ AtMostOne(strand, Drivers)
        /\ data_buffer' # <<>>
    BY <1>44 DEF ListingWriteCompletes, ChainInv
  <2>2. PICK ok \in BOOLEAN : strand' = Append(strand, Handler("listed", t, ok))
    BY <1>44 DEF ListingWriteCompletes, Outcomes
  <2>3. AtMostOne(strand', Drivers)
    BY <1>0, <1>3, <2>1, <2>2 DEF Lambdas
  <2>4. \A u \in Transfers : io'[u] # "list"
    BY <1>44, <1>6 DEF ListingWriteCompletes, ChainInv
  <2> QED
    BY <2>1, <2>3, <2>4 DEF ChainInv
<1> QED
  BY <1>11, <1>12, <1>13, <1>14, <1>16, <1>18, <1>20, <1>21, <1>22, <1>24,
     <1>25, <1>26, <1>27, <1>28, <1>29, <1>30, <1>40, <1>41, <1>42, <1>43,
     <1>44, <1>45, <1>46
     DEF Next, CommandStrand, DataStrand, System

LEMMA TypesAndChain == Spec => [](TypeOK /\ ChainInv)
<1>1. Init => TypeOK /\ ChainInv
  BY TypeInit, ChainInit
<1>2. TypeOK /\ ChainInv /\ [Next]_vars => (TypeOK /\ ChainInv)'
  BY TypeStep, ChainStep
<1> QED
  BY <1>1, <1>2, PTL DEF Spec

\* Every variable keeps its type; a handler is posted for a transfer, except
\* the one that closes the newest data socket.
THEOREM TypeCorrect == Spec => []TypeOK
  BY TypesAndChain, PTL

(***************************************************************************)
(* data_buffer_.front() and pop_front() always have an element, and no two *)
(* continuations of the chain of listing writes are ever on their way.     *)
(***************************************************************************)
THEOREM OneChain == Spec => []ListingChain
<1>1. ChainInv => ListingChain
  BY DEF ChainInv, ListingChain, Driver, Drivers, AtMostOne, None
<1> QED
  BY <1>1, TypesAndChain, PTL

-----------------------------------------------------------------------------
(***************************************************************************)
(* The end of the control connection is the last that is heard of the      *)
(* acceptor: only command handlers open it or accept on it, and none runs  *)
(* any more.                                                               *)
(***************************************************************************)
LEMMA EndStep == NoAcceptAfterEnd /\ [Next]_vars => NoAcceptAfterEnd'
<1> SUFFICES ASSUME NoAcceptAfterEnd, [Next]_vars PROVE NoAcceptAfterEnd'
  OBVIOUS
<1> USE DEF NoAcceptAfterEnd, IsOpen
<1>1. ASSUME UNCHANGED <<command, data_acceptor, accepting>>
      PROVE  NoAcceptAfterEnd'
  BY <1>1
<1>2. ASSUME CloseDataAcceptor PROVE NoAcceptAfterEnd'
  BY <1>2 DEF CloseDataAcceptor
<1>3. ASSUME command' # "ended" PROVE NoAcceptAfterEnd'
  BY <1>3
<1>4. CASE CommandStrand
  <2>1. CASE PasvOpen \/ PasvBind \/ PasvListen \/ PasvFail \/ PasvAnnounce
             \/ PasvTerminate
    BY <1>3, <2>1 DEF PasvOpen, PasvBind, PasvListen, PasvFail, PasvAnnounce,
                      PasvTerminate
  <2>2. ASSUME NEW k, TransferRefused(k) \/ TransferChecked(k)
        PROVE  NoAcceptAfterEnd'
    BY <1>1, <1>3, <2>2 DEF TransferRefused, TransferChecked, commandVars,
                            acceptVars
  <2>3. CASE AcceptDataConnection \/ Quit
    BY <1>3, <2>3 DEF AcceptDataConnection, Quit
  <2>4. CASE CloseCommandSocket
    BY <1>1, <2>4 DEF CloseCommandSocket, acceptVars
  <2>5. CASE CommandReadError
    BY <1>2, <2>5 DEF CommandReadError
  <2> QED BY <1>4, <2>1, <2>2, <2>3, <2>4, <2>5 DEF CommandStrand
<1>5. CASE DataStrand
  <2>1. CASE Rejected \/ SendFile \/ SendEmptyFile \/ ReceiveFile
             \/ SendDirectoryListing
    BY <1>2, <2>1 DEF Rejected, SendFile, SendEmptyFile, ReceiveFile,
                      SendDirectoryListing, Connected
  <2>2. CASE \/ AcceptFailed \/ AddDataToBufferAndSend \/ WriteDataToSocket
             \/ EndOfListing \/ ListingWritten \/ ReceivedChunk \/ ReceivedLast
             \/ EndDataReceiving \/ CloseNewestDataSocket
    BY <1>1, <2>2 DEF AcceptFailed, AddDataToBufferAndSend, WriteDataToSocket,
      EndOfListing, ListingWritten, ReceivedChunk, ReceivedLast,
      EndDataReceiving, CloseNewestDataSocket, commandVars, acceptVars
  <2> QED BY <1>5, <2>1, <2>2 DEF DataStrand
<1>6. CASE System
  <2>1. CASE ClientResets
    BY <1>1, <2>1 DEF ClientResets, acceptVars
  <2>2. ASSUME NEW who, Connect(who) PROVE NoAcceptAfterEnd'
    BY <1>1, <2>2 DEF Connect, commandVars
  <2>3. CASE AcceptCompletes \/ AcceptErrs
    BY <2>3 DEF AcceptCompletes, AcceptErrs, commandVars
  <2>4. ASSUME NEW t, NEW ok, \/ AcceptPosted(t)
                             \/ SendCompletes(t) \/ SendFileHandler(t)
                             \/ ReceiveCompletes(t, ok)
                             \/ ListingWriteCompletes(t)
        PROVE  NoAcceptAfterEnd'
    BY <1>1, <2>4 DEF AcceptPosted, SendCompletes, SendFileHandler,
                      ReceiveCompletes, ListingWriteCompletes, commandVars,
                      acceptVars
  <2> QED BY <1>6, <2>1, <2>2, <2>3, <2>4 DEF System
<1>7. CASE Destroy
  BY <1>2, <1>7 DEF Destroy
<1>8. CASE UNCHANGED vars
  BY <1>1, <1>8 DEF vars, commandVars, acceptVars
<1> QED BY <1>4, <1>5, <1>6, <1>7, <1>8 DEF Next

\* Once the control connection has failed, nothing can be accepted any more.
THEOREM EndIsFinal == Spec => []NoAcceptAfterEnd
<1>1. Init => NoAcceptAfterEnd
  BY DEF Init, NoAcceptAfterEnd
<1> QED BY <1>1, EndStep, PTL DEF Spec

-----------------------------------------------------------------------------
(***************************************************************************)
(* The ends of listings.  The null pointer that ends a listing is posted   *)
(* right behind the data, and only the handlers of the strand take         *)
(* elements out of data_buffer: when the end is added, the buffer is not   *)
(* empty, so that it starts no chain of its own.                           *)
(***************************************************************************)
Ends  == {h \in Handlers : h.run = "add" /\ ~h.arg}
Datas == {h \in Handlers : h.run = "add" /\ h.arg}

EndInv ==
  /\ Follows(strand, Ends, Datas)
  /\ strand # <<>> /\ Head(strand) \in Ends => data_buffer # <<>>

\* The handlers of aborted accepts are no ends.
LEMMA AbortedNoEnds ==
  ASSUME accepting \in Seq(Transfers)
  PROVE  /\ Follows(AbortedAccepts, Ends, Datas)
         /\ AbortedAccepts # <<>> => Head(AbortedAccepts) \notin Ends
<1>1. \A i \in DOMAIN AbortedAccepts : AbortedAccepts[i].run = "accepted"
  BY DEF AbortedAccepts, Handler
<1>2. AbortedAccepts \in Seq(Handlers)
  BY AbortedHandlers
<1>3. AbortedAccepts # <<>> => /\ 1 \in DOMAIN AbortedAccepts
                               /\ Head(AbortedAccepts) = AbortedAccepts[1]
  BY <1>2, TailFacts
<1> QED
  BY <1>1, <1>3 DEF Follows, Ends

\* A handler posted alone.
LEMMA OneHandler ==
  ASSUME NEW h \in Handlers, h \notin Ends
  PROVE  /\ <<h>> \in Seq(Handlers)
         /\ Follows(<<h>>, Ends, Datas)
         /\ Head(<<h>>) \notin Ends
  BY ShortQueues DEF Follows

\* EndInv is inductive beside the types.
LEMMA EndsStep == TypeOK /\ EndInv /\ [Next]_vars => EndInv'
<1> SUFFICES ASSUME TypeOK, EndInv, [Next]_vars PROVE EndInv'
  OBVIOUS
<1>0. /\ strand \in Seq(Handlers) /\ accepting \in Seq(Transfers)
      /\ data_buffer \in Seq(Chunks)
  BY DEF TypeOK
\* Queues in which every end but the first element follows its data.
<1> DEFINE Good(s) == /\ s \in Seq(Handlers)
                      /\ Follows(s, Ends, Datas)
                      /\ s # <<>> => Head(s) \notin Ends
           Rest(s) == /\ s \in Seq(Handlers)
                      /\ Follows(s, Ends, Datas)
<1>1. ASSUME strand # <<>>
      PROVE  /\ Rest(Tail(strand))
             /\ Head(strand).run # "add" => Good(Tail(strand))
  BY <1>0, <1>1, TailFacts, TailFollows DEF EndInv, Datas
<1>2. ASSUME NEW s, NEW r, Good(s), Good(r) PROVE Good(s \o r)
  BY <1>2, ConcatFollows, ConcatFacts
<1>3. Good(AbortedAccepts)
  BY <1>0, AbortedNoEnds, AbortedHandlers
<1>4. ASSUME NEW run \in Lambdas \ {"add", "close"}, NEW t \in Transfers, NEW arg \in BOOLEAN
      PROVE  Good(<<Handler(run, t, arg)>>)
  BY PostedHandlers, OneHandler DEF Ends
<1>5. Good(<<Handler("close", 0, TRUE)>>)
  BY CloseHandler, OneHandler DEF Ends, Handler
<1>6. ASSUME NEW s \in Seq(Handlers), NEW h \in Handlers
      PROVE  Append(s, h) = s \o <<h>>
  BY <1>6
<1> HIDE DEF Good
<1>7. ASSUME Good(strand') PROVE EndInv'
  BY <1>7 DEF Good, EndInv
<1>8. ASSUME NEW r, Good(r), strand' = strand \o r, UNCHANGED data_buffer
      PROVE  EndInv'
  BY <1>0, <1>8, ConcatFollows DEF Good, EndInv
<1>9. ASSUME UNCHANGED <<strand, data_buffer>> PROVE EndInv'
  BY <1>9 DEF EndInv
<1>10. ASSUME NEW run \in Lambdas \ {"add", "close"}, NEW t \in Transfers,
              NEW arg \in BOOLEAN, UNCHANGED data_buffer,
              strand' = Append(strand, Handler(run, t, arg))
       PROVE  EndInv'
  BY <1>0, <1>4, <1>6, <1>8, <1>10, PostedHandlers
<1>11. ASSUME NEW s, Good(s), NEW run \in Lambdas \ {"add", "close"},
              NEW t \in Transfers, NEW arg \in BOOLEAN
       PROVE  Good(Append(s, Handler(run, t, arg)))
  <2>1. s \in Seq(Handlers)
    BY <1>11 DEF Good
  <2>2. Append(s, Handler(run, t, arg)) = s \o <<Handler(run, t, arg)>>
    BY <1>6, <2>1, PostedHandlers
  <2> QED
    BY <1>2, <1>4, <1>11, <2>2
<1>12. CASE CommandStrand
  <2>1. CASE PasvOpen
    BY <1>3, <1>8, <2>1 DEF PasvOpen
  <2>2. CASE PasvTerminate
    BY <2>2 DEF PasvTerminate, EndInv, Follows
  <2>3. CASE AcceptDataConnection
    <3>1. Len(kind) \in Transfers
      BY <2>3, BoundsAssumption DEF AcceptDataConnection, Transfers, TypeOK
    <3> QED
      BY <1>9, <1>10, <2>3, <3>1 DEF AcceptDataConnection, Lambdas
  <2>4. CASE CommandReadError
    <3>1. strand' = strand \o (AbortedAccepts \o <<Handler("close", 0, TRUE)>>)
      <4> DEFINE close == Handler("close", 0, TRUE)
      <4>1. /\ AbortedAccepts \in Seq(Handlers) /\ close \in Handlers
            /\ strand \o AbortedAccepts \in Seq(Handlers)
        BY <1>0, AbortedHandlers, CloseHandler, ConcatFacts
      <4>2. strand' = (strand \o AbortedAccepts) \o <<close>>
        BY <1>6, <2>4, <4>1 DEF CommandReadError
      <4>3. <<close>> \in Seq(Handlers)
        BY <4>1, ShortQueues
      <4> HIDE DEF close
      <4>4. (strand \o AbortedAccepts) \o <<close>>
              = strand \o (AbortedAccepts \o <<close>>)
        BY <1>0, <4>1, <4>3, ConcatThree
      <4> QED
        BY <4>2, <4>4 DEF close
    <3> QED
      BY <1>2, <1>3, <1>5, <1>8, <2>4, <3>1 DEF CommandReadError
  <2>5. ASSUME NEW k, TransferRefused(k) \/ TransferChecked(k) PROVE EndInv'
    BY <1>9, <2>5 DEF TransferRefused, TransferChecked
  <2>6. CASE \/ PasvBind \/ PasvListen \/ PasvFail \/ PasvAnnounce
             \/ Quit \/ CloseCommandSocket
    BY <1>9, <2>6 DEF PasvBind, PasvListen, PasvFail, PasvAnnounce, Quit,
                      CloseCommandSocket
  <2> QED
    BY <1>12, <2>1, <2>2, <2>3, <2>4, <2>5, <2>6 DEF CommandStrand
<1>13. CASE DataStrand
  <2>1. strand # <<>> /\ Head(strand) \in Handlers
    BY <1>0, <1>13, RunHandlers
       DEF DataStrand, AcceptFailed, Rejected, SendFile, SendEmptyFile,
           ReceiveFile, SendDirectoryListing, Connected, AddDataToBufferAndSend,
           WriteDataToSocket, EndOfListing, ListingWritten, ReceivedChunk,
           ReceivedLast, EndDataReceiving, CloseNewestDataSocket, First
  <2>2. Head(strand).run # "close" => Head(strand).t \in Transfers
    BY <1>0, <2>1, RunHandlers
  <2>3. CASE \/ AcceptFailed \/ EndDataReceiving \/ CloseNewestDataSocket
             \/ WriteDataToSocket \/ EndOfListing \/ ReceivedChunk
    BY <1>1, <1>7, <2>1, <2>3
       DEF AcceptFailed, EndDataReceiving, CloseNewestDataSocket,
           WriteDataToSocket, EndOfListing, ReceivedChunk, First
  <2>4. CASE Rejected \/ SendFile \/ SendEmptyFile \/ ReceiveFile
    BY <1>1, <1>2, <1>3, <1>7, <2>1, <2>4
       DEF Rejected, SendFile, SendEmptyFile, ReceiveFile, Connected, First
  <2>5. CASE SendDirectoryListing
    <3> DEFINE d == Handler("add", Head(strand).t, TRUE)
               e == Handler("add", Head(strand).t, FALSE)
    <3>1. Head(strand).run = "accepted" /\ Head(strand).t \in Transfers
      BY <2>2, <2>5 DEF SendDirectoryListing, Connected, First
    <3>2. d \in Datas /\ d \notin Ends /\ d \in Handlers /\ e \in Handlers
      BY <3>1, PostedHandlers DEF Datas, Ends, Lambdas, Handler
    <3> HIDE DEF d, e
    <3>3. Good(<<d, e>>)
      BY <3>2, ShortQueues DEF Good, Follows
    <3>4. strand' = (Tail(strand) \o AbortedAccepts) \o <<d, e>>
      BY <2>5 DEF SendDirectoryListing, d, e
    <3> QED
      BY <1>1, <1>2, <1>3, <1>7, <2>1, <3>1, <3>3, <3>4
  <2>6. CASE AddDataToBufferAndSend
    <3>1. /\ Head(strand).run = "add" /\ Head(strand).t \in Transfers
          /\ data_buffer' # <<>>
      BY <1>0, <2>2, <2>6, AppendFacts DEF AddDataToBufferAndSend, First
    <3> DEFINE h == Handler("write", Head(strand).t, TRUE)
    <3>2. Rest(Tail(strand)) /\ Good(<<h>>)
      BY <1>1, <1>4, <2>1, <3>1 DEF Lambdas
    <3>3. strand' = Tail(strand) \/ strand' = Tail(strand) \o <<h>>
      BY <1>6, <2>6, <3>1, <3>2, PostedHandlers
         DEF AddDataToBufferAndSend, Lambdas
    <3>4. Follows(strand', Ends, Datas)
      BY <3>2, <3>3, ConcatFollows DEF Good
    <3> QED
      BY <3>1, <3>4 DEF EndInv
  <2>7. CASE ListingWritten \/ ReceivedLast
    <3>1. Head(strand).run # "add" /\ Head(strand).t \in Transfers
      BY <2>2, <2>7 DEF ListingWritten, ReceivedLast, First
    <3>2. Good(Tail(strand))
      BY <1>1, <2>1, <3>1
    <3> QED
      BY <1>7, <1>11, <2>7, <3>1, <3>2
         DEF ListingWritten, ReceivedLast, Lambdas
  <2> QED
    BY <1>13, <2>3, <2>4, <2>5, <2>6, <2>7 DEF DataStrand
<1>14. CASE System
  <2>1. ASSUME NEW who, Connect(who) PROVE EndInv'
    BY <1>9, <2>1 DEF Connect
  <2>2. CASE AcceptCompletes
    BY <1>9, <2>2 DEF AcceptCompletes
  <2>6. CASE AcceptErrs
    <3>1. Head(accepting) \in Transfers
      BY <1>0, <2>6, TailFacts DEF AcceptErrs
    <3> QED
      BY <1>10, <2>6, <3>1 DEF AcceptErrs, Lambdas
  <2>7. ASSUME NEW t \in Transfers, AcceptPosted(t) PROVE EndInv'
    BY <1>10, <2>7 DEF AcceptPosted, Lambdas
  <2>3. ASSUME NEW t \in Transfers, SendCompletes(t) \/ SendFileHandler(t)
        PROVE  EndInv'
    BY <1>9, <2>3 DEF SendCompletes, SendFileHandler
  <2>4. ASSUME NEW t \in Transfers, NEW ok \in BOOLEAN,
               ReceiveCompletes(t, ok) \/ ListingWriteCompletes(t)
        PROVE  EndInv'
    BY <1>10, <2>4
       DEF ReceiveCompletes, ListingWriteCompletes, Outcomes, Lambdas
  <2>5. CASE ClientResets
    BY <1>9, <2>5 DEF ClientResets
  <2> QED
    BY <1>14, <2>1, <2>2, <2>3, <2>4, <2>5, <2>6, <2>7 DEF System
<1>15. CASE Destroy \/ UNCHANGED vars
  BY <1>9, <1>15 DEF Destroy, vars
<1> QED
  BY <1>12, <1>13, <1>14, <1>15 DEF Next

-----------------------------------------------------------------------------
(***************************************************************************)
(* What a transfer is waiting for.  A transfer that got its 150 and is not *)
(* completed is in one place: it waits for a data connection, or one       *)
(* handler for it is posted, or one operation of it is pending; a transfer *)
(* that is still to come or is completed is nowhere.  (The end of a        *)
(* listing does not count, by EndInv.)                                     *)
(***************************************************************************)
Continuations(t) ==
  {h \in Handlers : h.t = t /\ h.run # "close" /\ (h.run = "add" => h.arg)}

OnePlace(t) ==
  /\ OneAtMostIn(strand, Continuations(t))
  /\ OneAtMostIn(accepting, {t})
  /\ ~NoneIn(strand, Continuations(t)) => /\ NoneIn(accepting, {t})
                                          /\ io[t] = "none"
  /\ ~NoneIn(accepting, {t}) => io[t] = "none"

UnderWay(t) == \/ ~NoneIn(strand, Continuations(t))
               \/ ~NoneIn(accepting, {t})
               \/ io[t] # "none"

ToCome(t) == t > Len(kind) \/ (command = "accept" /\ t = Len(kind))

Completed(t) == \E c \in {"226", "425", "426"} : replies[t] = <<"150", c>>

AnswerInv(t) ==
  /\ OnePlace(t)
  /\ UnderWay(t) => Unanswered(t)
  /\ ToCome(t) => replies[t] = <<>>
  /\ replies[t] \in {<<>>, <<"refused">>, <<"150">>} \/ Completed(t)

\* Which handlers continue which transfer.
LEMMA ContinuationHandlers ==
  ASSUME NEW run \in Lambdas \ {"close"}, NEW u \in Transfers,
         NEW arg \in BOOLEAN, run = "add" => arg, NEW t \in Transfers
  PROVE  Handler(run, u, arg) \in Continuations(t) <=> u = t
  BY PostedHandlers DEF Continuations, Handler

\* Closing the acceptor posts a handler for each transfer that waits.
LEMMA AbortedContinuations ==
  ASSUME accepting \in Seq(Transfers), NEW t \in Transfers
  PROVE  /\ AbortedAccepts \in Seq(Handlers)
         /\ OneAtMostIn(accepting, {t})
              => OneAtMostIn(AbortedAccepts, Continuations(t))
         /\ NoneIn(AbortedAccepts, Continuations(t)) <=> NoneIn(accepting, {t})
<1>1. /\ AbortedAccepts \in Seq(Handlers)
      /\ DOMAIN accepting = 1 .. Len(accepting)
      /\ \A i \in DOMAIN accepting : accepting[i] \in Transfers
  BY AbortedHandlers
<1>2. /\ DOMAIN AbortedAccepts = DOMAIN accepting
      /\ \A i \in DOMAIN accepting :
           AbortedAccepts[i] = Handler("accepted", accepting[i], FALSE)
  BY <1>1 DEF AbortedAccepts
<1>3. \A i \in DOMAIN accepting :
        AbortedAccepts[i] \in Continuations(t) <=> accepting[i] \in {t}
  <2>1. "accepted" \in Lambdas \ {"close"}
    BY DEF Lambdas
  <2>2. \A u \in Transfers :
          Handler("accepted", u, FALSE) \in Continuations(t) <=> u = t
    BY <2>1, ContinuationHandlers
  <2> QED
    BY <1>1, <1>2, <2>2
<1> QED
  BY <1>1, <1>2, <1>3 DEF OneAtMostIn, NoneIn

\* Replies of a transfer.
LEMMA ReplySequences ==
  ASSUME NEW c \in Replies
  PROVE  /\ <<c>> # <<>>
         /\ Append(<<>>, c) = <<c>>
         /\ Append(<<"150">>, c) = <<"150", c>>
         /\ Len(<<c>>) = 1 /\ Len(<<"150", c>>) = 2 /\ <<"150">> # <<>>
<1>1. "150" \in Replies
  BY DEF Replies
<1> QED
  BY <1>1, ShortAppends

LEMMA AnswerStep ==
  ASSUME TypeOK, EndInv, [Next]_vars, NEW t \in Transfers, AnswerInv(t)
  PROVE  AnswerInv(t)'
<1> DEFINE C == Continuations(t)
<1>0. /\ strand \in Seq(Handlers) /\ accepting \in Seq(Transfers)
      /\ kind \in Seq(Kinds) /\ Len(kind) \in 0 .. MaxTransfers
      /\ io \in [Transfers -> Operations]
      /\ replies \in [Transfers -> Seq(Replies)]
      /\ t \in Nat /\ t # 0 /\ MaxTransfers \in Nat
  BY BoundsAssumption DEF TypeOK, Transfers
<1>1. ASSUME strand # <<>>
      PROVE  /\ Tail(strand) \in Seq(Handlers)
             /\ OneAtMostIn(Tail(strand), C)
             /\ Head(strand) \in C => NoneIn(Tail(strand), C)
                                      /\ ~NoneIn(strand, C)
             /\ Head(strand) \notin C =>
                  (NoneIn(Tail(strand), C) <=> NoneIn(strand, C))
  BY <1>0, <1>1, TailIn, TailFacts DEF AnswerInv, OnePlace
<1>2. ASSUME NEW s \in Seq(Handlers), OneAtMostIn(s, C),
             NoneIn(s, C) \/ NoneIn(accepting, {t})
      PROVE  /\ s \o AbortedAccepts \in Seq(Handlers)
             /\ OneAtMostIn(s \o AbortedAccepts, C)
             /\ NoneIn(s \o AbortedAccepts, C)
                  <=> NoneIn(s, C) /\ NoneIn(accepting, {t})
  <2>1. /\ AbortedAccepts \in Seq(Handlers)
        /\ OneAtMostIn(AbortedAccepts, C)
        /\ NoneIn(AbortedAccepts, C) <=> NoneIn(accepting, {t})
    BY <1>0, AbortedContinuations DEF AnswerInv, OnePlace
  <2>2. s \o AbortedAccepts \in Seq(Handlers)
    BY <2>1, ConcatFacts
  <2>3. OneAtMostIn(s \o AbortedAccepts, C)
    <3>1. CASE NoneIn(s, C)
      BY <2>1, <3>1, ConcatIn
    <3>2. CASE NoneIn(accepting, {t})
      BY <1>2, <2>1, <3>2, ConcatIn
    <3> QED
      BY <1>2, <3>1, <3>2
  <2>4. NoneIn(s \o AbortedAccepts, C) <=> NoneIn(s, C) /\ NoneIn(AbortedAccepts, C)
    BY <2>1, ConcatIn
  <2> QED
    BY <2>1, <2>2, <2>3, <2>4
<1>3. ASSUME NEW s \in Seq(Handlers), OneAtMostIn(s, C), NEW u \in Transfers,
             NEW run \in Lambdas \ {"close"}, NEW arg \in BOOLEAN,
             run = "add" => arg, u = t => NoneIn(s, C)
      PROVE  /\ OneAtMostIn(Append(s, Handler(run, u, arg)), C)
             /\ u = t => ~NoneIn(Append(s, Handler(run, u, arg)), C)
             /\ u # t => (NoneIn(Append(s, Handler(run, u, arg)), C)
                            <=> NoneIn(s, C))
  <2>1. /\ Handler(run, u, arg) \in Handlers
        /\ Handler(run, u, arg) \in C <=> u = t
    BY <1>3, PostedHandlers, ContinuationHandlers
  <2> QED
    BY <1>3, <2>1, AppendIn
<1>4. ASSUME NEW s \in Seq(Handlers), OneAtMostIn(s, C),
             NEW h \in Handlers, h \notin C
      PROVE  /\ OneAtMostIn(Append(s, h), C)
             /\ NoneIn(Append(s, h), C) <=> NoneIn(s, C)
  BY <1>4, AppendIn
\* Most steps do not matter to the transfer, and those that do leave it in
\* one place or complete it.
<1>5. ASSUME OnePlace(t)', UnderWay(t)' => UnderWay(t),
             replies'[t] = replies[t], ToCome(t)' => ToCome(t)
      PROVE  AnswerInv(t)'
  BY <1>5 DEF AnswerInv, Unanswered, Completed
<1>6. ASSUME OnePlace(t)', ~UnderWay(t)', UnderWay(t),
             NEW c \in {"226", "425", "426"},
             replies'[t] = Append(replies[t], c), ToCome(t)' => ToCome(t)
      PROVE  AnswerInv(t)'
  <2>1. replies[t] = <<"150">> /\ ~ToCome(t)
    BY <1>6 DEF AnswerInv, Unanswered
  <2>2. Append(<<"150">>, c) = <<"150", c>>
    BY <1>6, ReplySequences DEF Replies
  <2> QED
    BY <1>6, <2>1, <2>2 DEF AnswerInv, Completed
<1>7. ASSUME NEW u \in Transfers, NEW c, Reply(u, c)
      PROVE  replies'[t] = IF u = t THEN Append(replies[t], c) ELSE replies[t]
  BY <1>0, <1>7 DEF Reply
<1>8. ASSUME NEW u \in Transfers, NEW op, Start(u, op)
      PROVE  io'[t] = IF u = t THEN op ELSE io[t]
  BY <1>0, <1>8 DEF Start
<1>9. OnePlace(t)
  BY DEF AnswerInv
<1>10. NoneIn(<<>>, C) /\ OneAtMostIn(<<>>, C)
       /\ NoneIn(<<>>, {t}) /\ OneAtMostIn(<<>>, {t})
  BY EmptyIn
<1>15. /\ Unanswered(t) => replies[t] # <<>>
       /\ Append(<<>>, "150") = <<"150">>
       /\ Append(<<>>, "refused") = <<"refused">>
  BY ReplySequences DEF Unanswered, Replies
<1> HIDE DEF C
<1>11. /\ OnePlace(t) <=> /\ OneAtMostIn(strand, C)
                          /\ OneAtMostIn(accepting, {t})
                          /\ ~NoneIn(strand, C) => /\ NoneIn(accepting, {t})
                                                   /\ io[t] = "none"
                          /\ ~NoneIn(accepting, {t}) => io[t] = "none"
       /\ OnePlace(t)' <=> /\ OneAtMostIn(strand', C)
                           /\ OneAtMostIn(accepting', {t})
                           /\ ~NoneIn(strand', C) => /\ NoneIn(accepting', {t})
                                                     /\ io'[t] = "none"
                           /\ ~NoneIn(accepting', {t}) => io'[t] = "none"
       /\ UnderWay(t) <=> \/ ~NoneIn(strand, C) \/ ~NoneIn(accepting, {t})
                          \/ io[t] # "none"
       /\ UnderWay(t)' <=> \/ ~NoneIn(strand', C) \/ ~NoneIn(accepting', {t})
                           \/ io'[t] # "none"
  BY DEF C, OnePlace, UnderWay, Continuations
<1>12. ASSUME UNCHANGED <<strand, accepting, io, replies>>, ToCome(t)' => ToCome(t)
       PROVE  AnswerInv(t)'
  BY <1>5, <1>9, <1>11, <1>12
<1>13. ASSUME UNCHANGED <<kind, command>> PROVE ToCome(t)' => ToCome(t)
  BY <1>13 DEF ToCome
<1>14. ASSUME UNCHANGED kind, command' # "accept" PROVE ToCome(t)' => ToCome(t)
  BY <1>14 DEF ToCome
<1>20. CASE PasvOpen
  <2>1. strand' = strand \o AbortedAccepts /\ accepting' = <<>> /\ UNCHANGED <<io, replies>>
    BY <1>20 DEF PasvOpen, transferVars
  <2>2. ToCome(t)' => ToCome(t)
    BY <1>14, <1>20 DEF PasvOpen, transferVars
  <2> QED
    BY <1>0, <1>2, <1>5, <1>9, <1>10, <1>11, <2>1, <2>2
<1>21. CASE PasvBind \/ PasvListen \/ PasvFail \/ PasvAnnounce \/ Quit
  BY <1>12, <1>14, <1>21
     DEF PasvBind, PasvListen, PasvFail, PasvAnnounce, Quit, transferVars,
         acceptVars
<1>22. CASE CloseCommandSocket \/ ClientResets
  BY <1>12, <1>13, <1>22
     DEF CloseCommandSocket, ClientResets, transferVars, acceptVars
<1>23. CASE PasvTerminate
  <2>1. /\ strand' = <<>> /\ accepting' = <<>> /\ io'[t] = "none"
        /\ UNCHANGED replies
    BY <1>23 DEF PasvTerminate, CloseDataAcceptor
  <2>2. ToCome(t)' => ToCome(t)
    BY <1>14, <1>23 DEF PasvTerminate
  <2> QED
    BY <1>5, <1>10, <1>11, <2>1, <2>2
<1>24. ASSUME NEW k \in Kinds, TransferRefused(k)
       PROVE  AnswerInv(t)'
  <2>1. /\ Len(kind') = Len(kind) + 1 /\ command' # "accept"
        /\ Len(kind) + 1 \in Transfers
        /\ UNCHANGED <<strand, accepting, io>>
        /\ Reply(Len(kind) + 1, "refused")
    BY <1>0, <1>24 DEF TransferRefused, commandVars, acceptVars, Transfers
  <2>2. CASE t = Len(kind) + 1
    <3>1. replies[t] = <<>> /\ ~UnderWay(t)
      BY <1>0, <1>15, <2>2 DEF AnswerInv, ToCome
    <3>2. replies'[t] = <<"refused">>
      BY <1>7, <2>1, <2>2, <3>1, <1>15
    <3> QED
      BY <1>0, <1>9, <1>11, <2>1, <2>2, <3>1, <3>2 DEF AnswerInv, ToCome
  <2>3. CASE t # Len(kind) + 1
    BY <1>0, <1>7, <1>12, <2>1, <2>3, <1>5, <1>9, <1>11 DEF ToCome
  <2> QED
    BY <2>2, <2>3
<1>25. ASSUME NEW k \in Kinds, TransferChecked(k)
       PROVE  AnswerInv(t)'
  <2>1. Len(kind') = Len(kind) + 1 /\ UNCHANGED <<strand, accepting, io, replies>>
    BY <1>0, <1>25 DEF TransferChecked, acceptVars
  <2> QED
    BY <1>0, <1>12, <2>1 DEF ToCome
<1>26. CASE AcceptDataConnection
  <2>1. /\ Len(kind) \in Transfers
        /\ command = "accept" /\ command' = "reading"
        /\ UNCHANGED <<kind, io>>
        /\ Reply(Len(kind), "150")
    BY <1>0, <1>26 DEF AcceptDataConnection, TypeOK, Transfers
  <2>2. \/ /\ accepting' = Append(accepting, Len(kind))
           /\ strand' = strand
        \/ /\ accepting' = accepting
           /\ strand' = Append(strand, Handler("accepted", Len(kind), FALSE))
    BY <1>26 DEF AcceptDataConnection
  <2>3. CASE t = Len(kind)
    <3>1. replies[t] = <<>> /\ ~UnderWay(t)
      BY <1>15, <2>1, <2>3 DEF AnswerInv, ToCome
    <3>2. replies'[t] = <<"150">>
      BY <1>7, <2>1, <2>3, <3>1, <1>15
    <3>3. ~ToCome(t)'
      BY <1>0, <2>1, <2>3 DEF ToCome
    <3>4. OneAtMostIn(Append(accepting, t), {t})
      BY <1>0, <1>11, <3>1, AppendIn, <1>9
    <3>5. OneAtMostIn(Append(strand, Handler("accepted", t, FALSE)), C)
      BY <1>0, <1>3, <1>11, <3>1, <1>9 DEF Lambdas
    <3>6. OnePlace(t)'
      BY <1>9, <1>11, <2>1, <2>2, <2>3, <3>1, <3>4, <3>5
    <3> QED
      BY <3>2, <3>3, <3>6 DEF AnswerInv, Unanswered
  <2>4. CASE t # Len(kind)
    <3>1. /\ OneAtMostIn(Append(accepting, Len(kind)), {t})
          /\ NoneIn(Append(accepting, Len(kind)), {t}) <=> NoneIn(accepting, {t})
      BY <1>0, <1>9, <1>11, <2>1, <2>4, AppendIn
    <3>2. /\ OneAtMostIn(Append(strand, Handler("accepted", Len(kind), FALSE)), C)
          /\ NoneIn(Append(strand, Handler("accepted", Len(kind), FALSE)), C)
               <=> NoneIn(strand, C)
      BY <1>0, <1>3, <1>9, <1>11, <2>1, <2>4 DEF Lambdas
    <3>3. ToCome(t)' => ToCome(t)
      BY <1>14, <2>1
    <3> QED
      BY <1>5, <1>7, <1>9, <1>11, <2>1, <2>2, <2>4, <3>1, <3>2, <3>3
  <2> QED
    BY <2>3, <2>4
<1>27. CASE CommandReadError
  <2> DEFINE close == Handler("close", 0, TRUE)
  <2>1. close \in Handlers /\ close \notin C
    BY CloseHandler DEF C, Continuations, Handler
  <2>2. /\ strand' = Append(strand \o AbortedAccepts, close)
        /\ accepting' = <<>> /\ UNCHANGED <<io, replies>>
    BY <1>27 DEF CommandReadError, CloseDataAcceptor, transferVars
  <2>3. ToCome(t)' => ToCome(t)
    BY <1>14, <1>27 DEF CommandReadError, transferVars
  <2> HIDE DEF close
  <2> QED
    BY <1>0, <1>2, <1>4, <1>5, <1>9, <1>10, <1>11, <2>1, <2>2, <2>3
<1>30. ASSUME DataStrand
       PROVE  /\ strand # <<>>
              /\ Head(strand).run \in Lambdas
              /\ Head(strand).arg \in BOOLEAN
              /\ Head(strand).run # "close" => Head(strand).t \in Transfers
              /\ Head(strand).run \notin {"close", "add"} =>
                   (Head(strand) \in C <=> Head(strand).t = t)
              /\ Head(strand).run = "add" =>
                   (Head(strand) \in C <=> Head(strand).t = t /\ Head(strand).arg)
              /\ Head(strand).run = "close" => Head(strand) \notin C
              /\ UNCHANGED <<kind, command>>
  <2>1. strand # <<>> /\ UNCHANGED <<kind, command>>
    BY <1>30
       DEF DataStrand, AcceptFailed, Rejected, SendFile, SendEmptyFile,
           ReceiveFile, SendDirectoryListing, Connected, AddDataToBufferAndSend,
           WriteDataToSocket, EndOfListing, ListingWritten, ReceivedChunk,
           ReceivedLast, EndDataReceiving, CloseNewestDataSocket, First,
           commandVars, transferVars
  <2> QED
    BY <1>0, <2>1, RunHandlers DEF C, Continuations
<1>31. CASE DataStrand
  <2> DEFINE u    == Head(strand).t
             rest == Tail(strand)
  <2>0. /\ strand # <<>> /\ (ToCome(t)' => ToCome(t))
        /\ rest \in Seq(Handlers) /\ OneAtMostIn(rest, C)
        /\ Head(strand) \in C => NoneIn(rest, C) /\ ~NoneIn(strand, C)
        /\ Head(strand) \notin C => (NoneIn(rest, C) <=> NoneIn(strand, C))
    BY <1>1, <1>13, <1>30, <1>31
  <2>1. CASE AcceptFailed
    <3>1. /\ u \in Transfers /\ (Head(strand) \in C <=> u = t)
          /\ Reply(u, "426") /\ strand' = rest /\ UNCHANGED <<accepting, io>>
      BY <1>30, <1>31, <2>1 DEF AcceptFailed, First, acceptVars
    <3> QED
      BY <1>5, <1>6, <1>7, <1>9, <1>11, <2>0, <3>1
  <2>2. CASE Rejected
    <3>1. /\ u \in Transfers /\ (Head(strand) \in C <=> u = t)
          /\ Reply(u, "425") /\ strand' = rest \o AbortedAccepts
          /\ accepting' = <<>> /\ UNCHANGED io
      BY <1>30, <1>31, <2>2 DEF Rejected, First, CloseDataAcceptor
    <3> QED
      BY <1>2, <1>5, <1>6, <1>7, <1>9, <1>10, <1>11, <2>0, <3>1
  <2>3. CASE SendEmptyFile
    <3>1. /\ u \in Transfers /\ (Head(strand) \in C <=> u = t)
          /\ Reply(u, "226") /\ strand' = rest \o AbortedAccepts
          /\ accepting' = <<>> /\ UNCHANGED io
      BY <1>30, <1>31, <2>3
         DEF SendEmptyFile, Connected, First, CloseDataAcceptor, Done
    <3> QED
      BY <1>2, <1>5, <1>6, <1>7, <1>9, <1>10, <1>11, <2>0, <3>1
  <2>4. CASE SendFile \/ ReceiveFile
    <3>1. /\ u \in Transfers /\ (Head(strand) \in C <=> u = t)
          /\ strand' = rest \o AbortedAccepts /\ accepting' = <<>>
          /\ (Start(u, "send") \/ Start(u, "receive")) /\ UNCHANGED replies
      BY <1>30, <1>31, <2>4
         DEF SendFile, ReceiveFile, Connected, First, CloseDataAcceptor
    <3> QED
      BY <1>2, <1>5, <1>8, <1>9, <1>10, <1>11, <2>0, <3>1
  <2>5. CASE SendDirectoryListing
    <3> DEFINE d == Handler("add", u, TRUE)
               e == Handler("add", u, FALSE)
               q == rest \o AbortedAccepts
    <3>1. /\ u \in Transfers /\ (Head(strand) \in C <=> u = t)
          /\ strand' = q \o <<d, e>>
          /\ accepting' = <<>> /\ UNCHANGED <<io, replies>>
      BY <1>30, <1>31, <2>5
         DEF SendDirectoryListing, Connected, First, CloseDataAcceptor
    <3>2. d \in Handlers /\ e \in Handlers /\ e \notin C /\ (d \in C <=> u = t)
      BY <3>1, PostedHandlers, ContinuationHandlers
         DEF Lambdas, C, Continuations, Handler
    <3>3. /\ q \in Seq(Handlers) /\ OneAtMostIn(q, C)
          /\ NoneIn(q, C) <=> NoneIn(rest, C) /\ NoneIn(accepting, {t})
      BY <1>2, <1>9, <1>11, <2>0, <3>1
    <3> HIDE DEF d, e, q
    <3>4. /\ <<d, e>> \in Seq(Handlers)
          /\ OneAtMostIn(<<d, e>>, C)
          /\ NoneIn(<<d, e>>, C) <=> u # t
      BY <3>2, ShortQueues DEF OneAtMostIn, NoneIn
    <3>5. u = t => NoneIn(q, C)
      BY <1>9, <1>11, <2>0, <3>1, <3>3
    <3>6. /\ OneAtMostIn(strand', C)
          /\ NoneIn(strand', C) <=> NoneIn(q, C) /\ u # t
      <4>1. OneAtMostIn(q \o <<d, e>>, C)
        <5>1. CASE u = t
          BY <3>3, <3>4, <3>5, <5>1, ConcatIn
        <5>2. CASE u # t
          BY <3>3, <3>4, <5>2, ConcatIn
        <5> QED
          BY <5>1, <5>2
      <4>2. NoneIn(q \o <<d, e>>, C) <=> NoneIn(q, C) /\ NoneIn(<<d, e>>, C)
        BY <3>3, <3>4, ConcatIn
      <4> QED
        BY <3>1, <3>4, <4>1, <4>2
    <3> QED
      BY <1>5, <1>9, <1>10, <1>11, <2>0, <3>1, <3>3, <3>6
  <2>6. CASE AddDataToBufferAndSend
    <3>1. /\ u \in Transfers
          /\ Head(strand) \in C <=> u = t /\ Head(strand).arg
          /\ UNCHANGED <<accepting, io, replies>>
          /\ \/ strand' = rest
             \/ strand' = Append(rest, Handler("write", u, TRUE))
          /\ data_buffer # <<>> => strand' = rest
      BY <1>30, <1>31, <2>6
         DEF AddDataToBufferAndSend, First, acceptVars, transferVars,
             WriteNotInProgress
    <3>2. ~Head(strand).arg => data_buffer # <<>>
      BY <1>0, <2>0, <2>6, RunHandlers
         DEF EndInv, Ends, AddDataToBufferAndSend, First
    <3>3. u = t => NoneIn(rest, C) \/ ~Head(strand).arg
      BY <2>0, <3>1
    <3>4. strand' # rest =>
            /\ OneAtMostIn(strand', C)
            /\ u # t => (NoneIn(strand', C) <=> NoneIn(rest, C))
      <4>1. "write" \in Lambdas \ {"close"}
        BY DEF Lambdas
      <4>2. ASSUME strand' # rest
            PROVE  /\ strand' = Append(rest, Handler("write", u, TRUE))
                   /\ u = t => NoneIn(rest, C)
        BY <3>1, <3>2, <3>3, <4>2
      <4>3. ASSUME strand' # rest
            PROVE  /\ OneAtMostIn(strand', C)
                   /\ u # t => (NoneIn(strand', C) <=> NoneIn(rest, C))
        <5>1. /\ OneAtMostIn(Append(rest, Handler("write", u, TRUE)), C)
              /\ u # t => (NoneIn(Append(rest, Handler("write", u, TRUE)), C)
                             <=> NoneIn(rest, C))
          <6>1. /\ rest \in Seq(Handlers) /\ OneAtMostIn(rest, C)
                /\ u \in Transfers /\ (u = t => NoneIn(rest, C))
            BY <2>0, <3>1, <4>2, <4>3
          <6> HIDE DEF u, rest
          <6> QED
            BY <1>3, <4>1, <6>1
        <5> QED
          BY <4>2, <4>3, <5>1
      <4> QED
        BY <4>3
    <3>5. OneAtMostIn(strand', C) /\ (NoneIn(strand, C) => NoneIn(strand', C))
      BY <2>0, <3>1, <3>2, <3>4
    <3> QED
      BY <1>5, <1>9, <1>11, <2>0, <3>1, <3>5
  <2>7. CASE WriteDataToSocket \/ ReceivedChunk
    <3>1. /\ u \in Transfers /\ (Head(strand) \in C <=> u = t)
          /\ strand' = rest /\ UNCHANGED <<accepting, replies>>
          /\ (Start(u, "list") \/ Start(u, "receive"))
      BY <1>30, <1>31, <2>7
         DEF WriteDataToSocket, ReceivedChunk, First, acceptVars
    <3> QED
      BY <1>5, <1>8, <1>9, <1>11, <2>0, <3>1
  <2>8. CASE EndOfListing \/ EndDataReceiving
    <3>1. /\ u \in Transfers /\ (Head(strand) \in C <=> u = t)
          /\ Reply(u, "226") /\ strand' = rest /\ UNCHANGED <<accepting, io>>
      BY <1>30, <1>31, <2>8
         DEF EndOfListing, EndDataReceiving, First, acceptVars, Done
    <3> QED
      BY <1>5, <1>6, <1>7, <1>9, <1>11, <2>0, <3>1
  <2>9. CASE ListingWritten \/ ReceivedLast
    <3>1. /\ u \in Transfers /\ (Head(strand) \in C <=> u = t)
          /\ UNCHANGED <<accepting, io, replies>>
          /\ \/ strand' = rest
             \/ strand' = Append(rest, Handler("write", u, TRUE))
             \/ strand' = Append(rest, Handler("endrecv", u, TRUE))
      BY <1>30, <1>31, <2>9
         DEF ListingWritten, ReceivedLast, First, acceptVars, transferVars
    <3>2. /\ OneAtMostIn(strand', C)
          /\ u # t => (NoneIn(strand', C) <=> NoneIn(rest, C))
      <4>1. "write" \in Lambdas \ {"close"} /\ "endrecv" \in Lambdas \ {"close"}
        BY DEF Lambdas
      <4>2. ASSUME NEW run \in {"write", "endrecv"},
                   strand' = Append(rest, Handler(run, u, TRUE))
            PROVE  /\ OneAtMostIn(strand', C)
                   /\ u # t => (NoneIn(strand', C) <=> NoneIn(rest, C))
        <5>1. /\ rest \in Seq(Handlers) /\ OneAtMostIn(rest, C)
              /\ u \in Transfers /\ (u = t => NoneIn(rest, C))
          BY <2>0, <3>1
        <5>2. run \in Lambdas \ {"close"} /\ run # "add"
          BY <4>1, <4>2
        <5> HIDE DEF u, rest
        <5>3. /\ OneAtMostIn(Append(rest, Handler(run, u, TRUE)), C)
              /\ u # t => (NoneIn(Append(rest, Handler(run, u, TRUE)), C)
                             <=> NoneIn(rest, C))
          BY <1>3, <5>1, <5>2
        <5> QED
          BY <4>2, <5>3
      <4> QED
        BY <2>0, <3>1, <4>2
    <3> QED
      BY <1>5, <1>9, <1>11, <2>0, <3>1, <3>2
  <2>10. CASE CloseNewestDataSocket
    <3>1. /\ Head(strand) \notin C /\ strand' = rest
          /\ UNCHANGED <<accepting, io, replies>>
      BY <1>30, <1>31, <2>10 DEF CloseNewestDataSocket, First, acceptVars
    <3> QED
      BY <1>5, <1>9, <1>11, <2>0, <3>1
  <2> QED
    BY <1>31, <2>1, <2>2, <2>3, <2>4, <2>5, <2>6, <2>7, <2>8, <2>9, <2>10
       DEF DataStrand
<1>40. ASSUME NEW who, Connect(who) PROVE AnswerInv(t)'
  BY <1>12, <1>13, <1>40 DEF Connect, commandVars, transferVars
<1>41. CASE AcceptCompletes
  <2> DEFINE u == Head(accepting)
  <2>1. /\ u \in Transfers /\ UNCHANGED <<strand, replies>>
        /\ Start(u, "accepted")
        /\ accepting' = Tail(accepting) /\ accepting # <<>>
    BY <1>0, <1>41, TailFacts DEF AcceptCompletes
  <2>2. /\ OneAtMostIn(Tail(accepting), {t})
        /\ u = t => NoneIn(Tail(accepting), {t}) /\ ~NoneIn(accepting, {t})
        /\ u # t => (NoneIn(Tail(accepting), {t}) <=> NoneIn(accepting, {t}))
    BY <1>0, <1>9, <1>11, <2>1, TailIn
  <2>3. ToCome(t)' => ToCome(t)
    BY <1>13, <1>41 DEF AcceptCompletes, commandVars
  <2> HIDE DEF u
  <2> QED
    BY <1>5, <1>8, <1>9, <1>11, <2>1, <2>2, <2>3
<1>47. CASE AcceptErrs
  <2> DEFINE u == Head(accepting)
  <2>1. /\ u \in Transfers /\ UNCHANGED <<io, replies>>
        /\ accepting' = Tail(accepting) /\ accepting # <<>>
        /\ strand' = Append(strand, Handler("accepted", u, FALSE))
    BY <1>0, <1>47, TailFacts DEF AcceptErrs, transferVars
  <2>2. /\ OneAtMostIn(Tail(accepting), {t})
        /\ u = t => NoneIn(Tail(accepting), {t}) /\ ~NoneIn(accepting, {t})
        /\ u # t => (NoneIn(Tail(accepting), {t}) <=> NoneIn(accepting, {t}))
    BY <1>0, <1>9, <1>11, <2>1, TailIn
  <2>3. /\ OneAtMostIn(strand', C)
        /\ u # t => (NoneIn(strand', C) <=> NoneIn(strand, C))
    BY <1>0, <1>3, <1>9, <1>11, <2>1, <2>2 DEF Lambdas
  <2>4. ToCome(t)' => ToCome(t)
    BY <1>13, <1>47 DEF AcceptErrs, commandVars, transferVars
  <2> QED
    BY <1>5, <1>9, <1>11, <2>1, <2>2, <2>3, <2>4
<1>42. ASSUME NEW u \in Transfers, SendCompletes(u) PROVE AnswerInv(t)'
  <2>1. /\ io[u] = "send" /\ (Start(u, "sent") \/ Start(u, "unsent"))
        /\ UNCHANGED <<strand, accepting, replies>>
    BY <1>42 DEF SendCompletes, acceptVars
  <2>2. ToCome(t)' => ToCome(t)
    BY <1>13, <1>42 DEF SendCompletes, commandVars
  <2> QED
    BY <1>5, <1>8, <1>9, <1>11, <2>1, <2>2
<1>43. ASSUME NEW u \in Transfers, SendFileHandler(u) PROVE AnswerInv(t)'
  <2>1. /\ io[u] # "none" /\ Start(u, "none")
        /\ UNCHANGED <<strand, accepting>>
        /\ replies' = [replies EXCEPT ![u] = @ \o SendFileReplies(u)]
    BY <1>43 DEF SendFileHandler, acceptVars
  <2>2. ToCome(t)' => ToCome(t)
    BY <1>13, <1>43 DEF SendFileHandler, commandVars
  <2>3. CASE u = t
    <3>1. PICK c \in {"226", "426"} : SendFileReplies(t) = <<c>>
      BY <2>3 DEF SendFileReplies, Done
    <3>2. replies[t] \in Seq(Replies) /\ c \in Replies
      BY <1>0 DEF Replies
    <3>3. replies'[t] = Append(replies[t], c)
      BY <1>0, <2>1, <2>3, <3>1, <3>2
    <3> QED
      BY <1>6, <1>8, <1>9, <1>11, <2>1, <2>2, <2>3, <3>3
  <2>4. CASE u # t
    <3>1. replies'[t] = replies[t]
      BY <1>0, <2>1, <2>4
    <3> QED
      BY <1>5, <1>8, <1>9, <1>11, <2>1, <2>2, <2>4, <3>1
  <2> QED
    BY <2>3, <2>4
<1>44. ASSUME NEW u \in Transfers, NEW ok \in BOOLEAN,
              \/ AcceptPosted(u) \/ ReceiveCompletes(u, ok)
              \/ ListingWriteCompletes(u)
       PROVE  AnswerInv(t)'
  <2>1. /\ io[u] # "none" /\ Start(u, "none")
        /\ UNCHANGED <<accepting, replies>>
    BY <1>44 DEF AcceptPosted, ReceiveCompletes, ListingWriteCompletes,
                 acceptVars
  <2>2. PICK run \in {"accepted", "chunk", "listed"}, arg \in BOOLEAN :
          strand' = Append(strand, Handler(run, u, arg))
    BY <1>44 DEF AcceptPosted, ReceiveCompletes, ListingWriteCompletes, Outcomes
  <2>3. ToCome(t)' => ToCome(t)
    BY <1>13, <1>44
       DEF AcceptPosted, ReceiveCompletes, ListingWriteCompletes, commandVars
  <2>4. u = t => NoneIn(strand, C) /\ NoneIn(accepting, {t})
    BY <1>9, <1>11, <2>1
  <2>5. /\ OneAtMostIn(strand', C)
        /\ u # t => (NoneIn(strand', C) <=> NoneIn(strand, C))
    BY <1>0, <1>3, <1>9, <1>11, <2>2, <2>4 DEF Lambdas
  <2> QED
    BY <1>5, <1>8, <1>9, <1>11, <2>1, <2>3, <2>4, <2>5
<1>45. CASE Destroy
  <2>1. accepting' = <<>> /\ UNCHANGED <<strand, io, replies>>
    BY <1>45 DEF Destroy, CloseDataAcceptor, transferVars
  <2>2. ToCome(t)' => ToCome(t)
    BY <1>13, <1>45 DEF Destroy, transferVars
  <2> QED
    BY <1>5, <1>9, <1>10, <1>11, <2>1, <2>2
<1>46. CASE UNCHANGED vars
  BY <1>12, <1>13, <1>46 DEF vars, acceptVars, transferVars, commandVars
<1> QED
  BY <1>20, <1>21, <1>22, <1>23, <1>24, <1>25, <1>26, <1>27, <1>31, <1>40,
     <1>41, <1>42, <1>43, <1>44, <1>45, <1>46, <1>47
     DEF Next, CommandStrand, System

LEMMA AnswerInit == ASSUME Init, NEW t \in Transfers PROVE AnswerInv(t)
<1>1. /\ accepting = <<>> /\ strand = <<>> /\ io[t] = "none"
      /\ replies[t] = <<>>
  BY DEF Init
<1> QED
  BY <1>1, EmptyIn DEF AnswerInv, OnePlace, UnderWay

\* The invariant of the strands: types, chain, ends and continuations.
StrandInv == TypeOK /\ ChainInv /\ EndInv /\ \A t \in Transfers : AnswerInv(t)

LEMMA StrandStep == StrandInv /\ [Next]_vars => StrandInv'
<1> SUFFICES ASSUME StrandInv, [Next]_vars PROVE StrandInv'
  OBVIOUS
<1>1. TypeOK' /\ ChainInv' /\ EndInv'
  BY TypeStep, ChainStep, EndsStep DEF StrandInv
<1>2. ASSUME NEW t \in Transfers PROVE AnswerInv(t)'
  BY AnswerStep DEF StrandInv
<1> QED
  BY <1>1, <1>2 DEF StrandInv

LEMMA StrandInit == Init => StrandInv
<1> SUFFICES ASSUME Init PROVE StrandInv
  OBVIOUS
<1>1. EndInv
  BY DEF Init, EndInv, Follows
<1> QED
  BY <1>1, TypeInit, ChainInit, AnswerInit DEF StrandInv

LEMMA Strands == Spec => []StrandInv
  BY StrandInit, StrandStep, PTL DEF Spec

(***************************************************************************)
(* A transfer gets its 150 and at most one completion reply, however       *)
(* transfers, PASV commands and the end of the connection overlap.         *)
(***************************************************************************)
THEOREM AtMostOneCompletion == Spec => []OneCompletion
<1>1. StrandInv => OneCompletion
  BY DEF StrandInv, AnswerInv, Completed, OneCompletion
<1> QED
  BY <1>1, Strands, PTL

-----------------------------------------------------------------------------
(***************************************************************************)
(* Peers.  A transfer that waits for a data connection has no peer yet,    *)
(* and nothing but the handler of the accept runs for a transfer whose     *)
(* peer is not the client.                                                 *)
(***************************************************************************)
Serving(t) ==
  {h \in Handlers : h.t = t /\ h.run \notin {"accepted", "close"}}

Waiting(t) == ToCome(t) \/ ~NoneIn(accepting, {t})

NotServed(t) ==
  /\ io[t] \in {"none", "accepted"}
  /\ weak # t
  /\ replies[t] # <<"150", "226">>
  /\ NoneIn(strand, Serving(t))

PeerInv(t) ==
  /\ Waiting(t) => peer[t] = "none"
  /\ peer[t] # "client" => NotServed(t)

\* The last of the replies is the one that was added.
LEMMA LastReply ==
  ASSUME NEW s \in Seq(Replies), NEW c \in Replies
  PROVE  /\ Append(s, c) = <<"150">> => c = "150"
         /\ Append(s, c) = <<"150", "226">> => c = "226"
<1>1. /\ Append(s, c)[Len(Append(s, c))] = c
  BY AppendFacts
<1>2. /\ Len(<<"150">>) = 1 /\ <<"150">>[1] = "150"
      /\ Len(<<"150", "226">>) = 2 /\ <<"150", "226">>[2] = "226"
  OBVIOUS
<1> QED
  BY <1>1, <1>2

\* A transfer only begins to wait when its command is read.
LEMMA WaitingStep ==
  ASSUME TypeOK, [Next]_vars, NEW t \in Transfers
  PROVE  /\ Waiting(t)' => Waiting(t)
         /\ AcceptCompletes \/ peer' = peer
<1>0. /\ accepting \in Seq(Transfers) /\ kind \in Seq(Kinds)
      /\ Len(kind) \in 0 .. MaxTransfers /\ MaxTransfers \in Nat /\ t \in Nat
  BY BoundsAssumption DEF TypeOK, Transfers
<1>1. ASSUME ToCome(t)' => ToCome(t),
             accepting' = <<>> \/ UNCHANGED accepting
      PROVE  Waiting(t)' => Waiting(t)
  BY <1>1, EmptyIn DEF Waiting
<1>2. ASSUME UNCHANGED <<kind, command>> PROVE ToCome(t)' => ToCome(t)
  BY <1>2 DEF ToCome
<1>3. ASSUME UNCHANGED kind, command' # "accept" PROVE ToCome(t)' => ToCome(t)
  BY <1>3 DEF ToCome
<1>4. CASE \/ PasvOpen \/ PasvBind \/ PasvListen \/ PasvFail \/ PasvAnnounce
           \/ PasvTerminate \/ Quit \/ CommandReadError
  BY <1>1, <1>3, <1>4
     DEF PasvOpen, PasvBind, PasvListen, PasvFail, PasvAnnounce, PasvTerminate,
         Quit, CommandReadError, CloseDataAcceptor, acceptVars, transferVars
<1>5. ASSUME NEW k \in Kinds, TransferRefused(k) \/ TransferChecked(k)
      PROVE  (Waiting(t)' => Waiting(t)) /\ peer' = peer
  <2>1. /\ Len(kind') = Len(kind) + 1 /\ UNCHANGED <<accepting, peer>>
        /\ command' \in {"reading", "accept"}
    BY <1>0, <1>5, AppendFacts
       DEF TransferRefused, TransferChecked, commandVars, acceptVars
  <2> QED
    BY <1>0, <1>1, <2>1 DEF ToCome
<1>6. CASE AcceptDataConnection
  <2>1. /\ command = "accept" /\ command' # "accept"
        /\ UNCHANGED <<kind, peer>>
        /\ \/ accepting' = Append(accepting, Len(kind))
           \/ UNCHANGED accepting
    BY <1>6 DEF AcceptDataConnection
  <2>3. Len(kind) \in Transfers
    BY <1>0, <2>1 DEF TypeOK, Transfers
  <2>2. Len(kind) # t =>
          (NoneIn(Append(accepting, Len(kind)), {t}) <=> NoneIn(accepting, {t}))
    BY <1>0, <2>3, AppendIn
  <2> QED
    BY <1>3, <2>1, <2>2 DEF Waiting, ToCome
<1>7. CASE DataStrand
  <2>1. /\ UNCHANGED <<kind, command, peer>>
        /\ accepting' = <<>> \/ UNCHANGED accepting
    BY <1>7
       DEF DataStrand, AcceptFailed, Rejected, SendFile, SendEmptyFile,
           ReceiveFile, SendDirectoryListing, Connected, AddDataToBufferAndSend,
           WriteDataToSocket, EndOfListing, ListingWritten, ReceivedChunk,
           ReceivedLast, EndDataReceiving, CloseNewestDataSocket,
           CloseDataAcceptor, commandVars, transferVars, acceptVars
  <2> QED
    BY <1>1, <1>2, <2>1
<1>8. CASE AcceptCompletes \/ AcceptErrs
  <2>1. NoneIn(accepting, {t}) => NoneIn(accepting', {t})
    BY <1>0, <1>8, TailIn DEF AcceptCompletes, AcceptErrs
  <2> QED
    BY <1>2, <1>8, <2>1
       DEF AcceptCompletes, AcceptErrs, commandVars, transferVars, Waiting
<1>9. ASSUME NEW u, NEW ok, \/ AcceptPosted(u)
                            \/ SendCompletes(u) \/ SendFileHandler(u)
                            \/ ReceiveCompletes(u, ok)
                            \/ ListingWriteCompletes(u)
                            \/ Connect(u)
      PROVE  (Waiting(t)' => Waiting(t)) /\ peer' = peer
  BY <1>1, <1>2, <1>9
     DEF AcceptPosted, SendCompletes, SendFileHandler, ReceiveCompletes,
         Connect, ListingWriteCompletes, commandVars, acceptVars, transferVars
<1>10. CASE CloseCommandSocket \/ ClientResets \/ Destroy \/ UNCHANGED vars
  BY <1>1, <1>2, <1>10
     DEF CloseCommandSocket, ClientResets, Destroy, CloseDataAcceptor, vars,
         commandVars, acceptVars, transferVars
<1> QED
  BY <1>4, <1>5, <1>6, <1>7, <1>8, <1>9, <1>10
     DEF Next, CommandStrand, System

LEMMA PeerStep ==
  ASSUME TypeOK, [Next]_vars, NEW t \in Transfers, AnswerInv(t), PeerInv(t)
  PROVE  PeerInv(t)'
<1> DEFINE H == Serving(t)
<1>0. /\ strand \in Seq(Handlers) /\ accepting \in Seq(Transfers)
      /\ io \in [Transfers -> Operations]
      /\ replies \in [Transfers -> Seq(Replies)]
  BY DEF TypeOK
<1>1. (Waiting(t)' => Waiting(t)) /\ (AcceptCompletes \/ peer' = peer)
  BY WaitingStep
<1>2. CASE AcceptCompletes /\ Head(accepting) = t
  <2>1. /\ accepting # <<>> /\ accepting' = Tail(accepting)
        /\ io'[t] = "accepted"
        /\ UNCHANGED <<kind, command, strand, weak, replies>>
    BY <1>0, <1>2 DEF AcceptCompletes, Start, commandVars
  <2>2. /\ ~NoneIn(accepting, {t}) /\ NoneIn(accepting', {t})
    BY <1>0, <1>2, <2>1, TailIn DEF AnswerInv, OnePlace
  <2>3. ~ToCome(t)
    BY <2>2, ReplySequences DEF AnswerInv, UnderWay, Unanswered
  <2>4. NotServed(t)
    BY <2>2 DEF PeerInv, Waiting
  <2> QED
    BY <2>1, <2>2, <2>3, <2>4 DEF PeerInv, Waiting, ToCome, NotServed, Serving
<1>3. peer'[t] = peer[t] \/ (AcceptCompletes /\ Head(accepting) = t)
  BY <1>1 DEF AcceptCompletes, TypeOK
\* From here on the transfer keeps a peer that is not the client.
<1>4. SUFFICES ASSUME NotServed(t), peer[t] # "client", peer'[t] = peer[t]
               PROVE  NotServed(t)'
  BY <1>1, <1>2, <1>3 DEF PeerInv
<1>5. NoneIn(strand, H) /\ io[t] \in {"none", "accepted"}
  BY <1>4 DEF NotServed
<1>6. ASSUME strand # <<>>
      PROVE  /\ Tail(strand) \in Seq(Handlers) /\ NoneIn(Tail(strand), H)
             /\ Head(strand).run \in Lambdas
             /\ Head(strand).run # "close" => Head(strand).t \in Transfers
             /\ Head(strand).run \notin {"accepted", "close"} =>
                  Head(strand).t # t
  <2>1. Head(strand) \notin H /\ Head(strand) \in Handlers
    BY <1>0, <1>5, <1>6, TailIn, RunHandlers
  <2> QED
    BY <1>0, <1>5, <1>6, <2>1, TailIn, RunHandlers DEF Serving
<1>7. ASSUME NEW s \in Seq(Handlers), NoneIn(s, H)
      PROVE  /\ s \o AbortedAccepts \in Seq(Handlers)
             /\ NoneIn(s \o AbortedAccepts, H)
  <2>1. AbortedAccepts \in Seq(Handlers)
    BY <1>0, AbortedHandlers
  <2>2. NoneIn(AbortedAccepts, H)
    BY DEF NoneIn, AbortedAccepts, Serving, Handler
  <2> QED
    BY <1>7, <2>1, <2>2, ConcatIn, ConcatFacts
<1>8. ASSUME NEW s \in Seq(Handlers), NoneIn(s, H), NEW u \in Transfers,
             NEW run \in Lambdas \ {"close"}, NEW arg \in BOOLEAN,
             u # t \/ run = "accepted"
      PROVE  /\ Append(s, Handler(run, u, arg)) \in Seq(Handlers)
             /\ NoneIn(Append(s, Handler(run, u, arg)), H)
  <2>1. Handler(run, u, arg) \in Handlers
    BY PostedHandlers
  <2>2. Handler(run, u, arg) \notin H
    BY <1>8 DEF Serving, Handler
  <2> QED
    BY <1>8, <2>1, <2>2, AppendIn, AppendFacts
<1>9. ASSUME NEW u \in Transfers, NEW c \in Replies \ {"226"}, Reply(u, c)
      PROVE  replies'[t] # <<"150", "226">>
  <2>1. u # t => replies'[t] = replies[t]
    BY <1>0, <1>9 DEF Reply
  <2>2. u = t => replies'[t] = Append(replies[t], c)
    BY <1>0, <1>9 DEF Reply
  <2>3. replies[t] \in Seq(Replies) /\ replies[t] # <<"150", "226">>
    BY <1>0, <1>4 DEF NotServed
  <2> QED
    BY <2>1, <2>2, <2>3, LastReply
<1>10. ASSUME NEW u, u # t, NEW c, Reply(u, c)
       PROVE  replies'[t] # <<"150", "226">>
  BY <1>0, <1>4, <1>10 DEF Reply, NotServed
<1>11. ASSUME NEW u, NEW op, Start(u, op), u # t \/ op \in {"none", "accepted"}
       PROVE  io'[t] \in {"none", "accepted"}
  BY <1>0, <1>5, <1>11 DEF Start
<1>12. replies[t] # <<"150", "226">> /\ weak # t
  BY <1>4 DEF NotServed
<1> HIDE DEF H
<1>13. ASSUME NoneIn(strand', H), io'[t] \in {"none", "accepted"}, weak' # t,
              replies'[t] # <<"150", "226">>
       PROVE  NotServed(t)'
  BY <1>13 DEF NotServed, H, Serving
<1>20. CASE CommandStrand
  <2>1. CASE \/ PasvBind \/ PasvListen \/ PasvFail \/ PasvAnnounce
             \/ Quit \/ CloseCommandSocket
    BY <1>5, <1>12, <1>13, <2>1
       DEF PasvBind, PasvListen, PasvFail, PasvAnnounce, Quit,
           CloseCommandSocket, transferVars
  <2>2. CASE PasvOpen
    BY <1>0, <1>5, <1>7, <1>12, <1>13, <2>2 DEF PasvOpen, transferVars
  <2>3. CASE PasvTerminate
    <3>1. NoneIn(strand', H) /\ io'[t] = "none"
      BY <2>3, EmptyIn DEF PasvTerminate
    <3> QED
      BY <1>12, <1>13, <2>3, <3>1 DEF PasvTerminate
  <2>4. ASSUME NEW k, TransferRefused(k) PROVE NotServed(t)'
    <3>1. "refused" \in Replies \ {"226"} /\ Len(kind) + 1 \in Transfers
      BY <2>4, BoundsAssumption DEF TransferRefused, Replies, Transfers, TypeOK
    <3> QED
      BY <1>5, <1>9, <1>12, <1>13, <2>4, <3>1 DEF TransferRefused
  <2>5. ASSUME NEW k, TransferChecked(k) PROVE NotServed(t)'
    BY <1>5, <1>12, <1>13, <2>5 DEF TransferChecked
  <2>6. CASE AcceptDataConnection
    <3>1. "150" \in Replies \ {"226"} /\ "accepted" \in Lambdas
      BY DEF Replies, Lambdas
    <3>2. Len(kind) \in Transfers
      BY <2>6, BoundsAssumption DEF AcceptDataConnection, Transfers, TypeOK
    <3>3. NoneIn(strand', H)
      BY <1>0, <1>5, <1>8, <2>6, <3>1, <3>2 DEF AcceptDataConnection
    <3> QED
      BY <1>5, <1>9, <1>12, <1>13, <2>6, <3>1, <3>2, <3>3
         DEF AcceptDataConnection
  <2>7. CASE CommandReadError
    <3>1. Handler("close", 0, TRUE) \in Handlers \ H
      BY CloseHandler DEF H, Serving, Handler
    <3> DEFINE s == strand \o AbortedAccepts
               h == Handler("close", 0, TRUE)
    <3>2. s \in Seq(Handlers) /\ NoneIn(s, H) /\ strand' = Append(s, h)
      BY <1>0, <1>5, <1>7, <2>7 DEF CommandReadError
    <3> HIDE DEF s, h
    <3>3. NoneIn(strand', H)
      BY <3>1, <3>2, AppendIn DEF h
    <3> QED
      BY <1>5, <1>12, <1>13, <2>7, <3>3 DEF CommandReadError, transferVars
  <2> QED
    BY <1>20, <2>1, <2>2, <2>3, <2>4, <2>5, <2>6, <2>7 DEF CommandStrand
<1>30. CASE DataStrand
  <2> DEFINE u    == Head(strand).t
             rest == Tail(strand)
  <2>1. CASE AcceptFailed \/ Rejected
    <3>1. /\ strand # <<>> /\ Head(strand).run = "accepted"
          /\ strand' = rest \/ strand' = rest \o AbortedAccepts
          /\ UNCHANGED <<io, weak>>
          /\ Reply(u, "425") \/ Reply(u, "426")
      BY <2>1 DEF AcceptFailed, Rejected, First
    <3>2. {"425", "426"} \subseteq Replies \ {"226"}
      BY DEF Replies
    <3>3. NoneIn(strand', H)
      BY <1>6, <1>7, <3>1
    <3> QED
      BY <1>5, <1>6, <1>9, <1>12, <1>13, <3>1, <3>2, <3>3
  <2>2. ASSUME NEW k, Connected(k)
        PROVE  /\ u # t /\ u \in Transfers /\ weak' # t
               /\ rest \o AbortedAccepts \in Seq(Handlers)
               /\ NoneIn(rest \o AbortedAccepts, H)
    BY <1>4, <1>6, <1>7, <2>2
       DEF Connected, First, ValidateDataConnection
  <2>3. CASE SendFile \/ ReceiveFile
    BY <1>5, <1>11, <1>12, <1>13, <2>2, <2>3 DEF SendFile, ReceiveFile
  <2>4. CASE SendEmptyFile
    BY <1>5, <1>10, <1>13, <2>2, <2>4 DEF SendEmptyFile
  <2>5. CASE SendDirectoryListing
    <3> DEFINE d == Handler("add", u, TRUE)
               e == Handler("add", u, FALSE)
    <3>1. /\ u # t /\ u \in Transfers /\ weak' # t
          /\ rest \o AbortedAccepts \in Seq(Handlers)
          /\ NoneIn(rest \o AbortedAccepts, H)
      BY <2>2, <2>5 DEF SendDirectoryListing
    <3>2. d \in Handlers \ H /\ e \in Handlers \ H
      BY <3>1, PostedHandlers DEF Lambdas, H, Serving, Handler
    <3>3. strand' = (rest \o AbortedAccepts) \o <<d, e>>
      BY <2>5 DEF SendDirectoryListing
    <3> HIDE DEF d, e
    <3>4. <<d, e>> \in Seq(Handlers) /\ NoneIn(<<d, e>>, H)
      BY <3>2, ShortQueues DEF NoneIn
    <3>5. NoneIn(strand', H)
      BY <3>1, <3>3, <3>4, ConcatIn
    <3> QED
      BY <1>5, <1>12, <1>13, <2>5, <3>1, <3>5 DEF SendDirectoryListing
  <2>6. CASE AddDataToBufferAndSend \/ ListingWritten \/ ReceivedLast
    <3>1. /\ strand # <<>> /\ Head(strand).run \notin {"accepted", "close"}
          /\ UNCHANGED <<io, weak, replies>>
          /\ \/ strand' = rest
             \/ strand' = Append(rest, Handler("write", u, TRUE))
             \/ strand' = Append(rest, Handler("endrecv", u, TRUE))
      BY <2>6 DEF AddDataToBufferAndSend, ListingWritten, ReceivedLast, First,
                  transferVars
    <3>2. u # t /\ u \in Transfers /\ rest \in Seq(Handlers) /\ NoneIn(rest, H)
      BY <1>6, <3>1
    <3>3. {"write", "endrecv"} \subseteq Lambdas
      BY DEF Lambdas
    <3>4. NoneIn(strand', H)
      BY <1>8, <3>1, <3>2, <3>3
    <3> QED
      BY <1>5, <1>12, <1>13, <3>1, <3>4
  <2>7. CASE WriteDataToSocket \/ ReceivedChunk
    <3>1. /\ strand # <<>> /\ Head(strand).run \notin {"accepted", "close"}
          /\ strand' = rest /\ UNCHANGED <<weak, replies>>
          /\ Start(u, "list") \/ Start(u, "receive")
      BY <2>7 DEF WriteDataToSocket, ReceivedChunk, First
    <3> QED
      BY <1>6, <1>11, <1>12, <1>13, <3>1
  <2>8. CASE EndOfListing \/ EndDataReceiving
    <3>1. /\ strand # <<>> /\ Head(strand).run \notin {"accepted", "close"}
          /\ strand' = rest /\ UNCHANGED <<weak, io>>
          /\ Reply(u, Done)
      BY <2>8 DEF EndOfListing, EndDataReceiving, First
    <3> QED
      BY <1>5, <1>6, <1>10, <1>12, <1>13, <3>1
  <2>9. CASE CloseNewestDataSocket
    BY <1>5, <1>6, <1>12, <1>13, <2>9 DEF CloseNewestDataSocket, First
  <2> QED
    BY <1>30, <2>1, <2>3, <2>4, <2>5, <2>6, <2>7, <2>8, <2>9 DEF DataStrand
<1>40. CASE System
  <2>1. ASSUME NEW who, Connect(who) PROVE NotServed(t)'
    BY <1>5, <1>12, <1>13, <2>1 DEF Connect, transferVars
  <2>2. CASE AcceptCompletes
    BY <1>5, <1>11, <1>12, <1>13, <2>2 DEF AcceptCompletes
  <2>7. CASE AcceptErrs
    <3>1. /\ Head(accepting) \in Transfers /\ "accepted" \in Lambdas
          /\ strand' = Append(strand, Handler("accepted", Head(accepting), FALSE))
      BY <1>0, <2>7, TailFacts DEF AcceptErrs, Lambdas
    <3>2. NoneIn(strand', H)
      BY <1>0, <1>5, <1>8, <3>1
    <3> QED
      BY <1>5, <1>12, <1>13, <2>7, <3>2 DEF AcceptErrs, transferVars
  <2>8. ASSUME NEW u \in Transfers, AcceptPosted(u) PROVE NotServed(t)'
    <3>1. NoneIn(strand', H)
      BY <1>0, <1>5, <1>8, <2>8 DEF AcceptPosted, Lambdas
    <3> QED
      BY <1>11, <1>12, <1>13, <2>8, <3>1 DEF AcceptPosted
  <2>3. ASSUME NEW u \in Transfers, SendCompletes(u) PROVE NotServed(t)'
    <3>1. /\ u # t /\ (Start(u, "sent") \/ Start(u, "unsent"))
          /\ UNCHANGED <<strand, weak, replies>>
      BY <1>5, <2>3 DEF SendCompletes
    <3> QED
      BY <1>5, <1>11, <1>12, <1>13, <3>1
  <2>4. ASSUME NEW u \in Transfers, SendFileHandler(u) PROVE NotServed(t)'
    <3>1. u # t /\ replies'[t] = replies[t]
      BY <1>0, <1>5, <2>4 DEF SendFileHandler
    <3> QED
      BY <1>5, <1>11, <1>12, <1>13, <2>4, <3>1 DEF SendFileHandler
  <2>5. ASSUME NEW u \in Transfers, NEW ok \in BOOLEAN,
               ReceiveCompletes(u, ok) \/ ListingWriteCompletes(u)
        PROVE  NotServed(t)'
    <3>1. /\ u # t /\ Start(u, "none") /\ UNCHANGED <<weak, replies>>
      BY <1>5, <2>5 DEF ReceiveCompletes, ListingWriteCompletes
    <3>2. PICK run \in {"chunk", "listed"}, arg \in BOOLEAN :
            strand' = Append(strand, Handler(run, u, arg))
      BY <2>5 DEF ReceiveCompletes, ListingWriteCompletes, Outcomes
    <3>3. run \in Lambdas \ {"close"}
      BY DEF Lambdas
    <3>4. NoneIn(strand', H)
      BY <1>0, <1>5, <1>8, <3>1, <3>2, <3>3
    <3> QED
      BY <1>11, <1>12, <1>13, <3>1, <3>4
  <2>6. CASE ClientResets
    BY <1>5, <1>12, <1>13, <2>6 DEF ClientResets, transferVars
  <2> QED
    BY <1>40, <2>1, <2>2, <2>3, <2>4, <2>5, <2>6, <2>7, <2>8 DEF System
<1>50. CASE Destroy \/ UNCHANGED vars
  BY <1>5, <1>12, <1>13, <1>50 DEF Destroy, vars, transferVars
<1> QED
  BY <1>20, <1>30, <1>40, <1>50 DEF Next

PeersInv == \A t \in Transfers : PeerInv(t)

LEMMA Peers == Spec => [](StrandInv /\ PeersInv)
<1>1. ASSUME Init, NEW t \in Transfers PROVE PeerInv(t)
  <2>1. /\ peer[t] = "none" /\ io[t] = "none" /\ weak = 0 /\ strand = <<>>
        /\ replies[t] = <<>>
    BY <1>1 DEF Init
  <2>2. weak # t /\ replies[t] # <<"150", "226">>
    BY <2>1, BoundsAssumption, ReplySequences DEF Transfers, Replies
  <2> QED
    BY <2>1, <2>2, EmptyIn DEF PeerInv, NotServed
<1>2. StrandInv /\ PeersInv /\ [Next]_vars => PeersInv'
  BY PeerStep DEF StrandInv, PeersInv
<1>3. Init => PeersInv
  BY <1>1 DEF PeersInv
<1> QED
  BY <1>2, <1>3, Strands, PTL DEF Spec

(***************************************************************************)
(* No data flows to or from a peer that validateDataConnection refuses,    *)
(* whoever connects first, whichever port it connects to and whenever.     *)
(***************************************************************************)
THEOREM RefusedPeersNotServed == Spec => []ForeignNotServed
<1>1. PeersInv => ForeignNotServed
  BY DEF PeersInv, PeerInv, NotServed, ForeignNotServed
<1> QED
  BY <1>1, Peers, PTL

-----------------------------------------------------------------------------
(***************************************************************************)
(* The port.  The acceptor and its port change in few of the steps.        *)
(***************************************************************************)

\* The handlers of a data connection accepted for t.
Accepted(t) == {h \in Handlers : h.t = t /\ h.run = "accepted" /\ h.arg}

\* The strand runs the handler of an accepted data connection.
ServesAccepted == First("accepted") /\ Head(strand).arg

LEMMA PortSteps ==
  ASSUME [Next]_vars
  PROVE  /\ \/ data_acceptor' = data_acceptor
            \/ PasvOpen \/ PasvBind \/ PasvListen
            \/ /\ data_acceptor' = "closed"
               /\ PasvTerminate \/ CommandReadError \/ Destroy \/ ServesAccepted
         /\ pasvs' = pasvs \/ PasvOpen
         /\ announced' = announced \/ PasvAnnounce
         /\ port' = port \/ AcceptCompletes
         /\ session' = session \/ PasvTerminate \/ Destroy
         /\ ipv6' = ipv6
<1>1. CASE PasvOpen \/ PasvBind \/ PasvListen \/ PasvFail \/ PasvAnnounce
  BY <1>1
     DEF PasvOpen, PasvBind, PasvListen, PasvFail, PasvAnnounce, acceptVars,
         transferVars
<1>2. CASE \/ PasvTerminate \/ Quit \/ CloseCommandSocket \/ CommandReadError
           \/ AcceptDataConnection
  BY <1>2
     DEF PasvTerminate, Quit, CloseCommandSocket, CommandReadError,
         AcceptDataConnection, CloseDataAcceptor, acceptVars, transferVars
<1>3. ASSUME NEW k \in Kinds, TransferRefused(k) \/ TransferChecked(k)
      PROVE  UNCHANGED <<acceptVars, ipv6, pasvs, announced, port, session>>
  BY <1>3 DEF TransferRefused, TransferChecked, commandVars
<1>4. CASE AcceptFailed \/ Rejected \/ CloseNewestDataSocket
  BY <1>4
     DEF AcceptFailed, Rejected, CloseNewestDataSocket, CloseDataAcceptor,
         ServesAccepted, First, commandVars, acceptVars
<1>5. CASE SendFile \/ SendEmptyFile \/ ReceiveFile \/ SendDirectoryListing
  BY <1>5
     DEF SendFile, SendEmptyFile, ReceiveFile, SendDirectoryListing, Connected,
         CloseDataAcceptor, ServesAccepted, First, commandVars
<1>6. CASE \/ AddDataToBufferAndSend \/ WriteDataToSocket \/ EndOfListing
           \/ ListingWritten \/ ReceivedChunk \/ ReceivedLast
           \/ EndDataReceiving
  BY <1>6
     DEF AddDataToBufferAndSend, WriteDataToSocket, EndOfListing,
         ListingWritten, ReceivedChunk, ReceivedLast, EndDataReceiving,
         commandVars, acceptVars, transferVars
<1>7. CASE System
  <2>1. UNCHANGED <<data_acceptor, ipv6, pasvs, announced, session>>
    BY <1>7
       DEF System, ClientResets, Connect, AcceptCompletes, AcceptErrs,
           AcceptPosted, SendCompletes, SendFileHandler, ReceiveCompletes,
           ListingWriteCompletes, commandVars, acceptVars
  <2>2. port' = port \/ AcceptCompletes
    BY <1>7
       DEF System, ClientResets, Connect, AcceptErrs, AcceptPosted,
           SendCompletes, SendFileHandler, ReceiveCompletes,
           ListingWriteCompletes, transferVars
  <2> QED
    BY <1>7, <2>1, <2>2
<1>8. CASE Destroy \/ UNCHANGED vars
  BY <1>8
     DEF Destroy, CloseDataAcceptor, vars, commandVars, acceptVars, transferVars
<1> QED
  BY <1>1, <1>2, <1>3, <1>4, <1>5, <1>6, <1>7, <1>8
     DEF Next, CommandStrand, DataStrand, acceptVars

\* The thread that learns of an accept posts its handler.
LEMMA AcceptedHandler ==
  ASSUME TypeOK, NEW t \in Transfers, AcceptPosted(t)
  PROVE  ~NoneIn(strand', Accepted(t))
<1>1. "accepted" \in Lambdas \ {"close"}
  BY DEF Lambdas
<1>2. Handler("accepted", t, TRUE) \in Handlers
  BY <1>1, PostedHandlers
<1>3. Handler("accepted", t, TRUE) \in Accepted(t)
  BY <1>2 DEF Accepted, Handler
<1>4. /\ strand' = Append(strand, Handler("accepted", t, TRUE))
      /\ strand \in Seq(Handlers)
  BY DEF AcceptPosted, TypeOK
<1> QED
  BY <1>2, <1>3, <1>4, AppendIn

\* Nobody else does, and such a handler leaves the strand only when the
\* acceptor is closed.
LEMMA AcceptedHandlers ==
  ASSUME TypeOK, [Next]_vars, NEW t \in Transfers
  PROVE  /\ ~NoneIn(strand, Accepted(t)) /\ data_acceptor' # "closed"
              => ~NoneIn(strand', Accepted(t))
         /\ NoneIn(strand, Accepted(t))
              => NoneIn(strand', Accepted(t)) \/ AcceptPosted(t)
<1> DEFINE A == Accepted(t)
           rest == Tail(strand)
<1>0. strand \in Seq(Handlers) /\ accepting \in Seq(Transfers)
  BY DEF TypeOK
<1>1. ASSUME NEW s \in Seq(Handlers)
      PROVE  /\ s \o AbortedAccepts \in Seq(Handlers)
             /\ NoneIn(s \o AbortedAccepts, A) <=> NoneIn(s, A)
  <2>1. AbortedAccepts \in Seq(Handlers)
    BY <1>0, AbortedHandlers
  <2>2. NoneIn(AbortedAccepts, A)
    BY DEF NoneIn, AbortedAccepts, Accepted, Handler
  <2> QED
    BY <2>1, <2>2, ConcatIn, ConcatFacts
<1>2. ASSUME NEW s \in Seq(Handlers), NEW u \in Transfers,
             NEW run \in Lambdas \ {"close"}, NEW arg \in BOOLEAN,
             u # t \/ run # "accepted" \/ ~arg
      PROVE  NoneIn(Append(s, Handler(run, u, arg)), A) <=> NoneIn(s, A)
  <2>1. Handler(run, u, arg) \in Handlers
    BY PostedHandlers
  <2>2. Handler(run, u, arg) \notin A
    BY <1>2 DEF Accepted, Handler
  <2> QED
    BY <2>1, <2>2, AppendIn
<1>3. ASSUME strand # <<>>
      PROVE  /\ rest \in Seq(Handlers) /\ Head(strand).run \in Lambdas
             /\ Head(strand).run # "close" => Head(strand).t \in Transfers
             /\ NoneIn(strand, A) => NoneIn(rest, A)
             /\ Head(strand).run # "accepted" \/ ~Head(strand).arg
                  => (NoneIn(rest, A) <=> NoneIn(strand, A))
  BY <1>0, <1>3, TailIn, RunHandlers DEF Accepted
<1>4. {"accepted", "add", "write", "listed", "chunk", "endrecv"} \subseteq Lambdas
  BY DEF Lambdas
<1> HIDE DEF A
<1>5. CASE NoneIn(strand', A) <=> NoneIn(strand, A)
  BY <1>5 DEF A
<1>6. CASE /\ strand # <<>> /\ data_acceptor' = "closed"
           /\ NoneIn(strand', A) <=> NoneIn(rest, A)
  BY <1>3, <1>6 DEF A
<1>11. CASE AcceptPosted(t)
  BY <1>11, AcceptedHandler
<1>7. CASE CommandStrand
  <2>1. CASE PasvOpen
    BY <1>0, <1>1, <1>5, <2>1 DEF PasvOpen
  <2>2. CASE PasvTerminate
    <3>1. NoneIn(strand', A) /\ data_acceptor' = "closed"
      BY <2>2, EmptyIn DEF PasvTerminate, CloseDataAcceptor
    <3> QED
      BY <3>1 DEF A
  <2>3. CASE AcceptDataConnection
    <3>1. Len(kind) \in Transfers
      BY <2>3, BoundsAssumption DEF AcceptDataConnection, Transfers, TypeOK
    <3>2. \/ strand' = strand
          \/ strand' = Append(strand, Handler("accepted", Len(kind), FALSE))
      BY <2>3 DEF AcceptDataConnection
    <3>3. NoneIn(Append(strand, Handler("accepted", Len(kind), FALSE)), A)
            <=> NoneIn(strand, A)
      BY <1>0, <1>2, <1>4, <3>1
    <3> QED
      BY <1>5, <3>2, <3>3
  <2>4. CASE CommandReadError
    <3> DEFINE s == strand \o AbortedAccepts
               h == Handler("close", 0, TRUE)
    <3>1. h \in Handlers /\ h \notin A
      BY CloseHandler DEF A, Accepted, Handler
    <3>2. /\ s \in Seq(Handlers) /\ strand' = Append(s, h)
          /\ NoneIn(s, A) <=> NoneIn(strand, A)
      BY <1>0, <1>1, <2>4 DEF CommandReadError
    <3> HIDE DEF s, h
    <3> QED
      BY <1>5, <3>1, <3>2, AppendIn
  <2>5. CASE \/ PasvBind \/ PasvListen \/ PasvFail \/ PasvAnnounce
             \/ Quit \/ CloseCommandSocket
             \/ \E k \in Kinds : TransferRefused(k) \/ TransferChecked(k)
    BY <1>5, <2>5
       DEF PasvBind, PasvListen, PasvFail, PasvAnnounce, Quit,
           CloseCommandSocket, TransferRefused, TransferChecked
  <2> QED
    BY <1>7, <2>1, <2>2, <2>3, <2>4, <2>5 DEF CommandStrand
<1>8. CASE DataStrand
  <2>1. CASE AcceptFailed \/ CloseNewestDataSocket
    BY <1>3, <1>5, <2>1 DEF AcceptFailed, CloseNewestDataSocket, First
  <2>2. CASE Rejected
    BY <1>1, <1>3, <1>6, <2>2 DEF Rejected, CloseDataAcceptor, First
  <2>3. CASE SendFile \/ SendEmptyFile \/ ReceiveFile
    BY <1>1, <1>3, <1>6, <2>3
       DEF SendFile, SendEmptyFile, ReceiveFile, Connected, CloseDataAcceptor,
           First
  <2>4. CASE SendDirectoryListing
    <3> DEFINE s == rest \o AbortedAccepts
               d == Handler("add", Head(strand).t, TRUE)
               e == Handler("add", Head(strand).t, FALSE)
    <3>1. /\ strand # <<>> /\ Head(strand).t \in Transfers
          /\ data_acceptor' = "closed" /\ strand' = s \o <<d, e>>
      BY <1>3, <2>4
         DEF SendDirectoryListing, Connected, CloseDataAcceptor, First
    <3>2. d \in Handlers \ A /\ e \in Handlers \ A
      BY <1>4, <3>1, PostedHandlers DEF A, Accepted, Handler
    <3>3. s \in Seq(Handlers) /\ (NoneIn(s, A) <=> NoneIn(rest, A))
      BY <1>1, <1>3, <3>1
    <3> HIDE DEF s, d, e
    <3>4. <<d, e>> \in Seq(Handlers) /\ NoneIn(<<d, e>>, A)
      BY <3>2, ShortQueues DEF NoneIn
    <3> QED
      BY <1>6, <3>1, <3>3, <3>4, ConcatIn
  <2>5. CASE AddDataToBufferAndSend \/ ListingWritten \/ ReceivedLast
    <3>1. /\ strand # <<>> /\ Head(strand).run \notin {"accepted", "close"}
          /\ \/ strand' = rest
             \/ strand' = Append(rest, Handler("write", Head(strand).t, TRUE))
             \/ strand' = Append(rest, Handler("endrecv", Head(strand).t, TRUE))
      BY <2>5 DEF AddDataToBufferAndSend, ListingWritten, ReceivedLast, First
    <3>2. /\ rest \in Seq(Handlers) /\ Head(strand).t \in Transfers
          /\ NoneIn(rest, A) <=> NoneIn(strand, A)
      BY <1>3, <3>1
    <3>3. ASSUME NEW run \in {"write", "endrecv"}
          PROVE  NoneIn(Append(rest, Handler(run, Head(strand).t, TRUE)), A)
                   <=> NoneIn(strand, A)
      BY <1>2, <1>4, <3>2
    <3> QED
      BY <1>5, <3>1, <3>2, <3>3
  <2>6. CASE \/ WriteDataToSocket \/ ReceivedChunk \/ EndOfListing
             \/ EndDataReceiving
    BY <1>3, <1>5, <2>6
       DEF WriteDataToSocket, ReceivedChunk, EndOfListing, EndDataReceiving,
           First
  <2> QED
    BY <1>8, <2>1, <2>2, <2>3, <2>4, <2>5, <2>6 DEF DataStrand
<1>9. CASE System
  <2>1. ASSUME NEW u \in Transfers, AcceptPosted(u), u # t
        PROVE  NoneIn(strand', A) <=> NoneIn(strand, A)
    BY <1>0, <1>2, <1>4, <2>1 DEF AcceptPosted
  <2>4. CASE AcceptErrs
    <3>1. /\ Head(accepting) \in Transfers
          /\ strand' = Append(strand, Handler("accepted", Head(accepting), FALSE))
      BY <1>0, <2>4, TailFacts DEF AcceptErrs
    <3>2. NoneIn(strand', A) <=> NoneIn(strand, A)
      BY <1>0, <1>2, <1>4, <3>1
    <3> QED
      BY <1>5, <3>2
  <2>2. ASSUME NEW u \in Transfers, NEW ok \in BOOLEAN,
               ReceiveCompletes(u, ok) \/ ListingWriteCompletes(u)
        PROVE  NoneIn(strand', A) <=> NoneIn(strand, A)
    <3>1. PICK run \in {"chunk", "listed"}, arg \in BOOLEAN :
            strand' = Append(strand, Handler(run, u, arg))
      BY <2>2 DEF ReceiveCompletes, ListingWriteCompletes, Outcomes
    <3> QED
      BY <1>0, <1>2, <1>4, <3>1
  <2>3. ASSUME NEW u, \/ SendCompletes(u) \/ SendFileHandler(u)
                      \/ Connect(u) \/ ClientResets \/ AcceptCompletes
        PROVE  strand' = strand
    BY <2>3 DEF SendCompletes, SendFileHandler, Connect, ClientResets,
                AcceptCompletes
  <2> QED
    BY <1>5, <1>9, <1>11, <2>1, <2>2, <2>3, <2>4 DEF System
<1>10. CASE Destroy \/ UNCHANGED vars
  BY <1>5, <1>10 DEF Destroy, vars
<1> QED
  BY <1>7, <1>8, <1>9, <1>10 DEF Next

\* An accepted data connection waits for its handler to be posted or to run.
Pending(t) == io[t] = "accepted" \/ ~NoneIn(strand, Accepted(t))

\* Who waits for that is waited for by nobody else.
LEMMA AcceptedOperation ==
  ASSUME TypeOK, [Next]_vars, NEW t \in Transfers, AnswerInv(t)
  PROVE  /\ io[t] = "accepted" /\ data_acceptor' # "closed"
              => io'[t] = "accepted" \/ AcceptPosted(t)
         /\ io'[t] = "accepted"
              => \/ io[t] = "accepted"
                 \/ AcceptCompletes /\ Head(accepting) = t
<1> DEFINE Goal == /\ io[t] = "accepted" /\ data_acceptor' # "closed"
                        => io'[t] = "accepted" \/ AcceptPosted(t)
                   /\ io'[t] = "accepted"
                        => \/ io[t] = "accepted"
                           \/ AcceptCompletes /\ Head(accepting) = t
<1>0. strand \in Seq(Handlers) /\ accepting \in Seq(Transfers)
      /\ io \in [Transfers -> Operations]
  BY DEF TypeOK
<1>1. ASSUME io' = io PROVE Goal
  BY <1>1
<1>2. ASSUME NEW u \in Transfers, NEW op \in Operations \ {"accepted"},
             Start(u, op),
             \/ data_acceptor' = "closed" \/ AcceptPosted(u)
             \/ io[u] # "accepted"
      PROVE  Goal
  BY <1>0, <1>2 DEF Start
<1>3. CASE CommandStrand
  <2>1. CASE PasvTerminate
    BY <2>1 DEF PasvTerminate, CloseDataAcceptor
  <2>2. CASE ~PasvTerminate
    BY <1>1, <1>3, <2>2
       DEF CommandStrand, PasvOpen, PasvBind, PasvListen, PasvFail,
           PasvAnnounce, TransferRefused, TransferChecked,
           AcceptDataConnection, Quit, CloseCommandSocket, CommandReadError,
           transferVars
  <2> QED
    BY <2>1, <2>2
<1>4. CASE \/ AcceptFailed \/ Rejected \/ SendEmptyFile
           \/ SendDirectoryListing \/ AddDataToBufferAndSend \/ EndOfListing
           \/ ListingWritten \/ ReceivedLast \/ EndDataReceiving
           \/ CloseNewestDataSocket
  BY <1>1, <1>4
     DEF AcceptFailed, Rejected, SendEmptyFile, SendDirectoryListing,
         AddDataToBufferAndSend, EndOfListing, ListingWritten, ReceivedLast,
         EndDataReceiving, CloseNewestDataSocket, transferVars
<1>5. CASE SendFile \/ ReceiveFile
  <2>1. /\ Head(strand).t \in Transfers
        /\ data_acceptor' = "closed"
        /\ Start(Head(strand).t, "send") \/ Start(Head(strand).t, "receive")
    BY <1>0, <1>5, RunHandlers
       DEF SendFile, ReceiveFile, Connected, First, CloseDataAcceptor
  <2> QED
    BY <1>2, <2>1 DEF Operations
\* A handler of the transfer is posted: no operation of it is pending.
<1>6. CASE WriteDataToSocket \/ ReceivedChunk
  <2>1. /\ strand # <<>> /\ Head(strand).run \in {"write", "chunk"}
        /\ Start(Head(strand).t, "list") \/ Start(Head(strand).t, "receive")
    BY <1>6 DEF WriteDataToSocket, ReceivedChunk, First
  <2>2. Head(strand).t \in Transfers /\ Head(strand) \in Handlers
    BY <1>0, <2>1, RunHandlers
  <2>3. ASSUME Head(strand).t = t PROVE io[t] = "none"
    <3>1. Head(strand) \in Continuations(t)
      BY <2>1, <2>2, <2>3 DEF Continuations
    <3> QED
      BY <1>0, <2>1, <3>1, TailIn DEF AnswerInv, OnePlace
  <2> QED
    BY <1>0, <2>1, <2>2, <2>3 DEF Start
<1>7. CASE AcceptCompletes
  BY <1>0, <1>7, TailFacts DEF AcceptCompletes, Start
<1>8. ASSUME NEW u \in Transfers, NEW ok \in BOOLEAN,
             \/ AcceptPosted(u) \/ SendCompletes(u) \/ SendFileHandler(u)
             \/ ReceiveCompletes(u, ok) \/ ListingWriteCompletes(u)
      PROVE  Goal
  <2>1. /\ \/ Start(u, "none") \/ Start(u, "sent") \/ Start(u, "unsent")
        /\ AcceptPosted(u) \/ io[u] # "accepted"
    BY <1>8 DEF AcceptPosted, SendCompletes, SendFileHandler,
                ReceiveCompletes, ListingWriteCompletes
  <2> QED
    BY <1>2, <2>1 DEF Operations
<1>9. CASE \/ ClientResets \/ AcceptErrs \/ Destroy \/ UNCHANGED vars
           \/ \E who \in {"client", "foreign"} : Connect(who)
  BY <1>1, <1>9 DEF ClientResets, AcceptErrs, Connect, Destroy, vars,
                    transferVars
<1> QED
  BY <1>3, <1>4, <1>5, <1>6, <1>7, <1>8, <1>9 DEF Next, DataStrand, System

\* Only the accept makes a data connection pending, and it is so until the
\* acceptor is closed.
LEMMA AcceptedStep ==
  ASSUME TypeOK, [Next]_vars, NEW t \in Transfers, AnswerInv(t)
  PROVE  /\ Pending(t) /\ data_acceptor' # "closed" => Pending(t)'
         /\ Pending(t)' => \/ Pending(t)
                           \/ AcceptCompletes /\ Head(accepting) = t
<1>1. AcceptPosted(t) => io[t] = "accepted" /\ ~NoneIn(strand', Accepted(t))
  BY AcceptedHandler DEF AcceptPosted
<1>2. /\ Pending(t) <=> io[t] = "accepted" \/ ~NoneIn(strand, Accepted(t))
      /\ Pending(t)' <=> io'[t] = "accepted" \/ ~NoneIn(strand', Accepted(t))
  BY DEF Pending, Accepted
<1>3. /\ ~NoneIn(strand, Accepted(t)) /\ data_acceptor' # "closed"
           => ~NoneIn(strand', Accepted(t))
      /\ NoneIn(strand, Accepted(t))
           => NoneIn(strand', Accepted(t)) \/ AcceptPosted(t)
  BY AcceptedHandlers
<1>4. /\ io[t] = "accepted" /\ data_acceptor' # "closed"
           => io'[t] = "accepted" \/ AcceptPosted(t)
      /\ io'[t] = "accepted"
           => \/ io[t] = "accepted"
              \/ AcceptCompletes /\ Head(accepting) = t
  BY AcceptedOperation
<1> QED
  BY <1>1, <1>2, <1>3, <1>4

\* A transfer whose data connection is pending is not answered yet.
LEMMA AcceptedUnanswered ==
  ASSUME StrandInv, NEW t \in Transfers, Pending(t)
  PROVE  Unanswered(t) /\ t \in 1 .. Len(kind)
<1>1. Accepted(t) \subseteq Continuations(t)
  BY DEF Accepted, Continuations
<1>2. AnswerInv(t) /\ UnderWay(t)
  BY <1>1 DEF StrandInv, Pending, UnderWay, NoneIn
<1>3. Unanswered(t) /\ ~(t > Len(kind))
  BY <1>2, ReplySequences DEF AnswerInv, ToCome, Unanswered, Replies
<1> QED
  BY <1>3 DEF StrandInv, TypeOK, Transfers

(***************************************************************************)
(* The newest port stays open only until the handler of the data           *)
(* connection that was accepted on it has run.                             *)
(***************************************************************************)
PortInv(t) ==
  /\ port[t] <= pasvs
  /\ (port[t] # 0 /\ IsOpen /\ port[t] = pasvs) => Pending(t)

LEMMA PortStep ==
  ASSUME TypeOK, [Next]_vars, NEW t \in Transfers, AnswerInv(t), PortInv(t)
  PROVE  PortInv(t)'
<1>0. /\ pasvs \in Nat /\ port \in [Transfers -> 0 .. MaxPasv]
      /\ accepting \in Seq(Transfers) /\ io \in [Transfers -> Operations]
      /\ port[t] \in Nat
  BY BoundsAssumption DEF TypeOK
<1>1. CASE AcceptCompletes /\ Head(accepting) = t
  <2>1. port'[t] = pasvs /\ pasvs' = pasvs /\ io'[t] = "accepted"
    BY <1>0, <1>1 DEF AcceptCompletes, Start, commandVars
  <2>2. port'[t] <= pasvs'
    BY <1>0, <2>1
  <2> QED
    BY <2>1, <2>2 DEF PortInv, Pending
<1>2. CASE ~(AcceptCompletes /\ Head(accepting) = t)
  <2>1. port'[t] = port[t]
    BY <1>0, <1>2, PortSteps DEF AcceptCompletes
  <2>2. CASE PasvOpen
    BY <1>0, <2>1, <2>2 DEF PasvOpen, PortInv
  <2>3. CASE ~PasvOpen
    <3>1. pasvs' = pasvs /\ (IsOpen' => IsOpen /\ data_acceptor' # "closed")
      BY <2>3, PortSteps DEF IsOpen, PasvBind, PasvListen
    <3>2. IsOpen' /\ Pending(t) => Pending(t)'
      BY <3>1, AcceptedStep
    <3> QED
      BY <2>1, <3>1, <3>2 DEF PortInv
  <2> QED
    BY <2>2, <2>3
<1> QED
  BY <1>1, <1>2

PortsInv == \A t \in Transfers : PortInv(t)

LEMMA Ports == Spec => [](StrandInv /\ PortsInv)
<1>1. Init => PortsInv
  BY DEF Init, PortsInv, PortInv
<1>2. StrandInv /\ PortsInv /\ [Next]_vars => PortsInv'
  BY PortStep DEF StrandInv, PortsInv
<1> QED
  BY <1>1, <1>2, Strands, PTL DEF Spec

(***************************************************************************)
(* When a transfer has its completion reply, the port its data connection  *)
(* came in by is closed or belongs to an earlier PASV.                     *)
(***************************************************************************)
THEOREM PortClosed == Spec => []PortClosedAfterTransfer
<1>1. StrandInv /\ PortsInv => PortClosedAfterTransfer
  <2> SUFFICES ASSUME StrandInv, PortsInv, NEW t \in Transfers,
                      port[t] # 0, Len(replies[t]) = 2, IsOpen
               PROVE  port[t] < pasvs
    BY DEF PortClosedAfterTransfer
  <2>1. port[t] <= pasvs /\ port[t] \in Nat /\ pasvs \in Nat
    BY BoundsAssumption DEF PortsInv, PortInv, StrandInv, TypeOK
  <2>2. Len(<<"150">>) = 1
    OBVIOUS
  <2>3. Pending(t) => Unanswered(t)
    BY AcceptedUnanswered
  <2>4. ~Pending(t)
    BY <2>2, <2>3 DEF Unanswered
  <2> QED
    BY <2>1, <2>4 DEF PortsInv, PortInv
<1> QED
  BY <1>1, Ports, PTL

-----------------------------------------------------------------------------
(***************************************************************************)
(* The sequential client.  While no command was sent before the answer to  *)
(* the last transfer, a command handler that began meets no transfer that  *)
(* could close its acceptor, one transfer at a time waits for its          *)
(* completion, an accepted data connection came in by the newest port, and *)
(* by a port that nobody else came in by.                                  *)
(***************************************************************************)
Busy == command \in {"bind", "listen", "announce", "accept"}

AnnouncedOpen ==
  announced # 0 /\ announced = pasvs /\ command # "ended" /\ session = "alive"
    /\ (\A t \in Transfers : port[t] # announced)
  => data_acceptor = "listening"

SinglePorts == \A t, u \in Transfers : port[t] = port[u] /\ port[t] # 0 => t = u

SequentialInv ==
  pipelined = FALSE =>
    /\ session = "terminated" => ipv6
    /\ announced <= pasvs
    /\ Busy => ~Outstanding
    /\ command = "announce" => data_acceptor = "listening"
    /\ \A t \in Transfers : Pending(t) => port[t] = pasvs
    /\ \A t, u \in Transfers : Unanswered(t) /\ Unanswered(u) => t = u
    /\ SinglePorts
    /\ AnnouncedOpen

\* A command that asks for the answer of the last transfer while there is
\* none is noted for ever.
LEMMA PipelinedSteps ==
  ASSUME TypeOK, [Next]_vars, pipelined' = FALSE
  PROVE  /\ pipelined = FALSE
         /\ PasvOpen \/ (\E k \in Kinds : TransferChecked(k)) => ~Outstanding
<1> DEFINE Asks == PasvOpen \/ \E k \in Kinds : TransferChecked(k)
<1>0. pipelined \in BOOLEAN
  BY DEF TypeOK
<1>1. ASSUME pipelined' = pipelined, ~Asks
      PROVE  pipelined = FALSE /\ (Asks => ~Outstanding)
  BY <1>1
<1>2. CASE Asks
  <2>1. pipelined' = (pipelined \/ Outstanding)
    BY <1>2 DEF PasvOpen, TransferChecked
  <2> QED
    BY <1>0, <2>1
<1>3. CASE ~Asks /\ CommandStrand
  <2>1. pipelined' = pipelined
    BY <1>3
       DEF CommandStrand, PasvBind, PasvListen, PasvFail, PasvAnnounce,
           PasvTerminate, Quit, CloseCommandSocket, CommandReadError,
           AcceptDataConnection, TransferRefused, commandVars
  <2> QED
    BY <1>1, <1>3, <2>1
<1>4. CASE ~Asks /\ (DataStrand \/ System \/ Destroy \/ UNCHANGED vars)
  <2>1. DataStrand => pipelined' = pipelined
    BY DEF DataStrand, AcceptFailed, Rejected, SendFile, SendEmptyFile,
           ReceiveFile, SendDirectoryListing, Connected, AddDataToBufferAndSend,
           WriteDataToSocket, EndOfListing, ListingWritten, ReceivedChunk,
           ReceivedLast, EndDataReceiving, CloseNewestDataSocket, commandVars
  <2>2. System \/ Destroy \/ UNCHANGED vars => pipelined' = pipelined
    BY DEF System, ClientResets, Connect, AcceptCompletes, AcceptErrs,
           AcceptPosted, SendCompletes, SendFileHandler, ReceiveCompletes,
           ListingWriteCompletes, Destroy, commandVars, vars
  <2> QED
    BY <1>1, <1>4, <2>1, <2>2
<1> QED
  BY <1>2, <1>3, <1>4 DEF Next

\* What a step does to the transfers that were read and to their answers.
LEMMA UnansweredStep ==
  ASSUME TypeOK, [Next]_vars, NEW t \in Transfers
  PROVE  /\ Unanswered(t)' => \/ Unanswered(t)
                              \/ AcceptDataConnection /\ t = Len(kind)
         /\ kind' = kind \/ \E k \in Kinds : kind' = Append(kind, k)
         /\ session' # "terminated" => session # "terminated" /\ ~PasvTerminate
<1> DEFINE Answer == Unanswered(t)' => \/ Unanswered(t)
                                       \/ AcceptDataConnection /\ t = Len(kind)
           Read == kind' = kind \/ \E k \in Kinds : kind' = Append(kind, k)
<1>0. replies \in [Transfers -> Seq(Replies)]
  BY DEF TypeOK
<1>1. ASSUME NEW u, NEW c \in Replies \ {"150"}, Reply(u, c) PROVE Answer
  <2>1. CASE u # t
    BY <1>0, <1>1, <2>1 DEF Reply, Unanswered
  <2>2. CASE u = t
    <3>1. replies'[t] = Append(replies[t], c) /\ replies[t] \in Seq(Replies)
      BY <1>0, <1>1, <2>2 DEF Reply
    <3> QED
      BY <3>1, LastReply DEF Unanswered
  <2> QED
    BY <2>1, <2>2
<1>2. ASSUME replies' = replies PROVE Answer
  BY <1>2 DEF Unanswered
<1> SUFFICES Answer /\ Read
  BY PortSteps DEF PasvTerminate, Destroy
<1> HIDE DEF Answer
<1>3. CASE \/ PasvOpen \/ PasvBind \/ PasvListen \/ PasvFail \/ PasvAnnounce
           \/ PasvTerminate \/ Quit \/ CloseCommandSocket \/ CommandReadError
  <2>1. UNCHANGED <<kind, replies>>
    BY <1>3
       DEF PasvOpen, PasvBind, PasvListen, PasvFail, PasvAnnounce,
           PasvTerminate, Quit, CloseCommandSocket, CommandReadError,
           transferVars
  <2> QED
    BY <1>2, <2>1
<1>4. ASSUME NEW k \in Kinds, TransferRefused(k) PROVE Answer /\ Read
  <2>1. kind' = Append(kind, k) /\ Reply(Len(kind) + 1, "refused")
    BY <1>4 DEF TransferRefused
  <2> QED
    BY <1>1, <2>1 DEF Replies
<1>5. ASSUME NEW k \in Kinds, TransferChecked(k) PROVE Answer /\ Read
  BY <1>2, <1>5 DEF TransferChecked
<1>6. CASE AcceptDataConnection
  <2>1. kind' = kind /\ Reply(Len(kind), "150")
    BY <1>6 DEF AcceptDataConnection
  <2>2. CASE Len(kind) = t
    BY <1>6, <2>1, <2>2 DEF Answer
  <2>3. CASE Len(kind) # t
    BY <1>0, <2>1, <2>3 DEF Answer, Reply, Unanswered
  <2> QED
    BY <2>1, <2>2, <2>3
<1>7. CASE \/ AcceptFailed \/ Rejected \/ SendEmptyFile \/ EndOfListing
           \/ EndDataReceiving
  <2>1. kind' = kind /\ \E c \in {"226", "425", "426"} : Reply(Head(strand).t, c)
    BY <1>7 DEF AcceptFailed, Rejected, SendEmptyFile, Connected, EndOfListing,
                EndDataReceiving, Done
  <2> QED
    BY <1>1, <2>1 DEF Replies
<1>8. CASE SendFile \/ ReceiveFile \/ SendDirectoryListing
  BY <1>2, <1>8 DEF SendFile, ReceiveFile, SendDirectoryListing, Connected
<1>9. CASE \/ AddDataToBufferAndSend \/ WriteDataToSocket \/ ListingWritten
           \/ ReceivedChunk \/ ReceivedLast \/ CloseNewestDataSocket
  <2>1. UNCHANGED <<kind, replies>>
    BY <1>9 DEF AddDataToBufferAndSend, WriteDataToSocket, ListingWritten,
                ReceivedChunk, ReceivedLast, CloseNewestDataSocket,
                transferVars
  <2> QED
    BY <1>2, <2>1
<1>10. ASSUME NEW u \in Transfers, SendFileHandler(u) PROVE Answer /\ Read
  <2>1. /\ kind' = kind
        /\ replies' = [replies EXCEPT ![u] = @ \o SendFileReplies(u)]
    BY <1>10 DEF SendFileHandler
  <2>2. PICK c \in Replies \ {"150"} : SendFileReplies(u) = <<c>>
    BY DEF SendFileReplies, Done, Replies
  <2>3. replies[u] \in Seq(Replies) /\ replies[u] \o <<c>> = Append(replies[u], c)
    BY <1>0
  <2>4. Reply(u, c)
    BY <2>1, <2>2, <2>3 DEF Reply
  <2> QED
    BY <1>1, <2>1, <2>4
<1>11. ASSUME NEW u \in Transfers, NEW ok \in BOOLEAN,
              \/ AcceptPosted(u) \/ SendCompletes(u)
              \/ ReceiveCompletes(u, ok) \/ ListingWriteCompletes(u)
       PROVE  Answer /\ Read
  BY <1>2, <1>11 DEF AcceptPosted, SendCompletes, ReceiveCompletes,
                     ListingWriteCompletes
<1>12. CASE \/ ClientResets \/ AcceptCompletes \/ AcceptErrs \/ Destroy
            \/ UNCHANGED vars
            \/ \E who \in {"client", "foreign"} : Connect(who)
  <2>1. UNCHANGED <<kind, replies>>
    BY <1>12 DEF ClientResets, AcceptCompletes, AcceptErrs, Connect, Destroy,
                 vars, transferVars
  <2> QED
    BY <1>2, <2>1
<1> QED
  BY <1>3, <1>4, <1>5, <1>6, <1>7, <1>8, <1>9, <1>10, <1>11, <1>12
     DEF Next, CommandStrand, DataStrand, System

\* A transfer that waits for its completion was read.
LEMMA WaitingRead ==
  ASSUME StrandInv, NEW t \in Transfers, Unanswered(t)
  PROVE  t \in 1 .. Len(kind) /\ Outstanding
<1>1. ~(t > Len(kind))
  BY ReplySequences DEF StrandInv, AnswerInv, ToCome, Unanswered, Replies
<1>2. t \in Nat /\ t >= 1 /\ Len(kind) \in Nat
  BY BoundsAssumption DEF Transfers, StrandInv, TypeOK
<1> QED
  BY <1>1, <1>2 DEF Outstanding

\* A command handler moves on by its own steps only, and while it runs no
\* transfer begins to wait for its completion.
LEMMA CommandSteps ==
  ASSUME StrandInv, [Next]_vars, Busy'
  PROVE  /\ \/ PasvOpen \/ PasvBind \/ PasvListen
            \/ \E k \in Kinds : TransferChecked(k)
            \/ command' = command
         /\ Outstanding' => Outstanding
<1>1. StrandInv' /\ TypeOK
  BY StrandStep DEF StrandInv
<1>2. ~AcceptDataConnection
  BY DEF AcceptDataConnection, Busy
<1>3. ASSUME Outstanding' PROVE Outstanding
  <2>1. PICK t \in 1 .. Len(kind') : Unanswered(t)'
    BY <1>3 DEF Outstanding
  <2>2. t \in Transfers
    BY <1>1, BoundsAssumption DEF StrandInv, TypeOK, Transfers
  <2>3. Unanswered(t)
    BY <1>1, <1>2, <2>1, <2>2, UnansweredStep
  <2> QED
    BY <2>2, <2>3, WaitingRead
<1>4. CASE CommandStrand
  <2>1. \/ PasvOpen \/ PasvBind \/ PasvListen
        \/ \E k \in Kinds : TransferChecked(k)
        \/ command' = command \/ command' \notin {"bind", "listen", "announce",
                                                  "accept"}
    BY <1>4
       DEF CommandStrand, PasvFail, PasvAnnounce, PasvTerminate,
           TransferRefused, AcceptDataConnection, Quit, CloseCommandSocket,
           CommandReadError, commandVars
  <2> QED
    BY <1>3, <2>1 DEF Busy
<1>5. CASE DataStrand
  <2>1. command' = command
    BY <1>5
       DEF DataStrand, AcceptFailed, Rejected, SendFile, SendEmptyFile,
           ReceiveFile, SendDirectoryListing, Connected, AddDataToBufferAndSend,
           WriteDataToSocket, EndOfListing, ListingWritten, ReceivedChunk,
           ReceivedLast, EndDataReceiving, CloseNewestDataSocket, commandVars
  <2> QED
    BY <1>3, <2>1
<1>6. CASE System \/ Destroy \/ UNCHANGED vars
  <2>1. command' = command
    BY <1>6
       DEF System, ClientResets, Connect, AcceptCompletes, AcceptErrs,
           AcceptPosted, SendCompletes, SendFileHandler, ReceiveCompletes,
           ListingWriteCompletes, Destroy, commandVars, vars
  <2> QED
    BY <1>3, <2>1
<1> QED
  BY <1>4, <1>5, <1>6 DEF Next

\* Nothing is read after the read that failed.
LEMMA EndOfReading ==
  ASSUME [Next]_vars, command' # "ended" PROVE command # "ended"
<1>1. CASE CommandStrand
  BY <1>1
     DEF CommandStrand, PasvOpen, PasvBind, PasvListen, PasvFail, PasvAnnounce,
         PasvTerminate, TransferRefused, TransferChecked, AcceptDataConnection,
         Quit, CloseCommandSocket, CommandReadError
<1>2. CASE DataStrand
  BY <1>2
     DEF DataStrand, AcceptFailed, Rejected, SendFile, SendEmptyFile,
         ReceiveFile, SendDirectoryListing, Connected, AddDataToBufferAndSend,
         WriteDataToSocket, EndOfListing, ListingWritten, ReceivedChunk,
         ReceivedLast, EndDataReceiving, CloseNewestDataSocket, commandVars
<1>3. CASE System \/ Destroy \/ UNCHANGED vars
  BY <1>3
     DEF System, ClientResets, Connect, AcceptCompletes, AcceptErrs,
         AcceptPosted, SendCompletes, SendFileHandler, ReceiveCompletes,
         ListingWriteCompletes, Destroy, commandVars, vars
<1> QED
  BY <1>1, <1>2, <1>3 DEF Next

\* SequentialInv is inductive beside the invariants of the strands and ports.
LEMMA SequentialStep ==
  ASSUME StrandInv, PortsInv, SequentialInv, [Next]_vars PROVE SequentialInv'
<1> SUFFICES ASSUME pipelined' = FALSE
             PROVE  /\ session' = "terminated" => ipv6'
                    /\ announced' <= pasvs'
                    /\ Busy' => ~Outstanding'
                    /\ command' = "announce" => data_acceptor' = "listening"
                    /\ \A t \in Transfers : Pending(t)' => port'[t] = pasvs'
                    /\ \A t, u \in Transfers :
                         Unanswered(t)' /\ Unanswered(u)' => t = u
                    /\ SinglePorts'
                    /\ AnnouncedOpen'
  BY DEF SequentialInv
<1>0. /\ TypeOK /\ pasvs \in Nat /\ announced \in Nat
      /\ accepting \in Seq(Transfers) /\ strand \in Seq(Handlers)
      /\ port \in [Transfers -> 0 .. MaxPasv]
      /\ \A t \in Transfers : AnswerInv(t)
  BY BoundsAssumption DEF StrandInv, TypeOK
<1>1. /\ pipelined = FALSE
      /\ PasvOpen \/ (\E k \in Kinds : TransferChecked(k)) => ~Outstanding
  BY <1>0, PipelinedSteps
<1>2. /\ session = "terminated" => ipv6
      /\ announced <= pasvs
      /\ Busy => ~Outstanding
      /\ command = "announce" => data_acceptor = "listening"
      /\ \A t \in Transfers : Pending(t) => port[t] = pasvs
      /\ \A t, u \in Transfers : Unanswered(t) /\ Unanswered(u) => t = u
      /\ SinglePorts
      /\ AnnouncedOpen
  BY <1>1 DEF SequentialInv
<1>3. PasvTerminate => ipv6 /\ command' = "terminated" /\ session' = "terminated"
  BY <1>2 DEF PasvTerminate, IsOpen
<1>4. /\ pasvs' = pasvs \/ PasvOpen
      /\ announced' = announced \/ PasvAnnounce
      /\ port' = port \/ AcceptCompletes
      /\ session' = session \/ PasvTerminate \/ Destroy
      /\ ipv6' = ipv6
  BY PortSteps
\* A handler that closes the acceptor serves a transfer that is not answered.
<1>5. ASSUME ServesAccepted
      PROVE  /\ Head(strand).t \in Transfers
             /\ port[Head(strand).t] = pasvs
             /\ Outstanding
  <2>1. /\ Head(strand).t \in Transfers
        /\ Pending(Head(strand).t)
    BY <1>0, <1>5, RunHandlers, TailIn
       DEF ServesAccepted, First, Accepted, Pending
  <2> QED
    BY <1>2, <2>1, AcceptedUnanswered, WaitingRead
<1>10. session' = "terminated" => ipv6'
  BY <1>2, <1>3, <1>4 DEF Destroy
<1>11. announced' <= pasvs'
  <2>1. PasvOpen => pasvs' = pasvs + 1
    BY DEF PasvOpen
  <2>2. PasvAnnounce => announced' = pasvs /\ pasvs' = pasvs
    BY DEF PasvAnnounce
  <2> QED
    BY <1>0, <1>2, <1>4, <2>1, <2>2
<1>12. Busy' => ~Outstanding'
  <2> SUFFICES ASSUME Busy' PROVE ~Outstanding'
    OBVIOUS
  <2>1. Busy => ~Outstanding
    BY <1>2
  <2>2. PasvOpen \/ (\E k \in Kinds : TransferChecked(k)) \/ Busy
    BY CommandSteps DEF Busy, PasvBind, PasvListen
  <2> QED
    BY <1>1, <2>1, <2>2, CommandSteps
<1>13. ASSUME command' = "announce" PROVE data_acceptor' = "listening"
  <2>1. CASE PasvOpen \/ PasvBind \/ PasvListen
    BY <1>13, <2>1 DEF PasvOpen, PasvBind, PasvListen
  <2>2. CASE command = "announce" /\ ~(PasvOpen \/ PasvBind \/ PasvListen)
    <3>1. ~ServesAccepted
      BY <1>2, <1>5, <2>2 DEF Busy
    <3>2. ~CommandReadError /\ ~Destroy
      BY <2>2 DEF CommandReadError, Destroy, Unreferenced
    <3> QED
      BY <1>2, <1>3, <1>13, <2>2, <3>1, <3>2, PortSteps
  <2>3. ~\E k \in Kinds : TransferChecked(k)
    BY <1>13 DEF TransferChecked
  <2> QED
    BY <1>13, <2>1, <2>2, <2>3, CommandSteps DEF Busy
<1>14. ASSUME NEW t \in Transfers, Pending(t)' PROVE port'[t] = pasvs'
  <2>1. CASE AcceptCompletes
    <3>1. /\ port' = [port EXCEPT ![Head(accepting)] = pasvs]
          /\ pasvs' = pasvs
      BY <2>1 DEF AcceptCompletes, commandVars
    <3>2. Head(accepting) = t \/ Pending(t)
      BY <1>0, <1>14, AcceptedStep
    <3> QED
      BY <1>0, <1>2, <3>1, <3>2
  <2>2. CASE ~AcceptCompletes
    <3>1. Pending(t) /\ port' = port
      BY <1>0, <1>4, <1>14, <2>2, AcceptedStep
    <3>2. ~PasvOpen
      BY <1>1, <3>1, AcceptedUnanswered, WaitingRead
    <3> QED
      BY <1>2, <1>4, <3>1, <3>2
  <2> QED
    BY <2>1, <2>2
\* The 150 of a transfer comes when no other waits for its completion.
<1>16. ASSUME NEW t \in Transfers, NEW u \in Transfers,
              Unanswered(t)', Unanswered(u)'
       PROVE  t = u
  <2>1. CASE AcceptDataConnection
    <3>1. ~Outstanding
      BY <1>2, <2>1 DEF Busy, AcceptDataConnection
    <3>2. ~Unanswered(t) /\ ~Unanswered(u)
      BY <3>1, WaitingRead
    <3> QED
      BY <1>0, <1>16, <3>2, UnansweredStep
  <2>2. CASE ~AcceptDataConnection
    BY <1>0, <1>2, <1>16, <2>2, UnansweredStep
  <2> QED
    BY <2>1, <2>2
\* Who was accepted on the port before would wait as the next one does.
<1>17. SinglePorts'
  <2>1. CASE AcceptCompletes
    <3> DEFINE h == Head(accepting)
    <3>1. /\ h \in Transfers /\ IsOpen
          /\ port' = [port EXCEPT ![h] = pasvs]
      BY <1>0, <2>1, TailFacts DEF AcceptCompletes, IsOpen
    <3>2. Unanswered(h)
      <4>1. ~NoneIn(accepting, {h})
        BY <1>0, <2>1, TailIn DEF AcceptCompletes
      <4> QED
        BY <1>0, <3>1, <4>1 DEF AnswerInv, UnderWay
    <3>3. ASSUME NEW u \in Transfers, port[u] = pasvs, pasvs # 0
          PROVE  u = h
      <4>1. Pending(u)
        BY <3>1, <3>3 DEF PortsInv, PortInv
      <4> QED
        BY <1>2, <3>1, <3>2, <4>1, AcceptedUnanswered
    <3> QED
      BY <1>0, <1>2, <3>1, <3>3 DEF SinglePorts
  <2>2. CASE ~AcceptCompletes
    BY <1>2, <1>4, <2>2 DEF SinglePorts
  <2> QED
    BY <2>1, <2>2
<1>15. AnnouncedOpen'
  <2> SUFFICES ASSUME announced' # 0, announced' = pasvs', command' # "ended",
                      session' = "alive",
                      \A t \in Transfers : port'[t] # announced'
               PROVE  data_acceptor' = "listening"
    BY DEF AnnouncedOpen
  <2>1. CASE PasvAnnounce
    BY <1>2, <2>1 DEF PasvAnnounce, acceptVars
  <2>2. ~PasvOpen
    BY <1>0, <1>2 DEF PasvOpen
  <2>3. CASE PasvListen
    BY <2>3 DEF PasvListen
  <2>4. ~CommandReadError /\ ~Destroy
    BY DEF CommandReadError, Destroy
  <2>5. CASE ~PasvAnnounce /\ ~PasvListen
    <3>1. /\ announced' = announced /\ pasvs' = pasvs
          /\ session = "alive" /\ ~PasvTerminate
      BY <1>3, <1>4, <2>2, <2>4, <2>5
    <3>2. \A t \in Transfers : port[t] # announced
      <4>1. CASE AcceptCompletes
        <5>1. /\ port' = [port EXCEPT ![Head(accepting)] = pasvs]
              /\ Head(accepting) \in Transfers
          BY <1>0, <4>1, TailFacts DEF AcceptCompletes
        <5>2. port'[Head(accepting)] = announced'
          BY <1>0, <3>1, <5>1
        <5> QED
          BY <5>1, <5>2
      <4> QED
        BY <1>4, <3>1, <4>1
    <3>3. command # "ended"
      BY EndOfReading
    <3>4. data_acceptor = "listening"
      BY <1>2, <3>1, <3>2, <3>3 DEF AnnouncedOpen
    <3>5. ~ServesAccepted
      BY <1>5, <3>1, <3>2
    <3>6. ~PasvBind
      BY <3>4 DEF PasvBind
    <3> QED
      BY <2>2, <2>4, <2>5, <3>1, <3>4, <3>5, <3>6, PortSteps
  <2> QED
    BY <2>1, <2>3, <2>5
<1> QED
  BY <1>10, <1>11, <1>12, <1>13, <1>14, <1>15, <1>16, <1>17

LEMMA SequentialClients == Spec => [](StrandInv /\ SequentialInv)
<1>1. Init => SequentialInv
  <2> SUFFICES ASSUME Init PROVE SequentialInv
    OBVIOUS
  <2>1. /\ session = "alive" /\ announced = 0 /\ pasvs = 0
        /\ command = "reading" /\ strand = <<>>
        /\ \A t \in Transfers : /\ port[t] = 0 /\ io[t] = "none"
                                /\ replies[t] = <<>>
    BY DEF Init
  <2>2. \A t \in Transfers : ~Pending(t) /\ ~Unanswered(t)
    BY <2>1, EmptyIn, ReplySequences DEF Pending, Unanswered, Replies
  <2> QED
    BY <2>1, <2>2 DEF SequentialInv, SinglePorts, AnnouncedOpen, Busy
<1>2. StrandInv /\ PortsInv /\ SequentialInv /\ [Next]_vars => SequentialInv'
  BY SequentialStep
<1> QED
  BY <1>1, <1>2, Ports, PTL DEF Spec

(***************************************************************************)
(* For a client that waits for its answers the two strands do not meet in  *)
(* the acceptor: PASV throws over IPv6 only, the announced port listens,   *)
(* and no two data connections come in by one port.                        *)
(***************************************************************************)
THEOREM SequentialClientSafe == Spec => []SequentialClient
<1>1. SequentialInv /\ TypeOK => SequentialClient
  BY DEF SequentialInv, AnnouncedOpen, SinglePorts, SequentialClient, TypeOK
<1> QED
  BY <1>1, SequentialClients, PTL DEF StrandInv
-----------------------------------------------------------------------------
(***************************************************************************)
(* Who answers for a transfer.  A transfer is in hand as long as an        *)
(* accept, a handler or an operation of it is left.                        *)
(***************************************************************************)
Held(t) == {h \in Handlers : h.t = t}

InHand(t) == \/ ~NoneIn(strand, Held(t))
             \/ ~NoneIn(accepting, {t})
             \/ io[t] # "none"

\* A step posts the completion reply of the transfer.
Answers(t) == \E c \in {"226", "425", "426"} : replies'[t] = Append(replies[t], c)

\* A step runs one of the handlers that may end without a successor, though
\* the transfer is not answered: an element is added behind others, or the
\* write of one has ended and there are no others, or it has failed.
MayLose(t) ==
  strand # <<>> /\ Head(strand).t = t /\ Head(strand).run \in {"add", "listed"}

\* Handlers of a transfer.
LEMMA HeldHandlers ==
  ASSUME NEW run \in Lambdas \ {"close"}, NEW u \in Transfers,
         NEW arg \in BOOLEAN, NEW t \in Transfers
  PROVE  /\ Handler(run, u, arg) \in Handlers
         /\ Handler(run, u, arg) \in Held(t) <=> u = t
  BY PostedHandlers DEF Held, Handler

LEMMA AbortedHeld ==
  ASSUME accepting \in Seq(Transfers), NEW t \in Transfers
  PROVE  /\ AbortedAccepts \in Seq(Handlers)
         /\ NoneIn(AbortedAccepts, Held(t)) <=> NoneIn(accepting, {t})
<1>1. /\ AbortedAccepts \in Seq(Handlers)
      /\ DOMAIN accepting = 1 .. Len(accepting)
      /\ \A i \in DOMAIN accepting : accepting[i] \in Transfers
  BY AbortedHandlers
<1>2. /\ DOMAIN AbortedAccepts = DOMAIN accepting
      /\ \A i \in DOMAIN accepting :
           AbortedAccepts[i] = Handler("accepted", accepting[i], FALSE)
  BY <1>1 DEF AbortedAccepts
<1>3. "accepted" \in Lambdas \ {"close"}
  BY DEF Lambdas
<1>4. ASSUME NEW i \in DOMAIN accepting
      PROVE  AbortedAccepts[i] \in Held(t) <=> accepting[i] \in {t}
  <2>1. accepting[i] \in Transfers /\ FALSE \in BOOLEAN
    BY <1>1
  <2>2. Handler("accepted", accepting[i], FALSE) \in Held(t)
          <=> accepting[i] = t
    BY <1>3, <2>1, HeldHandlers
  <2> QED
    BY <1>2, <2>2
<1> QED
  BY <1>1, <1>2, <1>4 DEF NoneIn

\* Only the accept takes a transfer in hand, and a transfer is out of hand
\* when it is answered, when the process ends, or in a listing.
LEMMA HandStep ==
  ASSUME TypeOK, [Next]_vars, NEW t \in Transfers
  PROVE  /\ InHand(t)' => \/ InHand(t)
                          \/ AcceptDataConnection /\ t = Len(kind)
         /\ InHand(t) => \/ InHand(t)' \/ Answers(t) \/ PasvTerminate
                         \/ MayLose(t)
         /\ AcceptDataConnection /\ t = Len(kind) => InHand(t)'
<1> DEFINE H == Held(t)
           Goal == /\ InHand(t)' => \/ InHand(t)
                                    \/ AcceptDataConnection /\ t = Len(kind)
                   /\ InHand(t) => \/ InHand(t)' \/ Answers(t)
                                   \/ PasvTerminate \/ MayLose(t)
                   /\ AcceptDataConnection /\ t = Len(kind) => InHand(t)'
<1>0. /\ strand \in Seq(Handlers) /\ accepting \in Seq(Transfers)
      /\ kind \in Seq(Kinds) /\ Len(kind) \in 0 .. MaxTransfers
      /\ io \in [Transfers -> Operations]
      /\ replies \in [Transfers -> Seq(Replies)]
      /\ t \in Nat /\ t # 0 /\ MaxTransfers \in Nat
  BY BoundsAssumption DEF TypeOK, Transfers
<1>1. ASSUME strand # <<>>
      PROVE  /\ Tail(strand) \in Seq(Handlers)
             /\ NoneIn(strand, H) => NoneIn(Tail(strand), H)
             /\ Head(strand) \in H => ~NoneIn(strand, H)
             /\ Head(strand) \notin H =>
                  (NoneIn(Tail(strand), H) <=> NoneIn(strand, H))
             /\ Head(strand) \in H <=> Head(strand).t = t
  BY <1>0, <1>1, TailIn, TailFacts DEF Held
<1>2. ASSUME NEW s \in Seq(Handlers)
      PROVE  /\ s \o AbortedAccepts \in Seq(Handlers)
             /\ NoneIn(s \o AbortedAccepts, H)
                  <=> NoneIn(s, H) /\ NoneIn(accepting, {t})
  <2>1. /\ AbortedAccepts \in Seq(Handlers)
        /\ NoneIn(AbortedAccepts, H) <=> NoneIn(accepting, {t})
    BY <1>0, AbortedHeld
  <2> QED
    BY <2>1, ConcatIn, ConcatFacts
<1>3. ASSUME NEW s \in Seq(Handlers), NEW u \in Transfers, NEW run \in Lambdas \ {"close"},
             NEW arg \in BOOLEAN
      PROVE  NoneIn(Append(s, Handler(run, u, arg)), H)
               <=> NoneIn(s, H) /\ u # t
  <2>1. /\ Handler(run, u, arg) \in Handlers
        /\ Handler(run, u, arg) \in H <=> u = t
    BY HeldHandlers
  <2> QED
    BY <2>1, AppendIn
<1>8. ASSUME NEW u \in Transfers, NEW op, Start(u, op)
      PROVE  io'[t] = IF u = t THEN op ELSE io[t]
  BY <1>0, <1>8 DEF Start
<1>9. ASSUME NEW u \in Transfers, NEW c \in {"226", "425", "426"}, Reply(u, c)
      PROVE  u = t => Answers(t)
  BY <1>0, <1>9 DEF Reply, Answers
<1>10. NoneIn(<<>>, H) /\ NoneIn(<<>>, {t})
  BY EmptyIn
<1>11. /\ InHand(t) <=> \/ ~NoneIn(strand, H) \/ ~NoneIn(accepting, {t})
                        \/ io[t] # "none"
       /\ InHand(t)' <=> \/ ~NoneIn(strand', H) \/ ~NoneIn(accepting', {t})
                         \/ io'[t] # "none"
  BY DEF InHand, Held
<1> HIDE DEF H
<1>12. ASSUME command' # "reading" \/ command # "accept"
       PROVE  ~AcceptDataConnection
  BY <1>12 DEF AcceptDataConnection
<1>13. ASSUME InHand(t)' <=> InHand(t), ~AcceptDataConnection PROVE Goal
  BY <1>13
<1>14. ASSUME strand' = strand, accepting' = accepting, io' = io,
              ~AcceptDataConnection
       PROVE  Goal
  BY <1>11, <1>13, <1>14
<1> SUFFICES Goal
  OBVIOUS
<1> HIDE DEF Goal
<1>20. CASE PasvOpen
  <2>1. /\ strand' = strand \o AbortedAccepts /\ accepting' = <<>>
        /\ UNCHANGED io /\ ~AcceptDataConnection
    BY <1>12, <1>20 DEF PasvOpen, transferVars
  <2> QED
    BY <1>0, <1>2, <1>10, <1>11, <1>13, <2>1
<1>21. CASE PasvBind \/ PasvListen \/ PasvFail \/ PasvAnnounce \/ Quit
  <2>1. UNCHANGED <<strand, accepting, io>> /\ command # "accept"
    BY <1>21 DEF PasvBind, PasvListen, PasvFail, PasvAnnounce, Quit,
                 transferVars, acceptVars
  <2>2. ~AcceptDataConnection
    BY <1>12, <2>1
  <2> QED
    BY <1>14, <2>1, <2>2
<1>22. CASE CloseCommandSocket
  <2>1. UNCHANGED <<strand, accepting, io>> /\ command # "accept"
    BY <1>22 DEF CloseCommandSocket, transferVars, acceptVars
  <2>2. ~AcceptDataConnection
    BY <1>12, <2>1
  <2> QED
    BY <1>14, <2>1, <2>2
<1>23. CASE PasvTerminate
  <2>1. /\ strand' = <<>> /\ accepting' = <<>> /\ io'[t] = "none"
        /\ ~AcceptDataConnection
    BY <1>12, <1>23 DEF PasvTerminate, CloseDataAcceptor
  <2> QED
    BY <1>10, <1>11, <1>23, <2>1 DEF Goal
<1>24. ASSUME NEW k \in Kinds, TransferRefused(k) \/ TransferChecked(k)
       PROVE  Goal
  BY <1>12, <1>14, <1>24
     DEF TransferRefused, TransferChecked, acceptVars, commandVars
<1>26. CASE AcceptDataConnection
  <2>1. /\ Len(kind) \in Transfers /\ UNCHANGED io
    BY <1>0, <1>26 DEF AcceptDataConnection, TypeOK, Transfers
  <2>2. \/ /\ accepting' = Append(accepting, Len(kind))
           /\ strand' = strand
        \/ /\ accepting' = accepting
           /\ strand' = Append(strand, Handler("accepted", Len(kind), FALSE))
    BY <1>26 DEF AcceptDataConnection
  <2>3. NoneIn(Append(accepting, Len(kind)), {t})
          <=> NoneIn(accepting, {t}) /\ Len(kind) # t
    BY <1>0, <2>1, AppendIn
  <2>4. NoneIn(Append(strand, Handler("accepted", Len(kind), FALSE)), H)
          <=> NoneIn(strand, H) /\ Len(kind) # t
    BY <1>0, <1>3, <2>1 DEF Lambdas
  <2> QED
    BY <1>11, <1>26, <2>1, <2>2, <2>3, <2>4 DEF Goal
<1>27. CASE CommandReadError
  <2> DEFINE close == Handler("close", 0, TRUE)
  <2>1. close \in Handlers /\ close \notin H
    BY <1>0, CloseHandler DEF H, Held, Handler
  <2>2. /\ strand' = Append(strand \o AbortedAccepts, close)
        /\ accepting' = <<>> /\ UNCHANGED io /\ ~AcceptDataConnection
    BY <1>12, <1>27 DEF CommandReadError, CloseDataAcceptor, transferVars
  <2> HIDE DEF close
  <2>3. /\ strand \o AbortedAccepts \in Seq(Handlers)
        /\ NoneIn(strand \o AbortedAccepts, H)
             <=> NoneIn(strand, H) /\ NoneIn(accepting, {t})
    BY <1>0, <1>2
  <2>4. NoneIn(strand', H) <=> NoneIn(strand, H) /\ NoneIn(accepting, {t})
    BY <2>1, <2>2, <2>3, AppendIn
  <2> QED
    BY <1>10, <1>11, <1>13, <2>2, <2>4
<1>30. ASSUME DataStrand
       PROVE  /\ strand # <<>>
              /\ Head(strand).run \in Lambdas
              /\ Head(strand).run # "close" => Head(strand).t \in Transfers
              /\ ~AcceptDataConnection
  <2>1. strand # <<>> /\ UNCHANGED command
    BY <1>30
       DEF DataStrand, AcceptFailed, Rejected, SendFile, SendEmptyFile,
           ReceiveFile, SendDirectoryListing, Connected, AddDataToBufferAndSend,
           WriteDataToSocket, EndOfListing, ListingWritten, ReceivedChunk,
           ReceivedLast, EndDataReceiving, CloseNewestDataSocket, First,
           commandVars, transferVars
  <2>2. ~AcceptDataConnection
    BY <2>1 DEF AcceptDataConnection
  <2> QED
    BY <1>0, <2>1, <2>2, RunHandlers
<1>31. CASE DataStrand
  <2> DEFINE u    == Head(strand).t
             rest == Tail(strand)
  <2>0. /\ strand # <<>> /\ ~AcceptDataConnection
        /\ rest \in Seq(Handlers)
        /\ NoneIn(strand, H) => NoneIn(rest, H)
        /\ u = t => ~NoneIn(strand, H)
        /\ u # t => (NoneIn(rest, H) <=> NoneIn(strand, H))
    BY <1>1, <1>30, <1>31
  <2>1. CASE AcceptFailed \/ EndOfListing \/ EndDataReceiving
    <3>1. /\ u \in Transfers
          /\ Reply(u, "426") \/ Reply(u, "226")
          /\ strand' = rest /\ UNCHANGED <<accepting, io>>
      BY <1>30, <1>31, <2>1
         DEF AcceptFailed, EndOfListing, EndDataReceiving, First, acceptVars,
             Done
    <3> QED
      BY <1>9, <1>11, <2>0, <3>1 DEF Goal
  <2>2. CASE Rejected \/ SendEmptyFile
    <3>1. /\ u \in Transfers
          /\ Reply(u, "425") \/ Reply(u, "226")
          /\ strand' = rest \o AbortedAccepts
          /\ accepting' = <<>> /\ UNCHANGED io
      BY <1>30, <1>31, <2>2
         DEF Rejected, SendEmptyFile, Connected, First, CloseDataAcceptor, Done
    <3> QED
      BY <1>2, <1>9, <1>10, <1>11, <2>0, <3>1 DEF Goal
  <2>4. CASE SendFile \/ ReceiveFile
    <3>1. /\ u \in Transfers
          /\ strand' = rest \o AbortedAccepts /\ accepting' = <<>>
          /\ (Start(u, "send") \/ Start(u, "receive"))
      BY <1>30, <1>31, <2>4
         DEF SendFile, ReceiveFile, Connected, First, CloseDataAcceptor
    <3>2. NoneIn(strand', H) <=> NoneIn(rest, H) /\ NoneIn(accepting, {t})
      BY <1>2, <2>0, <3>1
    <3>3. io'[t] # "none" <=> u = t \/ io[t] # "none"
      BY <1>8, <3>1
    <3>4. NoneIn(accepting', {t})
      BY <1>10, <3>1
    <3>5. InHand(t)' <=> InHand(t)
      BY <1>11, <2>0, <3>2, <3>3, <3>4
    <3> QED
      BY <1>13, <2>0, <3>5
  <2>5. CASE SendDirectoryListing
    <3> DEFINE d == Handler("add", u, TRUE)
               e == Handler("add", u, FALSE)
               q == rest \o AbortedAccepts
    <3>1. /\ u \in Transfers
          /\ strand' = q \o <<d, e>>
          /\ accepting' = <<>> /\ UNCHANGED io
      BY <1>30, <1>31, <2>5
         DEF SendDirectoryListing, Connected, First, CloseDataAcceptor
    <3>2. d \in Handlers /\ e \in Handlers /\ (d \in H <=> u = t) /\ (e \in H <=> u = t)
      BY <3>1, HeldHandlers DEF Lambdas, H
    <3>3. /\ q \in Seq(Handlers)
          /\ NoneIn(q, H) <=> NoneIn(rest, H) /\ NoneIn(accepting, {t})
      BY <1>2, <2>0
    <3> HIDE DEF d, e, q
    <3>4. /\ <<d, e>> \in Seq(Handlers)
          /\ NoneIn(<<d, e>>, H) <=> u # t
      BY <3>2, ShortQueues DEF NoneIn
    <3>5. NoneIn(strand', H) <=> NoneIn(q, H) /\ u # t
      BY <3>1, <3>3, <3>4, ConcatIn
    <3>6. InHand(t)' <=> InHand(t)
      BY <1>10, <1>11, <2>0, <3>1, <3>3, <3>5
    <3> QED
      BY <1>13, <2>0, <3>6
  <2>6. CASE AddDataToBufferAndSend \/ ListingWritten
    <3>1. /\ u \in Transfers /\ Head(strand).run \in {"add", "listed"}
          /\ UNCHANGED <<accepting, io>>
          /\ \/ strand' = rest
             \/ strand' = Append(rest, Handler("write", u, TRUE))
      BY <1>30, <1>31, <2>6
         DEF AddDataToBufferAndSend, ListingWritten, First, acceptVars,
             transferVars
    <3>2. NoneIn(Append(rest, Handler("write", u, TRUE)), H)
            <=> NoneIn(rest, H) /\ u # t
      <4>1. rest \in Seq(Handlers) /\ u \in Transfers /\ "write" \in Lambdas \ {"close"}
        BY <2>0, <3>1 DEF Lambdas
      <4> HIDE DEF rest, u
      <4> QED
        BY <1>3, <4>1
    <3>3. u = t => MayLose(t)
      BY <2>0, <3>1 DEF MayLose
    <3> QED
      BY <1>11, <2>0, <3>1, <3>2, <3>3 DEF Goal
  <2>7. CASE WriteDataToSocket \/ ReceivedChunk
    <3>1. /\ u \in Transfers /\ strand' = rest /\ UNCHANGED accepting
          /\ (Start(u, "list") \/ Start(u, "receive"))
      BY <1>30, <1>31, <2>7
         DEF WriteDataToSocket, ReceivedChunk, First, acceptVars
    <3>2. InHand(t)' <=> InHand(t)
      BY <1>8, <1>11, <2>0, <3>1
    <3> QED
      BY <1>13, <2>0, <3>2
  <2>9. CASE ReceivedLast
    <3>1. /\ u \in Transfers
          /\ UNCHANGED <<accepting, io>>
          /\ strand' = Append(rest, Handler("endrecv", u, TRUE))
      BY <1>30, <1>31, <2>9 DEF ReceivedLast, First, acceptVars, transferVars
    <3>2. NoneIn(Append(rest, Handler("endrecv", u, TRUE)), H)
            <=> NoneIn(rest, H) /\ u # t
      <4>1. rest \in Seq(Handlers) /\ u \in Transfers /\ "endrecv" \in Lambdas \ {"close"}
        BY <2>0, <3>1 DEF Lambdas
      <4> HIDE DEF rest, u
      <4> QED
        BY <1>3, <4>1
    <3>3. InHand(t)' <=> InHand(t)
      BY <1>11, <2>0, <3>1, <3>2
    <3> QED
      BY <1>13, <2>0, <3>3
  <2>10. CASE CloseNewestDataSocket
    <3>1. /\ Head(strand).run = "close" /\ strand' = rest
          /\ UNCHANGED <<accepting, io>>
      BY <1>30, <1>31, <2>10 DEF CloseNewestDataSocket, First, acceptVars
    <3>2. u # t => InHand(t)' <=> InHand(t)
      BY <1>11, <2>0, <3>1
    <3>3. u # t
      BY <1>0, <2>0, <3>1, RunHandlers
    <3> QED
      BY <1>13, <2>0, <3>2, <3>3
  <2> QED
    BY <1>31, <2>1, <2>2, <2>4, <2>5, <2>6, <2>7, <2>9, <2>10 DEF DataStrand
<1>40. CASE System
  <2>0. ~AcceptDataConnection
    BY <1>12, <1>40
       DEF System, ClientResets, Connect, AcceptCompletes, AcceptErrs,
           AcceptPosted, SendCompletes, SendFileHandler, ReceiveCompletes,
           ListingWriteCompletes, commandVars, AcceptDataConnection
  <2>1. CASE ClientResets
    <3>1. UNCHANGED <<strand, accepting, io>>
      BY <2>1 DEF ClientResets, acceptVars, transferVars
    <3> QED
      BY <1>14, <2>0, <3>1
  <2>2. ASSUME NEW who, Connect(who) PROVE Goal
    BY <1>14, <2>0, <2>2 DEF Connect, transferVars
  <2>3. CASE AcceptCompletes
    <3> DEFINE u == Head(accepting)
    <3>1. /\ u \in Transfers /\ Start(u, "accepted")
          /\ accepting' = Tail(accepting) /\ accepting # <<>>
          /\ strand' = strand
      BY <1>0, <2>3, TailFacts DEF AcceptCompletes
    <3>2. /\ u = t => ~NoneIn(accepting, {t})
          /\ u # t => (NoneIn(Tail(accepting), {t}) <=> NoneIn(accepting, {t}))
      BY <1>0, <3>1, TailIn
    <3>3. io'[t] = IF u = t THEN "accepted" ELSE io[t]
      BY <1>8, <3>1
    <3>4. InHand(t)' <=> InHand(t)
      BY <1>11, <3>1, <3>2, <3>3
    <3> QED
      BY <1>13, <2>0, <3>4
  <2>7. CASE AcceptErrs
    <3> DEFINE u == Head(accepting)
    <3>1. /\ u \in Transfers /\ UNCHANGED io
          /\ accepting' = Tail(accepting) /\ accepting # <<>>
          /\ strand' = Append(strand, Handler("accepted", u, FALSE))
      BY <1>0, <2>7, TailFacts DEF AcceptErrs, transferVars
    <3>2. /\ u = t => ~NoneIn(accepting, {t})
          /\ u # t => (NoneIn(Tail(accepting), {t}) <=> NoneIn(accepting, {t}))
      BY <1>0, <3>1, TailIn
    <3>3. NoneIn(strand', H) <=> NoneIn(strand, H) /\ u # t
      BY <1>0, <1>3, <3>1 DEF Lambdas
    <3>4. InHand(t)' <=> InHand(t)
      BY <1>11, <3>1, <3>2, <3>3
    <3> QED
      BY <1>13, <2>0, <3>4
  <2>4. ASSUME NEW u \in Transfers, SendCompletes(u) PROVE Goal
    <3>1. /\ io[u] = "send" /\ (Start(u, "sent") \/ Start(u, "unsent"))
          /\ UNCHANGED <<strand, accepting>>
      BY <2>4 DEF SendCompletes, acceptVars
    <3>2. InHand(t)' <=> InHand(t)
      BY <1>8, <1>11, <3>1
    <3> QED
      BY <1>13, <2>0, <3>2
  <2>5. ASSUME NEW u \in Transfers, SendFileHandler(u) PROVE Goal
    <3>1. /\ io[u] # "none" /\ Start(u, "none")
          /\ UNCHANGED <<strand, accepting>>
          /\ replies' = [replies EXCEPT ![u] = @ \o SendFileReplies(u)]
      BY <2>5 DEF SendFileHandler, acceptVars
    <3>2. ASSUME u = t PROVE Answers(t)
      <4>1. PICK c \in {"226", "426"} : SendFileReplies(t) = <<c>>
        BY DEF SendFileReplies, Done
      <4>2. replies[t] \in Seq(Replies) /\ c \in Replies
        BY <1>0 DEF Replies
      <4>3. replies'[t] = Append(replies[t], c)
        BY <1>0, <3>1, <3>2, <4>1, <4>2
      <4> QED
        BY <4>3 DEF Answers
    <3> QED
      BY <1>8, <1>11, <2>0, <3>1, <3>2 DEF Goal
  <2>6. ASSUME NEW u \in Transfers, NEW ok \in BOOLEAN,
               \/ AcceptPosted(u) \/ ReceiveCompletes(u, ok)
               \/ ListingWriteCompletes(u)
        PROVE  Goal
    <3>1. /\ io[u] # "none" /\ Start(u, "none") /\ UNCHANGED accepting
      BY <2>6
         DEF AcceptPosted, ReceiveCompletes, ListingWriteCompletes, acceptVars
    <3>2. PICK run \in {"accepted", "chunk", "listed"}, arg \in BOOLEAN :
            strand' = Append(strand, Handler(run, u, arg))
      BY <2>6
         DEF AcceptPosted, ReceiveCompletes, ListingWriteCompletes, Outcomes
    <3>3. NoneIn(strand', H) <=> NoneIn(strand, H) /\ u # t
      BY <1>0, <1>3, <3>2 DEF Lambdas
    <3>4. InHand(t)' <=> InHand(t)
      BY <1>8, <1>11, <3>1, <3>3
    <3> QED
      BY <1>13, <2>0, <3>4
  <2> QED
    BY <1>40, <2>1, <2>2, <2>3, <2>4, <2>5, <2>6, <2>7 DEF System
<1>45. CASE Destroy
  <2>1. UNCHANGED <<strand, accepting, io>> /\ command # "accept"
    BY <1>45 DEF Destroy, Unreferenced, CloseDataAcceptor, transferVars
  <2>2. ~AcceptDataConnection
    BY <1>12, <2>1
  <2> QED
    BY <1>14, <2>1, <2>2
<1>46. CASE UNCHANGED vars
  <2>1. UNCHANGED <<strand, accepting, io, command>>
    BY <1>46 DEF vars, acceptVars, transferVars, commandVars
  <2>2. ~AcceptDataConnection
    BY <1>12, <2>1
  <2> QED
    BY <1>14, <2>1, <2>2
<1> QED
  BY <1>20, <1>21, <1>22, <1>23, <1>24, <1>26, <1>27, <1>31, <1>40, <1>45,
     <1>46 DEF Next, CommandStrand
-----------------------------------------------------------------------------
(***************************************************************************)
(* Only listings use data_buffer and its chain of writes.                  *)
(***************************************************************************)
ListHandlers(t) ==
  {h \in Handlers : h.t = t /\ h.run \in {"add", "write", "listed"}}

Listed(t) == ~NoneIn(strand, ListHandlers(t)) \/ io[t] = "list"

ListInv(t) == Listed(t) => t <= Len(kind) /\ kind[t] = "LIST"

\* The chain serves a transfer only after sendDirectoryListing.
LEMMA ListedStep ==
  ASSUME TypeOK, [Next]_vars, NEW t \in Transfers, ~Listed(t), Listed(t)'
  PROVE  SendDirectoryListing /\ Head(strand).t = t
<1> DEFINE L == ListHandlers(t)
<1> SUFFICES ASSUME ~(SendDirectoryListing /\ Head(strand).t = t)
             PROVE  NoneIn(strand', L) /\ io'[t] # "list"
  BY DEF Listed, ListHandlers
<1>0. /\ strand \in Seq(Handlers) /\ accepting \in Seq(Transfers)
      /\ io \in [Transfers -> Operations]
      /\ NoneIn(strand, L) /\ io[t] # "list"
      /\ t # 0
  BY BoundsAssumption DEF TypeOK, Listed, Transfers
<1>1. ASSUME strand # <<>>
      PROVE  /\ Tail(strand) \in Seq(Handlers)
             /\ NoneIn(Tail(strand), L)
             /\ Head(strand) \in Handlers /\ Head(strand) \notin L
  BY <1>0, <1>1, TailIn, TailFacts
<1>2. ASSUME NEW s \in Seq(Handlers), NoneIn(s, L)
      PROVE  /\ s \o AbortedAccepts \in Seq(Handlers)
             /\ NoneIn(s \o AbortedAccepts, L)
  <2>1. AbortedAccepts \in Seq(Handlers)
    BY <1>0, AbortedHandlers
  <2>2. NoneIn(AbortedAccepts, L)
    BY DEF NoneIn, AbortedAccepts, ListHandlers, Handler
  <2> QED
    BY <1>2, <2>1, <2>2, ConcatIn, ConcatFacts
<1>3. ASSUME NEW s \in Seq(Handlers), NoneIn(s, L), NEW u \in Transfers,
             NEW run \in Lambdas \ {"close"}, NEW arg \in BOOLEAN,
             u # t \/ run \notin {"add", "write", "listed"}
      PROVE  NoneIn(Append(s, Handler(run, u, arg)), L)
  <2>1. Handler(run, u, arg) \in Handlers
    BY PostedHandlers
  <2>2. Handler(run, u, arg) \notin L
    BY <1>3 DEF ListHandlers, Handler
  <2> QED
    BY <1>3, <2>1, <2>2, AppendIn
<1>4. ASSUME NEW u \in Transfers, NEW op, Start(u, op), u # t \/ op # "list"
      PROVE  io'[t] # "list"
  BY <1>0, <1>4 DEF Start
<1>5. NoneIn(<<>>, L)
  BY EmptyIn
<1>6. Head(strand) \in Handlers /\ Head(strand) \notin L /\ Head(strand).t = t
        => Head(strand).run \notin {"add", "write", "listed"}
  BY DEF ListHandlers
<1> HIDE DEF L
<1>20. CASE PasvOpen
  BY <1>0, <1>2, <1>20 DEF PasvOpen, transferVars
<1>21. CASE PasvBind \/ PasvListen \/ PasvFail \/ PasvAnnounce \/ Quit
  BY <1>0, <1>21
     DEF PasvBind, PasvListen, PasvFail, PasvAnnounce, Quit, transferVars
<1>22. CASE PasvTerminate
  BY <1>5, <1>22 DEF PasvTerminate
<1>23. ASSUME NEW k \in Kinds, TransferRefused(k) \/ TransferChecked(k)
       PROVE  NoneIn(strand', L) /\ io'[t] # "list"
  BY <1>0, <1>23 DEF TransferRefused, TransferChecked
<1>24. CASE AcceptDataConnection
  <2>1. Len(kind) \in Transfers /\ "accepted" \in Lambdas \ {"close"}
    BY <1>24, BoundsAssumption
       DEF AcceptDataConnection, TypeOK, Transfers, Lambdas
  <2>2. NoneIn(Append(strand, Handler("accepted", Len(kind), FALSE)), L)
    BY <1>0, <1>3, <2>1
  <2> QED
    BY <1>0, <1>24, <2>2 DEF AcceptDataConnection
<1>25. CASE CloseCommandSocket
  BY <1>0, <1>25 DEF CloseCommandSocket, transferVars
<1>26. CASE CommandReadError
  <2>1. /\ Handler("close", 0, TRUE) \in Handlers
        /\ Handler("close", 0, TRUE) \notin L
    BY CloseHandler DEF L, ListHandlers, Handler
  <2>2. /\ strand \o AbortedAccepts \in Seq(Handlers)
        /\ NoneIn(strand \o AbortedAccepts, L)
    BY <1>0, <1>2
  <2>3. NoneIn(Append(strand \o AbortedAccepts, Handler("close", 0, TRUE)), L)
    BY <2>1, <2>2, AppendIn
  <2> QED
    BY <1>0, <1>26, <2>3 DEF CommandReadError, transferVars
<1>30. ASSUME DataStrand
       PROVE  /\ strand # <<>>
              /\ Head(strand).run # "close" => Head(strand).t \in Transfers
  <2>1. strand # <<>>
    BY <1>30
       DEF DataStrand, AcceptFailed, Rejected, SendFile, SendEmptyFile,
           ReceiveFile, SendDirectoryListing, Connected, AddDataToBufferAndSend,
           WriteDataToSocket, EndOfListing, ListingWritten, ReceivedChunk,
           ReceivedLast, EndDataReceiving, CloseNewestDataSocket, First
  <2> QED
    BY <1>0, <2>1, RunHandlers
<1>31. CASE DataStrand
  <2> DEFINE u    == Head(strand).t
             rest == Tail(strand)
  <2>0. /\ strand # <<>> /\ rest \in Seq(Handlers) /\ NoneIn(rest, L)
        /\ u = t => Head(strand).run \notin {"add", "write", "listed"}
        /\ rest \o AbortedAccepts \in Seq(Handlers)
        /\ NoneIn(rest \o AbortedAccepts, L)
    BY <1>1, <1>2, <1>6, <1>30, <1>31
  <2>1. CASE \/ AcceptFailed \/ Rejected \/ SendEmptyFile \/ EndOfListing
             \/ EndDataReceiving \/ CloseNewestDataSocket
    <3>1. /\ strand' = rest \/ strand' = rest \o AbortedAccepts
          /\ io' = io
      BY <2>1
         DEF AcceptFailed, Rejected, SendEmptyFile, EndOfListing,
             EndDataReceiving, CloseNewestDataSocket
    <3> QED
      BY <1>0, <2>0, <3>1
  <2>2. CASE SendFile \/ ReceiveFile \/ ReceivedChunk
    <3>1. /\ u \in Transfers
          /\ strand' = rest \/ strand' = rest \o AbortedAccepts
          /\ Start(u, "send") \/ Start(u, "receive")
      BY <1>30, <1>31, <2>2
         DEF SendFile, ReceiveFile, ReceivedChunk, Connected, First
    <3>2. io'[t] # "list"
      BY <1>4, <3>1
    <3> QED
      BY <2>0, <3>1, <3>2
  <2>3. CASE SendDirectoryListing
    <3> DEFINE d == Handler("add", u, TRUE)
               e == Handler("add", u, FALSE)
               q == rest \o AbortedAccepts
    <3>1. /\ u \in Transfers /\ u # t
          /\ strand' = q \o <<d, e>> /\ io' = io
      BY <1>30, <1>31, <2>3
         DEF SendDirectoryListing, Connected, First
    <3>2. /\ d \in Handlers /\ e \in Handlers
          /\ d \notin L /\ e \notin L
      <4>1. "add" \in Lambdas \ {"close"}
        BY DEF Lambdas
      <4>2. d \in Handlers /\ e \in Handlers
        BY <3>1, <4>1, PostedHandlers
      <4> QED
        BY <3>1, <4>2 DEF L, ListHandlers, Handler
    <3> HIDE DEF d, e
    <3>3. <<d, e>> \in Seq(Handlers) /\ NoneIn(<<d, e>>, L)
      BY <3>2, ShortQueues DEF NoneIn
    <3> QED
      BY <1>0, <2>0, <3>1, <3>3, ConcatIn
  <2>4. CASE AddDataToBufferAndSend \/ ListingWritten
    <3>1. /\ u \in Transfers /\ u # t /\ io' = io
          /\ \/ strand' = rest
             \/ strand' = Append(rest, Handler("write", u, TRUE))
      BY <1>30, <1>31, <2>0, <2>4
         DEF AddDataToBufferAndSend, ListingWritten, First, transferVars
    <3>2. NoneIn(Append(rest, Handler("write", u, TRUE)), L)
      <4>1. /\ rest \in Seq(Handlers) /\ NoneIn(rest, L)
            /\ u \in Transfers /\ u # t /\ "write" \in Lambdas \ {"close"}
        BY <2>0, <3>1 DEF Lambdas
      <4> HIDE DEF rest, u
      <4> QED
        BY <1>3, <4>1
    <3> QED
      BY <1>0, <2>0, <3>1, <3>2
  <2>5. CASE WriteDataToSocket
    <3>1. /\ u \in Transfers /\ u # t /\ strand' = rest /\ Start(u, "list")
      BY <1>30, <1>31, <2>0, <2>5 DEF WriteDataToSocket, First
    <3>2. io'[t] # "list"
      BY <1>4, <3>1
    <3> QED
      BY <2>0, <3>1, <3>2
  <2>6. CASE ReceivedLast
    <3>1. /\ u \in Transfers /\ io' = io
          /\ strand' = Append(rest, Handler("endrecv", u, TRUE))
      BY <1>30, <1>31, <2>6 DEF ReceivedLast, First, transferVars
    <3>2. NoneIn(Append(rest, Handler("endrecv", u, TRUE)), L)
      <4>1. /\ rest \in Seq(Handlers) /\ NoneIn(rest, L)
            /\ u \in Transfers /\ "endrecv" \in Lambdas \ {"close"}
        BY <2>0, <3>1 DEF Lambdas
      <4> HIDE DEF rest, u
      <4> QED
        BY <1>3, <4>1
    <3> QED
      BY <1>0, <3>1, <3>2
  <2> QED
    BY <1>31, <2>1, <2>2, <2>3, <2>4, <2>5, <2>6 DEF DataStrand
<1>40. CASE ClientResets \/ \E who \in {"client", "foreign"} : Connect(who)
  BY <1>0, <1>40 DEF ClientResets, Connect, transferVars
<1>41. CASE AcceptCompletes
  <2>1. /\ Head(accepting) \in Transfers /\ strand' = strand
        /\ Start(Head(accepting), "accepted")
    BY <1>0, <1>41, TailFacts DEF AcceptCompletes
  <2> QED
    BY <1>0, <1>4, <2>1
<1>49. CASE AcceptErrs
  <2>1. /\ Head(accepting) \in Transfers /\ io' = io
        /\ strand' = Append(strand, Handler("accepted", Head(accepting), FALSE))
    BY <1>0, <1>49, TailFacts DEF AcceptErrs, transferVars
  <2>2. NoneIn(strand', L)
    BY <1>0, <1>3, <2>1 DEF Lambdas
  <2> QED
    BY <1>0, <2>1, <2>2
<1>50. ASSUME NEW u \in Transfers, AcceptPosted(u)
       PROVE  NoneIn(strand', L) /\ io'[t] # "list"
  <2>1. /\ Start(u, "none")
        /\ strand' = Append(strand, Handler("accepted", u, TRUE))
    BY <1>50 DEF AcceptPosted
  <2>2. NoneIn(strand', L)
    BY <1>0, <1>3, <2>1 DEF Lambdas
  <2> QED
    BY <1>4, <2>1, <2>2
<1>42. ASSUME NEW u \in Transfers, SendCompletes(u) \/ SendFileHandler(u)
       PROVE  NoneIn(strand', L) /\ io'[t] # "list"
  <2>1. /\ Start(u, "sent") \/ Start(u, "unsent") \/ Start(u, "none")
        /\ strand' = strand
    BY <1>42 DEF SendCompletes, SendFileHandler
  <2>2. io'[t] # "list"
    BY <1>4, <2>1
  <2> QED
    BY <1>0, <2>1, <2>2
<1>43. ASSUME NEW u \in Transfers, NEW ok \in BOOLEAN, ReceiveCompletes(u, ok)
       PROVE  NoneIn(strand', L) /\ io'[t] # "list"
  <2>1. /\ Start(u, "none") /\ strand' = Append(strand, Handler("chunk", u, ok))
    BY <1>43 DEF ReceiveCompletes
  <2>2. io'[t] # "list"
    BY <1>4, <2>1
  <2> QED
    BY <1>0, <1>3, <2>1, <2>2 DEF Lambdas
<1>44. ASSUME NEW u \in Transfers, ListingWriteCompletes(u)
       PROVE  NoneIn(strand', L) /\ io'[t] # "list"
  <2>1. u # t /\ Start(u, "none")
    BY <1>0, <1>44 DEF ListingWriteCompletes
  <2>2. io'[t] # "list"
    BY <1>4, <2>1
  <2>3. PICK arg \in BOOLEAN : strand' = Append(strand, Handler("listed", u, arg))
    BY <1>44 DEF ListingWriteCompletes, Outcomes
  <2> QED
    BY <1>0, <1>3, <2>1, <2>2, <2>3 DEF Lambdas
<1>45. CASE Destroy
  BY <1>0, <1>45 DEF Destroy, transferVars
<1>46. CASE UNCHANGED vars
  BY <1>0, <1>46 DEF vars, transferVars
<1>47. CASE System
  BY <1>40, <1>41, <1>42, <1>43, <1>44, <1>47, <1>49, <1>50 DEF System
<1>48. CASE CommandStrand
  BY <1>20, <1>21, <1>22, <1>23, <1>24, <1>25, <1>26, <1>48 DEF CommandStrand
<1> QED
  BY <1>31, <1>45, <1>46, <1>47, <1>48 DEF Next

(***************************************************************************)
(* A file transfer that got its 150 and no completion is in hand: the end  *)
(* of the session cannot leave it behind.                                  *)
(***************************************************************************)
OwedInv(t) ==
  t <= Len(kind) /\ kind[t] \in FileKinds /\ Unanswered(t)
    => InHand(t) \/ session = "terminated"

LEMMA OwedStep ==
  ASSUME TypeOK, [Next]_vars, NEW t \in Transfers, AnswerInv(t), ListInv(t),
         OwedInv(t)
  PROVE  ListInv(t)' /\ OwedInv(t)'
<1>0. /\ kind \in Seq(Kinds) /\ Len(kind) \in 0 .. MaxTransfers
      /\ strand \in Seq(Handlers)
      /\ replies \in [Transfers -> Seq(Replies)]
      /\ t \in Nat /\ t # 0 /\ MaxTransfers \in Nat
  BY BoundsAssumption DEF TypeOK, Transfers
<1>1. /\ Len(kind) <= Len(kind')
      /\ t <= Len(kind) => kind'[t] = kind[t]
  <2>1. CASE kind' = kind
    BY <1>0, <2>1
  <2>2. CASE \E k \in Kinds : kind' = Append(kind, k)
    <3>1. PICK k \in Kinds : kind' = Append(kind, k)
      BY <2>2
    <3> QED
      BY <1>0, <3>1, AppendFacts
  <2> QED
    BY <2>1, <2>2, UnansweredStep
<1>2. ~(t <= Len(kind)) => ~Unanswered(t)
  <2>1. ~(t <= Len(kind)) => replies[t] = <<>>
    BY <1>0 DEF AnswerInv, ToCome
  <2> QED
    BY <2>1, ReplySequences DEF Unanswered, Replies
<1>3. ListInv(t)'
  <2>1. CASE Listed(t)
    BY <1>0, <1>1, <2>1 DEF ListInv
  <2>2. CASE ~Listed(t) /\ Listed(t)'
    <3>1. SendDirectoryListing /\ Head(strand).t = t
      BY <2>2, ListedStep
    <3>2. /\ strand # <<>> /\ kind' = kind /\ kind[t] = "LIST"
          /\ Head(strand).run = "accepted"
      BY <3>1 DEF SendDirectoryListing, Connected, First
    <3>3. Head(strand) \in Continuations(t)
      BY <1>0, <3>1, <3>2, RunHandlers DEF Continuations
    <3>4. Unanswered(t)
      BY <1>0, <3>2, <3>3, TailIn DEF AnswerInv, UnderWay
    <3> QED
      BY <1>2, <3>2, <3>4 DEF ListInv
  <2> QED
    BY <2>1, <2>2 DEF ListInv
<1>4. OwedInv(t)'
  <2>1. SUFFICES ASSUME (t <= Len(kind) /\ kind[t] \in FileKinds
                           /\ Unanswered(t))',
                        session' # "terminated"
                 PROVE  InHand(t)'
    BY DEF OwedInv
  <2>2. CASE AcceptDataConnection /\ t = Len(kind)
    BY <2>2, HandStep
  <2>3. CASE Unanswered(t)
    <3>1. InHand(t) /\ kind[t] \in FileKinds
      BY <1>1, <1>2, <2>1, <2>3, UnansweredStep DEF OwedInv
    <3>2. ~PasvTerminate
      BY <2>1, UnansweredStep
    <3>3. ~Answers(t)
      <4>1. \A c \in {"226", "425", "426"} :
              Append(<<"150">>, c) # <<"150">>
        BY ReplySequences, LastReply DEF Replies
      <4> QED
        BY <2>1, <2>3, <4>1 DEF Answers, Unanswered
    <3>4. ~MayLose(t)
      <4>1. SUFFICES ASSUME MayLose(t) PROVE FALSE
        OBVIOUS
      <4>2. strand # <<>> /\ Head(strand) \in ListHandlers(t)
        BY <1>0, <4>1, RunHandlers DEF MayLose, ListHandlers
      <4>3. kind[t] = "LIST"
        BY <1>0, <4>2, TailIn DEF ListInv, Listed
      <4> QED
        BY <3>1, <4>3 DEF FileKinds
    <3> QED
      BY <3>1, <3>2, <3>3, <3>4, HandStep
  <2> QED
    BY <2>1, <2>2, <2>3, UnansweredStep
<1> QED
  BY <1>3, <1>4

\* The invariant of the transfers: beside StrandInv, who answers for them.
TransferInv == StrandInv /\ \A t \in Transfers : ListInv(t) /\ OwedInv(t)

LEMMA TransferInit == Init => TransferInv
<1> SUFFICES ASSUME Init PROVE TransferInv
  OBVIOUS
<1>1. StrandInv
  BY StrandInit
<1>2. ASSUME NEW t \in Transfers PROVE ListInv(t) /\ OwedInv(t)
  BY <1>2, EmptyIn, BoundsAssumption
     DEF Init, ListInv, Listed, OwedInv, Transfers
<1> QED
  BY <1>1, <1>2 DEF TransferInv

LEMMA TransferStep == TransferInv /\ [Next]_vars => TransferInv'
<1> SUFFICES ASSUME TransferInv, [Next]_vars PROVE TransferInv'
  OBVIOUS
<1>1. StrandInv'
  BY StrandStep DEF TransferInv
<1>2. ASSUME NEW t \in Transfers PROVE ListInv(t)' /\ OwedInv(t)'
  BY <1>2, OwedStep DEF TransferInv, StrandInv
<1> QED
  BY <1>1, <1>2 DEF TransferInv

(***************************************************************************)
(* A file transfer is never dropped: who goes on with it is in the strand, *)
(* among the accepts or an operation, in every step until its completion   *)
(* reply.  That the accept ends in a handler, the handler in an operation  *)
(* and so on is HandStep; that only listings may lose theirs is ListInv.   *)
(***************************************************************************)
THEOREM NoTransferDropped == Spec => []FileTransferCarriedOn
<1>1. TransferInv => FileTransferCarriedOn
  <2> SUFFICES ASSUME TransferInv, session # "terminated",
                      NEW t \in 1 .. Len(kind),
                      kind[t] \in FileKinds, Unanswered(t)
               PROVE  \/ \E i \in DOMAIN accepting : accepting[i] = t
                      \/ \E i \in DOMAIN strand : strand[i].t = t
                      \/ io[t] # "none"
    BY DEF FileTransferCarriedOn
  <2>1. t \in Transfers /\ t <= Len(kind)
    BY BoundsAssumption DEF TransferInv, StrandInv, TypeOK, Transfers
  <2>2. InHand(t)
    BY <2>1 DEF TransferInv, OwedInv
  <2> QED
    BY <2>2 DEF InHand, NoneIn, Held
<1>2. Init => TransferInv
  BY TransferInit
<1>3. TransferInv /\ [Next]_vars => TransferInv'
  BY TransferStep
<1> QED
  BY <1>1, <1>2, <1>3, PTL DEF Spec

\* The steps that post a completion reply.
Completes ==
  \/ AcceptFailed \/ Rejected \/ SendEmptyFile \/ EndOfListing
  \/ EndDataReceiving
  \/ \E t \in Transfers : SendFileHandler(t)

\* Such a step answers one transfer that had its 150 and was in hand, and
\* changes this of no other.
LEMMA CompletionStep ==
  ASSUME StrandInv, Completes
  PROVE  \E u \in Transfers :
           /\ Unanswered(u) /\ InHand(u) /\ ~Unanswered(u)'
           /\ \A t \in Transfers \ {u} :
                /\ Unanswered(t)' <=> Unanswered(t)
                /\ InHand(t)' <=> InHand(t)
<1>0. /\ strand \in Seq(Handlers) /\ accepting \in Seq(Transfers)
      /\ io \in [Transfers -> Operations]
      /\ replies \in [Transfers -> Seq(Replies)]
      /\ \A t \in Transfers : t # 0 /\ AnswerInv(t)
  BY BoundsAssumption DEF StrandInv, TypeOK, Transfers
<1>1. ASSUME NEW u \in Transfers, NEW c \in {"226", "425", "426"}, Reply(u, c),
             Unanswered(u)
      PROVE  /\ ~Unanswered(u)'
             /\ \A t \in Transfers \ {u} : Unanswered(t)' <=> Unanswered(t)
  <2>1. replies' = [replies EXCEPT ![u] = Append(@, c)]
    BY <1>1 DEF Reply
  <2>2. replies'[u] # <<"150">>
    BY <1>0, <2>1, LastReply DEF Replies
  <2> QED
    BY <1>0, <2>1, <2>2 DEF Unanswered
<1>2. CASE \/ AcceptFailed \/ Rejected \/ SendEmptyFile \/ EndOfListing
           \/ EndDataReceiving
  <2> DEFINE rest == Tail(strand)
  <2>1. /\ strand # <<>>
        /\ Head(strand).run \in {"accepted", "write", "endrecv"}
        /\ io' = io
        /\ \E c \in {"226", "425", "426"} : Reply(Head(strand).t, c)
        /\ \/ strand' = rest /\ accepting' = accepting
           \/ strand' = rest \o AbortedAccepts /\ accepting' = <<>>
    BY <1>2
       DEF AcceptFailed, Rejected, SendEmptyFile, EndOfListing,
           EndDataReceiving, Connected, First, CloseDataAcceptor, acceptVars,
           Done
  <2>2. PICK u \in Transfers : u = Head(strand).t
    BY <1>0, <2>1, RunHandlers
  <2>3. rest \in Seq(Handlers) /\ Head(strand) \in Handlers
    BY <1>0, <2>1, RunHandlers
  <2>4. Head(strand) \in Continuations(u) /\ Head(strand) \in Held(u)
    BY <2>1, <2>3, <2>2 DEF Continuations, Held
  <2>5. Unanswered(u) /\ InHand(u)
    BY <1>0, <2>1, <2>3, <2>4, TailIn DEF AnswerInv, UnderWay, InHand
  <2>6. ASSUME NEW t \in Transfers \ {u} PROVE InHand(t)' <=> InHand(t)
    <3>1. NoneIn(rest, Held(t)) <=> NoneIn(strand, Held(t))
      BY <1>0, <2>1, <2>6, <2>2, TailIn DEF Held
    <3>2. NoneIn(rest \o AbortedAccepts, Held(t))
            <=> NoneIn(rest, Held(t)) /\ NoneIn(accepting, {t})
      BY <1>0, <2>3, <2>6, AbortedHeld, ConcatIn
    <3>3. NoneIn(<<>>, {t})
      BY EmptyIn
    <3>4. NoneIn(strand', Held(t)) /\ NoneIn(accepting', {t})
            <=> NoneIn(strand, Held(t)) /\ NoneIn(accepting, {t})
      BY <2>1, <3>1, <3>2, <3>3
    <3> QED
      BY <2>1, <3>4 DEF InHand, Held
  <2>7. /\ ~Unanswered(u)'
        /\ \A t \in Transfers \ {u} : Unanswered(t)' <=> Unanswered(t)
    BY <1>1, <2>1, <2>5, <2>2
  <2> QED
    BY <2>5, <2>6, <2>7
<1>3. ASSUME NEW u \in Transfers, SendFileHandler(u)
      PROVE  /\ Unanswered(u) /\ InHand(u) /\ ~Unanswered(u)'
             /\ \A t \in Transfers \ {u} :
                  /\ Unanswered(t)' <=> Unanswered(t)
                  /\ InHand(t)' <=> InHand(t)
  <2>1. /\ io[u] # "none" /\ io' = [io EXCEPT ![u] = "none"]
        /\ strand' = strand /\ accepting' = accepting
        /\ replies' = [replies EXCEPT ![u] = @ \o SendFileReplies(u)]
    BY <1>3 DEF SendFileHandler, Start, acceptVars
  <2>2. Unanswered(u) /\ InHand(u)
    BY <1>0, <2>1 DEF AnswerInv, UnderWay, InHand
  <2>3. PICK c \in {"226", "426"} : SendFileReplies(u) = <<c>>
    BY DEF SendFileReplies, Done
  <2>4. replies[u] \in Seq(Replies) /\ replies[u] \o <<c>> = Append(replies[u], c)
    BY <1>0
  <2>5. Reply(u, c)
    BY <2>1, <2>3, <2>4 DEF Reply
  <2>6. \A t \in Transfers \ {u} : io'[t] = io[t]
    BY <1>0, <2>1
  <2>7. \A t \in Transfers \ {u} : InHand(t)' <=> InHand(t)
    BY <2>1, <2>6 DEF InHand, Held
  <2>8. /\ ~Unanswered(u)'
        /\ \A t \in Transfers \ {u} : Unanswered(t)' <=> Unanswered(t)
    BY <1>1, <2>2, <2>5
  <2> QED
    BY <2>2, <2>7, <2>8
<1> QED
  BY <1>2, <1>3 DEF Completes

\* Of any other step than an accept, none takes a transfer in hand.
LEMMA OtherStep ==
  ASSUME TypeOK, [Next]_vars, ~AcceptDataConnection, NEW t \in Transfers
  PROVE  Unanswered(t)' /\ InHand(t)' => Unanswered(t) /\ InHand(t)
  BY UnansweredStep, HandStep
=============================================================================
