---------------------- MODULE ControlConnection_proofs ----------------------
(***************************************************************************)
(* Proofs about ControlConnection, for any number of commands.             *)
(*                                                                         *)
(* The invariant that carries them says, of the handlers in the strand:    *)
(* at most one continues the write, at most one continues the read, and    *)
(* the replies they have still to push are, in order, exactly those that   *)
(* were posted and have not reached the queue.                             *)
(***************************************************************************)
EXTENDS ControlConnection, HandlerQueues

-----------------------------------------------------------------------------
(***************************************************************************)
(* The handlers s left to run, and what they stand for.                    *)
(***************************************************************************)

\* Their pushes are those of the replies low + 1 .. high, in order.
Pushes(s, low, high) ==
  /\ low <= high
  /\ \A i \in DOMAIN s : s[i].run = "push" => s[i].n \in low + 1 .. high
  /\ \A i, j \in DOMAIN s :
       s[i].run = "push" /\ s[j].run = "push" /\ i < j => s[i].n < s[j].n
  /\ \A n \in low + 1 .. high :
       \E i \in DOMAIN s : s[i].run = "push" /\ s[i].n = n

\* Running another handler than a push leaves the pushes.
LEMMA TailPushes ==
  ASSUME NEW s \in Seq(Handlers), s # <<>>, NEW low \in Nat, NEW high \in Nat,
         Pushes(s, low, high), Head(s).run # "push"
  PROVE  Pushes(Tail(s), low, high)
<1>1. \A i \in DOMAIN Tail(s) : i + 1 \in DOMAIN s /\ Tail(s)[i] = s[i + 1]
  BY TailFacts
<1>2. ASSUME NEW n \in low + 1 .. high
      PROVE  \E i \in DOMAIN Tail(s) : Tail(s)[i].run = "push" /\ Tail(s)[i].n = n
  <2>1. PICK i \in DOMAIN s : s[i].run = "push" /\ s[i].n = n
    BY DEF Pushes
  <2>2. i # 1
    BY <2>1, TailFacts
  <2>3. i - 1 \in DOMAIN Tail(s) /\ Tail(s)[i - 1] = s[i]
    BY <2>2, TailFacts
  <2> QED
    BY <2>1, <2>3
<1>3. ASSUME NEW i \in DOMAIN Tail(s), NEW j \in DOMAIN Tail(s),
             Tail(s)[i].run = "push", Tail(s)[j].run = "push", i < j
      PROVE  Tail(s)[i].n < Tail(s)[j].n
  <2>1. i + 1 < j + 1
    BY <1>3, TailFacts
  <2> QED
    BY <1>1, <1>3, <2>1 DEF Pushes
<1> QED
  BY <1>1, <1>2, <1>3 DEF Pushes

\* The first handler, if it is a push, pushes the reply after low.
LEMMA HeadPush ==
  ASSUME NEW s \in Seq(Handlers), s # <<>>, NEW low \in Nat, NEW high \in Nat,
         Pushes(s, low, high), Head(s).run = "push"
  PROVE  /\ Head(s).n = low + 1
         /\ Pushes(Tail(s), low + 1, high)
<1>1. \A i \in DOMAIN Tail(s) : i + 1 \in DOMAIN s /\ Tail(s)[i] = s[i + 1]
  BY TailFacts
<1>2. /\ 1 \in DOMAIN s /\ s[1] = Head(s)
      /\ s[1].n \in low + 1 .. high
  BY TailFacts DEF Pushes
<1>3. low + 1 \in low + 1 .. high
  BY <1>2
<1>4. PICK k \in DOMAIN s : s[k].run = "push" /\ s[k].n = low + 1
  BY <1>3 DEF Pushes
<1>5. k = 1
  <2>1. SUFFICES ASSUME k # 1 PROVE FALSE
    OBVIOUS
  <2>2. 1 < k
    BY <2>1, TailFacts
  <2> QED
    BY <1>2, <1>4, <2>2 DEF Pushes
<1>6. Head(s).n = low + 1
  BY <1>2, <1>4, <1>5
<1>7. ASSUME NEW i \in DOMAIN Tail(s), Tail(s)[i].run = "push"
      PROVE  Tail(s)[i].n \in low + 2 .. high
  <2>1. 1 < i + 1 /\ i + 1 \in DOMAIN s
    BY <1>1, TailFacts
  <2>2. s[1].n < s[i + 1].n /\ s[i + 1].n \in low + 1 .. high
    BY <1>1, <1>2, <1>7, <2>1 DEF Pushes
  <2> QED
    BY <1>1, <1>2, <1>6, <2>2
<1>8. ASSUME NEW n \in low + 2 .. high
      PROVE  \E i \in DOMAIN Tail(s) : Tail(s)[i].run = "push" /\ Tail(s)[i].n = n
  <2>1. PICK i \in DOMAIN s : s[i].run = "push" /\ s[i].n = n
    BY DEF Pushes
  <2>2. i # 1
    BY <1>2, <1>6, <2>1
  <2>3. i - 1 \in DOMAIN Tail(s) /\ Tail(s)[i - 1] = s[i]
    BY <2>2, TailFacts
  <2> QED
    BY <2>1, <2>3
<1>9. ASSUME NEW i \in DOMAIN Tail(s), NEW j \in DOMAIN Tail(s),
             Tail(s)[i].run = "push", Tail(s)[j].run = "push", i < j
      PROVE  Tail(s)[i].n < Tail(s)[j].n
  <2>1. i + 1 < j + 1
    BY <1>9, TailFacts
  <2> QED
    BY <1>1, <1>9, <2>1 DEF Pushes
<1>10. (low + 1) + 1 = low + 2 /\ low + 1 <= high
  BY <1>2
<1> QED
  BY <1>6, <1>7, <1>8, <1>9, <1>10 DEF Pushes

\* Posting another handler than a push leaves the pushes; posting the push of
\* the reply after high adds it.
LEMMA AppendPushes ==
  ASSUME NEW s \in Seq(Handlers), NEW h \in Handlers,
         NEW low \in Nat, NEW high \in Nat, Pushes(s, low, high)
  PROVE  /\ h.run # "push" => Pushes(Append(s, h), low, high)
         /\ h.run = "push" /\ h.n = high + 1
              => Pushes(Append(s, h), low, high + 1)
<1> DEFINE a == Append(s, h)
<1>1. /\ DOMAIN s = 1 .. Len(s) /\ Len(s) \in Nat
      /\ DOMAIN a = 1 .. Len(s) + 1
      /\ \A i \in DOMAIN s : i \in DOMAIN a /\ a[i] = s[i]
      /\ a[Len(s) + 1] = h
      /\ Len(s) + 1 \in DOMAIN a
  BY AppendFacts
<1> HIDE DEF a
<1>2. ASSUME h.run # "push" PROVE Pushes(a, low, high)
  <2>1. \A i \in DOMAIN a : a[i].run = "push" => i \in DOMAIN s
    BY <1>1, <1>2
  <2>2. \A i \in DOMAIN a : a[i].run = "push" => a[i].n \in low + 1 .. high
    BY <1>1, <2>1 DEF Pushes
  <2>3. \A i, j \in DOMAIN a :
          a[i].run = "push" /\ a[j].run = "push" /\ i < j => a[i].n < a[j].n
    BY <1>1, <2>1 DEF Pushes
  <2>4. \A n \in low + 1 .. high :
          \E i \in DOMAIN a : a[i].run = "push" /\ a[i].n = n
    BY <1>1 DEF Pushes
  <2> QED
    BY <2>2, <2>3, <2>4 DEF Pushes
<1>3. ASSUME h.run = "push", h.n = high + 1 PROVE Pushes(a, low, high + 1)
  <2>1. \A i \in DOMAIN a : a[i].run = "push" => a[i].n \in low + 1 .. high + 1
    BY <1>1, <1>3 DEF Pushes
  <2>2. \A i, j \in DOMAIN a :
          a[i].run = "push" /\ a[j].run = "push" /\ i < j => a[i].n < a[j].n
    BY <1>1, <1>3 DEF Pushes
  <2>3. \A n \in low + 1 .. high + 1 :
          \E i \in DOMAIN a : a[i].run = "push" /\ a[i].n = n
    <3>1. TAKE n \in low + 1 .. high + 1
    <3>2. CASE n = high + 1
      BY <1>1, <1>3, <3>2
    <3>3. CASE n # high + 1
      <4>1. n \in low + 1 .. high
        BY <3>3
      <4> QED
        BY <1>1, <4>1 DEF Pushes
    <3> QED
      BY <3>2, <3>3
  <2> QED
    BY <2>1, <2>2, <2>3 DEF Pushes
<1> QED
  BY <1>2, <1>3 DEF a

-----------------------------------------------------------------------------
(***************************************************************************)
(* Type correctness, and the write of the replies: the queue is never      *)
(* empty when its front is used.                                           *)
(***************************************************************************)

Ends == {"written", "writeerror"}

WriteInv ==
  /\ AtMostOne(strand, Ends)
  /\ ~None(strand, Ends) => command_output_queue # <<>> /\ ~writing
  /\ writing => command_output_queue # <<>>

\* sendFtpMessage posts a handler, from whatever handlers are left.
LEMMA SendTypes ==
  ASSUME NEW s \in Seq(Handlers), NEW code \in Codes, posted \in Seq(Codes),
         SendFtpMessage(s, code)
  PROVE  /\ Handler("push", Len(posted) + 1) \in Handlers
         /\ strand' \in Seq(Handlers)
         /\ posted' \in Seq(Codes)
         /\ Len(posted) \in Nat
         /\ Len(posted') = Len(posted) + 1
<1>1. Len(posted) \in Nat
  OBVIOUS
<1>2. Handler("push", Len(posted) + 1) \in Handlers
  BY <1>1 DEF Handler, Handlers, Lambdas, ReadLambdas
<1> QED
  BY <1>1, <1>2, AppendFacts DEF SendFtpMessage

\* A handler that is posted is one, and leaves the strand a queue of handlers.
LEMMA PostTypes ==
  ASSUME NEW run \in Lambdas, strand \in Seq(Handlers)
  PROVE  /\ Handler(run, 0) \in Handlers
         /\ Handler(run, 0).run = run
         /\ Append(strand, Handler(run, 0)) \in Seq(Handlers)
<1>1. Handler(run, 0) \in Handlers /\ Handler(run, 0).run = run
  BY DEF Handler, Handlers
<1> QED
  BY <1>1, AppendFacts

\* The handler that runs has the number of a reply.
LEMMA PushedNumber ==
  ASSUME strand \in Seq(Handlers), First("push")
  PROVE  Head(strand).n \in Nat
<1>1. Head(strand) \in Handlers
  BY TailFacts DEF First
<1> QED
  BY <1>1 DEF Handlers

\* A step keeps the types: the front of the queue is used when there is one.
LEMMA TypeStep ==
  ASSUME TypeOK, WriteInv, [Next]_vars
  PROVE  TypeOK'
<1> USE DEF TypeOK
<1>1. \A run : First(run) => Tail(strand) \in Seq(Handlers)
  BY TailFacts DEF First
<1>2. CASE Greet
  BY <1>2, SendTypes DEF Greet, Codes, clientVars, writeVars
<1>3. ASSUME NEW c \in Commands, ClientSends(c) PROVE TypeOK'
  BY <1>3, MaxCommandsAssumption DEF ClientSends, writeVars
<1>4. CASE ClientCloses
  BY <1>4 DEF ClientCloses, writeVars
<1>5. CASE StartReading
  BY <1>5, <1>1 DEF StartReading, clientVars, writeVars
<1>6. CASE HandleCommand
  BY <1>6, <1>1, SendTypes
     DEF HandleCommand, WaitForNextCommand, Codes, clientVars, writeVars
<1>7. CASE HandleTransfer
  <2>1. transfers' \in Nat
    BY <1>7 DEF HandleTransfer
  <2> QED
    BY <1>7, <1>1, <2>1, SendTypes
       DEF HandleTransfer, WaitForNextCommand, Codes, clientVars, writeVars
<1>8. CASE HandleQuit
  BY <1>8, <1>1, SendTypes
     DEF HandleQuit, WaitForNextCommand, Codes, clientVars, writeVars
<1>9. CASE ReadErrorHandler
  BY <1>9, <1>1 DEF ReadErrorHandler, clientVars, writeVars
<1>10. CASE PushReply
  <2>1. Head(strand).n \in Nat
    BY <1>10, PushedNumber DEF PushReply
  <2>2. PushBack(Head(strand).n) \in Seq(Nat)
    BY <2>1, AppendFacts DEF PushBack
  <2> QED
    BY <1>10, <1>1, <2>2 DEF PushReply, NoWriteInProgress, clientVars
<1>11. CASE Written
  <2>1. command_output_queue # <<>>
    <3>1. strand # <<>> /\ strand[1].run \in Ends /\ 1 \in DOMAIN strand
      BY <1>11, TailFacts DEF Written, First, Ends
    <3> QED
      BY <3>1 DEF WriteInv, None
  <2>2. Tail(command_output_queue) \in Seq(Nat)
    BY <2>1, TailFacts
  <2>3. RepliesLeft \in BOOLEAN
    BY DEF RepliesLeft
  <2> QED
    BY <1>11, <1>1, <2>2, <2>3 DEF Written, clientVars
<1>12. CASE WriteError
  BY <1>12, <1>1 DEF WriteError, clientVars, writeVars
<1>13. CASE TransferReplies
  <2>1. transfers' \in Nat
    BY <1>13 DEF TransferReplies
  <2> QED
    BY <1>13, <2>1, SendTypes DEF TransferReplies, Codes, clientVars, writeVars
<1>14. CASE TransferDropped
  BY <1>14 DEF TransferDropped, clientVars, writeVars
<1>15. CASE ReadCompletes
  <2>1. Head(input) \in Lambdas /\ Tail(input) \in Seq(Commands)
    BY <1>15, TailFacts DEF ReadCompletes, Lambdas, ReadLambdas
  <2> QED
    BY <1>15, <2>1, PostTypes DEF ReadCompletes, writeVars
<1>16. CASE ReadFails
  <2>1. "readerror" \in Lambdas
    BY DEF Lambdas, ReadLambdas
  <2> QED
    BY <1>16, <2>1, PostTypes DEF ReadFails, clientVars, writeVars
<1>17. CASE WriteCompletes
  <2>1. Append(wire, Head(command_output_queue)) \in Seq(Nat)
    BY <1>17, TailFacts, AppendFacts DEF WriteCompletes, WriteInv
  <2>2. "written" \in Lambdas
    BY DEF Lambdas
  <2> QED
    BY <1>17, <2>1, <2>2, PostTypes DEF WriteCompletes, clientVars
<1>18. CASE WriteFails
  <2>1. "writeerror" \in Lambdas
    BY DEF Lambdas
  <2> QED
    BY <1>18, <2>1, PostTypes DEF WriteFails, clientVars
<1>19. CASE Destroy
  BY <1>19 DEF Destroy, clientVars, writeVars
<1>20. CASE UNCHANGED vars
  BY <1>20 DEF vars, clientVars, writeVars
<1> QED
  BY <1>2, <1>3, <1>4, <1>5, <1>6, <1>7, <1>8, <1>9, <1>10, <1>11, <1>12,
     <1>13, <1>14, <1>15, <1>16, <1>17, <1>18, <1>19, <1>20
     DEF Next, Client, CommandStrand, Transfer, Network

\* A step that runs or posts a handler which is not the end of a write, and
\* leaves the queue and the write alone, keeps the invariant of the write.
LEMMA WriteUntouched ==
  ASSUME TypeOK, WriteInv, UNCHANGED <<command_output_queue, writing>>,
         AtMostOne(strand', Ends), None(strand', Ends) <=> None(strand, Ends)
  PROVE  WriteInv'
  BY DEF WriteInv

\* A step keeps the invariant of the write.
LEMMA WriteStep ==
  ASSUME TypeOK, WriteInv, [Next]_vars
  PROVE  WriteInv'
<1> USE DEF TypeOK
<1>1. ASSUME NEW run, First(run), run \notin Ends
      PROVE  /\ Tail(strand) \in Seq(Handlers)
             /\ AtMostOne(Tail(strand), Ends)
             /\ None(Tail(strand), Ends) <=> None(strand, Ends)
  BY <1>1, TailFacts, TailAtMostOne DEF First, WriteInv
<1>2. ASSUME NEW s \in Seq(Handlers), AtMostOne(s, Ends),
             NEW code \in Codes, SendFtpMessage(s, code)
      PROVE  /\ AtMostOne(strand', Ends)
             /\ None(strand', Ends) <=> None(s, Ends)
  <2>1. Handler("push", Len(posted) + 1) \in Handlers
    BY <1>2, SendTypes
  <2>2. Handler("push", Len(posted) + 1).run \notin Ends
    BY DEF Handler, Ends
  <2> QED
    BY <1>2, <2>1, <2>2, AppendAtMostOne DEF SendFtpMessage
<1>3. ASSUME NEW run \in Lambdas \ Ends, strand' = Append(strand, Handler(run, 0))
      PROVE  /\ AtMostOne(strand', Ends)
             /\ None(strand', Ends) <=> None(strand, Ends)
  BY <1>3, PostTypes, AppendAtMostOne DEF WriteInv
<1>4. CASE Greet
  BY <1>4, <1>2, WriteUntouched DEF Greet, Codes, writeVars, WriteInv
<1>5. CASE Client \/ TransferDropped \/ Destroy \/ UNCHANGED vars
  BY <1>5, WriteUntouched
     DEF Client, ClientSends, ClientCloses, TransferDropped, Destroy, vars,
         writeVars, WriteInv
<1>6. CASE StartReading \/ ReadErrorHandler
  <2>1. First("start") \/ First("readerror")
    BY <1>6 DEF StartReading, ReadErrorHandler
  <2> QED
    BY <1>6, <1>1, <2>1, WriteUntouched
       DEF StartReading, ReadErrorHandler, writeVars, Ends
<1>7. CASE HandleCommand
  BY <1>7, <1>1, <1>2, WriteUntouched DEF HandleCommand, Codes, writeVars, Ends
<1>8. CASE HandleTransfer
  BY <1>8, <1>1, <1>2, WriteUntouched DEF HandleTransfer, Codes, writeVars, Ends
<1>9. CASE HandleQuit
  BY <1>9, <1>1, <1>2, WriteUntouched DEF HandleQuit, Codes, writeVars, Ends
<1>10. CASE TransferReplies
  BY <1>10, <1>2, WriteUntouched
     DEF TransferReplies, Codes, writeVars, WriteInv
<1>11. CASE PushReply
  <2>1. command_output_queue' # <<>>
    <3>1. command_output_queue' = Append(command_output_queue, Head(strand).n)
      BY <1>11 DEF PushReply, PushBack
    <3>2. Head(strand).n \in Nat
      BY <1>11, PushedNumber DEF PushReply
    <3> QED
      BY <3>1, <3>2, AppendFacts
  <2>2. /\ AtMostOne(strand', Ends)
        /\ None(strand', Ends) <=> None(strand, Ends)
    BY <1>11, <1>1 DEF PushReply, Ends
  <2>3. ~None(strand, Ends) => ~writing'
    BY <1>11 DEF PushReply, NoWriteInProgress, WriteInv
  <2> QED
    BY <2>1, <2>2, <2>3 DEF WriteInv
<1>12. CASE Written
  <2>1. AtMostOne(strand', Ends) /\ None(strand', Ends)
    BY <1>12, TailAtMostOne DEF Written, First, WriteInv, Ends
  <2>2. command_output_queue # <<>> /\ ~writing
    <3>1. strand # <<>> /\ strand[1].run \in Ends /\ 1 \in DOMAIN strand
      BY <1>12, TailFacts DEF Written, First, Ends
    <3> QED
      BY <3>1 DEF WriteInv, None
  <2>3. RepliesLeft => Tail(command_output_queue) # <<>>
    BY TailNotEmpty DEF RepliesLeft
  <2> QED
    BY <1>12, <2>1, <2>2, <2>3 DEF Written, WriteInv
<1>13. CASE WriteError
  <2>1. AtMostOne(strand', Ends) /\ None(strand', Ends)
    BY <1>13, TailAtMostOne DEF WriteError, First, WriteInv, Ends
  <2> QED
    BY <1>13, <2>1 DEF WriteError, WriteInv, writeVars
<1>14. CASE ReadCompletes
  <2>1. Head(input) \in Lambdas \ Ends
    BY <1>14, TailFacts
       DEF ReadCompletes, Commands, Lambdas, ReadLambdas, Ends
  <2> QED
    BY <1>14, <1>3, <2>1, WriteUntouched DEF ReadCompletes, writeVars
<1>15. CASE ReadFails
  <2>1. "readerror" \in Lambdas \ Ends
    BY DEF Lambdas, ReadLambdas, Ends
  <2> QED
    BY <1>15, <1>3, <2>1, WriteUntouched DEF ReadFails, writeVars
<1>16. CASE WriteCompletes \/ WriteFails
  <2>1. PICK run \in Ends : strand' = Append(strand, Handler(run, 0))
    BY <1>16 DEF WriteCompletes, WriteFails, Ends
  <2>2. None(strand, Ends) /\ command_output_queue # <<>>
    BY <1>16 DEF WriteCompletes, WriteFails, WriteInv
  <2>3. AtMostOne(strand', Ends)
    <3>1. run \in Lambdas
      BY <2>1 DEF Ends, Lambdas
    <3> QED
      BY <2>1, <2>2, <3>1, PostTypes, AppendAtMostOne DEF WriteInv
  <2> QED
    BY <1>16, <2>2, <2>3 DEF WriteCompletes, WriteFails, WriteInv
<1> QED
  BY <1>4, <1>5, <1>6, <1>7, <1>8, <1>9, <1>10, <1>11, <1>12, <1>13, <1>14,
     <1>15, <1>16 DEF Next, CommandStrand, Transfer, Network

LEMMA WriteInit == Init => TypeOK /\ WriteInv
<1> SUFFICES ASSUME Init PROVE TypeOK /\ WriteInv
  OBVIOUS
<1>1. TypeOK
  <2>1. Handler("start", 0) \in Handlers
    BY DEF Handler, Handlers, Lambdas
  <2>2. <<Handler("start", 0)>> \in Seq(Handlers)
    BY <2>1
  <2>3. /\ 0 \in 0 .. MaxCommands
        /\ <<>> \in Seq(Commands) /\ <<>> \in Seq(Nat) /\ <<>> \in Seq(Codes)
    BY MaxCommandsAssumption
  <2> QED
    BY <2>2, <2>3 DEF Init, TypeOK
<1>2. WriteInv
  BY DEF Init, WriteInv, AtMostOne, None, Ends, Handler
<1> QED
  BY <1>1, <1>2

LEMMA WriteInvariant == Spec => [](TypeOK /\ WriteInv)
  BY WriteInit, TypeStep, WriteStep, PTL DEF Spec

(***************************************************************************)
(* The variables keep the values they are declared with; in particular     *)
(* only the number of a posted reply is ever sent to the client.           *)
(***************************************************************************)
THEOREM TypeCorrect == Spec => []TypeOK
  BY WriteInvariant, PTL

(***************************************************************************)
(* front() and pop_front() always find an element, and one write is under  *)
(* way at a time.                                                          *)
(***************************************************************************)
THEOREM OneWriteAtATime == Spec => []OneWrite
<1>1. TypeOK /\ WriteInv => OneWrite
  BY DEF WriteInv, OneWrite, WriteDone, Ends, AtMostOne, None
<1> QED
  BY <1>1, WriteInvariant, PTL

-----------------------------------------------------------------------------
(***************************************************************************)
(* The order of the replies.  Popped is the number of replies that left    *)
(* the queue: one that was written is popped by the handler of its write.  *)
(***************************************************************************)
\* The elements of q are base + 1, base + 2, ...
Numbered(q, base) == \A k \in DOMAIN q : q[k] = base + k

\* The next number can be appended.
LEMMA NumberedAppend ==
  ASSUME NEW q \in Seq(Nat), NEW base \in Nat, Numbered(q, base)
  PROVE  Numbered(Append(q, base + Len(q) + 1), base)
<1> DEFINE a == Append(q, base + Len(q) + 1)
<1>1. Len(q) \in Nat /\ base + Len(q) + 1 \in Nat
  OBVIOUS
<1>2. /\ DOMAIN q = 1 .. Len(q)
      /\ DOMAIN a = 1 .. Len(q) + 1
      /\ \A i \in 1 .. Len(q) : a[i] = q[i]
      /\ a[Len(q) + 1] = base + Len(q) + 1
  BY <1>1, AppendFacts
<1> HIDE DEF a
<1>3. ASSUME NEW k \in DOMAIN a PROVE a[k] = base + k
  <2>1. CASE k = Len(q) + 1
    BY <1>1, <1>2, <2>1
  <2>2. CASE k # Len(q) + 1
    BY <1>1, <1>2, <2>2 DEF Numbered
  <2> QED
    BY <2>1, <2>2
<1>4. \A k \in DOMAIN a : a[k] = base + k
  BY <1>3
<1> QED
  BY <1>4 DEF Numbered, a

\* The first number is base + 1, and the rest goes on from there.
LEMMA NumberedTail ==
  ASSUME NEW q \in Seq(Nat), q # <<>>, NEW base \in Nat, Numbered(q, base)
  PROVE  /\ Head(q) = base + 1
         /\ Numbered(Tail(q), base + 1)
<1> DEFINE t == Tail(q)
<1>1. /\ Len(q) \in Nat \ {0}
      /\ Head(q) = q[1]
      /\ DOMAIN q = 1 .. Len(q)
      /\ DOMAIN t = 1 .. Len(q) - 1
      /\ \A i \in 1 .. Len(q) - 1 : t[i] = q[i + 1]
  BY TailFacts
<1> HIDE DEF t
<1>2. ASSUME NEW k \in DOMAIN t PROVE t[k] = base + 1 + k
  <2>1. k \in Nat /\ k + 1 \in DOMAIN q /\ t[k] = q[k + 1]
    BY <1>1
  <2>2. q[k + 1] = base + (k + 1)
    BY <2>1 DEF Numbered
  <2> QED
    BY <2>1, <2>2
<1>3. Head(q) = base + 1
  <2>1. 1 \in DOMAIN q /\ Head(q) = q[1]
    BY <1>1
  <2>2. q[1] = base + 1
    BY <2>1, Zenon DEF Numbered
  <2> QED
    BY <2>1, <2>2
<1> QED
  BY <1>2, <1>3 DEF Numbered, t

Popped == IF None(strand, {"written"}) THEN Len(wire) ELSE Len(wire) - 1
Queued == Popped + Len(command_output_queue)

OrderInv ==
  /\ Popped \in Nat
  /\ Numbered(wire, 0)
  /\ Numbered(command_output_queue, Popped)
  /\ Pushes(strand, Queued, Len(posted))

\* A step that does not touch the queue, what was sent or the end of a write
\* has to care for the pushes only.
LEMMA OrderUntouched ==
  ASSUME OrderInv, UNCHANGED <<command_output_queue, wire>>,
         None(strand', {"written"}) <=> None(strand, {"written"}),
         Pushes(strand', Queued, Len(posted'))
  PROVE  OrderInv'
<1>1. Popped' = Popped /\ Queued' = Queued
  BY DEF Popped, Queued
<1> QED
  BY <1>1 DEF OrderInv

\* A step keeps the order.
LEMMA OrderStep ==
  ASSUME TypeOK, WriteInv, OrderInv, [Next]_vars
  PROVE  OrderInv'
<1>0. /\ strand \in Seq(Handlers)
      /\ command_output_queue \in Seq(Nat)
      /\ wire \in Seq(Nat)
      /\ input \in Seq(Commands)
      /\ posted \in Seq(Codes)
  BY DEF TypeOK
<1>1. /\ strand \in Seq(Handlers)
      /\ command_output_queue \in Seq(Nat)
      /\ wire \in Seq(Nat)
      /\ AtMostOne(strand, {"written"})
      /\ Len(wire) \in Nat /\ Len(command_output_queue) \in Nat
      /\ Len(posted) \in Nat
      /\ Popped \in Nat /\ Queued \in Nat
      /\ Pushes(strand, Queued, Len(posted))
  BY <1>0 DEF WriteInv, AtMostOne, Ends, OrderInv, Queued
<1>2. ASSUME NEW run, First(run), run \notin {"written", "push"}
      PROVE  /\ Tail(strand) \in Seq(Handlers)
             /\ AtMostOne(Tail(strand), {"written"})
             /\ None(Tail(strand), {"written"}) <=> None(strand, {"written"})
             /\ Pushes(Tail(strand), Queued, Len(posted))
  BY <1>1, <1>2, TailFacts, TailAtMostOne, TailPushes DEF First
<1>3. ASSUME NEW s \in Seq(Handlers), AtMostOne(s, {"written"}),
             Pushes(s, Queued, Len(posted)),
             NEW code \in Codes, SendFtpMessage(s, code)
      PROVE  /\ None(strand', {"written"}) <=> None(s, {"written"})
             /\ Pushes(strand', Queued, Len(posted'))
  <2> DEFINE h == Handler("push", Len(posted) + 1)
  <2>1. h \in Handlers /\ Len(posted') = Len(posted) + 1
    BY <1>0, <1>3, SendTypes
  <2>2. h.run = "push" /\ h.n = Len(posted) + 1
    BY DEF Handler
  <2>3. strand' = Append(s, h)
    BY <1>3 DEF SendFtpMessage
  <2> HIDE DEF h
  <2> QED
    BY <1>1, <1>3, <2>1, <2>2, <2>3, AppendAtMostOne, AppendPushes
<1>4. ASSUME NEW run \in Lambdas \ {"push"},
             strand' = Append(strand, Handler(run, 0))
      PROVE  /\ run # "written" =>
                  (None(strand', {"written"}) <=> None(strand, {"written"}))
             /\ run = "written" => ~None(strand', {"written"})
             /\ Pushes(strand', Queued, Len(posted))
  BY <1>1, <1>4, PostTypes, AppendAtMostOne, AppendPushes
<1>5. CASE Greet
  BY <1>5, <1>1, <1>3, OrderUntouched DEF Greet, Codes, writeVars
<1>6. CASE Client \/ TransferDropped \/ Destroy \/ UNCHANGED vars
  <2>1. UNCHANGED <<command_output_queue, wire, strand, posted>>
    BY <1>6 DEF Client, ClientSends, ClientCloses, TransferDropped, Destroy,
                vars, writeVars
  <2> QED
    BY <1>1, <2>1, OrderUntouched
<1>7. CASE StartReading \/ ReadErrorHandler \/ WriteError
  <2>1. /\ First("start") \/ First("readerror") \/ First("writeerror")
        /\ strand' = Tail(strand)
        /\ UNCHANGED <<command_output_queue, wire, posted>>
    BY <1>7 DEF StartReading, ReadErrorHandler, WriteError, writeVars
  <2> QED
    BY <1>2, <2>1, OrderUntouched
<1>8. CASE HandleCommand
  BY <1>8, <1>2, <1>3, OrderUntouched DEF HandleCommand, Codes, writeVars
<1>9. CASE HandleTransfer
  BY <1>9, <1>2, <1>3, OrderUntouched DEF HandleTransfer, Codes, writeVars
<1>10. CASE HandleQuit
  BY <1>10, <1>2, <1>3, OrderUntouched DEF HandleQuit, Codes, writeVars
<1>11. CASE TransferReplies
  BY <1>11, <1>1, <1>3, OrderUntouched DEF TransferReplies, Codes, writeVars
<1>12. CASE PushReply
  <2>1. /\ strand # <<>> /\ Head(strand).run = "push"
        /\ strand' = Tail(strand)
        /\ command_output_queue' = Append(command_output_queue, Head(strand).n)
        /\ UNCHANGED <<wire, posted>>
    BY <1>12 DEF PushReply, PushBack, First
  <2>2. /\ Head(strand).n = Queued + 1
        /\ Pushes(strand', Queued + 1, Len(posted'))
    BY <1>1, <2>1, HeadPush
  <2>3. None(strand', {"written"}) <=> None(strand, {"written"})
    BY <1>1, <2>1, TailAtMostOne
  <2>4. /\ Len(command_output_queue') = Len(command_output_queue) + 1
        /\ Numbered(command_output_queue', Popped)
    <3>1. Queued + 1 \in Nat /\ Queued + 1 = Popped + Len(command_output_queue) + 1
      BY <1>1 DEF Queued
    <3> QED
      BY <1>1, <2>1, <2>2, <3>1, AppendFacts, NumberedAppend DEF OrderInv
  <2>5. Popped' = Popped /\ Queued' = Queued + 1
    <3>1. Popped' = Popped
      BY <2>1, <2>3 DEF Popped
    <3> QED
      BY <1>1, <2>4, <3>1 DEF Queued
  <2> QED
    BY <1>1, <2>1, <2>2, <2>4, <2>5 DEF OrderInv
<1>13. CASE Written
  <2>1. /\ strand # <<>> /\ Head(strand).run = "written"
        /\ strand' = Tail(strand)
        /\ command_output_queue' = Tail(command_output_queue)
        /\ UNCHANGED <<wire, posted>>
    BY <1>13 DEF Written, First
  <2>2. ~None(strand, {"written"}) /\ None(strand', {"written"})
    <3>1. 1 \in DOMAIN strand /\ strand[1].run = "written"
      BY <2>1, TailFacts
    <3> QED
      BY <1>1, <2>1, <3>1, TailAtMostOne DEF None
  <2>3. command_output_queue # <<>>
    BY <2>2 DEF WriteInv, None, Ends
  <2>4. /\ Len(command_output_queue') = Len(command_output_queue) - 1
        /\ Numbered(command_output_queue', Popped + 1)
    BY <1>1, <2>1, <2>3, TailFacts, NumberedTail DEF OrderInv
  <2>5. Popped' = Popped + 1
    <3>1. Popped = Len(wire) - 1 /\ Popped' = Len(wire)
      BY <2>1, <2>2 DEF Popped
    <3> QED
      BY <1>1, <3>1
  <2>6. Queued' = Queued
    BY <1>1, <2>4, <2>5 DEF Queued
  <2>7. Pushes(strand', Queued, Len(posted))
    BY <1>1, <2>1, TailPushes
  <2> QED
    BY <1>1, <2>1, <2>4, <2>5, <2>6, <2>7 DEF OrderInv
<1>14. CASE ReadCompletes
  <2>1. Head(input) \in Lambdas \ {"push", "written"}
    BY <1>0, <1>14, TailFacts
       DEF ReadCompletes, Commands, Lambdas, ReadLambdas
  <2> QED
    BY <1>14, <1>4, <2>1, OrderUntouched DEF ReadCompletes, writeVars
<1>15. CASE ReadFails
  <2>1. "readerror" \in Lambdas \ {"push", "written"}
    BY DEF Lambdas, ReadLambdas
  <2> QED
    BY <1>15, <1>4, <2>1, OrderUntouched DEF ReadFails, writeVars
<1>16. CASE WriteCompletes
  <2>1. /\ strand' = Append(strand, Handler("written", 0))
        /\ wire' = Append(wire, Head(command_output_queue))
        /\ UNCHANGED <<command_output_queue, posted>>
        /\ None(strand, {"written"})
        /\ command_output_queue # <<>>
    BY <1>16 DEF WriteCompletes, WriteInv, None, Ends
  <2>2. "written" \in Lambdas \ {"push"}
    BY DEF Lambdas
  <2>3. ~None(strand', {"written"}) /\ Pushes(strand', Queued, Len(posted'))
    BY <1>4, <2>1, <2>2
  <2>4. Popped = Len(wire)
    BY <2>1 DEF Popped
  <2>5. Head(command_output_queue) = Len(wire) + 1
    BY <1>1, <2>1, <2>4, NumberedTail DEF OrderInv
  <2>6. /\ Len(wire') = Len(wire) + 1
        /\ Numbered(wire', 0)
    <3>1. Len(wire) + 1 \in Nat /\ Len(wire) + 1 = 0 + Len(wire) + 1
      BY <1>1
    <3> QED
      BY <1>1, <2>1, <2>5, <3>1, AppendFacts, NumberedAppend DEF OrderInv
  <2>7. Popped' = Popped /\ Queued' = Queued
    BY <1>1, <2>1, <2>3, <2>4, <2>6 DEF Popped, Queued
  <2> QED
    BY <2>1, <2>3, <2>6, <2>7 DEF OrderInv
<1>17. CASE WriteFails
  <2>1. "writeerror" \in Lambdas \ {"push", "written"}
    BY DEF Lambdas
  <2> QED
    BY <1>17, <1>4, <2>1, OrderUntouched DEF WriteFails
<1> QED
  BY <1>5, <1>6, <1>7, <1>8, <1>9, <1>10, <1>11, <1>12, <1>13, <1>14, <1>15,
     <1>16, <1>17 DEF Next, CommandStrand, Transfer, Network

LEMMA OrderInit == Init => OrderInv
<1> SUFFICES ASSUME Init PROVE OrderInv
  OBVIOUS
<1>1. /\ strand = <<Handler("start", 0)>> /\ posted = <<>>
      /\ wire = <<>> /\ command_output_queue = <<>>
  BY DEF Init
<1>2. None(strand, {"written"})
  BY <1>1 DEF None, Handler
<1>3. Popped \in Nat /\ Popped = 0 /\ Queued = 0 /\ Len(posted) = 0
  BY <1>1, <1>2 DEF Popped, Queued
<1>4. Pushes(strand, 0, 0)
  BY <1>1 DEF Pushes, Handler
<1>5. Numbered(wire, 0) /\ Numbered(command_output_queue, 0)
  BY <1>1 DEF Numbered
<1> QED
  BY <1>3, <1>4, <1>5 DEF OrderInv

LEMMA OrderInvariant == Spec => [](TypeOK /\ WriteInv /\ OrderInv)
  BY WriteInit, TypeStep, WriteStep, OrderInit, OrderStep, PTL DEF Spec

LEMMA OrderImplies == TypeOK /\ WriteInv /\ OrderInv => RepliesInOrder
<1> SUFFICES ASSUME TypeOK, WriteInv, OrderInv PROVE RepliesInOrder
  OBVIOUS
<1>1. /\ Len(wire) \in Nat /\ Len(command_output_queue) \in Nat
      /\ Len(posted) \in Nat
  BY DEF TypeOK
<1>2. Popped + Len(command_output_queue) <= Len(posted)
  BY DEF OrderInv, Pushes, Queued
<1>3. None(strand, {"written"}) \/ Len(command_output_queue) # 0
  BY DEF WriteInv, None, Ends, TypeOK
<1>4. Len(wire) <= Len(posted)
  BY <1>1, <1>2, <1>3 DEF Popped
<1>5. ASSUME NEW i \in DOMAIN wire PROVE wire[i] = i
  <2>1. wire[i] = 0 + i
    BY DEF OrderInv, Numbered
  <2>2. i \in Nat
    BY DEF TypeOK
  <2> QED
    BY <2>1, <2>2
<1> QED
  BY <1>4, <1>5 DEF RepliesInOrder

(***************************************************************************)
(* The client gets the replies in the order they were posted, whichever    *)
(* strand posted them: none twice, none left out.                          *)
(***************************************************************************)
THEOREM InOrder == Spec => []RepliesInOrder
  BY OrderInvariant, OrderImplies, PTL

-----------------------------------------------------------------------------
(***************************************************************************)
(* The reading of commands.                                                *)
(***************************************************************************)
Reads == ReadLambdas \cup {"start"}

ReadInv ==
  /\ AtMostOne(strand, Reads)
  /\ ~None(strand, Reads) => ~reading /\ ~shutdown_requested
  /\ shutdown_requested => ~reading

\* A step keeps the invariant of the read.
LEMMA ReadStep ==
  ASSUME TypeOK, ReadInv, [Next]_vars
  PROVE  ReadInv'
<1>0. /\ strand \in Seq(Handlers)
      /\ input \in Seq(Commands)
      /\ posted \in Seq(Codes)
      /\ AtMostOne(strand, Reads)
  BY DEF TypeOK, ReadInv
<1>1. ASSUME NEW run, First(run)
      PROVE  /\ Tail(strand) \in Seq(Handlers)
             /\ AtMostOne(Tail(strand), Reads)
             /\ run \notin Reads => (None(Tail(strand), Reads) <=> None(strand, Reads))
             /\ run \in Reads => None(Tail(strand), Reads) /\ ~None(strand, Reads)
  <2>1. strand # <<>> /\ Head(strand).run = run
    BY <1>1 DEF First
  <2>2. 1 \in DOMAIN strand /\ strand[1].run = run
    BY <1>0, <2>1, TailFacts
  <2> QED
    BY <1>0, <2>1, <2>2, TailFacts, TailAtMostOne DEF None
<1>2. ASSUME NEW s \in Seq(Handlers), AtMostOne(s, Reads),
             NEW code \in Codes, SendFtpMessage(s, code)
      PROVE  /\ AtMostOne(strand', Reads)
             /\ None(strand', Reads) <=> None(s, Reads)
  <2>1. Handler("push", Len(posted) + 1) \in Handlers
    BY <1>0, <1>2, SendTypes
  <2>2. Handler("push", Len(posted) + 1).run \notin Reads
    BY DEF Handler, Reads, ReadLambdas, Commands
  <2> QED
    BY <1>2, <2>1, <2>2, AppendAtMostOne DEF SendFtpMessage
<1>3. ASSUME NEW run \in Lambdas, strand' = Append(strand, Handler(run, 0))
      PROVE  /\ run \notin Reads =>
                  AtMostOne(strand', Reads) /\ (None(strand', Reads) <=> None(strand, Reads))
             /\ None(strand, Reads) => AtMostOne(strand', Reads)
  BY <1>0, <1>3, PostTypes, AppendAtMostOne
<1>4. CASE Greet
  BY <1>4, <1>0, <1>2 DEF Greet, Codes, ReadInv
<1>5. CASE Client \/ TransferDropped \/ Destroy \/ UNCHANGED vars
  <2>1. UNCHANGED <<strand, reading, shutdown_requested>>
    BY <1>5 DEF Client, ClientSends, ClientCloses, TransferDropped, Destroy, vars
  <2> QED
    BY <2>1 DEF ReadInv
<1>6. CASE StartReading
  <2>1. First("start") /\ "start" \in Reads
    BY <1>6 DEF StartReading, Reads
  <2> QED
    BY <1>6, <1>1, <2>1 DEF StartReading, ReadInv
<1>7. CASE HandleCommand \/ HandleTransfer \/ HandleQuit
  <2>1. PICK run \in Commands, code \in Codes :
          First(run) /\ SendFtpMessage(Tail(strand), code)
    BY <1>7 DEF HandleCommand, HandleTransfer, HandleQuit, Commands, Codes
  <2>2. run \in Reads
    BY DEF Reads, ReadLambdas
  <2>3. /\ Tail(strand) \in Seq(Handlers)
        /\ AtMostOne(Tail(strand), Reads)
        /\ None(Tail(strand), Reads)
    BY <1>1, <2>1, <2>2
  <2>4. AtMostOne(strand', Reads) /\ None(strand', Reads)
    BY <1>2, <2>1, <2>3
  <2>5. shutdown_requested' => ~reading'
    BY <1>7 DEF HandleCommand, HandleTransfer, HandleQuit, WaitForNextCommand
  <2> QED
    BY <2>4, <2>5 DEF ReadInv
<1>8. CASE ReadErrorHandler
  <2>1. First("readerror") /\ "readerror" \in Reads
    BY <1>8 DEF ReadErrorHandler, Reads, ReadLambdas
  <2> QED
    BY <1>8, <1>1, <2>1 DEF ReadErrorHandler, ReadInv
<1>9. CASE PushReply \/ Written \/ WriteError
  <2>1. PICK run \in {"push", "written", "writeerror"} : First(run)
    BY <1>9 DEF PushReply, Written, WriteError
  <2>2. run \notin Reads
    BY DEF Reads, ReadLambdas, Commands
  <2>3. strand' = Tail(strand) /\ UNCHANGED <<reading, shutdown_requested>>
    BY <1>9 DEF PushReply, Written, WriteError
  <2>4. /\ AtMostOne(strand', Reads)
        /\ None(strand', Reads) <=> None(strand, Reads)
    BY <1>1, <2>1, <2>2, <2>3
  <2> QED
    BY <2>3, <2>4 DEF ReadInv
<1>10. CASE TransferReplies
  BY <1>10, <1>0, <1>2 DEF TransferReplies, Codes, ReadInv
<1>11. CASE ReadCompletes \/ ReadFails
  <2>1. PICK run \in Lambdas : strand' = Append(strand, Handler(run, 0))
    <3>1. CASE ReadCompletes
      <4>1. Head(input) \in Lambdas
        BY <1>0, <3>1, TailFacts DEF ReadCompletes, Lambdas, ReadLambdas
      <4> QED
        BY <3>1, <4>1 DEF ReadCompletes
    <3>2. CASE ReadFails
      BY <3>2 DEF ReadFails, Lambdas, ReadLambdas
    <3> QED
      BY <1>11, <3>1, <3>2
  <2>2. /\ reading /\ ~reading' /\ UNCHANGED shutdown_requested
        /\ None(strand, Reads) /\ ~shutdown_requested
    BY <1>11 DEF ReadCompletes, ReadFails, ReadInv
  <2>3. AtMostOne(strand', Reads)
    BY <1>3, <2>1, <2>2
  <2> QED
    BY <2>2, <2>3 DEF ReadInv
<1>12. CASE WriteCompletes \/ WriteFails
  <2>1. PICK run \in {"written", "writeerror"} :
          strand' = Append(strand, Handler(run, 0))
    BY <1>12 DEF WriteCompletes, WriteFails
  <2>2. run \in Lambdas /\ run \notin Reads
    BY DEF Lambdas, Reads, ReadLambdas, Commands
  <2> QED
    BY <1>12, <1>3, <2>1, <2>2 DEF WriteCompletes, WriteFails, ReadInv
<1> QED
  BY <1>4, <1>5, <1>6, <1>7, <1>8, <1>9, <1>10, <1>11, <1>12
     DEF Next, CommandStrand, Transfer, Network

(***************************************************************************)
(* One read at a time, and none after QUIT.                                *)
(***************************************************************************)
THEOREM OneReadAtATime == Spec => []OneRead
<1>1. Init => ReadInv
  <2> SUFFICES ASSUME Init PROVE ReadInv
    OBVIOUS
  <2>1. strand = <<Handler("start", 0)>> /\ ~reading /\ ~shutdown_requested
    BY DEF Init
  <2>2. AtMostOne(strand, Reads)
    BY <2>1 DEF AtMostOne
  <2> QED
    BY <2>1, <2>2 DEF ReadInv
<1>2. TypeOK /\ ReadInv /\ [Next]_vars => ReadInv'
  BY ReadStep
<1>3. ReadInv => OneRead
  BY DEF ReadInv, OneRead, ReadPosted, Reads, AtMostOne, None
<1> QED
  BY <1>1, <1>2, <1>3, TypeCorrect, PTL DEF Spec

-----------------------------------------------------------------------------
(***************************************************************************)
(* No step of the two loops is lost.                                       *)
(***************************************************************************)
BothOpen == client = "open" /\ socket = "open"

WriteGoesOn == command_output_queue # <<>> => writing \/ ~None(strand, {"written"})
QuitGoesOn  == shutdown_requested
                 => command_output_queue # <<>> \/ ~None(strand, {"push"})
ReadGoesOn  == ~shutdown_requested
                 => reading \/ ~None(strand, Commands \cup {"start"})

GoesOnInv == BothOpen => WriteGoesOn /\ QuitGoesOn /\ ReadGoesOn

\* Running the first handler, posting one, and posting a reply.
LEMMA RunsFirst ==
  ASSUME TypeOK, NEW run, First(run), NEW runs, run \notin runs
  PROVE  None(Tail(strand), runs) <=> None(strand, runs)
  BY TailNone DEF TypeOK, First

LEMMA PostsOne ==
  ASSUME TypeOK, NEW run \in Lambdas, strand' = Append(strand, Handler(run, 0)),
         NEW runs
  PROVE  None(strand', runs) <=> None(strand, runs) /\ run \notin runs
  BY PostTypes, AppendNone DEF TypeOK

LEMMA PostsReply ==
  ASSUME TypeOK, NEW s \in Seq(Handlers), NEW code \in Codes,
         SendFtpMessage(s, code)
  PROVE  /\ ~None(strand', {"push"})
         /\ \A runs : "push" \notin runs => (None(strand', runs) <=> None(s, runs))
<1>1. /\ Handler("push", Len(posted) + 1) \in Handlers
      /\ Handler("push", Len(posted) + 1).run = "push"
  BY SendTypes DEF TypeOK, Handler
<1>2. \A runs : None(strand', runs) <=> None(s, runs) /\ "push" \notin runs
  BY <1>1, AppendNone DEF SendFtpMessage
<1> QED
  BY <1>2

\* What a step leaves of who goes on when it only posts a reply.
LEMMA ReplyGoesOn ==
  ASSUME TypeOK, GoesOnInv, NEW code \in Codes,
         SendFtpMessage(strand, code),
         UNCHANGED <<client, socket, writing, command_output_queue,
                     shutdown_requested, reading>>
  PROVE  GoesOnInv'
<1>1. strand \in Seq(Handlers)
  BY DEF TypeOK
<1>2. "push" \notin {"written"} /\ "push" \notin Commands \cup {"start"}
  BY DEF Commands
<1> QED
  BY <1>1, <1>2, PostsReply
     DEF GoesOnInv, BothOpen, WriteGoesOn, QuitGoesOn, ReadGoesOn

LEMMA GoesOnStep ==
  ASSUME TypeOK, WriteInv, GoesOnInv, [Next]_vars
  PROVE  GoesOnInv'
<1> USE DEF BothOpen, WriteGoesOn, QuitGoesOn, ReadGoesOn
<1>0. /\ strand \in Seq(Handlers) /\ input \in Seq(Commands)
      /\ command_output_queue \in Seq(Nat)
      /\ shutdown_requested \in BOOLEAN
  BY DEF TypeOK
<1>1. /\ \A c \in {"220", "200", "150", "226", "221"} : c \in Codes
      /\ \A run : run \in Commands \cup {"start"} =>
                    run \notin {"written"} /\ run \notin {"push"}
      /\ \A run \in {"push", "written", "writeerror", "readerror"} :
           run \notin Commands \cup {"start"}
      /\ \A run \in Commands \cup {"start", "push", "written", "writeerror",
                                   "readerror"} : run \in Lambdas
  BY DEF Codes, Commands, Lambdas, ReadLambdas
<1>2. CASE Greet
  BY <1>1, <1>2, ReplyGoesOn DEF Greet, clientVars, writeVars
<1>3. CASE TransferReplies
  BY <1>1, <1>3, ReplyGoesOn DEF TransferReplies, clientVars, writeVars
<1>4. CASE Client \/ TransferDropped \/ Destroy \/ UNCHANGED vars
  <2>1. /\ UNCHANGED <<strand, command_output_queue, writing, reading,
                       shutdown_requested>>
        /\ BothOpen' => BothOpen
    BY <1>4 DEF Client, ClientSends, ClientCloses, TransferDropped, Destroy,
                vars, clientVars, writeVars
  <2> QED
    BY <2>1 DEF GoesOnInv
<1>5. CASE StartReading
  <2>1. /\ First("start") /\ strand' = Tail(strand) /\ reading'
        /\ UNCHANGED <<client, socket, command_output_queue, writing,
                       shutdown_requested>>
    BY <1>5 DEF StartReading, clientVars, writeVars
  <2> QED
    BY <1>1, <2>1, RunsFirst DEF GoesOnInv
<1>6. CASE HandleCommand \/ HandleTransfer \/ HandleQuit
  <2>1. PICK run \in Commands, code \in Codes :
          /\ First(run) /\ SendFtpMessage(Tail(strand), code)
          /\ reading' = ~shutdown_requested'
          /\ UNCHANGED <<client, socket, command_output_queue, writing>>
    BY <1>1, <1>6
       DEF HandleCommand, HandleTransfer, HandleQuit, WaitForNextCommand,
           Commands, clientVars, writeVars
  <2>2. Tail(strand) \in Seq(Handlers)
    BY <1>0, <2>1, TailFacts DEF First
  <2>3. /\ ~None(strand', {"push"})
        /\ None(strand', {"written"}) <=> None(Tail(strand), {"written"})
    BY <2>1, <2>2, PostsReply
  <2>4. None(Tail(strand), {"written"}) <=> None(strand, {"written"})
    BY <1>1, <2>1, RunsFirst
  <2> QED
    BY <2>1, <2>3, <2>4 DEF GoesOnInv
<1>7. CASE ReadErrorHandler \/ WriteError
  <2>1. PICK run \in {"readerror", "writeerror"} :
          /\ First(run) /\ strand' = Tail(strand)
          /\ UNCHANGED <<client, socket, command_output_queue, writing, reading,
                         shutdown_requested>>
    BY <1>7 DEF ReadErrorHandler, WriteError, clientVars, writeVars
  <2>2. run \notin {"written"} /\ run \notin {"push"}
    OBVIOUS
  <2> QED
    BY <1>1, <2>1, <2>2, RunsFirst DEF GoesOnInv
<1>8. CASE PushReply
  <2>1. /\ First("push") /\ strand' = Tail(strand)
        /\ writing' = (writing \/ command_output_queue = <<>>)
        /\ UNCHANGED <<client, socket, reading, shutdown_requested>>
    BY <1>8 DEF PushReply, NoWriteInProgress, clientVars
  <2>2. command_output_queue' # <<>>
    <3>1. Head(strand).n \in Nat
      BY <2>1, PushedNumber DEF TypeOK
    <3> QED
      BY <1>0, <1>8, <3>1, AppendFacts DEF PushReply, PushBack
  <2> QED
    BY <1>1, <2>1, <2>2, RunsFirst DEF GoesOnInv
<1>9. CASE Written
  <2>1. /\ First("written") /\ strand' = Tail(strand)
        /\ command_output_queue' = Tail(command_output_queue)
        /\ shutdown_requested => socket' = "closed"
        /\ ~shutdown_requested =>
             writing' = (Len(command_output_queue) > 1) /\ socket' = socket
        /\ UNCHANGED <<client, reading, shutdown_requested>>
    BY <1>9 DEF Written, CloseAfterQuit, RepliesLeft, clientVars
  <2>2. command_output_queue # <<>>
    <3>1. strand # <<>> /\ strand[1].run \in Ends /\ 1 \in DOMAIN strand
      BY <1>0, <2>1, TailFacts DEF First, Ends
    <3> QED
      BY <3>1 DEF WriteInv, None
  <2>3. Tail(command_output_queue) # <<>> => Len(command_output_queue) > 1
    BY <1>0, <2>2
  <2> QED
    BY <1>1, <2>1, <2>3, RunsFirst DEF GoesOnInv
<1>10. CASE ReadCompletes
  <2>1. /\ Head(input) \in Commands
        /\ strand' = Append(strand, Handler(Head(input), 0))
        /\ UNCHANGED <<client, socket, command_output_queue, writing,
                       shutdown_requested>>
    BY <1>0, <1>10, TailFacts DEF ReadCompletes, writeVars
  <2> QED
    BY <1>1, <2>1, PostsOne DEF GoesOnInv
<1>11. CASE ReadFails
  BY <1>11 DEF ReadFails, GoesOnInv, clientVars
<1>12. CASE WriteFails
  BY <1>12 DEF WriteFails, GoesOnInv, clientVars
<1>13. CASE WriteCompletes
  <2>1. /\ strand' = Append(strand, Handler("written", 0))
        /\ UNCHANGED <<client, socket, command_output_queue, reading,
                       shutdown_requested>>
    BY <1>13 DEF WriteCompletes, clientVars
  <2> QED
    BY <1>1, <2>1, PostsOne DEF GoesOnInv
<1> QED
  BY <1>2, <1>3, <1>4, <1>5, <1>6, <1>7, <1>8, <1>9, <1>10, <1>11, <1>12, <1>13
     DEF Next, CommandStrand, Transfer, Network

(***************************************************************************)
(* As long as both ends are open the write of the queue, the end after a   *)
(* QUIT and the reading always have somebody to go on with them.  This is  *)
(* the safety half of "every reply is sent" and "QUIT closes".             *)
(***************************************************************************)
THEOREM NoStepLost == Spec => []ConnectionGoesOn
<1>1. Init => GoesOnInv
  <2> SUFFICES ASSUME Init PROVE GoesOnInv
    OBVIOUS
  <2>1. /\ strand = <<Handler("start", 0)>> /\ shutdown_requested = FALSE
        /\ command_output_queue = <<>>
    BY DEF Init
  <2>2. ~None(strand, Commands \cup {"start"})
    BY <2>1 DEF None, Handler
  <2> QED
    BY <2>1, <2>2 DEF GoesOnInv, WriteGoesOn, QuitGoesOn, ReadGoesOn
<1>2. TypeOK /\ WriteInv /\ GoesOnInv /\ [Next]_vars => GoesOnInv'
  BY GoesOnStep
<1>3. GoesOnInv => ConnectionGoesOn
  BY DEF GoesOnInv, ConnectionGoesOn, BothOpen, WriteGoesOn, QuitGoesOn,
         ReadGoesOn, IsPosted, None
<1>4. Spec => [](TypeOK /\ WriteInv)
  BY OrderInvariant, PTL
<1> QED
  BY <1>1, <1>2, <1>3, <1>4, PTL DEF Spec

-----------------------------------------------------------------------------
(***************************************************************************)
(* The control connection implements the reply stream.                     *)
(***************************************************************************)
delivered == [i \in 1 .. Len(wire) |-> posted[wire[i]]]

\* Where replies p were sent in order, those sent are a prefix of them.
LEMMA DeliveredIsPrefix ==
  ASSUME NEW w \in Seq(Nat), NEW p \in Seq(Codes),
         Len(w) <= Len(p), \A i \in DOMAIN w : w[i] = i
  PROVE  /\ Len(w) \in Nat /\ Len(p) \in Nat
         /\ [i \in 1 .. Len(w) |-> p[w[i]]] = [i \in 1 .. Len(w) |-> p[i]]
         /\ [i \in 1 .. Len(w) |-> p[i]] \in Seq(Codes)
         /\ Len([i \in 1 .. Len(w) |-> p[i]]) = Len(w)
<1>1. /\ Len(w) \in Nat /\ Len(p) \in Nat
      /\ DOMAIN w = 1 .. Len(w)
  OBVIOUS
<1>2. \A i \in 1 .. Len(w) : p[w[i]] = p[i] /\ p[i] \in Codes
  BY <1>1
<1>3. [i \in 1 .. Len(w) |-> p[w[i]]] = [i \in 1 .. Len(w) |-> p[i]]
  BY <1>2
<1> QED
  BY <1>1, <1>2, <1>3

\* A step posts a reply, delivers the next one, or does neither.
LEMMA StreamStep ==
  ASSUME TypeOK, TypeOK', WriteInv, RepliesInOrder, RepliesInOrder', [Next]_vars
  PROVE  \/ /\ \E c \in Codes : posted' = Append(posted, c)
            /\ wire' = wire
         \/ /\ Len(wire') = Len(wire) + 1
            /\ posted' = posted
         \/ UNCHANGED <<posted, wire>>
<1>1. CASE WriteCompletes
  <2>1. command_output_queue # <<>> /\ command_output_queue \in Seq(Nat)
    BY <1>1 DEF WriteCompletes, WriteInv, TypeOK
  <2>2. Head(command_output_queue) \in Nat
    BY <2>1, TailFacts
  <2>3. Len(wire') = Len(wire) + 1
    BY <1>1, <2>2, AppendFacts DEF WriteCompletes, TypeOK
  <2> QED
    BY <1>1, <2>3 DEF WriteCompletes
<1>2. CASE Greet
  BY <1>2 DEF Greet, SendFtpMessage, writeVars, Codes
<1>3. CASE HandleCommand
  BY <1>3 DEF HandleCommand, SendFtpMessage, writeVars, Codes
<1>4. CASE HandleTransfer
  BY <1>4 DEF HandleTransfer, SendFtpMessage, writeVars, Codes
<1>5. CASE HandleQuit
  BY <1>5 DEF HandleQuit, SendFtpMessage, writeVars, Codes
<1>6. CASE TransferReplies
  BY <1>6 DEF TransferReplies, SendFtpMessage, writeVars, Codes
<1>7. CASE \/ Client \/ StartReading \/ ReadErrorHandler \/ PushReply
           \/ Written \/ WriteError \/ TransferDropped
           \/ ReadCompletes \/ ReadFails \/ WriteFails \/ Destroy
           \/ UNCHANGED vars
  BY <1>7 DEF Client, ClientSends, ClientCloses, StartReading,
     ReadErrorHandler, PushReply, Written, WriteError, TransferDropped,
     ReadCompletes, ReadFails, WriteFails, Destroy, vars, writeVars
<1> QED
  BY <1>1, <1>2, <1>3, <1>4, <1>5, <1>6, <1>7
     DEF Next, CommandStrand, Transfer, Network

(***************************************************************************)
(* What the client is sent is, at any time, a prefix of what was posted,   *)
(* and it grows by one reply at a time.                                    *)
(***************************************************************************)
THEOREM ImplementsReplyStream == Spec => StreamSpec
<1>1. Init => Stream!Init
  <2> SUFFICES ASSUME Init PROVE posted = <<>> /\ delivered = <<>>
    BY DEF Stream!Init, delivered
  <2> QED
    BY DEF Init, delivered
<1>2. ASSUME TypeOK, TypeOK', WriteInv, RepliesInOrder, RepliesInOrder',
             [Next]_vars
      PROVE  [Stream!Next]_<<posted, delivered>>
  <2>1. /\ Len(wire) \in Nat /\ Len(posted) \in Nat
        /\ Len(wire) <= Len(posted)
        /\ delivered = [i \in 1 .. Len(wire) |-> posted[i]]
        /\ delivered \in Seq(Codes) /\ Len(delivered) = Len(wire)
    <3>1. /\ wire \in Seq(Nat) /\ posted \in Seq(Codes)
          /\ Len(wire) <= Len(posted) /\ \A i \in DOMAIN wire : wire[i] = i
      BY <1>2 DEF TypeOK, RepliesInOrder
    <3> QED
      BY <3>1, DeliveredIsPrefix DEF delivered
  <2>2. /\ Len(wire') <= Len(posted')
        /\ delivered' = [i \in 1 .. Len(wire') |-> posted'[i]]
        /\ delivered' \in Seq(Codes)
    <3>1. /\ wire' \in Seq(Nat) /\ posted' \in Seq(Codes)
          /\ Len(wire') <= Len(posted')
          /\ \A i \in DOMAIN wire' : wire'[i] = i
      BY <1>2 DEF TypeOK, RepliesInOrder
    <3> QED
      BY <3>1, DeliveredIsPrefix DEF delivered
  <2>3. posted \in Seq(Codes)
    BY <1>2 DEF TypeOK
  <2>4. ASSUME NEW c \in Codes, posted' = Append(posted, c), wire' = wire
        PROVE  Stream!Next
    <3>1. \A i \in 1 .. Len(wire) : posted'[i] = posted[i]
      BY <2>1, <2>3, <2>4, AppendFacts
    <3>2. delivered' = delivered
      BY <2>1, <2>2, <2>4, <3>1
    <3> QED
      BY <2>4, <3>2 DEF Stream!Next, Stream!Post, delivered
  <2>5. ASSUME Len(wire') = Len(wire) + 1, posted' = posted
        PROVE  Stream!Next
    <3>1. posted[Len(wire) + 1] \in Codes
      BY <2>1, <2>2, <2>3, <2>5
    <3>2. delivered' = Append(delivered, posted[Len(wire) + 1])
      BY <2>1, <2>2, <2>5, <3>1
    <3>3. Len(delivered) < Len(posted)
      BY <2>1, <2>2, <2>5
    <3> QED
      BY <2>1, <2>5, <3>2, <3>3 DEF Stream!Next, Stream!Deliver, delivered
  <2>6. ASSUME UNCHANGED <<posted, wire>> PROVE UNCHANGED <<posted, delivered>>
    BY <2>6 DEF delivered
  <2> QED
    BY <1>2, <2>4, <2>5, <2>6, StreamStep
<1>3. Spec => [](TypeOK /\ WriteInv /\ RepliesInOrder)
  BY OrderInvariant, OrderImplies, PTL
<1>4. ASSUME TypeOK, TypeOK', WriteInv, RepliesInOrder, RepliesInOrder',
             [Next]_vars
      PROVE  [Stream!Next]_<<posted, [i \in 1 .. Len(wire) |-> posted[wire[i]]]>>
  BY <1>2, <1>4 DEF delivered
<1> QED
  BY <1>1, <1>3, <1>4, PTL DEF Spec, StreamSpec, Stream!Spec
=============================================================================
