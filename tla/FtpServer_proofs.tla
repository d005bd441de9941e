-------------------------- MODULE FtpServer_proofs --------------------------
(***************************************************************************)
(* Proofs about FtpServer, for any number of sessions and waiting clients. *)
(*                                                                         *)
(* The invariant relates the life of each session to the loop: a session   *)
(* is still to be created, waits in the one accept there is, is in the     *)
(* handler of that accept, or has left it.  The range of the count in      *)
(* TypeOK then follows from what is counted.                               *)
(***************************************************************************)
EXTENDS FtpServer, FiniteSetTheorems, TLAPS

\* The types of the variables but the count.
ShapeOK ==
  /\ acceptor \in {"closed", "opened", "bound", "listening"}
  /\ accepting \subseteq Sessions
  /\ handler \in Sessions \cup {0}
  /\ stopped \in BOOLEAN
  /\ pool \in BOOLEAN
  /\ created \in 0 .. MaxSessions
  /\ session \in [Sessions -> {"none", "waiting", "accepted", "refused",
                               "alive", "closed", "destroyed"}]
  /\ backlog \in 0 .. MaxBacklog
  /\ started \in BOOLEAN
  /\ failures \in Nat
  /\ errors \in Nat

\* Where each session is.
Lives ==
  /\ \A s \in Sessions : s > created => session[s] = "none"
  /\ \A s \in accepting : session[s] = "waiting"
  /\ handler # 0 => session[handler] \in {"accepted", "refused",
                                          "alive", "closed"}

\* The loop is in one place, begins with the listening, and ends by an error.
OneLoop ==
  /\ \A s, t \in accepting : s = t
  /\ handler # 0 => accepting = {}
  /\ acceptor # "listening" => accepting = {} /\ handler = 0
  /\ handler # 0 /\ session[handler] = "refused" => errors > 0
  /\ acceptor = "listening" /\ errors = 0 => accepting # {} \/ handler # 0

IInv == ShapeOK /\ Lives /\ OneLoop /\ count \in Int /\ CountBalanced

-----------------------------------------------------------------------------
LEMMA SessionsFinite == IsFiniteSet(Sessions) /\ Cardinality(Sessions) = MaxSessions
BY FS_Interval, SessionsAssumption DEF Sessions

\* The counted sessions are finitely many, and so are those after a step.
LEMMA CountedFinite ==
  /\ IsFiniteSet(Counted) /\ Cardinality(Counted) \in 0 .. MaxSessions
  /\ IsFiniteSet(Counted')
<1>1. Counted \in SUBSET Sessions /\ Counted' \in SUBSET Sessions
  BY DEF Counted
<1> QED
  BY <1>1, SessionsFinite, FS_Subset, FS_CardinalityType, SessionsAssumption

LEMMA InitInv == Init => IInv
<1> SUFFICES ASSUME Init PROVE IInv
  OBVIOUS
<1>1. ShapeOK
  <2>1. 0 \in 0 .. MaxSessions /\ 0 \in 0 .. MaxBacklog
    BY SessionsAssumption
  <2>2. session \in [Sessions -> {"none"}]
    BY DEF Init
  <2> QED
    BY <2>1, <2>2 DEF Init, ShapeOK
<1>2. Lives /\ OneLoop
  BY DEF Init, Lives, OneLoop
<1>3. Counted = {}
  BY DEF Init, Counted
<1>4. CountBalanced
  BY <1>3, FS_EmptySet DEF Init, CountBalanced
<1> QED
  BY <1>1, <1>2, <1>4 DEF Init, IInv

-----------------------------------------------------------------------------
(***************************************************************************)
(* A step keeps the shape, the lives and the loop.                         *)
(***************************************************************************)
LEMMA StepShape == IInv /\ [Next]_vars => ShapeOK'
<1> SUFFICES ASSUME IInv, [Next]_vars PROVE ShapeOK'
  OBVIOUS
<1> USE SessionsAssumption DEF IInv, ShapeOK, Sessions
<1>1. CASE StartSucceeds
  BY <1>1 DEF StartSucceeds, AcceptNext
<1>2. CASE StartFails
  BY <1>2 DEF StartFails, loopVars, poolVars
<1>3. CASE Stop \/ StopAgain \/ Join
  BY <1>3 DEF Stop, StopAgain, Join, apiVars, loopVars, poolVars
<1>4. CASE ClientConnects
  BY <1>4 DEF ClientConnects, apiVars, loopVars, poolVars
<1>5. CASE \E s \in Sessions : Accepted(s)
  BY <1>5 DEF Accepted, apiVars, poolVars
<1>6. CASE \E s \in Sessions : AcceptFailed(s)
  BY <1>6 DEF AcceptFailed, apiVars, poolVars
<1>7. CASE DropSession
  BY <1>7 DEF DropSession, apiVars, poolVars
<1>8. CASE StartSession
  BY <1>8 DEF StartSession, apiVars, loopVars, poolVars
<1>9. CASE AcceptAgain
  BY <1>9 DEF AcceptAgain, AcceptNext, apiVars, poolVars
<1>10. CASE \E s \in Sessions : ConnectionCloses(s) \/ SessionEnds(s)
  BY <1>10 DEF ConnectionCloses, SessionEnds, apiVars, loopVars, poolVars
<1>11. CASE UNCHANGED vars
  BY <1>11 DEF vars, apiVars, loopVars, poolVars
<1> QED
  BY <1>1, <1>2, <1>3, <1>4, <1>5, <1>6, <1>7, <1>8, <1>9, <1>10, <1>11
  DEF Next, Application, AcceptHandler

LEMMA StepLives == IInv /\ [Next]_vars => Lives'
<1> SUFFICES ASSUME IInv, [Next]_vars PROVE Lives'
  OBVIOUS
<1> USE SessionsAssumption DEF IInv, ShapeOK, Sessions, Lives, OneLoop
<1>1. CASE StartSucceeds
  BY <1>1 DEF StartSucceeds, AcceptNext, CanSetUp
<1>2. CASE StartFails
  BY <1>2 DEF StartFails, loopVars, poolVars
<1>3. CASE Stop \/ StopAgain \/ Join
  BY <1>3 DEF Stop, StopAgain, Join, apiVars, loopVars, poolVars
<1>4. CASE ClientConnects
  BY <1>4 DEF ClientConnects, apiVars, loopVars, poolVars
<1>5. CASE \E s \in Sessions : Accepted(s)
  BY <1>5 DEF Accepted, apiVars, poolVars
<1>6. CASE \E s \in Sessions : AcceptFailed(s)
  BY <1>6 DEF AcceptFailed, apiVars, poolVars
<1>7. CASE DropSession
  BY <1>7 DEF DropSession, apiVars, poolVars
<1>8. CASE StartSession
  BY <1>8 DEF StartSession, apiVars, loopVars, poolVars
<1>9. CASE AcceptAgain
  BY <1>9 DEF AcceptAgain, AcceptNext, apiVars, poolVars
<1>10. CASE \E s \in Sessions : ConnectionCloses(s) \/ SessionEnds(s)
  BY <1>10 DEF ConnectionCloses, SessionEnds, apiVars, loopVars, poolVars
<1>11. CASE UNCHANGED vars
  BY <1>11 DEF vars, apiVars, loopVars, poolVars
<1> QED
  BY <1>1, <1>2, <1>3, <1>4, <1>5, <1>6, <1>7, <1>8, <1>9, <1>10, <1>11
  DEF Next, Application, AcceptHandler

LEMMA StepLoop == IInv /\ [Next]_vars => OneLoop'
<1> SUFFICES ASSUME IInv, [Next]_vars PROVE OneLoop'
  OBVIOUS
<1> USE SessionsAssumption DEF IInv, ShapeOK, Sessions, Lives, OneLoop
<1>1. CASE StartSucceeds
  BY <1>1 DEF StartSucceeds, AcceptNext, CanSetUp
<1>2. CASE StartFails
  BY <1>2 DEF StartFails, loopVars, poolVars
<1>3. CASE Stop \/ StopAgain \/ Join
  BY <1>3 DEF Stop, StopAgain, Join, apiVars, loopVars, poolVars
<1>4. CASE ClientConnects
  BY <1>4 DEF ClientConnects, apiVars, loopVars, poolVars
<1>5. CASE \E s \in Sessions : Accepted(s)
  BY <1>5 DEF Accepted, apiVars, poolVars
<1>6. CASE \E s \in Sessions : AcceptFailed(s)
  BY <1>6 DEF AcceptFailed, apiVars, poolVars
<1>7. CASE DropSession
  BY <1>7 DEF DropSession, apiVars, poolVars
<1>8. CASE StartSession
  BY <1>8 DEF StartSession, apiVars, loopVars, poolVars
<1>9. CASE AcceptAgain
  BY <1>9 DEF AcceptAgain, AcceptNext, apiVars, poolVars
<1>10. CASE \E s \in Sessions : ConnectionCloses(s) \/ SessionEnds(s)
  BY <1>10 DEF ConnectionCloses, SessionEnds, apiVars, loopVars, poolVars
<1>11. CASE UNCHANGED vars
  BY <1>11 DEF vars, apiVars, loopVars, poolVars
<1> QED
  BY <1>1, <1>2, <1>3, <1>4, <1>5, <1>6, <1>7, <1>8, <1>9, <1>10, <1>11
  DEF Next, Application, AcceptHandler

-----------------------------------------------------------------------------
(***************************************************************************)
(* The count: a step adds a session to the counted ones, takes one from    *)
(* them, or leaves them as they are, and counts accordingly.               *)
(***************************************************************************)
CountInv == count \in Int /\ CountBalanced

\* A step that leaves the counted sessions and the sum as they are.
LEMMA SameCounted ==
  ASSUME IInv, Counted' = Counted, failures' \in Nat, count' \in Int,
         count' + failures' = count + failures
  PROVE  CountInv'
BY DEF CountInv, CountBalanced, IInv

LEMMA OneMore ==
  ASSUME IInv, NEW s \in Sessions, s \notin Counted, Counted' = Counted \cup {s},
         failures' = failures, count' = count + 1
  PROVE  CountInv'
<1>1. Cardinality(Counted') = Cardinality(Counted) + 1
  BY CountedFinite, FS_AddElement
<1> QED
  BY <1>1, CountedFinite DEF CountInv, CountBalanced, IInv, ShapeOK

LEMMA OneLess ==
  ASSUME IInv, NEW s \in Sessions, s \in Counted, Counted' = Counted \ {s},
         failures' = failures, count' = count - 1
  PROVE  CountInv'
<1>1. Cardinality(Counted') = Cardinality(Counted) - 1
  BY CountedFinite, FS_RemoveElement
<1> QED
  BY <1>1, CountedFinite DEF CountInv, CountBalanced, IInv, ShapeOK

LEMMA StepCount == IInv /\ [Next]_vars => CountInv'
<1> SUFFICES ASSUME IInv, [Next]_vars PROVE CountInv'
  OBVIOUS
<1> USE SessionsAssumption DEF IInv, ShapeOK, Sessions, Lives
<1>1. CASE StartSucceeds
  <2>1. Counted' = Counted
    BY <1>1 DEF StartSucceeds, AcceptNext, Counted
  <2> QED
    BY <1>1, <2>1, SameCounted DEF StartSucceeds
<1>2. CASE StartFails
  <2>1. Counted' = Counted
    BY <1>2 DEF StartFails, Counted, poolVars, loopVars
  <2> QED
    BY <1>2, <2>1, SameCounted DEF StartFails
<1>3. CASE Stop \/ StopAgain \/ Join \/ ClientConnects \/ UNCHANGED vars
  <2>1. UNCHANGED <<session, count, failures>>
    BY <1>3 DEF Stop, StopAgain, Join, ClientConnects, vars, apiVars
  <2>2. Counted' = Counted
    BY <2>1 DEF Counted
  <2> QED
    BY <2>1, <2>2, SameCounted
<1>4. ASSUME NEW s \in Sessions, Accepted(s) \/ AcceptFailed(s)
      PROVE  CountInv'
  <2>1. s \notin Counted /\ Counted' = Counted \cup {s}
    BY <1>4 DEF Accepted, AcceptFailed, Counted
  <2> QED
    BY <1>4, <2>1, OneMore DEF Accepted, AcceptFailed, apiVars
<1>5. CASE DropSession
  <2>1. handler \in Counted /\ Counted' = Counted \ {handler}
    BY <1>5 DEF DropSession, Counted
  <2> QED
    BY <1>5, <2>1, OneLess DEF DropSession, apiVars
<1>6. CASE StartSession
  <2>1. Counted' = Counted
    BY <1>6 DEF StartSession, Counted
  <2> QED
    BY <1>6, <2>1, SameCounted DEF StartSession, apiVars
<1>7. CASE AcceptAgain
  <2>1. Counted' = Counted
    BY <1>7 DEF AcceptAgain, AcceptNext, Counted
  <2> QED
    BY <1>7, <2>1, SameCounted DEF AcceptAgain, apiVars
<1>8. ASSUME NEW s \in Sessions, SessionEnds(s)
      PROVE  CountInv'
  <2>1. s \in Counted /\ Counted' = Counted \ {s}
    BY <1>8 DEF SessionEnds, Counted
  <2> QED
    BY <1>8, <2>1, OneLess DEF SessionEnds, apiVars
<1>9. ASSUME NEW s \in Sessions, ConnectionCloses(s)
      PROVE  CountInv'
  <2>1. Counted' = Counted
    BY <1>9 DEF ConnectionCloses, Counted
  <2> QED
    BY <1>9, <2>1, SameCounted DEF ConnectionCloses, apiVars
<1> QED
  BY <1>1, <1>2, <1>3, <1>4, <1>5, <1>6, <1>7, <1>8, <1>9
  DEF Next, Application, AcceptHandler

-----------------------------------------------------------------------------
LEMMA Invariant == Spec => []IInv
<1>1. IInv /\ [Next]_vars => IInv'
  BY StepShape, StepLives, StepLoop, StepCount DEF IInv, CountInv
<1> QED
  BY InitInv, <1>1, PTL DEF Spec

(***************************************************************************)
(* The variables keep their types; that the count stays in its range is a  *)
(* consequence of what it counts.                                          *)
(***************************************************************************)
THEOREM TypeCorrect == Spec => []TypeOK
<1>1. IInv => TypeOK
  <2> SUFFICES ASSUME IInv PROVE TypeOK
    OBVIOUS
  <2>1. count \in (-failures) .. MaxSessions
    BY CountedFinite, SessionsAssumption DEF IInv, ShapeOK, CountBalanced
  <2> QED
    BY <2>1 DEF IInv, ShapeOK, TypeOK
<1> QED
  BY Invariant, <1>1, PTL

(***************************************************************************)
(* The count of connections, raised and lowered on different threads, is   *)
(* the number of sessions whose accept completed and that are not          *)
(* destroyed, less the starts that failed.                                 *)
(***************************************************************************)
THEOREM CountCorrect == Spec => []CountBalanced
<1>1. IInv => CountBalanced
  BY DEF IInv
<1> QED
  BY Invariant, <1>1, PTL

(***************************************************************************)
(* The accept loop is never doubled, and lost only to an error.            *)
(***************************************************************************)
THEOREM LoopCorrect == Spec => []OneAcceptLoop
<1>1. IInv => OneAcceptLoop
  <2> SUFFICES ASSUME IInv PROVE OneAcceptLoop
    OBVIOUS
  <2>1. \A s, t \in Loop : s = t
    BY DEF IInv, OneLoop, Loop
  <2>2. Loop = {} \/ \E s : Loop = {s}
    BY <2>1
  <2>3. Cardinality(Loop) \in {0, 1}
    <3>1. CASE Loop = {}
      BY <3>1, FS_EmptySet
    <3>2. ASSUME NEW s, Loop = {s} PROVE Cardinality(Loop) = 1
      BY <3>2, FS_Singleton
    <3> QED
      BY <2>2, <3>1, <3>2
  <2>4. acceptor = "listening" /\ errors = 0 => Loop # {}
    BY DEF IInv, OneLoop, Loop
  <2> QED
    BY <2>3, <2>4 DEF OneAcceptLoop
<1> QED
  BY Invariant, <1>1, PTL
=============================================================================
