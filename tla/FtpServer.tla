------------------------------ MODULE FtpServer ------------------------------
(***************************************************************************)
(* FtpServerImpl (server_impl.cpp): start and stop, as one thread of the   *)
(* application calls them, the loop that accepts control connections, and  *)
(* the count of open connections, which the handlers and the destructors   *)
(* of sessions change on any thread of the pool.                           *)
(*                                                                         *)
(* Of a session only its life is kept: ControlConnection says when one     *)
(* that was started closes its connection, and DataConnection what may     *)
(* keep it from being destroyed then.                                      *)
(***************************************************************************)
EXTENDS Integers, FiniteSets

CONSTANTS MaxSessions, \* bound: sessions created, one by each start too
          MaxBacklog   \* bound: clients waiting to be accepted

ASSUME SessionsAssumption == MaxSessions \in Nat /\ MaxBacklog \in Nat

Sessions == 1 .. MaxSessions

VARIABLES
  acceptor,  \* acceptor_: "closed", "opened", "bound" or "listening"
  accepting, \* the sessions whose sockets async_accepts are pending for
  handler,   \* the session the running handler of an accept is about (0: none)
  stopped,   \* io_context_.stop() was called
  pool,      \* thread_pool_ is not empty
  created,   \* how many sessions were created
  session,   \* what became of each
  count,     \* open_connection_count_
  backlog,   \* clients waiting to be accepted
  started,   \* the last start returned true, and stop was not called since
  failures,  \* starts that returned false
  errors     \* accepts that ended with an error

loopVars == <<accepting, handler>>
poolVars == <<stopped, pool>>
apiVars  == <<acceptor, started, failures>>
vars == <<apiVars, loopVars, poolVars, created, session, count, backlog, errors>>

TypeOK ==
  /\ acceptor \in {"closed", "opened", "bound", "listening"}
  /\ accepting \subseteq Sessions
  /\ handler \in Sessions \cup {0}
  /\ stopped \in BOOLEAN
  /\ pool \in BOOLEAN
  /\ created \in 0 .. MaxSessions
  /\ session \in [Sessions -> {"none", "waiting", "accepted", "refused",
                               "alive", "closed", "destroyed"}]
  /\ count \in (-failures) .. MaxSessions
  /\ backlog \in 0 .. MaxBacklog
  /\ started \in BOOLEAN
  /\ failures \in Nat
  /\ errors \in Nat

Init ==
  /\ acceptor = "closed"
  /\ accepting = {}
  /\ handler = 0
  /\ stopped = FALSE
  /\ pool = FALSE
  /\ created = 0
  /\ session = [s \in Sessions |-> "none"]
  /\ count = 0
  /\ backlog = 0
  /\ started = FALSE
  /\ failures = 0
  /\ errors = 0

-----------------------------------------------------------------------------
\* A new session that takes the next connection.
AcceptNext ==
  /\ created < MaxSessions
  /\ created' = created + 1
  /\ accepting' = accepting \cup {created'}
  /\ session' = [session EXCEPT ![created'] = "waiting"]

(***************************************************************************)
(* start: create a session, set up the acceptor, accept, create the        *)
(* threads.  What was set up before an error stays; an acceptor that is    *)
(* open already is an error.  The session is then dropped.                 *)
(***************************************************************************)
\* Faulty variant: an acceptor that listens is taken as it is.
CanSetUpAlways == TRUE

CanSetUp == acceptor = "closed"

StartSucceeds ==
  /\ CanSetUp
  /\ AcceptNext
  /\ acceptor' = "listening"
  /\ pool' = TRUE
  /\ started' = TRUE
  /\ UNCHANGED <<handler, stopped, count, backlog, failures, errors>>

StartFails ==
  /\ created < MaxSessions
  /\ acceptor' \in IF acceptor = "closed" THEN {"closed", "opened", "bound"}
                   ELSE {acceptor}
  /\ created' = created + 1
  /\ session' = [session EXCEPT ![created'] = "destroyed"]
  /\ count' = count - 1
  /\ failures' = failures + 1
  /\ UNCHANGED <<started, loopVars, poolVars, backlog, errors>>

\* stop: the threads begin no further handler, and are joined when the
\* handlers they are in return.
Stop ==
  /\ ~stopped
  /\ stopped' = TRUE
  /\ started' = FALSE
  /\ UNCHANGED <<acceptor, failures, loopVars, pool, created, session, count,
                 backlog, errors>>

\* A start after a stop is stopped again by the next stop.
StopAgain ==
  /\ stopped
  /\ started
  /\ started' = FALSE
  /\ UNCHANGED <<acceptor, failures, loopVars, poolVars, created, session,
                 count, backlog, errors>>

Join ==
  /\ stopped
  /\ ~started
  /\ pool
  /\ handler = 0
  /\ pool' = FALSE
  /\ UNCHANGED <<apiVars, loopVars, stopped, created, session, count, backlog,
                 errors>>

-----------------------------------------------------------------------------
ClientConnects ==
  /\ acceptor = "listening"
  /\ backlog < MaxBacklog
  /\ backlog' = backlog + 1
  /\ UNCHANGED <<apiVars, loopVars, poolVars, created, session, count, errors>>

(***************************************************************************)
(* The handler of async_accept: count, start the session, accept the next; *)
(* on an error count and drop the session, without a further accept.       *)
(***************************************************************************)
Running == pool /\ ~stopped

Accepted(s) ==
  /\ Running
  /\ s \in accepting /\ handler = 0
  /\ backlog > 0
  /\ backlog' = backlog - 1
  /\ accepting' = accepting \ {s}
  /\ handler' = s
  /\ session' = [session EXCEPT ![s] = "accepted"]
  /\ count' = count + 1
  /\ UNCHANGED <<apiVars, poolVars, created, errors>>

\* Faulty variant: only connections are counted.
AcceptFailedUncounted(s) ==
  /\ Running
  /\ s \in accepting /\ handler = 0
  /\ accepting' = accepting \ {s}
  /\ handler' = s
  /\ session' = [session EXCEPT ![s] = "refused"]
  /\ errors' = errors + 1
  /\ UNCHANGED <<apiVars, poolVars, created, count, backlog>>

AcceptFailed(s) ==
  /\ Running
  /\ s \in accepting /\ handler = 0
  /\ accepting' = accepting \ {s}
  /\ handler' = s
  /\ session' = [session EXCEPT ![s] = "refused"]
  /\ count' = count + 1
  /\ errors' = errors + 1
  /\ UNCHANGED <<apiVars, poolVars, created, backlog>>

DropSession ==
  /\ handler # 0 /\ session[handler] = "refused"
  /\ session' = [session EXCEPT ![handler] = "destroyed"]
  /\ count' = count - 1
  /\ handler' = 0
  /\ UNCHANGED <<apiVars, poolVars, accepting, created, backlog, errors>>

StartSession ==
  /\ handler # 0 /\ session[handler] = "accepted"
  /\ session' = [session EXCEPT ![handler] = "alive"]
  /\ UNCHANGED <<apiVars, loopVars, poolVars, created, count, backlog, errors>>

\* Faulty variant: no accept after the first.
AcceptOnce ==
  /\ handler # 0 /\ session[handler] \in {"alive", "closed"}
  /\ handler' = 0
  /\ UNCHANGED <<apiVars, poolVars, accepting, created, session, count,
                 backlog, errors>>

AcceptAgain ==
  /\ handler # 0 /\ session[handler] \in {"alive", "closed"}
  /\ AcceptNext
  /\ handler' = 0
  /\ UNCHANGED <<apiVars, poolVars, count, backlog, errors>>

\* The write of a reply after QUIT closes the connection.  An operation that
\* is pending on a data connection, or its accept, still holds the session.
ConnectionCloses(s) ==
  /\ pool
  /\ session[s] = "alive"
  /\ session' = [session EXCEPT ![s] = "closed"]
  /\ UNCHANGED <<apiVars, loopVars, poolVars, created, count, backlog, errors>>

\* ~FtpSession, on a thread of the pool: it closes the connection, if it is
\* open, and counts.  The handler that started the session holds it until it
\* returns.
SessionEnds(s) ==
  /\ pool
  /\ session[s] \in {"alive", "closed"} /\ handler # s
  /\ session' = [session EXCEPT ![s] = "destroyed"]
  /\ count' = count - 1
  /\ UNCHANGED <<apiVars, loopVars, poolVars, created, backlog, errors>>

Application == StartSucceeds \/ StartFails \/ Stop \/ StopAgain \/ Join

AcceptHandler == \/ \E s \in Sessions : Accepted(s)
                 \/ DropSession \/ StartSession \/ AcceptAgain

Next == \/ Application
        \/ ClientConnects
        \/ AcceptHandler
        \/ \E s \in Sessions :
             AcceptFailed(s) \/ ConnectionCloses(s) \/ SessionEnds(s)

Spec == Init /\ [][Next]_vars

(***************************************************************************)
(* Fairness: the pool's threads accept whoever waits and run their         *)
(* handlers to the end.  Nothing obliges the application to call anything, *)
(* clients to connect or sessions to end.                                  *)
(***************************************************************************)
FairSpec == Spec /\ WF_vars(AcceptHandler)

-----------------------------------------------------------------------------
(***************************************************************************)
(* Properties.                                                             *)
(***************************************************************************)
Counted == {s \in Sessions :
              session[s] \in {"accepted", "refused", "alive", "closed"}}
Open    == {s \in Sessions : session[s] = "alive"}

(***************************************************************************)
(* The count is raised by the handler of an accept and lowered by the      *)
(* destructor of the session, on different threads and paths, and by the   *)
(* destructor also for a session that no accept counted: through all of    *)
(* them it is the number of sessions whose accept completed and that are   *)
(* not destroyed, less the starts that failed.                             *)
(***************************************************************************)
CountBalanced == count + failures = Cardinality(Counted)

(***************************************************************************)
(* getOpenConnectionCount "Returns the number of currently open            *)
(* connections" (server.h:165), at least while no accept is being handled. *)
(***************************************************************************)
CountOfOpen == handler = 0 => count = Cardinality(Open)

(***************************************************************************)
(* The accept loop neither doubles, through several starts, nor is it      *)
(* lost: until an accept fails, a server that was started has one accept   *)
(* pending or in its handler.                                              *)
(***************************************************************************)
Loop == accepting \cup ({handler} \ {0})

OneAcceptLoop ==
  /\ Cardinality(Loop) <= 1
  /\ acceptor = "listening" /\ errors = 0 => Loop # {}

(***************************************************************************)
(* While the server runs and no accept has failed, a client that waits is  *)
(* accepted.                                                               *)
(***************************************************************************)
ClientsServed ==
  (Running /\ backlog > 0)
    ~> (backlog = 0 \/ stopped \/ errors > 0 \/ created = MaxSessions)

(***************************************************************************)
(* start returns "True if the Server has been started successfully."       *)
(* (server.h:152): such a server accepts a client that waits.              *)
(***************************************************************************)
StartedServes ==
  (started /\ backlog > 0)
    ~> (backlog = 0 \/ ~started \/ errors > 0 \/ created = MaxSessions)
=============================================================================
