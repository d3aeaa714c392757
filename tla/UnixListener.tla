---------------------------- MODULE UnixListener ----------------------------
(***************************************************************************)
(* transport/unix.go: the accept loop of the UNIX-socket transport, which  *)
(* serves one connection at a time (a new one closes and replaces the      *)
(* current one), and Stop.  The two share conn and cancelConn under connMu,*)
(* and a WaitGroup that counts the loop and every connection's goroutine.  *)
(*                                                                         *)
(* Of a connection's serve loop only its end is kept, as module Stream has *)
(* it: it ends once reading fails and every handler has returned, and a    *)
(* parked one (a subscriptions/listen is open) has a handler that returns  *)
(* only when the connection's context is cancelled.                        *)
(***************************************************************************)
EXTENDS Naturals

CONSTANT Conns  \* the connections clients make

VARIABLES
  st,      \* st[c]: "none", "backlog", "accepted", "serving", "closing", "ended"
  parked,  \* connections with an open subscriptions/listen
  gone,    \* connections whose client has hung up
  closed,  \* connections the server has closed
  done,    \* connections whose context is cancelled
  conn,    \* t.conn, with t.cancelConn
  loop,    \* acceptLoop: "accept", "install", "spawn", "returned"
  new,     \* the connection it has accepted
  stop     \* Stop: "no", "signalled", "deaf", "waiting", "done"

vars == <<st, parked, gone, closed, done, conn, loop, new, stop>>
connVars == <<st, parked, gone, closed, done>>

None == "none"
ASSUME NoneIsNoConn == None \notin Conns

Init ==
  /\ st = [c \in Conns |-> "none"]
  /\ parked = {} /\ gone = {} /\ closed = {} /\ done = {}
  /\ conn = None /\ new = None
  /\ loop = "accept" /\ stop = "no"

Move(c, s) == st' = [st EXCEPT ![c] = s]

(* The channel stopCh is closed before the listener is. *)
Listening == stop \in {"no", "signalled"}

-----------------------------------------------------------------------------
(* Clients connect, open a listen request, hang up.                        *)

Connect(c) ==
  /\ Listening
  /\ st[c] = "none"
  /\ Move(c, "backlog")
  /\ UNCHANGED <<parked, gone, closed, done, conn, loop, new, stop>>

Listen(c) ==
  /\ st[c] = "serving" /\ c \notin gone \cup closed \cup parked
  /\ parked' = parked \cup {c}
  /\ UNCHANGED <<st, gone, closed, done, conn, loop, new, stop>>

HangUp(c) ==
  /\ st[c] \notin {"none", "ended"} /\ c \notin gone
  /\ gone' = gone \cup {c}
  /\ UNCHANGED <<st, parked, closed, done, conn, loop, new, stop>>

-----------------------------------------------------------------------------
(* acceptLoop.                                                             *)

Accept(c) ==
  /\ loop = "accept"
  /\ Listening
  /\ st[c] = "backlog"
  /\ Move(c, "accepted")
  /\ new' = c
  /\ loop' = "install"
  /\ UNCHANGED <<parked, gone, closed, done, conn, stop>>

Retry            == "accept"
AfterAcceptError == "returned"

(* Accept fails: the loop ends if stopCh is closed, and retries otherwise. *)
AcceptFails ==
  /\ loop = "accept"
  /\ ~Listening
  /\ loop' = AfterAcceptError
  /\ UNCHANGED <<connVars, conn, new, stop>>

NilIncluded(s) == s \cup {conn}
OnlyNew(s)     == s
WithCurrent(s) == IF conn = None THEN s ELSE s \cup {conn}

(* Under connMu: close and cancel the current connection, file the new one. *)
Install ==
  /\ loop = "install"
  /\ closed' = WithCurrent(closed)
  /\ done' = WithCurrent(done)
  /\ conn' = new
  /\ loop' = "spawn"
  /\ UNCHANGED <<st, parked, gone, new, stop>>

Spawn ==
  /\ loop = "spawn"
  /\ Move(new, "serving")
  /\ new' = None
  /\ loop' = "accept"
  /\ UNCHANGED <<parked, gone, closed, done, conn, stop>>

-----------------------------------------------------------------------------
(* The goroutine of connection c.                                          *)

ReadFails(c) == c \in closed \cup gone

HandlersReturn(c) == c \in parked => c \in done

(* serve returns once reading fails and all handlers are back. *)
ServeReturns(c) ==
  /\ st[c] = "serving"
  /\ ReadFails(c) /\ HandlersReturn(c)
  /\ Move(c, "closing")
  /\ UNCHANGED <<parked, gone, closed, done, conn, loop, new, stop>>

(* The deferred cancel(), c.Close() and wg.Done(). *)
ConnectionEnds(c) ==
  /\ st[c] = "closing"
  /\ Move(c, "ended")
  /\ done' = done \cup {c}
  /\ closed' = closed \cup {c}
  /\ UNCHANGED <<parked, gone, conn, loop, new, stop>>

-----------------------------------------------------------------------------
(* Stop.                                                                   *)

StopSignals ==
  /\ stop = "no"
  /\ stop' = "signalled"
  /\ UNCHANGED <<connVars, conn, loop, new>>

(* listener.Close() resets the connections still in the backlog. *)
StopClosesListener ==
  /\ stop = "signalled"
  /\ stop' = "deaf"
  /\ st' = [c \in Conns |-> IF st[c] = "backlog" THEN "ended" ELSE st[c]]
  /\ UNCHANGED <<parked, gone, closed, done, conn, loop, new>>

(* Under connMu: close and cancel the current connection. *)
StopClosesConn ==
  /\ stop = "deaf"
  /\ closed' = WithCurrent(closed)
  /\ done' = WithCurrent(done)
  /\ stop' = "waiting"
  /\ UNCHANGED <<st, parked, gone, conn, loop, new>>

OnlyLoopCounted == loop = "returned"
WaitGroupZero   == loop = "returned" /\ \A c \in Conns : st[c] \notin {"serving", "closing"}

(* wg.Wait() returns; the socket file is removed. *)
StopReturns ==
  /\ stop = "waiting"
  /\ WaitGroupZero
  /\ stop' = "done"
  /\ UNCHANGED <<connVars, conn, loop, new>>

Loop == (\E c \in Conns : Accept(c)) \/ AcceptFails \/ Install \/ Spawn

Stop == StopClosesListener \/ StopClosesConn \/ StopReturns

Next ==
  \/ \E c \in Conns : Connect(c) \/ Listen(c) \/ HangUp(c)
  \/ Loop
  \/ \E c \in Conns : ServeReturns(c) \/ ConnectionEnds(c)
  \/ StopSignals \/ Stop

Spec == Init /\ [][Next]_vars

(* The server's goroutines run; clients do as they like. *)
FairSpec ==
  /\ Spec
  /\ WF_vars(Loop) /\ WF_vars(Stop)
  /\ \A c \in Conns : WF_vars(ServeReturns(c) \/ ConnectionEnds(c))

-----------------------------------------------------------------------------
(* Properties.                                                             *)

TypeOK ==
  /\ st \in [Conns -> {"none", "backlog", "accepted", "serving", "closing", "ended"}]
  /\ parked \subseteq Conns /\ gone \subseteq Conns
  /\ closed \subseteq Conns /\ done \subseteq Conns
  /\ conn \in Conns \cup {None} /\ new \in Conns \cup {None}
  /\ loop \in {"accept", "install", "spawn", "returned"}
  /\ stop \in {"no", "signalled", "deaf", "waiting", "done"}

(* "Only one connection is served at a time": of the connections being     *)
(* served all but t.conn are closed and cancelled, so their handlers are   *)
(* on their way out.                                                       *)
OneLiveConnection ==
  \A c \in Conns : st[c] = "serving" /\ c # conn => c \in closed /\ c \in done

(* After Stop has returned nothing of the transport runs, and no           *)
(* connection it had accepted is left open.                                *)
StopLeavesNothing ==
  stop = "done" => /\ loop = "returned"
                   /\ \A c \in Conns : st[c] \in {"none", "ended"}

(* A connection that is replaced ends, even with a listen request parked   *)
(* on it and a client that keeps the socket open.                          *)
ReplacedConnectionEnds ==
  \A c \in Conns : (st[c] = "serving" /\ conn # c) ~> st[c] = "ended"

(* Once Stop has cut the current connection, and unless the accept loop    *)
(* holds one that it has not installed yet, Stop returns.                  *)
StopCompletesUnraced ==
  (stop = "waiting" /\ loop \in {"accept", "returned"}
     /\ \A c \in Conns : st[c] \in {"serving", "closing"} => c \in closed /\ c \in done)
    ~> stop = "done"

(* Stop stops: it will "close any active connection and cancel its         *)
(* in-flight requests", and then return.                                   *)
StopCompletes == stop = "signalled" ~> stop = "done"
=============================================================================
