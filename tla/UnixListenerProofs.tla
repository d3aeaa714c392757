------------------------- MODULE UnixListenerProofs -------------------------
(***************************************************************************)
(* What holds of the UNIX-socket transport for any number of connections:  *)
(* proved with TLAPS from the specification of module UnixListener.        *)
(***************************************************************************)
EXTENDS UnixListener, TLAPS

(* The loop works on one accepted connection at a time, and installs it    *)
(* before its goroutine starts.                                            *)
AcceptedIsNew ==
  /\ loop \in {"install", "spawn"} => new \in Conns /\ st[new] = "accepted"
  /\ loop = "spawn" => conn = new
  /\ \A c \in Conns : st[c] = "accepted" => c = new /\ loop \in {"install", "spawn"}

(* Whatever is served and is not t.conn has been cut. *)
OthersCut ==
  \A c \in Conns : st[c] \in {"serving", "closing"} /\ c # conn => c \in closed /\ c \in done

(* A closed listener has no backlog. *)
NoBacklog == ~Listening => \A c \in Conns : st[c] # "backlog"

IInv == TypeOK /\ AcceptedIsNew /\ OthersCut /\ NoBacklog /\ StopLeavesNothing

LEMMA InitIInv == Init => IInv
  BY NoneIsNoConn
  DEF Init, IInv, TypeOK, AcceptedIsNew, OthersCut, NoBacklog, StopLeavesNothing, Listening, None

LEMMA NextIInv == IInv /\ [Next]_vars => IInv'
<1> SUFFICES ASSUME IInv, [Next]_vars PROVE IInv'
  OBVIOUS
<1> USE NoneIsNoConn
    DEF IInv, TypeOK, AcceptedIsNew, OthersCut, NoBacklog, StopLeavesNothing, Listening, None,
        connVars, Move
<1>1. ASSUME NEW c \in Conns, Connect(c) PROVE IInv'
  BY <1>1 DEF Connect
<1>2. ASSUME NEW c \in Conns, Listen(c) \/ HangUp(c) PROVE IInv'
  BY <1>2 DEF Listen, HangUp
<1>3. ASSUME NEW c \in Conns, Accept(c) PROVE IInv'
  BY <1>3 DEF Accept
<1>4. CASE AcceptFails
  BY <1>4 DEF AcceptFails, AfterAcceptError
<1>5. CASE Install
  BY <1>5 DEF Install, WithCurrent
<1>6. CASE Spawn
  BY <1>6 DEF Spawn
<1>7. ASSUME NEW c \in Conns, ServeReturns(c) PROVE IInv'
  BY <1>7 DEF ServeReturns
<1>8. ASSUME NEW c \in Conns, ConnectionEnds(c) PROVE IInv'
  BY <1>8 DEF ConnectionEnds
<1>9. CASE StopSignals
  BY <1>9 DEF StopSignals
<1>10. CASE StopClosesListener
  BY <1>10 DEF StopClosesListener
<1>11. CASE StopClosesConn
  BY <1>11 DEF StopClosesConn, WithCurrent
<1>12. CASE StopReturns
  BY <1>12 DEF StopReturns, WaitGroupZero
<1>13. CASE UNCHANGED vars
  BY <1>13 DEF vars
<1>14. QED
  BY <1>1, <1>2, <1>3, <1>4, <1>5, <1>6, <1>7, <1>8, <1>9, <1>10, <1>11, <1>12, <1>13
  DEF Next, Loop, Stop

LEMMA Invariant == Spec => []IInv
  BY InitIInv, NextIInv, PTL DEF Spec

(* The type invariant, for every reachable state. *)
THEOREM TypeCorrect == Spec => []TypeOK
<1>1. IInv => TypeOK
  BY DEF IInv
<1>2. QED
  BY <1>1, Invariant, PTL

(* However connections come, go and replace one another, at most t.conn is *)
(* served with its stream open and its context alive.                      *)
THEOREM OneLiveConnectionAlways == Spec => []OneLiveConnection
<1>1. IInv => OneLiveConnection
  BY DEF IInv, OthersCut, OneLiveConnection
<1>2. QED
  BY <1>1, Invariant, PTL

(* If Stop returns, the loop and every connection it accepted have ended.  *)
THEOREM StopAlwaysLeavesNothing == Spec => []StopLeavesNothing
<1>1. IInv => StopLeavesNothing
  BY DEF IInv
<1>2. QED
  BY <1>1, Invariant, PTL

-----------------------------------------------------------------------------
(* Stop and the race for t.conn.                                           *)

(* Stop waits for nothing but connections that have been cut: each can end *)
(* without its client, as ServeReturns asks for no more.                   *)
AllCut ==
  /\ stop = "waiting" /\ loop \in {"accept", "returned"}
  /\ \A c \in Conns : st[c] \in {"serving", "closing"} => c \in closed /\ c \in done

CutForGood ==
  /\ StopClosesConn /\ loop \in {"accept", "returned"} => AllCut'
  /\ AllCut => AllCut' \/ stop' = "done"

(* The race that unix_stop_race shows is the only one: when Stop looks at  *)
(* t.conn while the accept loop holds no connection, it has cut all that   *)
(* are served, and no later step of loop or clients adds one.  This is the *)
(* premise of StopCompletesUnraced.                                        *)
THEOREM OnlyAcceptedEscapesStop == Spec => [][CutForGood]_vars
<1>1. IInv /\ [Next]_vars => [CutForGood]_vars
  <2> SUFFICES ASSUME IInv, Next PROVE CutForGood
    BY DEF vars
  <2> USE NoneIsNoConn DEF IInv, TypeOK, OthersCut, AllCut, connVars, Move, None
  <2>1. ASSUME StopClosesConn, loop \in {"accept", "returned"} PROVE AllCut'
    BY <2>1 DEF StopClosesConn, WithCurrent
  <2>2. ASSUME AllCut PROVE AllCut' \/ stop' = "done"
    <3>1. ASSUME NEW c \in Conns, Connect(c) \/ Accept(c) PROVE FALSE
      BY <2>2, <3>1 DEF Connect, Accept, Listening
    <3>2. ASSUME NEW c \in Conns, Listen(c) \/ HangUp(c) PROVE AllCut'
      BY <2>2, <3>2 DEF Listen, HangUp
    <3>3. CASE AcceptFails \/ Install \/ Spawn
      BY <2>2, <3>3 DEF AcceptFails, AfterAcceptError, Install, Spawn
    <3>4. ASSUME NEW c \in Conns, ServeReturns(c) \/ ConnectionEnds(c) PROVE AllCut'
      BY <2>2, <3>4 DEF ServeReturns, ConnectionEnds
    <3>5. CASE StopSignals \/ Stop
      BY <2>2, <3>5 DEF StopSignals, Stop, StopClosesListener, StopClosesConn, StopReturns
    <3>6. QED
      BY <3>1, <3>2, <3>3, <3>4, <3>5 DEF Next, Loop
  <2>3. QED
    BY <2>1, <2>2 DEF CutForGood
<1>2. QED
  BY <1>1, Invariant, PTL DEF Spec
=============================================================================
