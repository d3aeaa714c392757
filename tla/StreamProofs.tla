---------------------------- MODULE StreamProofs ----------------------------
(***************************************************************************)
(* What holds of every connection, whatever the number of messages, ids,   *)
(* cancellations and pipe sizes: proved with TLAPS from the specification  *)
(* of module Stream.                                                       *)
(***************************************************************************)
EXTENDS Stream, SequenceTheorems, TLAPS

(* The locals of the read loop are what its program counter says. *)
LocalsOK ==
  /\ pc = "dispatch" => line \in [kind: {"msg"}, req: Reqs]
  /\ pc = "lookup" => line \in [kind: {"cancel"}, id: Ids]
  /\ pc = "fire" => target \in Reqs

Typed == TypeOK /\ LocalsOK

LEMMA InitTyped == Init => Typed
  BY ConstantsOK DEF Init, Typed, TypeOK, LocalsOK, Newline, Chunks, Free, None

LEMMA NextTyped == Typed /\ [Next]_vars => Typed'
<1> SUFFICES ASSUME Typed, [Next]_vars PROVE Typed'
  OBVIOUS
<1> USE ConstantsOK, NamesDiffer DEF Typed, TypeOK, LocalsOK, clientVars, pipeVars, loopVars, reqVars
<1>1. ASSUME NEW r \in Reqs, SendMessage(r) PROVE Typed'
  BY <1>1 DEF SendMessage, Send, Lines
<1>2. ASSUME NEW i \in Cancellable, SendCancel(i) PROVE Typed'
  BY <1>2 DEF SendCancel, Send, Lines
<1>3. ASSUME NEW k \in BadLines, SendBad(k) PROVE Typed'
  BY <1>3 DEF SendBad, Send, Lines
<1>4. CASE HangUp \/ StopReading
  BY <1>4 DEF HangUp, StopReading
<1>5. CASE Receive
  BY <1>5 DEF Receive
<1>6. CASE Scan
  <2>1. /\ input' \in Seq(Lines) /\ line' \in Lines
        /\ pc' \in {"wait", "error", "lookup", "dispatch"}
        /\ pc' = "lookup" => line'.kind = "cancel"
        /\ pc' = "dispatch" => line'.kind \notin {"cancel", "garbage", "overlong"}
    BY <1>6 DEF Scan, Scanning
  <2>2. ASSUME NEW l \in Lines
        PROVE  /\ l.kind = "cancel" => l \in [kind: {"cancel"}, id: Ids]
               /\ l.kind \notin {"cancel", "garbage", "overlong"} => l \in [kind: {"msg"}, req: Reqs]
    BY DEF Lines
  <2>3. UNCHANGED <<clientVars, out, last, got, writeMu, target, reqVars, stop>>
    BY <1>6 DEF Scan
  <2>4. QED
    BY <2>1, <2>2, <2>3
<1>7. CASE ScanEnds
  BY <1>7 DEF ScanEnds, Step
<1>8. CASE ReplyParseError
  <2>1. out' \in Seq(Chunks) /\ writeMu' \in Reqs \cup {"loop", Free}
    <3>1. [src |-> "loop", what |-> "error"] \in Chunks /\ Newline \in Chunks
      BY DEF Chunks
    <3>2. out \in Seq(Chunks) /\ \A c \in Chunks : Append(out, c) \in Seq(Chunks)
      OBVIOUS
    <3>3. \/ out' = out \/ out' = Append(out, Newline)
          \/ out' = Append(out, [src |-> "loop", what |-> "error"])
      BY <1>8 DEF ReplyParseError, WriteBody, WriteNewline, WriteFails
    <3>4. writeMu' \in Reqs \cup {"loop", Free}
      BY <1>8 DEF ReplyParseError, WriteBody, WriteNewline, WriteFails
    <3>5. QED
      BY ONLY <3>1, <3>2, <3>3, <3>4
  <2>2. /\ pc' \in {"scan", "errorNL"}
        /\ line' \in Lines \cup {NoLine} /\ target' \in Reqs \cup {None}
    BY <1>8 DEF ReplyParseError, Step, NextLine
  <2>3. UNCHANGED <<clientVars, input, last, got, reqVars, stop>>
    BY <1>8 DEF ReplyParseError
  <2>4. QED
    BY <2>1, <2>2, <2>3
<1>9. CASE LookupCancel
  BY <1>9 DEF LookupCancel, Found, NextLine, None
<1>10. CASE FireCancel
  BY <1>10 DEF FireCancel, NowCancelled, NextLine, None
<1>11. CASE Dispatch
  BY <1>11 DEF Dispatch, Filed, NextLine, None, IsRequest
<1>12. CASE ServeReturns
  BY <1>12 DEF ServeReturns, Step
<1>13. ASSUME NEW r \in Reqs, HandlerBody(r) PROVE Typed'
  BY <1>13 DEF HandlerBody, WriteBody, Newlines, Goto, Chunks
<1>14. ASSUME NEW r \in Reqs, HandlerNewline(r) PROVE Typed'
  BY <1>14 DEF HandlerNewline, WriteNewline, Goto, Chunks
<1>15. ASSUME NEW r \in Reqs, HandlerWriteFails(r) PROVE Typed'
  BY <1>15 DEF HandlerWriteFails, WriteFails, Goto
<1>16. ASSUME NEW r \in Reqs, RelayEvent(r) PROVE Typed'
  BY <1>16 DEF RelayEvent, Goto
<1>17. ASSUME NEW r \in Reqs, ListenEnds(r) PROVE Typed'
  BY <1>17 DEF ListenEnds, Goto
<1>18. ASSUME NEW r \in Reqs, Cleanup(r) PROVE Typed'
  <2>1. inflight' \in [Ids -> Reqs \cup {None}] /\ cancelled' \subseteq Reqs
    BY <1>18 DEF Cleanup, Unfiled, IsRequest
  <2>2. h' = [h EXCEPT ![r] = "done"]
    BY <1>18 DEF Cleanup, Goto
  <2>3. UNCHANGED <<clientVars, pipeVars, loopVars, stop>>
    BY <1>18 DEF Cleanup
  <2>4. QED
    BY <2>1, <2>2, <2>3
<1>19. CASE Stopper
  BY <1>19 DEF Stopper, StopCloses, StopCancels, StopReturns
<1>20. CASE UNCHANGED vars
  BY <1>20 DEF vars
<1>21. QED
  BY <1>1, <1>2, <1>3, <1>4, <1>5, <1>6, <1>7, <1>8, <1>9, <1>10, <1>11, <1>12, <1>13, <1>14,
     <1>15, <1>16, <1>17, <1>18, <1>19, <1>20 DEF Next, Client, Loop, Handler

(* The type invariant, for every reachable state. *)
THEOREM TypeCorrect == Spec => []TypeOK
<1>1. Init => Typed
  BY InitTyped
<1>2. Typed /\ [Next]_vars => Typed'
  BY NextTyped
<1>3. Typed => TypeOK
  BY DEF Typed
<1>4. QED
  BY <1>1, <1>2, <1>3, PTL DEF Spec

-----------------------------------------------------------------------------
(* The table of CancelFuncs.  NoStaleEntries is inductive by itself; its   *)
(* converse, Filed for as long as it runs, needs that no two requests with *)
(* one id run at the same time.                                            *)

FiledWhileRunning ==
  \A r \in Reqs : IsRequest(r) /\ Running(r) => inflight[IdOf[r]] = r

NoOverlap ==
  \A r, s \in Reqs :
    IsRequest(r) /\ IdOf[r] = IdOf[s] /\ Running(r) /\ Running(s) => r = s

LEMMA OnlyTheseTouchTheTable ==
  ASSUME [Next]_vars, ~Dispatch, \A r \in Reqs : ~Cleanup(r), Typed
  PROVE  inflight' = inflight /\ \A r \in Reqs : Running(r)' = Running(r)
<1> USE DEF clientVars, pipeVars, loopVars, reqVars, Running
<1>1. CASE Client
  BY <1>1 DEF Client, SendMessage, SendCancel, SendBad, Send, HangUp, StopReading, Receive
<1>2. CASE Loop
  BY <1>2 DEF Loop, Scan, ScanEnds, ReplyParseError, LookupCancel, FireCancel, ServeReturns
<1>3. ASSUME NEW q \in Reqs, Handler(q)
      PROVE  inflight' = inflight /\ \A r \in Reqs : Running(r)' = Running(r)
  BY <1>3 DEF Typed, TypeOK, Handler, HandlerBody, HandlerNewline, HandlerWriteFails, RelayEvent,
              ListenEnds, Goto, Newlines
<1>4. CASE Stopper
  BY <1>4 DEF Stopper, StopCloses, StopCancels, StopReturns
<1>5. CASE UNCHANGED vars
  BY <1>5 DEF vars
<1>6. QED
  BY <1>1, <1>2, <1>3, <1>4, <1>5 DEF Next

(* What filing and starting a request changes. *)
LEMMA DispatchStep ==
  ASSUME Typed, Dispatch
  PROVE  LET q == line.req
         IN /\ q \in Reqs
            /\ h' = [h EXCEPT ![q] = h'[q]] /\ h'[q] \in {"ack", "resp", "back"}
            /\ inflight' = IF IsRequest(q) THEN [inflight EXCEPT ![IdOf[q]] = q] ELSE inflight
<1> DEFINE q == line.req
           start == IF q \in Listens THEN "ack" ELSE IF IsRequest(q) THEN "resp" ELSE "back"
<1>1. q \in Reqs /\ h \in [Reqs -> {"idle", "resp", "respNL", "ack", "ackNL", "relay", "note",
                                   "noteNL", "back", "done"}]
  BY DEF Dispatch, Typed, TypeOK, LocalsOK
<1>2. h' = [h EXCEPT ![q] = start]
  BY DEF Dispatch
<1>3. start \in {"ack", "resp", "back"}
  OBVIOUS
<1>4. h'[q] = start
  BY ONLY <1>1, <1>2
<1>5. inflight' = IF IsRequest(q) THEN [inflight EXCEPT ![IdOf[q]] = q] ELSE inflight
  BY DEF Dispatch, Filed
<1> HIDE DEF q, start
<1>6. QED
  BY <1>1, <1>2, <1>3, <1>4, <1>5 DEF q

LEMMA NextTable ==
  Typed /\ NoStaleEntries /\ [Next]_vars => NoStaleEntries'
<1> SUFFICES ASSUME Typed, NoStaleEntries, [Next]_vars PROVE NoStaleEntries'
  OBVIOUS
<1> USE ConstantsOK, NamesDiffer DEF Typed, TypeOK, NoStaleEntries, Running, IsRequest, None
<1>1. CASE Dispatch
  <2> DEFINE q == line.req
  <2>1. q \in Reqs
    BY <1>1, DispatchStep
  <2>2. /\ h' = [h EXCEPT ![q] = h'[q]] /\ h'[q] \in {"ack", "resp", "back"}
        /\ inflight' = IF IsRequest(q) THEN [inflight EXCEPT ![IdOf[q]] = q] ELSE inflight
    BY <1>1, DispatchStep
  <2>3. QED
    BY <2>1, <2>2
<1>2. ASSUME NEW q \in Reqs, Cleanup(q) PROVE NoStaleEntries'
  <2>1. /\ h' = [h EXCEPT ![q] = "done"]
        /\ inflight' = IF IsRequest(q) THEN [inflight EXCEPT ![IdOf[q]] = None] ELSE inflight
    BY <1>2 DEF Cleanup, Goto, Unfiled
  <2>2. QED
    BY <2>1
<1>3. CASE ~Dispatch /\ \A r \in Reqs : ~Cleanup(r)
  BY <1>3, OnlyTheseTouchTheTable
<1>4. QED
  BY <1>1, <1>2, <1>3

LEMMA NextFiled ==
  Typed /\ FiledWhileRunning /\ NoOverlap /\ NoOverlap' /\ [Next]_vars => FiledWhileRunning'
<1> SUFFICES ASSUME Typed, FiledWhileRunning, NoOverlap, NoOverlap', [Next]_vars
             PROVE  FiledWhileRunning'
  OBVIOUS
<1> USE ConstantsOK, NamesDiffer DEF Typed, TypeOK, FiledWhileRunning, Running, IsRequest, NoOverlap
<1>1. CASE Dispatch
  <2> DEFINE q == line.req
  <2>1. q \in Reqs
    BY <1>1, DispatchStep
  <2>2. /\ h' = [h EXCEPT ![q] = h'[q]] /\ h'[q] \in {"ack", "resp", "back"}
        /\ inflight' = IF IsRequest(q) THEN [inflight EXCEPT ![IdOf[q]] = q] ELSE inflight
    BY <1>1, DispatchStep
  <2>3. ASSUME NEW r \in Reqs, IdOf[r] # NoId, h'[r] \notin {"idle", "done"}
        PROVE  inflight'[IdOf[r]] = r
    <3>1. CASE r = q
      BY <2>1, <2>2, <2>3, <3>1
    <3>2. CASE r # q
      <4>1. inflight[IdOf[r]] = r
        BY <2>1, <2>2, <2>3, <3>2
      <4>2. IdOf[q] # NoId => IdOf[r] # IdOf[q]
        BY <2>1, <2>2, <2>3, <3>2
      <4>3. QED
        BY <2>1, <2>2, <2>3, <4>1, <4>2
    <3>3. QED
      BY <3>1, <3>2
  <2>4. QED
    BY <2>3
<1>2. ASSUME NEW q \in Reqs, Cleanup(q) PROVE FiledWhileRunning'
  <2>1. /\ h' = [h EXCEPT ![q] = "done"] /\ h[q] = "back"
        /\ inflight' = IF IsRequest(q) THEN [inflight EXCEPT ![IdOf[q]] = None] ELSE inflight
    BY <1>2 DEF Cleanup, Goto, Unfiled
  <2>2. ASSUME NEW r \in Reqs, IdOf[r] # NoId, h'[r] \notin {"idle", "done"}
        PROVE  inflight'[IdOf[r]] = r
    <3>1. r # q /\ h'[r] = h[r]
      BY <2>1, <2>2
    <3>2. inflight[IdOf[r]] = r /\ IdOf[q] # IdOf[r]
      BY <2>1, <2>2, <3>1
    <3>3. QED
      BY <2>1, <2>2, <3>1, <3>2
  <2>3. QED
    BY <2>2
<1>3. CASE ~Dispatch /\ \A r \in Reqs : ~Cleanup(r)
  BY <1>3, OnlyTheseTouchTheTable
<1>4. QED
  BY <1>1, <1>2, <1>3

(* A connection accumulates no table entries, whatever ids are reused. *)
THEOREM TableHasNoStaleEntries == Spec => []NoStaleEntries
<1>1. Init => Typed /\ NoStaleEntries
  BY InitTyped DEF Init, NoStaleEntries
<1>2. Typed /\ NoStaleEntries /\ [Next]_vars => (Typed /\ NoStaleEntries)'
  BY NextTyped, NextTable
<1>3. QED
  BY <1>1, <1>2, PTL DEF Spec

(* A cancellation finds every request that still runs, as long as a client *)
(* starts none under an id whose last request has not been cleaned up yet: *)
(* having read the response is not enough.                                 *)
THEOREM CancelFindsUnlessOverlapped == Spec /\ []NoOverlap => []CancelFindsRequest
<1>1. Init => Typed /\ FiledWhileRunning
  BY InitTyped DEF Init, FiledWhileRunning, Running
<1>2. Typed /\ FiledWhileRunning /\ NoOverlap /\ NoOverlap' /\ [Next]_vars
        => (Typed /\ FiledWhileRunning)'
  BY NextTyped, NextFiled
<1>3. Typed /\ FiledWhileRunning => CancelFindsRequest
  BY ConstantsOK DEF Typed, LocalsOK, FiledWhileRunning, CancelFindsRequest, IsRequest
<1>4. QED
  BY <1>1, <1>2, <1>3, PTL DEF Spec

(* With unique ids, cancelling finds every request that still runs. *)
THEOREM CancelAlwaysFinds ==
  ASSUME UniqueIds
  PROVE  Spec => []CancelFindsRequest
<1>1. NoOverlap
  BY DEF NoOverlap, UniqueIds
<1>2. QED
  BY <1>1, CancelFindsUnlessOverlapped, PTL

-----------------------------------------------------------------------------
(* Every message is dispatched once: it is sent once, and the pipe and the *)
(* loop hand it on without duplicating it.                                 *)

Msg(r) == [kind |-> "msg", req |-> r]

DispatchedOnce ==
  /\ \A r \in Reqs : h[r] # "idle" => r \in sent
  /\ \A r \in Reqs : \A k \in 1 .. Len(input) :
       input[k] = Msg(r) => r \in sent /\ h[r] = "idle"
  /\ \A r \in Reqs : \A j, k \in 1 .. Len(input) : input[j] = Msg(r) /\ input[k] = Msg(r) => j = k
  /\ \A r \in Reqs : pc = "dispatch" /\ line = Msg(r) =>
       r \in sent /\ h[r] = "idle" /\ \A k \in 1 .. Len(input) : input[k] # Msg(r)

(* Whoever has written a message without its newline holds writeMu. *)
MidLine == {"respNL", "ackNL", "noteNL"}

MutexOK ==
  /\ \A r \in Reqs : h[r] \in MidLine <=> writeMu = r
  /\ pc = "errorNL" <=> writeMu = "loop"

(* When serve has returned, no goroutine of it is left. *)
NoneLeft == pc = "returned" => \A r \in Reqs : h[r] \in {"idle", "done"}

LEMMA NextDispatchedOnce == Typed /\ DispatchedOnce /\ [Next]_vars => DispatchedOnce'
<1> SUFFICES ASSUME Typed, DispatchedOnce, [Next]_vars PROVE DispatchedOnce'
  OBVIOUS
<1> USE ConstantsOK DEF Typed, TypeOK, LocalsOK, DispatchedOnce, Msg,
        clientVars, pipeVars, loopVars, reqVars
<1>1. ASSUME NEW r \in Reqs, SendMessage(r) PROVE DispatchedOnce'
  <2>1. /\ r \notin sent /\ sent' = sent \cup {r}
        /\ input' = Append(input, Msg(r))
        /\ UNCHANGED <<h, pc, line>>
    BY <1>1 DEF SendMessage, Send
  <2>2. /\ Len(input') = Len(input) + 1 /\ input'[Len(input) + 1] = Msg(r)
        /\ \A k \in 1 .. Len(input) : input'[k] = input[k]
    BY <2>1
  <2>3. QED
    BY <2>1, <2>2
<1>2. CASE \/ \E i \in Cancellable : SendCancel(i)
           \/ \E k \in BadLines : SendBad(k)
  <2>1. PICK l : /\ input' = Append(input, l) /\ l.kind # "msg" /\ l \in Lines
                 /\ UNCHANGED <<sent, h, pc, line>>
    BY <1>2 DEF SendCancel, SendBad, Send, Lines
  <2>2. /\ Len(input') = Len(input) + 1 /\ input'[Len(input) + 1] = l
        /\ \A k \in 1 .. Len(input) : input'[k] = input[k]
    BY <2>1
  <2>3. \A r \in Reqs : l # Msg(r)
    BY <2>1
  <2>4. QED
    BY <2>1, <2>2, <2>3
<1>3. CASE Scan
  <2>1. /\ input # <<>> /\ input' = Tail(input) /\ line' = input[1]
        /\ UNCHANGED <<sent, h>>
    BY <1>3 DEF Scan
  <2>2. /\ Len(input') = Len(input) - 1 /\ Len(input) \in Nat \ {0}
        /\ \A k \in 1 .. Len(input') : input'[k] = input[k + 1]
    BY <2>1
  <2>3. QED
    BY <2>1, <2>2
<1>4. CASE Dispatch
  <2>1. PICK q \in Reqs : line = Msg(q)
    BY <1>4 DEF Dispatch
  <2>2. /\ pc = "dispatch" /\ pc' = "scan"
        /\ \A r \in Reqs \ {q} : h'[r] = h[r]
        /\ UNCHANGED <<sent, input>>
    BY <1>4, <2>1 DEF Dispatch, NextLine
  <2>3. QED
    BY <2>1, <2>2
<1>5. ASSUME NEW q \in Reqs, Handler(q) PROVE DispatchedOnce'
  <2>1. /\ h[q] # "idle" /\ \A r \in Reqs \ {q} : h'[r] = h[r]
        /\ UNCHANGED <<sent, input, pc, line>>
    BY <1>5 DEF Handler, HandlerBody, HandlerNewline, HandlerWriteFails, RelayEvent, ListenEnds,
                Cleanup, Goto, Newlines
  <2>2. QED
    BY <2>1
<1>6. CASE HangUp \/ StopReading \/ Receive \/ Stopper
  BY <1>6 DEF HangUp, StopReading, Receive, Stopper, StopCloses, StopCancels, StopReturns
<1>7. CASE ScanEnds \/ ReplyParseError \/ LookupCancel \/ FireCancel \/ ServeReturns
  <2>1. pc' # "dispatch" /\ UNCHANGED <<sent, input, h>>
    BY <1>7 DEF ScanEnds, ReplyParseError, LookupCancel, FireCancel, ServeReturns, Step, NextLine
  <2>2. QED
    BY <2>1
<1>8. CASE UNCHANGED vars
  BY <1>8 DEF vars
<1>9. QED
  BY <1>1, <1>2, <1>3, <1>4, <1>5, <1>6, <1>7, <1>8 DEF Next, Client, Loop

LEMMA NextMutexOK == Typed /\ DispatchedOnce /\ MutexOK /\ [Next]_vars => MutexOK'
<1> SUFFICES ASSUME Typed, DispatchedOnce, MutexOK, [Next]_vars PROVE MutexOK'
  OBVIOUS
<1> USE ConstantsOK, NamesDiffer DEF Typed, TypeOK, MutexOK, MidLine, Free,
        clientVars, pipeVars, loopVars, reqVars
<1>1. CASE Client
  BY <1>1 DEF Client, SendMessage, SendCancel, SendBad, Send, HangUp, StopReading, Receive
<1>2. CASE ReplyParseError
  BY <1>2 DEF ReplyParseError, WriteBody, WriteNewline, WriteFails, Step, NextLine
<1>3. CASE Dispatch
  <2>1. PICK q \in Reqs : line = Msg(q)
    BY <1>3 DEF Dispatch, LocalsOK, Msg
  <2>2. /\ h[q] = "idle" /\ h'[q] \in {"ack", "resp", "back"}
        /\ \A r \in Reqs \ {q} : h'[r] = h[r]
        /\ pc = "dispatch" /\ pc' = "scan" /\ UNCHANGED writeMu
    BY <1>3, <2>1 DEF Dispatch, NextLine, DispatchedOnce, Msg
  <2>3. QED
    BY <2>1, <2>2
<1>4. CASE Scan \/ ScanEnds \/ LookupCancel \/ FireCancel \/ ServeReturns
  <2>1. pc # "errorNL" /\ pc' # "errorNL" /\ UNCHANGED <<h, writeMu>>
    BY <1>4 DEF Scan, ScanEnds, LookupCancel, FireCancel, ServeReturns, Scanning, Step, NextLine
  <2>2. QED
    BY <2>1
<1>5. ASSUME NEW q \in Reqs, HandlerBody(q) PROVE MutexOK'
  <2>1. /\ writeMu = Free /\ writeMu' = q /\ h'[q] \in MidLine /\ UNCHANGED pc
        /\ \A r \in Reqs \ {q} : h'[r] = h[r]
    BY <1>5 DEF HandlerBody, WriteBody, Goto, Newlines
  <2>2. QED
    BY <2>1
<1>6. ASSUME NEW q \in Reqs, HandlerNewline(q) \/ HandlerWriteFails(q) PROVE MutexOK'
  <2>1. /\ writeMu \in {Free, q} /\ writeMu' = Free /\ h'[q] \notin MidLine /\ UNCHANGED pc
        /\ \A r \in Reqs \ {q} : h'[r] = h[r]
    BY <1>6 DEF HandlerNewline, HandlerWriteFails, WriteNewline, WriteFails, Goto
  <2>2. Free \notin Reqs /\ Free # "loop" /\ q # "loop"
    OBVIOUS
  <2>3. ASSUME NEW r \in Reqs PROVE h'[r] \notin MidLine
    BY <2>1, <2>2, <2>3
  <2>4. pc' # "errorNL"
    BY <2>1, <2>2
  <2>5. QED
    BY <2>1, <2>2, <2>3, <2>4
<1>7. ASSUME NEW q \in Reqs, RelayEvent(q) \/ ListenEnds(q) \/ Cleanup(q) PROVE MutexOK'
  <2>1. /\ h[q] \notin MidLine /\ h'[q] \notin MidLine /\ UNCHANGED <<pc, writeMu>>
        /\ \A r \in Reqs \ {q} : h'[r] = h[r]
    BY <1>7 DEF RelayEvent, ListenEnds, Cleanup, Goto
  <2>2. QED
    BY <2>1
<1>8. CASE Stopper
  BY <1>8 DEF Stopper, StopCloses, StopCancels, StopReturns
<1>9. CASE UNCHANGED vars
  BY <1>9 DEF vars
<1>10. QED
  BY <1>1, <1>2, <1>3, <1>4, <1>5, <1>6, <1>7, <1>8, <1>9 DEF Next, Loop, Handler

LEMMA NextNoneLeft == Typed /\ NoneLeft /\ [Next]_vars => NoneLeft'
<1> SUFFICES ASSUME Typed, NoneLeft, [Next]_vars PROVE NoneLeft'
  OBVIOUS
<1> USE DEF Typed, TypeOK, NoneLeft, clientVars, pipeVars, loopVars, reqVars
<1>1. CASE Client
  BY <1>1 DEF Client, SendMessage, SendCancel, SendBad, Send, HangUp, StopReading, Receive
<1>2. CASE ServeReturns
  BY <1>2 DEF ServeReturns, AllDone, Finished
<1>3. CASE Scan \/ ScanEnds \/ ReplyParseError \/ LookupCancel \/ FireCancel \/ Dispatch
  <2>1. pc' # "returned"
    BY <1>3 DEF Scan, ScanEnds, ReplyParseError, LookupCancel, FireCancel, Dispatch, Step, NextLine
  <2>2. QED
    BY <2>1
<1>4. ASSUME NEW q \in Reqs, Handler(q) PROVE NoneLeft'
  <2>1. h[q] \notin {"idle", "done"} /\ UNCHANGED pc
    BY <1>4 DEF Handler, HandlerBody, HandlerNewline, HandlerWriteFails, RelayEvent, ListenEnds,
                Cleanup, Newlines
  <2>2. QED
    BY <2>1
<1>5. CASE Stopper
  BY <1>5 DEF Stopper, StopCloses, StopCancels, StopReturns
<1>6. CASE UNCHANGED vars
  BY <1>6 DEF vars
<1>7. QED
  BY <1>1, <1>2, <1>3, <1>4, <1>5, <1>6 DEF Next, Loop

(* serve leaves no goroutine, no held mutex and no table entry behind. *)
THEOREM ServeAlwaysWaits == Spec => []ServeWaits
<1> DEFINE Inv == Typed /\ NoStaleEntries /\ DispatchedOnce /\ MutexOK /\ NoneLeft
<1>1. Init => Inv
  BY InitTyped, NamesDiffer
  DEF Init, NoStaleEntries, DispatchedOnce, MutexOK, MidLine, NoneLeft, Free, None
<1>2. Inv /\ [Next]_vars => Inv'
  BY NextTyped, NextTable, NextDispatchedOnce, NextMutexOK, NextNoneLeft
<1>3. Inv => ServeWaits
  <2> SUFFICES ASSUME Inv, pc = "returned"
               PROVE  /\ \A r \in Reqs : h[r] \in {"idle", "done"}
                      /\ writeMu = Free
                      /\ \A i \in Ids : inflight[i] = None
    BY DEF ServeWaits
  <2>1. \A r \in Reqs : h[r] \in {"idle", "done"}
    BY DEF NoneLeft
  <2>2. writeMu \in Reqs \cup {"loop", Free} /\ inflight \in [Ids -> Reqs \cup {None}]
    BY DEF Typed, TypeOK
  <2>3. writeMu = Free
    BY <2>1, <2>2 DEF MutexOK, MidLine
  <2>4. \A i \in Ids : inflight[i] = None
    BY <2>1, <2>2 DEF NoStaleEntries, Running
  <2>5. QED
    BY <2>1, <2>3, <2>4
<1>4. QED
  BY <1>1, <1>2, <1>3, PTL DEF Spec
-----------------------------------------------------------------------------
(* The byte stream.  Alternating says of last and out what Framed says of  *)
(* their concatenation; as long as the stream is whole, writeMu is free    *)
(* exactly between lines.                                                  *)

Alternating ==
  /\ out # <<>> => (last = Newline <=> out[1] # Newline)
  /\ \A i \in 1 .. Len(out) - 1 : out[i] = Newline <=> out[i + 1] # Newline

LastChunk == IF out = <<>> THEN last ELSE out[Len(out)]

BetweenLines == ~Broken => (LastChunk = Newline <=> writeMu = Free)

LEMMA AlternatingIsFramed == Typed /\ Alternating => Framed
<1> SUFFICES ASSUME Typed, Alternating, NEW i \in 1 .. Len(out)
             PROVE  LET s == <<last>> \o out IN (s[i] = Newline) # (s[i + 1] = Newline)
  BY DEF Framed
<1> DEFINE s == <<last>> \o out
<1>1. out \in Seq(Chunks) /\ <<last>> \in Seq(Chunks) /\ Len(<<last>>) = 1
  BY DEF Typed, TypeOK
<1>2. Len(out) \in Nat /\ i \in Nat /\ 1 <= i /\ i <= Len(out)
  BY <1>1
<1>3. s[i + 1] = out[i]
  BY <1>1, <1>2
<1>4. s[i] = IF i = 1 THEN last ELSE out[i - 1]
  BY <1>1, <1>2
<1>5. CASE i = 1
  BY <1>1, <1>2, <1>3, <1>4, <1>5 DEF Alternating
<1>6. CASE i # 1
  <2>1. i - 1 \in 1 .. Len(out) - 1 /\ (i - 1) + 1 = i
    BY <1>2, <1>6
  <2>2. out[i - 1] = Newline <=> out[i] # Newline
    BY <2>1 DEF Alternating
  <2>3. QED
    BY <1>3, <1>4, <1>6, <2>2
<1>7. QED
  BY <1>5, <1>6

LEMMA AppendAlternates ==
  ASSUME Typed, Alternating, NEW c \in Chunks,
         LastChunk = Newline <=> c # Newline,
         out' = Append(out, c), last' = last
  PROVE  Alternating' /\ LastChunk' = c
<1>1. out \in Seq(Chunks)
  BY DEF Typed, TypeOK
<1>2. /\ Len(out) \in Nat /\ Len(out') = Len(out) + 1 /\ out'[Len(out) + 1] = c
      /\ \A i \in 1 .. Len(out) : out'[i] = out[i]
  BY <1>1
<1>3. CASE out = <<>>
  BY <1>2, <1>3 DEF Alternating, LastChunk, Newline
<1>4. CASE out # <<>>
  <2>1. Len(out) >= 1
    BY <1>1, <1>4
  <2>2. ASSUME NEW i \in 1 .. Len(out') - 1
        PROVE  out'[i] = Newline <=> out'[i + 1] # Newline
    <3>1. CASE i = Len(out)
      BY <1>2, <1>4, <3>1, <2>1 DEF LastChunk, Newline
    <3>2. CASE i # Len(out)
      <4>1. i \in 1 .. Len(out) - 1 /\ i + 1 \in 1 .. Len(out)
        BY <1>2, <2>2, <3>2
      <4>2. QED
        BY <1>2, <4>1 DEF Alternating, Newline
    <3>3. QED
      BY <3>1, <3>2
  <2>3. QED
    BY <1>2, <1>4, <2>1, <2>2 DEF Alternating, LastChunk, Newline
<1>5. QED
  BY <1>3, <1>4

(* A break of the stream is for good. *)
LEMMA BrokenStays == Broken /\ [Next]_vars => Broken'
<1> SUFFICES ASSUME Broken, [Next]_vars PROVE Broken'
  OBVIOUS
<1> USE DEF Broken, Closed, clientVars, pipeVars, loopVars, reqVars
<1>1. CASE Client
  BY <1>1 DEF Client, SendMessage, SendCancel, SendBad, Send, HangUp, StopReading, Receive
<1>2. CASE Loop
  BY <1>2 DEF Loop, Scan, ScanEnds, ReplyParseError, LookupCancel, FireCancel, Dispatch,
              ServeReturns
<1>3. ASSUME NEW q \in Reqs, Handler(q) PROVE Broken'
  BY <1>3 DEF Handler, HandlerBody, HandlerNewline, HandlerWriteFails, RelayEvent, ListenEnds, Cleanup
<1>4. CASE Stopper
  BY <1>4 DEF Stopper, StopCloses, StopCancels, StopReturns
<1>5. CASE UNCHANGED vars
  BY <1>5 DEF vars
<1>6. QED
  BY <1>1, <1>2, <1>3, <1>4, <1>5 DEF Next

LEMMA WriteKeepsLines ==
  ASSUME Typed, Alternating, BetweenLines, [Next]_vars, last' = last,
         NEW p \in Reqs \cup {"loop"}, NEW what, [src |-> p, what |-> what] \in Chunks,
         what # "newline",
         WriteBody(p, what) \/ WriteNewline(p) \/ WriteFails(p)
  PROVE  Alternating' /\ BetweenLines'
<1> p # Free
  BY NamesDiffer DEF Free
<1>1. CASE WriteBody(p, what)
  <2>1. [src |-> p, what |-> what] # Newline
    BY DEF Newline
  <2>2. LastChunk = Newline /\ out' = Append(out, [src |-> p, what |-> what]) /\ writeMu' # Free
    BY <1>1 DEF WriteBody, BetweenLines
  <2>3. QED
    BY <2>1, <2>2, AppendAlternates DEF BetweenLines, Newline
<1>2. CASE WriteNewline(p)
  <2>1. LastChunk # Newline /\ out' = Append(out, Newline) /\ writeMu' = Free
    BY <1>2 DEF WriteNewline, BetweenLines
  <2>2. Newline \in Chunks
    BY DEF Chunks
  <2>3. QED
    BY <2>1, <2>2, AppendAlternates DEF BetweenLines, Newline
<1>3. CASE WriteFails(p)
  <2>1. Broken' /\ out' = out
    BY <1>3, BrokenStays DEF WriteFails
  <2>2. QED
    BY <2>1 DEF Alternating, BetweenLines, Newline
<1>4. QED
  BY <1>1, <1>2, <1>3

LEMMA NextAlternates ==
  Typed /\ MutexOK /\ Alternating /\ BetweenLines /\ [Next]_vars => Alternating' /\ BetweenLines'
<1> SUFFICES ASSUME Typed, MutexOK, Alternating, BetweenLines, [Next]_vars
             PROVE  Alternating' /\ BetweenLines'
  OBVIOUS
<1> USE DEF clientVars, pipeVars, loopVars, reqVars
<1>1. CASE UNCHANGED <<out, last, writeMu>>
  BY <1>1, BrokenStays DEF Alternating, LastChunk, BetweenLines, Newline
<1>2. CASE Receive
  <2>1. /\ out \in Seq(Chunks) /\ out # <<>> /\ out' = Tail(out) /\ last' = out[1]
        /\ writeMu' = writeMu /\ Broken' = Broken
    BY <1>2 DEF Receive, Typed, TypeOK, Broken, Closed
  <2>2. /\ Len(out) \in Nat \ {0} /\ Len(out') = Len(out) - 1
        /\ \A i \in 1 .. Len(out') : out'[i] = out[i + 1]
    BY <2>1
  <2>3. LastChunk' = LastChunk
    <3>1. CASE Len(out) = 1
      <4>1. out' = <<>>
        BY <2>1, <2>2, <3>1
      <4>2. QED
        BY <2>1, <3>1, <4>1 DEF LastChunk
    <3>2. CASE Len(out) # 1
      <4>1. Len(out') \in 1 .. Len(out') /\ Len(out') + 1 = Len(out)
        BY <2>2, <3>2
      <4>2. out' # <<>>
        BY <4>1
      <4>3. out'[Len(out')] = out[Len(out)]
        BY <2>2, <4>1
      <4>4. QED
        BY <2>1, <4>2, <4>3 DEF LastChunk
    <3>3. QED
      BY <3>1, <3>2
  <2>4. out' # <<>> => (last' = Newline <=> out'[1] # Newline)
    BY <2>1, <2>2 DEF Alternating
  <2>5. ASSUME NEW i \in 1 .. Len(out') - 1
        PROVE  out'[i] = Newline <=> out'[i + 1] # Newline
    <3>1. i + 1 \in 1 .. Len(out) - 1 /\ i \in 1 .. Len(out') /\ i + 1 \in 1 .. Len(out')
      BY <2>2, <2>5
    <3>2. QED
      BY <2>2, <3>1 DEF Alternating
  <2>6. QED
    BY <2>1, <2>3, <2>4, <2>5 DEF Alternating, BetweenLines, Newline
<1>3. CASE ReplyParseError
  <2>1. /\ last' = last /\ [src |-> "loop", what |-> "error"] \in Chunks
        /\ WriteBody("loop", "error") \/ WriteNewline("loop") \/ WriteFails("loop")
    BY <1>3 DEF ReplyParseError, Chunks
  <2>2. QED
    BY <2>1, WriteKeepsLines
<1>4. ASSUME NEW q \in Reqs, HandlerBody(q) PROVE Alternating' /\ BetweenLines'
  <2>1. /\ last' = last /\ h[q] \in {"resp", "ack", "note"}
        /\ [src |-> q, what |-> h[q]] \in Chunks /\ WriteBody(q, h[q])
    BY <1>4 DEF HandlerBody, Newlines, Chunks
  <2>2. QED
    BY <2>1, WriteKeepsLines
<1>5. ASSUME NEW q \in Reqs, HandlerNewline(q) \/ HandlerWriteFails(q)
      PROVE  Alternating' /\ BetweenLines'
  <2>1. /\ last' = last /\ [src |-> q, what |-> "resp"] \in Chunks
        /\ WriteNewline(q) \/ WriteFails(q)
    BY <1>5 DEF HandlerNewline, HandlerWriteFails, Chunks
  <2>2. QED
    BY <2>1, WriteKeepsLines
<1>6. CASE \/ \E r \in Reqs : SendMessage(r)
           \/ \E i \in Cancellable : SendCancel(i)
           \/ \E k \in BadLines : SendBad(k)
           \/ HangUp \/ StopReading
  BY <1>1, <1>6 DEF SendMessage, SendCancel, SendBad, Send, HangUp, StopReading
<1>7. CASE Scan \/ ScanEnds \/ LookupCancel \/ FireCancel \/ Dispatch \/ ServeReturns
  BY <1>1, <1>7 DEF Scan, ScanEnds, LookupCancel, FireCancel, Dispatch, ServeReturns
<1>8. ASSUME NEW q \in Reqs, RelayEvent(q) \/ ListenEnds(q) \/ Cleanup(q)
      PROVE  Alternating' /\ BetweenLines'
  BY <1>1, <1>8 DEF RelayEvent, ListenEnds, Cleanup
<1>9. CASE Stopper
  BY <1>1, <1>9 DEF Stopper, StopCloses, StopCancels, StopReturns
<1>10. CASE UNCHANGED vars
  BY <1>1, <1>10 DEF vars
<1>11. QED
  BY <1>2, <1>3, <1>4, <1>5, <1>6, <1>7, <1>8, <1>9, <1>10 DEF Next, Client, Loop, Handler

(* No client ever reads a message and a newline out of turn. *)
THEOREM FramedAlways == Spec => []Framed
<1> DEFINE Inv == Typed /\ DispatchedOnce /\ MutexOK /\ Alternating /\ BetweenLines
<1>1. Init => Inv
  BY InitTyped, NamesDiffer
  DEF Init, DispatchedOnce, MutexOK, MidLine, Free, None, Alternating, BetweenLines, LastChunk
<1>2. Inv /\ [Next]_vars => Inv'
  BY NextTyped, NextDispatchedOnce, NextMutexOK, NextAlternates
<1>3. Inv => Framed
  BY AlternatingIsFramed
<1>4. QED
  BY <1>1, <1>2, <1>3, PTL DEF Spec
-----------------------------------------------------------------------------
(* What may end a listen.  A cancellation is on record from the moment the *)
(* client sends it: in the pipe, in the loop's hands (by its id, then by   *)
(* the request found under that id), and in the contexts it has cancelled. *)

Blamed(r) == cancels[IdOf[r]] > 0 \/ CtxDone \/ Broken

Recorded ==
  /\ \A k \in 1 .. Len(input) : input[k].kind = "cancel" => cancels[input[k].id] > 0
  /\ pc = "lookup" => cancels[line.id] > 0
  /\ pc = "fire" => IsRequest(target) /\ cancels[IdOf[target]] > 0

Blameless ==
  \A r \in Listens : /\ r \in cancelled => Blamed(r)
                     /\ h[r] \in {"back", "done"} => Blamed(r)
                     /\ h[r] \notin {"resp", "respNL"}

(* Every step keeps what has been sent, a stop and a break. *)
LEMMA BlameStays ==
  Typed /\ [Next]_vars => /\ \A i \in Ids : cancels[i] > 0 => cancels'[i] > 0
                          /\ CtxDone => CtxDone'
                          /\ \A r \in Listens : Blamed(r) => Blamed(r)'
<1> SUFFICES ASSUME Typed, [Next]_vars
             PROVE  /\ \A i \in Ids : cancels[i] > 0 => cancels'[i] > 0
                    /\ CtxDone => CtxDone'
  BY ConstantsOK, BrokenStays DEF Blamed
<1> USE DEF clientVars, pipeVars, loopVars, reqVars, CtxDone
<1>1. ASSUME NEW j \in Cancellable, SendCancel(j)
      PROVE  (\A i \in Ids : cancels[i] > 0 => cancels'[i] > 0) /\ stop' = stop
  BY <1>1, ConstantsOK DEF SendCancel, Send, Typed, TypeOK
<1>2. CASE \/ \E r \in Reqs : SendMessage(r)
           \/ \E k \in BadLines : SendBad(k)
           \/ HangUp \/ StopReading \/ Receive
  BY <1>2 DEF SendMessage, SendBad, Send, HangUp, StopReading, Receive
<1>3. CASE Loop
  BY <1>3 DEF Loop, Scan, ScanEnds, ReplyParseError, LookupCancel, FireCancel, Dispatch,
              ServeReturns
<1>4. ASSUME NEW q \in Reqs, Handler(q) PROVE UNCHANGED <<cancels, stop>>
  BY <1>4 DEF Handler, HandlerBody, HandlerNewline, HandlerWriteFails, RelayEvent, ListenEnds, Cleanup
<1>5. CASE Stopper
  BY <1>5 DEF Stopper, StopCloses, StopCancels, StopReturns
<1>6. CASE UNCHANGED vars
  BY <1>6 DEF vars
<1>7. QED
  BY <1>1, <1>2, <1>3, <1>4, <1>5, <1>6 DEF Next, Client

LEMMA NextRecorded == Typed /\ NoStaleEntries /\ Recorded /\ [Next]_vars => Recorded'
<1> SUFFICES ASSUME Typed, NoStaleEntries, Recorded, [Next]_vars PROVE Recorded'
  OBVIOUS
<1>1. /\ \A i \in Ids : cancels[i] > 0 => cancels'[i] > 0
      /\ input \in Seq(Lines)
      /\ \A l \in Lines : l.kind = "cancel" => l.id \in Ids
  BY BlameStays, ConstantsOK DEF Typed, TypeOK, Lines
<1> USE DEF Recorded, clientVars, pipeVars, loopVars, reqVars
<1>2. ASSUME UNCHANGED <<input, pc, line, target>> PROVE Recorded'
  <2>1. ASSUME NEW k \in 1 .. Len(input), input[k].kind = "cancel" PROVE input[k].id \in Ids
    BY <1>1, <2>1
  <2>2. pc = "lookup" => line.id \in Ids
    BY DEF Typed, LocalsOK
  <2>3. pc = "fire" => IdOf[target] \in Ids
    BY ConstantsOK DEF Typed, LocalsOK, IsRequest
  <2>4. QED
    BY <1>1, <1>2, <2>1, <2>2, <2>3 DEF IsRequest
<1>3. ASSUME NEW l \in Lines, input' = Append(input, l), UNCHANGED <<pc, line, target>>,
             l.kind = "cancel" => cancels'[l.id] > 0
      PROVE  Recorded'
  <2>1. /\ Len(input') = Len(input) + 1 /\ input'[Len(input) + 1] = l
        /\ \A k \in 1 .. Len(input) : input'[k] = input[k] /\ input[k] \in Lines
    BY <1>1, <1>3
  <2>2. ASSUME NEW k \in 1 .. Len(input'), input'[k].kind = "cancel"
        PROVE  cancels'[input'[k].id] > 0
    <3>1. CASE k = Len(input) + 1
      BY <1>3, <2>1, <2>2, <3>1
    <3>2. CASE k # Len(input) + 1
      <4>1. k \in 1 .. Len(input)
        BY <1>1, <2>1, <3>2
      <4>2. QED
        BY <1>1, <2>1, <2>2, <4>1
    <3>3. QED
      BY <3>1, <3>2
  <2>3. pc' = "lookup" => cancels'[line'.id] > 0
    BY <1>1, <1>3 DEF Typed, LocalsOK
  <2>4. pc' = "fire" => IsRequest(target') /\ cancels'[IdOf[target']] > 0
    BY <1>1, <1>3, ConstantsOK DEF Typed, LocalsOK, IsRequest
  <2>5. QED
    BY <2>2, <2>3, <2>4 DEF IsRequest
<1>4. ASSUME NEW r \in Reqs, SendMessage(r) PROVE Recorded'
  BY <1>3, <1>4 DEF SendMessage, Send, Lines
<1>5. ASSUME NEW i \in Cancellable, SendCancel(i) PROVE Recorded'
  <2>1. [kind |-> "cancel", id |-> i] \in Lines /\ i \in Ids /\ cancels \in [Ids -> Nat]
    BY ConstantsOK DEF Lines, Typed, TypeOK
  <2>2. /\ input' = Append(input, [kind |-> "cancel", id |-> i])
        /\ cancels' = [cancels EXCEPT ![i] = @ + 1] /\ UNCHANGED <<pc, line, target>>
    BY <1>5 DEF SendCancel, Send
  <2>3. cancels'[i] > 0
    BY <2>1, <2>2
  <2>4. QED
    BY <1>3, <2>1, <2>2, <2>3
<1>6. ASSUME NEW k \in BadLines, SendBad(k) PROVE Recorded'
  <2>1. [kind |-> k] \in Lines /\ k # "cancel"
    BY ConstantsOK DEF Lines
  <2>2. input' = Append(input, [kind |-> k]) /\ UNCHANGED <<pc, line, target>>
    BY <1>6 DEF SendBad, Send
  <2>3. QED
    BY <1>3, <2>1, <2>2
<1>7. CASE Scan
  <2>1. /\ input # <<>> /\ input' = Tail(input) /\ line' = input[1]
        /\ pc' \in {"wait", "error", "lookup", "dispatch"}
        /\ pc' = "lookup" => line'.kind = "cancel"
        /\ UNCHANGED <<cancels, target>>
    BY <1>7 DEF Scan
  <2>2. /\ Len(input') = Len(input) - 1 /\ Len(input) \in Nat \ {0}
        /\ \A k \in 1 .. Len(input') : input'[k] = input[k + 1]
    BY <1>1, <2>1
  <2>3. QED
    BY <2>1, <2>2
<1>8. CASE LookupCancel
  <2>1. line.id \in Ids /\ pc = "lookup" /\ UNCHANGED <<cancels, input>>
    BY <1>8 DEF LookupCancel, Typed, LocalsOK
  <2>2. CASE Found(line.id)
    <3>1. pc' = "fire" /\ target' = inflight[line.id] /\ UNCHANGED line
      BY <1>8, <2>2 DEF LookupCancel
    <3>2. IdOf[target'] = line.id
      BY <2>1, <2>2, <3>1 DEF Found, NoStaleEntries
    <3>3. QED
      BY <2>1, <3>1, <3>2, ConstantsOK DEF IsRequest
  <2>3. CASE ~Found(line.id)
    BY <1>8, <2>1, <2>3 DEF LookupCancel, NextLine
  <2>4. QED
    BY <2>2, <2>3
<1>9. CASE ScanEnds \/ ReplyParseError \/ FireCancel \/ Dispatch \/ ServeReturns
  <2>1. pc' \notin {"lookup", "fire"} /\ UNCHANGED <<cancels, input>>
    BY <1>9 DEF ScanEnds, ReplyParseError, FireCancel, Dispatch, ServeReturns, Step, NextLine
  <2>2. QED
    BY <2>1
<1>10. ASSUME NEW q \in Reqs, Handler(q) PROVE UNCHANGED <<input, pc, line, target>>
  BY <1>10 DEF Handler, HandlerBody, HandlerNewline, HandlerWriteFails, RelayEvent, ListenEnds,
               Cleanup
<1>11. CASE HangUp \/ StopReading \/ Receive \/ Stopper \/ UNCHANGED vars
  BY <1>2, <1>11 DEF HangUp, StopReading, Receive, Stopper, StopCloses, StopCancels, StopReturns,
                     vars
<1>12. QED
  BY <1>2, <1>4, <1>5, <1>6, <1>7, <1>8, <1>9, <1>10, <1>11 DEF Next, Client, Loop

LEMMA NextBlameless == Typed /\ Recorded /\ Blameless /\ [Next]_vars => Blameless'
<1> SUFFICES ASSUME Typed, Recorded, Blameless, [Next]_vars, NEW r \in Listens
             PROVE  /\ r \in cancelled' => Blamed(r)'
                    /\ h'[r] \in {"back", "done"} => Blamed(r)'
                    /\ h'[r] \notin {"resp", "respNL"}
  BY DEF Blameless
<1>1. /\ r \in Reqs /\ h \in [Reqs -> {"idle", "resp", "respNL", "ack", "ackNL", "relay",
                                       "note", "noteNL", "back", "done"}]
      /\ Blamed(r) => Blamed(r)'
  BY BlameStays, ConstantsOK DEF Typed, TypeOK
<1> USE DEF Blameless, clientVars, pipeVars, loopVars, reqVars
<1>2. CASE UNCHANGED <<h, cancelled>>
  BY <1>1, <1>2
<1>3. CASE FireCancel
  <2>1. r = target => Blamed(r)
    BY <1>3 DEF FireCancel, Recorded, Blamed
  <2>2. cancelled' = cancelled \cup {target} /\ h' = h
    BY <1>3 DEF FireCancel, NowCancelled
  <2>3. QED
    BY <1>1, <2>1, <2>2
<1>4. CASE Dispatch
  <2>1. line.req \in Reqs /\ cancelled' = cancelled
        /\ h' = [h EXCEPT ![line.req] = IF line.req \in Listens THEN "ack"
                                        ELSE IF IsRequest(line.req) THEN "resp" ELSE "back"]
    BY <1>4 DEF Dispatch, Typed, LocalsOK
  <2>2. QED
    BY <1>1, <2>1
<1>5. ASSUME NEW q \in Reqs, Handler(q), q # r
      PROVE  h'[r] = h[r] /\ (r \in cancelled' => r \in cancelled)
  BY <1>1, <1>5 DEF Handler, HandlerBody, HandlerNewline, HandlerWriteFails, RelayEvent, ListenEnds,
                    Cleanup, Goto
<1>6. CASE Handler(r)
  <2>1. CASE HandlerBody(r) \/ HandlerNewline(r) \/ RelayEvent(r)
    <3>1. cancelled' = cancelled /\ h'[r] \notin {"back", "done", "resp", "respNL"}
      BY <1>1, <2>1 DEF HandlerBody, HandlerNewline, RelayEvent, Goto, Newlines
    <3>2. QED
      BY <1>1, <3>1
  <2>2. CASE HandlerWriteFails(r)
    <3>1. Broken /\ cancelled' = cancelled /\ h'[r] \notin {"resp", "respNL"}
      BY <1>1, <2>2 DEF HandlerWriteFails, WriteFails, Goto
    <3>2. QED
      BY <1>1, <3>1 DEF Blamed
  <2>3. CASE ListenEnds(r)
    <3>1. ReqDone(r) /\ cancelled' = cancelled /\ h'[r] = "back"
      BY <1>1, <2>3 DEF ListenEnds, Goto
    <3>2. QED
      BY <1>1, <3>1 DEF ReqDone, Blamed
  <2>4. CASE Cleanup(r)
    <3>1. h[r] = "back" /\ h'[r] = "done"
      BY <1>1, <2>4 DEF Cleanup, Goto
    <3>2. QED
      BY <1>1, <3>1
  <2>5. QED
    BY <1>6, <2>1, <2>2, <2>3, <2>4 DEF Handler
<1>7. CASE Client
  BY <1>2, <1>7 DEF Client, SendMessage, SendCancel, SendBad, Send, HangUp, StopReading, Receive
<1>8. CASE Scan \/ ScanEnds \/ ReplyParseError \/ LookupCancel \/ ServeReturns
  BY <1>2, <1>8 DEF Scan, ScanEnds, ReplyParseError, LookupCancel, ServeReturns
<1>9. CASE Stopper \/ UNCHANGED vars
  BY <1>2, <1>9 DEF Stopper, StopCloses, StopCancels, StopReturns, vars
<1>10. QED
  BY <1>1, <1>3, <1>4, <1>5, <1>6, <1>7, <1>8, <1>9 DEF Next, Loop

(* A listen never ends for a cancellation of another request, for another *)
(* request's failure, or of itself, whatever ids are reused.               *)
THEOREM ListenNeverDisturbed == Spec => []ListenUndisturbed
<1> DEFINE Inv == Typed /\ NoStaleEntries /\ Recorded /\ Blameless
<1>1. Init => Inv
  BY InitTyped, ConstantsOK DEF Init, NoStaleEntries, Recorded, Blameless, Typed, TypeOK
<1>2. Inv /\ [Next]_vars => Inv'
  BY NextTyped, NextTable, NextRecorded, NextBlameless
<1>3. Inv => ListenUndisturbed
  BY DEF Blameless, ListenUndisturbed, Blamed
<1>4. QED
  BY <1>1, <1>2, <1>3, PTL DEF Spec

-----------------------------------------------------------------------------
(* What the client reads.  A message is on the stream once it is in the    *)
(* pipe, is the last chunk read, or has been read with its newline.        *)

Chunk(r, what) == [src |-> r, what |-> what]

SeenBefore(c, k) == c \in got \/ last = c \/ \E j \in 1 .. k - 1 : out[j] = c
OnStream(c)      == SeenBefore(c, Len(out) + 1)

(* A handler writes what its kind of message is answered with. *)
Kinds ==
  \A r \in Reqs : /\ h[r] \in {"resp", "respNL"} => r \in Calls
                  /\ h[r] \in {"ack", "ackNL", "relay", "note", "noteNL"} => r \in Listens

Own ==
  \A r \in Reqs : \A k \in 1 .. Len(out) :
    /\ out[k] = Chunk(r, "resp") => r \in Calls /\ h[r] # "idle"
    /\ out[k] \in {Chunk(r, "ack"), Chunk(r, "note")} => r \in Listens /\ h[r] # "idle"

(* A response or an acknowledgement is on the stream once. *)
Once ==
  \A r \in Reqs : \A w \in {"resp", "ack"} :
    /\ h[r] \in {"idle", w} => ~OnStream(Chunk(r, w))
    /\ \A k \in 1 .. Len(out) : out[k] = Chunk(r, w) => ~SeenBefore(Chunk(r, w), k)

AckFirst ==
  \A r \in Reqs :
    /\ h[r] \in {"ackNL", "relay", "note", "noteNL"} => OnStream(Chunk(r, "ack"))
    /\ \A k \in 1 .. Len(out) : out[k] = Chunk(r, "note") => SeenBefore(Chunk(r, "ack"), k)

(* A parse error has an unusable line behind it, on its way in and out. *)
GarbledIn ==
  /\ \A k \in 1 .. Len(input) : input[k].kind = "garbage" => bad > 0
  /\ pc \in {"error", "errorNL"} => bad > 0
GarbledOut == \A k \in 1 .. Len(out) : out[k].what = "error" => bad > 0
Garbled    == GarbledIn /\ GarbledOut

(* How a step leaves the stream of chunks, and where it may take a handler. *)
Silent    == UNCHANGED <<out, last, got>>
Appends(c) == out' = Append(out, c) /\ UNCHANGED <<last, got, sent, bad>>
Writes(q) == h[q] \in DOMAIN Newlines /\ h'[q] = Newlines[h[q]] /\ Appends(Chunk(q, h[q]))

Advances(r) ==
  \/ h'[r] = h[r]
  \/ h[r] = "idle" /\ h'[r] = (IF r \in Listens THEN "ack" ELSE IF IsRequest(r) THEN "resp" ELSE "back")
  \/ Writes(r)
  \/ h[r] \in {"ackNL", "note", "noteNL"} /\ h'[r] = "relay"
  \/ h[r] = "relay" /\ h'[r] = "note"
  \/ h[r] # "idle" /\ h'[r] \in {"back", "done"}

LEMMA Outputs ==
  Typed /\ [Next]_vars => \/ Silent
                          \/ Receive
                          \/ Appends(Newline)
                          \/ pc = "error" /\ Appends(Chunk("loop", "error"))
                          \/ \E q \in Reqs : Writes(q)
<1> SUFFICES ASSUME Typed, [Next]_vars, ~Receive
             PROVE  \/ Silent
                    \/ Appends(Newline)
                    \/ pc = "error" /\ Appends(Chunk("loop", "error"))
                    \/ \E q \in Reqs : Writes(q)
  OBVIOUS
<1> USE DEF Silent, Appends, Chunk, clientVars, pipeVars, loopVars, reqVars
<1>1. CASE Client
  BY <1>1 DEF Client, SendMessage, SendCancel, SendBad, Send, HangUp, StopReading
<1>2. CASE ReplyParseError
  BY <1>2 DEF ReplyParseError, WriteBody, WriteNewline, WriteFails
<1>3. CASE Scan \/ ScanEnds \/ LookupCancel \/ FireCancel \/ Dispatch \/ ServeReturns
  BY <1>3 DEF Scan, ScanEnds, LookupCancel, FireCancel, Dispatch, ServeReturns
<1>4. ASSUME NEW q \in Reqs, HandlerBody(q) PROVE Writes(q)
  BY <1>4 DEF HandlerBody, WriteBody, Goto, Writes, Newlines, Typed, TypeOK
<1>5. ASSUME NEW q \in Reqs, HandlerNewline(q) \/ HandlerWriteFails(q)
      PROVE  Silent \/ Appends(Newline)
  BY <1>5 DEF HandlerNewline, HandlerWriteFails, WriteNewline, WriteFails
<1>6. ASSUME NEW q \in Reqs, RelayEvent(q) \/ ListenEnds(q) \/ Cleanup(q) PROVE Silent
  BY <1>6 DEF RelayEvent, ListenEnds, Cleanup
<1>7. CASE Stopper \/ UNCHANGED vars
  BY <1>7 DEF Stopper, StopCloses, StopCancels, StopReturns, vars
<1>8. QED
  BY <1>1, <1>2, <1>3, <1>4, <1>5, <1>6, <1>7 DEF Next, Loop, Handler

LEMMA Paths == Typed /\ DispatchedOnce /\ [Next]_vars => \A r \in Reqs : Advances(r)
<1> SUFFICES ASSUME Typed, DispatchedOnce, [Next]_vars, NEW r \in Reqs PROVE Advances(r)
  OBVIOUS
<1>1. h \in [Reqs -> {"idle", "resp", "respNL", "ack", "ackNL", "relay", "note", "noteNL",
                      "back", "done"}]
  BY DEF Typed, TypeOK
<1> USE DEF clientVars, pipeVars, loopVars, reqVars
<1>2. CASE h' = h
  BY <1>2 DEF Advances
<1>3. CASE Dispatch
  <2>1. PICK q \in Reqs : line = Msg(q)
    BY <1>3 DEF Dispatch, Typed, LocalsOK, Msg
  <2>2. h' = [h EXCEPT ![q] = IF q \in Listens THEN "ack" ELSE IF IsRequest(q) THEN "resp" ELSE "back"]
    BY <1>3, <2>1 DEF Dispatch, Msg
  <2>3. h[q] = "idle"
    BY <1>3, <2>1 DEF Dispatch, DispatchedOnce
  <2>4. QED
    BY <1>1, <2>2, <2>3 DEF Advances
<1>4. ASSUME NEW q \in Reqs, Handler(q), q # r PROVE h'[r] = h[r]
  BY <1>1, <1>4 DEF Handler, HandlerBody, HandlerNewline, HandlerWriteFails, RelayEvent, ListenEnds,
                    Cleanup, Goto
<1>5. CASE HandlerBody(r)
  BY <1>1, <1>5 DEF HandlerBody, WriteBody, Goto, Writes, Appends, Chunk, Advances
<1>6. CASE HandlerNewline(r) \/ HandlerWriteFails(r)
  BY <1>1, <1>6 DEF HandlerNewline, HandlerWriteFails, Goto, Advances
<1>7. CASE RelayEvent(r) \/ ListenEnds(r) \/ Cleanup(r)
  BY <1>1, <1>7 DEF RelayEvent, ListenEnds, Cleanup, Goto, Advances
<1>8. CASE Client
  BY <1>2, <1>8 DEF Client, SendMessage, SendCancel, SendBad, Send, HangUp, StopReading, Receive
<1>9. CASE Scan \/ ScanEnds \/ ReplyParseError \/ LookupCancel \/ FireCancel \/ ServeReturns
  BY <1>2, <1>9 DEF Scan, ScanEnds, ReplyParseError, LookupCancel, FireCancel, ServeReturns
<1>10. CASE Stopper \/ UNCHANGED vars
  BY <1>2, <1>10 DEF Stopper, StopCloses, StopCancels, StopReturns, vars
<1>11. QED
  BY <1>3, <1>4, <1>5, <1>6, <1>7, <1>8, <1>9, <1>10 DEF Next, Loop, Handler, Advances

(* The pipe, as a chunk enters it and as one leaves it. *)
LEMMA AppendedAtEnd ==
  ASSUME Typed, NEW c, Appends(c)
  PROVE  /\ Len(out) \in Nat /\ Len(out') = Len(out) + 1 /\ out'[Len(out) + 1] = c
         /\ \A k \in 1 .. Len(out) : out'[k] = out[k]
         /\ last' = last /\ got' = got
<1>1. out \in Seq(Chunks \cup {c})
  BY DEF Typed, TypeOK
<1>2. QED
  BY <1>1, AppendProperties DEF Appends

LEMMA ReceivedFirst ==
  ASSUME Typed, Receive
  PROVE  /\ Len(out) \in Nat \ {0} /\ Len(out') = Len(out) - 1
         /\ \A k \in 1 .. Len(out') : out'[k] = out[k + 1]
         /\ last' = out[1]
         /\ got' = IF out[1] = Newline THEN got \cup {last} ELSE got
         /\ UNCHANGED <<h, pc, input, sent, bad>>
<1>1. out \in Seq(Chunks) /\ out # <<>>
  BY DEF Typed, TypeOK, Receive
<1>2. QED
  BY <1>1 DEF Receive, clientVars, loopVars, reqVars

(* A chunk written joins the end of the stream. *)
LEMMA AppendSeen ==
  ASSUME Typed, NEW c, Appends(c), NEW d
  PROVE  /\ \A k \in 1 .. Len(out) + 1 : SeenBefore(d, k)' <=> SeenBefore(d, k)
         /\ OnStream(d)' <=> OnStream(d) \/ d = c
<1>1. /\ Len(out) \in Nat /\ Len(out') = Len(out) + 1 /\ out'[Len(out) + 1] = c
      /\ \A k \in 1 .. Len(out) : out'[k] = out[k]
      /\ last' = last /\ got' = got
  BY AppendedAtEnd
<1>2. QED
  BY <1>1 DEF SeenBefore, OnStream

(* Reading a chunk moves what comes after it one place up.  Only a newline *)
(* may replace the last chunk read without its being in got.               *)
LEMMA ReceiveSeen ==
  ASSUME Typed, Alternating, Receive, NEW d, d # Newline
  PROVE  /\ \A k \in 1 .. Len(out') + 1 : SeenBefore(d, k)' <=> SeenBefore(d, k + 1)
         /\ OnStream(d)' <=> OnStream(d)
<1>1. /\ Len(out) \in Nat \ {0} /\ Len(out') = Len(out) - 1
      /\ \A k \in 1 .. Len(out') : out'[k] = out[k + 1]
      /\ last' = out[1]
      /\ got' = IF out[1] = Newline THEN got \cup {last} ELSE got
  BY ReceivedFirst
<1>2. last = Newline <=> out[1] # Newline
  BY <1>1 DEF Alternating
<1>3. ASSUME NEW k \in 1 .. Len(out') + 1 PROVE SeenBefore(d, k)' <=> SeenBefore(d, k + 1)
  <2>1. d \in got' \/ last' = d <=> d \in got \/ last = d \/ out[1] = d
    BY <1>1, <1>2
  <2>2. (\E j \in 1 .. k + 1 - 1 : out[j] = d) <=> out[1] = d \/ \E j \in 1 .. k - 1 : out'[j] = d
    <3>1. ASSUME NEW j \in 1 .. k, j # 1 PROVE j - 1 \in 1 .. k - 1 /\ out'[j - 1] = out[j]
      <4>1. j - 1 \in 1 .. k - 1 /\ j - 1 \in 1 .. Len(out') /\ (j - 1) + 1 = j
        BY <1>1, <3>1
      <4>2. QED
        BY <1>1, <4>1
    <3>2. ASSUME NEW j \in 1 .. k - 1 PROVE j + 1 \in 1 .. k /\ out'[j] = out[j + 1]
      BY <1>1
    <3>3. k + 1 - 1 = k /\ 1 \in 1 .. k
      BY <1>1
    <3>4. QED
      BY <3>1, <3>2, <3>3
  <2>3. QED
    BY <2>1, <2>2 DEF SeenBefore
<1>4. PICK m : m = Len(out)
  OBVIOUS
<1>5. Len(out') + 1 = m /\ m \in 1 .. Len(out') + 1
  BY <1>1, <1>4
<1>6. OnStream(d)' <=> SeenBefore(d, m)'
  BY <1>5 DEF OnStream, SeenBefore
<1>7. QED
  BY <1>3, <1>4, <1>5, <1>6 DEF OnStream

LEMMA NextKinds == Typed /\ DispatchedOnce /\ Kinds /\ [Next]_vars => Kinds'
<1> SUFFICES ASSUME Typed, Kinds, \A r \in Reqs : Advances(r), NEW r \in Reqs
             PROVE  /\ h'[r] \in {"resp", "respNL"} => r \in Calls
                    /\ h'[r] \in {"ack", "ackNL", "relay", "note", "noteNL"} => r \in Listens
  BY Paths DEF Kinds
<1>1. Advances(r)
  OBVIOUS
<1>2. QED
  BY <1>1 DEF Advances, Kinds, Calls, Writes, Newlines

LEMMA NextOwn == Typed /\ DispatchedOnce /\ Kinds /\ Own /\ [Next]_vars => Own'
<1> SUFFICES ASSUME Typed, DispatchedOnce, Kinds, Own, [Next]_vars PROVE Own'
  OBVIOUS
<1>1. \A r \in Reqs : h[r] # "idle" => h'[r] # "idle"
  BY Paths DEF Advances, Writes, Newlines
<1>2. CASE Silent
  BY <1>1, <1>2 DEF Silent, Own
<1>3. CASE Receive
  <2>1. /\ Len(out) \in Nat \ {0} /\ Len(out') = Len(out) - 1
        /\ \A k \in 1 .. Len(out') : out'[k] = out[k + 1]
    BY <1>3, ReceivedFirst
  <2>2. \A k \in 1 .. Len(out') : k + 1 \in 1 .. Len(out)
    BY <2>1
  <2>3. QED
    BY <1>1, <2>1, <2>2 DEF Own
<1>4. ASSUME NEW c, Appends(c),
             \A r \in Reqs : /\ c = Chunk(r, "resp") => r \in Calls /\ h'[r] # "idle"
                             /\ c \in {Chunk(r, "ack"), Chunk(r, "note")} => r \in Listens /\ h'[r] # "idle"
      PROVE  Own'
  <2>1. /\ Len(out) \in Nat /\ Len(out') = Len(out) + 1 /\ out'[Len(out) + 1] = c
        /\ \A k \in 1 .. Len(out) : out'[k] = out[k]
    BY <1>4, AppendedAtEnd
  <2>2. \A k \in 1 .. Len(out') : k \in 1 .. Len(out) \/ k = Len(out) + 1
    BY <2>1
  <2>3. QED
    BY <1>1, <1>4, <2>1, <2>2 DEF Own
<1>5. CASE Appends(Newline) \/ Appends(Chunk("loop", "error"))
  BY <1>4, <1>5 DEF Chunk, Newline
<1>6. ASSUME NEW q \in Reqs, Writes(q) PROVE Own'
  <2>1. /\ h[q] \in {"resp", "ack", "note"} /\ h'[q] # "idle" /\ Appends(Chunk(q, h[q]))
    BY <1>6 DEF Writes, Newlines
  <2>2. ASSUME NEW r \in Reqs, NEW w, Chunk(q, h[q]) = Chunk(r, w) PROVE q = r /\ h[q] = w
    BY <2>2 DEF Chunk
  <2>3. QED
    BY <1>4, <2>1, <2>2 DEF Kinds
<1>7. QED
  BY <1>2, <1>3, <1>5, <1>6, Outputs

LEMMA NextOnce ==
  Typed /\ DispatchedOnce /\ Alternating /\ Once /\ [Next]_vars => Once'
<1> SUFFICES ASSUME Typed, DispatchedOnce, Alternating, Once, [Next]_vars,
                    NEW r \in Reqs, NEW w \in {"resp", "ack"}
             PROVE  /\ h'[r] \in {"idle", w} => ~OnStream(Chunk(r, w))'
                    /\ \A k \in 1 .. Len(out') : out'[k] = Chunk(r, w) => ~SeenBefore(Chunk(r, w), k)'
  BY DEF Once
<1> PICK d : d = Chunk(r, w)
  OBVIOUS
<1>1. d # Newline /\ d # Chunk("loop", "error")
  BY DEF Chunk, Newline
<1>2. /\ h[r] \in {"idle", w} => ~OnStream(d)
      /\ \A k \in 1 .. Len(out) : out[k] = d => ~SeenBefore(d, k)
  BY DEF Once
<1>3. h'[r] \in {"idle", w} => h[r] \in {"idle", w} /\ ~Writes(r)
  <2>1. Advances(r)
    BY Paths
  <2>2. QED
    BY <2>1 DEF Advances, Writes, Newlines
<1> SUFFICES /\ h'[r] \in {"idle", w} => ~OnStream(d)'
             /\ \A k \in 1 .. Len(out') : out'[k] = d => ~SeenBefore(d, k)'
  OBVIOUS
<1>4. CASE Silent
  BY <1>2, <1>3, <1>4 DEF Silent, OnStream, SeenBefore
<1>5. CASE Receive
  <2>1. /\ Len(out) \in Nat \ {0} /\ Len(out') = Len(out) - 1
        /\ \A k \in 1 .. Len(out') : out'[k] = out[k + 1]
    BY <1>5, ReceivedFirst
  <2>2. \A k \in 1 .. Len(out') : k + 1 \in 1 .. Len(out) /\ k \in 1 .. Len(out') + 1
    BY <2>1
  <2>3. /\ \A k \in 1 .. Len(out') + 1 : SeenBefore(d, k)' <=> SeenBefore(d, k + 1)
        /\ OnStream(d)' <=> OnStream(d)
    BY <1>1, <1>5, ReceiveSeen
  <2>4. QED
    BY <1>2, <1>3, <2>1, <2>2, <2>3
<1>6. ASSUME NEW c, Appends(c), c = d => ~OnStream(d) /\ h'[r] \notin {"idle", w}
      PROVE  /\ h'[r] \in {"idle", w} => ~OnStream(d)'
             /\ \A k \in 1 .. Len(out') : out'[k] = d => ~SeenBefore(d, k)'
  <2>1. /\ Len(out) \in Nat /\ Len(out') = Len(out) + 1 /\ out'[Len(out) + 1] = c
        /\ \A k \in 1 .. Len(out) : out'[k] = out[k]
    BY <1>6, AppendedAtEnd
  <2>2. /\ \A k \in 1 .. Len(out) + 1 : SeenBefore(d, k)' <=> SeenBefore(d, k)
        /\ OnStream(d)' <=> OnStream(d) \/ d = c
    BY <1>6, AppendSeen
  <2>3. ASSUME NEW k \in 1 .. Len(out'), out'[k] = d PROVE ~SeenBefore(d, k)'
    <3>1. CASE k = Len(out) + 1
      BY <1>6, <2>1, <2>2, <2>3, <3>1 DEF OnStream
    <3>2. CASE k # Len(out) + 1
      <4>1. k \in 1 .. Len(out) /\ k \in 1 .. Len(out) + 1
        BY <2>1, <3>2
      <4>2. QED
        BY <1>2, <2>1, <2>2, <2>3, <4>1
    <3>3. QED
      BY <3>1, <3>2
  <2>4. QED
    BY <1>2, <1>3, <1>6, <2>2, <2>3
<1>7. CASE Appends(Newline) \/ Appends(Chunk("loop", "error"))
  BY <1>1, <1>6, <1>7
<1>8. ASSUME NEW q \in Reqs, Writes(q)
      PROVE  /\ h'[r] \in {"idle", w} => ~OnStream(d)'
             /\ \A k \in 1 .. Len(out') : out'[k] = d => ~SeenBefore(d, k)'
  <2>1. Appends(Chunk(q, h[q])) /\ (Chunk(q, h[q]) = d => q = r /\ h[r] = w)
    BY <1>8 DEF Writes, Chunk
  <2>2. QED
    BY <1>2, <1>3, <1>6, <1>8, <2>1
<1>9. QED
  BY <1>4, <1>5, <1>7, <1>8, Outputs

LEMMA NextAckFirst ==
  Typed /\ DispatchedOnce /\ Alternating /\ AckFirst /\ [Next]_vars => AckFirst'
<1> SUFFICES ASSUME Typed, DispatchedOnce, Alternating, AckFirst, [Next]_vars, NEW r \in Reqs
             PROVE  /\ h'[r] \in {"ackNL", "relay", "note", "noteNL"} => OnStream(Chunk(r, "ack"))'
                    /\ \A k \in 1 .. Len(out') :
                         out'[k] = Chunk(r, "note") => SeenBefore(Chunk(r, "ack"), k)'
  BY DEF AckFirst
<1> PICK d, e : d = Chunk(r, "ack") /\ e = Chunk(r, "note")
  OBVIOUS
<1>1. d # Newline /\ e # Newline /\ e # Chunk("loop", "error")
  BY DEF Chunk, Newline
<1>2. /\ h[r] \in {"ackNL", "relay", "note", "noteNL"} => OnStream(d)
      /\ \A k \in 1 .. Len(out) : out[k] = e => SeenBefore(d, k)
  BY DEF AckFirst
<1>3. h'[r] \in {"ackNL", "relay", "note", "noteNL"} =>
        h[r] \in {"ackNL", "relay", "note", "noteNL"} \/ Appends(d)
  <2>1. Advances(r)
    BY Paths
  <2>2. QED
    BY <2>1 DEF Advances, Writes, Newlines
<1>4. OnStream(d) => OnStream(d)'
  <2>1. CASE Silent
    BY <2>1 DEF Silent, OnStream, SeenBefore
  <2>2. CASE Receive
    BY <1>1, <2>2, ReceiveSeen
  <2>3. ASSUME NEW c, Appends(c) PROVE OnStream(d) => OnStream(d)'
    BY <2>3, AppendSeen
  <2>4. QED
    BY <2>1, <2>2, <2>3, Outputs DEF Writes
<1>5. Appends(d) => OnStream(d)'
  BY AppendSeen
<1>6. ASSUME NEW k \in 1 .. Len(out'), out'[k] = e PROVE SeenBefore(d, k)'
  <2>1. CASE Silent
    BY <1>2, <1>6, <2>1 DEF Silent, SeenBefore
  <2>2. CASE Receive
    <3>1. /\ Len(out) \in Nat \ {0} /\ Len(out') = Len(out) - 1
          /\ \A j \in 1 .. Len(out') : out'[j] = out[j + 1]
      BY <2>2, ReceivedFirst
    <3>2. k + 1 \in 1 .. Len(out) /\ k \in 1 .. Len(out') + 1
      BY <3>1
    <3>3. SeenBefore(d, k)' <=> SeenBefore(d, k + 1)
      BY <1>1, <2>2, <3>2, ReceiveSeen
    <3>4. QED
      BY <1>2, <1>6, <3>1, <3>2, <3>3
  <2>3. ASSUME NEW c, Appends(c), c = e => OnStream(d) PROVE SeenBefore(d, k)'
    <3>1. /\ Len(out) \in Nat /\ Len(out') = Len(out) + 1 /\ out'[Len(out) + 1] = c
          /\ \A j \in 1 .. Len(out) : out'[j] = out[j]
      BY <2>3, AppendedAtEnd
    <3>2. \A j \in 1 .. Len(out) + 1 : SeenBefore(d, j)' <=> SeenBefore(d, j)
      BY <2>3, AppendSeen
    <3>3. CASE k = Len(out) + 1
      BY <1>6, <2>3, <3>1, <3>2, <3>3 DEF OnStream
    <3>4. CASE k # Len(out) + 1
      <4>1. k \in 1 .. Len(out) /\ k \in 1 .. Len(out) + 1
        BY <3>1, <3>4
      <4>2. QED
        BY <1>2, <1>6, <3>1, <3>2, <4>1
    <3>5. QED
      BY <3>3, <3>4
  <2>4. CASE Appends(Newline) \/ Appends(Chunk("loop", "error"))
    BY <1>1, <2>3, <2>4
  <2>5. ASSUME NEW q \in Reqs, Writes(q) PROVE SeenBefore(d, k)'
    <3>1. Appends(Chunk(q, h[q])) /\ (Chunk(q, h[q]) = e => q = r /\ h[r] = "note")
      BY <2>5 DEF Writes, Chunk
    <3>2. QED
      BY <1>2, <2>3, <3>1
  <2>6. QED
    BY <2>1, <2>2, <2>4, <2>5, Outputs
<1>7. QED
  BY <1>2, <1>3, <1>4, <1>5, <1>6

LEMMA NextGarbled == Typed /\ Garbled /\ [Next]_vars => Garbled'
<1> SUFFICES ASSUME Typed, Garbled, [Next]_vars PROVE Garbled'
  OBVIOUS
<1>1. bad \in Nat /\ (bad > 0 => bad' > 0)
  <2>1. bad \in Nat
    BY ConstantsOK DEF Typed, TypeOK
  <2>2. bad' = bad \/ bad' = bad + 1
    <3> USE DEF clientVars, pipeVars, loopVars, reqVars
    <3>1. CASE Client
      BY <3>1 DEF Client, SendMessage, SendCancel, SendBad, Send, HangUp, StopReading, Receive
    <3>2. CASE Loop
      BY <3>2 DEF Loop, Scan, ScanEnds, ReplyParseError, LookupCancel, FireCancel, Dispatch,
                  ServeReturns
    <3>3. ASSUME NEW q \in Reqs, Handler(q) PROVE bad' = bad
      BY <3>3 DEF Handler, HandlerBody, HandlerNewline, HandlerWriteFails, RelayEvent, ListenEnds,
                  Cleanup
    <3>4. CASE Stopper \/ UNCHANGED vars
      BY <3>4 DEF Stopper, StopCloses, StopCancels, StopReturns, vars
    <3>5. QED
      BY <3>1, <3>2, <3>3, <3>4 DEF Next
  <2>3. QED
    BY <2>1, <2>2
<1>2. GarbledIn'
  <2>1. input \in Seq(Lines)
    BY DEF Typed, TypeOK
  <2> USE DEF Garbled, GarbledIn, clientVars, pipeVars, loopVars, reqVars
  <2>2. CASE UNCHANGED <<input, pc>>
    BY <1>1, <2>2
  <2>3. ASSUME NEW l \in Lines, input' = Append(input, l), pc' = pc,
               l.kind = "garbage" => bad' > 0
        PROVE  GarbledIn'
    <3>1. /\ Len(input) \in Nat /\ Len(input') = Len(input) + 1 /\ input'[Len(input) + 1] = l
          /\ \A k \in 1 .. Len(input) : input'[k] = input[k]
      BY <2>1, <2>3
    <3>2. \A k \in 1 .. Len(input') : k \in 1 .. Len(input) \/ k = Len(input) + 1
      BY <3>1
    <3>3. QED
      BY <1>1, <2>3, <3>1, <3>2
  <2>4. ASSUME NEW r \in Reqs, SendMessage(r) PROVE GarbledIn'
    <3>1. Msg(r) \in Lines /\ Msg(r).kind = "msg"
      BY DEF Msg, Lines
    <3>2. QED
      BY <2>3, <2>4, <3>1 DEF SendMessage, Send, Msg
  <2>5. ASSUME NEW i \in Cancellable, SendCancel(i) PROVE GarbledIn'
    <3>1. [kind |-> "cancel", id |-> i] \in Lines
      BY ConstantsOK DEF Lines
    <3>2. QED
      BY <2>3, <2>5, <3>1 DEF SendCancel, Send
  <2>6. ASSUME NEW k \in BadLines, SendBad(k) PROVE GarbledIn'
    <3>1. [kind |-> k] \in Lines
      BY DEF Lines
    <3>2. bad' = bad + 1 /\ input' = Append(input, [kind |-> k]) /\ pc' = pc
      BY <2>6 DEF SendBad, Send
    <3>3. bad' > 0
      BY <1>1, <3>2
    <3>4. QED
      BY <2>3, <3>1, <3>2, <3>3
  <2>7. CASE Scan
    <3>1. /\ input # <<>> /\ input' = Tail(input) /\ line' = input[1] /\ bad' = bad
          /\ pc' \in {"wait", "error", "lookup", "dispatch"}
          /\ pc' = "error" => line'.kind = "garbage"
      BY <2>7 DEF Scan
    <3>2. /\ Len(input') = Len(input) - 1 /\ Len(input) \in Nat \ {0}
          /\ \A k \in 1 .. Len(input') : input'[k] = input[k + 1] /\ k + 1 \in 1 .. Len(input)
      BY <2>1, <3>1
    <3>3. 1 \in 1 .. Len(input)
      BY <3>2
    <3>4. QED
      BY <3>1, <3>2, <3>3
  <2>8. CASE ReplyParseError
    BY <1>1, <2>8 DEF ReplyParseError, Step, NextLine
  <2>9. CASE ScanEnds \/ LookupCancel \/ FireCancel \/ Dispatch \/ ServeReturns
    <3>1. pc' \notin {"error", "errorNL"} /\ input' = input
      BY <2>9 DEF ScanEnds, LookupCancel, FireCancel, Dispatch, ServeReturns, Step, NextLine
    <3>2. QED
      BY <1>1, <3>1
  <2>10. ASSUME NEW q \in Reqs, Handler(q) PROVE UNCHANGED <<input, pc>>
    BY <2>10 DEF Handler, HandlerBody, HandlerNewline, HandlerWriteFails, RelayEvent, ListenEnds,
                 Cleanup
  <2>11. CASE HangUp \/ StopReading \/ Receive \/ Stopper \/ UNCHANGED vars
    BY <2>2, <2>11 DEF HangUp, StopReading, Receive, Stopper, StopCloses, StopCancels, StopReturns,
                       vars
  <2>12. QED
    BY <2>2, <2>4, <2>5, <2>6, <2>7, <2>8, <2>9, <2>10, <2>11 DEF Next, Client, Loop
<1>3. GarbledOut'
  <2>1. CASE Silent
    BY <1>1, <2>1 DEF Silent, Garbled, GarbledOut
  <2>2. CASE Receive
    <3>1. /\ Len(out) \in Nat \ {0} /\ Len(out') = Len(out) - 1
          /\ \A k \in 1 .. Len(out') : out'[k] = out[k + 1]
      BY <2>2, ReceivedFirst
    <3>2. \A k \in 1 .. Len(out') : k + 1 \in 1 .. Len(out)
      BY <3>1
    <3>3. QED
      BY <1>1, <3>1, <3>2 DEF Garbled, GarbledOut
  <2>3. ASSUME NEW c, Appends(c), c.what = "error" => bad' > 0 PROVE GarbledOut'
    <3>1. /\ Len(out) \in Nat /\ Len(out') = Len(out) + 1 /\ out'[Len(out) + 1] = c
          /\ \A k \in 1 .. Len(out) : out'[k] = out[k]
      BY <2>3, AppendedAtEnd
    <3>2. \A k \in 1 .. Len(out') : k \in 1 .. Len(out) \/ k = Len(out) + 1
      BY <3>1
    <3>3. QED
      BY <1>1, <2>3, <3>1, <3>2 DEF Garbled, GarbledOut
  <2>4. CASE Appends(Newline)
    BY <2>3, <2>4 DEF Newline, GarbledOut
  <2>5. CASE pc = "error" /\ Appends(Chunk("loop", "error"))
    BY <1>1, <2>3, <2>5 DEF Garbled, GarbledIn
  <2>6. ASSUME NEW q \in Reqs, Writes(q) PROVE GarbledOut'
    <3>1. Appends(Chunk(q, h[q])) /\ Chunk(q, h[q]).what # "error"
      BY <2>6 DEF Writes, Newlines, Chunk
    <3>2. QED
      BY <2>3, <3>1
  <2>7. QED
    BY <2>1, <2>2, <2>4, <2>5, <2>6, Outputs
<1>4. QED
  BY <1>2, <1>3 DEF Garbled

(* What the client of one connection is promised. *)
Lawful == /\ Typed /\ DispatchedOnce /\ MutexOK /\ Alternating /\ BetweenLines
          /\ Kinds /\ Own /\ Once /\ AckFirst /\ Garbled

LEMMA ReceiveIsPromised == Lawful /\ Receive => Promised!Next
<1> SUFFICES ASSUME Lawful, Receive PROVE Promised!Next
  OBVIOUS
<1> PICK c : c = out[1]
  OBVIOUS
<1>1. /\ Len(out) \in Nat \ {0} /\ 1 \in 1 .. Len(out) /\ c \in Chunks
      /\ last' = c /\ got' = (IF c = Newline THEN got \cup {last} ELSE got)
      /\ UNCHANGED <<sent, bad>>
  BY ReceivedFirst DEF Lawful, Typed, TypeOK
<1>2. last = Newline <=> c # Newline
  BY <1>1 DEF Lawful, Alternating
<1>3. \A d : SeenBefore(d, 1) <=> d \in got \/ last = d
  BY DEF SeenBefore
<1>4. \A r : \A w \in {"resp", "ack", "note", "error"} : Chunk(r, w) # Newline /\ Chunk(r, w).what = w
  BY DEF Chunk, Newline
<1>5. CASE c = Newline
  <2>1. Promised!EndsLine
    BY <1>1, <1>2, <1>5 DEF Promised!EndsLine, Promised!Newline, Newline, None
  <2>2. QED
    BY <2>1 DEF Promised!Next
<1>6. ASSUME c # Newline PROVE Promised!Reads(c)
  BY <1>1, <1>2, <1>6 DEF Promised!Reads, Promised!Newline, Newline, None
<1>7. ASSUME NEW r \in Reqs, c = Chunk(r, "resp") PROVE Promised!Next
  <2>1. r \in Calls /\ r \in sent /\ c \notin got /\ c # Newline
    BY <1>1, <1>3, <1>4, <1>7 DEF Lawful, Own, Once, DispatchedOnce
  <2>2. Promised!ReadsResponse(r)
    BY <1>6, <1>7, <2>1 DEF Promised!ReadsResponse, Promised!Response, Chunk
  <2>3. QED
    BY <2>1, <2>2 DEF Promised!Next
<1>8. ASSUME NEW r \in Reqs, c = Chunk(r, "ack") PROVE Promised!Next
  <2>1. r \in Listens /\ r \in sent /\ c \notin got /\ c # Newline
    BY <1>1, <1>3, <1>4, <1>8 DEF Lawful, Own, Once, DispatchedOnce
  <2>2. Promised!ReadsAcknowledgement(r)
    BY <1>6, <1>8, <2>1 DEF Promised!ReadsAcknowledgement, Promised!Acknowledgement, Chunk
  <2>3. QED
    BY <2>1, <2>2 DEF Promised!Next
<1>9. ASSUME NEW r \in Reqs, c = Chunk(r, "note") PROVE Promised!Next
  <2>1. r \in Listens /\ r \in sent /\ c # Newline
    BY <1>1, <1>4, <1>9 DEF Lawful, Own, DispatchedOnce
  <2>2. SeenBefore(Chunk(r, "ack"), 1)
    BY <1>1, <1>9 DEF Lawful, AckFirst
  <2>3. Chunk(r, "ack") \in got
    <3>1. Chunk(r, "ack") \in got \/ last = Chunk(r, "ack")
      BY <1>3, <2>2
    <3>2. Chunk(r, "ack") # Newline
      BY <1>4
    <3>3. QED
      BY <1>2, <2>1, <3>1, <3>2
  <2>4. Promised!ReadsEvent(r)
    BY <1>6, <1>9, <2>1, <2>3 DEF Promised!ReadsEvent, Promised!Event, Promised!Acknowledgement, Chunk
  <2>5. QED
    BY <2>1, <2>4 DEF Promised!Next
<1>10. CASE c = Chunk("loop", "error")
  <2>1. bad > 0 /\ c # Newline
    BY <1>1, <1>4, <1>10 DEF Lawful, Garbled, GarbledOut
  <2>2. Promised!ReadsParseError
    BY <1>6, <1>10, <2>1 DEF Promised!ReadsParseError, Promised!ParseError, Chunk
  <2>3. QED
    BY <2>2 DEF Promised!Next
<1>11. \/ c = Newline \/ c = Chunk("loop", "error")
       \/ \E r \in Reqs : \E w \in {"resp", "ack", "note"} : c = Chunk(r, w)
  BY <1>1 DEF Chunks, Chunk
<1>12. QED
  BY <1>5, <1>7, <1>8, <1>9, <1>10, <1>11

LEMMA StepIsPromised ==
  Lawful /\ [Next]_vars => [Promised!Next]_<<sent, bad > 0, last, got>>
<1> SUFFICES ASSUME Lawful, [Next]_vars
             PROVE  Promised!Next \/ UNCHANGED <<sent, bad > 0, last, got>>
  OBVIOUS
<1> USE DEF clientVars, pipeVars, loopVars, reqVars
<1>1. CASE Receive
  BY <1>1, ReceiveIsPromised
<1>2. ASSUME NEW r \in Reqs, SendMessage(r) PROVE Promised!Next
  <2>1. r \in Reqs \ sent /\ sent' = sent \cup {r} /\ UNCHANGED <<bad, last, got>>
    BY <1>2 DEF SendMessage, Send
  <2>2. QED
    BY <2>1 DEF Promised!Next, Promised!Sends
<1>3. ASSUME NEW k \in BadLines, SendBad(k) PROVE Promised!Next
  <2>1. bad \in Nat /\ bad' = bad + 1 /\ UNCHANGED <<sent, last, got>>
    BY <1>3, ConstantsOK DEF SendBad, Send, Lawful, Typed, TypeOK
  <2>2. bad' > 0
    BY <2>1
  <2>3. QED
    BY <2>1, <2>2 DEF Promised!Next, Promised!Sends
<1>4. CASE (\E i \in Cancellable : SendCancel(i)) \/ HangUp \/ StopReading
  BY <1>4 DEF SendCancel, Send, HangUp, StopReading
<1>5. CASE Loop
  BY <1>5 DEF Loop, Scan, ScanEnds, ReplyParseError, LookupCancel, FireCancel, Dispatch,
              ServeReturns
<1>6. ASSUME NEW q \in Reqs, Handler(q) PROVE UNCHANGED <<sent, bad, last, got>>
  BY <1>6 DEF Handler, HandlerBody, HandlerNewline, HandlerWriteFails, RelayEvent, ListenEnds,
              Cleanup
<1>7. CASE Stopper \/ UNCHANGED vars
  BY <1>7 DEF Stopper, StopCloses, StopCancels, StopReturns, vars
<1>8. QED
  BY <1>1, <1>2, <1>3, <1>4, <1>5, <1>6, <1>7 DEF Next, Client

(* A stream connection implements module Session: whatever its goroutines  *)
(* do and wherever it breaks, the client reads whole lines, one response   *)
(* per call, and a listen's acknowledgement once and before its events.    *)
THEOREM SessionKept == Spec => SeenInOrder
<1>1. Init => Lawful /\ Promised!Init
  <2> SUFFICES ASSUME Init PROVE Lawful /\ Promised!Init
    OBVIOUS
  <2>1. /\ Typed /\ input = <<>> /\ out = <<>> /\ last = Newline /\ got = {} /\ bad = 0
        /\ sent = {} /\ pc = "scan" /\ writeMu = Free /\ h = [r \in Reqs |-> "idle"]
    BY InitTyped DEF Init
  <2>2. DispatchedOnce /\ MutexOK /\ Alternating /\ BetweenLines
    BY <2>1, NamesDiffer
    DEF DispatchedOnce, MutexOK, MidLine, Free, None, Alternating, BetweenLines, LastChunk
  <2>3. Kinds /\ Own /\ AckFirst /\ Garbled
    BY <2>1 DEF Kinds, Own, AckFirst, Garbled, GarbledIn, GarbledOut
  <2>4. Once
    BY <2>1 DEF Once, OnStream, SeenBefore, Chunk, Newline
  <2>5. Promised!Init
    BY <2>1 DEF Promised!Init, Promised!Newline, Newline, None
  <2>6. QED
    BY <2>1, <2>2, <2>3, <2>4, <2>5 DEF Lawful
<1>2. Lawful /\ [Next]_vars => Lawful'
  BY NextTyped, NextDispatchedOnce, NextMutexOK, NextAlternates, NextKinds, NextOwn, NextOnce,
     NextAckFirst, NextGarbled DEF Lawful
<1>3. Lawful /\ [Next]_vars => [Promised!Next]_<<sent, bad > 0, last, got>>
  BY StepIsPromised
<1>4. QED
  BY <1>1, <1>2, <1>3, PTL DEF Spec, SeenInOrder, Promised!Spec
=============================================================================
