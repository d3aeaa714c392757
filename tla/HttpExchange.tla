---------------------------- MODULE HttpExchange ----------------------------
(***************************************************************************)
(* transport/http.go: one POST on /mcp, from handlePost to the end of its  *)
(* response.  Three parties use the one response: the handler, through     *)
(* httpResponseWriter; the keepAlive goroutine that the first notification *)
(* starts; and net/http, which finishes the response when ServeHTTP has    *)
(* returned and cancels the request's context when the connection breaks.  *)
(*                                                                         *)
(* The handler is reduced to what it writes.  A request that the transport *)
(* refuses gets an error object, a notification a bare 202, a call one     *)
(* answer; a stream sends notifications before its answer, as the contract *)
(* of ResponseWriter allows; a listen sends an acknowledgement and then    *)
(* relays events until its context is done, and never answers.             *)
(***************************************************************************)
EXTENDS Integers, Sequences

CONSTANTS
  Kinds,    \* what kinds of request the client may POST
  MaxNotes, \* bound: notifications one request sends
  OutCap    \* bound: parts on their way to the client

ASSUME ConstantsOK ==
  /\ Kinds \subseteq {"refused", "notification", "call", "stream", "listen"}
  /\ MaxNotes \in Nat \ {0}
  /\ OutCap \in Nat \ {0}

VARIABLES
  kind,    \* what the request is
  h,       \* where its handler, and then net/http, stands
  notes,   \* notifications the handler has begun to send
  mu,      \* who holds httpResponseWriter.mu
  started, \* httpResponseWriter.started: the status has been committed
  done,    \* httpResponseWriter.done is closed
  ka,      \* where the keepAlive goroutine stands
  tick,    \* whether its ticker's channel holds a tick
  ctx,     \* whether the request's context is done
  out,     \* parts of the response on their way to the client
  last,    \* the last part that the client has read
  seen,    \* the kinds of part that it has read
  client,  \* "reading", "stuck" (reads no more) or "gone" (has hung up)
  stop     \* whether Stop has closed the server, and its connections

rwVars     == <<mu, started, done>>
clientVars == <<last, seen, client>>
vars == <<kind, h, notes, rwVars, ka, tick, ctx, out, clientVars, stop>>

Free == "none"

Broken == client = "gone" \/ stop

(* Once ServeHTTP has returned, the ResponseWriter may not be used. *)
Returned == h \in {"finish", "over"}

Init ==
  /\ kind \in Kinds
  /\ h = IF kind = "refused" THEN "json"
         ELSE IF kind = "notification" THEN "accepted" ELSE "work"
  /\ notes = 0
  /\ mu = Free /\ started = FALSE /\ done = FALSE
  /\ ka = "none" /\ tick = FALSE
  /\ ctx = FALSE
  /\ out = <<>> /\ last = "none" /\ seen = {}
  /\ client = "reading" /\ stop = FALSE

(* A write waits for room; on a broken connection its data is lost. *)
Overrun(part) == out' = Append(out, part)
Put(part) == \/ ~Broken /\ Len(out) < OutCap /\ out' = Append(out, part)
             \/ Broken /\ UNCHANGED out

-----------------------------------------------------------------------------
(* The handler.                                                            *)

Goto(s) == h' = s /\ UNCHANGED <<kind, ka, tick, ctx, clientVars, stop>>

(* writeHTTPError, or the 202 that a notification gets. *)
WriteBare ==
  /\ h \in {"json", "accepted"} /\ kind \in {"refused", "notification"}
  /\ Put(h)
  /\ Goto("return")
  /\ UNCHANGED <<notes, rwVars>>

NoteNext == started' = started
Upgrade  == started' = TRUE

(* WriteNotification takes mu.  A listen sends its acknowledgement first. *)
LockNote ==
  /\ h = "work" /\ kind \in {"stream", "listen"} /\ notes < MaxNotes
  /\ mu = Free
  /\ mu' = "handler"
  /\ notes' = notes + 1
  /\ Goto(IF started THEN "note" ELSE "headers")
  /\ UNCHANGED <<started, done, out>>

(* upgradeToSSELocked: the headers are flushed before keepAlive starts. *)
UpgradeToSSE ==
  /\ h = "headers"
  /\ Put("headers")
  /\ Upgrade
  /\ h' = "note"
  /\ ka' = "select"
  /\ UNCHANGED <<kind, notes, mu, done, tick, ctx, clientVars, stop>>

(* writeSSEEventLocked, in the two parts that a comment could come between.*)
EventData ==
  /\ h \in {"note", "answer"}
  /\ Put(h)
  /\ Goto(IF h = "note" THEN "noteEnd" ELSE "answerEnd")
  /\ UNCHANGED <<notes, rwVars>>

(* The deferred Unlock.  Only the acknowledgement's error ends a listen,   *)
(* and net/http may report a broken connection late, or not at all.        *)
NoteEnd ==
  /\ h = "noteEnd"
  /\ Put("blank")
  /\ mu' = Free
  /\ \/ Goto("work")
     \/ Broken /\ kind = "listen" /\ notes = 1 /\ Goto("return")
  /\ UNCHANGED <<notes, started, done>>

(* WriteMessage: the whole response if it is the first write, the last     *)
(* event if not.                                                           *)
LockMessage ==
  /\ h = "work" /\ kind \in {"call", "stream"}
  /\ mu = Free
  /\ mu' = "handler"
  /\ Goto(IF started THEN "answer" ELSE "json")
  /\ UNCHANGED <<notes, started, done, out>>

(* Its deferred closeDone and Unlock. *)
MessageEnd ==
  /\ \/ h = "json" /\ kind \in {"call", "stream"} /\ Put("json")
     \/ h = "answerEnd" /\ Put("blank")
  /\ started' = TRUE
  /\ done' = TRUE /\ mu' = Free
  /\ Goto("return")
  /\ UNCHANGED notes

ListenOn == FALSE
(* The select of subscriptions/listen: the context is done. *)
ListenOver == h = "work" /\ kind = "listen" /\ notes > 0 /\ ctx

ListenReturns ==
  /\ ListenOver
  /\ Goto("return")
  /\ UNCHANGED <<notes, rwVars, out>>

LeaveOpen == UNCHANGED done
CloseDone == done' = (done \/ kind \in {"call", "stream", "listen"})

(* handlePost's deferred closeDone; then ServeHTTP has returned. *)
HandlePostReturns ==
  /\ h = "return"
  /\ CloseDone
  /\ Goto("finish")
  /\ UNCHANGED <<notes, mu, started, out>>

Handler == \/ WriteBare \/ LockNote \/ UpgradeToSSE \/ EventData \/ NoteEnd
           \/ LockMessage \/ MessageEnd \/ ListenReturns \/ HandlePostReturns

-----------------------------------------------------------------------------
(* keepAlive.                                                              *)

KeepAliveGoto(s) ==
  /\ ka' = s
  /\ UNCHANGED <<kind, h, notes, started, done, ctx, clientVars, stop>>

(* Its select: done is closed, or the ticker has ticked; either, if both.  *)
KeepAliveDone ==
  /\ ka = "select" /\ done
  /\ KeepAliveGoto("ended")
  /\ UNCHANGED <<tick, mu, out>>

KeepAliveTick ==
  /\ ka = "select" /\ tick
  /\ tick' = FALSE
  /\ KeepAliveGoto("lock")
  /\ UNCHANGED <<mu, out>>

KeepAliveLock ==
  /\ ka = "lock" /\ mu = Free
  /\ mu' = "keepAlive"
  /\ KeepAliveGoto("write")
  /\ UNCHANGED <<tick, out>>

KeepAliveOnce ==
  /\ ka = "write" /\ ~Returned
  /\ Put("comment")
  /\ mu' = Free
  /\ KeepAliveGoto("ended")
  /\ UNCHANGED tick

KeepsLock ==
  /\ ka = "write" /\ ~Returned
  /\ Put("comment")
  /\ KeepAliveGoto("write")
  /\ UNCHANGED <<tick, mu>>

KeepAliveWrite ==
  /\ ka = "write" /\ ~Returned
  /\ Put("comment")
  /\ mu' = Free
  /\ KeepAliveGoto("select")
  /\ UNCHANGED tick

(* A write through a ResponseWriter whose ServeHTTP has returned: it races *)
(* with net/http's last flush, so that it may be lost; after that the      *)
(* buffer has no connection, and the flush panics (which in a goroutine    *)
(* ends the process), or it is some other response's by now.               *)
KeepAliveLate ==
  /\ ka = "write" /\ Returned
  /\ mu' = Free
  /\ \/ h = "finish" /\ Put("comment") /\ KeepAliveGoto("select")
     \/ KeepAliveGoto("select") /\ UNCHANGED out
     \/ h = "over" /\ KeepAliveGoto("crashed") /\ UNCHANGED out
  /\ UNCHANGED tick

KeepAlive == \/ KeepAliveDone \/ KeepAliveTick \/ KeepAliveLock
             \/ KeepAliveWrite \/ KeepAliveLate

(* Every 15 seconds; the channel holds one tick, and drops what it cannot. *)
Tick ==
  /\ ka \in {"select", "lock", "write"} /\ ~tick
  /\ tick' = TRUE
  /\ UNCHANGED <<kind, h, notes, rwVars, ka, ctx, out, clientVars, stop>>

-----------------------------------------------------------------------------
(* net/http, the client, and Stop.                                         *)

(* The rest of the response is flushed and the exchange is over. *)
Finish ==
  /\ h = "finish"
  /\ Put("end")
  /\ Goto("over")
  /\ UNCHANGED <<notes, rwVars>>

(* The request's context is cancelled once its connection is broken. *)
CancelContext ==
  /\ Broken /\ ~ctx
  /\ ctx' = TRUE
  /\ UNCHANGED <<kind, h, notes, rwVars, ka, tick, out, clientVars, stop>>

Receive ==
  /\ client = "reading" /\ out # <<>>
  /\ last' = Head(out) /\ seen' = seen \cup {last'}
  /\ out' = Tail(out)
  /\ UNCHANGED <<kind, h, notes, rwVars, ka, tick, ctx, client, stop>>

Leave ==
  /\ client' \in {"stuck", "gone"} /\ client # "gone" /\ client' # client
  /\ UNCHANGED <<kind, h, notes, rwVars, ka, tick, ctx, out, last, seen, stop>>

(* Stop: server.Close closes every connection and waits for no handler. *)
Stop ==
  /\ ~stop
  /\ stop' = TRUE
  /\ UNCHANGED <<kind, h, notes, rwVars, ka, tick, ctx, out, clientVars>>

(* The exchange is over, its response read, and keepAlive has ended. *)
Over ==
  /\ h = "over" /\ ka \in {"none", "ended", "crashed"}
  /\ UNCHANGED vars

Next == \/ Handler \/ KeepAlive \/ Tick \/ Finish \/ CancelContext
        \/ Receive \/ Leave \/ Stop \/ Over

Spec == Init /\ [][Next]_vars

(***************************************************************************)
(* Fairness: handler, keepAlive, ticker and net/http keep running, and a   *)
(* client that reads does not pause for ever.  sync.Mutex serves a waiter  *)
(* and select picks at random among its ready cases, so those steps get    *)
(* strong fairness.  Nothing makes a client leave or read, nor Stop run.   *)
(***************************************************************************)
FairSpec ==
  /\ Spec
  /\ WF_vars(Handler) /\ SF_vars(LockMessage) /\ SF_vars(ListenReturns)
  /\ WF_vars(KeepAlive) /\ SF_vars(KeepAliveLock) /\ SF_vars(KeepAliveDone)
  /\ WF_vars(Tick) /\ WF_vars(Finish) /\ WF_vars(CancelContext) /\ WF_vars(Receive)

-----------------------------------------------------------------------------
(* Properties.                                                             *)

(* Types of the variables, with the bounds. *)
TypeOK ==
  /\ kind \in Kinds
  /\ h \in {"json", "accepted", "work", "headers", "note", "noteEnd", "answer",
            "answerEnd", "return", "finish", "over"}
  /\ notes \in 0 .. MaxNotes
  /\ mu \in {Free, "handler", "keepAlive"}
  /\ started \in BOOLEAN /\ done \in BOOLEAN /\ tick \in BOOLEAN
  /\ ctx \in BOOLEAN /\ stop \in BOOLEAN
  /\ ka \in {"none", "select", "lock", "write", "ended", "crashed"}
  /\ out \in Seq({"json", "accepted", "headers", "note", "answer", "blank",
                  "comment", "end"})
  /\ Len(out) <= OutCap
  /\ client \in {"reading", "stuck", "gone"}

(* How far the client has come, from what it has read. *)
Stage ==
  CASE last = "none"                -> "nothing"
    [] last = "end"                 -> "ended"
    [] last \in {"json", "accepted"} -> "answered"
    [] last = "note"                -> "event"
    [] last = "answer"              -> "lastEvent"
    [] OTHER -> IF "answer" \in seen THEN "closing" ELSE "stream"

Promised == INSTANCE Response WITH stage <- Stage

(* What a client reads is a well-formed response, as the module Response   *)
(* has it: httpResponseWriter, keepAlive and net/http never write into one *)
(* another's parts, whichever goroutine writes first and whenever the      *)
(* connection breaks.                                                      *)
RespondsInOrder == Promised!Spec

(* A client that reads is given its answer, with keepAlive contending for  *)
(* mu all the while, unless Stop closes the server.                        *)
CallAnswered ==
  kind \in {"call", "stream"} ~> seen \cap {"json", "answer"} # {} \/ client # "reading" \/ stop

(* "on HTTP, closing the response stream is itself the cancellation        *)
(* signal": when its client has hung up, or Stop has run, a listen ends    *)
(* and releases its subscription.                                          *)
ListenEnds == kind = "listen" /\ Broken ~> h = "over"

(* No keepAlive goroutine is left behind by a request that has ended. *)
KeepAliveEnds == h = "over" ~> ka \in {"none", "ended", "crashed"}

(* "keepAlive periodically emits an SSE comment": a client that reads a    *)
(* quiet stream is sent comments for as long as it stays.                  *)
KeptAlive ==
  <>[](kind = "listen" /\ client = "reading" /\ ~stop) =>
    []<><<Receive /\ last' = "comment">>_vars

(* An SSE stream is "scoped to this request", and a ResponseWriter to its  *)
(* ServeHTTP: keepAlive does not write after the handler has returned.     *)
WithinExchange == ka = "write" => ~Returned
=============================================================================
