------------------------------- MODULE Stream -------------------------------
(***************************************************************************)
(* transport/stream.go: the newline-delimited JSON-RPC loop that the stdio *)
(* and the UNIX-socket bindings share.  One read loop (serve) takes the    *)
(* client's lines in order, runs every request in a goroutine of its own,  *)
(* and keeps a table inflight from JSON-RPC id to the CancelFunc of the    *)
(* request, which notifications/cancelled looks up.  All goroutines write  *)
(* through one mutex-protected writer.                                     *)
(*                                                                         *)
(* A request's handler is mcp.HandleMessage, reduced to what a connection  *)
(* sees of it: a call writes one response and returns; subscriptions/listen*)
(* writes an acknowledgement and then relays events until its context is   *)
(* cancelled, writing no response; a notification writes nothing.          *)
(***************************************************************************)
EXTENDS Integers, Sequences, FiniteSets

CONSTANTS
  Reqs,        \* the messages the client may send, one handler goroutine each
  Ids,         \* JSON-RPC ids
  NoId,        \* what a message without an "id" key has: a notification
  IdOf,        \* the id of every message
  Listens,     \* the requests that are subscriptions/listen
  BadLines,    \* kinds of unusable line the client may send
  Socket,      \* TRUE: a UNIX connection, which Stop closes; FALSE: stdio
  MaxBad,      \* bound: unusable lines sent
  Cancellable, \* bound: the ids that notifications/cancelled is sent for
  MaxCancels,  \* bound: how often it is sent for each
  Mixed,       \* bound: whether a client that sends unusable lines also listens or cancels
  InCap,       \* bound: lines in the pipe to the server
  OutCap       \* bound: chunks in the pipe to the client

ASSUME ConstantsOK ==
  /\ NoId \notin Ids
  /\ IdOf \in [Reqs -> Ids \cup {NoId}]
  /\ Listens \subseteq {r \in Reqs : IdOf[r] # NoId}
  /\ BadLines \subseteq {"garbage", "overlong"}
  /\ Socket \in BOOLEAN
  /\ Cancellable \subseteq Ids /\ Mixed \in BOOLEAN
  /\ MaxBad \in Nat /\ MaxCancels \in Nat
  /\ InCap \in Nat \ {0} /\ OutCap \in Nat \ {0}

ASSUME NamesDiffer == "loop" \notin Reqs /\ "none" \notin Reqs

VARIABLES
  client,    \* "open", "shut" (sends no more: EOF) or "gone" (has disappeared)
  reading,   \* whether the client still reads what it is sent
  sent,      \* the messages the client has sent
  cancels,   \* cancels[i]: how many notifications/cancelled it has sent for id i
  bad,       \* how many unusable lines it has sent
  input,     \* lines on their way to the read loop
  out,       \* chunks on their way to the client: a message, or a newline
  last,      \* the last chunk the client has read
  got,       \* the messages the client has read with their newline
  pc,        \* where the read loop stands
  line,      \* the line it is working on
  target,    \* the request whose CancelFunc handleCancelled has looked up
  inflight,  \* inflight[id]: the request whose CancelFunc is filed under id
  h,         \* h[r]: where the goroutine of message r stands
  cancelled, \* the requests whose own context has been cancelled
  writeMu,   \* who holds writeMu
  stop       \* Stop: "no", "closed", "cancelled" (waiting for serve), "done"

clientVars == <<client, reading, sent, cancels, bad>>
pipeVars   == <<input, out, last, got, writeMu>>
loopVars   == <<pc, line, target>>
reqVars    == <<inflight, h, cancelled>>
vars       == <<clientVars, pipeVars, loopVars, reqVars, stop>>

Free == "none"
None == "none"
Newline == [src |-> None, what |-> "newline"]
Chunks  == [src: Reqs, what: {"resp", "ack", "note"}]
             \cup {[src |-> "loop", what |-> "error"], Newline}
Lines   == [kind: {"msg"}, req: Reqs] \cup [kind: {"cancel"}, id: Ids]
             \cup [kind: BadLines]
NoLine  == [kind |-> None]

IsRequest(r) == IdOf[r] # NoId

(* Idle covers a message that has not been dispatched yet. *)
Finished(r) == h[r] \in {"idle", "done"}

-----------------------------------------------------------------------------
(* Contexts, and the state of the byte stream.  Next to a definition, and  *)
(* before it, stands the faulty form that a property is tried against.     *)

CtxDone == stop \in {"cancelled", "done"}

ConnDone(r) == CtxDone
ReqDone(r)  == CtxDone \/ r \in cancelled

NotClosed == FALSE
Closed    == Socket /\ stop # "no"
Broken    == Closed \/ client = "gone"

Init ==
  /\ client = "open" /\ reading = TRUE /\ sent = {} /\ bad = 0
  /\ cancels = [i \in Ids |-> 0]
  /\ input = <<>> /\ out = <<>> /\ last = Newline /\ got = {}
  /\ pc = "scan" /\ line = NoLine /\ target = None
  /\ inflight = [i \in Ids |-> None]
  /\ h = [r \in Reqs |-> "idle"]
  /\ cancelled = {}
  /\ writeMu = Free
  /\ stop = "no"

-----------------------------------------------------------------------------
(* The client.  It reuses an id only after it has read the response to     *)
(* every earlier request under that id, as JSON-RPC allows.                *)

Send(l) ==
  /\ client = "open"
  /\ Len(input) < InCap
  /\ input' = Append(input, l)
  /\ UNCHANGED <<client, reading, out, last, got, writeMu, loopVars, reqVars, stop>>

SendMessage(r) ==
  /\ r \notin sent
  /\ r \in Listens => Mixed \/ bad = 0
  /\ \A s \in sent : IsRequest(r) /\ IdOf[s] = IdOf[r] => [src |-> s, what |-> "resp"] \in got
  /\ Send([kind |-> "msg", req |-> r])
  /\ sent' = sent \cup {r}
  /\ UNCHANGED <<cancels, bad>>

SendCancel(i) ==
  /\ cancels[i] < MaxCancels /\ (Mixed \/ bad = 0)
  /\ Send([kind |-> "cancel", id |-> i])
  /\ cancels' = [cancels EXCEPT ![i] = @ + 1]
  /\ UNCHANGED <<sent, bad>>

SendBad(k) ==
  /\ bad < MaxBad
  /\ Mixed \/ (sent \cap Listens = {} /\ \A i \in Ids : cancels[i] = 0)
  /\ Send([kind |-> k])
  /\ bad' = bad + 1
  /\ UNCHANGED <<sent, cancels>>

(* The client closes its sending side; or, on a socket, disappears. *)
HangUp ==
  /\ client = "open"
  /\ client' \in IF Socket THEN {"shut", "gone"} ELSE {"shut"}
  /\ reading' = (reading /\ client' = "shut")
  /\ UNCHANGED <<sent, cancels, bad, pipeVars, loopVars, reqVars, stop>>

(* It stops reading, and may go on sending. *)
StopReading ==
  /\ reading
  /\ reading' = FALSE
  /\ UNCHANGED <<client, sent, cancels, bad, pipeVars, loopVars, reqVars, stop>>

Receive ==
  /\ reading
  /\ out # <<>>
  /\ last' = Head(out)
  /\ out' = Tail(out)
  /\ got' = IF last' = Newline THEN got \cup {last} ELSE got
  /\ UNCHANGED <<clientVars, input, writeMu, loopVars, reqVars, stop>>

-----------------------------------------------------------------------------
(* writeLine: the message and its newline are two writes under writeMu.  A *)
(* write blocks while the pipe is full, and fails once it is broken.       *)

UnlockedBody(p, what) ==
  /\ ~Broken /\ Len(out) < OutCap
  /\ out' = Append(out, [src |-> p, what |-> what])
  /\ writeMu' = p

WriteBody(p, what) ==
  /\ writeMu = Free
  /\ ~Broken /\ Len(out) < OutCap
  /\ out' = Append(out, [src |-> p, what |-> what])
  /\ writeMu' = p

NeverUnlocked(p) ==
  /\ writeMu = p
  /\ ~Broken /\ Len(out) < OutCap
  /\ out' = Append(out, Newline)
  /\ UNCHANGED writeMu

WriteNewline(p) ==
  /\ writeMu = p
  /\ ~Broken /\ Len(out) < OutCap
  /\ out' = Append(out, Newline)
  /\ writeMu' = Free

WriteFails(p) ==
  /\ writeMu \in {Free, p}
  /\ Broken
  /\ writeMu' = Free
  /\ UNCHANGED out

-----------------------------------------------------------------------------
(* The read loop.                                                          *)

(* The end of one iteration; line and target are locals of it. *)
NextLine == pc' = "scan" /\ line' = NoLine /\ target' = None
Step(s)  == pc' = s /\ UNCHANGED <<line, target>>

(* Only the inflight entries change: r is filed, or deleted by its id. *)
Filed(r) == [inflight EXCEPT ![IdOf[r]] = r]

UnfiledAll(r)  == [i \in Ids |-> None]
UnfiledNone(r) == inflight
Unfiled(r)     == [inflight EXCEPT ![IdOf[r]] = None]

SerialScanning == pc = "scan" /\ \A r \in Reqs : Finished(r)
Scanning       == pc = "scan"

(* scanner.Scan() returns a line, the loop tests ctx.Done and looks at what *)
(* it has read.  A locally closed connection may still yield lines that the *)
(* scanner has buffered.                                                    *)
Scan ==
  /\ Scanning
  /\ input # <<>>
  /\ input' = Tail(input)
  /\ line' = Head(input)
  /\ pc' = IF line'.kind = "overlong" \/ CtxDone THEN "wait"
           ELSE IF line'.kind = "garbage" THEN "error"
           ELSE IF line'.kind = "cancel" THEN "lookup" ELSE "dispatch"
  /\ UNCHANGED <<clientVars, out, last, got, writeMu, target, reqVars, stop>>

(* scanner.Scan() returns false: end of input, or the connection is closed. *)
ScanEnds ==
  /\ Scanning
  /\ (input = <<>> /\ client # "open") \/ Closed
  /\ Step("wait")
  /\ UNCHANGED <<clientVars, pipeVars, reqVars, stop>>

(* The parse-error reply is written by the loop itself. *)
ReplyParseError ==
  /\ \/ pc = "error" /\ WriteBody("loop", "error") /\ Step("errorNL")
     \/ pc = "errorNL" /\ WriteNewline("loop") /\ NextLine
     \/ pc \in {"error", "errorNL"} /\ WriteFails("loop") /\ NextLine
  /\ UNCHANGED <<clientVars, input, last, got, reqVars, stop>>

AlwaysFound(i) == TRUE
Found(i)       == inflight[i] # None

(* handleCancelled: the table is read under inflightMu, ... *)
LookupCancel ==
  /\ pc = "lookup"
  /\ IF Found(line.id)
       THEN pc' = "fire" /\ target' = inflight[line.id] /\ UNCHANGED line
       ELSE NextLine
  /\ UNCHANGED <<clientVars, pipeVars, reqVars, stop>>

AllCancelled == cancelled \cup {r \in Reqs : \E i \in Ids : inflight[i] = r}
NowCancelled == cancelled \cup {target}

(* ... and the CancelFunc is called after inflightMu is released. *)
FireCancel ==
  /\ pc = "fire"
  /\ cancelled' = NowCancelled
  /\ NextLine
  /\ UNCHANGED <<clientVars, pipeVars, inflight, h, stop>>

(* A request is filed under its id before its goroutine is started; a      *)
(* notification gets a goroutine but no entry.                             *)
Dispatch ==
  /\ pc = "dispatch"
  /\ LET r == line.req IN
       /\ inflight' = IF IsRequest(r) THEN Filed(r) ELSE inflight
       /\ h' = [h EXCEPT ![r] = IF r \in Listens THEN "ack"
                                ELSE IF IsRequest(r) THEN "resp" ELSE "back"]
  /\ NextLine
  /\ UNCHANGED <<clientVars, pipeVars, cancelled, stop>>

CallsDone == \A r \in Reqs \ Listens : Finished(r)
AllDone   == \A r \in Reqs : Finished(r)

(* wg.Wait(), then serve returns. *)
ServeReturns ==
  /\ pc = "wait"
  /\ AllDone
  /\ Step("returned")
  /\ UNCHANGED <<clientVars, pipeVars, reqVars, stop>>

Loop == \/ Scan \/ ScanEnds \/ ReplyParseError \/ LookupCancel
        \/ FireCancel \/ Dispatch \/ ServeReturns

-----------------------------------------------------------------------------
(* The goroutine of message r.                                             *)

Newlines == [resp |-> "respNL", ack |-> "ackNL", note |-> "noteNL"]

Goto(r, s) == h' = [h EXCEPT ![r] = s]

HandlerBody(r) ==
  /\ h[r] \in DOMAIN Newlines
  /\ WriteBody(r, h[r])
  /\ Goto(r, Newlines[h[r]])
  /\ UNCHANGED <<clientVars, input, last, got, loopVars, inflight, cancelled, stop>>

HandlerNewline(r) ==
  /\ h[r] \in {"respNL", "ackNL", "noteNL"}
  /\ WriteNewline(r)
  /\ Goto(r, IF h[r] = "respNL" THEN "back" ELSE "relay")
  /\ UNCHANGED <<clientVars, input, last, got, loopVars, inflight, cancelled, stop>>

(* A failed response or acknowledgement ends the handler; the error of a   *)
(* relayed event is ignored.                                               *)
HandlerWriteFails(r) ==
  /\ h[r] \in {"resp", "respNL", "ack", "ackNL", "note", "noteNL"}
  /\ WriteFails(r)
  /\ Goto(r, IF h[r] \in {"note", "noteNL"} THEN "relay" ELSE "back")
  /\ UNCHANGED <<clientVars, input, last, got, loopVars, inflight, cancelled, stop>>

(* The listen select: an event is pending, and there may always be another *)
(* one, ...                                                                *)
RelayEvent(r) ==
  /\ h[r] = "relay"
  /\ Goto(r, "note")
  /\ UNCHANGED <<clientVars, pipeVars, loopVars, inflight, cancelled, stop>>

(* ... or the context is done.  Go picks either when both are ready. *)
ListenEnds(r) ==
  /\ h[r] = "relay"
  /\ ReqDone(r)
  /\ Goto(r, "back")
  /\ UNCHANGED <<clientVars, pipeVars, loopVars, inflight, cancelled, stop>>

(* The deferred cleanup: for a request cancel() and delete by id, then     *)
(* wg.Done for every goroutine.                                            *)
Cleanup(r) ==
  /\ h[r] = "back"
  /\ IF IsRequest(r)
       THEN /\ cancelled' = cancelled \cup {r}
            /\ inflight' = Unfiled(r)
       ELSE UNCHANGED <<cancelled, inflight>>
  /\ Goto(r, "done")
  /\ UNCHANGED <<clientVars, pipeVars, loopVars, stop>>

Handler(r) == \/ HandlerBody(r) \/ HandlerNewline(r) \/ HandlerWriteFails(r)
              \/ RelayEvent(r) \/ ListenEnds(r) \/ Cleanup(r)

-----------------------------------------------------------------------------
(* Stop.  The UNIX binding closes the connection and then cancels its      *)
(* context (as does a newer connection that replaces it); stdio only       *)
(* cancels.  Both then wait for serve.                                     *)

StopCloses ==
  /\ Socket /\ stop = "no"
  /\ stop' = "closed"
  /\ UNCHANGED <<clientVars, pipeVars, loopVars, reqVars>>

StopCancels ==
  /\ stop = IF Socket THEN "closed" ELSE "no"
  /\ stop' = "cancelled"
  /\ UNCHANGED <<clientVars, pipeVars, loopVars, reqVars>>

StopReturns ==
  /\ stop = "cancelled"
  /\ pc = "returned"
  /\ stop' = "done"
  /\ UNCHANGED <<clientVars, pipeVars, loopVars, reqVars>>

Client == \/ \E r \in Reqs : SendMessage(r)
          \/ \E i \in Cancellable : SendCancel(i)
          \/ \E k \in BadLines : SendBad(k)
          \/ HangUp
          \/ StopReading
          \/ Receive

Stopper == StopCloses \/ StopCancels \/ StopReturns

Next == Client \/ Loop \/ (\E r \in Reqs : Handler(r)) \/ Stopper

Spec == Init /\ [][Next]_vars

(***************************************************************************)
(* Fairness.  Every goroutine keeps running: weak fairness for each.  Two  *)
(* steps need strong fairness, and Go gives it: a goroutine waiting for    *)
(* writeMu is served (sync.Mutex hands the lock to a waiter after 1ms) and *)
(* select picks among its ready cases at random, so a done context is not  *)
(* passed over for ever.                                                   *)
(***************************************************************************)
ServerFairness ==
  /\ WF_vars(Loop) /\ SF_vars(ReplyParseError)
  /\ \A r \in Reqs : /\ WF_vars(Handler(r))
                     /\ SF_vars(HandlerBody(r) \/ HandlerWriteFails(r))
                     /\ SF_vars(ListenEnds(r))
  /\ WF_vars(StopCancels /\ Socket) /\ WF_vars(StopReturns)

(* The server runs, and a client that reads does not pause for ever. *)
FairSpec == Spec /\ ServerFairness /\ WF_vars(Receive)
-----------------------------------------------------------------------------
(* Properties.                                                             *)

Calls == {r \in Reqs : IsRequest(r) /\ r \notin Listens}

(* No two messages share an id: what the protocol asks of a client. *)
UniqueIds == \A r, s \in Reqs : IsRequest(r) /\ IdOf[r] = IdOf[s] => r = s

(* The handler of r runs: cancelling r still makes a difference. *)
Running(r) == h[r] \notin {"idle", "done"}

(* Types of the variables, with the bounds on what the client sends. *)
TypeOK ==
  /\ client \in {"open", "shut", "gone"} /\ reading \in BOOLEAN
  /\ sent \subseteq Reqs /\ bad \in 0 .. MaxBad
  /\ cancels \in [Ids -> 0 .. MaxCancels]
  /\ input \in Seq(Lines) /\ out \in Seq(Chunks)
  /\ last \in Chunks /\ got \subseteq Chunks
  /\ pc \in {"scan", "error", "errorNL", "lookup", "fire", "dispatch", "wait",
             "returned"}
  /\ line \in Lines \cup {NoLine} /\ target \in Reqs \cup {None}
  /\ inflight \in [Ids -> Reqs \cup {None}]
  /\ h \in [Reqs -> {"idle", "resp", "respNL", "ack", "ackNL", "relay", "note",
                     "noteNL", "back", "done"}]
  /\ cancelled \subseteq Reqs
  /\ writeMu \in Reqs \cup {"loop", Free}
  /\ stop \in {"no", "closed", "cancelled", "done"}

(* "so concurrent notifications/responses don't interleave mid-line": in   *)
(* what the client has read and is about to read, messages and newlines    *)
(* alternate, whichever goroutines wrote them and whenever writes failed.  *)
Framed ==
  LET s == <<last>> \o out
  IN \A i \in 1 .. Len(out) : (s[i] = Newline) # (s[i + 1] = Newline)

Promised == INSTANCE Session WITH garbled <- bad > 0

(* What the client of a connection reads is what module Session promises:  *)
(* whole lines; one response to each call, whatever ids it reuses; events  *)
(* of a listen only after its acknowledgement; nothing for anything else.  *)
SeenInOrder == Promised!Spec

(* handleCancelled "cancels the in-flight request named by the             *)
(* notification": whenever the table is consulted for an id, a handler     *)
(* still running under that id is what it finds.  Needs the registration   *)
(* before the goroutine starts and no deletion of another request's entry. *)
CancelFindsRequest ==
  pc = "lookup" => \A r \in Reqs : IdOf[r] = line.id /\ Running(r) => inflight[line.id] = r

(* The table holds nothing but running requests, each under its own id: a  *)
(* long-lived connection does not accumulate entries.                      *)
NoStaleEntries ==
  \A i \in Ids : inflight[i] # None =>
     /\ IdOf[inflight[i]] = i
     /\ Running(inflight[i])

(* Cancelling one request happens "without disturbing anything else": a    *)
(* listen ends only if the client cancelled its id, the connection was     *)
(* stopped, or its stream broke.                                           *)
ListenUndisturbed ==
  \A r \in Listens : h[r] \in {"back", "done"} =>
     cancels[IdOf[r]] > 0 \/ CtxDone \/ Broken

(* serve "blocks until all in-flight handlers have returned": afterwards   *)
(* no goroutine of the connection is left to touch the stream or the table,*)
(* on every path out of the loop.                                          *)
ServeWaits ==
  pc = "returned" => /\ \A r \in Reqs : h[r] \in {"idle", "done"}
                     /\ writeMu = Free
                     /\ \A i \in Ids : inflight[i] = None

(* Every call the client sends is answered, however many other requests    *)
(* are open, unless the connection is stopped or broken, or the client     *)
(* reads no more.                                                          *)
CallsAnswered ==
  \A r \in Calls :
     r \in sent ~> [src |-> r, what |-> "resp"] \in got \/ CtxDone \/ Broken \/ ~reading

(* A listen ends once a cancellation of its id follows it down the pipe,   *)
(* wherever its goroutine stands by the time the loop reads that line.     *)
CancelEndsListen ==
  \A r \in Listens :
     (r \in sent /\ input # <<>> /\ input[Len(input)] = [kind |-> "cancel", id |-> IdOf[r]])
       ~> (h[r] = "done" \/ CtxDone \/ ~reading)

(* The read loop is never held up by handlers, even if the client reads    *)
(* nothing and they all block: the input is consumed, up to an unparsable  *)
(* line, whose reply the loop writes itself.  This is why requests get     *)
(* goroutines: a serial loop "would deadlock the moment one request opens  *)
(* a long-lived subscription".                                             *)
InputConsumed ==
  input # <<>> ~> (input = <<>> \/ pc \in {"error", "errorNL", "wait", "returned"})

(* Stop returns on a socket, whatever the client does and whatever is in   *)
(* flight, blocked writes included; on stdio it returns if the client has  *)
(* closed its side and reads.                                              *)
StopCompletes ==
  (stop # "no" /\ (Socket \/ client # "open")) ~> (stop = "done" \/ ~(Socket \/ reading))

(* End of input ends the connection, unless a listen is open. *)
EofEndsCalls ==
  client = "shut" ~> (pc = "returned" \/ ~reading \/ \E r \in Listens : Running(r))

(* End of input ends the connection: "the primary and only fully portable  *)
(* shutdown signal for a stdio server is its stdin being closed".          *)
EofEndsServe == client = "shut" ~> (pc = "returned" \/ ~reading)
=============================================================================
