------------------------- MODULE HttpExchangeProofs -------------------------
(***************************************************************************)
(* What holds of one POST for any kinds of request, any number of          *)
(* notifications and any number of parts under way: proved with TLAPS from *)
(* the specification of module HttpExchange, and the refinement of         *)
(* Response, step by step.                                                 *)
(***************************************************************************)
EXTENDS HttpExchange, SequenceTheorems, TLAPS

Parts == {"json", "accepted", "headers", "note", "answer", "blank", "comment", "end"}

-----------------------------------------------------------------------------
(* The response as sent so far: what the client has read last, and then    *)
(* what is on its way.                                                     *)

(* The stage that a response is in when p came last, after an answer or not.*)
StageOf(p, answered) ==
  CASE p = "none"                 -> "nothing"
    [] p = "end"                  -> "ended"
    [] p \in {"json", "accepted"} -> "answered"
    [] p = "note"                 -> "event"
    [] p = "answer"               -> "lastEvent"
    [] OTHER -> IF answered THEN "closing" ELSE "stream"

PartAt(i)   == IF i = 0 THEN last ELSE out[i]
Answered(i) == "answer" \in seen \/ \E j \in 1 .. i : out[j] = "answer"
StageAt(i)  == StageOf(PartAt(i), Answered(i))
Sent        == StageAt(Len(out))

(* What may come in a stage. *)
Allowed(s) ==
  CASE s = "nothing"              -> {"json", "accepted", "headers", "end"}
    [] s = "stream"               -> {"note", "answer", "comment", "end"}
    [] s \in {"event", "lastEvent"} -> {"blank"}
    [] s = "closing"              -> {"comment", "end"}
    [] s = "answered"             -> {"end"}
    [] OTHER                      -> {}

InOrder == \A i \in 1 .. Len(out) : out[i] \in Allowed(StageAt(i - 1))

(* Nothing but the end of the stream comes after its answer. *)
AnswerIsLast ==
  \A i \in 0 .. Len(out) : Answered(i) => StageAt(i) \in {"lastEvent", "closing", "ended"}

ReadIsSeen == last \in Parts \cup {"none"} /\ (last = "answer" => "answer" \in seen)

InForm == InOrder /\ AnswerIsLast /\ ReadIsSeen

KeepsAlive == ka \in {"select", "lock", "write"}

(* mu keeps handler and keepAlive apart, and keepAlive starts only when    *)
(* the headers are out.                                                    *)
Apart ==
  /\ h \in {"headers", "note", "noteEnd", "answer", "answerEnd"}
       \/ (h = "json" /\ kind \in {"call", "stream"}) => mu = "handler"
  /\ ka = "write" <=> mu = "keepAlive"
  /\ h \in {"json", "accepted", "headers"} => ~started
  /\ h \in {"note", "noteEnd", "answer", "answerEnd"} => started
  /\ KeepsAlive => started

(* As long as the connection is whole, the goroutines know how far the     *)
(* response has come.                                                      *)
WritersAgree ==
  ~Broken =>
    /\ h \in {"json", "accepted", "headers"} => Sent = "nothing"
    /\ h = "work" => Sent = IF started THEN "stream" ELSE "nothing"
    /\ h \in {"note", "answer"} => Sent = "stream"
    /\ h = "noteEnd" => Sent = "event"
    /\ h = "answerEnd" => Sent = "lastEvent"
    /\ h \in {"return", "finish"} =>
         Sent \in IF KeepsAlive THEN {"stream", "closing"}
                                ELSE {"nothing", "answered", "stream", "closing"}
    /\ h = "over" => Sent = "ended"

Inv == TypeOK /\ InForm /\ Apart /\ WritersAgree

-----------------------------------------------------------------------------
(* Sending and receiving one part.                                         *)

(* How the stage moves on: the transitions of Response, from what has come *)
(* last to what comes next.                                                *)
Moves(s, p, t) ==
  \/ s = "nothing" /\ p \in {"json", "accepted"} /\ t = "answered"
  \/ s = "nothing" /\ p = "headers" /\ t = "stream"
  \/ s = "stream" /\ p = "note" /\ t = "event"
  \/ s = "stream" /\ p = "answer" /\ t = "lastEvent"
  \/ s = "event" /\ p = "blank" /\ t = "stream"
  \/ s = "lastEvent" /\ p = "blank" /\ t = "closing"
  \/ s \in {"stream", "closing"} /\ p = "comment" /\ t = s
  \/ s \in {"nothing", "answered", "stream", "closing"} /\ p = "end" /\ t = "ended"

LEMMA NextStage ==
  ASSUME NEW q \in Parts \cup {"none"}, NEW a \in BOOLEAN, q = "answer" => a,
         a => StageOf(q, a) \in {"lastEvent", "closing", "ended"},
         NEW p \in Allowed(StageOf(q, a))
  PROVE  /\ p \in Parts
         /\ Moves(StageOf(q, a), p, StageOf(p, a \/ p = "answer"))
         /\ (a \/ p = "answer") => StageOf(p, a \/ p = "answer") \in {"lastEvent", "closing", "ended"}
  BY DEF StageOf, Allowed, Moves, Parts

LEMMA PartsTyped ==
  ASSUME TypeOK, InForm, NEW i \in 0 .. Len(out)
  PROVE  /\ PartAt(i) \in Parts \cup {"none"}
         /\ Answered(i) \in BOOLEAN
         /\ PartAt(i) = "answer" => Answered(i)
<1>1. out \in Seq(Parts)
  BY DEF TypeOK, Parts
<1>2. QED
  BY <1>1 DEF PartAt, Answered, InForm, ReadIsSeen

(* A part that may come next keeps the response in form. *)
LEMMA Sending ==
  ASSUME TypeOK, InForm, NEW p \in Parts, p \in Allowed(Sent),
         out' = Append(out, p), UNCHANGED <<last, seen>>
  PROVE  InForm' /\ Moves(Sent, p, Sent')
<1>0. PICK n \in Nat : n = Len(out)
  BY DEF TypeOK
<1>1. out \in Seq(Parts) /\ n \in Nat
  BY DEF TypeOK, Parts
<1>2. /\ Len(out') = n + 1
      /\ \A i \in 1 .. n : out'[i] = out[i]
      /\ out'[n + 1] = p
  BY <1>0, <1>1, AppendProperties
<1>3. ASSUME NEW i \in 0 .. n
      PROVE  PartAt(i)' = PartAt(i) /\ (Answered(i)' <=> Answered(i)) /\ StageAt(i)' = StageAt(i)
  <2>1. PartAt(i)' = PartAt(i)
    BY <1>1, <1>2 DEF PartAt
  <2>2. Answered(i)' <=> Answered(i)
    BY <1>1, <1>2 DEF Answered
  <2>3. Answered(i)' = Answered(i)
    BY <2>2 DEF Answered
  <2>4. QED
    BY <2>1, <2>2, <2>3 DEF StageAt
<1>4. PartAt(n + 1)' = p /\ (Answered(n + 1)' <=> Answered(n) \/ p = "answer")
  <2>1. PartAt(n + 1)' = p
    BY <1>1, <1>2 DEF PartAt
  <2>2. ("answer" \in seen \/ \E j \in 1 .. n + 1 : out'[j] = "answer")
          <=> Answered(n) \/ p = "answer"
    BY <1>1, <1>2 DEF Answered
  <2>3. QED
    BY <2>1, <2>2 DEF Answered
<1>5. StageAt(n + 1)' = StageOf(p, Answered(n) \/ p = "answer")
  <2>1. Answered(n + 1)' = (Answered(n) \/ p = "answer")
    BY <1>4 DEF Answered
  <2>2. QED
    BY <1>4, <2>1 DEF StageAt
<1>6. Sent = StageAt(n) /\ Sent' = StageAt(n + 1)'
  BY <1>0, <1>2 DEF Sent
<1>7. /\ Moves(Sent, p, Sent')
      /\ Answered(n) \/ p = "answer" => Sent' \in {"lastEvent", "closing", "ended"}
  <2>1. /\ PartAt(n) \in Parts \cup {"none"} /\ Answered(n) \in BOOLEAN
        /\ PartAt(n) = "answer" => Answered(n)
    BY <1>0, <1>1, PartsTyped
  <2>2. Answered(n) => StageOf(PartAt(n), Answered(n)) \in {"lastEvent", "closing", "ended"}
    <3>1. n \in 0 .. Len(out)
      BY <1>0
    <3>2. QED
      BY <3>1 DEF InForm, AnswerIsLast, StageAt
  <2>3. p \in Allowed(StageOf(PartAt(n), Answered(n)))
    BY <1>6 DEF StageAt
  <2>4. QED
    BY <1>5, <1>6, <2>1, <2>2, <2>3, NextStage DEF StageAt
<1>8. InOrder'
  <2>1. ASSUME NEW i \in 1 .. n + 1 PROVE out'[i] \in Allowed(StageAt(i - 1)')
    <3>1. CASE i \in 1 .. n
      <4>1. i - 1 \in 0 .. n
        BY <1>1, <3>1
      <4>2. out[i] \in Allowed(StageAt(i - 1))
        BY <1>0, <3>1 DEF InForm, InOrder
      <4>3. QED
        BY <1>2, <1>3, <3>1, <4>1, <4>2
    <3>2. CASE i = n + 1
      <4>1. i - 1 = n /\ n \in 0 .. n
        BY <1>1, <3>2
      <4>2. StageAt(i - 1)' = StageAt(n)
        BY <1>3, <4>1
      <4>3. QED
        BY <1>2, <1>6, <3>2, <4>2
    <3>3. i \in 1 .. n \/ i = n + 1
      BY <1>1
    <3>4. QED
      BY <3>1, <3>2, <3>3
  <2>2. QED
    BY <1>2, <2>1 DEF InOrder
<1>9. AnswerIsLast'
  <2>1. ASSUME NEW i \in 0 .. n + 1, Answered(i)'
        PROVE  StageAt(i)' \in {"lastEvent", "closing", "ended"}
    <3>1. CASE i \in 0 .. n
      <4>1. Answered(i) /\ StageAt(i)' = StageAt(i)
        BY <1>3, <2>1, <3>1
      <4>2. QED
        BY <1>0, <3>1, <4>1 DEF InForm, AnswerIsLast
    <3>2. CASE i = n + 1
      BY <1>4, <1>6, <1>7, <2>1, <3>2
    <3>3. QED
      BY <1>1, <2>1, <3>1, <3>2
  <2>2. QED
    BY <1>2, <2>1 DEF AnswerIsLast
<1>10. ReadIsSeen'
  BY DEF InForm, ReadIsSeen
<1>11. QED
  BY <1>7, <1>8, <1>9, <1>10 DEF InForm

(* Reading a part leaves the rest as it was, and moves the client on by    *)
(* one transition.                                                         *)
LEMMA Receiving ==
  ASSUME TypeOK, InForm, Receive
  PROVE  InForm' /\ Sent' = Sent /\ Moves(StageAt(0), last', StageAt(0)')
<1>0. PICK n : n = Len(out')
  OBVIOUS
<1>1. out \in Seq(Parts) /\ out # <<>>
  BY DEF TypeOK, Parts, Receive
<1>2. /\ out' = Tail(out) /\ n \in Nat /\ Len(out) = n + 1
      /\ \A i \in 1 .. n : out'[i] = out[i + 1]
      /\ last' = out[1] /\ out[1] \in Parts /\ seen' = seen \cup {out[1]}
  BY <1>0, <1>1, HeadTailProperties DEF Receive
<1>3. ASSUME NEW i \in 0 .. n
      PROVE  /\ PartAt(i)' = PartAt(i + 1) /\ (Answered(i)' <=> Answered(i + 1))
             /\ StageAt(i)' = StageAt(i + 1)
  <2>1. PartAt(i)' = PartAt(i + 1)
    BY <1>2 DEF PartAt
  <2>2. ("answer" \in seen' \/ \E j \in 1 .. i : out'[j] = "answer")
          <=> "answer" \in seen \/ \E j \in 1 .. i + 1 : out[j] = "answer"
    <3>1. (\E j \in 1 .. i + 1 : out[j] = "answer")
            <=> out[1] = "answer" \/ \E j \in 1 .. i : out[j + 1] = "answer"
      <4>1. ASSUME NEW j \in 1 .. i + 1, out[j] = "answer", j # 1
            PROVE  \E k \in 1 .. i : out[k + 1] = "answer"
        <5>1. j - 1 \in 1 .. i /\ (j - 1) + 1 = j
          BY <4>1
        <5>2. QED
          BY <4>1, <5>1
      <4>2. \A j \in 1 .. i : j + 1 \in 1 .. i + 1
        BY <1>2
      <4>3. 1 \in 1 .. i + 1
        BY <1>2
      <4>4. QED
        BY <4>1, <4>2, <4>3
    <3>2. \A j \in 1 .. i : out'[j] = out[j + 1]
      BY <1>2
    <3>3. "answer" \in seen' <=> "answer" \in seen \/ out[1] = "answer"
      BY <1>2
    <3>4. QED
      BY <3>1, <3>2, <3>3
  <2>3. Answered(i)' = Answered(i + 1)
    BY <2>2 DEF Answered
  <2>4. QED
    BY <2>1, <2>3 DEF StageAt
<1>4. Sent' = Sent
  BY <1>0, <1>2, <1>3 DEF Sent
<1>5. InOrder'
  <2>1. ASSUME NEW i \in 1 .. n PROVE out'[i] \in Allowed(StageAt(i - 1)')
    <3>1. i - 1 \in 0 .. n /\ i + 1 \in 1 .. Len(out) /\ (i - 1) + 1 = i /\ (i + 1) - 1 = i
      BY <1>2
    <3>2. out[i + 1] \in Allowed(StageAt((i + 1) - 1))
      BY <3>1 DEF InForm, InOrder
    <3>3. StageAt(i - 1)' = StageAt(i)
      BY <1>3, <3>1
    <3>4. QED
      BY <1>2, <3>1, <3>2, <3>3
  <2>2. QED
    BY <1>0, <2>1 DEF InOrder
<1>6. AnswerIsLast'
  <2>1. ASSUME NEW i \in 0 .. n, Answered(i)' PROVE StageAt(i)' \in {"lastEvent", "closing", "ended"}
    <3>1. i + 1 \in 0 .. Len(out) /\ Answered(i + 1) /\ StageAt(i)' = StageAt(i + 1)
      BY <1>2, <1>3, <2>1
    <3>2. QED
      BY <3>1 DEF InForm, AnswerIsLast
  <2>2. QED
    BY <1>0, <2>1 DEF AnswerIsLast
<1>7. ReadIsSeen'
  BY <1>2 DEF ReadIsSeen
<1>8. Moves(StageAt(0), last', StageAt(0)')
  <2>1. /\ PartAt(0) \in Parts \cup {"none"} /\ Answered(0) \in BOOLEAN
        /\ PartAt(0) = "answer" => Answered(0)
    BY <1>2, PartsTyped
  <2>2. Answered(0) => StageOf(PartAt(0), Answered(0)) \in {"lastEvent", "closing", "ended"}
    BY <1>2 DEF InForm, AnswerIsLast, StageAt
  <2>3. out[1] \in Allowed(StageOf(PartAt(0), Answered(0)))
    <3>1. 1 \in 1 .. Len(out) /\ 1 - 1 = 0
      BY <1>2
    <3>2. QED
      BY <3>1 DEF InForm, InOrder, StageAt
  <2>4. Moves(StageAt(0), out[1], StageOf(out[1], Answered(0) \/ out[1] = "answer"))
    BY <2>1, <2>2, <2>3, NextStage DEF StageAt
  <2>5. StageAt(0)' = StageOf(out[1], Answered(0) \/ out[1] = "answer")
    <3>1. PartAt(0)' = out[1]
      BY <1>2 DEF PartAt
    <3>2. Answered(0)' = (Answered(0) \/ out[1] = "answer")
      <4>1. ("answer" \in seen' \/ \E j \in 1 .. 0 : out'[j] = "answer")
              <=> ("answer" \in seen \/ \E j \in 1 .. 0 : out[j] = "answer") \/ out[1] = "answer"
        BY <1>2
      <4>2. QED
        BY <4>1 DEF Answered
    <3>3. QED
      BY <3>1, <3>2 DEF StageAt
  <2>6. QED
    BY <1>2, <2>4, <2>5
<1>9. QED
  BY <1>4, <1>5, <1>6, <1>7, <1>8 DEF InForm

-----------------------------------------------------------------------------
(* Types.                                                                  *)

LEMMA PutTyped ==
  ASSUME TypeOK, NEW p \in Parts, Put(p)
  PROVE  out' \in Seq(Parts) /\ Len(out') <= OutCap
<1>1. out \in Seq(Parts) /\ Len(out) <= OutCap /\ OutCap \in Nat
  BY ConstantsOK DEF TypeOK, Parts
<1>2. Append(out, p) \in Seq(Parts) /\ Len(Append(out, p)) = Len(out) + 1
  BY <1>1, AppendProperties
<1>3. QED
  BY <1>1, <1>2 DEF Put

LEMMA NextTyped == TypeOK /\ [Next]_vars => TypeOK'
<1> SUFFICES ASSUME TypeOK, [Next]_vars PROVE TypeOK'
  OBVIOUS
<1> USE ConstantsOK DEF rwVars, clientVars, Free, Goto, KeepAliveGoto
<1>1. out \in Seq(Parts) /\ Len(out) <= OutCap
  BY DEF TypeOK, Parts
<1>2. ASSUME out' \in Seq(Parts), Len(out') <= OutCap, UNCHANGED <<kind, client, stop>>,
             h' \in {"json", "accepted", "work", "headers", "note", "noteEnd", "answer",
                     "answerEnd", "return", "finish", "over"},
             notes' \in 0 .. MaxNotes, mu' \in {Free, "handler", "keepAlive"},
             started' \in BOOLEAN, done' \in BOOLEAN, tick' \in BOOLEAN, ctx' \in BOOLEAN,
             ka' \in {"none", "select", "lock", "write", "ended", "crashed"}
      PROVE  TypeOK'
  BY <1>2 DEF TypeOK, Parts
<1>3. CASE WriteBare
  <2>1. out' \in Seq(Parts) /\ Len(out') <= OutCap
    BY <1>3, PutTyped DEF WriteBare, Parts
  <2>2. QED
    BY <1>3, <2>1 DEF WriteBare, TypeOK, Parts
<1>4. CASE LockNote
  BY <1>4 DEF LockNote, TypeOK
<1>5. CASE UpgradeToSSE
  <2>1. out' \in Seq(Parts) /\ Len(out') <= OutCap
    BY <1>5, PutTyped DEF UpgradeToSSE, Parts
  <2>2. QED
    BY <1>5, <2>1 DEF UpgradeToSSE, Upgrade, TypeOK, Parts
<1>6. CASE EventData
  <2>1. out' \in Seq(Parts) /\ Len(out') <= OutCap
    BY <1>6, PutTyped DEF EventData, Parts
  <2>2. QED
    BY <1>6, <2>1 DEF EventData, TypeOK, Parts
<1>7. CASE NoteEnd
  <2>1. out' \in Seq(Parts) /\ Len(out') <= OutCap
    BY <1>7, PutTyped DEF NoteEnd, Parts
  <2>2. QED
    BY <1>7, <2>1 DEF NoteEnd, TypeOK, Parts
<1>8. CASE LockMessage
  BY <1>8 DEF LockMessage, TypeOK
<1>9. CASE MessageEnd
  <2>1. out' \in Seq(Parts) /\ Len(out') <= OutCap
    BY <1>9, PutTyped DEF MessageEnd, Parts
  <2>2. QED
    BY <1>9, <2>1 DEF MessageEnd, TypeOK, Parts
<1>10. CASE ListenReturns
  BY <1>10 DEF ListenReturns, TypeOK
<1>11. CASE HandlePostReturns
  BY <1>11 DEF HandlePostReturns, CloseDone, TypeOK
<1>12. CASE KeepAliveDone \/ KeepAliveTick \/ KeepAliveLock
  <2>1. CASE KeepAliveDone
    BY <2>1 DEF KeepAliveDone, TypeOK
  <2>2. CASE KeepAliveTick
    BY <2>2 DEF KeepAliveTick, TypeOK
  <2>3. CASE KeepAliveLock
    BY <2>3 DEF KeepAliveLock, TypeOK
  <2>4. QED
    BY <1>12, <2>1, <2>2, <2>3
<1>13. CASE KeepAliveWrite
  <2>1. out' \in Seq(Parts) /\ Len(out') <= OutCap
    BY <1>13, PutTyped DEF KeepAliveWrite, Parts
  <2>2. QED
    BY <1>13, <2>1 DEF KeepAliveWrite, TypeOK, Parts
<1>14. CASE KeepAliveLate
  <2>1. out' \in Seq(Parts) /\ Len(out') <= OutCap
    BY <1>1, <1>14, PutTyped DEF KeepAliveLate, Parts
  <2>2. QED
    BY <1>14, <2>1 DEF KeepAliveLate, TypeOK, Parts
<1>15. CASE Finish
  <2>1. out' \in Seq(Parts) /\ Len(out') <= OutCap
    BY <1>15, PutTyped DEF Finish, Parts
  <2>2. QED
    BY <1>15, <2>1 DEF Finish, TypeOK, Parts
<1>16. CASE Receive
  <2>1. Tail(out) \in Seq(Parts) /\ Len(Tail(out)) <= OutCap
    BY <1>1, <1>16 DEF Receive
  <2>2. QED
    BY <1>16, <2>1 DEF Receive, TypeOK, Parts
<1>17. CASE Tick \/ CancelContext \/ Leave \/ Stop \/ Over \/ UNCHANGED vars
  <2>1. CASE Tick
    BY <2>1 DEF Tick, TypeOK
  <2>2. CASE CancelContext
    BY <2>2 DEF CancelContext, TypeOK
  <2>3. CASE Leave
    BY <2>3 DEF Leave, TypeOK
  <2>4. CASE Stop
    BY <2>4 DEF Stop, TypeOK
  <2>5. CASE Over
    BY <2>5 DEF Over, vars, TypeOK
  <2>6. CASE UNCHANGED vars
    BY <2>6 DEF vars, TypeOK
  <2>7. QED
    BY <1>17, <2>1, <2>2, <2>3, <2>4, <2>5, <2>6
<1>18. QED
  BY <1>3, <1>4, <1>5, <1>6, <1>7, <1>8, <1>9, <1>10, <1>11, <1>12, <1>13, <1>14, <1>15, <1>16, <1>17
  DEF Next, Handler, KeepAlive

-----------------------------------------------------------------------------
(* The invariant.                                                          *)

LEMMA Putting ==
  ASSUME TypeOK, InForm, NEW p \in Parts, Put(p), ~Broken => p \in Allowed(Sent),
         UNCHANGED <<last, seen, client, stop>>
  PROVE  InForm' /\ (Broken' <=> Broken) /\ (~Broken => Moves(Sent, p, Sent'))
<1>1. Broken' <=> Broken
  BY DEF Broken
<1>2. CASE Broken
  BY <1>1, <1>2
  DEF Put, InForm, InOrder, AnswerIsLast, ReadIsSeen, StageAt, PartAt, Answered
<1>3. CASE ~Broken
  BY <1>1, <1>3, Sending DEF Put
<1>4. QED
  BY <1>2, <1>3

LEMMA Quiet ==
  ASSUME InForm, UNCHANGED <<out, last, seen>>
  PROVE  InForm' /\ Sent' = Sent
  BY DEF InForm, InOrder, AnswerIsLast, ReadIsSeen, Sent, StageAt, PartAt, Answered

LEMMA InitInv == Init => Inv
<1> SUFFICES ASSUME Init PROVE Inv
  OBVIOUS
<1>1. TypeOK
  <2>1. kind \in Kinds /\ h \in {"json", "accepted", "work"} /\ notes = 0 /\ out = <<>>
         /\ mu = "none" /\ started = FALSE /\ done = FALSE /\ ka = "none" /\ tick = FALSE
         /\ ctx = FALSE /\ client = "reading" /\ stop = FALSE
    BY DEF Init, Free
  <2>2. notes \in 0 .. MaxNotes
    BY <2>1, ConstantsOK
  <2>3. out \in Seq({"json", "accepted", "headers", "note", "answer", "blank", "comment", "end"})
        /\ Len(out) <= OutCap
    BY <2>1, ConstantsOK
  <2>4. QED
    BY <2>1, <2>2, <2>3 DEF TypeOK, Free
<1>2. out = <<>> /\ Len(out) = 0 /\ last = "none" /\ seen = {}
  BY DEF Init
<1>3. StageAt(0) = "nothing" /\ ~Answered(0)
  BY <1>2 DEF StageAt, PartAt, Answered, StageOf
<1>4. InForm
  BY <1>2, <1>3 DEF InForm, InOrder, AnswerIsLast, ReadIsSeen
<1>5. Apart /\ WritersAgree
  BY <1>2, <1>3 DEF Init, Apart, WritersAgree, Sent, KeepsAlive, Free
<1>6. QED
  BY <1>1, <1>4, <1>5 DEF Inv

LEMMA NextInv == Inv /\ [Next]_vars => Inv'
<1> SUFFICES ASSUME Inv, [Next]_vars PROVE InForm' /\ Apart' /\ WritersAgree'
  BY NextTyped DEF Inv
<1> USE DEF rwVars, clientVars, Free, Goto, KeepAliveGoto
<1>1. TypeOK /\ InForm /\ Apart /\ WritersAgree
  BY DEF Inv
<1>2. CASE WriteBare
  <2>1. InForm' /\ (Broken' <=> Broken) /\ (~Broken => Moves(Sent, h, Sent'))
    <3>1. h \in Parts /\ (~Broken => h \in Allowed(Sent))
      BY <1>1, <1>2 DEF WriteBare, Parts, Allowed, Apart, WritersAgree, KeepsAlive, Returned
    <3>2. QED
      BY <1>1, <1>2, <3>1, Putting DEF WriteBare
  <2>2. Apart'
    BY <1>1, <1>2 DEF WriteBare, Apart, KeepsAlive, Returned
  <2>3. WritersAgree'
    BY <1>1, <1>2, <2>1 DEF WriteBare, Apart, WritersAgree, Moves, KeepsAlive, Returned
  <2>4. QED
    BY <2>1, <2>2, <2>3
<1>3. CASE LockNote
  <2>1. InForm' /\ Sent' = Sent
    BY <1>1, <1>3, Quiet DEF LockNote
  <2>2. Apart' /\ WritersAgree'
    BY <1>1, <1>3, <2>1 DEF LockNote, Apart, WritersAgree, KeepsAlive, Broken
  <2>3. QED
    BY <2>1, <2>2
<1>4. CASE UpgradeToSSE
  <2>1. InForm' /\ (Broken' <=> Broken) /\ (~Broken => Moves(Sent, "headers", Sent'))
    <3>1. "headers" \in Parts /\ (~Broken => "headers" \in Allowed(Sent))
      BY <1>1, <1>4 DEF UpgradeToSSE, Parts, Allowed, Apart, WritersAgree, KeepsAlive, Returned
    <3>2. QED
      BY <1>1, <1>4, <3>1, Putting DEF UpgradeToSSE, Upgrade
  <2>2. Apart'
    BY <1>1, <1>4 DEF UpgradeToSSE, Upgrade, Apart, KeepsAlive, Returned
  <2>3. WritersAgree'
    BY <1>1, <1>4, <2>1 DEF UpgradeToSSE, Upgrade, Apart, WritersAgree, Moves, KeepsAlive, Returned
  <2>4. QED
    BY <2>1, <2>2, <2>3
<1>5. CASE EventData
  <2>1. InForm' /\ (Broken' <=> Broken) /\ (~Broken => Moves(Sent, h, Sent'))
    <3>1. h \in Parts /\ (~Broken => h \in Allowed(Sent))
      BY <1>1, <1>5 DEF EventData, Parts, Allowed, Apart, WritersAgree, KeepsAlive, Returned
    <3>2. QED
      BY <1>1, <1>5, <3>1, Putting DEF EventData
  <2>2. Apart'
    BY <1>1, <1>5 DEF EventData, Apart, KeepsAlive, Returned
  <2>3. WritersAgree'
    BY <1>1, <1>5, <2>1 DEF EventData, Apart, WritersAgree, Moves, KeepsAlive, Returned
  <2>4. QED
    BY <2>1, <2>2, <2>3
<1>6. CASE NoteEnd
  <2>1. InForm' /\ (Broken' <=> Broken) /\ (~Broken => Moves(Sent, "blank", Sent'))
    <3>1. "blank" \in Parts /\ (~Broken => "blank" \in Allowed(Sent))
      BY <1>1, <1>6 DEF NoteEnd, Parts, Allowed, Apart, WritersAgree, KeepsAlive, Returned
    <3>2. QED
      BY <1>1, <1>6, <3>1, Putting DEF NoteEnd
  <2>2. Apart'
    BY <1>1, <1>6 DEF NoteEnd, Apart, KeepsAlive, Returned
  <2>3. WritersAgree'
    BY <1>1, <1>6, <2>1 DEF NoteEnd, Apart, WritersAgree, Moves, KeepsAlive, Returned
  <2>4. QED
    BY <2>1, <2>2, <2>3
<1>7. CASE LockMessage
  <2>1. InForm' /\ Sent' = Sent
    BY <1>1, <1>7, Quiet DEF LockMessage
  <2>2. Apart' /\ WritersAgree'
    BY <1>1, <1>7, <2>1 DEF LockMessage, Apart, WritersAgree, KeepsAlive, Broken
  <2>3. QED
    BY <2>1, <2>2
<1>8. CASE MessageEnd
  <2>1. PICK p \in {"json", "blank"} : Put(p) /\ p = IF h = "json" THEN "json" ELSE "blank"
    BY <1>8 DEF MessageEnd
  <2>2. InForm' /\ (Broken' <=> Broken) /\ (~Broken => Moves(Sent, p, Sent'))
    <3>1. p \in Parts /\ (~Broken => p \in Allowed(Sent))
      BY <1>1, <1>8, <2>1 DEF MessageEnd, Parts, Allowed, Apart, WritersAgree
    <3>2. QED
      BY <1>1, <1>8, <2>1, <3>1, Putting DEF MessageEnd
  <2>3. ka # "write" /\ (h = "json" => ~KeepsAlive)
    BY <1>1, <1>8 DEF MessageEnd, Apart
  <2>4. Apart'
    BY <1>1, <1>8 DEF MessageEnd, Apart, KeepsAlive
  <2>5. WritersAgree'
    BY <1>1, <1>8, <2>1, <2>2, <2>3 DEF MessageEnd, WritersAgree, Moves, KeepsAlive
  <2>6. QED
    BY <2>2, <2>4, <2>5
<1>9. CASE ListenReturns
  <2>1. InForm' /\ Sent' = Sent
    BY <1>1, <1>9, Quiet DEF ListenReturns
  <2>2. Apart' /\ WritersAgree'
    BY <1>1, <1>9, <2>1 DEF ListenReturns, ListenOver, Apart, WritersAgree, KeepsAlive, Broken
  <2>3. QED
    BY <2>1, <2>2
<1>10. CASE HandlePostReturns
  <2>1. InForm' /\ Sent' = Sent
    BY <1>1, <1>10, Quiet DEF HandlePostReturns, CloseDone
  <2>2. Apart' /\ WritersAgree'
    BY <1>1, <1>10, <2>1 DEF HandlePostReturns, CloseDone, Apart, WritersAgree, KeepsAlive, Broken
  <2>3. QED
    BY <2>1, <2>2
<1>11. CASE KeepAliveDone
  <2>1. InForm' /\ Sent' = Sent
    BY <1>1, <1>11, Quiet DEF KeepAliveDone
  <2>2. Apart' /\ WritersAgree'
    BY <1>1, <1>11, <2>1 DEF KeepAliveDone, Apart, WritersAgree, KeepsAlive, Broken
  <2>3. QED
    BY <2>1, <2>2
<1>12. CASE KeepAliveTick
  <2>1. InForm' /\ Sent' = Sent
    BY <1>1, <1>12, Quiet DEF KeepAliveTick
  <2>2. Apart' /\ WritersAgree'
    BY <1>1, <1>12, <2>1 DEF KeepAliveTick, Apart, WritersAgree, KeepsAlive, Broken
  <2>3. QED
    BY <2>1, <2>2
<1>13. CASE KeepAliveLock
  <2>1. InForm' /\ Sent' = Sent
    BY <1>1, <1>13, Quiet DEF KeepAliveLock
  <2>2. Apart' /\ WritersAgree'
    BY <1>1, <1>13, <2>1 DEF KeepAliveLock, Apart, WritersAgree, KeepsAlive, Broken
  <2>3. QED
    BY <2>1, <2>2
<1>14. CASE KeepAliveWrite
  <2>1. InForm' /\ (Broken' <=> Broken) /\ (~Broken => Moves(Sent, "comment", Sent'))
    <3>1. "comment" \in Parts /\ (~Broken => "comment" \in Allowed(Sent))
      <4>1. h \in {"work", "return"} /\ started /\ KeepsAlive
        BY <1>1, <1>14 DEF KeepAliveWrite, TypeOK, Apart, KeepsAlive, Returned
      <4>2. QED
        BY <1>1, <4>1 DEF Parts, Allowed, WritersAgree
    <3>2. QED
      BY <1>1, <1>14, <3>1, Putting DEF KeepAliveWrite
  <2>2. Apart'
    BY <1>1, <1>14 DEF KeepAliveWrite, Apart, KeepsAlive, Returned
  <2>3. WritersAgree'
    BY <1>1, <1>14, <2>1 DEF KeepAliveWrite, Apart, WritersAgree, Moves, KeepsAlive, Returned
  <2>4. QED
    BY <2>1, <2>2, <2>3
<1>15. CASE KeepAliveLate
  <2>0. /\ UNCHANGED <<h, kind, started, stop, client, last, seen>>
        /\ ka = "write" /\ mu' = "none" /\ ka' \in {"select", "crashed"}
        /\ Returned /\ (h = "finish" => ka' = "select")
    BY <1>15 DEF KeepAliveLate, Returned
  <2>1. Apart'
    BY <1>1, <2>0 DEF Apart, KeepsAlive, Returned
  <2>2. CASE h = "finish" /\ Put("comment")
    <3>1. InForm' /\ (Broken' <=> Broken) /\ (~Broken => Moves(Sent, "comment", Sent'))
      <4>1. "comment" \in Parts /\ (~Broken => "comment" \in Allowed(Sent))
        BY <1>1, <2>0, <2>2 DEF Parts, Allowed, WritersAgree, KeepsAlive
      <4>2. QED
        BY <1>1, <2>0, <2>2, <4>1, Putting
    <3>2. WritersAgree'
      BY <1>1, <2>0, <2>2, <3>1 DEF WritersAgree, Moves, KeepsAlive
    <3>3. QED
      BY <2>1, <3>1, <3>2
  <2>3. CASE UNCHANGED out
    <3>1. InForm' /\ Sent' = Sent
      BY <1>1, <2>0, <2>3, Quiet
    <3>2. WritersAgree'
      BY <1>1, <2>0, <3>1 DEF WritersAgree, KeepsAlive, Broken, Returned
    <3>3. QED
      BY <2>1, <3>1, <3>2
  <2>4. QED
    BY <1>15, <2>2, <2>3 DEF KeepAliveLate
<1>16. CASE Finish
  <2>1. InForm' /\ (Broken' <=> Broken) /\ (~Broken => Moves(Sent, "end", Sent'))
    <3>1. "end" \in Parts /\ (~Broken => "end" \in Allowed(Sent))
      BY <1>1, <1>16 DEF Finish, Parts, Allowed, Apart, WritersAgree, KeepsAlive, Returned
    <3>2. QED
      BY <1>1, <1>16, <3>1, Putting DEF Finish
  <2>2. Apart'
    BY <1>1, <1>16 DEF Finish, Apart, KeepsAlive, Returned
  <2>3. WritersAgree'
    BY <1>1, <1>16, <2>1 DEF Finish, Apart, WritersAgree, Moves, KeepsAlive, Returned
  <2>4. QED
    BY <2>1, <2>2, <2>3
<1>17. CASE Receive
  <2>1. InForm' /\ Sent' = Sent
    BY <1>1, <1>17, Receiving
  <2>2. Apart' /\ WritersAgree'
    BY <1>1, <1>17, <2>1 DEF Receive, Apart, WritersAgree, KeepsAlive, Broken
  <2>3. QED
    BY <2>1, <2>2
<1>18. CASE Tick
  <2>1. InForm' /\ Sent' = Sent
    BY <1>1, <1>18, Quiet DEF Tick
  <2>2. Apart' /\ WritersAgree'
    BY <1>1, <1>18, <2>1 DEF Tick, Apart, WritersAgree, KeepsAlive, Broken
  <2>3. QED
    BY <2>1, <2>2
<1>19. CASE CancelContext
  <2>1. InForm' /\ Sent' = Sent
    BY <1>1, <1>19, Quiet DEF CancelContext
  <2>2. Apart' /\ WritersAgree'
    BY <1>1, <1>19, <2>1 DEF CancelContext, Apart, WritersAgree, KeepsAlive, Broken
  <2>3. QED
    BY <2>1, <2>2
<1>20. CASE Leave
  <2>1. InForm' /\ Sent' = Sent
    BY <1>1, <1>20, Quiet DEF Leave
  <2>2. Apart' /\ WritersAgree'
    BY <1>1, <1>20, <2>1 DEF Leave, Apart, WritersAgree, KeepsAlive, Broken
  <2>3. QED
    BY <2>1, <2>2
<1>21. CASE Stop
  <2>1. InForm' /\ Sent' = Sent
    BY <1>1, <1>21, Quiet DEF Stop
  <2>2. Apart' /\ WritersAgree'
    BY <1>1, <1>21, <2>1 DEF Stop, Apart, WritersAgree, KeepsAlive, Broken
  <2>3. QED
    BY <2>1, <2>2
<1>22. CASE Over
  <2>1. InForm' /\ Sent' = Sent
    BY <1>1, <1>22, Quiet DEF Over, vars
  <2>2. Apart' /\ WritersAgree'
    BY <1>1, <1>22, <2>1 DEF Over, vars, Apart, WritersAgree, KeepsAlive, Broken
  <2>3. QED
    BY <2>1, <2>2
<1>23. CASE UNCHANGED vars
  <2>1. InForm' /\ Sent' = Sent
    BY <1>1, <1>23, Quiet DEF vars
  <2>2. Apart' /\ WritersAgree'
    BY <1>1, <1>23, <2>1 DEF vars, Apart, WritersAgree, KeepsAlive, Broken
  <2>3. QED
    BY <2>1, <2>2
<1>24. QED
  BY <1>2, <1>3, <1>4, <1>5, <1>6, <1>7, <1>8, <1>9, <1>10, <1>11, <1>12, <1>13,
     <1>14, <1>15, <1>16, <1>17, <1>18, <1>19, <1>20, <1>21, <1>22, <1>23
  DEF Next, Handler, KeepAlive

LEMMA Invariant == Spec => []Inv
  BY InitInv, NextInv, PTL DEF Spec

(* The type invariant, for every reachable state. *)
THEOREM TypeCorrect == Spec => []TypeOK
<1>1. Inv => TypeOK
  BY DEF Inv
<1>2. QED
  BY <1>1, Invariant, PTL

-----------------------------------------------------------------------------
(* The refinement.                                                         *)

LEMMA StageIs == Stage = StageAt(0) /\ Stage' = StageAt(0)'
  BY DEF Stage, StageAt, StageOf, PartAt, Answered

LEMMA StepsAsPromised == Inv /\ [Next]_vars => [Promised!Next]_<<Stage, last>>
<1> SUFFICES ASSUME Inv, [Next]_vars PROVE [Promised!Next]_<<Stage, last>>
  OBVIOUS
<1>1. CASE Receive
  <2>1. Moves(Stage, last', Stage')
    BY <1>1, Receiving, StageIs DEF Inv
  <2>2. QED
    BY <2>1
    DEF Moves, Promised!Next, Promised!Whole, Promised!Headers, Promised!Notification,
        Promised!Answer, Promised!BlankLine, Promised!Comment, Promised!End, Promised!Part
<1>2. CASE UNCHANGED <<last, seen>>
  BY <1>2 DEF Stage
<1>3. QED
  BY <1>1, <1>2
  DEF Next, Handler, WriteBare, LockNote, UpgradeToSSE, EventData, NoteEnd, LockMessage,
      MessageEnd, ListenReturns, HandlePostReturns, Goto, KeepAlive, KeepAliveDone,
      KeepAliveTick, KeepAliveLock, KeepAliveWrite, KeepAliveLate, KeepAliveGoto, Tick, Finish,
      CancelContext, Leave, Stop, Over, clientVars, vars

(* What a client reads is a well-formed response, whatever handler,        *)
(* keepAlive, net/http, Stop and the client itself do, and in which order: *)
(* every step of the exchange is a step of Response or none.               *)
THEOREM RespondsInOrderAlways == Spec => RespondsInOrder
<1>1. Init => Promised!Init
  BY DEF Init, Promised!Init, Stage
<1>2. QED
  BY <1>1, StepsAsPromised, Invariant, PTL DEF Spec, RespondsInOrder, Promised!Spec

-----------------------------------------------------------------------------
(* The end of keepAlive.                                                   *)

(* Only exchanges whose handler closes done on every path have a keepAlive.*)
Told ==
  /\ h \in {"headers", "note", "noteEnd"} \/ KeepsAlive => kind \in {"stream", "listen"}
  /\ Returned /\ kind \in {"call", "stream", "listen"} => done

Released == Returned /\ KeepsAlive => done

(* Whichever way a handler has ended, once ServeHTTP has returned the      *)
(* keepAlive goroutine of its stream finds done closed: KeepAliveEnds then *)
(* rests on its select alone.                                              *)
THEOREM KeepAliveAlwaysReleased == Spec => []Released
<1>1. Init => Told
  BY DEF Init, Told, KeepsAlive, Returned
<1>2. Told /\ [Next]_vars => Told'
  <2> SUFFICES ASSUME Told, [Next]_vars PROVE Told'
    OBVIOUS
  <2> USE DEF Told, KeepsAlive, Returned, Goto, rwVars, clientVars
  <2>1. CASE Handler
    BY <2>1 DEF Handler, WriteBare, LockNote, UpgradeToSSE, EventData, NoteEnd, LockMessage,
                MessageEnd, ListenReturns, ListenOver, HandlePostReturns, CloseDone
  <2>2. CASE KeepAlive
    BY <2>2 DEF KeepAlive, KeepAliveDone, KeepAliveTick, KeepAliveLock, KeepAliveWrite,
                KeepAliveLate, KeepAliveGoto
  <2>3. CASE Finish \/ Tick \/ CancelContext
    BY <2>3 DEF Finish, Tick, CancelContext
  <2>4. CASE Receive \/ Leave \/ Stop
    BY <2>4 DEF Receive, Leave, Stop
  <2>5. CASE Over \/ UNCHANGED vars
    BY <2>5 DEF Over, vars
  <2>6. QED
    BY <2>1, <2>2, <2>3, <2>4, <2>5 DEF Next
<1>3. Told => Released
  BY DEF Told, Released
<1>4. QED
  BY <1>1, <1>2, <1>3, PTL DEF Spec
=============================================================================
