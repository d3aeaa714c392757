---------------------------- MODULE ServerProofs ----------------------------
(* Theorems about Server, for any requests, tools, resources and changes.  *)
EXTENDS Server, HeaderValuesProofs

Unknown == {"UnknownTool", "UnknownResource", "Gone"}

(* TypeOK, and what the properties need of the types of the rest. *)
Typed ==
  /\ TypeOK
  /\ reg \in [Entries -> Versions \cup {0}]
  /\ pc # "idle" => req \in Requests
  /\ history \in Seq(Versions \cup {0})
  /\ steady \in BOOLEAN

(* What has happened by each stage of a call. *)
Stages ==
  /\ pc = "idle" => history = <<>>
  /\ pc # "replied" => reply = NoReply /\ ran = 0
  /\ pc \in {"lookup", "run"} \/ ran # 0 => Refusal(req) = ""
  /\ pc = "run" \/ ran # 0 =>
       /\ LooksUp(req) \in IF req.method = "tools/call" THEN Tools ELSE Resources
       /\ def # 0

LEMMA Routed ==
  ASSUME NEW r, Refusal(r) = ""
  PROVE  /\ r.method \in {"tools/call", "resources/read"}
         /\ r.version # ""
         /\ r.via = "http" => ~HeadersInvalid(r)
BY DEF Refusal, HttpRefusal, ParseRefusal

LEMMA LookedUp ==
  ASSUME NEW r
  PROVE  /\ r.method = "tools/call" => LooksUp(r) = r.name
         /\ r.method = "resources/read" => LooksUp(r) = r.uri
BY DEF LooksUp

LEMMA RefusedOtherwise ==
  ASSUME NEW r
  PROVE  /\ Refusal(r) \notin Unknown \cup {"InvalidState"}
         /\ Refusal(r) = "HeaderMismatch" => r.via = "http" /\ HeadersInvalid(r)
BY DEF Refusal, HttpRefusal, ParseRefusal, Unknown

LEMMA Histories ==
  ASSUME NEW S
  PROVE  /\ <<>> \in Seq(S) /\ Len(<<>>) = 0
         /\ \A x \in S : <<x>> \in Seq(S) /\ Len(<<x>>) = 1 /\ <<x>>[1] = x
         /\ \A h \in Seq(S), x \in S :
              /\ Append(h, x) \in Seq(S) /\ Len(Append(h, x)) = Len(h) + 1 /\ Len(h) \in Nat
              /\ Append(h, x)[Len(h) + 1] = x
              /\ \A i \in 1 .. Len(h) : Append(h, x)[i] = h[i]
<1>1. <<>> \in Seq(S) /\ Len(<<>>) = 0
  OBVIOUS
<1>2. ASSUME NEW x \in S
      PROVE  <<x>> \in Seq(S) /\ Len(<<x>>) = 1 /\ <<x>>[1] = x
  OBVIOUS
<1>3. ASSUME NEW h \in Seq(S), NEW x \in S
      PROVE  /\ Append(h, x) \in Seq(S) /\ Len(Append(h, x)) = Len(h) + 1 /\ Len(h) \in Nat
             /\ Append(h, x)[Len(h) + 1] = x
             /\ \A i \in 1 .. Len(h) : Append(h, x)[i] = h[i]
  BY AppendProperties, LenProperties
<1> QED
  BY <1>1, <1>2, <1>3

LEMMA AskedType ==
  ASSUME NEW r, reg \in [Entries -> Versions \cup {0}]
  PROVE  Asked(r) \in Versions \cup {0}
BY DEF Asked

LEMMA TypedInit == Init => Typed
<1> SUFFICES ASSUME Init
             PROVE  Typed
  OBVIOUS
<1>1. issued.key = 0 /\ issued.at = 0
  BY DEF Init, NoState
<1>2. now \in 0 .. MaxNow /\ key \in 1 .. MaxKey
  BY ConstantsOK DEF Init
<1>3. history \in Seq(Versions \cup {0}) /\ Len(history) <= MaxChanges + 1
  BY ConstantsOK, Histories DEF Init
<1>4. reg \in [Entries -> Versions \cup {0}] /\ \A k \in Entries : reg[k] \in Offers[k] \cup {0, Initially[k]}
  BY ConstantsOK DEF Init
<1> QED
  BY <1>1, <1>2, <1>3, <1>4 DEF Init, Typed, TypeOK

LEMMA TypedStep == Typed /\ Stages /\ [Next]_vars => Typed'
<1> SUFFICES ASSUME Typed, Stages, [Next]_vars
             PROVE  Typed'
  OBVIOUS
<1> USE DEF Typed, TypeOK
<1>1. ASSUME NEW r \in Requests, Receive(r)
      PROVE  Typed'
  <2>1. history' \in Seq(Versions \cup {0}) /\ Len(history') <= MaxChanges + 1
    <3>1. Asked(r) \in Versions \cup {0}
      BY AskedType
    <3>2. history' = <<Asked(r)>>
      BY <1>1 DEF Receive
    <3>3. <<Asked(r)>> \in Seq(Versions \cup {0}) /\ Len(<<Asked(r)>>) = 1
      BY <3>1, Histories, Zenon
    <3> QED
      BY <3>2, <3>3, ConstantsOK
  <2>2. pc' \in {"lookup", "replied"}
    BY <1>1 DEF Receive, Replies
  <2> QED
    BY <1>1, <2>1, <2>2 DEF Receive
<1>2. CASE LookupTool
  <2>1. def' \in Versions \cup {0}
    BY <1>2 DEF LookupTool, Entries
  <2>2. pc' \in {"run", "replied"}
    BY <1>2 DEF LookupTool, Replies
  <2> QED
    BY <1>2, <2>1, <2>2 DEF LookupTool
<1>3. CASE CallTool
  <2>1. req \in Requests
    BY <1>3 DEF CallTool
  <2>2. ran' \in Versions \cup {0}
    BY <1>3 DEF CallTool, RunsCurrent, Stages, Entries
  <2>3. pc' = "replied"
    BY <1>3 DEF CallTool, Replies
  <2>4. issued'.key \in 0 .. key /\ issued'.at \in 0 .. now
    BY <1>3, ConstantsOK DEF CallTool, Signed
  <2> QED
    BY <1>3, <2>1, <2>2, <2>3, <2>4 DEF CallTool
<1>4. CASE LookupResource
  <2>1. def' \in Versions \cup {0}
    BY <1>4 DEF LookupResource, Entries
  <2>2. pc' \in {"run", "replied"}
    BY <1>4 DEF LookupResource, Replies
  <2> QED
    BY <1>4, <2>1, <2>2 DEF LookupResource
<1>5. CASE ReadResource
  <2>1. req \in Requests
    BY <1>5 DEF ReadResource
  <2>2. ran' \in Versions \cup {0}
    BY <1>5 DEF ReadResource, RunsCurrent, Stages, Entries
  <2>3. pc' = "replied"
    BY <1>5 DEF ReadResource, Replies
  <2> QED
    BY <1>5, <2>1, <2>2, <2>3 DEF ReadResource
<1>6. CASE Answered
  BY <1>6, Histories, ConstantsOK DEF Answered
<1>7. ASSUME NEW k \in Entries, NEW v \in Offers[k] \cup {0}, Changes(k, v) \/ ChangesIdle(k, v),
             steady' \in BOOLEAN
      PROVE  Typed'
  <2>1. v \in Versions \cup {0}
    BY ConstantsOK
  <2>2. reg' \in [Entries -> Versions \cup {0}] /\ \A x \in Entries : reg'[x] \in Offers[x] \cup {0, Initially[x]}
    BY <1>7, <2>1 DEF Changes, ChangesIdle
  <2>3. CASE Changes(k, v)
    <3>1. history' \in Seq(Versions \cup {0}) /\ Len(history') <= MaxChanges + 1
      BY <2>1, <2>3, Histories, ConstantsOK DEF Changes
    <3> QED
      BY <1>7, <2>2, <2>3, <3>1 DEF Changes
  <2>4. CASE ChangesIdle(k, v)
    BY <2>2, <2>4 DEF ChangesIdle, callVars
  <2> QED
    BY <1>7, <2>3, <2>4
<1>8. ASSUME NEW k \in Entries, Unregister(k)
      PROVE  Typed'
  BY <1>7, <1>8 DEF Unregister, ChangesIdle, callVars
<1>9. ASSUME NEW k \in Entries, NEW v \in Offers[k], Register(k, v)
      PROVE  Typed'
  BY <1>7, <1>9 DEF Register, ChangesIdle, callVars
<1>10. CASE Tick
  BY <1>10, ConstantsOK DEF Tick, callVars
<1>11. CASE Restart
  <2>1. key' \in 1 .. MaxKey /\ issued.key \in 0 .. key'
    BY <1>11, ConstantsOK DEF Restart, NextKeys
  <2> QED
    BY <1>11, <2>1, Histories, ConstantsOK DEF Restart
<1>12. CASE UNCHANGED vars
  BY <1>12 DEF vars, callVars
<1> QED
  BY <1>1, <1>2, <1>3, <1>4, <1>5, <1>6, <1>8, <1>9, <1>10, <1>11, <1>12 DEF Next, Call

LEMMA StagesStep == Typed /\ Stages /\ [Next]_vars => Stages'
<1> SUFFICES ASSUME Typed, Stages, [Next]_vars
             PROVE  Stages'
  OBVIOUS
<1> USE DEF Stages
<1>1. ASSUME NEW r \in Requests, Receive(r)
      PROVE  Stages'
  BY <1>1 DEF Receive, Replies
<1>2. CASE LookupTool
  BY <1>2, LookedUp DEF LookupTool, Replies
<1>3. CASE CallTool
  BY <1>3 DEF CallTool, Replies
<1>4. CASE LookupResource
  BY <1>4, LookedUp DEF LookupResource, Replies
<1>5. CASE ReadResource
  BY <1>5 DEF ReadResource, Replies
<1>6. CASE Answered
  BY <1>6 DEF Answered
<1>7. ASSUME NEW k \in Entries, NEW v, Changes(k, v) \/ ChangesIdle(k, v)
      PROVE  Stages'
  BY <1>7 DEF Changes, ChangesIdle, callVars
<1>8. ASSUME NEW k \in Entries, Unregister(k)
      PROVE  Stages'
  BY <1>7, <1>8 DEF Unregister
<1>9. ASSUME NEW k \in Entries, NEW v \in Offers[k], Register(k, v)
      PROVE  Stages'
  BY <1>7, <1>9 DEF Register
<1>10. CASE Tick
  BY <1>10 DEF Tick, callVars
<1>11. CASE Restart
  BY <1>11 DEF Restart
<1>12. CASE UNCHANGED vars
  BY <1>12 DEF vars, callVars
<1> QED
  BY <1>1, <1>2, <1>3, <1>4, <1>5, <1>6, <1>8, <1>9, <1>10, <1>11, <1>12 DEF Next, Call

-----------------------------------------------------------------------------
(* The stages of a call, and the types, hold always. *)

LEMMA StagesInit == Init => Stages
BY DEF Init, Stages

(* Types, within the bounds, for any constants. *)
THEOREM TypeCorrect == Spec => []TypeOK
<1>1. Init => Typed /\ Stages
  BY TypedInit, StagesInit
<1>2. Typed /\ Stages /\ [Next]_vars => Typed' /\ Stages'
  BY TypedStep, StagesStep
<1>3. Typed => TypeOK
  BY DEF Typed
<1> QED
  BY <1>1, <1>2, <1>3, PTL DEF Spec

-----------------------------------------------------------------------------
(* requestState: an invariant of what the client keeps, and the two sides  *)
(* of the check.                                                           *)

SignedForTTL == issued.key # 0 => issued.expiry = Unix(issued.at + 2 * TTL)

LEMMA SignedStep == Typed /\ SignedForTTL /\ [Next]_vars => SignedForTTL'
<1> SUFFICES ASSUME Typed, SignedForTTL, [Next]_vars
             PROVE  SignedForTTL'
  OBVIOUS
<1>1. issued' = issued \/ issued' = Signed(req)
  BY DEF Next, Call, Receive, LookupTool, CallTool, LookupResource, ReadResource, Answered,
         Unregister, Register, Changes, ChangesIdle, Tick, Restart, vars
<1>2. CASE issued' = issued
  BY <1>2 DEF SignedForTTL, Unix
<1>3. CASE issued' = Signed(req)
  BY <1>3 DEF SignedForTTL, Signed, Unix
<1> QED
  BY <1>1, <1>2, <1>3

LEMMA SignedInit == Init => SignedForTTL
<1> SUFFICES ASSUME Init
             PROVE  SignedForTTL
  OBVIOUS
<1>1. issued.key = 0 /\ issued.at = 0
  BY DEF Init, NoState
<1> QED
  BY <1>1, Zenon DEF SignedForTTL

(* Whole seconds: a state is good for its TTL, and for less than a second  *)
(* more.                                                                   *)
LEMMA WholeSeconds ==
  ASSUME NEW t \in Nat, NEW u \in Nat, NEW ttl \in Nat
  PROVE  /\ u - t <= 2 * ttl => Unix(u) <= Unix(t + 2 * ttl)
         /\ Unix(u) <= Unix(t + 2 * ttl) => u - t < 2 * (ttl + 1)
BY DEF Unix

(* "a tampered, expired, cross-principal, or cross-request blob is rejected*)
(* rather than trusted": a tool runs for a retry only with a state that was*)
(* signed for it, under the present key, less than TTL + 1 seconds ago.    *)
THEOREM OnlyOwnState == Spec => StateBound
<1> DEFINE Bound == pc = "lookup" /\ pc' = "run" /\ req.method = "tools/call" /\ req.state # "none" =>
                      /\ req.state = "held" /\ Same(req, issued) /\ issued.key = key
                      /\ now - issued.at < 2 * (TTL + 1)
<1>1. Typed /\ Stages /\ SignedForTTL /\ [Next]_vars => [Bound]_vars
  <2> SUFFICES ASSUME Typed, SignedForTTL, [Next]_vars,
                      pc = "lookup", pc' = "run", req.method = "tools/call", req.state # "none"
               PROVE  /\ req.state = "held" /\ Same(req, issued) /\ issued.key = key
                      /\ now - issued.at < 2 * (TTL + 1)
    OBVIOUS
  <2>1. LookupTool
    BY DEF Next, Call, Receive, CallTool, LookupResource, ReadResource, Answered, Replies,
           Unregister, Register, Changes, ChangesIdle, Tick, Restart, vars, callVars
  <2>2. ~StateInvalid(req)
    BY <2>1 DEF LookupTool, Replies
  <2>3. req.state = "held"
    BY <2>2, RequestsOK DEF StateInvalid, Typed
  <2>4. Same(req, issued) /\ issued.key = key /\ ~(Unix(now) > issued.expiry)
    BY <2>2 DEF StateInvalid, Same
  <2>5. issued.expiry = Unix(issued.at + 2 * TTL)
    BY <2>4 DEF SignedForTTL, Typed, TypeOK
  <2>6. now \in Nat /\ issued.at \in Nat /\ TTL \in Nat
    BY ConstantsOK DEF Typed, TypeOK
  <2>7. now - issued.at < 2 * (TTL + 1)
    <3>1. Unix(now) \in Int /\ Unix(issued.at + 2 * TTL) \in Int
      BY <2>6 DEF Unix
    <3>2. Unix(now) <= Unix(issued.at + 2 * TTL)
      BY <3>1, <2>4, <2>5
    <3> QED
      BY <3>2, <2>6, WholeSeconds
  <2> QED
    BY <2>3, <2>4, <2>7
<1>2. Init => Typed /\ Stages /\ SignedForTTL
  BY TypedInit, StagesInit, SignedInit
<1>3. Typed /\ Stages /\ SignedForTTL /\ [Next]_vars => Typed' /\ Stages' /\ SignedForTTL'
  BY TypedStep, StagesStep, SignedStep
<1> QED
  BY <1>1, <1>2, <1>3, PTL DEF Spec, StateBound

LEMMA FreshStep ==
  Typed /\ Stages /\ SignedForTTL /\ FreshStateAccepted /\ [Next]_vars => FreshStateAccepted'
<1> SUFFICES ASSUME Typed, Stages, SignedForTTL, FreshStateAccepted, [Next]_vars,
                    reply' = "InvalidState"
             PROVE  ~(/\ req'.state = "held" /\ Same(req', issued') /\ issued'.key = key'
                      /\ now' - issued'.at <= 2 * TTL)
  BY DEF FreshStateAccepted
<1>1. CASE LookupTool
  <2>1. UNCHANGED <<now, key, issued, req>> /\ StateInvalid(req)
    BY <1>1 DEF LookupTool, Replies, Stages, NoReply
  <2> SUFFICES ASSUME req.state = "held", Same(req, issued), issued.key = key, now - issued.at <= 2 * TTL
               PROVE  FALSE
    BY <2>1
  <2>2. Unix(now) > issued.expiry
    BY <2>1 DEF StateInvalid, Same
  <2>3. issued.expiry = Unix(issued.at + 2 * TTL)
    BY DEF SignedForTTL, Typed, TypeOK
  <2>4. now \in Nat /\ issued.at \in Nat /\ TTL \in Nat
    BY ConstantsOK DEF Typed, TypeOK
  <2>5. Unix(now) <= Unix(issued.at + 2 * TTL) /\ Unix(now) \in Int
    BY <2>4, WholeSeconds DEF Unix
  <2> QED
    BY <2>2, <2>3, <2>5, <2>4 DEF Unix
<1>2. CASE UNCHANGED <<now, key, issued, req, reply>>
  BY <1>2 DEF FreshStateAccepted, Same
<1>3. LookupTool \/ UNCHANGED <<now, key, issued, req, reply>>
  BY RefusedOtherwise DEF Next, Call, Receive, CallTool, NeedInput, LookupResource, ReadResource, Answered,
     Replies, Unregister, Register, Changes, ChangesIdle, Tick, Restart, vars, callVars, Stages, NoReply, Unknown
<1> QED
  BY <1>1, <1>2, <1>3

(* A faithful retry within the TTL, to a server with the same key, is not  *)
(* refused for its requestState.                                           *)
THEOREM FreshAlwaysAccepted == Spec => []FreshStateAccepted
<1>1. Init => Typed /\ Stages /\ SignedForTTL /\ FreshStateAccepted
  BY TypedInit, StagesInit, SignedInit DEF Init, FreshStateAccepted, NoReply
<1>2. /\ Typed /\ Stages /\ SignedForTTL /\ FreshStateAccepted /\ [Next]_vars
      => (Typed /\ Stages /\ SignedForTTL /\ FreshStateAccepted)'
  BY TypedStep, StagesStep, SignedStep, FreshStep
<1> QED
  BY <1>1, <1>2, PTL DEF Spec

-----------------------------------------------------------------------------
(* Answers and the history of the entry they are about: history ends with  *)
(* what the registry holds, has the definition that was looked up, and has *)
(* no gap if the entry was never removed.                                  *)

Followed ==
  /\ pc \in {"lookup", "run"} => Len(history) > 0 /\ history[Len(history)] = Asked(req)
  /\ pc = "run" => \E i \in DOMAIN history : history[i] = def
  /\ steady => \A i \in DOMAIN history : history[i] # 0

LEMMA HistoryDomain ==
  ASSUME Typed
  PROVE  Len(history) \in Nat /\ DOMAIN history = 1 .. Len(history)
BY LenProperties DEF Typed

LEMMA FollowedCall ==
  ASSUME Typed, Stages, Followed, AnswersCurrent, Call
  PROVE  Followed' /\ AnswersCurrent'
<1> USE DEF Typed, TypeOK
<1>1. Len(history) \in Nat /\ DOMAIN history = 1 .. Len(history)
  BY HistoryDomain
<1>2. CASE LookupTool
  <2>1. UNCHANGED <<reg, req, history, steady>> /\ Asked(req)' = Asked(req) /\ ran' = 0
    BY <1>2 DEF LookupTool, Asked, Stages
  <2>2. Len(history) \in DOMAIN history /\ history[Len(history)] = Asked(req)
    BY <1>1, <1>2 DEF LookupTool, Followed
  <2>3. def' = IF LooksUp(req) \in Tools THEN Asked(req) ELSE 0
    BY <1>2, LookedUp DEF LookupTool, Asked, Entries
  <2>4. Followed'
    BY <1>2, <2>1, <2>2, <2>3 DEF Followed, LookupTool, Replies
  <2>5. reply' \in Unknown => def' = 0
    BY <1>2 DEF LookupTool, Replies, Unknown, Stages, NoReply
  <2>6. AnswersCurrent'
    BY <1>2, <2>1, <2>2, <2>3, <2>5 DEF AnswersCurrent, Unknown, LookupTool
  <2> QED
    BY <2>4, <2>6
<1>3. CASE LookupResource
  <2>1. UNCHANGED <<reg, req, history, steady>> /\ Asked(req)' = Asked(req) /\ ran' = 0
    BY <1>3 DEF LookupResource, Asked, Stages
  <2>2. Len(history) \in DOMAIN history /\ history[Len(history)] = Asked(req)
    BY <1>1, <1>3 DEF LookupResource, Followed
  <2>3. def' = IF LooksUp(req) \in Resources THEN Asked(req) ELSE 0
    BY <1>3, LookedUp DEF LookupResource, Asked, Entries
  <2>4. Followed'
    BY <1>3, <2>1, <2>2, <2>3 DEF Followed, LookupResource, Replies
  <2>5. reply' \in Unknown => def' = 0
    BY <1>3 DEF LookupResource, Replies, Unknown, Stages, NoReply
  <2>6. AnswersCurrent'
    BY <1>3, <2>1, <2>2, <2>3, <2>5 DEF AnswersCurrent, Unknown, LookupResource
  <2> QED
    BY <2>4, <2>6
<1>4. ASSUME CallTool \/ ReadResource
      PROVE  Followed' /\ AnswersCurrent'
  <2>1. UNCHANGED <<reg, req, def, history, steady>> /\ pc = "run" /\ pc' = "replied"
    BY <1>4 DEF CallTool, ReadResource, Replies
  <2>2. Len(history) \in DOMAIN history /\ history[Len(history)] = Asked(req)
    BY <1>1, <2>1 DEF Followed
  <2>3. ran' = Asked(req)
    BY <1>4, <2>1 DEF CallTool, ReadResource, RunsCurrent, Asked, Entries, Stages
  <2>4. reply' \in Unknown => ran' = 0
    BY <1>4 DEF CallTool, ReadResource, Replies, NeedInput, Unknown
  <2>5. PICK i \in DOMAIN history : history[i] = def
    BY <2>1 DEF Followed
  <2>6. i <= Len(history)
    BY <1>1, <2>5
  <2>7. AnswersCurrent'
    BY <2>1, <2>2, <2>3, <2>4, <2>5, <2>6 DEF AnswersCurrent, Unknown
  <2> QED
    BY <2>1, <2>7 DEF Followed
<1>5. CASE Answered
  BY <1>5 DEF Answered, Followed, AnswersCurrent, NoReply
<1> QED
  BY <1>2, <1>3, <1>4, <1>5 DEF Call

LEMMA FollowedChange ==
  ASSUME Typed, Stages, Followed, AnswersCurrent, NEW k \in Entries, NEW v \in Versions \cup {0},
         Changes(k, v) \/ ChangesIdle(k, v), steady' => steady /\ v # 0
  PROVE  Followed' /\ AnswersCurrent'
<1>1. CASE ChangesIdle(k, v)
  BY <1>1 DEF ChangesIdle, callVars, Followed, AnswersCurrent
<1>2. CASE Changes(k, v)
  <2>1. /\ history' \in Seq(Versions \cup {0}) /\ Len(history') = Len(history) + 1 /\ Len(history) \in Nat
        /\ history'[Len(history) + 1] = v /\ \A i \in 1 .. Len(history) : history'[i] = history[i]
    BY <1>2, Histories DEF Changes, Typed
  <2>2. DOMAIN history = 1 .. Len(history) /\ DOMAIN history' = 1 .. Len(history) + 1
    BY <2>1, LenProperties DEF Typed
  <2>3. Asked(req)' = v
    BY <1>2 DEF Changes, Asked, Typed
  <2>4. steady' => \A i \in DOMAIN history' : history'[i] # 0
    BY <2>1, <2>2 DEF Followed
  <2>5. pc' = "run" => \E i \in DOMAIN history' : history'[i] = def'
    BY <1>2, <2>1, <2>2 DEF Followed, Changes
  <2>6. Followed'
    BY <1>2, <2>1, <2>3, <2>4, <2>5 DEF Followed
  <2>7. ran' = 0 /\ reply' = NoReply
    BY <1>2 DEF Changes, Stages
  <2> QED
    BY <2>6, <2>7 DEF AnswersCurrent, NoReply
<1> QED
  BY <1>1, <1>2

LEMMA FollowedStep ==
  Typed /\ Stages /\ Followed /\ AnswersCurrent /\ [Next]_vars => Followed' /\ AnswersCurrent'
<1> SUFFICES ASSUME Typed, Stages, Followed, AnswersCurrent, [Next]_vars
             PROVE  Followed' /\ AnswersCurrent'
  OBVIOUS
<1>1. ASSUME NEW r \in Requests, Receive(r)
      PROVE  Followed' /\ AnswersCurrent'
  <2>1. Asked(r) \in Versions \cup {0} /\ history' = <<Asked(r)>> /\ Asked(req)' = Asked(r)
    BY <1>1, AskedType DEF Receive, Asked, Typed
  <2>2. Len(history') = 1 /\ history'[1] = Asked(r) /\ DOMAIN history' = {1}
    BY <2>1
  <2>3. pc' \in {"lookup", "replied"} /\ ran' = 0 /\ reply' \notin Unknown
    BY <1>1, RefusedOtherwise DEF Receive, Replies, Stages, NoReply, Unknown
  <2>4. steady' = (Asked(r) # 0)
    BY <1>1 DEF Receive
  <2>5. Followed'
    <3>1. Len(history') > 0 /\ history'[Len(history')] = Asked(req)'
      BY <2>1, <2>2
    <3>2. steady' => \A i \in DOMAIN history' : history'[i] # 0
      BY <2>2, <2>4
    <3> QED
      BY <2>3, <3>1, <3>2 DEF Followed
  <2> QED
    BY <2>3, <2>5 DEF AnswersCurrent, Unknown
<1>2. CASE Call
  BY <1>2, FollowedCall
<1>3. ASSUME NEW k \in Entries, Unregister(k)
      PROVE  Followed' /\ AnswersCurrent'
  <2>1. CASE Changes(k, 0) /\ steady' = FALSE
    BY <2>1, FollowedChange
  <2>2. CASE ChangesIdle(k, 0)
    BY <2>2 DEF ChangesIdle, callVars, Followed, AnswersCurrent
  <2> QED
    BY <1>3, <2>1, <2>2 DEF Unregister
<1>4. ASSUME NEW k \in Entries, NEW v \in Offers[k], Register(k, v)
      PROVE  Followed' /\ AnswersCurrent'
  <2>1. v \in Versions /\ v # 0
    BY ConstantsOK
  <2>2. steady' => steady
    BY <1>4 DEF Register, ChangesIdle, callVars
  <2> QED
    BY <1>4, <2>1, <2>2, FollowedChange DEF Register
<1>5. CASE Tick
  BY <1>5 DEF Tick, callVars, Followed, AnswersCurrent, Asked
<1>6. CASE Restart
  BY <1>6 DEF Restart, Followed, AnswersCurrent, NoReply
<1>7. CASE UNCHANGED vars
  BY <1>7 DEF vars, callVars, Followed, AnswersCurrent, Asked
<1> QED
  BY <1>1, <1>2, <1>3, <1>4, <1>5, <1>6, <1>7 DEF Next

LEMMA AnswersAlways == Spec => [](Typed /\ Stages /\ Followed /\ AnswersCurrent)
<1>1. Init => Typed /\ Stages /\ Followed /\ AnswersCurrent
  BY TypedInit, StagesInit DEF Init, Followed, AnswersCurrent, NoReply
<1>2. /\ Typed /\ Stages /\ Followed /\ AnswersCurrent /\ [Next]_vars
      => (Typed /\ Stages /\ Followed /\ AnswersCurrent)'
  BY TypedStep, StagesStep, FollowedStep
<1> QED
  BY <1>1, <1>2, PTL DEF Spec

(* Whatever the registry does under a call, its answer was right at some   *)
(* moment of it.                                                           *)
THEOREM AnswersAlwaysCurrent == Spec => []AnswersCurrent
BY AnswersAlways, PTL

(* Replacing an entry never makes a call miss it.                          *)
THEOREM ReplacedNeverLost == Spec => []NeverLost
<1>1. Followed /\ AnswersCurrent => NeverLost
  BY DEF Followed, AnswersCurrent, NeverLost
<1> QED
  BY <1>1, AnswersAlways, PTL

-----------------------------------------------------------------------------
(* Headers, body and definition.                                           *)

Agreed ==
  (pc = "run" \/ ran # 0) /\ req.method = "tools/call" => ~ParamMismatch(Def[def], req)

LEMMA AgreedStep == Typed /\ Stages /\ Agreed /\ [Next]_vars => Agreed'
<1> SUFFICES ASSUME Typed, Stages, Agreed, [Next]_vars
             PROVE  Agreed'
  OBVIOUS
<1>1. CASE LookupTool
  BY <1>1 DEF LookupTool, Replies, Agreed, Stages
<1>2. CASE LookupResource
  BY <1>2 DEF LookupResource, Agreed, Stages
<1>3. CASE CallTool \/ ReadResource
  BY <1>3 DEF CallTool, ReadResource, Agreed
<1>4. (\E r \in Requests : Receive(r)) => pc' # "run" /\ ran' = 0
  BY DEF Receive, Replies, Stages
<1>5. Answered \/ Restart => pc' # "run" /\ ran' = 0
  BY DEF Answered, Restart
<1>6. Tick \/ UNCHANGED vars \/ (\E k \in Entries : Unregister(k) \/ \E v \in Offers[k] : Register(k, v))
        => UNCHANGED <<pc, req, def, ran>>
  BY DEF Unregister, Register, Changes, ChangesIdle, Tick, vars, callVars
<1> QED
  BY <1>1, <1>2, <1>3, <1>4, <1>5, <1>6 DEF Next, Call, Agreed

(* What is read from a header is what the header says. *)
LEMMA ReadIsSaid ==
  ASSUME NEW h \in HeaderTexts, ~DecodeFails(Trimmed(h))
  PROVE  Says(h, DecodeHeaderValue(Trimmed(h)))
<1>1. Trimmed(h) \in Seq(Int)
  BY HeaderTextsAreSequences, TrimmedType
<1> QED
  BY <1>1, DecodesOnlyItsForms DEF Says

LEMMA FirstOf == \A n \in Nat : {1} \cap 1 .. n = IF n = 0 THEN {} ELSE {1}
OBVIOUS

(* The first line of a header, under its canonical name. *)
LEMMA FirstLine ==
  ASSUME NEW r \in Requests, NEW d, d.header = "canonical"
  PROVE  IF r.paramHdr = <<>> THEN ParamHeader(d, r) = {}
         ELSE ParamHeader(d, r) = {Trimmed(r.paramHdr[1])} /\ r.paramHdr[1] \in HeaderTexts
<1>1. r.paramHdr \in Seq(HeaderTexts)
  BY RequestsOK
<1>2. Len(r.paramHdr) \in Nat /\ DOMAIN r.paramHdr = 1 .. Len(r.paramHdr)
  BY <1>1, LenProperties
<1>3. ParamHeader(d, r) = {Trimmed(r.paramHdr[i]) : i \in {1} \cap 1 .. Len(r.paramHdr)}
  BY <1>2 DEF ParamHeader
<1>4. CASE r.paramHdr = <<>>
  BY <1>2, <1>3, <1>4
<1>5. CASE r.paramHdr # <<>>
  <2>1. Len(r.paramHdr) # 0
    BY <1>1, <1>5, EmptySeq
  <2>2. {1} \cap 1 .. Len(r.paramHdr) = {1}
    BY <1>2, <2>1, FirstOf
  <2>3. ParamHeader(d, r) = {Trimmed(r.paramHdr[1])}
    BY <1>3, <2>2
  <2>4. 1 \in 1 .. Len(r.paramHdr)
    BY <2>2
  <2>5. r.paramHdr[1] \in HeaderTexts
    BY <1>1, <2>4, ElementOfSeq
  <2> QED
    BY <1>5, <2>3, <2>5
<1> QED
  BY <1>4, <1>5

LEMMA NoMismatchAgrees ==
  ASSUME NEW r \in Requests, r.via = "http", NEW d, d.header = "canonical", ~ParamMismatch(d, r)
  PROVE  ParamsAgree(r)
<1>1. (r.arg = {}) = (r.paramHdr = <<>>)
  <2>1. (r.arg = {}) = (ParamHeader(d, r) = {})
    BY DEF ParamMismatch
  <2> QED
    BY <2>1, FirstLine
<1>2. ASSUME NEW a \in r.arg
      PROVE  IF a.type = "number"
             THEN \E s \in DOMAIN Float : Says(r.paramHdr[1], s) /\ Float[s] = Float[a.text]
             ELSE Says(r.paramHdr[1], a.text)
  <2> DEFINE h == r.paramHdr[1]
  <2>1. h \in HeaderTexts /\ Trimmed(h) \in ParamHeader(d, r)
    BY <1>1, FirstLine
  <2>2. ~DecodeFails(Trimmed(h)) /\ argValueMatchesHeader(a, DecodeHeaderValue(Trimmed(h)))
    BY <2>1 DEF ParamMismatch
  <2>3. Says(h, DecodeHeaderValue(Trimmed(h)))
    BY <2>1, <2>2, ReadIsSaid
  <2> HIDE DEF h
  <2>4. IF a.type = "number"
        THEN \E s \in DOMAIN Float : Says(h, s) /\ Float[s] = Float[a.text]
        ELSE Says(h, a.text)
    BY <2>2, <2>3, Zenon DEF argValueMatchesHeader
  <2> QED
    BY <2>4 DEF h
<1> QED
  BY <1>1, <1>2 DEF ParamsAgree

LEMMA AgreedIsEnough == Typed /\ Stages /\ Agreed => RunsOnlyAgreed
<1> SUFFICES ASSUME Typed, Stages, Agreed, ran # 0, req.via = "http"
             PROVE  /\ req.methodHdr = req.method /\ req.versionHdr = req.version
                    /\ (req.method = "tools/call") = (req.name # <<>>) => Says(req.nameHdr, LooksUp(req))
                    /\ req.method = "tools/call" /\ Def[def].header = "canonical" => ParamsAgree(req)
  BY DEF RunsOnlyAgreed
<1>1. req \in Requests
  BY DEF Typed, Stages
<1>2. /\ req.method \in {"tools/call", "resources/read"} /\ req.version # "" /\ ~HeadersInvalid(req)
  BY Routed DEF Stages
<1>3. req.methodHdr = req.method /\ req.versionHdr = req.version /\ ~NameMismatch(req)
  BY <1>2 DEF HeadersInvalid
<1>4. ASSUME (req.method = "tools/call") = (req.name # <<>>)
      PROVE  Says(req.nameHdr, LooksUp(req))
  <2>1. ~DecodeFails(Trimmed(req.nameHdr)) /\ DecodeHeaderValue(Trimmed(req.nameHdr)) = bodyName(req)
    BY <1>2, <1>3 DEF NameMismatch, requiresNameHeader
  <2>2. bodyName(req) = LooksUp(req)
    BY <1>2, <1>4, LookedUp DEF bodyName
  <2> QED
    BY <1>1, <2>1, <2>2, ReadIsSaid, RequestsOK
<1>5. ASSUME req.method = "tools/call", Def[def].header = "canonical"
      PROVE  ParamsAgree(req)
  <2>1. ~ParamMismatch(Def[def], req)
    BY <1>5 DEF Agreed
  <2> QED
    BY <1>1, <1>5, <2>1, NoMismatchAgrees
<1> QED
  BY <1>3, <1>4, <1>5

(* No function runs for a POST whose headers do not agree with its body: of*)
(* the name, if params has one exactly when the method takes one, and of   *)
(* the annotated argument as the definition that was looked up has it.     *)
THEOREM AlwaysRunsOnlyAgreed == Spec => []RunsOnlyAgreed
<1>1. Init => Typed /\ Stages /\ Agreed
  BY TypedInit, StagesInit DEF Init, Agreed
<1>2. Typed /\ Stages /\ Agreed /\ [Next]_vars => (Typed /\ Stages /\ Agreed)'
  BY TypedStep, StagesStep, AgreedStep
<1> QED
  BY <1>1, <1>2, AgreedIsEnough, PTL DEF Spec

-----------------------------------------------------------------------------
(* Conforming requests, by DecodeReversesEncode.                           *)

LEMMA NothingIsEmpty == DecodeHeaderValue(<<>>) = <<>>
<1>1. Len(<<>>) = 0
  OBVIOUS
<1> QED
  BY <1>1 DEF DecodeHeaderValue, HasPrefix

LEMMA ConformingNames ==
  ASSUME NEW r, Conforming(r), requiresNameHeader(r.method)
  PROVE  bodyName(r) = LooksUp(r)
BY DEF Conforming, bodyName, LooksUp

LEMMA ConformingHeaders ==
  ASSUME NEW r \in Requests, Conforming(r)
  PROVE  ~HeadersInvalid(r)
<1>1. r.versionHdr # "" /\ r.version = r.versionHdr /\ r.methodHdr = r.method
  BY DEF Conforming
<1>2. ASSUME NameMismatch(r)
      PROVE  FALSE
  <2> DEFINE h == Trimmed(r.nameHdr)
  <2>1. LooksUp(r) # <<>> /\ r.nameHdr = EncodeHeaderValue(LooksUp(r)) /\ bodyName(r) = LooksUp(r)
    BY <1>2, ConformingNames DEF NameMismatch, Conforming
  <2>2. LooksUp(r) \in Strings
    BY RequestsOK DEF LooksUp
  <2>3. DecodeHeaderValue(h) = LooksUp(r) /\ ~DecodeFails(h)
    BY <2>1, <2>2, DecodeReversesEncode
  <2>4. h # <<>>
    BY <2>1, <2>3, NothingIsEmpty
  <2> QED
    BY <1>2, <2>1, <2>3, <2>4 DEF NameMismatch
<1> QED
  BY <1>1, <1>2 DEF HeadersInvalid

LEMMA ConformingParams ==
  ASSUME NEW r \in Requests, Conforming(r), NEW d, d.header \in {"none", "canonical"}, d.type # "number"
  PROVE  ~ParamMismatch(d, r)
<1> SUFFICES ASSUME d.header = "canonical", ParamMismatch(d, r)
             PROVE  FALSE
  BY DEF ParamMismatch
<1>1. CASE r.arg = {}
  <2>1. ParamHeader(d, r) = {}
    BY <1>1, FirstLine DEF Conforming
  <2> QED
    BY <1>1, <2>1 DEF ParamMismatch
<1>2. CASE r.arg # {}
  <2>1. PICK a \in r.arg : r.paramHdr = <<EncodeHeaderValue(a.text)>>
    BY <1>2 DEF Conforming
  <2>2. r.paramHdr # <<>> /\ r.paramHdr[1] = EncodeHeaderValue(a.text)
    BY <2>1
  <2> DEFINE h == Trimmed(EncodeHeaderValue(a.text))
  <2>3. ParamHeader(d, r) = {h}
    BY <2>2, FirstLine
  <2>4. r.arg = {a} /\ a.text \in Strings /\ (a.type = "number" => a.text \in DOMAIN Float)
    BY <2>1, RequestsOK
  <2>5. DecodeHeaderValue(h) = a.text /\ ~DecodeFails(h)
    BY <2>4, DecodeReversesEncode
  <2>6. argValueMatchesHeader(a, a.text)
    BY <2>4 DEF argValueMatchesHeader
  <2> HIDE DEF h
  <2> QED
    BY <2>3, <2>4, <2>5, <2>6 DEF ParamMismatch
<1> QED
  BY <1>1, <1>2

LEMMA ConformingStep == Typed /\ Stages /\ ConformingAccepted /\ [Next]_vars => ConformingAccepted'
<1> SUFFICES ASSUME Typed, Stages, ConformingAccepted, [Next]_vars,
                    Conforming(req'), reply' = "HeaderMismatch"
             PROVE  def' # 0 /\ Unusable(Def[def'])
  BY DEF ConformingAccepted
<1>1. ASSUME NEW r \in Requests, Receive(r)
      PROVE  FALSE
  <2>1. req' = r /\ Refusal(r) = "HeaderMismatch"
    BY <1>1 DEF Receive, Replies, Stages, NoReply
  <2> QED
    BY <2>1, RefusedOtherwise, ConformingHeaders
<1>2. CASE LookupTool
  <2>1. req' = req /\ req \in Requests /\ def' # 0 /\ def' \in Versions
    <3>1. def' # 0 /\ req' = req /\ req \in Requests
      BY <1>2 DEF LookupTool, Replies, Typed
    <3>2. def' \in Versions \cup {0}
      BY TypedStep DEF Typed, TypeOK
    <3> QED
      BY <3>1, <3>2
  <2>2. ParamMismatch(Def[def'], req)
    BY <1>2, <2>1 DEF LookupTool, Replies, Stages, NoReply
  <2> QED
    BY <2>1, <2>2, ConformingParams, ConstantsOK DEF Unusable
<1>3. CASE UNCHANGED <<req, reply, def>>
  BY <1>3 DEF ConformingAccepted
<1>4. (\E r \in Requests : Receive(r)) \/ LookupTool \/ UNCHANGED <<req, reply, def>>
  BY DEF Next, Call, CallTool, NeedInput, LookupResource, ReadResource, Answered, Replies,
     Unregister, Register, Changes, ChangesIdle, Tick, Restart, vars, callVars, Stages, NoReply
<1> QED
  BY <1>1, <1>2, <1>3, <1>4

(* A client that encodes as the code does, and names no tool in a read, is *)
(* refused for its headers only by a tool whose annotation is on a number  *)
(* or not spelt in canonical form, whatever the names and arguments.       *)
THEOREM ConformingAlwaysAccepted == Spec => []ConformingAccepted
<1>1. Init => Typed /\ Stages /\ ConformingAccepted
  BY TypedInit, StagesInit DEF Init, ConformingAccepted, NoReply
<1>2. /\ Typed /\ Stages /\ ConformingAccepted /\ [Next]_vars
      => (Typed /\ Stages /\ ConformingAccepted)'
  BY TypedStep, StagesStep, ConformingStep
<1> QED
  BY <1>1, <1>2, PTL DEF Spec
=============================================================================
