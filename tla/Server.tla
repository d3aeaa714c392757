------------------------------- MODULE Server -------------------------------
(***************************************************************************)
(* mcp/server.go, tools.go, mrtr.go, meta.go, xmcpheader.go, the reading   *)
(* side of resources.go, and what transport/http.go does with a POST up to *)
(* its reply: one request at a time, from the HTTP headers to the JSON-RPC *)
(* error or result, while tools and resources are being registered, time   *)
(* passes and the server restarts.  Requests share nothing but the         *)
(* registries, so that others in flight add nothing to what one may see.   *)
(*                                                                         *)
(* A tool call that needs an answer from the user is a multi round trip:   *)
(* the reply carries a signed requestState, which a retry brings back.     *)
(***************************************************************************)
EXTENDS HeaderValues, FiniteSets

CONSTANTS
  Requests,   \* the requests the client may send
  Retries,    \* bound: those whose requestState it keeps, to send one of them again
  Tools,      \* the names of tools
  Resources,  \* the URIs of resources
  Versions,   \* the versions of an entry: positive numbers
  Def,        \* Def[v]: what version v of a tool declares, and does
  Offers,     \* Offers[k]: the versions that may be registered under k
  Initially,  \* Initially[k]: the version of k at the start, or 0
  TTL,        \* requestStateTTL, in seconds
  Supported,  \* the protocol versions the server speaks
  MaxNow,     \* bound: half-seconds that pass
  MaxChanges, \* bound: changes to the requested entry during one call
  MaxKey      \* bound: signing keys that restarts have made

Entries == Tools \cup Resources

ASSUME ConstantsOK ==
  /\ Tools \cap Resources = {} /\ Retries \subseteq Requests /\ Offers \in [Entries -> SUBSET Versions]
  /\ Versions \subseteq Nat \ {0}
  /\ Initially \in [Entries -> Versions \cup {0}]
  /\ \A v \in Versions :
       /\ Def[v].header \in {"none", "canonical", "other"}
       /\ Def[v].type \in {"string", "boolean", "integer", "number"}
       /\ Def[v].asks \in BOOLEAN
  /\ TTL \in Nat /\ MaxNow \in Nat \ {0} /\ MaxChanges \in Nat /\ MaxKey \in Nat \ {0}

(* Names, headers and the text of arguments are strings.  name and uri are *)
(* those of params, "" if it has none; params may have both.  arg has the  *)
(* argument that the tool annotates, if the call has it, and paramHdr the  *)
(* lines of its header.  Of the other headers only the first line is ever  *)
(* looked at (Header.Get), and is what a request has here.                 *)
ASSUME RequestsOK ==
  \A r \in Requests :
    /\ r.state \in {"none", "forged", "held"}
    /\ r.name \in Strings /\ r.uri \in Strings
    /\ r.nameHdr \in HeaderTexts /\ r.paramHdr \in Seq(HeaderTexts)
    /\ \A a \in r.arg : a.text \in Strings /\ (a.type = "number" => a.text \in DOMAIN Float)
    /\ \A a, b \in r.arg : a = b

VARIABLES
  reg,      \* reg[k]: the version registered under k, or 0
  now,      \* half-seconds
  key,      \* the server's RequestStateKey
  issued,   \* the requestState that the client keeps, with the moment it was signed
  pc,       \* where the call stands: "idle", "lookup", "run" or "replied"
  req,      \* the request
  def,      \* the version that Get returned
  ran,      \* the version whose function was called, or 0
  reply,    \* the error code, or what the result is
  history,  \* the versions the requested entry has had during the call
  steady    \* whether it has been registered all the while

callVars == <<pc, req, def, ran, reply, history, steady>>
vars     == <<reg, now, key, issued, callVars>>

NoReply == "none"
NoState == [principal |-> "", name |-> <<>>, arg |-> {}, expiry |-> 0, key |-> 0, at |-> 0]
NoReq   == [via |-> "none"]

-----------------------------------------------------------------------------
(* Replies are named for the error, or for the result.  UnknownTool and    *)
(* UnknownResource are InvalidParams, and so is InvalidState; Gone is an   *)
(* InternalError; NoAnswer is what a notification gets on a stream, and    *)
(* Streaming what a listen gets (modules Broker and HttpExchange).         *)
(*                                                                         *)
(* HTTP: handleMCP and handlePost.  A header that is missing is "" there.  *)

requiresNameHeader(m) == m \in {"tools/call", "resources/read", "prompts/get"}

(* What validateHeaders compares Mcp-Name with, whatever the method, ...   *)
bodyName(r) == IF r.name # <<>> THEN r.name ELSE r.uri

(* ... and what the method looks up: a read goes by params.uri alone.      *)
LooksUp(r) == IF r.method = "resources/read" THEN r.uri ELSE r.name

NameUnchecked(r) == FALSE
NameMismatch(r) ==
  /\ requiresNameHeader(r.method)
  /\ LET h == Trimmed(r.nameHdr)
     IN  h = <<>> \/ DecodeFails(h) \/ DecodeHeaderValue(h) # bodyName(r)

(* validateHeaders; a body without a version is left to ParseRequestMeta.  *)
HeadersInvalid(r) ==
  \/ r.versionHdr = "" \/ r.version \notin {"", r.versionHdr}
  \/ r.methodHdr # r.method
  \/ NameMismatch(r)

(* The refusal, or "" for a message that goes on to HandleMessage.         *)
HttpRefusal(r) ==
  IF r.origin = "foreign" THEN "Forbidden"
  ELSE IF r.verb = "OPTIONS" THEN "Preflight"
  ELSE IF r.verb # "POST" THEN "MethodNotAllowed"
  ELSE IF r.body = "garbage" THEN "ParseError"
  ELSE IF r.method # "initialize" /\ HeadersInvalid(r) THEN "HeaderMismatch"
  ELSE IF r.body = "notification" THEN "Accepted"
  ELSE ""

(* HandleMessage, before it routes: the legacy diagnostic, ParseRequestMeta*)
(* and the methods that do not exist.                                      *)
ParseRefusal(r) ==
  IF r.body = "notification" THEN "NoAnswer"
  ELSE IF r.method = "initialize" THEN "MethodNotFound"
  ELSE IF r.version = "" \/ ~r.meta THEN "InvalidParams"
  ELSE IF r.version \notin Supported THEN "UnsupportedProtocolVersion"
  ELSE IF r.method = "subscriptions/listen" THEN "Streaming"
  ELSE IF r.method \in {"server/discover", "tools/list", "resources/list"} THEN "complete"
  ELSE IF r.method \notin {"tools/call", "resources/read"} THEN "MethodNotFound"
  ELSE ""

Refusal(r) ==
  IF r.via = "http" /\ HttpRefusal(r) # "" THEN HttpRefusal(r) ELSE ParseRefusal(r)

-----------------------------------------------------------------------------
(* tools/call: headers that mirror an argument, and the requestState.      *)

(* The header's value, if RequestHeaders has it: collectHeaders keeps the  *)
(* first line of each, under net/http's canonical name; the tool's own     *)
(* spelling is looked up.                                                  *)
ParamHeader(d, r) ==
  {Trimmed(r.paramHdr[i]) : i \in {1} \cap {n \in DOMAIN r.paramHdr : d.header = "canonical"}}

(* validateToolHeaders finds a mismatch. *)
ParamMismatch(d, r) ==
  /\ r.via = "http" /\ d.header # "none"
  /\ \/ d.type = "number"
     \/ (r.arg = {}) # (ParamHeader(d, r) = {})
     \/ \E h \in ParamHeader(d, r), a \in r.arg :
          DecodeFails(h) \/ ~argValueMatchesHeader(a, DecodeHeaderValue(h))

Unix(t) == t \div 2

(* signRequestState *)
Signed(r) ==
  [principal |-> r.user, name |-> r.name, arg |-> r.arg,
   expiry |-> Unix(now + 2 * TTL), key |-> key, at |-> now]

LaxStateInvalid(r) ==
  /\ r.state # "none"
  /\ \/ r.state = "forged" \/ issued.key # key
     \/ Unix(now) > issued.expiry
     \/ issued.principal # r.user \/ issued.name # r.name

StrictStateInvalid(r) ==
  /\ r.state # "none"
  /\ \/ r.state = "forged" \/ issued.key # key
     \/ Unix(now) >= issued.expiry
     \/ issued.principal # r.user
     \/ issued.name # r.name \/ issued.arg # r.arg

(* verifyRequestState fails.  A forged blob has no valid signature, and one*)
(* of an earlier server has the signature of a key that is gone.           *)
StateInvalid(r) ==
  /\ r.state # "none"
  /\ \/ r.state = "forged" \/ issued.key # key
     \/ Unix(now) > issued.expiry
     \/ issued.principal # r.user
     \/ issued.name # r.name \/ issued.arg # r.arg

-----------------------------------------------------------------------------
Init ==
  /\ reg = Initially
  /\ now \in {0, 1} /\ key = 1 /\ issued = NoState
  /\ pc = "idle" /\ req = NoReq /\ def = 0 /\ ran = 0 /\ reply = NoReply
  /\ history = <<>> /\ steady = TRUE

Replies(what) == pc' = "replied" /\ reply' = what

Asked(r) == IF LooksUp(r) \in Entries THEN reg[LooksUp(r)] ELSE 0

(* The request arrives, and is refused or routed. *)
Receive(r) ==
  /\ pc = "idle"
  /\ IF issued = NoState THEN r.state # "held" ELSE r \in Retries
  /\ req' = r
  /\ IF Refusal(r) = "" THEN pc' = "lookup" /\ UNCHANGED reply
                        ELSE Replies(Refusal(r))
  /\ history' = <<Asked(r)>> /\ steady' = (Asked(r) # 0)
  /\ UNCHANGED <<reg, now, key, issued, def, ran>>

(* handleToolsCall up to the call of the function.  It reads the registry  *)
(* first and nothing shared after that, so that it is one step.            *)
LookupTool ==
  /\ pc = "lookup" /\ req.method = "tools/call"
  /\ def' = IF req.name \in Tools THEN reg[req.name] ELSE 0
  /\ IF def' = 0 THEN Replies("UnknownTool")
     ELSE IF ParamMismatch(Def[def'], req) THEN Replies("HeaderMismatch")
     ELSE IF StateInvalid(req) THEN Replies("InvalidState")
     ELSE pc' = "run" /\ UNCHANGED reply
  /\ UNCHANGED <<reg, now, key, issued, req, ran, history, steady>>

RunsInitial(r) == Initially[LooksUp(r)]
RunsCurrent(r) == reg[LooksUp(r)]

(* What the tool returns from NeedInput, if it has to ask the user. *)
NeedsAnswer(v, r) == v # 0 /\ Def[v].asks /\ ~r.answered
NeedInput(r) == IF r.elicits THEN "input_required" ELSE "MissingRequiredClientCapability"

(* ToolRegistry.call fetches the function, which may have been replaced or *)
(* removed by now; and the function runs.  One that needs an answer calls  *)
(* NeedInput until it has it.  The client keeps the first requestState.    *)
CallTool ==
  /\ pc = "run" /\ req.method = "tools/call"
  /\ ran' = RunsCurrent(req)
  /\ IF ran' = 0 THEN Replies("UnknownTool")
     ELSE IF NeedsAnswer(ran', req) THEN Replies(NeedInput(req))
     ELSE \E what \in {"complete", "InternalError"} : Replies(what)
  /\ issued' = IF reply' = "input_required" /\ issued = NoState /\ req \in Retries
               THEN Signed(req) ELSE issued
  /\ UNCHANGED <<reg, now, key, req, def, history, steady>>

(* handleResourcesRead: Get, ... *)
LookupResource ==
  /\ pc = "lookup" /\ req.method = "resources/read"
  /\ def' = IF req.uri \in Resources THEN reg[req.uri] ELSE 0
  /\ IF def' = 0 THEN Replies("UnknownResource") ELSE pc' = "run" /\ UNCHANGED reply
  /\ UNCHANGED <<reg, now, key, issued, req, ran, history, steady>>

(* ... then Read, which takes the lock anew: metadata and content may be   *)
(* of different versions, and an entry that is gone is an internal error.  *)
ReadResource ==
  /\ pc = "run" /\ req.method = "resources/read"
  /\ ran' = RunsCurrent(req)
  /\ IF ran' = 0 THEN Replies("Gone")
     ELSE \E what \in {"complete", "InternalError"} : Replies(what)
  /\ UNCHANGED <<reg, now, key, issued, req, def, history, steady>>

(* The reply is written, and the next request may come. *)
Answered ==
  /\ pc = "replied"
  /\ pc' = "idle" /\ req' = NoReq /\ def' = 0 /\ ran' = 0 /\ reply' = NoReply
  /\ history' = <<>> /\ steady' = TRUE
  /\ UNCHANGED <<reg, now, key, issued>>

-----------------------------------------------------------------------------
(* What happens around the call.                                           *)

(* The entry k changes; only changes to the one asked for are remembered.  *)
Changes(k, v) ==
  /\ pc \in {"lookup", "run"} /\ LooksUp(req) = k /\ Len(history) <= MaxChanges
  /\ reg' = [reg EXCEPT ![k] = v]
  /\ history' = Append(history, v)
  /\ UNCHANGED <<now, key, issued, pc, req, def, ran, reply>>

ChangesIdle(k, v) ==
  /\ pc = "idle"
  /\ reg' = [reg EXCEPT ![k] = v]
  /\ UNCHANGED <<now, key, issued, callVars>>

RegisterInTwo(k, v) ==
  LET put == IF reg[k] = 0 THEN v ELSE 0 IN
    (Changes(k, put) /\ UNCHANGED steady) \/ ChangesIdle(k, put)

(* Register removes the old entry and appends the new one under one lock. *)
Register(k, v) ==
  /\ reg[k] # v
  /\ (Changes(k, v) /\ UNCHANGED steady) \/ ChangesIdle(k, v)

Unregister(k) ==
  /\ reg[k] # 0
  /\ (Changes(k, 0) /\ steady' = FALSE) \/ ChangesIdle(k, 0)

Tick ==
  /\ now < MaxNow /\ pc \in {"idle", "run"} /\ issued # NoState
  /\ now' = now + 1
  /\ UNCHANGED <<reg, key, issued, callVars>>

EmptyKey == {0}
NextKeys == {key, key + 1} \cap 1 .. MaxKey

(* A restart ends the calls in flight.  A configured key survives it; one  *)
(* made at startup does not.                                               *)
Restart ==
  /\ key' \in NextKeys
  /\ pc' = "idle" /\ req' = NoReq /\ def' = 0 /\ ran' = 0 /\ reply' = NoReply
  /\ history' = <<>> /\ steady' = TRUE
  /\ UNCHANGED <<reg, now, issued>>

Call == LookupTool \/ CallTool \/ LookupResource \/ ReadResource \/ Answered

Next ==
  \/ \E r \in Requests : Receive(r)
  \/ Call
  \/ \E k \in Entries : Unregister(k) \/ \E v \in Offers[k] : Register(k, v)
  \/ Tick \/ Restart

Spec == Init /\ [][Next]_vars

-----------------------------------------------------------------------------
(* Properties.                                                             *)

(* Types of the variables, with the bounds. *)
TypeOK ==
  /\ \A k \in Entries : reg[k] \in Offers[k] \cup {0, Initially[k]}
  /\ now \in 0 .. MaxNow /\ key \in 1 .. MaxKey
  /\ issued.key \in 0 .. key /\ issued.at \in 0 .. now
  /\ pc \in {"idle", "lookup", "run", "replied"}
  /\ req \in Requests \cup {NoReq}
  /\ def \in Versions \cup {0} /\ ran \in Versions \cup {0}
  /\ Len(history) <= MaxChanges + 1

(* Header h says s: plainly, or encoded. *)
Says(h, s) == Trimmed(h) \in {s} \cup {Prefix \o t \o Suffix : t \in TextsOf(s)}

(* The header of an annotated argument is there when the argument is, and  *)
(* its first line says it.                                                 *)
ParamsAgree(r) ==
  /\ (r.arg = {}) = (r.paramHdr = <<>>)
  /\ \A a \in r.arg :
       IF a.type = "number"
       THEN \E s \in DOMAIN Float : Says(r.paramHdr[1], s) /\ Float[s] = Float[a.text]
       ELSE Says(r.paramHdr[1], a.text)

(* "MCP-Protocol-Version, Mcp-Method, and (for tools/call, resources/read, *)
(* prompts/get) Mcp-Name are present and match the request body", and so   *)
(* does the header of an annotated argument: no function runs for a POST   *)
(* that says one thing in its headers and another in its body; if params   *)
(* has a name exactly when the method takes one, and as the definition that*)
(* was looked up has it.                                                   *)
RunsOnlyAgreed ==
  ran # 0 /\ req.via = "http" =>
    /\ req.methodHdr = req.method /\ req.versionHdr = req.version
    /\ (req.method = "tools/call") = (req.name # <<>>) => Says(req.nameHdr, LooksUp(req))
    /\ req.method = "tools/call" /\ Def[def].header = "canonical" => ParamsAgree(req)

(* HeaderMismatch for a Mcp-Name that does "not match the corresponding    *)
(* value": what runs is what Mcp-Name says, whatever params has besides.   *)
HeaderNamesWhatRuns == ran # 0 /\ req.via = "http" => Says(req.nameHdr, LooksUp(req))

(* What a client sends that encodes as EncodeHeaderValue does what the     *)
(* method takes, and puts no name into params but for a method that takes  *)
(* one.                                                                    *)
Conforming(r) ==
  /\ r.via = "http" /\ r.verb = "POST" /\ r.origin # "foreign" /\ r.body = "request"
  /\ r.version = r.versionHdr /\ r.version # "" /\ r.methodHdr = r.method
  /\ requiresNameHeader(r.method) =>
       LooksUp(r) # <<>> /\ r.nameHdr = EncodeHeaderValue(LooksUp(r))
  /\ r.method = "resources/read" => r.name = <<>>
  /\ Null \notin r.arg
  /\ IF r.arg = {} THEN r.paramHdr = <<>>
     ELSE \E a \in r.arg : r.paramHdr = <<EncodeHeaderValue(a.text)>>

(* No call of a tool with such an annotation can be right: one on a number *)
(* is not permitted, one that is not spelt in canonical form never found.  *)
Unusable(d) == d.type = "number" \/ d.header = "other"

(* "DecodeHeaderValue reverses EncodeHeaderValue", blanks trimmed on the   *)
(* way: a conforming request never gets HeaderMismatch, whatever its names *)
(* and arguments look like, but for a tool with an unusable annotation.    *)
ConformingAccepted ==
  Conforming(req) /\ reply = "HeaderMismatch" => def # 0 /\ Unusable(Def[def])

(* The registry may change under a call, but the answer was right at some  *)
(* moment of it: definition and function were both registered meanwhile,   *)
(* the function no earlier, and what is called unknown was not there.      *)
AnswersCurrent ==
  /\ ran # 0 => \E i, j \in DOMAIN history :
                  i <= j /\ history[i] = def /\ history[j] = ran
  /\ reply \in {"UnknownTool", "UnknownResource", "Gone"} =>
       \/ \E i \in DOMAIN history : history[i] = 0
       \/ LooksUp(req) \notin IF req.method = "tools/call" THEN Tools ELSE Resources

(* "the list and the name-keyed function map must not be allowed to        *)
(* disagree": replacing an entry never makes a call miss it.               *)
NeverLost ==
  steady /\ reply \in {"UnknownTool", "UnknownResource", "Gone"} =>
    LooksUp(req) \notin IF req.method = "tools/call" THEN Tools ELSE Resources

Same(r, s) == r.user = s.principal /\ r.name = s.name /\ r.arg = s.arg

(* "a tampered, expired, cross-principal, or cross-request blob is rejected*)
(* rather than trusted": expired is less than a second after the TTL.      *)
StateBound ==
  [][pc = "lookup" /\ pc' = "run" /\ req.method = "tools/call" /\ req.state # "none" =>
       /\ req.state = "held" /\ Same(req, issued) /\ issued.key = key
       /\ now - issued.at < 2 * (TTL + 1)]_vars

(* Within the TTL, a faithful retry to a server with the same key is not   *)
(* refused for its requestState, whatever fraction of a second it was      *)
(* signed at.                                                              *)
FreshStateAccepted ==
  reply = "InvalidState" =>
    ~(req.state = "held" /\ Same(req, issued) /\ issued.key = key /\ now - issued.at <= 2 * TTL)
=============================================================================
