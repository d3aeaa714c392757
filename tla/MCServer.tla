------------------------------ MODULE MCServer ------------------------------
(* A small catalog and the requests of two clients, for TLC.               *)
EXTENDS Server, SequencesExt

tool    == <<Other>>
lookalike == Prefix \o <<Other + 20>> \o Suffix   \* reads as an encoded "Other"
uri     == <<Blank, Foreign>>
unknown == <<Other, Other>>

const_Tools     == {tool, lookalike}
const_Resources == {uri}
const_Versions  == 1 .. 4
const_Def ==
  <<[header |-> "canonical", type |-> "string", asks |-> FALSE],
    [header |-> "none", type |-> "string", asks |-> TRUE],
    [header |-> "other", type |-> "integer", asks |-> FALSE],
    [header |-> "canonical", type |-> "number", asks |-> FALSE]>>
const_Offers ==
  [k \in const_Tools \cup const_Resources |->
    IF k = tool THEN 1 .. 4 ELSE IF k = uri THEN {1, 2} ELSE {}]
const_Initially ==
  [k \in const_Tools \cup const_Resources |-> IF k = lookalike THEN 2 ELSE 1]

Arg(t, s) == {[type |-> t, text |-> s]}

(* A conforming tools/call, and the requests that differ from it. *)
Base ==
  [via |-> "http", origin |-> "none", verb |-> "POST", body |-> "request",
   method |-> "tools/call", methodHdr |-> "tools/call",
   version |-> "v2026", versionHdr |-> "v2026", meta |-> TRUE,
   name |-> tool, uri |-> <<>>, nameHdr |-> tool,
   arg |-> Arg("string", <<Other>>), paramHdr |-> << <<Other>> >>,
   user |-> "alice", elicits |-> TRUE, state |-> "none", answered |-> FALSE]

Named(r, n) == [r EXCEPT !.name = n, !.nameHdr = EncodeHeaderValue(n)]
Asks(m)     == [Base EXCEPT !.method = m, !.methodHdr = m]
With(a)     == [Base EXCEPT !.arg = a,
                            !.paramHdr = SetToSeq({EncodeHeaderValue(x.text) : x \in a})]
Reads(u)    == [Named(Asks("resources/read"), u) EXCEPT !.name = <<>>, !.uri = u]
Read        == Reads(uri)

Names ==
  {Named(Base, n) : n \in {lookalike, uri, unknown, Prefix \o <<Equals>>}}
    \cup {[Base EXCEPT !.nameHdr = h] :
            h \in {<<>>, <<Blank, Other>>, unknown, Prefix \o <<Other>> \o Suffix,
                   Prefix \o <<Other + 20>> \o Suffix, Prefix \o <<Other + 60>> \o Suffix}}
    \cup {Read, Reads(unknown), [Read EXCEPT !.nameHdr = <<Blank, Blank>>],
          [Named(Base, lookalike) EXCEPT !.nameHdr = lookalike]}
    \cup {[Read EXCEPT !.name = tool], [Read EXCEPT !.name = tool, !.nameHdr = tool],
          [Base EXCEPT !.uri = uri], [Base EXCEPT !.name = <<>>, !.uri = tool]}

Headers ==
  {[Base EXCEPT !.versionHdr = v] : v \in {"", "v2025"}}
    \cup {[Base EXCEPT !.version = v, !.versionHdr = h] : v \in {"", "v2025"}, h \in {"v2025"}}
    \cup {[Base EXCEPT !.methodHdr = m] : m \in {"", "tools/list"}}
    \cup {[Base EXCEPT !.origin = "foreign"], [Base EXCEPT !.body = "garbage"],
          [Base EXCEPT !.body = "notification"], [Base EXCEPT !.meta = FALSE],
          [Base EXCEPT !.verb = "GET"], [Base EXCEPT !.verb = "OPTIONS"],
          [Asks("initialize") EXCEPT !.versionHdr = "", !.methodHdr = ""],
          Asks("tools/list"), Asks("subscriptions/listen"), Asks("prompts/get")}

Params ==
  {With(a) : a \in {{}, Arg("string", lookalike), Arg("string", <<Blank>>), Arg("string", <<>>),
                    Arg("boolean", <<True>>), Arg("number", <<One>>), Arg("null", <<>>)}}
    \cup {[Base EXCEPT !.paramHdr = h] :
            h \in {<<>>, << <<>> >>, <<Prefix \o <<Other>> \o Suffix>>,
                   << <<Other>>, <<Two>> >>, << <<Two>>, <<Other>> >>}}
    \cup {[With(Arg("number", <<One>>)) EXCEPT !.paramHdr = <<h>>] : h \in {<<OneDot>>, <<Two>>}}
    \cup {[With({}) EXCEPT !.paramHdr = << <<Other>> >>],
          [With(Arg("boolean", <<False>>)) EXCEPT !.paramHdr = << <<True>> >>]}

Streams ==
  {[r EXCEPT !.via = "stream", !.nameHdr = <<>>, !.paramHdr = <<>>] :
     r \in {Base, Read, [Base EXCEPT !.body = "notification"], Asks("initialize")}}

(* Two calls that begin a round trip, and the retries of them and of others*)
RoundTrip(n, a, u, s) ==
  [Named(With(Arg("string", a)), n) EXCEPT !.user = u, !.state = s, !.answered = s # "none"]

RoundTrips ==
  {RoundTrip(tool, <<Other>>, "alice", "none"), RoundTrip(lookalike, <<Blank>>, "bob", "none")}
  \cup {RoundTrip(n, a, u, "held") :
          n \in {tool, lookalike}, a \in {<<Other>>, <<Blank>>}, u \in {"alice", "bob"}}
  \cup {[Base EXCEPT !.elicits = FALSE], [Base EXCEPT !.answered = TRUE],
        [Base EXCEPT !.state = "forged"]}

const_Retries == RoundTrips
const_Requests == Names \cup Headers \cup Params \cup Streams \cup RoundTrips
=============================================================================
