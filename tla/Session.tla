------------------------------- MODULE Session -------------------------------
(***************************************************************************)
(* What the client of one stream connection may read, as the comments of   *)
(* streamTransport and transport.MessageHandler promise it: whole lines,   *)
(* which "don't interleave mid-line"; for a call, its response, once; for  *)
(* a subscriptions/listen its acknowledgement, once and first, then events,*)
(* and no response; for a notification nothing; an error that answers no   *)
(* request only if a line was not one.                                     *)
(***************************************************************************)

CONSTANTS
  Reqs,    \* the messages the client may send
  Calls,   \* the requests that are answered
  Listens  \* the requests that are subscriptions/listen

VARIABLES
  sent,    \* the messages the client has sent
  garbled, \* whether it has sent a line that is no message
  last,    \* what it has read last: a message, or the newline after it
  got      \* the messages it has read with their newline

Newline == [src |-> "none", what |-> "newline"]

Response(r)        == [src |-> r, what |-> "resp"]
Acknowledgement(r) == [src |-> r, what |-> "ack"]
Event(r)           == [src |-> r, what |-> "note"]
ParseError         == [src |-> "loop", what |-> "error"]

Init == sent = {} /\ garbled = FALSE /\ last = Newline /\ got = {}

Sends ==
  /\ \/ \E r \in Reqs \ sent : sent' = sent \cup {r} /\ UNCHANGED garbled
     \/ garbled' = TRUE /\ UNCHANGED sent
  /\ UNCHANGED <<last, got>>

(* A line begins only after the one before it has ended. *)
Reads(m) ==
  /\ last = Newline /\ last' = m
  /\ UNCHANGED <<sent, garbled, got>>

ReadsResponse(r) == Response(r) \notin got /\ Reads(Response(r))
ReadsAcknowledgement(r) == Acknowledgement(r) \notin got /\ Reads(Acknowledgement(r))
ReadsEvent(r) == Acknowledgement(r) \in got /\ Reads(Event(r))
ReadsParseError == garbled /\ Reads(ParseError)

EndsLine ==
  /\ last # Newline /\ last' = Newline
  /\ got' = got \cup {last}
  /\ UNCHANGED <<sent, garbled>>

Next ==
  \/ Sends
  \/ \E r \in Calls \cap sent : ReadsResponse(r)
  \/ \E r \in Listens \cap sent : ReadsAcknowledgement(r) \/ ReadsEvent(r)
  \/ ReadsParseError
  \/ EndsLine

Spec == Init /\ [][Next]_<<sent, garbled, last, got>>
=============================================================================
