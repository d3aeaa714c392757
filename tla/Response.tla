------------------------------ MODULE Response ------------------------------
(***************************************************************************)
(* What the client of one POST may be sent, as transport.ResponseWriter    *)
(* and the comment of httpResponseWriter promise it: one JSON object, or   *)
(* an event stream whose last event is the answer; keep-alive comments     *)
(* stand between events, never inside one; nothing follows the end.        *)
(*                                                                         *)
(* An event is sent in two parts, its data and the blank line that ends it,*)
(* so that a comment in between would show.                                *)
(***************************************************************************)

VARIABLES
  stage,  \* how far the response has come
  last    \* the part of it that came last

Init == stage = "nothing" /\ last = "none"

Part(from, what, to) == stage = from /\ last' = what /\ stage' = to

(* The whole response at once: a JSON object, or a bare 202. *)
Whole == \E what \in {"json", "accepted"} : Part("nothing", what, "answered")

Headers      == Part("nothing", "headers", "stream")
Notification == Part("stream", "note", "event")
Answer       == Part("stream", "answer", "lastEvent")
BlankLine    == \/ Part("event", "blank", "stream")
                \/ Part("lastEvent", "blank", "closing")
Comment      == \E s \in {"stream", "closing"} : Part(s, "comment", s)

(* A handler may return without an answer: a listen does. *)
End == \E s \in {"nothing", "answered", "stream", "closing"} : Part(s, "end", "ended")

Next == Whole \/ Headers \/ Notification \/ Answer \/ BlankLine \/ Comment \/ End

Spec == Init /\ [][Next]_<<stage, last>>
=============================================================================
