------------------------------ MODULE MCStream ------------------------------
(* Small connections for TLC: a call, a listen and a notification.         *)
EXTENDS Stream

CONSTANTS call, call2, listen, notif, i1, i2, i3, noid

(* Every request has an id of its own. *)
UniqueIdOf == [r \in Reqs |-> IF r = call THEN i1
                              ELSE IF r = listen THEN i2
                              ELSE IF r = call2 THEN i3 ELSE noid]

(* The listen reuses the id of the call. *)
ReusedIdOf == [r \in Reqs |-> i1]
=============================================================================
