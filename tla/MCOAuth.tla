------------------------------- MODULE MCOAuth -------------------------------
(* Two logins through two clients, for TLC.  Handlers are alike.           *)
EXTENDS OAuth, TLC

CONSTANTS p1, p2

Handlers == Permutations({p1, p2})
=============================================================================
