--------------------------- MODULE MCHttpExchange ---------------------------
(* Constants for checking HttpExchange with TLC. *)
EXTENDS HttpExchange

const_Kinds == {"refused", "notification", "call", "stream", "listen"}
=============================================================================
