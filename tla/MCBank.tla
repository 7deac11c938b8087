-------------------------------- MODULE MCBank --------------------------------
(* Model checking of Bank. *)
EXTENDS Bank

(* Everywhere but between emptying the log and having written it. *)
OutsideLog == {"read", "fork", "wait", "open"}
=============================================================================
