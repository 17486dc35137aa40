----------------------------- MODULE MCHandlers -----------------------------
(* Handlers for TLC: every route with every set of its malformed parts, and   *)
(* bodies of up to two bytes.                                                 *)
EXTENDS Handlers
=============================================================================
