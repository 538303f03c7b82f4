---------------------------- MODULE MCServerLife ---------------------------
(* A small instance of ServerLife for TLC. *)
EXTENDS ServerLife

CONSTANTS w1, w2, a1
============================================================================
