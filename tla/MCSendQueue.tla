---------------------------- MODULE MCSendQueue ----------------------------
(* A small instance of SendQueue for TLC. *)
EXTENDS SendQueue

CONSTANTS s1, s2, w1, w2
============================================================================
