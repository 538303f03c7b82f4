------------------------------ MODULE MCNotify -----------------------------
(* A small instance of Notify for TLC. *)
EXTENDS Notify, TLC

CONSTANTS ann, bob, cat, s1, s2, zero, one, t1

OneThread == t1 :> s1
============================================================================
