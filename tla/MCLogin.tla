------------------------------ MODULE MCLogin ------------------------------
(* A small instance of Login for TLC. *)
EXTENDS Login, TLC

CONSTANTS ann, bob, c1, t1, t2, r1, r2, w1

OneEach  == t1 :> ann @@ t2 :> bob
Swap     == ann :> bob @@ bob :> ann @@ t1 :> t2 @@ t2 :> t1
Symmetry == Permutations(RedisThreads) \union {Swap}

(* Two logins at a time are of one user; those of two users come one after  *)
(* the other.                                                               *)
OneLogin == Cardinality({t \in RedisThreads : call[t] # Idle}) <= 1
OneUser  == \E t \in Tokens : token[t] = "unissued"
Narrow   == OneLogin \/ OneUser
============================================================================
