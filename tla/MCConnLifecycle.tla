-------------------------- MODULE MCConnLifecycle --------------------------
(* Small instances of ConnLifecycle for TLC. *)
EXTENDS ConnLifecycle, TLC

CONSTANTS p1, p2, h1

Symmetry == Permutations(PoolOvs)

(* A connection that nothing happened to but the first AcceptEx. *)
Unused(d) ==
  /\ sock[d] \in {"fresh", "listening"}
  /\ \A o \in ops : o.conn = d \/ o.ov = d =>
       o.conn = o.ov /\ o.kind = "ACCEPT" /\ o.st = "pending" /\ ~o.stale /\ o.n = 0
  /\ ovLapPool[d] = 0 /\ sendQueueSize[d] = 0 /\ lostSends[d] = 0 /\ d \notin unread \union strays

OneInUse == \E c \in Conns : \A d \in Conns \ {c} : Unused(d)

(* One message, and one AcceptEx on each acceptOvlap. *)
Few ==
  /\ FoldFunction(+, 0, sendQueueSize) <= 1
  /\ \A c \in Conns : ovLapPool[c] + Cardinality({o \in ops : o.ov = c}) <= 1

(* Two connections at work have Few of each; one alone may have what the    *)
(* constants allow.                                                         *)
PairOrAlone == Few \/ OneInUse
============================================================================
