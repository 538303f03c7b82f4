---------------------------- MODULE MCPipeline -----------------------------
(* A small instance of Pipeline for TLC. *)
EXTENDS Pipeline, TLC

CONSTANTS w1, w2, r1, r2, login, other

(* A login and a second packet of another length. *)
Uneven == login :> 3 @@ other :> 2
============================================================================
