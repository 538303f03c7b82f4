----------------------------- MODULE Heartbeat -----------------------------
(***************************************************************************)
(* LobbyHeartbeat: a thread writes the key lobby:n:status every            *)
(* IntervalSec seconds with a time to live of TtlSec, and deletes it when  *)
(* it is stopped.  The key is what makes the server a candidate for new    *)
(* users.  Its value, the number of users, is left out: nothing in this    *)
(* repository counts them.                                                 *)
(*                                                                         *)
(* Time passes in seconds (Tick), which no due step may be missed by.  A   *)
(* command that fails for the client, by a timeout for instance, may still *)
(* be carried out by Redis later, over the connection the client gave up.  *)
(***************************************************************************)
EXTENDS Naturals

CONSTANTS
  IntervalSec, TtlSec,
  MaxDelay,    (* seconds until a command is answered or fails; at most   *)
               (* socket_timeout, 10 (RedisManager.cpp:45)                *)
  MaxFails,    (* commands that fail one after the other (bound)          *)
  MaxLate      (* commands carried out late (bound)                       *)

ASSUME HeartbeatAssumption ==
  /\ IntervalSec \in Nat /\ TtlSec \in Nat \ {0}
  /\ MaxDelay \in Nat /\ MaxFails \in Nat /\ MaxLate \in Nat

VARIABLES
  running,   (* LobbyHeartbeat::running                                   *)
  phase,     (* where HeartbeatLoop is                                    *)
  timer,     (* seconds it has been there                                 *)
  executed,  (* Redis has carried out the command under way               *)
  key,       (* seconds the key has to live, 0 without a key              *)
  fails,     (* commands that failed since the last answer                *)
  late,      (* SET commands that failed and may be carried out yet       *)
  up,        (* the process runs                                          *)
  listed,    (* history: a SET was carried out                            *)
  stopping   (* history: seconds since Stop was called (bounded)          *)

hbVars == <<running, phase, timer, executed, key, fails, late, up, listed, stopping>>

HBInit ==
  /\ running = TRUE /\ phase = "test" /\ timer = 0 /\ executed = FALSE
  /\ key = 0 /\ fails = 0 /\ late = 0 /\ up = TRUE
  /\ listed = FALSE /\ stopping = 0

InCall == phase \in {"set", "del"}
Enter(p) == phase' = p /\ timer' = 0 /\ executed' = FALSE

----------------------------------------------------------------------------
NextCall == IF running THEN "set" ELSE "del"

(* The condition of the loop. *)
Test ==
  /\ up /\ phase = "test"
  /\ Enter(NextCall)
  /\ UNCHANGED <<running, key, fails, late, up, listed, stopping>>

NewTtl == TtlSec

(* Redis carries out the command. *)
Execute ==
  /\ up /\ InCall /\ ~executed
  /\ executed' = TRUE
  /\ key' = IF phase = "set" THEN NewTtl ELSE 0
  /\ listed' = (listed \/ phase = "set")
  /\ UNCHANGED <<running, phase, timer, fails, late, up, stopping>>

After == IF phase = "set" THEN "sleep" ELSE "done"

Answer ==
  /\ up /\ InCall /\ executed
  /\ Enter(After)
  /\ fails' = 0
  /\ UNCHANGED <<running, key, late, up, listed, stopping>>

(* An exception: logged, and the next period tries again. *)
Fail ==
  /\ up /\ InCall
  /\ phase = "set" => fails < MaxFails
  /\ fails' = IF phase = "set" THEN fails + 1 ELSE fails
  /\ late' \in {late, IF phase = "set" /\ ~executed /\ late < MaxLate THEN late + 1 ELSE late}
  /\ Enter(After)
  /\ UNCHANGED <<running, key, up, listed, stopping>>

ExecuteLate ==
  /\ late > 0
  /\ late' = late - 1
  /\ key' = NewTtl
  /\ UNCHANGED <<running, phase, timer, executed, fails, up, listed, stopping>>

OverSleeps == 2 * IntervalSec + MaxDelay                        (* mutant *)
Sleeps == IntervalSec

Wake ==
  /\ up /\ phase = "sleep" /\ timer = Sleeps
  /\ Enter("test")
  /\ UNCHANGED <<running, key, fails, late, up, listed, stopping>>

(* Stop only asks; the loop looks when it wakes up. *)
Stop ==
  /\ up /\ running
  /\ running' = FALSE
  /\ UNCHANGED <<phase, timer, executed, key, fails, late, up, listed, stopping>>

Crash ==
  /\ up
  /\ up' = FALSE
  /\ UNCHANGED <<running, phase, timer, executed, key, fails, late, listed, stopping>>

(* One period and two commands. *)
StopTime == IntervalSec + 2 * MaxDelay

Persists(k) == k                                                (* mutant *)
Aged(k) == IF k > 0 THEN k - 1 ELSE 0

(* A second passes; steps that are due come first. *)
Tick ==
  /\ up => /\ phase # "test"
           /\ InCall => timer < MaxDelay
           /\ phase = "sleep" => timer < Sleeps
  /\ key' = Aged(key)
  /\ timer' = IF up /\ phase # "done" THEN timer + 1 ELSE timer
  /\ stopping' = IF up /\ ~running /\ phase # "done" /\ stopping <= StopTime
                 THEN stopping + 1 ELSE stopping
  /\ UNCHANGED <<running, phase, executed, fails, late, up, listed>>

Loop == Test \/ Answer \/ Fail \/ Wake

HBNext == Loop \/ Execute \/ ExecuteLate \/ Stop \/ Crash \/ Tick

HBSpec == HBInit /\ [][HBNext]_hbVars

HBFairSpec == HBSpec /\ WF_hbVars(Loop) /\ WF_hbVars(Execute) /\ WF_hbVars(Tick)

----------------------------------------------------------------------------
HBTypeOK ==
  /\ running \in BOOLEAN /\ executed \in BOOLEAN /\ up \in BOOLEAN
  /\ listed \in BOOLEAN
  /\ phase \in {"test", "set", "sleep", "del", "done"}
  /\ timer \in Nat /\ key \in 0 .. TtlSec /\ stopping \in Nat
  /\ fails \in 0 .. MaxFails /\ late \in 0 .. MaxLate
  /\ InCall => timer <= MaxDelay
  /\ phase = "sleep" => timer <= IntervalSec
  /\ running => phase \in {"test", "set", "sleep"}

(* Commands are answered so soon, and fail so rarely, that the next write   *)
(* comes before the key runs out.                                           *)
Healthy == (MaxFails + 1) * (MaxDelay + IntervalSec) + MaxDelay < TtlSec

(* Then a server that runs does not disappear from the pool.                *)
StaysListed == Healthy /\ listed /\ running /\ up => key > 0

(* Stop returns after one period and two commands at the most.              *)
StopIsBounded == stopping <= StopTime

(* A server that was stopped or died disappears from the pool and stays     *)
(* away, even though a write it gave up may be carried out after its DEL.   *)
GoneForGood == (phase = "done" \/ ~up) ~> [](key = 0)
=============================================================================
