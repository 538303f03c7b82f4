----------------------------- MODULE SendQueue -----------------------------
(***************************************************************************)
(* The send path of one ConnUser at the grain of its atomic operations     *)
(* (ConnUser.h, PushSendMsg, SendComplete and ProcSend).  Several threads  *)
(* call PushSendMsg while worker threads run SendComplete; they share      *)
(* sendQueue, a lock-free queue, and sendQueueSize, an atomic counter, and *)
(* no lock joins a step on the one to the step on the other.               *)
(*                                                                         *)
(* Messages are numbered in the order PushSendMsg puts them in the queue.  *)
(* The kernel is external: a WSASend is taken or refused, and one that was *)
(* taken completes or fails at some later time, in any order.  What else   *)
(* WorkThread does when an operation fails is in ConnLifecycle; none of it *)
(* touches sendQueue or sendQueueSize, which Reset leaves as they are.     *)
(***************************************************************************)
EXTENDS Naturals, Sequences, FiniteSets

CONSTANTS
  Senders,      (* threads that call PushSendMsg                            *)
  Workers,      (* worker threads, which call SendComplete                  *)
  MaxMsgs,      (* calls of PushSendMsg (bound)                             *)
  MaxFailed     (* sends that are refused or fail (bound)                   *)

ASSUME SendAssumption ==
  /\ Senders \intersect Workers = {}
  /\ MaxMsgs \in Nat /\ MaxFailed \in Nat
  /\ IsFiniteSet(Senders) /\ IsFiniteSet(Workers)

CountModulus == 65536        (* sendQueueSize is a uint16_t *)

VARIABLES
  pc,             (* where each thread is in the code it runs               *)
  held,           (* the message a thread popped and has not sent yet, or 0 *)
  pushed,         (* how many messages have been pushed                     *)
  sendQueue,      (* ConnUser::sendQueue                                    *)
  sendQueueSize,  (* ConnUser::sendQueueSize                                *)
  inFlight,       (* WSASend taken, completion not dequeued yet             *)
  sent,           (* history: completed sends                               *)
  failed          (* history: sends refused by WSASend or completed in error  *)

vars == <<pc, held, pushed, sendQueue, sendQueueSize, inFlight, sent, failed>>

Threads == Senders \union Workers
Msgs    == 1 .. pushed

Init ==
  /\ pc = [t \in Threads |-> "idle"]
  /\ held = [t \in Threads |-> 0]
  /\ pushed = 0
  /\ sendQueue = <<>>
  /\ sendQueueSize = 0
  /\ inFlight = {}
  /\ sent = {}
  /\ failed = {}

Goto(t, at) == pc' = [pc EXCEPT ![t] = at]

----------------------------------------------------------------------------
(* PushSendMsg: push the message, then count it, then look at the count. *)

Push(t) ==
  /\ t \in Senders /\ pc[t] = "idle" /\ pushed < MaxMsgs
  /\ pushed' = pushed + 1
  /\ sendQueue' = Append(sendQueue, pushed')
  /\ Goto(t, "count")
  /\ UNCHANGED <<held, sendQueueSize, inFlight, sent, failed>>

Incremented(n) == (n + 1) % CountModulus

Count(t) ==
  /\ pc[t] = "count"
  /\ sendQueueSize' = Incremented(sendQueueSize)
  /\ Goto(t, "test")
  /\ UNCHANGED <<held, pushed, sendQueue, inFlight, sent, failed>>

----------------------------------------------------------------------------
(* A worker dequeues the completion of a send and calls SendComplete:       *)
(* discount it, then look at the count.                                     *)

Complete(t) ==
  /\ t \in Workers /\ pc[t] = "idle"
  /\ \E m \in inFlight :
       /\ inFlight' = inFlight \ {m}
       /\ sent' = sent \union {m}
  /\ Goto(t, "discount")
  /\ UNCHANGED <<held, pushed, sendQueue, sendQueueSize, failed>>

(* The completion of a send that failed: WorkThread takes the connection    *)
(* for disconnected and goes on without SendComplete, so the message is     *)
(* lost and stays counted.                                                  *)
Fail(t) ==
  /\ t \in Workers /\ pc[t] = "idle" /\ Cardinality(failed) < MaxFailed
  /\ \E m \in inFlight :
       /\ inFlight' = inFlight \ {m}
       /\ failed' = failed \union {m}
  /\ UNCHANGED <<pc, held, pushed, sendQueue, sendQueueSize, sent>>

DecrementedBelowZero(n) == n - 1                                (* mutant *)
NotDecremented(n) == n                                          (* mutant *)
Decremented(n) == (n + CountModulus - 1) % CountModulus

Discount(t) ==
  /\ pc[t] = "discount"
  /\ sendQueueSize' = Decremented(sendQueueSize)
  /\ Goto(t, "test")
  /\ UNCHANGED <<held, pushed, sendQueue, inFlight, sent, failed>>

----------------------------------------------------------------------------
(* The tail both share: the count is loaded again, in a step of its own,    *)
(* and ProcSend runs when it is exactly one.                                *)

SendsWhenZero(n) == n = 0                                       (* mutant *)
SendsWhenAny(n)  == n > 0                                       (* mutant *)
SendsNext(n)     == n = 1

Test(t) ==
  /\ pc[t] = "test"
  /\ Goto(t, IF SendsNext(sendQueueSize) THEN "pop" ELSE "idle")
  /\ UNCHANGED <<held, pushed, sendQueue, sendQueueSize, inFlight, sent, failed>>

LeftInPlace(queue) == queue                                     (* mutant *)
Popped(queue) == Tail(queue)

Pop(t) ==
  /\ pc[t] = "pop"
  /\ \/ /\ sendQueue = <<>>
        /\ Goto(t, "idle")
        /\ UNCHANGED <<held, sendQueue>>
     \/ /\ sendQueue # <<>>
        /\ held' = [held EXCEPT ![t] = Head(sendQueue)]
        /\ sendQueue' = Popped(sendQueue)
        /\ Goto(t, "send")
  /\ UNCHANGED <<pushed, sendQueueSize, inFlight, sent, failed>>

(* The result of WSASend is stored in sCheck and never looked at. *)
Send(t) ==
  /\ pc[t] = "send"
  /\ \/ /\ inFlight' = inFlight \union {held[t]}
        /\ UNCHANGED failed
     \/ /\ Cardinality(failed) < MaxFailed
        /\ failed' = failed \union {held[t]}
        /\ UNCHANGED inFlight
  /\ held' = [held EXCEPT ![t] = 0]
  /\ Goto(t, "idle")
  /\ UNCHANGED <<pushed, sendQueue, sendQueueSize, sent>>

Running(t) == Count(t) \/ Discount(t) \/ Test(t) \/ Pop(t) \/ Send(t)

(* A worker gets a completion from GetQueuedCompletionStatus. *)
Dequeue(t) == Complete(t) \/ Fail(t)

Next == \E t \in Threads : Push(t) \/ Dequeue(t) \/ Running(t)

Spec == Init /\ [][Next]_vars

(* A thread that has entered PushSendMsg or SendComplete is scheduled until *)
(* it returns, and the kernel finishes the sends it took while some worker  *)
(* waits in GetQueuedCompletionStatus.  Nobody is obliged to push.          *)
Fairness == \A t \in Threads : WF_vars(Running(t)) /\ WF_vars(Dequeue(t))

FairSpec == Spec /\ Fairness

----------------------------------------------------------------------------
TypeOK ==
  /\ pc \in [Threads -> {"idle", "count", "discount", "test", "pop", "send"}]
  /\ held \in [Threads -> 0 .. pushed]
  /\ pushed \in 0 .. MaxMsgs
  /\ sendQueue \in Seq(Msgs)
  /\ sendQueueSize \in 0 .. CountModulus - 1
  /\ inFlight \subseteq Msgs
  /\ sent \subseteq Msgs
  /\ failed \subseteq Msgs

At(step) == {t \in Threads : pc[t] = step}

(* Every message PushSendMsg accepted is in exactly one place, whichever    *)
(* threads pop and send at once: queued once, in the hands of one thread,   *)
(* in the kernel, sent, or lost because its send was refused or failed.  So *)
(* none is sent twice and none is forgotten by ProcSend.                    *)
EachOnce ==
  \A m \in Msgs :
      Cardinality({i \in DOMAIN sendQueue : sendQueue[i] = m})
    + Cardinality({t \in At("send") : held[t] = m})
    + Cardinality({k \in 1 .. 3 : m \in <<inFlight, sent, failed>>[k]}) = 1

(* sendQueueSize is, modulo its width, the messages that were pushed, less  *)
(* those not counted yet and those already discounted by SendComplete; a    *)
(* send that failed, at WSASend or later, stays counted for ever.  It is    *)
(* not the queue's length, and it passes below zero when a send completes   *)
(* before its own Count.                                                    *)
CounterExact ==
  (sendQueueSize + Cardinality(At("count")) + Cardinality(sent)) % CountModulus
    = (pushed + Cardinality(At("discount"))) % CountModulus

Quiet == \A t \in Threads : pc[t] = "idle"

(* While no send fails, one message alone is never left behind: when every  *)
(* call has returned and nothing is in the kernel, the queue does not hold  *)
(* exactly one message.  Whoever brought the counter to one looks at it     *)
(* afterwards.  A send that was refused or failed stays counted, and the    *)
(* message behind it does wait.                                             *)
LoneMessageNeverStuck ==
  Quiet /\ inFlight = {} /\ failed = {} => Len(sendQueue) # 1

(* Stuck: messages wait and nobody is left who would send one. *)
Stuck ==
  /\ sendQueue # <<>> /\ sendQueueSize > 1
  /\ inFlight = {}
  /\ \A t \in Threads : pc[t] \in {"idle", "count", "test"}

(* A stuck connection does not recover: later calls of PushSendMsg only add *)
(* to the queue, until 2^16 of them have wrapped the counter.               *)
StuckForGood == [][Stuck /\ sendQueueSize + 1 < CountModulus => Stuck']_vars

(* The only ways to lose a message: every pushed message is sent, unless    *)
(* its own send is refused or fails, or the connection gets stuck.          *)
SentFailedOrStuck ==
  \A m \in 1 .. MaxMsgs :
    (m \in Msgs) ~> (m \in sent \/ m \in failed \/ Stuck)

(* What "Push Send Msg To User" (ConnUser.h:194 and 204) says of a message  *)
(* while no send is refused or fails: it reaches the user.                  *)
EveryPushedIsSent ==
  \A m \in 1 .. MaxMsgs : (m \in Msgs) ~> (m \in sent)
============================================================================
