--------------------------- MODULE ConnLifecycle ---------------------------
(***************************************************************************)
(* The connection core of the lobby server: the ConnUser objects, the      *)
(* AcceptQueue they wait in, the pool of OVERLAPPED objects, and the       *)
(* worker and accepter threads that move all three from one completion to  *)
(* the next (OutGameLobbyServer.cpp, ConnUser.h, OverLappedManager.cpp).   *)
(*                                                                         *)
(* One action is one whole handler: an iteration of AccepterThread, an     *)
(* iteration of WorkThread for one completion, or one call of PushSendMsg. *)
(* Any completion that is ready may be handled next, which is every        *)
(* interleaving of the worker threads at the grain of handlers; the steps  *)
(* inside PushSendMsg and SendComplete are interleaved in SendQueue.       *)
(*                                                                         *)
(* The kernel is external: AcceptEx, WSARecv, WSASend and closesocket are  *)
(* modelled by the completions the code can see.                           *)
(*                                                                         *)
(* An OVERLAPPED object is a name whose contents (taskType, connObjNum)    *)
(* live in ovl, because WorkThread decides what a completion means by      *)
(* reading the object when it dequeues it, not by what was posted.  The    *)
(* acceptOvlap member of connection c is named by c itself.                *)
(***************************************************************************)
EXTENDS Naturals, Sequences, FiniteSets, Functions

CONSTANTS
  MaxClientCount,  (* number of ConnUser objects                            *)
  PoolOvs,         (* objects OverLappedManager::init creates               *)
  HeapOvs,         (* memory PushSendMsg may obtain with new (bound)        *)
  MaxAcceptQueue,  (* clients connect only below this queue length (bound)  *)
  MaxSendCount,    (* messages counted by all sendQueueSize together (bound) *)
  MaxAlias         (* AcceptEx calls alive on one acceptOvlap (bound)       *)

Conns == 0 .. MaxClientCount - 1       (* values of connObjNum, and acceptOvlap *)
Ovs   == Conns \union PoolOvs \union HeapOvs

ASSUME ConnAssumption ==
  /\ MaxClientCount \in Nat \ {0}
  /\ PoolOvs \intersect HeapOvs = {}
  /\ Conns \intersect (PoolOvs \union HeapOvs) = {}
  /\ MaxAcceptQueue \in Nat /\ MaxSendCount \in Nat /\ MaxAlias \in Nat

VARIABLES
  acceptQueue,    (* AcceptQueue: connections waiting for AcceptEx          *)
  sock,           (* kernel state of each connection's current userSkt      *)
  ops,            (* overlapped operations the worker threads still owe     *)
  ovLapPool,      (* ovLapPool: how many times each object is in the pool   *)
  ovl,            (* contents of each OverlappedEx                          *)
  sendQueue,      (* ConnUser::sendQueue                                    *)
  sendQueueSize,  (* ConnUser::sendQueueSize, a uint16_t                    *)
  alive,          (* FALSE once the process has crashed                     *)
  strays,         (* history: acceptOvlap objects ever put into the pool    *)
  late,           (* history: receives a late completion posted, by socket  *)
  unread,         (* history: connections whose receive was not re-posted   *)
  lostSends       (* history: sends per connection with no SendComplete     *)

kernelVars == <<sock, ops>>
poolVars   == <<ovLapPool, ovl>>
sendVars   == <<sendQueue, sendQueueSize>>
history    == <<strays, late, unread, lostSends>>
vars == <<acceptQueue, kernelVars, poolVars, sendVars, alive, history>>

TaskTypes  == {"ACCEPT", "RECV", "SEND", "NEWSEND"}
SockStates == {"fresh", "listening", "connected", "gone"}

(* n tells apart operations that share one OVERLAPPED; stale marks those    *)
(* that were started on a socket the connection has since closed.           *)
Op == [ov : Ovs, n : 0 .. MaxAlias, conn : Conns, kind : {"ACCEPT", "RECV", "SEND"},
       st : {"pending", "ok", "fail"}, stale : BOOLEAN]

Zeroed == [taskType |-> "ACCEPT", connObjNum |-> 0]      (* ZeroMemory       *)
Free   == [taskType |-> "FREE", connObjNum |-> 0]        (* heap, not in use *)
Filled(type, c) == [taskType |-> type, connObjNum |-> c]

----------------------------------------------------------------------------
(* The overlapped pool and the posting of operations. *)

AvailableUnchecked == PoolOvs                                   (* mutant *)
Available == {p \in Ovs : ovLapPool[p] > 0}

TakeWithoutPop(p) == ovLapPool                                  (* mutant *)
Take(p) == [ovLapPool EXCEPT ![p] = @ - 1]

(* What WorkThread does with the object of a finished operation: delete it  *)
(* if it came from new, otherwise zero it and return it to the pool.        *)
FromNew(o) == ovl[o].taskType = "NEWSEND"
PoolAfter(pool, o)  == IF FromNew(o) THEN pool ELSE [pool EXCEPT ![o] = @ + 1]
OvlAfter(objs, o)   == [objs EXCEPT ![o] = IF FromNew(o) THEN Free ELSE Zeroed]
StraysAfter(o)      == IF FromNew(o) THEN strays ELSE strays \union ({o} \intersect Conns)

NewOp(p, n, c, kind) ==
  [ov |-> p, n |-> n, conn |-> c, kind |-> kind, st |-> "pending", stale |-> FALSE]

(* The operations after one more is started on object p. *)
Posted(p, c, kind, rest) ==
  {rest \union {NewOp(p, n, c, kind)} :
     n \in {m \in 0 .. MaxAlias :
              /\ \A o \in rest : o.ov = p => o.n # m
              /\ \A k \in 0 .. m - 1 : \E o \in rest : o.ov = p /\ o.n = k}}

CanStart(c)  == sock[c] \in {"connected", "gone"}
CanRefuse(c) == sock[c] # "connected"

(* ConnUserRecv: every result it can have.  The object it took from the     *)
(* pool is not given back when WSARecv fails; with an empty pool the object *)
(* it allocates is dropped and WSARecv is called through a null pointer,    *)
(* which fails (WSAEFAULT) or kills the process (CrashOnEmptyPool).         *)
RecvResult(ok, pool, objs, after) == [ok |-> ok, pool |-> pool, ovl |-> objs, ops |-> after]

RecvStarted(c, rest) ==
  UNION {{RecvResult(TRUE, Take(p), [ovl EXCEPT ![p] = Filled("RECV", c)], after) :
            after \in Posted(p, c, "RECV", rest)} : p \in {q \in Available : CanStart(c)}}

RecvRefused(c, rest) ==
  {RecvResult(FALSE, Take(p), [ovl EXCEPT ![p] = Filled("RECV", c)], rest) :
     p \in {q \in Available : CanRefuse(c)}}

RecvOnEmpty(rest) ==
  IF Available = {} THEN {RecvResult(FALSE, ovLapPool, ovl, rest)} ELSE {}

RecvResults(c, rest) ==
  RecvStarted(c, rest) \union RecvRefused(c, rest) \union RecvOnEmpty(rest)

(* The history of sends that get no SendComplete, like that of receives     *)
(* below, stops at the first stray.                                         *)
Lost(c, k) == IF strays = {} THEN [lostSends EXCEPT ![c] = @ + k] ELSE lostSends

(* A late completion, of a socket that c has closed since, is taken for one *)
(* of its present socket.  late[c] counts those that posted a receive on    *)
(* the present socket; it starts anew with each Reset.                      *)
LateAfter(c, k) == IF strays = {} THEN [late EXCEPT ![c] = k] ELSE late
IfLate(o) == IF o.stale THEN 1 ELSE 0

(* ProcSend: pop one object and WSASend it; a refused WSASend is ignored    *)
(* and the object is dropped.                                               *)
SendResult(queue, after, lost) == [queue |-> queue, ops |-> after, lost |-> lost]

ProcSend(c, queue, rest) ==
  IF queue = <<>> THEN {SendResult(queue, rest, 0)}
  ELSE (IF CanStart(c)
          THEN {SendResult(Tail(queue), after, 0) : after \in Posted(Head(queue), c, "SEND", rest)}
          ELSE {})
       \union
       (IF CanRefuse(c) THEN {SendResult(Tail(queue), rest, 1)} ELSE {})

CountModulus == 65536        (* sendQueueSize is a uint16_t *)

Incremented(n) == (n + 1) % CountModulus
NotDecremented(n) == n                                          (* mutant *)
Decremented(n) == (n + CountModulus - 1) % CountModulus

(* The part of PushSendMsg and SendComplete after the counter has moved to  *)
(* size: send the next message if and only if the counter is exactly 1.     *)
AfterCount(c, size, queue, rest) ==
  IF size = 1 THEN ProcSend(c, queue, rest) ELSE {SendResult(queue, rest, 0)}

(* ConnUser::Reset closes the socket, so what was pending on it fails.      *)
(* Neither the send queue, its counter nor the receive buffer is cleared.   *)
NotClosed(c, rest) == rest                                      (* mutant *)
Closed(c, rest) ==
  {IF o.conn = c
     THEN [o EXCEPT !.st = IF @ = "pending" THEN "fail" ELSE @, !.stale = TRUE]
     ELSE o : o \in rest}

----------------------------------------------------------------------------
(* StartWork: every object is in the pool, every connection in the queue.   *)
Init ==
  /\ acceptQueue   = [i \in 1 .. MaxClientCount |-> i - 1]
  /\ sock          = [c \in Conns |-> "fresh"]
  /\ ops           = {}
  /\ ovLapPool     = [o \in Ovs |-> IF o \in PoolOvs THEN 1 ELSE 0]
  /\ ovl           = [o \in Ovs |-> IF o \in HeapOvs THEN Free ELSE Zeroed]
  /\ sendQueue     = [c \in Conns |-> <<>>]
  /\ sendQueueSize = [c \in Conns |-> 0]
  /\ alive         = TRUE
  /\ strays        = {}
  /\ late          = [c \in Conns |-> 0]
  /\ unread        = {}
  /\ lostSends     = [c \in Conns |-> 0]

----------------------------------------------------------------------------
(* One iteration of AccepterThread.  AcceptEx is refused on a socket that   *)
(* already listens or is connected, and may be refused on a fresh one.      *)
PostAccept ==
  /\ alive
  /\ acceptQueue # <<>>
  /\ LET c == Head(acceptQueue)
     IN  /\ ovLapPool[c] + Cardinality({o \in ops : o.ov = c}) < MaxAlias
         /\ ovl' = [ovl EXCEPT ![c] = Filled("ACCEPT", c)]
         /\ \/ /\ sock[c] = "fresh"
               /\ sock' = [sock EXCEPT ![c] = "listening"]
               /\ ops' \in Posted(c, c, "ACCEPT", ops)
               /\ acceptQueue' = Tail(acceptQueue)
            \/ /\ acceptQueue' = Append(Tail(acceptQueue), c)
               /\ UNCHANGED kernelVars
  /\ UNCHANGED <<ovLapPool, sendVars, alive, history>>

----------------------------------------------------------------------------
(* The kernel and the peers. *)

Completes(o, st) == ops' = (ops \ {o}) \union {[o EXCEPT !.st = st]}

ClientConnects(o) ==
  /\ o.kind = "ACCEPT" /\ o.st = "pending"
  /\ Len(acceptQueue) < MaxAcceptQueue
  /\ Completes(o, "ok")
  /\ sock' = [sock EXCEPT ![o.conn] = "connected"]

ClientAborts(o) ==
  /\ o.kind = "ACCEPT" /\ o.st = "pending"
  /\ Len(acceptQueue) < MaxAcceptQueue
  /\ Completes(o, "fail")
  /\ sock' = [sock EXCEPT ![o.conn] = "gone"]

PeerCloses(c) ==
  /\ sock[c] = "connected"
  /\ sock' = [sock EXCEPT ![c] = "gone"]
  /\ UNCHANGED ops

TransferDone(o) ==
  /\ o.st = "pending"
  /\ \/ o.kind = "RECV" /\ sock[o.conn] = "connected"
     \/ o.kind = "SEND"
  /\ Completes(o, "ok")
  /\ UNCHANGED sock

TransferFails(o) ==
  /\ o.kind # "ACCEPT" /\ o.st = "pending" /\ sock[o.conn] = "gone"
  /\ Completes(o, "fail")
  /\ UNCHANGED sock

Kernel ==
  /\ alive
  /\ \/ \E o \in ops : ClientConnects(o) \/ ClientAborts(o) \/ TransferDone(o) \/ TransferFails(o)
     \/ \E c \in Conns : PeerCloses(c)
  /\ UNCHANGED <<acceptQueue, poolVars, sendVars, alive, history>>

----------------------------------------------------------------------------
(* WorkThread: one completion o, read through its OVERLAPPED object. *)

TaskOf(o) == ovl[o.ov].taskType
UserOf(o) == ovl[o.ov].connObjNum

Ready(o) == o.st # "pending"

(* !gqSucces, or no bytes and not an accept (an accept carries no bytes).   *)
DisconnectedOnAccept(o) == o.st = "fail" \/ o.kind = "ACCEPT"    (* mutant *)
Disconnected(o) == o.st = "fail" \/ (o.kind = "ACCEPT" /\ TaskOf(o) # "ACCEPT")

NotRequeued(c) == UNCHANGED acceptQueue                         (* mutant *)
Requeue(c) == acceptQueue' = Append(acceptQueue, c)

HandleDisconnect(o) ==
  LET c == UserOf(o)
  IN  /\ Ready(o) /\ Disconnected(o)
      /\ ovLapPool' = PoolAfter(ovLapPool, o.ov)
      /\ ovl' = OvlAfter(ovl, o.ov)
      /\ strays' = StraysAfter(o.ov)
      /\ ops' = Closed(c, ops \ {o})
      /\ sock' = [sock EXCEPT ![c] = "fresh"]
      /\ Requeue(c)
      /\ unread' = unread \ {c}
      /\ late' = LateAfter(c, 0)
      /\ lostSends' = Lost(c, IF TaskOf(o) \in {"SEND", "NEWSEND"} THEN 1 ELSE 0)
      /\ UNCHANGED <<sendVars, alive>>

HandleAccept(o) ==
  LET c == UserOf(o)
  IN  /\ Ready(o) /\ ~Disconnected(o) /\ TaskOf(o) = "ACCEPT"
      /\ \E r \in RecvResults(c, ops \ {o}) :
           /\ ovLapPool' = r.pool
           /\ ovl' = r.ovl
           /\ \/ /\ r.ok
                 /\ ops' = r.ops
                 /\ late' = LateAfter(c, late[c] + IfLate(o))
                 /\ UNCHANGED <<sock, acceptQueue, unread>>
              \/ /\ ~r.ok
                 /\ ops' = Closed(c, r.ops)
                 /\ sock' = [sock EXCEPT ![c] = "fresh"]
                 /\ Requeue(c)
                 /\ late' = LateAfter(c, 0)
                 /\ unread' = unread \ {c}
      /\ UNCHANGED <<sendVars, alive, strays, lostSends>>

(* The next receive is posted before the finished object is returned, and   *)
(* its result is ignored.                                                   *)
HandleRecv(o) ==
  LET c == UserOf(o)
  IN  /\ Ready(o) /\ ~Disconnected(o) /\ TaskOf(o) = "RECV"
      /\ \E r \in RecvResults(c, ops \ {o}) :
           /\ ops' = r.ops
           /\ ovLapPool' = PoolAfter(r.pool, o.ov)
           /\ ovl' = OvlAfter(r.ovl, o.ov)
           /\ late' = IF r.ok THEN LateAfter(c, late[c] + IfLate(o)) ELSE late
           /\ unread' = IF r.ok THEN unread ELSE unread \union {c}
      /\ strays' = StraysAfter(o.ov)
      /\ UNCHANGED <<acceptQueue, sock, sendVars, alive, lostSends>>

HandleSend(o) ==
  LET c == UserOf(o)
      size == Decremented(sendQueueSize[c])
  IN  /\ Ready(o) /\ ~Disconnected(o) /\ TaskOf(o) \in {"SEND", "NEWSEND"}
      /\ ovLapPool' = PoolAfter(ovLapPool, o.ov)
      /\ ovl' = OvlAfter(ovl, o.ov)
      /\ strays' = StraysAfter(o.ov)
      /\ sendQueueSize' = [sendQueueSize EXCEPT ![c] = size]
      /\ \E r \in AfterCount(c, size, sendQueue[c], ops \ {o}) :
           /\ ops' = r.ops
           /\ sendQueue' = [sendQueue EXCEPT ![c] = r.queue]
           /\ lostSends' = Lost(c, r.lost)
      /\ UNCHANGED <<acceptQueue, sock, alive, unread, late>>

(* ConnUserRecv with an empty pool passes &nullptr->wsaBuf to WSARecv. *)
CrashOnEmptyPool(o) ==
  /\ Ready(o) /\ ~Disconnected(o) /\ TaskOf(o) \in {"ACCEPT", "RECV"}
  /\ Available = {}
  /\ alive' = FALSE
  /\ UNCHANGED <<acceptQueue, kernelVars, poolVars, sendVars, history>>

WorkThread ==
  /\ alive
  /\ \E o \in ops :
       \/ HandleDisconnect(o) \/ HandleAccept(o) \/ HandleRecv(o)
       \/ HandleSend(o) \/ CrashOnEmptyPool(o)

----------------------------------------------------------------------------
(* PushSendMsg, called by a redis or subscriber thread for any connection   *)
(* number and at any time: SendFriendStatusToUser does not ask whether the  *)
(* connection is in use.                                                    *)
PushSendMsg(c) ==
  /\ alive
  /\ FoldFunction(+, 0, sendQueueSize) < MaxSendCount
  /\ \E p \in Ovs :
       /\ \/ /\ p \in Available
             /\ ovLapPool' = Take(p)
             /\ ovl' = [ovl EXCEPT ![p] = Filled("SEND", c)]
          \/ /\ Available = {}
             /\ p \in HeapOvs /\ ovl[p] = Free
             /\ ovl' = [ovl EXCEPT ![p] = Filled("NEWSEND", c)]
             /\ UNCHANGED ovLapPool
       /\ sendQueueSize' = [sendQueueSize EXCEPT ![c] = Incremented(@)]
       /\ \E r \in AfterCount(c, Incremented(sendQueueSize[c]), Append(sendQueue[c], p), ops) :
            /\ ops' = r.ops
            /\ sendQueue' = [sendQueue EXCEPT ![c] = r.queue]
            /\ lostSends' = Lost(c, r.lost)
  /\ UNCHANGED <<acceptQueue, sock, alive, strays, late, unread>>

----------------------------------------------------------------------------
Next ==
  \/ PostAccept
  \/ Kernel
  \/ WorkThread
  \/ \E c \in Conns : PushSendMsg(c)

Spec == Init /\ [][Next]_vars

----------------------------------------------------------------------------
TypeOK ==
  /\ acceptQueue \in Seq(Conns)
  /\ sock \in [Conns -> SockStates]
  /\ ops \subseteq Op
  /\ ovLapPool \in [Ovs -> Nat]
  /\ ovl \in [Ovs -> [taskType : TaskTypes \union {"FREE"}, connObjNum : Conns]]
  /\ sendQueue \in [Conns -> Seq(Ovs)]
  /\ sendQueueSize \in [Conns -> 0 .. CountModulus - 1]
  /\ alive \in BOOLEAN
  /\ strays \subseteq Conns
  /\ late \in [Conns -> Nat]
  /\ unread \subseteq Conns
  /\ lostSends \in [Conns -> Nat]

(* No OVERLAPPED object that OverLappedManager::init or PushSendMsg created *)
(* is ever in two places: it is not in the pool twice, not in the pool while *)
(* queued or in an operation, not in two operations, not queued twice.  A    *)
(* violation is a double return, a use after delete, or two connections     *)
(* sharing one buffer.                                                      *)
OverlappedOwned ==
  \A o \in PoolOvs \union HeapOvs :
    LET inOps  == \E p \in ops : p.ov = o
        queued == \E c \in Conns : \E i \in DOMAIN sendQueue[c] : sendQueue[c][i] = o
    IN  /\ ovLapPool[o] <= 1
        /\ ovLapPool[o] = 1 => ~inOps /\ ~queued
        /\ inOps => ~queued
        /\ \A p, q \in ops : p.ov = o /\ q.ov = o => p = q
        /\ \A c, d \in Conns : \A i \in DOMAIN sendQueue[c], j \in DOMAIN sendQueue[d] :
             sendQueue[c][i] = o /\ sendQueue[d][j] = o => c = d /\ i = j

(* No slot is lost: while no embedded acceptOvlap has strayed into the pool *)
(* every connection waits in AcceptQueue, perhaps more than once, or has an *)
(* accept or a receive that is under way or waits for a worker, unless the  *)
(* re-post of its receive failed and was ignored.  Sends do not count: a    *)
(* worker that completes one neither queues the connection nor reads it.    *)
SlotAccounted ==
  strays = {} =>
    \A c \in Conns :
      \/ \E i \in DOMAIN acceptQueue : acceptQueue[i] = c
      \/ \E o \in ops : o.conn = c /\ o.kind # "SEND"
      \/ c \in unread

(* sendQueueSize counts exactly the queued messages, the sends in the       *)
(* kernel or awaiting SendComplete, and those that failed without one.      *)
SendsOf(c) == {o \in ops : o.kind = "SEND" /\ o.conn = c}
SendAccounting ==
  strays = {} =>
    \A c \in Conns :
      sendQueueSize[c] = (Len(sendQueue[c]) + Cardinality(SendsOf(c)) + lostSends[c]) % CountModulus

(* A socket has one receive at most, and one more for each late completion  *)
(* that posted a receive on it: workers that meet completions of a closed   *)
(* socket, handle them after Reset and post the next receive on whatever    *)
(* socket the connection has by then.  Nothing else doubles a receive:      *)
(* neither a connection queued twice nor a receive posted anew.             *)
RecvsOf(c) == {o \in ops : o.kind = "RECV" /\ o.conn = c /\ ~o.stale}
RecvsPerSocket ==
  strays = {} => \A c \in Conns : Cardinality(RecvsOf(c)) <= 1 + late[c]

(* A client that has not gone away keeps its connection: a live session is   *)
(* cut only when a completion of an earlier session is handled late, when    *)
(* an acceptOvlap has strayed, or when the overlapped pool is empty.         *)
LiveSessionKept ==
  [][\A c \in Conns :
       sock[c] = "connected" /\ sock'[c] # "connected" =>
         \/ sock'[c] = "gone"
         \/ \E o \in ops \ ops' : o.conn = c /\ o.stale
         \/ strays # {} \/ Available = {}]_vars

(* Only objects taken from the pool are returned to it                      *)
(* (OutGameLobbyServer.cpp:188).                                            *)
OnlyPoolObjectsReturned == \A o \in Ovs \ PoolOvs : ovLapPool[o] = 0
============================================================================
