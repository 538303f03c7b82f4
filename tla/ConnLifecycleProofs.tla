------------------------ MODULE ConnLifecycleProofs ------------------------
(***************************************************************************)
(* Proofs about ConnLifecycle, for every number of connections and of      *)
(* overlapped objects and whatever the bounds, in three parts:             *)
(*   1. types;                                                             *)
(*   2. ownership: every overlapped object has one owner;                  *)
(*   3. sessions: while no acceptOvlap has strayed, what every completion, *)
(*      counter and slot has to do with the connection it is taken for.    *)
(***************************************************************************)
EXTENDS ConnLifecycle, FiniteSetTheorems, TLAPS

(***************************************************************************)
(* 1. Types.                                                               *)
(***************************************************************************)
Contents == [taskType : TaskTypes \union {"FREE"}, connObjNum : Conns]

LEMMA Zero == 0 \in Conns /\ Zeroed \in Contents /\ Free \in Contents
  BY ConnAssumption DEF Conns, Contents, Zeroed, Free, TaskTypes

LEMMA ConnsAreOvs == Conns \subseteq Ovs /\ PoolOvs \subseteq Ovs /\ HeapOvs \subseteq Ovs
  BY DEF Ovs

LEMMA FilledType ==
  ASSUME NEW c \in Conns, NEW type \in TaskTypes
  PROVE  Filled(type, c) \in Contents
  BY DEF Filled, Contents

LEMMA Modulus == CountModulus \in Nat /\ CountModulus > 1
  BY SMT DEF CountModulus

LEMMA CounterType ==
  ASSUME NEW n \in 0 .. CountModulus - 1
  PROVE  /\ Incremented(n) \in 0 .. CountModulus - 1
         /\ Decremented(n) \in 0 .. CountModulus - 1
  BY Modulus, SMT DEF Incremented, Decremented

----------------------------------------------------------------------------
(* What the helpers return. *)

Kinds == {"ACCEPT", "RECV", "SEND"}

LEMMA PostedFresh ==
  ASSUME NEW p, NEW c, NEW kind, NEW rest, NEW after \in Posted(p, c, kind, rest)
  PROVE  \E n \in 0 .. MaxAlias :
           after = rest \union {NewOp(p, n, c, kind)} /\ \A o \in rest : o.ov = p => o.n # n
  BY DEF Posted

LEMMA PostedType ==
  ASSUME NEW p \in Ovs, NEW c \in Conns, NEW kind \in Kinds, NEW rest \in SUBSET Op,
         NEW after \in Posted(p, c, kind, rest)
  PROVE  /\ after \in SUBSET Op
         /\ \E n \in 0 .. MaxAlias : after = rest \union {NewOp(p, n, c, kind)}
  <1>1. PICK n \in 0 .. MaxAlias : after = rest \union {NewOp(p, n, c, kind)}
    BY DEF Posted
  <1>2. NewOp(p, n, c, kind) \in Op
    BY DEF NewOp, Op, Kinds
  <1> QED
    BY <1>1, <1>2

LEMMA ClosedType ==
  ASSUME NEW c \in Conns, NEW rest \in SUBSET Op
  PROVE  Closed(c, rest) \in SUBSET Op
  BY DEF Closed, Op

LEMMA TakeType ==
  ASSUME ovLapPool \in [Ovs -> Nat], NEW p \in Available
  PROVE  Take(p) \in [Ovs -> Nat] /\ p \in Ovs
  BY DEF Take, Available

(* A receive is started with an object from the pool; or the object is      *)
(* taken and lost; or, with an empty pool, nothing changes.                 *)
LEMMA RecvCases ==
  ASSUME NEW c, NEW rest, NEW r \in RecvResults(c, rest)
  PROVE  \/ \E p \in Available : \E after \in Posted(p, c, "RECV", rest) :
               r = RecvResult(TRUE, Take(p), [ovl EXCEPT ![p] = Filled("RECV", c)], after)
         \/ \E p \in Available :
               r = RecvResult(FALSE, Take(p), [ovl EXCEPT ![p] = Filled("RECV", c)], rest)
         \/ Available = {} /\ r = RecvResult(FALSE, ovLapPool, ovl, rest)
  <1>1. CASE r \in RecvStarted(c, rest)
    BY <1>1 DEF RecvStarted
  <1>2. CASE r \in RecvRefused(c, rest)
    BY <1>2 DEF RecvRefused
  <1>3. CASE r \in RecvOnEmpty(rest)
    BY <1>3 DEF RecvOnEmpty
  <1> QED
    BY <1>1, <1>2, <1>3 DEF RecvResults

LEMMA RecvType ==
  ASSUME TypeOK, NEW c \in Conns, NEW rest \in SUBSET Op, NEW r \in RecvResults(c, rest)
  PROVE  /\ r.ok \in BOOLEAN
         /\ r.pool \in [Ovs -> Nat]
         /\ r.ovl \in [Ovs -> Contents]
         /\ r.ops \in SUBSET Op
  <1> DEFINE filled(p) == [ovl EXCEPT ![p] = Filled("RECV", c)]
  <1>1. ovl \in [Ovs -> Contents] /\ ovLapPool \in [Ovs -> Nat]
    BY DEF TypeOK, Contents
  <1>2. ASSUME NEW p \in Available
        PROVE  p \in Ovs /\ Take(p) \in [Ovs -> Nat] /\ filled(p) \in [Ovs -> Contents]
    <2>1. Filled("RECV", c) \in Contents
      BY FilledType DEF TaskTypes
    <2> QED
      BY <1>1, <1>2, <2>1, TakeType
  <1>3. CASE \E p \in Available : \E after \in Posted(p, c, "RECV", rest) :
               r = RecvResult(TRUE, Take(p), filled(p), after)
    <2>0. PICK p \in Available : \E after \in Posted(p, c, "RECV", rest) :
               r = RecvResult(TRUE, Take(p), filled(p), after)
      BY <1>3
    <2>1. PICK after \in Posted(p, c, "RECV", rest) :
               r = RecvResult(TRUE, Take(p), filled(p), after)
      BY <2>0
    <2>2. after \in SUBSET Op
      BY <1>2, PostedType DEF Kinds
    <2> QED
      BY <1>2, <2>1, <2>2 DEF RecvResult
  <1>4. CASE \E p \in Available : r = RecvResult(FALSE, Take(p), filled(p), rest)
    BY <1>2, <1>4 DEF RecvResult
  <1>5. CASE r = RecvResult(FALSE, ovLapPool, ovl, rest)
    BY <1>1, <1>5 DEF RecvResult
  <1>6. \/ \E p \in Available : \E after \in Posted(p, c, "RECV", rest) :
               r = RecvResult(TRUE, Take(p), filled(p), after)
        \/ \E p \in Available : r = RecvResult(FALSE, Take(p), filled(p), rest)
        \/ r = RecvResult(FALSE, ovLapPool, ovl, rest)
    BY RecvCases
  <1> QED
    BY <1>3, <1>4, <1>5, <1>6

(* ProcSend either leaves everything, or moves the head of the queue into   *)
(* an operation, or drops it.                                               *)
LEMMA SendCases ==
  ASSUME NEW c \in Conns, NEW queue \in Seq(Ovs), NEW rest \in SUBSET Op, NEW size,
         NEW r \in AfterCount(c, size, queue, rest)
  PROVE  \/ r = SendResult(queue, rest, 0)
         \/ /\ queue # <<>>
            /\ \/ \E after \in Posted(Head(queue), c, "SEND", rest) :
                    r = SendResult(Tail(queue), after, 0)
               \/ r = SendResult(Tail(queue), rest, 1)
  BY DEF AfterCount, ProcSend

LEMMA SendType ==
  ASSUME NEW c \in Conns, NEW queue \in Seq(Ovs), NEW rest \in SUBSET Op, NEW size,
         NEW r \in AfterCount(c, size, queue, rest)
  PROVE  /\ r.queue \in Seq(Ovs)
         /\ r.ops \in SUBSET Op
         /\ r.lost \in {0, 1}
  <1>1. CASE r = SendResult(queue, rest, 0)
    BY <1>1 DEF SendResult
  <1>2. ASSUME queue # <<>> PROVE Head(queue) \in Ovs /\ Tail(queue) \in Seq(Ovs)
    BY <1>2
  <1>3. ASSUME queue # <<>>, NEW after \in Posted(Head(queue), c, "SEND", rest),
               r = SendResult(Tail(queue), after, 0)
        PROVE  r.queue \in Seq(Ovs) /\ r.ops \in SUBSET Op /\ r.lost \in {0, 1}
    <2>1. after \in SUBSET Op
      BY <1>2, <1>3, PostedType DEF Kinds
    <2> QED
      BY <1>2, <1>3, <2>1 DEF SendResult
  <1>4. ASSUME queue # <<>>, r = SendResult(Tail(queue), rest, 1)
        PROVE  r.queue \in Seq(Ovs) /\ r.ops \in SUBSET Op /\ r.lost \in {0, 1}
    BY <1>2, <1>4 DEF SendResult
  <1> QED
    BY <1>1, <1>3, <1>4, SendCases

LEMMA LostType ==
  ASSUME TypeOK, NEW c \in Conns, NEW k \in {0, 1}
  PROVE  Lost(c, k) \in [Conns -> Nat]
  BY DEF TypeOK, Lost

LEMMA AfterType ==
  ASSUME NEW pool \in [Ovs -> Nat], NEW objs \in [Ovs -> Contents], NEW o \in Ovs,
         strays \subseteq Conns
  PROVE  /\ PoolAfter(pool, o) \in [Ovs -> Nat]
         /\ OvlAfter(objs, o) \in [Ovs -> Contents]
         /\ StraysAfter(o) \subseteq Conns
  BY Zero DEF PoolAfter, OvlAfter, StraysAfter

LEMMA QueueType ==
  ASSUME acceptQueue \in Seq(Conns), acceptQueue # <<>>
  PROVE  Head(acceptQueue) \in Conns /\ Tail(acceptQueue) \in Seq(Conns)
  OBVIOUS

----------------------------------------------------------------------------
(* Type correctness, one lemma per group of actions. *)

LEMMA InitType == Init => TypeOK
  <1> SUFFICES ASSUME Init PROVE TypeOK
    OBVIOUS
  <1>1. acceptQueue \in Seq(Conns)
    <2>1. acceptQueue = [i \in 1 .. MaxClientCount |-> i - 1]
      BY DEF Init
    <2>2. \A i \in 1 .. MaxClientCount : i - 1 \in Conns
      BY ConnAssumption DEF Conns
    <2> QED
      BY <2>1, <2>2, ConnAssumption
  <1>2. ovLapPool \in [Ovs -> Nat] /\ ovl \in [Ovs -> Contents]
    BY Zero DEF Init
  <1>3. sendQueueSize \in [Conns -> 0 .. CountModulus - 1]
    BY Modulus DEF Init
  <1>4. sendQueue \in [Conns -> Seq(Ovs)] /\ lostSends \in [Conns -> Nat]
    BY DEF Init
  <1>5. /\ sock \in [Conns -> SockStates] /\ ops \subseteq Op
        /\ alive \in BOOLEAN /\ late \in [Conns -> Nat]
        /\ strays \subseteq Conns /\ unread \subseteq Conns
    BY DEF Init, SockStates
  <1> QED
    BY <1>1, <1>2, <1>3, <1>4, <1>5 DEF TypeOK, Contents

LEMMA PostAcceptType == TypeOK /\ PostAccept => TypeOK'
  <1> SUFFICES ASSUME TypeOK, PostAccept PROVE TypeOK'
    OBVIOUS
  <1> DEFINE c == Head(acceptQueue)
  <1>1. acceptQueue \in Seq(Conns) /\ acceptQueue # <<>>
    BY DEF PostAccept, TypeOK
  <1>2. c \in Conns /\ c \in Ovs /\ Tail(acceptQueue) \in Seq(Conns)
    BY <1>1, QueueType, ConnsAreOvs
  <1>3. ovl' \in [Ovs -> Contents]
    <2>1. Filled("ACCEPT", c) \in Contents
      BY <1>2, FilledType DEF TaskTypes
    <2>2. ovl' = [ovl EXCEPT ![c] = Filled("ACCEPT", c)]
      BY DEF PostAccept
    <2> QED
      BY <1>2, <2>1, <2>2 DEF TypeOK, Contents
  <1>4. acceptQueue' \in Seq(Conns)
    <2>1. acceptQueue' \in {Tail(acceptQueue), Append(Tail(acceptQueue), c)}
      BY DEF PostAccept
    <2> QED
      BY <1>2, <2>1
  <1>5. sock' \in [Conns -> SockStates]
    BY DEF PostAccept, TypeOK, SockStates, kernelVars
  <1>6. ops' \subseteq Op
    <2>1. ops' = ops \/ ops' \in Posted(c, c, "ACCEPT", ops)
      BY DEF PostAccept, kernelVars
    <2>2. ops \in SUBSET Op
      BY DEF TypeOK
    <2> QED
      BY <1>2, <2>1, <2>2, PostedType DEF Kinds
  <1>7. UNCHANGED <<ovLapPool, sendVars, alive, history>>
    BY DEF PostAccept
  <1> QED
    BY <1>3, <1>4, <1>5, <1>6, <1>7 DEF TypeOK, Contents, sendVars, history

LEMMA KernelType == TypeOK /\ Kernel => TypeOK'
  <1> SUFFICES ASSUME TypeOK, Kernel PROVE TypeOK'
    OBVIOUS
  <1>1. ops \subseteq Op /\ sock \in [Conns -> SockStates]
    BY DEF TypeOK
  <1>2. ASSUME NEW o \in ops, NEW st \in {"ok", "fail"}, Completes(o, st) PROVE ops' \subseteq Op
    BY <1>1, <1>2 DEF Completes, Op
  <1>3. ASSUME NEW o \in ops PROVE o.conn \in Conns
    BY <1>1 DEF Op
  <1>4. ASSUME NEW o \in ops,
               ClientConnects(o) \/ ClientAborts(o) \/ TransferDone(o) \/ TransferFails(o)
        PROVE  ops' \subseteq Op /\ sock' \in [Conns -> SockStates]
    <2>1. CASE ClientConnects(o)
      BY <1>1, <1>2, <1>3, <2>1 DEF ClientConnects, SockStates
    <2>2. CASE ClientAborts(o)
      BY <1>1, <1>2, <1>3, <2>2 DEF ClientAborts, SockStates
    <2>3. CASE TransferDone(o)
      BY <1>1, <1>2, <2>3 DEF TransferDone
    <2>4. CASE TransferFails(o)
      BY <1>1, <1>2, <2>4 DEF TransferFails
    <2> QED
      BY <1>4, <2>1, <2>2, <2>3, <2>4
  <1>5. ASSUME NEW c \in Conns, PeerCloses(c)
        PROVE  ops' \subseteq Op /\ sock' \in [Conns -> SockStates]
    BY <1>1, <1>5 DEF PeerCloses, SockStates
  <1>6. ops' \subseteq Op /\ sock' \in [Conns -> SockStates]
    BY <1>4, <1>5 DEF Kernel
  <1>7. UNCHANGED <<acceptQueue, poolVars, sendVars, alive, history>>
    BY DEF Kernel
  <1> QED
    BY <1>6, <1>7 DEF TypeOK, poolVars, sendVars, history

LEMMA LateType ==
  ASSUME TypeOK, NEW o, o.stale \in BOOLEAN, UserOf(o) \in Conns,
         \/ HandleDisconnect(o) \/ HandleAccept(o) \/ HandleRecv(o)
         \/ HandleSend(o) \/ CrashOnEmptyPool(o)
  PROVE  late' \in [Conns -> Nat]
  <1> DEFINE c == UserOf(o)
             k == late[c] + IfLate(o)
  <1>1. late \in [Conns -> Nat] /\ c \in Conns
    BY DEF TypeOK
  <1>2. k \in Nat
    BY <1>1 DEF IfLate
  <1>3. late' = late \/ late' = LateAfter(c, 0) \/ late' = LateAfter(c, k)
    BY DEF HandleDisconnect, HandleAccept, HandleRecv, HandleSend, CrashOnEmptyPool, history
  <1> HIDE DEF c, k
  <1> QED
    BY <1>1, <1>2, <1>3 DEF LateAfter

LEMMA WorkThreadType == TypeOK /\ WorkThread => TypeOK'
  <1> SUFFICES ASSUME TypeOK, alive,
                      NEW o \in ops,
                      \/ HandleDisconnect(o) \/ HandleAccept(o) \/ HandleRecv(o)
                      \/ HandleSend(o) \/ CrashOnEmptyPool(o)
               PROVE  TypeOK'
    BY DEF WorkThread
  <1> DEFINE c == UserOf(o)
             rest == ops \ {o}
  <1>1. /\ ovLapPool \in [Ovs -> Nat] /\ ovl \in [Ovs -> Contents]
        /\ ops \subseteq Op /\ sock \in [Conns -> SockStates]
        /\ acceptQueue \in Seq(Conns) /\ strays \subseteq Conns
        /\ sendQueue \in [Conns -> Seq(Ovs)]
        /\ sendQueueSize \in [Conns -> 0 .. CountModulus - 1]
        /\ unread \subseteq Conns
    BY DEF TypeOK, Contents
  <1>2. o.ov \in Ovs /\ rest \in SUBSET Op /\ o.stale \in BOOLEAN
    BY <1>1 DEF Op
  <1>3. c \in Conns
    BY <1>1, <1>2 DEF UserOf, Contents
  <1>4. late' \in [Conns -> Nat]
    BY <1>2, <1>3, LateType
  <1>5. [sock EXCEPT ![c] = "fresh"] \in [Conns -> SockStates]
    BY <1>1 DEF SockStates
  <1>6. Append(acceptQueue, c) \in Seq(Conns)
    BY <1>1, <1>3
  <1> HIDE DEF c, rest
  <1>7. CASE HandleDisconnect(o)
    <2>1. /\ ovLapPool' = PoolAfter(ovLapPool, o.ov)
          /\ ovl' = OvlAfter(ovl, o.ov)
          /\ strays' = StraysAfter(o.ov)
          /\ ops' = Closed(c, rest)
          /\ sock' = [sock EXCEPT ![c] = "fresh"]
          /\ acceptQueue' = Append(acceptQueue, c)
          /\ unread' = unread \ {c}
          /\ UNCHANGED <<sendQueue, sendQueueSize, alive>>
      BY <1>7 DEF HandleDisconnect, Requeue, sendVars, c, rest
    <2>2. PICK k \in {0, 1} : lostSends' = Lost(c, k)
      BY <1>7 DEF HandleDisconnect, c
    <2>3. lostSends' \in [Conns -> Nat]
      BY <1>3, <2>2, LostType
    <2>4. /\ ovLapPool' \in [Ovs -> Nat] /\ ovl' \in [Ovs -> Contents]
          /\ strays' \subseteq Conns
      BY <1>1, <1>2, <2>1, AfterType
    <2>5. ops' \subseteq Op
      BY <1>2, <1>3, <2>1, ClosedType
    <2>6. unread' \subseteq Conns
      BY <1>1, <2>1
    <2> QED
      BY <1>4, <1>5, <1>6, <2>1, <2>3, <2>4, <2>5, <2>6 DEF TypeOK, Contents
  <1>8. CASE HandleAccept(o)
    <2>1. /\ UNCHANGED <<sendQueue, sendQueueSize, alive, strays, lostSends>>
          /\ \E r \in RecvResults(c, rest) :
               /\ ovLapPool' = r.pool
               /\ ovl' = r.ovl
               /\ \/ ops' = r.ops /\ UNCHANGED <<sock, acceptQueue, unread>>
                  \/ /\ ops' = Closed(c, r.ops)
                     /\ sock' = [sock EXCEPT ![c] = "fresh"]
                     /\ acceptQueue' = Append(acceptQueue, c)
                     /\ unread' = unread \ {c}
      BY <1>8 DEF HandleAccept, Requeue, sendVars, c, rest
    <2>2. PICK r \in RecvResults(c, rest) :
               /\ ovLapPool' = r.pool
               /\ ovl' = r.ovl
               /\ \/ ops' = r.ops /\ UNCHANGED <<sock, acceptQueue, unread>>
                  \/ /\ ops' = Closed(c, r.ops)
                     /\ sock' = [sock EXCEPT ![c] = "fresh"]
                     /\ acceptQueue' = Append(acceptQueue, c)
                     /\ unread' = unread \ {c}
      BY <2>1
    <2>3. /\ r.pool \in [Ovs -> Nat] /\ r.ovl \in [Ovs -> Contents]
          /\ r.ops \in SUBSET Op
      BY <1>2, <1>3, RecvType
    <2>4. Closed(c, r.ops) \in SUBSET Op
      BY <1>3, <2>3, ClosedType
    <2>5. ops' \subseteq Op /\ sock' \in [Conns -> SockStates] /\ acceptQueue' \in Seq(Conns)
          /\ unread' \subseteq Conns
      BY <1>1, <1>5, <1>6, <2>2, <2>3, <2>4
    <2> QED
      BY <1>4, <2>1, <2>2, <2>3, <2>5 DEF TypeOK, Contents
  <1>9. CASE HandleRecv(o)
    <2>1. /\ strays' = StraysAfter(o.ov)
          /\ UNCHANGED <<acceptQueue, sock, sendQueue, sendQueueSize, alive, lostSends>>
          /\ \E r \in RecvResults(c, rest) :
               /\ ops' = r.ops
               /\ ovLapPool' = PoolAfter(r.pool, o.ov)
               /\ ovl' = OvlAfter(r.ovl, o.ov)
               /\ unread' = IF r.ok THEN unread ELSE unread \union {c}
      BY <1>9 DEF HandleRecv, sendVars, c, rest
    <2>2. PICK r \in RecvResults(c, rest) :
               /\ ops' = r.ops
               /\ ovLapPool' = PoolAfter(r.pool, o.ov)
               /\ ovl' = OvlAfter(r.ovl, o.ov)
               /\ unread' = IF r.ok THEN unread ELSE unread \union {c}
      BY <2>1
    <2>3. /\ r.pool \in [Ovs -> Nat] /\ r.ovl \in [Ovs -> Contents]
          /\ r.ops \in SUBSET Op
      BY <1>2, <1>3, RecvType
    <2>4. /\ ovLapPool' \in [Ovs -> Nat] /\ ovl' \in [Ovs -> Contents]
          /\ strays' \subseteq Conns
      BY <1>1, <1>2, <2>1, <2>2, <2>3, AfterType
    <2>5. unread' \subseteq Conns
      BY <1>1, <1>3, <2>2
    <2> QED
      BY <1>4, <2>1, <2>2, <2>3, <2>4, <2>5 DEF TypeOK, Contents
  <1>10. CASE HandleSend(o)
    <2> DEFINE size == Decremented(sendQueueSize[c])
    <2>1. /\ ovLapPool' = PoolAfter(ovLapPool, o.ov)
          /\ ovl' = OvlAfter(ovl, o.ov)
          /\ strays' = StraysAfter(o.ov)
          /\ sendQueueSize' = [sendQueueSize EXCEPT ![c] = size]
          /\ UNCHANGED <<acceptQueue, sock, alive, unread>>
          /\ \E r \in AfterCount(c, size, sendQueue[c], rest) :
               /\ ops' = r.ops
               /\ sendQueue' = [sendQueue EXCEPT ![c] = r.queue]
               /\ lostSends' = Lost(c, r.lost)
      BY <1>10 DEF HandleSend, c, rest
    <2>2. size \in 0 .. CountModulus - 1
      BY <1>1, <1>3, CounterType
    <2> HIDE DEF size
    <2>3. PICK r \in AfterCount(c, size, sendQueue[c], rest) :
               /\ ops' = r.ops
               /\ sendQueue' = [sendQueue EXCEPT ![c] = r.queue]
               /\ lostSends' = Lost(c, r.lost)
      BY <2>1
    <2>4. r.queue \in Seq(Ovs) /\ r.ops \in SUBSET Op /\ r.lost \in {0, 1}
      BY <1>1, <1>2, <1>3, SendType
    <2>5. lostSends' \in [Conns -> Nat]
      BY <1>3, <2>3, <2>4, LostType
    <2>6. /\ ovLapPool' \in [Ovs -> Nat] /\ ovl' \in [Ovs -> Contents]
          /\ strays' \subseteq Conns
      BY <1>1, <1>2, <2>1, AfterType
    <2>7. /\ sendQueue' \in [Conns -> Seq(Ovs)]
          /\ sendQueueSize' \in [Conns -> 0 .. CountModulus - 1]
      BY <1>1, <2>1, <2>2, <2>3, <2>4
    <2> QED
      BY <1>4, <2>1, <2>3, <2>4, <2>5, <2>6, <2>7 DEF TypeOK, Contents
  <1>11. CASE CrashOnEmptyPool(o)
    BY <1>4, <1>11 DEF CrashOnEmptyPool, kernelVars, poolVars, sendVars, history, TypeOK
  <1> QED
    BY <1>7, <1>8, <1>9, <1>10, <1>11

LEMMA PushType ==
  ASSUME TypeOK, NEW c \in Conns, PushSendMsg(c)
  PROVE  TypeOK'
  <1> DEFINE size == Incremented(sendQueueSize[c])
  <1>1. /\ ovLapPool \in [Ovs -> Nat] /\ ovl \in [Ovs -> Contents]
        /\ ops \in SUBSET Op
        /\ sendQueue \in [Conns -> Seq(Ovs)]
        /\ sendQueueSize \in [Conns -> 0 .. CountModulus - 1]
    BY DEF TypeOK, Contents
  <1>2. size \in 0 .. CountModulus - 1
    BY <1>1, CounterType
  <1> HIDE DEF size
  <1>3. PICK p \in Ovs :
          /\ \/ /\ p \in Available
                /\ ovLapPool' = Take(p)
                /\ ovl' = [ovl EXCEPT ![p] = Filled("SEND", c)]
             \/ /\ ovl' = [ovl EXCEPT ![p] = Filled("NEWSEND", c)]
                /\ UNCHANGED ovLapPool
          /\ sendQueueSize' = [sendQueueSize EXCEPT ![c] = size]
          /\ \E r \in AfterCount(c, size, Append(sendQueue[c], p), ops) :
               /\ ops' = r.ops
               /\ sendQueue' = [sendQueue EXCEPT ![c] = r.queue]
               /\ lostSends' = Lost(c, r.lost)
    BY <1>1 DEF PushSendMsg, size
  <1>4. Append(sendQueue[c], p) \in Seq(Ovs)
    BY <1>1
  <1>5. PICK r \in AfterCount(c, size, Append(sendQueue[c], p), ops) :
               /\ ops' = r.ops
               /\ sendQueue' = [sendQueue EXCEPT ![c] = r.queue]
               /\ lostSends' = Lost(c, r.lost)
    BY <1>3
  <1>6. r.queue \in Seq(Ovs) /\ r.ops \in SUBSET Op /\ r.lost \in {0, 1}
    BY <1>1, <1>4, SendType
  <1>7. lostSends' \in [Conns -> Nat]
    BY <1>5, <1>6, LostType
  <1>8. ovLapPool' \in [Ovs -> Nat]
    BY <1>1, <1>3, TakeType
  <1>9. ovl' \in [Ovs -> Contents]
    <2>1. Filled("SEND", c) \in Contents /\ Filled("NEWSEND", c) \in Contents
      BY FilledType DEF TaskTypes
    <2> QED
      BY <1>1, <1>3, <2>1
  <1>10. /\ sendQueue' \in [Conns -> Seq(Ovs)]
         /\ sendQueueSize' \in [Conns -> 0 .. CountModulus - 1]
    BY <1>1, <1>2, <1>3, <1>5, <1>6
  <1>11. UNCHANGED <<acceptQueue, sock, alive, strays, late, unread>>
    BY DEF PushSendMsg
  <1> QED
    BY <1>5, <1>6, <1>7, <1>8, <1>9, <1>10, <1>11 DEF TypeOK, Contents

LEMMA StepType == TypeOK /\ [Next]_vars => TypeOK'
  <1>1. TypeOK /\ UNCHANGED vars => TypeOK'
    BY DEF TypeOK, vars, kernelVars, poolVars, sendVars, history
  <1> QED
    BY <1>1, PostAcceptType, KernelType, WorkThreadType, PushType DEF Next

(* Every variable keeps its type whatever the threads, the kernel and the   *)
(* peers do: the counter of a send queue stays inside its 16 bits, and each *)
(* queue and operation names an object that exists.                         *)
THEOREM TypeCorrect == Spec => []TypeOK
  BY InitType, StepType, PTL DEF Spec

(***************************************************************************)
(* 2. Ownership.  A handler moves objects one at a time between the pool,  *)
(* the operations, the send queues and its own hands, and returns with     *)
(* empty hands; each elementary move is a lemma about one object x, and    *)
(* each handler is a chain of moves.                                       *)
(***************************************************************************)
Objs == PoolOvs \union HeapOvs

InOps(set, x)    == \E p \in set : p.ov = x
Queued(queue, x) == \E c \in Conns : \E i \in DOMAIN queue[c] : queue[c][i] = x
OneOp(set, x)    == \A p, q \in set : p.ov = x /\ q.ov = x => p = q
OneSlot(queue, x) ==
  \A c, d \in Conns : \A i \in DOMAIN queue[c], j \in DOMAIN queue[d] :
    queue[c][i] = x /\ queue[d][j] = x => c = d /\ i = j

(* Memory obtained with new is marked NEWSEND while it is in use, and only  *)
(* that is: this is what lets WorkThread choose between delete and return.  *)
Marked(pool, objs, x) ==
  /\ pool[x] <= 1
  /\ x \in HeapOvs => pool[x] = 0 /\ objs[x].taskType \in {"FREE", "NEWSEND"}
  /\ x \in PoolOvs => objs[x].taskType \notin {"FREE", "NEWSEND"}

(* x is out of use, or a handler that holds it is about to move it. *)
Loose(pool, objs, hand, x) == pool[x] = 1 \/ objs[x].taskType = "FREE" \/ x \in hand

Owned(pool, objs, set, queue, hand, x) ==
  /\ Marked(pool, objs, x)
  /\ x \in hand => pool[x] # 1 /\ objs[x].taskType # "FREE"
  /\ Loose(pool, objs, hand, x) => ~InOps(set, x) /\ ~Queued(queue, x)
  /\ InOps(set, x) => ~Queued(queue, x)
  /\ OneOp(set, x)
  /\ OneSlot(queue, x)

(* The inductive invariant. *)
AllOwned == \A x \in Objs : Owned(ovLapPool, ovl, ops, sendQueue, {}, x)

LEMMA ObjsAreOvs == Objs \subseteq Ovs /\ Objs \intersect Conns = {}
  BY ConnAssumption DEF Objs, Ovs

LEMMA OwnedImplies == AllOwned => OverlappedOwned
  BY DEF AllOwned, Owned, Marked, Loose, InOps, Queued, OneOp, OneSlot, Objs, OverlappedOwned

----------------------------------------------------------------------------
(* The elementary moves. *)

LEMMA Drop ==
  ASSUME NEW pool, NEW objs, NEW set, NEW queue, NEW hand, NEW x, NEW less,
         x \in less => x \in hand,
         Owned(pool, objs, set, queue, hand, x)
  PROVE  Owned(pool, objs, set, queue, less, x)
  BY DEF Owned, Loose

(* A worker dequeues the completion o. *)
LEMMA Finish ==
  ASSUME NEW pool, NEW objs, NEW set, NEW queue, NEW x, NEW o \in set,
         Owned(pool, objs, set, queue, {}, x)
  PROVE  Owned(pool, objs, set \ {o}, queue, {o.ov}, x)
  BY DEF Owned, Loose, InOps, OneOp

(* deleteOvLap or returnOvLap.  objs may differ from ovl at other objects.  *)
LEMMA Return ==
  ASSUME NEW pool \in [Ovs -> Nat], NEW objs \in [Ovs -> Contents], NEW set, NEW queue,
         NEW hand, NEW x \in Objs, NEW y \in hand, y \in Ovs, y \in Objs => objs[y] = ovl[y],
         Owned(pool, objs, set, queue, hand, x)
  PROVE  Owned(PoolAfter(pool, y), OvlAfter(objs, y), set, queue, hand \ {y}, x)
  <1>1. CASE x = y /\ x \in HeapOvs
    BY <1>1, ConnAssumption
       DEF Owned, Marked, Loose, PoolAfter, OvlAfter, FromNew, Free, Zeroed, Objs
  <1>2. CASE x = y /\ x \in PoolOvs
    BY <1>2, ConnAssumption
       DEF Owned, Marked, Loose, PoolAfter, OvlAfter, FromNew, Free, Zeroed, Objs
  <1>3. CASE x # y
    <2>1. PoolAfter(pool, y)[x] = pool[x] /\ OvlAfter(objs, y)[x] = objs[x]
      BY <1>3, ObjsAreOvs DEF PoolAfter, OvlAfter
    <2> QED
      BY <1>3, <2>1 DEF Owned, Marked, Loose
  <1> QED
    BY <1>1, <1>2, <1>3 DEF Objs

(* getOvLap. *)
LEMMA TakeOne ==
  ASSUME NEW pool \in [Ovs -> Nat], NEW objs \in [Ovs -> Contents], NEW set, NEW queue,
         NEW hand, NEW x \in Objs, NEW p \in Ovs, pool[p] > 0,
         NEW type \in {"RECV", "SEND"}, NEW c,
         Owned(pool, objs, set, queue, hand, x)
  PROVE  Owned([pool EXCEPT ![p] = @ - 1], [objs EXCEPT ![p] = Filled(type, c)],
               set, queue, hand \union {p}, x)
  <1>1. CASE x = p
    BY <1>1, ConnAssumption DEF Owned, Marked, Loose, Filled, Objs
  <1>2. CASE x # p
    <2>1. /\ [pool EXCEPT ![p] = @ - 1][x] = pool[x]
          /\ [objs EXCEPT ![p] = Filled(type, c)][x] = objs[x]
      BY <1>2, ObjsAreOvs
    <2> QED
      BY <1>2, <2>1 DEF Owned, Marked, Loose
  <1> QED
    BY <1>1, <1>2

(* new. *)
LEMMA Allocate ==
  ASSUME NEW pool \in [Ovs -> Nat], NEW objs \in [Ovs -> Contents], NEW set, NEW queue,
         NEW hand, NEW x \in Objs, NEW p \in HeapOvs, objs[p] = Free, NEW c,
         Owned(pool, objs, set, queue, hand, x)
  PROVE  Owned(pool, [objs EXCEPT ![p] = Filled("NEWSEND", c)], set, queue, hand \union {p}, x)
  <1>1. CASE x = p
    BY <1>1, ConnAssumption, ConnsAreOvs DEF Owned, Marked, Loose, Filled, Free, Objs
  <1>2. CASE x # p
    <2>1. [objs EXCEPT ![p] = Filled("NEWSEND", c)][x] = objs[x]
      BY <1>2, ObjsAreOvs
    <2> QED
      BY <1>2, <2>1 DEF Owned, Marked, Loose
  <1> QED
    BY <1>1, <1>2

(* WSARecv, WSASend or AcceptEx takes the object y. *)
LEMMA Post ==
  ASSUME NEW pool, NEW objs, NEW set, NEW queue, NEW hand, NEW x, NEW y, x = y => x \in hand,
         NEW n, NEW c, NEW kind, Owned(pool, objs, set, queue, hand, x)
  PROVE  Owned(pool, objs, set \union {NewOp(y, n, c, kind)}, queue, hand \ {y}, x)
  <1>1. NewOp(y, n, c, kind).ov = y
    BY DEF NewOp
  <1> QED
    BY <1>1 DEF Owned, Loose, InOps, OneOp

(* The operations keep their objects when their state changes. *)
LEMMA Replace ==
  ASSUME NEW pool, NEW objs, NEW set, NEW queue, NEW x, NEW o \in set, NEW q, q.ov = o.ov,
         Owned(pool, objs, set, queue, {}, x)
  PROVE  Owned(pool, objs, (set \ {o}) \union {q}, queue, {}, x)
  BY DEF Owned, Loose, InOps, OneOp

LEMMA Close ==
  ASSUME NEW pool, NEW objs, NEW set \in SUBSET Op, NEW queue, NEW hand, NEW x, NEW c,
         Owned(pool, objs, set, queue, hand, x)
  PROVE  Owned(pool, objs, Closed(c, set), queue, hand, x)
  <1>1. \A p \in Closed(c, set) : \E q \in set : p.ov = q.ov
    BY DEF Closed, Op
  <1>2. InOps(Closed(c, set), x) => InOps(set, x)
    BY <1>1 DEF InOps
  <1>3. OneOp(set, x) => OneOp(Closed(c, set), x)
    <2> DEFINE f(o) == IF o.conn = c
                         THEN [o EXCEPT !.st = IF @ = "pending" THEN "fail" ELSE @,
                                        !.stale = TRUE]
                         ELSE o
    <2>1. \A o \in set : f(o).ov = o.ov
      BY DEF Op
    <2>2. Closed(c, set) = {f(o) : o \in set}
      BY DEF Closed
    <2> HIDE DEF f
    <2> QED
      BY <2>1, <2>2 DEF OneOp
  <1> QED
    BY <1>2, <1>3 DEF Owned

(* sendQueue.push. *)
LEMMA PushOne ==
  ASSUME NEW pool, NEW objs, NEW set, NEW queue \in [Conns -> Seq(Ovs)], NEW hand, NEW x,
         NEW y \in Ovs, NEW c \in Conns, x = y => x \in hand,
         Owned(pool, objs, set, queue, hand, x)
  PROVE  Owned(pool, objs, set, [queue EXCEPT ![c] = Append(queue[c], y)], hand \ {y}, x)
  <1> DEFINE after == [queue EXCEPT ![c] = Append(queue[c], y)]
             n == Len(queue[c]) + 1
  <1>0. n \in Nat /\ DOMAIN queue[c] = 1 .. n - 1 /\ queue[c] \in Seq(Ovs)
    BY DEF n
  <1>1. /\ DOMAIN after[c] = 1 .. n
        /\ after[c][n] = y
        /\ \A i \in 1 .. n - 1 : after[c][i] = queue[c][i]
    BY <1>0
  <1>2. \A d \in Conns : d # c => after[d] = queue[d]
    OBVIOUS
  <1> HIDE DEF after, n
  <1>3. ASSUME NEW d \in Conns, NEW i \in DOMAIN after[d]
        PROVE  \/ d = c /\ i = n /\ after[d][i] = y
               \/ i \in DOMAIN queue[d] /\ queue[d][i] = after[d][i]
    <2>1. CASE d # c
      BY <1>2, <2>1
    <2>2. CASE d = c /\ i = n
      BY <1>1, <2>2
    <2>3. CASE d = c /\ i # n
      <3>1. i \in 1 .. n - 1
        BY <1>0, <1>1, <2>3
      <3> QED
        BY <1>0, <1>1, <2>3, <3>1
    <2> QED
      BY <2>1, <2>2, <2>3
  <1>4. CASE x # y
    <2>1. Queued(after, x) => Queued(queue, x)
      BY <1>3, <1>4 DEF Queued
    <2>2. OneSlot(queue, x) => OneSlot(after, x)
      BY <1>3, <1>4 DEF OneSlot
    <2> QED
      BY <1>4, <2>1, <2>2 DEF Owned, Loose, after
  <1>5. CASE x = y
    <2>1. x \in hand /\ ~InOps(set, x) /\ ~Queued(queue, x)
      BY <1>5 DEF Owned, Loose
    <2>2. ASSUME NEW d \in Conns, NEW i \in DOMAIN after[d], after[d][i] = x
          PROVE  d = c /\ i = n
      BY <1>3, <2>1, <2>2 DEF Queued
    <2>3. OneSlot(after, x)
      BY <2>2 DEF OneSlot
    <2> QED
      BY <1>5, <2>1, <2>3 DEF Owned, Loose, after
  <1> QED
    BY <1>4, <1>5

(* sendQueue.pop. *)
LEMMA PopOne ==
  ASSUME NEW pool, NEW objs, NEW set, NEW queue \in [Conns -> Seq(Ovs)], NEW x,
         NEW c \in Conns, queue[c] # <<>>,
         Owned(pool, objs, set, queue, {}, x)
  PROVE  Owned(pool, objs, set, [queue EXCEPT ![c] = Tail(queue[c])], {Head(queue[c])}, x)
  <1> DEFINE after == [queue EXCEPT ![c] = Tail(queue[c])]
             n == Len(queue[c])
  <1>0. n \in Nat \ {0} /\ DOMAIN queue[c] = 1 .. n /\ queue[c] \in Seq(Ovs)
    BY DEF n
  <1>1. /\ DOMAIN after[c] = 1 .. n - 1
        /\ \A i \in 1 .. n - 1 : after[c][i] = queue[c][i + 1]
        /\ Head(queue[c]) = queue[c][1]
    BY <1>0
  <1>2. \A d \in Conns : d # c => after[d] = queue[d]
    OBVIOUS
  <1> HIDE DEF after, n
  <1>3. ASSUME NEW d \in Conns, NEW i \in DOMAIN after[d]
        PROVE  \/ d # c /\ i \in DOMAIN queue[d] /\ queue[d][i] = after[d][i]
               \/ /\ d = c /\ i \in 1 .. n - 1 /\ i + 1 \in DOMAIN queue[d]
                  /\ queue[d][i + 1] = after[d][i]
    BY <1>0, <1>1, <1>2
  <1>4. Queued(after, x) => Queued(queue, x)
    BY <1>3 DEF Queued
  <1>5. OneSlot(queue, x) => OneSlot(after, x)
    <2> SUFFICES ASSUME OneSlot(queue, x), NEW d \in Conns, NEW e \in Conns,
                        NEW i \in DOMAIN after[d], NEW j \in DOMAIN after[e],
                        after[d][i] = x, after[e][j] = x
                 PROVE  d = e /\ i = j
      BY DEF OneSlot
    <2>1. CASE d = c /\ e = c
      <3>1. i \in 1 .. n - 1 /\ j \in 1 .. n - 1
        BY <1>3, <2>1
      <3>2. /\ i + 1 \in DOMAIN queue[c] /\ queue[c][i + 1] = x
            /\ j + 1 \in DOMAIN queue[c] /\ queue[c][j + 1] = x
        BY <1>3, <2>1
      <3>3. i + 1 = j + 1
        BY <3>2 DEF OneSlot
      <3> QED
        BY <1>0, <2>1, <3>1, <3>3
    <2>2. CASE d = c /\ e # c
      BY <1>3, <2>2 DEF OneSlot
    <2>3. CASE d # c /\ e = c
      BY <1>3, <2>3 DEF OneSlot
    <2>4. CASE d # c /\ e # c
      BY <1>3, <2>4 DEF OneSlot
    <2> QED
      BY <2>1, <2>2, <2>3, <2>4
  <1>6. CASE x = Head(queue[c])
    <2>1. Queued(queue, x) /\ 1 \in DOMAIN queue[c] /\ queue[c][1] = x
      BY <1>0, <1>1, <1>6 DEF Queued
    <2>2. ASSUME NEW d \in Conns, NEW i \in DOMAIN after[d], after[d][i] = x PROVE FALSE
      <3>1. CASE d # c
        BY <1>3, <2>1, <2>2, <3>1 DEF Owned, OneSlot
      <3>2. CASE d = c
        <4>1. i \in 1 .. n - 1 /\ i + 1 \in DOMAIN queue[c] /\ queue[c][i + 1] = x
          BY <1>3, <2>2, <3>2
        <4>2. i + 1 = 1
          BY <2>1, <4>1 DEF Owned, OneSlot
        <4> QED
          BY <1>0, <4>1, <4>2
      <3> QED
        BY <3>1, <3>2
    <2>3. ~Queued(after, x) /\ ~InOps(set, x)
      BY <2>1, <2>2 DEF Queued, Owned
    <2> QED
      BY <1>5, <2>1, <2>3 DEF Owned, Loose, after
  <1>7. CASE x # Head(queue[c])
    BY <1>4, <1>5, <1>7 DEF Owned, Loose, after
  <1> QED
    BY <1>6, <1>7

----------------------------------------------------------------------------
(* What the handlers are made of. *)

(* PushSendMsg and SendComplete after the counter has moved. *)
LEMMA SendMove ==
  ASSUME NEW pool, NEW objs, NEW set \in SUBSET Op, NEW queue \in [Conns -> Seq(Ovs)],
         NEW x \in Objs, NEW c \in Conns, NEW size, NEW r \in AfterCount(c, size, queue[c], set),
         Owned(pool, objs, set, queue, {}, x)
  PROVE  Owned(pool, objs, r.ops, [queue EXCEPT ![c] = r.queue], {}, x)
  <1>1. CASE r = SendResult(queue[c], set, 0)
    <2>1. r.ops = set /\ [queue EXCEPT ![c] = r.queue] = queue
      BY <1>1 DEF SendResult
    <2> QED
      BY <2>1
  <1>2. ASSUME queue[c] # <<>>
        PROVE  Owned(pool, objs, set, [queue EXCEPT ![c] = Tail(queue[c])],
                     {Head(queue[c])}, x)
    BY <1>2, PopOne
  <1>3. ASSUME queue[c] # <<>>, r = SendResult(Tail(queue[c]), set, 1)
        PROVE  Owned(pool, objs, r.ops, [queue EXCEPT ![c] = r.queue], {}, x)
    <2>1. r.ops = set /\ r.queue = Tail(queue[c])
      BY <1>3 DEF SendResult
    <2>2. Owned(pool, objs, set, [queue EXCEPT ![c] = Tail(queue[c])], {Head(queue[c])}, x)
      BY <1>2, <1>3
    <2>3. Owned(pool, objs, set, [queue EXCEPT ![c] = Tail(queue[c])], {}, x)
      BY <2>2, Drop
    <2> QED
      BY <2>1, <2>3
  <1>4. ASSUME queue[c] # <<>>, NEW after \in Posted(Head(queue[c]), c, "SEND", set),
               r = SendResult(Tail(queue[c]), after, 0)
        PROVE  Owned(pool, objs, r.ops, [queue EXCEPT ![c] = r.queue], {}, x)
    <2> DEFINE y == Head(queue[c])
               rest == [queue EXCEPT ![c] = Tail(queue[c])]
    <2>1. r.ops = after /\ r.queue = Tail(queue[c]) /\ y \in Ovs
      BY <1>4 DEF SendResult
    <2>2. PICK n \in 0 .. MaxAlias : after = set \union {NewOp(y, n, c, "SEND")}
      BY PostedFresh
    <2>3. Owned(pool, objs, set, rest, {y}, x)
      BY <1>2, <1>4
    <2> HIDE DEF y, rest
    <2>4. CASE x = y
      <3>1. Owned(pool, objs, after, rest, {y} \ {y}, x)
        BY <2>2, <2>3, <2>4, Post
      <3> QED
        BY <2>1, <3>1, Drop DEF rest
    <2>5. CASE x # y
      <3>1. Owned(pool, objs, after, rest, {y} \ {y}, x)
        BY <2>2, <2>3, <2>5, Post
      <3> QED
        BY <2>1, <3>1, Drop DEF rest
    <2> QED
      BY <2>4, <2>5
  <1>5. \/ r = SendResult(queue[c], set, 0)
        \/ /\ queue[c] # <<>>
           /\ \/ \E after \in Posted(Head(queue[c]), c, "SEND", set) :
                   r = SendResult(Tail(queue[c]), after, 0)
              \/ r = SendResult(Tail(queue[c]), set, 1)
    <2>1. queue[c] \in Seq(Ovs)
      OBVIOUS
    <2> QED
      BY <2>1, SendCases
  <1> QED
    BY <1>1, <1>3, <1>4, <1>5

(* ConnUserRecv, while the worker may hold a finished object. *)
LEMMA RecvMove ==
  ASSUME TypeOK, NEW set \in SUBSET Op, NEW hand, NEW x \in Objs, NEW c \in Conns,
         NEW r \in RecvResults(c, set),
         Owned(ovLapPool, ovl, set, sendQueue, hand, x)
  PROVE  /\ Owned(r.pool, r.ovl, r.ops, sendQueue, hand, x)
         /\ \A y \in Ovs : ovLapPool[y] = 0 => r.ovl[y] = ovl[y]
  <1> DEFINE filled(p) == [ovl EXCEPT ![p] = Filled("RECV", c)]
  <1>1. ovLapPool \in [Ovs -> Nat] /\ ovl \in [Ovs -> Contents]
    BY DEF TypeOK, Contents
  <1>2. ASSUME NEW p \in Available
        PROVE  /\ Owned(Take(p), filled(p), set, sendQueue, hand \union {p}, x)
               /\ x = p => x \notin hand
               /\ \A y \in Ovs : ovLapPool[y] = 0 => filled(p)[y] = ovl[y]
    <2>1. p \in Ovs /\ ovLapPool[p] > 0
      BY <1>2 DEF Available
    <2>2. Owned(Take(p), filled(p), set, sendQueue, hand \union {p}, x)
      BY <1>1, <2>1, TakeOne DEF Take
    <2>3. x = p => x \notin hand
      BY <1>1, <2>1 DEF Owned, Marked
    <2>4. \A y \in Ovs : ovLapPool[y] = 0 => filled(p)[y] = ovl[y]
      BY <1>1, <2>1
    <2> QED
      BY <2>2, <2>3, <2>4
  <1>3. ASSUME NEW p \in Available, NEW after \in Posted(p, c, "RECV", set),
               r = RecvResult(TRUE, Take(p), filled(p), after)
        PROVE  /\ Owned(r.pool, r.ovl, r.ops, sendQueue, hand, x)
               /\ \A y \in Ovs : ovLapPool[y] = 0 => r.ovl[y] = ovl[y]
    <2>1. r.pool = Take(p) /\ r.ovl = filled(p) /\ r.ops = after /\ p \in Ovs
      BY <1>3 DEF RecvResult, Available
    <2>2. PICK n \in 0 .. MaxAlias : after = set \union {NewOp(p, n, c, "RECV")}
      BY <2>1, PostedType DEF Kinds
    <2> HIDE DEF filled
    <2>3. Owned(r.pool, r.ovl, after, sendQueue, (hand \union {p}) \ {p}, x)
      <3>1. Owned(r.pool, r.ovl, set, sendQueue, hand \union {p}, x)
        BY <1>2, <2>1
      <3>2. x = p => x \in hand \union {p}
        OBVIOUS
      <3> QED
        BY <2>2, <3>1, <3>2, Post
    <2>4. x \in hand => x \in (hand \union {p}) \ {p}
      BY <1>2
    <2> QED
      BY <1>2, <2>1, <2>3, <2>4, Drop
  <1>4. ASSUME NEW p \in Available, r = RecvResult(FALSE, Take(p), filled(p), set)
        PROVE  /\ Owned(r.pool, r.ovl, r.ops, sendQueue, hand, x)
               /\ \A y \in Ovs : ovLapPool[y] = 0 => r.ovl[y] = ovl[y]
    <2>1. r.pool = Take(p) /\ r.ovl = filled(p) /\ r.ops = set
      BY <1>4 DEF RecvResult
    <2> HIDE DEF filled
    <2> QED
      BY <1>2, <2>1, Drop
  <1>5. CASE r = RecvResult(FALSE, ovLapPool, ovl, set)
    BY <1>5 DEF RecvResult
  <1> QED
    BY <1>3, <1>4, <1>5, RecvCases

(* A worker finishes operation o and gives its object back. *)
LEMMA FinishReturn ==
  ASSUME TypeOK, AllOwned, NEW o \in ops, NEW x \in Objs
  PROVE  Owned(PoolAfter(ovLapPool, o.ov), OvlAfter(ovl, o.ov), ops \ {o}, sendQueue, {}, x)
  <1>1. /\ ovLapPool \in [Ovs -> Nat] /\ ovl \in [Ovs -> Contents]
        /\ o.ov \in Ovs
    BY DEF TypeOK, Contents, Op
  <1>2. Owned(ovLapPool, ovl, ops \ {o}, sendQueue, {o.ov}, x)
    BY Finish DEF AllOwned
  <1>3. Owned(PoolAfter(ovLapPool, o.ov), OvlAfter(ovl, o.ov), ops \ {o}, sendQueue,
              {o.ov} \ {o.ov}, x)
    BY <1>1, <1>2, Return
  <1> QED
    BY <1>3, Drop

----------------------------------------------------------------------------
(* One lemma per action. *)

LEMMA InitOwned == Init => AllOwned
  <1> SUFFICES ASSUME Init, NEW x \in Objs PROVE Owned(ovLapPool, ovl, ops, sendQueue, {}, x)
    BY DEF AllOwned
  <1>1. Marked(ovLapPool, ovl, x)
    BY ConnAssumption, ObjsAreOvs DEF Init, Marked, Free, Zeroed, Objs
  <1>2. ~InOps(ops, x) /\ OneOp(ops, x)
    BY DEF Init, InOps, OneOp
  <1>3. ~Queued(sendQueue, x) /\ OneSlot(sendQueue, x)
    BY DEF Init, Queued, OneSlot
  <1> QED
    BY <1>1, <1>2, <1>3 DEF Owned

LEMMA PostAcceptOwned == TypeOK /\ AllOwned /\ PostAccept => AllOwned'
  <1> SUFFICES ASSUME TypeOK, AllOwned, PostAccept, NEW x \in Objs
               PROVE  Owned(ovLapPool', ovl', ops', sendQueue', {}, x)
    BY DEF AllOwned
  <1> DEFINE c == Head(acceptQueue)
  <1>1. c \in Conns /\ c \in Ovs /\ x # c /\ x \in Ovs
    <2>1. acceptQueue \in Seq(Conns) /\ acceptQueue # <<>>
      BY DEF PostAccept, TypeOK
    <2> QED
      BY <2>1, QueueType, ObjsAreOvs, ConnsAreOvs
  <1>2. /\ ovl' = [ovl EXCEPT ![c] = Filled("ACCEPT", c)]
        /\ ops' = ops \/ ops' \in Posted(c, c, "ACCEPT", ops)
        /\ ovLapPool' = ovLapPool /\ sendQueue' = sendQueue
    BY DEF PostAccept, kernelVars, sendVars
  <1> HIDE DEF c
  <1>3. ovl'[x] = ovl[x]
    BY <1>1, <1>2 DEF TypeOK
  <1>4. Owned(ovLapPool, ovl', ops, sendQueue, {}, x)
    BY <1>3 DEF AllOwned, Owned, Marked, Loose
  <1>5. CASE ops' \in Posted(c, c, "ACCEPT", ops)
    <2>0. ops \in SUBSET Op /\ "ACCEPT" \in Kinds
      BY DEF TypeOK, Kinds
    <2>1. PICK n \in 0 .. MaxAlias : ops' = ops \union {NewOp(c, n, c, "ACCEPT")}
      BY <1>1, <1>5, <2>0, PostedType
    <2>2. Owned(ovLapPool, ovl', ops', sendQueue, {} \ {c}, x)
      BY <1>1, <1>4, <2>1, Post
    <2> QED
      BY <1>2, <2>2, Drop
  <1> QED
    BY <1>2, <1>4, <1>5

LEMMA KernelOwned == TypeOK /\ AllOwned /\ Kernel => AllOwned'
  <1> SUFFICES ASSUME TypeOK, AllOwned, Kernel, NEW x \in Objs
               PROVE  Owned(ovLapPool', ovl', ops', sendQueue', {}, x)
    BY DEF AllOwned
  <1>1. ovLapPool' = ovLapPool /\ ovl' = ovl /\ sendQueue' = sendQueue
    BY DEF Kernel, poolVars, sendVars
  <1>2. Owned(ovLapPool, ovl, ops, sendQueue, {}, x)
    BY DEF AllOwned
  <1>3. ASSUME NEW o \in ops, NEW st, Completes(o, st)
        PROVE  Owned(ovLapPool, ovl, ops', sendQueue, {}, x)
    <2> DEFINE q == [o EXCEPT !.st = st]
    <2>1. q.ov = o.ov
      BY DEF TypeOK, Op
    <2>2. ops' = (ops \ {o}) \union {q}
      BY <1>3 DEF Completes
    <2> HIDE DEF q
    <2> QED
      BY <1>2, <2>1, <2>2, Replace
  <1>4. \/ ops' = ops
        \/ \E o \in ops : \E st \in {"ok", "fail"} : Completes(o, st)
    BY DEF Kernel, ClientConnects, ClientAborts, TransferDone, TransferFails, PeerCloses
  <1> QED
    BY <1>1, <1>2, <1>3, <1>4

LEMMA HandleDisconnectOwned ==
  ASSUME TypeOK, AllOwned, NEW o \in ops, HandleDisconnect(o)
  PROVE  AllOwned'
  <1> SUFFICES ASSUME NEW x \in Objs PROVE Owned(ovLapPool', ovl', ops', sendQueue', {}, x)
    BY DEF AllOwned
  <1> DEFINE c == UserOf(o)
             rest == ops \ {o}
  <1>1. /\ ovLapPool' = PoolAfter(ovLapPool, o.ov)
        /\ ovl' = OvlAfter(ovl, o.ov)
        /\ ops' = Closed(c, rest)
        /\ sendQueue' = sendQueue
    BY DEF HandleDisconnect, sendVars
  <1>2. rest \in SUBSET Op
    BY DEF TypeOK
  <1>3. Owned(ovLapPool', ovl', rest, sendQueue, {}, x)
    BY <1>1, FinishReturn
  <1> HIDE DEF c, rest
  <1> QED
    BY <1>1, <1>2, <1>3, Close

LEMMA HandleAcceptOwned ==
  ASSUME TypeOK, AllOwned, NEW o \in ops, HandleAccept(o)
  PROVE  AllOwned'
  <1> SUFFICES ASSUME NEW x \in Objs PROVE Owned(ovLapPool', ovl', ops', sendQueue', {}, x)
    BY DEF AllOwned
  <1> DEFINE c == UserOf(o)
             rest == ops \ {o}
  <1>1. c \in Conns /\ rest \in SUBSET Op
    BY DEF UserOf, TypeOK, Op
  <1>2. sendQueue' = sendQueue
    BY DEF HandleAccept, sendVars
  <1>3. PICK r \in RecvResults(c, rest) :
          /\ ovLapPool' = r.pool /\ ovl' = r.ovl
          /\ ops' = r.ops \/ ops' = Closed(c, r.ops)
    BY DEF HandleAccept
  <1>4. Owned(ovLapPool, ovl, rest, sendQueue, {}, x)
    <2>1. Owned(ovLapPool, ovl, rest, sendQueue, {o.ov}, x)
      BY Finish DEF AllOwned
    <2> QED
      BY <2>1, Drop
  <1> HIDE DEF c, rest
  <1>5. Owned(r.pool, r.ovl, r.ops, sendQueue, {}, x)
    BY <1>1, <1>4, RecvMove
  <1>6. r.ops \in SUBSET Op
    BY <1>1, RecvType
  <1> QED
    BY <1>2, <1>3, <1>5, <1>6, Close

LEMMA HandleRecvOwned ==
  ASSUME TypeOK, AllOwned, NEW o \in ops, HandleRecv(o)
  PROVE  AllOwned'
  <1> SUFFICES ASSUME NEW x \in Objs PROVE Owned(ovLapPool', ovl', ops', sendQueue', {}, x)
    BY DEF AllOwned
  <1> DEFINE c == UserOf(o)
             rest == ops \ {o}
  <1>1. c \in Conns /\ rest \in SUBSET Op /\ o.ov \in Ovs
    BY DEF UserOf, TypeOK, Op
  <1>2. sendQueue' = sendQueue
    BY DEF HandleRecv, sendVars
  <1>3. PICK r \in RecvResults(c, rest) :
          /\ ovLapPool' = PoolAfter(r.pool, o.ov)
          /\ ovl' = OvlAfter(r.ovl, o.ov)
          /\ ops' = r.ops
    BY DEF HandleRecv
  <1>4. Owned(ovLapPool, ovl, rest, sendQueue, {o.ov}, x)
    BY Finish DEF AllOwned
  <1>5. o.ov \in Objs => ovLapPool[o.ov] = 0
    <2> SUFFICES ASSUME o.ov \in Objs PROVE ovLapPool[o.ov] = 0
      OBVIOUS
    <2>1. Owned(ovLapPool, ovl, ops, sendQueue, {}, o.ov)
      BY DEF AllOwned
    <2>2. InOps(ops, o.ov)
      BY DEF InOps
    <2>3. ovLapPool[o.ov] <= 1 /\ ovLapPool[o.ov] # 1
      BY <2>1, <2>2 DEF Owned, Marked, Loose
    <2>4. ovLapPool[o.ov] \in Nat
      BY <1>1 DEF TypeOK
    <2> QED
      BY <2>3, <2>4
  <1> HIDE DEF c, rest
  <1>6. /\ Owned(r.pool, r.ovl, r.ops, sendQueue, {o.ov}, x)
        /\ \A y \in Ovs : ovLapPool[y] = 0 => r.ovl[y] = ovl[y]
    BY <1>1, <1>4, RecvMove
  <1>7. r.pool \in [Ovs -> Nat] /\ r.ovl \in [Ovs -> Contents]
    BY <1>1, RecvType
  <1>8. Owned(PoolAfter(r.pool, o.ov), OvlAfter(r.ovl, o.ov), r.ops, sendQueue,
              {o.ov} \ {o.ov}, x)
    BY <1>1, <1>5, <1>6, <1>7, Return
  <1> QED
    BY <1>2, <1>3, <1>8, Drop

LEMMA HandleSendOwned ==
  ASSUME TypeOK, AllOwned, NEW o \in ops, HandleSend(o)
  PROVE  AllOwned'
  <1> SUFFICES ASSUME NEW x \in Objs PROVE Owned(ovLapPool', ovl', ops', sendQueue', {}, x)
    BY DEF AllOwned
  <1> DEFINE c == UserOf(o)
             rest == ops \ {o}
             size == Decremented(sendQueueSize[c])
  <1>1. /\ c \in Conns /\ rest \in SUBSET Op
        /\ sendQueue \in [Conns -> Seq(Ovs)]
    BY DEF UserOf, TypeOK, Op
  <1>2. PICK r \in AfterCount(c, size, sendQueue[c], rest) :
          /\ ops' = r.ops
          /\ sendQueue' = [sendQueue EXCEPT ![c] = r.queue]
    BY DEF HandleSend
  <1>3. ovLapPool' = PoolAfter(ovLapPool, o.ov) /\ ovl' = OvlAfter(ovl, o.ov)
    BY DEF HandleSend
  <1>4. Owned(ovLapPool', ovl', rest, sendQueue, {}, x)
    BY <1>3, FinishReturn
  <1> HIDE DEF c, rest, size
  <1> QED
    BY <1>1, <1>2, <1>4, SendMove

LEMMA PushOwned ==
  ASSUME TypeOK, AllOwned, NEW c \in Conns, PushSendMsg(c)
  PROVE  AllOwned'
  <1> SUFFICES ASSUME NEW x \in Objs PROVE Owned(ovLapPool', ovl', ops', sendQueue', {}, x)
    BY DEF AllOwned
  <1> DEFINE size == Incremented(sendQueueSize[c])
  <1>1. /\ ops \in SUBSET Op
        /\ sendQueue \in [Conns -> Seq(Ovs)]
        /\ ovLapPool \in [Ovs -> Nat] /\ ovl \in [Ovs -> Contents]
    BY DEF TypeOK, Contents
  <1>2. PICK p \in Ovs :
          /\ \/ /\ p \in Available
                /\ ovLapPool' = Take(p)
                /\ ovl' = [ovl EXCEPT ![p] = Filled("SEND", c)]
             \/ /\ p \in HeapOvs /\ ovl[p] = Free
                /\ ovl' = [ovl EXCEPT ![p] = Filled("NEWSEND", c)]
                /\ ovLapPool' = ovLapPool
          /\ \E r \in AfterCount(c, size, Append(sendQueue[c], p), ops) :
               /\ ops' = r.ops
               /\ sendQueue' = [sendQueue EXCEPT ![c] = r.queue]
    BY DEF PushSendMsg
  <1> HIDE DEF size
  <1>3. PICK r \in AfterCount(c, size, Append(sendQueue[c], p), ops) :
               /\ ops' = r.ops
               /\ sendQueue' = [sendQueue EXCEPT ![c] = r.queue]
    BY <1>2
  <1>4. Owned(ovLapPool, ovl, ops, sendQueue, {}, x)
    BY DEF AllOwned
  <1>5. Owned(ovLapPool', ovl', ops, sendQueue, {} \union {p}, x)
    <2>1. CASE p \in Available /\ ovLapPool' = Take(p)
               /\ ovl' = [ovl EXCEPT ![p] = Filled("SEND", c)]
      <3>1. ovLapPool[p] > 0
        BY <2>1 DEF Available
      <3> QED
        BY <1>1, <1>4, <2>1, <3>1, TakeOne DEF Take
    <2>2. CASE /\ p \in HeapOvs /\ ovl[p] = Free
               /\ ovl' = [ovl EXCEPT ![p] = Filled("NEWSEND", c)]
               /\ ovLapPool' = ovLapPool
      BY <1>1, <1>4, <2>2, Allocate
    <2> QED
      BY <1>2, <2>1, <2>2
  <1> DEFINE pushed == [sendQueue EXCEPT ![c] = Append(sendQueue[c], p)]
  <1>6. Owned(ovLapPool', ovl', ops, pushed, ({} \union {p}) \ {p}, x)
    BY <1>1, <1>5, PushOne
  <1>7. Owned(ovLapPool', ovl', ops, pushed, {}, x)
    BY <1>6, Drop
  <1>8. /\ pushed \in [Conns -> Seq(Ovs)]
        /\ pushed[c] = Append(sendQueue[c], p)
        /\ [pushed EXCEPT ![c] = r.queue] = sendQueue'
    <2>1. Append(sendQueue[c], p) \in Seq(Ovs)
      BY <1>1
    <2>2. pushed \in [Conns -> Seq(Ovs)]
      BY <1>1, <2>1
    <2>3. pushed[c] = Append(sendQueue[c], p)
      BY <1>1
    <2>4. [pushed EXCEPT ![c] = r.queue] = [sendQueue EXCEPT ![c] = r.queue]
      BY <1>1
    <2> QED
      BY <1>3, <2>2, <2>3, <2>4
  <1> HIDE DEF pushed
  <1>9. r \in AfterCount(c, size, pushed[c], ops)
    BY <1>8
  <1>10. Owned(ovLapPool', ovl', r.ops, [pushed EXCEPT ![c] = r.queue], {}, x)
    BY <1>1, <1>7, <1>8, <1>9, SendMove
  <1> QED
    BY <1>3, <1>8, <1>10

LEMMA StepOwned == TypeOK /\ AllOwned /\ [Next]_vars => AllOwned'
  <1> SUFFICES ASSUME TypeOK, AllOwned, [Next]_vars PROVE AllOwned'
    OBVIOUS
  <1>1. CASE PostAccept
    BY <1>1, PostAcceptOwned
  <1>2. CASE Kernel
    BY <1>2, KernelOwned
  <1>3. CASE WorkThread
    <2>1. PICK o \in ops : \/ HandleDisconnect(o) \/ HandleAccept(o) \/ HandleRecv(o)
                           \/ HandleSend(o) \/ CrashOnEmptyPool(o)
      BY <1>3 DEF WorkThread
    <2>2. CASE CrashOnEmptyPool(o)
      BY <2>2 DEF CrashOnEmptyPool, kernelVars, poolVars, sendVars, AllOwned
    <2> QED
      BY <2>1, <2>2, HandleDisconnectOwned, HandleAcceptOwned, HandleRecvOwned, HandleSendOwned
  <1>4. CASE \E c \in Conns : PushSendMsg(c)
    BY <1>4, PushOwned
  <1>5. CASE UNCHANGED vars
    BY <1>5 DEF vars, kernelVars, poolVars, sendVars, AllOwned
  <1> QED
    BY <1>1, <1>2, <1>3, <1>4, <1>5 DEF Next

(* Whatever the interleaving of accepts, receives, sends and disconnects,   *)
(* no overlapped object that the pool or new supplied is ever in two places *)
(* at once: the stray acceptOvlap objects cannot break the ownership of the *)
(* others.                                                                  *)
THEOREM OwnershipHolds == Spec => []OverlappedOwned
  BY InitType, StepType, InitOwned, StepOwned, OwnedImplies, PTL DEF Spec

(***************************************************************************)
(* 3. Sessions.  Sessions relates the operations to the state of the       *)
(* sockets and holds always; Matched says that an object still holds what  *)
(* was written in it when it was posted or queued.  From these follow      *)
(* Slots, InLine and Counted: where every connection is, how many receives *)
(* a socket has, and what its counter counts.                              *)
(***************************************************************************)
(* What the operations of a set owe to the state of their sockets: a        *)
(* pending one belongs to the current socket, and so on.                    *)
SessionOK(set, sk) ==
  \A o \in set :
    /\ o.st = "pending" => ~o.stale
    /\ sk[o.conn] = "fresh" => o.stale
    /\ o.kind = "ACCEPT" /\ o.st = "pending" => sk[o.conn] = "listening"
    /\ o.st = "fail" /\ ~o.stale => sk[o.conn] = "gone"

(* An operation is named by its object and its number.                      *)
Named(set) == \A o, p \in set : o.ov = p.ov /\ o.n = p.n => o = p

(* One AcceptEx at a time listens for a connection.                         *)
Lone(set) ==
  \A o, p \in set :
    o.kind = "ACCEPT" /\ p.kind = "ACCEPT" /\ o.st = "pending" /\ p.st = "pending"
      /\ o.conn = p.conn => o = p

Sessions == SessionOK(ops, sock) /\ Named(ops) /\ Lone(ops)

(* The contents of the object of an operation, and of a queued object, are  *)
(* what was written when it was posted or queued.                           *)
Written(objs, o) ==
  /\ objs[o.ov].connObjNum = o.conn
  /\ objs[o.ov].taskType \in IF o.kind = "SEND" THEN {"SEND", "NEWSEND"} ELSE {o.kind}
  /\ IF o.kind = "ACCEPT" THEN o.ov = o.conn ELSE o.ov \in Objs

Sendable(objs, x, c) == x \in Objs /\ objs[x] \in {Filled("SEND", c), Filled("NEWSEND", c)}

Matching(objs, set, queue) ==
  /\ \A o \in set : Written(objs, o)
  /\ \A c \in Conns : \A i \in DOMAIN queue[c] : Sendable(objs, queue[c][i], c)

Matched == strays = {} => Matching(ovl, ops, sendQueue) /\ \A c \in Conns : ovLapPool[c] = 0

(* A connection waits, or has an operation that is not a send, or is unread.*)
Waiting(queue, c) == \E i \in DOMAIN queue : queue[i] = c
Slotted(queue, set, un, c) ==
  Waiting(queue, c) \/ (\E o \in set : o.conn = c /\ o.kind # "SEND") \/ c \in un
Slots == strays = {} => \A c \in Conns : Slotted(acceptQueue, ops, unread, c)

(* The operations of the present socket of c that are not sends: one, and   *)
(* one more for each late completion that posted a receive on that socket.  *)
Reads(set, c) == {o \in set : o.kind # "SEND" /\ o.conn = c /\ ~o.stale}
Bound(set, c, k) == IsFiniteSet(Reads(set, c)) /\ Cardinality(Reads(set, c)) <= k
InLine == strays = {} => \A c \in Conns : Bound(ops, c, 1 + late[c])

(* The objects of the sends of c. *)
SendOvs(set, c) == {x \in Ovs : \E o \in set : o.kind = "SEND" /\ o.conn = c /\ o.ov = x}
Tallied(size, queue, set, lost, c) ==
  /\ IsFiniteSet(SendOvs(set, c))
  /\ size = (Len(queue) + Cardinality(SendOvs(set, c)) + lost) % CountModulus
Counted ==
  strays = {} =>
    \A c \in Conns : Tallied(sendQueueSize[c], sendQueue[c], ops, lostSends[c], c)

SInv == Sessions /\ Matched /\ Slots /\ InLine /\ Counted

----------------------------------------------------------------------------
(* What the helpers do to a set of operations. *)

LEMMA NewOpFields ==
  ASSUME NEW p, NEW n, NEW c, NEW kind
  PROVE  /\ NewOp(p, n, c, kind).ov = p /\ NewOp(p, n, c, kind).n = n
         /\ NewOp(p, n, c, kind).conn = c /\ NewOp(p, n, c, kind).kind = kind
         /\ NewOp(p, n, c, kind).st = "pending" /\ ~NewOp(p, n, c, kind).stale
  BY DEF NewOp

(* An operation on c that is not an accept was started, or none was.        *)
Starts(p, c, kind, rest, after) ==
  /\ CanStart(c)
  /\ \E n \in 0 .. MaxAlias :
       after = rest \union {NewOp(p, n, c, kind)} /\ \A o \in rest : o.ov = p => o.n # n

(* What ConnUserRecv can do.                                                *)
RecvDoes(c, rest, r) ==
  \/ /\ r.ok
     /\ \E p \in Available : /\ Starts(p, c, "RECV", rest, r.ops) /\ r.pool = Take(p)
                             /\ r.ovl = [ovl EXCEPT ![p] = Filled("RECV", c)]
  \/ /\ ~r.ok /\ r.ops = rest /\ CanRefuse(c)
     /\ \E p \in Available : /\ r.pool = Take(p)
                             /\ r.ovl = [ovl EXCEPT ![p] = Filled("RECV", c)]
  \/ ~r.ok /\ r.ops = rest /\ Available = {} /\ r.pool = ovLapPool /\ r.ovl = ovl

LEMMA RecvOutcome ==
  ASSUME NEW c, NEW rest, NEW r \in RecvResults(c, rest)
  PROVE  RecvDoes(c, rest, r)
  <1>1. CASE r \in RecvStarted(c, rest)
    <2>1. PICK p \in {q \in Available : CanStart(c)} : \E after \in Posted(p, c, "RECV", rest) :
            r = RecvResult(TRUE, Take(p), [ovl EXCEPT ![p] = Filled("RECV", c)], after)
      BY <1>1 DEF RecvStarted
    <2>2. PICK after \in Posted(p, c, "RECV", rest) :
            r = RecvResult(TRUE, Take(p), [ovl EXCEPT ![p] = Filled("RECV", c)], after)
      BY <2>1
    <2>3. /\ r.ok /\ r.ops = after /\ r.pool = Take(p)
          /\ r.ovl = [ovl EXCEPT ![p] = Filled("RECV", c)]
      BY <2>2 DEF RecvResult
    <2>4. Starts(p, c, "RECV", rest, after)
      BY <2>1, PostedFresh DEF Starts
    <2> QED
      BY <2>1, <2>3, <2>4 DEF RecvDoes
  <1>2. CASE r \in RecvRefused(c, rest)
    <2>1. PICK p \in {q \in Available : CanRefuse(c)} :
            r = RecvResult(FALSE, Take(p), [ovl EXCEPT ![p] = Filled("RECV", c)], rest)
      BY <1>2 DEF RecvRefused
    <2>2. /\ ~r.ok /\ r.ops = rest /\ r.pool = Take(p)
          /\ r.ovl = [ovl EXCEPT ![p] = Filled("RECV", c)]
      BY <2>1 DEF RecvResult
    <2> QED
      BY <2>1, <2>2 DEF RecvDoes
  <1>3. CASE r \in RecvOnEmpty(rest)
    BY <1>3 DEF RecvOnEmpty, RecvResult, RecvDoes
  <1> QED
    BY <1>1, <1>2, <1>3 DEF RecvResults

LEMMA SendOutcome ==
  ASSUME NEW c, NEW size, NEW queue, NEW rest, NEW r \in AfterCount(c, size, queue, rest)
  PROVE  \/ r.queue = queue /\ r.ops = rest /\ r.lost = 0
         \/ /\ queue # <<>> /\ r.queue = Tail(queue)
            /\ \/ Starts(Head(queue), c, "SEND", rest, r.ops) /\ r.lost = 0
               \/ r.ops = rest /\ r.lost = 1
  <1>1. CASE r = SendResult(queue, rest, 0)
    BY <1>1 DEF SendResult
  <1>2. CASE queue # <<>> /\ CanStart(c) /\ (\E after \in Posted(Head(queue), c, "SEND", rest) :
                                               r = SendResult(Tail(queue), after, 0))
    <2>1. PICK after \in Posted(Head(queue), c, "SEND", rest) : r = SendResult(Tail(queue), after, 0)
      BY <1>2
    <2>2. Starts(Head(queue), c, "SEND", rest, after)
      BY <1>2, PostedFresh DEF Starts
    <2> QED
      BY <1>2, <2>1, <2>2 DEF SendResult
  <1>3. CASE queue # <<>> /\ r = SendResult(Tail(queue), rest, 1)
    BY <1>3 DEF SendResult
  <1> QED
    BY <1>1, <1>2, <1>3 DEF AfterCount, ProcSend

(* Closing c makes every operation of c stale, and no other.                *)
Shut(c, o) ==
  IF o.conn = c
    THEN [o EXCEPT !.st = IF @ = "pending" THEN "fail" ELSE @, !.stale = TRUE]
    ELSE o

LEMMA ShutFields ==
  ASSUME NEW c, NEW o \in Op
  PROVE  /\ Shut(c, o).ov = o.ov /\ Shut(c, o).n = o.n
         /\ Shut(c, o).conn = o.conn /\ Shut(c, o).kind = o.kind
         /\ o.conn = c => Shut(c, o).stale /\ Shut(c, o).st # "pending"
         /\ o.conn # c => Shut(c, o) = o
  BY DEF Shut, Op

LEMMA ClosedShut ==
  ASSUME NEW c, NEW set
  PROVE  Closed(c, set) = {Shut(c, o) : o \in set}
  BY DEF Closed, Shut

(* The kernel completes a pending operation, or a peer closes.              *)
Finishes(o, st, q) ==
  /\ q.ov = o.ov /\ q.n = o.n /\ q.conn = o.conn /\ q.kind = o.kind /\ q.stale = o.stale
  /\ q.st = st /\ o.st = "pending"
  /\ ops' = (ops \ {o}) \union {q}
  /\ o.kind = "ACCEPT" =>
       sock' = [sock EXCEPT ![o.conn] = IF st = "ok" THEN "connected" ELSE "gone"]
  /\ o.kind # "ACCEPT" => UNCHANGED sock /\ (st = "fail" => sock[o.conn] = "gone")

LEMMA KernelOutcome ==
  ASSUME ops \subseteq Op, Kernel
  PROVE  \/ \E c \in Conns : /\ sock[c] = "connected" /\ UNCHANGED ops
                             /\ sock' = [sock EXCEPT ![c] = "gone"]
         \/ \E o \in ops, st \in {"ok", "fail"}, q \in Op : Finishes(o, st, q)
  <1>1. ASSUME NEW o \in ops, NEW st \in {"ok", "fail"}, o.st = "pending", Completes(o, st),
               o.kind = "ACCEPT" =>
                 sock' = [sock EXCEPT ![o.conn] = IF st = "ok" THEN "connected" ELSE "gone"],
               o.kind # "ACCEPT" => UNCHANGED sock /\ (st = "fail" => sock[o.conn] = "gone")
        PROVE  \E q \in Op : Finishes(o, st, q)
    <2> DEFINE q == [o EXCEPT !.st = st]
    <2>1. /\ q \in Op /\ q.ov = o.ov /\ q.n = o.n /\ q.conn = o.conn /\ q.st = st
          /\ q.stale = o.stale /\ q.kind = o.kind
      BY <1>1 DEF Op
    <2>2. ops' = (ops \ {o}) \union {q}
      BY <1>1 DEF Completes
    <2> HIDE DEF q
    <2> QED
      BY <1>1, <2>1, <2>2 DEF Finishes
  <1>2. ASSUME NEW o \in ops, ClientConnects(o) PROVE \E q \in Op : Finishes(o, "ok", q)
    BY <1>1, <1>2 DEF ClientConnects
  <1>3. ASSUME NEW o \in ops, ClientAborts(o) PROVE \E q \in Op : Finishes(o, "fail", q)
    BY <1>1, <1>3 DEF ClientAborts
  <1>4. ASSUME NEW o \in ops, TransferDone(o) PROVE \E q \in Op : Finishes(o, "ok", q)
    BY <1>1, <1>4 DEF TransferDone
  <1>5. ASSUME NEW o \in ops, TransferFails(o) PROVE \E q \in Op : Finishes(o, "fail", q)
    BY <1>1, <1>5 DEF TransferFails
  <1>6. ASSUME NEW c \in Conns, PeerCloses(c)
        PROVE  sock[c] = "connected" /\ UNCHANGED ops /\ sock' = [sock EXCEPT ![c] = "gone"]
    BY <1>6 DEF PeerCloses
  <1> QED
    BY <1>2, <1>3, <1>4, <1>5, <1>6 DEF Kernel

----------------------------------------------------------------------------
(* Sessions. *)

LEMMA FewerSessions ==
  ASSUME NEW set, NEW sk, NEW less \in SUBSET set, SessionOK(set, sk), Named(set), Lone(set)
  PROVE  SessionOK(less, sk) /\ Named(less) /\ Lone(less)
  BY DEF SessionOK, Named, Lone

LEMMA StartSessions ==
  ASSUME NEW rest, NEW p, NEW c, NEW kind \in {"RECV", "SEND"}, NEW after,
         Starts(p, c, kind, rest, after), SessionOK(rest, sock), Named(rest), Lone(rest)
  PROVE  SessionOK(after, sock) /\ Named(after) /\ Lone(after)
  <1>1. PICK n : after = rest \union {NewOp(p, n, c, kind)} /\ \A o \in rest : o.ov = p => o.n # n
    BY DEF Starts
  <1> DEFINE q == NewOp(p, n, c, kind)
  <1>2. /\ q.ov = p /\ q.n = n /\ q.conn = c /\ q.kind # "ACCEPT" /\ q.st = "pending" /\ ~q.stale
        /\ sock[c] # "fresh"
    BY NewOpFields DEF Starts, CanStart
  <1> HIDE DEF q
  <1>3. after = rest \union {q}
    BY <1>1 DEF q
  <1> QED
    BY <1>1, <1>2, <1>3 DEF SessionOK, Named, Lone

LEMMA CloseSessions ==
  ASSUME NEW set \in SUBSET Op, NEW c \in Conns, NEW sk \in [Conns -> SockStates],
         SessionOK(set, sk), Named(set), Lone(set)
  PROVE  /\ SessionOK(Closed(c, set), [sk EXCEPT ![c] = "fresh"])
         /\ Named(Closed(c, set)) /\ Lone(Closed(c, set))
  <1>1. Closed(c, set) = {Shut(c, o) : o \in set}
    BY ClosedShut
  <1>2. \A o \in set : /\ Shut(c, o).ov = o.ov /\ Shut(c, o).n = o.n /\ Shut(c, o).conn = o.conn
                       /\ o.conn = c => Shut(c, o).stale /\ Shut(c, o).st # "pending"
                       /\ o.conn # c => Shut(c, o) = o
    BY ShutFields
  <1>3. \A d \in Conns : [sk EXCEPT ![c] = "fresh"][d] = IF d = c THEN "fresh" ELSE sk[d]
    OBVIOUS
  <1>4. \A o \in set : o.conn \in Conns
    BY DEF Op
  <1>5. ASSUME NEW o \in set
        PROVE  /\ Shut(c, o).st = "pending" => ~Shut(c, o).stale
               /\ [sk EXCEPT ![c] = "fresh"][Shut(c, o).conn] = "fresh" => Shut(c, o).stale
               /\ Shut(c, o).kind = "ACCEPT" /\ Shut(c, o).st = "pending" =>
                    [sk EXCEPT ![c] = "fresh"][Shut(c, o).conn] = "listening"
               /\ Shut(c, o).st = "fail" /\ ~Shut(c, o).stale =>
                    [sk EXCEPT ![c] = "fresh"][Shut(c, o).conn] = "gone"
    <2>1. CASE o.conn = c
      BY <1>2, <2>1
    <2>2. CASE o.conn # c
      BY <1>2, <1>3, <1>4, <2>2 DEF SessionOK
    <2> QED
      BY <2>1, <2>2
  <1>6. SessionOK(Closed(c, set), [sk EXCEPT ![c] = "fresh"])
    BY <1>1, <1>5 DEF SessionOK
  <1>7. Named(Closed(c, set))
    BY <1>1, <1>2 DEF Named
  <1>8. Lone(Closed(c, set))
    BY <1>1, <1>2 DEF Lone
  <1> QED
    BY <1>6, <1>7, <1>8

LEMMA InitSessions == Init => Sessions
  BY DEF Init, Sessions, SessionOK, Named, Lone

LEMMA PostAcceptSessions ==
  ASSUME TypeOK, Sessions, PostAccept
  PROVE  Sessions'
  <1>0. ops \subseteq Op /\ sock \in [Conns -> SockStates]
    BY DEF TypeOK
  <1>1. CASE UNCHANGED kernelVars
    BY <1>1 DEF kernelVars, Sessions
  <1>2. CASE ~UNCHANGED kernelVars
    <2> DEFINE c == Head(acceptQueue)
    <2>1. /\ sock[c] = "fresh" /\ sock' = [sock EXCEPT ![c] = "listening"]
          /\ ops' \in Posted(c, c, "ACCEPT", ops)
      BY <1>2 DEF PostAccept
    <2>2. acceptQueue \in Seq(Conns) /\ acceptQueue # <<>>
      BY DEF PostAccept, TypeOK
    <2>3. c \in Conns
      BY <2>2, QueueType
    <2> HIDE DEF c
    <2>4. PICK n \in 0 .. MaxAlias :
            ops' = ops \union {NewOp(c, n, c, "ACCEPT")} /\ \A o \in ops : o.ov = c => o.n # n
      BY <2>1, PostedFresh
    <2> DEFINE q == NewOp(c, n, c, "ACCEPT")
    <2>5. q.ov = c /\ q.n = n /\ q.conn = c /\ q.st = "pending" /\ ~q.stale
      BY NewOpFields
    <2> HIDE DEF q
    <2>6. ops' = ops \union {q}
      BY <2>4 DEF q
    <2>7. \A d \in Conns : sock'[d] = IF d = c THEN "listening" ELSE sock[d]
      BY <1>0, <2>1
    <2>8. \A o \in ops : o.conn \in Conns /\ (o.conn = c => o.stale)
      BY <1>0, <2>1 DEF Op, Sessions, SessionOK
    <2>9. SessionOK(ops', sock')
      BY <2>3, <2>5, <2>6, <2>7, <2>8 DEF Sessions, SessionOK
    <2>10. Named(ops')
      BY <2>4, <2>5, <2>6 DEF Sessions, Named
    <2>11. Lone(ops')
      BY <2>5, <2>6, <2>8 DEF Sessions, SessionOK, Lone
    <2> QED
      BY <2>9, <2>10, <2>11 DEF Sessions
  <1> QED
    BY <1>1, <1>2

LEMMA KernelSessions ==
  ASSUME TypeOK, Sessions, Kernel
  PROVE  Sessions'
  <1>0. ops \subseteq Op /\ sock \in [Conns -> SockStates] /\ SessionOK(ops, sock) /\ Named(ops)
        /\ Lone(ops)
    BY DEF TypeOK, Sessions
  <1>1. ASSUME NEW c \in Conns, sock[c] = "connected", UNCHANGED ops,
               sock' = [sock EXCEPT ![c] = "gone"]
        PROVE  Sessions'
    <2>1. \A d \in Conns : sock'[d] = IF d = c THEN "gone" ELSE sock[d]
      BY <1>0, <1>1
    <2>2. \A p \in ops : p.conn \in Conns
      BY <1>0 DEF Op
    <2>3. SessionOK(ops, sock')
      BY <1>0, <1>1, <2>1, <2>2 DEF SessionOK
    <2> QED
      BY <1>0, <1>1, <2>3 DEF Sessions
  <1>2. ASSUME NEW o \in ops, NEW st \in {"ok", "fail"}, NEW q, Finishes(o, st, q)
        PROVE  Sessions'
    <2>1. /\ q.ov = o.ov /\ q.n = o.n /\ q.conn = o.conn /\ q.st = st /\ q.kind = o.kind
          /\ ~q.stale /\ ~o.stale /\ ops' = (ops \ {o}) \union {q}
      BY <1>0, <1>2 DEF Finishes, SessionOK
    <2>2. Named(ops') /\ Lone(ops')
      BY <1>0, <2>1 DEF Named, Lone
    <2>3. \A p \in ops : p.conn \in Conns
      BY <1>0 DEF Op
    <2>4. CASE o.kind # "ACCEPT"
      <3>1. UNCHANGED sock /\ (st = "fail" => sock[o.conn] = "gone")
        BY <1>2, <2>4 DEF Finishes
      <3>2. sock[o.conn] # "fresh"
        BY <1>0, <2>1 DEF SessionOK
      <3>3. SessionOK(ops', sock)
        BY <1>0, <2>1, <2>4, <3>1, <3>2 DEF SessionOK
      <3> QED
        BY <2>2, <3>1, <3>3 DEF Sessions
    <2>5. CASE o.kind = "ACCEPT"
      <3>1. /\ sock' = [sock EXCEPT ![o.conn] = IF st = "ok" THEN "connected" ELSE "gone"]
            /\ o.st = "pending"
        BY <1>2, <2>5 DEF Finishes
      <3>2. \A d \in Conns : sock'[d] = IF d = o.conn
                                          THEN IF st = "ok" THEN "connected" ELSE "gone"
                                          ELSE sock[d]
        BY <1>0, <3>1
      <3>3. sock[o.conn] = "listening"
        BY <1>0, <2>5, <3>1 DEF SessionOK
      <3>4. ASSUME NEW p \in ops \ {o}
            PROVE  /\ p.st = "pending" => ~p.stale
                   /\ sock'[p.conn] = "fresh" => p.stale
                   /\ p.kind = "ACCEPT" /\ p.st = "pending" => sock'[p.conn] = "listening"
                   /\ p.st = "fail" /\ ~p.stale => sock'[p.conn] = "gone"
        <4>1. p.kind = "ACCEPT" /\ p.st = "pending" => p.conn # o.conn
          BY <1>0, <2>1, <2>5, <3>1 DEF Lone
        <4> QED
          BY <1>0, <2>3, <3>2, <3>3, <4>1 DEF SessionOK
      <3>5. SessionOK(ops', sock')
        BY <2>1, <2>3, <3>2, <3>4 DEF SessionOK
      <3> QED
        BY <2>2, <3>5 DEF Sessions
    <2> QED
      BY <2>4, <2>5
  <1> QED
    BY <1>0, <1>1, <1>2, KernelOutcome

LEMMA UserType ==
  ASSUME TypeOK, NEW o \in ops
  PROVE  UserOf(o) \in Conns /\ o \in Op /\ o.ov \in Ovs /\ o.conn \in Conns /\ ops \ {o} \in SUBSET Op
  BY DEF TypeOK, UserOf, Op

LEMMA WorkSessions ==
  ASSUME TypeOK, Sessions, NEW o \in ops,
         HandleDisconnect(o) \/ HandleAccept(o) \/ HandleRecv(o) \/ HandleSend(o)
  PROVE  Sessions'
  <1> DEFINE c == UserOf(o)
             rest == ops \ {o}
  <1>1. c \in Conns /\ rest \in SUBSET Op /\ sock \in [Conns -> SockStates]
    BY UserType DEF TypeOK
  <1>2. SessionOK(rest, sock) /\ Named(rest) /\ Lone(rest)
    BY FewerSessions DEF Sessions
  <1>3. ASSUME ops' = Closed(c, rest), sock' = [sock EXCEPT ![c] = "fresh"]
        PROVE  Sessions'
    <2> HIDE DEF c, rest
    <2> QED
      BY <1>1, <1>2, <1>3, CloseSessions DEF Sessions
  <1>4. ASSUME NEW r \in RecvResults(c, rest)
        PROVE  SessionOK(r.ops, sock) /\ Named(r.ops) /\ Lone(r.ops) /\ r.ops \in SUBSET Op
    <2> HIDE DEF c, rest
    <2>1. r.ops = rest \/ \E p : Starts(p, c, "RECV", rest, r.ops)
      BY <1>4, RecvOutcome DEF RecvDoes
    <2>2. r.ops \in SUBSET Op
      BY <1>1, RecvType
    <2> QED
      BY <1>2, <2>1, <2>2, StartSessions
  <1>5. CASE HandleDisconnect(o)
    BY <1>3, <1>5 DEF HandleDisconnect
  <1>6. CASE HandleAccept(o)
    <2>1. PICK r \in RecvResults(c, rest) :
            \/ ops' = r.ops /\ UNCHANGED sock
            \/ ops' = Closed(c, r.ops) /\ sock' = [sock EXCEPT ![c] = "fresh"]
      BY <1>6 DEF HandleAccept
    <2>2. SessionOK(r.ops, sock) /\ Named(r.ops) /\ Lone(r.ops) /\ r.ops \in SUBSET Op
      BY <1>4
    <2>3. CASE ops' = r.ops /\ UNCHANGED sock
      BY <2>2, <2>3 DEF Sessions
    <2>4. CASE ops' = Closed(c, r.ops) /\ sock' = [sock EXCEPT ![c] = "fresh"]
      <3> HIDE DEF c
      <3> QED
        BY <1>1, <2>2, <2>4, CloseSessions DEF Sessions
    <2> QED
      BY <2>1, <2>3, <2>4
  <1>7. CASE HandleRecv(o)
    <2>1. PICK r \in RecvResults(c, rest) : ops' = r.ops /\ UNCHANGED sock
      BY <1>7 DEF HandleRecv
    <2> QED
      BY <1>4, <2>1 DEF Sessions
  <1>8. CASE HandleSend(o)
    <2> DEFINE size == Decremented(sendQueueSize[c])
    <2>1. PICK r \in AfterCount(c, size, sendQueue[c], rest) : ops' = r.ops /\ UNCHANGED sock
      BY <1>8 DEF HandleSend
    <2> HIDE DEF c, rest, size
    <2>2. r.ops = rest \/ \E p : Starts(p, c, "SEND", rest, r.ops)
      BY SendOutcome
    <2> QED
      BY <1>2, <2>1, <2>2, StartSessions DEF Sessions
  <1> QED
    BY <1>5, <1>6, <1>7, <1>8

LEMMA PushSessions ==
  ASSUME Sessions, NEW c \in Conns, PushSendMsg(c)
  PROVE  Sessions'
  <1>1. PICK p \in Ovs : \E r \in AfterCount(c, Incremented(sendQueueSize[c]), Append(sendQueue[c], p), ops) :
          ops' = r.ops
    BY DEF PushSendMsg
  <1>2. PICK r \in AfterCount(c, Incremented(sendQueueSize[c]), Append(sendQueue[c], p), ops) :
          ops' = r.ops
    BY <1>1
  <1>3. UNCHANGED sock
    BY DEF PushSendMsg
  <1>4. r.ops = ops \/ \E q : Starts(q, c, "SEND", ops, r.ops)
    BY SendOutcome
  <1> QED
    BY <1>2, <1>3, <1>4, StartSessions DEF Sessions

LEMMA StepSessions == TypeOK /\ Sessions /\ [Next]_vars => Sessions'
  <1> SUFFICES ASSUME TypeOK, Sessions, [Next]_vars PROVE Sessions'
    OBVIOUS
  <1>1. CASE WorkThread
    <2>1. PICK o \in ops : \/ HandleDisconnect(o) \/ HandleAccept(o) \/ HandleRecv(o)
                           \/ HandleSend(o) \/ CrashOnEmptyPool(o)
      BY <1>1 DEF WorkThread
    <2>2. CASE CrashOnEmptyPool(o)
      BY <2>2 DEF CrashOnEmptyPool, kernelVars, Sessions
    <2> QED
      BY <2>1, <2>2, WorkSessions
  <1>2. CASE UNCHANGED vars
    BY <1>2 DEF vars, kernelVars, Sessions
  <1> QED
    BY <1>1, <1>2, PostAcceptSessions, KernelSessions, PushSessions DEF Next

----------------------------------------------------------------------------
(* What was written in an object is there when its completion is handled.   *)

Unused(set, queue, x) == ~InOps(set, x) /\ ~Queued(queue, x)

LEMMA WriteUnused ==
  ASSUME NEW objs \in [Ovs -> Contents], NEW set \in SUBSET Op, NEW queue,
         NEW p \in Ovs, NEW v, Unused(set, queue, p), Matching(objs, set, queue)
  PROVE  Matching([objs EXCEPT ![p] = v], set, queue)
  <1>1. \A o \in set : o.ov \in Ovs /\ o.ov # p
    BY DEF Op, Unused, InOps
  <1>2. \A c \in Conns : \A i \in DOMAIN queue[c] : queue[c][i] \in Ovs /\ queue[c][i] # p
    BY ObjsAreOvs DEF Unused, Queued, Matching, Sendable
  <1> DEFINE after == [objs EXCEPT ![p] = v]
  <1>3. \A x \in Ovs : x # p => after[x] = objs[x]
    OBVIOUS
  <1> HIDE DEF after
  <1>4. Matching(after, set, queue)
    BY <1>1, <1>2, <1>3 DEF Matching, Written, Sendable
  <1> QED
    BY <1>4 DEF after

LEMMA MoreMatching ==
  ASSUME NEW objs, NEW set, NEW queue, NEW q, Written(objs, q), Matching(objs, set, queue)
  PROVE  Matching(objs, set \union {q}, queue)
  BY DEF Matching

LEMMA FewerMatching ==
  ASSUME NEW objs, NEW set, NEW queue, NEW less \in SUBSET set, Matching(objs, set, queue)
  PROVE  Matching(objs, less, queue)
  BY DEF Matching

LEMMA CloseMatching ==
  ASSUME NEW objs, NEW set \in SUBSET Op, NEW queue, NEW c, Matching(objs, set, queue)
  PROVE  Matching(objs, Closed(c, set), queue)
  <1>1. \A o \in set : Written(objs, o) => Written(objs, Shut(c, o))
    BY ShutFields DEF Written
  <1> QED
    BY <1>1, ClosedShut DEF Matching

LEMMA SendMatching ==
  ASSUME NEW objs, NEW set, NEW queue \in [Conns -> Seq(Ovs)],
         NEW c \in Conns, NEW size, NEW r \in AfterCount(c, size, queue[c], set),
         Matching(objs, set, queue)
  PROVE  Matching(objs, r.ops, [queue EXCEPT ![c] = r.queue])
  <1> DEFINE after == [queue EXCEPT ![c] = r.queue]
  <1>1. after[c] = r.queue /\ \A d \in Conns : d # c => after[d] = queue[d]
    OBVIOUS
  <1> HIDE DEF after
  <1>2. CASE r.queue = queue[c] /\ r.ops = set
    <2>1. \A d \in Conns : after[d] = queue[d]
      BY <1>1, <1>2
    <2>2. Matching(objs, set, after)
      BY <2>1 DEF Matching
    <2> QED
      BY <1>2, <2>2 DEF after
  <1>3. CASE queue[c] # <<>> /\ r.queue = Tail(queue[c])
    <2>0. queue[c] \in Seq(Ovs)
      OBVIOUS
    <2>1. /\ \A i \in DOMAIN after[c] : i + 1 \in DOMAIN queue[c] /\ after[c][i] = queue[c][i + 1]
          /\ 1 \in DOMAIN queue[c] /\ Head(queue[c]) = queue[c][1]
      BY <1>1, <1>3, <2>0
    <2>2. \A d \in Conns : \A i \in DOMAIN after[d] : Sendable(objs, after[d][i], d)
      BY <1>1, <2>1 DEF Matching
    <2>3. Matching(objs, set, after)
      BY <2>2 DEF Matching
    <2>4. Sendable(objs, Head(queue[c]), c)
      BY <2>1 DEF Matching
    <2>5. CASE r.ops = set
      BY <2>3, <2>5 DEF after
    <2>6. CASE Starts(Head(queue[c]), c, "SEND", set, r.ops)
      <3>1. PICK n : r.ops = set \union {NewOp(Head(queue[c]), n, c, "SEND")}
        BY <2>6 DEF Starts
      <3>2. Written(objs, NewOp(Head(queue[c]), n, c, "SEND"))
        BY <2>4, NewOpFields DEF Written, Sendable, Filled
      <3> QED
        BY <2>3, <3>1, <3>2, MoreMatching DEF after
    <2> QED
      BY <1>3, <2>5, <2>6, SendOutcome
  <1> QED
    BY <1>2, <1>3, SendOutcome

(* ConnUserRecv takes an object that is not in use, and none that is        *)
(* embedded in a connection.                                                *)
LEMMA AvailableUnused ==
  ASSUME TypeOK, NEW set, NEW hand, NEW p \in Available,
         p \in Objs => Owned(ovLapPool, ovl, set, sendQueue, hand, p),
         \A c \in Conns : ovLapPool[c] = 0
  PROVE  p \in Objs /\ p \in Ovs /\ Unused(set, sendQueue, p) /\ p \notin hand
  <1>1. p \in Ovs /\ ovLapPool[p] \in Nat /\ ovLapPool[p] > 0
    BY DEF Available, TypeOK
  <1>2. p \in Objs
    BY <1>1 DEF Objs, Ovs
  <1>3. ovLapPool[p] = 1
    BY <1>1, <1>2 DEF Owned, Marked
  <1> QED
    BY <1>1, <1>2, <1>3 DEF Owned, Loose, Unused

LEMMA RecvMatching ==
  ASSUME TypeOK, NEW set \in SUBSET Op, NEW hand, NEW c \in Conns, NEW r \in RecvResults(c, set),
         \A x \in Objs : Owned(ovLapPool, ovl, set, sendQueue, hand, x),
         \A d \in Conns : ovLapPool[d] = 0,
         Matching(ovl, set, sendQueue)
  PROVE  Matching(r.ovl, r.ops, sendQueue) /\ \A d \in Conns : r.pool[d] = 0
  <1>0. ovl \in [Ovs -> Contents] /\ ovLapPool \in [Ovs -> Nat]
    BY DEF TypeOK, Contents
  <1>1. ASSUME NEW p \in Available
        PROVE  /\ Matching([ovl EXCEPT ![p] = Filled("RECV", c)], set, sendQueue)
               /\ \A d \in Conns : Take(p)[d] = 0
               /\ \A n : Written([ovl EXCEPT ![p] = Filled("RECV", c)], NewOp(p, n, c, "RECV"))
    <2>1. p \in Objs /\ p \in Ovs /\ Unused(set, sendQueue, p)
      BY AvailableUnused
    <2>2. Matching([ovl EXCEPT ![p] = Filled("RECV", c)], set, sendQueue)
      BY <1>0, <2>1, WriteUnused
    <2>3. \A d \in Conns : Take(p)[d] = 0
      BY <1>0, <2>1, ObjsAreOvs, ConnsAreOvs DEF Take
    <2>4. [ovl EXCEPT ![p] = Filled("RECV", c)][p] = Filled("RECV", c)
      BY <1>0, <2>1
    <2>5. \A n : Written([ovl EXCEPT ![p] = Filled("RECV", c)], NewOp(p, n, c, "RECV"))
      BY <2>1, <2>4, NewOpFields DEF Written, Filled
    <2> QED
      BY <2>2, <2>3, <2>5
  <1>2. ASSUME NEW p \in Available, Starts(p, c, "RECV", set, r.ops), r.pool = Take(p),
               r.ovl = [ovl EXCEPT ![p] = Filled("RECV", c)]
        PROVE  Matching(r.ovl, r.ops, sendQueue) /\ \A d \in Conns : r.pool[d] = 0
    <2>1. PICK n : r.ops = set \union {NewOp(p, n, c, "RECV")}
      BY <1>2 DEF Starts
    <2> QED
      BY <1>1, <1>2, <2>1, MoreMatching
  <1>3. ASSUME NEW p \in Available, r.ops = set, r.pool = Take(p),
               r.ovl = [ovl EXCEPT ![p] = Filled("RECV", c)]
        PROVE  Matching(r.ovl, r.ops, sendQueue) /\ \A d \in Conns : r.pool[d] = 0
    BY <1>1, <1>3
  <1>4. CASE r.ops = set /\ r.pool = ovLapPool /\ r.ovl = ovl
    BY <1>4
  <1>5. RecvDoes(c, set, r)
    BY RecvOutcome
  <1> QED
    BY <1>2, <1>3, <1>4, <1>5 DEF RecvDoes

(* A worker that strays nothing finished an object from the pool or new.    *)
LEMMA NoStray ==
  ASSUME TypeOK, Matched, NEW o \in ops, StraysAfter(o.ov) = {}
  PROVE  strays = {} /\ o.kind # "ACCEPT" /\ o.ov \in Objs /\ o.ov \notin Conns
  <1>1. strays = {}
    BY DEF StraysAfter
  <1>2. Written(ovl, o)
    BY <1>1 DEF Matched, Matching
  <1>3. o.kind = "ACCEPT" => FALSE
    BY <1>2, UserType DEF Written, StraysAfter, FromNew
  <1> QED
    BY <1>1, <1>2, <1>3, ObjsAreOvs DEF Written

(* The object of a finished operation is written over by nobody else.       *)
LEMMA ReturnMatching ==
  ASSUME TypeOK, NEW objs \in [Ovs -> Contents], NEW pool \in [Ovs -> Nat], NEW set \in SUBSET Op,
         NEW y \in Objs, Owned(pool, objs, set, sendQueue, {y}, y),
         Matching(objs, set, sendQueue), \A c \in Conns : pool[c] = 0
  PROVE  /\ Matching(OvlAfter(objs, y), set, sendQueue)
         /\ \A c \in Conns : PoolAfter(pool, y)[c] = 0
  <1>1. Unused(set, sendQueue, y)
    BY DEF Owned, Loose, Unused
  <1>2. y \in Ovs /\ y \notin Conns
    BY ObjsAreOvs
  <1> QED
    BY <1>1, <1>2, WriteUnused, ConnsAreOvs DEF OvlAfter, PoolAfter

LEMMA InitMatched == Init => Matched
  <1> SUFFICES ASSUME Init PROVE Matching(ovl, ops, sendQueue) /\ \A c \in Conns : ovLapPool[c] = 0
    BY DEF Matched
  <1>1. Matching(ovl, ops, sendQueue)
    BY DEF Init, Matching
  <1>2. \A c \in Conns : ovLapPool[c] = 0
    BY ConnAssumption, ConnsAreOvs DEF Init
  <1> QED
    BY <1>1, <1>2

LEMMA PostAcceptMatched ==
  ASSUME TypeOK, Matched, PostAccept
  PROVE  Matched'
  <1> SUFFICES ASSUME strays' = {}
               PROVE  Matching(ovl', ops', sendQueue') /\ \A d \in Conns : ovLapPool'[d] = 0
    BY DEF Matched
  <1> DEFINE c == Head(acceptQueue)
  <1>1. /\ ovl' = [ovl EXCEPT ![c] = Filled("ACCEPT", c)]
        /\ ops' = ops \/ ops' \in Posted(c, c, "ACCEPT", ops)
        /\ ovLapPool' = ovLapPool /\ sendQueue' = sendQueue /\ strays' = strays
    BY DEF PostAccept, kernelVars, sendVars, history
  <1>2. c \in Conns /\ c \in Ovs
    <2>1. acceptQueue \in Seq(Conns) /\ acceptQueue # <<>>
      BY DEF PostAccept, TypeOK
    <2> QED
      BY <2>1, QueueType, ConnsAreOvs
  <1>3. Matching(ovl, ops, sendQueue) /\ \A d \in Conns : ovLapPool[d] = 0
    BY <1>1 DEF Matched
  <1> HIDE DEF c
  <1>4. /\ ovl'[c] = Filled("ACCEPT", c) /\ \A x \in Ovs : x # c => ovl'[x] = ovl[x]
        /\ \A o \in ops : o.ov \in Ovs
    BY <1>1, <1>2 DEF TypeOK, Op
  <1>5. c \notin Objs
    BY <1>2, ObjsAreOvs
  <1>6. ASSUME NEW o \in ops PROVE Written(ovl', o)
    <2>1. Written(ovl, o)
      BY <1>3 DEF Matching
    <2>2. CASE o.ov = c
      BY <1>4, <1>5, <2>1, <2>2 DEF Written, Filled
    <2>3. CASE o.ov # c
      BY <1>4, <2>1, <2>3 DEF Written
    <2> QED
      BY <2>2, <2>3
  <1>7. \A d \in Conns : \A i \in DOMAIN sendQueue[d] : Sendable(ovl', sendQueue[d][i], d)
    BY <1>3, <1>4, <1>5, ObjsAreOvs DEF Matching, Sendable
  <1>8. Matching(ovl', ops, sendQueue)
    BY <1>6, <1>7 DEF Matching
  <1>9. \A n : Written(ovl', NewOp(c, n, c, "ACCEPT"))
    BY <1>4, NewOpFields DEF Written, Filled
  <1>10. Matching(ovl', ops', sendQueue)
    <2>1. CASE ops' \in Posted(c, c, "ACCEPT", ops)
      <3>1. PICK n : ops' = ops \union {NewOp(c, n, c, "ACCEPT")}
        BY <2>1, PostedFresh
      <3> QED
        BY <1>8, <1>9, <3>1, MoreMatching
    <2> QED
      BY <1>1, <1>8, <2>1
  <1> QED
    BY <1>1, <1>3, <1>10

LEMMA KernelMatched ==
  ASSUME TypeOK, Matched, Kernel
  PROVE  Matched'
  <1> SUFFICES ASSUME strays' = {}
               PROVE  Matching(ovl', ops', sendQueue') /\ \A d \in Conns : ovLapPool'[d] = 0
    BY DEF Matched
  <1>1. UNCHANGED <<ovLapPool, ovl, sendQueue, strays>>
    BY DEF Kernel, poolVars, sendVars, history
  <1>2. Matching(ovl, ops, sendQueue) /\ \A d \in Conns : ovLapPool[d] = 0
    BY <1>1 DEF Matched
  <1>3. Matching(ovl, ops', sendQueue)
    <2>1. CASE UNCHANGED ops
      BY <1>2, <2>1
    <2>2. ASSUME NEW o \in ops, NEW st, NEW q, Finishes(o, st, q)
          PROVE  Matching(ovl, ops', sendQueue)
      <3>1. /\ q.ov = o.ov /\ q.conn = o.conn /\ q.kind = o.kind
            /\ ops' = (ops \ {o}) \union {q}
        BY <2>2 DEF Finishes
      <3>2. Written(ovl, o) => Written(ovl, q)
        BY <3>1 DEF Written
      <3> QED
        BY <1>2, <3>1, <3>2 DEF Matching
    <2>3. ops \subseteq Op
      BY DEF TypeOK
    <2> QED
      BY <2>1, <2>2, <2>3, KernelOutcome
  <1> QED
    BY <1>1, <1>2, <1>3

LEMMA WorkMatched ==
  ASSUME TypeOK, AllOwned, Matched, NEW o \in ops,
         HandleDisconnect(o) \/ HandleAccept(o) \/ HandleRecv(o) \/ HandleSend(o)
  PROVE  Matched'
  <1> SUFFICES ASSUME strays' = {}
               PROVE  Matching(ovl', ops', sendQueue') /\ \A d \in Conns : ovLapPool'[d] = 0
    BY DEF Matched
  <1> DEFINE c == UserOf(o)
             rest == ops \ {o}
  <1>0. /\ c \in Conns /\ rest \in SUBSET Op /\ o.ov \in Ovs
        /\ ovl \in [Ovs -> Contents] /\ ovLapPool \in [Ovs -> Nat]
        /\ sendQueue \in [Conns -> Seq(Ovs)]
    BY UserType DEF TypeOK, Contents
  <1>1. strays = {} /\ (~HandleAccept(o) => StraysAfter(o.ov) = {})
    BY DEF StraysAfter, HandleDisconnect, HandleAccept, HandleRecv, HandleSend
  <1>2. Matching(ovl, ops, sendQueue) /\ \A d \in Conns : ovLapPool[d] = 0
    BY <1>1 DEF Matched
  <1>3. Matching(ovl, rest, sendQueue)
    BY <1>2, FewerMatching
  <1>4. \A x \in Objs : Owned(ovLapPool, ovl, rest, sendQueue, {o.ov}, x)
    BY Finish DEF AllOwned
  <1>5. ~HandleAccept(o) => o.ov \in Objs /\ o.ov \notin Conns
    BY <1>1, NoStray
  <1>6. ASSUME ~HandleAccept(o)
        PROVE  /\ Matching(OvlAfter(ovl, o.ov), rest, sendQueue)
               /\ \A d \in Conns : PoolAfter(ovLapPool, o.ov)[d] = 0
    <2> HIDE DEF rest
    <2>1. o.ov \in Objs /\ Owned(ovLapPool, ovl, rest, sendQueue, {o.ov}, o.ov)
      BY <1>4, <1>5, <1>6
    <2>2. \A d \in Conns : ovLapPool[d] = 0
      BY <1>2
    <2>3. TypeOK /\ ovl \in [Ovs -> Contents] /\ ovLapPool \in [Ovs -> Nat] /\ rest \in SUBSET Op
      BY <1>0
    <2> QED
      BY <1>3, <2>1, <2>2, <2>3, ReturnMatching
  <1>7. CASE HandleDisconnect(o)
    <2>1. /\ ovLapPool' = PoolAfter(ovLapPool, o.ov) /\ ovl' = OvlAfter(ovl, o.ov)
          /\ ops' = Closed(c, rest) /\ UNCHANGED sendQueue
      BY <1>7 DEF HandleDisconnect, sendVars
    <2>2. ~HandleAccept(o)
      BY <1>7 DEF HandleDisconnect, HandleAccept
    <2> HIDE DEF c, rest
    <2> QED
      BY <1>0, <1>6, <2>1, <2>2, CloseMatching
  <1>8. CASE HandleAccept(o)
    <2>1. PICK r \in RecvResults(c, rest) :
            /\ ovLapPool' = r.pool /\ ovl' = r.ovl
            /\ ops' = r.ops \/ ops' = Closed(c, r.ops)
      BY <1>8 DEF HandleAccept
    <2>2. UNCHANGED sendQueue
      BY <1>8 DEF HandleAccept, sendVars
    <2> HIDE DEF c, rest
    <2>3. Matching(r.ovl, r.ops, sendQueue) /\ \A d \in Conns : r.pool[d] = 0
      BY <1>0, <1>2, <1>3, <1>4, RecvMatching
    <2>4. r.ops \in SUBSET Op
      BY <1>0, RecvType
    <2> QED
      BY <2>1, <2>2, <2>3, <2>4, CloseMatching
  <1>9. CASE HandleRecv(o)
    <2>1. PICK r \in RecvResults(c, rest) :
            /\ ops' = r.ops
            /\ ovLapPool' = PoolAfter(r.pool, o.ov) /\ ovl' = OvlAfter(r.ovl, o.ov)
      BY <1>9 DEF HandleRecv
    <2>2. UNCHANGED sendQueue /\ ~HandleAccept(o)
      BY <1>9 DEF HandleRecv, HandleAccept, sendVars
    <2> HIDE DEF c, rest
    <2>3. Matching(r.ovl, r.ops, sendQueue) /\ \A d \in Conns : r.pool[d] = 0
      BY <1>0, <1>2, <1>3, <1>4, RecvMatching
    <2>4. r.ops \in SUBSET Op /\ r.ovl \in [Ovs -> Contents] /\ r.pool \in [Ovs -> Nat]
      BY <1>0, RecvType
    <2>5. Owned(r.pool, r.ovl, r.ops, sendQueue, {o.ov}, o.ov)
      BY <1>0, <1>4, <1>5, <2>2, RecvMove
    <2> QED
      BY <1>5, <2>1, <2>2, <2>3, <2>4, <2>5, ReturnMatching
  <1>10. CASE HandleSend(o)
    <2> DEFINE size == Decremented(sendQueueSize[c])
    <2>1. PICK r \in AfterCount(c, size, sendQueue[c], rest) :
            ops' = r.ops /\ sendQueue' = [sendQueue EXCEPT ![c] = r.queue]
      BY <1>10 DEF HandleSend
    <2>2. /\ ovLapPool' = PoolAfter(ovLapPool, o.ov) /\ ovl' = OvlAfter(ovl, o.ov)
          /\ ~HandleAccept(o)
      BY <1>10 DEF HandleSend, HandleAccept
    <2> HIDE DEF c, rest, size
    <2> QED
      BY <1>0, <1>6, <2>1, <2>2, SendMatching
  <1> QED
    BY <1>7, <1>8, <1>9, <1>10

(* PushSendMsg queues an object that is not in use.                         *)
PushTakes(c, p) ==
  /\ p \in Objs /\ Unused(ops, sendQueue, p) /\ \A d \in Conns : ovLapPool'[d] = 0
  /\ \E type \in {"SEND", "NEWSEND"} : ovl' = [ovl EXCEPT ![p] = Filled(type, c)]
  /\ sendQueueSize' = [sendQueueSize EXCEPT ![c] = Incremented(sendQueueSize[c])]
  /\ \E r \in AfterCount(c, Incremented(sendQueueSize[c]), Append(sendQueue[c], p), ops) :
       /\ ops' = r.ops
       /\ sendQueue' = [sendQueue EXCEPT ![c] = r.queue]
       /\ lostSends' = Lost(c, r.lost)

LEMMA PushOutcome ==
  ASSUME TypeOK, AllOwned, Matched, strays = {}, NEW c \in Conns, PushSendMsg(c)
  PROVE  \E p \in Ovs : PushTakes(c, p)
  <1> DEFINE size == Incremented(sendQueueSize[c])
  <1>0. ovl \in [Ovs -> Contents] /\ ovLapPool \in [Ovs -> Nat]
    BY DEF TypeOK, Contents
  <1>1. PICK p \in Ovs :
          /\ \/ /\ p \in Available
                /\ ovLapPool' = Take(p)
                /\ ovl' = [ovl EXCEPT ![p] = Filled("SEND", c)]
             \/ /\ p \in HeapOvs /\ ovl[p] = Free
                /\ ovl' = [ovl EXCEPT ![p] = Filled("NEWSEND", c)]
                /\ ovLapPool' = ovLapPool
          /\ sendQueueSize' = [sendQueueSize EXCEPT ![c] = Incremented(@)]
          /\ \E r \in AfterCount(c, size, Append(sendQueue[c], p), ops) :
               /\ ops' = r.ops
               /\ sendQueue' = [sendQueue EXCEPT ![c] = r.queue]
               /\ lostSends' = Lost(c, r.lost)
    BY DEF PushSendMsg
  <1>2. \A d \in Conns : ovLapPool[d] = 0
    BY DEF Matched
  <1>3. \A x \in Objs : Owned(ovLapPool, ovl, ops, sendQueue, {}, x)
    BY DEF AllOwned
  <1>4. /\ p \in Objs /\ Unused(ops, sendQueue, p)
        /\ \A d \in Conns : ovLapPool'[d] = 0
        /\ \E type \in {"SEND", "NEWSEND"} : ovl' = [ovl EXCEPT ![p] = Filled(type, c)]
    <2>1. CASE p \in Available /\ ovLapPool' = Take(p) /\ ovl' = [ovl EXCEPT ![p] = Filled("SEND", c)]
      <3>1. p \in Objs /\ Unused(ops, sendQueue, p)
        BY <1>2, <1>3, <2>1, AvailableUnused
      <3>2. \A d \in Conns : d # p
        BY <3>1, ObjsAreOvs
      <3>3. \A d \in Conns : ovLapPool'[d] = ovLapPool[d]
        BY <1>0, <2>1, <3>2, ConnsAreOvs DEF Take
      <3> QED
        BY <1>2, <2>1, <3>1, <3>3
    <2>2. CASE /\ p \in HeapOvs /\ ovl[p] = Free /\ ovl' = [ovl EXCEPT ![p] = Filled("NEWSEND", c)]
               /\ ovLapPool' = ovLapPool
      <3>1. p \in Objs
        BY <2>2 DEF Objs
      <3>2. Unused(ops, sendQueue, p)
        BY <1>3, <2>2, <3>1 DEF Owned, Loose, Free, Unused
      <3> QED
        BY <1>2, <2>2, <3>1, <3>2
    <2> QED
      BY <1>1, <2>1, <2>2
  <1> QED
    BY <1>1, <1>4 DEF PushTakes

LEMMA PushMatched ==
  ASSUME TypeOK, AllOwned, Matched, NEW c \in Conns, PushSendMsg(c)
  PROVE  Matched'
  <1> SUFFICES ASSUME strays' = {}
               PROVE  Matching(ovl', ops', sendQueue') /\ \A d \in Conns : ovLapPool'[d] = 0
    BY DEF Matched
  <1> DEFINE size == Incremented(sendQueueSize[c])
  <1>0. /\ ops \in SUBSET Op
        /\ ovl \in [Ovs -> Contents]
        /\ sendQueue \in [Conns -> Seq(Ovs)]
    BY DEF TypeOK, Contents
  <1>1. strays = {}
    BY DEF PushSendMsg
  <1>2. PICK p \in Ovs : PushTakes(c, p)
    BY <1>1, PushOutcome
  <1>3. PICK r \in AfterCount(c, size, Append(sendQueue[c], p), ops) :
               /\ ops' = r.ops
               /\ sendQueue' = [sendQueue EXCEPT ![c] = r.queue]
    BY <1>2 DEF PushTakes
  <1> HIDE DEF size
  <1>4. Matching(ovl, ops, sendQueue)
    BY <1>1 DEF Matched
  <1>6. /\ p \in Objs /\ Unused(ops, sendQueue, p)
        /\ \A d \in Conns : ovLapPool'[d] = 0
        /\ \E type \in {"SEND", "NEWSEND"} : ovl' = [ovl EXCEPT ![p] = Filled(type, c)]
    BY <1>2 DEF PushTakes
  <1>7. PICK type \in {"SEND", "NEWSEND"} : ovl' = [ovl EXCEPT ![p] = Filled(type, c)]
    BY <1>6
  <1>8. Matching(ovl', ops, sendQueue) /\ Sendable(ovl', p, c)
    <2>1. Matching(ovl', ops, sendQueue)
      BY <1>0, <1>4, <1>6, <1>7, WriteUnused
    <2> QED
      BY <1>0, <1>6, <1>7, <2>1 DEF Sendable
  <1> DEFINE pushed == [sendQueue EXCEPT ![c] = Append(sendQueue[c], p)]
  <1>9. /\ pushed \in [Conns -> Seq(Ovs)]
        /\ pushed[c] = Append(sendQueue[c], p) /\ \A d \in Conns : d # c => pushed[d] = sendQueue[d]
        /\ [pushed EXCEPT ![c] = r.queue] = sendQueue'
    <2>1. Append(sendQueue[c], p) \in Seq(Ovs)
      BY <1>0
    <2>2. pushed \in [Conns -> Seq(Ovs)]
      BY <1>0, <2>1
    <2>3. pushed[c] = Append(sendQueue[c], p) /\ \A d \in Conns : d # c => pushed[d] = sendQueue[d]
      BY <1>0
    <2>4. [pushed EXCEPT ![c] = r.queue] = [sendQueue EXCEPT ![c] = r.queue]
      BY <1>0
    <2> QED
      BY <1>3, <2>2, <2>3, <2>4
  <1> HIDE DEF pushed
  <1>10. Matching(ovl', ops, pushed)
    <2>1. \A i \in DOMAIN pushed[c] : pushed[c][i] = p \/ (i \in DOMAIN sendQueue[c] /\ pushed[c][i] = sendQueue[c][i])
      <3>1. sendQueue[c] \in Seq(Ovs)
        BY <1>0
      <3> QED
        BY <1>9, <3>1
    <2>2. \A d \in Conns : \A i \in DOMAIN pushed[d] : Sendable(ovl', pushed[d][i], d)
      BY <1>8, <1>9, <2>1 DEF Matching
    <2> QED
      BY <1>8, <2>2 DEF Matching
  <1>11. Matching(ovl', r.ops, [pushed EXCEPT ![c] = r.queue])
    BY <1>3, <1>9, <1>10, SendMatching
  <1> QED
    BY <1>3, <1>6, <1>9, <1>11

LEMMA StepMatched == TypeOK /\ AllOwned /\ Matched /\ [Next]_vars => Matched'
  <1> SUFFICES ASSUME TypeOK, AllOwned, Matched, [Next]_vars PROVE Matched'
    OBVIOUS
  <1>1. CASE WorkThread
    <2>1. PICK o \in ops : \/ HandleDisconnect(o) \/ HandleAccept(o) \/ HandleRecv(o)
                           \/ HandleSend(o) \/ CrashOnEmptyPool(o)
      BY <1>1 DEF WorkThread
    <2>2. CASE CrashOnEmptyPool(o)
      BY <2>2 DEF CrashOnEmptyPool, kernelVars, poolVars, sendVars, history, Matched
    <2> QED
      BY <2>1, <2>2, WorkMatched
  <1>2. CASE UNCHANGED vars
    BY <1>2 DEF vars, kernelVars, poolVars, sendVars, history, Matched
  <1> QED
    BY <1>1, <1>2, PostAcceptMatched, KernelMatched, PushMatched DEF Next

----------------------------------------------------------------------------
(* While nothing has strayed, a completion is taken for what was posted.    *)

LEMMA TakenFor ==
  ASSUME Matched, strays = {}, NEW o \in ops
  PROVE  /\ UserOf(o) = o.conn
         /\ o.kind = "SEND" => TaskOf(o) \in {"SEND", "NEWSEND"}
         /\ o.kind # "SEND" => TaskOf(o) = o.kind
  BY DEF Matched, Matching, Written, UserOf, TaskOf

LEMMA HandledAs ==
  ASSUME TypeOK, Matched, strays = {}, NEW o \in ops
  PROVE  /\ HandleDisconnect(o) => o.st = "fail"
         /\ HandleAccept(o) => o.kind = "ACCEPT"
         /\ HandleRecv(o) => o.kind = "RECV"
         /\ HandleSend(o) => o.kind = "SEND"
  <1>1. o.kind \in {"ACCEPT", "RECV", "SEND"}
    BY UserType DEF Op
  <1> QED
    BY <1>1, TakenFor DEF HandleDisconnect, HandleAccept, HandleRecv, HandleSend, Disconnected

(* Nothing is forgotten to have strayed.                                    *)
LEMMA StraysGrow ==
  ASSUME [Next]_vars, strays' = {}
  PROVE  strays = {}
  <1>1. CASE WorkThread
    <2>1. PICK o \in ops : \/ HandleDisconnect(o) \/ HandleAccept(o) \/ HandleRecv(o)
                           \/ HandleSend(o) \/ CrashOnEmptyPool(o)
      BY <1>1 DEF WorkThread
    <2> QED
      BY <2>1 DEF HandleDisconnect, HandleAccept, HandleRecv, HandleSend, CrashOnEmptyPool,
                  StraysAfter, history
  <1>2. CASE PostAccept \/ Kernel \/ UNCHANGED vars
    BY <1>2 DEF PostAccept, Kernel, vars, history
  <1>3. ASSUME NEW c \in Conns, PushSendMsg(c) PROVE UNCHANGED strays
    BY <1>3 DEF PushSendMsg
  <1> QED
    BY <1>1, <1>2, <1>3 DEF Next

----------------------------------------------------------------------------
(* Slots. *)

LEMMA TailWaits ==
  ASSUME NEW queue \in Seq(Conns), queue # <<>>, NEW d, Waiting(queue, d), d # Head(queue)
  PROVE  Waiting(Tail(queue), d)
  <1>1. PICK i \in DOMAIN queue : queue[i] = d
    BY DEF Waiting
  <1>2. i \in 1 .. Len(queue) /\ Len(queue) \in Nat /\ Head(queue) = queue[1]
    BY <1>1
  <1>3. i - 1 \in 1 .. Len(queue) - 1
    BY <1>1, <1>2
  <1>4. i - 1 \in DOMAIN Tail(queue) /\ Tail(queue)[i - 1] = queue[i]
    BY <1>2, <1>3
  <1> QED
    BY <1>1, <1>4 DEF Waiting

LEMMA AppendWaits ==
  ASSUME NEW queue \in Seq(Conns), NEW e \in Conns
  PROVE  /\ Waiting(Append(queue, e), e)
         /\ \A d : Waiting(queue, d) => Waiting(Append(queue, e), d)
  <1>1. /\ Len(queue) \in Nat /\ DOMAIN queue = 1 .. Len(queue)
        /\ DOMAIN Append(queue, e) = 1 .. Len(queue) + 1
        /\ Append(queue, e)[Len(queue) + 1] = e
        /\ \A i \in 1 .. Len(queue) : Append(queue, e)[i] = queue[i]
    OBVIOUS
  <1>2. Len(queue) + 1 \in DOMAIN Append(queue, e) /\ DOMAIN queue \subseteq DOMAIN Append(queue, e)
    BY <1>1
  <1> QED
    BY <1>1, <1>2 DEF Waiting

(* An operation of another kind, or of another connection, may go.          *)
LEMMA SlotStays ==
  ASSUME NEW queue, NEW set, NEW un, NEW d, NEW o, Slotted(queue, set, un, d),
         o.kind = "SEND" \/ o.conn # d
  PROVE  Slotted(queue, set \ {o}, un, d)
  BY DEF Slotted

LEMMA CloseSlots ==
  ASSUME NEW queue \in Seq(Conns), NEW set \in SUBSET Op, NEW un, NEW c \in Conns, NEW d,
         d = c \/ Slotted(queue, set, un, d)
  PROVE  Slotted(Append(queue, c), Closed(c, set), un \ {c}, d)
  <1>1. CASE d = c
    BY <1>1, AppendWaits DEF Slotted
  <1>2. CASE d # c
    <2>1. \A o \in set : Shut(c, o).conn = o.conn /\ Shut(c, o).kind = o.kind
      BY ShutFields
    <2>2. \A o \in set : \E q \in Closed(c, set) : q.conn = o.conn /\ q.kind = o.kind
      BY <2>1, ClosedShut
    <2> QED
      BY <1>2, <2>2, AppendWaits DEF Slotted
  <1> QED
    BY <1>1, <1>2

LEMMA InitSlots == Init => Slots
  <1> SUFFICES ASSUME Init, NEW c \in Conns PROVE Waiting(acceptQueue, c)
    BY DEF Slots, Slotted
  <1>1. acceptQueue = [i \in 1 .. MaxClientCount |-> i - 1]
    BY DEF Init
  <1>2. c + 1 \in 1 .. MaxClientCount /\ (c + 1) - 1 = c
    BY ConnAssumption DEF Conns
  <1>3. acceptQueue[c + 1] = c /\ c + 1 \in DOMAIN acceptQueue
    BY <1>1, <1>2
  <1> QED
    BY <1>3 DEF Waiting

LEMMA PostAcceptSlots ==
  ASSUME TypeOK, Slots, PostAccept
  PROVE  Slots'
  <1> SUFFICES ASSUME strays' = {}, NEW d \in Conns
               PROVE  Slotted(acceptQueue', ops', unread', d)
    BY DEF Slots
  <1> DEFINE c == Head(acceptQueue)
  <1>1. /\ acceptQueue \in Seq(Conns) /\ acceptQueue # <<>>
        /\ UNCHANGED <<strays, unread>>
        /\ \/ acceptQueue' = Tail(acceptQueue) /\ ops' \in Posted(c, c, "ACCEPT", ops)
           \/ acceptQueue' = Append(Tail(acceptQueue), c) /\ UNCHANGED ops
    BY DEF PostAccept, TypeOK, kernelVars, history
  <1>2. c \in Conns /\ Tail(acceptQueue) \in Seq(Conns)
    BY <1>1, QueueType
  <1>3. Slotted(acceptQueue, ops, unread, d)
    BY <1>1 DEF Slots
  <1>4. d # c /\ Waiting(acceptQueue, d) => Waiting(Tail(acceptQueue), d)
    BY <1>1, TailWaits
  <1> HIDE DEF c
  <1>5. CASE acceptQueue' = Append(Tail(acceptQueue), c) /\ UNCHANGED ops
    BY <1>1, <1>2, <1>3, <1>4, <1>5, AppendWaits DEF Slotted
  <1>6. CASE acceptQueue' = Tail(acceptQueue) /\ ops' \in Posted(c, c, "ACCEPT", ops)
    <2>1. PICK n : ops' = ops \union {NewOp(c, n, c, "ACCEPT")}
      BY <1>6, PostedFresh
    <2>2. NewOp(c, n, c, "ACCEPT").conn = c /\ NewOp(c, n, c, "ACCEPT").kind # "SEND"
      BY NewOpFields
    <2> QED
      BY <1>1, <1>3, <1>4, <1>6, <2>1, <2>2 DEF Slotted
  <1> QED
    BY <1>1, <1>5, <1>6

LEMMA KernelSlots ==
  ASSUME TypeOK, Slots, Kernel
  PROVE  Slots'
  <1> SUFFICES ASSUME strays' = {}, NEW d \in Conns
               PROVE  Slotted(acceptQueue', ops', unread', d)
    BY DEF Slots
  <1>1. UNCHANGED <<acceptQueue, unread, strays>>
    BY DEF Kernel, history
  <1>2. Slotted(acceptQueue, ops, unread, d)
    BY <1>1 DEF Slots
  <1>3. ASSUME NEW o \in ops, NEW st, NEW q, Finishes(o, st, q)
        PROVE  Slotted(acceptQueue', ops', unread', d)
    BY <1>1, <1>2, <1>3 DEF Finishes, Slotted
  <1>4. CASE UNCHANGED ops
    BY <1>1, <1>2, <1>4
  <1>5. ops \subseteq Op
    BY DEF TypeOK
  <1> QED
    BY <1>3, <1>4, <1>5, KernelOutcome

LEMMA WorkSlots ==
  ASSUME TypeOK, Matched, Slots, [Next]_vars, NEW o \in ops,
         HandleDisconnect(o) \/ HandleAccept(o) \/ HandleRecv(o) \/ HandleSend(o)
  PROVE  Slots'
  <1> SUFFICES ASSUME strays' = {}, NEW d \in Conns
               PROVE  Slotted(acceptQueue', ops', unread', d)
    BY DEF Slots
  <1> DEFINE c == UserOf(o)
             rest == ops \ {o}
  <1>0. strays = {} /\ c = o.conn /\ c \in Conns /\ rest \in SUBSET Op /\ acceptQueue \in Seq(Conns)
    BY StraysGrow, TakenFor, UserType DEF TypeOK
  <1>1. Slotted(acceptQueue, ops, unread, d)
    BY <1>0 DEF Slots
  <1>2. o.kind = "SEND" \/ d # c => Slotted(acceptQueue, rest, unread, d)
    BY <1>0, <1>1, SlotStays
  <1>3. ASSUME NEW kind, NEW p, NEW after, Starts(p, c, kind, rest, after)
        PROVE  /\ Slotted(acceptQueue, rest, unread, d) => Slotted(acceptQueue, after, unread, d)
               /\ kind # "SEND" => Slotted(acceptQueue, after, unread, c)
    <2> HIDE DEF c, rest
    <2>1. PICK n : after = rest \union {NewOp(p, n, c, kind)}
      BY <1>3 DEF Starts
    <2> QED
      BY <2>1, NewOpFields DEF Slotted
  <1> HIDE DEF c, rest
  <1>r. ASSUME NEW r \in RecvResults(c, rest)
        PROVE  /\ d = c \/ Slotted(acceptQueue, r.ops, unread, d)
               /\ r.ok => Slotted(acceptQueue, r.ops, unread, c)
               /\ r.ops \in SUBSET Op
    <2>1. (\E p : Starts(p, c, "RECV", rest, r.ops)) \/ (~r.ok /\ r.ops = rest)
      BY <1>r, RecvOutcome DEF RecvDoes
    <2>2. ASSUME NEW p, Starts(p, c, "RECV", rest, r.ops)
          PROVE  /\ Slotted(acceptQueue, rest, unread, d) => Slotted(acceptQueue, r.ops, unread, d)
                 /\ Slotted(acceptQueue, r.ops, unread, c)
      BY <1>3, <2>2
    <2>3. d = c \/ Slotted(acceptQueue, rest, unread, d)
      BY <1>2
    <2>4. r.ops \in SUBSET Op
      BY <1>0, <1>r, RecvType
    <2> QED
      BY <2>1, <2>2, <2>3, <2>4
  <1>4. CASE HandleDisconnect(o)
    <2>1. /\ ops' = Closed(c, rest) /\ acceptQueue' = Append(acceptQueue, c)
          /\ unread' = unread \ {c}
      BY <1>4 DEF HandleDisconnect, Requeue, c, rest
    <2>2. d = c \/ Slotted(acceptQueue, rest, unread, d)
      BY <1>2
    <2> QED
      BY <1>0, <2>1, <2>2, CloseSlots
  <1>5. CASE HandleAccept(o)
    <2>1. PICK r \in RecvResults(c, rest) :
            \/ r.ok /\ ops' = r.ops /\ UNCHANGED <<acceptQueue, unread>>
            \/ /\ ops' = Closed(c, r.ops)
               /\ acceptQueue' = Append(acceptQueue, c) /\ unread' = unread \ {c}
      BY <1>5 DEF HandleAccept, Requeue, c, rest
    <2>2. CASE r.ok /\ ops' = r.ops /\ UNCHANGED <<acceptQueue, unread>>
      BY <1>r, <2>2
    <2>3. CASE /\ ops' = Closed(c, r.ops)
               /\ acceptQueue' = Append(acceptQueue, c) /\ unread' = unread \ {c}
      BY <1>0, <1>r, <2>3, CloseSlots
    <2> QED
      BY <2>1, <2>2, <2>3
  <1>6. CASE HandleRecv(o)
    <2>1. PICK r \in RecvResults(c, rest) :
            /\ ops' = r.ops /\ UNCHANGED acceptQueue
            /\ unread' = IF r.ok THEN unread ELSE unread \union {c}
      BY <1>6 DEF HandleRecv, c, rest
    <2>2. CASE r.ok
      BY <1>r, <2>1, <2>2
    <2>3. CASE ~r.ok
      BY <1>r, <2>1, <2>3 DEF Slotted
    <2> QED
      BY <2>2, <2>3
  <1>7. CASE HandleSend(o)
    <2> DEFINE size == Decremented(sendQueueSize[c])
    <2>1. PICK r \in AfterCount(c, size, sendQueue[c], rest) :
            ops' = r.ops /\ UNCHANGED <<acceptQueue, unread>>
      BY <1>7 DEF HandleSend, c, rest
    <2> HIDE DEF size
    <2>2. o.kind = "SEND"
      BY <1>0, <1>7, HandledAs
    <2>3. r.ops = rest \/ \E p : Starts(p, c, "SEND", rest, r.ops)
      BY SendOutcome
    <2> QED
      BY <1>2, <1>3, <2>1, <2>2, <2>3
  <1> QED
    BY <1>4, <1>5, <1>6, <1>7

LEMMA PushGrows ==
  ASSUME NEW c \in Conns, PushSendMsg(c)
  PROVE  /\ UNCHANGED <<acceptQueue, sock, strays, late, unread>>
         /\ ops' = ops \/ \E p : Starts(p, c, "SEND", ops, ops')
  <1>1. PICK p \in Ovs : \E r \in AfterCount(c, Incremented(sendQueueSize[c]), Append(sendQueue[c], p), ops) :
          ops' = r.ops
    BY DEF PushSendMsg
  <1>2. PICK r \in AfterCount(c, Incremented(sendQueueSize[c]), Append(sendQueue[c], p), ops) :
          ops' = r.ops
    BY <1>1
  <1>3. r.ops = ops \/ \E q : Starts(q, c, "SEND", ops, r.ops)
    BY SendOutcome
  <1> QED
    BY <1>2, <1>3 DEF PushSendMsg

LEMMA StepSlots == TypeOK /\ Matched /\ Slots /\ [Next]_vars => Slots'
  <1> SUFFICES ASSUME TypeOK, Matched, Slots, [Next]_vars PROVE Slots'
    OBVIOUS
  <1>1. CASE WorkThread
    <2>1. PICK o \in ops : \/ HandleDisconnect(o) \/ HandleAccept(o) \/ HandleRecv(o)
                           \/ HandleSend(o) \/ CrashOnEmptyPool(o)
      BY <1>1 DEF WorkThread
    <2>2. CASE CrashOnEmptyPool(o)
      BY <2>2 DEF CrashOnEmptyPool, kernelVars, history, Slots
    <2> QED
      BY <2>1, <2>2, WorkSlots
  <1>2. ASSUME NEW c \in Conns, PushSendMsg(c) PROVE Slots'
    <2>1. UNCHANGED <<acceptQueue, strays, unread>> /\ ops \subseteq ops'
      BY <1>2, PushGrows DEF Starts
    <2> QED
      BY <2>1 DEF Slots, Slotted
  <1>3. CASE UNCHANGED vars
    BY <1>3 DEF vars, kernelVars, history, Slots
  <1> QED
    BY <1>1, <1>2, <1>3, PostAcceptSlots, KernelSlots DEF Next

----------------------------------------------------------------------------
(* Receives. *)

LEMMA BoundFewer ==
  ASSUME NEW set, NEW other, NEW d, NEW k, Bound(set, d, k),
         Reads(other, d) \subseteq Reads(set, d), k \in Nat
  PROVE  Bound(other, d, k)
  <1> DEFINE S == Reads(set, d)
             T == Reads(other, d)
  <1>1. IsFiniteSet(S) /\ Cardinality(S) <= k /\ T \in SUBSET S
    BY DEF Bound
  <1> HIDE DEF S, T
  <1>2. IsFiniteSet(T) /\ Cardinality(T) <= Cardinality(S) /\ Cardinality(S) \in Nat
        /\ Cardinality(T) \in Nat
    BY <1>1, FS_Subset, FS_CardinalityType
  <1>3. Cardinality(T) <= k
    BY <1>1, <1>2
  <1> QED
    BY <1>2, <1>3 DEF Bound, T

LEMMA BoundMore ==
  ASSUME NEW set, NEW other, NEW d, NEW k, NEW q, Bound(set, d, k),
         Reads(other, d) \subseteq Reads(set, d) \union {q}, k \in Nat
  PROVE  Bound(other, d, k + 1)
  <1> DEFINE S == Reads(set, d)
             T == Reads(other, d)
             U == S \union {q}
  <1>1. IsFiniteSet(S) /\ Cardinality(S) <= k /\ T \in SUBSET U
    BY DEF Bound
  <1>2. IsFiniteSet(U) /\ Cardinality(U) <= Cardinality(S) + 1
    <2> HIDE DEF S, T
    <2>1. Cardinality(S) \in Nat
      BY <1>1, FS_CardinalityType
    <2> QED
      BY <1>1, <2>1, FS_AddElement
  <1> HIDE DEF S, T, U
  <1>3. IsFiniteSet(T) /\ Cardinality(T) <= Cardinality(U)
    BY <1>1, <1>2, FS_Subset
  <1>4. Cardinality(S) \in Nat /\ Cardinality(T) \in Nat /\ Cardinality(U) \in Nat
    BY <1>1, <1>2, <1>3, FS_CardinalityType
  <1>5. Cardinality(T) <= k + 1
    BY <1>1, <1>2, <1>3, <1>4
  <1> QED
    BY <1>3, <1>5 DEF Bound, T

(* An operation that counts makes room for another.                         *)
LEMMA BoundDrop ==
  ASSUME NEW set, NEW o \in set, NEW d, NEW k \in Nat, Bound(set, d, k + 1),
         o.kind # "SEND", o.conn = d, ~o.stale
  PROVE  Bound(set \ {o}, d, k)
  <1> DEFINE S == Reads(set, d)
             T == Reads(set \ {o}, d)
  <1>1. IsFiniteSet(S) /\ Cardinality(S) <= k + 1 /\ T = S \ {o} /\ o \in S
    BY DEF Bound, Reads
  <1> HIDE DEF S, T
  <1>2. Cardinality(S) \in Nat /\ IsFiniteSet(T) /\ Cardinality(T) = Cardinality(S) - 1
    BY <1>1, FS_CardinalityType, FS_RemoveElement
  <1>3. Cardinality(T) <= k
    BY <1>1, <1>2
  <1> QED
    BY <1>2, <1>3 DEF Bound, T

LEMMA BoundStart ==
  ASSUME NEW rest, NEW p, NEW c, NEW kind, NEW after, Starts(p, c, kind, rest, after),
         NEW d, NEW k \in Nat, Bound(rest, d, k)
  PROVE  /\ Bound(after, d, k + 1)
         /\ kind = "SEND" \/ d # c => Bound(after, d, k)
  <1>1. PICK n : after = rest \union {NewOp(p, n, c, kind)}
    BY DEF Starts
  <1> DEFINE q == NewOp(p, n, c, kind)
  <1>2. q.conn = c /\ q.kind = kind
    BY NewOpFields
  <1> HIDE DEF q
  <1>3. after = rest \union {q}
    BY <1>1 DEF q
  <1>4. Reads(after, d) \subseteq Reads(rest, d) \union {q}
    BY <1>3 DEF Reads
  <1>5. kind = "SEND" \/ d # c => Reads(after, d) \subseteq Reads(rest, d)
    BY <1>2, <1>3 DEF Reads
  <1> QED
    BY <1>4, <1>5, BoundFewer, BoundMore

LEMMA BoundClose ==
  ASSUME NEW set \in SUBSET Op, NEW c, NEW d, NEW k \in Nat, d = c \/ Bound(set, d, k)
  PROVE  Bound(Closed(c, set), d, k)
  <1>1. \A o \in set : /\ Shut(c, o).conn = o.conn
                       /\ o.conn = c => Shut(c, o).stale
                       /\ o.conn # c => Shut(c, o) = o
    BY ShutFields
  <1>2. CASE d = c
    <2>1. Reads(Closed(c, set), d) = {}
      BY <1>1, <1>2, ClosedShut DEF Reads
    <2> QED
      BY <2>1, FS_EmptySet DEF Bound
  <1>3. CASE d # c
    <2>1. Reads(Closed(c, set), d) \subseteq Reads(set, d)
      BY <1>1, <1>3, ClosedShut DEF Reads
    <2> QED
      BY <1>3, <2>1, BoundFewer
  <1> QED
    BY <1>2, <1>3

(* A completion does not change what an operation counts for.               *)
LEMMA BoundFinish ==
  ASSUME NEW set, NEW o \in set, NEW q, NEW d, NEW k \in Nat, Bound(set, d, k + 1),
         q.conn = o.conn, q.kind = o.kind, q.stale = o.stale
  PROVE  Bound((set \ {o}) \union {q}, d, k + 1)
  <1>1. CASE o.kind # "SEND" /\ o.conn = d /\ ~o.stale
    <2>1. Bound(set \ {o}, d, k)
      BY <1>1, BoundDrop
    <2>2. Reads((set \ {o}) \union {q}, d) \subseteq Reads(set \ {o}, d) \union {q}
      BY DEF Reads
    <2> QED
      BY <2>1, <2>2, BoundMore
  <1>2. CASE ~(o.kind # "SEND" /\ o.conn = d /\ ~o.stale)
    <2>1. Reads((set \ {o}) \union {q}, d) \subseteq Reads(set, d)
      BY <1>2 DEF Reads
    <2>2. k + 1 \in Nat
      OBVIOUS
    <2> QED
      BY <2>1, <2>2, BoundFewer
  <1> QED
    BY <1>1, <1>2

LEMMA InitInLine == Init => InLine
  <1> SUFFICES ASSUME Init, NEW c \in Conns PROVE Bound(ops, c, 1 + late[c])
    BY DEF InLine
  <1>1. Reads(ops, c) = {} /\ late[c] = 0
    BY DEF Init, Reads
  <1> QED
    BY <1>1, FS_EmptySet DEF Bound

LEMMA PostAcceptInLine ==
  ASSUME TypeOK, Sessions, InLine, PostAccept
  PROVE  InLine'
  <1> SUFFICES ASSUME strays' = {}, NEW d \in Conns
               PROVE  Bound(ops', d, 1 + late'[d])
    BY DEF InLine
  <1> DEFINE c == Head(acceptQueue)
             k == late[d]
  <1>1. /\ strays = {} /\ late' = late /\ k \in Nat
        /\ \/ sock[c] = "fresh" /\ ops' \in Posted(c, c, "ACCEPT", ops)
           \/ UNCHANGED ops
    BY DEF PostAccept, TypeOK, kernelVars, history
  <1>2. Bound(ops, d, 1 + late[d])
    BY <1>1 DEF InLine
  <1> HIDE DEF c
  <1>3. CASE UNCHANGED ops
    BY <1>1, <1>2, <1>3
  <1>4. CASE sock[c] = "fresh" /\ ops' \in Posted(c, c, "ACCEPT", ops)
    <2>1. PICK n : ops' = ops \union {NewOp(c, n, c, "ACCEPT")}
      BY <1>4, PostedFresh
    <2> DEFINE q == NewOp(c, n, c, "ACCEPT")
               after == ops \union {q}
    <2>2. q.conn = c
      BY NewOpFields
    <2> HIDE DEF q
    <2>3. CASE d = c
      <3>1. \A o \in ops : o.conn = c => o.stale
        BY <1>4 DEF Sessions, SessionOK
      <3>2. Reads(ops, d) = {}
        BY <2>3, <3>1 DEF Reads
      <3>3. Bound(ops, d, k)
        BY <1>1, <3>2, FS_EmptySet DEF Bound
      <3>4. Reads(after, d) \subseteq Reads(ops, d) \union {q}
        BY DEF Reads
      <3> HIDE DEF k, after
      <3>5. Bound(after, d, k + 1)
        BY <1>1, <3>3, <3>4, BoundMore
      <3>6. k + 1 = 1 + k
        BY <1>1
      <3> QED
        BY <1>1, <2>1, <3>5, <3>6 DEF k, after, q
    <2>4. CASE d # c
      <3>1. Reads(after, d) \subseteq Reads(ops, d)
        BY <2>2, <2>4 DEF Reads
      <3>2. 1 + k \in Nat
        BY <1>1
      <3>3. Bound(after, d, 1 + k)
        BY <1>2, <3>1, <3>2, BoundFewer
      <3> QED
        BY <1>1, <2>1, <3>3 DEF k, after, q
    <2> QED
      BY <2>3, <2>4
  <1> QED
    BY <1>1, <1>3, <1>4

LEMMA KernelInLine ==
  ASSUME TypeOK, InLine, Kernel
  PROVE  InLine'
  <1> SUFFICES ASSUME strays' = {}, NEW d \in Conns
               PROVE  Bound(ops', d, 1 + late'[d])
    BY DEF InLine
  <1>1. ops \subseteq Op /\ late' = late /\ strays = {} /\ late[d] \in Nat
    BY DEF Kernel, history, TypeOK
  <1>2. Bound(ops, d, 1 + late[d]) /\ 1 + late[d] = late[d] + 1
    BY <1>1 DEF InLine
  <1>3. ASSUME NEW o \in ops, NEW st, NEW q, Finishes(o, st, q)
        PROVE  Bound(ops', d, 1 + late'[d])
    <2>1. Bound((ops \ {o}) \union {q}, d, late[d] + 1)
      BY <1>1, <1>2, <1>3, BoundFinish DEF Finishes
    <2> QED
      BY <1>1, <1>2, <1>3, <2>1 DEF Finishes
  <1>4. CASE UNCHANGED ops
    BY <1>1, <1>2, <1>4
  <1> QED
    BY <1>1, <1>3, <1>4, KernelOutcome

LEMMA LateOf ==
  ASSUME strays = {}, late \in [Conns -> Nat], NEW c \in Conns, NEW d \in Conns, NEW k \in Nat
  PROVE  LateAfter(c, k)[d] = IF d = c THEN k ELSE late[d]
  BY DEF LateAfter

(* A handler closes the socket and forgets its late completions; or posts a *)
(* receive in the place of the completion it handles, or in addition to     *)
(* what the socket has if the completion is late; or posts none.            *)
LEMMA WorkInLine ==
  ASSUME TypeOK, Matched, InLine, NEW o \in ops, strays = {},
         HandleDisconnect(o) \/ HandleAccept(o) \/ HandleRecv(o) \/ HandleSend(o),
         NEW d \in Conns
  PROVE  Bound(ops', d, 1 + late'[d])
  <1> DEFINE c == UserOf(o)
             rest == ops \ {o}
             k == late[d]
             j == late[c] + IfLate(o)
  <1>0. /\ c = o.conn /\ c \in Conns /\ rest \in SUBSET Op /\ late \in [Conns -> Nat]
        /\ o.stale \in BOOLEAN
    BY TakenFor, UserType DEF TypeOK, Op
  <1>1. k \in Nat /\ late[c] \in Nat /\ IfLate(o) \in {0, 1}
    BY <1>0 DEF IfLate
  <1>n. /\ 1 + k \in Nat /\ 1 + k = k + 1 /\ j \in Nat /\ 0 \in Nat
        /\ j = late[c] + IfLate(o)
    BY <1>1
  <1>2. Bound(ops, d, 1 + k)
    BY DEF InLine
  <1>3. Bound(rest, d, 1 + k)
    <2>1. Reads(rest, d) \subseteq Reads(ops, d)
      BY DEF Reads
    <2> HIDE DEF rest, k
    <2> QED
      BY <1>2, <1>n, <2>1, BoundFewer
  <1>4. d = c /\ o.kind # "SEND" => Bound(rest, d, j)
    <2> SUFFICES ASSUME d = c, o.kind # "SEND" PROVE Bound(rest, d, j)
      OBVIOUS
    <2>1. CASE o.stale
      <3>1. j = 1 + k
        BY <1>1, <2>1 DEF IfLate
      <3> QED
        BY <1>3, <3>1
    <2>2. CASE ~o.stale
      <3>1. j = k
        BY <1>1, <2>2 DEF IfLate
      <3>2. Bound(ops, d, k + 1)
        BY <1>2, <1>n
      <3> HIDE DEF j, k
      <3>3. Bound(rest, d, k)
        BY <1>0, <1>1, <2>2, <3>2, BoundDrop
      <3> QED
        BY <3>1, <3>3
    <2> QED
      BY <2>1, <2>2, <1>0
  <1>c. ASSUME NEW set \in SUBSET Op, d = c \/ Bound(set, d, 1 + k),
               ops' = Closed(c, set), late' = LateAfter(c, 0)
        PROVE  Bound(ops', d, 1 + late'[d])
    <2>1. CASE d = c
      <3>1. late'[d] = 0 /\ 1 + late'[d] \in Nat
        BY <1>0, <1>c, <1>n, <2>1, LateOf
      <3> HIDE DEF c
      <3> DEFINE m == 1 + late'[d]
      <3>2. m \in Nat
        BY <3>1
      <3> HIDE DEF m
      <3>3. Bound(Closed(c, set), d, m)
        BY <2>1, <3>2, BoundClose
      <3> QED
        BY <1>c, <3>3 DEF m
    <2>2. CASE d # c
      <3>1. late'[d] = k
        BY <1>0, <1>c, <1>n, <2>2, LateOf
      <3> HIDE DEF c, k
      <3>2. Bound(Closed(c, set), d, 1 + k)
        BY <1>c, <1>n, <2>2, BoundClose
      <3> QED
        BY <1>c, <3>1, <3>2
    <2> QED
      BY <2>1, <2>2
  <1> HIDE DEF c, rest, j, k
  <1>r. ASSUME NEW r \in RecvResults(c, rest), o.kind # "SEND"
        PROVE  /\ r.ops \in SUBSET Op
               /\ d = c => Bound(r.ops, d, j + 1)
               /\ d # c => Bound(r.ops, d, 1 + k)
               /\ ~r.ok => Bound(r.ops, d, 1 + k)
    <2>1. (\E p : Starts(p, c, "RECV", rest, r.ops)) \/ r.ops = rest
      BY <1>r, RecvOutcome DEF RecvDoes
    <2>2. ~r.ok => r.ops = rest
      BY <1>r, RecvOutcome DEF RecvDoes
    <2>3. r.ops \in SUBSET Op
      BY <1>0, <1>r, RecvType
    <2>4. CASE r.ops = rest
      <3>1. d = c => Bound(rest, d, j + 1)
        <4>1. d = c => Reads(rest, d) \subseteq Reads(rest, d) \union {o}
          OBVIOUS
        <4> QED
          BY <1>4, <1>r, <1>n, <4>1, BoundMore
      <3> QED
        BY <1>3, <2>3, <2>4, <3>1
    <2>5. ASSUME NEW p, Starts(p, c, "RECV", rest, r.ops)
          PROVE  /\ d = c => Bound(r.ops, d, j + 1)
                 /\ d # c => Bound(r.ops, d, 1 + k)
      <3>1. d = c => Bound(r.ops, d, j + 1)
        BY <1>4, <1>r, <1>n, <2>5, BoundStart
      <3>2. d # c => Bound(r.ops, d, 1 + k)
        BY <1>3, <1>n, <2>5, BoundStart
      <3> QED
        BY <3>1, <3>2
    <2> QED
      BY <1>3, <2>1, <2>2, <2>3, <2>4, <2>5
  <1>p. ASSUME NEW r \in RecvResults(c, rest), o.kind # "SEND", ops' = r.ops, late' = LateAfter(c, j)
        PROVE  Bound(ops', d, 1 + late'[d])
    <2>1. CASE d = c
      <3>1. late'[d] = j /\ 1 + j = j + 1
        BY <1>0, <1>n, <1>p, <2>1, LateOf
      <3>2. Bound(r.ops, d, j + 1)
        BY <1>r, <1>p, <2>1
      <3> QED
        BY <1>p, <3>1, <3>2
    <2>2. CASE d # c
      <3>1. late'[d] = k
        BY <1>0, <1>n, <1>p, <2>2, LateOf DEF k
      <3>2. Bound(r.ops, d, 1 + k)
        BY <1>r, <1>p, <2>2
      <3> QED
        BY <1>p, <3>1, <3>2
    <2> QED
      BY <2>1, <2>2
  <1>6. CASE HandleDisconnect(o)
    <2>1. ops' = Closed(c, rest) /\ late' = LateAfter(c, 0)
      BY <1>6 DEF HandleDisconnect, c, rest
    <2> QED
      BY <1>0, <1>3, <1>c, <2>1
  <1>7. CASE HandleAccept(o)
    <2>0. o.kind # "SEND"
      BY <1>7, HandledAs
    <2>1. PICK r \in RecvResults(c, rest) :
            \/ ops' = r.ops /\ late' = LateAfter(c, j)
            \/ ~r.ok /\ ops' = Closed(c, r.ops) /\ late' = LateAfter(c, 0)
      BY <1>7 DEF HandleAccept, c, rest, j
    <2>2. /\ r.ops \in SUBSET Op
          /\ ~r.ok => Bound(r.ops, d, 1 + k)
      BY <1>r, <2>0
    <2>3. CASE ops' = r.ops /\ late' = LateAfter(c, j)
      BY <1>p, <2>0, <2>3
    <2>4. CASE ~r.ok /\ ops' = Closed(c, r.ops) /\ late' = LateAfter(c, 0)
      BY <1>c, <2>2, <2>4
    <2> QED
      BY <2>1, <2>3, <2>4
  <1>8. CASE HandleRecv(o)
    <2>0. o.kind # "SEND"
      BY <1>8, HandledAs
    <2>1. PICK r \in RecvResults(c, rest) :
            ops' = r.ops /\ late' = IF r.ok THEN LateAfter(c, j) ELSE late
      BY <1>8 DEF HandleRecv, c, rest, j
    <2>2. CASE r.ok
      BY <1>p, <2>0, <2>1, <2>2
    <2>3. CASE ~r.ok
      <3>1. Bound(r.ops, d, 1 + k)
        BY <1>r, <2>0, <2>3
      <3> QED
        BY <2>1, <2>3, <3>1 DEF k
    <2> QED
      BY <2>2, <2>3
  <1>9. CASE HandleSend(o)
    <2> DEFINE size == Decremented(sendQueueSize[c])
    <2>1. PICK r \in AfterCount(c, size, sendQueue[c], rest) : ops' = r.ops /\ UNCHANGED late
      BY <1>9 DEF HandleSend, c, rest
    <2> HIDE DEF size
    <2>2. r.ops = rest \/ \E p : Starts(p, c, "SEND", rest, r.ops)
      BY SendOutcome
    <2>3. Bound(r.ops, d, 1 + k)
      BY <1>3, <1>n, <2>2, BoundStart
    <2> QED
      BY <2>1, <2>3 DEF k
  <1> QED
    BY <1>6, <1>7, <1>8, <1>9

LEMMA StepInLine == TypeOK /\ Sessions /\ Matched /\ InLine /\ [Next]_vars => InLine'
  <1> SUFFICES ASSUME TypeOK, Sessions, Matched, InLine, [Next]_vars PROVE InLine'
    OBVIOUS
  <1>1. CASE WorkThread
    <2>1. PICK o \in ops : \/ HandleDisconnect(o) \/ HandleAccept(o) \/ HandleRecv(o)
                           \/ HandleSend(o) \/ CrashOnEmptyPool(o)
      BY <1>1 DEF WorkThread
    <2>2. CASE CrashOnEmptyPool(o)
      BY <2>2 DEF CrashOnEmptyPool, kernelVars, history, InLine
    <2>3. CASE ~CrashOnEmptyPool(o)
      <3> SUFFICES ASSUME strays' = {}, NEW d \in Conns PROVE Bound(ops', d, 1 + late'[d])
        BY DEF InLine
      <3>1. strays = {}
        BY StraysGrow
      <3> QED
        BY <2>1, <2>3, <3>1, WorkInLine
    <2> QED
      BY <2>2, <2>3
  <1>2. ASSUME NEW c \in Conns, PushSendMsg(c) PROVE InLine'
    <2> SUFFICES ASSUME strays' = {}, NEW d \in Conns PROVE Bound(ops', d, 1 + late'[d])
      BY DEF InLine
    <2>1. /\ UNCHANGED <<strays, late>>
          /\ ops' = ops \/ \E p : Starts(p, c, "SEND", ops, ops')
      BY <1>2, PushGrows
    <2> DEFINE m == 1 + late[d]
    <2>2. m \in Nat
      BY DEF TypeOK
    <2>3. Bound(ops, d, m)
      BY <2>1 DEF InLine
    <2> HIDE DEF m
    <2>4. Bound(ops', d, m)
      BY <2>1, <2>2, <2>3, BoundStart
    <2> QED
      BY <2>1, <2>4 DEF m
  <1>3. CASE UNCHANGED vars
    BY <1>3 DEF vars, kernelVars, history, InLine
  <1> QED
    BY <1>1, <1>2, <1>3, PostAcceptInLine, KernelInLine DEF Next

LEMMA ModUp ==
  ASSUME NEW t \in Nat
  PROVE  Incremented(t % CountModulus) = (t + 1) % CountModulus
  BY SMTT(30) DEF CountModulus, Incremented
LEMMA ModDown ==
  ASSUME NEW t \in Nat, t > 0
  PROVE  Decremented(t % CountModulus) = (t - 1) % CountModulus
  BY SMTT(30) DEF CountModulus, Decremented

LEMMA SendsAfterClose ==
  ASSUME NEW set \in SUBSET Op, NEW c, NEW d
  PROVE  SendOvs(Closed(c, set), d) = SendOvs(set, d)
  <1>1. \A o \in set : /\ Shut(c, o).conn = o.conn /\ Shut(c, o).kind = o.kind
                       /\ Shut(c, o).ov = o.ov
    BY ShutFields
  <1> QED
    BY <1>1, ClosedShut DEF SendOvs

LEMMA SendsAfterStart ==
  ASSUME NEW set, NEW p \in Ovs, NEW c, NEW kind, NEW after, Starts(p, c, kind, set, after), NEW d
  PROVE  SendOvs(after, d) =
           IF kind = "SEND" /\ c = d THEN SendOvs(set, d) \union {p} ELSE SendOvs(set, d)
  <1>1. PICK n : after = set \union {NewOp(p, n, c, kind)}
    BY DEF Starts
  <1> DEFINE q == NewOp(p, n, c, kind)
  <1>2. q.conn = c /\ q.kind = kind /\ q.ov = p
    BY NewOpFields
  <1> HIDE DEF q
  <1>3. after = set \union {q}
    BY <1>1 DEF q
  <1> QED
    BY <1>2, <1>3 DEF SendOvs

LEMMA SendsAfterFinish ==
  ASSUME NEW set, NEW o \in set, NEW d
  PROVE  /\ o.kind # "SEND" \/ o.conn # d => SendOvs(set \ {o}, d) = SendOvs(set, d)
         /\ o.kind = "SEND" /\ o.conn = d /\ o.ov \in Ovs /\ OneOp(set, o.ov) =>
              o.ov \in SendOvs(set, d) /\ SendOvs(set \ {o}, d) = SendOvs(set, d) \ {o.ov}
  BY DEF SendOvs, OneOp

(* Len(queue) + the sends of c + those lost does not change when the next   *)
(* message is popped and handed to WSASend.                                 *)
LEMMA SendsAfterCount ==
  ASSUME NEW c, NEW size, NEW queue \in Seq(Ovs), NEW set, NEW r \in AfterCount(c, size, queue, set),
         IsFiniteSet(SendOvs(set, c)), queue # <<>> => Head(queue) \notin SendOvs(set, c)
  PROVE  /\ IsFiniteSet(SendOvs(r.ops, c)) /\ r.lost \in Nat
         /\ Len(r.queue) + Cardinality(SendOvs(r.ops, c)) + r.lost =
              Len(queue) + Cardinality(SendOvs(set, c))
         /\ \A d : d # c => SendOvs(r.ops, d) = SendOvs(set, d)
  <1>0. Cardinality(SendOvs(set, c)) \in Nat /\ Len(queue) \in Nat
    BY FS_CardinalityType
  <1>1. CASE r.queue = queue /\ r.ops = set /\ r.lost = 0
    BY <1>0, <1>1
  <1>2. CASE queue # <<>> /\ r.queue = Tail(queue)
    <2>1. Len(r.queue) = Len(queue) - 1 /\ Head(queue) \in Ovs
      BY <1>2
    <2>2. CASE r.ops = set /\ r.lost = 1
      BY <1>0, <2>1, <2>2
    <2>3. CASE Starts(Head(queue), c, "SEND", set, r.ops) /\ r.lost = 0
      <3>0. ASSUME NEW d
            PROVE  SendOvs(r.ops, d) = IF c = d THEN SendOvs(set, d) \union {Head(queue)} ELSE SendOvs(set, d)
        <4> DEFINE h == Head(queue)
                   after == r.ops
        <4>1. h \in Ovs /\ Starts(h, c, "SEND", set, after)
          BY <2>1, <2>3
        <4> HIDE DEF h, after
        <4>2. SendOvs(after, d) = IF "SEND" = "SEND" /\ c = d THEN SendOvs(set, d) \union {h} ELSE SendOvs(set, d)
          BY <4>1, SendsAfterStart
        <4> QED
          BY <4>2 DEF h, after
      <3>1. /\ SendOvs(r.ops, c) = SendOvs(set, c) \union {Head(queue)}
            /\ \A d : d # c => SendOvs(r.ops, d) = SendOvs(set, d)
        BY <3>0
      <3>2. /\ IsFiniteSet(SendOvs(r.ops, c))
            /\ Cardinality(SendOvs(r.ops, c)) = Cardinality(SendOvs(set, c)) + 1
        BY <1>2, <3>1, FS_AddElement
      <3> QED
        BY <1>0, <2>1, <2>3, <3>1, <3>2
    <2> QED
      BY <1>2, <2>2, <2>3, SendOutcome
  <1> QED
    BY <1>1, <1>2, SendOutcome


LEMMA TallySame ==
  ASSUME NEW size, NEW queue, NEW set, NEW lost, NEW c, NEW after,
         Tallied(size, queue, set, lost, c), SendOvs(after, c) = SendOvs(set, c)
  PROVE  Tallied(size, queue, after, lost, c)
  BY DEF Tallied

(* A send of c is finished, and its SendComplete is called, or is not.      *)
LEMMA TallyFinish ==
  ASSUME NEW size, NEW queue \in Seq(Ovs), NEW set, NEW lost \in Nat, NEW o \in set,
         o.kind = "SEND", o.ov \in Ovs, OneOp(set, o.ov), Tallied(size, queue, set, lost, o.conn)
  PROVE  /\ Tallied(size, queue, set \ {o}, lost + 1, o.conn)
         /\ Tallied(Decremented(size), queue, set \ {o}, lost, o.conn)
  <1> DEFINE before == SendOvs(set, o.conn)
             after == SendOvs(set \ {o}, o.conn)
  <1>1. o.ov \in before /\ after = before \ {o.ov}
    BY SendsAfterFinish
  <1>2. IsFiniteSet(before) /\ size = (Len(queue) + Cardinality(before) + lost) % CountModulus
    BY DEF Tallied
  <1> HIDE DEF before, after
  <1>3. /\ IsFiniteSet(after) /\ Cardinality(after) = Cardinality(before) - 1
        /\ Cardinality(before) \in Nat /\ Cardinality(after) \in Nat
    BY <1>1, <1>2, FS_RemoveElement, FS_CardinalityType
  <1> DEFINE k == Cardinality(before)
             m == Cardinality(after)
             n == Len(queue)
             t == n + k + lost
  <1>4. k \in Nat /\ m \in Nat /\ m = k - 1 /\ n \in Nat
    BY <1>3
  <1>5. size = t % CountModulus
    BY <1>2
  <1> HIDE DEF k, m, n
  <1>6. t \in Nat /\ t > 0 /\ n + m + lost = t - 1 /\ n + m + (lost + 1) = t
    BY <1>4
  <1> HIDE DEF t
  <1>7. Decremented(size) = (t - 1) % CountModulus
    BY <1>5, <1>6, ModDown
  <1>8. size = (n + m + (lost + 1)) % CountModulus /\ Decremented(size) = (n + m + lost) % CountModulus
    BY <1>5, <1>6, <1>7
  <1> QED
    BY <1>3, <1>8 DEF Tallied, after, m, n

(* A message is queued and the counter moves up.                            *)
LEMMA TallyPush ==
  ASSUME NEW size, NEW queue \in Seq(Ovs), NEW set, NEW lost \in Nat, NEW p \in Ovs, NEW c,
         Tallied(size, queue, set, lost, c)
  PROVE  Tallied(Incremented(size), Append(queue, p), set, lost, c)
  <1> DEFINE k == Cardinality(SendOvs(set, c))
             t == Len(queue) + k + lost
  <1>1. IsFiniteSet(SendOvs(set, c)) /\ size = t % CountModulus
    BY DEF Tallied
  <1>2. k \in Nat
    BY <1>1, FS_CardinalityType
  <1> HIDE DEF k
  <1>3. Len(queue) \in Nat /\ Len(Append(queue, p)) = Len(queue) + 1
    OBVIOUS
  <1>4. t \in Nat /\ Len(Append(queue, p)) + k + lost = t + 1
    BY <1>2, <1>3
  <1> HIDE DEF t
  <1>5. Incremented(size) = (t + 1) % CountModulus
    BY <1>1, <1>4, ModUp
  <1> QED
    BY <1>1, <1>4, <1>5 DEF Tallied, k

(* The next message is popped and handed to WSASend.                        *)
LEMMA TallySend ==
  ASSUME NEW size, NEW queue \in Seq(Ovs), NEW set, NEW lost \in Nat, NEW c, NEW s,
         NEW r \in AfterCount(c, s, queue, set),
         queue # <<>> => Head(queue) \notin SendOvs(set, c),
         Tallied(size, queue, set, lost, c)
  PROVE  Tallied(size, r.queue, r.ops, lost + r.lost, c)
  <1>1. IsFiniteSet(SendOvs(set, c))
    BY DEF Tallied
  <1>2. /\ IsFiniteSet(SendOvs(r.ops, c)) /\ r.lost \in Nat
        /\ Len(r.queue) + Cardinality(SendOvs(r.ops, c)) + r.lost =
             Len(queue) + Cardinality(SendOvs(set, c))
    BY <1>1, SendsAfterCount
  <1>3. Len(r.queue) \in Nat
    <2>1. r.queue = queue \/ (queue # <<>> /\ r.queue = Tail(queue))
      BY SendOutcome
    <2> QED
      BY <2>1
  <1>4. Cardinality(SendOvs(r.ops, c)) \in Nat
    BY <1>2, FS_CardinalityType
  <1>5. Len(r.queue) + Cardinality(SendOvs(r.ops, c)) + (lost + r.lost)
          = Len(queue) + Cardinality(SendOvs(set, c)) + lost
    BY <1>2, <1>3, <1>4
  <1> QED
    BY <1>2, <1>5 DEF Tallied

LEMMA InitCounted == Init => Counted
  <1> SUFFICES ASSUME Init, NEW c \in Conns
               PROVE  Tallied(sendQueueSize[c], sendQueue[c], ops, lostSends[c], c)
    BY DEF Counted
  <1>1. SendOvs(ops, c) = {}
    BY DEF Init, SendOvs
  <1>2. /\ IsFiniteSet(SendOvs(ops, c)) /\ Cardinality(SendOvs(ops, c)) = 0
        /\ Len(sendQueue[c]) = 0 /\ lostSends[c] = 0 /\ sendQueueSize[c] = 0
    BY <1>1, FS_EmptySet DEF Init
  <1>3. Len(sendQueue[c]) + Cardinality(SendOvs(ops, c)) + lostSends[c] = 0
    BY <1>2
  <1>4. 0 = 0 % CountModulus
    BY SMT DEF CountModulus
  <1> QED
    BY <1>2, <1>3, <1>4 DEF Tallied

LEMMA KernelCounted ==
  ASSUME TypeOK, Counted, Kernel
  PROVE  Counted'
  <1> SUFFICES ASSUME strays' = {}, NEW d \in Conns
               PROVE  Tallied(sendQueueSize'[d], sendQueue'[d], ops', lostSends'[d], d)
    BY DEF Counted
  <1>1. UNCHANGED <<strays, sendQueueSize, sendQueue, lostSends>> /\ ops \subseteq Op
    BY DEF Kernel, sendVars, history, TypeOK
  <1>2. Tallied(sendQueueSize[d], sendQueue[d], ops, lostSends[d], d)
    BY <1>1 DEF Counted
  <1>3. ASSUME NEW o \in ops, NEW st, NEW q, Finishes(o, st, q)
        PROVE  SendOvs(ops', d) = SendOvs(ops, d)
    BY <1>3 DEF Finishes, SendOvs
  <1>4. SendOvs(ops', d) = SendOvs(ops, d)
    BY <1>1, <1>3, KernelOutcome
  <1> QED
    BY <1>1, <1>2, <1>4, TallySame

LEMMA PostAcceptCounted ==
  ASSUME TypeOK, Counted, PostAccept
  PROVE  Counted'
  <1> SUFFICES ASSUME strays' = {}, NEW d \in Conns
               PROVE  Tallied(sendQueueSize'[d], sendQueue'[d], ops', lostSends'[d], d)
    BY DEF Counted
  <1> DEFINE c == Head(acceptQueue)
  <1>1. /\ UNCHANGED <<strays, sendQueueSize, sendQueue, lostSends>>
        /\ ops' \in Posted(c, c, "ACCEPT", ops) \/ UNCHANGED ops
    BY DEF PostAccept, kernelVars, sendVars, history
  <1> HIDE DEF c
  <1>2. Tallied(sendQueueSize[d], sendQueue[d], ops, lostSends[d], d)
    BY <1>1 DEF Counted
  <1>3. ASSUME ops' \in Posted(c, c, "ACCEPT", ops) PROVE SendOvs(ops', d) = SendOvs(ops, d)
    <2>1. PICK n : ops' = ops \union {NewOp(c, n, c, "ACCEPT")}
      BY <1>3, PostedFresh
    <2>2. NewOp(c, n, c, "ACCEPT").kind # "SEND"
      BY NewOpFields
    <2> QED
      BY <2>1, <2>2 DEF SendOvs
  <1>4. SendOvs(ops', d) = SendOvs(ops, d)
    BY <1>1, <1>3
  <1> QED
    BY <1>1, <1>2, <1>4, TallySame


(* A queued message is in no operation.                                     *)
LEMMA HeadNotSent ==
  ASSUME TypeOK, AllOwned, Matched, strays = {}, NEW c \in Conns, sendQueue[c] # <<>>
  PROVE  Head(sendQueue[c]) \notin SendOvs(ops, c)
  <1> DEFINE x == Head(sendQueue[c])
  <1>1. sendQueue[c] \in Seq(Ovs)
    BY DEF TypeOK
  <1>2. 1 \in DOMAIN sendQueue[c] /\ sendQueue[c][1] = x
    BY <1>1
  <1>3. x \in Objs /\ Queued(sendQueue, x)
    BY <1>2 DEF Matched, Matching, Sendable, Queued
  <1> HIDE DEF x
  <1>4. ~InOps(ops, x)
    BY <1>3 DEF AllOwned, Owned
  <1>5. x \notin SendOvs(ops, c)
    BY <1>4 DEF SendOvs, InOps
  <1> QED
    BY <1>5 DEF x

LEMMA WorkCounted ==
  ASSUME TypeOK, AllOwned, Matched, Counted, strays = {}, strays' = {}, NEW o \in ops,
         HandleDisconnect(o) \/ HandleAccept(o) \/ HandleRecv(o) \/ HandleSend(o),
         NEW d \in Conns
  PROVE  Tallied(sendQueueSize'[d], sendQueue'[d], ops', lostSends'[d], d)
  <1> DEFINE c == UserOf(o)
             rest == ops \ {o}
  <1>0. /\ c = o.conn /\ c \in Conns /\ rest \in SUBSET Op /\ o.ov \in Ovs
        /\ sendQueue \in [Conns -> Seq(Ovs)] /\ lostSends \in [Conns -> Nat]
        /\ sendQueueSize \in [Conns -> 0 .. CountModulus - 1]
    BY TakenFor, UserType DEF TypeOK
  <1>1. \A e \in Conns : Tallied(sendQueueSize[e], sendQueue[e], ops, lostSends[e], e)
    BY DEF Counted
  <1>2. o.kind # "SEND" \/ c # d => SendOvs(rest, d) = SendOvs(ops, d)
    BY <1>0, SendsAfterFinish
  <1>3. ASSUME o.kind = "SEND"
        PROVE  /\ Tallied(sendQueueSize[c], sendQueue[c], rest, lostSends[c] + 1, c)
               /\ Tallied(Decremented(sendQueueSize[c]), sendQueue[c], rest, lostSends[c], c)
    <2>1. o.ov \in Objs
      BY <1>3 DEF Matched, Matching, Written
    <2>2. OneOp(ops, o.ov)
      BY <2>1 DEF AllOwned, Owned
    <2>3. Tallied(sendQueueSize[c], sendQueue[c], ops, lostSends[c], o.conn)
      BY <1>0, <1>1
    <2>4. sendQueue[c] \in Seq(Ovs) /\ lostSends[c] \in Nat
      BY <1>0
    <2>5. /\ Tallied(sendQueueSize[c], sendQueue[c], rest, lostSends[c] + 1, o.conn)
          /\ Tallied(Decremented(sendQueueSize[c]), sendQueue[c], rest, lostSends[c], o.conn)
      BY <1>0, <1>3, <2>2, <2>3, <2>4, TallyFinish
    <2> QED
      BY <1>0, <2>5
  <1> HIDE DEF c, rest
  <1>4. o.kind # "SEND" \/ c # d => Tallied(sendQueueSize[d], sendQueue[d], rest, lostSends[d], d)
    BY <1>1, <1>2, TallySame
  <1>5. ASSUME NEW r \in RecvResults(c, rest)
        PROVE  SendOvs(r.ops, d) = SendOvs(rest, d) /\ r.ops \in SUBSET Op
    <2> DEFINE after == r.ops
    <2>1. r.ops = rest \/ \E p \in Ovs : Starts(p, c, "RECV", rest, r.ops)
      BY <1>5, RecvOutcome DEF RecvDoes, Available
    <2>2. r.ops \in SUBSET Op
      BY <1>0, <1>5, RecvType
    <2> HIDE DEF after
    <2>3. ASSUME NEW p \in Ovs, Starts(p, c, "RECV", rest, after)
          PROVE  SendOvs(after, d) = SendOvs(rest, d)
      <3>1. SendOvs(after, d) = IF "RECV" = "SEND" /\ c = d THEN SendOvs(rest, d) \union {p} ELSE SendOvs(rest, d)
        BY <2>3, SendsAfterStart
      <3> QED
        BY <3>1
    <2> QED
      BY <2>1, <2>2, <2>3 DEF after
  <1>6. CASE HandleDisconnect(o)
    <2>1. /\ ops' = Closed(c, rest) /\ UNCHANGED <<sendQueue, sendQueueSize>>
          /\ lostSends' = [lostSends EXCEPT ![c] = @ + IF TaskOf(o) \in {"SEND", "NEWSEND"} THEN 1 ELSE 0]
      BY <1>6 DEF HandleDisconnect, Lost, sendVars, c, rest
    <2>2. SendOvs(ops', d) = SendOvs(rest, d)
      BY <1>0, <2>1, SendsAfterClose
    <2>3. CASE o.kind = "SEND" /\ d = c
      <3>1. lostSends'[c] = lostSends[c] + 1
        BY <1>0, <2>1, <2>3, TakenFor
      <3> QED
        BY <1>3, <2>1, <2>2, <2>3, <3>1, TallySame
    <2>4. CASE o.kind # "SEND" \/ d # c
      <3>1. o.kind \in {"ACCEPT", "RECV", "SEND"}
        BY UserType DEF Op
      <3>2. lostSends'[d] = lostSends[d]
        BY <1>0, <2>1, <2>4, <3>1, TakenFor
      <3> QED
        BY <1>4, <2>1, <2>2, <2>4, <3>2, TallySame
    <2> QED
      BY <2>3, <2>4
  <1>7. CASE HandleAccept(o)
    <2>1. PICK r \in RecvResults(c, rest) : ops' = r.ops \/ ops' = Closed(c, r.ops)
      BY <1>7 DEF HandleAccept, c, rest
    <2>2. UNCHANGED <<sendQueue, sendQueueSize, lostSends>>
      BY <1>7 DEF HandleAccept, sendVars
    <2>3. SendOvs(ops', d) = SendOvs(rest, d)
      BY <1>5, <2>1, SendsAfterClose
    <2>4. o.kind # "SEND"
      BY <1>7, HandledAs
    <2> QED
      BY <1>4, <2>2, <2>3, <2>4, TallySame
  <1>8. CASE HandleRecv(o)
    <2>1. PICK r \in RecvResults(c, rest) : ops' = r.ops
      BY <1>8 DEF HandleRecv, c, rest
    <2>2. UNCHANGED <<sendQueue, sendQueueSize, lostSends>>
      BY <1>8 DEF HandleRecv, sendVars
    <2>3. SendOvs(ops', d) = SendOvs(rest, d)
      BY <1>5, <2>1
    <2>4. o.kind # "SEND"
      BY <1>8, HandledAs
    <2> QED
      BY <1>4, <2>2, <2>3, <2>4, TallySame
  <1>9. CASE HandleSend(o)
    <2> DEFINE size == Decremented(sendQueueSize[c])
    <2>1. /\ sendQueueSize' = [sendQueueSize EXCEPT ![c] = size]
          /\ \E r \in AfterCount(c, size, sendQueue[c], rest) :
               /\ ops' = r.ops
               /\ sendQueue' = [sendQueue EXCEPT ![c] = r.queue]
               /\ lostSends' = [lostSends EXCEPT ![c] = @ + r.lost]
      BY <1>9 DEF HandleSend, Lost, c, rest
    <2>2. PICK r \in AfterCount(c, size, sendQueue[c], rest) :
               /\ ops' = r.ops
               /\ sendQueue' = [sendQueue EXCEPT ![c] = r.queue]
               /\ lostSends' = [lostSends EXCEPT ![c] = @ + r.lost]
      BY <2>1
    <2>3. o.kind = "SEND"
      BY <1>9, HandledAs
    <2>4. Tallied(size, sendQueue[c], rest, lostSends[c], c)
      BY <1>3, <2>3
    <2>5. sendQueue[c] # <<>> => Head(sendQueue[c]) \notin SendOvs(rest, c)
      BY <1>0, HeadNotSent DEF SendOvs, rest
    <2>6. sendQueue[c] \in Seq(Ovs) /\ lostSends[c] \in Nat
      BY <1>0
    <2>7. sendQueueSize'[c] = size /\ \A e \in Conns : e # c => sendQueueSize'[e] = sendQueueSize[e]
      BY <1>0, <2>1
    <2>8. /\ sendQueue'[c] = r.queue /\ \A e \in Conns : e # c => sendQueue'[e] = sendQueue[e]
          /\ lostSends'[c] = lostSends[c] + r.lost /\ \A e \in Conns : e # c => lostSends'[e] = lostSends[e]
      BY <1>0, <2>2
    <2> HIDE DEF size
    <2>9. CASE d = c
      BY <2>2, <2>4, <2>5, <2>6, <2>7, <2>8, <2>9, TallySend
    <2>10. CASE d # c
      <3>1. IsFiniteSet(SendOvs(rest, c))
        BY <2>4 DEF Tallied
      <3>2. SendOvs(r.ops, d) = SendOvs(rest, d)
        BY <2>2, <2>5, <2>6, <2>10, <3>1, SendsAfterCount
      <3> QED
        BY <1>4, <2>2, <2>7, <2>8, <2>10, <3>2, TallySame
    <2> QED
      BY <2>9, <2>10
  <1> QED
    BY <1>6, <1>7, <1>8, <1>9

LEMMA PushCounted ==
  ASSUME TypeOK, AllOwned, Matched, Counted, NEW c \in Conns, PushSendMsg(c)
  PROVE  Counted'
  <1> SUFFICES ASSUME strays' = {}, NEW d \in Conns
               PROVE  Tallied(sendQueueSize'[d], sendQueue'[d], ops', lostSends'[d], d)
    BY DEF Counted
  <1>0. /\ sendQueue \in [Conns -> Seq(Ovs)] /\ lostSends \in [Conns -> Nat]
        /\ sendQueueSize \in [Conns -> 0 .. CountModulus - 1]
    BY DEF TypeOK
  <1>1. strays = {}
    BY DEF PushSendMsg
  <1>2. \A e \in Conns : Tallied(sendQueueSize[e], sendQueue[e], ops, lostSends[e], e)
    BY <1>1 DEF Counted
  <1>3. PICK p \in Ovs : PushTakes(c, p)
    BY <1>1, PushOutcome
  <1> DEFINE size == Incremented(sendQueueSize[c])
             queue == Append(sendQueue[c], p)
  <1>4. PICK r \in AfterCount(c, size, queue, ops) :
             /\ ops' = r.ops
             /\ sendQueue' = [sendQueue EXCEPT ![c] = r.queue]
             /\ lostSends' = [lostSends EXCEPT ![c] = @ + r.lost]
    BY <1>1, <1>3 DEF PushTakes, Lost
  <1>5. sendQueueSize' = [sendQueueSize EXCEPT ![c] = size]
    BY <1>3 DEF PushTakes
  <1>6. sendQueue[c] \in Seq(Ovs) /\ lostSends[c] \in Nat /\ queue \in Seq(Ovs)
    BY <1>0
  <1>7. Head(queue) = IF sendQueue[c] = <<>> THEN p ELSE Head(sendQueue[c])
    BY <1>6
  <1>8. p \notin SendOvs(ops, c)
    BY <1>3 DEF PushTakes, Unused, InOps, SendOvs
  <1>9. Head(queue) \notin SendOvs(ops, c)
    BY <1>1, <1>7, <1>8, HeadNotSent
  <1>10. Tallied(size, queue, ops, lostSends[c], c)
    BY <1>2, <1>6, TallyPush
  <1>11. /\ sendQueueSize'[c] = size /\ sendQueue'[c] = r.queue /\ lostSends'[c] = lostSends[c] + r.lost
         /\ \A e \in Conns : e # c => /\ sendQueueSize'[e] = sendQueueSize[e]
                                      /\ sendQueue'[e] = sendQueue[e] /\ lostSends'[e] = lostSends[e]
    BY <1>0, <1>4, <1>5
  <1> HIDE DEF size, queue
  <1>12. CASE d = c
    BY <1>4, <1>6, <1>9, <1>10, <1>11, <1>12, TallySend
  <1>13. CASE d # c
    <2>1. IsFiniteSet(SendOvs(ops, c))
      BY <1>10 DEF Tallied
    <2>2. SendOvs(r.ops, d) = SendOvs(ops, d)
      BY <1>4, <1>6, <1>9, <1>13, <2>1, SendsAfterCount
    <2> QED
      BY <1>2, <1>4, <1>11, <1>13, <2>2, TallySame
  <1> QED
    BY <1>12, <1>13

LEMMA StepCounted == TypeOK /\ AllOwned /\ Matched /\ Counted /\ [Next]_vars => Counted'
  <1> SUFFICES ASSUME TypeOK, AllOwned, Matched, Counted, [Next]_vars PROVE Counted'
    OBVIOUS
  <1>1. CASE WorkThread
    <2>1. PICK o \in ops : \/ HandleDisconnect(o) \/ HandleAccept(o) \/ HandleRecv(o)
                           \/ HandleSend(o) \/ CrashOnEmptyPool(o)
      BY <1>1 DEF WorkThread
    <2>2. CASE CrashOnEmptyPool(o)
      BY <2>2 DEF CrashOnEmptyPool, kernelVars, sendVars, history, Counted
    <2>3. CASE ~CrashOnEmptyPool(o)
      <3> SUFFICES ASSUME strays' = {}, NEW d \in Conns
                   PROVE  Tallied(sendQueueSize'[d], sendQueue'[d], ops', lostSends'[d], d)
        BY DEF Counted
      <3>1. strays = {}
        BY StraysGrow
      <3> QED
        BY <2>1, <2>3, <3>1, WorkCounted
    <2> QED
      BY <2>2, <2>3
  <1>2. CASE UNCHANGED vars
    BY <1>2 DEF vars, kernelVars, sendVars, history, Counted
  <1> QED
    BY <1>1, <1>2, PostAcceptCounted, KernelCounted, PushCounted DEF Next

----------------------------------------------------------------------------
(* The theorems. *)

(* Until an acceptOvlap strays into the pool, every connection waits in     *)
(* AcceptQueue at least once, or has an accept or a receive that is under   *)
(* way or waits for a worker, or is one whose failed receive WorkThread     *)
(* ignored (OutGameLobbyServer.cpp:170-212): no slot is silently lost.      *)
THEOREM NoSlotIsLost == Spec => []SlotAccounted
  <1>1. Slots => SlotAccounted
    BY DEF Slots, Slotted, Waiting, SlotAccounted
  <1> QED
    BY InitType, StepType, InitOwned, StepOwned, InitMatched, StepMatched, InitSlots, StepSlots,
       <1>1, PTL DEF Spec

(* Until an acceptOvlap strays into the pool, a socket has one receive at   *)
(* most, and one more for each completion of an earlier socket that was     *)
(* handled after Reset and posted a receive on it                           *)
(* (OutGameLobbyServer.cpp:199-212, ConnUser.h:37-52): only such a late     *)
(* completion lets two receives of one client race.                         *)
THEOREM ReceivesAreCounted == Spec => []RecvsPerSocket
  <1>1. TypeOK /\ InLine => RecvsPerSocket
    <2> SUFFICES ASSUME TypeOK, InLine, strays = {}, NEW c \in Conns
                 PROVE  Cardinality(RecvsOf(c)) <= 1 + late[c]
      BY DEF RecvsPerSocket
    <2> DEFINE S == Reads(ops, c)
               T == RecvsOf(c)
    <2>1. IsFiniteSet(S) /\ Cardinality(S) <= 1 + late[c] /\ T \in SUBSET S /\ late[c] \in Nat
      BY DEF InLine, Bound, Reads, RecvsOf, TypeOK
    <2> HIDE DEF S, T
    <2>2. /\ IsFiniteSet(T) /\ Cardinality(T) <= Cardinality(S)
          /\ Cardinality(T) \in Nat /\ Cardinality(S) \in Nat
      BY <2>1, FS_Subset, FS_CardinalityType
    <2>3. Cardinality(T) <= 1 + late[c]
      BY <2>1, <2>2
    <2> QED
      BY <2>3 DEF T
  <1> QED
    BY InitType, StepType, InitOwned, StepOwned, InitMatched, StepMatched,
       InitSessions, StepSessions, InitInLine, StepInLine, <1>1, PTL DEF Spec

(* The sends of a connection are told apart by their objects.               *)
LEMMA SendsByObject ==
  ASSUME TypeOK, AllOwned, Matched, strays = {}, NEW c \in Conns, IsFiniteSet(SendOvs(ops, c))
  PROVE  Cardinality(SendsOf(c)) = Cardinality(SendOvs(ops, c))
  <1> DEFINE S == SendOvs(ops, c)
             T == SendsOf(c)
             f == [x \in S |-> CHOOSE o \in T : o.ov = x]
  <1>1. \A x \in S : \E o \in T : o.ov = x
    BY DEF SendOvs, SendsOf
  <1>2. \A x \in S : f[x] \in T /\ f[x].ov = x
    BY <1>1
  <1>3. \A o \in T : o.ov \in S /\ OneOp(ops, o.ov)
    BY UserType DEF SendsOf, SendOvs, Matched, Matching, Written, AllOwned, Owned
  <1>4. \A o \in T : f[o.ov] = o
    BY <1>2, <1>3 DEF OneOp, SendsOf
  <1>5. f \in [S -> T]
    BY <1>2
  <1> HIDE DEF S, T, f
  <1>6. f \in Bijection(S, T)
    BY <1>2, <1>3, <1>4, <1>5 DEF Bijection, Injection, Surjection, IsInjective
  <1>7. ExistsBijection(S, T) /\ IsFiniteSet(S)
    BY <1>6 DEF ExistsBijection, S
  <1>8. Cardinality(T) = Cardinality(S)
    BY <1>7, FS_Bijection
  <1> QED
    BY <1>8 DEF S, T

(* sendQueueSize is the number of messages queued, handed to WSASend or     *)
(* failed without a SendComplete, modulo its width (ConnUser.h:204-248).    *)
THEOREM SendsAreCounted == Spec => []SendAccounting
  <1>1. TypeOK /\ AllOwned /\ Matched /\ Counted => SendAccounting
    <2> SUFFICES ASSUME TypeOK, AllOwned, Matched, Counted, strays = {}, NEW c \in Conns
                 PROVE  sendQueueSize[c] =
                          (Len(sendQueue[c]) + Cardinality(SendsOf(c)) + lostSends[c]) % CountModulus
      BY DEF SendAccounting
    <2>1. Tallied(sendQueueSize[c], sendQueue[c], ops, lostSends[c], c)
      BY DEF Counted
    <2>2. Cardinality(SendsOf(c)) = Cardinality(SendOvs(ops, c))
      BY <2>1, SendsByObject DEF Tallied
    <2> QED
      BY <2>1, <2>2 DEF Tallied
  <1> QED
    BY InitType, StepType, InitOwned, StepOwned, InitMatched, StepMatched, InitCounted, StepCounted,
       <1>1, PTL DEF Spec

(* A completion that Closed has just gone over is not among the operations  *)
(* any more.                                                                *)
LEMMA FinishedIsGone ==
  ASSUME NEW set \in SUBSET Op, Named(set), NEW o \in set, NEW c
  PROVE  o \notin Closed(c, set \ {o})
  <1>1. \A p \in set \ {o} : Shut(c, p).ov = p.ov /\ Shut(c, p).n = p.n
    BY ShutFields
  <1> QED
    BY <1>1, ClosedShut DEF Named

LEMMA StepKept ==
  ASSUME TypeOK, Sessions, Matched, [Next]_vars, NEW c \in Conns,
         sock[c] = "connected", sock'[c] # "connected", strays = {}, Available # {}
  PROVE  sock'[c] = "gone" \/ \E o \in ops \ ops' : o.conn = c /\ o.stale
  <1>0. sock \in [Conns -> SockStates] /\ ops \in SUBSET Op /\ Named(ops)
    BY DEF TypeOK, Sessions
  <1>1. ASSUME NEW d \in Conns, sock[d] # "connected", NEW s, sock' = [sock EXCEPT ![d] = s]
        PROVE  FALSE
    BY <1>0, <1>1
  <1>2. CASE PostAccept
    <2>1. acceptQueue \in Seq(Conns) /\ acceptQueue # <<>>
      BY <1>2 DEF PostAccept, TypeOK
    <2>2. Head(acceptQueue) \in Conns
      BY <2>1, QueueType
    <2>3. UNCHANGED sock \/ (sock[Head(acceptQueue)] = "fresh"
                             /\ sock' = [sock EXCEPT ![Head(acceptQueue)] = "listening"])
      BY <1>2 DEF PostAccept, kernelVars
    <2> QED
      BY <1>1, <2>2, <2>3
  <1>3. CASE Kernel
    <2>1. ASSUME NEW o \in ops, NEW st \in {"ok", "fail"}, NEW q, Finishes(o, st, q)
          PROVE  sock'[c] = "gone"
      <3>1. o.conn \in Conns /\ (o.kind = "ACCEPT" => sock[o.conn] = "listening")
        BY <1>0, <2>1 DEF Op, Finishes, Sessions, SessionOK
      <3>2. \/ UNCHANGED sock
            \/ o.kind = "ACCEPT" /\ \E s : sock' = [sock EXCEPT ![o.conn] = s]
        BY <2>1 DEF Finishes
      <3> QED
        BY <1>1, <3>1, <3>2
    <2>2. ASSUME NEW d \in Conns, sock' = [sock EXCEPT ![d] = "gone"] PROVE sock'[c] = "gone"
      BY <1>0, <2>2
    <2> QED
      BY <1>0, <1>3, <2>1, <2>2, KernelOutcome
  <1>4. CASE WorkThread
    <2>1. PICK o \in ops : \/ HandleDisconnect(o) \/ HandleAccept(o) \/ HandleRecv(o)
                           \/ HandleSend(o) \/ CrashOnEmptyPool(o)
      BY <1>4 DEF WorkThread
    <2>2. UserOf(o) = o.conn /\ o.conn \in Conns
      BY TakenFor, UserType
    <2>3. CASE HandleDisconnect(o)
      <3>1. o.st = "fail" /\ ops' = Closed(UserOf(o), ops \ {o})
            /\ sock' = [sock EXCEPT ![UserOf(o)] = "fresh"]
        BY <2>3, HandledAs DEF HandleDisconnect
      <3>2. c = o.conn
        BY <1>0, <2>2, <3>1
      <3>3. o.stale
        BY <3>1, <3>2 DEF Sessions, SessionOK
      <3>4. o \notin ops'
        BY <1>0, <3>1, FinishedIsGone
      <3> QED
        BY <3>2, <3>3, <3>4
    <2>4. CASE HandleAccept(o)
      <3> DEFINE d == UserOf(o)
                 rest == ops \ {o}
      <3>1. PICK r \in RecvResults(d, rest) : UNCHANGED sock \/ (~r.ok /\ sock' = [sock EXCEPT ![d] = "fresh"])
        BY <2>4 DEF HandleAccept
      <3> HIDE DEF d, rest
      <3>2. ~r.ok => CanRefuse(d)
        BY RecvOutcome DEF RecvDoes
      <3> QED
        BY <1>1, <2>2, <3>1, <3>2 DEF CanRefuse, d
    <2> QED
      BY <2>1, <2>3, <2>4 DEF HandleRecv, HandleSend, CrashOnEmptyPool, kernelVars
  <1>5. ASSUME NEW d \in Conns, PushSendMsg(d) PROVE UNCHANGED sock
    BY <1>5 DEF PushSendMsg
  <1>6. CASE UNCHANGED vars
    BY <1>6 DEF vars, kernelVars
  <1> QED
    BY <1>2, <1>3, <1>4, <1>5, <1>6 DEF Next

(* A client that has not gone away is cut only by a late completion of an   *)
(* earlier session, by a stray acceptOvlap or by an empty overlapped pool   *)
(* (OutGameLobbyServer.cpp:120-150).                                        *)
THEOREM LiveSessionIsKept == Spec => LiveSessionKept
  <1>1. TypeOK /\ Sessions /\ Matched /\ [Next]_vars =>
          [\A c \in Conns :
             sock[c] = "connected" /\ sock'[c] # "connected" =>
               \/ sock'[c] = "gone"
               \/ \E o \in ops \ ops' : o.conn = c /\ o.stale
               \/ strays # {} \/ Available = {}]_vars
    BY StepKept
  <1> QED
    BY InitType, StepType, InitOwned, StepOwned, InitSessions, StepSessions, InitMatched, StepMatched,
       <1>1, PTL DEF Spec, LiveSessionKept
==============================================================================
