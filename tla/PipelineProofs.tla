--------------------------- MODULE PipelineProofs --------------------------
(***************************************************************************)
(* Proofs about Pipeline, for any number of threads, any packets and any   *)
(* sizes, in three parts: types; how many bytes are in the ring; and that  *)
(* the pipeline implements the queue of packets.                           *)
(***************************************************************************)
EXTENDS Pipeline, FiniteSetTheorems, SequenceTheorems, TLAPS

USE PipelineAssumption DEF PipelineAssumption

Steps == {"idle", "queue", "clear", "read", "dispatch", "undefined", "handle"}

LEMMA Distinct == Workers \intersect RedisThreads = {} /\ MAX_RECV_SIZE \in Nat
OBVIOUS

(* A thread that is inside has a packet in hand, and each kind has steps of *)
(* its own.                                                                 *)
Typed ==
  /\ TypeOK
  /\ \A t \in Threads : pc[t] # "idle" => packet[t] \in Packets
  /\ \A w \in Workers : pc[w] \in {"idle", "queue"}
  /\ \A t \in RedisThreads : pc[t] # "queue"

LEMMA BytesOfType ==
  ASSUME NEW p \in Packets
  PROVE  /\ BytesOf(p) \in Seq(Bytes) /\ Len(BytesOf(p)) = Size[p]
         /\ \A i \in 1 .. Size[p] : BytesOf(p)[i] = <<p, i>>
         /\ Size[p] \in Nat /\ Size[p] >= 1 /\ Size[p] <= MAX_RECV_SIZE
BY DEF BytesOf, Bytes

LEMMA IntoType ==
  ASSUME NEW old \in [1 .. MAX_RECV_SIZE -> Bytes \union {Zero}],
         NEW bytes \in Seq(Bytes \union {Zero})
  PROVE  Into(old, bytes) \in [1 .. MAX_RECV_SIZE -> Bytes \union {Zero}]
BY DEF Into

LEMMA ConcatType ==
  ASSUME NEW S, NEW a \in Seq(S), NEW b \in Seq(S)
  PROVE  a \o b \in Seq(S) /\ Len(a \o b) = Len(a) + Len(b)
OBVIOUS

LEMMA CutType ==
  ASSUME NEW S, NEW a \in Seq(S), NEW n \in Nat, n <= Len(a)
  PROVE  /\ SubSeq(a, 1, n) \in Seq(S) /\ Len(SubSeq(a, 1, n)) = n
         /\ SubSeq(a, n + 1, Len(a)) \in Seq(S) /\ Len(SubSeq(a, n + 1, Len(a))) = Len(a) - n
OBVIOUS

(* The two outcomes of a call of the ring.                                  *)
LEMMA RingWrites ==
  ASSUME NEW data, Ring!Write(data)
  PROVE  \/ ringCall'.ok /\ Len(ring) + Len(data) <= bufferSize /\ ring' = ring \o data
         \/ ~ringCall'.ok /\ ring' = ring
BY DEF Ring!Write, Ring!Wrote

LEMMA RingReads ==
  ASSUME NEW n, Ring!Read(n)
  PROVE  \/ /\ ringCall'.ok /\ n <= Len(ring) /\ ringCall'.bytes = SubSeq(ring, 1, n)
            /\ ring' = SubSeq(ring, n + 1, Len(ring))
         \/ ~ringCall'.ok /\ n > Len(ring) /\ ring' = ring
BY DEF Ring!Read, Ring!ReadOf

LEMMA InitTyped == Init => Typed
<1> SUFFICES ASSUME Init PROVE Typed
  OBVIOUS
<1>1. TypeOK
  <2>1. ring = <<>> /\ procSktQueue = <<>>
    BY DEF Init, Ring!Init
  <2>2. readData \in [1 .. MAX_RECV_SIZE -> Bytes \union {Zero}]
    BY DEF Init
  <2>3. alive \in BOOLEAN /\ dropped \in BOOLEAN /\ raced = {}
    BY DEF Init
  <2>4. /\ pc \in [Threads ->
                   {"idle", "queue", "clear", "read", "dispatch", "undefined", "handle"}]
        /\ packet \in [Threads -> Packets \union {None}] /\ handled \in Packets \union {None}
    BY DEF Init
  <2>5. ring \in Seq(Bytes) /\ procSktQueue \in Seq(Packets) /\ Len(ring) <= bufferSize
    BY <2>1
  <2>6. QED
    BY <2>2, <2>3, <2>4, <2>5 DEF TypeOK
<1>2. \A t \in Threads : pc[t] = "idle"
  BY DEF Init
<1>3. QED
  BY <1>1, <1>2 DEF Typed, Threads

(* A thread goes on or comes back.                                          *)
LEMMA GotoTyped ==
  ASSUME Typed, NEW t \in Threads, NEW step \in Steps, NEW p \in Packets \union {None},
         Goto(t, step), packet' = [packet EXCEPT ![t] = p],
         step # "idle" => p \in Packets,
         t \in Workers => step \in {"idle", "queue"},
         t \in RedisThreads => step # "queue"
  PROVE  /\ pc' \in [Threads -> Steps] /\ packet' \in [Threads -> Packets \union {None}]
         /\ \A r \in Threads : pc'[r] # "idle" => packet'[r] \in Packets
         /\ \A w \in Workers : pc'[w] \in {"idle", "queue"}
         /\ \A r \in RedisThreads : pc'[r] # "queue"
BY DEF Typed, TypeOK, Steps, Goto, Threads

LEMMA WriteTyped ==
  ASSUME Typed, NEW w \in Workers, NEW p \in Packets, Write(w, p)
  PROVE  Typed'
<1>1. w \in Threads /\ w \notin RedisThreads
  BY DEF Threads
<1>2. /\ pc' \in [Threads -> Steps] /\ packet' \in [Threads -> Packets \union {None}]
      /\ \A r \in Threads : pc'[r] # "idle" => packet'[r] \in Packets
      /\ \A r \in Workers : pc'[r] \in {"idle", "queue"}
      /\ \A r \in RedisThreads : pc'[r] # "queue"
  BY <1>1, GotoTyped DEF Write, Steps
<1>3. ring' \in Seq(Bytes) /\ Len(ring') <= bufferSize
  <2>1. ring \in Seq(Bytes) /\ Len(ring) <= bufferSize
    BY DEF Typed, TypeOK
  <2>2. BytesOf(p) \in Seq(Bytes)
    BY BytesOfType
  <2>3. Ring!Write(BytesOf(p))
    BY DEF Write
  <2>4. \/ Len(ring) + Len(BytesOf(p)) <= bufferSize /\ ring' = ring \o BytesOf(p)
        \/ ring' = ring
    BY <2>3, RingWrites
  <2>5. CASE Len(ring) + Len(BytesOf(p)) <= bufferSize /\ ring' = ring \o BytesOf(p)
    <3>1. /\ ring \o BytesOf(p) \in Seq(Bytes)
          /\ Len(ring \o BytesOf(p)) = Len(ring) + Len(BytesOf(p))
      BY <2>1, <2>2, ConcatType
    <3>2. QED
      BY <2>5, <3>1
  <2>6. CASE ring' = ring
    BY <2>1, <2>6
  <2>7. QED
    BY <2>4, <2>5, <2>6
<1>4. dropped' \in BOOLEAN /\ raced' \subseteq {"push", "read"}
  BY DEF Write, Entering, Typed, TypeOK
<1>5. QED
  BY <1>2, <1>3, <1>4 DEF Write, Typed, TypeOK, Steps

LEMMA QueueTyped ==
  ASSUME Typed, NEW w \in Workers, Queue(w)
  PROVE  Typed'
<1>1. w \in Threads /\ w \notin RedisThreads /\ packet[w] \in Packets
  BY DEF Threads, Queue, Typed
<1>2. /\ pc' \in [Threads -> Steps] /\ packet' \in [Threads -> Packets \union {None}]
      /\ \A r \in Threads : pc'[r] # "idle" => packet'[r] \in Packets
      /\ \A r \in Workers : pc'[r] \in {"idle", "queue"}
      /\ \A r \in RedisThreads : pc'[r] # "queue"
  BY <1>1, GotoTyped DEF Queue, Return, Steps
<1>3. procSktQueue' \in Seq(Packets)
  BY <1>1 DEF Queue, Queued, Typed, TypeOK
<1>4. QED
  BY <1>2, <1>3 DEF Queue, Typed, TypeOK, Steps

LEMMA PopTyped ==
  ASSUME Typed, NEW t \in RedisThreads, Pop(t)
  PROVE  Typed'
<1>1. /\ t \in Threads /\ t \notin Workers
      /\ Head(procSktQueue) \in Packets /\ Tail(procSktQueue) \in Seq(Packets)
  BY DEF Threads, Pop, Typed, TypeOK
<1>2. /\ pc' \in [Threads -> Steps] /\ packet' \in [Threads -> Packets \union {None}]
      /\ \A r \in Threads : pc'[r] # "idle" => packet'[r] \in Packets
      /\ \A r \in Workers : pc'[r] \in {"idle", "queue"}
      /\ \A r \in RedisThreads : pc'[r] # "queue"
  BY <1>1, GotoTyped DEF Pop, Steps
<1>3. raced' \subseteq {"push", "read"}
  BY DEF Pop, Entering, Typed, TypeOK
<1>4. QED
  BY <1>1, <1>2, <1>3 DEF Pop, Typed, TypeOK, Steps

LEMMA HandlingTyped ==
  ASSUME Typed, NEW t \in RedisThreads, Clear(t) \/ Read(t) \/ Dispatch(t) \/ Handle(t)
  PROVE  Typed'
<1>1. /\ t \in Threads /\ t \notin Workers /\ packet[t] \in Packets
      /\ packet = [packet EXCEPT ![t] = packet[t]]
  BY DEF Threads, Typed, TypeOK, Clear, Read, Dispatch, Handle
<1>2. ASSUME NEW step \in Steps \ {"queue"}, Goto(t, step), packet' = packet
      PROVE  /\ pc' \in [Threads -> Steps] /\ packet' \in [Threads -> Packets \union {None}]
             /\ \A r \in Threads : pc'[r] # "idle" => packet'[r] \in Packets
             /\ \A r \in Workers : pc'[r] \in {"idle", "queue"}
             /\ \A r \in RedisThreads : pc'[r] # "queue"
  BY <1>1, <1>2, GotoTyped
<1>3. Size[packet[t]] \in Nat
  BY <1>1
<1>4. CASE Clear(t)
  <2>1. [i \in 1 .. Asked(packet[t]) |-> Zero] \in Seq(Bytes \union {Zero})
    BY <1>3 DEF Asked
  <2>2. readData' \in [1 .. MAX_RECV_SIZE -> Bytes \union {Zero}]
    BY <1>4, <2>1, IntoType DEF Clear, Typed, TypeOK
  <2>3. QED
    BY <1>2, <1>4, <2>2 DEF Clear, Typed, TypeOK, Steps
<1>5. CASE Read(t)
  <2> DEFINE n == Size[packet[t]]
  <2>1. ring \in Seq(Bytes) /\ Len(ring) <= bufferSize
    BY DEF Typed, TypeOK
  <2>2. Ring!Read(n)
    BY <1>5 DEF Read, Asked
  <2>3. n \in Nat
    BY <1>3
  <2> HIDE DEF n
  <2>4. \/ /\ ringCall'.ok /\ n <= Len(ring) /\ ringCall'.bytes = SubSeq(ring, 1, n)
           /\ ring' = SubSeq(ring, n + 1, Len(ring))
        \/ ~ringCall'.ok /\ ring' = ring
    BY <2>2, RingReads
  <2>5. ring' \in Seq(Bytes) /\ Len(ring') <= bufferSize
    <3>1. CASE ring' = ring
      BY <2>1, <3>1
    <3>2. CASE n <= Len(ring) /\ ring' = SubSeq(ring, n + 1, Len(ring))
      <4>1. ring' \in Seq(Bytes) /\ Len(ring') = Len(ring) - n
        BY <2>1, <2>3, <3>2, CutType
      <4>2. Len(ring) \in Nat
        BY <2>1
      <4>3. QED
        BY <2>1, <2>3, <4>1, <4>2
    <3>3. QED
      BY <2>4, <3>1, <3>2
  <2>6. readData' \in [1 .. MAX_RECV_SIZE -> Bytes \union {Zero}]
    <3>1. CASE ringCall'.ok /\ readData' = Into(readData, ringCall'.bytes)
      <4>1. ringCall'.bytes \in Seq(Bytes \union {Zero})
        BY <2>1, <2>3, <2>4, <3>1
      <4>2. QED
        BY <3>1, <4>1, IntoType DEF Typed, TypeOK
    <3>2. CASE UNCHANGED readData
      BY <3>2 DEF Typed, TypeOK
    <3>3. QED
      BY <1>5, <3>1, <3>2 DEF Read
  <2>7. packet' = packet /\ (Goto(t, "dispatch") \/ Goto(t, "undefined"))
    BY <1>5 DEF Read
  <2>8. QED
    BY <1>2, <1>5, <2>5, <2>6, <2>7 DEF Read, Typed, TypeOK, Steps
<1>6. CASE Dispatch(t)
  <2>1. CASE Goto(t, "handle") /\ UNCHANGED alive
    BY <1>2, <1>6, <2>1 DEF Dispatch, Typed, TypeOK, Steps
  <2>2. CASE alive' = FALSE /\ UNCHANGED pc
    BY <1>6, <2>2 DEF Dispatch, Typed, TypeOK
  <2>3. QED
    BY <1>6, <2>1, <2>2 DEF Dispatch
<1>7. CASE Handle(t)
  <2>1. /\ pc' \in [Threads -> Steps] /\ packet' \in [Threads -> Packets \union {None}]
        /\ \A r \in Threads : pc'[r] # "idle" => packet'[r] \in Packets
        /\ \A r \in Workers : pc'[r] \in {"idle", "queue"}
        /\ \A r \in RedisThreads : pc'[r] # "queue"
    BY <1>1, <1>7, GotoTyped DEF Handle, Return, Steps
  <2>2. handled' \in Packets \union {None}
    BY <1>7 DEF Handle, Found
  <2>3. QED
    BY <1>7, <2>1, <2>2 DEF Handle, Typed, TypeOK, Steps
<1>8. QED
  BY <1>4, <1>5, <1>6, <1>7

LEMMA StepTyped == Typed /\ [Next]_vars => Typed'
<1> SUFFICES ASSUME Typed, [Next]_vars PROVE Typed'
  OBVIOUS
<1>1. CASE UNCHANGED vars
  BY <1>1 DEF vars, Typed, TypeOK, Threads
<1>2. QED
  BY <1>1, WriteTyped, QueueTyped, PopTyped, HandlingTyped DEF Next, RedisThread

(* The descriptors, the ring and the threads keep their types whatever the  *)
(* threads do (RedisManager.cpp:30-38, 77-106, ConnUser.h:99-111).         *)
THEOREM TypeCorrect == Spec => []TypeOK
<1>1. Typed => TypeOK
  BY DEF Typed
<1>2. QED
  BY <1>1, InitTyped, StepTyped, PTL DEF Spec

HIDE PipelineAssumption DEF PipelineAssumption

----------------------------------------------------------------------------
(* The ends of m packets of these sizes that lie one after the other.       *)
Laid(ends, m, size) ==
  /\ ends \in [0 .. m -> Nat] /\ ends[0] = 0
  /\ \A k \in 1 .. m : ends[k] = ends[k - 1] + size[k]
  /\ \A i, k \in 0 .. m : i <= k => ends[i] <= ends[k]

LEMMA LaidMeans ==
  ASSUME NEW m \in Nat, NEW size \in [1 .. m -> Nat], NEW ends, Laid(ends, m, size)
  PROVE  /\ \A k \in 0 .. m : ends[k] \in Nat
         /\ \A k \in 1 .. m : size[k] \in Nat /\ ends[k] = ends[k - 1] + size[k]
         /\ \A i, k \in 0 .. m : i <= k => ends[i] <= ends[k]
BY DEF Laid

LEMMA AtMost ==
  ASSUME NEW a \in Nat, NEW b \in Nat, NEW c \in Nat, a <= b, b <= c
  PROVE  a <= c
OBVIOUS

LEMMA Regroups ==
  ASSUME NEW a \in Nat, NEW b \in Nat, NEW s \in Nat
  PROVE  (a + b) - s = a + (b - s)
OBVIOUS

LEMMA Slides ==
  ASSUME NEW a \in Nat, NEW s \in Nat, NEW c \in Nat
  PROVE  ((a + s) + c) - s = a + c
OBVIOUS

LEMMA AlsoLess ==
  ASSUME NEW a \in Nat, NEW b \in Nat, NEW s \in Nat, a <= b
  PROVE  a - s <= b - s
OBVIOUS

(* Without what is between the j-th end and the one before it.              *)
Less(ends, m, j, s) == [k \in 0 .. m - 1 |-> IF k < j THEN ends[k] ELSE ends[k + 1] - s]
Rest(size, m, j)    == [k \in 1 .. m - 1 |-> IF k < j THEN size[k] ELSE size[k + 1]]

LEMMA LaidWithout ==
  ASSUME NEW m \in Nat, NEW size \in [1 .. m -> Nat], NEW ends, Laid(ends, m, size),
         NEW j \in 1 .. m
  PROVE  /\ Laid(Less(ends, m, j, size[j]), m - 1, Rest(size, m, j))
         /\ ends[m] - size[j] \in Nat /\ Less(ends, m, j, size[j])[m - 1] = ends[m] - size[j]
<1> DEFINE s == size[j]
           less == Less(ends, m, j, s)
           rest == Rest(size, m, j)
<1>1. /\ j \in Nat /\ j >= 1 /\ j <= m /\ s \in Nat /\ ends[j] = ends[j - 1] + s
      /\ ends[j - 1] \in Nat /\ ends[j] \in Nat
  <2>1. j \in Nat /\ j >= 1 /\ j <= m /\ j \in 0 .. m /\ j - 1 \in 0 .. m
    OBVIOUS
  <2>2. ends[j - 1] \in Nat /\ ends[j] \in Nat
    BY <2>1, LaidMeans
  <2>3. s \in Nat /\ ends[j] = ends[j - 1] + s
    BY <2>1, LaidMeans
  <2>4. QED
    BY <2>1, <2>2, <2>3
<1>2. \A k \in 0 .. m : ends[k] \in Nat
  BY LaidMeans
<1>3. \A k \in 0 .. m - 1 : less[k] = IF k < j THEN ends[k] ELSE ends[k + 1] - s
  BY DEF Less
<1>4. less = [k \in 0 .. m - 1 |-> less[k]]
  BY DEF Less
<1>5. ASSUME NEW k \in 0 .. m, k >= j
      PROVE  ends[k] - s \in Nat /\ ends[j - 1] <= ends[k] - s
  <2>1. j \in 0 .. m
    BY <1>1
  <2>2. ends[j] <= ends[k]
    BY <1>5, <2>1, LaidMeans
  <2>3. ends[k] \in Nat
    BY <1>2
  <2>4. QED
    BY <1>1, <2>2, <2>3
<1> HIDE DEF less, s, rest
<1>6. ASSUME NEW k \in 0 .. m - 1 PROVE less[k] \in Nat
  <2>1. k \in 0 .. m /\ k + 1 \in 0 .. m
    OBVIOUS
  <2>2. CASE k < j
    BY <1>2, <1>3, <2>1, <2>2
  <2>3. CASE ~(k < j)
    <3>1. k + 1 >= j
      BY <1>1, <2>3
    <3>2. QED
      BY <1>3, <1>5, <2>1, <2>3, <3>1
  <2>4. QED
    BY <2>2, <2>3
<1>7. less \in [0 .. m - 1 -> Nat]
  BY <1>4, <1>6
<1>8. less[0] = 0
  <2>1. 0 \in 0 .. m - 1 /\ 0 < j
    BY <1>1
  <2>2. ends[0] = 0
    BY DEF Laid
  <2>3. QED
    BY <1>3, <2>1, <2>2
<1>9. ends[m] - s \in Nat /\ less[m - 1] = ends[m] - s
  <2>1. m \in 0 .. m /\ m - 1 \in 0 .. m - 1 /\ (m - 1) + 1 = m /\ m >= j
    BY <1>1
  <2>2. ends[m] - s \in Nat
    BY <1>5, <2>1
  <2>3. CASE j = m
    <3>1. less[m - 1] = ends[m - 1]
      BY <1>1, <1>3, <2>1, <2>3
    <3>2. QED
      BY <1>1, <2>2, <2>3, <3>1
  <2>4. CASE j # m
    <3>1. ~(m - 1 < j)
      BY <1>1, <2>4
    <3>2. QED
      BY <1>3, <2>1, <2>2, <3>1
  <2>5. QED
    BY <2>3, <2>4
<1>10. ASSUME NEW k \in 1 .. m - 1 PROVE less[k] = less[k - 1] + rest[k]
  <2>1. /\ k - 1 \in 0 .. m - 1 /\ k \in 0 .. m - 1 /\ k \in 1 .. m /\ k + 1 \in 1 .. m
        /\ (k - 1) + 1 = k /\ (k + 1) - 1 = k /\ k \in Nat /\ k - 1 \in 0 .. m /\ k \in 0 .. m
    OBVIOUS
  <2>2. ends[k] = ends[k - 1] + size[k] /\ ends[k + 1] = ends[k] + size[k + 1]
    <3>1. ends[k] = ends[k - 1] + size[k]
      BY <2>1, LaidMeans
    <3>2. ends[k + 1] = ends[(k + 1) - 1] + size[k + 1]
      BY <2>1, LaidMeans
    <3>3. QED
      BY <2>1, <3>1, <3>2
  <2>3. ends[k] \in Nat /\ size[k + 1] \in Nat
    BY <1>2, <2>1
  <2>4. rest[k] = IF k < j THEN size[k] ELSE size[k + 1]
    BY DEF rest, Rest
  <2>5. CASE k < j
    <3>1. k - 1 < j
      BY <1>1, <2>1, <2>5
    <3>2. less[k] = ends[k] /\ less[k - 1] = ends[k - 1] /\ rest[k] = size[k]
      BY <1>3, <2>1, <2>4, <2>5, <3>1
    <3>3. QED
      BY <2>2, <3>2
  <2>6. CASE k = j
    <3>1. less[k] = ends[k + 1] - s /\ less[k - 1] = ends[j - 1] /\ rest[k] = size[k + 1]
      BY <1>1, <1>3, <2>1, <2>4, <2>6
    <3>2. ends[k + 1] = (ends[j - 1] + s) + size[k + 1]
      BY <1>1, <2>2, <2>6
    <3>3. ((ends[j - 1] + s) + size[k + 1]) - s = ends[j - 1] + size[k + 1]
      BY <1>1, <2>3, Slides
    <3>4. QED
      BY <3>1, <3>2, <3>3
  <2>7. CASE k > j
    <3>1. ~(k - 1 < j) /\ ~(k < j)
      BY <1>1, <2>1, <2>7
    <3>2. less[k] = ends[k + 1] - s /\ less[k - 1] = ends[k] - s /\ rest[k] = size[k + 1]
      BY <1>3, <2>1, <2>4, <3>1
    <3>3. QED
      BY <1>1, <2>2, <2>3, <3>2
  <2>8. QED
    BY <1>1, <2>1, <2>5, <2>6, <2>7
<1>11. ASSUME NEW i \in 0 .. m - 1, NEW k \in 0 .. m - 1, i <= k PROVE less[i] <= less[k]
  <2>1. /\ i \in 0 .. m /\ k \in 0 .. m /\ i + 1 \in 0 .. m /\ k + 1 \in 0 .. m
        /\ i + 1 <= k + 1 /\ i \in Nat /\ k \in Nat
    BY <1>11
  <2>2. ends[i] <= ends[k] /\ ends[i + 1] <= ends[k + 1]
    BY <1>11, <2>1, LaidMeans
  <2>3. ends[i + 1] \in Nat /\ ends[k + 1] \in Nat /\ ends[i] \in Nat
    BY <1>2, <2>1
  <2>4. CASE k < j
    <3>1. i < j
      BY <1>1, <1>11, <2>1, <2>4
    <3>2. less[i] = ends[i] /\ less[k] = ends[k]
      BY <1>3, <2>4, <3>1
    <3>3. QED
      BY <2>2, <3>2
  <2>5. CASE i < j /\ ~(k < j)
    <3>1. i <= j - 1 /\ j - 1 \in 0 .. m /\ k + 1 >= j
      BY <1>1, <2>1, <2>5
    <3>2. ends[i] <= ends[j - 1]
      BY <2>1, <3>1, LaidMeans
    <3>3. ends[j - 1] <= ends[k + 1] - s /\ ends[k + 1] - s \in Nat
      BY <1>5, <2>1, <3>1
    <3>4. less[i] = ends[i] /\ less[k] = ends[k + 1] - s
      BY <1>3, <2>5
    <3>5. ends[i] <= ends[k + 1] - s
      BY <1>1, <2>3, <3>2, <3>3, AtMost
    <3>6. QED
      BY <3>4, <3>5
  <2>6. CASE ~(i < j)
    <3>1. ~(k < j)
      BY <1>1, <1>11, <2>1, <2>6
    <3>2. less[i] = ends[i + 1] - s /\ less[k] = ends[k + 1] - s
      BY <1>3, <2>6, <3>1
    <3>3. ends[i + 1] - s <= ends[k + 1] - s
      BY <1>1, <2>2, <2>3, AlsoLess
    <3>4. QED
      BY <3>2, <3>3
  <2>7. QED
    BY <1>1, <2>1, <2>4, <2>5, <2>6
<1>12. QED
  BY <1>7, <1>8, <1>9, <1>10, <1>11 DEF less, s, rest, Laid

LEMMA LaidMore ==
  ASSUME NEW m \in Nat, NEW size \in [1 .. m -> Nat], NEW ends, Laid(ends, m, size),
         NEW more \in [1 .. m + 1 -> Nat], \A k \in 1 .. m : more[k] = size[k]
  PROVE  \E later : /\ Laid(later, m + 1, more) /\ later[m + 1] = ends[m] + more[m + 1]
                    /\ \A k \in 0 .. m : later[k] = ends[k]
<1> DEFINE last == ends[m] + more[m + 1]
           later == [k \in 0 .. m + 1 |-> IF k = m + 1 THEN last ELSE ends[k]]
<1>1. ends[m] \in Nat /\ more[m + 1] \in Nat /\ last \in Nat /\ ends[m] <= last
  <2>1. m \in 0 .. m /\ m + 1 \in 1 .. m + 1
    OBVIOUS
  <2>2. ends[m] \in Nat /\ more[m + 1] \in Nat
    BY <2>1, LaidMeans
  <2>3. QED
    BY <2>2
<1>2. \A k \in 0 .. m : ends[k] \in Nat /\ k \in 0 .. m + 1 /\ k # m + 1
  BY LaidMeans
<1>3. later[m + 1] = last /\ \A k \in 0 .. m : later[k] = ends[k]
  BY <1>2
<1> HIDE DEF last
<1>4. later \in [0 .. m + 1 -> Nat]
  BY <1>1, <1>2
<1> HIDE DEF later
<1>5. later[0] = 0
  BY <1>3 DEF Laid
<1>6. ASSUME NEW k \in 1 .. m + 1 PROVE later[k] = later[k - 1] + more[k]
  <2>1. CASE k = m + 1
    <3>1. k - 1 = m /\ m \in 0 .. m
      BY <2>1
    <3>2. QED
      BY <1>3, <2>1, <3>1 DEF last
  <2>2. CASE k # m + 1
    <3>1. k \in 1 .. m /\ k \in 0 .. m /\ k - 1 \in 0 .. m
      BY <2>2
    <3>2. ends[k] = ends[k - 1] + size[k]
      BY <3>1, LaidMeans
    <3>3. QED
      BY <1>3, <3>1, <3>2
  <2>3. QED
    BY <2>1, <2>2
<1>7. ASSUME NEW i \in 0 .. m + 1, NEW k \in 0 .. m + 1, i <= k PROVE later[i] <= later[k]
  <2>1. CASE k = m + 1
    <3>1. CASE i = m + 1
      BY <1>1, <1>3, <2>1, <3>1
    <3>2. CASE i # m + 1
      <4>1. i \in 0 .. m /\ i <= m /\ m \in 0 .. m
        BY <3>2
      <4>2. ends[i] <= ends[m] /\ ends[i] \in Nat
        BY <4>1, LaidMeans
      <4>3. QED
        BY <1>1, <1>3, <2>1, <4>1, <4>2
    <3>3. QED
      BY <3>1, <3>2
  <2>2. CASE k # m + 1
    <3>1. k \in 0 .. m /\ i \in 0 .. m
      BY <1>7, <2>2
    <3>2. ends[i] <= ends[k]
      BY <1>7, <3>1, LaidMeans
    <3>3. QED
      BY <1>3, <3>1, <3>2
  <2>3. QED
    BY <2>1, <2>2
<1>8. Laid(later, m + 1, more)
  BY <1>4, <1>5, <1>6, <1>7 DEF Laid
<1>9. QED
  BY <1>3, <1>8 DEF last

----------------------------------------------------------------------------
(* The packets of a queue have n bytes together.                            *)
Sizes(queue) == [k \in 1 .. Len(queue) |-> Size[queue[k]]]

Sums(queue, n) == \E ends : Laid(ends, Len(queue), Sizes(queue)) /\ ends[Len(queue)] = n

LEMMA SizesType ==
  ASSUME NEW queue \in Seq(Packets)
  PROVE  /\ Len(queue) \in Nat /\ DOMAIN queue = 1 .. Len(queue)
         /\ Sizes(queue) \in [1 .. Len(queue) -> Nat]
         /\ \A k \in 1 .. Len(queue) : Sizes(queue)[k] = Size[queue[k]] /\ queue[k] \in Packets
<1>1. Len(queue) \in Nat /\ DOMAIN queue = 1 .. Len(queue)
      /\ \A k \in 1 .. Len(queue) : queue[k] \in Packets
  OBVIOUS
<1>2. \A p \in Packets : Size[p] \in Nat
  BY BytesOfType
<1>3. QED
  BY <1>1, <1>2 DEF Sizes

LEMMA SumsEmpty == Sums(<<>>, 0)
<1>1. Laid([k \in 0 .. 0 |-> 0], 0, Sizes(<<>>))
  BY DEF Laid
<1>2. Len(<<>>) = 0
  OBVIOUS
<1>3. QED
  BY <1>1, <1>2 DEF Sums

LEMMA SumsAppend ==
  ASSUME NEW queue \in Seq(Packets), NEW n, NEW p \in Packets, Sums(queue, n)
  PROVE  Sums(Append(queue, p), n + Size[p])
<1>1. PICK ends : Laid(ends, Len(queue), Sizes(queue)) /\ ends[Len(queue)] = n
  BY DEF Sums
<1> DEFINE m == Len(queue)
           longer == Append(queue, p)
<1>2. /\ longer \in Seq(Packets) /\ Len(longer) = m + 1 /\ longer[m + 1] = p
      /\ \A k \in 1 .. m : longer[k] = queue[k]
  OBVIOUS
<1>3. m \in Nat /\ Sizes(queue) \in [1 .. m -> Nat] /\ Sizes(longer) \in [1 .. m + 1 -> Nat]
  BY <1>2, SizesType
<1>4. /\ \A k \in 1 .. m : Sizes(longer)[k] = Sizes(queue)[k]
      /\ Sizes(longer)[m + 1] = Size[p]
  <2>1. \A k \in 1 .. m + 1 : Sizes(longer)[k] = Size[longer[k]]
    BY <1>2, SizesType
  <2>2. \A k \in 1 .. m : Sizes(queue)[k] = Size[queue[k]]
    BY SizesType
  <2>3. m + 1 \in 1 .. m + 1 /\ \A k \in 1 .. m : k \in 1 .. m + 1
    BY <1>3
  <2> HIDE DEF m, longer
  <2>4. QED
    BY <1>2, <2>1, <2>2, <2>3
<1> HIDE DEF m, longer
<1>5. Laid(ends, m, Sizes(queue)) /\ ends[m] = n
  BY <1>1 DEF m
<1>6. PICK later : /\ Laid(later, m + 1, Sizes(longer))
                   /\ later[m + 1] = ends[m] + Sizes(longer)[m + 1]
  <2>1. Laid(ends, m, Sizes(queue)) /\ \A k \in 1 .. m : Sizes(longer)[k] = Sizes(queue)[k]
    BY <1>4, <1>5
  <2> DEFINE old == Sizes(queue)
             new == Sizes(longer)
  <2>2. /\ m \in Nat /\ old \in [1 .. m -> Nat] /\ new \in [1 .. m + 1 -> Nat]
        /\ Laid(ends, m, old) /\ \A k \in 1 .. m : new[k] = old[k]
    BY <1>3, <2>1
  <2> HIDE DEF old, new
  <2>3. \E later : Laid(later, m + 1, new) /\ later[m + 1] = ends[m] + new[m + 1]
    BY <2>2, LaidMore, ZenonT(30)
  <2>4. QED
    BY <2>3 DEF new
<1>7. later[m + 1] = n + Size[p]
  BY <1>4, <1>5, <1>6
<1>8. QED
  BY <1>2, <1>6, <1>7 DEF Sums, longer

LEMMA SumsTail ==
  ASSUME NEW queue \in Seq(Packets), queue # <<>>, NEW n, Sums(queue, n)
  PROVE  /\ n - Size[Head(queue)] \in Nat
         /\ Sums(Tail(queue), n - Size[Head(queue)])
<1>1. PICK ends : Laid(ends, Len(queue), Sizes(queue)) /\ ends[Len(queue)] = n
  BY DEF Sums
<1> DEFINE m == Len(queue)
           shorter == Tail(queue)
<1>2. /\ shorter \in Seq(Packets) /\ Len(shorter) = m - 1 /\ m \in Nat /\ m >= 1
      /\ Head(queue) = queue[1] /\ \A k \in 1 .. m - 1 : shorter[k] = queue[k + 1]
  OBVIOUS
<1>3. /\ Sizes(queue) \in [1 .. m -> Nat] /\ Sizes(queue)[1] = Size[Head(queue)]
      /\ \A k \in 1 .. m : Sizes(queue)[k] = Size[queue[k]]
  BY <1>2, SizesType
<1> HIDE DEF m, shorter
<1>4. Sizes(shorter) = Rest(Sizes(queue), m, 1)
  <2>1. \A k \in 1 .. m - 1 : k + 1 \in 1 .. m /\ ~(k < 1)
    BY <1>2
  <2>2. \A k \in 1 .. m - 1 : Size[shorter[k]] = Sizes(queue)[k + 1]
    BY <1>2, <1>3, <2>1
  <2>3. Sizes(shorter) = [k \in 1 .. m - 1 |-> Size[shorter[k]]]
    BY <1>2 DEF Sizes
  <2>4. Rest(Sizes(queue), m, 1) = [k \in 1 .. m - 1 |-> Sizes(queue)[k + 1]]
    BY <2>1 DEF Rest
  <2>5. QED
    BY <2>2, <2>3, <2>4
<1>5. Laid(ends, m, Sizes(queue)) /\ ends[m] = n
  BY <1>1 DEF m
<1>6. 1 \in 1 .. m
  BY <1>2
<1>7. /\ Laid(Less(ends, m, 1, Sizes(queue)[1]), m - 1, Rest(Sizes(queue), m, 1))
      /\ ends[m] - Sizes(queue)[1] \in Nat
      /\ Less(ends, m, 1, Sizes(queue)[1])[m - 1] = ends[m] - Sizes(queue)[1]
  <2>1. m \in Nat /\ Sizes(queue) \in [1 .. m -> Nat] /\ Laid(ends, m, Sizes(queue))
    BY <1>2, <1>3, <1>5
  <2>2. QED
    BY <1>6, <2>1, LaidWithout
<1>8. QED
  BY <1>2, <1>3, <1>4, <1>5, <1>7 DEF Sums, shorter

LEMMA SumsSuffices ==
  ASSUME NEW queue \in Seq(Packets), NEW n \in Nat, Sums(queue, n)
  PROVE  SumsTo(queue, n)
<1>1. PICK ends : Laid(ends, Len(queue), Sizes(queue)) /\ ends[Len(queue)] = n
  BY DEF Sums
<1> DEFINE m == Len(queue)
<1>2. /\ m \in Nat /\ DOMAIN queue = 1 .. m /\ Sizes(queue) \in [1 .. m -> Nat]
      /\ \A k \in 1 .. m : Sizes(queue)[k] = Size[queue[k]]
  BY SizesType
<1> HIDE DEF m
<1>3. Laid(ends, m, Sizes(queue)) /\ ends[m] = n
  BY <1>1 DEF m
<1>4. /\ \A k \in 0 .. m : ends[k] \in Nat
      /\ \A k \in 1 .. m : ends[k] = ends[k - 1] + Sizes(queue)[k]
      /\ \A i, k \in 0 .. m : i <= k => ends[i] <= ends[k]
  <2>1. m \in Nat /\ Sizes(queue) \in [1 .. m -> Nat] /\ Laid(ends, m, Sizes(queue))
    BY <1>2, <1>3
  <2>2. QED
    BY <2>1, LaidMeans
<1>5. \A k \in 0 .. m : ends[k] \in 0 .. n
  <2>1. \A k \in 0 .. m : k <= m /\ m \in 0 .. m
    BY <1>2
  <2>2. \A k \in 0 .. m : ends[k] <= n /\ ends[k] \in Nat
    BY <1>3, <1>4, <2>1
  <2>3. QED
    BY <2>2
<1>6. ends \in [0 .. m -> 0 .. n] /\ ends[0] = 0
  BY <1>3, <1>5 DEF Laid
<1>7. \A k \in 1 .. m : ends[k] = ends[k - 1] + Size[queue[k]]
  BY <1>2, <1>4
<1>8. QED
  BY <1>2, <1>3, <1>6, <1>7 DEF SumsTo, m

(* h is a list of the threads in S, each once, and their packets have n     *)
(* bytes together.                                                          *)
Lists(h, m, S) ==
  /\ h \in [1 .. m -> S]
  /\ \A i, k \in 1 .. m : h[i] = h[k] => i = k
  /\ \A t \in S : \E k \in 1 .. m : h[k] = t

InHands(h, m, pk) == [k \in 1 .. m |-> Size[pk[h[k]]]]

Hands(S, pk, n) ==
  \E m \in Nat : \E h, ends : Lists(h, m, S) /\ Laid(ends, m, InHands(h, m, pk)) /\ ends[m] = n

LEMMA InHandsType ==
  ASSUME NEW S, NEW m \in Nat, NEW h, Lists(h, m, S), NEW pk, \A t \in S : pk[t] \in Packets
  PROVE  /\ InHands(h, m, pk) \in [1 .. m -> Nat]
         /\ \A k \in 1 .. m : InHands(h, m, pk)[k] = Size[pk[h[k]]]
<1>1. \A p \in Packets : Size[p] \in Nat
  BY BytesOfType
<1>2. QED
  BY <1>1 DEF InHands, Lists

LEMMA HandsNone == ASSUME NEW pk PROVE Hands({}, pk, 0)
<1> DEFINE h == [k \in 1 .. 0 |-> 0]
           ends == [k \in 0 .. 0 |-> 0]
<1>1. Lists(h, 0, {})
  BY DEF Lists
<1>2. Laid(ends, 0, InHands(h, 0, pk)) /\ ends[0] = 0
  BY DEF Laid
<1>3. QED
  BY <1>1, <1>2 DEF Hands

LEMMA HandsAdd ==
  ASSUME NEW S, NEW t, t \notin S, NEW pk, NEW new, NEW n,
         \A r \in S : pk[r] \in Packets /\ new[r] = pk[r],
         new[t] \in Packets, Hands(S, pk, n)
  PROVE  Hands(S \union {t}, new, n + Size[new[t]])
<1>0. PICK m \in Nat :
        \E h, ends : Lists(h, m, S) /\ Laid(ends, m, InHands(h, m, pk)) /\ ends[m] = n
  BY DEF Hands
<1>1. PICK h, ends : Lists(h, m, S) /\ Laid(ends, m, InHands(h, m, pk)) /\ ends[m] = n
  BY <1>0
<1> DEFINE g == [k \in 1 .. m + 1 |-> IF k = m + 1 THEN t ELSE h[k]]
<1>2. /\ h \in [1 .. m -> S] /\ \A i, k \in 1 .. m : h[i] = h[k] => i = k
      /\ \A r \in S : \E k \in 1 .. m : h[k] = r
  BY <1>1 DEF Lists
<1>3. /\ \A k \in 1 .. m : g[k] = h[k] /\ g[k] \in S /\ k \in 1 .. m + 1 /\ k # m + 1
      /\ g[m + 1] = t /\ m + 1 \in 1 .. m + 1
  BY <1>2
<1>4. \A k \in 1 .. m + 1 : k = m + 1 \/ k \in 1 .. m
  OBVIOUS
<1>5. g \in [1 .. m + 1 -> S \union {t}]
  BY <1>2
<1> HIDE DEF g
<1>6. Lists(g, m + 1, S \union {t})
  <2>1. \A i, k \in 1 .. m + 1 : g[i] = g[k] => i = k
    BY <1>2, <1>3, <1>4
  <2>2. \A r \in S \union {t} : \E k \in 1 .. m + 1 : g[k] = r
    BY <1>2, <1>3
  <2>3. QED
    BY <1>5, <2>1, <2>2 DEF Lists
<1>7. \A r \in S \union {t} : new[r] \in Packets
  OBVIOUS
<1>8. m + 1 \in Nat
  OBVIOUS
<1>9. /\ InHands(h, m, pk) \in [1 .. m -> Nat]
      /\ \A k \in 1 .. m : InHands(h, m, pk)[k] = Size[pk[h[k]]]
  BY <1>1, InHandsType
<1>10. /\ InHands(g, m + 1, new) \in [1 .. m + 1 -> Nat]
       /\ \A k \in 1 .. m + 1 : InHands(g, m + 1, new)[k] = Size[new[g[k]]]
  <2> DEFINE all == S \union {t}
             last == m + 1
  <2>1. Lists(g, last, all) /\ (\A r \in all : new[r] \in Packets) /\ last \in Nat
    BY <1>6, <1>7, <1>8
  <2> HIDE DEF all, last
  <2>2. /\ InHands(g, last, new) \in [1 .. last -> Nat]
        /\ \A k \in 1 .. last : InHands(g, last, new)[k] = Size[new[g[k]]]
    BY <2>1, InHandsType
  <2>3. QED
    BY <2>2 DEF last
<1>11. \A k \in 1 .. m : InHands(g, m + 1, new)[k] = InHands(h, m, pk)[k]
  <2>1. ASSUME NEW k \in 1 .. m PROVE InHands(g, m + 1, new)[k] = InHands(h, m, pk)[k]
    <3>1. InHands(g, m + 1, new)[k] = Size[new[g[k]]] /\ InHands(h, m, pk)[k] = Size[pk[h[k]]]
      BY <1>3, <1>9, <1>10, Zenon
    <3>2. g[k] = h[k] /\ h[k] \in S
      BY <1>2, <1>3
    <3>3. QED
      BY <3>1, <3>2
  <2>2. QED
    BY <2>1
<1>12. PICK later : /\ Laid(later, m + 1, InHands(g, m + 1, new))
                    /\ later[m + 1] = ends[m] + InHands(g, m + 1, new)[m + 1]
  <2> DEFINE old  == InHands(h, m, pk)
             more == InHands(g, m + 1, new)
  <2>1. /\ m \in Nat /\ old \in [1 .. m -> Nat] /\ more \in [1 .. m + 1 -> Nat]
        /\ Laid(ends, m, old)
    BY <1>1, <1>9, <1>10
  <2>2. \A k \in 1 .. m : more[k] = old[k]
    BY <1>11
  <2> HIDE DEF old, more
  <2>3. \E later : Laid(later, m + 1, more) /\ later[m + 1] = ends[m] + more[m + 1]
    BY <2>1, <2>2, LaidMore
  <2>4. QED
    BY <2>3 DEF more
<1>13. later[m + 1] = n + Size[new[t]]
  BY <1>1, <1>3, <1>10, <1>12
<1>14. QED
  BY <1>6, <1>8, <1>12, <1>13 DEF Hands

LEMMA HandsDrop ==
  ASSUME NEW S, NEW t \in S, NEW pk, NEW new, NEW n,
         \A r \in S : pk[r] \in Packets,
         \A r \in S \ {t} : new[r] = pk[r], Hands(S, pk, n)
  PROVE  /\ n - Size[pk[t]] \in Nat
         /\ Hands(S \ {t}, new, n - Size[pk[t]])
<1>0. PICK m \in Nat :
        \E h, ends : Lists(h, m, S) /\ Laid(ends, m, InHands(h, m, pk)) /\ ends[m] = n
  BY DEF Hands
<1>1. PICK h, ends : Lists(h, m, S) /\ Laid(ends, m, InHands(h, m, pk)) /\ ends[m] = n
  BY <1>0
<1>2. /\ h \in [1 .. m -> S] /\ \A i, k \in 1 .. m : h[i] = h[k] => i = k
      /\ \A r \in S : \E k \in 1 .. m : h[k] = r
  BY <1>1 DEF Lists
<1>3. PICK j \in 1 .. m : h[j] = t
  BY <1>2
<1> DEFINE g == Rest(h, m, j)
           from(k) == IF k < j THEN k ELSE k + 1
<1>4. m - 1 \in Nat
  BY <1>3
<1>5. ASSUME NEW k \in 1 .. m - 1 PROVE g[k] = h[from(k)] /\ from(k) \in 1 .. m /\ from(k) # j
  BY <1>3 DEF Rest
<1>6. ASSUME NEW i \in 1 .. m, i # j PROVE \E k \in 1 .. m - 1 : from(k) = i
  <2>1. CASE i < j
    <3>1. i \in 1 .. m - 1 /\ from(i) = i
      BY <1>3, <2>1
    <3>2. QED
      BY <3>1
  <2>2. CASE i > j
    <3>1. i - 1 \in 1 .. m - 1 /\ from(i - 1) = i
      BY <1>3, <2>2
    <3>2. QED
      BY <3>1
  <2>3. QED
    BY <1>3, <1>6, <2>1, <2>2
<1>7. \A i, k \in 1 .. m - 1 : from(i) = from(k) => i = k
  BY <1>3
<1>8. g = [k \in 1 .. m - 1 |-> g[k]]
  BY DEF Rest
<1> HIDE DEF g, from
<1>9. Lists(g, m - 1, S \ {t})
  <2>1. \A k \in 1 .. m - 1 : g[k] \in S \ {t}
    BY <1>2, <1>3, <1>5
  <2>2. g \in [1 .. m - 1 -> S \ {t}]
    BY <1>8, <2>1
  <2>3. \A i, k \in 1 .. m - 1 : g[i] = g[k] => i = k
    BY <1>2, <1>5, <1>7
  <2>4. \A r \in S \ {t} : \E k \in 1 .. m - 1 : g[k] = r
    <3>1. ASSUME NEW r \in S \ {t} PROVE \E k \in 1 .. m - 1 : g[k] = r
      <4>1. PICK i \in 1 .. m : h[i] = r
        BY <1>2
      <4>2. i # j
        BY <1>3, <4>1
      <4>3. PICK k \in 1 .. m - 1 : from(k) = i
        BY <1>6, <4>2
      <4>4. QED
        BY <1>5, <4>1, <4>3
    <3>2. QED
      BY <3>1
  <2>5. QED
    BY <2>2, <2>3, <2>4 DEF Lists
<1>10. /\ InHands(h, m, pk) \in [1 .. m -> Nat]
       /\ \A k \in 1 .. m : InHands(h, m, pk)[k] = Size[pk[h[k]]]
  BY <1>1, InHandsType
<1>11. InHands(g, m - 1, new) = Rest(InHands(h, m, pk), m, j)
  <2>1. ASSUME NEW k \in 1 .. m - 1
        PROVE  Size[new[g[k]]] = IF k < j THEN InHands(h, m, pk)[k] ELSE InHands(h, m, pk)[k + 1]
    <3>1. g[k] = h[from(k)] /\ from(k) \in 1 .. m /\ h[from(k)] \in S \ {t}
      BY <1>2, <1>3, <1>5
    <3>2. Size[new[g[k]]] = InHands(h, m, pk)[from(k)]
      BY <1>10, <3>1
    <3>3. QED
      BY <3>2 DEF from
  <2>2. QED
    BY <2>1 DEF InHands, Rest
<1>12. Laid(ends, m, InHands(h, m, pk))
  BY <1>1
<1>13. /\ Laid(Less(ends, m, j, InHands(h, m, pk)[j]), m - 1, Rest(InHands(h, m, pk), m, j))
       /\ ends[m] - InHands(h, m, pk)[j] \in Nat
       /\ Less(ends, m, j, InHands(h, m, pk)[j])[m - 1] = ends[m] - InHands(h, m, pk)[j]
  BY <1>10, <1>12, LaidWithout
<1>14. ends[m] - InHands(h, m, pk)[j] = n - Size[pk[t]]
  BY <1>1, <1>3, <1>10
<1>15. QED
  BY <1>4, <1>9, <1>11, <1>13, <1>14 DEF Hands

LEMMA HandsSame ==
  ASSUME NEW S, NEW pk, NEW new, NEW n, \A r \in S : new[r] = pk[r], Hands(S, pk, n)
  PROVE  Hands(S, new, n)
<1>0. PICK m \in Nat :
        \E h, ends : Lists(h, m, S) /\ Laid(ends, m, InHands(h, m, pk)) /\ ends[m] = n
  BY DEF Hands
<1>1. PICK h, ends : Lists(h, m, S) /\ Laid(ends, m, InHands(h, m, pk)) /\ ends[m] = n
  BY <1>0
<1>2. \A k \in 1 .. m : new[h[k]] = pk[h[k]]
  BY <1>1 DEF Lists
<1>3. InHands(h, m, new) = InHands(h, m, pk)
  BY <1>2 DEF InHands
<1>4. QED
  BY <1>1, <1>3 DEF Hands

----------------------------------------------------------------------------
(* Threads that owe the ring a read.                                        *)
Owing == {"queue", "clear", "read"}

LEMMA UnreadAre == Typed => UnreadBy = {t \in Threads : pc[t] \in Owing}
BY DEF Typed, UnreadBy, At, Owing, Threads

LEMMA UnreadGoto ==
  ASSUME Typed, Typed', NEW t \in Threads, NEW step, Goto(t, step)
  PROVE  UnreadBy' = IF step \in Owing THEN UnreadBy \union {t} ELSE UnreadBy \ {t}
<1>1. /\ UnreadBy = {r \in Threads : pc[r] \in Owing}
      /\ UnreadBy' = {r \in Threads : pc'[r] \in Owing}
  BY DEF Typed, UnreadBy, At, Owing, Threads
<1>2. pc'[t] = step /\ \A r \in Threads \ {t} : pc'[r] = pc[r]
  BY DEF Goto, Typed, TypeOK
<1>3. QED
  BY <1>1, <1>2

LEMMA UnreadHave ==
  ASSUME Typed
  PROVE  \A t \in UnreadBy : t \in Threads /\ packet[t] \in Packets
BY UnreadAre DEF Typed, Owing

(* The ring holds what the descriptors queued and the threads will take.    *)
OwedWith(n, m) == n + m = Len(ring) /\ Sums(procSktQueue, n) /\ Hands(UnreadBy, packet, m)

Owed == ~dropped => \E n, m \in Nat : OwedWith(n, m)

LEMMA InitOwed == Init => Owed
<1> SUFFICES ASSUME Init PROVE Owed
  OBVIOUS
<1>1. ring = <<>> /\ procSktQueue = <<>> /\ UnreadBy = {}
  BY DEF Init, Ring!Init, UnreadBy, At, Threads
<1>2. Sums(procSktQueue, 0) /\ Hands(UnreadBy, packet, 0)
  BY <1>1, SumsEmpty, HandsNone
<1>3. OwedWith(0, 0)
  BY <1>1, <1>2 DEF OwedWith
<1>4. QED
  BY <1>3 DEF Owed

LEMMA WriteOwed ==
  ASSUME Typed, Typed', Owed, NEW w \in Workers, NEW p \in Packets, Write(w, p)
  PROVE  Owed'
<1> SUFFICES ASSUME ~dropped' PROVE \E n, m \in Nat : OwedWith(n, m)'
  BY DEF Owed
<1>1. ~dropped /\ ringCall'.ok
  BY DEF Write
<1>2. PICK n \in Nat, m \in Nat : OwedWith(n, m)
  BY <1>1 DEF Owed
<1>3. BytesOf(p) \in Seq(Bytes) /\ Len(BytesOf(p)) = Size[p] /\ Size[p] \in Nat
  BY BytesOfType
<1>4. ring' = ring \o BytesOf(p)
  BY <1>1, RingWrites DEF Write
<1>5. Len(ring') = Len(ring) + Size[p]
  <2>1. ring \in Seq(Bytes)
    BY DEF Typed, TypeOK
  <2>2. QED
    BY <1>3, <1>4, <2>1, ConcatType
<1>6. w \in Threads /\ w \notin UnreadBy
  BY UnreadAre DEF Threads, Write, Owing
<1>7. UnreadBy' = UnreadBy \union {w}
  BY <1>6, UnreadGoto DEF Write, Owing
<1>8. packet'[w] = p /\ \A r \in Threads \ {w} : packet'[r] = packet[r]
  BY <1>6 DEF Write, Typed, TypeOK
<1>9. \A r \in UnreadBy : packet[r] \in Packets /\ packet'[r] = packet[r]
  BY <1>6, <1>8, UnreadHave
<1>10. Hands(UnreadBy, packet, m)
  BY <1>2 DEF OwedWith
<1>11. Hands(UnreadBy \union {w}, packet', m + Size[packet'[w]])
  BY <1>6, <1>8, <1>9, <1>10, HandsAdd
<1>12. Hands(UnreadBy', packet', m + Size[p])
  BY <1>7, <1>8, <1>11
<1>13. n + (m + Size[p]) = Len(ring') /\ m + Size[p] \in Nat
  BY <1>2, <1>3, <1>5 DEF OwedWith
<1>14. Sums(procSktQueue', n)
  BY <1>2 DEF OwedWith, Write
<1>15. OwedWith(n, m + Size[p])'
  BY <1>12, <1>13, <1>14 DEF OwedWith
<1>16. QED
  BY <1>13, <1>15

LEMMA QueueOwed ==
  ASSUME Typed, Typed', Owed, NEW w \in Workers, Queue(w)
  PROVE  Owed'
<1> SUFFICES ASSUME ~dropped' PROVE \E n, m \in Nat : OwedWith(n, m)'
  BY DEF Owed
<1>1. PICK n \in Nat, m \in Nat : OwedWith(n, m)
  BY DEF Owed, Queue
<1>2. w \in Threads /\ w \in UnreadBy
  BY UnreadAre DEF Threads, Queue, Owing
<1>3. PICK p \in Packets : p = packet[w] /\ Size[p] \in Nat
  BY <1>2, UnreadHave, BytesOfType
<1>4. UnreadBy' = UnreadBy \ {w}
  BY <1>2, UnreadGoto DEF Queue, Return, Owing
<1>5. \A r \in Threads \ {w} : packet'[r] = packet[r]
  BY <1>2 DEF Queue, Return, Typed, TypeOK
<1>6. /\ \A r \in UnreadBy : packet[r] \in Packets
      /\ \A r \in UnreadBy \ {w} : packet'[r] = packet[r]
  BY <1>5, UnreadHave
<1>7. Hands(UnreadBy, packet, m) /\ Sums(procSktQueue, n) /\ n + m = Len(ring)
  BY <1>1 DEF OwedWith
<1>8. m - Size[p] \in Nat /\ Hands(UnreadBy \ {w}, packet', m - Size[p])
  BY <1>2, <1>3, <1>6, <1>7, HandsDrop
<1>9. Sums(Append(procSktQueue, p), n + Size[p])
  BY <1>3, <1>7, SumsAppend DEF Typed, TypeOK
<1>10. procSktQueue' = Append(procSktQueue, p) /\ ring' = ring
  BY <1>3 DEF Queue, Queued
<1>11. (n + Size[p]) + (m - Size[p]) = Len(ring') /\ n + Size[p] \in Nat
  BY <1>3, <1>7, <1>10
<1>12. OwedWith(n + Size[p], m - Size[p])'
  BY <1>4, <1>8, <1>9, <1>10, <1>11 DEF OwedWith
<1>13. QED
  BY <1>8, <1>11, <1>12

LEMMA PopOwed ==
  ASSUME Typed, Typed', Owed, NEW t \in RedisThreads, Pop(t)
  PROVE  Owed'
<1> SUFFICES ASSUME ~dropped' PROVE \E n, m \in Nat : OwedWith(n, m)'
  BY DEF Owed
<1>1. PICK n \in Nat, m \in Nat : OwedWith(n, m)
  BY DEF Owed, Pop
<1>2. procSktQueue \in Seq(Packets) /\ procSktQueue # <<>> /\ Head(procSktQueue) \in Packets
  BY DEF Typed, TypeOK, Pop
<1>p. PICK p \in Packets : p = Head(procSktQueue)
  BY <1>2
<1>3. Size[p] \in Nat
  BY <1>2, BytesOfType
<1>4. t \in Threads /\ t \notin UnreadBy
  BY UnreadAre DEF Threads, Pop, Owing
<1>5. UnreadBy' = UnreadBy \union {t}
  BY <1>4, UnreadGoto DEF Pop, Owing
<1>6. packet'[t] = p /\ \A r \in Threads \ {t} : packet'[r] = packet[r]
  BY <1>4, <1>p DEF Pop, Typed, TypeOK
<1>7. \A r \in UnreadBy : packet[r] \in Packets /\ packet'[r] = packet[r]
  BY <1>4, <1>6, UnreadHave
<1>8. Hands(UnreadBy, packet, m) /\ Sums(procSktQueue, n) /\ n + m = Len(ring)
  BY <1>1 DEF OwedWith
<1>9. n - Size[p] \in Nat /\ Sums(Tail(procSktQueue), n - Size[p])
  BY <1>2, <1>8, <1>p, SumsTail
<1>10. procSktQueue' = Tail(procSktQueue) /\ ring' = ring
  BY DEF Pop
<1>11. Hands(UnreadBy \union {t}, packet', m + Size[packet'[t]])
  BY <1>2, <1>4, <1>6, <1>7, <1>8, HandsAdd
<1>12. Hands(UnreadBy', packet', m + Size[p])
  BY <1>5, <1>6, <1>11
<1>13. (n - Size[p]) + (m + Size[p]) = Len(ring') /\ m + Size[p] \in Nat
  BY <1>3, <1>8, <1>10
<1>14. OwedWith(n - Size[p], m + Size[p])'
  BY <1>9, <1>10, <1>12, <1>13 DEF OwedWith
<1>15. QED
  BY <1>9, <1>13, <1>14

(* A read finds its bytes, and takes them.                                  *)
LEMMA ReadFinds ==
  ASSUME Typed, Owed, ~dropped, NEW t \in RedisThreads, pc[t] = "read"
  PROVE  Size[packet[t]] <= Len(ring)
<1>1. PICK n \in Nat, m \in Nat : OwedWith(n, m)
  BY DEF Owed
<1>2. t \in UnreadBy
  BY UnreadAre DEF Threads, Owing
<1>3. \A r \in UnreadBy : packet[r] \in Packets
  BY UnreadHave
<1>4. m - Size[packet[t]] \in Nat /\ n + m = Len(ring) /\ Size[packet[t]] \in Nat
  BY <1>1, <1>2, <1>3, HandsDrop, BytesOfType DEF OwedWith
<1>5. QED
  BY <1>4

LEMMA ReadOwed ==
  ASSUME Typed, Typed', Owed, NEW t \in RedisThreads, Read(t)
  PROVE  Owed'
<1> SUFFICES ASSUME ~dropped' PROVE \E n, m \in Nat : OwedWith(n, m)'
  BY DEF Owed
<1>1. PICK n \in Nat, m \in Nat : OwedWith(n, m)
  BY DEF Owed, Read
<1>2. t \in Threads /\ t \in UnreadBy
  BY UnreadAre DEF Threads, Read, Owing
<1>3. PICK p \in Packets : p = packet[t] /\ Size[p] \in Nat
  BY <1>2, UnreadHave, BytesOfType
<1>4. Size[p] <= Len(ring)
  BY <1>3, ReadFinds DEF Read
<1>5. ring \in Seq(Bytes) /\ Len(ring) \in Nat
  BY DEF Typed, TypeOK
<1>6. Ring!Read(Size[p]) /\ packet' = packet /\ procSktQueue' = procSktQueue
  BY <1>3 DEF Read, Asked
<1>7. Goto(t, "dispatch") \/ Goto(t, "undefined")
  BY DEF Read
<1>8. UnreadBy' = UnreadBy \ {t}
  BY <1>2, <1>7, UnreadGoto DEF Owing
<1>9. Hands(UnreadBy, packet, m) /\ Sums(procSktQueue, n) /\ n + m = Len(ring)
  BY <1>1 DEF OwedWith
<1>10. \A r \in UnreadBy : packet[r] \in Packets
  BY UnreadHave
<1>11. m - Size[p] \in Nat /\ Hands(UnreadBy \ {t}, packet, m - Size[p])
  BY <1>2, <1>3, <1>9, <1>10, HandsDrop
<1>12. ring' = SubSeq(ring, Size[p] + 1, Len(ring))
  BY <1>3, <1>4, <1>5, <1>6, RingReads
<1>13. Len(ring') = Len(ring) - Size[p]
  BY <1>3, <1>4, <1>5, <1>12, CutType
<1>14. n + (m - Size[p]) = Len(ring')
  <2>1. (n + m) - Size[p] = n + (m - Size[p])
    BY <1>3, Regroups
  <2>2. QED
    BY <1>9, <1>13, <2>1
<1>15. OwedWith(n, m - Size[p])'
  BY <1>6, <1>8, <1>9, <1>11, <1>14 DEF OwedWith
<1>16. QED
  BY <1>11, <1>15

LEMMA RestOwed ==
  ASSUME Typed, Typed', Owed, NEW t \in RedisThreads, Clear(t) \/ Dispatch(t) \/ Handle(t)
  PROVE  Owed'
<1> SUFFICES ASSUME ~dropped' PROVE \E n, m \in Nat : OwedWith(n, m)'
  BY DEF Owed
<1>1. /\ t \in Threads /\ ring' = ring /\ procSktQueue' = procSktQueue /\ ~dropped
      /\ \A r \in Threads \ {t} : packet'[r] = packet[r]
  BY DEF Threads, Clear, Dispatch, Handle, Return, Typed, TypeOK
<1>2. UnreadBy' = UnreadBy /\ \A r \in UnreadBy : packet'[r] = packet[r]
  <2>1. CASE Clear(t)
    <3>1. t \in UnreadBy /\ Goto(t, "read") /\ packet' = packet
      BY <1>1, <2>1, UnreadAre DEF Clear, Owing
    <3>2. QED
      BY <1>1, <3>1, UnreadGoto DEF Owing
  <2>2. CASE Dispatch(t)
    <3>1. t \notin UnreadBy /\ packet' = packet /\ (Goto(t, "handle") \/ pc' = pc)
      BY <1>1, <2>2, UnreadAre DEF Dispatch, Owing
    <3>2. CASE Goto(t, "handle")
      BY <1>1, <3>1, <3>2, UnreadGoto DEF Owing
    <3>3. CASE pc' = pc
      BY <3>1, <3>3 DEF UnreadBy, At
    <3>4. QED
      BY <3>1, <3>2, <3>3
  <2>3. CASE Handle(t)
    <3>1. t \notin UnreadBy /\ Goto(t, "idle")
      BY <1>1, <2>3, UnreadAre DEF Handle, Return, Owing
    <3>2. UnreadBy' = UnreadBy
      BY <1>1, <3>1, UnreadGoto DEF Owing
    <3>3. QED
      BY <1>1, <3>1, <3>2, UnreadHave
  <2>4. QED
    BY <2>1, <2>2, <2>3
<1>3. PICK n \in Nat, m \in Nat : OwedWith(n, m)
  BY <1>1 DEF Owed
<1>4. Hands(UnreadBy, packet', m)
  BY <1>2, <1>3, HandsSame DEF OwedWith
<1>5. OwedWith(n, m)'
  BY <1>1, <1>2, <1>3, <1>4 DEF OwedWith
<1>6. QED
  BY <1>5

LEMMA StepOwed == Typed /\ Typed' /\ Owed /\ [Next]_vars => Owed'
<1> SUFFICES ASSUME Typed, Typed', Owed, [Next]_vars PROVE Owed'
  OBVIOUS
<1>1. CASE UNCHANGED vars
  BY <1>1 DEF vars, Owed, OwedWith, UnreadBy, At
<1>2. QED
  BY <1>1, WriteOwed, QueueOwed, PopOwed, ReadOwed, RestOwed DEF Next, RedisThread

LEMMA ListsAll ==
  ASSUME NEW m \in Nat, NEW S, NEW h, Lists(h, m, S)
  PROVE  h \in SetToSeqs(S)
<1>1. /\ h \in [1 .. m -> S] /\ \A i, k \in 1 .. m : h[i] = h[k] => i = k
      /\ \A t \in S : \E k \in 1 .. m : h[k] = t
  BY DEF Lists
<1>2. h \in Bijection(1 .. m, S)
  BY <1>1 DEF Bijection, Injection, Surjection, IsInjective
<1>3. Cardinality(S) = m
  BY <1>2, FS_CountingElements DEF ExistsBijection
<1>4. QED
  BY <1>1, <1>3 DEF SetToSeqs

LEMMA OwedSuffices == Typed /\ Owed => EnoughBytes
<1> SUFFICES ASSUME Typed, Owed, ~dropped
             PROVE  \E n \in 0 .. Len(ring), hands \in SetToSeqs(UnreadBy) :
                      /\ SumsTo(procSktQueue, n)
                      /\ SumsTo([k \in DOMAIN hands |-> packet[hands[k]]], Len(ring) - n)
  BY DEF EnoughBytes
<1>1. PICK n \in Nat, m \in Nat : OwedWith(n, m)
  BY DEF Owed
<1>hands. PICK c \in Nat : \E h, ends :
        /\ Lists(h, c, UnreadBy) /\ Laid(ends, c, InHands(h, c, packet)) /\ ends[c] = m
  BY <1>1 DEF OwedWith, Hands
<1>2. PICK h, ends :
        /\ Lists(h, c, UnreadBy) /\ Laid(ends, c, InHands(h, c, packet)) /\ ends[c] = m
  BY <1>hands
<1> DEFINE packets == [k \in DOMAIN h |-> packet[h[k]]]
<1>3. h \in SetToSeqs(UnreadBy) /\ DOMAIN h = 1 .. c
  BY <1>2, ListsAll DEF Lists
<1>4. \A k \in 1 .. c : packet[h[k]] \in Packets
  BY <1>2, UnreadHave DEF Lists
<1>5. packets \in Seq(Packets) /\ Len(packets) = c
  BY <1>3, <1>4
<1>6. Sizes(packets) = InHands(h, c, packet)
  <2>1. \A k \in 1 .. c : packets[k] = packet[h[k]]
    BY <1>3
  <2> HIDE DEF packets
  <2>2. QED
    BY <1>5, <2>1 DEF Sizes, InHands
<1> HIDE DEF packets
<1>7. Sums(packets, m)
  BY <1>2, <1>5, <1>6 DEF Sums
<1>8. SumsTo(packets, m)
  BY <1>5, <1>7, SumsSuffices
<1>9. SumsTo(procSktQueue, n)
  BY <1>1, SumsSuffices DEF OwedWith, Typed, TypeOK
<1>10. n \in 0 .. Len(ring) /\ m = Len(ring) - n
  BY <1>1 DEF OwedWith
<1>11. QED
  BY <1>3, <1>8, <1>9, <1>10 DEF packets

(* However the threads overtake each other between the ring and the queue,  *)
(* and whatever the sizes of the packets: while nothing was dropped, a      *)
(* redis thread finds the bytes its descriptor asks for                     *)
(* (RedisManager.cpp:30-35, 82-87, ConnUser.h:99-111).                      *)
THEOREM BytesSuffice == Spec => []EnoughBytes
<1>1. Spec => [](Typed /\ Owed)
  BY InitTyped, StepTyped, InitOwed, StepOwed, PTL DEF Spec
<1>2. QED
  BY <1>1, OwedSuffices, PTL

----------------------------------------------------------------------------
(* The bytes of a queue's packets, one packet after the other.              *)
Written(queue, content) ==
  \E ends :
    /\ Laid(ends, Len(queue), Sizes(queue)) /\ ends[Len(queue)] = Len(content)
    /\ \A k \in 1 .. Len(queue) : \A i \in 1 .. Size[queue[k]] :
         content[ends[k - 1] + i] = <<queue[k], i>>

(* Where the i-th byte of the k-th packet is.                               *)
LEMMA PlaceOf ==
  ASSUME NEW queue \in Seq(Packets), NEW ends, Laid(ends, Len(queue), Sizes(queue)),
         NEW k \in 1 .. Len(queue), NEW i \in 1 .. Size[queue[k]]
  PROVE  /\ ends[k - 1] \in Nat /\ ends[k] \in Nat /\ ends[Len(queue)] \in Nat
         /\ ends[k - 1] + i \in 1 .. ends[k] /\ ends[k] <= ends[Len(queue)]
<1> DEFINE m == Len(queue)
<1>1. /\ m \in Nat /\ Sizes(queue) \in [1 .. m -> Nat] /\ Sizes(queue)[k] = Size[queue[k]]
      /\ queue[k] \in Packets
  BY SizesType
<1>2. Size[queue[k]] \in Nat
  BY <1>1, BytesOfType
<1>3. k \in 0 .. m /\ k - 1 \in 0 .. m /\ m \in 0 .. m /\ k <= m
  BY <1>1
<1>4. ends[k] = ends[k - 1] + Sizes(queue)[k]
  BY <1>1, LaidMeans
<1>5. ends[k] \in Nat /\ ends[k - 1] \in Nat /\ ends[m] \in Nat
  BY <1>1, <1>3, LaidMeans
<1>6. ends[k] <= ends[m]
  BY <1>1, <1>3, LaidMeans
<1>7. ends[k - 1] + i \in 1 .. ends[k]
  BY <1>1, <1>2, <1>4, <1>5
<1>8. QED
  BY <1>5, <1>6, <1>7

LEMMA WrittenNone == Written(<<>>, <<>>)
<1>1. Laid([k \in 0 .. 0 |-> 0], 0, Sizes(<<>>))
  BY DEF Laid
<1>2. Len(<<>>) = 0
  OBVIOUS
<1>3. QED
  BY <1>1, <1>2 DEF Written

LEMMA WrittenAppend ==
  ASSUME NEW queue \in Seq(Packets), NEW content \in Seq(Bytes), NEW p \in Packets,
         Written(queue, content)
  PROVE  Written(Append(queue, p), content \o BytesOf(p))
<1>1. PICK ends :
        /\ Laid(ends, Len(queue), Sizes(queue)) /\ ends[Len(queue)] = Len(content)
        /\ \A k \in 1 .. Len(queue) : \A i \in 1 .. Size[queue[k]] :
             content[ends[k - 1] + i] = <<queue[k], i>>
  BY DEF Written
<1> DEFINE m == Len(queue)
           longer == Append(queue, p)
           more == content \o BytesOf(p)
<1>2. /\ longer \in Seq(Packets) /\ Len(longer) = m + 1 /\ longer[m + 1] = p
      /\ \A k \in 1 .. m : longer[k] = queue[k]
  BY AppendProperties
<1>3. m \in Nat /\ Sizes(queue) \in [1 .. m -> Nat] /\ Sizes(longer) \in [1 .. m + 1 -> Nat]
  BY <1>2, SizesType
<1>4. /\ \A k \in 1 .. m : Sizes(longer)[k] = Sizes(queue)[k]
      /\ Sizes(longer)[m + 1] = Size[p]
  <2>1. \A k \in 1 .. m + 1 : Sizes(longer)[k] = Size[longer[k]]
    BY <1>2, SizesType
  <2>2. \A k \in 1 .. m : Sizes(queue)[k] = Size[queue[k]]
    BY SizesType
  <2>3. m + 1 \in 1 .. m + 1 /\ \A k \in 1 .. m : k \in 1 .. m + 1
    BY <1>3
  <2> HIDE DEF m, longer
  <2>4. QED
    BY <1>2, <2>1, <2>2, <2>3
<1>5. /\ BytesOf(p) \in Seq(Bytes) /\ Len(BytesOf(p)) = Size[p] /\ Size[p] \in Nat
      /\ \A i \in 1 .. Size[p] : BytesOf(p)[i] = <<p, i>>
  BY BytesOfType
<1>6. /\ Len(content) \in Nat /\ Len(more) = Len(content) + Size[p]
      /\ \A j \in 1 .. Len(content) : more[j] = content[j]
      /\ \A i \in 1 .. Size[p] : more[Len(content) + i] = <<p, i>>
  <2>1. Len(content) \in Nat /\ Len(more) = Len(content) + Size[p]
    <3>1. Len(content) \in Nat
      OBVIOUS
    <3>2. Len(content \o BytesOf(p)) = Len(content) + Len(BytesOf(p))
      BY <1>5, ConcatType
    <3>3. QED
      BY <1>5, <3>1, <3>2
  <2>2. \A j \in 1 .. Len(content) + Size[p] :
          more[j] = IF j <= Len(content) THEN content[j] ELSE BytesOf(p)[j - Len(content)]
    BY <1>5, ConcatProperties
  <2> HIDE DEF more
  <2>3. ASSUME NEW i \in 1 .. Size[p] PROVE more[Len(content) + i] = <<p, i>>
    <3>1. /\ Len(content) + i \in 1 .. Len(content) + Size[p]
          /\ ~(Len(content) + i <= Len(content))
          /\ (Len(content) + i) - Len(content) = i
      BY <1>5, <2>1
    <3>2. QED
      BY <1>5, <2>2, <3>1
  <2>4. ASSUME NEW j \in 1 .. Len(content) PROVE more[j] = content[j]
    <3>1. j \in 1 .. Len(content) + Size[p] /\ j <= Len(content)
      BY <1>5, <2>1
    <3>2. QED
      BY <2>2, <3>1
  <2>5. QED
    BY <2>1, <2>3, <2>4
<1>7. PICK later : /\ Laid(later, m + 1, Sizes(longer))
                   /\ later[m + 1] = ends[m] + Sizes(longer)[m + 1]
                   /\ \A k \in 0 .. m : later[k] = ends[k]
  <2>1. Laid(ends, m, Sizes(queue)) /\ \A k \in 1 .. m : Sizes(longer)[k] = Sizes(queue)[k]
    BY <1>1, <1>4
  <2> HIDE DEF m, longer
  <2> DEFINE old  == Sizes(queue)
             new  == Sizes(longer)
  <2>2. /\ m \in Nat /\ old \in [1 .. m -> Nat] /\ new \in [1 .. m + 1 -> Nat]
        /\ Laid(ends, m, old) /\ \A k \in 1 .. m : new[k] = old[k]
    BY <1>3, <2>1
  <2> HIDE DEF old, new
  <2>3. \E later : /\ Laid(later, m + 1, new) /\ later[m + 1] = ends[m] + new[m + 1]
                   /\ \A k \in 0 .. m : later[k] = ends[k]
    BY <2>2, LaidMore, ZenonT(30)
  <2>4. QED
    BY <2>3 DEF new
<1> HIDE DEF m, longer, more
<1>8. later[m + 1] = Len(more) /\ ends[m] = Len(content)
  BY <1>1, <1>4, <1>6, <1>7 DEF m
<1>9. ASSUME NEW k \in 1 .. m + 1, NEW i \in 1 .. Size[longer[k]]
      PROVE  more[later[k - 1] + i] = <<longer[k], i>>
  <2>1. CASE k = m + 1
    <3>1. k - 1 = m /\ m \in 0 .. m
      BY <1>3, <2>1
    <3>2. later[k - 1] = Len(content) /\ longer[k] = p
      BY <1>2, <1>7, <1>8, <2>1, <3>1
    <3>3. QED
      BY <1>6, <3>2
  <2>2. CASE k # m + 1
    <3>1. k \in 1 .. m /\ k - 1 \in 0 .. m
      BY <1>3, <2>2
    <3>2. later[k - 1] = ends[k - 1] /\ longer[k] = queue[k] /\ i \in 1 .. Size[queue[k]]
      BY <1>2, <1>7, <3>1
    <3>3. content[ends[k - 1] + i] = <<queue[k], i>>
      BY <1>1, <3>1, <3>2 DEF m
    <3>4. /\ ends[k] \in Nat /\ ends[k - 1] \in Nat /\ ends[k - 1] + i \in 1 .. ends[k]
          /\ ends[k] <= ends[m] /\ ends[m] \in Nat
      BY <1>1, <3>1, <3>2, PlaceOf DEF m
    <3>5. ends[k - 1] + i \in 1 .. Len(content)
      BY <1>6, <1>8, <3>4
    <3>6. QED
      BY <1>6, <3>2, <3>3, <3>5
  <2>3. QED
    BY <2>1, <2>2
<1>10. /\ Laid(later, Len(longer), Sizes(longer)) /\ later[Len(longer)] = Len(more)
       /\ \A k \in 1 .. Len(longer) : \A i \in 1 .. Size[longer[k]] :
            more[later[k - 1] + i] = <<longer[k], i>>
  BY <1>2, <1>7, <1>8, <1>9
<1>11. QED
  BY <1>10 DEF Written, longer, more

LEMMA Shifted ==
  ASSUME NEW a \in Nat, NEW b \in Nat, NEW c \in Nat, NEW s \in Nat, NEW i \in Nat,
         i >= 1, a >= s, a + i <= b, b <= c
  PROVE  (a - s) + i \in 1 .. c - s /\ s + ((a - s) + i) = a + i
OBVIOUS

(* The first packet, and the bytes without it.                              *)
LEMMA WrittenFirst ==
  ASSUME NEW queue \in Seq(Packets), NEW content \in Seq(Bytes), queue # <<>>,
         Written(queue, content)
  PROVE  /\ Size[Head(queue)] <= Len(content)
         /\ \A i \in 1 .. Size[Head(queue)] : content[i] = <<Head(queue), i>>
         /\ Written(Tail(queue),
                    SubSeq(content, Size[Head(queue)] + 1, Len(content)))
<1>1. PICK ends :
        /\ Laid(ends, Len(queue), Sizes(queue)) /\ ends[Len(queue)] = Len(content)
        /\ \A k \in 1 .. Len(queue) : \A i \in 1 .. Size[queue[k]] :
             content[ends[k - 1] + i] = <<queue[k], i>>
  BY DEF Written
<1> DEFINE m == Len(queue)
           shorter == Tail(queue)
           s == Size[Head(queue)]
           rest == SubSeq(content, s + 1, Len(content))
           less == Less(ends, m, 1, s)
<1>2. /\ shorter \in Seq(Packets) /\ Len(shorter) = m - 1 /\ m \in Nat /\ m >= 1
      /\ Head(queue) = queue[1] /\ Head(queue) \in Packets
      /\ \A k \in 1 .. m - 1 : shorter[k] = queue[k + 1]
  OBVIOUS
<1>3. /\ Sizes(queue) \in [1 .. m -> Nat] /\ Sizes(queue)[1] = s
      /\ \A k \in 1 .. m : Sizes(queue)[k] = Size[queue[k]] /\ queue[k] \in Packets
  BY <1>2, SizesType
<1>4. s \in Nat /\ s >= 1
  BY <1>2, BytesOfType
<1>5. content \in Seq(Bytes) /\ Len(content) \in Nat
  OBVIOUS
<1> HIDE DEF m, shorter, s
<1>6. Laid(ends, m, Sizes(queue)) /\ ends[m] = Len(content)
  BY <1>1 DEF m
<1>7. ends[0] = 0 /\ ends[1] = s /\ s <= Len(content)
  <2>1. ends[0] = 0
    BY <1>6 DEF Laid
  <2>2. 1 \in 1 .. m /\ 1 \in 0 .. m /\ m \in 0 .. m /\ 1 - 1 = 0 /\ 1 <= m
    BY <1>2
  <2>3. ends[1] = ends[1 - 1] + Sizes(queue)[1]
    BY <1>6, <2>2, ZenonT(30) DEF Laid
  <2>4. ends[1] = s
    BY <1>3, <1>4, <2>1, <2>2, <2>3
  <2>5. ends[1] <= ends[m]
    BY <1>2, <1>3, <1>6, <2>2, LaidMeans
  <2>6. QED
    BY <1>6, <2>1, <2>4, <2>5
<1>8. ASSUME NEW i \in 1 .. s PROVE content[i] = <<Head(queue), i>>
  <2>1. 1 \in 1 .. Len(queue) /\ i \in 1 .. Size[queue[1]] /\ 1 - 1 = 0 /\ 0 + i = i
    BY <1>2, <1>4 DEF m, s
  <2>2. content[ends[1 - 1] + i] = <<queue[1], i>>
    BY <1>1, <2>1
  <2>3. QED
    BY <1>2, <1>7, <2>1, <2>2
<1>9. /\ Len(rest) = Len(content) - s
      /\ \A j \in 1 .. Len(content) - s : rest[j] = content[s + j]
  BY <1>4, <1>5, <1>7
<1>10. /\ Laid(less, m - 1, Rest(Sizes(queue), m, 1))
       /\ less[m - 1] = ends[m] - s
  <2>1. m \in Nat /\ Sizes(queue) \in [1 .. m -> Nat] /\ 1 \in 1 .. m
    BY <1>2, <1>3
  <2>2. /\ Laid(Less(ends, m, 1, Sizes(queue)[1]), m - 1, Rest(Sizes(queue), m, 1))
        /\ Less(ends, m, 1, Sizes(queue)[1])[m - 1] = ends[m] - Sizes(queue)[1]
    BY <1>6, <2>1, LaidWithout
  <2>3. QED
    BY <1>3, <2>2
<1>11. Rest(Sizes(queue), m, 1) = Sizes(shorter)
  <2>1. \A k \in 1 .. m - 1 : k + 1 \in 1 .. m /\ ~(k < 1)
    BY <1>2
  <2>2. \A k \in 1 .. m - 1 : Size[shorter[k]] = Sizes(queue)[k + 1]
    BY <1>2, <1>3, <2>1
  <2>3. Sizes(shorter) = [k \in 1 .. m - 1 |-> Size[shorter[k]]]
    BY <1>2 DEF Sizes
  <2>4. Rest(Sizes(queue), m, 1) = [k \in 1 .. m - 1 |-> Sizes(queue)[k + 1]]
    BY <2>1 DEF Rest
  <2>5. QED
    BY <2>2, <2>3, <2>4
<1>12. \A k \in 0 .. m - 1 : less[k] = ends[k + 1] - s
  BY <1>2, <1>4, <1>7 DEF Less
<1> HIDE DEF rest, less
<1>13. ASSUME NEW k \in 1 .. m - 1, NEW i \in 1 .. Size[shorter[k]]
       PROVE  rest[less[k - 1] + i] = <<shorter[k], i>>
  <2>1. /\ k + 1 \in 1 .. m /\ (k + 1) - 1 = k /\ k - 1 \in 0 .. m - 1 /\ (k - 1) + 1 = k
        /\ k \in 0 .. m /\ 1 \in 0 .. m /\ 1 <= k
    BY <1>2
  <2>2. shorter[k] = queue[k + 1] /\ i \in 1 .. Size[queue[k + 1]]
    BY <1>2
  <2>3. content[ends[(k + 1) - 1] + i] = <<queue[k + 1], i>>
    BY <1>1, <2>1, <2>2 DEF m
  <2>4. /\ ends[(k + 1) - 1] \in Nat /\ ends[k + 1] \in Nat /\ ends[m] \in Nat
        /\ ends[(k + 1) - 1] + i \in 1 .. ends[k + 1] /\ ends[k + 1] <= ends[m]
    BY <1>1, <2>1, <2>2, PlaceOf DEF m
  <2>5. ends[1] <= ends[k]
    BY <1>2, <1>3, <1>6, <2>1, LaidMeans
  <2>6. less[k - 1] = ends[k] - s
    BY <1>12, <2>1
  <2>7. /\ less[k - 1] + i \in 1 .. Len(content) - s
        /\ s + (less[k - 1] + i) = ends[k] + i
    <3> DEFINE a == ends[k]
               b == ends[k + 1]
               c == ends[m]
    <3>1. /\ a \in Nat /\ b \in Nat /\ c \in Nat /\ i \in Nat /\ i >= 1
          /\ a >= s /\ a + i <= b /\ b <= c
      BY <1>4, <1>7, <2>1, <2>4, <2>5
    <3> HIDE DEF a, b, c
    <3>2. (a - s) + i \in 1 .. c - s /\ s + ((a - s) + i) = a + i
      BY <1>4, <3>1, Shifted
    <3>3. QED
      BY <1>6, <2>6, <3>2 DEF a, c
  <2>8. QED
    BY <1>9, <2>1, <2>2, <2>3, <2>7
<1>14. /\ Laid(less, Len(shorter), Sizes(shorter)) /\ less[Len(shorter)] = Len(rest)
       /\ \A k \in 1 .. Len(shorter) : \A i \in 1 .. Size[shorter[k]] :
            rest[less[k - 1] + i] = <<shorter[k], i>>
  BY <1>2, <1>6, <1>9, <1>10, <1>11, <1>13
<1>15. Written(shorter, rest)
  BY <1>14 DEF Written
<1>16. QED
  BY <1>7, <1>8, <1>15 DEF s, shorter, rest
----------------------------------------------------------------------------
(* What the threads of a set have in hand, when there is at most one.       *)
HandOf(busy, pk) == IF busy = {} THEN <<>> ELSE <<pk[CHOOSE t \in busy : TRUE]>>

LEMMA HandNone == ASSUME NEW pk PROVE HandOf({}, pk) = <<>>
BY DEF HandOf

LEMMA HandOne == ASSUME NEW t, NEW pk PROVE HandOf({t}, pk) = <<pk[t]>>
<1>1. (CHOOSE r \in {t} : TRUE) = t
  OBVIOUS
<1>2. QED
  BY <1>1 DEF HandOf

LEMMA HandSame ==
  ASSUME NEW busy, NEW pk, NEW new, \A t \in busy : new[t] = pk[t]
  PROVE  HandOf(busy, new) = HandOf(busy, pk)
<1>1. CASE busy = {}
  BY <1>1 DEF HandOf
<1>2. CASE busy # {}
  <2>1. (CHOOSE t \in busy : TRUE) \in busy
    BY <1>2
  <2>2. QED
    BY <1>2, <2>1 DEF HandOf
<1>3. QED
  BY <1>1, <1>2

LEMMA HandType ==
  ASSUME NEW busy, NEW pk, \A t \in busy : pk[t] \in Packets
  PROVE  HandOf(busy, pk) \in Seq(Packets)
<1>1. CASE busy = {}
  BY <1>1 DEF HandOf
<1>2. CASE busy # {}
  <2>1. (CHOOSE t \in busy : TRUE) \in busy
    BY <1>2
  <2>2. PICK p \in Packets : p = pk[CHOOSE t \in busy : TRUE]
    BY <2>1
  <2>3. HandOf(busy, pk) = <<p>>
    BY <1>2, <2>2 DEF HandOf
  <2>4. QED
    BY <2>3
<1>3. QED
  BY <1>1, <1>2

LEMMA HandIs ==
  ASSUME NEW threads
  PROVE  /\ InHand(threads) = HandOf(Busy(threads), packet)
         /\ InHand(threads)' = HandOf(Busy(threads)', packet')
BY DEF InHand, HandOf

(* A queue between two hands: a packet goes in at the end, moves from the   *)
(* last hand into the queue and from the queue into the first hand, and is  *)
(* gone from there.                                                         *)
LEMMA GoesIn ==
  ASSUME NEW a \in Seq(Packets), NEW b \in Seq(Packets), NEW p \in Packets
  PROVE  (a \o b) \o <<p>> = Append((a \o b) \o <<>>, p)
<1>1. a \o b \in Seq(Packets) /\ <<p>> \in Seq(Packets)
  BY ConcatType
<1>2. (a \o b) \o <<>> = a \o b
  BY <1>1, ConcatEmptySeq
<1>3. Append(a \o b, p) = (a \o b) \o <<p>>
  BY <1>1, AppendIsConcat
<1>4. QED
  BY <1>2, <1>3

LEMMA MovesIn ==
  ASSUME NEW a \in Seq(Packets), NEW b \in Seq(Packets), NEW p \in Packets
  PROVE  (a \o Append(b, p)) \o <<>> = (a \o b) \o <<p>>
<1>1. <<p>> \in Seq(Packets) /\ Append(b, p) \in Seq(Packets)
  OBVIOUS
<1>2. Append(b, p) = b \o <<p>>
  BY AppendIsConcat
<1>3. (a \o b) \o <<p>> = a \o (b \o <<p>>)
  BY <1>1, ConcatAssociative
<1>4. a \o Append(b, p) \in Seq(Packets)
  BY <1>1, ConcatType
<1>5. (a \o Append(b, p)) \o <<>> = a \o Append(b, p)
  BY <1>4, ConcatEmptySeq
<1>6. QED
  BY <1>2, <1>3, <1>5

LEMMA MovesOut ==
  ASSUME NEW b \in Seq(Packets), NEW c \in Seq(Packets), b # <<>>
  PROVE  (<<Head(b)>> \o Tail(b)) \o c = (<<>> \o b) \o c
<1>1. PICK p \in Packets : p = Head(b)
  OBVIOUS
<1>2. Tail(b) \in Seq(Packets) /\ Len(Tail(b)) = Len(b) - 1 /\ Len(b) \in Nat /\ Len(b) >= 1
      /\ \A i \in 1 .. Len(Tail(b)) : Tail(b)[i] = b[i + 1]
  BY HeadTailProperties
<1>3. <<p>> \in Seq(Packets) /\ Len(<<p>>) = 1 /\ <<p>>[1] = p /\ p = b[1]
  BY <1>1
<1>4. <<p>> \o Tail(b) \in Seq(Packets) /\ Len(<<p>> \o Tail(b)) = Len(b)
  BY <1>2, <1>3, ConcatType
<1>5. ASSUME NEW i \in 1 .. Len(b) PROVE (<<p>> \o Tail(b))[i] = b[i]
  <2>1. (<<p>> \o Tail(b))[i] = IF i <= 1 THEN <<p>>[i] ELSE Tail(b)[i - 1]
    BY <1>2, <1>3, ConcatProperties
  <2>2. CASE i = 1
    BY <1>3, <2>1, <2>2
  <2>3. CASE i # 1
    <3>1. i - 1 \in 1 .. Len(Tail(b)) /\ (i - 1) + 1 = i /\ ~(i <= 1)
      BY <1>2, <2>3
    <3>2. QED
      BY <1>2, <2>1, <3>1
  <2>4. QED
    BY <2>2, <2>3
<1>6. <<p>> \o Tail(b) = b
  BY <1>4, <1>5, SeqEqual
<1>7. <<>> \o b = b
  BY ConcatEmptySeq
<1>8. QED
  BY <1>1, <1>6, <1>7

LEMMA GoesOut ==
  ASSUME NEW b \in Seq(Packets), NEW c \in Seq(Packets), NEW p \in Packets
  PROVE  /\ (<<p>> \o b) \o c \in Seq(Packets) /\ (<<p>> \o b) \o c # <<>>
         /\ Head((<<p>> \o b) \o c) = p
         /\ Tail((<<p>> \o b) \o c) = (<<>> \o b) \o c
<1> DEFINE d == b \o c
<1>1. <<p>> \in Seq(Packets) /\ d \in Seq(Packets) /\ Len(<<p>>) = 1 /\ <<p>>[1] = p
  BY ConcatType
<1>2. (<<p>> \o b) \o c = <<p>> \o d /\ (<<>> \o b) \o c = d
  BY <1>1, ConcatAssociative, ConcatEmptySeq
<1> HIDE DEF d
<1> DEFINE e == <<p>> \o d
<1>3. /\ e \in Seq(Packets) /\ Len(e) = 1 + Len(d) /\ Len(d) \in Nat
      /\ \A i \in 1 .. 1 + Len(d) : e[i] = IF i <= 1 THEN <<p>>[i] ELSE d[i - 1]
  BY <1>1, ConcatProperties
<1> HIDE DEF e
<1>4. e # <<>> /\ Head(e) = p
  BY <1>1, <1>3
<1>5. /\ Tail(e) \in Seq(Packets) /\ Len(Tail(e)) = Len(d)
      /\ \A i \in 1 .. Len(Tail(e)) : Tail(e)[i] = e[i + 1]
  BY <1>3, <1>4, HeadTailProperties
<1>6. ASSUME NEW i \in 1 .. Len(Tail(e)) PROVE Tail(e)[i] = d[i]
  <2>1. i + 1 \in 1 .. 1 + Len(d) /\ ~(i + 1 <= 1) /\ (i + 1) - 1 = i
    BY <1>3, <1>5
  <2>2. QED
    BY <1>3, <1>5, <2>1
<1>7. Tail(e) = d
  BY <1>1, <1>5, <1>6, SeqEqual
<1>8. QED
  BY <1>2, <1>3, <1>4, <1>7 DEF e
----------------------------------------------------------------------------
(* Redis threads that have not read their packet yet, and the packets whose *)
(* bytes are in the ring: the one to be read first, those queued, and the   *)
(* one a worker wrote and did not queue yet.                                *)
Reading == At("clear", RedisThreads) \union At("read", RedisThreads)
Unread  == HandOf(Reading, packet) \o procSktQueue \o HandOf(Busy(Workers), packet)

Alone(threads) == \A t, u \in Busy(threads) : t = u

(* readData holds the packet of the thread that read it.                    *)
Whole(t) ==
  /\ pc[t] # "undefined"
  /\ pc[t] \in {"dispatch", "handle"} =>
       \A i \in 1 .. Size[packet[t]] : readData[i] = <<packet[t], i>>
  /\ pc[t] = "handle" => packet[t] \in Registered

Orderly ==
  /\ Alone(Workers) /\ Alone(RedisThreads)
  /\ Written(Unread, ring)
  /\ \A t \in RedisThreads : Whole(t)

Serial == ~dropped /\ raced = {}

InOrder == Serial => Orderly

LEMMA HandsType ==
  ASSUME Typed
  PROVE  /\ HandOf(Busy(Workers), packet) \in Seq(Packets)
         /\ HandOf(Busy(RedisThreads), packet) \in Seq(Packets)
         /\ HandOf(Reading, packet) \in Seq(Packets)
         /\ procSktQueue \in Seq(Packets)
         /\ Unread \in Seq(Packets)
<1>1. /\ \A t \in Busy(Workers) : packet[t] \in Packets
      /\ \A t \in Busy(RedisThreads) : packet[t] \in Packets
      /\ \A t \in Reading : packet[t] \in Packets
  BY DEF Typed, Busy, Reading, At, Threads
<1>2. /\ HandOf(Busy(Workers), packet) \in Seq(Packets)
      /\ HandOf(Busy(RedisThreads), packet) \in Seq(Packets)
      /\ HandOf(Reading, packet) \in Seq(Packets)
  BY <1>1, HandType
<1>3. procSktQueue \in Seq(Packets)
  BY DEF Typed, TypeOK
<1>4. Unread \in Seq(Packets)
  BY <1>2, <1>3, ConcatType DEF Unread
<1>5. QED
  BY <1>2, <1>3, <1>4

(* The threads of the other kind are where they were.                       *)
LEMMA WorkersSame ==
  ASSUME \A w \in Workers : pc'[w] = pc[w] /\ packet'[w] = packet[w]
  PROVE  /\ Busy(Workers)' = Busy(Workers)
         /\ HandOf(Busy(Workers)', packet') = HandOf(Busy(Workers), packet)
         /\ InHand(Workers)' = InHand(Workers)
         /\ Alone(Workers) => Alone(Workers)'
<1>1. Busy(Workers)' = Busy(Workers) /\ \A t \in Busy(Workers) : packet'[t] = packet[t]
  BY DEF Busy
<1>2. HandOf(Busy(Workers), packet') = HandOf(Busy(Workers), packet)
  BY <1>1, HandSame
<1>3. QED
  BY <1>1, <1>2, HandIs DEF Alone

LEMMA RedisSame ==
  ASSUME \A t \in RedisThreads : pc'[t] = pc[t] /\ packet'[t] = packet[t]
  PROVE  /\ HandOf(Reading', packet') = HandOf(Reading, packet)
         /\ InHand(RedisThreads)' = InHand(RedisThreads)
         /\ Alone(RedisThreads) => Alone(RedisThreads)'
         /\ readData' = readData =>
              ((\A t \in RedisThreads : Whole(t)) => \A t \in RedisThreads : Whole(t)')
<1>1. /\ Busy(RedisThreads)' = Busy(RedisThreads) /\ Reading' = Reading
      /\ \A t \in Busy(RedisThreads) : packet'[t] = packet[t]
      /\ \A t \in Reading : packet'[t] = packet[t]
  BY DEF Busy, Reading, At
<1>2. HandOf(Busy(RedisThreads), packet') = HandOf(Busy(RedisThreads), packet)
  BY <1>1, HandSame
<1>3. HandOf(Reading, packet') = HandOf(Reading, packet)
  BY <1>1, HandSame
<1>4. ASSUME readData' = readData, \A t \in RedisThreads : Whole(t), NEW t \in RedisThreads
      PROVE  Whole(t)'
  <2>1. PICK p : p = packet[t] /\ p = packet'[t]
    OBVIOUS
  <2>2. pc'[t] = pc[t] /\ Whole(t)
    BY <1>4
  <2>3. QED
    BY <1>4, <2>1, <2>2 DEF Whole
<1>5. QED
  BY <1>1, <1>2, <1>3, <1>4, HandIs DEF Alone

LEMMA WriteOrdered ==
  ASSUME Typed, Typed', Orderly, alive, NEW w \in Workers, NEW p \in Packets, Write(w, p),
         ~dropped', raced' = {}
  PROVE  Orderly' /\ Abstract!Receive(p)
<1>1. Busy(Workers) = {}
  BY DEF Write, Entering
<1>2. ring' = ring \o BytesOf(p)
  BY RingWrites, BytesOfType DEF Write
<1>3. /\ procSktQueue' = procSktQueue /\ readData' = readData /\ handled' = handled
      /\ alive' = alive
  BY DEF Write
<1>4. w \in Threads /\ pc'[w] = "queue" /\ packet'[w] = p
  BY DEF Write, Goto, Typed, TypeOK, Threads
<1>5. /\ \A r \in RedisThreads : pc'[r] = pc[r] /\ packet'[r] = packet[r]
      /\ \A r \in Workers \ {w} : pc'[r] = pc[r]
  <2>1. \A r \in Threads \ {w} : pc'[r] = pc[r] /\ packet'[r] = packet[r]
    BY DEF Write, Goto, Typed, TypeOK, Threads
  <2>2. w \notin RedisThreads
    BY Distinct
  <2>3. QED
    BY <2>1, <2>2 DEF Threads
<1>6. Busy(Workers)' = {w}
  BY <1>1, <1>4, <1>5 DEF Busy
<1>7. /\ HandOf(Busy(Workers), packet) = <<>> /\ HandOf(Busy(Workers)', packet') = <<p>>
      /\ InHand(Workers) = <<>> /\ InHand(Workers)' = <<p>>
  BY <1>1, <1>4, <1>6, HandNone, HandOne, HandIs
<1>8. Unread' = Append(Unread, p)
  <2>1. HandOf(Reading, packet) \in Seq(Packets) /\ procSktQueue \in Seq(Packets)
    BY HandsType
  <2>2. HandOf(Reading', packet') = HandOf(Reading, packet)
    BY <1>5, RedisSame
  <2>3. (HandOf(Reading, packet) \o procSktQueue) \o <<p>>
          = Append((HandOf(Reading, packet) \o procSktQueue) \o <<>>, p)
    BY <2>1, GoesIn
  <2>4. QED
    BY <1>3, <1>7, <2>2, <2>3 DEF Unread
<1>9. Written(Unread', ring')
  <2>1. Unread \in Seq(Packets) /\ ring \in Seq(Bytes) /\ Written(Unread, ring)
    BY HandsType DEF Typed, TypeOK, Orderly
  <2>2. QED
    BY <1>2, <1>8, <2>1, WrittenAppend
<1>10. Orderly'
  <2>1. Alone(Workers)'
    BY <1>6 DEF Alone
  <2>2. Alone(RedisThreads)' /\ \A t \in RedisThreads : Whole(t)'
    BY <1>3, <1>5, RedisSame DEF Orderly
  <2>3. QED
    BY <1>9, <2>1, <2>2 DEF Orderly
<1>11. Abstract!Receive(p)
  <2>1. InHand(RedisThreads) \in Seq(Packets) /\ procSktQueue \in Seq(Packets)
    BY HandsType, HandIs
  <2>2. InHand(RedisThreads)' = InHand(RedisThreads)
    BY <1>5, RedisSame
  <2>3. (InHand(RedisThreads)' \o procSktQueue') \o InHand(Workers)'
          = Append((InHand(RedisThreads) \o procSktQueue) \o InHand(Workers), p)
    BY <1>3, <1>7, <2>1, <2>2, GoesIn
  <2>4. QED
    BY <1>3, <2>3 DEF Abstract!Receive
<1>12. QED
  BY <1>10, <1>11

LEMMA QueueOrdered ==
  ASSUME Typed, Typed', Orderly, NEW w \in Workers, Queue(w)
  PROVE  Orderly' /\ UNCHANGED Abstract!queueVars
<1>1. PICK p \in Packets : p = packet[w]
  BY DEF Typed, Queue, Threads
<1>2. /\ procSktQueue' = Append(procSktQueue, p) /\ ring' = ring /\ readData' = readData
      /\ handled' = handled /\ alive' = alive
  BY <1>1 DEF Queue, Queued
<1>3. w \in Threads /\ pc'[w] = "idle" /\ pc[w] = "queue"
  BY DEF Queue, Return, Goto, Typed, TypeOK, Threads
<1>4. /\ \A r \in RedisThreads : pc'[r] = pc[r] /\ packet'[r] = packet[r]
      /\ \A r \in Workers \ {w} : pc'[r] = pc[r]
  <2>1. \A r \in Threads \ {w} : pc'[r] = pc[r] /\ packet'[r] = packet[r]
    BY DEF Queue, Return, Goto, Typed, TypeOK, Threads
  <2>2. w \notin RedisThreads
    BY Distinct
  <2>3. QED
    BY <2>1, <2>2 DEF Threads
<1>5. Busy(Workers) = {w}
  BY <1>3 DEF Orderly, Alone, Busy
<1>6. Busy(Workers)' = {}
  BY <1>3, <1>4, <1>5 DEF Busy
<1>7. /\ HandOf(Busy(Workers), packet) = <<p>> /\ HandOf(Busy(Workers)', packet') = <<>>
      /\ InHand(Workers) = <<p>> /\ InHand(Workers)' = <<>>
  BY <1>1, <1>5, <1>6, HandNone, HandOne, HandIs
<1>8. /\ HandOf(Reading, packet) \in Seq(Packets) /\ procSktQueue \in Seq(Packets)
      /\ InHand(RedisThreads) \in Seq(Packets)
  BY HandsType, HandIs
<1>9. /\ HandOf(Reading', packet') = HandOf(Reading, packet)
      /\ InHand(RedisThreads)' = InHand(RedisThreads)
  BY <1>4, RedisSame
<1>10. Unread' = Unread
  <2>1. (HandOf(Reading, packet) \o Append(procSktQueue, p)) \o <<>>
          = (HandOf(Reading, packet) \o procSktQueue) \o <<p>>
    BY <1>8, MovesIn
  <2>2. QED
    BY <1>2, <1>7, <1>9, <2>1 DEF Unread
<1>11. (InHand(RedisThreads)' \o procSktQueue') \o InHand(Workers)'
         = (InHand(RedisThreads) \o procSktQueue) \o InHand(Workers)
  <2>1. (InHand(RedisThreads) \o Append(procSktQueue, p)) \o <<>>
          = (InHand(RedisThreads) \o procSktQueue) \o <<p>>
    BY <1>8, MovesIn
  <2>2. QED
    BY <1>2, <1>7, <1>9, <2>1
<1>12. Orderly'
  <2>1. Alone(Workers)'
    BY <1>6 DEF Alone
  <2>2. Alone(RedisThreads)' /\ \A t \in RedisThreads : Whole(t)'
    BY <1>2, <1>4, RedisSame DEF Orderly
  <2>3. Written(Unread', ring')
    BY <1>2, <1>10 DEF Orderly
  <2>4. QED
    BY <2>1, <2>2, <2>3 DEF Orderly
<1>13. QED
  BY <1>2, <1>11, <1>12 DEF Abstract!queueVars

(* What a step of the only redis thread inside does to the others.          *)
LEMMA RedisStep ==
  ASSUME Typed, NEW t \in RedisThreads, NEW step, Goto(t, step),
         \A r \in Threads \ {t} : packet'[r] = packet[r]
  PROVE  /\ t \in Threads /\ pc'[t] = step
         /\ \A r \in RedisThreads \ {t} : pc'[r] = pc[r] /\ packet'[r] = packet[r]
         /\ \A w \in Workers : pc'[w] = pc[w] /\ packet'[w] = packet[w]
<1>1. t \in Threads /\ pc'[t] = step /\ \A r \in Threads \ {t} : pc'[r] = pc[r]
  BY DEF Goto, Typed, TypeOK, Threads
<1>2. t \notin Workers
  BY Distinct
<1>3. QED
  BY <1>1, <1>2 DEF Threads

LEMMA PopOrdered ==
  ASSUME Typed, Typed', Orderly, NEW t \in RedisThreads, Pop(t), raced' = {}
  PROVE  Orderly' /\ UNCHANGED Abstract!queueVars
<1>1. procSktQueue \in Seq(Packets) /\ procSktQueue # <<>>
  BY HandsType DEF Pop
<1>2. PICK p \in Packets : p = Head(procSktQueue)
  BY <1>1
<1>3. /\ procSktQueue' = Tail(procSktQueue) /\ ring' = ring /\ readData' = readData
      /\ handled' = handled /\ alive' = alive
  BY DEF Pop
<1>4. Busy(RedisThreads) = {}
  BY DEF Pop, Entering
<1>5. /\ t \in Threads /\ packet'[t] = p /\ \A r \in Threads \ {t} : packet'[r] = packet[r]
  BY <1>2 DEF Pop, Typed, TypeOK, Threads
<1>6. /\ pc'[t] = "clear"
      /\ \A r \in RedisThreads \ {t} : pc'[r] = pc[r] /\ packet'[r] = packet[r]
      /\ \A w \in Workers : pc'[w] = pc[w] /\ packet'[w] = packet[w]
  BY <1>5, RedisStep DEF Pop
<1>7. /\ Busy(RedisThreads)' = {t} /\ Reading' = {t} /\ Reading = {}
  BY <1>4, <1>6 DEF Busy, Reading, At
<1>8. /\ HandOf(Reading, packet) = <<>> /\ HandOf(Reading', packet') = <<p>>
      /\ InHand(RedisThreads) = <<>> /\ InHand(RedisThreads)' = <<p>>
  BY <1>4, <1>5, <1>7, HandNone, HandOne, HandIs
<1>9. /\ HandOf(Busy(Workers)', packet') = HandOf(Busy(Workers), packet)
      /\ InHand(Workers)' = InHand(Workers) /\ (Alone(Workers) => Alone(Workers)')
  BY <1>6, WorkersSame
<1>10. /\ HandOf(Busy(Workers), packet) \in Seq(Packets)
       /\ InHand(Workers) = HandOf(Busy(Workers), packet)
  BY HandsType, HandIs
<1>11. (<<p>> \o Tail(procSktQueue)) \o HandOf(Busy(Workers), packet)
         = (<<>> \o procSktQueue) \o HandOf(Busy(Workers), packet)
  BY <1>1, <1>2, <1>10, MovesOut
<1>12. Unread' = Unread
  BY <1>3, <1>8, <1>9, <1>11 DEF Unread
<1>13. (InHand(RedisThreads)' \o procSktQueue') \o InHand(Workers)'
         = (InHand(RedisThreads) \o procSktQueue) \o InHand(Workers)
  BY <1>3, <1>8, <1>9, <1>10, <1>11
<1>14. \A r \in RedisThreads : Whole(r)'
  BY <1>4, <1>6 DEF Whole, Busy
<1>15. Orderly'
  <2>1. Alone(RedisThreads)' /\ Alone(Workers)'
    BY <1>7, <1>9 DEF Alone, Orderly
  <2>2. Written(Unread', ring')
    BY <1>3, <1>12 DEF Orderly
  <2>3. QED
    BY <1>14, <2>1, <2>2 DEF Orderly
<1>16. QED
  BY <1>3, <1>13, <1>15 DEF Abstract!queueVars

LEMMA ClearOrdered ==
  ASSUME Typed, Typed', Orderly, NEW t \in RedisThreads, Clear(t)
  PROVE  Orderly' /\ UNCHANGED Abstract!queueVars
<1>1. /\ procSktQueue' = procSktQueue /\ ring' = ring /\ packet' = packet
      /\ handled' = handled /\ alive' = alive /\ pc[t] = "clear"
  BY DEF Clear
<1>2. /\ pc'[t] = "read"
      /\ \A r \in RedisThreads \ {t} : pc'[r] = pc[r]
      /\ \A w \in Workers : pc'[w] = pc[w] /\ packet'[w] = packet[w]
  BY <1>1, RedisStep DEF Clear
<1>3. \A r \in RedisThreads \ {t} : pc[r] = "idle"
  BY <1>1 DEF Orderly, Alone, Busy
<1>4. /\ Busy(RedisThreads) = {t} /\ Busy(RedisThreads)' = {t}
      /\ Reading = {t} /\ Reading' = {t}
  BY <1>1, <1>2, <1>3 DEF Busy, Reading, At
<1>5. InHand(RedisThreads)' = InHand(RedisThreads)
  BY <1>1, <1>4, HandIs
<1>6. /\ HandOf(Busy(Workers)', packet') = HandOf(Busy(Workers), packet)
      /\ InHand(Workers)' = InHand(Workers) /\ (Alone(Workers) => Alone(Workers)')
  BY <1>2, WorkersSame
<1>7. Orderly'
  <2>1. Unread' = Unread
    BY <1>1, <1>4, <1>6 DEF Unread
  <2>2. \A r \in RedisThreads : Whole(r)'
    BY <1>2, <1>3 DEF Whole
  <2>3. Alone(RedisThreads)' /\ Alone(Workers)'
    BY <1>4, <1>6 DEF Alone, Orderly
  <2>4. Written(Unread', ring')
    BY <1>1, <2>1 DEF Orderly
  <2>5. QED
    BY <2>2, <2>3, <2>4 DEF Orderly
<1>8. QED
  BY <1>1, <1>5, <1>6, <1>7 DEF Abstract!queueVars

LEMMA ReadOrdered ==
  ASSUME Typed, Typed', Orderly, NEW t \in RedisThreads, Read(t)
  PROVE  Orderly' /\ UNCHANGED Abstract!queueVars
<1>1. /\ procSktQueue' = procSktQueue /\ packet' = packet
      /\ handled' = handled /\ alive' = alive /\ pc[t] = "read"
  BY DEF Read
<1>2. PICK p \in Packets : p = packet[t]
  BY <1>1 DEF Typed, Threads
<1>3. \A r \in RedisThreads \ {t} : pc[r] = "idle"
  BY <1>1 DEF Orderly, Alone, Busy
<1>4. Busy(RedisThreads) = {t} /\ Reading = {t}
  BY <1>1, <1>3 DEF Busy, Reading, At
<1>5. /\ HandOf(Busy(Workers), packet) \in Seq(Packets) /\ procSktQueue \in Seq(Packets)
      /\ ring \in Seq(Bytes)
  BY HandsType DEF Typed, TypeOK
<1>6. Unread = (<<p>> \o procSktQueue) \o HandOf(Busy(Workers), packet)
  BY <1>2, <1>4, HandOne DEF Unread
<1>7. /\ Unread \in Seq(Packets) /\ Unread # <<>> /\ Head(Unread) = p
      /\ Tail(Unread) = (<<>> \o procSktQueue) \o HandOf(Busy(Workers), packet)
  BY <1>5, <1>6, GoesOut
<1>8. /\ Size[p] <= Len(ring) /\ \A i \in 1 .. Size[p] : ring[i] = <<p, i>>
      /\ Written(Tail(Unread), SubSeq(ring, Size[p] + 1, Len(ring)))
  BY <1>5, <1>7, WrittenFirst DEF Orderly
<1>9. Size[p] \in Nat /\ Size[p] <= MAX_RECV_SIZE /\ Len(ring) \in Nat
  BY <1>5, BytesOfType
<1>10. /\ ringCall'.ok /\ ringCall'.bytes = SubSeq(ring, 1, Size[p])
       /\ ring' = SubSeq(ring, Size[p] + 1, Len(ring))
  BY <1>2, <1>8, <1>9, RingReads DEF Read, Asked
<1>11. Goto(t, "dispatch") /\ readData' = Into(readData, ringCall'.bytes)
  BY <1>10 DEF Read
<1>12. /\ pc'[t] = "dispatch"
       /\ \A r \in RedisThreads \ {t} : pc'[r] = pc[r]
       /\ \A w \in Workers : pc'[w] = pc[w] /\ packet'[w] = packet[w]
  BY <1>1, <1>11, RedisStep
<1>13. Busy(RedisThreads)' = {t} /\ Reading' = {}
  BY <1>3, <1>12 DEF Busy, Reading, At
<1>14. InHand(RedisThreads)' = InHand(RedisThreads)
  BY <1>1, <1>4, <1>13, HandIs
<1>15. /\ HandOf(Busy(Workers)', packet') = HandOf(Busy(Workers), packet)
       /\ InHand(Workers)' = InHand(Workers) /\ (Alone(Workers) => Alone(Workers)')
  BY <1>12, WorkersSame
<1>16. Unread' = Tail(Unread)
  BY <1>1, <1>7, <1>13, <1>15, HandNone DEF Unread
<1>17. \A i \in 1 .. Size[p] : readData'[i] = <<p, i>>
  <2> DEFINE taken == SubSeq(ring, 1, Size[p])
  <2>1. Len(taken) = Size[p]
    BY <1>5, <1>8, <1>9, CutType
  <2>2. \A i \in 1 .. Size[p] : taken[i] = ring[i]
    BY <1>5, <1>8, <1>9
  <2> HIDE DEF taken
  <2>3. \A i \in 1 .. Size[p] : i \in 1 .. MAX_RECV_SIZE /\ i <= Len(taken)
    BY <1>9, <2>1, Distinct
  <2>4. readData' = Into(readData, taken)
    BY <1>10, <1>11 DEF taken
  <2>5. \A i \in 1 .. Size[p] : readData'[i] = taken[i]
    BY <2>3, <2>4 DEF Into
  <2>6. QED
    BY <1>8, <2>2, <2>5
<1>18. \A r \in RedisThreads : Whole(r)'
  <2>1. Whole(t)'
    BY <1>1, <1>2, <1>12, <1>17 DEF Whole
  <2>2. \A r \in RedisThreads \ {t} : Whole(r)'
    BY <1>3, <1>12 DEF Whole
  <2>3. QED
    BY <2>1, <2>2
<1>19. Orderly'
  <2>1. Alone(RedisThreads)' /\ Alone(Workers)'
    BY <1>13, <1>15 DEF Alone, Orderly
  <2>2. Written(Unread', ring')
    BY <1>8, <1>10, <1>16
  <2>3. QED
    BY <1>18, <2>1, <2>2 DEF Orderly
<1>20. QED
  BY <1>1, <1>14, <1>15, <1>19 DEF Abstract!queueVars

(* A thread that has read its packet holds the oldest one that waits.       *)
LEMMA FirstInHand ==
  ASSUME Typed, Orderly, NEW t \in RedisThreads, pc[t] # "idle"
  PROVE  /\ Busy(RedisThreads) = {t} /\ \A r \in RedisThreads \ {t} : pc[r] = "idle"
         /\ packet[t] \in Packets /\ InHand(RedisThreads) = <<packet[t]>>
         /\ (InHand(RedisThreads) \o procSktQueue) \o InHand(Workers) # <<>>
         /\ Head((InHand(RedisThreads) \o procSktQueue) \o InHand(Workers)) = packet[t]
         /\ Tail((InHand(RedisThreads) \o procSktQueue) \o InHand(Workers))
              = (<<>> \o procSktQueue) \o InHand(Workers)
<1>1. PICK p \in Packets : p = packet[t]
  BY DEF Typed, Threads
<1>2. Busy(RedisThreads) = {t} /\ \A r \in RedisThreads \ {t} : pc[r] = "idle"
  BY DEF Orderly, Alone, Busy
<1>3. InHand(RedisThreads) = <<p>>
  BY <1>1, <1>2, HandOne, HandIs
<1>4. procSktQueue \in Seq(Packets) /\ InHand(Workers) \in Seq(Packets)
  BY HandsType, HandIs
<1>5. /\ (<<p>> \o procSktQueue) \o InHand(Workers) # <<>>
      /\ Head((<<p>> \o procSktQueue) \o InHand(Workers)) = p
      /\ Tail((<<p>> \o procSktQueue) \o InHand(Workers))
           = (<<>> \o procSktQueue) \o InHand(Workers)
  BY <1>4, GoesOut
<1>6. QED
  BY <1>1, <1>2, <1>3, <1>5

LEMMA DispatchOrdered ==
  ASSUME Typed, Typed', Orderly, alive, NEW t \in RedisThreads, Dispatch(t)
  PROVE  Orderly' /\ (Abstract!Handle \/ UNCHANGED Abstract!queueVars)
<1>1. /\ procSktQueue' = procSktQueue /\ packet' = packet /\ ring' = ring
      /\ handled' = handled /\ readData' = readData /\ pc[t] = "dispatch"
  BY DEF Dispatch, Orderly, Whole
<1>2. PICK p \in Packets : p = packet[t]
  BY <1>1, FirstInHand
<1>3. readData[1] = <<p, 1>>
  <2>1. 1 \in 1 .. Size[p]
    BY BytesOfType
  <2>2. QED
    BY <1>1, <1>2, <2>1 DEF Orderly, Whole
<1>4. ASSUME NEW found \in HasHandler(readData[1]) PROVE found <=> p \in Registered
  <2>1. <<p, 1>> # Zero /\ <<p, 1>>[1] = p /\ <<p, 1>>[2] = 1
    BY DEF Zero
  <2>2. PICK header : header = readData[1]
    OBVIOUS
  <2>3. ~(header = Zero) /\ header[1] = p /\ header[2] = 1
    BY <1>3, <2>1, <2>2
  <2>4. HasHandler(header) = {f \in BOOLEAN : f <=> header[1] \in Registered}
    BY <2>3, Zenon DEF HasHandler
  <2>5. found \in {f \in BOOLEAN : f <=> header[1] \in Registered}
    BY <1>4, <2>2, <2>4, Zenon
  <2>6. found <=> header[1] \in Registered
    BY <2>5, Zenon
  <2>7. header[1] = p
    BY <2>3
  <2>8. QED
    BY <2>6, <2>7, Zenon
<1>5. \/ p \in Registered /\ Goto(t, "handle") /\ alive' = alive
      \/ p \notin Registered /\ alive' = FALSE /\ pc' = pc
  BY <1>1, <1>4, Zenon DEF Dispatch
<1>6. CASE p \in Registered /\ Goto(t, "handle") /\ alive' = alive
  <2>1. /\ pc'[t] = "handle"
        /\ \A r \in RedisThreads \ {t} : pc'[r] = pc[r]
        /\ \A w \in Workers : pc'[w] = pc[w] /\ packet'[w] = packet[w]
    BY <1>1, <1>6, RedisStep
  <2>2. /\ \A r \in RedisThreads \ {t} : pc[r] = "idle"
        /\ Busy(RedisThreads) = {t}
    BY <1>1, FirstInHand
  <2>3. Busy(RedisThreads)' = {t} /\ Reading' = {} /\ Reading = {}
    BY <1>1, <2>1, <2>2 DEF Busy, Reading, At
  <2>4. /\ HandOf(Busy(Workers)', packet') = HandOf(Busy(Workers), packet)
        /\ InHand(Workers)' = InHand(Workers) /\ (Alone(Workers) => Alone(Workers)')
    BY <2>1, WorkersSame
  <2>5. InHand(RedisThreads)' = InHand(RedisThreads)
    BY <1>1, <2>2, <2>3, HandIs
  <2>6. \A r \in RedisThreads : Whole(r)'
    <3>1. \A i \in 1 .. Size[p] : readData[i] = <<p, i>>
      BY <1>1, <1>2 DEF Orderly, Whole
    <3>2. Whole(t)'
      BY <1>1, <1>2, <1>6, <2>1, <3>1 DEF Whole
    <3>3. \A r \in RedisThreads \ {t} : Whole(r)'
      BY <2>1, <2>2 DEF Whole
    <3>4. QED
      BY <3>2, <3>3
  <2>7. Orderly'
    <3>1. Alone(RedisThreads)' /\ Alone(Workers)'
      BY <2>3, <2>4 DEF Alone, Orderly
    <3>2. Unread' = Unread
      BY <1>1, <2>3, <2>4 DEF Unread
    <3>3. Written(Unread', ring')
      BY <1>1, <3>2 DEF Orderly
    <3>4. QED
      BY <2>6, <3>1, <3>3 DEF Orderly
  <2>8. UNCHANGED Abstract!queueVars
    BY <1>1, <1>6, <2>4, <2>5 DEF Abstract!queueVars
  <2>9. QED
    BY <2>7, <2>8
<1>7. CASE p \notin Registered /\ alive' = FALSE /\ pc' = pc
  <2>1. /\ \A r \in RedisThreads : pc'[r] = pc[r] /\ packet'[r] = packet[r]
        /\ \A w \in Workers : pc'[w] = pc[w] /\ packet'[w] = packet[w]
    BY <1>1, <1>7
  <2>2. /\ HandOf(Busy(Workers)', packet') = HandOf(Busy(Workers), packet)
        /\ InHand(Workers)' = InHand(Workers) /\ (Alone(Workers) => Alone(Workers)')
    BY <2>1, WorkersSame
  <2>3. /\ HandOf(Reading', packet') = HandOf(Reading, packet)
        /\ InHand(RedisThreads)' = InHand(RedisThreads)
        /\ (Alone(RedisThreads) => Alone(RedisThreads)')
        /\ ((\A r \in RedisThreads : Whole(r)) => \A r \in RedisThreads : Whole(r)')
    BY <1>1, <2>1, RedisSame
  <2>4. Orderly'
    <3>1. Unread' = Unread
      BY <1>1, <2>2, <2>3 DEF Unread
    <3>2. Written(Unread', ring')
      BY <1>1, <3>1 DEF Orderly
    <3>3. QED
      BY <2>2, <2>3, <3>2 DEF Orderly
  <2>5. Abstract!Handle
    <3>1. /\ (InHand(RedisThreads) \o procSktQueue) \o InHand(Workers) # <<>>
          /\ Head((InHand(RedisThreads) \o procSktQueue) \o InHand(Workers)) = p
      BY <1>1, <1>2, FirstInHand
    <3>2. (InHand(RedisThreads)' \o procSktQueue') \o InHand(Workers)'
            = (InHand(RedisThreads) \o procSktQueue) \o InHand(Workers)
      BY <1>1, <2>2, <2>3
    <3>3. QED
      BY <1>1, <1>7, <3>1, <3>2 DEF Abstract!Handle
  <2>6. QED
    BY <2>4, <2>5
<1>8. QED
  BY <1>5, <1>6, <1>7

(* The first byte names the packet, so only one packet is found.            *)
LEMMA FindsThePacket ==
  ASSUME Typed, NEW p \in Packets, \A i \in 1 .. Size[p] : readData[i] = <<p, i>>
  PROVE  Found(readData) = p
<1>1. readData \in [1 .. MAX_RECV_SIZE -> Bytes \union {Zero}]
  BY DEF Typed, TypeOK
<1>2. ASSUME NEW q \in Packets
      PROVE  /\ SubSeq(readData, 1, Size[q]) \in Seq(Bytes \union {Zero})
             /\ Len(SubSeq(readData, 1, Size[q])) = Size[q]
             /\ \A i \in 1 .. Size[q] : SubSeq(readData, 1, Size[q])[i] = readData[i]
  <2>1. readData \in Seq(Bytes \union {Zero}) /\ Len(readData) = MAX_RECV_SIZE
    BY <1>1, Distinct
  <2> DEFINE s == Size[q]
  <2>2. s \in Nat /\ s >= 1 /\ s <= Len(readData)
    BY <2>1, BytesOfType
  <2> HIDE DEF s
  <2>3. SubSeq(readData, 1, s) \in Seq(Bytes \union {Zero}) /\ Len(SubSeq(readData, 1, s)) = s
    BY <2>1, <2>2, CutType
  <2>4. \A i \in 1 .. s : SubSeq(readData, 1, s)[i] = readData[i]
    BY <2>1, <2>2
  <2>5. QED
    BY <2>3, <2>4 DEF s
<1>3. SubSeq(readData, 1, Size[p]) = BytesOf(p)
  <2>1. BytesOf(p) \in Seq(Bytes \union {Zero}) /\ Len(BytesOf(p)) = Size[p]
    <3>1. BytesOf(p) \in Seq(Bytes) /\ Len(BytesOf(p)) = Size[p]
      BY BytesOfType
    <3>2. QED
      BY <3>1, SeqMonotonic
  <2>2. \A i \in 1 .. Size[p] : BytesOf(p)[i] = <<p, i>>
    BY BytesOfType
  <2> DEFINE a == SubSeq(readData, 1, Size[p])
             b == BytesOf(p)
  <2>3. /\ a \in Seq(Bytes \union {Zero}) /\ b \in Seq(Bytes \union {Zero}) /\ Len(a) = Len(b)
        /\ \A i \in 1 .. Len(a) : a[i] = b[i]
    <3>1. Len(a) = Size[p] /\ \A i \in 1 .. Size[p] : a[i] = readData[i]
      BY <1>2
    <3>2. a \in Seq(Bytes \union {Zero})
      BY <1>2
    <3> HIDE DEF a, b
    <3>3. QED
      BY <2>1, <2>2, <3>1, <3>2 DEF b
  <2> HIDE DEF a, b
  <2>4. a = b
    BY <2>3, SeqEqual
  <2>5. QED
    BY <2>4 DEF a, b
<1>4. ASSUME NEW q \in Packets, SubSeq(readData, 1, Size[q]) = BytesOf(q)
      PROVE  q = p
  <2>1. 1 \in 1 .. Size[q] /\ 1 \in 1 .. Size[p]
    BY BytesOfType
  <2>2. BytesOf(q)[1] = <<q, 1>> /\ readData[1] = <<p, 1>>
    BY <2>1, BytesOfType
  <2>3. SubSeq(readData, 1, Size[q])[1] = readData[1]
    BY <1>2, <2>1
  <2>4. <<q, 1>> = <<p, 1>>
    BY <1>4, <2>2, <2>3, Zenon
  <2>5. QED
    BY <2>4
<1>5. QED
  BY <1>3, <1>4 DEF Found

LEMMA HandleOrdered ==
  ASSUME Typed, Typed', Orderly, alive, NEW t \in RedisThreads, Handle(t)
  PROVE  Orderly' /\ Abstract!Handle
<1>1. /\ procSktQueue' = procSktQueue /\ ring' = ring /\ alive' = alive
      /\ handled' = Found(readData) /\ readData' = readData /\ pc[t] = "handle"
  BY DEF Handle
<1>2. PICK p \in Packets : p = packet[t]
  BY <1>1, FirstInHand
<1>3. /\ p \in Registered
      /\ \A i \in 1 .. Size[p] : readData[i] = <<p, i>>
  BY <1>1, <1>2 DEF Orderly, Whole
<1>4. handled' = p
  BY <1>1, <1>3, FindsThePacket
<1>5. \A r \in Threads \ {t} : packet'[r] = packet[r]
  BY DEF Handle, Return, Typed, TypeOK
<1>6. /\ pc'[t] = "idle"
      /\ \A r \in RedisThreads \ {t} : pc'[r] = pc[r]
      /\ \A w \in Workers : pc'[w] = pc[w] /\ packet'[w] = packet[w]
  BY <1>5, RedisStep DEF Handle, Return
<1>7. /\ \A r \in RedisThreads \ {t} : pc[r] = "idle"
      /\ Busy(RedisThreads) = {t}
  BY <1>1, FirstInHand
<1>8. Busy(RedisThreads)' = {} /\ Reading' = {} /\ Reading = {}
  BY <1>1, <1>6, <1>7 DEF Busy, Reading, At
<1>9. /\ HandOf(Busy(Workers)', packet') = HandOf(Busy(Workers), packet)
      /\ InHand(Workers)' = InHand(Workers) /\ (Alone(Workers) => Alone(Workers)')
  BY <1>6, WorkersSame
<1>10. InHand(RedisThreads)' = <<>>
  BY <1>8, HandIs, HandNone
<1>11. Orderly'
  <2>1. Alone(RedisThreads)' /\ Alone(Workers)'
    BY <1>8, <1>9 DEF Alone, Orderly
  <2>2. Unread' = Unread
    BY <1>1, <1>8, <1>9, HandNone DEF Unread
  <2>3. Written(Unread', ring')
    BY <1>1, <2>2 DEF Orderly
  <2>4. \A r \in RedisThreads : Whole(r)'
    BY <1>6, <1>7 DEF Whole
  <2>5. QED
    BY <2>1, <2>3, <2>4 DEF Orderly
<1>12. Abstract!Handle
  <2>1. /\ (InHand(RedisThreads) \o procSktQueue) \o InHand(Workers) # <<>>
        /\ Head((InHand(RedisThreads) \o procSktQueue) \o InHand(Workers)) = p
        /\ Tail((InHand(RedisThreads) \o procSktQueue) \o InHand(Workers))
             = (<<>> \o procSktQueue) \o InHand(Workers)
    BY <1>1, <1>2, FirstInHand
  <2>2. (InHand(RedisThreads)' \o procSktQueue') \o InHand(Workers)'
          = Tail((InHand(RedisThreads) \o procSktQueue) \o InHand(Workers))
    BY <1>1, <1>9, <1>10, <2>1
  <2>3. QED
    BY <1>1, <1>3, <1>4, <2>1, <2>2 DEF Abstract!Handle
<1>13. QED
  BY <1>11, <1>12

LEMMA InitOrdered == Init => InOrder /\ Abstract!Init
<1> SUFFICES ASSUME Init PROVE InOrder /\ Abstract!Init
  OBVIOUS
<1>1. /\ ring = <<>> /\ procSktQueue = <<>> /\ handled = None /\ alive = TRUE
      /\ \A t \in Threads : pc[t] = "idle"
  BY DEF Init, Ring!Init
<1>2. Busy(Workers) = {} /\ Busy(RedisThreads) = {} /\ Reading = {}
  BY <1>1 DEF Busy, Reading, At, Threads
<1>3. /\ HandOf(Busy(Workers), packet) = <<>> /\ HandOf(Reading, packet) = <<>>
      /\ InHand(RedisThreads) = <<>> /\ InHand(Workers) = <<>>
  BY <1>2, HandNone, HandIs
<1>4. (<<>> \o <<>>) \o <<>> = <<>>
  <2>1. <<>> \in Seq(Packets)
    OBVIOUS
  <2>2. <<>> \o <<>> = <<>>
    BY <2>1, ConcatEmptySeq
  <2>3. QED
    BY <2>2
<1>5. Written(Unread, ring)
  BY <1>1, <1>3, <1>4, WrittenNone DEF Unread
<1>6. \A t \in RedisThreads : Whole(t)
  BY <1>1 DEF Whole, Threads
<1>7. InOrder
  BY <1>2, <1>5, <1>6 DEF InOrder, Orderly, Alone
<1>8. Abstract!Init
  BY <1>1, <1>3, <1>4 DEF Abstract!Init
<1>9. QED
  BY <1>7, <1>8

LEMMA StepOrdered ==
  ASSUME Typed, Typed', InOrder, [Next]_vars
  PROVE  InOrder' /\ (~dropped' /\ raced' = {} => [Abstract!Next]_(Abstract!queueVars))
<1> SUFFICES ASSUME Serial'
             PROVE  Orderly' /\ [Abstract!Next]_(Abstract!queueVars)
  BY DEF InOrder, Serial
<1>1. ~dropped' /\ raced' = {}
  BY DEF Serial
<1>2. CASE UNCHANGED vars
  <2>1. Orderly
    BY <1>1, <1>2 DEF InOrder, Serial, vars
  <2>2. /\ \A w \in Workers : pc'[w] = pc[w] /\ packet'[w] = packet[w]
        /\ \A t \in RedisThreads : pc'[t] = pc[t] /\ packet'[t] = packet[t]
        /\ readData' = readData /\ procSktQueue' = procSktQueue /\ ring' = ring
        /\ handled' = handled /\ alive' = alive
    BY <1>2 DEF vars
  <2>3. /\ HandOf(Busy(Workers)', packet') = HandOf(Busy(Workers), packet)
        /\ InHand(Workers)' = InHand(Workers) /\ (Alone(Workers) => Alone(Workers)')
    BY <2>2, WorkersSame
  <2>4. /\ HandOf(Reading', packet') = HandOf(Reading, packet)
        /\ InHand(RedisThreads)' = InHand(RedisThreads)
        /\ (Alone(RedisThreads) => Alone(RedisThreads)')
        /\ ((\A r \in RedisThreads : Whole(r)) => \A r \in RedisThreads : Whole(r)')
    BY <2>2, RedisSame
  <2>5. Unread' = Unread
    BY <2>2, <2>3, <2>4 DEF Unread
  <2>6. Orderly'
    BY <2>1, <2>2, <2>3, <2>4, <2>5 DEF Orderly
  <2>7. QED
    BY <2>2, <2>3, <2>4, <2>6 DEF Abstract!queueVars
<1>3. CASE Next
  <2>1. /\ alive
        /\ \/ \E w \in Workers : Queue(w)
           \/ \E w \in Workers, p \in Packets : Write(w, p)
           \/ \E t \in RedisThreads : RedisThread(t)
    BY <1>3 DEF Next
  <2>2. ~dropped /\ raced = {}
    <3>1. (dropped => dropped') /\ raced \subseteq raced'
      <4>1. CASE \E w \in Workers : Queue(w)
        BY <4>1 DEF Queue
      <4>2. CASE \E w \in Workers, p \in Packets : Write(w, p)
        BY <4>2 DEF Write, Entering
      <4>3. CASE \E t \in RedisThreads : RedisThread(t)
        BY <4>3 DEF RedisThread, Pop, Clear, Read, Dispatch, Handle, Entering
      <4>4. QED
        BY <2>1, <4>1, <4>2, <4>3
    <3>2. QED
      BY <1>1, <3>1
  <2>3. Orderly
    BY <2>2 DEF InOrder, Serial
  <2>4. CASE \E w \in Workers : Queue(w)
    BY <2>3, <2>4, QueueOrdered
  <2>5. CASE \E w \in Workers, p \in Packets : Write(w, p)
    BY <1>1, <2>1, <2>3, <2>5, WriteOrdered DEF Abstract!Next
  <2>6. CASE \E t \in RedisThreads : RedisThread(t)
    <3>1. PICK t \in RedisThreads : RedisThread(t)
      BY <2>6
    <3>2. CASE Pop(t)
      BY <1>1, <2>3, <3>2, PopOrdered
    <3>3. CASE Clear(t)
      BY <2>3, <3>3, ClearOrdered
    <3>4. CASE Read(t)
      BY <2>3, <3>4, ReadOrdered
    <3>5. CASE Dispatch(t)
      BY <2>1, <2>3, <3>5, DispatchOrdered DEF Abstract!Next
    <3>6. CASE Handle(t)
      BY <2>1, <2>3, <3>6, HandleOrdered DEF Abstract!Next
    <3>7. QED
      BY <3>1, <3>2, <3>3, <3>4, <3>5, <3>6 DEF RedisThread
  <2>7. QED
    BY <2>1, <2>4, <2>5, <2>6
<1>4. QED
  BY <1>2, <1>3

(* PushRedisPacket and RedisThread are a queue of whole packets: until a    *)
(* write is refused or two threads of a kind are inside together, each step *)
(* of theirs receives a packet, handles the oldest one, dies of it because  *)
(* nobody registered its id, or changes nothing (RedisManager.cpp:30-35,    *)
(* 77-93, ConnUser.h:99-117).                                               *)
THEOREM Refinement == Spec => ImplementsPacketQueue
<1>1. Spec => [](Typed /\ InOrder)
  BY InitTyped, StepTyped, InitOrdered, StepOrdered, PTL DEF Spec
<1>2. Typed /\ Typed' /\ InOrder /\ [Next]_vars
        => (~dropped' /\ raced' = {} => [Abstract!Next]_(Abstract!queueVars))
  BY StepOrdered
<1>3. QED
  BY <1>1, <1>2, InitOrdered, PTL DEF Spec, ImplementsPacketQueue
=============================================================================
