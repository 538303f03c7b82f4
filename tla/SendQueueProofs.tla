-------------------------- MODULE SendQueueProofs --------------------------
(***************************************************************************)
(* Proofs about SendQueue, for every number of threads and messages: type  *)
(* correctness, that a stuck send queue stays stuck, that a message is in  *)
(* exactly one place, that the counter is exact modulo its width, and      *)
(* that a message alone in the queue is not left behind.                   *)
(***************************************************************************)
EXTENDS SendQueue, FiniteSetTheorems, TLAPS

(* A thread about to call WSASend holds a message. *)
Holding == \A t \in Threads : pc[t] = "send" => held[t] # 0

IInv == TypeOK /\ Holding

Steps == {"idle", "count", "discount", "test", "pop", "send"}

LEMMA Modulus == CountModulus \in Nat /\ CountModulus > 1
  BY SMT DEF CountModulus

(* The counter moves inside its width. *)
LEMMA Moves ==
  ASSUME NEW n \in 0 .. CountModulus - 1
  PROVE  /\ Incremented(n) \in 0 .. CountModulus - 1
         /\ Decremented(n) \in 0 .. CountModulus - 1
         /\ n + 1 < CountModulus => Incremented(n) = n + 1
  BY Modulus, SMT DEF Incremented, Decremented

LEMMA InitInv == Init => IInv
  <1>1. 0 \in 0 .. CountModulus - 1
    BY Modulus
  <1> QED
    BY <1>1, SendAssumption DEF Init, IInv, TypeOK, Holding, Msgs

LEMMA StepInv == IInv /\ [Next]_vars => IInv'
  <1> SUFFICES ASSUME IInv, [Next]_vars PROVE IInv'
    OBVIOUS
  <1> USE SendAssumption DEF IInv, Holding, Msgs
  <1>0. pushed \in Nat
    BY DEF TypeOK
  <1>1. ASSUME NEW t \in Threads, Push(t) PROVE IInv'
    <2>1. /\ pushed' = pushed + 1 /\ pushed' \in 0 .. MaxMsgs
          /\ sendQueue' = Append(sendQueue, pushed + 1)
          /\ pc' = [pc EXCEPT ![t] = "count"]
          /\ UNCHANGED <<held, sendQueueSize, inFlight, sent, failed>>
      BY <1>1 DEF Push, Goto, TypeOK
    <2>2. 1 .. pushed \subseteq 1 .. pushed' /\ 0 .. pushed \subseteq 0 .. pushed'
      BY <2>1, <1>0
    <2>3. sendQueue \in Seq(1 .. pushed') /\ pushed + 1 \in 1 .. pushed'
      BY <2>1, <2>2, <1>0 DEF TypeOK
    <2>4. sendQueue' \in Seq(1 .. pushed')
      BY <2>1, <2>3
    <2>5. pc' \in [Threads -> Steps] /\ held' \in [Threads -> 0 .. pushed']
      BY <2>1, <2>2 DEF TypeOK, Steps
    <2>6. TypeOK'
      BY <2>1, <2>2, <2>4, <2>5 DEF TypeOK, Steps
    <2>7. Holding'
      BY <2>1 DEF TypeOK
    <2> QED
      BY <2>6, <2>7
  <1>2. ASSUME NEW t \in Threads, Complete(t) PROVE IInv'
    BY <1>2 DEF Complete, Goto, TypeOK
  <1>9. ASSUME NEW t \in Threads, Fail(t) PROVE IInv'
    BY <1>9 DEF Fail, TypeOK
  <1>3. ASSUME NEW t \in Threads, Count(t) PROVE IInv'
    <2>1. Incremented(sendQueueSize) \in 0 .. CountModulus - 1
      BY Moves DEF TypeOK
    <2> QED
      BY <1>3, <2>1 DEF Count, Goto, TypeOK
  <1>4. ASSUME NEW t \in Threads, Discount(t) PROVE IInv'
    <2>1. Decremented(sendQueueSize) \in 0 .. CountModulus - 1
      BY Moves DEF TypeOK
    <2> QED
      BY <1>4, <2>1 DEF Discount, Goto, TypeOK
  <1>5. ASSUME NEW t \in Threads, Test(t) PROVE IInv'
    BY <1>5 DEF Test, Goto, TypeOK
  <1>6. ASSUME NEW t \in Threads, Pop(t) PROVE IInv'
    <2>1. CASE sendQueue = <<>>
      BY <1>6, <2>1 DEF Pop, Goto, TypeOK
    <2>2. CASE sendQueue # <<>>
      <3>1. Head(sendQueue) \in 1 .. pushed /\ Tail(sendQueue) \in Seq(1 .. pushed)
        BY <2>2 DEF TypeOK
      <3>2. Head(sendQueue) \in 0 .. pushed /\ Head(sendQueue) # 0
        BY <3>1, <1>0
      <3>3. /\ sendQueue' = Tail(sendQueue)
            /\ held' = [held EXCEPT ![t] = Head(sendQueue)]
            /\ pc' = [pc EXCEPT ![t] = "send"]
            /\ UNCHANGED <<pushed, sendQueueSize, inFlight, sent, failed>>
        BY <1>6, <2>2 DEF Pop, Popped, Goto
      <3>4. TypeOK'
        BY <3>1, <3>2, <3>3 DEF TypeOK
      <3>5. Holding'
        BY <3>2, <3>3 DEF TypeOK
      <3> QED
        BY <3>4, <3>5
    <2> QED
      BY <2>1, <2>2
  <1>7. ASSUME NEW t \in Threads, Send(t) PROVE IInv'
    <2>1. held[t] \in 1 .. pushed
      BY <1>7, <1>0 DEF Send, TypeOK
    <2>2. /\ inFlight' \subseteq 1 .. pushed /\ failed' \subseteq 1 .. pushed
          /\ held' = [held EXCEPT ![t] = 0]
          /\ pc' = [pc EXCEPT ![t] = "idle"]
          /\ UNCHANGED <<pushed, sendQueue, sendQueueSize, sent>>
      BY <1>7, <2>1 DEF Send, Goto, TypeOK
    <2>3. held' \in [Threads -> 0 .. pushed]
      BY <2>2, <1>0 DEF TypeOK
    <2>4. TypeOK'
      BY <2>2, <2>3 DEF TypeOK
    <2>5. Holding'
      BY <2>2 DEF TypeOK
    <2> QED
      BY <2>4, <2>5
  <1>8. CASE UNCHANGED vars
    BY <1>8 DEF vars, TypeOK
  <1> QED
    BY <1>1, <1>2, <1>3, <1>4, <1>5, <1>6, <1>7, <1>8, <1>9 DEF Next, Dequeue, Running

(* Every variable keeps its type; in particular WSASend is only ever called *)
(* with a message that was pushed.                                          *)
THEOREM TypeCorrect == Spec => []TypeOK
  <1>1. IInv => TypeOK
    BY DEF IInv
  <1> QED
    BY InitInv, StepInv, <1>1, PTL DEF Spec

----------------------------------------------------------------------------
(* What keeps a stuck queue stuck: no thread is left that would discount,   *)
(* pop or send, and the counter can only grow away from one.                *)
LEMMA StuckStep ==
  IInv /\ [Next]_vars => (Stuck /\ sendQueueSize + 1 < CountModulus => Stuck')
  <1> SUFFICES ASSUME IInv, [Next]_vars, Stuck, sendQueueSize + 1 < CountModulus
               PROVE  Stuck'
    OBVIOUS
  <1>0. /\ sendQueue # <<>> /\ sendQueueSize > 1 /\ inFlight = {}
        /\ \A t \in Threads : pc[t] \in {"idle", "count", "test"}
        /\ pc \in [Threads -> {"idle", "count", "discount", "test", "pop", "send"}]
        /\ sendQueue \in Seq(Msgs) /\ sendQueueSize \in 0 .. CountModulus - 1
        /\ sendQueueSize \in Nat /\ pushed \in Nat
    BY SendAssumption, Modulus DEF Stuck, IInv, TypeOK
  <1>1. ASSUME NEW t \in Threads, Push(t) PROVE Stuck'
    <2>1. sendQueue' = Append(sendQueue, pushed') /\ Len(sendQueue') = Len(sendQueue) + 1
      BY <1>0, <1>1 DEF Push
    <2>2. sendQueue' # <<>>
      BY <1>0, <2>1
    <2>3. /\ pc' = [pc EXCEPT ![t] = "count"]
          /\ UNCHANGED <<sendQueueSize, inFlight>>
      BY <1>1 DEF Push, Goto
    <2> QED
      BY <1>0, <2>2, <2>3 DEF Stuck
  <1>2. ASSUME NEW t \in Threads, Dequeue(t) PROVE Stuck'
    BY <1>0, <1>2 DEF Dequeue, Complete, Fail
  <1>3. ASSUME NEW t \in Threads, Count(t) PROVE Stuck'
    <2>1. sendQueueSize' = sendQueueSize + 1
      BY <1>0, <1>3, Moves DEF Count
    <2>2. sendQueueSize' > 1
      BY <1>0, <2>1
    <2>3. /\ pc' = [pc EXCEPT ![t] = "test"]
          /\ UNCHANGED <<sendQueue, inFlight>>
      BY <1>3 DEF Count, Goto
    <2> QED
      BY <1>0, <2>2, <2>3 DEF Stuck
  <1>4. ASSUME NEW t \in Threads, Discount(t) \/ Pop(t) \/ Send(t) PROVE Stuck'
    BY <1>0, <1>4 DEF Discount, Pop, Send
  <1>5. ASSUME NEW t \in Threads, Test(t) PROVE Stuck'
    <2>1. ~SendsNext(sendQueueSize)
      BY <1>0 DEF SendsNext
    <2>2. /\ pc' = [pc EXCEPT ![t] = "idle"]
          /\ UNCHANGED <<sendQueue, sendQueueSize, inFlight>>
      BY <1>5, <2>1 DEF Test, Goto
    <2> QED
      BY <1>0, <2>2 DEF Stuck
  <1>6. CASE UNCHANGED vars
    BY <1>6 DEF vars, Stuck
  <1> QED
    BY <1>1, <1>2, <1>3, <1>4, <1>5, <1>6 DEF Next, Running

(* A connection whose send queue is stuck never sends again, whatever is    *)
(* pushed to it, until the 16-bit counter wraps.                            *)
THEOREM StaysStuck == Spec => StuckForGood
  <1> QED
    BY InitInv, StepInv, StuckStep, PTL DEF Spec, StuckForGood
----------------------------------------------------------------------------
(* Where a message may be. *)
Queued(m) == \E i \in 1 .. Len(sendQueue) : sendQueue[i] = m
InHand(m) == \E t \in Threads : pc[t] = "send" /\ held[t] = m

(* Positions and threads do not share a message. *)
Single ==
  /\ \A i, j \in 1 .. Len(sendQueue) : sendQueue[i] = sendQueue[j] => i = j
  /\ \A t, u \in Threads :
       pc[t] = "send" /\ pc[u] = "send" /\ held[t] = held[u] => t = u

(* Every message is in one place. *)
Placed ==
  \A m \in Msgs :
    /\ Queued(m) => ~InHand(m)
    /\ Queued(m) \/ InHand(m) <=> m \notin inFlight \union sent \union failed
    /\ m \in inFlight => m \notin sent \union failed
    /\ m \in sent => m \notin failed

Places == Single /\ Placed

LEMMA StepPlaces == IInv /\ Places /\ [Next]_vars => Places'
<1> SUFFICES ASSUME IInv, Places, [Next]_vars PROVE Places'
  OBVIOUS
<1> USE DEF IInv, Msgs
<1>0. pushed \in Nat /\ Len(sendQueue) \in Nat /\ \A i \in 1 .. Len(sendQueue) : sendQueue[i] \in 1 .. pushed
  BY DEF TypeOK
<1>1. ASSUME NEW t \in Threads, Push(t) PROVE Places'
  <2>1. /\ Len(sendQueue') = Len(sendQueue) + 1
        /\ sendQueue'[Len(sendQueue) + 1] = pushed + 1
        /\ \A i \in 1 .. Len(sendQueue) : sendQueue'[i] = sendQueue[i]
        /\ pushed' = pushed + 1 /\ UNCHANGED <<held, inFlight, sent, failed>>
    BY <1>1 DEF Push, TypeOK
  <2>2. \A i \in 1 .. Len(sendQueue') : i \in 1 .. Len(sendQueue) \/ i = Len(sendQueue) + 1
    BY <1>0, <2>1
  <2>3. \A u \in Threads : pc'[u] = "send" <=> pc[u] = "send"
    BY <1>1 DEF Push, Goto, TypeOK
  <2>4. Single'
    BY <1>0, <2>1, <2>2, <2>3 DEF Places, Single
  <2>n. PICK n : n = pushed + 1
    OBVIOUS
  <2>5. \A m \in 1 .. pushed : (Queued(m)' <=> Queued(m)) /\ (InHand(m)' <=> InHand(m)) /\ m # n
    BY <1>0, <2>1, <2>2, <2>3, <2>n DEF Queued, InHand
  <2>6. Queued(n)'
    BY <1>0, <2>1, <2>n DEF Queued
  <2>7. ~InHand(n)' /\ n \notin inFlight \union sent \union failed
    BY <1>0, <2>1, <2>3, <2>n DEF InHand, TypeOK
  <2>8. \A m \in 1 .. pushed' : m \in 1 .. pushed \/ m = n
    BY <1>0, <2>1, <2>n
  <2>9. Placed'
    BY <2>1, <2>5, <2>6, <2>7, <2>8 DEF Places, Placed
  <2>10. QED
    BY <2>4, <2>9 DEF Places
<1>2. ASSUME NEW t \in Threads, Complete(t) PROVE Places'
  <2>1. \A u \in Threads : pc'[u] = "send" <=> pc[u] = "send"
    BY <1>2 DEF Complete, Goto, TypeOK
  <2>2. UNCHANGED <<sendQueue, held, pushed, failed>>
    BY <1>2 DEF Complete
  <2>3. \A m : (Queued(m)' <=> Queued(m)) /\ (InHand(m)' <=> InHand(m))
    BY <2>1, <2>2 DEF Queued, InHand
  <2>4. PICK n \in inFlight : inFlight' = inFlight \ {n} /\ sent' = sent \union {n}
    BY <1>2 DEF Complete
  <2>5. Placed'
    BY <2>2, <2>3, <2>4 DEF Places, Placed
  <2>6. QED
    BY <2>1, <2>2, <2>5 DEF Places, Single
<1>8. ASSUME NEW t \in Threads, Fail(t) PROVE Places'
  <2>1. UNCHANGED <<pc, sendQueue, held, pushed, sent>>
    BY <1>8 DEF Fail
  <2>2. \A m : (Queued(m)' <=> Queued(m)) /\ (InHand(m)' <=> InHand(m))
    BY <2>1 DEF Queued, InHand
  <2>3. PICK n \in inFlight : inFlight' = inFlight \ {n} /\ failed' = failed \union {n}
    BY <1>8 DEF Fail
  <2>4. Placed'
    BY <2>1, <2>2, <2>3 DEF Places, Placed
  <2>5. QED
    BY <2>1, <2>4 DEF Places, Single
<1>3. ASSUME NEW t \in Threads, Count(t) \/ Discount(t) \/ Test(t) PROVE Places'
  <2>1. \A u \in Threads : pc'[u] = "send" <=> pc[u] = "send"
    BY <1>3 DEF Count, Discount, Test, Goto, TypeOK
  <2>2. UNCHANGED <<sendQueue, held, pushed, inFlight, sent, failed>>
    BY <1>3 DEF Count, Discount, Test
  <2>3. \A m : (Queued(m)' <=> Queued(m)) /\ (InHand(m)' <=> InHand(m))
    BY <2>1, <2>2 DEF Queued, InHand
  <2>4. QED
    BY <2>1, <2>2, <2>3 DEF Places, Single, Placed
<1>4. ASSUME NEW t \in Threads, Pop(t) PROVE Places'
  <2>1. CASE sendQueue = <<>>
    <3>1. \A u \in Threads : pc'[u] = "send" <=> pc[u] = "send"
      BY <1>4, <2>1 DEF Pop, Goto, TypeOK
    <3>2. UNCHANGED <<sendQueue, held, pushed, inFlight, sent, failed>>
      BY <1>4, <2>1 DEF Pop
    <3>3. \A m : (Queued(m)' <=> Queued(m)) /\ (InHand(m)' <=> InHand(m))
      BY <3>1, <3>2 DEF Queued, InHand
    <3>4. QED
      BY <3>1, <3>2, <3>3 DEF Places, Single, Placed
  <2>2. CASE sendQueue # <<>>
    <3>n. PICK n : n = sendQueue[1]
      OBVIOUS
    <3>1. /\ sendQueue' = Tail(sendQueue) /\ Head(sendQueue) = n
          /\ held' = [held EXCEPT ![t] = Head(sendQueue)] /\ pc[t] = "pop"
          /\ pc' = [pc EXCEPT ![t] = "send"]
          /\ UNCHANGED <<pushed, inFlight, sent, failed>>
      BY <1>4, <2>2, <3>n DEF Pop, Popped, Goto, TypeOK
    <3>2. /\ Len(sendQueue) > 0 /\ Len(sendQueue') = Len(sendQueue) - 1
          /\ \A i \in 1 .. Len(sendQueue') : sendQueue'[i] = sendQueue[i + 1]
      BY <2>2, <3>1 DEF TypeOK
    <3>3. \A u \in Threads : /\ held'[u] = IF u = t THEN n ELSE held[u]
                             /\ pc'[u] = IF u = t THEN "send" ELSE pc[u]
      BY <3>1 DEF TypeOK
    <3>4. n \in 1 .. pushed /\ Queued(n)
      BY <1>0, <3>2, <3>n DEF Queued
    <3>5. ~InHand(n)
      BY <3>4 DEF Places, Placed
    <3>6. Single'
      <4>1. \A i, j \in 1 .. Len(sendQueue') : sendQueue'[i] = sendQueue'[j] => i = j
        BY <1>0, <3>2 DEF Places, Single
      <4>2. \A u, w \in Threads : pc'[u] = "send" /\ pc'[w] = "send" /\ held'[u] = held'[w] => u = w
        BY <3>3, <3>5 DEF Places, Single, InHand
      <4>3. QED
        BY <4>1, <4>2 DEF Single
    <3>7. InHand(n)' /\ ~Queued(n)'
      <4>1. ~Queued(n)'
        BY <1>0, <3>2, <3>n DEF Places, Single, Queued
      <4>2. QED
        BY <3>3, <4>1 DEF InHand
    <3>8. ASSUME NEW m \in 1 .. pushed, m # n
          PROVE  (Queued(m)' <=> Queued(m)) /\ (InHand(m)' <=> InHand(m))
      <4>1. Queued(m)' => Queued(m)
        BY <1>0, <3>2 DEF Queued
      <4>2. ASSUME Queued(m) PROVE Queued(m)'
        <5>1. PICK i \in 1 .. Len(sendQueue) : sendQueue[i] = m
          BY <4>2 DEF Queued
        <5>2. i - 1 \in 1 .. Len(sendQueue') /\ sendQueue'[i - 1] = sendQueue[i]
          BY <1>0, <3>2, <3>8, <3>n, <5>1
        <5>3. QED
          BY <5>1, <5>2 DEF Queued
      <4>3. InHand(m)' <=> InHand(m)
        BY <3>1, <3>3, <3>8 DEF InHand
      <4>4. QED
        BY <4>1, <4>2, <4>3
    <3>9. Placed'
      BY <3>1, <3>4, <3>7, <3>8 DEF Places, Placed
    <3>10. QED
      BY <3>6, <3>9 DEF Places
  <2>3. QED
    BY <2>1, <2>2
<1>5. ASSUME NEW t \in Threads, Send(t) PROVE Places'
  <2>n. PICK n : n = held[t]
    OBVIOUS
  <2>1. /\ pc[t] = "send" /\ UNCHANGED <<sendQueue, pushed, sent>>
        /\ \/ inFlight' = inFlight \union {n} /\ UNCHANGED failed
           \/ failed' = failed \union {n} /\ UNCHANGED inFlight
    BY <1>5, <2>n DEF Send
  <2>2. \A u \in Threads : /\ held'[u] = IF u = t THEN 0 ELSE held[u]
                           /\ pc'[u] = IF u = t THEN "idle" ELSE pc[u]
    BY <1>5 DEF Send, Goto, TypeOK
  <2>3. n \in 1 .. pushed /\ InHand(n)
    BY <1>0, <2>1, <2>n DEF InHand, TypeOK, Holding
  <2>4. ~InHand(n)' /\ (Queued(n)' <=> Queued(n))
    BY <1>0, <2>1, <2>2, <2>3, <2>n DEF InHand, Queued, Places, Single
  <2>5. \A m \in 1 .. pushed : m # n => (Queued(m)' <=> Queued(m)) /\ (InHand(m)' <=> InHand(m))
    BY <2>1, <2>2, <2>n DEF InHand, Queued
  <2>6. Placed'
    BY <2>1, <2>3, <2>4, <2>5 DEF Places, Placed
  <2>7. Single'
    BY <2>1, <2>2 DEF Places, Single
  <2>8. QED
    BY <2>6, <2>7 DEF Places
<1>6. CASE UNCHANGED vars
  BY <1>6 DEF vars, Places, Single, Placed, Queued, InHand
<1>7. QED
  BY <1>1, <1>2, <1>3, <1>4, <1>5, <1>6, <1>8 DEF Next, Dequeue, Running

LEMMA InitPlaces == Init => Places
<1> SUFFICES ASSUME Init PROVE Places
  OBVIOUS
<1>1. Len(sendQueue) = 0 /\ Msgs = {}
  BY DEF Init, Msgs
<1>2. QED
  BY <1>1 DEF Init, Places, Single, Placed

(* A set of at most one element counts whether it has one.                  *)
LEMMA CountsOne ==
  ASSUME NEW S, \A x, y \in S : x = y
  PROVE  Cardinality(S) = IF S = {} THEN 0 ELSE 1
<1>1. CASE S = {}
  BY <1>1, FS_EmptySet
<1>2. CASE S # {}
  <2>1. PICK x \in S : S = {x}
    BY <1>2
  <2>2. QED
    BY <1>2, <2>1, FS_Singleton
<1>3. QED
  BY <1>1, <1>2

LEMMA PlacesEachOnce == IInv /\ Places => EachOnce
<1> SUFFICES ASSUME IInv, Places, NEW m \in Msgs
             PROVE  Cardinality({i \in DOMAIN sendQueue : sendQueue[i] = m})
                      + Cardinality({t \in At("send") : held[t] = m})
                      + Cardinality({k \in 1 .. 3 : m \in <<inFlight, sent, failed>>[k]}) = 1
  BY DEF EachOnce
<1> DEFINE Q == {i \in DOMAIN sendQueue : sendQueue[i] = m}
           H == {t \in At("send") : held[t] = m}
           K == {k \in 1 .. 3 : m \in <<inFlight, sent, failed>>[k]}
<1>1. Q # {} <=> Queued(m)
  BY DEF Queued, IInv, TypeOK
<1>2. \A i, j \in Q : i = j
  BY DEF Places, Single, IInv, TypeOK
<1>3. (H # {} <=> InHand(m)) /\ \A t, u \in H : t = u
  BY DEF InHand, At, Places, Single
<1>4. /\ 1 \in K <=> m \in inFlight
      /\ 2 \in K <=> m \in sent
      /\ 3 \in K <=> m \in failed
  OBVIOUS
<1>5. K \subseteq {1, 2, 3}
  OBVIOUS
<1>6. (K # {} <=> m \in inFlight \union sent \union failed) /\ \A k, l \in K : k = l
  BY <1>4, <1>5 DEF Places, Placed
<1>7. /\ Cardinality(Q) = IF Q = {} THEN 0 ELSE 1
      /\ Cardinality(H) = IF H = {} THEN 0 ELSE 1
      /\ Cardinality(K) = IF K = {} THEN 0 ELSE 1
  <2> HIDE DEF Q, H, K
  <2>1. QED
    BY <1>2, <1>3, <1>6, CountsOne
<1>8. CASE Queued(m)
  BY <1>1, <1>3, <1>6, <1>7, <1>8 DEF Places, Placed
<1>9. CASE ~Queued(m)
  BY <1>1, <1>3, <1>6, <1>7, <1>9 DEF Places, Placed
<1>10. QED
  BY <1>8, <1>9

(* Whichever threads push, pop and send at once, no message is sent twice   *)
(* and none is forgotten (ConnUser.h:194-237).                              *)
THEOREM MessagesOnce == Spec => []EachOnce
<1>1. Spec => [](IInv /\ Places)
  BY InitInv, StepInv, InitPlaces, StepPlaces, PTL DEF Spec
<1>2. QED
  BY <1>1, PlacesEachOnce, PTL
----------------------------------------------------------------------------
(* The threads at a step of the code, and how their number changes when one *)
(* thread goes from one step to another.                                    *)
Number(at, step) == Cardinality({t \in Threads : at[t] = step})

LEMMA NumberFinite ==
  ASSUME NEW at, NEW step
  PROVE  /\ IsFiniteSet({t \in Threads : at[t] = step})
         /\ Number(at, step) \in Nat
<1>1. IsFiniteSet(Threads)
  BY SendAssumption, FS_Union DEF Threads
<1>2. {t \in Threads : at[t] = step} \subseteq Threads
  OBVIOUS
<1>3. QED
  BY <1>1, <1>2, FS_Subset, FS_CardinalityType DEF Number

(* Thread t goes from one step to another. *)
Goes(at, after, t, from, to) ==
  /\ at \in [Threads -> Steps] /\ t \in Threads /\ from # to
  /\ at[t] = from /\ after = [at EXCEPT ![t] = to]

LEMMA NumberMoves ==
  ASSUME NEW at, NEW after, NEW t, NEW from, NEW to, Goes(at, after, t, from, to)
  PROVE  /\ Number(after, to) = Number(at, to) + 1
         /\ Number(after, from) = Number(at, from) - 1
         /\ \A step : step # to /\ step # from => Number(after, step) = Number(at, step)
<1>1. \A u \in Threads : after[u] = IF u = t THEN to ELSE at[u]
  BY DEF Goes
<1>2. Number(after, to) = Number(at, to) + 1
  <2> DEFINE T == {u \in Threads : at[u] = to}
  <2>1. {u \in Threads : after[u] = to} = T \union {t} /\ t \notin T
    BY <1>1 DEF Goes
  <2>2. IsFiniteSet(T)
    BY NumberFinite
  <2>3. QED
    BY <2>1, <2>2, FS_AddElement DEF Number
<1>3. Number(after, from) = Number(at, from) - 1
  <2> DEFINE T == {u \in Threads : at[u] = from}
  <2>1. {u \in Threads : after[u] = from} = T \ {t} /\ t \in T
    BY <1>1 DEF Goes
  <2>2. IsFiniteSet(T)
    BY NumberFinite
  <2>3. QED
    BY <2>1, <2>2, FS_RemoveElement DEF Number
<1>4. ASSUME NEW step, step # to, step # from PROVE Number(after, step) = Number(at, step)
  <2>1. {u \in Threads : after[u] = step} = {u \in Threads : at[u] = step}
    BY <1>1, <1>4 DEF Goes
  <2>2. QED
    BY <2>1 DEF Number
<1>5. QED
  BY <1>2, <1>3, <1>4

(* The arithmetic of the counter, whose width is that of a uint16_t. *)
Exact(counter, uncounted, done, all, uncleared) ==
  (counter + uncounted + done) % CountModulus = (all + uncleared) % CountModulus

LEMMA Arithmetic ==
  ASSUME NEW z \in Nat, NEW c \in Nat, NEW s \in Nat, NEW p \in Nat,
         NEW d \in Nat, Exact(z, c, s, p, d)
  PROVE  /\ Exact(z, c + 1, s, p + 1, d)
         /\ c > 0 => Exact(Incremented(z), c - 1, s, p, d)
         /\ Exact(z, c, s + 1, p, d + 1)
         /\ d > 0 => Exact(Decremented(z), c, s, p, d - 1)
<1>1. Exact(z, c + 1, s, p + 1, d)
  BY SMTT(60) DEF Exact, CountModulus
<1>2. ASSUME c > 0 PROVE Exact(Incremented(z), c - 1, s, p, d)
  BY <1>2, SMTT(60) DEF Exact, CountModulus, Incremented
<1>3. Exact(z, c, s + 1, p, d + 1)
  BY SMTT(60) DEF Exact, CountModulus
<1>4. ASSUME d > 0 PROVE Exact(Decremented(z), c, s, p, d - 1)
  BY <1>4, SMTT(60) DEF Exact, CountModulus, Decremented
<1>5. QED
  BY <1>1, <1>2, <1>3, <1>4

LEMMA MsgsFinite ==
  ASSUME NEW n \in Nat, NEW S, S \subseteq 1 .. n
  PROVE  IsFiniteSet(S) /\ Cardinality(S) \in Nat
<1>1. IsFiniteSet(1 .. n)
  BY FS_Interval
<1>2. QED
  BY <1>1, FS_Subset, FS_CardinalityType

(* The balance of the counter, and every message pushed counted where it is. *)
Balanced(at, counter, queue, all, flying, done, lost) ==
  /\ Exact(counter, Number(at, "count"), Cardinality(done), all, Number(at, "discount"))
  /\ all = Len(queue) + Number(at, "send") + Cardinality(flying) + Cardinality(done)
             + Cardinality(lost)

Counted == Balanced(pc, sendQueueSize, sendQueue, pushed, inFlight, sent, failed)

LEMMA CountedIsExact == Counted => CounterExact
  BY DEF Counted, Balanced, Exact, Number, CounterExact, At

LEMMA InitCounted == Init => Counted
<1> SUFFICES ASSUME Init PROVE Counted
  OBVIOUS
<1>1. ASSUME NEW step \in {"count", "discount", "send"} PROVE Number(pc, step) = 0
  <2>1. {t \in Threads : pc[t] = step} = {}
    BY DEF Init
  <2>2. QED
    BY <2>1, FS_EmptySet DEF Number
<1>2. Number(pc, "count") = 0 /\ Number(pc, "discount") = 0 /\ Number(pc, "send") = 0
  BY <1>1
<1>3. Cardinality({}) = 0
  BY FS_EmptySet
<1>4. Len(sendQueue) = 0 /\ pushed = 0 /\ sendQueueSize = 0 /\ inFlight = {} /\ sent = {} /\ failed = {}
  BY DEF Init
<1>5. QED
  BY <1>2, <1>3, <1>4 DEF Counted, Balanced, Exact

(* The types of what is counted. *)
LEMMA Numbers ==
  ASSUME IInv
  PROVE  /\ pc \in [Threads -> Steps]
         /\ Number(pc, "count") \in Nat /\ Number(pc, "discount") \in Nat
         /\ Number(pc, "send") \in Nat
         /\ IsFiniteSet(inFlight) /\ IsFiniteSet(sent) /\ IsFiniteSet(failed)
         /\ Cardinality(inFlight) \in Nat /\ Cardinality(sent) \in Nat
         /\ Cardinality(failed) \in Nat
         /\ Len(sendQueue) \in Nat /\ pushed \in Nat
         /\ sendQueueSize \in Nat /\ sendQueueSize < CountModulus
<1>1. pushed \in Nat
  BY SendAssumption DEF IInv, TypeOK
<1>2. sent \subseteq 1 .. pushed /\ inFlight \subseteq 1 .. pushed /\ failed \subseteq 1 .. pushed
  BY DEF IInv, TypeOK, Msgs
<1>3. /\ pc \in [Threads -> Steps] /\ Len(sendQueue) \in Nat
      /\ sendQueueSize \in Nat /\ sendQueueSize < CountModulus
  BY Modulus DEF IInv, TypeOK, Steps
<1>4. /\ IsFiniteSet(inFlight) /\ Cardinality(inFlight) \in Nat
      /\ IsFiniteSet(sent) /\ Cardinality(sent) \in Nat
      /\ IsFiniteSet(failed) /\ Cardinality(failed) \in Nat
  <2>1. ASSUME NEW S, S \subseteq 1 .. pushed PROVE IsFiniteSet(S) /\ Cardinality(S) \in Nat
    BY <1>1, <2>1, MsgsFinite
  <2>2. QED
    BY <1>2, <2>1
<1>5. ASSUME NEW step PROVE Number(pc, step) \in Nat
  BY NumberFinite
<1>6. QED
  BY <1>1, <1>3, <1>4, <1>5

LEMMA NumberNat == \A at, step : Number(at, step) \in Nat
  BY NumberFinite

LEMMA StepCounted == IInv /\ Places /\ Counted /\ [Next]_vars => Counted'
<1> SUFFICES ASSUME IInv, Places, Counted, [Next]_vars
             PROVE  Balanced(pc', sendQueueSize', sendQueue', pushed', inFlight', sent', failed')
  BY DEF Counted, Balanced, Exact, Number
<1>t. /\ pc \in [Threads -> Steps] /\ pushed \in Nat /\ sendQueueSize \in Nat
      /\ IsFiniteSet(inFlight) /\ IsFiniteSet(sent) /\ IsFiniteSet(failed)
  BY Numbers
<1>m. /\ Cardinality(inFlight) \in Nat /\ Cardinality(sent) \in Nat /\ Cardinality(failed) \in Nat
      /\ Len(sendQueue) \in Nat /\ Number(pc, "send") \in Nat
  BY Numbers
<1>n. Number(pc, "count") \in Nat /\ Number(pc, "discount") \in Nat /\ Cardinality(sent) \in Nat
  BY Numbers
<1>0. Exact(sendQueueSize, Number(pc, "count"), Cardinality(sent), pushed, Number(pc, "discount"))
  BY DEF Counted, Balanced
<1>s. pushed = Len(sendQueue) + Number(pc, "send") + Cardinality(inFlight) + Cardinality(sent)
               + Cardinality(failed)
  BY DEF Counted, Balanced
<1>1. ASSUME NEW t \in Threads, Push(t)
      PROVE  Balanced(pc', sendQueueSize', sendQueue', pushed', inFlight', sent', failed')
  <2>1. Goes(pc, pc', t, "idle", "count")
    BY <1>t, <1>1 DEF Push, Goto, Goes
  <2>2. /\ Number(pc', "count") = Number(pc, "count") + 1
        /\ Number(pc', "discount") = Number(pc, "discount")
        /\ Number(pc', "send") = Number(pc, "send")
    BY <2>1, NumberMoves
  <2>3. /\ pushed' = pushed + 1 /\ Len(sendQueue') = Len(sendQueue) + 1
        /\ sendQueueSize' = sendQueueSize /\ inFlight' = inFlight /\ sent' = sent /\ failed' = failed
    BY <1>1 DEF Push, IInv, TypeOK
  <2>4. Exact(sendQueueSize, Number(pc, "count") + 1, Cardinality(sent), pushed + 1,
              Number(pc, "discount"))
    BY <1>t, <1>n, <1>0, Arithmetic
  <2>5. pushed' = Len(sendQueue') + Number(pc', "send") + Cardinality(inFlight')
                     + Cardinality(sent') + Cardinality(failed')
    BY <1>m, <1>s, <2>2, <2>3, SMTT(60)
  <2>6. QED
    BY <2>2, <2>3, <2>4, <2>5 DEF Balanced
<1>2. ASSUME NEW t \in Threads, Count(t)
      PROVE  Balanced(pc', sendQueueSize', sendQueue', pushed', inFlight', sent', failed')
  <2>1. Goes(pc, pc', t, "count", "test")
    BY <1>t, <1>2 DEF Count, Goto, Goes
  <2>2. /\ Number(pc', "count") = Number(pc, "count") - 1
        /\ Number(pc', "discount") = Number(pc, "discount")
        /\ Number(pc', "send") = Number(pc, "send")
    BY <2>1, NumberMoves
  <2>3. Number(pc, "count") > 0
    BY <1>n, <2>2, NumberNat
  <2>4. Exact(Incremented(sendQueueSize), Number(pc, "count") - 1, Cardinality(sent), pushed,
              Number(pc, "discount"))
    BY <1>t, <1>n, <1>0, <2>3, Arithmetic
  <2>5. /\ sendQueueSize' = Incremented(sendQueueSize)
        /\ UNCHANGED <<pushed, sendQueue, inFlight, sent, failed>>
    BY <1>2 DEF Count
  <2>6. pushed' = Len(sendQueue') + Number(pc', "send") + Cardinality(inFlight')
                     + Cardinality(sent') + Cardinality(failed')
    BY <1>s, <2>2, <2>5
  <2>7. QED
    BY <2>2, <2>4, <2>5, <2>6 DEF Balanced
<1>3. ASSUME NEW t \in Threads, Complete(t)
      PROVE  Balanced(pc', sendQueueSize', sendQueue', pushed', inFlight', sent', failed')
  <2>1. Goes(pc, pc', t, "idle", "discount")
    BY <1>t, <1>3 DEF Complete, Goto, Goes
  <2>2. /\ Number(pc', "count") = Number(pc, "count")
        /\ Number(pc', "discount") = Number(pc, "discount") + 1
        /\ Number(pc', "send") = Number(pc, "send")
    BY <2>1, NumberMoves
  <2>3. PICK m \in inFlight : inFlight' = inFlight \ {m} /\ sent' = sent \union {m}
    BY <1>3 DEF Complete
  <2>4. m \notin sent
    BY DEF Places, Placed, IInv, TypeOK
  <2>5. Cardinality(inFlight') = Cardinality(inFlight) - 1 /\ Cardinality(sent') = Cardinality(sent) + 1
    BY <2>3, <2>4, <1>t, <1>n, FS_AddElement, FS_RemoveElement
  <2>6. Exact(sendQueueSize, Number(pc, "count"), Cardinality(sent) + 1, pushed,
              Number(pc, "discount") + 1)
    BY <1>t, <1>n, <1>0, Arithmetic
  <2>7. UNCHANGED <<pushed, sendQueue, sendQueueSize, failed>>
    BY <1>3 DEF Complete
  <2>8. pushed' = Len(sendQueue') + Number(pc', "send") + Cardinality(inFlight')
                     + Cardinality(sent') + Cardinality(failed')
    BY <1>m, <1>s, <2>2, <2>5, <2>7, SMTT(60)
  <2>9. QED
    BY <2>2, <2>5, <2>6, <2>7, <2>8 DEF Balanced
<1>4. ASSUME NEW t \in Threads, Discount(t)
      PROVE  Balanced(pc', sendQueueSize', sendQueue', pushed', inFlight', sent', failed')
  <2>1. Goes(pc, pc', t, "discount", "test")
    BY <1>t, <1>4 DEF Discount, Goto, Goes
  <2>2. /\ Number(pc', "count") = Number(pc, "count")
        /\ Number(pc', "discount") = Number(pc, "discount") - 1
        /\ Number(pc', "send") = Number(pc, "send")
    BY <2>1, NumberMoves
  <2>3. Number(pc, "discount") > 0
    BY <1>n, <2>2, NumberNat
  <2>4. Exact(Decremented(sendQueueSize), Number(pc, "count"), Cardinality(sent), pushed,
              Number(pc, "discount") - 1)
    BY <1>t, <1>n, <1>0, <2>3, Arithmetic
  <2>5. /\ sendQueueSize' = Decremented(sendQueueSize)
        /\ UNCHANGED <<pushed, sendQueue, inFlight, sent, failed>>
    BY <1>4 DEF Discount
  <2>6. pushed' = Len(sendQueue') + Number(pc', "send") + Cardinality(inFlight')
                     + Cardinality(sent') + Cardinality(failed')
    BY <1>s, <2>2, <2>5
  <2>7. QED
    BY <2>2, <2>4, <2>5, <2>6 DEF Balanced
<1>5. ASSUME NEW t \in Threads, Test(t)
      PROVE  Balanced(pc', sendQueueSize', sendQueue', pushed', inFlight', sent', failed')
  <2>1. Goes(pc, pc', t, "test", "pop") \/ Goes(pc, pc', t, "test", "idle")
    BY <1>t, <1>5 DEF Test, Goto, Goes
  <2>2. /\ Number(pc', "count") = Number(pc, "count")
        /\ Number(pc', "discount") = Number(pc, "discount")
        /\ Number(pc', "send") = Number(pc, "send")
    BY <2>1, NumberMoves
  <2>3. QED
    BY <1>0, <1>s, <1>5, <2>2 DEF Balanced, Test
<1>6. ASSUME NEW t \in Threads, Pop(t)
      PROVE  Balanced(pc', sendQueueSize', sendQueue', pushed', inFlight', sent', failed')
  <2>1. UNCHANGED <<pushed, sendQueueSize, inFlight, sent, failed>> /\ pc[t] = "pop"
    BY <1>6 DEF Pop
  <2>2. CASE Goes(pc, pc', t, "pop", "idle") /\ UNCHANGED sendQueue
    <3>1. /\ Number(pc', "count") = Number(pc, "count")
          /\ Number(pc', "discount") = Number(pc, "discount")
          /\ Number(pc', "send") = Number(pc, "send")
      BY <2>2, NumberMoves
    <3>2. QED
      BY <1>0, <1>s, <2>1, <2>2, <3>1 DEF Balanced
  <2>3. CASE /\ Goes(pc, pc', t, "pop", "send")
             /\ sendQueue # <<>> /\ sendQueue' = Tail(sendQueue)
    <3>1. /\ Number(pc', "count") = Number(pc, "count")
          /\ Number(pc', "discount") = Number(pc, "discount")
          /\ Number(pc', "send") = Number(pc, "send") + 1
      BY <2>3, NumberMoves
    <3>2. Len(sendQueue') = Len(sendQueue) - 1
      BY <2>3 DEF IInv, TypeOK
    <3>3. pushed' = Len(sendQueue') + Number(pc', "send") + Cardinality(inFlight')
                       + Cardinality(sent') + Cardinality(failed')
      BY <1>m, <1>s, <2>1, <3>1, <3>2, SMTT(60)
    <3>4. QED
      BY <1>0, <2>1, <3>1, <3>3 DEF Balanced
  <2>4. QED
    BY <1>t, <1>6, <2>2, <2>3 DEF Pop, Popped, Goto, Goes
<1>7. ASSUME NEW t \in Threads, Send(t)
      PROVE  Balanced(pc', sendQueueSize', sendQueue', pushed', inFlight', sent', failed')
  <2>1. /\ Goes(pc, pc', t, "send", "idle")
        /\ UNCHANGED <<pushed, sendQueue, sendQueueSize, sent>>
    BY <1>t, <1>7 DEF Send, Goto, Goes
  <2>2. /\ Number(pc', "count") = Number(pc, "count")
        /\ Number(pc', "discount") = Number(pc, "discount")
        /\ Number(pc', "send") = Number(pc, "send") - 1
    BY <2>1, NumberMoves
  <2>3. held[t] \notin inFlight \union failed
    BY <2>1 DEF Goes, Places, Placed, InHand, IInv, TypeOK, Holding, Msgs
  <2>4. CASE inFlight' = inFlight \union {held[t]} /\ UNCHANGED failed
    <3>1. Cardinality(inFlight') = Cardinality(inFlight) + 1
      BY <2>3, <1>t, <1>n, <2>4, FS_AddElement
    <3>2. Cardinality(failed') = Cardinality(failed)
      BY <2>4
    <3>3. pushed' = Len(sendQueue') + Number(pc', "send") + Cardinality(inFlight')
                      + Cardinality(sent') + Cardinality(failed')
      <4>1. pushed' = pushed /\ Len(sendQueue') = Len(sendQueue) /\ Cardinality(sent') = Cardinality(sent)
        BY <2>1
      <4>2. QED
        <5>1. Number(pc', "send") \in Int /\ Number(pc', "send") = Number(pc, "send") - 1
          BY <1>m, <2>2
        <5>2. QED
          BY <1>m, <1>s, <3>1, <3>2, <4>1, <5>1, SMTT(60)
    <3>4. QED
      BY <1>0, <2>1, <2>2, <3>3 DEF Balanced
  <2>5. CASE failed' = failed \union {held[t]} /\ UNCHANGED inFlight
    <3>1. Cardinality(failed') = Cardinality(failed) + 1
      BY <2>3, <1>t, <1>n, <2>5, FS_AddElement
    <3>2. Cardinality(inFlight') = Cardinality(inFlight)
      BY <2>5
    <3>3. pushed' = Len(sendQueue') + Number(pc', "send") + Cardinality(inFlight')
                      + Cardinality(sent') + Cardinality(failed')
      <4>1. pushed' = pushed /\ Len(sendQueue') = Len(sendQueue) /\ Cardinality(sent') = Cardinality(sent)
        BY <2>1
      <4>2. QED
        <5>1. Number(pc', "send") \in Int /\ Number(pc', "send") = Number(pc, "send") - 1
          BY <1>m, <2>2
        <5>2. QED
          BY <1>m, <1>s, <3>1, <3>2, <4>1, <5>1, SMTT(60)
    <3>4. QED
      BY <1>0, <2>1, <2>2, <3>3 DEF Balanced
  <2>6. QED
    BY <1>7, <2>4, <2>5 DEF Send
<1>10. ASSUME NEW t \in Threads, Fail(t)
       PROVE  Balanced(pc', sendQueueSize', sendQueue', pushed', inFlight', sent', failed')
  <2>1. UNCHANGED <<pc, pushed, sendQueue, sendQueueSize, sent>>
    BY <1>10 DEF Fail
  <2>2. PICK m \in inFlight : inFlight' = inFlight \ {m} /\ failed' = failed \union {m}
    BY <1>10 DEF Fail
  <2>3. m \notin failed
    BY DEF Places, Placed, IInv, TypeOK
  <2>4. /\ Cardinality(inFlight') = Cardinality(inFlight) - 1
        /\ Cardinality(failed') = Cardinality(failed) + 1
    BY <2>2, <2>3, <1>t, <1>m, FS_AddElement, FS_RemoveElement
  <2>5. pushed' = Len(sendQueue') + Number(pc', "send") + Cardinality(inFlight')
                     + Cardinality(sent') + Cardinality(failed')
    BY <1>m, <1>s, <2>1, <2>4, SMTT(60)
  <2>6. QED
    BY <1>0, <2>1, <2>5 DEF Balanced
<1>8. CASE UNCHANGED vars
  BY <1>0, <1>s, <1>8 DEF vars, Balanced
<1>9. QED
  BY <1>1, <1>2, <1>3, <1>4, <1>5, <1>6, <1>7, <1>8, <1>10 DEF Next, Dequeue, Running

(* sendQueueSize is exactly, modulo 2^16, what was pushed and counted and   *)
(* not yet discounted (ConnUser.h:207, 214).                                *)
THEOREM CounterIsExact == Spec => []CounterExact
<1>1. Spec => [](IInv /\ Places /\ Counted)
  BY InitInv, StepInv, InitPlaces, StepPlaces, InitCounted, StepCounted, PTL DEF Spec
<1>2. QED
  BY <1>1, CountedIsExact, PTL

(* While the counter is one and a message waits, somebody is on the way to  *)
(* look at it, unless a send was refused or failed.                        *)
Watched ==
  sendQueueSize = 1 /\ sendQueue # <<>> /\ failed = {} => ~Quiet \/ inFlight # {}

LEMMA StepWatched == IInv /\ Watched /\ [Next]_vars => Watched'
<1> SUFFICES ASSUME IInv, Watched, [Next]_vars, sendQueueSize' = 1, sendQueue' # <<>>,
                    failed' = {}, Quiet', inFlight' = {}
             PROVE  FALSE
  BY DEF Watched
<1>t. pc \in [Threads -> Steps]
  BY Numbers
<1>q. \A t \in Threads : pc'[t] = "idle"
  BY DEF Quiet
<1>1. ASSUME NEW t \in Threads, Push(t) \/ Complete(t) \/ Count(t) \/ Discount(t) PROVE FALSE
  <2>1. pc'[t] \in {"count", "discount", "test"}
    BY <1>1, <1>t DEF Push, Complete, Count, Discount, Goto
  <2>2. QED
    BY <1>q, <2>1
<1>2. ASSUME NEW t \in Threads, Test(t) PROVE FALSE
  <2>1. sendQueueSize = 1
    BY <1>2 DEF Test
  <2>2. pc'[t] = "pop"
    BY <1>2, <1>t, <2>1 DEF Test, SendsNext, Goto
  <2>3. QED
    BY <1>q, <2>2
<1>3. ASSUME NEW t \in Threads, Pop(t) PROVE FALSE
  <2>1. CASE sendQueue = <<>> /\ UNCHANGED sendQueue
    BY <2>1
  <2>2. CASE Goto(t, "send")
    BY <1>q, <1>t, <2>2 DEF Goto
  <2>3. QED
    BY <1>3, <2>1, <2>2 DEF Pop
<1>4. ASSUME NEW t \in Threads, Send(t) PROVE FALSE
  BY <1>4 DEF Send
<1>7. ASSUME NEW t \in Threads, Fail(t) PROVE FALSE
  BY <1>7 DEF Fail
<1>5. CASE UNCHANGED vars
  BY <1>5, <1>q DEF vars, Watched, Quiet
<1>6. QED
  BY <1>1, <1>2, <1>3, <1>4, <1>5, <1>7 DEF Next, Dequeue, Running

LEMMA Division ==
  ASSUME NEW n \in Nat
  PROVE  /\ n % CountModulus \in Nat
         /\ \E q \in Int : n = CountModulus * q + (n % CountModulus)
<1>1. n = CountModulus * (n \div CountModulus) + (n % CountModulus)
  BY SMTT(30) DEF CountModulus
<1>2. n \div CountModulus \in Int /\ n % CountModulus \in Nat
  BY SMTT(30) DEF CountModulus
<1>3. QED
  BY <1>1, <1>2

LEMMA Residue ==
  ASSUME NEW z \in Nat, z < CountModulus, NEW s \in Nat, Exact(z, 0, s, 1 + s, 0)
  PROVE  z = 1
<1>1. PICK m \in Nat : m = z + 0 + s
  OBVIOUS
<1>2. PICK n \in Nat : n = 1 + s + 0
  OBVIOUS
<1>3. PICK r \in Nat : r = m % CountModulus /\ r = n % CountModulus
  BY <1>1, <1>2, Division DEF Exact
<1>4. PICK a \in Int : m = CountModulus * a + r
  BY <1>3, Division
<1>5. PICK b \in Int : n = CountModulus * b + r
  BY <1>3, Division
<1>6. m - n = z - 1
  BY <1>1, <1>2
<1>7. m - n = CountModulus * (a - b)
  BY <1>4, <1>5, SMTT(30) DEF CountModulus
<1>8. a - b = 0
  BY <1>6, <1>7, SMTT(30) DEF CountModulus
<1>9. QED
  BY <1>6, <1>7, <1>8, SMTT(30) DEF CountModulus

(* At rest, with nothing in the kernel and nothing failed, the counter is  *)
(* the length of the queue, modulo its width.                               *)
LEMMA AtRest ==
  ASSUME IInv, Counted, Quiet, inFlight = {}, failed = {}, Len(sendQueue) = 1
  PROVE  sendQueueSize = 1
<1>1. ASSUME NEW step \in {"count", "discount", "send"} PROVE Number(pc, step) = 0
  <2>1. {t \in Threads : pc[t] = step} = {}
    BY DEF Quiet
  <2>2. QED
    BY <2>1, FS_EmptySet DEF Number
<1>2. Number(pc, "count") = 0 /\ Number(pc, "discount") = 0 /\ Number(pc, "send") = 0
  BY <1>1
<1>3. Cardinality(inFlight) = 0 /\ Cardinality(failed) = 0
  BY FS_EmptySet
<1>4. PICK s \in Nat : s = Cardinality(sent)
  BY Numbers
<1>5. pushed = 1 + s /\ Exact(sendQueueSize, 0, s, pushed, 0)
  BY <1>2, <1>3, <1>4 DEF Counted, Balanced
<1>6. sendQueueSize \in Nat /\ sendQueueSize < CountModulus
  BY Numbers
<1>7. QED
  BY <1>4, <1>5, <1>6, Residue

(* While no send is refused or fails, a message alone in the queue is never *)
(* left behind (ConnUser.h:204-237): at rest the counter is the number of   *)
(* messages in the queue, and whoever brought it to one looks at it         *)
(* afterwards.                                                              *)
THEOREM LoneMessageIsSeen == Spec => []LoneMessageNeverStuck
<1>1. Init => Watched
  BY DEF Init, Watched
<1>2. Spec => [](IInv /\ Counted /\ Watched)
  BY <1>1, InitInv, StepInv, InitPlaces, StepPlaces, InitCounted, StepCounted, StepWatched, PTL
     DEF Spec
<1>3. IInv /\ Counted /\ Watched => LoneMessageNeverStuck
  <2> SUFFICES ASSUME IInv, Counted, Watched, Quiet, inFlight = {}, failed = {},
                      Len(sendQueue) = 1
               PROVE  FALSE
    BY DEF LoneMessageNeverStuck
  <2>1. sendQueueSize = 1
    BY AtRest
  <2>2. sendQueue # <<>>
    OBVIOUS
  <2>3. QED
    BY <2>1, <2>2 DEF Watched
<1>4. QED
  BY <1>2, <1>3, PTL
=============================================================================
