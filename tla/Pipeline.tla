----------------------------- MODULE Pipeline ------------------------------
(***************************************************************************)
(* The way of a packet from a worker thread to its handler                 *)
(* (RedisManager.cpp, PushRedisPacket and RedisThread; ConnUser.h,         *)
(* WriteRecvData and ReadRecvData).  PushRedisPacket writes the bytes into *)
(* the connection's ring and then queues a descriptor with their number; a *)
(* redis thread pops a descriptor, takes that many bytes out of the ring   *)
(* into the connection's readData, and calls the handler the header names. *)
(*                                                                         *)
(* One connection: connections share procSktQueue and the redis threads,   *)
(* and neither carries anything from one to the other.  The ring is used   *)
(* through what it promises (BoundedFifo, which CircularBuffer            *)
(* implements).  PushRedisPacket has no caller yet; any worker may call it *)
(* with any packet.  A byte is written as <<packet it belongs to, place>>. *)
(***************************************************************************)
EXTENDS Naturals, Sequences, FiniteSets, SequencesExt

CONSTANTS
  Workers,       (* threads that call PushRedisPacket                     *)
  RedisThreads,
  Packets,       (* the packets a client may send                         *)
  Registered,    (* those whose PacketId has an entry in packetIDTable    *)
  Size,          (* the length of each packet, header included            *)
  MAX_RECV_SIZE, (* the length of readData; no receive is longer          *)
  bufferSize,    (* CircularBuffer::bufferSize                            *)
  MaxPending,    (* packets that are on their way at the same time (bound)*)
  None           (* no packet; also what a garbled one is handled as      *)

ASSUME PipelineAssumption ==
  /\ Registered \subseteq Packets /\ None \notin Packets
  /\ MAX_RECV_SIZE \in Nat /\ Size \in [Packets -> 1 .. MAX_RECV_SIZE]
  /\ bufferSize \in Nat
  /\ Workers \intersect RedisThreads = {}

VARIABLES
  ring,          (* circularBuffer: the bytes in it                       *)
  ringCall,      (* the last call of the ring and its result              *)
  procSktQueue,  (* descriptors; one is written as the packet it is for,  *)
                 (* but only its size is used                             *)
  readData,      (* ConnUser::readData, shared by all redis threads       *)
  pc,            (* where each thread is                                  *)
  packet,        (* the packet each thread was called for, or None        *)
  handled,       (* what the last handler found behind pData              *)
  alive,         (* FALSE once a thread called through a null pointer     *)
  dropped,       (* history: a Write was refused                          *)
  raced          (* history: two workers, or two redis threads, were      *)
                 (* inside at once: {"push", "read"}                      *)

vars == <<ring, ringCall, procSktQueue, readData, pc, packet, handled, alive, dropped, raced>>

Zero  == <<None, 0>>
Bytes == {<<p, i>> : p \in Packets, i \in 1 .. MAX_RECV_SIZE}

Ring == INSTANCE BoundedFifo WITH
          Byte <- Bytes, Capacity <- bufferSize, MaxSize <- MAX_RECV_SIZE,
          content <- ring, last <- ringCall

BytesAndOneMore(p) == [i \in 1 .. Size[p] + 1 |-> <<p, i>>]      (* mutant *)
BytesOf(p) == [i \in 1 .. Size[p] |-> <<p, i>>]

Threads == Workers \union RedisThreads

Init ==
  /\ Ring!Init
  /\ procSktQueue = <<>>
  /\ readData = [i \in 1 .. MAX_RECV_SIZE |-> Zero]
  /\ pc = [t \in Threads |-> "idle"]
  /\ packet = [t \in Threads |-> None]
  /\ handled = None
  /\ alive = TRUE
  /\ dropped = FALSE
  /\ raced = {}

At(step, threads) == {t \in threads : pc[t] = step}
Busy(threads)     == {t \in threads : pc[t] # "idle"}

Goto(t, step)     == pc' = [pc EXCEPT ![t] = step]
Return(t)         == Goto(t, "idle") /\ packet' = [packet EXCEPT ![t] = None]

(* A thread that enters while another one of its kind is inside. *)
Entering(threads, kind) ==
  raced' = IF Busy(threads) = {} THEN raced ELSE raced \union {kind}

----------------------------------------------------------------------------
(* PushRedisPacket: the result of WriteRecvData is ignored. *)
Write(w, p) ==
  /\ pc[w] = "idle"
  /\ Len(procSktQueue) + Cardinality(Busy(Threads)) < MaxPending
  /\ Ring!Write(BytesOf(p))
  /\ dropped' = (dropped \/ ~ringCall'.ok)
  /\ packet' = [packet EXCEPT ![w] = p]
  /\ Goto(w, "queue")
  /\ Entering(Workers, "push")
  /\ UNCHANGED <<procSktQueue, readData, handled, alive>>

QueuedInFront(queue, p) == <<p>> \o queue                       (* mutant *)
Queued(queue, p) == Append(queue, p)

Queue(w) ==
  /\ pc[w] = "queue"
  /\ procSktQueue' = Queued(procSktQueue, packet[w])
  /\ Return(w)
  /\ UNCHANGED <<ring, ringCall, readData, handled, alive, dropped, raced>>

----------------------------------------------------------------------------
(* RedisThread. *)
Pop(t) ==
  /\ pc[t] = "idle" /\ procSktQueue # <<>>
  /\ packet' = [packet EXCEPT ![t] = Head(procSktQueue)]
  /\ procSktQueue' = Tail(procSktQueue)
  /\ Goto(t, "clear")
  /\ Entering(RedisThreads, "read")
  /\ UNCHANGED <<ring, ringCall, readData, handled, alive, dropped>>

(* How many bytes a redis thread takes. *)
WholeBuffer(p) == MAX_RECV_SIZE                                 (* mutant *)
Asked(p) == Size[p]

Into(old, bytes) == [i \in 1 .. MAX_RECV_SIZE |-> IF i <= Len(bytes) THEN bytes[i] ELSE old[i]]

(* CopyMemory of as many zeros. *)
Clear(t) ==
  /\ pc[t] = "clear"
  /\ readData' = Into(readData, [i \in 1 .. Asked(packet[t]) |-> Zero])
  /\ Goto(t, "read")
  /\ UNCHANGED <<ring, ringCall, procSktQueue, packet, handled, alive, dropped, raced>>

(* When there are too few bytes ReadRecvData ends without a value, and its  *)
(* caller goes on with whatever PacketInfo is on the stack.                 *)
Read(t) ==
  /\ pc[t] = "read"
  /\ Ring!Read(Asked(packet[t]))
  /\ \/ /\ ringCall'.ok
        /\ readData' = Into(readData, ringCall'.bytes)
        /\ Goto(t, "dispatch")
     \/ /\ ~ringCall'.ok
        /\ UNCHANGED readData
        /\ Goto(t, "undefined")
  /\ UNCHANGED <<procSktQueue, packet, handled, alive, dropped, raced>>

(* Whether packetIDTable has a handler for the id in the header: a header   *)
(* has the id of its packet, zeros have none, and a byte out of the middle  *)
(* of a packet may be any id.                                               *)
HasHandler(header) ==
  IF header = Zero THEN {FALSE}
  ELSE IF header[2] = 1 THEN {found \in BOOLEAN : found <=> header[1] \in Registered}
  ELSE BOOLEAN

Dispatch(t) ==
  /\ \E found \in IF pc[t] = "undefined" THEN BOOLEAN ELSE HasHandler(readData[1]) :
       \/ /\ found
          /\ Goto(t, "handle")
          /\ UNCHANGED alive
       \/ /\ ~found
          /\ alive' = FALSE
          /\ UNCHANGED pc
  /\ pc[t] \in {"dispatch", "undefined"}
  /\ UNCHANGED <<ring, ringCall, procSktQueue, readData, packet, handled, dropped, raced>>

(* The packet the handler finds behind pData, which is readData. *)
Found(data) ==
  IF \E p \in Packets : SubSeq(data, 1, Size[p]) = BytesOf(p)
  THEN CHOOSE p \in Packets : SubSeq(data, 1, Size[p]) = BytesOf(p)
  ELSE None

Handle(t) ==
  /\ pc[t] = "handle"
  /\ handled' = Found(readData)
  /\ Return(t)
  /\ UNCHANGED <<ring, ringCall, procSktQueue, readData, alive, dropped, raced>>

RedisThread(t) == Pop(t) \/ Clear(t) \/ Read(t) \/ Dispatch(t) \/ Handle(t)

Next ==
  /\ alive
  /\ \/ \E w \in Workers : Queue(w) \/ \E p \in Packets : Write(w, p)
     \/ \E t \in RedisThreads : RedisThread(t)

Spec == Init /\ [][Next]_vars

----------------------------------------------------------------------------
TypeOK ==
  /\ ring \in Seq(Bytes) /\ Len(ring) <= bufferSize
  /\ procSktQueue \in Seq(Packets)
  /\ readData \in [1 .. MAX_RECV_SIZE -> Bytes \union {Zero}]
  /\ pc \in [Threads -> {"idle", "queue", "clear", "read", "dispatch", "undefined", "handle"}]
  /\ packet \in [Threads -> Packets \union {None}]
  /\ handled \in Packets \union {None}
  /\ alive \in BOOLEAN /\ dropped \in BOOLEAN
  /\ raced \subseteq {"push", "read"}

(* Packets whose bytes were written and not read yet. *)
UnreadBy == At("queue", Workers) \union At("clear", RedisThreads) \union At("read", RedisThreads)

(* The packets of a queue have n bytes together: ends[k] are those up to    *)
(* the k-th.                                                                *)
SumsTo(queue, n) ==
  \E ends \in [0 .. Len(queue) -> 0 .. n] :
    /\ ends[0] = 0 /\ ends[Len(queue)] = n
    /\ \A k \in DOMAIN queue : ends[k] = ends[k - 1] + Size[queue[k]]

(* While nothing was dropped, the bytes in the ring are exactly as many as  *)
(* the descriptors queued or in hand ask for, whichever threads overtake    *)
(* each other between the ring and the queue: no read ever falls short.     *)
EnoughBytes ==
  ~dropped =>
    \E n \in 0 .. Len(ring), hands \in SetToSeqs(UnreadBy) :
      /\ SumsTo(procSktQueue, n)
      /\ SumsTo([k \in DOMAIN hands |-> packet[hands[k]]], Len(ring) - n)

(* The packet in hand of the one thread of a kind that is inside.           *)
InHand(threads) ==
  IF Busy(threads) = {} THEN <<>> ELSE <<packet[CHOOSE t \in Busy(threads) : TRUE]>>

Abstract == INSTANCE PacketQueue WITH
  waiting <- InHand(RedisThreads) \o procSktQueue \o InHand(Workers)

(* What is pushed is what is handled: in order, once, and whole; and the    *)
(* process dies only of a packet nobody registered a handler for.  This     *)
(* holds up to the first Write that is refused and the first time that two  *)
(* workers, or two redis threads, are inside together: from then on a       *)
(* packet may be cut in the wrong place, or read over another one.          *)
ImplementsPacketQueue ==
  /\ Abstract!Init
  /\ [][~dropped' /\ raced' = {} => [Abstract!Next]_(Abstract!queueVars)]_vars
============================================================================
