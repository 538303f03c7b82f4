-------------------------- MODULE CircularBuffer ---------------------------
(***************************************************************************)
(* CircularBuffer.cpp: a ring of bufferSize bytes between the threads that *)
(* receive packets and those that process them.  Write and Read hold       *)
(* bufferMutex from their first line to their last, so each call is one    *)
(* action.  A call that crosses the end of the ring copies in two pieces.  *)
(***************************************************************************)
EXTENDS Naturals, Sequences

CONSTANTS
  Byte,        (* the values of a byte                            *)
  bufferSize,  (* size of the ring, MAX_CIRCLE_SIZE in the server *)
  MaxSize      (* largest size_ of a call (bound)                 *)

ASSUME BufferAssumption ==
  /\ bufferSize \in Nat \ {0}
  /\ MaxSize \in Nat
  /\ Byte # {}

VARIABLES
  buffer,       (* the bytes of the ring, by index from 0                *)
  writePos,
  readPos,
  currentSize,
  last          (* the last call: what it was given and what it returned *)

vars == <<buffer, writePos, readPos, currentSize, last>>

Index == 0 .. bufferSize - 1

Fifo == INSTANCE BoundedFifo WITH
          Capacity <- bufferSize,
          content <- [j \in 1 .. currentSize |-> buffer[(readPos + j - 1) % bufferSize]]

(* The constructor does not initialise the ring. *)
Init ==
  /\ buffer \in [Index -> Byte]
  /\ writePos = 0
  /\ readPos = 0
  /\ currentSize = 0
  /\ last = Fifo!Wrote(<<>>, TRUE)

AdvancedPastEnd(pos, n) ==                                      (* mutant *)
  IF pos + n > bufferSize THEN pos + n - bufferSize ELSE pos + n
AdvancedWrong(pos, n) == IF n = 0 THEN pos ELSE (pos + n - 1) % bufferSize   (* mutant *)
Advanced(pos, n) == (pos + n) % bufferSize

(* The two memcpy of Write: up to the end of the ring, then from its start. *)
CopiedInOnePiece(data) ==                                       (* mutant *)
  [i \in Index |->
     IF i >= writePos /\ i < writePos + Len(data) THEN data[i - writePos + 1] ELSE buffer[i]]
CopiedIn(data) ==
  LET endSpace == bufferSize - writePos
  IN  [i \in Index |->
         IF i >= writePos /\ i < writePos + Len(data) THEN data[i - writePos + 1]
         ELSE IF i + endSpace < Len(data) THEN data[i + endSpace + 1]
         ELSE buffer[i]]

Write(data) ==
  \/ /\ bufferSize - currentSize < Len(data)
     /\ last' = Fifo!Wrote(data, FALSE)
     /\ UNCHANGED <<buffer, writePos, readPos, currentSize>>
  \/ /\ bufferSize - currentSize >= Len(data)
     /\ buffer' = CopiedIn(data)
     /\ writePos' = Advanced(writePos, Len(data))
     /\ currentSize' = currentSize + Len(data)
     /\ last' = Fifo!Wrote(data, TRUE)
     /\ UNCHANGED readPos

(* The two memcpy of Read. *)
CopiedOut(n) ==
  LET endSpace == bufferSize - readPos
  IN  [j \in 1 .. n |-> IF j <= endSpace THEN buffer[readPos + j - 1] ELSE buffer[j - endSpace - 1]]

Read(n) ==
  \/ /\ currentSize < n
     /\ last' = Fifo!ReadOf(n, <<>>, FALSE)
     /\ UNCHANGED <<buffer, writePos, readPos, currentSize>>
  \/ /\ currentSize >= n
     /\ last' = Fifo!ReadOf(n, CopiedOut(n), TRUE)
     /\ readPos' = Advanced(readPos, n)
     /\ currentSize' = currentSize - n
     /\ UNCHANGED <<buffer, writePos>>

Next ==
  \/ \E data \in Fifo!Packet : Write(data)
  \/ \E n \in 0 .. MaxSize : Read(n)

Spec == Init /\ [][Next]_vars

----------------------------------------------------------------------------
TypeOK ==
  /\ buffer \in [Index -> Byte]
  /\ writePos \in Index
  /\ readPos \in Index
  /\ currentSize \in 0 .. bufferSize
  /\ last \in [op : {"Write", "Read"}, bytes : Fifo!Packet, size : 0 .. MaxSize, ok : BOOLEAN]

(* The three counters that Write and Read update separately stay in step:   *)
(* the write position is the read position plus the bytes held.             *)
PositionsAgree == writePos = (readPos + currentSize) % bufferSize

(* Every sequence of writes and reads, whole or across the end of the ring, *)
(* gives the replies a bounded queue of bytes gives: no byte lost, repeated *)
(* or overwritten before it is read (CircularBuffer.cpp:4-50).              *)
ImplementsFifo == Fifo!Spec
============================================================================
