---------------------------- MODULE BoundedFifo ----------------------------
(***************************************************************************)
(* What CircularBuffer promises its callers: a queue of at most Capacity   *)
(* bytes.  Write takes all of a packet or nothing, Read gives exactly the  *)
(* bytes asked for, oldest first, or nothing.                              *)
(***************************************************************************)
EXTENDS Naturals, Sequences

CONSTANTS
  Byte,      (* the values of a byte       *)
  Capacity,  (* CircularBuffer::bufferSize *)
  MaxSize    (* largest size_ of a call    *)

VARIABLES
  content,   (* the bytes written and not read yet                    *)
  last       (* the last call: what it was given and what it returned *)

fifoVars == <<content, last>>

(* A packet handed to Write. *)
Packet == UNION {[1 .. n -> Byte] : n \in 0 .. MaxSize}

Wrote(data, ok)     == [op |-> "Write", bytes |-> data, size |-> Len(data), ok |-> ok]
ReadOf(n, bytes, ok) == [op |-> "Read", bytes |-> bytes, size |-> n, ok |-> ok]

Init == content = <<>> /\ last = Wrote(<<>>, TRUE)

Write(data) ==
  \/ /\ Len(content) + Len(data) <= Capacity
     /\ content' = content \o data
     /\ last' = Wrote(data, TRUE)
  \/ /\ Len(content) + Len(data) > Capacity
     /\ last' = Wrote(data, FALSE)
     /\ UNCHANGED content

Read(n) ==
  \/ /\ n <= Len(content)
     /\ content' = SubSeq(content, n + 1, Len(content))
     /\ last' = ReadOf(n, SubSeq(content, 1, n), TRUE)
  \/ /\ n > Len(content)
     /\ last' = ReadOf(n, <<>>, FALSE)
     /\ UNCHANGED content

Next == (\E data \in Packet : Write(data)) \/ (\E n \in 0 .. MaxSize : Read(n))

Spec == Init /\ [][Next]_fifoVars
============================================================================
