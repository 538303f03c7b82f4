----------------------- MODULE CircularBufferProofs ------------------------
(***************************************************************************)
(* Proofs about CircularBuffer, for every ring size and every packet size: *)
(* its invariants, and that it implements BoundedFifo.                     *)
(***************************************************************************)
EXTENDS CircularBuffer, TLAPS

IInv == TypeOK /\ PositionsAgree

----------------------------------------------------------------------------
(* A position moves at most once round the ring in one call. *)
LEMMA OnceRound ==
  ASSUME NEW pos \in Index, NEW n \in 0 .. bufferSize
  PROVE  /\ pos + n < bufferSize => (pos + n) % bufferSize = pos + n
         /\ pos + n >= bufferSize => (pos + n) % bufferSize = pos + n - bufferSize
         /\ (pos + n) % bufferSize \in Index
  BY BufferAssumption, SMT DEF Index

(* Two moves one after the other are one move. *)
LEMMA TwoMoves ==
  ASSUME NEW pos \in Index, NEW m \in 0 .. bufferSize, NEW n \in 0 .. bufferSize,
         m + n \in 0 .. bufferSize
  PROVE  (((pos + m) % bufferSize) + n) % bufferSize = (pos + (m + n)) % bufferSize
  BY BufferAssumption DEF Index

(* A packet is a sequence of at most MaxSize bytes. *)
LEMMA PacketIsSeq ==
  ASSUME NEW data \in Fifo!Packet
  PROVE  data \in Seq(Byte) /\ Len(data) \in 0 .. MaxSize
  <1>1. PICK n \in 0 .. MaxSize : data \in [1 .. n -> Byte]
    BY DEF Fifo!Packet
  <1> QED
    BY <1>1, BufferAssumption, SMT

LEMMA EmptyIsPacket == <<>> \in Fifo!Packet
  <1>1. <<>> \in [1 .. 0 -> Byte] /\ 0 \in 0 .. MaxSize
    BY BufferAssumption
  <1> QED
    BY <1>1 DEF Fifo!Packet

(* Two sequences of the same length and the same elements are equal. *)
LEMMA SameElements ==
  ASSUME NEW S, NEW s \in Seq(S), NEW t \in Seq(S), Len(s) = Len(t),
         \A i \in 1 .. Len(s) : s[i] = t[i]
  PROVE  s = t
  OBVIOUS

(* The k bytes that start at position r of a ring with contents buf. *)
Ring(buf, r, k) == [j \in 1 .. k |-> buf[(r + j - 1) % bufferSize]]

(* The position of the j-th byte from r. *)
LEMMA Position ==
  ASSUME NEW r \in Index, NEW j \in 1 .. bufferSize
  PROVE  /\ (r + j - 1) % bufferSize
              = IF r + j - 1 < bufferSize THEN r + j - 1 ELSE r + j - 1 - bufferSize
         /\ (r + j - 1) % bufferSize \in Index
  BY BufferAssumption DEF Index

LEMMA RingIsSeq ==
  ASSUME NEW buf \in [Index -> Byte], NEW r \in Index, NEW k \in 0 .. bufferSize
  PROVE  /\ Ring(buf, r, k) \in Seq(Byte)
         /\ Len(Ring(buf, r, k)) = k
         /\ \A j \in 1 .. k : Ring(buf, r, k)[j] = buf[(r + j - 1) % bufferSize]
  <1>1. \A j \in 1 .. k : j \in 1 .. bufferSize
    BY BufferAssumption
  <1>2. \A j \in 1 .. k : buf[(r + j - 1) % bufferSize] \in Byte
    BY <1>1, Position
  <1>3. Ring(buf, r, k) \in [1 .. k -> Byte]
    BY <1>2 DEF Ring
  <1>4. k \in Nat
    BY BufferAssumption
  <1>5. Ring(buf, r, k) \in Seq(Byte) /\ Len(Ring(buf, r, k)) = k
    BY <1>3, <1>4
  <1> QED
    BY <1>5 DEF Ring

----------------------------------------------------------------------------
(* The invariant is inductive. *)

LEMMA InitInv == Init => IInv
  <1> SUFFICES ASSUME Init PROVE IInv
    OBVIOUS
  <1>2. TypeOK
    BY EmptyIsPacket, BufferAssumption DEF Init, TypeOK, Index, Fifo!Wrote
  <1>3. PositionsAgree
    BY OnceRound, BufferAssumption DEF Init, PositionsAgree, Index
  <1> QED
    BY <1>2, <1>3 DEF IInv

LEMMA WriteInv ==
  ASSUME IInv, NEW data \in Fifo!Packet, Write(data)
  PROVE  IInv'
  <1> DEFINE L == Len(data)
  <1>1. data \in Seq(Byte) /\ L \in 0 .. MaxSize /\ L \in Nat /\ MaxSize \in Nat
    BY PacketIsSeq, BufferAssumption
  <1>2. /\ buffer \in [Index -> Byte]
        /\ writePos \in Index /\ readPos \in Index
        /\ currentSize \in 0 .. bufferSize /\ currentSize \in Nat
        /\ bufferSize \in Nat
        /\ writePos = (readPos + currentSize) % bufferSize
    BY BufferAssumption DEF IInv, TypeOK, PositionsAgree
  <1>3. last' \in [op : {"Write", "Read"}, bytes : Fifo!Packet, size : 0 .. MaxSize, ok : BOOLEAN]
    <2>1. \A ok \in BOOLEAN : Fifo!Wrote(data, ok)
            \in [op : {"Write", "Read"}, bytes : Fifo!Packet, size : 0 .. MaxSize, ok : BOOLEAN]
      BY <1>1 DEF Fifo!Wrote
    <2> QED
      BY <2>1 DEF Write
  <1>4. CASE UNCHANGED <<buffer, writePos, readPos, currentSize>>
    BY <1>2, <1>3, <1>4 DEF IInv, TypeOK, PositionsAgree
  <1>5. CASE /\ bufferSize - currentSize >= L
             /\ buffer' = CopiedIn(data)
             /\ writePos' = Advanced(writePos, L)
             /\ currentSize' = currentSize + L
             /\ readPos' = readPos
    <2>1. L \in 0 .. bufferSize /\ currentSize + L \in 0 .. bufferSize
      BY <1>1, <1>2, <1>5
    <2>2. CopiedIn(data) \in [Index -> Byte]
      BY <1>1, <1>2 DEF CopiedIn, Index
    <2>3. writePos' \in Index
      BY <1>2, <1>5, <2>1, OnceRound DEF Advanced
    <2>4. writePos' = (readPos' + currentSize') % bufferSize
      BY <1>2, <1>5, <2>1, TwoMoves DEF Advanced
    <2> QED
      BY <1>2, <1>3, <1>5, <2>1, <2>2, <2>3, <2>4 DEF IInv, TypeOK, PositionsAgree
  <1> QED
    BY <1>4, <1>5 DEF Write

LEMMA ReadInv ==
  ASSUME IInv, NEW n \in 0 .. MaxSize, Read(n)
  PROVE  IInv'
  <1>1. /\ buffer \in [Index -> Byte]
        /\ writePos \in Index /\ readPos \in Index
        /\ currentSize \in 0 .. bufferSize /\ currentSize \in Nat
        /\ bufferSize \in Nat /\ n \in Nat
        /\ writePos = (readPos + currentSize) % bufferSize
    BY BufferAssumption DEF IInv, TypeOK, PositionsAgree
  <1>2. CASE /\ last' = Fifo!ReadOf(n, <<>>, FALSE)
             /\ UNCHANGED <<buffer, writePos, readPos, currentSize>>
    <2>1. Fifo!ReadOf(n, <<>>, FALSE)
            \in [op : {"Write", "Read"}, bytes : Fifo!Packet, size : 0 .. MaxSize, ok : BOOLEAN]
      BY EmptyIsPacket DEF Fifo!ReadOf
    <2> QED
      BY <1>1, <1>2, <2>1 DEF IInv, TypeOK, PositionsAgree
  <1>3. CASE /\ currentSize >= n
             /\ last' = Fifo!ReadOf(n, CopiedOut(n), TRUE)
             /\ readPos' = Advanced(readPos, n)
             /\ currentSize' = currentSize - n
             /\ UNCHANGED <<buffer, writePos>>
    <2>1. n \in 0 .. bufferSize /\ currentSize - n \in 0 .. bufferSize
      BY <1>1, <1>3
    <2>2. CopiedOut(n) \in [1 .. n -> Byte]
      BY <1>1, <2>1 DEF CopiedOut, Index
    <2>3. CopiedOut(n) \in Fifo!Packet
      BY <2>2 DEF Fifo!Packet
    <2>4. Fifo!ReadOf(n, CopiedOut(n), TRUE)
            \in [op : {"Write", "Read"}, bytes : Fifo!Packet, size : 0 .. MaxSize, ok : BOOLEAN]
      BY <2>3 DEF Fifo!ReadOf
    <2>5. readPos' \in Index
      BY <1>1, <1>3, <2>1, OnceRound DEF Advanced
    <2>6. n + (currentSize - n) = currentSize
      BY <1>1
    <2>7. writePos' = (readPos' + currentSize') % bufferSize
      <3>1. n + (currentSize - n) \in 0 .. bufferSize
        BY <1>1, <2>6
      <3>2. (((readPos + n) % bufferSize) + (currentSize - n)) % bufferSize
              = (readPos + (n + (currentSize - n))) % bufferSize
        BY <1>1, <2>1, <3>1, TwoMoves
      <3> QED
        BY <1>1, <1>3, <2>6, <3>2, Zenon DEF Advanced
    <2> QED
      BY <1>1, <1>3, <2>1, <2>4, <2>5, <2>7 DEF IInv, TypeOK, PositionsAgree
  <1> QED
    BY <1>2, <1>3 DEF Read

LEMMA StepInv == IInv /\ [Next]_vars => IInv'
  <1> SUFFICES ASSUME IInv, [Next]_vars PROVE IInv'
    OBVIOUS
  <1>1. ASSUME NEW data \in Fifo!Packet, Write(data) PROVE IInv'
    BY <1>1, WriteInv
  <1>2. ASSUME NEW n \in 0 .. MaxSize, Read(n) PROVE IInv'
    BY <1>2, ReadInv
  <1>3. CASE UNCHANGED vars
    BY <1>3 DEF IInv, TypeOK, PositionsAgree, vars
  <1> QED
    BY <1>1, <1>2, <1>3 DEF Next

(* Every variable keeps its type: the positions stay inside the ring and no *)
(* call makes currentSize negative or larger than the ring.                 *)
THEOREM TypeCorrect == Spec => []TypeOK
  <1>1. IInv => TypeOK
    BY DEF IInv
  <1> QED
    BY InitInv, StepInv, <1>1, PTL DEF Spec

(* The write position is always the read position plus the bytes held.      *)
THEOREM PositionsAlwaysAgree == Spec => []PositionsAgree
  <1>1. IInv => PositionsAgree
    BY DEF IInv
  <1> QED
    BY InitInv, StepInv, <1>1, PTL DEF Spec

----------------------------------------------------------------------------
(* CircularBuffer implements BoundedFifo. *)

LEMMA WriteAppends ==
  ASSUME IInv, NEW data \in Seq(Byte), currentSize + Len(data) <= bufferSize
  PROVE  Ring(CopiedIn(data), readPos, currentSize + Len(data))
           = Ring(buffer, readPos, currentSize) \o data
  <1> DEFINE L   == Len(data)
             old == Ring(buffer, readPos, currentSize)
             new == Ring(CopiedIn(data), readPos, currentSize + L)
  <1>1. /\ buffer \in [Index -> Byte]
        /\ readPos \in Index /\ writePos \in Index
        /\ currentSize \in 0 .. bufferSize /\ bufferSize \in Nat /\ L \in Nat
        /\ currentSize \in Nat
        /\ currentSize + L \in 0 .. bufferSize
    BY BufferAssumption DEF IInv, TypeOK
  <1>2. writePos = IF readPos + currentSize < bufferSize
                     THEN readPos + currentSize ELSE readPos + currentSize - bufferSize
    BY <1>1, BufferAssumption DEF IInv, PositionsAgree, Index
  <1>3. CopiedIn(data) \in [Index -> Byte]
    BY <1>1 DEF CopiedIn, Index
  <1>4. /\ old \in Seq(Byte) /\ Len(old) = currentSize
        /\ \A j \in 1 .. currentSize : old[j] = buffer[(readPos + j - 1) % bufferSize]
    BY <1>1, RingIsSeq
  <1>5. /\ new \in Seq(Byte) /\ Len(new) = currentSize + L
        /\ \A j \in 1 .. currentSize + L :
             new[j] = CopiedIn(data)[(readPos + j - 1) % bufferSize]
    BY <1>1, <1>3, RingIsSeq
  <1> HIDE DEF old, new
  <1>6. ASSUME NEW j \in 1 .. currentSize + L
        PROVE  new[j] = (old \o data)[j]
    <2> DEFINE p == (readPos + j - 1) % bufferSize
    <2>1. j \in 1 .. bufferSize
      BY <1>1
    <2>2. /\ p = IF readPos + j - 1 < bufferSize
                   THEN readPos + j - 1 ELSE readPos + j - 1 - bufferSize
          /\ p \in Index
      BY <1>1, <2>1, Position
    <2>3. new[j] = CopiedIn(data)[p]
      BY <1>5
    <2> HIDE DEF p
    <2>4. CASE j <= currentSize
      <3>1. old[j] = buffer[p]
        BY <1>1, <1>4, <2>4 DEF p
      <3>2. /\ ~(p >= writePos /\ p < writePos + L)
            /\ ~(p + (bufferSize - writePos) < L)
        BY <1>1, <1>2, <2>2, <2>4 DEF Index
      <3>3. CopiedIn(data)[p] = buffer[p]
        BY <2>2, <3>2 DEF CopiedIn
      <3>4. (old \o data)[j] = old[j]
        BY <1>1, <1>4, <2>4
      <3> QED
        BY <2>3, <3>1, <3>3, <3>4
    <2>5. CASE j > currentSize
      <3>1. CopiedIn(data)[p] = data[j - currentSize]
        <4>1. CASE p >= writePos /\ p < writePos + L
          <5>1. p - writePos + 1 = j - currentSize
            BY <1>1, <1>2, <2>2, <2>5, <4>1 DEF Index
          <5> QED
            BY <2>2, <4>1, <5>1 DEF CopiedIn
        <4>2. CASE ~(p >= writePos /\ p < writePos + L)
          <5>1. /\ p + (bufferSize - writePos) < L
                /\ p + (bufferSize - writePos) + 1 = j - currentSize
            BY <1>1, <1>2, <2>2, <2>5, <4>2 DEF Index
          <5> QED
            BY <2>2, <4>2, <5>1 DEF CopiedIn
        <4> QED
          BY <4>1, <4>2
      <3>2. (old \o data)[j] = data[j - currentSize]
        BY <1>1, <1>4, <2>5
      <3> QED
        BY <2>3, <3>1, <3>2
    <2>6. j <= currentSize \/ j > currentSize
      BY <1>1
    <2> QED
      BY <2>4, <2>5, <2>6
  <1>7. old \o data \in Seq(Byte) /\ Len(old \o data) = currentSize + L
    <2>1. old \in Seq(Byte) /\ data \in Seq(Byte)
      BY <1>4
    <2>2. old \o data \in Seq(Byte) /\ Len(old \o data) = Len(old) + Len(data)
      BY <2>1
    <2> QED
      BY <1>4, <2>2
  <1>8. new = old \o data
    BY <1>5, <1>6, <1>7, SameElements
  <1> QED
    BY <1>8 DEF old, new

LEMMA ReadTakes ==
  ASSUME IInv, NEW n \in Nat, n <= currentSize
  PROVE  /\ CopiedOut(n) = SubSeq(Ring(buffer, readPos, currentSize), 1, n)
         /\ Ring(buffer, Advanced(readPos, n), currentSize - n)
              = SubSeq(Ring(buffer, readPos, currentSize), n + 1, currentSize)
  <1> DEFINE old == Ring(buffer, readPos, currentSize)
             pos == (readPos + n) % bufferSize
             new == Ring(buffer, pos, currentSize - n)
             out == CopiedOut(n)
  <1>1. /\ buffer \in [Index -> Byte]
        /\ readPos \in Index
        /\ currentSize \in 0 .. bufferSize /\ bufferSize \in Nat /\ currentSize \in Nat
        /\ n \in 0 .. bufferSize /\ currentSize - n \in 0 .. bufferSize
    BY BufferAssumption DEF IInv, TypeOK
  <1>2. /\ old \in Seq(Byte) /\ Len(old) = currentSize
        /\ \A j \in 1 .. currentSize : old[j] = buffer[(readPos + j - 1) % bufferSize]
    BY <1>1, RingIsSeq
  <1>3. pos \in Index
    BY <1>1, OnceRound
  <1>4. pos = IF readPos + n < bufferSize THEN readPos + n ELSE readPos + n - bufferSize
    BY <1>1, BufferAssumption DEF Index
  <1> HIDE DEF pos
  <1>5. /\ new \in Seq(Byte) /\ Len(new) = currentSize - n
        /\ \A j \in 1 .. currentSize - n : new[j] = buffer[(pos + j - 1) % bufferSize]
    BY <1>1, <1>3, RingIsSeq
  <1>6. /\ out \in Seq(Byte) /\ Len(out) = n
        /\ \A j \in 1 .. n : out[j] = IF j <= bufferSize - readPos
                                        THEN buffer[readPos + j - 1]
                                        ELSE buffer[j - (bufferSize - readPos) - 1]
    <2>1. out \in [1 .. n -> Byte]
      BY <1>1 DEF CopiedOut, Index
    <2>2. out \in Seq(Byte) /\ Len(out) = n
      BY <2>1
    <2> QED
      BY <2>2 DEF CopiedOut
  <1> HIDE DEF old, new, out
  <1>7. /\ SubSeq(old, 1, n) \in Seq(Byte) /\ Len(SubSeq(old, 1, n)) = n
        /\ \A j \in 1 .. n : SubSeq(old, 1, n)[j] = old[j]
    BY <1>1, <1>2
  <1>8. /\ SubSeq(old, n + 1, currentSize) \in Seq(Byte)
        /\ Len(SubSeq(old, n + 1, currentSize)) = currentSize - n
        /\ \A j \in 1 .. currentSize - n : SubSeq(old, n + 1, currentSize)[j] = old[n + j]
    BY <1>1, <1>2
  <1>9. ASSUME NEW j \in 1 .. n
        PROVE  out[j] = old[j]
    <2> DEFINE p == (readPos + j - 1) % bufferSize
    <2>1. j \in 1 .. bufferSize /\ j \in 1 .. currentSize
      BY <1>1
    <2>2. p = IF readPos + j - 1 < bufferSize
                THEN readPos + j - 1 ELSE readPos + j - 1 - bufferSize
      BY <1>1, <2>1, Position
    <2>3. old[j] = buffer[p]
      BY <1>2, <2>1
    <2> HIDE DEF p
    <2>4. out[j] = buffer[p]
      BY <1>1, <1>6, <2>1, <2>2 DEF Index
    <2> QED
      BY <2>3, <2>4
  <1>10. ASSUME NEW j \in 1 .. currentSize - n
         PROVE  new[j] = old[n + j]
    <2> DEFINE p == (readPos + (n + j) - 1) % bufferSize
               q == (pos + j - 1) % bufferSize
    <2>1. n + j \in 1 .. bufferSize /\ n + j \in 1 .. currentSize /\ j \in 1 .. bufferSize
      BY <1>1
    <2>2. p = IF readPos + (n + j) - 1 < bufferSize
                THEN readPos + (n + j) - 1 ELSE readPos + (n + j) - 1 - bufferSize
      BY <1>1, <2>1, Position
    <2>3. q = IF pos + j - 1 < bufferSize THEN pos + j - 1 ELSE pos + j - 1 - bufferSize
      BY <1>3, <2>1, Position
    <2>4. old[n + j] = buffer[p]
      BY <1>2, <2>1
    <2>5. new[j] = buffer[q]
      BY <1>5
    <2> HIDE DEF p, q
    <2>6. p = q
      BY <1>1, <1>3, <1>4, <2>1, <2>2, <2>3 DEF Index
    <2> QED
      BY <2>4, <2>5, <2>6
  <1>11. out = SubSeq(old, 1, n)
    <2>1. \A j \in 1 .. Len(out) : out[j] = SubSeq(old, 1, n)[j]
      BY <1>6, <1>7, <1>9
    <2> QED
      BY <1>6, <1>7, <2>1, SameElements
  <1>12. new = SubSeq(old, n + 1, currentSize)
    <2>1. \A j \in 1 .. Len(new) : new[j] = SubSeq(old, n + 1, currentSize)[j]
      BY <1>5, <1>8, <1>10
    <2> QED
      BY <1>5, <1>8, <2>1, SameElements
  <1> QED
    BY <1>11, <1>12 DEF old, new, out, pos, Advanced

LEMMA InitRefines == Init => Fifo!Init
  <1> SUFFICES ASSUME Init PROVE Fifo!Init
    OBVIOUS
  <1>1. [j \in 1 .. currentSize |-> buffer[(readPos + j - 1) % bufferSize]] = <<>>
    BY DEF Init
  <1> QED
    BY <1>1 DEF Init, Fifo!Init

LEMMA WriteRefines ==
  ASSUME IInv, NEW data \in Fifo!Packet, Write(data)
  PROVE  Fifo!Write(data)
  <1>1. data \in Seq(Byte) /\ Len(data) \in Nat
    BY PacketIsSeq, BufferAssumption
  <1>2. /\ Ring(buffer, readPos, currentSize) \in Seq(Byte)
        /\ Len(Ring(buffer, readPos, currentSize)) = currentSize
        /\ currentSize \in Nat /\ bufferSize \in Nat
    BY RingIsSeq, BufferAssumption DEF IInv, TypeOK
  <1>3. CASE /\ bufferSize - currentSize < Len(data)
             /\ last' = Fifo!Wrote(data, FALSE)
             /\ UNCHANGED <<buffer, writePos, readPos, currentSize>>
    <2>1. Len(Ring(buffer, readPos, currentSize)) + Len(data) > bufferSize
      BY <1>1, <1>2, <1>3
    <2> QED
      BY <1>3, <2>1 DEF Fifo!Write, Ring
  <1>4. CASE /\ bufferSize - currentSize >= Len(data)
             /\ buffer' = CopiedIn(data)
             /\ currentSize' = currentSize + Len(data)
             /\ last' = Fifo!Wrote(data, TRUE)
             /\ readPos' = readPos
    <2>1. currentSize + Len(data) <= bufferSize
      BY <1>1, <1>2, <1>4
    <2>2. Ring(buffer', readPos', currentSize') = Ring(buffer, readPos, currentSize) \o data
      BY <1>1, <1>4, <2>1, WriteAppends
    <2>3. Len(Ring(buffer, readPos, currentSize)) + Len(data) <= bufferSize
      BY <1>2, <2>1
    <2> QED
      BY <1>4, <2>2, <2>3 DEF Fifo!Write, Ring
  <1> QED
    BY <1>3, <1>4 DEF Write

LEMMA ReadRefines ==
  ASSUME IInv, NEW n \in 0 .. MaxSize, Read(n)
  PROVE  Fifo!Read(n)
  <1>1. /\ Ring(buffer, readPos, currentSize) \in Seq(Byte)
        /\ Len(Ring(buffer, readPos, currentSize)) = currentSize
        /\ currentSize \in Nat /\ n \in Nat
    <2>1. buffer \in [Index -> Byte] /\ readPos \in Index /\ currentSize \in 0 .. bufferSize
      BY DEF IInv, TypeOK
    <2>2. currentSize \in Nat /\ n \in Nat
      BY <2>1, BufferAssumption
    <2> QED
      BY <2>1, <2>2, RingIsSeq
  <1>2. CASE /\ currentSize < n
             /\ last' = Fifo!ReadOf(n, <<>>, FALSE)
             /\ UNCHANGED <<buffer, readPos, currentSize>>
    <2>1. n > Len(Ring(buffer, readPos, currentSize))
      BY <1>1, <1>2
    <2> QED
      BY <1>2, <2>1 DEF Fifo!Read, Ring
  <1>3. CASE /\ currentSize >= n
             /\ last' = Fifo!ReadOf(n, CopiedOut(n), TRUE)
             /\ readPos' = Advanced(readPos, n)
             /\ currentSize' = currentSize - n
             /\ buffer' = buffer
    <2>1. n <= currentSize /\ n <= Len(Ring(buffer, readPos, currentSize))
      BY <1>1, <1>3
    <2>2. /\ CopiedOut(n) = SubSeq(Ring(buffer, readPos, currentSize), 1, n)
          /\ Ring(buffer', readPos', currentSize')
               = SubSeq(Ring(buffer, readPos, currentSize), n + 1,
                        Len(Ring(buffer, readPos, currentSize)))
      BY <1>1, <1>3, <2>1, ReadTakes
    <2> QED
      BY <1>3, <2>1, <2>2 DEF Fifo!Read, Ring
  <1> QED
    BY <1>2, <1>3 DEF Read

LEMMA StepRefines == IInv /\ [Next]_vars => [Fifo!Next]_(Fifo!fifoVars)
  <1> SUFFICES ASSUME IInv, [Next]_vars PROVE [Fifo!Next]_(Fifo!fifoVars)
    OBVIOUS
  <1>1. ASSUME NEW data \in Fifo!Packet, Write(data) PROVE Fifo!Next
    BY <1>1, WriteRefines DEF Fifo!Next
  <1>2. ASSUME NEW n \in 0 .. MaxSize, Read(n) PROVE Fifo!Next
    BY <1>2, ReadRefines DEF Fifo!Next
  <1>3. CASE UNCHANGED vars
    BY <1>3 DEF vars, Fifo!fifoVars
  <1> QED
    BY <1>1, <1>2, <1>3 DEF Next

(* The ring, whatever its size and whatever packets it is given, replies to *)
(* every sequence of Write and Read calls as a bounded queue of bytes does. *)
THEOREM Refinement == Spec => ImplementsFifo
  <1> QED
    BY InitInv, StepInv, InitRefines, StepRefines, PTL DEF Spec, ImplementsFifo, Fifo!Spec
============================================================================
