---------------------------- MODULE BufferProofs ----------------------------
(***************************************************************************)
(* Proofs about module Buffer, for every alphabet, initial size and bound: *)
(* the indices stay ordered, a drained buffer is rewound, and the class    *)
(* implements the FIFO queue of module ByteQueue.                          *)
(***************************************************************************)
EXTENDS Buffer, SequenceTheorems, TLAPS

USE BufferAssumption

-----------------------------------------------------------------------------
(* A function on 1 .. n is a sequence of length n. *)
LEMMA ChunkIsSeq ==
  ASSUME NEW n \in Nat, NEW data \in [1 .. n -> Byte]
  PROVE  data \in Seq(Byte) /\ Len(data) = n
  OBVIOUS

(* The vector after an append: its length, and what each position holds. *)
LEMMA AppendVector ==
  ASSUME TypeOK, NEW data \in Seq(Byte), append(data)
  PROVE  /\ buffer_' \in Seq(Byte)
         /\ Len(buffer_') >= Len(buffer_)
         /\ Len(buffer_') >= writerIndex_ + Len(data)
         /\ \A i \in 1 .. writerIndex_ : buffer_'[i] = buffer_[i]
         /\ \A k \in 1 .. Len(data) : buffer_'[writerIndex_ + k] = data[k]
<1> DEFINE size == SizeFor(Len(data))
<1>1. /\ size \in Nat
      /\ size >= Len(buffer_)
      /\ size >= writerIndex_ + Len(data)
  BY DEF SizeFor, writeableBytes, TypeOK
<1>2. \A i \in 1 .. size :
        (IF i \in writerIndex_ + 1 .. writerIndex_ + Len(data)
         THEN data[i - writerIndex_]
         ELSE IF i <= Len(buffer_) THEN buffer_[i] ELSE Zero) \in Byte
  BY <1>1 DEF TypeOK
<1>3. /\ buffer_' \in [1 .. size -> Byte]
      /\ \A i \in 1 .. size :
           buffer_'[i] = IF i \in writerIndex_ + 1 .. writerIndex_ + Len(data)
                         THEN data[i - writerIndex_]
                         ELSE IF i <= Len(buffer_) THEN buffer_[i] ELSE Zero
  BY <1>2 DEF append
<1>4. buffer_' \in Seq(Byte) /\ Len(buffer_') = size
  <2> HIDE DEF size
  <2> QED  BY <1>1, <1>3
<1>5. ASSUME NEW i \in 1 .. writerIndex_  PROVE buffer_'[i] = buffer_[i]
  <2>1. i \in 1 .. size /\ i \notin writerIndex_ + 1 .. writerIndex_ + Len(data)
        /\ i <= Len(buffer_)
    BY <1>1 DEF TypeOK
  <2> QED  BY <1>3, <2>1
<1>6. ASSUME NEW k \in 1 .. Len(data)  PROVE buffer_'[writerIndex_ + k] = data[k]
  <2>1. \A i \in writerIndex_ + 1 .. writerIndex_ + Len(data) :
           buffer_'[i] = data[i - writerIndex_]
    <3>1. \A i \in writerIndex_ + 1 .. writerIndex_ + Len(data) : i \in 1 .. size
      BY <1>1 DEF TypeOK
    <3> QED  BY <1>3, <3>1
  <2>2. /\ writerIndex_ + k \in writerIndex_ + 1 .. writerIndex_ + Len(data)
        /\ (writerIndex_ + k) - writerIndex_ = k
    BY DEF TypeOK
  <2>3. buffer_'[writerIndex_ + k] = data[(writerIndex_ + k) - writerIndex_]
    BY ONLY <2>1, <2>2
  <2> QED  BY ONLY <2>2, <2>3
<1> QED  BY <1>1, <1>4, <1>5, <1>6

-----------------------------------------------------------------------------
(* Buffer.h's picture 0 <= readerIndex <= writerIndex <= size holds in     *)
(* every reachable state, so every vector access of append and of a reader *)
(* through peek is within bounds.                                          *)
THEOREM TypeCorrect == Spec => []TypeOK
<1>1. Init => TypeOK
  BY DEF Init, TypeOK
<1>2. TypeOK /\ [Next]_vars => TypeOK'
  <2> SUFFICES ASSUME TypeOK, [Next]_vars PROVE TypeOK'
    OBVIOUS
  <2>1. ASSUME NEW n \in 0 .. MaxChunk, NEW data \in [1 .. n -> Byte], append(data)
        PROVE  TypeOK'
    <3>1. data \in Seq(Byte) /\ Len(data) = n
      BY ChunkIsSeq
    <3>2. buffer_' \in Seq(Byte) /\ Len(buffer_') >= writerIndex_ + Len(data)
      BY <2>1, <3>1, AppendVector
    <3>3. writerIndex_' = writerIndex_ + n /\ readerIndex_' = readerIndex_
      BY <2>1, <3>1 DEF append
    <3> QED  BY <3>1, <3>2, <3>3 DEF TypeOK
  <2>2. ASSUME NEW len \in 0 .. readableBytes + MaxChunk, retrieve(len)
        PROVE  TypeOK'
    BY <2>2 DEF retrieve, retrieveAll, readableBytes, TypeOK
  <2>3. CASE retrieveAll
    BY <2>3 DEF retrieveAll, TypeOK
  <2>4. CASE UNCHANGED vars
    BY <2>4 DEF vars, TypeOK
  <2> QED  BY <2>1, <2>2, <2>3, <2>4 DEF Next
<1> QED  BY <1>1, <1>2, PTL DEF Spec

(* Whatever sequence of appends and retrieves came before, a buffer with   *)
(* nothing to read has its whole vector writable again.                    *)
THEOREM DrainedRewound == Spec => []DrainedIsRewound
<1> USE DEF DrainedIsRewound, readableBytes
<1>1. Init => DrainedIsRewound
  BY DEF Init
<1>2. TypeOK /\ DrainedIsRewound /\ [Next]_vars => DrainedIsRewound'
  <2> SUFFICES ASSUME TypeOK, DrainedIsRewound, [Next]_vars PROVE DrainedIsRewound'
    OBVIOUS
  <2>1. ASSUME NEW n \in 0 .. MaxChunk, NEW data \in [1 .. n -> Byte], append(data)
        PROVE  DrainedIsRewound'
    BY <2>1, ChunkIsSeq DEF append, TypeOK
  <2>2. ASSUME NEW len \in 0 .. readableBytes + MaxChunk, retrieve(len)
        PROVE  DrainedIsRewound'
    BY <2>2 DEF retrieve, retrieveAll, TypeOK
  <2>3. CASE retrieveAll
    BY <2>3 DEF retrieveAll
  <2>4. CASE UNCHANGED vars
    BY <2>4 DEF vars
  <2> QED  BY <2>1, <2>2, <2>3, <2>4 DEF Next
<1> QED  BY <1>1, <1>2, TypeCorrect, PTL DEF Spec

-----------------------------------------------------------------------------
(* A window of a sequence, position by position. *)
LEMMA Window ==
  ASSUME NEW s \in Seq(Byte), NEW r \in Nat, NEW w \in Nat, r <= w, w <= Len(s)
  PROVE  /\ SubSeq(s, r + 1, w) \in Seq(Byte)
         /\ Len(SubSeq(s, r + 1, w)) = w - r
         /\ \A i \in 1 .. w - r : SubSeq(s, r + 1, w)[i] = s[r + i]
  OBVIOUS

(* What peek shows, position by position. *)
LEMMA PeekShape ==
  ASSUME TypeOK
  PROVE  /\ peek \in Seq(Byte)
         /\ Len(peek) = readableBytes
         /\ \A i \in 1 .. readableBytes : peek[i] = buffer_[readerIndex_ + i]
  BY DEF TypeOK, peek, readableBytes

(* An append adds its data behind the readable bytes, also when it moves   *)
(* them to a larger vector.                                                *)
LEMMA AppendEnqueues ==
  ASSUME TypeOK, TypeOK', NEW data \in Seq(Byte), append(data)
  PROVE  peek' = peek \o data
<1>1. /\ peek' \in Seq(Byte)
      /\ Len(peek') = readableBytes'
      /\ \A i \in 1 .. readableBytes' : peek'[i] = buffer_'[readerIndex_' + i]
  <2>1. /\ buffer_' \in Seq(Byte)
        /\ readerIndex_' \in Nat
        /\ writerIndex_' \in Nat
        /\ readerIndex_' <= writerIndex_'
        /\ writerIndex_' <= Len(buffer_')
    BY DEF TypeOK
  <2> QED  BY ONLY <2>1, Window DEF peek, readableBytes
<1>2. /\ readableBytes \in Nat /\ readerIndex_ \in Nat /\ Len(data) \in Nat
      /\ Len(buffer_) \in Nat /\ Len(buffer_') \in Nat
      /\ writerIndex_ = readerIndex_ + readableBytes
      /\ writerIndex_ <= Len(buffer_)
      /\ readableBytes' = readableBytes + Len(data)
      /\ readerIndex_' = readerIndex_
      /\ readerIndex_ + readableBytes' <= Len(buffer_')
  <2>1. readerIndex_' = readerIndex_ /\ writerIndex_' = writerIndex_ + Len(data)
    BY DEF append
  <2>2. Len(buffer_') \in Nat /\ writerIndex_' <= Len(buffer_')
    BY DEF TypeOK
  <2> QED  BY <2>1, <2>2 DEF TypeOK, readableBytes
<1>3. peek \o data \in Seq(Byte) /\ Len(peek \o data) = readableBytes'
  BY PeekShape, <1>2, ConcatProperties
<1>4. ASSUME NEW i \in 1 .. readableBytes'  PROVE peek'[i] = (peek \o data)[i]
  <2>1. peek'[i] = buffer_'[readerIndex_ + i]
    BY <1>1, <1>2
  <2>2. readerIndex_ + i \in 1 .. Len(buffer_') /\ i \in Nat /\ i >= 1
    BY ONLY <1>2, <1>4
  <2>3. CASE i <= readableBytes
    <3>1. readerIndex_ + i \in 1 .. writerIndex_ /\ i \in 1 .. readableBytes
      BY ONLY <1>2, <2>2, <2>3
    <3>2. buffer_'[readerIndex_ + i] = buffer_[readerIndex_ + i]
      BY <3>1, AppendVector
    <3>3. peek[i] = buffer_[readerIndex_ + i] /\ (peek \o data)[i] = peek[i]
      BY <3>1, PeekShape, ConcatProperties
    <3> QED  BY <2>1, <3>2, <3>3
  <2>4. CASE i > readableBytes
    <3>1. PICK k \in 1 .. Len(data) : i = readableBytes + k
      <4>1. i - readableBytes \in 1 .. Len(data) /\ i = readableBytes + (i - readableBytes)
        BY ONLY <1>2, <1>4, <2>2, <2>4
      <4> QED  BY <4>1
    <3>2. buffer_'[readerIndex_ + i] = data[k]
      <4>1. readerIndex_ + i = writerIndex_ + k
        BY ONLY <1>2, <2>2, <3>1
      <4>2. buffer_'[writerIndex_ + k] = data[k]
        BY AppendVector
      <4> QED  BY ONLY <4>1, <4>2
    <3>3. (peek \o data)[i] = data[k]
      <4>1. i \in Len(peek) + 1 .. Len(peek) + Len(data) /\ i - Len(peek) = k
        BY <1>2, <3>1, PeekShape
      <4> QED  BY <4>1, PeekShape, ConcatProperties
    <3> QED  BY ONLY <2>1, <3>2, <3>3
  <2>5. i <= readableBytes \/ i > readableBytes
    BY ONLY <1>2, <2>2
  <2> QED  BY ONLY <2>3, <2>4, <2>5
<1> HIDE DEF peek
<1> QED  BY <1>1, <1>3, <1>4, SeqEqual

(* A retrieve drops the oldest readable bytes, all of them if asked for    *)
(* as many or more.                                                        *)
LEMMA RetrieveDrops ==
  ASSUME TypeOK, TypeOK', NEW len \in Nat, retrieve(len)
  PROVE  Queue!Drop(len)
<1>1. CASE len < readableBytes
  <2>1. /\ readerIndex_' = readerIndex_ + len
        /\ buffer_' = buffer_
        /\ writerIndex_' = writerIndex_
    BY <1>1 DEF retrieve
  <2>2. /\ SubSeq(peek, len + 1, Len(peek)) \in Seq(Byte)
        /\ Len(SubSeq(peek, len + 1, Len(peek))) = readableBytes - len
        /\ \A i \in 1 .. readableBytes - len :
             SubSeq(peek, len + 1, Len(peek))[i] = peek[len + i]
    <3> HIDE DEF peek
    <3> QED  BY <1>1, PeekShape DEF TypeOK, readableBytes
  <2>3. /\ peek' \in Seq(Byte)
        /\ Len(peek') = readableBytes - len
        /\ \A i \in 1 .. readableBytes - len : peek'[i] = buffer_[readerIndex_ + len + i]
    <3>1. /\ buffer_ \in Seq(Byte)
          /\ readerIndex_ + len \in Nat
          /\ writerIndex_ \in Nat
          /\ readerIndex_ + len <= writerIndex_
          /\ writerIndex_ <= Len(buffer_)
          /\ writerIndex_ - (readerIndex_ + len) = readableBytes - len
      BY <1>1 DEF TypeOK, readableBytes
    <3>2. peek' = SubSeq(buffer_, (readerIndex_ + len) + 1, writerIndex_)
      BY <2>1 DEF peek
    <3> QED  BY ONLY <3>1, <3>2, Window
  <2>4. \A i \in 1 .. readableBytes - len : peek[len + i] = buffer_[readerIndex_ + len + i]
    BY <1>1, PeekShape DEF TypeOK, readableBytes
  <2>5. peek' = SubSeq(peek, len + 1, Len(peek))
    <3> HIDE DEF peek
    <3> QED  BY <2>2, <2>3, <2>4, SeqEqual
  <2> QED  BY <1>1, <2>5, PeekShape DEF Queue!Drop
<1>2. CASE ~ (len < readableBytes)
  <2>1. peek' = << >>
    BY <1>2 DEF retrieve, retrieveAll, peek, TypeOK
  <2> QED  BY <1>2, <2>1, PeekShape DEF Queue!Drop
<1> QED  BY <1>1, <1>2

(* The class is a FIFO queue: every operation of Buffer is an operation of *)
(* ByteQueue on the readable bytes, or leaves them alone.                  *)
THEOREM BufferIsByteQueue == Spec => ImplementsByteQueue
<1>1. Init => Queue!Init
  BY DEF Init, Queue!Init, peek
<1>2. TypeOK /\ TypeOK' /\ [Next]_vars => [Queue!Next]_peek
  <2> SUFFICES ASSUME TypeOK, TypeOK', [Next]_vars PROVE [Queue!Next]_peek
    OBVIOUS
  <2>1. ASSUME NEW n \in 0 .. MaxChunk, NEW data \in [1 .. n -> Byte], append(data)
        PROVE  Queue!Next
    <3>1. peek' = peek \o data
      BY <2>1, ChunkIsSeq, AppendEnqueues
    <3> QED  BY <3>1 DEF Queue!Next, Queue!Enqueue
  <2>2. ASSUME NEW len \in 0 .. readableBytes + MaxChunk, retrieve(len)
        PROVE  Queue!Next
    <3>1. len \in Nat /\ len \in 0 .. Len(peek) + MaxChunk
      BY PeekShape DEF TypeOK, readableBytes
    <3>2. Queue!Drop(len)
      BY <2>2, <3>1, RetrieveDrops
    <3> QED  BY <3>1, <3>2 DEF Queue!Next
  <2>3. CASE retrieveAll
    <3>1. peek' = << >>
      BY <2>3 DEF retrieveAll, peek, TypeOK
    <3> QED  BY <3>1 DEF Queue!Next, Queue!Clear
  <2>4. CASE UNCHANGED vars
    BY <2>4 DEF vars, peek
  <2> QED  BY <2>1, <2>2, <2>3, <2>4 DEF Next
<1> QED  BY <1>1, <1>2, TypeCorrect, PTL DEF Spec, ImplementsByteQueue, Queue!Spec
=============================================================================
