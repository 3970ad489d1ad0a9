------------------------------- MODULE Buffer -------------------------------
(***************************************************************************)
(* Class Buffer (src/src/Buffer.h, src/src/Buffer.cpp): a std::vector<char> *)
(* with a reader and a writer index.  The readable bytes are the interval  *)
(* [readerIndex_, writerIndex_) of the vector; position i of the vector is *)
(* element i + 1 of the sequence buffer_.                                  *)
(***************************************************************************)
EXTENDS Naturals, Sequences

CONSTANTS
  Byte,          \* the values a char can take
  Zero,          \* the char with which vector::resize fills new positions
  InitialSize,   \* size given to the vector by the constructor (1024)
  MaxVolume,     \* bound: writerIndex_ never exceeds it
  MaxChunk       \* bound: bytes in one append, and the excess of a retrieve

ASSUME BufferAssumption ==
  /\ Zero \in Byte
  /\ InitialSize \in Nat
  /\ MaxVolume \in Nat
  /\ MaxChunk \in Nat

VARIABLES
  buffer_,       \* the vector
  readerIndex_,  \* first byte not yet consumed
  writerIndex_   \* first position not yet written

vars == << buffer_, readerIndex_, writerIndex_ >>

-----------------------------------------------------------------------------
readableBytes == writerIndex_ - readerIndex_

writeableBytes == Len(buffer_) - writerIndex_

(* peek() gives the address of the first of the readableBytes bytes: the   *)
(* callers read these bytes through it.                                    *)
peek == SubSeq(buffer_, readerIndex_ + 1, writerIndex_)

(* A plausible mistake, not part of the specification: room is made for    *)
(* the data as if the vector were empty.                                   *)
SizeFor_IgnoresWriter(len) == IF Len(buffer_) < len THEN len ELSE Len(buffer_)

(* Size of the vector after append has made room for len more bytes. *)
SizeFor(len) ==
  IF writeableBytes < len THEN writerIndex_ + len ELSE Len(buffer_)

-----------------------------------------------------------------------------
(* Two more plausible mistakes, not part of the specification either. *)

\* the copy starts at the first unread byte
append_AtReader(data) ==
  /\ buffer_' = [i \in 1 .. SizeFor(Len(data)) |->
                   IF i \in readerIndex_ + 1 .. readerIndex_ + Len(data)
                   THEN data[i - readerIndex_]
                   ELSE IF i <= Len(buffer_) THEN buffer_[i] ELSE Zero]
  /\ writerIndex_' = writerIndex_ + Len(data)
  /\ UNCHANGED readerIndex_

\* "<=" for "<": draining the buffer exactly does not reset the indices
retrieve_NoReset(len) ==
  IF len <= readableBytes
  THEN /\ readerIndex_' = readerIndex_ + len
       /\ UNCHANGED << buffer_, writerIndex_ >>
  ELSE /\ readerIndex_' = 0
       /\ writerIndex_' = 0
       /\ UNCHANGED buffer_

-----------------------------------------------------------------------------
Init ==
  /\ buffer_ = [i \in 1 .. InitialSize |-> Zero]
  /\ readerIndex_ = 0
  /\ writerIndex_ = 0

retrieveAll ==
  /\ readerIndex_' = 0
  /\ writerIndex_' = 0
  /\ UNCHANGED buffer_

retrieve(len) ==
  IF len < readableBytes
  THEN /\ readerIndex_' = readerIndex_ + len
       /\ UNCHANGED << buffer_, writerIndex_ >>
  ELSE retrieveAll

append(data) ==
  /\ buffer_' = [i \in 1 .. SizeFor(Len(data)) |->
                   IF i \in writerIndex_ + 1 .. writerIndex_ + Len(data)
                   THEN data[i - writerIndex_]
                   ELSE IF i <= Len(buffer_) THEN buffer_[i] ELSE Zero]
  /\ writerIndex_' = writerIndex_ + Len(data)
  /\ UNCHANGED readerIndex_

Next ==
  \/ \E n \in 0 .. MaxChunk : \E data \in [1 .. n -> Byte] :
        writerIndex_ + n <= MaxVolume /\ append(data)
  \/ \E len \in 0 .. readableBytes + MaxChunk : retrieve(len)
  \/ retrieveAll

Spec == Init /\ [][Next]_vars

-----------------------------------------------------------------------------
(* The type of the three members and the order of the indices drawn in     *)
(* Buffer.h: 0 <= readerIndex <= writerIndex <= size.                      *)
TypeOK ==
  /\ buffer_ \in Seq(Byte)
  /\ readerIndex_ \in Nat
  /\ writerIndex_ \in Nat
  /\ readerIndex_ <= writerIndex_
  /\ writerIndex_ <= Len(buffer_)

(* A buffer without readable bytes is rewound: the whole vector can be     *)
(* written again.  retrieve reaches this through retrieveAll, also when it *)
(* is asked for exactly the readable bytes, which is what tryWrite does    *)
(* each time the kernel takes everything.  Without it the vector of a      *)
(* connection that is always drained would still grow for ever.            *)
DrainedIsRewound == readableBytes = 0 => writerIndex_ = 0

(* The readable bytes behave as a FIFO queue: reallocation, the two        *)
(* indices and the rewinding are invisible to the users of the class.      *)
Queue == INSTANCE ByteQueue WITH queue <- peek

ImplementsByteQueue == Queue!Spec
=============================================================================
