----------------------------- MODULE ByteQueue -----------------------------
(***************************************************************************)
(* What class Buffer promises to TcpConnection (src/src/Buffer.h): a FIFO  *)
(* queue of bytes.  Bytes come out in the order in which they went in,     *)
(* none is lost, none is invented, and dropping more bytes than there are  *)
(* empties the queue.  Storage and indices are the business of module      *)
(* Buffer, which implements this specification.                            *)
(***************************************************************************)
EXTENDS Naturals, Sequences

CONSTANTS
  Byte,          \* the values a byte can take
  MaxChunk       \* bound: bytes in one Enqueue, and the excess of a Drop

VARIABLE queue   \* the pending bytes, oldest first

Init == queue = << >>

(* Buffer::append: the new bytes go behind the pending ones. *)
Enqueue(data) == queue' = queue \o data

(* Buffer::retrieve: the n oldest bytes go away, or all if there are fewer. *)
Drop(n) ==
  queue' = IF n < Len(queue) THEN SubSeq(queue, n + 1, Len(queue)) ELSE << >>

(* Buffer::retrieveAll. *)
Clear == queue' = << >>

Next ==
  \/ \E n \in 0 .. MaxChunk : \E data \in [1 .. n -> Byte] : Enqueue(data)
  \/ \E n \in 0 .. Len(queue) + MaxChunk : Drop(n)
  \/ Clear

Spec == Init /\ [][Next]_queue
============================================================================
