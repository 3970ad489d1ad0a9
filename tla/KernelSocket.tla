---------------------------- MODULE KernelSocket ----------------------------
(***************************************************************************)
(* What TcpConnection sees of the operating system: the accepted TCP       *)
(* socket of one client, the client at its other end, and the item that    *)
(* stands for the socket in the epoll set.  It is not code of the          *)
(* repository: it is modelled from the calls the code makes (read and send *)
(* on a non-blocking socket, epoll_ctl, epoll_wait, close) and from the    *)
(* outcomes the code distinguishes.                                        *)
(*                                                                         *)
(* The client's bytes are numbered 1, 2, 3, ... in the order it sends      *)
(* them, so that a lost, repeated or reordered byte shows.                 *)
(***************************************************************************)
EXTENDS Naturals, Sequences

CONSTANTS
  SndCap,    \* bytes the send buffer of the socket holds
  MaxBytes   \* bound: bytes the client sends

ASSUME KernelAssumption == SndCap \in Nat \ {0} /\ MaxBytes \in Nat

VARIABLES
  rcvQ,      \* bytes received from the client, not yet read by the server
  sndQ,      \* bytes accepted by send, not yet taken by the client
  fin,       \* the client has shut down its sending side
  reset,     \* the client has aborted the connection
  sockErr,   \* the error of the reset has not been reported yet
  nsent,     \* number of bytes the client has sent
  got,       \* bytes the client has taken, in order
  interest,  \* events the epoll item subscribes to; {} when there is no item
  ready      \* the item is in the ready list of the epoll set

netVars  == << rcvQ, sndQ, fin, reset, sockErr, nsent, got >>
itemVars == << interest, ready >>

(* The first n bytes the client sends. *)
Bytes(n) == [i \in 1 .. n |-> i]

Event == {"IN", "OUT", "RDHUP", "HUP", "ERR"}

-----------------------------------------------------------------------------
(* The condition of the socket, as poll sees it. *)
Mask ==
  { e \in Event :
      \/ e = "IN"    /\ (rcvQ # << >> \/ fin \/ reset)
      \/ e = "RDHUP" /\ (fin \/ reset)
      \/ e = "OUT"   /\ (Len(sndQ) < SndCap \/ reset)
      \/ e = "HUP"   /\ reset
      \/ e = "ERR"   /\ sockErr }

(* Errors and hang-ups are reported whether subscribed to or not. *)
Reported(events) == Mask \intersect (events \union {"HUP", "ERR"})

(* epoll_ctl ADD or MOD: the item gets ready at once if there is anything  *)
(* to report; an item that is already in the ready list stays there.       *)
Subscribe(events) ==
  /\ interest' = events
  /\ ready' = (ready \/ Reported(events) # {})

(* A change of the socket that raises event e wakes a subscribed item. *)
Wake(e) == ready' = (ready \/ e \in interest)

-----------------------------------------------------------------------------
(* The client; it can act before the server has accepted the connection    *)
(* and after the server has closed it.  open: the server has not.          *)
PeerSend(open) ==
  /\ open /\ ~ fin /\ ~ reset /\ nsent < MaxBytes
  /\ nsent' = nsent + 1
  /\ rcvQ' = Append(rcvQ, nsent + 1)
  /\ Wake("IN")
  /\ UNCHANGED << sndQ, fin, reset, sockErr, got, interest >>

(* shutdown(SHUT_WR), or the first half of a close. *)
PeerShutdown(open) ==
  /\ open /\ ~ fin /\ ~ reset
  /\ fin' = TRUE
  /\ ready' = (interest # {} \/ ready)
  /\ UNCHANGED << rcvQ, sndQ, reset, sockErr, nsent, got, interest >>

(* RST: what was sent to the client is lost; what it sent can be read. *)
PeerReset(open) ==
  /\ open /\ ~ reset
  /\ reset' = TRUE
  /\ sockErr' = TRUE
  /\ sndQ' = << >>
  /\ ready' = (interest # {} \/ ready)
  /\ UNCHANGED << rcvQ, fin, nsent, got, interest >>

(* The client takes a byte, which makes room in the send buffer. *)
PeerRead ==
  /\ sndQ # << >>
  /\ got' = Append(got, Head(sndQ))
  /\ sndQ' = Tail(sndQ)
  /\ IF Len(sndQ) = SndCap THEN Wake("OUT") ELSE UNCHANGED ready
  /\ UNCHANGED << rcvQ, fin, reset, sockErr, nsent, interest >>
=============================================================================
