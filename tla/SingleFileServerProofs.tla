----------------------- MODULE SingleFileServerProofs -----------------------
(***************************************************************************)
(* Proofs about module SingleFileServer, for buffers of every size and any *)
(* failures: the argument is that of TcpConnectionProofs, on the other     *)
(* code, and ends in the same service.                                     *)
(***************************************************************************)
EXTENDS SingleFileServer, KernelSocketProofs

USE KernelAssumption, ServerAssumption

-----------------------------------------------------------------------------
(* What each point of the code relies on. *)

\* nothing has happened to a connection before it is accepted
FreshInv ==
  /\ pc = "main" => got = << >> /\ sndQ = << >> /\ rcvQ = << >> /\ nsent = 0
  /\ pc \in {"main", "listening", "accept"} => outbuf = << >> /\ ~ peerClosed

\* handlers run for registered connections
RegisteredInv ==
  pc \in {"epoll_wait", "dispatch", "read", "write", "refresh"} => interest # {}

\* the kernel reports a reset once as an error
ResetInv == (sockErr => reset) /\ (reset => sndQ = << >>)

\* the end of the client's bytes is concluded when all of them are read
UnreadInv == peerClosed => rcvQ = << >> /\ (fin \/ reset)

\* reported hang-ups are real, and handled with nothing unread
HangUpInv ==
  /\ "ERR" \in events => reset
  /\ "RDHUP" \in events \/ "HUP" \in events => fin \/ reset
  /\ /\ "RDHUP" \in events \/ "HUP" \in events
     /\ "IN" \notin events /\ pc \in {"dispatch", "write", "refresh"}
     => rcvQ = << >>

\* between two handlers the subscription is that of refreshConn
SubscriptionInv == pc \in {"epoll_wait", "dispatch"} => interest = newEvent

\* ... and nothing reportable is hidden from the ready list
ArmedInv ==
  pc = "epoll_wait" \/ (pc = "dispatch" /\ events = {}) =>
    ready \/ Reported(interest) = {}

\* a healthy connection is closed when everything is done
RemovalInv ==
  pc = "close" /\ ~ reset /\ ~ failed => fin /\ rcvQ = << >> /\ outbuf = << >>

ServerInv ==
  /\ FreshInv /\ RegisteredInv /\ ResetInv /\ UnreadInv /\ HangUpInv
  /\ SubscriptionInv /\ ArmedInv /\ RemovalInv /\ EchoInOrder

-----------------------------------------------------------------------------
(* The parts of TypeOK. *)
LEMMA Types ==
  ASSUME TypeOK
  PROVE  /\ NetTypes /\ outbuf \in Seq(Nat)
         /\ peerClosed \in BOOLEAN /\ needWrite \in BOOLEAN /\ failed \in BOOLEAN
         /\ ready \in BOOLEAN
         /\ events \subseteq Event /\ interest \subseteq Event \union {"ET"}
  BY DEF TypeOK, NetTypes

LEMMA PeerIsClient == Peer => PeerStep /\ UNCHANGED << pc, connVars >>
  BY DEF Peer, PeerStep, PeerSend, PeerShutdown, PeerReset, PeerRead

(* One call of handleEvent: the end of the events, or one of the callbacks. *)
LEMMA OneCallback ==
  ASSUME TypeOK, HandleEvent
  PROVE  \/ events = {} /\ pc' = "epoll_wait" /\ UNCHANGED << events, peerClosed >>
         \/ /\ "ERR" \in events
            /\ pc' = "close" /\ events' = events \ {"ERR"} /\ UNCHANGED peerClosed
         \/ /\ "IN" \in events
            /\ pc' = "read" /\ events' = events \ {"IN"} /\ UNCHANGED peerClosed
         \/ /\ "IN" \notin events /\ ("RDHUP" \in events \/ "HUP" \in events)
            /\ pc' = "refresh" /\ events' = events \ {"RDHUP", "HUP"} /\ peerClosed' = TRUE
         \/ /\ "IN" \notin events /\ "RDHUP" \notin events /\ "HUP" \notin events
            /\ pc' = "write" /\ events' = events \ {"OUT"} /\ UNCHANGED peerClosed
<1>1. peerClosed \in BOOLEAN
  BY DEF TypeOK
<1>2. CASE events = {} /\ pc' = "epoll_wait" /\ UNCHANGED << events, peerClosed >>
  BY <1>2
<1>3. ASSUME NEW i \in 1 .. 4,
             events \intersect Callbacks[i].on # {},
             \A j \in 1 .. i - 1 : events \intersect Callbacks[j].on = {},
             events' = events \ Callbacks[i].on,
             pc' = Callbacks[i].at,
             peerClosed' = (peerClosed \/ "RDHUP" \in Callbacks[i].on)
      PROVE  \/ /\ "ERR" \in events
                /\ pc' = "close" /\ events' = events \ {"ERR"} /\ UNCHANGED peerClosed
             \/ /\ "IN" \in events
                /\ pc' = "read" /\ events' = events \ {"IN"} /\ UNCHANGED peerClosed
             \/ /\ "IN" \notin events /\ ("RDHUP" \in events \/ "HUP" \in events)
                /\ pc' = "refresh" /\ events' = events \ {"RDHUP", "HUP"} /\ peerClosed' = TRUE
             \/ /\ "IN" \notin events /\ "RDHUP" \notin events /\ "HUP" \notin events
                /\ pc' = "write" /\ events' = events \ {"OUT"} /\ UNCHANGED peerClosed
  <2>1. /\ Callbacks[1] = [on |-> {"ERR"}, at |-> "close"]
        /\ Callbacks[2] = [on |-> {"IN"}, at |-> "read"]
        /\ Callbacks[3] = [on |-> {"RDHUP", "HUP"}, at |-> "refresh"]
        /\ Callbacks[4] = [on |-> {"OUT"}, at |-> "write"]
    BY DEF Callbacks
  <2>2. i = 1 \/ i = 2 \/ i = 3 \/ i = 4
    BY <1>3
  <2>3. CASE i = 1
    BY <1>1, <1>3, <2>1, <2>3
  <2>4. CASE i = 2
    BY <1>1, <1>3, <2>1, <2>4
  <2>5. CASE i = 3
    <3>1. events \intersect Callbacks[2].on = {}
      BY <1>3, <2>5
    <3>2. events \intersect {"RDHUP", "HUP"} # {} /\ "IN" \notin events
      BY <1>3, <2>1, <2>5, <3>1
    <3>3. events' = events \ {"RDHUP", "HUP"} /\ pc' = "refresh"
      BY <1>3, <2>1, <2>5
    <3>4. peerClosed' = TRUE
      <4>1. "RDHUP" \in Callbacks[i].on
        BY <2>1, <2>5
      <4>2. peerClosed' \in BOOLEAN /\ peerClosed'
        BY <1>3, <4>1
      <4> QED  BY <4>2
    <3> QED  BY <3>2, <3>3, <3>4
  <2>6. CASE i = 4
    <3>1. events \intersect Callbacks[2].on = {} /\ events \intersect Callbacks[3].on = {}
      BY <1>3, <2>6
    <3> QED  BY <1>1, <1>3, <2>1, <2>6, <3>1
  <2> QED  BY <2>2, <2>3, <2>4, <2>5, <2>6
<1> QED  BY <1>2, <1>3 DEF HandleEvent

(* One read: bytes move from the receive queue to the output, or the loop  *)
(* ends.                                                                   *)
LEMMA OneRead ==
  ASSUME TypeOK, HandleClientRead
  PROVE  \/ /\ \E n \in 1 .. Len(rcvQ) :
                 /\ rcvQ' = SubSeq(rcvQ, n + 1, Len(rcvQ))
                 /\ outbuf' = outbuf \o SubSeq(rcvQ, 1, n)
            /\ needWrite' = TRUE /\ pc' = "read" /\ UNCHANGED << peerClosed, sockErr >>
         \/ /\ rcvQ = << >> /\ UNCHANGED << rcvQ, outbuf, needWrite >>
            /\ \/ /\ ~ fin /\ sockErr
                  /\ sockErr' = FALSE /\ pc' = "close" /\ UNCHANGED peerClosed
               \/ /\ peerClosed' = TRUE /\ (fin \/ reset)
                  /\ pc' \in {"write", "refresh"} /\ UNCHANGED sockErr
               \/ /\ UNCHANGED << peerClosed, sockErr >>
                  /\ pc' \in {"write", "refresh"}
<1>1. pc = "read" /\ peerClosed \in BOOLEAN /\ fin \in BOOLEAN /\ reset \in BOOLEAN
  BY DEF HandleClientRead, TypeOK
<1>2. CASE rcvQ # << >>
  <2> DEFINE n == IF Len(rcvQ) < ReadChunk THEN Len(rcvQ) ELSE ReadChunk
  <2>1. n \in 1 .. Len(rcvQ)
    BY <1>2, EmptySeq DEF TypeOK
  <2>2. /\ rcvQ' = SubSeq(rcvQ, n + 1, Len(rcvQ))
        /\ outbuf' = outbuf \o SubSeq(rcvQ, 1, n)
        /\ needWrite' = TRUE /\ UNCHANGED << pc, peerClosed, sockErr >>
    BY <1>2 DEF HandleClientRead
  <2> HIDE DEF n
  <2> QED  BY <1>1, <2>1, <2>2
<1>3. CASE rcvQ = << >>
  BY <1>1, <1>3 DEF HandleClientRead
<1> QED  BY <1>2, <1>3

(* One turn of tryWrite: some of the output moves to the send queue, which *)
(* does not overflow, or the loop ends.                                    *)
LEMMA OneSend ==
  ASSUME TypeOK, TryWrite
  PROVE  \/ \E n \in 1 .. Len(outbuf) :
              /\ ~ reset /\ Len(sndQ) + n <= SndCap
              /\ sndQ' = sndQ \o SubSeq(outbuf, 1, n)
              /\ outbuf' = SubSeq(outbuf, n + 1, Len(outbuf))
              /\ UNCHANGED << pc, sockErr >>
         \/ reset /\ pc' = "close" /\ sockErr' = FALSE /\ UNCHANGED << sndQ, outbuf >>
         \/ pc' = "refresh" /\ UNCHANGED << sndQ, outbuf, sockErr >>
<1> DEFINE room == SndCap - Len(sndQ)
           n    == IF Len(outbuf) < room THEN Len(outbuf) ELSE room
<1>1. CASE outbuf # << >> /\ ~ reset /\ n > 0
  <2>1. n \in 1 .. Len(outbuf) /\ Len(sndQ) + n <= SndCap
    BY <1>1 DEF TypeOK
  <2>2. /\ sndQ' = sndQ \o SubSeq(outbuf, 1, n)
        /\ outbuf' = SubSeq(outbuf, n + 1, Len(outbuf))
        /\ UNCHANGED << pc, sockErr >>
    BY <1>1 DEF TryWrite, erase
  <2> HIDE DEF n
  <2> QED  BY <1>1, <2>1, <2>2
<1>2. CASE outbuf # << >> /\ reset
  BY <1>2 DEF TryWrite
<1>3. CASE ~ (outbuf # << >> /\ ~ reset /\ n > 0) /\ ~ (outbuf # << >> /\ reset)
  BY <1>3 DEF TryWrite
<1> QED  BY <1>1, <1>2, <1>3

(* What a refreshed or a new registration looks like. *)
LEMMA Registers ==
  ASSUME NEW wanted, Subscribe(wanted), TypeOK, "ET" \in wanted,
         wanted \subseteq Event \union {"ET"}
  PROVE  /\ interest' = wanted /\ interest' # {} /\ ready' \in BOOLEAN
  BY DEF Subscribe, TypeOK

LEMMA NewEventIsEdgeTriggered ==
  /\ "ET" \in newEvent /\ newEvent \subseteq Event \union {"ET"}
  /\ {"IN", "RDHUP"} \subseteq newEvent
  /\ outbuf # << >> => "OUT" \in newEvent
  BY DEF newEvent, Event

-----------------------------------------------------------------------------
(* Every variable keeps its type, the send queue does not overflow and no  *)
(* registration is level-triggered.                                        *)
THEOREM TypeCorrect == Spec => []TypeOK
<1>1. Init => TypeOK
  <2> SUFFICES ASSUME Init PROVE TypeOK
    OBVIOUS
  <2>1. << >> \in Seq(Nat) /\ Len(<< >>) = 0
    OBVIOUS
  <2>2. /\ outbuf = << >> /\ rcvQ = << >> /\ sndQ = << >> /\ got = << >> /\ nsent = 0
        /\ pc = "main" /\ events = {} /\ interest = {}
        /\ peerClosed = FALSE /\ needWrite = FALSE /\ failed = FALSE
        /\ fin = FALSE /\ reset = FALSE /\ sockErr = FALSE /\ ready = FALSE
    BY DEF Init
  <2>3. /\ {outbuf, rcvQ, sndQ, got} \subseteq Seq(Nat) /\ Len(sndQ) <= SndCap
        /\ nsent \in 0 .. MaxBytes
    BY <2>1, <2>2
  <2>4. {peerClosed, needWrite, failed, fin, reset, sockErr, ready} \subseteq BOOLEAN
    BY <2>2
  <2> QED  BY <2>2, <2>3, <2>4 DEF TypeOK
<1>2. TypeOK /\ [Next]_vars => TypeOK'
  <2> SUFFICES ASSUME TypeOK, [Next]_vars PROVE TypeOK'
    OBVIOUS
  <2>1. CASE Start
    BY <2>1 DEF Start, Exit, netVars, itemVars, TypeOK
  <2>2. CASE Register
    BY <2>2 DEF Register, Exit, netVars, itemVars, TypeOK
  <2>3. CASE HandleAccept
    <3>1. UNCHANGED << events, outbuf, peerClosed, needWrite, netVars >>
      BY <2>3 DEF HandleAccept
    <3>2. /\ pc' \in {"epoll_wait", "close"} /\ failed' \in BOOLEAN /\ ready' \in BOOLEAN
          /\ interest' \subseteq Event \union {"ET"} /\ (interest' # {} => "ET" \in interest')
      <4>1. CASE Subscribe({"IN", "ET", "RDHUP"})
        <5>1. {"IN", "ET", "RDHUP"} \subseteq Event \union {"ET"}
          BY DEF Event
        <5>2. interest' = {"IN", "ET", "RDHUP"} /\ ready' \in BOOLEAN
          BY <4>1, <5>1, Registers
        <5>3. pc' \in {"epoll_wait", "close"} /\ failed' \in BOOLEAN
          BY <2>3 DEF HandleAccept, AfterFailedAdd, TypeOK
        <5> QED  BY <5>1, <5>2, <5>3
      <4>2. CASE UNCHANGED itemVars
        BY <2>3, <4>2 DEF HandleAccept, AfterFailedAdd, itemVars, TypeOK
      <4> QED  BY <2>3, <4>1, <4>2 DEF HandleAccept
    <3> QED  BY <3>1, <3>2 DEF netVars, TypeOK
  <2>4. CASE Loop
    BY <2>4, ReportedEvents DEF Loop, netVars, TypeOK
  <2>5. CASE HandleEvent
    <3>1. /\ pc' \in {"epoll_wait", "close", "read", "refresh", "write"}
          /\ events' \subseteq Event /\ peerClosed' \in BOOLEAN
      BY <2>5, OneCallback DEF TypeOK
    <3>2. needWrite' = FALSE /\ UNCHANGED << outbuf, failed, netVars, itemVars >>
      BY <2>5 DEF HandleEvent
    <3> QED  BY <3>1, <3>2 DEF netVars, itemVars, TypeOK
  <2>6. CASE HandleClientRead
    <3>1. UNCHANGED << events, failed, sndQ, fin, reset, nsent, got, itemVars >>
      BY <2>6 DEF HandleClientRead
    <3>2. /\ rcvQ' \in Seq(Nat) /\ outbuf' \in Seq(Nat) /\ needWrite' \in BOOLEAN
          /\ pc' \in {"read", "close", "write", "refresh"}
          /\ peerClosed' \in BOOLEAN /\ sockErr' \in BOOLEAN
      <4>1. ASSUME NEW n \in 1 .. Len(rcvQ),
                   rcvQ' = SubSeq(rcvQ, n + 1, Len(rcvQ)),
                   outbuf' = outbuf \o SubSeq(rcvQ, 1, n)
            PROVE  rcvQ' \in Seq(Nat) /\ outbuf' \in Seq(Nat)
        <5>1. rcvQ \in Seq(Nat) /\ outbuf \in Seq(Nat)
          BY DEF TypeOK
        <5> QED  BY <4>1, <5>1, ChunkMoves
      <4> QED  BY <2>6, <4>1, OneRead DEF TypeOK
    <3> QED  BY <3>1, <3>2 DEF itemVars, TypeOK
  <2>7. CASE TryWrite
    <3>1. UNCHANGED << events, peerClosed, needWrite, failed,
                       rcvQ, fin, reset, nsent, got, itemVars >>
      BY <2>7 DEF TryWrite
    <3>2. /\ sndQ' \in Seq(Nat) /\ Len(sndQ') <= SndCap /\ outbuf' \in Seq(Nat)
          /\ pc' \in {"write", "close", "refresh"} /\ sockErr' \in BOOLEAN
      <4>1. ASSUME NEW n \in 1 .. Len(outbuf), Len(sndQ) + n <= SndCap,
                   sndQ' = sndQ \o SubSeq(outbuf, 1, n),
                   outbuf' = SubSeq(outbuf, n + 1, Len(outbuf))
            PROVE  sndQ' \in Seq(Nat) /\ Len(sndQ') <= SndCap /\ outbuf' \in Seq(Nat)
        <5>1. /\ sndQ \in Seq(Nat) /\ outbuf \in Seq(Nat) /\ Len(outbuf) \in Nat
              /\ n \in 0 .. Len(outbuf)
          BY DEF TypeOK
        <5>2. /\ SubSeq(outbuf, 1, n) \in Seq(Nat) /\ Len(SubSeq(outbuf, 1, n)) = n
              /\ SubSeq(outbuf, n + 1, Len(outbuf)) \in Seq(Nat)
          BY <5>1, Cut
        <5>3. sndQ' \in Seq(Nat) /\ Len(sndQ') = Len(sndQ) + n
          BY <4>1, <5>1, <5>2, ConcatProperties
        <5> QED  BY <4>1, <5>2, <5>3
      <4>2. pc = "write"
        BY <2>7 DEF TryWrite
      <4> QED  BY <2>7, <4>1, <4>2, OneSend DEF TypeOK
    <3> QED  BY <3>1, <3>2 DEF itemVars, TypeOK
  <2>8. CASE RefreshConn
    <3>1. UNCHANGED << events, outbuf, peerClosed, needWrite, netVars >>
      BY <2>8 DEF RefreshConn
    <3>2. pc' \in {"dispatch", "close"} /\ failed' \in BOOLEAN
      BY <2>8 DEF RefreshConn, TypeOK
    <3>3. /\ ready' \in BOOLEAN
          /\ interest' \subseteq Event \union {"ET"} /\ (interest' # {} => "ET" \in interest')
      <4>1. CASE Subscribe(newEvent)
        BY <4>1, Registers, NewEventIsEdgeTriggered
      <4>2. CASE UNCHANGED itemVars
        BY <4>2 DEF itemVars, TypeOK
      <4> QED  BY <2>8, <4>1, <4>2 DEF RefreshConn
    <3> QED  BY <3>1, <3>2, <3>3 DEF netVars, TypeOK
  <2>9. CASE CloseConn
    <3>1. << >> \in Seq(Nat) /\ Len(<< >>) = 0
      OBVIOUS
    <3>2. sndQ' \in Seq(Nat) /\ Len(sndQ') <= SndCap
      BY <2>9, <3>1 DEF CloseConn, TypeOK
    <3>3. /\ pc' = "closed" /\ interest' = {} /\ ready' = FALSE
          /\ UNCHANGED << connVars, rcvQ, fin, reset, sockErr, nsent, got >>
      BY <2>9 DEF CloseConn
    <3> QED  BY <3>2, <3>3 DEF connVars, TypeOK
  <2>10. CASE Peer
    <3>1. NetTypes' /\ interest' = interest /\ ready' \in BOOLEAN /\ UNCHANGED << pc, connVars >>
      BY <2>10, PeerIsClient, Types, ClientTypes
    <3> QED  BY <3>1 DEF connVars, NetTypes, TypeOK
  <2>11. CASE UNCHANGED vars
    BY <2>11 DEF vars, connVars, netVars, itemVars, TypeOK
  <2> QED  BY <2>1, <2>2, <2>3, <2>4, <2>5, <2>6, <2>7, <2>8, <2>9, <2>10, <2>11 DEF Next, Server
<1> QED  BY <1>1, <1>2, PTL DEF Spec

-----------------------------------------------------------------------------
(* Nothing happens to a connection before it is accepted. *)
LEMMA FreshKept ==
  ASSUME TypeOK, FreshInv, [Next]_vars
  PROVE  FreshInv'
<1>1. CASE Start
  BY <1>1 DEF Start, Exit, netVars, FreshInv
<1>2. CASE Register
  BY <1>2 DEF Register, Exit, netVars, FreshInv
<1>3. CASE HandleAccept
  BY <1>3 DEF HandleAccept, AfterFailedAdd, netVars, FreshInv
<1>4. CASE Loop
  BY <1>4 DEF Loop, netVars, FreshInv
<1>5. CASE HandleEvent
  BY <1>5, OneCallback DEF FreshInv
<1>6. CASE HandleClientRead
  BY <1>6, OneRead DEF FreshInv
<1>7. CASE TryWrite
  <2>1. pc = "write" /\ pc' \in {"write", "close", "refresh"}
    BY <1>7, OneSend DEF TryWrite
  <2> QED  BY <2>1 DEF FreshInv
<1>8. CASE RefreshConn
  BY <1>8 DEF RefreshConn, netVars, FreshInv
<1>9. CASE CloseConn
  BY <1>9 DEF CloseConn, connVars, FreshInv
<1>10. CASE Peer
  BY <1>10, PeerIsClient
  DEF Peer, Connected, PeerSend, PeerShutdown, PeerReset, PeerRead, connVars, FreshInv
<1>11. CASE UNCHANGED vars
  BY <1>11 DEF vars, connVars, netVars, FreshInv
<1> QED  BY <1>1, <1>2, <1>3, <1>4, <1>5, <1>6, <1>7, <1>8, <1>9, <1>10, <1>11 DEF Next, Server

(* Handlers run for registered connections. *)
LEMMA RegisteredKept ==
  ASSUME TypeOK, RegisteredInv, [Next]_vars
  PROVE  RegisteredInv'
<1>1. CASE Start
  BY <1>1 DEF Start, Exit, itemVars, RegisteredInv
<1>2. CASE Register
  BY <1>2 DEF Register, Exit, itemVars, RegisteredInv
<1>3. CASE HandleAccept
  <2>1. Subscribe({"IN", "ET", "RDHUP"}) => interest' # {}
    BY DEF Subscribe
  <2> QED  BY <1>3, <2>1 DEF HandleAccept, AfterFailedAdd, RegisteredInv
<1>4. CASE Loop
  BY <1>4 DEF Loop, RegisteredInv
<1>5. CASE HandleEvent
  BY <1>5, OneCallback DEF HandleEvent, itemVars, RegisteredInv
<1>6. CASE HandleClientRead
  BY <1>6, OneRead DEF HandleClientRead, itemVars, RegisteredInv
<1>7. CASE TryWrite
  BY <1>7, OneSend DEF TryWrite, itemVars, RegisteredInv
<1>8. CASE RefreshConn
  <2>1. Subscribe(newEvent) => interest' # {}
    BY NewEventIsEdgeTriggered DEF Subscribe
  <2> QED  BY <1>8, <2>1 DEF RefreshConn, RegisteredInv
<1>9. CASE CloseConn
  BY <1>9 DEF CloseConn, RegisteredInv
<1>10. CASE Peer
  BY <1>10, PeerIsClient, ClientTypes, Types DEF connVars, RegisteredInv
<1>11. CASE UNCHANGED vars
  BY <1>11 DEF vars, itemVars, RegisteredInv
<1> QED  BY <1>1, <1>2, <1>3, <1>4, <1>5, <1>6, <1>7, <1>8, <1>9, <1>10, <1>11 DEF Next, Server

(* A reset is reported as an error once, and empties the send queue. *)
LEMMA ResetKept ==
  ASSUME TypeOK, ResetInv, [Next]_vars
  PROVE  ResetInv'
<1>1. CASE Start
  BY <1>1 DEF Start, Exit, netVars, ResetInv
<1>2. CASE Register
  BY <1>2 DEF Register, Exit, netVars, ResetInv
<1>3. CASE HandleAccept
  BY <1>3 DEF HandleAccept, AfterFailedAdd, netVars, ResetInv
<1>4. CASE Loop
  BY <1>4 DEF Loop, netVars, ResetInv
<1>5. CASE HandleEvent
  BY <1>5 DEF HandleEvent, netVars, ResetInv
<1>6. CASE HandleClientRead
  <2>1. UNCHANGED sockErr \/ sockErr' = FALSE
    BY <1>6, OneRead
  <2> QED  BY <1>6, <2>1 DEF HandleClientRead, ResetInv
<1>7. CASE TryWrite
  BY <1>7, OneSend DEF TryWrite, ResetInv
<1>8. CASE RefreshConn
  BY <1>8 DEF RefreshConn, netVars, ResetInv
<1>9. CASE CloseConn
  BY <1>9 DEF CloseConn, connVars, ResetInv
<1>10. CASE Peer
  BY <1>10, PeerIsClient, ClientResets DEF ResetInv
<1>11. CASE UNCHANGED vars
  BY <1>11 DEF vars, connVars, netVars, ResetInv
<1> QED  BY <1>1, <1>2, <1>3, <1>4, <1>5, <1>6, <1>7, <1>8, <1>9, <1>10, <1>11 DEF Next, Server

(* The end of the client's bytes is not concluded too early. *)
LEMMA UnreadKept ==
  ASSUME TypeOK, HangUpInv, UnreadInv, [Next]_vars
  PROVE  UnreadInv'
<1>1. CASE Start
  BY <1>1 DEF Start, Exit, netVars, UnreadInv
<1>2. CASE Register
  BY <1>2 DEF Register, Exit, netVars, UnreadInv
<1>3. CASE HandleAccept
  BY <1>3 DEF HandleAccept, AfterFailedAdd, netVars, UnreadInv
<1>4. CASE Loop
  BY <1>4 DEF Loop, netVars, UnreadInv
<1>5. CASE HandleEvent
  <2>1. UNCHANGED netVars /\ pc = "dispatch"
    BY <1>5 DEF HandleEvent
  <2> QED  BY <1>5, <2>1, OneCallback DEF netVars, HangUpInv, UnreadInv
<1>6. CASE HandleClientRead
  BY <1>6, OneRead, EmptySeq DEF HandleClientRead, UnreadInv, TypeOK
<1>7. CASE TryWrite
  BY <1>7 DEF TryWrite, UnreadInv
<1>8. CASE RefreshConn
  BY <1>8 DEF RefreshConn, netVars, UnreadInv
<1>9. CASE CloseConn
  BY <1>9 DEF CloseConn, connVars, UnreadInv
<1>10. CASE Peer
  BY <1>10 DEF Peer, PeerSend, PeerShutdown, PeerReset, PeerRead, connVars, UnreadInv
<1>11. CASE UNCHANGED vars
  BY <1>11 DEF vars, connVars, netVars, UnreadInv
<1> QED  BY <1>1, <1>2, <1>3, <1>4, <1>5, <1>6, <1>7, <1>8, <1>9, <1>10, <1>11 DEF Next, Server

(* Reported hang-ups are real, and handled with nothing unread. *)
LEMMA HangUpKept ==
  ASSUME TypeOK, ResetInv, SubscriptionInv, HangUpInv, [Next]_vars
  PROVE  HangUpInv'
<1>1. CASE Start
  BY <1>1 DEF Start, Exit, netVars, HangUpInv
<1>2. CASE Register
  BY <1>2 DEF Register, Exit, netVars, HangUpInv
<1>3. CASE HandleAccept
  BY <1>3 DEF HandleAccept, AfterFailedAdd, netVars, HangUpInv
<1>4. CASE Loop
  <2>1. UNCHANGED netVars /\ events' = Reported(interest) /\ "IN" \in interest
    BY <1>4, NewEventIsEdgeTriggered DEF Loop, SubscriptionInv
  <2>2. /\ "ERR" \in events' => reset
        /\ "RDHUP" \in events' \/ "HUP" \in events' => (fin \/ reset) /\ "IN" \in events'
    BY <2>1 DEF Reported, Mask, Event, ResetInv
  <2> QED  BY <2>1, <2>2 DEF netVars, HangUpInv
<1>5. CASE HandleEvent
  <2>1. UNCHANGED netVars /\ pc = "dispatch"
    BY <1>5 DEF HandleEvent
  <2> QED  BY <1>5, <2>1, OneCallback DEF netVars, HangUpInv
<1>6. CASE HandleClientRead
  <2>1. pc = "read" /\ UNCHANGED << events, fin, reset >>
    BY <1>6 DEF HandleClientRead
  <2>2. pc' = "read" \/ pc' = "close" \/ (rcvQ = << >> /\ rcvQ' = << >>)
    BY <1>6, OneRead
  <2> QED  BY <2>1, <2>2 DEF HangUpInv
<1>7. CASE TryWrite
  BY <1>7 DEF TryWrite, HangUpInv
<1>8. CASE RefreshConn
  BY <1>8 DEF RefreshConn, netVars, HangUpInv
<1>9. CASE CloseConn
  BY <1>9 DEF CloseConn, connVars, HangUpInv
<1>10. CASE Peer
  BY <1>10 DEF Peer, PeerSend, PeerShutdown, PeerReset, PeerRead, connVars, HangUpInv
<1>11. CASE UNCHANGED vars
  BY <1>11 DEF vars, connVars, netVars, HangUpInv
<1> QED  BY <1>1, <1>2, <1>3, <1>4, <1>5, <1>6, <1>7, <1>8, <1>9, <1>10, <1>11 DEF Next, Server

(* Between two handlers the subscription is that of refreshConn. *)
LEMMA SubscriptionKept ==
  ASSUME TypeOK, FreshInv, SubscriptionInv, [Next]_vars
  PROVE  SubscriptionInv'
<1>1. CASE Start
  BY <1>1 DEF Start, Exit, SubscriptionInv
<1>2. CASE Register
  BY <1>2 DEF Register, Exit, SubscriptionInv
<1>3. CASE HandleAccept
  <2>1. outbuf = << >> /\ UNCHANGED outbuf
    BY <1>3 DEF HandleAccept, FreshInv
  <2>2. newEvent' = {"IN", "ET", "RDHUP"}
    BY <2>1 DEF newEvent
  <2>3. Subscribe({"IN", "ET", "RDHUP"}) => interest' = {"IN", "ET", "RDHUP"}
    BY DEF Subscribe
  <2> QED  BY <1>3, <2>2, <2>3 DEF HandleAccept, AfterFailedAdd, SubscriptionInv
<1>4. CASE Loop
  BY <1>4 DEF Loop, newEvent, SubscriptionInv
<1>5. CASE HandleEvent
  <2>1. pc = "dispatch" /\ UNCHANGED << outbuf, interest >>
    BY <1>5 DEF HandleEvent, itemVars
  <2> QED  BY <2>1 DEF newEvent, SubscriptionInv
<1>6. CASE HandleClientRead
  BY <1>6, OneRead DEF HandleClientRead, SubscriptionInv
<1>7. CASE TryWrite
  BY <1>7, OneSend DEF TryWrite, SubscriptionInv
<1>8. CASE RefreshConn
  <2>1. pc' = "close" \/ (Subscribe(newEvent) /\ UNCHANGED outbuf)
    BY <1>8 DEF RefreshConn
  <2>2. Subscribe(newEvent) => interest' = newEvent
    BY DEF Subscribe
  <2> QED  BY <2>1, <2>2 DEF newEvent, SubscriptionInv
<1>9. CASE CloseConn
  BY <1>9 DEF CloseConn, SubscriptionInv
<1>10. CASE Peer
  BY <1>10, PeerIsClient, ClientTypes, Types DEF connVars, newEvent, SubscriptionInv
<1>11. CASE UNCHANGED vars
  BY <1>11 DEF vars, connVars, itemVars, newEvent, SubscriptionInv
<1> QED  BY <1>1, <1>2, <1>3, <1>4, <1>5, <1>6, <1>7, <1>8, <1>9, <1>10, <1>11 DEF Next, Server

(* Nothing reportable is hidden between two handlers. *)
LEMMA ArmedKept ==
  ASSUME TypeOK, RegisteredInv, ArmedInv, [Next]_vars
  PROVE  ArmedInv'
<1>1. CASE Start
  BY <1>1 DEF Start, Exit, ArmedInv
<1>2. CASE Register
  BY <1>2 DEF Register, Exit, ArmedInv
<1>3. CASE HandleAccept
  <2>1. /\ UNCHANGED netVars
        /\ Subscribe({"IN", "ET", "RDHUP"}) \/ pc' = "close"
    BY <1>3 DEF HandleAccept, AfterFailedAdd
  <2> QED  BY <2>1, SubscribeArms DEF ArmedInv
<1>4. CASE Loop
  <2>1. /\ UNCHANGED << netVars, interest >> /\ events' = Reported(interest)
        /\ events' = {} => pc' = "epoll_wait"
        /\ events' # {} => pc' = "dispatch"
    BY <1>4 DEF Loop
  <2>2. (Reported(interest) = {})' <=> Reported(interest) = {}
    BY <2>1 DEF Reported, Mask, netVars
  <2> QED  BY <2>1, <2>2 DEF ArmedInv
<1>5. CASE HandleEvent
  <2>1. UNCHANGED << netVars, itemVars >> /\ pc = "dispatch"
    BY <1>5 DEF HandleEvent
  <2>2. (Reported(interest) = {})' <=> Reported(interest) = {}
    BY <2>1 DEF Reported, Mask, netVars, itemVars
  <2>3. pc' \notin {"epoll_wait", "dispatch"} \/ events = {}
    BY <1>5, OneCallback
  <2> QED  BY <2>1, <2>2, <2>3 DEF itemVars, ArmedInv
<1>6. CASE HandleClientRead
  BY <1>6, OneRead DEF HandleClientRead, ArmedInv
<1>7. CASE TryWrite
  BY <1>7, OneSend DEF TryWrite, ArmedInv
<1>8. CASE RefreshConn
  <2>1. UNCHANGED netVars /\ (Subscribe(newEvent) \/ pc' = "close")
    BY <1>8 DEF RefreshConn
  <2> QED  BY <2>1, SubscribeArms DEF ArmedInv
<1>9. CASE CloseConn
  BY <1>9 DEF CloseConn, ArmedInv
<1>10. CASE Peer
  <2>1. PeerStep /\ UNCHANGED << pc, events >> /\ NetTypes
    BY <1>10, PeerIsClient, Types DEF connVars
  <2>2. pc \in {"epoll_wait", "dispatch"} => interest # {}
    BY DEF RegisteredInv
  <2> QED  BY <2>1, <2>2, ClientKeepsArmed DEF ArmedInv
<1>11. CASE UNCHANGED vars
  BY <1>11 DEF vars, connVars, netVars, itemVars, Reported, Mask, ArmedInv
<1> QED  BY <1>1, <1>2, <1>3, <1>4, <1>5, <1>6, <1>7, <1>8, <1>9, <1>10, <1>11 DEF Next, Server

(* A healthy connection is closed when everything is done. *)
LEMMA RemovalKept ==
  ASSUME TypeOK, ResetInv, UnreadInv, HangUpInv, RemovalInv, [Next]_vars
  PROVE  RemovalInv'
<1>1. CASE Start
  BY <1>1 DEF Start, Exit, RemovalInv
<1>2. CASE Register
  BY <1>2 DEF Register, Exit, RemovalInv
<1>3. CASE HandleAccept
  BY <1>3 DEF HandleAccept, RemovalInv
<1>4. CASE Loop
  BY <1>4 DEF Loop, RemovalInv
<1>5. CASE HandleEvent
  <2>1. UNCHANGED netVars
    BY <1>5 DEF HandleEvent
  <2>2. pc' = "close" => reset
    BY <1>5, OneCallback DEF HangUpInv
  <2> QED  BY <2>1, <2>2 DEF netVars, RemovalInv
<1>6. CASE HandleClientRead
  <2>1. UNCHANGED reset /\ (pc' = "close" => sockErr)
    BY <1>6, OneRead DEF HandleClientRead
  <2> QED  BY <2>1 DEF ResetInv, RemovalInv
<1>7. CASE TryWrite
  <2>1. UNCHANGED reset /\ (pc' = "close" => reset)
    BY <1>7, OneSend DEF TryWrite
  <2> QED  BY <2>1 DEF RemovalInv
<1>8. CASE RefreshConn
  <2>1. UNCHANGED << outbuf, netVars >> /\ (pc' = "close" => Finished \/ failed')
    BY <1>8 DEF RefreshConn
  <2> QED  BY <2>1 DEF Finished, netVars, UnreadInv, RemovalInv
<1>9. CASE CloseConn
  BY <1>9 DEF CloseConn, RemovalInv
<1>10. CASE Peer
  BY <1>10 DEF Peer, PeerSend, PeerShutdown, PeerReset, PeerRead, connVars, RemovalInv
<1>11. CASE UNCHANGED vars
  BY <1>11 DEF vars, connVars, netVars, RemovalInv
<1> QED  BY <1>1, <1>2, <1>3, <1>4, <1>5, <1>6, <1>7, <1>8, <1>9, <1>10, <1>11 DEF Next, Server

(* A step that leaves the bytes where they are. *)
LEMMA EchoUndisturbed ==
  ASSUME EchoInOrder, UNCHANGED << got, sndQ, outbuf, rcvQ, nsent, reset >>,
         Connected' => Connected
  PROVE  EchoInOrder'
  BY DEF EchoInOrder

(* No step loses, repeats or reorders bytes. *)
LEMMA EchoKept ==
  ASSUME TypeOK, TypeOK', FreshInv, EchoInOrder, [Next]_vars
  PROVE  EchoInOrder'
<1>1. CASE Start
  <2>1. /\ pc = "main" /\ UNCHANGED << got, sndQ, outbuf, rcvQ, nsent, reset >>
        /\ got = << >> /\ sndQ = << >> /\ outbuf = << >> /\ rcvQ = << >> /\ nsent = 0
    BY <1>1 DEF Start, netVars, FreshInv
  <2>2. << >> \o << >> = << >> /\ Len(<< >>) = 0 /\ << >> = Bytes(0)
    BY DEF Bytes
  <2> QED  BY <2>1, <2>2 DEF EchoInOrder
<1>2. CASE Register
  BY <1>2, EchoUndisturbed DEF Register, Exit, netVars, Connected
<1>3. CASE HandleAccept
  BY <1>3, EchoUndisturbed DEF HandleAccept, netVars, Connected
<1>4. CASE Loop
  BY <1>4, EchoUndisturbed DEF Loop, netVars, Connected
<1>5. CASE HandleEvent
  BY <1>5, EchoUndisturbed DEF HandleEvent, netVars, Connected
<1>6. CASE HandleClientRead
  <2>1. UNCHANGED << got, sndQ, nsent, reset >> /\ pc = "read" /\ Connected
    BY <1>6 DEF HandleClientRead, Connected
  <2>2. CASE UNCHANGED << rcvQ, outbuf >>
    BY <2>1, <2>2, EchoUndisturbed
  <2>3. ASSUME NEW n \in 1 .. Len(rcvQ),
               rcvQ' = SubSeq(rcvQ, n + 1, Len(rcvQ)),
               outbuf' = outbuf \o SubSeq(rcvQ, 1, n)
        PROVE  EchoInOrder'
    <3>1. /\ rcvQ \in Seq(Nat) /\ outbuf \in Seq(Nat)
          /\ got \o sndQ \in Seq(Nat) /\ (got \o sndQ) \o outbuf \in Seq(Nat)
      BY ConcatProperties DEF TypeOK
    <3>2. /\ SubSeq(rcvQ, 1, n) \in Seq(Nat)
          /\ (((got \o sndQ) \o outbuf) \o SubSeq(rcvQ, 1, n)) \o SubSeq(rcvQ, n + 1, Len(rcvQ))
               = ((got \o sndQ) \o outbuf) \o rcvQ
      BY <3>1, ChunkMoves
    <3>3. (got \o sndQ) \o (outbuf \o SubSeq(rcvQ, 1, n))
            = ((got \o sndQ) \o outbuf) \o SubSeq(rcvQ, 1, n)
      BY ONLY <3>1, <3>2, Associative
    <3> QED  BY <2>1, <2>3, <3>2, <3>3 DEF EchoInOrder
  <2> QED  BY <1>6, <2>2, <2>3, OneRead
<1>7. CASE TryWrite
  <2>1. UNCHANGED << got, rcvQ, nsent, reset >> /\ pc = "write" /\ Connected
    BY <1>7 DEF TryWrite, Connected
  <2>2. CASE UNCHANGED << sndQ, outbuf >>
    BY <2>1, <2>2, EchoUndisturbed
  <2>3. ASSUME NEW n \in 1 .. Len(outbuf), ~ reset,
               sndQ' = sndQ \o SubSeq(outbuf, 1, n),
               outbuf' = SubSeq(outbuf, n + 1, Len(outbuf))
        PROVE  EchoInOrder'
    <3>1. /\ got \in Seq(Nat) /\ sndQ \in Seq(Nat) /\ outbuf \in Seq(Nat)
          /\ got \o sndQ \in Seq(Nat)
      BY ConcatProperties DEF TypeOK
    <3>2. /\ SubSeq(outbuf, 1, n) \in Seq(Nat)
          /\ ((got \o sndQ) \o SubSeq(outbuf, 1, n)) \o SubSeq(outbuf, n + 1, Len(outbuf))
               = (got \o sndQ) \o outbuf
      BY <3>1, ChunkMoves
    <3>3. got \o (sndQ \o SubSeq(outbuf, 1, n)) = (got \o sndQ) \o SubSeq(outbuf, 1, n)
      BY ONLY <3>1, <3>2, Associative
    <3>4. ((got' \o sndQ') \o outbuf') \o rcvQ' = Bytes(nsent')
      BY <2>1, <2>3, <3>2, <3>3 DEF EchoInOrder
    <3>5. /\ got' \in Seq(Nat) /\ sndQ' \in Seq(Nat) /\ nsent' \in Nat
          /\ outbuf' \in Seq(Nat) /\ rcvQ' \in Seq(Nat)
      BY DEF TypeOK
    <3>6. got' \o sndQ' = Bytes(Len(got') + Len(sndQ'))
      BY ONLY <3>4, <3>5, EchoedIsBytes
    <3> QED  BY <3>4, <3>6 DEF EchoInOrder
  <2> QED  BY <1>7, <2>2, <2>3, OneSend
<1>8. CASE RefreshConn
  BY <1>8, EchoUndisturbed DEF RefreshConn, netVars, Connected
<1>9. CASE CloseConn
  <2>1. pc' = "closed" /\ UNCHANGED got /\ (UNCHANGED sndQ \/ sndQ' = << >>)
    BY <1>9 DEF CloseConn
  <2>2. got \o << >> = Bytes(Len(got) + Len(<< >>))
    BY GotIsBytes, Types DEF EchoInOrder
  <2> QED  BY <2>1, <2>2 DEF EchoInOrder, Connected
<1>10. CASE Peer
  <2>1. UNCHANGED << pc, outbuf >> /\ NetTypes
    BY <1>10, Types DEF Peer, connVars
  <2>2. (got \o sndQ) \o outbuf \in Seq(Nat)
    BY ConcatProperties DEF TypeOK
  <2>3. CASE PeerSend(Connected)
    <3>1. PeerSend(TRUE) /\ Connected
      BY <2>3 DEF PeerSend
    <3>2. /\ UNCHANGED << got, sndQ >> /\ ~ reset
          /\ \A s \in Seq(Nat) : s \o rcvQ = Bytes(nsent) => s \o rcvQ' = Bytes(nsent')
      BY <2>1, <3>1, ClientSendsInOrder
    <3> QED  BY <2>1, <2>2, <3>1, <3>2 DEF EchoInOrder
  <2>4. CASE PeerShutdown(Connected)
    BY <2>1, <2>4, EchoUndisturbed DEF PeerShutdown, Connected
  <2>5. CASE PeerReset(Connected)
    <3>1. reset' /\ UNCHANGED got /\ sndQ' = << >>
      BY <2>5 DEF PeerReset
    <3>2. got \o << >> = Bytes(Len(got) + Len(<< >>))
      BY <2>1, GotIsBytes DEF EchoInOrder
    <3> QED  BY <3>1, <3>2 DEF EchoInOrder
  <2>6. CASE PeerRead
    BY <2>1, <2>6, ClientReadsInOrder DEF EchoInOrder, Connected
  <2> QED  BY <1>10, <2>3, <2>4, <2>5, <2>6 DEF Peer
<1>11. CASE UNCHANGED vars
  BY <1>11, EchoUndisturbed DEF vars, connVars, netVars, Connected
<1> QED  BY <1>1, <1>2, <1>3, <1>4, <1>5, <1>6, <1>7, <1>8, <1>9, <1>10, <1>11 DEF Next, Server

(* All of it together is inductive. *)
THEOREM Invariant == Spec => []ServerInv
<1>1. Init => ServerInv
  <2> SUFFICES ASSUME Init PROVE ServerInv
    OBVIOUS
  <2>1. << >> \o << >> = << >> /\ Len(<< >>) = 0 /\ << >> = Bytes(0)
    BY DEF Bytes
  <2>2. EchoInOrder
    BY <2>1 DEF Init, EchoInOrder
  <2> QED
    BY <2>2 DEF Init, ServerInv, FreshInv, RegisteredInv, ResetInv, UnreadInv, HangUpInv,
                SubscriptionInv, ArmedInv, RemovalInv
<1>2. TypeOK /\ TypeOK' /\ ServerInv /\ [Next]_vars => ServerInv'
  BY FreshKept, RegisteredKept, ResetKept, UnreadKept, HangUpKept, SubscriptionKept,
     ArmedKept, RemovalKept, EchoKept DEF ServerInv
<1> QED  BY <1>1, <1>2, TypeCorrect, PTL DEF Spec

(* The bytes come back in order, through outbuf.append and out.erase. *)
THEOREM EchoesInOrder == Spec => []EchoInOrder
  BY Invariant, PTL DEF ServerInv

(* handleAccept leaves no connection behind that is not in the epoll set. *)
THEOREM NoneUnregistered == Spec => []RegisteredOrClosed
<1>1. ServerInv => RegisteredOrClosed
  BY DEF ServerInv, RegisteredInv, RegisteredOrClosed
<1> QED  BY <1>1, Invariant, PTL

(* Edge-triggered notification loses no wake-up in this server either. *)
THEOREM WakeupsArriveInTime == Spec => []NoLostWakeup
<1>1. TypeOK /\ ServerInv => NoLostWakeup
  <2> SUFFICES ASSUME TypeOK, ServerInv, pc = "epoll_wait", ~ ready
               PROVE  /\ rcvQ = << >> /\ ~ fin /\ ~ reset
                      /\ outbuf # << >> => Len(sndQ) = SndCap
    BY DEF NoLostWakeup
  <2>1. Reported(interest) = {} /\ interest = newEvent
    BY DEF ServerInv, ArmedInv, SubscriptionInv
  <2>2. Len(sndQ) \in Nat /\ Len(sndQ) <= SndCap
    BY DEF TypeOK
  <2> QED  BY <2>1, <2>2, NewEventIsEdgeTriggered, NothingReported
<1> QED  BY <1>1, TypeCorrect, Invariant, PTL

-----------------------------------------------------------------------------
(* The server never sends back more than it was sent. *)
LEMMA EchoCounts ==
  ASSUME TypeOK, EchoInOrder, ~ reset, Connected
  PROVE  /\ Len(got) \in Nat /\ Len(sndQ) \in Nat
         /\ Len(outbuf) \in Nat /\ Len(rcvQ) \in Nat
         /\ Len(got) + Len(sndQ) + Len(outbuf) + Len(rcvQ) = nsent
<1>1. /\ got \in Seq(Nat) /\ sndQ \in Seq(Nat) /\ outbuf \in Seq(Nat)
      /\ rcvQ \in Seq(Nat) /\ nsent \in Nat
  BY DEF TypeOK
<1>2. got \o sndQ \in Seq(Nat) /\ Len(got \o sndQ) = Len(got) + Len(sndQ)
  BY <1>1, ConcatProperties
<1>3. /\ (got \o sndQ) \o outbuf \in Seq(Nat)
      /\ Len((got \o sndQ) \o outbuf) = Len(got) + Len(sndQ) + Len(outbuf)
  BY <1>1, <1>2, ConcatProperties
<1>4. Len(((got \o sndQ) \o outbuf) \o rcvQ) = Len(got) + Len(sndQ) + Len(outbuf) + Len(rcvQ)
  BY <1>1, <1>3, ConcatProperties
<1>5. Len(Bytes(nsent)) = nsent /\ ((got \o sndQ) \o outbuf) \o rcvQ = Bytes(nsent)
  BY <1>1, BytesType DEF EchoInOrder
<1>6. /\ Len(got) \in Nat /\ Len(sndQ) \in Nat
      /\ Len(outbuf) \in Nat /\ Len(rcvQ) \in Nat
  BY <1>1
<1> QED  BY ONLY <1>4, <1>5, <1>6

(* A step that the client cannot see, unless a call fails. *)
LEMMA Unseen ==
  ASSUME UNCHANGED << nsent, got, sndQ, fin, reset >>,
         pc # "closed", pc' # "closed", UNCHANGED failed \/ failed' = TRUE
  PROVE  [Service!Next]_Service!vars
<1>1. CASE UNCHANGED failed
  BY <1>1 DEF Service!vars
<1>2. CASE failed' = TRUE
  BY <1>2 DEF Service!Next, Service!Abort
<1> QED  BY <1>1, <1>2

(* A turn of tryWrite's loop echoes what send has taken. *)
LEMMA WriteEchoes ==
  ASSUME TypeOK, EchoInOrder, TryWrite
  PROVE  [Service!Next]_Service!vars
<1>1. /\ UNCHANGED << nsent, got, fin, reset, failed >>
      /\ pc = "write" /\ Connected
  BY DEF TryWrite, Connected
<1>2. CASE UNCHANGED sndQ
  <2>1. pc' # "closed"
    BY <1>1, OneSend
  <2> QED  BY <1>1, <1>2, <2>1, Unseen
<1>3. ASSUME NEW n \in 1 .. Len(outbuf), ~ reset, UNCHANGED pc,
             sndQ' = sndQ \o SubSeq(outbuf, 1, n)
      PROVE  Service!Next
  <2>1. /\ sndQ \in Seq(Nat) /\ outbuf \in Seq(Nat)
        /\ Len(outbuf) \in Nat /\ n \in 0 .. Len(outbuf)
        /\ nsent \in 0 .. MaxBytes
    BY DEF TypeOK
  <2>2. Len(sndQ') = Len(sndQ) + n
    BY <1>3, <2>1, Cut, ConcatProperties
  <2>3. /\ n \in 1 .. nsent - (Len(got) + Len(sndQ)) /\ n \in 1 .. MaxBytes
        /\ Len(got) + (Len(sndQ) + n) = (Len(got) + Len(sndQ)) + n
    BY <1>1, <1>3, <2>1, EchoCounts
  <2>4. Service!Echo(n)
    BY <1>1, <1>3, <2>2, <2>3 DEF Service!Echo
  <2> QED  BY <2>3, <2>4 DEF Service!Next
<1> QED  BY <1>2, <1>3, OneSend

(* closeConn closes the service: in good order, or after an abort. *)
LEMMA CloseConnCloses ==
  ASSUME TypeOK, RemovalInv, EchoInOrder, CloseConn
  PROVE  Service!Next
<1>1. /\ UNCHANGED << nsent, got, fin, reset, failed >>
      /\ pc = "close" /\ pc' = "closed" /\ Connected
      /\ sndQ' = sndQ \/ sndQ' = << >>
      /\ rcvQ = << >> => sndQ' = sndQ
  BY DEF CloseConn, connVars, Connected
<1>2. CASE ~ reset /\ ~ failed
  <2>1. fin /\ rcvQ = << >> /\ outbuf = << >> /\ sndQ' = sndQ
    BY <1>1, <1>2 DEF RemovalInv
  <2>2. Len(got) + Len(sndQ) = nsent
    BY <1>1, <1>2, <2>1, EchoCounts
  <2> QED  BY <1>1, <2>1, <2>2 DEF Service!Next, Service!Close
<1>3. CASE reset \/ failed
  <2>1. Len(got) + Len(sndQ') \in {Len(got) + Len(sndQ), Len(got)}
    <3>1. Len(got) \in Nat /\ Len(<< >>) = 0
      BY DEF TypeOK
    <3> QED  BY ONLY <1>1, <3>1
  <2> QED  BY <1>1, <1>3, <2>1 DEF Service!Next, Service!CloseAborted
<1> QED  BY <1>2, <1>3

(* What the client does, it does to the service. *)
LEMMA PeerActs ==
  ASSUME TypeOK, Peer
  PROVE  [Service!Next]_Service!vars
<1>1. /\ UNCHANGED << pc, failed >> /\ got \in Seq(Nat) /\ sndQ \in Seq(Nat) /\ nsent \in Nat
      /\ Connected => pc # "closed"
  BY DEF Peer, connVars, Connected, TypeOK
<1>2. CASE PeerSend(Connected)
  BY <1>1, <1>2 DEF PeerSend, Service!Next, Service!Send
<1>3. CASE PeerShutdown(Connected)
  BY <1>1, <1>3 DEF PeerShutdown, Service!Next, Service!HalfClose
<1>4. CASE PeerReset(Connected)
  <2>1. Len(got) + Len(sndQ') = Len(got)
    BY <1>1, <1>4 DEF PeerReset
  <2> QED  BY <1>1, <1>4, <2>1 DEF PeerReset, Service!Next, Service!Abort
<1>5. CASE PeerRead
  <2>1. /\ Len(got') = Len(got) + 1 /\ Len(sndQ') = Len(sndQ) - 1
        /\ Len(got) \in Nat /\ Len(sndQ) \in Nat \ {0}
    BY <1>1, <1>5, HeadTailProperties, AppendProperties, EmptySeq DEF PeerRead
  <2>2. /\ Len(got) < Len(got) + Len(sndQ)
        /\ Len(got') + Len(sndQ') = Len(got) + Len(sndQ)
    BY <2>1
  <2> QED  BY <1>1, <1>5, <2>1, <2>2 DEF PeerRead, Service!Next, Service!Deliver
<1> QED  BY <1>2, <1>3, <1>4, <1>5 DEF Peer

(* To its client the earlier server is the same service as the classes     *)
(* that replaced it.                                                       *)
THEOREM ServerIsEchoService == Spec => ImplementsEchoService
<1>1. Init => Service!Init
  BY DEF Init, Service!Init
<1>2. TypeOK /\ ServerInv /\ [Next]_vars => [Service!Next]_Service!vars
  <2> SUFFICES ASSUME TypeOK, ServerInv, [Next]_vars
               PROVE  [Service!Next]_Service!vars
    OBVIOUS
  <2>1. RemovalInv /\ EchoInOrder
    BY DEF ServerInv
  <2>2. CASE Start \/ Register \/ HandleAccept \/ RefreshConn
    <3>1. /\ UNCHANGED << nsent, got, sndQ, fin, reset >> /\ pc # "closed" /\ pc' # "closed"
          /\ UNCHANGED failed \/ failed' = TRUE
      BY <2>2 DEF Start, Register, Exit, HandleAccept, AfterFailedAdd, RefreshConn, netVars
    <3> QED  BY <3>1, Unseen
  <2>3. CASE Loop
    <3>1. /\ UNCHANGED << nsent, got, sndQ, fin, reset, failed >>
          /\ pc # "closed" /\ pc' # "closed"
      BY <2>3 DEF Loop, netVars
    <3> QED  BY <3>1, Unseen
  <2>4. CASE HandleEvent
    <3>1. /\ UNCHANGED << nsent, got, sndQ, fin, reset, failed >> /\ pc # "closed"
      BY <2>4 DEF HandleEvent, netVars
    <3>2. pc' # "closed"
      BY <2>4, OneCallback
    <3> QED  BY <3>1, <3>2, Unseen
  <2>5. CASE HandleClientRead
    <3>1. /\ UNCHANGED << nsent, got, sndQ, fin, reset, failed >> /\ pc # "closed"
      BY <2>5 DEF HandleClientRead
    <3>2. pc' # "closed"
      BY <2>5, OneRead
    <3> QED  BY <3>1, <3>2, Unseen
  <2>6. CASE TryWrite
    BY <2>1, <2>6, WriteEchoes
  <2>7. CASE CloseConn
    BY <2>1, <2>7, CloseConnCloses
  <2>8. CASE Peer
    BY <2>8, PeerActs
  <2>9. CASE UNCHANGED vars
    BY <2>9 DEF vars, connVars, netVars, Service!vars
  <2> QED  BY <2>2, <2>3, <2>4, <2>5, <2>6, <2>7, <2>8, <2>9 DEF Next, Server
<1> QED
  BY <1>1, <1>2, TypeCorrect, Invariant, PTL
  DEF Spec, ImplementsEchoService, Service!Spec
=============================================================================
