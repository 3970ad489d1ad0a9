------------------------ MODULE TcpConnectionProofs ------------------------
(***************************************************************************)
(* Proofs about module TcpConnection, for every size of the send buffer    *)
(* and of handleRead's array, any number of bytes and any failures of      *)
(* epoll_ctl.                                                              *)
(***************************************************************************)
EXTENDS TcpConnection, KernelSocketProofs

USE KernelAssumption, ConnectionAssumption

-----------------------------------------------------------------------------
(* A successful epoll_ctl keeps the item well-formed. *)
LEMMA SubscribeTypes ==
  ASSUME TypeOK, NEW events \in SUBSET (Event \union {"ET"}), "ET" \in events,
         Subscribe(events)
  PROVE  /\ interest' \in SUBSET (Event \union {"ET"})
         /\ "ET" \in interest'
         /\ ready' \in BOOLEAN
  BY DEF Subscribe, TypeOK

(* What either outcome of refresh leaves behind. *)
LEMMA RefreshTypes ==
  ASSUME TypeOK, RefreshTrue \/ RefreshFalse
  PROVE  /\ interest' \in SUBSET (Event \union {"ET"})
         /\ interest' # {} => "ET" \in interest'
         /\ isInEpoll_' <=> interest' # {}
         /\ isInEpoll_' \in BOOLEAN
         /\ ready' \in BOOLEAN
         /\ ready' => interest' # {}
         /\ failed' \in BOOLEAN
<1>1. EventsWanted \in SUBSET (Event \union {"ET"}) /\ "ET" \in EventsWanted
  BY DEF EventsWanted, Event
<1>2. CASE UpdateSucceeds(EventsWanted)
  BY <1>1, <1>2, SubscribeTypes DEF UpdateSucceeds, TypeOK
<1>3. CASE UpdateFails
  BY <1>3 DEF UpdateFails, TypeOK
<1>4. CASE UNCHANGED << interest, ready, isInEpoll_, failed >>
  BY <1>4 DEF TypeOK
<1> QED  BY <1>2, <1>3, <1>4 DEF RefreshTrue, RefreshFalse

(* A read moves the head of the receive queue, behind the input that is    *)
(* already there, to the output.                                           *)
LEMMA ReadBytesTypes ==
  ASSUME TypeOK, ReadBytes
  PROVE  /\ rcvQ' \in Seq(Nat)
         /\ inputBuffer_' \in Seq(Nat)
         /\ outputBuffer_' \in Seq(Nat)
         /\ \E n \in 1 .. Len(rcvQ) :
              /\ rcvQ' = SubSeq(rcvQ, n + 1, Len(rcvQ))
              /\ outputBuffer_' = outputBuffer_ \o (inputBuffer_ \o SubSeq(rcvQ, 1, n))
<1> DEFINE n == IF Len(rcvQ) < ReadChunk THEN Len(rcvQ) ELSE ReadChunk
           input == inputBuffer_ \o SubSeq(rcvQ, 1, n)
<1>1. n \in 1 .. Len(rcvQ) /\ n \in 0 .. Len(rcvQ)
  BY EmptySeq DEF ReadBytes, TypeOK
<1>2. /\ rcvQ' = SubSeq(rcvQ, n + 1, Len(rcvQ))
      /\ outputBuffer_' = outputBuffer_ \o input
      /\ inputBuffer_' = input \/ inputBuffer_' = << >>
  BY DEF ReadBytes, retrieveAll
<1> HIDE DEF n
<1>3. /\ SubSeq(rcvQ, n + 1, Len(rcvQ)) \in Seq(Nat)
      /\ input \in Seq(Nat) /\ outputBuffer_ \o input \in Seq(Nat)
  BY <1>1, Cut, ConcatProperties DEF TypeOK
<1> QED  BY <1>1, <1>2, <1>3, EmptySeq

(* A turn of tryWrite's loop moves some bytes, or none, from the output to *)
(* the send queue, which does not overflow.                                *)
LEMMA TryWriteMoves ==
  ASSUME TypeOK, TryWrite
  PROVE  /\ sndQ' \in Seq(Nat) /\ Len(sndQ') <= SndCap
         /\ outputBuffer_' \in Seq(Nat)
         /\ \/ UNCHANGED << sndQ, outputBuffer_ >>
            \/ \E n \in 1 .. Len(outputBuffer_) :
                 /\ ~ reset
                 /\ sndQ' = sndQ \o SubSeq(outputBuffer_, 1, n)
                 /\ outputBuffer_' = SubSeq(outputBuffer_, n + 1, Len(outputBuffer_))
<1> DEFINE room == SndCap - Len(sndQ)
           n    == IF Len(outputBuffer_) < room THEN Len(outputBuffer_) ELSE room
<1>1. CASE UNCHANGED << sndQ, outputBuffer_ >>
  BY <1>1 DEF TypeOK
<1>2. CASE /\ ~ reset /\ n > 0
           /\ sndQ' = sndQ \o SubSeq(outputBuffer_, 1, n)
           /\ outputBuffer_' = retrieve(outputBuffer_, n)
  <2>1. /\ n \in 1 .. Len(outputBuffer_) /\ n \in 0 .. Len(outputBuffer_)
        /\ Len(sndQ) \in Nat /\ Len(sndQ) + n <= SndCap
    BY <1>2 DEF TypeOK
  <2>2. /\ sndQ' = sndQ \o SubSeq(outputBuffer_, 1, n)
        /\ outputBuffer_' = SubSeq(outputBuffer_, n + 1, Len(outputBuffer_))
    BY <1>2 DEF retrieve
  <2> HIDE DEF n
  <2>3. /\ sndQ' \in Seq(Nat) /\ Len(sndQ') = Len(sndQ) + n
        /\ outputBuffer_' \in Seq(Nat)
    <3>1. sndQ \in Seq(Nat) /\ outputBuffer_ \in Seq(Nat)
      BY DEF TypeOK
    <3>2. /\ SubSeq(outputBuffer_, 1, n) \in Seq(Nat)
          /\ Len(SubSeq(outputBuffer_, 1, n)) = n
          /\ SubSeq(outputBuffer_, n + 1, Len(outputBuffer_)) \in Seq(Nat)
      BY <2>1, <3>1, Cut
    <3> QED  BY <2>2, <3>1, <3>2, ConcatProperties
  <2>4. /\ n \in 1 .. Len(outputBuffer_) /\ ~ reset /\ Len(sndQ') <= SndCap
    BY <1>2, <2>1, <2>3
  <2> QED  BY ONLY <2>2, <2>3, <2>4
<1> QED  BY <1>1, <1>2 DEF TryWrite

-----------------------------------------------------------------------------
(* The client of a connection is that of the kernel's socket. *)
LEMMA PeerIsClient == Peer => PeerStep
  BY DEF Peer, PeerStep, PeerSend, PeerShutdown, PeerReset

(* Every variable keeps its type, the send queue never overflows, and the  *)
(* Channel's isInEpoll_ is the truth about the epoll set: ADD and MOD are  *)
(* never confused.                                                         *)
THEOREM TypeCorrect == Spec => []TypeOK
<1>1. Init => TypeOK
  <2> SUFFICES ASSUME Init PROVE TypeOK
    OBVIOUS
  <2>1. << >> \in Seq(Nat) /\ Len(<< >>) = 0
    OBVIOUS
  <2>2. /\ pc = "accepted" /\ revents_ = {} /\ interest = {} /\ nsent = 0
        /\ inputBuffer_ = << >> /\ outputBuffer_ = << >>
        /\ rcvQ = << >> /\ sndQ = << >> /\ got = << >>
    BY DEF Init
  <2>3. /\ isInEpoll_ = FALSE /\ peerClosed_ = FALSE /\ messageCallback_ \in BOOLEAN
        /\ needWrite = FALSE /\ failed = FALSE /\ ready = FALSE
        /\ fin = FALSE /\ reset = FALSE /\ sockErr = FALSE
    BY DEF Init
  <2>4. /\ inputBuffer_ \in Seq(Nat) /\ outputBuffer_ \in Seq(Nat)
        /\ rcvQ \in Seq(Nat) /\ sndQ \in Seq(Nat) /\ got \in Seq(Nat)
        /\ Len(sndQ) <= SndCap
    BY <2>1, <2>2
  <2>5. /\ nsent \in 0 .. MaxBytes
        /\ revents_ \in SUBSET Event /\ interest \in SUBSET (Event \union {"ET"})
    BY <2>2
  <2> QED  BY <2>2, <2>3, <2>4, <2>5 DEF TypeOK
<1>2. TypeOK /\ [Next]_vars => TypeOK'
  <2> SUFFICES ASSUME TypeOK, [Next]_vars PROVE TypeOK'
    OBVIOUS
  <2>1. CASE Construct
    <3>1. UNCHANGED netVars /\ UNCHANGED << revents_, inputBuffer_, outputBuffer_,
            peerClosed_, messageCallback_, needWrite >> /\ pc' = "poll"
      BY <2>1 DEF Construct
    <3>2. CASE UpdateSucceeds({"IN", "ET", "RDHUP"})
      BY <3>1, <3>2, SubscribeTypes DEF TypeOK, UpdateSucceeds, Event, netVars
    <3>3. CASE UpdateFails
      BY <3>1, <3>3 DEF TypeOK, UpdateFails, netVars
    <3> QED  BY <2>1, <3>2, <3>3 DEF Construct
  <2>2. CASE Poll
    BY <2>2, ReportedEvents DEF Poll, netVars, TypeOK
  <2>3. CASE HandleEvent
    <3>1. /\ pc' \in {"remove", "read", "refresh", "write", "poll"}
          /\ revents_' \subseteq revents_
          /\ peerClosed_' \in BOOLEAN /\ needWrite' \in BOOLEAN
      BY <2>3 DEF HandleEvent, TypeOK
    <3>2. UNCHANGED << isInEpoll_, inputBuffer_, outputBuffer_, messageCallback_,
                       failed, netVars, itemVars >>
      BY <2>3 DEF HandleEvent
    <3> QED  BY <3>1, <3>2 DEF netVars, itemVars, TypeOK
  <2>4. CASE HandleRead
    <3>1. /\ pc' \in {"read", "cbWrite", "write", "refresh", "remove"}
          /\ peerClosed_' \in BOOLEAN /\ needWrite' \in BOOLEAN /\ sockErr' \in BOOLEAN
          /\ rcvQ' \in Seq(Nat) /\ inputBuffer_' \in Seq(Nat) /\ outputBuffer_' \in Seq(Nat)
      <4>1. CASE ReadBytes
        BY <4>1, <2>4, ReadBytesTypes DEF HandleRead, ReadBytes, TypeOK
      <4>2. CASE ReadEnd
        BY <4>2 DEF ReadEnd, LeaveReadLoop, TypeOK
      <4>3. CASE ReadError
        BY <4>3 DEF ReadError, TypeOK
      <4>4. CASE ReadAgain
        BY <4>4 DEF ReadAgain, LeaveReadLoop, TypeOK
      <4> QED  BY <2>4, <4>1, <4>2, <4>3, <4>4 DEF HandleRead
    <3>2. UNCHANGED << revents_, isInEpoll_, messageCallback_, failed,
                       sndQ, fin, reset, nsent, got, itemVars >>
      BY <2>4 DEF HandleRead
    <3> QED  BY <3>1, <3>2 DEF itemVars, TypeOK
  <2>5. CASE TryWrite
    <3>1. /\ pc' \in {"write", "cbWrite", "refresh", "cbRefresh", "remove"}
          /\ sockErr' \in BOOLEAN
      BY <2>5 DEF TryWrite, TypeOK
    <3>2. /\ sndQ' \in Seq(Nat) /\ outputBuffer_' \in Seq(Nat)
          /\ Len(sndQ') <= SndCap
      BY <2>5, TryWriteMoves DEF TypeOK
    <3>3. UNCHANGED << revents_, isInEpoll_, inputBuffer_, peerClosed_,
                  messageCallback_, needWrite, failed, rcvQ, fin, reset,
                  nsent, got, itemVars >>
      BY <2>5 DEF TryWrite
    <3> QED  BY <3>1, <3>2, <3>3 DEF itemVars, TypeOK
  <2>6. CASE Refresh
    <3>1. /\ pc' \in {"dispatch", "remove"}
          /\ UNCHANGED << revents_, inputBuffer_, outputBuffer_, peerClosed_,
                          messageCallback_, needWrite, netVars >>
      BY <2>6 DEF Refresh
    <3>2. RefreshTrue \/ RefreshFalse
      BY <2>6 DEF Refresh
    <3> QED  BY <3>1, <3>2, RefreshTypes DEF netVars, TypeOK
  <2>7. CASE SendRefresh
    <3>1. /\ pc' = "read" /\ inputBuffer_' = << >>
          /\ UNCHANGED << revents_, outputBuffer_, peerClosed_,
                          messageCallback_, needWrite, netVars >>
      BY <2>7 DEF SendRefresh, retrieveAll
    <3>2. RefreshTrue \/ RefreshFalse
      BY <2>7 DEF SendRefresh
    <3> QED  BY <3>1, <3>2, RefreshTypes DEF netVars, TypeOK
  <2>8. CASE RemoveConnection
    <3>1. /\ pc' = "closed" /\ interest' = {} /\ ready' = FALSE /\ isInEpoll_' = FALSE
          /\ UNCHANGED << revents_, inputBuffer_, outputBuffer_, peerClosed_,
                  messageCallback_, needWrite, failed, rcvQ, fin, reset,
                  sockErr, nsent, got >>
      BY <2>8 DEF RemoveConnection
    <3>2. << >> \in Seq(Nat) /\ Len(<< >>) = 0
      OBVIOUS
    <3>3. sndQ' \in Seq(Nat) /\ Len(sndQ') <= SndCap
      BY <2>8, <3>2 DEF RemoveConnection, TypeOK
    <3> QED  BY <3>1, <3>3 DEF TypeOK
  <2>9. CASE Peer
    <3>1. UNCHANGED << pc, connVars >> /\ PeerStep
      BY <2>9, PeerIsClient DEF Peer
    <3>2. NetTypes' /\ interest' = interest /\ ready' \in BOOLEAN
          /\ (ready' => interest' # {})
      BY <3>1, ClientTypes DEF NetTypes, TypeOK
    <3> QED  BY <3>1, <3>2 DEF connVars, NetTypes, TypeOK
  <2>10. CASE UNCHANGED vars
    BY <2>10 DEF vars, connVars, netVars, itemVars, TypeOK
  <2> QED  BY <2>1, <2>2, <2>3, <2>4, <2>5, <2>6, <2>7, <2>8, <2>9, <2>10 DEF Next, Server
<1> QED  BY <1>1, <1>2, PTL DEF Spec

-----------------------------------------------------------------------------
(* No step of the client hides anything from a registered item. *)
LEMMA PeerKeepsArmed ==
  ASSUME TypeOK, Peer, isInEpoll_, ready \/ Reported(interest) = {}
  PROVE  ready' \/ (Reported(interest) = {})'
<1>1. NetTypes /\ interest # {}
  BY DEF NetTypes, TypeOK
<1> QED  BY <1>1, PeerIsClient, ClientKeepsArmed

-----------------------------------------------------------------------------
(* A reset is reported as an error once, and empties the send queue. *)
LEMMA ResetKept ==
  ASSUME TypeOK, ResetInv, [Next]_vars
  PROVE  ResetInv'
<1>1. CASE Construct
  BY <1>1 DEF Construct, netVars, ResetInv
<1>2. CASE Poll
  BY <1>2 DEF Poll, netVars, ResetInv
<1>3. CASE HandleEvent
  BY <1>3 DEF HandleEvent, netVars, ResetInv
<1>4. CASE HandleRead
  <2>1. UNCHANGED << sndQ, reset >>
    BY <1>4 DEF HandleRead
  <2>2. UNCHANGED sockErr \/ sockErr' = FALSE
    BY <1>4 DEF HandleRead, ReadBytes, ReadEnd, ReadError, ReadAgain
  <2> QED  BY <2>1, <2>2 DEF ResetInv
<1>5. CASE TryWrite
  BY <1>5 DEF TryWrite, ResetInv
<1>6. CASE Refresh
  BY <1>6 DEF Refresh, netVars, ResetInv
<1>7. CASE SendRefresh
  BY <1>7 DEF SendRefresh, netVars, ResetInv
<1>8. CASE RemoveConnection
  BY <1>8 DEF RemoveConnection, ResetInv
<1>9. CASE Peer
  BY <1>9 DEF Peer, PeerSend, PeerShutdown, PeerReset, PeerRead, ResetInv
<1>10. CASE UNCHANGED vars
  BY <1>10 DEF vars, netVars, ResetInv
<1> QED  BY <1>1, <1>2, <1>3, <1>4, <1>5, <1>6, <1>7, <1>8, <1>9, <1>10 DEF Next, Server

(* Handlers run for registered Channels only. *)
LEMMA RegisteredKept ==
  ASSUME TypeOK, RegisteredInv, [Next]_vars
  PROVE  RegisteredInv'
<1>1. CASE Construct
  BY <1>1 DEF Construct, RegisteredInv
<1>2. CASE Poll
  BY <1>2 DEF Poll, RegisteredInv, TypeOK
<1>3. CASE HandleEvent
  BY <1>3 DEF HandleEvent, RegisteredInv
<1>4. CASE HandleRead
  BY <1>4 DEF HandleRead, RegisteredInv
<1>5. CASE TryWrite
  BY <1>5 DEF TryWrite, RegisteredInv
<1>6. CASE Refresh
  BY <1>6 DEF Refresh, RefreshTrue, RefreshFalse, UpdateSucceeds, UpdateFails, RegisteredInv
<1>7. CASE SendRefresh
  BY <1>7 DEF SendRefresh, RefreshTrue, RefreshFalse, UpdateSucceeds, UpdateFails, RegisteredInv
<1>8. CASE RemoveConnection
  BY <1>8 DEF RemoveConnection, RegisteredInv
<1>9. CASE Peer
  BY <1>9 DEF Peer, connVars, RegisteredInv
<1>10. CASE UNCHANGED vars
  BY <1>10 DEF vars, connVars, RegisteredInv
<1> QED  BY <1>1, <1>2, <1>3, <1>4, <1>5, <1>6, <1>7, <1>8, <1>9, <1>10 DEF Next, Server

(* The end of the client's bytes is not concluded too early. *)
LEMMA UnreadKept ==
  ASSUME TypeOK, HangUpInv, NoUnreadAfterPeerClosed, [Next]_vars
  PROVE  NoUnreadAfterPeerClosed'
<1>1. CASE Construct
  BY <1>1 DEF Construct, netVars, NoUnreadAfterPeerClosed
<1>2. CASE Poll
  BY <1>2 DEF Poll, netVars, NoUnreadAfterPeerClosed
<1>3. CASE HandleEvent
  <2>1. UNCHANGED netVars
    BY <1>3 DEF HandleEvent
  <2>2. \/ UNCHANGED peerClosed_
        \/ pc = "dispatch" /\ PendingHandler = "close"
    BY <1>3 DEF HandleEvent
  <2>3. pc = "dispatch" /\ PendingHandler = "close" => rcvQ = << >> /\ (fin \/ reset)
    BY DEF PendingHandler, HangUpInv
  <2> QED  BY <2>1, <2>2, <2>3 DEF netVars, NoUnreadAfterPeerClosed
<1>4. CASE HandleRead
  BY <1>4 DEF HandleRead, ReadBytes, ReadEnd, ReadError, ReadAgain, NoUnreadAfterPeerClosed
<1>5. CASE TryWrite
  BY <1>5 DEF TryWrite, NoUnreadAfterPeerClosed
<1>6. CASE Refresh
  BY <1>6 DEF Refresh, netVars, NoUnreadAfterPeerClosed
<1>7. CASE SendRefresh
  BY <1>7 DEF SendRefresh, netVars, NoUnreadAfterPeerClosed
<1>8. CASE RemoveConnection
  BY <1>8 DEF RemoveConnection, NoUnreadAfterPeerClosed
<1>9. CASE Peer
  BY <1>9 DEF Peer, PeerSend, PeerShutdown, PeerReset, PeerRead, connVars, NoUnreadAfterPeerClosed
<1>10. CASE UNCHANGED vars
  BY <1>10 DEF vars, connVars, netVars, NoUnreadAfterPeerClosed
<1> QED  BY <1>1, <1>2, <1>3, <1>4, <1>5, <1>6, <1>7, <1>8, <1>9, <1>10 DEF Next, Server

(* Reported hang-ups are real, and handled with nothing unread. *)
LEMMA HangUpKept ==
  ASSUME TypeOK, NoUnreadAfterPeerClosed, ResetInv, RegisteredInv, SubscriptionInv, HangUpInv, [Next]_vars
  PROVE  HangUpInv'
<1>1. CASE Construct
  BY <1>1 DEF Construct, netVars, HangUpInv
<1>2. CASE Poll
  <2>1. UNCHANGED netVars /\ pc = "poll" /\ ready
    BY <1>2 DEF Poll
  <2>2. CASE UNCHANGED << pc, revents_ >>
    BY <2>1, <2>2 DEF netVars, HangUpInv
  <2>3. CASE revents_' = Reported(interest)
    <3>1. interest = EventsWanted
      BY <2>1 DEF SubscriptionInv, TypeOK
    <3>2. /\ "ERR" \in revents_' => reset
          /\ revents_' \intersect {"RDHUP", "HUP"} # {} => fin \/ reset
      BY <2>3 DEF Reported, Mask, ResetInv
    <3>3. ~ peerClosed_ /\ (fin \/ reset) => "IN" \in revents_'
      BY <2>3, <3>1 DEF Reported, Mask, Event, EventsWanted
    <3>4. peerClosed_ => rcvQ = << >>
      BY DEF NoUnreadAfterPeerClosed
    <3> QED  BY <2>1, <3>2, <3>3, <3>4 DEF netVars, HangUpInv
  <2> QED  BY <1>2, <2>2, <2>3 DEF Poll
<1>3. CASE HandleEvent
  BY <1>3 DEF HandleEvent, PendingHandler, netVars, HangUpInv
<1>4. CASE HandleRead
  BY <1>4 DEF HandleRead, ReadBytes, ReadEnd, ReadError, ReadAgain, HangUpInv
<1>5. CASE TryWrite
  BY <1>5 DEF TryWrite, HangUpInv
<1>6. CASE Refresh
  BY <1>6 DEF Refresh, netVars, HangUpInv
<1>7. CASE SendRefresh
  BY <1>7 DEF SendRefresh, netVars, HangUpInv
<1>8. CASE RemoveConnection
  BY <1>8 DEF RemoveConnection, HangUpInv
<1>9. CASE Peer
  BY <1>9 DEF Peer, PeerSend, PeerShutdown, PeerReset, PeerRead, connVars, HangUpInv
<1>10. CASE UNCHANGED vars
  BY <1>10 DEF vars, connVars, netVars, HangUpInv
<1> QED  BY <1>1, <1>2, <1>3, <1>4, <1>5, <1>6, <1>7, <1>8, <1>9, <1>10 DEF Next, Server

(* Between two handlers the subscription is what refresh computes. *)
LEMMA SubscriptionKept ==
  ASSUME TypeOK, FreshInv, RegisteredInv, SubscriptionInv, [Next]_vars
  PROVE  SubscriptionInv'
<1>1. CASE Construct
  <2>1. /\ pc = "accepted" /\ UNCHANGED << outputBuffer_, peerClosed_ >>
        /\ UpdateSucceeds({"IN", "ET", "RDHUP"}) \/ UpdateFails
    BY <1>1 DEF Construct
  <2>2. outputBuffer_ = << >> /\ ~ peerClosed_ /\ ~ isInEpoll_
    BY <2>1 DEF FreshInv
  <2>3. EventsWanted' = {"IN", "ET", "RDHUP"}
    BY <2>1, <2>2 DEF EventsWanted
  <2> QED  BY <2>1, <2>2, <2>3 DEF UpdateSucceeds, UpdateFails, Subscribe, SubscriptionInv
<1>2. CASE Poll
  BY <1>2 DEF Poll, EventsWanted, SubscriptionInv
<1>3. CASE HandleEvent
  BY <1>3 DEF HandleEvent, itemVars, EventsWanted, SubscriptionInv
<1>4. CASE HandleRead
  BY <1>4 DEF HandleRead, ReadBytes, ReadEnd, ReadError, ReadAgain, LeaveReadLoop, SubscriptionInv
<1>5. CASE TryWrite
  BY <1>5 DEF TryWrite, SubscriptionInv
<1>6. CASE Refresh
  <2>1. UNCHANGED << outputBuffer_, peerClosed_ >>
    BY <1>6 DEF Refresh
  <2>2. CASE RefreshTrue
    BY <2>1, <2>2
    DEF RefreshTrue, Finished, UpdateSucceeds, Subscribe, EventsWanted, SubscriptionInv
  <2>3. CASE pc' = "remove"
    BY <2>3 DEF SubscriptionInv
  <2> QED  BY <1>6, <2>2, <2>3 DEF Refresh
<1>7. CASE SendRefresh
  BY <1>7 DEF SendRefresh, SubscriptionInv
<1>8. CASE RemoveConnection
  BY <1>8 DEF RemoveConnection, SubscriptionInv
<1>9. CASE Peer
  BY <1>9
  DEF Peer, PeerSend, PeerShutdown, PeerReset, PeerRead, connVars, EventsWanted, SubscriptionInv
<1>10. CASE UNCHANGED vars
  BY <1>10 DEF vars, connVars, itemVars, EventsWanted, SubscriptionInv
<1> QED  BY <1>1, <1>2, <1>3, <1>4, <1>5, <1>6, <1>7, <1>8, <1>9, <1>10 DEF Next, Server

(* Nothing reportable is hidden between two handlers. *)
LEMMA ArmedKept ==
  ASSUME TypeOK, FreshInv, RegisteredInv, ArmedInv, [Next]_vars
  PROVE  ArmedInv'
<1>1. CASE Construct
  <2>1. UNCHANGED netVars /\ (UpdateSucceeds({"IN", "ET", "RDHUP"}) \/ UpdateFails)
    BY <1>1 DEF Construct
  <2>2. CASE UpdateSucceeds({"IN", "ET", "RDHUP"})
    BY <2>1, <2>2, SubscribeArms DEF UpdateSucceeds, ArmedInv
  <2>3. CASE UpdateFails
    BY <1>1, <2>3 DEF FreshInv, UpdateFails, Construct, ArmedInv
  <2> QED  BY <2>1, <2>2, <2>3
<1>2. CASE Poll
  BY <1>2 DEF Poll, Reported, Mask, netVars, ArmedInv
<1>3. CASE HandleEvent
  <2>1. /\ UNCHANGED << isInEpoll_, netVars, itemVars >>
        /\ pc = "dispatch" /\ pc' # "dispatch"
    BY <1>3 DEF HandleEvent
  <2>2. pc' = "poll" => revents_ = {}
    BY <1>3 DEF HandleEvent, PendingHandler, TypeOK, Event
  <2>3. (Reported(interest) = {})' <=> Reported(interest) = {}
    BY <2>1 DEF Reported, Mask, netVars, itemVars
  <2> QED  BY <2>1, <2>2, <2>3 DEF itemVars, ArmedInv
<1>4. CASE HandleRead
  BY <1>4 DEF HandleRead, ReadBytes, ReadEnd, ReadError, ReadAgain, LeaveReadLoop, ArmedInv
<1>5. CASE TryWrite
  BY <1>5 DEF TryWrite, ArmedInv
<1>6. CASE Refresh
  <2>1. CASE RefreshTrue
    BY <1>6, <2>1, SubscribeArms DEF Refresh, RefreshTrue, UpdateSucceeds, ArmedInv
  <2>2. CASE pc' = "remove"
    BY <2>2 DEF ArmedInv
  <2> QED  BY <1>6, <2>1, <2>2 DEF Refresh
<1>7. CASE SendRefresh
  BY <1>7 DEF SendRefresh, ArmedInv
<1>8. CASE RemoveConnection
  BY <1>8 DEF RemoveConnection, ArmedInv
<1>9. CASE Peer
  BY <1>9, PeerKeepsArmed DEF Peer, connVars, RegisteredInv, ArmedInv
<1>10. CASE UNCHANGED vars
  BY <1>10 DEF vars, connVars, netVars, itemVars, Reported, Mask, ArmedInv
<1> QED  BY <1>1, <1>2, <1>3, <1>4, <1>5, <1>6, <1>7, <1>8, <1>9, <1>10 DEF Next, Server

(* Before the constructor has run nothing has been read or registered. *)
LEMMA FreshKept ==
  ASSUME FreshInv, [Next]_vars
  PROVE  FreshInv'
<1>1. CASE Construct
  BY <1>1 DEF Construct, FreshInv
<1>2. CASE Poll
  BY <1>2 DEF Poll, FreshInv
<1>3. CASE HandleEvent
  BY <1>3 DEF HandleEvent, FreshInv
<1>4. CASE HandleRead
  BY <1>4 DEF HandleRead, ReadBytes, ReadEnd, ReadError, ReadAgain, LeaveReadLoop, FreshInv
<1>5. CASE TryWrite
  BY <1>5 DEF TryWrite, FreshInv
<1>6. CASE Refresh
  BY <1>6 DEF Refresh, FreshInv
<1>7. CASE SendRefresh
  BY <1>7 DEF SendRefresh, FreshInv
<1>8. CASE RemoveConnection
  BY <1>8 DEF RemoveConnection, FreshInv
<1>9. CASE Peer
  BY <1>9 DEF Peer, connVars, FreshInv
<1>10. CASE UNCHANGED vars
  BY <1>10 DEF vars, connVars, FreshInv
<1> QED  BY <1>1, <1>2, <1>3, <1>4, <1>5, <1>6, <1>7, <1>8, <1>9, <1>10 DEF Next, Server

(* What each point of the code relies on holds there. *)
THEOREM WakeupInvariant == Spec => []WakeupInv
<1>1. Init => WakeupInv
  BY DEF Init, WakeupInv, FreshInv, NoUnreadAfterPeerClosed, RegisteredInv, ResetInv,
         HangUpInv, SubscriptionInv, ArmedInv
<1>2. TypeOK /\ WakeupInv /\ [Next]_vars => WakeupInv'
  BY FreshKept, ResetKept, RegisteredKept, UnreadKept, HangUpKept, SubscriptionKept,
     ArmedKept DEF WakeupInv
<1> QED  BY <1>1, <1>2, TypeCorrect, PTL DEF Spec

(* A byte is never given up for lost: peerClosed_ is set only when the     *)
(* receive queue has been drained and the client really is gone.           *)
THEOREM NothingUnread == Spec => []NoUnreadAfterPeerClosed
  BY WakeupInvariant, PTL DEF WakeupInv

(* Edge-triggered notification is sound for this code: a connection that   *)
(* is not ready while the server polls has nothing to do.                  *)
THEOREM WakeupsArriveInTime == Spec => []NoLostWakeup
<1>1. TypeOK /\ WakeupInv => NoLostWakeup
  <2> SUFFICES ASSUME TypeOK, WakeupInv, pc = "poll", isInEpoll_, ~ ready
               PROVE  /\ rcvQ = << >> /\ ~ reset
                      /\ fin => peerClosed_ /\ outputBuffer_ # << >>
                      /\ outputBuffer_ # << >> => Len(sndQ) = SndCap
    BY DEF NoLostWakeup
  <2>1. Reported(interest) = {} /\ interest = EventsWanted
    BY DEF WakeupInv, ArmedInv, SubscriptionInv
  <2>2. peerClosed_ => rcvQ = << >> /\ outputBuffer_ # << >>
    BY DEF WakeupInv, NoUnreadAfterPeerClosed, SubscriptionInv
  <2>3. /\ ~ peerClosed_ => "IN" \in interest /\ "RDHUP" \in interest
        /\ outputBuffer_ # << >> => "OUT" \in interest
    BY <2>1 DEF EventsWanted
  <2>4. Len(sndQ) \in Nat /\ Len(sndQ) <= SndCap
    BY DEF TypeOK
  <2> QED  BY <2>1, <2>2, <2>3, <2>4, NothingReported
<1> QED  BY <1>1, TypeCorrect, WakeupInvariant, PTL

-----------------------------------------------------------------------------
(* The input buffer is empty outside the message callback. *)
LEMMA InputKept ==
  ASSUME InputInv, [Next]_vars
  PROVE  InputInv'
<1>1. CASE Construct
  BY <1>1 DEF Construct, InputInv
<1>2. CASE Poll
  BY <1>2 DEF Poll, InputInv
<1>3. CASE HandleEvent
  BY <1>3 DEF HandleEvent, InputInv
<1>4. CASE HandleRead
  BY <1>4
  DEF HandleRead, ReadBytes, ReadEnd, ReadError, ReadAgain, LeaveReadLoop, retrieveAll, InputInv
<1>5. CASE TryWrite
  BY <1>5 DEF TryWrite, InputInv
<1>6. CASE Refresh
  BY <1>6 DEF Refresh, InputInv
<1>7. CASE SendRefresh
  BY <1>7 DEF SendRefresh, retrieveAll, InputInv
<1>8. CASE RemoveConnection
  BY <1>8 DEF RemoveConnection, InputInv
<1>9. CASE Peer
  BY <1>9 DEF Peer, connVars, InputInv
<1>10. CASE UNCHANGED vars
  BY <1>10 DEF vars, connVars, InputInv
<1> QED  BY <1>1, <1>2, <1>3, <1>4, <1>5, <1>6, <1>7, <1>8, <1>9, <1>10 DEF Next, Server

(* A healthy connection is given up only when everything is done. *)
LEMMA RemovalKept ==
  ASSUME TypeOK, WakeupInv, RemovalInv, [Next]_vars
  PROVE  RemovalInv'
<1>1. CASE Construct
  BY <1>1 DEF Construct, RemovalInv
<1>2. CASE Poll
  BY <1>2 DEF Poll, RemovalInv
<1>3. CASE HandleEvent
  BY <1>3 DEF HandleEvent, PendingHandler, netVars, WakeupInv, HangUpInv, RemovalInv
<1>4. CASE HandleRead
  BY <1>4
  DEF HandleRead, ReadBytes, ReadEnd, ReadError, ReadAgain, LeaveReadLoop, WakeupInv, ResetInv, RemovalInv
<1>5. CASE TryWrite
  BY <1>5 DEF TryWrite, RemovalInv
<1>6. CASE Refresh
  BY <1>6
  DEF Refresh, RefreshFalse, UpdateFails, Finished, netVars, WakeupInv, NoUnreadAfterPeerClosed, RemovalInv
<1>7. CASE SendRefresh
  BY <1>7 DEF SendRefresh, RemovalInv
<1>8. CASE RemoveConnection
  BY <1>8 DEF RemoveConnection, RemovalInv
<1>9. CASE Peer
  BY <1>9 DEF Peer, PeerSend, PeerShutdown, PeerReset, PeerRead, connVars, RemovalInv
<1>10. CASE UNCHANGED vars
  BY <1>10 DEF vars, connVars, netVars, RemovalInv
<1> QED  BY <1>1, <1>2, <1>3, <1>4, <1>5, <1>6, <1>7, <1>8, <1>9, <1>10 DEF Next, Server

(* What has been echoed is a prefix, and so is what has arrived. *)
LEMMA EchoedIsPrefix ==
  ASSUME TypeOK', ((got' \o sndQ') \o outputBuffer_') \o rcvQ' = Bytes(nsent')
  PROVE  EchoInOrder'
<1>1. /\ got' \in Seq(Nat) /\ sndQ' \in Seq(Nat) /\ nsent' \in Nat
      /\ outputBuffer_' \in Seq(Nat) /\ rcvQ' \in Seq(Nat)
  BY DEF TypeOK
<1>2. ((got' \o sndQ') \o outputBuffer_') \o rcvQ' = Bytes(nsent')
  OBVIOUS
<1>3. got' \o sndQ' = Bytes(Len(got') + Len(sndQ'))
  BY ONLY <1>1, <1>2, EchoedIsBytes
<1> QED  BY <1>3 DEF EchoInOrder

(* No step loses, repeats or reorders bytes. *)
LEMMA EchoKept ==
  ASSUME TypeOK, TypeOK', WakeupInv, InputInv, EchoInOrder, [Next]_vars
  PROVE  EchoInOrder'
<1>1. CASE Construct
  <2>1. UNCHANGED << got, sndQ, outputBuffer_, rcvQ, nsent, reset >> /\ (pc = "closed" => pc' = "closed")
    BY <1>1 DEF Construct, netVars
  <2> QED  BY <2>1 DEF EchoInOrder
<1>2. CASE Poll
  <2>1. UNCHANGED << got, sndQ, outputBuffer_, rcvQ, nsent, reset >> /\ (pc = "closed" => pc' = "closed")
    BY <1>2 DEF Poll, netVars
  <2> QED  BY <2>1 DEF EchoInOrder
<1>3. CASE HandleEvent
  <2>1. UNCHANGED << got, sndQ, outputBuffer_, rcvQ, nsent, reset >> /\ (pc = "closed" => pc' = "closed")
    BY <1>3 DEF HandleEvent, netVars
  <2> QED  BY <2>1 DEF EchoInOrder
<1>4. CASE HandleRead
  <2>1. UNCHANGED << got, sndQ, nsent, reset >> /\ pc = "read" /\ pc' # "closed"
    BY <1>4 DEF HandleRead, ReadBytes, ReadEnd, ReadError, ReadAgain, LeaveReadLoop
  <2>2. CASE UNCHANGED << rcvQ, outputBuffer_ >>
    BY <2>1, <2>2 DEF EchoInOrder
  <2>3. CASE ReadBytes
    <3>1. PICK n \in 1 .. Len(rcvQ) :
            /\ rcvQ' = SubSeq(rcvQ, n + 1, Len(rcvQ))
            /\ outputBuffer_' = outputBuffer_ \o (inputBuffer_ \o SubSeq(rcvQ, 1, n))
      BY <2>3, ReadBytesTypes
    <3>2. /\ got \in Seq(Nat) /\ sndQ \in Seq(Nat)
          /\ outputBuffer_ \in Seq(Nat) /\ rcvQ \in Seq(Nat)
      BY DEF TypeOK
    <3> DEFINE echoed == got \o sndQ
               chunk  == SubSeq(rcvQ, 1, n)
               rest   == SubSeq(rcvQ, n + 1, Len(rcvQ))
    <3>3. echoed \in Seq(Nat) /\ echoed \o outputBuffer_ \in Seq(Nat)
      BY <3>2, ConcatProperties
    <3>4. /\ chunk \in Seq(Nat) /\ rest \in Seq(Nat)
          /\ ((echoed \o outputBuffer_) \o chunk) \o rest = (echoed \o outputBuffer_) \o rcvQ
      BY <3>1, <3>2, <3>3, ChunkMoves
    <3>5. outputBuffer_' = outputBuffer_ \o chunk
      <4>1. inputBuffer_ = << >>
        BY <2>1 DEF InputInv
      <4>2. << >> \o chunk = chunk
        BY <3>4, ConcatEmptySeq
      <4> QED  BY <3>1, <4>1, <4>2
    <3>6. echoed \o (outputBuffer_ \o chunk) = (echoed \o outputBuffer_) \o chunk
      <4> HIDE DEF echoed, chunk
      <4> QED  BY ONLY <3>2, <3>3, <3>4, Associative
    <3> QED  BY <2>1, <3>1, <3>4, <3>5, <3>6 DEF EchoInOrder
  <2> QED  BY <1>4, <2>2, <2>3 DEF HandleRead, ReadEnd, ReadError, ReadAgain
<1>5. CASE TryWrite
  <2>1. UNCHANGED << got, rcvQ, nsent, reset >> /\ pc # "closed" /\ pc' # "closed"
    BY <1>5 DEF TryWrite
  <2>2. CASE UNCHANGED << sndQ, outputBuffer_ >>
    BY <2>1, <2>2 DEF EchoInOrder
  <2>3. ASSUME NEW n \in 1 .. Len(outputBuffer_), ~ reset,
               sndQ' = sndQ \o SubSeq(outputBuffer_, 1, n),
               outputBuffer_' = SubSeq(outputBuffer_, n + 1, Len(outputBuffer_))
        PROVE  EchoInOrder'
    <3>1. /\ got \in Seq(Nat) /\ sndQ \in Seq(Nat)
          /\ outputBuffer_ \in Seq(Nat) /\ rcvQ \in Seq(Nat)
      BY DEF TypeOK
    <3>2. /\ got \o sndQ \in Seq(Nat)
          /\ SubSeq(outputBuffer_, 1, n) \in Seq(Nat)
          /\ ((got \o sndQ) \o SubSeq(outputBuffer_, 1, n))
               \o SubSeq(outputBuffer_, n + 1, Len(outputBuffer_)) = (got \o sndQ) \o outputBuffer_
      BY <3>1, ChunkMoves, ConcatProperties
    <3>3. got' \o sndQ' = (got \o sndQ) \o SubSeq(outputBuffer_, 1, n)
      <4>1. got \o (sndQ \o SubSeq(outputBuffer_, 1, n)) = (got \o sndQ) \o SubSeq(outputBuffer_, 1, n)
        BY ONLY <3>1, <3>2, Associative
      <4> QED  BY <2>1, <2>3, <4>1
    <3>4. ((got' \o sndQ') \o outputBuffer_') \o rcvQ' = Bytes(nsent')
      BY <2>1, <2>3, <3>2, <3>3 DEF EchoInOrder
    <3> QED  BY <3>4, EchoedIsPrefix
  <2> QED  BY <1>5, <2>2, <2>3, TryWriteMoves
<1>6. CASE Refresh
  <2>1. UNCHANGED << got, sndQ, outputBuffer_, rcvQ, nsent, reset >> /\ (pc = "closed" => pc' = "closed")
    BY <1>6 DEF Refresh, netVars
  <2> QED  BY <2>1 DEF EchoInOrder
<1>7. CASE SendRefresh
  <2>1. UNCHANGED << got, sndQ, outputBuffer_, rcvQ, nsent, reset >> /\ (pc = "closed" => pc' = "closed")
    BY <1>7 DEF SendRefresh, netVars
  <2> QED  BY <2>1 DEF EchoInOrder
<1>8. CASE RemoveConnection
  <2>1. pc' = "closed" /\ UNCHANGED got /\ (UNCHANGED sndQ \/ sndQ' = << >>)
    BY <1>8 DEF RemoveConnection
  <2>2. got \o << >> = Bytes(Len(got) + Len(<< >>))
    BY GotIsBytes DEF NetTypes, TypeOK, EchoInOrder
  <2> QED  BY <2>1, <2>2 DEF EchoInOrder
<1>9. CASE Peer
  <2>1. UNCHANGED << pc, outputBuffer_ >> /\ NetTypes
    BY <1>9 DEF Peer, connVars, NetTypes, TypeOK
  <2>2. got \o sndQ \in Seq(Nat) /\ (got \o sndQ) \o outputBuffer_ \in Seq(Nat)
    BY ConcatProperties DEF TypeOK
  <2>3. CASE PeerSend(pc # "closed")
    <3>1. PeerSend(TRUE) /\ pc # "closed"
      BY <2>3 DEF PeerSend
    <3>2. /\ UNCHANGED << got, sndQ >> /\ ~ reset
          /\ \A s \in Seq(Nat) : s \o rcvQ = Bytes(nsent) => s \o rcvQ' = Bytes(nsent')
      BY <2>1, <3>1, ClientSendsInOrder
    <3> QED  BY <2>1, <2>2, <3>1, <3>2 DEF EchoInOrder
  <2>4. CASE PeerShutdown(pc # "closed")
    BY <2>1, <2>4 DEF PeerShutdown, EchoInOrder
  <2>5. CASE PeerReset(pc # "closed")
    <3>1. reset' /\ UNCHANGED got /\ sndQ' = << >>
      BY <2>5 DEF PeerReset
    <3>2. got \o << >> = Bytes(Len(got) + Len(<< >>))
      BY <2>1, GotIsBytes DEF EchoInOrder
    <3> QED  BY <3>1, <3>2 DEF EchoInOrder
  <2>6. CASE PeerRead
    BY <2>1, <2>6, ClientReadsInOrder DEF EchoInOrder
  <2> QED  BY <1>9, <2>3, <2>4, <2>5, <2>6 DEF Peer
<1>10. CASE UNCHANGED vars
  <2>1. UNCHANGED << got, sndQ, outputBuffer_, rcvQ, nsent, reset >> /\ (pc = "closed" => pc' = "closed")
    BY <1>10 DEF vars, connVars, netVars
  <2> QED  BY <2>1 DEF EchoInOrder
<1> QED  BY <1>1, <1>2, <1>3, <1>4, <1>5, <1>6, <1>7, <1>8, <1>9, <1>10 DEF Next, Server

(* A close without an abort finds every byte echoed. *)
LEMMA GracefulKept ==
  ASSUME TypeOK, RemovalInv, EchoInOrder, GracefulClose, [Next]_vars
  PROVE  GracefulClose'
<1>1. CASE Construct
  <2>1. pc' # "closed"
    BY <1>1 DEF Construct
  <2> QED  BY <2>1 DEF GracefulClose
<1>2. CASE Poll
  <2>1. pc' # "closed"
    BY <1>2 DEF Poll
  <2> QED  BY <2>1 DEF GracefulClose
<1>3. CASE HandleEvent
  <2>1. pc' # "closed"
    BY <1>3 DEF HandleEvent
  <2> QED  BY <2>1 DEF GracefulClose
<1>4. CASE HandleRead
  <2>1. pc' # "closed"
    BY <1>4 DEF HandleRead, ReadBytes, ReadEnd, ReadError, ReadAgain, LeaveReadLoop
  <2> QED  BY <2>1 DEF GracefulClose
<1>5. CASE TryWrite
  <2>1. pc' # "closed"
    BY <1>5 DEF TryWrite
  <2> QED  BY <2>1 DEF GracefulClose
<1>6. CASE Refresh
  <2>1. pc' # "closed"
    BY <1>6 DEF Refresh
  <2> QED  BY <2>1 DEF GracefulClose
<1>7. CASE SendRefresh
  <2>1. pc' # "closed"
    BY <1>7 DEF SendRefresh
  <2> QED  BY <2>1 DEF GracefulClose
<1>8. CASE RemoveConnection
  <2>1. UNCHANGED << fin, reset, failed, got, nsent >> /\ pc = "remove"
    BY <1>8 DEF RemoveConnection
  <2>2. ASSUME ~ reset, ~ failed  PROVE fin /\ got \o sndQ' = Bytes(nsent)
    <3>1. fin /\ rcvQ = << >> /\ outputBuffer_ = << >>
      BY <2>1, <2>2 DEF RemovalInv
    <3>2. sndQ' = sndQ
      BY <1>8, <3>1 DEF RemoveConnection
    <3>3. ((got \o sndQ) \o << >>) \o << >> = Bytes(nsent)
      BY <2>1, <2>2, <3>1 DEF EchoInOrder
    <3>4. got \o sndQ \in Seq(Nat)
      BY ConcatProperties DEF TypeOK
    <3> QED  BY <3>1, <3>2, <3>3, <3>4, ConcatEmptySeq
  <2> QED  BY <2>1, <2>2 DEF GracefulClose
<1>9. CASE Peer
  <2>1. UNCHANGED << pc, failed >>
    BY <1>9 DEF Peer, connVars
  <2>2. CASE pc # "closed"
    BY <2>1, <2>2 DEF GracefulClose
  <2>3. CASE pc = "closed" /\ PeerRead
    <3>1. got' \o sndQ' = got \o sndQ
      BY <2>3, HeadMoves DEF PeerRead, TypeOK
    <3> QED  BY <2>1, <2>3, <3>1 DEF PeerRead, GracefulClose
  <2> QED  BY <1>9, <2>2, <2>3 DEF Peer, PeerSend, PeerShutdown, PeerReset
<1>10. CASE UNCHANGED vars
  BY <1>10 DEF vars, connVars, netVars, GracefulClose
<1> QED  BY <1>1, <1>2, <1>3, <1>4, <1>5, <1>6, <1>7, <1>8, <1>9, <1>10 DEF Next, Server

(* Reading takes nothing away from the output. *)
LEMMA ReadGrows ==
  ASSUME TypeOK, ReadBytes
  PROVE  outputBuffer_ # << >> => outputBuffer_' # << >>
<1> DEFINE n     == IF Len(rcvQ) < ReadChunk THEN Len(rcvQ) ELSE ReadChunk
           input == inputBuffer_ \o SubSeq(rcvQ, 1, n)
<1>1. /\ rcvQ \in Seq(Nat) /\ inputBuffer_ \in Seq(Nat) /\ outputBuffer_ \in Seq(Nat)
      /\ n \in 0 .. Len(rcvQ)
  BY ConnectionAssumption DEF TypeOK
<1>2. outputBuffer_' = outputBuffer_ \o input
  BY DEF ReadBytes
<1> HIDE DEF n
<1>3. input \in Seq(Nat)
  BY <1>1, Cut, ConcatProperties
<1> HIDE DEF input
<1>4. Len(outputBuffer_ \o input) = Len(outputBuffer_) + Len(input) /\ Len(input) \in Nat
  BY <1>1, <1>3, ConcatProperties
<1>5. outputBuffer_ # << >> => Len(outputBuffer_) # 0
  BY <1>1, EmptySeq
<1>6. Len(outputBuffer_) \in Nat  BY <1>1
<1>7. outputBuffer_ # << >> => Len(outputBuffer_') # 0
  BY ONLY <1>2, <1>4, <1>5, <1>6
<1> QED  BY <1>7

(* The error of a reset is met by a handler that gives up. *)
LEMMA ErrorKept ==
  ASSUME TypeOK, ErrorInv, [Next]_vars
  PROVE  ErrorInv'
<1>1. CASE Construct \/ Poll \/ Refresh \/ SendRefresh \/ RemoveConnection \/ UNCHANGED vars
  BY <1>1 DEF Construct, Poll, Refresh, SendRefresh, RemoveConnection, vars, connVars, netVars,
              ErrorInv
<1>2. CASE HandleEvent
  BY <1>2 DEF HandleEvent, netVars, ErrorInv
<1>3. CASE HandleRead
  <2>1. UNCHANGED reset /\ pc = "read"
    BY <1>3 DEF HandleRead
  <2>2. CASE ReadBytes
    <3>1. /\ needWrite' = TRUE /\ pc' \in {"read", "cbWrite"} /\ sockErr' = sockErr
      BY <2>1, <2>2 DEF ReadBytes
    <3>2. outputBuffer_ # << >> => outputBuffer_' # << >>
      BY <2>2, ReadGrows
    <3> QED  BY <2>1, <3>1, <3>2 DEF ErrorInv
  <2>3. CASE ReadEnd \/ ReadError \/ ReadAgain
    BY <2>1, <2>3 DEF ReadEnd, ReadError, ReadAgain, LeaveReadLoop, ErrorInv
  <2> QED  BY <1>3, <2>2, <2>3 DEF HandleRead
<1>4. CASE TryWrite
  BY <1>4 DEF TryWrite, ErrorInv
<1>5. CASE Peer
  BY <1>5 DEF Peer, PeerSend, PeerShutdown, PeerReset, PeerRead, connVars, ErrorInv
<1> QED  BY <1>1, <1>2, <1>3, <1>4, <1>5 DEF Next, Server

(* A hang-up that the handlers at work do not know of yet is in the ready  *)
(* list.                                                                   *)
LEMMA SeenKept ==
  ASSUME TypeOK, TypeOK', FreshInv, RegisteredInv, SubscriptionInv, ArmedInv, ErrorInv, SeenInv,
         [Next]_vars
  PROVE  SeenInv'
<1>1. CASE Construct
  BY <1>1 DEF Construct, UpdateSucceeds, UpdateFails, Subscribe, FreshInv, SeenInv
<1>2. CASE Poll
  <2>1. CASE Reported(interest) = {}
    BY <1>2, <2>1 DEF Poll, SeenInv
  <2>2. CASE Reported(interest) # {}
    <3>1. /\ pc = "poll" /\ revents_' = Reported(interest) /\ pc' = "dispatch"
          /\ UNCHANGED << reset, sockErr, fin, interest, isInEpoll_, peerClosed_ >>
      BY <1>2, <2>2 DEF Poll, netVars
    <3>2. reset => "ERR" \in revents_'
      BY <3>1 DEF ErrorInv, Reported, Mask, Event
    <3>3. isInEpoll_
      BY <1>2 DEF Poll, TypeOK
    <3>4. fin /\ ~ peerClosed_ => "RDHUP" \in revents_'
      BY <3>1, <3>3 DEF SeenInv, Reported, Mask, Event
    <3> QED  BY <3>1, <3>2, <3>4 DEF SeenInv
  <2> QED  BY <2>1, <2>2
<1>3. CASE HandleEvent
  <2>1. UNCHANGED << isInEpoll_, interest, ready, reset, fin >> /\ pc = "dispatch"
    BY <1>3 DEF HandleEvent, netVars, itemVars
  <2>2. "ERR" \in revents_ => pc' = "remove"
    BY <1>3 DEF HandleEvent, PendingHandler
  <2>3. peerClosed_' \/ (~ peerClosed_
          /\ (pc' # "remove" /\ revents_ \intersect {"RDHUP", "HUP"} # {}
               => revents_' \intersect {"RDHUP", "HUP"} # {}))
    BY <1>3 DEF HandleEvent, TypeOK
  <2> QED  BY <2>1, <2>2, <2>3 DEF SeenInv
<1>4. CASE HandleRead
  <2>1. /\ UNCHANGED << isInEpoll_, interest, ready, reset, fin, revents_ >> /\ pc = "read"
        /\ peerClosed_' = peerClosed_ \/ peerClosed_' = TRUE
        /\ pc' \in {"read", "cbWrite", "write", "refresh", "remove"}
    BY <1>4 DEF HandleRead, ReadBytes, ReadEnd, ReadError, ReadAgain, LeaveReadLoop, itemVars
  <2> QED  BY <2>1 DEF SeenInv
<1>5. CASE TryWrite
  BY <1>5 DEF TryWrite, itemVars, SeenInv
<1>6. CASE Refresh \/ SendRefresh
  <2>1. /\ UNCHANGED << reset, fin, revents_, peerClosed_ >>
        /\ pc \in {"refresh", "cbRefresh"} /\ pc' \in {"dispatch", "read", "remove"}
    BY <1>6 DEF Refresh, SendRefresh, netVars
  <2>2. RefreshTrue \/ RefreshFalse
    BY <1>6 DEF Refresh, SendRefresh
  <2>3. /\ ready => ready'
        /\ isInEpoll_' /\ ~ peerClosed_ => "IN" \in interest' /\ "RDHUP" \in interest'
    <3>1. CASE RefreshTrue
      BY <3>1 DEF RefreshTrue, UpdateSucceeds, Subscribe, EventsWanted
    <3>2. CASE RefreshFalse
      BY <3>2 DEF RefreshFalse, UpdateFails, SeenInv
    <3> QED  BY <2>2, <3>1, <3>2
  <2> QED  BY <2>1, <2>3 DEF SeenInv
<1>7. CASE RemoveConnection
  BY <1>7 DEF RemoveConnection, SeenInv
<1>8. CASE Peer
  <2>1. UNCHANGED << pc, revents_, isInEpoll_, peerClosed_, interest >>
    BY <1>8 DEF Peer, connVars, PeerSend, PeerShutdown, PeerReset, PeerRead
  <2>2. pc \notin {"accepted", "poll", "closed"} => interest # {}
    BY DEF RegisteredInv, TypeOK
  <2>3. ready => ready'
    BY <1>8 DEF Peer, PeerSend, PeerShutdown, PeerReset, PeerRead, Wake
  <2>4. pc \notin {"accepted", "poll", "closed"} =>
          (reset' => reset \/ ready') /\ (fin' => fin \/ ready')
    <3> SUFFICES ASSUME interest # {}
                 PROVE  (reset' => reset \/ ready') /\ (fin' => fin \/ ready')
      BY <2>2
    <3>1. CASE PeerShutdown(pc # "closed")
      BY <3>1 DEF PeerShutdown
    <3>2. CASE PeerReset(pc # "closed")
      BY <3>2 DEF PeerReset
    <3>3. CASE PeerSend(pc # "closed") \/ PeerRead
      BY <3>3 DEF PeerSend, PeerRead
    <3> QED  BY <1>8, <3>1, <3>2, <3>3 DEF Peer
  <2> QED  BY <2>1, <2>3, <2>4 DEF SeenInv
<1>9. CASE UNCHANGED vars
  BY <1>9 DEF vars, connVars, netVars, itemVars, SeenInv
<1> QED  BY <1>1, <1>2, <1>3, <1>4, <1>5, <1>6, <1>7, <1>8, <1>9 DEF Next, Server

(* All of it together is inductive. *)
THEOREM Invariant == Spec => []IInv
<1>1. Init => ErrorInv /\ SeenInv /\ InputInv /\ RemovalInv /\ EchoInOrder /\ GracefulClose
  <2> SUFFICES ASSUME Init PROVE EchoInOrder
    BY DEF Init, ErrorInv, SeenInv, InputInv, RemovalInv, GracefulClose
  <2>1. << >> \o << >> = << >> /\ Len(<< >>) = 0 /\ << >> = Bytes(0)
    BY DEF Bytes
  <2> QED  BY <2>1 DEF Init, EchoInOrder
<1>2. TypeOK /\ TypeOK' /\ WakeupInv /\ InputInv /\ RemovalInv /\ EchoInOrder /\ GracefulClose
        /\ [Next]_vars
      => (InputInv /\ RemovalInv /\ EchoInOrder /\ GracefulClose)'
  BY InputKept, RemovalKept, EchoKept, GracefulKept
<1>3. TypeOK /\ TypeOK' /\ WakeupInv /\ ErrorInv /\ SeenInv /\ [Next]_vars
      => (ErrorInv /\ SeenInv)'
  BY ErrorKept, SeenKept DEF WakeupInv
<1> QED  BY <1>1, <1>2, <1>3, TypeCorrect, WakeupInvariant, PTL DEF Spec, IInv

(* What the client gets is what it sent, in order, up to some byte. *)
THEOREM EchoesInOrder == Spec => []EchoInOrder
  BY Invariant, PTL DEF IInv

(* A half close is answered with all pending output before the close. *)
THEOREM ClosesGracefully == Spec => []GracefulClose
  BY Invariant, PTL DEF IInv

(* Every byte of an open healthy connection is in one of four places. *)
LEMMA EchoCounts ==
  ASSUME TypeOK, EchoInOrder, ~ reset, pc # "closed"
  PROVE  /\ Len(got) \in Nat /\ Len(sndQ) \in Nat
         /\ Len(outputBuffer_) \in Nat /\ Len(rcvQ) \in Nat
         /\ Len(got) + Len(sndQ) + Len(outputBuffer_) + Len(rcvQ) = nsent
<1>1. /\ got \in Seq(Nat) /\ sndQ \in Seq(Nat) /\ outputBuffer_ \in Seq(Nat)
      /\ rcvQ \in Seq(Nat) /\ nsent \in Nat
  BY DEF TypeOK
<1>2. got \o sndQ \in Seq(Nat) /\ Len(got \o sndQ) = Len(got) + Len(sndQ)
  BY <1>1, ConcatProperties
<1>3. /\ (got \o sndQ) \o outputBuffer_ \in Seq(Nat)
      /\ Len((got \o sndQ) \o outputBuffer_) = Len(got) + Len(sndQ) + Len(outputBuffer_)
  BY <1>1, <1>2, ConcatProperties
<1>4. Len(((got \o sndQ) \o outputBuffer_) \o rcvQ)
        = Len(got) + Len(sndQ) + Len(outputBuffer_) + Len(rcvQ)
  BY <1>1, <1>3, ConcatProperties
<1>5. Len(Bytes(nsent)) = nsent
  BY <1>1, BytesType
<1>6. ((got \o sndQ) \o outputBuffer_) \o rcvQ = Bytes(nsent)
  BY DEF EchoInOrder
<1>7. /\ Len(got) \in Nat /\ Len(sndQ) \in Nat
      /\ Len(outputBuffer_) \in Nat /\ Len(rcvQ) \in Nat
  BY <1>1
<1> QED  BY ONLY <1>4, <1>5, <1>6, <1>7

-----------------------------------------------------------------------------
(* The parts of Work are numbers, and Work orders them by their weight.    *)
LEMMA WorkTypes ==
  ASSUME TypeOK
  PROVE  WorkLeft \in Nat /\ Round \in 0 .. 2 /\ Calls \in 0 .. 3 /\ Steps \in 0 .. 24
<1>1. Len(rcvQ) \in Nat /\ Len(outputBuffer_) \in Nat /\ Stage \in 0 .. 3
  BY DEF TypeOK, Stage
<1>2. WorkLeft \in Nat
  BY <1>1 DEF WorkLeft
<1>3. Round \in 0 .. 2 /\ Calls \in 0 .. 3
  BY DEF Round, Calls
<1>4. Steps \in 0 .. 24
  BY <1>3 DEF Steps
<1> QED  BY <1>2, <1>3, <1>4

LEMMA WorkTypesNext ==
  ASSUME TypeOK'
  PROVE  WorkLeft' \in Nat /\ Round' \in 0 .. 2 /\ Calls' \in 0 .. 3 /\ Steps' \in 0 .. 24
<1>1. Len(rcvQ') \in Nat /\ Len(outputBuffer_') \in Nat /\ Stage' \in 0 .. 3
  BY DEF TypeOK, Stage
<1>2. WorkLeft' \in Nat
  BY <1>1 DEF WorkLeft
<1>3. Round' \in 0 .. 2 /\ Calls' \in 0 .. 3
  BY DEF Round, Calls
<1>4. Steps' \in 0 .. 24
  BY <1>3 DEF Steps
<1> QED  BY <1>2, <1>3, <1>4

LEMMA Weights ==
  ASSUME NEW w \in Nat, NEW r \in 0 .. 2, NEW s \in 0 .. 24,
         NEW w1 \in Nat, NEW r1 \in 0 .. 2, NEW s1 \in 0 .. 24,
         w1 < w \/ (w1 = w /\ (r1 < r \/ (r1 = r /\ s1 < s)))
  PROVE  /\ 32 * (3 * w1 + r1) + s1 \in Nat
         /\ 32 * (3 * w1 + r1) + s1 < 32 * (3 * w + r) + s
  OBVIOUS

LEMMA LessWork ==
  ASSUME TypeOK, TypeOK',
         \/ WorkLeft' < WorkLeft
         \/ WorkLeft' = WorkLeft /\ Round' < Round
         \/ WorkLeft' = WorkLeft /\ Round' = Round /\ Steps' < Steps
  PROVE  Work' \in Nat /\ Work' < Work
<1>1. /\ WorkLeft \in Nat /\ Round \in 0 .. 2 /\ Steps \in 0 .. 24
      /\ WorkLeft' \in Nat /\ Round' \in 0 .. 2 /\ Steps' \in 0 .. 24
  BY WorkTypes, WorkTypesNext
<1> QED  BY <1>1, Weights DEF Work

(* A step within a call comes nearer to its end, and gives up none of the  *)
(* work that the call has come for without doing it.                       *)
InCall == pc \notin {"accepted", "poll", "remove", "closed"}

LEMMA CallStep ==
  ASSUME TypeOK, TypeOK', InCall, InCall', UNCHANGED << rcvQ, outputBuffer_ >>,
         peerClosed_ => peerClosed_', peerClosed_' = peerClosed_ /\ Working => Working',
         Steps' < Steps
  PROVE  Work' \in Nat /\ Work' < Work
<1>1. /\ Len(rcvQ) \in Nat /\ Len(outputBuffer_) \in Nat
      /\ peerClosed_ \in BOOLEAN /\ peerClosed_' \in BOOLEAN
      /\ Stage = 2 /\ Stage' = 2
  BY DEF TypeOK, InCall, Stage
<1>2. CASE ~ peerClosed_ /\ peerClosed_'
  <2>1. WorkLeft' < WorkLeft
    BY <1>1, <1>2 DEF WorkLeft
  <2> QED  BY <2>1, LessWork
<1>3. CASE peerClosed_' = peerClosed_
  <2>1. WorkLeft' = WorkLeft
    BY <1>1, <1>3 DEF WorkLeft
  <2>2. /\ Round = IF Working THEN 0 ELSE 2
        /\ Round' = IF Working' THEN 0 ELSE 2
    BY DEF InCall, Round
  <2>3. Round' < Round \/ Round' = Round
    BY <1>3, <2>2
  <2> QED  BY <2>1, <2>3, LessWork
<1> QED  BY <1>1, <1>2, <1>3

(* A handler that returns false leaves nothing but the removal.            *)
LEMMA LeavingStep ==
  ASSUME TypeOK, TypeOK', InCall, pc' = "remove",
         UNCHANGED << rcvQ, outputBuffer_, peerClosed_ >>
  PROVE  Work' \in Nat /\ Work' < Work
<1>1. /\ Len(rcvQ) \in Nat /\ Len(outputBuffer_) \in Nat
      /\ Stage = 2 /\ Stage' = 1
  BY DEF TypeOK, InCall, Stage
<1>2. WorkLeft' < WorkLeft
  BY <1>1 DEF WorkLeft
<1> QED  BY <1>2, LessWork

(* What epoll_wait reports is work for a handler.                          *)
LEMMA PollHasWork ==
  ASSUME TypeOK, TypeOK', SubscriptionInv, ErrorInv, Poll
  PROVE  Work' \in Nat /\ Work' < Work
<1>1. /\ pc = "poll" /\ ready /\ isInEpoll_
      /\ UNCHANGED << rcvQ, outputBuffer_, peerClosed_, sndQ, fin, reset >>
  BY DEF Poll, TypeOK, netVars
<1>2. WorkLeft' = WorkLeft
  BY <1>1 DEF Poll, WorkLeft, Stage
<1>3. Round = 1
  BY <1>1 DEF Round
<1>4. CASE Reported(interest) = {}
  <2>1. Round' = 0
    BY <1>1, <1>4 DEF Poll, Round
  <2> QED  BY <1>2, <1>3, <2>1, LessWork
<1>5. CASE Reported(interest) # {}
  <2>1. pc' = "dispatch" /\ revents_' = Reported(interest)
    BY <1>5 DEF Poll
  <2>2. interest = EventsWanted
    BY <1>1 DEF SubscriptionInv
  <2>3. reset => sockErr
    BY <1>1 DEF ErrorInv
  <2>4. PICK e \in Event : e \in Reported(interest)
    BY <1>5, ReportedEvents
  <2>5. e \in Mask /\ e \in EventsWanted \union {"HUP", "ERR"}
    BY <2>2, <2>4 DEF Reported
  <2>6. ASSUME e = "IN" PROVE Working'
    <3>1. ReadWork
      BY <2>5, <2>6 DEF Mask, EventsWanted, ReadWork
    <3> QED  BY <1>1, <2>1, <2>4, <2>6, <3>1 DEF Working, ReadWork
  <2>7. ASSUME e = "OUT" PROVE Working'
    <3>1. WriteWork
      BY <2>5, <2>7 DEF Mask, EventsWanted, WriteWork
    <3> QED  BY <1>1, <2>1, <2>4, <2>7, <3>1 DEF Working, WriteWork
  <2>8. ASSUME e = "RDHUP" PROVE Working'
    <3>1. ~ peerClosed_
      BY <2>5, <2>8 DEF EventsWanted
    <3> QED  BY <1>1, <2>1, <2>4, <2>8, <3>1 DEF Working
  <2>9. ASSUME e \in {"HUP", "ERR"} PROVE Working'
    <3>1. "ERR" \in Reported(interest)
      BY <2>3, <2>5, <2>9 DEF Mask, Reported, Event
    <3> QED  BY <2>1, <3>1 DEF Working
  <2>10. Working'
    BY <2>6, <2>7, <2>8, <2>9 DEF Event
  <2>11. Round' = 0
    BY <2>1, <2>10 DEF Round
  <2> QED  BY <1>2, <1>3, <2>11, LessWork
<1> QED  BY <1>4, <1>5

LEMMA ConstructHasWork ==
  ASSUME TypeOK, TypeOK', Construct
  PROVE  Work' \in Nat /\ Work' < Work
<1>1. /\ UNCHANGED << rcvQ, outputBuffer_, peerClosed_ >> /\ Stage = 3 /\ Stage' = 2
      /\ Len(rcvQ) \in Nat /\ Len(outputBuffer_) \in Nat
  BY DEF Construct, netVars, Stage, TypeOK
<1>2. WorkLeft' < WorkLeft
  BY <1>1 DEF WorkLeft
<1> QED  BY <1>2, LessWork

(* The events of a call are handled one after the other.                   *)
LEMMA EventHasWork ==
  ASSUME TypeOK, TypeOK', HandleEvent
  PROVE  Work' \in Nat /\ Work' < Work
<1>1. /\ pc = "dispatch" /\ InCall
      /\ UNCHANGED << rcvQ, outputBuffer_, sndQ, fin, reset >>
  BY DEF HandleEvent, netVars, InCall
<1>2. CASE PendingHandler = "error"
  BY <1>1, <1>2, LeavingStep DEF HandleEvent
<1>3. CASE PendingHandler = "none"
  <2>1. /\ pc' = "poll" /\ revents_ = {} /\ UNCHANGED peerClosed_
    BY <1>3 DEF HandleEvent, PendingHandler, TypeOK, Event
  <2>2. ~ Working
    BY <1>1, <2>1 DEF Working
  <2>3. Round = 2 /\ Round' \in 0 .. 1 /\ WorkLeft' = WorkLeft
    BY <1>1, <2>1, <2>2 DEF Round, WorkLeft, Stage
  <2> QED  BY <2>3, LessWork
<1>4. CASE PendingHandler = "read"
  <2>1. /\ pc' = "read" /\ revents_' = revents_ \ {"IN"} /\ "IN" \in revents_
        /\ UNCHANGED peerClosed_
    BY <1>4 DEF HandleEvent, PendingHandler
  <2>2. Calls' = Calls - 1 /\ Calls \in 0 .. 3
    BY <2>1, WorkTypes DEF Calls
  <2>3. Steps' < Steps
    BY <1>1, <2>1, <2>2 DEF Steps
  <2>4. Working => Working'
    BY <1>1, <2>1 DEF Working, ReadWork, WriteWork
  <2> QED  BY <1>1, <2>1, <2>3, <2>4, CallStep DEF InCall
<1>5. CASE PendingHandler = "close"
  <2>1. /\ pc' = "refresh" /\ revents_' = revents_ \ {"RDHUP", "HUP"} /\ peerClosed_' = TRUE
        /\ revents_ \intersect {"RDHUP", "HUP"} # {}
    BY <1>5 DEF HandleEvent, PendingHandler
  <2>2. Calls' = Calls - 1 /\ Calls \in 0 .. 3
    BY <2>1, WorkTypes DEF Calls
  <2>3. Steps' < Steps
    BY <1>1, <2>1, <2>2 DEF Steps
  <2>4. peerClosed_' = peerClosed_ /\ Working => Working'
    BY <1>1, <2>1 DEF Working, ReadWork, WriteWork
  <2> QED  BY <1>1, <2>1, <2>3, <2>4, CallStep DEF InCall
<1>6. CASE PendingHandler = "write"
  <2>1. /\ pc' = "write" /\ revents_' = revents_ \ {"OUT"} /\ "OUT" \in revents_
        /\ UNCHANGED peerClosed_
    BY <1>6 DEF HandleEvent, PendingHandler
  <2>2. Calls' = Calls - 1 /\ Calls \in 0 .. 3
    BY <2>1, WorkTypes DEF Calls
  <2>3. Steps' < Steps
    BY <1>1, <2>1, <2>2 DEF Steps
  <2>4. Working => Working'
    BY <1>1, <2>1 DEF Working, ReadWork, WriteWork
  <2> QED  BY <1>1, <2>1, <2>3, <2>4, CallStep DEF InCall
<1> QED  BY <1>2, <1>3, <1>4, <1>5, <1>6 DEF HandleEvent

LEMMA ReadHasWork ==
  ASSUME TypeOK, TypeOK', InputInv, HandleRead
  PROVE  Work' \in Nat /\ Work' < Work
<1>1. /\ pc = "read" /\ InCall /\ inputBuffer_ = << >>
      /\ UNCHANGED << sndQ, fin, reset, revents_ >>
  BY DEF HandleRead, InCall, InputInv
<1>2. CASE ReadBytes
  <2>1. PICK n \in 1 .. Len(rcvQ) :
          /\ rcvQ' = SubSeq(rcvQ, n + 1, Len(rcvQ))
          /\ outputBuffer_' = outputBuffer_ \o (inputBuffer_ \o SubSeq(rcvQ, 1, n))
    BY <1>2, ReadBytesTypes
  <2>2. /\ rcvQ \in Seq(Nat) /\ outputBuffer_ \in Seq(Nat) /\ << >> \in Seq(Nat)
        /\ n \in 0 .. Len(rcvQ) /\ Len(<< >>) = 0
    BY DEF TypeOK
  <2>3. /\ Len(SubSeq(rcvQ, 1, n)) = n /\ SubSeq(rcvQ, 1, n) \in Seq(Nat)
        /\ Len(rcvQ') = Len(rcvQ) - n
    BY <2>1, <2>2, Cut
  <2>4. Len(outputBuffer_') = Len(outputBuffer_) + n
    <3>1. /\ << >> \o SubSeq(rcvQ, 1, n) \in Seq(Nat)
          /\ Len(<< >> \o SubSeq(rcvQ, 1, n)) = n
      BY <2>2, <2>3, ConcatProperties
    <3> QED  BY <1>1, <2>1, <2>2, <3>1, ConcatProperties
  <2>5. /\ Len(rcvQ) \in Nat /\ Len(outputBuffer_) \in Nat
        /\ UNCHANGED peerClosed_ /\ Stage = 2 /\ Stage' = 2
    BY <1>1, <1>2, <2>2 DEF ReadBytes, Stage
  <2>6. WorkLeft' < WorkLeft
    BY <2>3, <2>4, <2>5 DEF WorkLeft
  <2> QED  BY <2>6, LessWork
<1>3. CASE ReadError
  BY <1>1, <1>3, LeavingStep DEF ReadError
<1>4. CASE ReadEnd \/ ReadAgain
  <2>1. /\ UNCHANGED << rcvQ, outputBuffer_ >> /\ pc' \in {"write", "refresh"}
        /\ rcvQ = << >>
        /\ peerClosed_' = TRUE \/ (peerClosed_' = peerClosed_ /\ ~ fin /\ ~ reset)
    BY <1>4 DEF ReadEnd, ReadAgain, LeaveReadLoop
  <2>2. Calls' = Calls /\ Calls \in 0 .. 3
    BY <1>1, WorkTypes DEF Calls
  <2>3. Steps' < Steps
    BY <1>1, <2>1, <2>2 DEF Steps
  <2>4. peerClosed_' = peerClosed_ => ~ ReadWork
    BY <2>1 DEF ReadWork
  <2>5. peerClosed_' = peerClosed_ /\ Working => Working'
    BY <1>1, <2>1, <2>4 DEF Working, WriteWork
  <2>6. peerClosed_ => peerClosed_'
    BY <2>1
  <2> QED  BY <1>1, <2>1, <2>3, <2>5, <2>6, CallStep DEF InCall
<1> QED  BY <1>2, <1>3, <1>4 DEF HandleRead

LEMMA WriteHasWork ==
  ASSUME TypeOK, TypeOK', TryWrite
  PROVE  Work' \in Nat /\ Work' < Work
<1>1. /\ pc \in {"write", "cbWrite"} /\ InCall
      /\ UNCHANGED << revents_, rcvQ, fin, reset, peerClosed_ >>
  BY DEF TryWrite, InCall
<1>2. /\ Len(rcvQ) \in Nat /\ Len(outputBuffer_) \in Nat /\ Len(sndQ) \in Nat
      /\ Calls \in 0 .. 3
  BY WorkTypes DEF TypeOK
<1>3. ASSUME NEW n \in 1 .. Len(outputBuffer_), pc' = pc,
             outputBuffer_' = SubSeq(outputBuffer_, n + 1, Len(outputBuffer_))
      PROVE  Work' \in Nat /\ Work' < Work
  <2>1. Len(outputBuffer_') = Len(outputBuffer_) - n
    <3>1. outputBuffer_ \in Seq(Nat) /\ n \in 0 .. Len(outputBuffer_)
      BY DEF TypeOK
    <3> QED  BY <1>3, <3>1, Cut
  <2>2. Stage = 2 /\ Stage' = 2
    BY <1>1, <1>3 DEF Stage
  <2>3. WorkLeft' < WorkLeft
    BY <1>1, <1>2, <2>1, <2>2 DEF WorkLeft
  <2> QED  BY <2>3, LessWork
<1>4. CASE pc' = pc
  <2>1. ~ UNCHANGED << sndQ, outputBuffer_ >>
    BY <1>4, <1>1 DEF TryWrite
  <2> QED  BY <1>3, <1>4, <2>1, TryWriteMoves
<1>5. CASE pc' = "remove"
  BY <1>1, <1>5, LeavingStep DEF TryWrite
<1>6. CASE pc' \notin {pc, "remove"}
  <2>1. /\ UNCHANGED << sndQ, outputBuffer_ >>
        /\ pc' = IF pc = "write" THEN "refresh" ELSE "cbRefresh"
    BY <1>1, <1>6 DEF TryWrite
  <2>2. pc = "write" => ~ WriteWork
    <3>1. CASE outputBuffer_ = << >>
      BY <3>1 DEF WriteWork
    <3>2. CASE outputBuffer_ # << >>
      <4>1. Len(outputBuffer_) # 0
        BY <3>2, EmptySeq DEF TypeOK
      <4> QED  BY <1>2, <1>6, <3>2, <4>1 DEF TryWrite, WriteWork
    <3> QED  BY <3>1, <3>2
  <2>3. Working => Working'
    BY <1>1, <2>1, <2>2 DEF Working, ReadWork, WriteWork
  <2>4. Calls' = Calls
    BY <1>1 DEF Calls
  <2>5. Steps' < Steps
    BY <1>1, <1>2, <2>1, <2>4 DEF Steps
  <2> QED  BY <1>1, <2>1, <2>3, <2>5, CallStep DEF InCall
<1> QED  BY <1>4, <1>5, <1>6

LEMMA RefreshHasWork ==
  ASSUME TypeOK, TypeOK', Refresh \/ SendRefresh
  PROVE  Work' \in Nat /\ Work' < Work
<1>1. /\ pc \in {"refresh", "cbRefresh"} /\ InCall
      /\ UNCHANGED << revents_, rcvQ, sndQ, fin, reset, outputBuffer_, peerClosed_ >>
      /\ \/ pc' = "remove"
         \/ pc = "refresh" /\ pc' = "dispatch"
         \/ pc = "cbRefresh" /\ pc' = "read"
  BY DEF Refresh, SendRefresh, netVars, InCall
<1>2. CASE pc' = "remove"
  BY <1>1, <1>2, LeavingStep
<1>3. CASE pc' # "remove"
  <2>1. Calls' = Calls /\ Calls \in 0 .. 3
    BY <1>1, WorkTypes DEF Calls
  <2>2. Steps' < Steps
    BY <1>1, <1>3, <2>1 DEF Steps
  <2>3. Working => Working'
    BY <1>1, <1>3 DEF Working, ReadWork, WriteWork
  <2> QED  BY <1>1, <1>3, <2>2, <2>3, CallStep DEF InCall
<1> QED  BY <1>2, <1>3

LEMMA RemovalHasWork ==
  ASSUME TypeOK, TypeOK', RemoveConnection
  PROVE  Work' \in Nat /\ Work' < Work
<1>1. /\ UNCHANGED << rcvQ, outputBuffer_, peerClosed_ >> /\ Stage = 1 /\ Stage' = 0
      /\ Len(rcvQ) \in Nat /\ Len(outputBuffer_) \in Nat
  BY DEF RemoveConnection, Stage, TypeOK
<1>2. WorkLeft' < WorkLeft
  BY <1>1 DEF WorkLeft
<1> QED  BY <1>2, LessWork

(* Every step of the server lessens the work that is left: between two     *)
(* steps of the client it takes a bounded number of steps, whatever the    *)
(* sizes of the buffers, the failures of epoll_ctl and what is pending.    *)
THEOREM ServerNeverSpins == Spec => NoBusyLoop
<1>1. TypeOK /\ TypeOK' /\ IInv /\ [Next]_vars
        => [Server => Work' \in Nat /\ Work' < Work]_vars
  <2> SUFFICES ASSUME TypeOK, TypeOK', SubscriptionInv, ErrorInv, InputInv, Server
               PROVE  Work' \in Nat /\ Work' < Work
    BY DEF IInv, WakeupInv
  <2> QED
    BY ConstructHasWork, PollHasWork, EventHasWork, ReadHasWork, WriteHasWork, RefreshHasWork,
       RemovalHasWork
    DEF Server
<1> QED  BY <1>1, TypeCorrect, Invariant, PTL DEF Spec, NoBusyLoop

-----------------------------------------------------------------------------
(* When the server rests and the client has taken what there was, every    *)
(* byte has come back and nobody who has hung up is left open.             *)
THEOREM RestsWhenAllIsDone == Spec => []AtRestAllIsDone
<1>1. TypeOK /\ NoLostWakeup /\ EchoInOrder => AtRestAllIsDone
  <2> SUFFICES ASSUME TypeOK, NoLostWakeup, EchoInOrder,
                      pc = "poll", isInEpoll_, ~ ready, sndQ = << >>
               PROVE  Len(got) = nsent /\ ~ fin /\ ~ reset
    BY DEF AtRestAllIsDone
  <2>1. Len(sndQ) = 0 /\ Len(rcvQ) = 0 /\ Len(<< >>) = 0 /\ ~ reset
    BY DEF NoLostWakeup
  <2>2. outputBuffer_ = << >> /\ ~ fin
    BY <2>1 DEF NoLostWakeup
  <2>3. /\ Len(got) \in Nat /\ nsent \in Nat
        /\ Len(got) + Len(sndQ) + Len(outputBuffer_) + Len(rcvQ) = nsent
    BY <2>1, EchoCounts DEF TypeOK
  <2> QED  BY <2>1, <2>2, <2>3
<1> QED  BY <1>1, TypeCorrect, WakeupsArriveInTime, EchoesInOrder, PTL
=============================================================================
