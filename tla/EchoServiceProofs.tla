------------------------- MODULE EchoServiceProofs -------------------------
(***************************************************************************)
(* TcpConnection implements EchoService: whatever the sizes of the         *)
(* buffers, the order of events and the failures of epoll_ctl, the client  *)
(* sees a service that echoes in order and closes when it has promised to. *)
(* And it implements ConnectionHandler: the event loop sees handlers that  *)
(* say in time when the connection is at its end.                          *)
(***************************************************************************)
EXTENDS TcpConnectionProofs

(* A step that the client cannot see, unless an epoll_ctl call fails. *)
LEMMA Unseen ==
  ASSUME UNCHANGED << nsent, got, sndQ, fin, reset >>,
         pc # "closed", pc' # "closed", UNCHANGED failed \/ failed' = TRUE
  PROVE  [Service!Next]_Service!vars
<1>1. CASE UNCHANGED failed
  BY <1>1 DEF Service!vars
<1>2. CASE failed' = TRUE
  BY <1>2 DEF Service!Next, Service!Abort
<1> QED  BY <1>1, <1>2

(* A turn of tryWrite's loop echoes what send has taken. *)
LEMMA WriteEchoes ==
  ASSUME TypeOK, EchoInOrder, TryWrite
  PROVE  [Service!Next]_Service!vars
<1>1. /\ UNCHANGED << nsent, got, fin, reset, failed >>
      /\ pc # "closed" /\ pc' # "closed"
  BY DEF TryWrite
<1>2. CASE UNCHANGED sndQ
  BY <1>1, <1>2, Unseen
<1>3. ASSUME NEW n \in 1 .. Len(outputBuffer_), ~ reset,
             sndQ' = sndQ \o SubSeq(outputBuffer_, 1, n)
      PROVE  Service!Next
  <2>1. /\ sndQ \in Seq(Nat) /\ outputBuffer_ \in Seq(Nat)
        /\ Len(outputBuffer_) \in Nat /\ n \in 0 .. Len(outputBuffer_)
        /\ nsent \in 0 .. MaxBytes
    BY DEF TypeOK
  <2>2. Len(sndQ') = Len(sndQ) + n
    BY <1>3, <2>1, Cut, ConcatProperties
  <2>3. /\ n \in 1 .. nsent - (Len(got) + Len(sndQ)) /\ n \in 1 .. MaxBytes
        /\ Len(got) + (Len(sndQ) + n) = (Len(got) + Len(sndQ)) + n
    BY <1>1, <1>3, <2>1, EchoCounts, KernelAssumption
  <2>4. Service!Echo(n)
    BY <1>1, <2>2, <2>3 DEF Service!Echo
  <2> QED  BY <2>3, <2>4 DEF Service!Next
<1> QED  BY <1>1, <1>2, <1>3, TryWriteMoves

(* A removal is a close of the service: in good order, or because of a     *)
(* reset or of a failed call.                                              *)
LEMMA RemovalCloses ==
  ASSUME TypeOK, RemovalInv, EchoInOrder, RemoveConnection
  PROVE  Service!Next
<1>1. /\ UNCHANGED << nsent, got, fin, reset, failed >>
      /\ pc = "remove" /\ pc' = "closed"
      /\ sndQ' = sndQ \/ sndQ' = << >>
      /\ rcvQ = << >> => sndQ' = sndQ
  BY DEF RemoveConnection
<1>2. CASE ~ reset /\ ~ failed
  <2>1. fin /\ rcvQ = << >> /\ outputBuffer_ = << >> /\ sndQ' = sndQ
    BY <1>1, <1>2 DEF RemovalInv
  <2>2. Len(got) + Len(sndQ) = nsent
    BY <1>1, <1>2, <2>1, EchoCounts
  <2> QED  BY <1>1, <2>1, <2>2 DEF Service!Next, Service!Close
<1>3. CASE reset \/ failed
  <2>1. Len(got) + Len(sndQ') \in {Len(got) + Len(sndQ), Len(got)}
    <3>1. Len(got) \in Nat /\ Len(<< >>) = 0
      BY DEF TypeOK
    <3> QED  BY ONLY <1>1, <3>1
  <2> QED  BY <1>1, <1>3, <2>1 DEF Service!Next, Service!CloseAborted
<1> QED  BY <1>2, <1>3

(* What the client does, it does to the service. *)
LEMMA PeerActs ==
  ASSUME TypeOK, Peer
  PROVE  [Service!Next]_Service!vars
<1>1. UNCHANGED << pc, failed >> /\ got \in Seq(Nat) /\ sndQ \in Seq(Nat) /\ nsent \in Nat
  BY DEF Peer, connVars, TypeOK
<1>2. CASE PeerSend(pc # "closed")
  BY <1>1, <1>2 DEF PeerSend, Service!Next, Service!Send
<1>3. CASE PeerShutdown(pc # "closed")
  BY <1>1, <1>3 DEF PeerShutdown, Service!Next, Service!HalfClose
<1>4. CASE PeerReset(pc # "closed")
  <2>1. Len(got) + Len(sndQ') = Len(got)
    BY <1>1, <1>4 DEF PeerReset
  <2> QED  BY <1>1, <1>4, <2>1 DEF PeerReset, Service!Next, Service!Abort
<1>5. CASE PeerRead
  <2>1. /\ Len(got') = Len(got) + 1 /\ Len(sndQ') = Len(sndQ) - 1
        /\ Len(got) \in Nat /\ Len(sndQ) \in Nat \ {0}
    BY <1>1, <1>5, HeadTailProperties, AppendProperties, EmptySeq DEF PeerRead
  <2>2. /\ Len(got) < Len(got) + Len(sndQ)
        /\ Len(got') + Len(sndQ') = Len(got) + Len(sndQ)
    BY <2>1
  <2> QED  BY <1>1, <1>5, <2>1, <2>2 DEF PeerRead, Service!Next, Service!Deliver
<1> QED  BY <1>2, <1>3, <1>4, <1>5 DEF Peer

(* Every step of a connection is a step of the service or invisible.       *)
THEOREM ConnectionIsEchoService == Spec => ImplementsEchoService
<1>1. Init => Service!Init
  BY DEF Init, Service!Init
<1>2. TypeOK /\ RemovalInv /\ EchoInOrder /\ [Next]_vars => [Service!Next]_Service!vars
  <2> SUFFICES ASSUME TypeOK, RemovalInv, EchoInOrder, [Next]_vars
               PROVE  [Service!Next]_Service!vars
    OBVIOUS
  <2>1. CASE Construct
    <3>1. /\ UNCHANGED << nsent, got, sndQ, fin, reset >> /\ pc # "closed" /\ pc' # "closed"
          /\ UNCHANGED failed \/ failed' = TRUE
      BY <2>1 DEF Construct, UpdateSucceeds, UpdateFails, netVars
    <3> QED  BY <3>1, Unseen
  <2>2. CASE Poll
    <3>1. /\ UNCHANGED << nsent, got, sndQ, fin, reset, failed >>
          /\ pc # "closed" /\ pc' # "closed"
      BY <2>2 DEF Poll, netVars
    <3> QED  BY <3>1, Unseen
  <2>3. CASE HandleEvent
    <3>1. /\ UNCHANGED << nsent, got, sndQ, fin, reset, failed >>
          /\ pc # "closed" /\ pc' # "closed"
      BY <2>3 DEF HandleEvent, netVars
    <3> QED  BY <3>1, Unseen
  <2>4. CASE HandleRead
    <3>1. /\ UNCHANGED << nsent, got, sndQ, fin, reset, failed >>
          /\ pc # "closed" /\ pc' # "closed"
      BY <2>4 DEF HandleRead, ReadBytes, ReadEnd, ReadError, ReadAgain, LeaveReadLoop
    <3> QED  BY <3>1, Unseen
  <2>5. CASE TryWrite
    BY <2>5, WriteEchoes
  <2>6. CASE Refresh
    <3>1. /\ UNCHANGED << nsent, got, sndQ, fin, reset >> /\ pc # "closed" /\ pc' # "closed"
          /\ UNCHANGED failed \/ failed' = TRUE
      BY <2>6 DEF Refresh, RefreshTrue, RefreshFalse, UpdateSucceeds, UpdateFails, netVars
    <3> QED  BY <3>1, Unseen
  <2>7. CASE SendRefresh
    <3>1. /\ UNCHANGED << nsent, got, sndQ, fin, reset >> /\ pc # "closed" /\ pc' # "closed"
          /\ UNCHANGED failed \/ failed' = TRUE
      BY <2>7 DEF SendRefresh, RefreshTrue, RefreshFalse, UpdateSucceeds, UpdateFails, netVars
    <3> QED  BY <3>1, Unseen
  <2>8. CASE RemoveConnection
    BY <2>8, RemovalCloses
  <2>9. CASE Peer
    BY <2>9, PeerActs
  <2>10. CASE UNCHANGED vars
    BY <2>10 DEF vars, connVars, netVars, Service!vars
  <2> QED
    BY <2>1, <2>2, <2>3, <2>4, <2>5, <2>6, <2>7, <2>8, <2>9, <2>10 DEF Next, Server
<1> QED
  BY <1>1, <1>2, TypeCorrect, Invariant, PTL
  DEF Spec, IInv, ImplementsEchoService, Service!Spec

-----------------------------------------------------------------------------
(* The end of a connection is noted wherever no handler is at work, and a  *)
(* handler at work meets it, unless epoll reports the connection again.    *)
EndNoted ==
  /\ pc \in {"accepted", "poll"} /\ AtEnd => Unhandled
  /\ pc \notin {"accepted", "poll", "remove", "closed"} /\ AtEnd =>
       Unhandled \/ MeetsEnd \/ (pc = "dispatch" /\ "ERR" \in revents_)

LEMMA EndIsSeen ==
  ASSUME TypeOK, WakeupInv, ErrorInv, SeenInv
  PROVE  EndNoted
<1> USE DEF WakeupInv
<1>1. ASSUME AtEnd
      PROVE  Reported({"IN", "ET", "RDHUP"}) # {}
  BY <1>1, NothingReported DEF AtEnd
<1>2. ASSUME pc = "poll", isInEpoll_, AtEnd
      PROVE  Unhandled
  <2>1. ready \/ Reported(interest) = {}
    BY <1>2 DEF ArmedInv
  <2>2. peerClosed_ => outputBuffer_ # << >>
    BY <1>2 DEF SubscriptionInv
  <2>3. Reported(interest) # {}
    BY <1>2, <2>2, NothingReported DEF AtEnd, SeenInv
  <2> QED  BY <1>2, <2>1, <2>3 DEF Unhandled
<1>3. ASSUME pc \notin {"accepted", "poll", "remove", "closed"}, reset,
             ~ (pc = "dispatch" /\ "ERR" \in revents_)
      PROVE  Unhandled
  <2>1. isInEpoll_ /\ ready
    BY <1>3 DEF RegisteredInv, SeenInv
  <2>2. Reported(interest) # {}
    BY <1>3, NothingReported
  <2> QED  BY <2>1, <2>2 DEF Unhandled
<1>4. ASSUME pc \notin {"accepted", "poll", "remove", "closed"}, AtEnd, ~ reset
      PROVE  Unhandled \/ MeetsEnd
  <2>1. fin /\ rcvQ = << >> /\ outputBuffer_ = << >>
    BY <1>4 DEF AtEnd
  <2>2. pc \in {"read", "cbWrite", "cbRefresh", "dispatch", "write", "refresh"}
    BY <1>4 DEF TypeOK
  <2>3. CASE peerClosed_ \/ revents_ \intersect {"RDHUP", "HUP"} # {}
    BY <2>1, <2>2, <2>3 DEF MeetsEnd
  <2>4. CASE ready /\ ~ peerClosed_
    <3>1. isInEpoll_ /\ "RDHUP" \in interest
      BY <1>4, <2>4 DEF RegisteredInv, SeenInv
    <3>2. Reported(interest) # {}
      BY <2>1, <3>1, NothingReported
    <3> QED  BY <2>4, <3>1, <3>2 DEF Unhandled
  <2> QED  BY <1>4, <2>1, <2>3, <2>4 DEF SeenInv
<1>5. ASSUME pc \in {"accepted", "poll"}, ~ isInEpoll_, AtEnd
      PROVE  Unhandled
  BY <1>1, <1>5 DEF Unhandled
<1>6. pc = "accepted" => ~ isInEpoll_
  BY DEF FreshInv
<1> QED  BY <1>2, <1>3, <1>4, <1>5, <1>6 DEF EndNoted

(* What the handlers' side may do while a handler is at work.              *)
LEMMA CallGoesOn ==
  ASSUME Place = "handler", Place' = "handler", UNCHANGED failed,
         Ended => Ended', Ended /\ Dirty' => Dirty
  PROVE  [Handler!Next]_Handler!vars
<1>1. /\ Ended \in BOOLEAN /\ Ended' \in BOOLEAN /\ Dirty \in BOOLEAN /\ Dirty' \in BOOLEAN
  BY DEF Ended, Dirty
<1> HIDE DEF Place, Ended, Dirty
<1>2. CASE Ended /\ (Dirty <=> Dirty')
  BY <1>1, <1>2 DEF Handler!vars
<1>3. CASE Ended /\ Dirty /\ ~ Dirty'
  BY <1>1, <1>3 DEF Handler!Next, Handler!More
<1>4. CASE ~ Ended /\ Ended'
  BY <1>1, <1>4 DEF Handler!Next, Handler!Finish
<1>5. CASE ~ Ended /\ ~ Ended' /\ (Dirty <=> Dirty')
  BY <1>1, <1>5 DEF Handler!vars
<1>6. CASE ~ Ended /\ ~ Ended' /\ Dirty /\ ~ Dirty'
  BY <1>1, <1>6 DEF Handler!Next, Handler!More
<1>7. CASE ~ Ended /\ ~ Ended' /\ ~ Dirty /\ Dirty'
  BY <1>1, <1>7 DEF Handler!Next, Handler!Event
<1> QED  BY <1>2, <1>3, <1>4, <1>5, <1>6, <1>7

(* What may happen to a connection that waits for a call.                  *)
LEMMA WaitGoesOn ==
  ASSUME Place \in {"new", "epoll", "lost"}, Place' = Place, UNCHANGED failed,
         Ended => Ended', Dirty => Dirty', Ended => Dirty, Ended' => Dirty'
  PROVE  [Handler!Next]_Handler!vars
<1>1. /\ Ended \in BOOLEAN /\ Ended' \in BOOLEAN /\ Dirty \in BOOLEAN /\ Dirty' \in BOOLEAN
  BY DEF Ended, Dirty
<1>2. CASE Ended
  BY <1>1, <1>2 DEF Handler!vars
<1>3. CASE ~ Ended /\ Ended'
  BY <1>1, <1>3 DEF Handler!Next, Handler!Finish
<1>4. CASE ~ Ended /\ ~ Ended' /\ (Dirty <=> Dirty')
  BY <1>1, <1>4 DEF Handler!vars
<1>5. CASE ~ Ended /\ ~ Ended' /\ ~ Dirty /\ Dirty'
  BY <1>1, <1>5 DEF Handler!Next, Handler!Event
<1> QED  BY <1>2, <1>3, <1>4, <1>5

(* A part of a call that leaves the epoll set alone hides nothing, and     *)
(* goes on to the end if that is where it is going.                        *)
LEMMA CallAdvances ==
  ASSUME pc \notin {"accepted", "poll", "remove", "closed"},
         pc' \notin {"accepted", "poll", "remove", "closed"},
         UNCHANGED << failed, interest, ready, isInEpoll_ >>, Mask' \subseteq Mask,
         AtEnd => AtEnd', MeetsEnd => MeetsEnd'
  PROVE  [Handler!Next]_Handler!vars
<1>1. Place = "handler" /\ Place' = "handler"
  BY DEF Place
<1>2. Unhandled' => Unhandled
  BY DEF Unhandled, Reported
<1>3. Dirty' => Dirty
  BY <1>2 DEF Dirty
<1>4. Ended => Ended'
  BY DEF Ended
<1> QED  BY <1>1, <1>3, <1>4, CallGoesOn

(* A handler that returns false, at the end of the connection or after a   *)
(* failure.                                                                *)
LEMMA CallFails ==
  ASSUME pc \notin {"accepted", "poll", "remove", "closed"}, pc' = "remove",
         \/ AtEnd /\ UNCHANGED failed
         \/ failed' = TRUE
  PROVE  Handler!Next
<1>1. Place = "handler" /\ Place' = "remove"
  BY DEF Place
<1>2. Ended' = TRUE /\ Dirty' = FALSE /\ (AtEnd => Ended = TRUE)
  BY DEF Ended, Dirty
<1> HIDE DEF Place, Ended, Dirty
<1> QED  BY <1>1, <1>2 DEF Handler!Next, Handler!ReturnFalse

(* The event loop goes through the events of one call.                     *)
LEMMA EventIsCall ==
  ASSUME TypeOK, WakeupInv, EndNoted, HandleEvent
  PROVE  [Handler!Next]_Handler!vars
<1>1. /\ pc = "dispatch" /\ UNCHANGED << rcvQ, outputBuffer_, fin, reset, failed, interest,
                                        ready, isInEpoll_ >>
      /\ Mask' = Mask
  BY DEF HandleEvent, netVars, itemVars, Mask
<1>2. CASE PendingHandler = "error"
  <2>1. pc' = "remove" /\ "ERR" \in revents_
    BY <1>2 DEF HandleEvent, PendingHandler
  <2>2. AtEnd
    BY <2>1 DEF WakeupInv, HangUpInv, AtEnd
  <2> QED  BY <1>1, <2>1, <2>2, CallFails
<1>3. CASE PendingHandler = "none"
  <2>1. pc' = "poll" /\ revents_ = {} /\ UNCHANGED << peerClosed_, revents_ >>
    BY <1>3 DEF HandleEvent, PendingHandler, TypeOK, Event
  <2>2. isInEpoll_ /\ (peerClosed_ => outputBuffer_ # << >>)
    BY <1>1 DEF WakeupInv, RegisteredInv, SubscriptionInv
  <2>3. ~ MeetsEnd
    BY <1>1, <2>1, <2>2 DEF MeetsEnd
  <2>4. Place = "handler" /\ Place' = "epoll"
    BY <1>1, <2>1, <2>2 DEF Place
  <2>5. Dirty' = Dirty /\ (Dirty <=> Unhandled) /\ Dirty \in BOOLEAN
    BY <1>1, <2>1, <2>3 DEF Dirty, MeetsEnd, Unhandled, Reported
  <2>6. Ended' = Ended /\ (Ended <=> AtEnd)
    BY <1>1, <2>1 DEF Ended, AtEnd
  <2>7. Ended => Dirty
    BY <1>1, <2>1, <2>3, <2>5, <2>6 DEF EndNoted
  <2> HIDE DEF Place, Dirty, Ended
  <2> QED  BY <1>1, <2>4, <2>5, <2>6, <2>7 DEF Handler!Next, Handler!ReturnTrue
<1>4. CASE PendingHandler \in {"read", "close", "write"}
  <2>1. /\ pc' \in {"read", "write"} \/ (pc' = "refresh" /\ peerClosed_')
        /\ pc' = "write" => peerClosed_' = peerClosed_ /\ revents_' = revents_ \ {"OUT"}
    BY <1>4 DEF HandleEvent
  <2>2. AtEnd => AtEnd'
    BY <1>1 DEF AtEnd
  <2>3. MeetsEnd => MeetsEnd'
    BY <1>1, <2>1 DEF MeetsEnd
  <2> QED  BY <1>1, <2>1, <2>2, <2>3, CallAdvances
<1> QED  BY <1>2, <1>3, <1>4 DEF HandleEvent

(* Reading only takes from what there is to report, and returns false only *)
(* for the error of a reset.                                               *)
LEMMA ReadIsCall ==
  ASSUME TypeOK, WakeupInv, HandleRead
  PROVE  [Handler!Next]_Handler!vars
<1>1. /\ pc = "read"
      /\ UNCHANGED << fin, reset, failed, interest, ready, isInEpoll_, sndQ >>
  BY DEF HandleRead, itemVars
<1>2. CASE ReadBytes
  <2>1. rcvQ # << >> /\ sockErr' = sockErr /\ pc' \in {"read", "cbWrite"}
    BY <1>1, <1>2 DEF ReadBytes
  <2>2. Mask' \subseteq Mask
    BY <1>1, <2>1 DEF Mask
  <2>3. (AtEnd => AtEnd') /\ ~ MeetsEnd
    BY <1>1, <2>1 DEF AtEnd, MeetsEnd
  <2> QED  BY <1>1, <2>1, <2>2, <2>3, CallAdvances
<1>3. CASE ReadError
  <2>1. pc' = "remove" /\ AtEnd
    BY <1>3 DEF ReadError, WakeupInv, ResetInv, AtEnd
  <2> QED  BY <1>1, <2>1, CallFails
<1>4. CASE ReadEnd \/ ReadAgain
  <2>1. /\ UNCHANGED << rcvQ, outputBuffer_, sockErr >>
        /\ pc' \in {"write", "refresh"}
        /\ fin => peerClosed_'
    BY <1>1, <1>4 DEF ReadEnd, ReadAgain, LeaveReadLoop
  <2>2. Mask' \subseteq Mask
    BY <1>1, <2>1 DEF Mask
  <2>3. (AtEnd => AtEnd') /\ (MeetsEnd => MeetsEnd')
    BY <1>1, <2>1 DEF AtEnd, MeetsEnd
  <2> QED  BY <1>1, <2>1, <2>2, <2>3, CallAdvances
<1> QED  BY <1>2, <1>3, <1>4 DEF HandleRead

(* Writing only fills the send buffer, and returns false only after a      *)
(* reset.                                                                  *)
LEMMA WriteIsCall ==
  ASSUME TypeOK, TryWrite
  PROVE  [Handler!Next]_Handler!vars
<1>1. /\ pc \in {"write", "cbWrite"}
      /\ UNCHANGED << rcvQ, fin, reset, failed, interest, ready, isInEpoll_, peerClosed_,
                      revents_ >>
      /\ sockErr' => sockErr
  BY DEF TryWrite, itemVars
<1>2. outputBuffer_ = << >> => /\ UNCHANGED << sndQ, outputBuffer_ >>
                               /\ pc' = IF pc = "write" THEN "refresh" ELSE "cbRefresh"
  BY DEF TryWrite
<1>3. Len(sndQ') >= Len(sndQ) /\ Len(sndQ') \in Nat /\ Len(sndQ) \in Nat
  <2>1. sndQ \in Seq(Nat) /\ outputBuffer_ \in Seq(Nat)
    BY DEF TypeOK
  <2>2. ASSUME NEW n \in 1 .. Len(outputBuffer_), sndQ' = sndQ \o SubSeq(outputBuffer_, 1, n)
        PROVE  Len(sndQ') = Len(sndQ) + n
    <3>1. n \in 0 .. Len(outputBuffer_)
      OBVIOUS
    <3> QED  BY <2>1, <2>2, <3>1, Cut, ConcatProperties
  <2> QED  BY <2>1, <2>2, TryWriteMoves
<1>4. Mask' \subseteq Mask
  <2>1. Len(sndQ') < SndCap => Len(sndQ) < SndCap
    BY ONLY <1>3, KernelAssumption
  <2> QED  BY <1>1, <2>1 DEF Mask
<1>5. (AtEnd => AtEnd') /\ (MeetsEnd => MeetsEnd')
  BY <1>1, <1>2 DEF AtEnd, MeetsEnd
<1>6. CASE pc' = "remove"
  <2>1. AtEnd
    BY <1>6 DEF TryWrite, AtEnd
  <2> QED  BY <1>1, <1>6, <2>1, CallFails
<1>7. CASE pc' # "remove"
  <2>1. pc' \in {"write", "cbWrite", "refresh", "cbRefresh"}
    BY <1>7 DEF TryWrite
  <2> QED  BY <1>1, <1>4, <1>5, <2>1, CallAdvances
<1> QED  BY <1>6, <1>7

(* A refresh returns false only at the end or when epoll_ctl fails; one    *)
(* that returns true reports nothing again that a call has dealt with.     *)
LEMMA RefreshIsCall ==
  ASSUME TypeOK, WakeupInv, EndNoted, Refresh
  PROVE  [Handler!Next]_Handler!vars
<1>1. /\ pc = "refresh"
      /\ UNCHANGED << revents_, rcvQ, outputBuffer_, peerClosed_, fin, reset >>
  BY DEF Refresh, netVars
<1>2. CASE RefreshFalse /\ pc' = "remove"
  <2>1. Finished => AtEnd
    BY DEF Finished, WakeupInv, NoUnreadAfterPeerClosed, AtEnd
  <2> QED  BY <1>1, <1>2, <2>1, CallFails DEF RefreshFalse, UpdateFails
<1>3. CASE RefreshTrue /\ pc' = "dispatch"
  <2>1. ~ Finished /\ UNCHANGED failed
    BY <1>3 DEF RefreshTrue, UpdateSucceeds
  <2>2. MeetsEnd => MeetsEnd'
    BY <1>1, <1>3, <2>1 DEF MeetsEnd, Finished
  <2>3. Place = "handler" /\ Place' = "handler"
    BY <1>1, <1>3 DEF Place
  <2>4. Ended' = Ended /\ (Ended <=> AtEnd)
    BY <1>1, <1>3 DEF Ended, AtEnd
  <2>5. Ended /\ Dirty' => Dirty
    BY <1>1, <2>2, <2>4 DEF EndNoted, Dirty
  <2> QED  BY <2>1, <2>3, <2>4, <2>5, CallGoesOn
<1> QED  BY <1>2, <1>3 DEF Refresh

(* The refresh of send, whose failure nobody is told of.                   *)
LEMMA SendRefreshIsCall ==
  ASSUME TypeOK, WakeupInv, EndNoted, SendRefresh
  PROVE  [Handler!Next]_Handler!vars
<1>1. /\ pc = "cbRefresh" /\ pc' = "read"
      /\ UNCHANGED << revents_, rcvQ, outputBuffer_, peerClosed_, fin, reset, sndQ, sockErr >>
  BY DEF SendRefresh, netVars
<1>2. Place = "handler" /\ Place' = "handler"
  BY <1>1 DEF Place
<1>3. Ended' = Ended /\ (Ended <=> AtEnd)
  BY <1>1 DEF Ended, AtEnd
<1>4. MeetsEnd => MeetsEnd'
  BY <1>1 DEF MeetsEnd
<1>5. CASE RefreshTrue \/ UNCHANGED failed
  <2>1. UNCHANGED failed
    BY <1>5 DEF RefreshTrue, UpdateSucceeds
  <2>2. Ended /\ Dirty' => Dirty
    BY <1>1, <1>3, <1>4 DEF EndNoted, Dirty
  <2> QED  BY <1>2, <1>3, <2>1, <2>2, CallGoesOn
<1>6. CASE UpdateFails
  <2>1. failed' = TRUE /\ UNCHANGED << interest, ready, isInEpoll_ >>
    BY <1>6 DEF UpdateFails
  <2>2. Dirty' = Dirty
    BY <1>1, <2>1 DEF Dirty, Unhandled, MeetsEnd, Reported, Mask
  <2> HIDE DEF Place, Dirty, Ended
  <2> QED  BY <1>2, <1>3, <2>1, <2>2 DEF Handler!Next, Handler!Fail
<1> QED  BY <1>5, <1>6 DEF SendRefresh, RefreshFalse

(* The registration takes over what has happened before it.                *)
LEMMA ConstructRegisters ==
  ASSUME TypeOK, FreshInv, Construct
  PROVE  Handler!Next
<1>1. /\ pc = "accepted" /\ pc' = "poll" /\ ~ isInEpoll_ /\ ~ ready
      /\ UNCHANGED << rcvQ, outputBuffer_, fin, reset, sndQ, sockErr >>
  BY DEF Construct, FreshInv, TypeOK, netVars
<1>2. Mask' = Mask
  BY <1>1 DEF Mask
<1>3. Ended' = Ended
  BY <1>1 DEF Ended, AtEnd
<1>4. Unhandled' <=> Unhandled
  <2>1. CASE UpdateSucceeds({"IN", "ET", "RDHUP"})
    BY <1>1, <1>2, <2>1 DEF UpdateSucceeds, Subscribe, Unhandled, Reported
  <2>2. CASE UpdateFails
    BY <1>1, <1>2, <2>2 DEF UpdateFails, Unhandled, Reported
  <2> QED  BY <2>1, <2>2 DEF Construct
<1>5. Dirty' = Dirty
  BY <1>1, <1>4 DEF Dirty, MeetsEnd
<1>6. Place = "new" /\ Place' \in {"epoll", "lost"} /\ failed' \in {failed, TRUE}
  BY <1>1 DEF Construct, UpdateSucceeds, UpdateFails, Place
<1> HIDE DEF Place, Dirty, Ended
<1> QED  BY <1>3, <1>5, <1>6 DEF Handler!Next, Handler!Register

(* epoll_wait calls a connection that there is something to report of.     *)
LEMMA PollCalls ==
  ASSUME TypeOK, Poll
  PROVE  [Handler!Next]_Handler!vars
<1>1. /\ pc = "poll" /\ ready /\ isInEpoll_ /\ "ET" \in interest
      /\ UNCHANGED << isInEpoll_, failed, interest, outputBuffer_, rcvQ, fin, reset >>
  BY DEF Poll, TypeOK, netVars
<1>2. Ended' = Ended
  BY <1>1 DEF Poll, Ended, AtEnd
<1>3. CASE Reported(interest) = {}
  <2>1. pc' = pc
    BY <1>3 DEF Poll
  <2>2. (Reported(interest) = {})'
    BY <1>3 DEF Poll, Reported, Mask, netVars
  <2>3. Place' = Place /\ Dirty' = Dirty
    BY <1>1, <1>3, <2>1, <2>2 DEF Place, Dirty, Unhandled
  <2> HIDE DEF Place, Dirty, Ended
  <2> QED  BY <1>1, <1>2, <2>3 DEF Handler!vars
<1>4. CASE Reported(interest) # {}
  <2>1. pc' = "dispatch" /\ ready' = FALSE
    BY <1>1, <1>4 DEF Poll
  <2>2. Place = "epoll" /\ Place' = "handler"
    BY <1>1, <2>1 DEF Place
  <2>3. Dirty = TRUE /\ Dirty' = FALSE
    BY <1>1, <1>4, <2>1 DEF Dirty, Unhandled, MeetsEnd
  <2> HIDE DEF Place, Dirty, Ended
  <2> QED  BY <1>1, <1>2, <2>2, <2>3 DEF Handler!Next, Handler!Call
<1> QED  BY <1>3, <1>4

LEMMA RemovalIsRemove ==
  ASSUME RemoveConnection
  PROVE  Handler!Next
<1>1. /\ Place = "remove" /\ Place' = "gone" /\ UNCHANGED failed
      /\ Dirty = FALSE /\ Dirty' = FALSE /\ Ended = TRUE /\ Ended' = TRUE
  BY DEF RemoveConnection, Place, Dirty, Ended
<1> HIDE DEF Place, Dirty, Ended
<1> QED  BY <1>1 DEF Handler!Next, Handler!Remove

(* What the client does is noted, or met by the handler at work.           *)
LEMMA PeerIsNoted ==
  ASSUME TypeOK, TypeOK', WakeupInv, EndNoted, EndNoted', Peer
  PROVE  [Handler!Next]_Handler!vars
<1>1. /\ UNCHANGED << pc, failed, isInEpoll_, interest, outputBuffer_, peerClosed_, revents_ >>
      /\ ready => ready'
      /\ AtEnd => AtEnd'
  <2>1. UNCHANGED << pc, connVars, interest >>
    BY DEF Peer, PeerSend, PeerShutdown, PeerReset, PeerRead
  <2>2. ready => ready'
    BY DEF Peer, PeerSend, PeerShutdown, PeerReset, PeerRead, Wake
  <2>3. AtEnd => AtEnd'
    BY <2>1 DEF Peer, PeerSend, PeerShutdown, PeerReset, PeerRead, AtEnd, connVars
  <2> QED  BY <2>1, <2>2, <2>3 DEF connVars
<1>2. Place' = Place
  BY <1>1 DEF Place
<1>3. Mask \subseteq Mask'
  <2>1. CASE PeerSend(pc # "closed")
    <3>1. rcvQ' # << >>
      <4>1. rcvQ \in Seq(Nat) /\ nsent + 1 \in Nat /\ rcvQ' = Append(rcvQ, nsent + 1)
        BY <2>1 DEF PeerSend, TypeOK
      <4>2. rcvQ' \in Seq(Nat) /\ Len(rcvQ') = Len(rcvQ) + 1 /\ Len(rcvQ) \in Nat
        BY <4>1, AppendProperties
      <4> QED  BY <4>2, EmptySeq
    <3> QED  BY <2>1, <3>1 DEF PeerSend, Mask
  <2>2. CASE PeerShutdown(pc # "closed")
    BY <2>2 DEF PeerShutdown, Mask
  <2>3. CASE PeerReset(pc # "closed")
    BY <2>3 DEF PeerReset, Mask
  <2>4. CASE PeerRead
    <3>1. Len(sndQ') = Len(sndQ) - 1 /\ Len(sndQ) \in Nat
      BY <2>4, HeadTailProperties, EmptySeq DEF PeerRead, TypeOK
    <3>2. Len(sndQ) < SndCap => Len(sndQ') < SndCap
      BY ONLY <3>1, KernelAssumption
    <3> QED  BY <2>4, <3>2 DEF PeerRead, Mask
  <2> QED  BY <2>1, <2>2, <2>3, <2>4 DEF Peer
<1>4. Unhandled => Unhandled'
  BY <1>1, <1>3 DEF Unhandled, Reported
<1>5. CASE pc \in {"accepted", "poll"}
  <2>1. Place \in {"new", "epoll", "lost"}
    BY <1>5 DEF Place
  <2>2. /\ Dirty <=> Unhandled
        /\ Dirty' <=> Unhandled'
        /\ Ended <=> AtEnd
        /\ Ended' <=> AtEnd'
    BY <1>1, <1>5 DEF Dirty, MeetsEnd, Ended
  <2>3. (AtEnd => Unhandled) /\ (AtEnd' => Unhandled')
    BY <1>1, <1>5 DEF EndNoted
  <2> HIDE DEF Place, Dirty, Ended, AtEnd, Unhandled
  <2> QED  BY <1>1, <1>2, <1>4, <2>1, <2>2, <2>3, WaitGoesOn
<1>6. CASE pc \in {"remove", "closed"}
  <2>1. Ended = TRUE /\ Ended' = TRUE /\ Dirty = FALSE /\ Dirty' = FALSE
    BY <1>1, <1>6 DEF Ended, Dirty
  <2> QED  BY <1>1, <1>2, <2>1 DEF Handler!vars
<1>7. CASE pc \notin {"accepted", "poll", "remove", "closed"}
  <2>1. Place = "handler"
    BY <1>7 DEF Place
  <2>2. (Ended <=> AtEnd) /\ (Ended' <=> AtEnd')
    BY <1>1, <1>7 DEF Ended
  <2>3. ASSUME AtEnd, Dirty' PROVE Dirty
    <3>1. fin \/ reset
      BY <2>3 DEF AtEnd
    <3>2. PeerReset(pc # "closed") \/ PeerRead
      BY <3>1 DEF Peer, PeerSend, PeerShutdown
    <3>3. ~ reset
      BY <3>2 DEF WakeupInv, ResetInv, PeerReset, PeerRead
    <3>4. UNCHANGED << fin, rcvQ >> /\ "ERR" \notin revents_
      BY <3>2, <3>3 DEF PeerReset, PeerRead, WakeupInv, HangUpInv
    <3>5. MeetsEnd => MeetsEnd'
      BY <1>1, <3>4 DEF MeetsEnd
    <3>6. ~ MeetsEnd
      BY <2>3, <3>5 DEF Dirty
    <3> QED  BY <1>7, <2>3, <3>4, <3>6 DEF EndNoted, Dirty
  <2> HIDE DEF Place, Dirty, Ended, AtEnd
  <2> QED  BY <1>1, <1>2, <2>1, <2>2, <2>3, CallGoesOn
<1> QED  BY <1>5, <1>6, <1>7

(* TcpConnection keeps the handlers' side of ConnectionHandler: when the   *)
(* client has closed or the connection was reset, some call returns false, *)
(* however the end falls between the system calls of the handlers.         *)
THEOREM HandlersKeepContract == Spec => ImplementsHandler
<1>1. Init => Handler!Init
  <2> SUFFICES ASSUME Init PROVE Handler!Init
    OBVIOUS
  <2>1. Place = "new" /\ Dirty = FALSE /\ Ended = FALSE /\ failed \in BOOLEAN
    BY NothingReported, EmptySeq
    DEF Init, Place, Dirty, Unhandled, Ended, AtEnd
  <2> HIDE DEF Place, Dirty, Ended
  <2> QED  BY <2>1 DEF Handler!Init
<1>2. TypeOK /\ IInv => EndNoted
  BY EndIsSeen DEF IInv
<1>3. /\ TypeOK /\ TypeOK' /\ IInv /\ EndNoted /\ EndNoted' /\ [Next]_vars
      => [Handler!Next]_Handler!vars
  <2> SUFFICES ASSUME TypeOK, TypeOK', WakeupInv, EndNoted, EndNoted', [Next]_vars
               PROVE  [Handler!Next]_Handler!vars
    BY DEF IInv
  <2>1. CASE UNCHANGED vars
    BY <2>1 DEF vars, connVars, netVars, itemVars, Handler!vars, Place, Dirty, Ended, Unhandled,
                MeetsEnd, AtEnd, Reported, Mask
  <2> QED
    BY <2>1, ConstructRegisters, PollCalls, EventIsCall, ReadIsCall, WriteIsCall, RefreshIsCall,
       SendRefreshIsCall, RemovalIsRemove, PeerIsNoted
    DEF Next, Server, WakeupInv
<1> QED
  BY <1>1, <1>2, <1>3, TypeCorrect, Invariant, PTL DEF Spec, ImplementsHandler, Handler!Spec
=============================================================================
