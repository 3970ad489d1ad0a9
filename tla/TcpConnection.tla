--------------------------- MODULE TcpConnection ---------------------------
(***************************************************************************)
(* Class TcpConnection (src/src/TcpConnection.cpp) with the Channel that   *)
(* calls its handlers, from the accept to the close of one connection.     *)
(* The server is one thread: while a handler runs, its system calls        *)
(* interleave with the client and the network, not with other handlers.    *)
(* Each action is the code from one system call to the next, so the client *)
(* can act between any two of them.                                        *)
(*                                                                         *)
(* The two Buffers are the byte queues that module Buffer is shown to      *)
(* implement.  Calls that EINTR interrupts are retried at once and do not  *)
(* show.                                                                   *)
(***************************************************************************)
EXTENDS KernelSocket

CONSTANTS
  ReadChunk,  \* size of the array that handleRead reads into (1024)
  Faults      \* the epoll_ctl calls that may fail: a subset of {"ADD", "MOD"}

ASSUME ConnectionAssumption ==
  /\ ReadChunk \in Nat \ {0}
  /\ Faults \subseteq {"ADD", "MOD"}

VARIABLES
  pc,               \* where the server is: see TypeOK
  revents_,         \* events of the Channel that are still to be handled
  isInEpoll_,       \* the Channel thinks it is registered
  inputBuffer_,     \* read, not yet consumed by the message callback
  outputBuffer_,    \* to be sent
  peerClosed_,      \* the client will send nothing more
  messageCallback_, \* a message callback is set
  needWrite,        \* local of handleRead: something was read
  failed            \* history: an epoll_ctl call has failed

connVars == << revents_, isInEpoll_, inputBuffer_, outputBuffer_, peerClosed_,
               messageCallback_, needWrite, failed >>
vars == << pc, connVars, netVars, itemVars >>

-----------------------------------------------------------------------------
(* Plausible mistakes; none is part of the specification. *)

\* EPOLLET forgotten when the events are recomputed
EventsWanted_LevelTriggered ==
  (IF peerClosed_ THEN {} ELSE {"IN", "RDHUP"})
    \union (IF outputBuffer_ = << >> THEN {} ELSE {"OUT"})

\* reading stays enabled after the client has closed its side
EventsWanted_KeepsReading ==
  {"ET", "IN", "RDHUP"} \union (IF outputBuffer_ = << >> THEN {} ELSE {"OUT"})

\* EPOLLOUT is asked for on connections that can still be read only
EventsWanted_NoOutAfterClose ==
  {"ET"} \union (IF peerClosed_ THEN {}
                 ELSE {"IN", "RDHUP"} \union (IF outputBuffer_ = << >> THEN {} ELSE {"OUT"}))

\* EPOLLOUT is never asked for
EventsWanted_NoOut == {"ET"} \union (IF peerClosed_ THEN {} ELSE {"IN", "RDHUP"})

\* pending output does not keep the connection open
Finished_PeerClosed == peerClosed_

\* the client's close is left to an event that never comes
Finished_Never == FALSE

\* a partial send counts as a complete one
retrieve_All(queue, n) == << >>

\* the input just echoed stays in the buffer
retrieveAll_Skipped(queue) == queue

\* the hang-up is handled before the data that came with it
PendingHandler_CloseFirst ==
  IF "ERR" \in revents_ THEN "error"
  ELSE IF revents_ \intersect {"RDHUP", "HUP"} # {} THEN "close"
  ELSE IF "IN" \in revents_ THEN "read"
  ELSE IF "OUT" \in revents_ THEN "write"
  ELSE "none"

-----------------------------------------------------------------------------
(* The events refresh subscribes to. *)
EventsWanted ==
  {"ET"} \union (IF peerClosed_ THEN {} ELSE {"IN", "RDHUP"})
         \union (IF outputBuffer_ = << >> THEN {} ELSE {"OUT"})

(* Channel::update with these events: ADD the first time, then MOD.  If    *)
(* the call fails nothing changes and update returns false.                *)
UpdateSucceeds(events) ==
  /\ Subscribe(events)
  /\ isInEpoll_' = TRUE
  /\ UNCHANGED failed

UpdateFails ==
  /\ (IF isInEpoll_ THEN "MOD" ELSE "ADD") \in Faults
  /\ failed' = TRUE
  /\ UNCHANGED << interest, ready, isInEpoll_ >>

(* Buffer::retrieve and retrieveAll, as module ByteQueue specifies them    *)
(* (n is never more than the queue holds).                                 *)
retrieve(queue, n) == SubSeq(queue, n + 1, Len(queue))

retrieveAll(queue) == << >>

-----------------------------------------------------------------------------
Init ==
  /\ pc = "accepted"
  /\ revents_ = {}
  /\ isInEpoll_ = FALSE
  /\ inputBuffer_ = << >> /\ outputBuffer_ = << >>
  /\ peerClosed_ = FALSE
  /\ messageCallback_ \in BOOLEAN
  /\ needWrite = FALSE
  /\ failed = FALSE
  /\ rcvQ = << >> /\ sndQ = << >>
  /\ fin = FALSE /\ reset = FALSE /\ sockErr = FALSE
  /\ nsent = 0 /\ got = << >>
  /\ interest = {} /\ ready = FALSE

(* The constructor registers the Channel and ignores the result. *)
Construct ==
  /\ pc = "accepted"
  /\ UpdateSucceeds({"IN", "ET", "RDHUP"}) \/ UpdateFails
  /\ pc' = "poll"
  /\ UNCHANGED << revents_, inputBuffer_, outputBuffer_, peerClosed_,
                  messageCallback_, needWrite, netVars >>

(* epoll_wait comes to the item: without anything to report it only leaves *)
(* the ready list; an edge-triggered one leaves it in any case.            *)
Poll ==
  /\ pc = "poll" /\ ready
  /\ LET events == Reported(interest) IN
       IF events = {}
       THEN ready' = FALSE /\ UNCHANGED << pc, revents_ >>
       ELSE /\ revents_' = events
            /\ ready' = ("ET" \notin interest)
            /\ pc' = "dispatch"
  /\ UNCHANGED << isInEpoll_, inputBuffer_, outputBuffer_, peerClosed_,
                  messageCallback_, needWrite, failed, interest, netVars >>

(* Channel::handleEvent tests the events in this order. *)
PendingHandler ==
  IF "ERR" \in revents_ THEN "error"
  ELSE IF "IN" \in revents_ THEN "read"
  ELSE IF revents_ \intersect {"RDHUP", "HUP"} # {} THEN "close"
  ELSE IF "OUT" \in revents_ THEN "write"
  ELSE "none"

(* One handler is called; one that returned true brings control back here, *)
(* without the events it was called for.  handleClose notes the hang-up;   *)
(* its refresh is the next step.                                           *)
HandleEvent ==
  /\ pc = "dispatch"
  /\ \/ /\ PendingHandler = "error"
        /\ pc' = "remove"
        /\ UNCHANGED << revents_, peerClosed_, needWrite >>
     \/ /\ PendingHandler = "read"
        /\ pc' = "read"
        /\ needWrite' = FALSE
        /\ revents_' = revents_ \ {"IN"}
        /\ UNCHANGED peerClosed_
     \/ /\ PendingHandler = "close"
        /\ pc' = "refresh"
        /\ peerClosed_' = TRUE
        /\ revents_' = revents_ \ {"RDHUP", "HUP"}
        /\ UNCHANGED needWrite
     \/ /\ PendingHandler = "write"
        /\ pc' = "write"
        /\ revents_' = revents_ \ {"OUT"}
        /\ UNCHANGED << peerClosed_, needWrite >>
     \/ /\ PendingHandler = "none"
        /\ pc' = "poll"
        /\ UNCHANGED << revents_, peerClosed_, needWrite >>
  /\ UNCHANGED << isInEpoll_, inputBuffer_, outputBuffer_, messageCallback_,
                  failed, netVars, itemVars >>

(* The end of handleRead's loop: send if anything was read, then refresh. *)
LeaveReadLoop == pc' = (IF needWrite THEN "write" ELSE "refresh")

(* read returned bytes: the callback of main passes them to send, which    *)
(* appends them and goes on in "cbWrite"; without a callback handleRead    *)
(* moves them to the output itself.                                        *)
ReadBytes ==
  LET n     == IF Len(rcvQ) < ReadChunk THEN Len(rcvQ) ELSE ReadChunk
      input == inputBuffer_ \o SubSeq(rcvQ, 1, n) IN
  /\ rcvQ # << >>
  /\ rcvQ' = SubSeq(rcvQ, n + 1, Len(rcvQ))
  /\ outputBuffer_' = outputBuffer_ \o input
  /\ IF messageCallback_
     THEN inputBuffer_' = input /\ pc' = "cbWrite"
     ELSE inputBuffer_' = retrieveAll(input) /\ UNCHANGED pc
  /\ needWrite' = TRUE
  /\ UNCHANGED << peerClosed_, sockErr >>

(* read returned 0: the client has closed its side. *)
ReadEnd ==
  /\ rcvQ = << >>
  /\ fin \/ (reset /\ ~ sockErr)
  /\ peerClosed_' = TRUE
  /\ LeaveReadLoop
  /\ UNCHANGED << rcvQ, outputBuffer_, inputBuffer_, needWrite, sockErr >>

(* read failed: handleRead returns false.  The call reports the error. *)
ReadError ==
  /\ rcvQ = << >> /\ ~ fin /\ sockErr
  /\ sockErr' = FALSE
  /\ pc' = "remove"
  /\ UNCHANGED << rcvQ, outputBuffer_, inputBuffer_, needWrite, peerClosed_ >>

(* EAGAIN: the receive queue has been drained. *)
ReadAgain ==
  /\ rcvQ = << >> /\ ~ fin /\ ~ reset
  /\ LeaveReadLoop
  /\ UNCHANGED << rcvQ, outputBuffer_, inputBuffer_, needWrite, peerClosed_,
                  sockErr >>

HandleRead ==
  /\ pc = "read"
  /\ ReadBytes \/ ReadEnd \/ ReadError \/ ReadAgain
  /\ UNCHANGED << revents_, isInEpoll_, messageCallback_, failed,
                  sndQ, fin, reset, nsent, got, itemVars >>

(* One turn of tryWrite's loop.  Inside the message callback its result    *)
(* is ignored: TcpConnection::send goes on to refresh also after an error. *)
TryWrite ==
  /\ pc \in {"write", "cbWrite"}
  /\ LET room == SndCap - Len(sndQ)
         n    == IF Len(outputBuffer_) < room THEN Len(outputBuffer_) ELSE room
         done == IF pc = "write" THEN "refresh" ELSE "cbRefresh"
     IN \/ /\ outputBuffer_ = << >>                                 \* done
           /\ pc' = done
           /\ UNCHANGED << sndQ, outputBuffer_, sockErr >>
        \/ /\ outputBuffer_ # << >> /\ ~ reset /\ n > 0             \* sent n
           /\ sndQ' = sndQ \o SubSeq(outputBuffer_, 1, n)
           /\ outputBuffer_' = retrieve(outputBuffer_, n)
           /\ UNCHANGED << pc, sockErr >>
        \/ /\ outputBuffer_ # << >> /\ ~ reset /\ n = 0             \* EAGAIN
           /\ pc' = done
           /\ UNCHANGED << sndQ, outputBuffer_, sockErr >>
        \/ /\ outputBuffer_ # << >> /\ reset                        \* error
           /\ pc' = IF pc = "write" THEN "remove" ELSE "cbRefresh"
           /\ sockErr' = FALSE
           /\ UNCHANGED << sndQ, outputBuffer_ >>
  /\ UNCHANGED << revents_, isInEpoll_, inputBuffer_, peerClosed_,
                  messageCallback_, needWrite, failed, rcvQ, fin, reset,
                  nsent, got, itemVars >>

(* The client has closed and nothing is left to send. *)
Finished == peerClosed_ /\ outputBuffer_ = << >>

(* refresh: false when the connection is finished, else what update says. *)
RefreshTrue  == ~ Finished /\ UpdateSucceeds(EventsWanted)
RefreshFalse ==
  \/ Finished /\ UNCHANGED << interest, ready, isInEpoll_, failed >>
  \/ ~ Finished /\ UpdateFails

(* The refresh that ends a handler. *)
Refresh ==
  /\ pc = "refresh"
  /\ \/ RefreshTrue  /\ pc' = "dispatch"
     \/ RefreshFalse /\ pc' = "remove"
  /\ UNCHANGED << revents_, inputBuffer_, outputBuffer_, peerClosed_,
                  messageCallback_, needWrite, netVars >>

(* The refresh of TcpConnection::send, whose result is ignored, and the    *)
(* retrieveAll with which the message callback of main ends.               *)
SendRefresh ==
  /\ pc = "cbRefresh"
  /\ RefreshTrue \/ RefreshFalse
  /\ inputBuffer_' = retrieveAll(inputBuffer_)
  /\ pc' = "read"
  /\ UNCHANGED << revents_, outputBuffer_, peerClosed_, messageCallback_,
                  needWrite, netVars >>

(* A handler returned false: Eventloop::loop has the connection removed,   *)
(* and its destructors deregister the Channel and close the socket.  A     *)
(* close with unread bytes aborts the connection.                          *)
RemoveConnection ==
  /\ pc = "remove"
  /\ pc' = "closed"
  /\ interest' = {} /\ ready' = FALSE
  /\ isInEpoll_' = FALSE
  /\ sndQ' = IF rcvQ = << >> THEN sndQ ELSE << >>
  /\ UNCHANGED << revents_, inputBuffer_, outputBuffer_, peerClosed_,
                  messageCallback_, needWrite, failed, rcvQ, fin, reset,
                  sockErr, nsent, got >>

Server ==
  \/ Construct \/ Poll \/ HandleEvent \/ HandleRead \/ TryWrite
  \/ Refresh \/ SendRefresh \/ RemoveConnection

Peer ==
  /\ \/ PeerSend(pc # "closed") \/ PeerShutdown(pc # "closed")
     \/ PeerReset(pc # "closed") \/ PeerRead
  /\ UNCHANGED << pc, connVars >>

Next == Server \/ Peer

Spec == Init /\ [][Next]_vars

(* The server thread runs whenever epoll_wait has something for it. *)
ServerSpec == Spec /\ WF_vars(Server)

-----------------------------------------------------------------------------
(* Types; a registration is always edge-triggered, and the ready list of   *)
(* the epoll set holds registered items only.                              *)
TypeOK ==
  /\ pc \in {"accepted", "poll", "dispatch", "read", "cbWrite", "cbRefresh",
             "write", "refresh", "remove", "closed"}
  /\ revents_ \in SUBSET Event
  /\ isInEpoll_ \in BOOLEAN /\ peerClosed_ \in BOOLEAN
  /\ messageCallback_ \in BOOLEAN /\ needWrite \in BOOLEAN /\ failed \in BOOLEAN
  /\ inputBuffer_ \in Seq(Nat) /\ outputBuffer_ \in Seq(Nat)
  /\ rcvQ \in Seq(Nat) /\ sndQ \in Seq(Nat) /\ got \in Seq(Nat)
  /\ Len(sndQ) <= SndCap
  /\ nsent \in 0 .. MaxBytes
  /\ fin \in BOOLEAN /\ reset \in BOOLEAN /\ sockErr \in BOOLEAN
  /\ interest \in SUBSET (Event \union {"ET"})
  /\ interest # {} => "ET" \in interest
  /\ isInEpoll_ <=> interest # {}
  /\ ready \in BOOLEAN
  /\ ready => interest # {}

(* Nothing is lost, repeated or reordered on the way through the receive   *)
(* queue, the two Buffers and the send queue: from read's chunk, through   *)
(* the message callback or the default echo, to a send that takes only a   *)
(* part.  After a reset or a close, what the client gets is still a prefix *)
(* of what it sent.                                                        *)
EchoInOrder ==
  /\ ~ reset /\ pc # "closed" =>
       ((got \o sndQ) \o outputBuffer_) \o rcvQ = Bytes(nsent)
  /\ got \o sndQ = Bytes(Len(got) + Len(sndQ))

(* handleClose and a read of 0 conclude that the client will send nothing  *)
(* more, after which IN is never watched again: this must not happen while *)
(* bytes of the client are still unread, although RDHUP is reported        *)
(* together with the last bytes.                                           *)
NoUnreadAfterPeerClosed ==
  peerClosed_ => rcvQ = << >> /\ (fin \/ reset)

(* Edge triggering loses no wakeup: when the server is in epoll_wait and   *)
(* the connection is not ready there is nothing it could do.  No byte is   *)
(* unread, no hang-up unnoticed, and what is pending does not fit in the   *)
(* send buffer, however the client's steps fell between read's EAGAIN,     *)
(* send's EAGAIN and the epoll_ctl of refresh.                             *)
NoLostWakeup ==
  pc = "poll" /\ isInEpoll_ /\ ~ ready =>
    /\ rcvQ = << >>
    /\ ~ reset
    /\ fin => peerClosed_ /\ outputBuffer_ # << >>
    /\ outputBuffer_ # << >> => Len(sndQ) = SndCap

(* What a rest of the server means to the client: when it has taken all    *)
(* that was sent to it and the server waits in epoll_wait for more, every  *)
(* byte has come back, and a client that has hung up is not left open.     *)
AtRestAllIsDone ==
  pc = "poll" /\ isInEpoll_ /\ ~ ready /\ sndQ = << >> =>
    Len(got) = nsent /\ ~ fin /\ ~ reset

(* "After the peer has closed its write side, first send what is pending,  *)
(* then close" (TcpConnection.h): unless the connection was aborted, the   *)
(* server closes after the client only, and with every byte echoed.        *)
GracefulClose ==
  pc = "closed" /\ ~ reset /\ ~ failed => fin /\ got \o sndQ = Bytes(nsent)

(* Why they hold: what each point of the server's code can rely on.        *)

\* before the constructor has run nothing has happened on the server's side
FreshInv ==
  pc = "accepted" => outputBuffer_ = << >> /\ ~ peerClosed_ /\ ~ isInEpoll_

\* a handler runs on behalf of a registered Channel only
RegisteredInv == pc \notin {"accepted", "poll", "closed"} => isInEpoll_

\* the kernel reports a reset once as an error, always as a hang-up
ResetInv == /\ sockErr => reset
            /\ reset => sndQ = << >>

\* reported hang-ups are real; one reported without unread data is handled
\* only when there is no unread data
HangUpInv ==
  /\ "ERR" \in revents_ => reset
  /\ revents_ \intersect {"RDHUP", "HUP"} # {} => fin \/ reset
  /\ /\ revents_ \intersect {"RDHUP", "HUP"} # {}
     /\ "IN" \notin revents_
     /\ pc \in {"dispatch", "write", "refresh"}
     => rcvQ = << >>

\* between two handlers the subscription is what refresh computes, and a
\* connection that stays open after the client's close has output pending
SubscriptionInv ==
  pc \in {"poll", "dispatch"} =>
    /\ isInEpoll_ => interest = EventsWanted
    /\ peerClosed_ => outputBuffer_ # << >>

\* between two handlers nothing reportable is hidden from the kernel's ready
\* list, unless it has just been taken from there to be handled
ArmedInv ==
  \/ pc = "poll" /\ isInEpoll_
  \/ pc = "dispatch" /\ revents_ = {}
  => ready \/ Reported(interest) = {}

\* the input buffer is used during the message callback only
InputInv == pc \notin {"cbWrite", "cbRefresh"} => inputBuffer_ = << >>

\* handlers give up healthy connections when everything is done
RemovalInv ==
  pc = "remove" /\ ~ reset /\ ~ failed =>
    fin /\ rcvQ = << >> /\ outputBuffer_ = << >>

\* the error of a reset is there for the next handler, unless the message
\* callback has met it: then the write after it meets the reset again
ErrorInv ==
  /\ pc \in {"cbWrite", "cbRefresh"} => needWrite
  /\ reset /\ ~ sockErr /\ pc \notin {"remove", "closed"} =>
       /\ outputBuffer_ # << >>
       /\ pc = "write" \/ (needWrite /\ pc \in {"read", "cbWrite", "cbRefresh"})

\* the handlers at work know of a hang-up, or they will be called for it
SeenInv ==
  /\ isInEpoll_ /\ ~ peerClosed_ => "IN" \in interest /\ "RDHUP" \in interest
  /\ pc \notin {"accepted", "poll", "remove", "closed"} =>
       /\ reset => ready \/ (pc = "dispatch" /\ "ERR" \in revents_)
       /\ fin => ready \/ peerClosed_ \/ revents_ \intersect {"RDHUP", "HUP"} # {}

\* when the server looks at the connection, whatever the bytes are
WakeupInv ==
  /\ NoUnreadAfterPeerClosed
  /\ FreshInv /\ RegisteredInv /\ ResetInv /\ HangUpInv /\ SubscriptionInv /\ ArmedInv

(* The invariant behind the properties above: what holds at each step of   *)
(* the code in every reachable state is preserved by every next step.      *)
IInv ==
  /\ WakeupInv /\ ErrorInv /\ SeenInv /\ InputInv /\ RemovalInv
  /\ EchoInOrder /\ GracefulClose

(* TcpConnection implements EchoService. *)
Service == INSTANCE EchoService WITH
             sent       <- nsent,
             echoed     <- Len(got) + Len(sndQ),
             delivered  <- Len(got),
             halfClosed <- fin,
             aborted    <- reset \/ failed,
             open       <- pc # "closed"

ImplementsEchoService == Service!Spec

\* aborted, or half closed and everything read and sent
AtEnd == reset \/ (fin /\ rcvQ = << >> /\ outputBuffer_ = << >>)

\* the handlers under way come to the client's close and to Finished
MeetsEnd ==
  /\ fin /\ rcvQ = << >> /\ outputBuffer_ = << >>
  /\ \/ pc \in {"read", "cbWrite", "cbRefresh"}
     \/ /\ pc \in {"dispatch", "write", "refresh"}
        /\ peerClosed_ \/ revents_ \intersect {"RDHUP", "HUP"} # {}

\* there is something to report, and the kernel knows it
Unhandled ==
  IF isInEpoll_ THEN ready /\ Reported(interest) # {}
                ELSE Reported({"IN", "ET", "RDHUP"}) # {}

(* The handlers keep their side of ConnectionHandler: a call returns false *)
(* when the connection is at its end, and only then or after a failure; a  *)
(* call that returns true has overlooked nothing.                          *)
Place ==
  CASE pc = "accepted" -> "new"
    [] pc = "poll" -> IF isInEpoll_ THEN "epoll" ELSE "lost"
    [] pc = "remove" -> "remove"
    [] pc = "closed" -> "gone"
    [] OTHER -> "handler"

Dirty == Unhandled /\ pc \notin {"remove", "closed"} /\ ~ MeetsEnd

Ended == AtEnd \/ pc \in {"remove", "closed"}

Handler == INSTANCE ConnectionHandler WITH at <- Place, dirty <- Dirty, finished <- Ended

ImplementsHandler == Handler!Spec

(* The work that is left in a connection.  Every byte is read, echoed and  *)
(* sent once, the close is noted once, the connection is removed once; and *)
(* the handlers that are still called for stale events come before the     *)
(* next epoll_wait, whose events are work for the handlers they call.      *)

\* what read comes to, and what send comes to
ReadWork  == rcvQ # << >> \/ ((fin \/ reset) /\ ~ peerClosed_)
WriteWork == outputBuffer_ # << >> /\ (Len(sndQ) < SndCap \/ reset)

\* the call under way will do some of the work
Working ==
  \/ "ERR" \in revents_
  \/ ("IN" \in revents_ \/ pc \in {"read", "cbWrite", "cbRefresh"}) /\ ReadWork
  \/ ("OUT" \in revents_ \/ pc = "write") /\ WriteWork
  \/ revents_ \intersect {"RDHUP", "HUP"} # {} /\ ~ peerClosed_

Stage == CASE pc = "closed" -> 0 [] pc = "remove" -> 1 [] pc = "accepted" -> 3 [] OTHER -> 2

WorkLeft ==
  2 * Len(rcvQ) + Len(outputBuffer_) + (IF peerClosed_ THEN 0 ELSE 1) + Stage

Round ==
  CASE pc \in {"accepted", "remove", "closed"} -> 0
    [] pc = "poll" -> IF ready THEN 1 ELSE 0
    [] OTHER -> IF Working THEN 0 ELSE 2

\* the handlers of the call under way
Calls ==
  (IF "IN" \in revents_ THEN 1 ELSE 0) + (IF "OUT" \in revents_ THEN 1 ELSE 0)
    + (IF revents_ \intersect {"RDHUP", "HUP"} # {} THEN 1 ELSE 0)

Steps ==
  CASE pc = "dispatch" -> 6 * Calls + 1 [] pc = "refresh" -> 6 * Calls + 2
    [] pc = "write" -> 6 * Calls + 3 [] pc = "read" -> 6 * Calls + 4
    [] pc = "cbRefresh" -> 6 * Calls + 5 [] pc = "cbWrite" -> 6 * Calls + 6
    [] OTHER -> 0

Work == 32 * (3 * WorkLeft + Round) + Steps

(* No busy loop: every step of the server gets closer to the end of what   *)
(* there is to do, so that without a step of the client it takes at most   *)
(* Work steps.  An event is never reported again and again, whatever is    *)
(* pending, and no two handlers wake each other through epoll_ctl.         *)
NoBusyLoop == [][Server => Work' \in Nat /\ Work' < Work]_vars

(* The server comes to rest when the client does: no event is reported     *)
(* again and again without anything to do about it, in particular not      *)
(* while the client has closed its side and does not read the rest.        *)
EventuallyQuiet == <>[](pc \in {"poll", "closed"} /\ ~ ready)

(* The client goes on reading: what it is sent does not lie there for ever. *)
ClientReads == []<>(sndQ = << >>)

(* Every byte comes back to a client that goes on reading, unless it       *)
(* resets the connection or an epoll_ctl of the server fails.              *)
EveryByteComesBack ==
  ClientReads =>
    \A k \in 1 .. MaxBytes : (nsent >= k) ~> (Len(got) >= k \/ reset \/ failed)

(* A connection whose client has hung up and reads the rest is closed,     *)
(* also when the hang-up comes before the registration, in the middle of a *)
(* handler or with output pending, and when an EPOLL_CTL_MOD fails; the    *)
(* only exception is ConstructedIsRegistered's.                            *)
HangUpCloses ==
  ClientReads => ((fin \/ reset) ~> (pc = "closed" \/ (pc = "poll" /\ ~ isInEpoll_)))

(* docs/04_coding_standard.md:32: a failed construction must not let the   *)
(* object get into a runnable state.  A connection that is not in the      *)
(* epoll set is never run again and never removed.                         *)
ConstructedIsRegistered == pc = "poll" => isInEpoll_
=============================================================================
