-------------------------- MODULE SingleFileServer --------------------------
(***************************************************************************)
(* The earlier server, all in one file (src/src/tcpepoll_01.cpp): from the *)
(* start of main to the end of one connection.  It keeps the state of a    *)
(* connection in the map conns, its handlers are free functions that close *)
(* the connection themselves (closeConn), and what they return to          *)
(* Channel::handleEvent only stops the handlers that would follow.         *)
(*                                                                         *)
(* As in TcpConnection each action is the code from one system call to the *)
(* next.  The client connects as soon as the socket listens.  Calls that   *)
(* EINTR interrupts, and accept4 failing, change nothing and do not show.  *)
(***************************************************************************)
EXTENDS KernelSocket

CONSTANTS
  ReadChunk,  \* size of the array that handleClientRead reads into (1024)
  Faults      \* calls that may fail: a subset of {"start", "ADD", "MOD"}

ASSUME ServerAssumption ==
  /\ ReadChunk \in Nat \ {0}
  /\ Faults \subseteq {"start", "ADD", "MOD"}

VARIABLES
  pc,         \* where the thread is: see TypeOK
  events,     \* local of handleEvent: events still to be handled
  outbuf,     \* Conn::outbuf
  peerClosed, \* Conn::peerClosed
  needWrite,  \* local of handleClientRead
  failed      \* history: a call has failed

connVars == << events, outbuf, peerClosed, needWrite, failed >>
vars == << pc, connVars, netVars, itemVars >>

-----------------------------------------------------------------------------
(* Plausible mistakes; none is part of the specification. *)

\* EPOLLOUT is asked for whether or not output is pending
newEvent_OutAlways == {"IN", "ET", "RDHUP", "OUT"}

\* EPOLLOUT is never asked for
newEvent_NoOut == {"IN", "ET", "RDHUP"}

\* pending output does not keep the connection open
Finished_PeerClosed == peerClosed

\* the end of the output is not looked for
Finished_Never == FALSE

\* a partial send counts as a complete one
erase_All(n) == << >>

\* a connection whose ADD failed is kept (what TcpConnection does)
AfterFailedAdd_Keep == "epoll_wait"

-----------------------------------------------------------------------------
Init ==
  /\ pc = "main"
  /\ events = {} /\ outbuf = << >>
  /\ peerClosed = FALSE /\ needWrite = FALSE /\ failed = FALSE
  /\ rcvQ = << >> /\ sndQ = << >>
  /\ fin = FALSE /\ reset = FALSE /\ sockErr = FALSE
  /\ nsent = 0 /\ got = << >>
  /\ interest = {} /\ ready = FALSE

(* A failed step of main ends the process. *)
Exit == "start" \in Faults /\ pc' = "exit" /\ failed' = TRUE

(* Arguments, socket, options, bind and listen. *)
Start ==
  /\ pc = "main"
  /\ (pc' = "listening" /\ UNCHANGED failed) \/ Exit
  /\ UNCHANGED << events, outbuf, peerClosed, needWrite, netVars, itemVars >>

(* The epoll set and serverChn: a client may have connected by now. *)
Register ==
  /\ pc = "listening"
  /\ (pc' = "accept" /\ UNCHANGED failed) \/ Exit
  /\ UNCHANGED << events, outbuf, peerClosed, needWrite, netVars, itemVars >>

(* handleAccept: an update that fails takes the connection back. *)
AfterFailedAdd == "close"

HandleAccept ==
  /\ pc = "accept"
  /\ \/ /\ Subscribe({"IN", "ET", "RDHUP"})
        /\ pc' = "epoll_wait"
        /\ UNCHANGED failed
     \/ /\ "ADD" \in Faults
        /\ pc' = AfterFailedAdd /\ failed' = TRUE
        /\ UNCHANGED itemVars
  /\ UNCHANGED << events, outbuf, peerClosed, needWrite, netVars >>

(* ep.loop and the call of handleEvent. *)
Loop ==
  /\ pc = "epoll_wait" /\ ready
  /\ events' = Reported(interest)
  /\ ready' = (events' # {} /\ "ET" \notin interest)
  /\ pc' = IF events' = {} THEN pc ELSE "dispatch"
  /\ UNCHANGED << outbuf, peerClosed, needWrite, failed, interest, netVars >>

(* What the Channel's callbacks (setClientCallback) are for, in the order  *)
(* of handleEvent, and where they begin; handleClientClose only notes the  *)
(* hang-up before it refreshes.                                            *)
Callbacks == << [on |-> {"ERR"},          at |-> "close"],
                [on |-> {"IN"},           at |-> "read"],
                [on |-> {"RDHUP", "HUP"}, at |-> "refresh"],
                [on |-> {"OUT"},          at |-> "write"] >>

HandleEvent ==
  /\ pc = "dispatch"
  /\ \/ /\ events = {}
        /\ pc' = "epoll_wait"
        /\ UNCHANGED << events, peerClosed >>
     \/ \E i \in 1 .. 4 :
          /\ events \intersect Callbacks[i].on # {}
          /\ \A j \in 1 .. i - 1 : events \intersect Callbacks[j].on = {}
          /\ events' = events \ Callbacks[i].on
          /\ pc' = Callbacks[i].at
          /\ peerClosed' = (peerClosed \/ "RDHUP" \in Callbacks[i].on)
  /\ needWrite' = FALSE
  /\ UNCHANGED << outbuf, failed, netVars, itemVars >>

(* One read, and what follows: bytes, end of file, error or EAGAIN. *)
HandleClientRead ==
  /\ pc = "read"
  /\ IF rcvQ # << >>
     THEN LET n == IF Len(rcvQ) < ReadChunk THEN Len(rcvQ) ELSE ReadChunk IN
          /\ rcvQ' = SubSeq(rcvQ, n + 1, Len(rcvQ))
          /\ outbuf' = outbuf \o SubSeq(rcvQ, 1, n)
          /\ needWrite' = TRUE
          /\ UNCHANGED << pc, peerClosed, sockErr >>
     ELSE /\ \/ /\ ~ fin /\ sockErr
                /\ sockErr' = FALSE /\ pc' = "close"
                /\ UNCHANGED peerClosed
             \/ /\ fin \/ ~ sockErr
                /\ peerClosed' = (peerClosed \/ fin \/ reset)
                /\ pc' = IF needWrite THEN "write" ELSE "refresh"
                /\ UNCHANGED sockErr
          /\ UNCHANGED << rcvQ, outbuf, needWrite >>
  /\ UNCHANGED << events, failed, sndQ, fin, reset, nsent, got, itemVars >>

(* out.erase(0, n) *)
erase(n) == SubSeq(outbuf, n + 1, Len(outbuf))

(* One turn of the loop in tryWrite; an error closes the connection. *)
TryWrite ==
  /\ pc = "write"
  /\ LET room == SndCap - Len(sndQ)
         n    == IF Len(outbuf) < room THEN Len(outbuf) ELSE room
     IN CASE outbuf # << >> /\ reset ->
               pc' = "close" /\ sockErr' = FALSE /\ UNCHANGED << sndQ, outbuf >>
          [] outbuf # << >> /\ ~ reset /\ n > 0 ->
               /\ sndQ' = sndQ \o SubSeq(outbuf, 1, n)
               /\ outbuf' = erase(n)
               /\ UNCHANGED << pc, sockErr >>
          [] OTHER ->
               pc' = "refresh" /\ UNCHANGED << sndQ, outbuf, sockErr >>
  /\ UNCHANGED << events, peerClosed, needWrite, failed,
                  rcvQ, fin, reset, nsent, got, itemVars >>

(* IN and RDHUP stay subscribed after the client has closed its side. *)
newEvent ==
  {"IN", "ET", "RDHUP"} \union (IF outbuf = << >> THEN {} ELSE {"OUT"})

Finished == peerClosed /\ outbuf = << >>

RefreshConn ==
  /\ pc = "refresh"
  /\ \/ /\ Finished
        /\ pc' = "close"
        /\ UNCHANGED << failed, itemVars >>
     \/ /\ ~ Finished
        /\ Subscribe(newEvent)
        /\ pc' = "dispatch"
        /\ UNCHANGED failed
     \/ /\ ~ Finished /\ "MOD" \in Faults
        /\ pc' = "close" /\ failed' = TRUE
        /\ UNCHANGED itemVars
  /\ UNCHANGED << events, outbuf, peerClosed, needWrite, netVars >>

(* The item, the descriptor, the Channel and the entry of conns go.  The   *)
(* handler returns false, and handleEvent with it.  A close with unread    *)
(* bytes aborts the connection.                                            *)
CloseConn ==
  /\ pc = "close"
  /\ pc' = "closed"
  /\ interest' = {} /\ ready' = FALSE
  /\ sndQ' = IF rcvQ = << >> THEN sndQ ELSE << >>
  /\ UNCHANGED << connVars, rcvQ, fin, reset, sockErr, nsent, got >>

-----------------------------------------------------------------------------
Server ==
  \/ Start \/ Register \/ HandleAccept \/ Loop \/ HandleEvent
  \/ HandleClientRead \/ TryWrite \/ RefreshConn \/ CloseConn

Connected == pc \notin {"main", "closed", "exit"}

Peer ==
  /\ PeerSend(Connected) \/ PeerShutdown(Connected) \/ PeerReset(Connected) \/ PeerRead
  /\ UNCHANGED << pc, connVars >>

Next == Server \/ Peer

Spec == Init /\ [][Next]_vars

(* The thread runs whenever epoll_wait has something for it. *)
ServerSpec == Spec /\ WF_vars(Server)

(* ... and the client goes on reading what it is sent. *)
FairSpec == ServerSpec /\ WF_vars(PeerRead /\ UNCHANGED << pc, connVars >>)

-----------------------------------------------------------------------------
(* Types; a registration is edge-triggered. *)
TypeOK ==
  /\ pc \in {"main", "listening", "accept", "epoll_wait", "dispatch", "read",
             "write", "refresh", "close", "closed", "exit"}
  /\ events \subseteq Event
  /\ interest \subseteq Event \union {"ET"}
  /\ interest # {} => "ET" \in interest
  /\ {peerClosed, needWrite, failed, fin, reset, sockErr, ready} \subseteq BOOLEAN
  /\ {outbuf, rcvQ, sndQ, got} \subseteq Seq(Nat)
  /\ Len(sndQ) <= SndCap /\ nsent \in 0 .. MaxBytes

(* Nothing is lost, repeated or reordered from read to send, through       *)
(* outbuf.append and out.erase, also when a send takes only a part.        *)
EchoInOrder ==
  /\ ~ reset /\ Connected => ((got \o sndQ) \o outbuf) \o rcvQ = Bytes(nsent)
  /\ got \o sndQ = Bytes(Len(got) + Len(sndQ))

(* When the thread blocks in epoll_wait without the connection being       *)
(* ready, there is nothing it could do for it.                             *)
NoLostWakeup ==
  pc = "epoll_wait" /\ interest # {} /\ ~ ready =>
    /\ rcvQ = << >> /\ ~ fin /\ ~ reset
    /\ outbuf # << >> => Len(sndQ) = SndCap

(* The loop keeps no connection that is not in the epoll set: handleAccept *)
(* takes back the one whose ADD failed.  (The class TcpConnection does     *)
(* not: see ConstructedIsRegistered there.)                                *)
RegisteredOrClosed == pc = "epoll_wait" => interest # {}

(* The connection is the same service as a TcpConnection: it closes after  *)
(* its client only, with everything echoed, whichever handler finds out.   *)
(* (The end of the process aborts the connection.)                         *)
Service == INSTANCE EchoService WITH
             sent       <- nsent,
             echoed     <- Len(got) + Len(sndQ),
             delivered  <- Len(got),
             halfClosed <- fin,
             aborted    <- reset \/ failed,
             open       <- pc # "closed"

ImplementsEchoService == Service!Spec

(* A client that has hung up and reads what is left is disconnected,       *)
(* whichever calls fail.                                                   *)
HangUpCloses == (fin \/ reset) ~> (pc \in {"closed", "exit"})

(* refreshConn arms IN and RDHUP again also after the client has closed    *)
(* its side, and both stay true.  That, with more to send than a client    *)
(* that does not read lets through, is the only thing that can keep the    *)
(* thread busy for ever; in every other case it comes to rest when the     *)
(* client does, whatever it has left undone.                               *)
RestsOrAwaitsReader ==
  \/ <>[](pc \in {"epoll_wait", "closed", "exit"} /\ ~ ready)
  \/ <>[](fin /\ peerClosed /\ outbuf # << >> /\ Len(sndQ) = SndCap)
=============================================================================
