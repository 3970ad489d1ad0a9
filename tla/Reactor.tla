------------------------------- MODULE Reactor -------------------------------
(***************************************************************************)
(* The single server thread with all its connections: Eventloop::loop and  *)
(* Epoll::loop, Acceptor::handleAccept, TcpServer's registry of            *)
(* connections, and the kernel's descriptor table, epoll set and accept    *)
(* queue that they share.  What the handlers of one connection do with its *)
(* bytes is the subject of TcpConnection; here a handler takes note of the *)
(* connection's events until it has come to the end of them, and returns   *)
(* false when the connection is finished.                                  *)
(*                                                                         *)
(* Each client connects once.  It also stands for the TcpConnection made   *)
(* for it, and for that object's Channel: descriptors are reused, objects  *)
(* are not, so a pointer to an object that is gone shows.                  *)
(***************************************************************************)
EXTENDS Naturals, Sequences

CONSTANTS
  Clients,    \* the clients
  Listen,     \* the Channel of the listening socket
  None,       \* no client
  MaxFds,     \* bound: descriptors the process has for client sockets
  MAXEVENTS,  \* events one epoll_wait returns at most (10)
  Faults      \* the epoll_ctl calls that may fail: a subset of {"ADD", "MOD"}

ASSUME ReactorAssumption ==
  /\ Listen \notin Clients /\ None \notin Clients
  /\ MaxFds \in Nat \ {0} /\ MAXEVENTS \in Nat \ {0}
  /\ Faults \subseteq {"ADD", "MOD"}

Fds      == 1 .. MaxFds
ListenFd == 0
Channels == Clients \union {Listen}

VARIABLES
  \* the kernel and the clients
  backlog,   \* connections waiting for accept4, oldest first
  fdTable,   \* the client whose socket each descriptor is, or None
  epollSet,  \* clients whose sockets are in the epoll set
  rdllist,   \* ready list of the epoll set, oldest first
  arrived,   \* clients that have connected
  dirty,     \* clients with an event no handler has been called for
  finished,  \* clients that are done: a handler that sees it returns false
  \* the server
  pc,        \* where the thread is: see TypeOK
  chns,      \* Channels of this round that loop has not come to yet
  chn,       \* local of loop: the current Channel
  fd,        \* local of loop: its descriptor
  clientfd,  \* local of handleAccept
  conns_,    \* TcpServer's registry
  fdOf,      \* fd_ of each client's Channel, from its construction on
  alive,     \* clients whose TcpConnection exists
  opened,    \* history: connection callbacks, per client
  closed     \* history: close callbacks, per client

clientVars == << arrived, finished >>
kernelVars == << backlog, fdTable, epollSet, rdllist, dirty >>
objectVars == << conns_, fdOf, alive, opened, closed >>
loopVars   == << chns, chn, fd >>
localVars  == << pc, loopVars, clientfd >>
vars == << clientVars, kernelVars, objectVars, localVars >>

-----------------------------------------------------------------------------
(* Plausible mistakes; none is part of the specification. *)

\* the descriptor accepted last is taken for the current one
FdOfChannel_LastAccepted(x) == clientfd

\* epoll_wait is told of one place more than events_ has
RoundSize_OffByOne ==
  IF Len(rdllist) < MAXEVENTS + 1 THEN Len(rdllist) ELSE MAXEVENTS + 1

\* the result of the handlers is ignored
ReturnsTrue_Always(c) == TRUE

\* the descriptor is not closed with the connection
FdTableAfterClose_Leak(f) == fdTable

\* the connection callback depends on the registration
Announced_IfRegistered(c, registered) == registered

\* the listening socket is edge-triggered like the others
ListenEvents_EdgeTriggered == {"IN", "ET"}

\* loop breaks off its round after a removal
RoundAfterRemoval_Break == << >>

-----------------------------------------------------------------------------
(* The ready list. *)
InList(x, s) == \E i \in 1 .. Len(s) : s[i] = x

NoRepeats(s) == \A i, j \in 1 .. Len(s) : s[i] = s[j] => i = j

(* The item of x becomes ready, or stays so. *)
Enlist(x) == rdllist' = IF InList(x, rdllist) THEN rdllist ELSE Append(rdllist, x)

RemoveAt(s, i) == SubSeq(s, 1, i - 1) \o SubSeq(s, i + 1, Len(s))

(* The item of x is deleted from the epoll set. *)
Unlist(x) ==
  IF InList(x, rdllist)
  THEN \E i \in 1 .. Len(rdllist) : rdllist[i] = x /\ rdllist' = RemoveAt(rdllist, i)
  ELSE UNCHANGED rdllist

(* The events of the listening socket: level-triggered (Acceptor.cpp:26). *)
ListenEvents == {"IN"}

Reportable(x) == IF x = Listen THEN backlog # << >> ELSE x \in dirty

-----------------------------------------------------------------------------
Init ==
  /\ backlog = << >>
  /\ fdTable = [f \in Fds |-> None]
  /\ epollSet = {} /\ rdllist = << >>
  /\ arrived = {} /\ dirty = {} /\ finished = {}
  /\ pc = "epoll_wait"
  /\ chns = << >> /\ chn = Listen /\ fd = ListenFd /\ clientfd = ListenFd
  /\ conns_ = [f \in Fds |-> None]
  /\ fdOf = [c \in Clients |-> ListenFd]
  /\ alive = {}
  /\ opened = [c \in Clients |-> 0] /\ closed = [c \in Clients |-> 0]

-----------------------------------------------------------------------------
(* A client connects: the listening socket has something to accept. *)
Connect(c) ==
  /\ c \notin arrived
  /\ arrived' = arrived \union {c}
  /\ backlog' = Append(backlog, c)
  /\ Enlist(Listen)
  /\ UNCHANGED << fdTable, epollSet, dirty, finished, objectVars, localVars >>

(* Data, a half close with output pending, room in the send buffer; after  *)
(* the end none of it matters any more.                                    *)
ClientEvent(c) ==
  /\ c \in arrived
  /\ dirty' = dirty \union ({c} \ finished)
  /\ IF c \in epollSet THEN Enlist(c) ELSE UNCHANGED rdllist
  /\ UNCHANGED << arrived, finished, backlog, fdTable, epollSet, objectVars, localVars >>

(* A reset, a half close with nothing pending, the last byte taken. *)
ClientFinish(c) ==
  /\ c \in arrived \ finished
  /\ finished' = finished \union {c}
  /\ dirty' = dirty \union {c}
  /\ IF c \in epollSet THEN Enlist(c) ELSE UNCHANGED rdllist
  /\ UNCHANGED << arrived, backlog, fdTable, epollSet, objectVars, localVars >>

-----------------------------------------------------------------------------
(* The number of items that one call of epoll_wait returns. *)
RoundSize == IF Len(rdllist) < MAXEVENTS THEN Len(rdllist) ELSE MAXEVENTS

(* epoll_wait drops a ready item that has nothing to report any more. *)
EpollDrop ==
  /\ pc = "epoll_wait"
  /\ \E i \in 1 .. RoundSize : ~ Reportable(rdllist[i]) /\ rdllist' = RemoveAt(rdllist, i)
  /\ UNCHANGED << backlog, fdTable, epollSet, dirty, clientVars, objectVars, localVars >>

(* Epoll::loop: at most MAXEVENTS Channels for one round of                *)
(* Eventloop::loop, each with its events of this moment.  A                *)
(* level-triggered item goes to the end of the list, an edge-triggered one *)
(* leaves it.                                                              *)
EpollWait ==
  /\ pc = "epoll_wait"
  /\ rdllist # << >>
  /\ \A i \in 1 .. RoundSize : Reportable(rdllist[i])
  /\ LET round == SubSeq(rdllist, 1, RoundSize)
         rest  == SubSeq(rdllist, RoundSize + 1, Len(rdllist))
     IN /\ chns' = round
        /\ dirty' = { c \in dirty : ~ InList(c, round) }
        /\ rdllist' = IF InList(Listen, round) /\ "ET" \notin ListenEvents
                      THEN Append(rest, Listen) ELSE rest
  /\ pc' = "dispatch"
  /\ UNCHANGED << backlog, fdTable, epollSet, clientVars, objectVars, chn, fd, clientfd >>

(* The round is over: loop calls poll again. *)
EndRound ==
  /\ pc = "dispatch" /\ chns = << >>
  /\ pc' = "epoll_wait"
  /\ UNCHANGED << clientVars, kernelVars, objectVars, loopVars, clientfd >>

(* chn->getfd_(), taken before the handler runs. *)
FdOfChannel(x) == IF x = Listen THEN ListenFd ELSE fdOf[x]

(* The next Channel of the round. *)
TakeChannel ==
  /\ pc = "dispatch" /\ chns # << >>
  /\ chn' = Head(chns)
  /\ fd' = FdOfChannel(Head(chns))
  /\ chns' = Tail(chns)
  /\ UNCHANGED << clientVars, kernelVars, objectVars, clientfd >>

(* It is a connection's: its handlers are called. *)
Dispatch ==
  /\ TakeChannel
  /\ Head(chns) # Listen
  /\ pc' = "handle"

(* It is the listening socket's: handleAccept is called. *)
DispatchListen ==
  /\ TakeChannel
  /\ Head(chns) = Listen
  /\ pc' = "accept"

(* What has happened since epoll_wait may be seen by the same call: it     *)
(* reads until there is nothing left to read.                              *)
HandleMore ==
  /\ pc = "handle" /\ chn \in dirty
  /\ dirty' = dirty \ {chn}
  /\ UNCHANGED << backlog, fdTable, epollSet, rdllist, clientVars, objectVars, localVars >>

(* It sends the last byte to a client that has closed its side, or reads   *)
(* the client's close with nothing left to send.                           *)
HandleLast ==
  /\ pc = "handle" /\ chn \notin finished
  /\ finished' = finished \union {chn}
  /\ UNCHANGED << arrived, kernelVars, objectVars, localVars >>

(* handleEvent of a connection returns false when the connection is        *)
(* finished, or when refresh fails; the end may also come too late for     *)
(* this call.                                                              *)
ReturnsTrue(c)  == c \notin finished \/ c \in dirty
ReturnsFalse(c) == c \in finished \/ "MOD" \in Faults

HandlerReturnsTrue ==
  /\ pc = "handle"
  /\ ReturnsTrue(chn)
  /\ pc' = "dispatch"
  /\ UNCHANGED << clientVars, kernelVars, objectVars, loopVars, clientfd >>

HandlerReturnsFalse ==
  /\ pc = "handle"
  /\ ReturnsFalse(chn)
  /\ pc' = "remove"
  /\ finished' = finished \union {chn}
  /\ UNCHANGED << arrived, kernelVars, objectVars, loopVars, clientfd >>

-----------------------------------------------------------------------------
FreeFds == { f \in Fds : fdTable[f] = None }

(* accept4 takes the oldest waiting connection and the lowest free         *)
(* descriptor.                                                             *)
Accept ==
  /\ pc = "accept" /\ backlog # << >>
  /\ \E f \in FreeFds :
       /\ \A g \in FreeFds : f <= g
       /\ clientfd' = f
       /\ fdTable' = [fdTable EXCEPT ![f] = Head(backlog)]
  /\ backlog' = Tail(backlog)
  /\ pc' = "newConnection"
  /\ UNCHANGED << epollSet, rdllist, dirty, clientVars, objectVars, loopVars >>

(* EAGAIN: handleAccept returns true. *)
AcceptAgain ==
  /\ pc = "accept" /\ backlog = << >> /\ FreeFds # {}
  /\ pc' = "dispatch"
  /\ UNCHANGED << clientVars, kernelVars, objectVars, loopVars, clientfd >>

(* EMFILE, whether or not a connection waits: handleAccept returns false   *)
(* and loop asks TcpServer to remove the listening descriptor.             *)
AcceptFails ==
  /\ pc = "accept" /\ FreeFds = {}
  /\ pc' = "remove"
  /\ UNCHANGED << clientVars, kernelVars, objectVars, loopVars, clientfd >>

(* Is the connection callback called for c? *)
Announced(c, registered) == TRUE

(* TcpServer::newConnection: constructs the TcpConnection, which adds its  *)
(* Channel to the epoll set and ignores a failure; the assignment to       *)
(* conns_[clientfd] would destroy a connection that is there already.      *)
NewConnection ==
  /\ pc = "newConnection"
  /\ LET c == fdTable[clientfd] IN
     /\ fdOf' = [fdOf EXCEPT ![c] = clientfd]
     /\ alive' = (alive \ {conns_[clientfd]}) \union {c}
     /\ conns_' = [conns_ EXCEPT ![clientfd] = c]
     /\ \/ /\ epollSet' = epollSet \union {c}
           /\ IF c \in dirty THEN Enlist(c) ELSE UNCHANGED rdllist
        \/ /\ "ADD" \in Faults
           /\ UNCHANGED << epollSet, rdllist >>
     /\ opened' = IF Announced(c, c \in epollSet')
                  THEN [opened EXCEPT ![c] = @ + 1] ELSE opened
  /\ pc' = "accept"
  /\ UNCHANGED << backlog, fdTable, dirty, clientVars, closed, loopVars, clientfd >>

-----------------------------------------------------------------------------
(* Socket's destructor closes the descriptor. *)
FdTableAfterClose(f) == [fdTable EXCEPT ![f] = None]

(* What is left of the round after a removal: loop goes on with it. *)
RoundAfterRemoval == chns

(* TcpServer::removeConnection finds the descriptor in the registry: the   *)
(* close callback, then the destructors: the Channel leaves the epoll set  *)
(* and the descriptor is closed.                                           *)
RemoveConnection ==
  /\ pc = "remove" /\ fd \in Fds /\ conns_[fd] # None
  /\ LET c == conns_[fd] IN
     /\ closed' = [closed EXCEPT ![c] = @ + 1]
     /\ alive' = alive \ {c}
     /\ epollSet' = epollSet \ {c}
     /\ Unlist(c)
     /\ fdTable' = FdTableAfterClose(fdOf[c])
  /\ conns_' = [conns_ EXCEPT ![fd] = None]
  /\ pc' = "dispatch"
  /\ chns' = RoundAfterRemoval
  /\ UNCHANGED << backlog, dirty, clientVars, fdOf, opened, chn, fd, clientfd >>

(* It does not: the listening descriptor. *)
RemoveNothing ==
  /\ pc = "remove"
  /\ fd \in Fds => conns_[fd] = None
  /\ pc' = "dispatch"
  /\ chns' = RoundAfterRemoval
  /\ UNCHANGED << clientVars, kernelVars, objectVars, chn, fd, clientfd >>

-----------------------------------------------------------------------------
Server ==
  \/ EpollDrop \/ EpollWait \/ EndRound \/ Dispatch \/ DispatchListen
  \/ HandleMore \/ HandleLast \/ HandlerReturnsTrue \/ HandlerReturnsFalse
  \/ Accept \/ AcceptAgain \/ AcceptFails \/ NewConnection
  \/ RemoveConnection \/ RemoveNothing

Next ==
  \/ Server
  \/ \E c \in Clients : Connect(c) \/ ClientEvent(c) \/ ClientFinish(c)

Spec == Init /\ [][Next]_vars

(* The thread runs whenever it is not blocked in epoll_wait. *)
ServerSpec == Spec /\ WF_vars(Server)

-----------------------------------------------------------------------------
(* Types; a round never overruns the array events_ of class Epoll. *)
TypeOK ==
  /\ Len(chns) <= MAXEVENTS
  /\ backlog \in Seq(Clients)
  /\ fdTable \in [Fds -> Clients \union {None}]
  /\ epollSet \subseteq Clients
  /\ rdllist \in Seq(Channels) /\ chns \in Seq(Channels)
  /\ arrived \subseteq Clients
  /\ dirty \subseteq arrived /\ finished \subseteq arrived
  /\ pc \in {"epoll_wait", "dispatch", "handle", "accept", "newConnection", "remove"}
  /\ chn \in Channels
  /\ fd \in Fds \union {ListenFd} /\ clientfd \in Fds \union {ListenFd}
  /\ conns_ \in [Fds -> Clients \union {None}]
  /\ fdOf \in [Clients -> Fds \union {ListenFd}]
  /\ alive \subseteq arrived
  /\ opened \in [Clients -> Nat] /\ closed \in [Clients -> Nat]

(* The Channel* in the epoll set and in the vector that loop walks through *)
(* point to objects that exist, although connections are destroyed while   *)
(* the vector is walked and their descriptors are given out again; and no  *)
(* object is destroyed while a handler of its own is running.              *)
NoDanglingChannel ==
  /\ epollSet \subseteq alive
  /\ pc = "handle" => chn \in epollSet
  /\ \A x \in Channels : InList(x, rdllist) \/ InList(x, chns) => x \in epollSet \union {Listen}
  /\ NoRepeats(chns)

(* The registry and the descriptor table agree: every connection is        *)
(* registered under the descriptor its Channel and Socket hold, that       *)
(* descriptor is open and is its own socket, and no descriptor is open     *)
(* without a connection, except the one accept4 has just returned.         *)
RegistryMatchesFds ==
  /\ \A f \in Fds : conns_[f] # None =>
       conns_[f] \in alive /\ fdOf[conns_[f]] = f /\ fdTable[f] = conns_[f]
  /\ \A c \in alive : fdOf[c] \in Fds /\ conns_[fdOf[c]] = c
  /\ \A f \in Fds : fdTable[f] # None /\ conns_[f] = None =>
       pc = "newConnection" /\ clientfd = f

(* docs/05_build_run_test.md:312: the close callback comes once per        *)
(* connection.  It comes after its connection callback and with the end of *)
(* the object, not earlier and not later.                                  *)
CallbacksPaired ==
  \A c \in Clients : /\ opened[c] <= 1
                     /\ opened[c] = closed[c] + (IF c \in alive THEN 1 ELSE 0)

(* Nothing that happened is forgotten: a registered connection with an     *)
(* event that no call is for is in the ready list, and a listening socket  *)
(* with connections to accept is there or in the round at hand.            *)
NoForgottenEvent ==
  /\ \A c \in epollSet \intersect dirty : InList(c, rdllist)
  /\ backlog # << >> =>
       InList(Listen, rdllist) \/ InList(Listen, chns) \/ pc \in {"accept", "newConnection"}

(* A connection is destroyed only if its own handler has just returned     *)
(* false: removal goes by descriptor number, and the number must still     *)
(* mean the connection whose handler ran.                                  *)
OnlyFinishedDestroyed ==
  [][\A c \in alive \ alive' : pc = "remove" /\ chn = c /\ c \in finished]_vars

\* a client is in one place: waiting, being constructed, or registered
PlaceInv ==
  /\ NoRepeats(backlog)
  /\ \A f \in Fds : fdTable[f] # None => fdTable[f] \in arrived
  /\ \A c \in Clients : InList(c, backlog) =>
       c \in arrived \ alive /\ opened[c] = 0 /\ \A f \in Fds : fdTable[f] # c
  /\ pc = "newConnection" =>
       /\ clientfd \in Fds /\ conns_[clientfd] = None
       /\ fdTable[clientfd] \in arrived \ alive /\ opened[fdTable[clientfd]] = 0
  /\ \A c \in Clients \ arrived : opened[c] = 0

\* between a handler's return and the removal its descriptor stays its own,
\* and its Channel does not come again in the round
CurrentInv ==
  /\ pc = "epoll_wait" => chns = << >>
  /\ pc \in {"accept", "newConnection"} => fd = ListenFd
  /\ pc = "handle" => fd \in Fds /\ conns_[fd] = chn /\ ~ InList(chn, chns)
  /\ pc = "remove" /\ fd \in Fds =>
       /\ conns_[fd] = chn /\ chn \in finished \intersect epollSet
       /\ ~ InList(chn, chns)

\* each item is in the ready list once, the listening socket while connections wait
ReadyListInv == NoRepeats(rdllist) /\ (backlog # << >> => InList(Listen, rdllist))

(* The invariant behind the safety properties of the reactor. *)
ReactorInv ==
  /\ NoDanglingChannel /\ RegistryMatchesFds /\ CallbacksPaired /\ NoForgottenEvent
  /\ PlaceInv /\ CurrentInv /\ ReadyListInv

(* The server implements ConnectionPool: a client has its place from       *)
(* newConnection to removeConnection, and is waiting before, also while    *)
(* accept4 has returned its descriptor already.                            *)
Waiting == (IF pc = "newConnection" THEN << fdTable[clientfd] >> ELSE << >>) \o backlog

Pool == INSTANCE ConnectionPool WITH
          Places  <- Fds,
          came    <- arrived,
          done    <- finished,
          waiting <- Waiting,
          place   <- conns_

ImplementsConnectionPool == Pool!Spec

(* The thread keeps its side of ConnectionHandler for each client, with    *)
(* all the others in the same rounds: it calls a connection only for an    *)
(* event, brings each call to its end, and removes a connection once, for  *)
(* a handler of its own that returned false.                               *)
Called(c)  == InList(c, chns) \/ (pc = "handle" /\ chn = c)
Removed(c) == pc = "remove" /\ fd \in Fds /\ conns_[fd] = c

Place(c) ==
  IF c \notin alive THEN IF closed[c] = 0 THEN "new" ELSE "gone"
  ELSE IF c \notin epollSet THEN "lost"
  ELSE IF Called(c) THEN "handler"
  ELSE IF Removed(c) THEN "remove" ELSE "epoll"

Handler(c) == INSTANCE ConnectionHandler WITH
                at       <- Place(c),
                dirty    <- c \in dirty,
                finished <- c \in finished,
                failed   <- "MOD" \in Faults

HandlerStep(c) == [Handler(c)!Next]_(Handler(c)!vars)

ImplementsHandlers ==
  (\A c \in Clients : Handler(c)!Init) /\ [][\A c \in Clients : HandlerStep(c)]_vars

(* The end of a connection is never overlooked: it is being dealt with, or *)
(* it is an event of NoForgottenEvent, although it can come at any time    *)
(* between epoll_wait, the handler's call and the handler's return.        *)
NoEndOverlooked == \A c \in Clients : Handler(c)!EndIsNoted

(* Each call of a handler comes to an end. *)
HandlersEnd == []<>(pc # "handle")

(* Every connection that is done is destroyed and gives its descriptor     *)
(* back, however many other Channels compete for the MAXEVENTS places.     *)
FinishedIsReclaimed ==
  HandlersEnd => \A c \in Clients : (c \in finished /\ c \in alive) ~> (c \notin alive)

(* No registered connection starves, whatever the others and the listening *)
(* socket report, also while accept4 fails for want of descriptors, as     *)
(* long as the handlers of the others end.                                 *)
EventIsHandled ==
  HandlersEnd =>
    \A c \in Clients :
      (c \in dirty /\ c \in epollSet) ~> ((pc = "handle" /\ chn = c) \/ c \notin alive)

(* docs/01_requirements.md:11: several clients are served at the same      *)
(* time.  Each of them is, without a condition on what the others send.    *)
ClientsServedTogether ==
  \A c \in Clients :
    (c \in dirty /\ c \in epollSet) ~> ((pc = "handle" /\ chn = c) \/ c \notin alive)

(* Each client is done some day, and gives its descriptor back. *)
ClientsFinish == \A c \in Clients : (c \in arrived) ~> (c \in finished)

(* Every client is accepted, also one that arrived while all descriptors   *)
(* were in use.                                                            *)
ArrivedIsAccepted ==
  ClientsFinish => \A c \in Clients : (c \in arrived) ~> (opened[c] = 1)

(* The thread is blocked in epoll_wait. *)
Blocked ==
  pc = "epoll_wait" /\ \A i \in 1 .. Len(rdllist) : ~ Reportable(rdllist[i])

(* docs/05_build_run_test.md:314: no endless loop while the server runs.   *)
(* When the clients have fallen silent, the thread gets back to a blocking *)
(* epoll_wait.                                                             *)
SilentClientsLetServerBlock ==
  <>[][Server]_vars => []<>Blocked
=============================================================================
