------------------------------- MODULE Startup -------------------------------
(***************************************************************************)
(* The server process from main to Eventloop::loop, or to the end of main: *)
(* the constructors of Eventloop, Epoll, TcpServer and Acceptor, each of   *)
(* which reports a failure through initialized_ only, TcpServer::start,    *)
(* and the destructors.  The kernel completes connections of clients from  *)
(* listen on, long before the server can accept them.                      *)
(***************************************************************************)
EXTENDS Naturals

CONSTANTS
  Faults,      \* the system calls that may fail
  MaxClients   \* bound: clients that connect

ASSUME StartupAssumption ==
  /\ Faults \subseteq {"epoll_create1", "socket", "setsockopt", "bind", "listen", "epoll_ctl"}
  /\ MaxClients \in Nat

VARIABLES
  args,         \* command line: right number, port in range, kind of address;
                \* and what the process meets: whether connections of an earlier
                \* run are left on the port, and the system calls that fail
  pc,           \* where main is: see TypeOK
  epollfd_,     \* the epoll set is open
  listenSock_,  \* how far the listening socket is: see TypeOK
  localAddr,    \* the address it is bound to
  registered,   \* its Channel is in the epoll set
  initialized_, \* the objects among "Acceptor", "TcpServer" that say so
  callbacks,    \* the callbacks that are set
  waiting,      \* connections completed by the kernel, not yet accepted
  accepted      \* connections accepted and given to newConnectionCallback_

epollVars  == << epollfd_, registered >>
socketVars == << listenSock_, localAddr >>
objectVars == << initialized_, callbacks >>
clientVars == << waiting, accepted >>
vars == << args, pc, epollVars, socketVars, objectVars, clientVars >>

Arguments ==
  [argc : BOOLEAN, port : BOOLEAN, ip : {"local", "foreign", "malformed"},
   left : BOOLEAN, fails : SUBSET Faults]

Callback == {"newConnection", "removeConnection", "connection", "close", "message"}

Works(call) == call \notin args.fails

-----------------------------------------------------------------------------
(* Plausible mistakes; none is part of the specification. *)

\* the result of update is ignored, as in the constructor of TcpConnection
AcceptorDone_Always(ok) == initialized_' = initialized_ \union {"Acceptor"}

\* initialized() of the Acceptor is not asked
AcceptorReady_NotAsked == TRUE

\* the options are set too late for bind
AfterSocket_Bind == "bind"

-----------------------------------------------------------------------------
Init ==
  /\ args \in Arguments
  /\ pc = "main"
  /\ epollfd_ = FALSE /\ registered = FALSE
  /\ listenSock_ = "none" /\ localAddr = "none"
  /\ initialized_ = {} /\ callbacks = {}
  /\ waiting = 0 /\ accepted = 0

(* main wants two arguments and a port from 1 to 65535. *)
ParseArguments ==
  /\ pc = "main"
  /\ pc' = IF args.argc /\ args.port THEN "epoll_create1" ELSE "exit"
  /\ UNCHANGED << args, epollVars, socketVars, objectVars, clientVars >>

(* Epoll's constructor only prints a failure. *)
CreateEpoll ==
  /\ pc = "epoll_create1"
  /\ epollfd_' = Works("epoll_create1")
  /\ pc' = "socket"
  /\ UNCHANGED << args, registered, socketVars, objectVars, clientVars >>

AfterSocket == "setsockopt"

(* Acceptor's constructor: at a failure it returns, to TcpServer's.        *)
CreateSocket ==
  /\ pc = "socket"
  /\ \/ Works("socket") /\ listenSock_' = "open" /\ pc' = AfterSocket
     \/ ~ Works("socket") /\ pc' = "acceptor" /\ UNCHANGED listenSock_
  /\ UNCHANGED << args, epollVars, localAddr, objectVars, clientVars >>

(* SetReUseAddr and SetReUsePort, either of which will do; their results   *)
(* are ignored.                                                            *)
SetOptions ==
  /\ pc = "setsockopt"
  /\ \/ Works("setsockopt") /\ listenSock_' = "reusable"
     \/ ~ Works("setsockopt") /\ UNCHANGED listenSock_
  /\ pc' = "bind"
  /\ UNCHANGED << args, epollVars, localAddr, objectVars, clientVars >>

(* InetAddress only prints that an address is malformed, and leaves zeros: *)
(* INADDR_ANY.                                                             *)
InetAddress(ip) == IF ip = "malformed" THEN "any" ELSE ip

AfterBind == "listen"

(* bind wants an address of this machine, and a port nobody is left on     *)
(* unless it may be reused.                                                *)
Bindable ==
  /\ Works("bind")
  /\ InetAddress(args.ip) # "foreign"
  /\ args.left => listenSock_ = "reusable"

Bind ==
  /\ pc = "bind"
  /\ \/ /\ Bindable
        /\ listenSock_' = "bound"
        /\ localAddr' = InetAddress(args.ip)
        /\ pc' = AfterBind
     \/ /\ ~ Bindable
        /\ pc' = "acceptor"
        /\ UNCHANGED socketVars
  /\ UNCHANGED << args, epollVars, objectVars, clientVars >>

Listen ==
  /\ pc = "listen"
  /\ \/ Works("listen") /\ listenSock_' = "listening" /\ pc' = "register"
     \/ ~ Works("listen") /\ pc' = "acceptor" /\ UNCHANGED listenSock_
  /\ UNCHANGED << args, epollVars, localAddr, objectVars, clientVars >>

(* The end of Acceptor's constructor, by the result of update. *)
AcceptorDone(ok) ==
  initialized_' = IF ok THEN initialized_ \union {"Acceptor"} ELSE initialized_

(* epoll_ctl ADD of the listening socket; it fails without an epoll set. *)
Register ==
  /\ pc = "register"
  /\ \/ epollfd_ /\ Works("epoll_ctl") /\ registered' = TRUE /\ AcceptorDone(TRUE)
     \/ /\ ~ epollfd_ \/ ~ Works("epoll_ctl")
        /\ AcceptorDone(FALSE)
        /\ UNCHANGED registered
  /\ pc' = "acceptor"
  /\ UNCHANGED << args, epollfd_, socketVars, callbacks, clientVars >>

(* Acceptor::initialized. *)
AcceptorReady == "Acceptor" \in initialized_

(* The rest of TcpServer's constructor. *)
FinishTcpServer ==
  /\ pc = "acceptor"
  /\ \/ /\ AcceptorReady
        /\ callbacks' = callbacks \union {"newConnection", "removeConnection"}
        /\ initialized_' = initialized_ \union {"TcpServer"}
     \/ ~ AcceptorReady /\ UNCHANGED objectVars
  /\ pc' = "callbacks"
  /\ UNCHANGED << args, epollVars, socketVars, clientVars >>

(* main sets the user's callbacks. *)
SetCallbacks ==
  /\ pc = "callbacks"
  /\ callbacks' = callbacks \union {"connection", "close", "message"}
  /\ pc' = "start"
  /\ UNCHANGED << args, epollVars, socketVars, initialized_, clientVars >>

(* TcpServer::start: main ends when the server is not initialized. *)
Start ==
  /\ pc = "start"
  /\ pc' = IF "TcpServer" \in initialized_ THEN "loop" ELSE "destroy"
  /\ UNCHANGED << args, epollVars, socketVars, objectVars, clientVars >>

(* Within loop: the listening socket is reported while connections wait. *)
Accept ==
  /\ pc = "loop" /\ registered /\ waiting > 0
  /\ waiting' = waiting - 1
  /\ accepted' = accepted + 1
  /\ UNCHANGED << args, pc, epollVars, socketVars, objectVars >>

(* The destructors, server first: the Acceptor removes its Channel and     *)
(* closes its socket (clients that wait are reset); then the epoll set.    *)
DestroyServer ==
  /\ pc = "destroy"
  /\ registered' = FALSE
  /\ listenSock_' = "none" /\ localAddr' = "none"
  /\ waiting' = 0
  /\ pc' = "destroyLoop"
  /\ UNCHANGED << args, epollfd_, objectVars, accepted >>

DestroyLoop ==
  /\ pc = "destroyLoop"
  /\ epollfd_' = FALSE
  /\ pc' = "exit"
  /\ UNCHANGED << args, registered, socketVars, objectVars, clientVars >>

(* A client connects. *)
Connect ==
  /\ listenSock_ = "listening" /\ waiting + accepted < MaxClients
  /\ waiting' = waiting + 1
  /\ UNCHANGED << args, pc, epollVars, socketVars, objectVars, accepted >>

Process ==
  \/ ParseArguments \/ CreateEpoll \/ CreateSocket \/ SetOptions \/ Bind \/ Listen
  \/ Register \/ FinishTcpServer \/ SetCallbacks \/ Start \/ Accept
  \/ DestroyServer \/ DestroyLoop

Next == Process \/ Connect

Spec == Init /\ [][Next]_vars

(* The process is scheduled. *)
FairSpec == Spec /\ WF_vars(Process)

-----------------------------------------------------------------------------
(* Types; only a listening socket is registered or has clients waiting. *)
TypeOK ==
  /\ args \in Arguments
  /\ pc \in {"main", "epoll_create1", "socket", "setsockopt", "bind", "listen", "register",
             "acceptor", "callbacks", "start", "loop", "destroy", "destroyLoop", "exit"}
  /\ epollfd_ \in BOOLEAN /\ registered \in BOOLEAN
  /\ listenSock_ \in {"none", "open", "reusable", "bound", "listening"}
  /\ localAddr \in {"none", "local", "any"}
  /\ initialized_ \subseteq {"Acceptor", "TcpServer"}
  /\ callbacks \subseteq Callback
  /\ waiting \in 0 .. MaxClients /\ accepted \in 0 .. MaxClients
  /\ waiting + accepted <= MaxClients
  /\ registered => epollfd_ /\ listenSock_ = "listening"

(* docs/04_coding_standard.md:32: a failed construction must not let the   *)
(* object get into a runnable state.  loop is entered only with the socket *)
(* listening and registered and with every callback set that accepting,    *)
(* echoing and removing a connection call: an accept without               *)
(* newConnectionCallback_ would leak the descriptor.                       *)
RunsOnlyWhenReady ==
  pc = "loop" =>
    listenSock_ = "listening" /\ registered /\ callbacks = Callback

(* A client that the kernel let in is accepted, also one that was there    *)
(* before the socket was registered, or is reset when the start fails; it  *)
(* does not hang on a server that can never accept it.                     *)
WaitingClientsGetAnAnswer ==
  \A k \in 1 .. MaxClients :
    (waiting + accepted >= k) ~> (accepted >= k \/ listenSock_ = "none")

(* A server with right arguments (an address of this machine among them),  *)
(* none of whose calls fails, gets to its loop, also when it is started    *)
(* again and connections of the process before it are still on the port.   *)
StartsAgain ==
  (args.argc /\ args.port /\ args.ip = "local" /\ args.fails = {}) ~> (pc = "loop")

\* what initialized_ and the place in main tell about the rest
ReadyInv ==
  /\ pc = "register" => listenSock_ = "listening"
  /\ pc \in {"register", "acceptor"} => "TcpServer" \notin initialized_
  /\ registered => pc \in {"acceptor", "callbacks", "start", "loop"}
  /\ registered <=> "Acceptor" \in initialized_
  /\ "Acceptor" \in initialized_ => pc = "acceptor" \/ "TcpServer" \in initialized_
  /\ "TcpServer" \in initialized_ =>
       /\ "Acceptor" \in initialized_
       /\ {"newConnection", "removeConnection"} \subseteq callbacks
  /\ pc \in {"start", "loop"} => {"connection", "close", "message"} \subseteq callbacks
  /\ pc = "loop" => "TcpServer" \in initialized_

(* The same rule for InetAddress: the socket is bound to the address of    *)
(* the command line.                                                       *)
BoundAsAsked == localAddr # "none" => localAddr = args.ip
=============================================================================
