--------------------------- MODULE StartupProofs ---------------------------
(***************************************************************************)
(* What holds of the start of the server whichever system calls fail and   *)
(* however many clients connect meanwhile.                                 *)
(***************************************************************************)
EXTENDS Startup, TLAPS

(* The types are right in every reachable state, for any bound on the      *)
(* clients (only a listening socket is registered, and only in an epoll    *)
(* set that was created), and the two initialized_ flags mean what the     *)
(* callers of initialized() and start take them for.                       *)
THEOREM Invariant == Spec => [](TypeOK /\ ReadyInv)
<1>1. Init => TypeOK /\ ReadyInv
  <2> SUFFICES ASSUME Init PROVE TypeOK /\ ReadyInv
    OBVIOUS
  <2>1. ~ registered /\ registered \in BOOLEAN /\ ~ epollfd_ /\ epollfd_ \in BOOLEAN
    BY DEF Init
  <2>2. TypeOK
    BY <2>1, StartupAssumption DEF Init, TypeOK
  <2>3. ReadyInv
    BY <2>1 DEF Init, ReadyInv
  <2> QED  BY <2>2, <2>3
<1>2. ASSUME TypeOK, ReadyInv, [Next]_vars
      PROVE  TypeOK' /\ ReadyInv'
  <2> USE <1>2, StartupAssumption
      DEF TypeOK, ReadyInv, Callback, epollVars, socketVars, objectVars, clientVars
  <2>1. CASE ParseArguments
    BY <2>1 DEF ParseArguments
  <2>2. CASE CreateEpoll
    <3>1. epollfd_' \in BOOLEAN
      BY <2>2 DEF CreateEpoll, Works
    <3> QED  BY <2>2, <3>1 DEF CreateEpoll
  <2>3. CASE CreateSocket
    BY <2>3 DEF CreateSocket, AfterSocket
  <2>4. CASE SetOptions
    BY <2>4 DEF SetOptions
  <2>5. CASE Bind
    <3>1. InetAddress(args.ip) \in {"local", "foreign", "any"}
      BY DEF Arguments, InetAddress
    <3> QED  BY <2>5, <3>1 DEF Bind, Bindable, AfterBind
  <2>6. CASE Listen
    BY <2>6 DEF Listen
  <2>7. CASE Register
    <3>1. CASE UNCHANGED registered
      BY <2>7, <3>1 DEF Register, AcceptorDone
    <3>2. CASE epollfd_ /\ registered' = TRUE /\ AcceptorDone(TRUE)
      BY <2>7, <3>2 DEF Register, AcceptorDone
    <3> QED  BY <2>7, <3>1, <3>2 DEF Register
  <2>8. CASE FinishTcpServer
    BY <2>8 DEF FinishTcpServer, AcceptorReady
  <2>9. CASE SetCallbacks
    BY <2>9 DEF SetCallbacks
  <2>10. CASE Start
    BY <2>10 DEF Start
  <2>11. CASE Accept
    BY <2>11 DEF Accept
  <2>12. CASE DestroyServer
    <3>1. /\ pc' = "destroyLoop" /\ registered' = FALSE
          /\ listenSock_' = "none" /\ localAddr' = "none" /\ waiting' = 0
          /\ UNCHANGED << args, epollfd_, initialized_, callbacks, accepted >>
      BY <2>12 DEF DestroyServer
    <3>2. waiting' \in 0 .. MaxClients /\ waiting' + accepted' <= MaxClients
      <4>1. accepted \in 0 .. MaxClients
        OBVIOUS
      <4> QED  BY ONLY <3>1, <4>1, StartupAssumption
    <3>3. TypeOK'
      <4>1. registered' \in BOOLEAN /\ ~ registered'
        BY ONLY <3>1
      <4> QED  BY ONLY <1>2, <3>1, <3>2, <4>1 DEF TypeOK
    <3>4. ReadyInv'
      <4>1. ~ registered
        BY <2>12 DEF DestroyServer
      <4> QED  BY ONLY <1>2, <3>1, <4>1 DEF ReadyInv
    <3> QED  BY ONLY <3>3, <3>4
  <2>13. CASE DestroyLoop
    BY <2>13 DEF DestroyLoop
  <2>14. CASE Connect
    BY <2>14 DEF Connect
  <2>15. CASE UNCHANGED vars
    BY <2>15 DEF vars
  <2> QED
    BY <1>2, <2>1, <2>2, <2>3, <2>4, <2>5, <2>6, <2>7, <2>8, <2>9, <2>10, <2>11, <2>12, <2>13,
       <2>14, <2>15
    DEF Next, Process
<1> QED  BY <1>1, <1>2, PTL DEF Spec

(* Types of what main and the constructors leave behind them.              *)
THEOREM TypeCorrect == Spec => []TypeOK
  BY Invariant, PTL

(* The loop is entered only by a server that can accept, echo and remove.  *)
THEOREM ReadyWhenRunning == Spec => []RunsOnlyWhenReady
<1>1. TypeOK /\ ReadyInv => RunsOnlyWhenReady
  BY DEF TypeOK, ReadyInv, RunsOnlyWhenReady, Callback
<1> QED  BY <1>1, Invariant, PTL
=============================================================================
