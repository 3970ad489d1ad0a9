---------------------------- MODULE EchoService ----------------------------
(***************************************************************************)
(* What one connection of the server promises its client, whatever events, *)
(* handlers and buffers are behind it: every byte comes back, and after a  *)
(* half close the service first sends what is pending and only then closes *)
(* (the comment of peerClosed_ in src/src/TcpConnection.h).  TcpConnection *)
(* implements this specification.                                          *)
(***************************************************************************)
EXTENDS Naturals

CONSTANT MaxBytes  \* bound: bytes the client sends

VARIABLES
  sent,       \* bytes the client has sent
  echoed,     \* bytes the service has sent back: they no longer depend on it
  delivered,  \* bytes the client has got back
  halfClosed, \* the client sends no more
  aborted,    \* the client has reset the connection, or a system call failed
  open        \* the service has not closed the connection

vars == << sent, echoed, delivered, halfClosed, aborted, open >>

TypeOK ==
  /\ sent \in 0 .. MaxBytes /\ echoed \in 0 .. sent /\ delivered \in 0 .. echoed
  /\ halfClosed \in BOOLEAN /\ aborted \in BOOLEAN /\ open \in BOOLEAN

Init ==
  /\ sent = 0 /\ echoed = 0 /\ delivered = 0
  /\ halfClosed = FALSE /\ aborted = FALSE /\ open = TRUE

Send ==
  /\ open /\ ~ halfClosed /\ sent < MaxBytes
  /\ sent' = sent + 1
  /\ UNCHANGED << echoed, delivered, halfClosed, aborted, open >>

HalfClose ==
  /\ open /\ ~ halfClosed
  /\ halfClosed' = TRUE
  /\ UNCHANGED << sent, echoed, delivered, aborted, open >>

Echo(n) ==
  /\ open /\ n \in 1 .. sent - echoed
  /\ echoed' = echoed + n
  /\ UNCHANGED << sent, delivered, halfClosed, aborted, open >>

Deliver ==
  /\ delivered < echoed
  /\ delivered' = delivered + 1
  /\ UNCHANGED << sent, echoed, halfClosed, aborted, open >>

(* What is on its way to the client may be lost. *)
Abort ==
  /\ open
  /\ aborted' = TRUE
  /\ echoed' \in {echoed, delivered}
  /\ UNCHANGED << sent, delivered, halfClosed, open >>

(* The service never closes before the client does, nor before it has sent *)
(* everything back.                                                        *)
Close ==
  /\ open /\ halfClosed /\ echoed = sent
  /\ open' = FALSE
  /\ UNCHANGED << sent, echoed, delivered, halfClosed, aborted >>

CloseAborted ==
  /\ open /\ aborted
  /\ open' = FALSE
  /\ echoed' \in {echoed, delivered}
  /\ UNCHANGED << sent, delivered, halfClosed, aborted >>

Next ==
  \/ Send \/ HalfClose \/ Deliver \/ Abort \/ Close \/ CloseAborted
  \/ \E n \in 1 .. MaxBytes : Echo(n)

Spec == Init /\ [][Next]_vars
=============================================================================
