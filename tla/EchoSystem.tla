----------------------------- MODULE EchoSystem -----------------------------
(***************************************************************************)
(* The test client (src/src/client.cpp) talking to the server: its         *)
(* blocking loop of reading a line, sending it and receiving as many bytes *)
(* takes the place of the free client of TcpConnection.  The buffers of    *)
(* both sockets are finite, so either side can be held up by the other.    *)
(*                                                                         *)
(* There is a connection, which accept4 has taken, when the client's       *)
(* connect has returned.                                                   *)
(***************************************************************************)
EXTENDS TcpConnection

CONSTANTS
  RcvCap,   \* bytes that can be on the way to the server, unread
  MaxLine   \* longest line (1023)

ASSUME SystemAssumption == RcvCap \in Nat \ {0} /\ MaxLine \in Nat \ {0}

VARIABLES
  cpc,    \* where the client is: see ClientTypeOK
  len,    \* length of the line
  total   \* local of sendAll and recvAll

clientVars == << cpc, len, total >>
systemVars == << vars, clientVars >>

-----------------------------------------------------------------------------
(* Plausible mistakes; none is part of the specification. *)

\* one recv is taken for the whole reply
ReplyComplete_FirstBytes(n) == n > 0

\* the newline that was cut off is still counted
LineSent_WithNewline(n) == n = len + 1

-----------------------------------------------------------------------------
SystemInit == Init /\ cpc = "start" /\ len = 0 /\ total = 0

(* The arguments, socket, inet_pton and the port: whatever is wrong, the   *)
(* client ends.                                                            *)
Start ==
  /\ cpc = "start"
  /\ cpc' \in {"connect", "failed"}
  /\ UNCHANGED << len, total, vars >>

(* connect succeeds or fails. *)
Connect ==
  /\ cpc = "connect"
  /\ cpc' \in {"input", "failed"}
  /\ UNCHANGED << len, total, vars >>

Connected == cpc \notin {"start", "connect", "failed"}

(* fgets and strlen: an empty line is skipped. *)
ReadLine ==
  /\ cpc = "input"
  /\ \E n \in 1 .. MaxLine : nsent + n <= MaxBytes /\ len' = n
  /\ total' = 0
  /\ cpc' = "send"
  /\ UNCHANGED vars

(* sendAll's loop ends with this many bytes. *)
LineSent(n) == n = len

(* sendAll: send blocks while there is no room.  When the server has       *)
(* closed, the bytes vanish or send fails.                                 *)
SendAll ==
  /\ cpc = "send"
  /\ \/ /\ ~ LineSent(total) /\ Len(rcvQ) < RcvCap
        /\ PeerSend(pc # "closed")
        /\ total' = total + 1
        /\ UNCHANGED << cpc, len, pc, connVars >>
     \/ /\ ~ LineSent(total) /\ pc = "closed"
        /\ total' = total + 1
        /\ UNCHANGED << cpc, len, vars >>
     \/ /\ ~ LineSent(total) /\ pc = "closed"
        /\ cpc' = "close"
        /\ UNCHANGED << len, total, vars >>
     \/ /\ LineSent(total)
        /\ cpc' = "recv" /\ total' = 0
        /\ UNCHANGED << len, vars >>

(* recvAll's loop ends with this many bytes. *)
ReplyComplete(n) == n = len

(* recvAll: recv blocks while there is nothing to read; it returns 0, or   *)
(* fails, when the server has closed.                                      *)
RecvAll ==
  /\ cpc = "recv"
  /\ \/ /\ ~ ReplyComplete(total)
        /\ PeerRead
        /\ total' = total + 1
        /\ UNCHANGED << cpc, len, pc, connVars >>
     \/ /\ ~ ReplyComplete(total)
        /\ sndQ = << >> /\ pc = "closed"
        /\ cpc' = "close"
        /\ UNCHANGED << len, total, vars >>
     \/ /\ ReplyComplete(total)
        /\ cpc' = "input"
        /\ UNCHANGED << len, total, vars >>

(* What the server sees of the end of the client's socket: FIN, or RST     *)
(* when bytes from the server are left unread.                             *)
Hangup ==
  IF pc = "closed" THEN UNCHANGED << netVars, itemVars >>
  ELSE IF sndQ = << >> THEN PeerShutdown(TRUE) ELSE PeerReset(TRUE)

(* The end of the input, or close after a failure. *)
Close ==
  /\ cpc \in {"input", "close"}
  /\ cpc' = "exit"
  /\ Hangup
  /\ UNCHANGED << len, total, pc, connVars >>

(* The client is killed: the kernel closes its socket. *)
Killed ==
  /\ Connected /\ cpc # "exit"
  /\ cpc' = "exit"
  /\ Hangup
  /\ UNCHANGED << len, total, pc, connVars >>

(* An answer of the server that comes after the client has gone is met by  *)
(* an RST.                                                                 *)
Refuse ==
  /\ cpc = "exit" /\ sndQ # << >>
  /\ PeerReset(pc # "closed")
  /\ UNCHANGED << clientVars, pc, connVars >>

Client == SendAll \/ RecvAll \/ (cpc = "close" /\ Close)

(* The server works for the client when there is a connection. *)
ServerStep == Connected /\ Server /\ UNCHANGED clientVars

SystemNext ==
  \/ ServerStep
  \/ Start \/ Connect \/ ReadLine \/ SendAll \/ RecvAll \/ Close \/ Killed \/ Refuse

SystemSpec == SystemInit /\ [][SystemNext]_systemVars

(* Both programs run; what is typed, and when the client is killed, is     *)
(* left open.                                                              *)
FairSystemSpec ==
  /\ SystemSpec
  /\ WF_systemVars(ServerStep)
  /\ WF_systemVars(Client)
  /\ WF_systemVars(Refuse)

-----------------------------------------------------------------------------
(* Types of the client, and that sendAll and recvAll never go beyond the   *)
(* line, which would overrun the arrays buf and recvbuf.                   *)
ClientTypeOK ==
  /\ cpc \in {"start", "connect", "failed", "input", "send", "recv", "close", "exit"}
  /\ len \in 0 .. MaxLine /\ total \in 0 .. len

(* Client and server stay in step: what the client prints as the answer to *)
(* a line is that line, and nothing is left over that the next recvAll     *)
(* would take for its answer, however the bytes were cut into reads and    *)
(* sends on both sides.                                                    *)
ReplyIsTheLine ==
  /\ cpc = "input" => got = Bytes(nsent) /\ sndQ = << >>
  /\ cpc = "recv" /\ pc # "closed" => nsent = Len(got) + (len - total)

\* a reply is never longer than what was sent, and what has been sent or is
\* still to come back is known at each point of the client's loop
SessionInv ==
  /\ Len(got) + Len(sndQ) <= nsent
  /\ cpc \in {"start", "connect", "failed"} => nsent = 0
  /\ cpc = "input" => nsent = Len(got)
  /\ cpc = "send" => nsent <= Len(got) + total /\ (pc # "closed" => nsent = Len(got) + total)
  /\ cpc = "recv" => nsent + total <= Len(got) + len
                     /\ (pc # "closed" => nsent + total = Len(got) + len)

\* epoll_wait has nothing to report about the connection
ServerBlocked == pc = "poll" /\ isInEpoll_ /\ ~ ready

\* send waits for room, or recv for an answer, on an open connection
ClientBlocked ==
  /\ pc # "closed"
  /\ \/ cpc = "send" /\ ~ LineSent(total) /\ Len(rcvQ) >= RcvCap
     \/ cpc = "recv" /\ ~ ReplyComplete(total) /\ sndQ = << >>

(* No deadlock: the client's sendAll and recvAll block, and while they do  *)
(* the server reads and echoes for as long as its own buffers let it; the  *)
(* two never wait for each other, at any point of their loops.             *)
NeverBothBlocked == ~ (ServerBlocked /\ ClientBlocked)

(* The client writes a whole line before it reads, the server may be       *)
(* unable to write meanwhile, and still every line is answered, unless the *)
(* server closes.                                                          *)
EveryLineIsAnswered == cpc = "send" ~> cpc \in {"input", "exit"}

(* When the client has ended or was killed, wherever that was, the server  *)
(* closes its side.                                                        *)
SessionEnds == cpc = "exit" ~> pc = "closed"
=============================================================================
