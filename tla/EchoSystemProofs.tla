-------------------------- MODULE EchoSystemProofs --------------------------
(***************************************************************************)
(* Proofs about module EchoSystem: the test client and the server stay in  *)
(* step, for lines of any length and buffers of any size on both sides.    *)
(* What is proved of TcpConnection for a client that acts at will carries  *)
(* over to the test client.                                                *)
(***************************************************************************)
EXTENDS EchoSystem, TcpConnectionProofs

USE SystemAssumption, KernelAssumption

-----------------------------------------------------------------------------
(* What a step of the client does to the connection, the free client of    *)
(* TcpConnection can do as well.                                           *)
LEMMA HangupIsPeer ==
  ASSUME Hangup, UNCHANGED << pc, connVars >>
  PROVE  [Next]_vars
<1>1. CASE pc = "closed"
  BY <1>1 DEF Hangup, vars
<1>2. CASE pc # "closed"
  <2>1. PeerShutdown(pc # "closed") \/ PeerReset(pc # "closed")
    BY <1>2 DEF Hangup, PeerShutdown, PeerReset
  <2> QED  BY <2>1 DEF Next, Peer
<1> QED  BY <1>1, <1>2

LEMMA ConnectionSteps ==
  ASSUME [SystemNext]_systemVars
  PROVE  [Next]_vars
<1>1. CASE ServerStep
  BY <1>1 DEF ServerStep, Next
<1>2. CASE Start \/ Connect \/ ReadLine
  BY <1>2 DEF Start, Connect, ReadLine
<1>3. CASE SendAll
  <2>1. \/ PeerSend(pc # "closed") /\ UNCHANGED << pc, connVars >>
        \/ UNCHANGED vars
    BY <1>3 DEF SendAll
  <2> QED  BY <2>1 DEF Next, Peer
<1>4. CASE RecvAll
  <2>1. \/ PeerRead /\ UNCHANGED << pc, connVars >>
        \/ UNCHANGED vars
    BY <1>4 DEF RecvAll
  <2> QED  BY <2>1 DEF Next, Peer
<1>5. CASE Close \/ Killed
  <2>1. Hangup /\ UNCHANGED << pc, connVars >>
    BY <1>5 DEF Close, Killed
  <2> QED  BY <2>1, HangupIsPeer
<1>6. CASE Refuse
  BY <1>6 DEF Refuse, Next, Peer
<1>7. CASE UNCHANGED systemVars
  BY <1>7 DEF systemVars
<1> QED  BY <1>1, <1>2, <1>3, <1>4, <1>5, <1>6, <1>7 DEF SystemNext

(* The test client is one of the clients that TcpConnection allows for, so *)
(* every safety property proved of the connection holds of the system.     *)
THEOREM SystemIsConnection == SystemSpec => Spec
<1>1. SystemInit => Init
  BY DEF SystemInit
<1>2. [SystemNext]_systemVars => [Next]_vars
  BY ConnectionSteps
<1> QED  BY <1>1, <1>2, PTL DEF SystemSpec, Spec

-----------------------------------------------------------------------------
(* sendAll and recvAll stay within the line, and so within buf and recvbuf, *)
(* for every length that fgets may return.                                  *)
THEOREM ClientTypeCorrect == SystemSpec => []ClientTypeOK
<1>1. SystemInit => ClientTypeOK
  BY DEF SystemInit, ClientTypeOK
<1>2. ASSUME ClientTypeOK, [SystemNext]_systemVars
      PROVE  ClientTypeOK'
  <2>0. /\ cpc \in {"start", "connect", "failed", "input", "send", "recv", "close", "exit"}
        /\ len \in Nat /\ len <= MaxLine /\ total \in Nat /\ total <= len
    BY <1>2 DEF ClientTypeOK
  <2>1. CASE ServerStep \/ Refuse \/ UNCHANGED systemVars
    BY <2>0, <2>1 DEF ServerStep, Refuse, systemVars, clientVars, ClientTypeOK
  <2>2. CASE Start \/ Connect \/ Close \/ Killed
    <3>1. UNCHANGED << len, total >> /\ cpc' \in {"connect", "failed", "input", "exit"}
      BY <2>2 DEF Start, Connect, Close, Killed
    <3> QED  BY <2>0, <3>1 DEF ClientTypeOK
  <2>3. CASE ReadLine
    <3>1. len' \in 1 .. MaxLine /\ total' = 0 /\ cpc' = "send"
      BY <2>3 DEF ReadLine
    <3> QED  BY <3>1 DEF ClientTypeOK
  <2>4. CASE SendAll
    <3>1. /\ len' = len
          /\ cpc' \in {"send", "recv", "close"}
          /\ \/ total # len /\ total' = total + 1
             \/ total' = total
             \/ total' = 0
      BY <2>0, <2>4 DEF SendAll, LineSent
    <3> QED  BY <2>0, <3>1 DEF ClientTypeOK
  <2>5. CASE RecvAll
    <3>1. /\ len' = len
          /\ cpc' \in {"recv", "close", "input"}
          /\ \/ total # len /\ total' = total + 1
             \/ total' = total
      BY <2>0, <2>5 DEF RecvAll, ReplyComplete
    <3> QED  BY <2>0, <3>1 DEF ClientTypeOK
  <2> QED  BY <1>2, <2>1, <2>2, <2>3, <2>4, <2>5 DEF SystemNext
<1> QED  BY <1>1, <1>2, PTL DEF SystemSpec

-----------------------------------------------------------------------------
(* How many bytes there are in each place. *)
LEMMA Sizes ==
  ASSUME TypeOK
  PROVE  /\ Len(got) \in Nat /\ Len(sndQ) \in Nat /\ nsent \in Nat
         /\ Len(got \o sndQ) = Len(got) + Len(sndQ)
<1>1. got \in Seq(Nat) /\ sndQ \in Seq(Nat) /\ nsent \in 0 .. MaxBytes /\ MaxBytes \in Nat
  BY DEF TypeOK
<1>2. Len(got) \in Nat /\ Len(sndQ) \in Nat
  BY <1>1, LenProperties
<1>3. Len(got \o sndQ) = Len(got) + Len(sndQ)
  BY <1>1, ConcatProperties
<1> QED  BY <1>1, <1>2, <1>3

(* A healthy open connection accounts for every byte the client sent. *)
LEMMA OpenCount ==
  ASSUME TypeOK', EchoInOrder', ~ reset', pc' # "closed"
  PROVE  Len(got') + Len(sndQ') <= nsent'
<1>1. /\ got' \in Seq(Nat) /\ sndQ' \in Seq(Nat) /\ outputBuffer_' \in Seq(Nat)
      /\ rcvQ' \in Seq(Nat) /\ nsent' \in Nat
  BY DEF TypeOK
<1>2. got' \o sndQ' \in Seq(Nat) /\ (got' \o sndQ') \o outputBuffer_' \in Seq(Nat)
  BY <1>1, ConcatProperties
<1>3. Len(((got' \o sndQ') \o outputBuffer_') \o rcvQ')
        = ((Len(got') + Len(sndQ')) + Len(outputBuffer_')) + Len(rcvQ')
  BY <1>1, <1>2, ConcatProperties
<1>4. Len(((got' \o sndQ') \o outputBuffer_') \o rcvQ') = nsent'
  BY <1>1, BytesType DEF EchoInOrder
<1>5. Len(got') \in Nat /\ Len(sndQ') \in Nat /\ Len(outputBuffer_') \in Nat /\ Len(rcvQ') \in Nat
  BY <1>1, LenProperties
<1> QED  BY ONLY <1>1, <1>3, <1>4, <1>5

(* What the client takes was in the send queue. *)
LEMMA ReadCounts ==
  ASSUME TypeOK, PeerRead
  PROVE  /\ Len(got') = Len(got) + 1 /\ Len(sndQ') = Len(sndQ) - 1
         /\ Len(sndQ) > 0 /\ nsent' = nsent
<1>1. /\ got \in Seq(Nat) /\ sndQ \in Seq(Nat) /\ sndQ # << >>
      /\ got' = Append(got, Head(sndQ)) /\ sndQ' = Tail(sndQ) /\ nsent' = nsent
  BY DEF PeerRead, TypeOK
<1>2. Head(sndQ) \in Nat /\ Len(sndQ') = Len(sndQ) - 1 /\ Len(sndQ) > 0
  BY <1>1, HeadTailProperties, EmptySeq
<1>3. Len(got') = Len(got) + 1
  BY <1>1, <1>2, AppendProperties
<1> QED  BY <1>1, <1>2, <1>3

(* The server never sends the client more than the client sent. *)
LEMMA CountKept ==
  ASSUME TypeOK, TypeOK', IInv', [Next]_vars, Len(got) + Len(sndQ) <= nsent
  PROVE  Len(got') + Len(sndQ') <= nsent'
<1>1. Len(got) \in Nat /\ Len(sndQ) \in Nat /\ nsent \in Nat
  BY Sizes
<1>2. CASE PeerRead
  BY <1>1, <1>2, ReadCounts
<1>3. CASE /\ got' = got /\ nsent' \in {nsent, nsent + 1}
           /\ pc' = "closed" => sndQ' \in {sndQ, << >>}
  <2>1. CASE pc' # "closed" /\ ~ reset'
    BY <2>1, OpenCount DEF IInv
  <2>2. CASE reset' \/ pc' = "closed"
    <3>1. sndQ' = sndQ \/ sndQ' = << >>
      BY <1>3, <2>2 DEF IInv, WakeupInv, ResetInv
    <3> QED  BY <1>1, <1>3, <3>1
  <2> QED  BY <2>1, <2>2
<1>4. \/ PeerRead
      \/ /\ got' = got /\ nsent' \in {nsent, nsent + 1}
         /\ pc' = "closed" => sndQ' \in {sndQ, << >>}
  <2>1. CASE Construct \/ Poll \/ HandleEvent \/ Refresh \/ SendRefresh \/ UNCHANGED vars
    BY <2>1 DEF Construct, Poll, HandleEvent, Refresh, SendRefresh, vars, netVars
  <2>2. CASE HandleRead
    BY <2>2 DEF HandleRead
  <2>3. CASE TryWrite
    BY <2>3 DEF TryWrite
  <2>4. CASE RemoveConnection
    BY <2>4 DEF RemoveConnection
  <2>5. CASE Peer
    BY <2>5 DEF Peer, PeerSend, PeerShutdown, PeerReset
  <2> QED  BY <2>1, <2>2, <2>3, <2>4, <2>5 DEF Next, Server
<1> QED  BY <1>2, <1>3, <1>4

(* What the client may rely on at each point of its loop. *)
LEMMA SessionKept ==
  ASSUME TypeOK, TypeOK', IInv', ClientTypeOK, SessionInv, [SystemNext]_systemVars
  PROVE  SessionInv'
<1>1. /\ Len(got) \in Nat /\ Len(sndQ) \in Nat /\ nsent \in Nat
      /\ len \in Nat /\ total \in Nat
  BY Sizes DEF ClientTypeOK
<1>2. Len(got') + Len(sndQ') <= nsent'
  BY ConnectionSteps, CountKept DEF SessionInv
<1>3. CASE /\ UNCHANGED << got, nsent, clientVars >>
           /\ pc = "closed" => pc' = "closed"
  BY <1>2, <1>3 DEF SessionInv, clientVars
<1>4. CASE ServerStep
  <2>1. UNCHANGED << got, nsent, clientVars >> /\ pc # "closed"
    BY <1>4 DEF ServerStep, Server, Construct, Poll, HandleEvent, HandleRead, TryWrite,
                Refresh, SendRefresh, RemoveConnection, netVars
  <2> QED  BY <1>3, <2>1
<1>5. CASE Start \/ Connect
  <2>1. /\ UNCHANGED << got, nsent, pc >> /\ cpc \in {"start", "connect"}
        /\ cpc' \in {"connect", "failed", "input"}
    BY <1>5 DEF Start, Connect, vars, netVars
  <2>2. nsent = 0 /\ Len(got) = 0
    BY <1>1, <2>1 DEF SessionInv
  <2> QED  BY <1>2, <2>1, <2>2 DEF SessionInv
<1>6. CASE ReadLine
  <2>1. /\ UNCHANGED << got, nsent, pc >> /\ cpc = "input" /\ cpc' = "send" /\ total' = 0
    BY <1>6 DEF ReadLine, vars, netVars
  <2> QED  BY <1>1, <1>2, <2>1 DEF SessionInv
<1>7. CASE SendAll
  <2>1. \/ /\ nsent' = nsent + 1 /\ total' = total + 1 /\ cpc' = cpc /\ UNCHANGED << got, len, pc >>
        \/ /\ pc = "closed" /\ total' = total + 1 /\ UNCHANGED << got, nsent, cpc, len, pc >>
        \/ /\ cpc' = "close"
        \/ /\ total = len /\ cpc' = "recv" /\ total' = 0 /\ UNCHANGED << got, nsent, len, pc >>
    BY <1>7 DEF SendAll, LineSent, PeerSend, vars, netVars
  <2>2. cpc = "send"
    BY <1>7 DEF SendAll
  <2>3. /\ nsent <= Len(got) + total
        /\ pc # "closed" => nsent = Len(got) + total
    BY <2>2 DEF SessionInv
  <2> QED  BY <1>1, <1>2, <2>1, <2>2, <2>3 DEF SessionInv
<1>8. CASE RecvAll
  <2>1. \/ /\ PeerRead /\ total' = total + 1 /\ UNCHANGED << cpc, len, pc >>
        \/ /\ cpc' = "close"
        \/ /\ total = len /\ cpc' = "input" /\ UNCHANGED << got, nsent, pc >>
    BY <1>8 DEF RecvAll, ReplyComplete, vars, netVars
  <2>2. cpc = "recv"
    BY <1>8 DEF RecvAll
  <2>3. /\ nsent + total <= Len(got) + len
        /\ pc # "closed" => nsent + total = Len(got) + len
        /\ Len(got) + Len(sndQ) <= nsent
    BY <2>2 DEF SessionInv
  <2>4. CASE PeerRead /\ total' = total + 1 /\ UNCHANGED << cpc, len, pc >>
    <3>1. Len(got') = Len(got) + 1 /\ nsent' = nsent
      BY <2>4, ReadCounts
    <3> QED  BY <1>1, <1>2, <2>2, <2>3, <2>4, <3>1 DEF SessionInv
  <2>5. CASE cpc' = "close"
    BY <1>2, <2>5 DEF SessionInv
  <2>6. CASE total = len /\ cpc' = "input" /\ UNCHANGED << got, nsent, pc >>
    BY <1>1, <1>2, <2>3, <2>6 DEF SessionInv
  <2> QED  BY <2>1, <2>4, <2>5, <2>6
<1>9. CASE Close \/ Killed
  <2>1. cpc' = "exit"
    BY <1>9 DEF Close, Killed
  <2> QED  BY <1>2, <2>1 DEF SessionInv
<1>10. CASE Refuse
  <2>1. cpc' = "exit"
    BY <1>10 DEF Refuse, clientVars
  <2> QED  BY <1>2, <2>1 DEF SessionInv
<1>11. CASE UNCHANGED systemVars
  BY <1>11 DEF systemVars, clientVars, vars, netVars, SessionInv
<1> QED
  BY <1>4, <1>5, <1>6, <1>7, <1>8, <1>9, <1>10, <1>11 DEF SystemNext

(* The account of bytes on both sides never goes wrong. *)
THEOREM SessionInvariant == SystemSpec => []SessionInv
<1>1. SystemInit => SessionInv
  BY DEF SystemInit, Init, SessionInv
<1>2. TypeOK /\ TypeOK' /\ IInv' /\ ClientTypeOK /\ SessionInv /\ [SystemNext]_systemVars
      => SessionInv'
  BY SessionKept
<1>3. SystemSpec => [](TypeOK /\ IInv)
  BY SystemIsConnection, TypeCorrect, Invariant, PTL
<1> QED  BY <1>1, <1>2, <1>3, ClientTypeCorrect, PTL DEF SystemSpec

(* What the client prints for a line is that line, and no byte of it is     *)
(* left over for the next.                                                  *)
THEOREM RepliesMatchLines == SystemSpec => []ReplyIsTheLine
<1>1. ASSUME TypeOK, IInv, ClientTypeOK, SessionInv
      PROVE  ReplyIsTheLine
  <2>1. /\ Len(got) \in Nat /\ Len(sndQ) \in Nat /\ nsent \in Nat
        /\ sndQ \in Seq(Nat)
    BY <1>1, Sizes DEF TypeOK
  <2>2. got = Bytes(Len(got))
    BY <1>1, GotIsBytes DEF IInv, EchoInOrder, NetTypes, TypeOK
  <2>3. ASSUME cpc = "input"
        PROVE  got = Bytes(nsent) /\ sndQ = << >>
    <3>1. nsent = Len(got) /\ Len(got) + Len(sndQ) <= nsent
      BY <1>1, <2>3 DEF SessionInv
    <3>2. Len(sndQ) = 0
      BY ONLY <2>1, <3>1
    <3> QED  BY <2>1, <2>2, <3>1, <3>2, EmptySeq
  <2>4. ASSUME cpc = "recv", pc # "closed"
        PROVE  nsent = Len(got) + (len - total)
    <3>1. nsent + total = Len(got) + len
      BY <1>1, <2>4 DEF SessionInv
    <3>2. len \in Nat /\ total \in Nat
      BY <1>1 DEF ClientTypeOK
    <3> QED  BY ONLY <2>1, <3>1, <3>2
  <2> QED  BY <2>3, <2>4 DEF ReplyIsTheLine
<1>2. SystemSpec => [](TypeOK /\ IInv)
  BY SystemIsConnection, TypeCorrect, Invariant, PTL
<1> QED  BY <1>1, <1>2, ClientTypeCorrect, SessionInvariant, PTL

(* Server and client never wait for each other, whatever the sizes of the  *)
(* buffers, of the chunks and of the line: a server at rest has read all   *)
(* that was sent and keeps something back only when the client has a full  *)
(* send queue to read.                                                     *)
THEOREM NoDeadlock == SystemSpec => []NeverBothBlocked
<1>1. ASSUME TypeOK, IInv, NoLostWakeup, ClientTypeOK, SessionInv
      PROVE  NeverBothBlocked
  <2> SUFFICES ASSUME ServerBlocked, ClientBlocked
               PROVE  FALSE
    BY DEF NeverBothBlocked
  <2>1. /\ rcvQ = << >> /\ ~ reset /\ pc # "closed"
        /\ outputBuffer_ # << >> => Len(sndQ) = SndCap
    BY <1>1 DEF ServerBlocked, NoLostWakeup
  <2>2. Len(rcvQ) = 0 /\ RcvCap \in Nat \ {0} /\ SndCap \in Nat \ {0}
    BY <2>1
  <2>3. CASE cpc = "send"
    BY <2>2, <2>3 DEF ClientBlocked
  <2>4. CASE cpc = "recv" /\ ~ ReplyComplete(total) /\ sndQ = << >>
    <3>1. /\ nsent + total = Len(got) + len
          /\ len \in Nat /\ total \in Nat /\ total < len
      BY <1>1, <2>1, <2>4 DEF SessionInv, ClientTypeOK, ReplyComplete
    <3>2. /\ Len(got) \in Nat /\ Len(outputBuffer_) \in Nat /\ nsent \in Nat
          /\ Len(got) + Len(sndQ) + Len(outputBuffer_) + Len(rcvQ) = nsent
      BY <1>1, <2>1, EchoCounts, Sizes DEF IInv
    <3>3. Len(sndQ) = 0
      BY <2>4
    <3>4. Len(outputBuffer_) # 0
      BY ONLY <2>2, <3>1, <3>2, <3>3
    <3> QED  BY <2>1, <2>2, <3>3, <3>4
  <2> QED  BY <2>3, <2>4 DEF ClientBlocked
<1>2. SystemSpec => [](TypeOK /\ IInv /\ NoLostWakeup)
  BY SystemIsConnection, TypeCorrect, Invariant, WakeupsArriveInTime, PTL
<1> QED  BY <1>1, <1>2, ClientTypeCorrect, SessionInvariant, PTL
=============================================================================
