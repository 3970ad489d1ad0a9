------------------------- MODULE KernelSocketProofs -------------------------
(***************************************************************************)
(* Lemmas about module KernelSocket, common to the proofs about the two    *)
(* servers: sequences cut and put together, what epoll has to report, and  *)
(* what the client's steps keep.                                           *)
(***************************************************************************)
EXTENDS KernelSocket, SequenceTheorems, TLAPS

USE KernelAssumption

-----------------------------------------------------------------------------
(* A sequence cut in two. *)
LEMMA Cut ==
  ASSUME NEW s \in Seq(Nat), NEW n \in 0 .. Len(s)
  PROVE  /\ SubSeq(s, 1, n) \in Seq(Nat) /\ Len(SubSeq(s, 1, n)) = n
         /\ SubSeq(s, n + 1, Len(s)) \in Seq(Nat)
         /\ Len(SubSeq(s, n + 1, Len(s))) = Len(s) - n
         /\ SubSeq(s, 1, n) \o SubSeq(s, n + 1, Len(s)) = s
<1>1. SubSeq(s, 1, n) \in Seq(Nat) /\ Len(SubSeq(s, 1, n)) = n
  BY SubSeqProperties
<1>2. SubSeq(s, n + 1, Len(s)) \in Seq(Nat) /\ Len(SubSeq(s, n + 1, Len(s))) = Len(s) - n
  BY SubSeqProperties
<1>3. SubSeq(s, 1, n) \o SubSeq(s, n + 1, Len(s)) = SubSeq(s, 1, Len(s))
  <2>1. /\ Len(s) \in Nat
        /\ 1 \in 1 .. Len(s) + 1 /\ n \in 1 - 1 .. Len(s) /\ Len(s) \in n .. Len(s)
    OBVIOUS
  <2>2. \A S : \A seq \in Seq(S) : \A m \in 1 .. Len(seq) + 1 : \A k \in m - 1 .. Len(seq) :
           \A l \in k .. Len(seq) :
             SubSeq(seq, m, k) \o SubSeq(seq, k + 1, l) = SubSeq(seq, m, l)
    BY ConcatAdjacentSubSeq
  <2> QED  BY <2>1, <2>2
<1> QED  BY <1>1, <1>2, <1>3, SubSeqFull

(* What epoll reports are events of the socket. *)
LEMMA ReportedEvents == \A events : Reported(events) \subseteq Event
  BY DEF Reported, Mask

-----------------------------------------------------------------------------
(* How the steps move bytes from one queue to the next. *)
LEMMA BytesType ==
  ASSUME NEW n \in Nat
  PROVE  Bytes(n) \in Seq(Nat) /\ Len(Bytes(n)) = n /\ \A i \in 1 .. n : Bytes(n)[i] = i
  BY DEF Bytes

LEMMA BytesAppend ==
  ASSUME NEW n \in Nat
  PROVE  Append(Bytes(n), n + 1) = Bytes(n + 1)
<1>1. /\ Append(Bytes(n), n + 1) \in Seq(Nat) /\ Len(Append(Bytes(n), n + 1)) = n + 1
      /\ \A i \in 1 .. n : Append(Bytes(n), n + 1)[i] = i
      /\ Append(Bytes(n), n + 1)[n + 1] = n + 1
  BY BytesType, AppendProperties
<1>2. /\ Bytes(n + 1) \in Seq(Nat) /\ Len(Bytes(n + 1)) = n + 1
      /\ \A i \in 1 .. n + 1 : Bytes(n + 1)[i] = i
  BY BytesType
<1>3. \A i \in 1 .. n + 1 : Append(Bytes(n), n + 1)[i] = Bytes(n + 1)[i]
  BY <1>1, <1>2
<1> QED  BY <1>1, <1>2, <1>3, SeqEqual

(* A prefix of the client's bytes is again the bytes up to some number. *)
LEMMA PrefixOfBytes ==
  ASSUME NEW s \in Seq(Nat), NEW t \in Seq(Nat), NEW n \in Nat, s \o t = Bytes(n)
  PROVE  s = Bytes(Len(s))
<1>1. Len(s) \in Nat /\ Len(t) \in Nat /\ Len(s) + Len(t) = n
  BY BytesType, ConcatProperties
<1>2. \A i \in 1 .. Len(s) : s[i] = i
  <2> TAKE i \in 1 .. Len(s)
  <2>1. i \in 1 .. Len(s) + Len(t) /\ i <= Len(s) /\ i \in 1 .. n
    BY <1>1
  <2>2. (s \o t)[i] = s[i]
    BY <2>1, ConcatProperties
  <2> QED  BY <2>1, <2>2, BytesType
<1>3. Bytes(Len(s)) \in Seq(Nat) /\ Len(Bytes(Len(s))) = Len(s)
      /\ \A i \in 1 .. Len(s) : Bytes(Len(s))[i] = i
  BY <1>1, BytesType
<1> QED  BY <1>2, <1>3, SeqEqual

LEMMA Associative ==
  \A s, t, u \in Seq(Nat) : (s \o t) \o u = s \o (t \o u)
  BY ConcatAssociative

LEMMA ConcatAppend ==
  ASSUME NEW s \in Seq(Nat), NEW t \in Seq(Nat), NEW e \in Nat
  PROVE  s \o Append(t, e) = Append(s \o t, e)
<1>1. << e >> \in Seq(Nat) /\ s \o t \in Seq(Nat)
  BY ConcatProperties
<1>2. Append(t, e) = t \o << e >> /\ Append(s \o t, e) = (s \o t) \o << e >>
  BY <1>1, AppendIsConcat
<1> QED  BY <1>1, <1>2, ConcatAssociative

LEMMA HeadMoves ==
  ASSUME NEW s \in Seq(Nat), NEW t \in Seq(Nat), t # << >>
  PROVE  Append(s, Head(t)) \o Tail(t) = s \o t
<1>1. Len(t) \in Nat /\ Len(t) >= 1
  BY EmptySeq
<1>2. /\ Head(t) \in Nat /\ Tail(t) \in Seq(Nat) /\ Tail(t) = SubSeq(t, 2, Len(t))
  BY HeadTailProperties, TailIsSubSeq
<1>3. Head(t) = t[1] /\ << Head(t) >> \in Seq(Nat)
  BY <1>1, <1>2
<1>4. << Head(t) >> \o Tail(t) = t
  <2>1. 1 \in 1 .. Len(t) /\ Len(t) \in 1 .. Len(t) /\ 1 + 1 = 2
    BY <1>1
  <2>2. SubSeq(t, 1, Len(t)) = << t[1] >> \o SubSeq(t, 1 + 1, Len(t))
    BY <2>1, SubSeqRecursiveFirst
  <2> QED  BY <1>2, <1>3, <2>1, <2>2, SubSeqFull
<1>5. Append(s, Head(t)) = s \o << Head(t) >>
  BY <1>2, AppendIsConcat
<1>6. (s \o << Head(t) >>) \o Tail(t) = s \o (<< Head(t) >> \o Tail(t))
  BY ONLY <1>2, <1>3, s \in Seq(Nat), Associative
<1> QED  BY ONLY <1>4, <1>5, <1>6

LEMMA ChunkMoves ==
  ASSUME NEW s \in Seq(Nat), NEW t \in Seq(Nat), NEW n \in 1 .. Len(t)
  PROVE  /\ SubSeq(t, 1, n) \in Seq(Nat) /\ SubSeq(t, n + 1, Len(t)) \in Seq(Nat)
         /\ s \o SubSeq(t, 1, n) \in Seq(Nat)
         /\ (s \o SubSeq(t, 1, n)) \o SubSeq(t, n + 1, Len(t)) = s \o t
<1>1. n \in 0 .. Len(t)
  OBVIOUS
<1>2. /\ SubSeq(t, 1, n) \in Seq(Nat) /\ SubSeq(t, n + 1, Len(t)) \in Seq(Nat)
      /\ SubSeq(t, 1, n) \o SubSeq(t, n + 1, Len(t)) = t
  BY <1>1, Cut
<1>3. \A u, v \in Seq(Nat) : u \o v = t => (s \o u) \o v = s \o t
  <2> TAKE u, v \in Seq(Nat)
  <2>1. (s \o u) \o v = s \o (u \o v)
    BY Associative
  <2> QED  BY <2>1
<1>4. s \o SubSeq(t, 1, n) \in Seq(Nat)
  BY <1>2, ConcatProperties
<1> QED  BY ONLY <1>2, <1>3, <1>4

-----------------------------------------------------------------------------
(* When epoll has nothing to report about the socket, now and after a step. *)
LEMMA NothingReported ==
  ASSUME NEW events
  PROVE  /\ Reported(events) = {} <=>
              /\ "IN" \in events => rcvQ = << >> /\ ~ fin /\ ~ reset
              /\ "RDHUP" \in events => ~ fin /\ ~ reset
              /\ "OUT" \in events => ~ (Len(sndQ) < SndCap) /\ ~ reset
              /\ ~ reset /\ ~ sockErr
  BY DEF Reported, Mask, Event

LEMMA NothingReportedNext ==
  (Reported(interest) = {})' <=>
     /\ "IN" \in interest' => rcvQ' = << >> /\ ~ fin' /\ ~ reset'
     /\ "RDHUP" \in interest' => ~ fin' /\ ~ reset'
     /\ "OUT" \in interest' => ~ (Len(sndQ') < SndCap) /\ ~ reset'
     /\ ~ reset' /\ ~ sockErr'
  BY DEF Reported, Mask, Event

(* After an epoll_ctl that succeeds, nothing reportable is hidden. *)
LEMMA SubscribeArms ==
  ASSUME NEW events, Subscribe(events), UNCHANGED netVars
  PROVE  ready' \/ (Reported(interest) = {})'
  BY DEF Subscribe, Reported, Mask, netVars

-----------------------------------------------------------------------------
(* A step of the client. *)
PeerStep == PeerSend(TRUE) \/ PeerShutdown(TRUE) \/ PeerReset(TRUE) \/ PeerRead

NetTypes ==
  /\ rcvQ \in Seq(Nat) /\ sndQ \in Seq(Nat) /\ got \in Seq(Nat)
  /\ Len(sndQ) <= SndCap /\ nsent \in 0 .. MaxBytes
  /\ fin \in BOOLEAN /\ reset \in BOOLEAN /\ sockErr \in BOOLEAN

(* The client keeps the types, and leaves registrations alone. *)
LEMMA ClientTypes ==
  ASSUME NetTypes, PeerStep
  PROVE  /\ NetTypes' /\ interest' = interest
         /\ ready \in BOOLEAN => ready' \in BOOLEAN
         /\ (ready => interest # {}) => (ready' => interest' # {})
<1>1. CASE PeerSend(TRUE)
  <2>1. rcvQ' \in Seq(Nat) /\ nsent' \in 0 .. MaxBytes
    BY <1>1 DEF PeerSend, NetTypes
  <2> QED  BY <1>1, <2>1 DEF PeerSend, Wake, NetTypes
<1>2. CASE PeerShutdown(TRUE)
  BY <1>2 DEF PeerShutdown, NetTypes
<1>3. CASE PeerReset(TRUE)
  <2>1. << >> \in Seq(Nat) /\ Len(<< >>) = 0
    OBVIOUS
  <2> QED  BY <1>3, <2>1 DEF PeerReset, NetTypes
<1>4. CASE PeerRead
  <2>1. got' \in Seq(Nat) /\ sndQ' \in Seq(Nat) /\ Len(sndQ') <= SndCap
    BY <1>4, HeadTailProperties, AppendProperties DEF PeerRead, NetTypes
  <2> QED  BY <1>4, <2>1 DEF PeerRead, Wake, NetTypes
<1> QED  BY <1>1, <1>2, <1>3, <1>4 DEF PeerStep

(* A reset empties the send queue and stays. *)
LEMMA ClientResets ==
  ASSUME PeerStep, sockErr => reset, reset => sndQ = << >>
  PROVE  (sockErr' => reset') /\ (reset' => sndQ' = << >>)
  BY DEF PeerStep, PeerSend, PeerShutdown, PeerReset, PeerRead

(* No step of the client hides anything from a registered item. *)
LEMMA ClientKeepsArmed ==
  ASSUME NetTypes, PeerStep, interest # {}, ready \/ Reported(interest) = {}
  PROVE  ready' \/ (Reported(interest) = {})'
<1>1. CASE PeerSend(TRUE)
  BY <1>1, NothingReported, NothingReportedNext DEF PeerSend, Wake, NetTypes
<1>2. CASE PeerShutdown(TRUE)
  BY <1>2 DEF PeerShutdown, NetTypes
<1>3. CASE PeerReset(TRUE)
  BY <1>3 DEF PeerReset, NetTypes
<1>4. CASE PeerRead
  <2>1. Len(sndQ) \in Nat /\ Len(sndQ) <= SndCap
    BY DEF NetTypes
  <2>2. CASE ready
    BY <1>4, <2>2 DEF PeerRead, Wake
  <2>3. CASE ~ ready
    <3>1. UNCHANGED << rcvQ, fin, reset, sockErr, interest >>
      BY <1>4 DEF PeerRead
    <3>2. CASE Len(sndQ) = SndCap
      <4>1. ready' \/ "OUT" \notin interest
        BY <1>4, <3>2 DEF PeerRead, Wake
      <4> QED  BY <2>3, <3>1, <4>1, NothingReported, NothingReportedNext
    <3>3. CASE Len(sndQ) < SndCap
      BY <2>3, <3>1, <3>3, NothingReported, NothingReportedNext
    <3> QED  BY <2>1, <3>2, <3>3
  <2> QED  BY <2>2, <2>3
<1> QED  BY <1>1, <1>2, <1>3, <1>4 DEF PeerStep

(* Sending appends the next byte; taking one keeps what is on the way back. *)
LEMMA ClientSendsInOrder ==
  ASSUME NetTypes, PeerSend(TRUE)
  PROVE  /\ UNCHANGED << got, sndQ, fin, reset >> /\ ~ fin /\ ~ reset
         /\ \A s \in Seq(Nat) : s \o rcvQ = Bytes(nsent) => s \o rcvQ' = Bytes(nsent')
<1>1. /\ UNCHANGED << got, sndQ, fin, reset >> /\ ~ fin /\ ~ reset
      /\ rcvQ' = Append(rcvQ, nsent + 1) /\ nsent' = nsent + 1
      /\ rcvQ \in Seq(Nat) /\ nsent \in Nat /\ nsent + 1 \in Nat
  BY DEF PeerSend, NetTypes
<1>2. ASSUME NEW s \in Seq(Nat), s \o rcvQ = Bytes(nsent)
      PROVE  s \o rcvQ' = Bytes(nsent')
  <2>1. \A e \in Nat : s \o Append(rcvQ, e) = Append(s \o rcvQ, e)
    BY <1>1, ConcatAppend
  <2>2. Append(Bytes(nsent), nsent + 1) = Bytes(nsent + 1)
    BY <1>1, BytesAppend
  <2> QED  BY ONLY <1>1, <1>2, <2>1, <2>2
<1> QED  BY <1>1, <1>2

LEMMA ClientReadsInOrder ==
  ASSUME NetTypes, PeerRead
  PROVE  /\ got' \o sndQ' = got \o sndQ
         /\ Len(got') + Len(sndQ') = Len(got) + Len(sndQ)
         /\ UNCHANGED << rcvQ, fin, reset, nsent >>
<1>1. /\ got \in Seq(Nat) /\ sndQ \in Seq(Nat) /\ sndQ # << >>
      /\ got' = Append(got, Head(sndQ)) /\ sndQ' = Tail(sndQ)
      /\ UNCHANGED << rcvQ, fin, reset, nsent >>
  BY DEF PeerRead, NetTypes
<1>2. got' \o sndQ' = got \o sndQ
  BY <1>1, HeadMoves
<1>3. Len(got') + Len(sndQ') = Len(got) + Len(sndQ)
  BY <1>1, HeadTailProperties, AppendProperties
<1> QED  BY <1>1, <1>2, <1>3

(* What has been sent back is a prefix of what the client sent, whatever   *)
(* the rest is.                                                            *)
LEMMA EchoedIsBytes ==
  ASSUME NEW taken \in Seq(Nat), NEW queued \in Seq(Nat), NEW out \in Seq(Nat),
         NEW unread \in Seq(Nat), NEW n \in Nat,
         ((taken \o queued) \o out) \o unread = Bytes(n)
  PROVE  taken \o queued = Bytes(Len(taken) + Len(queued))
<1>1. /\ taken \o queued \in Seq(Nat) /\ out \o unread \in Seq(Nat)
      /\ Len(taken \o queued) = Len(taken) + Len(queued)
  BY ConcatProperties
<1>2. ((taken \o queued) \o out) \o unread = (taken \o queued) \o (out \o unread)
  BY <1>1, Associative
<1>3. (taken \o queued) \o (out \o unread) = Bytes(n)
  BY <1>2
<1> QED  BY <1>1, <1>3, PrefixOfBytes

LEMMA GotIsBytes ==
  ASSUME NetTypes, got \o sndQ = Bytes(Len(got) + Len(sndQ))
  PROVE  got = Bytes(Len(got)) /\ got \o << >> = Bytes(Len(got) + Len(<< >>))
<1>1. got \in Seq(Nat) /\ sndQ \in Seq(Nat) /\ Len(got) + Len(sndQ) \in Nat
  BY DEF NetTypes
<1>2. got = Bytes(Len(got))
  BY <1>1, PrefixOfBytes
<1>3. got \o << >> = got /\ Len(<< >>) = 0 /\ Len(got) \in Nat
  BY <1>1, ConcatEmptySeq
<1> QED  BY <1>2, <1>3
=============================================================================
