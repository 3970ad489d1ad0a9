--------------------------- MODULE ReactorProofs ---------------------------
(***************************************************************************)
(* Proofs about module Reactor, for any number of clients and descriptors, *)
(* any size of the events_ array, and registrations that may fail.         *)
(***************************************************************************)
EXTENDS Reactor, SequenceTheorems, TLAPS

USE ReactorAssumption

-----------------------------------------------------------------------------
(* Sequences as lists of items: which items are there, and whether one is  *)
(* there twice.                                                            *)

LEMMA InEmpty == \A y : ~ InList(y, << >>)
  BY DEF InList

LEMMA InListIsElement ==
  ASSUME NEW S, NEW s \in Seq(S), NEW y, InList(y, s)
  PROVE  y \in S /\ s # << >>
  BY ElementOfSeq DEF InList

LEMMA AppendList ==
  ASSUME NEW S, NEW s \in Seq(S), NEW x \in S
  PROVE  /\ Append(s, x) \in Seq(S)
         /\ \A y : InList(y, Append(s, x)) <=> InList(y, s) \/ y = x
         /\ NoRepeats(s) /\ ~ InList(x, s) => NoRepeats(Append(s, x))
<1> DEFINE t == Append(s, x)
<1>1. /\ t \in Seq(S) /\ Len(t) = Len(s) + 1 /\ t[Len(s) + 1] = x
      /\ \A i \in 1 .. Len(s) : t[i] = s[i]
      /\ Len(s) \in Nat
  BY AppendProperties
<1> HIDE DEF t
<1>2. \A y : InList(y, t) <=> InList(y, s) \/ y = x
  BY <1>1 DEF InList
<1>3. NoRepeats(s) /\ ~ InList(x, s) => NoRepeats(t)
  BY <1>1 DEF NoRepeats, InList
<1> QED  BY <1>1, <1>2, <1>3 DEF t

LEMMA TailList ==
  ASSUME NEW S, NEW s \in Seq(S), s # << >>
  PROVE  /\ Head(s) \in S /\ Tail(s) \in Seq(S) /\ Len(Tail(s)) <= Len(s)
         /\ \A y : InList(y, s) <=> y = Head(s) \/ InList(y, Tail(s))
         /\ NoRepeats(s) => NoRepeats(Tail(s)) /\ ~ InList(Head(s), Tail(s))
<1> DEFINE t == Tail(s)
<1>1. /\ Head(s) \in S /\ t \in Seq(S) /\ Len(t) = Len(s) - 1
      /\ \A i \in 1 .. Len(t) : t[i] = s[i + 1]
      /\ Len(s) \in Nat \ {0} /\ Head(s) = s[1]
  BY HeadTailProperties, EmptySeq
<1> HIDE DEF t
<1>2. ASSUME NEW y PROVE InList(y, s) <=> y = Head(s) \/ InList(y, t)
  <2>1. ASSUME NEW i \in 1 .. Len(s), s[i] = y PROVE y = Head(s) \/ InList(y, t)
    <3>1. CASE i = 1  BY <2>1, <3>1, <1>1
    <3>2. CASE i # 1
      <4>1. i - 1 \in 1 .. Len(t) /\ t[i - 1] = y  BY <2>1, <3>2, <1>1
      <4> QED  BY <4>1 DEF InList
    <3> QED  BY <3>1, <3>2
  <2>2. ASSUME NEW i \in 1 .. Len(t), t[i] = y PROVE InList(y, s)
    <3>1. i + 1 \in 1 .. Len(s) /\ s[i + 1] = y  BY <2>2, <1>1
    <3> QED  BY <3>1 DEF InList
  <2>3. y = Head(s) => InList(y, s)  BY <1>1 DEF InList
  <2> QED  BY <2>1, <2>2, <2>3 DEF InList
<1>3. ASSUME NoRepeats(s) PROVE NoRepeats(t) /\ ~ InList(Head(s), t)
  <2>1. ASSUME NEW i \in 1 .. Len(t), NEW j \in 1 .. Len(t), t[i] = t[j] PROVE i = j
    <3>1. i + 1 \in 1 .. Len(s) /\ j + 1 \in 1 .. Len(s) /\ s[i + 1] = s[j + 1]
      BY <2>1, <1>1
    <3> QED  BY <3>1, <1>3 DEF NoRepeats
  <2>2. ASSUME NEW i \in 1 .. Len(t), t[i] = Head(s) PROVE FALSE
    <3>1. i + 1 \in 1 .. Len(s) /\ 1 \in 1 .. Len(s) /\ s[i + 1] = s[1]
      BY <2>2, <1>1
    <3> QED  BY <3>1, <1>3 DEF NoRepeats
  <2> QED  BY <2>1, <2>2 DEF NoRepeats, InList
<1> QED  BY <1>1, <1>2, <1>3 DEF t

LEMMA RemoveFromList ==
  ASSUME NEW S, NEW s \in Seq(S), NEW k \in 1 .. Len(s), NoRepeats(s)
  PROVE  /\ RemoveAt(s, k) \in Seq(S)
         /\ \A y : InList(y, RemoveAt(s, k)) <=> InList(y, s) /\ y # s[k]
         /\ NoRepeats(RemoveAt(s, k))
<1> DEFINE a == SubSeq(s, 1, k - 1)
           b == SubSeq(s, k + 1, Len(s))
           t == RemoveAt(s, k)
<1>0. Len(s) \in Nat /\ k \in Nat /\ \A i \in 1 .. Len(s) : s[i] \in S
  BY ElementOfSeq, LenProperties
<1>1. /\ a \in Seq(S) /\ Len(a) = k - 1
      /\ \A i \in 1 .. k - 1 : a[i] = s[i]
  <2>1. \A i \in 1 .. k - 1 : s[i] \in S  BY <1>0
  <2>2. /\ a \in Seq(S) /\ Len(a) = IF 1 <= k - 1 THEN (k - 1) - 1 + 1 ELSE 0
        /\ \A i \in 1 .. (k - 1) - 1 + 1 : a[i] = s[1 + i - 1]
    BY <2>1, <1>0, SubSeqProperties
  <2> HIDE DEF a
  <2> QED  BY <2>2, <1>0
<1>2. /\ b \in Seq(S) /\ Len(b) = Len(s) - k
      /\ \A i \in 1 .. Len(s) - k : b[i] = s[k + i]
  <2>1. \A i \in k + 1 .. Len(s) : s[i] \in S  BY <1>0
  <2>2. /\ b \in Seq(S) /\ Len(b) = IF k + 1 <= Len(s) THEN Len(s) - (k + 1) + 1 ELSE 0
        /\ \A i \in 1 .. Len(s) - (k + 1) + 1 : b[i] = s[(k + 1) + i - 1]
    BY <2>1, <1>0, SubSeqProperties
  <2> HIDE DEF b
  <2> QED  BY <2>2, <1>0
<1>3. /\ t \in Seq(S) /\ Len(t) = Len(s) - 1
      /\ \A i \in 1 .. Len(s) - 1 : t[i] = IF i < k THEN s[i] ELSE s[i + 1]
  <2>1. t = a \o b  BY DEF RemoveAt
  <2> HIDE DEF a, b, t
  <2>2. /\ t \in Seq(S) /\ Len(t) = Len(a) + Len(b)
        /\ \A i \in 1 .. Len(a) + Len(b) :
             t[i] = IF i <= Len(a) THEN a[i] ELSE b[i - Len(a)]
    BY <1>1, <1>2, <2>1, ConcatProperties
  <2>3. t \in Seq(S) /\ Len(t) = Len(s) - 1
    BY <1>0, <1>1, <1>2, <2>2
  <2>4. ASSUME NEW i \in 1 .. Len(s) - 1 PROVE t[i] = IF i < k THEN s[i] ELSE s[i + 1]
    <3>1. t[i] = IF i <= k - 1 THEN a[i] ELSE b[i - (k - 1)]
      BY <1>0, <1>1, <1>2, <2>2
    <3>2. CASE i < k
      <4>1. i \in 1 .. k - 1  BY <3>2, <1>0
      <4> QED  BY <4>1, <3>1, <3>2, <1>1
    <3>3. CASE ~ (i < k)
      <4>1. i - (k - 1) \in 1 .. Len(s) - k /\ k + (i - (k - 1)) = i + 1 /\ ~ (i <= k - 1)
        BY <3>3, <1>0
      <4>2. b[i - (k - 1)] = s[k + (i - (k - 1))]  BY <4>1, <1>2
      <4> QED  BY <4>1, <4>2, <3>1, <3>3
    <3> QED  BY <3>2, <3>3
  <2> QED  BY <2>3, <2>4
<1> HIDE DEF a, b, t
<1>4. ASSUME NEW y PROVE InList(y, t) <=> InList(y, s) /\ y # s[k]
  <2>1. ASSUME NEW i \in 1 .. Len(t), t[i] = y PROVE InList(y, s) /\ y # s[k]
    <3>1. CASE i < k
      <4>1. i \in 1 .. Len(s) /\ s[i] = y /\ i # k  BY <3>1, <2>1, <1>0, <1>3
      <4> QED  BY <4>1 DEF NoRepeats, InList
    <3>2. CASE ~ (i < k)
      <4>1. i + 1 \in 1 .. Len(s) /\ s[i + 1] = y /\ i + 1 # k  BY <3>2, <2>1, <1>0, <1>3
      <4> QED  BY <4>1 DEF NoRepeats, InList
    <3> QED  BY <3>1, <3>2
  <2>2. ASSUME NEW i \in 1 .. Len(s), s[i] = y, y # s[k] PROVE InList(y, t)
    <3>1. CASE i < k
      <4>1. i \in 1 .. Len(t) /\ t[i] = y  BY <3>1, <2>2, <1>0, <1>3
      <4> QED  BY <4>1 DEF InList
    <3>2. CASE i > k
      <4>1. i - 1 \in 1 .. Len(t) /\ t[i - 1] = y  BY <3>2, <2>2, <1>0, <1>3
      <4> QED  BY <4>1 DEF InList
    <3> QED  BY <3>1, <3>2, <2>2, <1>0
  <2> QED  BY <2>1, <2>2 DEF InList
<1>5. ASSUME NEW i \in 1 .. Len(t), NEW j \in 1 .. Len(t), t[i] = t[j] PROVE i = j
  <2> DEFINE at(n) == IF n < k THEN n ELSE n + 1
  <2>1. at(i) \in 1 .. Len(s) /\ at(j) \in 1 .. Len(s) /\ s[at(i)] = s[at(j)]
    BY <1>0, <1>3, <1>5
  <2>2. at(i) = at(j)  BY <2>1 DEF NoRepeats
  <2> QED  BY <2>2, <1>0
<1> QED  BY <1>3, <1>4, <1>5 DEF NoRepeats, t

LEMMA SplitList ==
  ASSUME NEW S, NEW s \in Seq(S), NEW n \in 0 .. Len(s), NoRepeats(s)
  PROVE  LET round == SubSeq(s, 1, n)
             rest  == SubSeq(s, n + 1, Len(s))
         IN /\ round \in Seq(S) /\ rest \in Seq(S) /\ Len(round) = n
            /\ NoRepeats(round) /\ NoRepeats(rest)
            /\ \A y : InList(y, s) <=> InList(y, round) \/ InList(y, rest)
            /\ \A y : InList(y, round) => ~ InList(y, rest)
<1> DEFINE round == SubSeq(s, 1, n)
           rest  == SubSeq(s, n + 1, Len(s))
<1>0. Len(s) \in Nat /\ n \in Nat /\ \A i \in 1 .. Len(s) : s[i] \in S
  BY ElementOfSeq, LenProperties
<1>1. /\ round \in Seq(S) /\ Len(round) = n
      /\ \A i \in 1 .. n : round[i] = s[i]
  <2>1. \A i \in 1 .. n : s[i] \in S  BY <1>0
  <2>2. /\ round \in Seq(S) /\ Len(round) = IF 1 <= n THEN n - 1 + 1 ELSE 0
        /\ \A i \in 1 .. n - 1 + 1 : round[i] = s[1 + i - 1]
    BY <2>1, <1>0, SubSeqProperties
  <2> HIDE DEF round
  <2>3. Len(round) = n  BY <2>2, <1>0
  <2>4. ASSUME NEW i \in 1 .. n PROVE round[i] = s[i]
    <3>1. i \in 1 .. n - 1 + 1 /\ 1 + i - 1 = i  BY <1>0
    <3> QED  BY <3>1, <2>2
  <2> QED  BY <2>2, <2>3, <2>4
<1>2. /\ rest \in Seq(S) /\ Len(rest) = Len(s) - n
      /\ \A i \in 1 .. Len(s) - n : rest[i] = s[n + i]
  <2>1. \A i \in n + 1 .. Len(s) : s[i] \in S  BY <1>0
  <2>2. /\ rest \in Seq(S)
        /\ Len(rest) = IF n + 1 <= Len(s) THEN Len(s) - (n + 1) + 1 ELSE 0
        /\ \A i \in 1 .. Len(s) - (n + 1) + 1 : rest[i] = s[(n + 1) + i - 1]
    BY <2>1, <1>0, SubSeqProperties
  <2> HIDE DEF rest
  <2> QED  BY <2>2, <1>0
<1> HIDE DEF round, rest
<1>3. NoRepeats(round)
  BY <1>0, <1>1 DEF NoRepeats
<1>4. ASSUME NEW i \in 1 .. Len(rest), NEW j \in 1 .. Len(rest), rest[i] = rest[j] PROVE i = j
  <2>1. n + i \in 1 .. Len(s) /\ n + j \in 1 .. Len(s) /\ s[n + i] = s[n + j]
    BY <1>0, <1>2, <1>4
  <2>2. n + i = n + j  BY <2>1 DEF NoRepeats
  <2> QED  BY <2>2, <1>0
<1>5. ASSUME NEW y, NEW i \in 1 .. Len(s), s[i] = y
      PROVE  InList(y, round) \/ InList(y, rest)
  <2>1. CASE i <= n
    <3>1. i \in 1 .. Len(round) /\ round[i] = y  BY <2>1, <1>0, <1>1, <1>5
    <3> QED  BY <3>1 DEF InList
  <2>2. CASE ~ (i <= n)
    <3>1. i - n \in 1 .. Len(rest) /\ rest[i - n] = y  BY <2>2, <1>0, <1>2, <1>5
    <3> QED  BY <3>1 DEF InList
  <2> QED  BY <2>1, <2>2
<1>6. ASSUME NEW y, NEW i \in 1 .. Len(rest), rest[i] = y
      PROVE  InList(y, s) /\ ~ InList(y, round)
  <2>1. n + i \in 1 .. Len(s) /\ s[n + i] = y  BY <1>0, <1>2, <1>6
  <2>2. ASSUME NEW j \in 1 .. Len(round), round[j] = y PROVE FALSE
    <3>1. j \in 1 .. Len(s) /\ s[j] = s[n + i] /\ j < n + i  BY <2>1, <2>2, <1>0, <1>1
    <3>2. j = n + i  BY <3>1, <2>1 DEF NoRepeats
    <3> QED  BY <3>1, <3>2, <1>0
  <2> QED  BY <2>1, <2>2 DEF InList
<1>7. \A y : InList(y, round) => InList(y, s)
  BY <1>0, <1>1 DEF InList
<1> QED
  <2>1. \A y : InList(y, s) => InList(y, round) \/ InList(y, rest)  BY <1>5 DEF InList
  <2>2. \A y : InList(y, rest) => InList(y, s) /\ ~ InList(y, round)  BY <1>6 DEF InList
  <2>3. NoRepeats(rest)  BY <1>4 DEF NoRepeats
  <2> QED  BY <1>1, <1>2, <1>3, <1>7, <2>1, <2>2, <2>3 DEF round, rest

-----------------------------------------------------------------------------
(* The ready list under the kernel's operations. *)

LEMMA Names ==
  /\ \A c \in Clients : c # Listen /\ c # None /\ c \in Channels
  /\ Listen \in Channels /\ ListenFd \notin Fds
  BY DEF Channels, Fds, ListenFd

LEMMA EnlistAdds ==
  ASSUME rdllist \in Seq(Channels), NEW x \in Channels, Enlist(x)
  PROVE  /\ rdllist' \in Seq(Channels)
         /\ \A y : InList(y, rdllist') <=> InList(y, rdllist) \/ y = x
         /\ NoRepeats(rdllist) => NoRepeats(rdllist')
<1>1. CASE InList(x, rdllist)
  <2>1. rdllist' = rdllist  BY <1>1 DEF Enlist
  <2> QED  BY <1>1, <2>1
<1>2. CASE ~ InList(x, rdllist)
  <2>1. rdllist' = Append(rdllist, x)  BY <1>2 DEF Enlist
  <2> QED  BY <1>2, <2>1, AppendList
<1> QED  BY <1>1, <1>2

LEMMA UnlistRemoves ==
  ASSUME rdllist \in Seq(Channels), NoRepeats(rdllist), NEW x, Unlist(x)
  PROVE  /\ rdllist' \in Seq(Channels)
         /\ \A y : InList(y, rdllist') <=> InList(y, rdllist) /\ y # x
         /\ NoRepeats(rdllist')
<1>1. CASE InList(x, rdllist)
  <2>1. PICK i \in 1 .. Len(rdllist) : rdllist[i] = x /\ rdllist' = RemoveAt(rdllist, i)
    BY <1>1 DEF Unlist
  <2> QED  BY <2>1, RemoveFromList
<1>2. CASE ~ InList(x, rdllist)
  <2>1. rdllist' = rdllist  BY <1>2 DEF Unlist
  <2> QED  BY <1>2, <2>1
<1> QED  BY <1>1, <1>2

LEMMA RoundSizeBounds ==
  ASSUME rdllist \in Seq(Channels)
  PROVE  RoundSize \in 0 .. Len(rdllist) /\ RoundSize <= MAXEVENTS
  BY LenProperties DEF RoundSize

(* What EpollDrop takes from the list has nothing to report. *)
LEMMA DropRemoves ==
  ASSUME rdllist \in Seq(Channels), NoRepeats(rdllist), EpollDrop
  PROVE  /\ rdllist' \in Seq(Channels) /\ NoRepeats(rdllist')
         /\ \E x : /\ ~ Reportable(x)
                   /\ \A y : InList(y, rdllist') <=> InList(y, rdllist) /\ y # x
<1>1. PICK i \in 1 .. RoundSize :
        ~ Reportable(rdllist[i]) /\ rdllist' = RemoveAt(rdllist, i)
  BY DEF EpollDrop
<1>2. i \in 1 .. Len(rdllist)
  BY RoundSizeBounds, LenProperties
<1>3. /\ rdllist' \in Seq(Channels) /\ NoRepeats(rdllist')
      /\ \A y : InList(y, rdllist') <=> InList(y, rdllist) /\ y # rdllist[i]
  BY <1>1, <1>2, RemoveFromList
<1> QED  BY <1>1, <1>3

(* EpollWait divides the list into the round and what is left of it; only  *)
(* the listening socket may be in both.                                    *)
LEMMA WaitDivides ==
  ASSUME rdllist \in Seq(Channels), NoRepeats(rdllist), EpollWait
  PROVE  /\ rdllist' \in Seq(Channels) /\ chns' \in Seq(Channels)
         /\ Len(chns') <= MAXEVENTS
         /\ NoRepeats(rdllist') /\ NoRepeats(chns')
         /\ \A y : InList(y, rdllist) <=> InList(y, rdllist') \/ InList(y, chns')
         /\ InList(Listen, rdllist) => InList(Listen, rdllist')
<1> DEFINE round == SubSeq(rdllist, 1, RoundSize)
           rest  == SubSeq(rdllist, RoundSize + 1, Len(rdllist))
<1>1. /\ chns' = round
      /\ rdllist' = IF InList(Listen, round) THEN Append(rest, Listen) ELSE rest
  BY DEF EpollWait, ListenEvents
<1>2. /\ round \in Seq(Channels) /\ rest \in Seq(Channels) /\ Len(round) = RoundSize
      /\ NoRepeats(round) /\ NoRepeats(rest)
      /\ \A y : InList(y, rdllist) <=> InList(y, round) \/ InList(y, rest)
      /\ \A y : InList(y, round) => ~ InList(y, rest)
  <2>1. RoundSize \in 0 .. Len(rdllist)  BY RoundSizeBounds
  <2> QED  BY <2>1, SplitList
<1> HIDE DEF round, rest
<1>3. CASE InList(Listen, round)
  <2>1. rdllist' = Append(rest, Listen)  BY <1>1, <1>3
  <2>2. /\ rdllist' \in Seq(Channels) /\ NoRepeats(rdllist')
        /\ \A y : InList(y, rdllist') <=> InList(y, rest) \/ y = Listen
    BY <2>1, <1>2, <1>3, Names, AppendList
  <2> QED  BY <1>1, <1>2, <1>3, <2>2, RoundSizeBounds
<1>4. CASE ~ InList(Listen, round)
  BY <1>1, <1>2, <1>4, RoundSizeBounds
<1> QED  BY <1>3, <1>4

-----------------------------------------------------------------------------

(* The connection that NewConnection registers is a new one. *)
LEMMA NewConnectionIsNew ==
  ASSUME TypeOK, PlaceInv, RegistryMatchesFds, NewConnection
  PROVE  /\ clientfd \in Fds /\ conns_[clientfd] = None
         /\ fdTable[clientfd] \in Clients /\ fdTable[clientfd] \in arrived \ alive
         /\ opened[fdTable[clientfd]] = 0
         /\ fdOf' = [fdOf EXCEPT ![fdTable[clientfd]] = clientfd]
         /\ alive' = alive \union {fdTable[clientfd]}
         /\ conns_' = [conns_ EXCEPT ![clientfd] = fdTable[clientfd]]
         /\ opened' = [opened EXCEPT ![fdTable[clientfd]] = @ + 1]
<1>1. /\ clientfd \in Fds /\ conns_[clientfd] = None
      /\ fdTable[clientfd] \in arrived \ alive
      /\ opened[fdTable[clientfd]] = 0
  BY DEF PlaceInv, NewConnection
<1>2. arrived \subseteq Clients /\ alive \subseteq arrived
  BY DEF TypeOK
<1>3. /\ fdOf' = [fdOf EXCEPT ![fdTable[clientfd]] = clientfd]
      /\ alive' = (alive \ {conns_[clientfd]}) \union {fdTable[clientfd]}
      /\ conns_' = [conns_ EXCEPT ![clientfd] = fdTable[clientfd]]
      /\ opened' = [opened EXCEPT ![fdTable[clientfd]] = @ + 1]
  BY DEF NewConnection, Announced
<1>4. None \notin alive  BY <1>2, Names
<1> QED  BY <1>1, <1>2, <1>3, <1>4

(* The connection that RemoveConnection destroys is registered under its   *)
(* own descriptor, is finished, and has no Channel left in the round.      *)
LEMMA RemovedIsFinished ==
  ASSUME TypeOK, RegistryMatchesFds, CurrentInv, RemoveConnection,
         NEW c, c = conns_[fd]
  PROVE  /\ fd \in Fds /\ c \in Clients /\ c \in alive /\ c \in finished
         /\ fdOf[c] = fd /\ fdTable[fd] = c
         /\ ~ InList(c, chns) /\ chns' = chns
         /\ closed' = [closed EXCEPT ![c] = @ + 1]
         /\ alive' = alive \ {c}
         /\ epollSet' = epollSet \ {c}
         /\ Unlist(c)
         /\ fdTable' = [fdTable EXCEPT ![fd] = None]
         /\ conns_' = [conns_ EXCEPT ![fd] = None]
<1>1. pc = "remove" /\ fd \in Fds /\ c # None  BY DEF RemoveConnection
<1>2. c \in alive /\ fdOf[c] = fd /\ fdTable[fd] = c
  BY <1>1 DEF RegistryMatchesFds
<1>3. c \in finished /\ ~ InList(c, chns)
  BY <1>1 DEF CurrentInv
<1>4. c \in Clients
  BY <1>3 DEF TypeOK
<1>5. /\ closed' = [closed EXCEPT ![c] = @ + 1]
      /\ alive' = alive \ {c}
      /\ epollSet' = epollSet \ {c}
      /\ Unlist(c)
      /\ fdTable' = [fdTable EXCEPT ![fd] = None]
      /\ conns_' = [conns_ EXCEPT ![fd] = None]
      /\ chns' = chns
  BY <1>2 DEF RemoveConnection, RoundAfterRemoval, FdTableAfterClose
<1> QED  BY <1>1, <1>2, <1>3, <1>4, <1>5

(* The descriptor that Accept returns was free, and so not registered. *)
LEMMA AcceptedIsFree ==
  ASSUME TypeOK, RegistryMatchesFds, Accept
  PROVE  /\ clientfd' \in Fds /\ fdTable[clientfd'] = None /\ conns_[clientfd'] = None
         /\ fdTable' = [fdTable EXCEPT ![clientfd'] = Head(backlog)]
         /\ backlog # << >> /\ backlog' = Tail(backlog)
         /\ Head(backlog) \in Clients
<1>1. PICK f \in FreeFds : clientfd' = f /\ fdTable' = [fdTable EXCEPT ![f] = Head(backlog)]
  BY DEF Accept
<1>2. f \in Fds /\ fdTable[f] = None  BY DEF FreeFds
<1>3. conns_[f] = None  BY <1>2 DEF RegistryMatchesFds
<1>4. backlog # << >> /\ backlog' = Tail(backlog)  BY DEF Accept
<1>5. Head(backlog) \in Clients  BY <1>4, TailList DEF TypeOK
<1> QED  BY <1>1, <1>2, <1>3, <1>4, <1>5

(* A Channel in the round is the listening socket's or that of a registered *)
(* connection, and comes once.                                              *)
LEMMA HeadOfRound ==
  ASSUME TypeOK, NoDanglingChannel, pc = "dispatch", chns # << >>
  PROVE  /\ Head(chns) \in Channels /\ Tail(chns) \in Seq(Channels)
         /\ Len(Tail(chns)) <= MAXEVENTS
         /\ Head(chns) # Listen => Head(chns) \in epollSet /\ Head(chns) \in alive
         /\ \A y : InList(y, chns) <=> y = Head(chns) \/ InList(y, Tail(chns))
         /\ NoRepeats(Tail(chns)) /\ ~ InList(Head(chns), Tail(chns))
<1>1. chns \in Seq(Channels) /\ Len(chns) <= MAXEVENTS  BY DEF TypeOK
<1>2. NoRepeats(chns)  BY DEF NoDanglingChannel
<1>3. /\ Head(chns) \in Channels /\ Tail(chns) \in Seq(Channels)
      /\ Len(Tail(chns)) <= Len(chns)
      /\ \A y : InList(y, chns) <=> y = Head(chns) \/ InList(y, Tail(chns))
      /\ NoRepeats(Tail(chns)) /\ ~ InList(Head(chns), Tail(chns))
  BY <1>1, <1>2, TailList
<1>4. Head(chns) \in epollSet \union {Listen} /\ epollSet \subseteq alive
  BY <1>3 DEF NoDanglingChannel
<1>5. Len(chns) \in Nat /\ Len(Tail(chns)) \in Nat
  BY <1>1, <1>3, LenProperties
<1> QED  BY <1>1, <1>3, <1>4, <1>5

-----------------------------------------------------------------------------
(* Type correctness needs to know where the connection under construction  *)
(* comes from, so it is proved together with ReactorInv.                   *)
LEMMA TypesAtStart == Init => TypeOK
<1> SUFFICES ASSUME Init PROVE TypeOK  OBVIOUS
<1>1. << >> \in Seq(Clients) /\ << >> \in Seq(Channels) /\ Len(<< >>) = 0
  BY EmptySeq
<1> QED  BY <1>1, Names DEF Init, TypeOK

LEMMA TypesAreKept ==
  ASSUME TypeOK, ReactorInv, [Next]_vars
  PROVE  TypeOK'
<1> USE DEF TypeOK
<1>1. ASSUME NEW c \in Clients, Connect(c) PROVE TypeOK'
  <2>1. Listen \in Channels /\ Enlist(Listen)  BY <1>1, Names DEF Connect
  <2>2. rdllist' \in Seq(Channels)  BY <2>1, EnlistAdds
  <2>3. backlog' \in Seq(Clients)  BY <1>1, AppendProperties DEF Connect
  <2> QED  BY <1>1, <2>2, <2>3 DEF Connect, objectVars, localVars, loopVars
<1>2. ASSUME NEW c \in Clients, ClientEvent(c) PROVE TypeOK'
  <2>1. rdllist' \in Seq(Channels)  BY <1>2, Names, EnlistAdds DEF ClientEvent
  <2> QED  BY <1>2, <2>1 DEF ClientEvent, objectVars, localVars, loopVars
<1>3. ASSUME NEW c \in Clients, ClientFinish(c) PROVE TypeOK'
  <2>1. rdllist' \in Seq(Channels)  BY <1>3, Names, EnlistAdds DEF ClientFinish
  <2> QED  BY <1>3, <2>1 DEF ClientFinish, objectVars, localVars, loopVars
<1>4. CASE EpollDrop
  <2>1. rdllist' \in Seq(Channels)
    BY <1>4, DropRemoves DEF ReactorInv, ReadyListInv
  <2> QED  BY <1>4, <2>1 DEF EpollDrop, objectVars, clientVars, localVars, loopVars
<1>5. CASE EpollWait
  <2>1. rdllist' \in Seq(Channels) /\ chns' \in Seq(Channels) /\ Len(chns') <= MAXEVENTS
    BY <1>5, WaitDivides DEF ReactorInv, ReadyListInv
  <2>2. dirty' \subseteq dirty
    BY <1>5 DEF EpollWait
  <2> QED  BY <1>5, <2>1, <2>2 DEF EpollWait, objectVars, clientVars
<1>6. CASE EndRound
  BY <1>6 DEF EndRound, objectVars, clientVars, loopVars, kernelVars
<1>7. CASE Dispatch \/ DispatchListen
  <2>1. TakeChannel /\ pc' \in {"handle", "accept"}
    BY <1>7 DEF Dispatch, DispatchListen
  <2>2. /\ Head(chns) \in Channels /\ Tail(chns) \in Seq(Channels)
        /\ Len(Tail(chns)) <= MAXEVENTS
    BY <2>1, HeadOfRound DEF TakeChannel, ReactorInv
  <2>3. fd' \in Fds \union {ListenFd}
    BY <2>1, <2>2 DEF TakeChannel, FdOfChannel, Channels
  <2> QED  BY <2>1, <2>2, <2>3 DEF TakeChannel, objectVars, clientVars, kernelVars
<1>8. CASE HandleMore \/ HandleLast \/ HandlerReturnsTrue \/ HandlerReturnsFalse
  <2>1. /\ dirty' \subseteq dirty /\ pc' \in {"handle", "dispatch", "remove"}
        /\ finished' = finished \/ (pc = "handle" /\ finished' = finished \union {chn})
        /\ UNCHANGED << backlog, fdTable, epollSet, rdllist, arrived, objectVars,
                        loopVars, clientfd >>
    BY <1>8 DEF clientVars, HandleMore, HandleLast,
                HandlerReturnsTrue, HandlerReturnsFalse, kernelVars, localVars
  <2>2. pc = "handle" => chn \in arrived
    BY DEF ReactorInv, NoDanglingChannel
  <2> QED  BY <2>1, <2>2 DEF objectVars, loopVars
<1>9. CASE Accept
  <2>1. /\ clientfd' \in Fds
        /\ fdTable' = [fdTable EXCEPT ![clientfd'] = Head(backlog)]
        /\ backlog # << >> /\ backlog' = Tail(backlog)
        /\ Head(backlog) \in Clients
    BY <1>9, AcceptedIsFree DEF ReactorInv
  <2>2. backlog' \in Seq(Clients)  BY <2>1, TailList
  <2> QED  BY <1>9, <2>1, <2>2 DEF Accept, objectVars, clientVars, loopVars
<1>10. CASE AcceptAgain
  BY <1>10 DEF AcceptAgain, objectVars, clientVars, loopVars, kernelVars
<1>11. CASE AcceptFails
  BY <1>11 DEF AcceptFails, objectVars, clientVars, loopVars, kernelVars
<1>12. CASE NewConnection
  <2> DEFINE c == fdTable[clientfd]
  <2>1. /\ clientfd \in Fds /\ c \in Clients /\ c \in arrived
        /\ fdOf' = [fdOf EXCEPT ![c] = clientfd]
        /\ alive' = alive \union {c}
        /\ conns_' = [conns_ EXCEPT ![clientfd] = c]
        /\ opened' = [opened EXCEPT ![c] = @ + 1]
    BY <1>12, NewConnectionIsNew DEF ReactorInv
  <2>2. epollSet' = epollSet \/ epollSet' = epollSet \union {c}
    BY <1>12 DEF NewConnection
  <2>3. rdllist' = rdllist \/ Enlist(c)
    BY <1>12 DEF NewConnection
  <2> HIDE DEF c
  <2>4. rdllist' \in Seq(Channels)  BY <2>1, <2>3, Names, EnlistAdds
  <2> QED  BY <1>12, <2>1, <2>2, <2>4 DEF NewConnection, clientVars, loopVars
<1>13. CASE RemoveConnection
  <2> DEFINE c == conns_[fd]
  <2>1. /\ fd \in Fds /\ c \in Clients
        /\ chns' = chns
        /\ closed' = [closed EXCEPT ![c] = @ + 1]
        /\ alive' = alive \ {c}
        /\ epollSet' = epollSet \ {c}
        /\ Unlist(c)
        /\ fdTable' = [fdTable EXCEPT ![fd] = None]
        /\ conns_' = [conns_ EXCEPT ![fd] = None]
    BY <1>13, RemovedIsFinished DEF ReactorInv
  <2> HIDE DEF c
  <2>2. rdllist' \in Seq(Channels)  BY <2>1, UnlistRemoves DEF ReactorInv, ReadyListInv
  <2> QED  BY <1>13, <2>1, <2>2 DEF RemoveConnection, clientVars
<1>14. CASE RemoveNothing
  BY <1>14 DEF RemoveNothing, RoundAfterRemoval, objectVars, clientVars, kernelVars
<1>15. CASE UNCHANGED vars
  BY <1>15 DEF vars, objectVars, clientVars, kernelVars, localVars, loopVars
<1> QED
  BY <1>1, <1>2, <1>3, <1>4, <1>5, <1>6, <1>7, <1>8, <1>9, <1>10, <1>11, <1>12, <1>13,
     <1>14, <1>15 DEF Next, Server

-----------------------------------------------------------------------------
(* The ready list: every item once, the listening socket while there is    *)
(* something to accept.                                                    *)
LEMMA ReadyListIsKept ==
  ASSUME TypeOK, ReactorInv, [Next]_vars
  PROVE  ReadyListInv'
<1>1. /\ rdllist \in Seq(Channels) /\ NoRepeats(rdllist)
      /\ backlog # << >> => InList(Listen, rdllist)
  BY DEF TypeOK, ReactorInv, ReadyListInv
<1>2. ASSUME NEW c \in Clients, Connect(c) PROVE ReadyListInv'
  <2>1. Enlist(Listen) /\ Listen \in Channels  BY <1>2, Names DEF Connect
  <2> QED  BY <1>1, <2>1, EnlistAdds DEF ReadyListInv
<1>3. ASSUME NEW c \in Clients, ClientEvent(c) \/ ClientFinish(c) PROVE ReadyListInv'
  <2>1. /\ Enlist(c) \/ rdllist' = rdllist
        /\ backlog' = backlog /\ c \in Channels
    BY <1>3, Names DEF ClientEvent, ClientFinish
  <2> QED  BY <1>1, <2>1, EnlistAdds DEF ReadyListInv
<1>4. CASE EpollDrop
  <2>1. PICK x : /\ ~ Reportable(x)
                 /\ \A y : InList(y, rdllist') <=> InList(y, rdllist) /\ y # x
    BY <1>1, <1>4, DropRemoves
  <2>2. backlog # << >> => x # Listen  BY <2>1 DEF Reportable
  <2>3. backlog' = backlog /\ NoRepeats(rdllist')
    BY <1>1, <1>4, DropRemoves DEF EpollDrop
  <2> QED  BY <1>1, <2>1, <2>2, <2>3 DEF ReadyListInv
<1>5. CASE EpollWait
  BY <1>1, <1>5, WaitDivides DEF ReadyListInv, EpollWait
<1>6. CASE Accept
  <2>1. rdllist' = rdllist /\ backlog # << >>  BY <1>6 DEF Accept
  <2> QED  BY <1>1, <2>1 DEF ReadyListInv
<1>7. CASE NewConnection
  <2> DEFINE c == fdTable[clientfd]
  <2>1. c \in Channels
    BY <1>7, NewConnectionIsNew, Names DEF ReactorInv
  <2>2. /\ Enlist(c) \/ rdllist' = rdllist
        /\ backlog' = backlog
    BY <1>7 DEF NewConnection
  <2> HIDE DEF c
  <2> QED  BY <1>1, <2>1, <2>2, EnlistAdds DEF ReadyListInv
<1>8. CASE RemoveConnection
  <2> DEFINE c == conns_[fd]
  <2>1. c \in Clients /\ Unlist(c) /\ backlog' = backlog
    BY <1>8, RemovedIsFinished DEF ReactorInv, RemoveConnection
  <2> HIDE DEF c
  <2>2. c # Listen  BY <2>1, Names
  <2> QED  BY <1>1, <2>1, <2>2, UnlistRemoves DEF ReadyListInv
<1>9. CASE \/ EndRound \/ Dispatch \/ DispatchListen \/ HandleMore \/ HandleLast
           \/ HandlerReturnsTrue \/ HandlerReturnsFalse
           \/ AcceptAgain \/ AcceptFails \/ RemoveNothing \/ UNCHANGED vars
  <2>1. rdllist' = rdllist /\ backlog' = backlog
    BY <1>9 DEF EndRound, TakeChannel, Dispatch, DispatchListen, HandleMore, HandleLast,
                HandlerReturnsTrue, HandlerReturnsFalse,
                AcceptAgain, AcceptFails, RemoveNothing, vars, kernelVars
  <2> QED  BY <1>1, <2>1 DEF ReadyListInv
<1> QED
  BY <1>2, <1>3, <1>4, <1>5, <1>6, <1>7, <1>8, <1>9 DEF Next, Server

(* No step leaves a pointer to a destroyed Channel in the epoll set or in  *)
(* the round.                                                              *)
LEMMA ChannelsStayAlive ==
  ASSUME TypeOK, ReactorInv, [Next]_vars
  PROVE  NoDanglingChannel'
<1>1. /\ rdllist \in Seq(Channels) /\ NoRepeats(rdllist)
      /\ epollSet \subseteq alive
      /\ \A x \in Channels :
           InList(x, rdllist) \/ InList(x, chns) => x \in epollSet \union {Listen}
      /\ NoRepeats(chns)
      /\ pc = "handle" => chn \in epollSet
  BY DEF TypeOK, ReactorInv, ReadyListInv, NoDanglingChannel
<1>2. ASSUME NEW c \in Clients, Connect(c) PROVE NoDanglingChannel'
  <2>1. /\ Enlist(Listen) /\ Listen \in Channels
        /\ chns' = chns /\ epollSet' = epollSet /\ alive' = alive
        /\ pc' = pc /\ chn' = chn
    BY <1>2, Names DEF Connect, objectVars, localVars, loopVars
  <2> QED  BY <1>1, <2>1, EnlistAdds DEF NoDanglingChannel
<1>3. ASSUME NEW c \in Clients, ClientEvent(c) \/ ClientFinish(c) PROVE NoDanglingChannel'
  <2>1. /\ (c \in epollSet /\ Enlist(c)) \/ rdllist' = rdllist
        /\ chns' = chns /\ epollSet' = epollSet /\ alive' = alive
        /\ pc' = pc /\ chn' = chn
        /\ c \in Channels
    BY <1>3, Names DEF ClientEvent, ClientFinish, objectVars, localVars, loopVars
  <2> QED  BY <1>1, <2>1, EnlistAdds DEF NoDanglingChannel
<1>4. CASE EpollDrop
  <2>1. /\ chns' = chns /\ epollSet' = epollSet /\ alive' = alive
        /\ pc' = pc /\ chn' = chn
    BY <1>4 DEF EpollDrop, objectVars, localVars, loopVars
  <2>2. \A y : InList(y, rdllist') => InList(y, rdllist)
    BY <1>1, <1>4, DropRemoves
  <2> QED  BY <1>1, <2>1, <2>2 DEF NoDanglingChannel
<1>5. CASE EpollWait
  <2>1. epollSet' = epollSet /\ alive' = alive /\ pc' = "dispatch"
    BY <1>5 DEF EpollWait, objectVars
  <2>2. /\ \A y : InList(y, rdllist') \/ InList(y, chns') => InList(y, rdllist)
        /\ NoRepeats(chns')
    BY <1>1, <1>5, WaitDivides
  <2> QED  BY <1>1, <2>1, <2>2 DEF NoDanglingChannel
<1>6. CASE Dispatch \/ DispatchListen
  <2>1. /\ \A y : InList(y, chns') => InList(y, chns)
        /\ NoRepeats(chns')
    BY <1>6, HeadOfRound DEF TakeChannel, Dispatch, DispatchListen, ReactorInv
  <2>2. epollSet' = epollSet /\ alive' = alive /\ rdllist' = rdllist
    BY <1>6 DEF TakeChannel, Dispatch, DispatchListen, objectVars, kernelVars
  <2>3. pc' = "handle" => chn' \in epollSet
    BY <1>6, HeadOfRound DEF TakeChannel, Dispatch, DispatchListen, ReactorInv
  <2> QED  BY <1>1, <2>1, <2>2, <2>3 DEF NoDanglingChannel
<1>7. CASE NewConnection
  <2> DEFINE c == fdTable[clientfd]
  <2>1. c \in Channels /\ alive' = alive \union {c}
    BY <1>7, NewConnectionIsNew, Names DEF ReactorInv
  <2>2. /\ \/ epollSet' = epollSet \union {c} /\ (Enlist(c) \/ rdllist' = rdllist)
           \/ epollSet' = epollSet /\ rdllist' = rdllist
        /\ chns' = chns /\ pc' = "accept"
    BY <1>7 DEF NewConnection, loopVars
  <2> HIDE DEF c
  <2> QED  BY <1>1, <2>1, <2>2, EnlistAdds DEF NoDanglingChannel
<1>8. CASE RemoveConnection
  <2> DEFINE c == conns_[fd]
  <2>1. /\ c \in Clients /\ Unlist(c) /\ ~ InList(c, chns) /\ chns' = chns
        /\ alive' = alive \ {c} /\ epollSet' = epollSet \ {c}
        /\ pc' = "dispatch"
    BY <1>8, RemovedIsFinished DEF ReactorInv, RemoveConnection
  <2> HIDE DEF c
  <2>2. \A y : InList(y, rdllist') <=> InList(y, rdllist) /\ y # c
    BY <1>1, <2>1, UnlistRemoves
  <2> QED  BY <1>1, <2>1, <2>2 DEF NoDanglingChannel
<1>9. CASE \/ EndRound \/ HandleMore \/ HandleLast
           \/ HandlerReturnsTrue \/ HandlerReturnsFalse \/ Accept \/ AcceptAgain
           \/ AcceptFails \/ RemoveNothing \/ UNCHANGED vars
  <2>1. /\ rdllist' = rdllist /\ chns' = chns /\ epollSet' = epollSet /\ alive' = alive
        /\ pc' = "handle" => pc = "handle" /\ chn' = chn
    BY <1>9 DEF EndRound, HandleMore, HandleLast,
                HandlerReturnsTrue, HandlerReturnsFalse, Accept, AcceptAgain, AcceptFails,
                RemoveNothing, RoundAfterRemoval, vars, kernelVars, objectVars, localVars, loopVars
  <2> QED  BY <1>1, <2>1 DEF NoDanglingChannel
<1> QED
  BY <1>2, <1>3, <1>4, <1>5, <1>6, <1>7, <1>8, <1>9 DEF Next, Server

(* The registry and the descriptor table stay in step. *)
LEMMA RegistryIsKept ==
  ASSUME TypeOK, ReactorInv, [Next]_vars
  PROVE  RegistryMatchesFds'
<1>1. /\ \A f \in Fds : conns_[f] # None =>
           conns_[f] \in alive /\ fdOf[conns_[f]] = f /\ fdTable[f] = conns_[f]
      /\ \A c \in alive : fdOf[c] \in Fds /\ conns_[fdOf[c]] = c
      /\ \A f \in Fds : fdTable[f] # None /\ conns_[f] = None =>
           pc = "newConnection" /\ clientfd = f
  BY DEF ReactorInv, RegistryMatchesFds
<1>2. /\ fdTable \in [Fds -> Clients \union {None}]
      /\ conns_ \in [Fds -> Clients \union {None}]
      /\ fdOf \in [Clients -> Fds \union {ListenFd}]
      /\ alive \subseteq Clients
  BY DEF TypeOK
<1>3. CASE Accept
  <2>1. /\ clientfd' \in Fds /\ fdTable[clientfd'] = None /\ conns_[clientfd'] = None
        /\ fdTable' = [fdTable EXCEPT ![clientfd'] = Head(backlog)]
    BY <1>3, AcceptedIsFree DEF ReactorInv
  <2>2. /\ conns_' = conns_ /\ fdOf' = fdOf /\ alive' = alive
        /\ pc = "accept" /\ pc' = "newConnection"
    BY <1>3 DEF Accept, objectVars
  <2>3. \A f \in Fds : f # clientfd' => fdTable'[f] = fdTable[f]
    BY <1>2, <2>1
  <2> QED  BY <1>1, <2>1, <2>2, <2>3 DEF RegistryMatchesFds
<1>4. CASE NewConnection
  <2> DEFINE c == fdTable[clientfd]
  <2>1. /\ clientfd \in Fds /\ conns_[clientfd] = None /\ c \in Clients /\ c \notin alive
        /\ fdOf' = [fdOf EXCEPT ![c] = clientfd]
        /\ alive' = alive \union {c}
        /\ conns_' = [conns_ EXCEPT ![clientfd] = c]
    BY <1>4, NewConnectionIsNew DEF ReactorInv
  <2>2. fdTable' = fdTable  BY <1>4 DEF NewConnection
  <2>3. fdTable[clientfd] = c /\ c # None  BY <2>1, Names
  <2> HIDE DEF c
  <2>4. /\ conns_'[clientfd] = c /\ fdOf'[c] = clientfd
        /\ \A f \in Fds : f # clientfd => conns_'[f] = conns_[f]
        /\ \A d \in Clients : d # c => fdOf'[d] = fdOf[d]
    BY <1>2, <2>1
  <2>5. ASSUME NEW f \in Fds, conns_'[f] # None
        PROVE  conns_'[f] \in alive' /\ fdOf'[conns_'[f]] = f /\ fdTable'[f] = conns_'[f]
    <3>1. CASE f = clientfd  BY <2>1, <2>2, <2>3, <2>4, <3>1
    <3>2. CASE f # clientfd
      <4>1. conns_'[f] = conns_[f] /\ conns_[f] \in alive /\ fdOf[conns_[f]] = f
            /\ fdTable[f] = conns_[f]
        BY <1>1, <2>4, <2>5, <3>2
      <4> QED  BY <1>2, <2>1, <2>2, <2>4, <4>1
    <3> QED  BY <3>1, <3>2
  <2>6. ASSUME NEW d \in alive' PROVE fdOf'[d] \in Fds /\ conns_'[fdOf'[d]] = d
    <3>1. CASE d = c  BY <2>1, <2>4, <3>1
    <3>2. CASE d # c
      <4>1. d \in alive /\ fdOf'[d] = fdOf[d] /\ fdOf[d] \in Fds /\ conns_[fdOf[d]] = d
        BY <1>1, <1>2, <2>1, <2>4, <2>6, <3>2
      <4>2. fdOf[d] # clientfd  BY <1>2, <2>1, <4>1, Names
      <4> QED  BY <2>4, <4>1, <4>2
    <3> QED  BY <3>1, <3>2
  <2>7. \A f \in Fds : fdTable'[f] # None => conns_'[f] # None
    BY <1>1, <2>2, <2>3, <2>4
  <2> QED  BY <2>5, <2>6, <2>7 DEF RegistryMatchesFds
<1>5. CASE RemoveConnection
  <2> DEFINE c == conns_[fd]
  <2>1. /\ fd \in Fds /\ c \in Clients /\ c \in alive
        /\ fdOf[c] = fd
        /\ alive' = alive \ {c}
        /\ fdTable' = [fdTable EXCEPT ![fd] = None]
        /\ conns_' = [conns_ EXCEPT ![fd] = None]
    BY <1>5, RemovedIsFinished DEF ReactorInv
  <2>2. fdOf' = fdOf /\ pc = "remove"  BY <1>5 DEF RemoveConnection
  <2>3. conns_[fd] = c  OBVIOUS
  <2> HIDE DEF c
  <2>4. /\ conns_'[fd] = None /\ fdTable'[fd] = None
        /\ \A f \in Fds : f # fd => conns_'[f] = conns_[f] /\ fdTable'[f] = fdTable[f]
    BY <1>2, <2>1
  <2>5. ASSUME NEW f \in Fds, conns_'[f] # None
        PROVE  conns_'[f] \in alive' /\ fdOf'[conns_'[f]] = f /\ fdTable'[f] = conns_'[f]
    <3>1. f # fd /\ conns_'[f] = conns_[f] /\ fdTable'[f] = fdTable[f]  BY <2>4, <2>5
    <3>2. conns_[f] \in alive /\ fdOf[conns_[f]] = f /\ fdTable[f] = conns_[f]
      BY <1>1, <2>5, <3>1
    <3> QED  BY <2>1, <2>2, <3>1, <3>2
  <2>6. ASSUME NEW d \in alive' PROVE fdOf'[d] \in Fds /\ conns_'[fdOf'[d]] = d
    <3>1. d \in alive /\ d # c /\ fdOf[d] \in Fds /\ conns_[fdOf[d]] = d
      BY <1>1, <2>1, <2>6
    <3> QED  BY <2>2, <2>3, <2>4, <3>1
  <2>7. \A f \in Fds : ~ (fdTable'[f] # None /\ conns_'[f] = None)
    BY <1>1, <2>2, <2>4
  <2> QED  BY <2>5, <2>6, <2>7 DEF RegistryMatchesFds
<1>6. CASE \E c \in Clients : Connect(c) \/ ClientEvent(c) \/ ClientFinish(c)
  <2>1. UNCHANGED << fdTable, conns_, fdOf, alive, pc, clientfd >>
    BY <1>6 DEF Connect, ClientEvent, ClientFinish, objectVars, localVars, loopVars
  <2> QED  BY <1>1, <2>1 DEF RegistryMatchesFds
<1>7. CASE \/ EpollDrop \/ EpollWait \/ EndRound \/ Dispatch \/ DispatchListen
           \/ HandleMore \/ HandleLast
           \/ HandlerReturnsTrue \/ HandlerReturnsFalse
           \/ AcceptAgain \/ AcceptFails \/ RemoveNothing
  <2>1. UNCHANGED << fdTable, conns_, fdOf, alive >> /\ pc # "newConnection"
    BY <1>7 DEF EpollDrop, EpollWait, EndRound, TakeChannel, Dispatch, DispatchListen,
                HandleMore, HandleLast,
                HandlerReturnsTrue, HandlerReturnsFalse, AcceptAgain, AcceptFails, RemoveNothing,
                kernelVars, objectVars
  <2> QED  BY <1>1, <2>1 DEF RegistryMatchesFds
<1>8. CASE UNCHANGED vars
  BY <1>1, <1>8 DEF RegistryMatchesFds, vars, kernelVars, objectVars, localVars, loopVars
<1> QED
  BY <1>3, <1>4, <1>5, <1>6, <1>7, <1>8 DEF Next, Server

(* Connection and close callbacks stay paired. *)
LEMMA CallbacksArePaired ==
  ASSUME TypeOK, ReactorInv, [Next]_vars
  PROVE  CallbacksPaired'
<1>1. \A c \in Clients : /\ opened[c] <= 1
                         /\ opened[c] = closed[c] + (IF c \in alive THEN 1 ELSE 0)
  BY DEF ReactorInv, CallbacksPaired
<1>2. opened \in [Clients -> Nat] /\ closed \in [Clients -> Nat]
  BY DEF TypeOK
<1>3. CASE NewConnection
  <2> DEFINE c == fdTable[clientfd]
  <2>1. /\ c \in Clients /\ c \notin alive /\ opened[c] = 0
        /\ alive' = alive \union {c}
        /\ opened' = [opened EXCEPT ![c] = @ + 1]
    BY <1>3, NewConnectionIsNew DEF ReactorInv
  <2>2. closed' = closed  BY <1>3 DEF NewConnection
  <2> HIDE DEF c
  <2>3. ASSUME NEW d \in Clients
        PROVE  /\ opened'[d] <= 1
               /\ opened'[d] = closed'[d] + (IF d \in alive' THEN 1 ELSE 0)
    <3>1. CASE d = c
      <4>1. closed[c] = 0 /\ opened'[c] = 1 /\ c \in alive'  BY <1>1, <1>2, <2>1
      <4> QED  BY <2>2, <3>1, <4>1
    <3>2. CASE d # c
      <4>1. opened'[d] = opened[d] /\ (d \in alive' <=> d \in alive)  BY <1>2, <2>1, <3>2
      <4> QED  BY <1>1, <2>2, <4>1
    <3> QED  BY <3>1, <3>2
  <2> QED  BY <2>3 DEF CallbacksPaired
<1>4. CASE RemoveConnection
  <2> DEFINE c == conns_[fd]
  <2>1. /\ c \in Clients /\ c \in alive
        /\ alive' = alive \ {c}
        /\ closed' = [closed EXCEPT ![c] = @ + 1]
    BY <1>4, RemovedIsFinished DEF ReactorInv
  <2>2. opened' = opened  BY <1>4 DEF RemoveConnection
  <2> HIDE DEF c
  <2>3. ASSUME NEW d \in Clients
        PROVE  /\ opened'[d] <= 1
               /\ opened'[d] = closed'[d] + (IF d \in alive' THEN 1 ELSE 0)
    <3>1. CASE d = c
      <4>1. closed'[c] = closed[c] + 1 /\ opened[c] = closed[c] + 1 /\ opened[c] <= 1
            /\ c \notin alive'
        BY <1>1, <1>2, <2>1
      <4> QED  BY <1>2, <2>2, <3>1, <4>1
    <3>2. CASE d # c
      <4>1. closed'[d] = closed[d] /\ (d \in alive' <=> d \in alive)  BY <1>2, <2>1, <3>2
      <4> QED  BY <1>1, <2>2, <4>1
    <3> QED  BY <3>1, <3>2
  <2> QED  BY <2>3 DEF CallbacksPaired
<1>5. CASE \/ \E c \in Clients : Connect(c) \/ ClientEvent(c) \/ ClientFinish(c)
           \/ EpollDrop \/ EpollWait \/ EndRound \/ Dispatch \/ DispatchListen
           \/ HandleMore \/ HandleLast \/ HandlerReturnsTrue \/ HandlerReturnsFalse
           \/ Accept \/ AcceptAgain \/ AcceptFails \/ RemoveNothing \/ UNCHANGED vars
  <2>1. opened' = opened /\ closed' = closed /\ alive' = alive
    BY <1>5 DEF Connect, ClientEvent, ClientFinish, EpollDrop, EpollWait, EndRound,
                TakeChannel, Dispatch, DispatchListen, HandleMore, HandleLast,
                HandlerReturnsTrue, HandlerReturnsFalse, Accept, AcceptAgain, AcceptFails,
                RemoveNothing, vars, objectVars
  <2> QED  BY <1>1, <2>1 DEF CallbacksPaired
<1> QED
  BY <1>3, <1>4, <1>5 DEF Next, Server

(* No step loses an event of a registered connection. *)
LEMMA EventsAreKept ==
  ASSUME TypeOK, ReactorInv, [Next]_vars
  PROVE  \A c \in (epollSet \intersect dirty)' : InList(c, rdllist')
<1>1. /\ rdllist \in Seq(Channels) /\ NoRepeats(rdllist)
      /\ \A c \in epollSet \intersect dirty : InList(c, rdllist)
      /\ dirty \subseteq Clients /\ epollSet \subseteq Clients
  BY DEF TypeOK, ReactorInv, ReadyListInv, NoForgottenEvent
<1>2. ASSUME NEW d \in Clients, Connect(d)
      PROVE  \A c \in (epollSet \intersect dirty)' : InList(c, rdllist')
  <2>1. /\ Enlist(Listen) /\ Listen \in Channels
        /\ chns' = chns /\ epollSet' = epollSet /\ dirty' = dirty
    BY <1>2, Names DEF Connect, localVars, loopVars
  <2> QED  BY <1>1, <2>1, EnlistAdds
<1>3. ASSUME NEW d \in Clients, ClientEvent(d) \/ ClientFinish(d)
      PROVE  \A c \in (epollSet \intersect dirty)' : InList(c, rdllist')
  <2>1. /\ chns' = chns /\ epollSet' = epollSet /\ dirty' \subseteq dirty \union {d}
        /\ IF d \in epollSet THEN Enlist(d) ELSE rdllist' = rdllist
        /\ d \in Channels
    BY <1>3, Names DEF ClientEvent, ClientFinish, localVars, loopVars
  <2> QED  BY <1>1, <2>1, EnlistAdds
<1>4. CASE EpollDrop
  <2>1. chns' = chns /\ epollSet' = epollSet /\ dirty' = dirty
    BY <1>4 DEF EpollDrop, localVars, loopVars
  <2>2. PICK x : /\ ~ Reportable(x)
                 /\ \A y : InList(y, rdllist') <=> InList(y, rdllist) /\ y # x
    BY <1>1, <1>4, DropRemoves
  <2>3. x \notin dirty  BY <1>1, <2>2, Names DEF Reportable
  <2> QED  BY <1>1, <2>1, <2>2, <2>3
<1>5. CASE EpollWait
  <2>1. epollSet' = epollSet /\ dirty' = { c \in dirty : ~ InList(c, chns') }
    BY <1>5 DEF EpollWait
  <2> QED  BY <1>1, <1>5, <2>1, WaitDivides
<1>8. CASE NewConnection
  <2> DEFINE d == fdTable[clientfd]
  <2>1. d \in Channels
    BY <1>8, NewConnectionIsNew, Names DEF ReactorInv
  <2>2. /\ \/ /\ epollSet' = epollSet \union {d}
              /\ IF d \in dirty THEN Enlist(d) ELSE rdllist' = rdllist
           \/ epollSet' = epollSet /\ rdllist' = rdllist
        /\ chns' = chns /\ dirty' = dirty
    BY <1>8 DEF NewConnection, loopVars
  <2> HIDE DEF d
  <2> QED  BY <1>1, <2>1, <2>2, EnlistAdds
<1>9. CASE RemoveConnection
  <2> DEFINE d == conns_[fd]
  <2>1. Unlist(d) /\ chns' = chns /\ epollSet' = epollSet \ {d}
    BY <1>9, RemovedIsFinished DEF ReactorInv
  <2>2. dirty' = dirty  BY <1>9 DEF RemoveConnection
  <2> HIDE DEF d
  <2>3. \A y : InList(y, rdllist') <=> InList(y, rdllist) /\ y # d
    BY <1>1, <2>1, UnlistRemoves
  <2> QED  BY <1>1, <2>1, <2>2, <2>3
<1>10. CASE \/ EndRound \/ Dispatch \/ DispatchListen \/ HandleMore \/ HandleLast
            \/ HandlerReturnsTrue \/ HandlerReturnsFalse \/ Accept \/ AcceptAgain
            \/ AcceptFails \/ RemoveNothing \/ UNCHANGED vars
  <2>1. rdllist' = rdllist /\ epollSet' = epollSet /\ dirty' \subseteq dirty
    BY <1>10 DEF EndRound, TakeChannel, Dispatch, DispatchListen, HandleMore, HandleLast,
                 HandlerReturnsTrue, HandlerReturnsFalse, Accept, AcceptAgain, AcceptFails,
                 RemoveNothing, vars, kernelVars, localVars
  <2> QED  BY <1>1, <2>1
<1> QED
  BY <1>2, <1>3, <1>4, <1>5, <1>8, <1>9, <1>10 DEF Next, Server

(* The thread's place, its round and the current descriptor fit together. *)
LEMMA CurrentIsKept ==
  ASSUME TypeOK, ReactorInv, [Next]_vars
  PROVE  CurrentInv'
<1>1. /\ pc = "epoll_wait" => chns = << >>
      /\ pc \in {"accept", "newConnection"} => fd = ListenFd
      /\ pc = "handle" => fd \in Fds /\ conns_[fd] = chn /\ ~ InList(chn, chns)
      /\ pc = "remove" /\ fd \in Fds =>
           /\ conns_[fd] = chn /\ chn \in finished \intersect epollSet
           /\ ~ InList(chn, chns)
      /\ pc = "handle" => chn \in epollSet
  BY DEF ReactorInv, CurrentInv, NoDanglingChannel
<1>2. CASE \E c \in Clients : Connect(c) \/ ClientEvent(c) \/ ClientFinish(c)
  <2>1. UNCHANGED << pc, chns, chn, fd, conns_, epollSet >> /\ finished \subseteq finished'
    BY <1>2 DEF Connect, ClientEvent, ClientFinish, objectVars, localVars, loopVars
  <2> QED  BY <1>1, <2>1 DEF CurrentInv
<1>3. CASE Dispatch
  <2> DEFINE c == Head(chns)
  <2>1. /\ chns' = Tail(chns) /\ conns_' = conns_ /\ chn' = c /\ fd' = fdOf[c]
        /\ pc' = "handle"
    BY <1>3 DEF TakeChannel, Dispatch, FdOfChannel, objectVars
  <2>2. c \in alive /\ ~ InList(c, Tail(chns))
    BY <1>3, HeadOfRound DEF TakeChannel, Dispatch, ReactorInv
  <2> HIDE DEF c
  <2>3. fdOf[c] \in Fds /\ conns_[fdOf[c]] = c
    BY <2>2 DEF ReactorInv, RegistryMatchesFds
  <2> QED  BY <2>1, <2>2, <2>3 DEF CurrentInv
<1>4. CASE DispatchListen
  <2>1. pc' = "accept" /\ fd' = ListenFd
    BY <1>4 DEF TakeChannel, DispatchListen, FdOfChannel
  <2> QED  BY <2>1 DEF CurrentInv
<1>10. CASE HandleMore \/ HandleLast \/ HandlerReturnsTrue \/ HandlerReturnsFalse
  <2>1. /\ pc = "handle" /\ UNCHANGED << chns, chn, fd, conns_, epollSet >>
        /\ pc' \in {"handle", "dispatch", "remove"}
        /\ pc' = "remove" => chn \in finished'
    BY <1>10 DEF HandleMore, HandleLast, HandlerReturnsTrue, HandlerReturnsFalse,
                 localVars, loopVars, objectVars, kernelVars
  <2> QED  BY <1>1, <2>1 DEF CurrentInv
<1>5. CASE Accept \/ NewConnection
  <2>1. pc \in {"accept", "newConnection"} /\ fd' = fd /\ pc' \in {"accept", "newConnection"}
    BY <1>5 DEF Accept, NewConnection, loopVars
  <2> QED  BY <1>1, <2>1 DEF CurrentInv
<1>6. CASE AcceptFails
  <2>1. pc = "accept" /\ fd' = fd /\ pc' = "remove"
    BY <1>6 DEF AcceptFails, loopVars
  <2> QED  BY <1>1, <2>1, Names DEF CurrentInv
<1>7. CASE EpollWait \/ AcceptAgain \/ RemoveConnection \/ RemoveNothing
  <2>1. pc' = "dispatch"
    BY <1>7 DEF EpollWait, AcceptAgain, RemoveConnection, RemoveNothing
  <2> QED  BY <2>1 DEF CurrentInv
<1>8. CASE EndRound
  BY <1>8 DEF CurrentInv, EndRound, loopVars
<1>9. CASE EpollDrop \/ UNCHANGED vars
  <2>1. UNCHANGED << pc, chns, chn, fd, conns_, finished, epollSet >>
    BY <1>9 DEF EpollDrop, vars, kernelVars, objectVars, localVars, loopVars, clientVars
  <2> QED  BY <1>1, <2>1 DEF CurrentInv
<1> QED
  BY <1>2, <1>3, <1>4, <1>5, <1>6, <1>7, <1>8, <1>9, <1>10 DEF Next, Server

(* A client stays in one place: on its way, waiting, under construction,   *)
(* registered, or gone.                                                    *)
LEMMA PlaceIsKept ==
  ASSUME TypeOK, ReactorInv, [Next]_vars
  PROVE  PlaceInv'
<1>1. /\ NoRepeats(backlog)
      /\ \A f \in Fds : fdTable[f] # None => fdTable[f] \in arrived
      /\ \A c \in Clients : InList(c, backlog) =>
           c \in arrived \ alive /\ opened[c] = 0 /\ \A f \in Fds : fdTable[f] # c
      /\ pc = "newConnection" =>
           /\ clientfd \in Fds /\ conns_[clientfd] = None
           /\ fdTable[clientfd] \in arrived \ alive /\ opened[fdTable[clientfd]] = 0
      /\ \A c \in Clients \ arrived : opened[c] = 0
  BY DEF ReactorInv, PlaceInv
<1>2. /\ backlog \in Seq(Clients) /\ alive \subseteq arrived /\ arrived \subseteq Clients
      /\ fdTable \in [Fds -> Clients \union {None}]
      /\ opened \in [Clients -> Nat]
  BY DEF TypeOK
<1>3. ASSUME NEW c \in Clients, Connect(c) PROVE PlaceInv'
  <2>1. /\ c \notin arrived /\ arrived' = arrived \union {c} /\ backlog' = Append(backlog, c)
        /\ UNCHANGED << fdTable, alive, opened, pc, clientfd, conns_ >>
    BY <1>3 DEF Connect, objectVars, localVars, loopVars
  <2>2. ~ InList(c, backlog)  BY <1>1, <2>1
  <2>3. /\ NoRepeats(backlog')
        /\ \A y : InList(y, backlog') <=> InList(y, backlog) \/ y = c
    BY <1>1, <1>2, <2>1, <2>2, AppendList
  <2>4. \A f \in Fds : fdTable[f] # c  BY <1>1, <2>1, Names
  <2> QED  BY <1>1, <1>2, <2>1, <2>3, <2>4 DEF PlaceInv
<1>4. CASE Accept
  <2>1. /\ clientfd' \in Fds /\ fdTable[clientfd'] = None /\ conns_[clientfd'] = None
        /\ fdTable' = [fdTable EXCEPT ![clientfd'] = Head(backlog)]
        /\ backlog # << >> /\ backlog' = Tail(backlog)
        /\ Head(backlog) \in Clients
    BY <1>4, AcceptedIsFree DEF ReactorInv
  <2>2. UNCHANGED << arrived, alive, opened, conns_ >>
    BY <1>4 DEF Accept, objectVars, clientVars
  <2>3. /\ NoRepeats(Tail(backlog)) /\ ~ InList(Head(backlog), Tail(backlog))
        /\ \A y : InList(y, backlog) <=> y = Head(backlog) \/ InList(y, Tail(backlog))
    BY <1>1, <1>2, <2>1, TailList
  <2>4. /\ Head(backlog) \in arrived \ alive /\ opened[Head(backlog)] = 0
    BY <1>1, <2>1, <2>3
  <2>5. /\ fdTable'[clientfd'] = Head(backlog)
        /\ \A f \in Fds : f # clientfd' => fdTable'[f] = fdTable[f]
    BY <1>2, <2>1
  <2>6. \A f \in Fds : fdTable'[f] # None => fdTable'[f] \in arrived'
    BY <1>1, <2>2, <2>4, <2>5
  <2>7. ASSUME NEW c \in Clients, InList(c, backlog')
        PROVE  c \in arrived' \ alive' /\ opened'[c] = 0 /\ \A f \in Fds : fdTable'[f] # c
    <3>1. InList(c, backlog) /\ c # Head(backlog)  BY <2>1, <2>3, <2>7
    <3> QED  BY <1>1, <2>2, <2>5, <3>1
  <2>8. /\ clientfd' \in Fds /\ conns_'[clientfd'] = None
        /\ fdTable'[clientfd'] \in arrived' \ alive' /\ opened'[fdTable'[clientfd']] = 0
    BY <2>1, <2>2, <2>4, <2>5
  <2>9. NoRepeats(backlog') /\ \A c \in Clients \ arrived' : opened'[c] = 0
    BY <1>1, <2>1, <2>2, <2>3
  <2> QED  BY <2>6, <2>7, <2>8, <2>9 DEF PlaceInv
<1>5. CASE NewConnection
  <2> DEFINE c == fdTable[clientfd]
  <2>1. /\ clientfd \in Fds /\ c \in Clients /\ c \in arrived
        /\ alive' = alive \union {c}
        /\ opened' = [opened EXCEPT ![c] = @ + 1]
    BY <1>5, NewConnectionIsNew DEF ReactorInv
  <2>2. UNCHANGED << backlog, fdTable, arrived >> /\ pc' = "accept"
    BY <1>5 DEF NewConnection, clientVars
  <2>3. ~ InList(c, backlog)  BY <1>1, <2>1
  <2> HIDE DEF c
  <2>4. \A d \in Clients : d # c => opened'[d] = opened[d]  BY <1>2, <2>1
  <2> QED  BY <1>1, <1>2, <2>1, <2>2, <2>3, <2>4 DEF PlaceInv
<1>6. CASE RemoveConnection
  <2>1. /\ fd \in Fds /\ alive' \subseteq alive
        /\ fdTable' = [fdTable EXCEPT ![fd] = None]
    BY <1>6, RemovedIsFinished DEF ReactorInv
  <2>2. UNCHANGED << backlog, arrived, opened >> /\ pc' = "dispatch"
    BY <1>6 DEF RemoveConnection, clientVars
  <2>3. \A f \in Fds : fdTable'[f] = None \/ fdTable'[f] = fdTable[f]
    BY <1>2, <2>1
  <2> QED  BY <1>1, <2>1, <2>2, <2>3, Names DEF PlaceInv
<1>7. CASE \E c \in Clients : ClientEvent(c) \/ ClientFinish(c)
  <2>1. UNCHANGED << backlog, fdTable, arrived, alive, opened, pc, clientfd, conns_ >>
    BY <1>7 DEF ClientEvent, ClientFinish, objectVars, localVars, loopVars
  <2> QED  BY <1>1, <2>1 DEF PlaceInv
<1>8. CASE \/ EpollDrop \/ EpollWait \/ EndRound \/ Dispatch \/ DispatchListen
           \/ HandleMore \/ HandleLast \/ HandlerReturnsTrue \/ HandlerReturnsFalse
           \/ AcceptAgain \/ AcceptFails \/ RemoveNothing
  <2>1. /\ UNCHANGED << backlog, fdTable, arrived, alive, opened >>
        /\ pc' # "newConnection"
    BY <1>8 DEF EpollDrop, EpollWait, EndRound, TakeChannel, Dispatch, DispatchListen,
                HandleMore, HandleLast,
                HandlerReturnsTrue, HandlerReturnsFalse, AcceptAgain, AcceptFails, RemoveNothing,
                kernelVars, objectVars,
                clientVars, localVars, loopVars
  <2> QED  BY <1>1, <2>1 DEF PlaceInv
<1>9. CASE UNCHANGED vars
  <2>1. UNCHANGED << backlog, fdTable, arrived, alive, opened, pc, clientfd, conns_ >>
    BY <1>9 DEF vars, kernelVars, objectVars, localVars, loopVars, clientVars
  <2> QED  BY <1>1, <2>1 DEF PlaceInv
<1> QED
  BY <1>3, <1>4, <1>5, <1>6, <1>7, <1>8, <1>9 DEF Next, Server

-----------------------------------------------------------------------------
LEMMA InvariantAtStart == Init => ReactorInv
<1> SUFFICES ASSUME Init PROVE ReactorInv  OBVIOUS
<1>1. /\ backlog = << >> /\ rdllist = << >> /\ chns = << >>
      /\ epollSet = {} /\ alive = {} /\ dirty = {} /\ arrived = {}
      /\ fdTable = [f \in Fds |-> None] /\ conns_ = [f \in Fds |-> None]
      /\ opened = [c \in Clients |-> 0] /\ closed = [c \in Clients |-> 0]
      /\ pc = "epoll_wait"
  BY DEF Init
<1>2. NoRepeats(<< >>)  BY DEF NoRepeats
<1>3. NoDanglingChannel  BY <1>1, <1>2, InEmpty DEF NoDanglingChannel
<1>4. RegistryMatchesFds  BY <1>1 DEF RegistryMatchesFds
<1>5. CallbacksPaired
  <2>1. \A c \in Clients : opened[c] = 0 /\ closed[c] = 0 /\ c \notin alive  BY <1>1
  <2>2. ASSUME NEW c \in Clients
        PROVE  /\ opened[c] <= 1
               /\ opened[c] = closed[c] + (IF c \in alive THEN 1 ELSE 0)
    <3>1. opened[c] = 0 /\ closed[c] = 0 /\ (IF c \in alive THEN 1 ELSE 0) = 0
      BY <2>1
    <3> QED  BY ONLY <3>1
  <2> QED  BY <2>2 DEF CallbacksPaired
<1>6. NoForgottenEvent  BY <1>1 DEF NoForgottenEvent
<1>7. PlaceInv  BY <1>1, <1>2, InEmpty DEF PlaceInv
<1>8. CurrentInv  BY <1>1 DEF CurrentInv
<1>9. ReadyListInv  BY <1>1, <1>2 DEF ReadyListInv
<1> QED  BY <1>3, <1>4, <1>5, <1>6, <1>7, <1>8, <1>9 DEF ReactorInv

LEMMA InvariantIsKept ==
  ASSUME TypeOK, ReactorInv, [Next]_vars
  PROVE  TypeOK' /\ ReactorInv'
<1>1. ReadyListInv'  BY ReadyListIsKept
<1>2. NoForgottenEvent'
  <2>1. \A c \in (epollSet \intersect dirty)' : InList(c, rdllist')
    BY EventsAreKept
  <2>2. backlog' # << >> => InList(Listen, rdllist')
    BY <1>1 DEF ReadyListInv
  <2> QED  BY <2>1, <2>2 DEF NoForgottenEvent
<1>3. /\ NoDanglingChannel' /\ RegistryMatchesFds' /\ CallbacksPaired'
      /\ PlaceInv' /\ CurrentInv'
  BY ChannelsStayAlive, RegistryIsKept, CallbacksArePaired, PlaceIsKept, CurrentIsKept
<1> QED  BY <1>1, <1>2, <1>3, TypesAreKept DEF ReactorInv

(* The whole inductive invariant of the server thread: the ready list, the  *)
(* round at hand, the registry and the descriptor table always fit          *)
(* together, for any number of clients, descriptors and events per round.   *)
THEOREM Invariant == Spec => [](TypeOK /\ ReactorInv)
<1>1. Init => TypeOK /\ ReactorInv
  BY TypesAtStart, InvariantAtStart
<1>2. TypeOK /\ ReactorInv /\ [Next]_vars => (TypeOK /\ ReactorInv)'
  BY InvariantIsKept
<1> QED  BY <1>1, <1>2, PTL DEF Spec

(* Types of every variable of the server thread and the kernel, and a round *)
(* that fits into the array events_ of class Epoll.                         *)
THEOREM TypeCorrect == Spec => []TypeOK
  BY Invariant, PTL

(* The Channel pointers that Eventloop::loop walks through, and those in    *)
(* the epoll set, always point to live objects.                             *)
THEOREM ChannelsAlive == Spec => []NoDanglingChannel
<1>1. ReactorInv => NoDanglingChannel  BY DEF ReactorInv
<1> QED  BY <1>1, Invariant, PTL

(* TcpServer's conns_ and the process's descriptors always agree, also      *)
(* while numbers are reused.                                                *)
THEOREM RegistryAgrees == Spec => []RegistryMatchesFds
<1>1. ReactorInv => RegistryMatchesFds  BY DEF ReactorInv
<1> QED  BY <1>1, Invariant, PTL

(* Every connection callback is followed by at most one close callback,     *)
(* which comes with the end of the TcpConnection object.                    *)
THEOREM CallbacksComeInPairs == Spec => []CallbacksPaired
<1>1. ReactorInv => CallbacksPaired  BY DEF ReactorInv
<1> QED  BY <1>1, Invariant, PTL

(* No event of a registered connection, and no waiting client, is ever      *)
(* missing from both the ready list and the round.                          *)
THEOREM EventsRemembered == Spec => []NoForgottenEvent
<1>1. ReactorInv => NoForgottenEvent  BY DEF ReactorInv
<1> QED  BY <1>1, Invariant, PTL

(* TcpServer::removeConnection destroys no connection but the one whose     *)
(* handler returned false, and no new connection displaces an old one from  *)
(* conns_.                                                                  *)
THEOREM OnlyFinishedAreDestroyed == Spec => OnlyFinishedDestroyed
<1>1. ASSUME TypeOK, ReactorInv, [Next]_vars
      PROVE  [\A c \in alive \ alive' : pc = "remove" /\ chn = c /\ c \in finished]_vars
  <2>1. CASE NewConnection
    <3>1. alive \subseteq alive'
      BY <1>1, <2>1, NewConnectionIsNew DEF ReactorInv
    <3> QED  BY <3>1
  <2>2. CASE RemoveConnection
    <3>1. fd \in Fds /\ conns_[fd] \in finished /\ alive' = alive \ {conns_[fd]}
      BY <1>1, <2>2, RemovedIsFinished DEF ReactorInv
    <3>2. pc = "remove" /\ conns_[fd] = chn
      BY <1>1, <2>2, <3>1 DEF RemoveConnection, ReactorInv, CurrentInv
    <3> QED  BY <3>1, <3>2
  <2>3. CASE \/ \E c \in Clients : Connect(c) \/ ClientEvent(c) \/ ClientFinish(c)
             \/ EpollDrop \/ EpollWait \/ EndRound \/ Dispatch \/ DispatchListen
             \/ HandleMore \/ HandleLast \/ HandlerReturnsTrue \/ HandlerReturnsFalse
             \/ Accept \/ AcceptAgain \/ AcceptFails \/ RemoveNothing
    <3>1. alive' = alive
      BY <2>3 DEF Connect, ClientEvent, ClientFinish, EpollDrop, EpollWait, EndRound,
                  TakeChannel, Dispatch, DispatchListen, HandleMore, HandleLast,
                  HandlerReturnsTrue, HandlerReturnsFalse,
                  Accept, AcceptAgain, AcceptFails, RemoveNothing,
                  objectVars
    <3> QED  BY <3>1
  <2>4. CASE UNCHANGED vars
    BY <2>4
  <2> QED  BY <1>1, <2>1, <2>2, <2>3, <2>4 DEF Next, Server
<1> QED  BY <1>1, Invariant, PTL DEF Spec, OnlyFinishedDestroyed

-----------------------------------------------------------------------------
(* ConnectionPool: the queue of clients that wait for a place. *)
LEMMA QueueMoves ==
  ASSUME NEW S, NEW s \in Seq(S), NEW x \in S
  PROVE  /\ << x >> \in Seq(S) /\ << >> \o s = s
         /\ << x >> \o s # << >> /\ << x >> \o s \in Seq(S)
         /\ Head(<< x >> \o s) = x /\ Tail(<< x >> \o s) = s
         /\ \A e \in S : << x >> \o Append(s, e) = Append(<< x >> \o s, e)
         /\ s # << >> => << Head(s) >> \o Tail(s) = s
<1> DEFINE t == << x >> \o s
<1>1. << x >> \in Seq(S) /\ Len(<< x >>) = 1 /\ << x >>[1] = x /\ Len(s) \in Nat
  OBVIOUS
<1>2. /\ t \in Seq(S) /\ Len(t) = 1 + Len(s)
      /\ \A i \in 1 .. 1 + Len(s) : t[i] = IF i <= 1 THEN << x >>[i] ELSE s[i - 1]
  BY <1>1, ConcatProperties
<1>3. t # << >> /\ Head(t) = x
  BY <1>1, <1>2
<1>4. Tail(t) = s
  <2>1. Tail(t) \in Seq(S) /\ Len(Tail(t)) = Len(s)
        /\ \A i \in 1 .. Len(s) : Tail(t)[i] = t[i + 1]
    BY <1>1, <1>2, <1>3, HeadTailProperties
  <2>2. \A i \in 1 .. Len(s) : t[i + 1] = s[i]
    BY <1>1, <1>2
  <2> QED  BY <2>1, <2>2, SeqEqual
<1>5. ASSUME NEW e \in S
      PROVE  << x >> \o Append(s, e) = Append(t, e)
  <2>1. << e >> \in Seq(S)  BY <1>5
  <2>2. Append(s, e) = s \o << e >> /\ Append(t, e) = t \o << e >>
    BY <1>2, <1>5, AppendIsConcat
  <2> QED  BY <1>1, <2>1, <2>2, ConcatAssociative
<1>6. ASSUME s # << >>
      PROVE  << Head(s) >> \o Tail(s) = s
  <2>1. 1 \in 1 .. Len(s) /\ Len(s) \in 1 .. Len(s) /\ 1 + 1 = 2
    BY <1>6, EmptySeq
  <2>2. SubSeq(s, 1, Len(s)) = << s[1] >> \o SubSeq(s, 2, Len(s))
    BY <2>1, SubSeqRecursiveFirst
  <2>3. SubSeq(s, 1, Len(s)) = s /\ Tail(s) = SubSeq(s, 2, Len(s)) /\ Head(s) = s[1]
    BY <1>6, SubSeqFull, TailIsSubSeq
  <2> QED  BY <2>2, <2>3
<1>7. << >> \o s = s  BY ConcatEmptySeq
<1> HIDE DEF t
<1> QED  BY <1>1, <1>2, <1>3, <1>4, <1>5, <1>6, <1>7 DEF t

(* What the service does not notice. *)
LEMMA PoolUnseen ==
  ASSUME UNCHANGED << arrived, finished, backlog, fdTable, conns_, clientfd >>,
         pc # "newConnection", pc' # "newConnection"
  PROVE  [Pool!Next]_Pool!vars
<1>1. UNCHANGED Waiting  BY DEF Waiting
<1> QED  BY <1>1 DEF Pool!vars

(* A connection that accept4 has returned waits like those in the backlog. *)
LEMMA ClientWaits ==
  ASSUME TypeOK, PlaceInv, RegistryMatchesFds
  PROVE  /\ backlog \in Seq(Clients)
         /\ pc = "newConnection" =>
              /\ clientfd \in Fds /\ fdTable[clientfd] \in Clients
              /\ Waiting = << fdTable[clientfd] >> \o backlog
         /\ pc # "newConnection" => Waiting = backlog
<1>1. backlog \in Seq(Clients) /\ arrived \subseteq Clients  BY DEF TypeOK
<1>2. << >> \o backlog = backlog  BY <1>1, ConcatEmptySeq
<1>3. pc = "newConnection" => clientfd \in Fds /\ fdTable[clientfd] \in arrived
  BY DEF PlaceInv
<1> QED  BY <1>1, <1>2, <1>3 DEF Waiting

LEMMA ConnectComes ==
  ASSUME TypeOK, PlaceInv, RegistryMatchesFds, NEW c \in Clients, Connect(c)
  PROVE  Pool!Next
<1>1. /\ c \notin arrived /\ arrived' = arrived \union {c}
      /\ backlog' = Append(backlog, c)
      /\ UNCHANGED << finished, fdTable, conns_, pc, clientfd >>
  BY DEF Connect, objectVars, localVars
<1>2. Waiting' = Append(Waiting, c)
  <2>1. CASE pc = "newConnection"
    <3>1. Waiting = << fdTable[clientfd] >> \o backlog
          /\ Waiting' = << fdTable[clientfd] >> \o Append(backlog, c)
          /\ fdTable[clientfd] \in Clients /\ backlog \in Seq(Clients)
      BY <1>1, <2>1, ClientWaits DEF Waiting
    <3> QED  BY <3>1, QueueMoves
  <2>2. CASE pc # "newConnection"
    <3>1. Waiting = backlog /\ Append(backlog, c) \in Seq(Clients)
          /\ Waiting' = << >> \o Append(backlog, c)
      BY <1>1, <2>2, ClientWaits, AppendProperties DEF Waiting
    <3> QED  BY <3>1, ConcatEmptySeq
  <2> QED  BY <2>1, <2>2
<1> QED  BY <1>1, <1>2 DEF Pool!Next, Pool!Come

LEMMA FinishFinishes ==
  ASSUME NEW c \in Clients, ClientFinish(c)
  PROVE  Pool!Next
<1>1. /\ c \in arrived \ finished /\ finished' = finished \union {c}
      /\ UNCHANGED << arrived, backlog, fdTable, conns_, pc, clientfd >>
  BY DEF ClientFinish, objectVars, localVars
<1>2. UNCHANGED Waiting  BY <1>1 DEF Waiting
<1> QED  BY <1>1, <1>2 DEF Pool!Next, Pool!Finish

(* A client may also be done for what its handler did. *)
LEMMA HandlerFinishes ==
  ASSUME TypeOK, NoDanglingChannel, HandleLast \/ HandlerReturnsFalse
  PROVE  [Pool!Next]_Pool!vars
<1>1. /\ pc = "handle" /\ pc' \in {"handle", "remove"}
      /\ finished' = finished \union {chn}
      /\ UNCHANGED << arrived, backlog, fdTable, conns_, clientfd >>
  BY DEF HandleLast, HandlerReturnsFalse, kernelVars, objectVars, localVars
<1>2. chn \in arrived /\ chn \in Clients
  BY <1>1 DEF NoDanglingChannel, TypeOK
<1>3. UNCHANGED Waiting  BY <1>1 DEF Waiting
<1>4. CASE chn \in finished
  <2>1. UNCHANGED finished  BY <1>1, <1>4
  <2> QED  BY <1>1, <1>3, <2>1 DEF Pool!vars
<1>5. CASE chn \notin finished
  BY <1>1, <1>2, <1>3, <1>5 DEF Pool!Next, Pool!Finish
<1> QED  BY <1>4, <1>5

LEMMA AcceptUnseen ==
  ASSUME TypeOK, PlaceInv, RegistryMatchesFds, Accept
  PROVE  UNCHANGED Pool!vars
<1>1. /\ clientfd' \in Fds /\ backlog # << >> /\ backlog' = Tail(backlog)
      /\ fdTable' = [fdTable EXCEPT ![clientfd'] = Head(backlog)]
      /\ Head(backlog) \in Clients
  BY AcceptedIsFree
<1>2. /\ pc = "accept" /\ pc' = "newConnection"
      /\ UNCHANGED << arrived, finished, conns_ >>
  BY DEF Accept, clientVars, objectVars
<1>3. fdTable'[clientfd'] = Head(backlog)
  BY <1>1 DEF TypeOK
<1>4. Waiting' = << Head(backlog) >> \o Tail(backlog)
  BY <1>1, <1>2, <1>3 DEF Waiting
<1>5. Waiting = backlog /\ backlog \in Seq(Clients)
  BY <1>2, ClientWaits
<1>6. << Head(backlog) >> \o Tail(backlog) = backlog
  BY <1>1, <1>5, QueueMoves
<1> QED  BY <1>2, <1>4, <1>5, <1>6 DEF Pool!vars

LEMMA NewConnectionServes ==
  ASSUME TypeOK, PlaceInv, RegistryMatchesFds, NewConnection
  PROVE  Pool!Next
<1>1. /\ clientfd \in Fds /\ conns_[clientfd] = None
      /\ fdTable[clientfd] \in Clients
      /\ conns_' = [conns_ EXCEPT ![clientfd] = fdTable[clientfd]]
  BY NewConnectionIsNew
<1>2. /\ pc = "newConnection" /\ pc' = "accept"
      /\ UNCHANGED << arrived, finished, backlog, fdTable, clientfd >>
  BY DEF NewConnection, clientVars
<1>3. Waiting = << fdTable[clientfd] >> \o backlog /\ backlog \in Seq(Clients)
  BY <1>2, ClientWaits
<1>4. Waiting' = backlog
  <2>1. Waiting' = << >> \o backlog  BY <1>2 DEF Waiting
  <2> QED  BY <1>3, <2>1, ConcatEmptySeq
<1>5. Waiting # << >> /\ Head(Waiting) = fdTable[clientfd] /\ Tail(Waiting) = backlog
  BY <1>1, <1>3, QueueMoves
<1>6. Pool!Serve(clientfd)
  BY <1>1, <1>2, <1>4, <1>5 DEF Pool!Serve
<1> QED  BY <1>1, <1>6 DEF Pool!Next

LEMMA RemovalReleases ==
  ASSUME TypeOK, RegistryMatchesFds, CurrentInv, RemoveConnection
  PROVE  Pool!Next
<1>1. /\ fd \in Fds /\ conns_[fd] \in finished
      /\ conns_' = [conns_ EXCEPT ![fd] = None]
  BY RemovedIsFinished
<1>2. /\ pc # "newConnection" /\ pc' # "newConnection"
      /\ UNCHANGED << arrived, finished, backlog >>
  BY DEF RemoveConnection, clientVars
<1>3. UNCHANGED Waiting  BY <1>2 DEF Waiting
<1> QED  BY <1>1, <1>2, <1>3 DEF Pool!Next, Pool!Release

(* The whole server implements ConnectionPool: clients get their places in  *)
(* the order they came, each at a descriptor that no other connection has,  *)
(* and keep them until they are done, for any number of clients and         *)
(* descriptors.                                                             *)
THEOREM ServerIsPool == Spec => ImplementsConnectionPool
<1>1. Init => Pool!Init
  <2>1. << >> \o << >> = << >>  BY EmptySeq, ConcatEmptySeq
  <2> QED  BY <2>1 DEF Init, Waiting, Pool!Init
<1>2. TypeOK /\ ReactorInv /\ [Next]_vars => [Pool!Next]_Pool!vars
  <2> SUFFICES ASSUME TypeOK, ReactorInv, [Next]_vars
               PROVE  [Pool!Next]_Pool!vars
    OBVIOUS
  <2>1. PlaceInv /\ RegistryMatchesFds /\ CurrentInv /\ NoDanglingChannel  BY DEF ReactorInv
  <2>2. CASE \E c \in Clients : Connect(c)
    BY <2>1, <2>2, ConnectComes
  <2>3. CASE \E c \in Clients : ClientFinish(c)
    BY <2>3, FinishFinishes
  <2>4. CASE Accept
    BY <2>1, <2>4, AcceptUnseen
  <2>5. CASE NewConnection
    BY <2>1, <2>5, NewConnectionServes
  <2>6. CASE RemoveConnection
    BY <2>1, <2>6, RemovalReleases
  <2>7. CASE (\E c \in Clients : ClientEvent(c)) \/ UNCHANGED vars
    <3>1. UNCHANGED << arrived, finished, backlog, fdTable, conns_, pc, clientfd >>
      BY <2>7 DEF ClientEvent, objectVars, localVars, vars, clientVars, kernelVars
    <3>2. UNCHANGED Waiting  BY <3>1 DEF Waiting
    <3> QED  BY <3>1, <3>2 DEF Pool!vars
  <2>8. CASE \/ EpollDrop \/ EpollWait \/ EndRound \/ Dispatch \/ DispatchListen
             \/ HandleMore \/ HandlerReturnsTrue \/ AcceptAgain \/ AcceptFails \/ RemoveNothing
    <3>1. /\ UNCHANGED << arrived, finished, backlog, fdTable, conns_, clientfd >>
          /\ pc # "newConnection" /\ pc' # "newConnection"
      BY <2>8 DEF EpollDrop, EpollWait, EndRound, TakeChannel, Dispatch, DispatchListen,
                  HandleMore, HandlerReturnsTrue, AcceptAgain, AcceptFails, RemoveNothing,
                  clientVars, kernelVars, objectVars, localVars
    <3> QED  BY <3>1, PoolUnseen
  <2>9. CASE HandleLast \/ HandlerReturnsFalse
    BY <2>1, <2>9, HandlerFinishes
  <2> QED  BY <2>2, <2>3, <2>4, <2>5, <2>6, <2>7, <2>8, <2>9 DEF Next, Server
<1> QED
  BY <1>1, <1>2, Invariant, PTL DEF Spec, ImplementsConnectionPool, Pool!Spec

-----------------------------------------------------------------------------
(* ConnectionHandler: what a step of the thread is for each client. *)
LEMMA HandlerUnseen ==
  ASSUME NEW c \in Clients,
         c \in alive' <=> c \in alive, closed'[c] = closed[c],
         c \in epollSet' <=> c \in epollSet,
         Called(c)' <=> Called(c), Removed(c)' <=> Removed(c),
         c \in dirty' <=> c \in dirty, c \in finished' <=> c \in finished
  PROVE  HandlerStep(c)
<1>1. UNCHANGED Place(c)  BY DEF Place
<1> QED  BY <1>1 DEF HandlerStep, Handler!vars

(* What happens to a client, in whichever place it is. *)
LEMMA EventIsEvent ==
  ASSUME TypeOK, NEW c \in Clients, NEW d \in Clients,
         Connect(d) \/ ClientEvent(d) \/ ClientFinish(d)
  PROVE  HandlerStep(c)
<1>1. /\ UNCHANGED << alive, closed, epollSet, chns, pc, chn, fd, conns_ >>
  BY DEF Connect, ClientEvent, ClientFinish, objectVars, localVars, loopVars
<1>2. UNCHANGED << Called(c), Removed(c), Place(c) >>
  BY <1>1 DEF Called, Removed, Place
<1>3. CASE ClientEvent(d) /\ d = c /\ c \notin finished
  <2>1. c \in dirty' /\ finished' = finished
    BY <1>3 DEF ClientEvent
  <2> QED  BY <1>2, <1>3, <2>1 DEF HandlerStep, Handler!Next, Handler!Event
<1>4. CASE ClientFinish(d) /\ d = c
  <2>1. c \in dirty' /\ c \in finished' /\ c \notin finished
    BY <1>4 DEF ClientFinish
  <2> QED  BY <1>2, <2>1 DEF HandlerStep, Handler!Next, Handler!Finish
<1>5. CASE ~ (ClientEvent(d) /\ d = c /\ c \notin finished) /\ ~ (ClientFinish(d) /\ d = c)
  <2>1. (c \in dirty' <=> c \in dirty) /\ (c \in finished' <=> c \in finished)
    BY <1>5 DEF Connect, ClientEvent, ClientFinish
  <2> QED  BY <1>1, <1>2, <2>1, HandlerUnseen
<1> QED  BY <1>3, <1>4, <1>5

LEMMA RoundCalls ==
  ASSUME TypeOK, ReactorInv, NEW c \in Clients, EpollWait
  PROVE  HandlerStep(c)
<1>1. /\ pc = "epoll_wait" /\ pc' = "dispatch"
      /\ dirty' = { d \in dirty : ~ InList(d, chns') }
      /\ UNCHANGED << alive, closed, epollSet, finished >>
  BY DEF EpollWait, objectVars, clientVars
<1>2. ~ InList(c, chns)
  BY <1>1, InEmpty DEF ReactorInv, CurrentInv
<1>3. InList(c, chns') => c \in epollSet /\ c \in alive /\ c \in dirty
  <2>1. ASSUME InList(c, chns')
        PROVE  InList(c, rdllist)
    BY <2>1, WaitDivides DEF TypeOK, ReactorInv, ReadyListInv
  <2>2. ASSUME InList(c, chns')
        PROVE  c \in dirty
    <3>1. PICK i \in 1 .. Len(chns') : chns'[i] = c  BY <2>2 DEF InList
    <3>2. Len(rdllist) \in Nat /\ RoundSize \in 0 .. Len(rdllist)
      BY DEF TypeOK, RoundSize
    <3>3. i \in 1 .. RoundSize /\ rdllist[i] = c
      BY <3>1, <3>2 DEF EpollWait, TypeOK
    <3> QED  BY <3>3, Names DEF EpollWait, Reportable
  <2> QED  BY <2>1, <2>2, Names DEF ReactorInv, NoDanglingChannel
<1>4. CASE InList(c, chns')
  <2>1. Place(c) = "epoll" /\ Place(c)' = "handler"
    BY <1>1, <1>2, <1>3, <1>4 DEF Place, Called, Removed
  <2> QED  BY <1>1, <1>3, <1>4, <2>1 DEF HandlerStep, Handler!Next, Handler!Call
<1>5. CASE ~ InList(c, chns')
  <2>1. (Called(c)' <=> Called(c)) /\ (Removed(c)' <=> Removed(c))
    BY <1>1, <1>2, <1>5 DEF Called, Removed
  <2> QED  BY <1>1, <1>5, <2>1, HandlerUnseen
<1> QED  BY <1>4, <1>5

LEMMA TakeUnseen ==
  ASSUME TypeOK, ReactorInv, NEW c \in Clients, Dispatch \/ DispatchListen
  PROVE  HandlerStep(c)
<1>1. /\ pc = "dispatch" /\ chns # << >> /\ chns' = Tail(chns) /\ chn' = Head(chns)
      /\ UNCHANGED << alive, closed, epollSet, finished, dirty >>
      /\ \/ pc' = "handle"
         \/ pc' = "accept" /\ Head(chns) = Listen
  BY DEF Dispatch, DispatchListen, TakeChannel, objectVars, clientVars, kernelVars
<1>2. InList(c, chns) <=> c = Head(chns) \/ InList(c, Tail(chns))
  BY <1>1, HeadOfRound DEF ReactorInv
<1>3. (Called(c)' <=> Called(c)) /\ (Removed(c)' <=> Removed(c))
  BY <1>1, <1>2, Names DEF Called, Removed
<1> QED  BY <1>1, <1>3, HandlerUnseen

LEMMA HandlerActs ==
  ASSUME TypeOK, ReactorInv, NEW c \in Clients,
         HandleMore \/ HandleLast \/ HandlerReturnsTrue \/ HandlerReturnsFalse
  PROVE  HandlerStep(c)
<1>1. /\ pc = "handle" /\ UNCHANGED << alive, closed, epollSet, chns, chn, fd, conns_ >>
  BY DEF HandleMore, HandleLast, HandlerReturnsTrue, HandlerReturnsFalse,
         objectVars, localVars, loopVars, kernelVars
<1>2. /\ chn \in epollSet /\ chn \in alive /\ fd \in Fds /\ conns_[fd] = chn
      /\ ~ InList(chn, chns)
  BY <1>1 DEF ReactorInv, NoDanglingChannel, CurrentInv
<1>3. CASE c # chn
  <2>1. /\ c \in dirty' <=> c \in dirty
        /\ c \in finished' <=> c \in finished
    BY <1>3 DEF HandleMore, HandleLast, HandlerReturnsTrue, HandlerReturnsFalse,
                kernelVars, clientVars
  <2>2. (Called(c)' <=> Called(c)) /\ (Removed(c)' <=> Removed(c))
    BY <1>1, <1>2, <1>3 DEF Called, Removed
  <2> QED  BY <1>1, <2>1, <2>2, HandlerUnseen
<1>4. CASE c = chn
  <2>1. Place(c) = "handler"
    BY <1>1, <1>2, <1>4 DEF Place, Called
  <2>2. CASE HandleMore
    <3>1. /\ c \in dirty /\ c \notin dirty' /\ finished' = finished /\ Place(c)' = "handler"
      BY <1>1, <1>2, <1>4, <2>2 DEF HandleMore, clientVars, localVars, Place, Called
    <3> QED  BY <2>1, <3>1 DEF HandlerStep, Handler!Next, Handler!More
  <2>3. CASE HandleLast
    <3>1. /\ c \notin finished /\ c \in finished' /\ dirty' = dirty /\ Place(c)' = "handler"
      BY <1>1, <1>2, <1>4, <2>3 DEF HandleLast, kernelVars, localVars, Place, Called
    <3> QED  BY <2>1, <3>1 DEF HandlerStep, Handler!Next, Handler!Finish
  <2>4. CASE HandlerReturnsTrue
    <3>1. /\ c \in finished => c \in dirty
          /\ finished' = finished /\ dirty' = dirty /\ Place(c)' = "epoll"
      BY <1>1, <1>2, <1>4, <2>4
         DEF HandlerReturnsTrue, ReturnsTrue, kernelVars, clientVars, Place, Called, Removed
    <3> QED  BY <2>1, <3>1 DEF HandlerStep, Handler!Next, Handler!ReturnTrue
  <2>5. CASE HandlerReturnsFalse
    <3>1. /\ c \in finished \/ "MOD" \in Faults
          /\ c \in finished' /\ dirty' = dirty /\ Place(c)' = "remove"
      BY <1>1, <1>2, <1>4, <2>5
         DEF HandlerReturnsFalse, ReturnsFalse, kernelVars, Place, Called, Removed
    <3> QED  BY <2>1, <3>1 DEF HandlerStep, Handler!Next, Handler!ReturnFalse
  <2> QED  BY <2>2, <2>3, <2>4, <2>5
<1> QED  BY <1>3, <1>4

LEMMA ConstructionRegisters ==
  ASSUME TypeOK, ReactorInv, NEW c \in Clients, NewConnection
  PROVE  HandlerStep(c)
<1> DEFINE d == fdTable[clientfd]
<1>1. d \in Clients /\ d \in arrived \ alive /\ opened[d] = 0 /\ alive' = alive \union {d}
  BY NewConnectionIsNew DEF ReactorInv
<1>2. /\ pc = "newConnection" /\ pc' = "accept"
      /\ UNCHANGED << closed, chns, chn, dirty, finished >>
      /\ epollSet' = epollSet \/ epollSet' = epollSet \union {d}
  BY DEF NewConnection, loopVars, clientVars
<1> HIDE DEF d
<1>3. ~ InList(d, chns) /\ d \notin epollSet /\ closed[d] = 0
  <2>1. d \in Channels /\ d # Listen  BY <1>1, Names
  <2>2. opened[d] = closed[d] + 0 /\ closed[d] \in Nat
    BY <1>1 DEF ReactorInv, CallbacksPaired, TypeOK
  <2> QED  BY <1>1, <2>1, <2>2 DEF ReactorInv, NoDanglingChannel
<1>4. (Called(c)' <=> Called(c)) /\ (Removed(c)' <=> Removed(c))
  BY <1>2 DEF Called, Removed
<1>5. CASE c # d
  BY <1>1, <1>2, <1>4, <1>5, HandlerUnseen
<1>6. CASE c = d
  <2>1. Place(c) = "new" /\ Place(c)' \in {"epoll", "lost"}
    BY <1>1, <1>2, <1>3, <1>6 DEF Place, Called, Removed
  <2> QED  BY <1>2, <2>1 DEF HandlerStep, Handler!Next, Handler!Register
<1> QED  BY <1>5, <1>6

LEMMA RemovalRemoves ==
  ASSUME TypeOK, ReactorInv, NEW c \in Clients, RemoveConnection \/ RemoveNothing
  PROVE  HandlerStep(c)
<1>1. pc = "remove" /\ pc' = "dispatch" /\ UNCHANGED << chns, dirty, finished >>
  BY DEF RemoveConnection, RemoveNothing, RoundAfterRemoval, kernelVars, clientVars
<1>2. CASE RemoveNothing
  <2>1. UNCHANGED << alive, closed, epollSet >> /\ (fd \in Fds => conns_[fd] = None)
    BY <1>2 DEF RemoveNothing, kernelVars, objectVars
  <2>2. (Called(c)' <=> Called(c)) /\ (Removed(c)' <=> Removed(c))
    BY <1>1, <2>1, Names DEF Called, Removed
  <2> QED  BY <1>1, <2>1, <2>2, HandlerUnseen
<1>3. CASE RemoveConnection
  <2> DEFINE d == conns_[fd]
  <2>1. /\ fd \in Fds /\ d \in Clients /\ d \in alive /\ ~ InList(d, chns)
        /\ closed' = [closed EXCEPT ![d] = @ + 1]
        /\ alive' = alive \ {d} /\ epollSet' = epollSet \ {d}
        /\ d \in epollSet
    BY <1>1, <1>3, RemovedIsFinished DEF ReactorInv, CurrentInv
  <2>2. CASE c # d
    <3>1. (Called(c)' <=> Called(c)) /\ (Removed(c)' <=> Removed(c))
      BY <1>1, <2>2 DEF Called, Removed
    <3>2. closed'[c] = closed[c]
      BY <2>1, <2>2 DEF TypeOK
    <3> QED  BY <1>1, <2>1, <2>2, <3>1, <3>2, HandlerUnseen
  <2>3. CASE c = d
    <3>1. Place(c) = "remove"
      BY <1>1, <2>1, <2>3 DEF Place, Called, Removed
    <3>2. closed'[c] = closed[c] + 1 /\ closed[c] \in Nat
      BY <2>1, <2>3 DEF TypeOK
    <3>3. Place(c)' = "gone"
      BY <2>1, <2>3, <3>2 DEF Place
    <3> QED  BY <1>1, <3>1, <3>3 DEF HandlerStep, Handler!Next, Handler!Remove
  <2> QED  BY <2>2, <2>3
<1> QED  BY <1>2, <1>3

LEMMA ThreadUnseen ==
  ASSUME TypeOK, ReactorInv, NEW c \in Clients,
         \/ EpollDrop \/ EndRound \/ Accept \/ AcceptAgain \/ AcceptFails
         \/ UNCHANGED vars
  PROVE  HandlerStep(c)
<1>1. /\ UNCHANGED << alive, closed, epollSet, dirty, finished, chns, chn, fd, conns_ >>
      /\ \/ pc' = pc
         \/ pc # "handle" /\ pc' # "handle" /\ pc # "remove" /\ pc' # "remove"
         \/ pc = "accept" /\ pc' = "remove"
  BY DEF EpollDrop, EndRound, Accept, AcceptAgain, AcceptFails, vars,
         kernelVars, clientVars, objectVars, localVars, loopVars
<1>2. pc = "accept" => fd \notin Fds
  BY Names DEF ReactorInv, CurrentInv
<1>3. (Called(c)' <=> Called(c)) /\ (Removed(c)' <=> Removed(c))
  BY <1>1, <1>2 DEF Called, Removed
<1> QED  BY <1>1, <1>3, HandlerUnseen

LEMMA EveryStepIsHandlers ==
  ASSUME TypeOK, ReactorInv, [Next]_vars
  PROVE  \A c \in Clients : HandlerStep(c)
<1> TAKE c \in Clients
<1>1. CASE \E d \in Clients : Connect(d) \/ ClientEvent(d) \/ ClientFinish(d)
  BY <1>1, EventIsEvent
<1>2. CASE EpollWait
  BY <1>2, RoundCalls
<1>3. CASE Dispatch \/ DispatchListen
  BY <1>3, TakeUnseen
<1>4. CASE HandleMore \/ HandleLast \/ HandlerReturnsTrue \/ HandlerReturnsFalse
  BY <1>4, HandlerActs
<1>5. CASE NewConnection
  BY <1>5, ConstructionRegisters
<1>6. CASE RemoveConnection \/ RemoveNothing
  BY <1>6, RemovalRemoves
<1>7. CASE \/ EpollDrop \/ EndRound \/ Accept \/ AcceptAgain \/ AcceptFails
           \/ UNCHANGED vars
  BY <1>7, ThreadUnseen
<1> QED  BY <1>1, <1>2, <1>3, <1>4, <1>5, <1>6, <1>7 DEF Next, Server

(* The thread keeps its side of ConnectionHandler towards every connection *)
(* at once, however many there are, whichever of them end in the same      *)
(* round and wherever the calls of epoll_ctl fail.                         *)
THEOREM ThreadKeepsContract == Spec => ImplementsHandlers
<1>1. Init => \A c \in Clients : Handler(c)!Init
  <2> SUFFICES ASSUME Init, NEW c \in Clients PROVE Handler(c)!Init
    OBVIOUS
  <2>1. /\ c \notin alive /\ closed[c] = 0 /\ c \notin dirty /\ c \notin finished
    BY DEF Init
  <2>2. Place(c) = "new"  BY <2>1 DEF Place
  <2> QED  BY <2>1, <2>2 DEF Handler!Init
<1>2. TypeOK /\ ReactorInv /\ [Next]_vars => [\A c \in Clients : HandlerStep(c)]_vars
  BY EveryStepIsHandlers
<1> QED  BY <1>1, <1>2, Invariant, PTL DEF Spec, ImplementsHandlers

(* What ConnectionHandler allows never overlooks an end. *)
LEMMA EndStaysNoted ==
  ASSUME NEW c \in Clients, Handler(c)!EndIsNoted, HandlerStep(c)
  PROVE  Handler(c)!EndIsNoted'
<1> USE DEF Handler!EndIsNoted
<1>1. CASE Handler(c)!Event \/ Handler(c)!Finish \/ Handler(c)!Register
  BY <1>1 DEF Handler!Event, Handler!Finish, Handler!Register
<1>2. CASE Handler(c)!Call \/ Handler(c)!More \/ Handler(c)!ReturnTrue
  BY <1>2 DEF Handler!Call, Handler!More, Handler!ReturnTrue
<1>3. CASE Handler(c)!Fail \/ Handler(c)!ReturnFalse \/ Handler(c)!Remove
  BY <1>3 DEF Handler!Fail, Handler!ReturnFalse, Handler!Remove
<1>4. CASE UNCHANGED Handler(c)!vars
  BY <1>4 DEF Handler!vars
<1> QED  BY <1>1, <1>2, <1>3, <1>4 DEF HandlerStep, Handler!Next

(* So the server never forgets to remove a connection that is done.        *)
THEOREM EndsAreNoted == Spec => []NoEndOverlooked
<1>1. Init => NoEndOverlooked
  BY DEF Init, NoEndOverlooked, Handler!EndIsNoted
<1>2. TypeOK /\ ReactorInv /\ NoEndOverlooked /\ [Next]_vars => NoEndOverlooked'
  BY EveryStepIsHandlers, EndStaysNoted DEF NoEndOverlooked
<1> QED  BY <1>1, <1>2, Invariant, PTL DEF Spec
=============================================================================
