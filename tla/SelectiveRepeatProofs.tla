----------------------- MODULE SelectiveRepeatProofs -----------------------
(***************************************************************************)
(* Proofs about SelectiveRepeat.  IInv is inductive: it follows a packet   *)
(* from the slot it is sent from, through a socket, to the slot it is      *)
(* stored in, and its ack back.  The safety properties of SelectiveRepeat, *)
(* except those about the window and the blocking of send(), and the       *)
(* refinement of ReliableTransfer follow from it.                          *)
(***************************************************************************)
EXTENDS SelectiveRepeat, FiniteSetTheorems, SequenceTheorems, TLAPS

USE EndsAssumption, SizesAssumption

-----------------------------------------------------------------------------
(* The two ends, and queues *)

\* Peer() exchanges the two ends.
LEMMA PeerFacts ==
    ASSUME NEW e \in Ends
    PROVE  /\ Peer(e) \in Ends
           /\ Peer(e) # e
           /\ Peer(Peer(e)) = e
           /\ \A d \in Ends : d = e \/ d = Peer(e)
BY DEF Ends, Peer

\* A packet put at the end of a queue: what is before it stays there.
LEMMA AppendFacts ==
    ASSUME NEW q \in Seq(Pack), NEW m \in Pack
    PROVE  /\ Append(q, m) \in Seq(Pack)
           /\ Len(Append(q, m)) = Len(q) + 1
           /\ \A i \in 1..Len(q) : Append(q, m)[i] = q[i]
           /\ Append(q, m)[Len(q) + 1] = m
OBVIOUS

\* What a queue has, it still has with one more packet, and that packet too.
LEMMA HasAppend ==
    ASSUME NEW q \in Seq(Pack), NEW m \in Pack
    PROVE  /\ \A n \in 0..Len(q) : \A j :
                /\ HasData(q, n, j) => HasData(Append(q, m), n, j)
                /\ HasAck(q, n, j) => HasAck(Append(q, m), n, j)
           /\ \A j :
                /\ HasData(q, Len(q), j) => HasData(Append(q, m), Len(q) + 1, j)
                /\ HasAck(q, Len(q), j) => HasAck(Append(q, m), Len(q) + 1, j)
           /\ HasData(Append(q, m), Len(q) + 1, m.sno)
           /\ m.sno = -1 => HasAck(Append(q, m), Len(q) + 1, m.ackno)
<1> DEFINE a == Append(q, m)
<1>1. /\ Len(q) \in Nat /\ Len(a) = Len(q) + 1
      /\ \A i \in 1..Len(q) : a[i] = q[i]
      /\ a[Len(q) + 1] = m
  BY AppendFacts, LenProperties
<1> HIDE DEF a
<1>2. ASSUME NEW n \in 0..Len(q), NEW l \in n..(Len(q) + 1), NEW j
      PROVE  /\ HasData(q, n, j) => HasData(a, l, j)
             /\ HasAck(q, n, j) => HasAck(a, l, j)
  <2>1. \A h \in 1..n : h \in 1..l /\ a[h] = q[h]
    BY <1>1
  <2> QED BY <2>1 DEF HasData, HasAck
<1>3. /\ HasData(a, Len(q) + 1, m.sno)
      /\ m.sno = -1 => HasAck(a, Len(q) + 1, m.ackno)
  <2>1. Len(q) + 1 \in 1..(Len(q) + 1)
    BY <1>1
  <2> QED BY <1>1, <2>1 DEF HasData, HasAck
<1> QED BY <1>1, <1>2, <1>3 DEF a

\* The first packet taken from a queue.
LEMMA TailFacts ==
    ASSUME NEW q \in Seq(Pack), q # <<>>
    PROVE  /\ Head(q) \in Pack
           /\ Head(q) = q[1]
           /\ Tail(q) \in Seq(Pack)
           /\ Len(q) \in Nat \ {0}
           /\ Len(Tail(q)) = Len(q) - 1
           /\ \A i \in 1..Len(Tail(q)) : Tail(q)[i] = q[i + 1]
BY HeadTailProperties, EmptySeq, LenProperties, ElementOfSeq

\* What a queue has is its first packet or in the rest of it.
LEMMA HasTail ==
    ASSUME NEW q \in Seq(Pack), q # <<>>, NEW n \in 0..Len(Tail(q)), NEW j
    PROVE  /\ HasData(q, n + 1, j) => Head(q).sno = j \/ HasData(Tail(q), n, j)
           /\ HasAck(q, n + 1, j) =>
                \/ Head(q).sno = -1 /\ Head(q).ackno = j
                \/ HasAck(Tail(q), n, j)
<1> DEFINE t == Tail(q)
<1>1. /\ Len(q) \in Nat \ {0} /\ Len(t) = Len(q) - 1 /\ Head(q) = q[1]
      /\ \A i \in 1..Len(t) : t[i] = q[i + 1]
  BY TailFacts
<1>2. ASSUME NEW h \in 1..(n + 1), h # 1
      PROVE  h - 1 \in 1..n /\ q[h] = t[h - 1]
  BY <1>1, <1>2
<1>3. HasData(q, n + 1, j) => Head(q).sno = j \/ HasData(t, n, j)
  BY <1>1, <1>2, ZenonT(30) DEF HasData
<1>4. HasAck(q, n + 1, j) =>
        \/ Head(q).sno = -1 /\ Head(q).ackno = j
        \/ HasAck(t, n, j)
  BY <1>1, <1>2 DEF HasAck
<1> QED BY <1>3, <1>4

-----------------------------------------------------------------------------
(* The initial states, and the steps that neither send nor receive *)

\* IInv holds initially: nothing is sent, stored or on its way.
LEMMA InitIInv == Init => IInv
<1> SUFFICES ASSUME Init PROVE IInv
  OBVIOUS
<1>1. TypeOK
  BY DEF Init, TypeOK, Ends, Ended
<1>2. ASSUME NEW e \in Ends
      PROVE  /\ LinkOK(e) /\ SendOK(e) /\ PrefixOK(e) /\ DataOK(e) /\ SentOK(e)
             /\ AckOK(e) /\ AckSentOK(e) /\ LastOK(e)
  <2>1. Peer(e) \in Ends
    BY PeerFacts
  <2>2. NPkts[e] \in 1..(Slots - 1)
    BY DEF Ends
  <2> QED BY <2>1, <2>2 DEF Init, LinkOK, SendOK, PrefixOK, DataOK, SentOK, AckOK,
             AckSentOK, LastOK, Ended
<1> QED BY <1>1, <1>2 DEF IInv

\* A step inside one process that leaves the packets alone.
LEMMA QuietStep ==
    ASSUME IInv, NEW a \in Ends, NEW w,
           pc[a] \notin Ended \cup {"ack"},
           w \in {"listen", "poll", "send"},
           pc' = [pc EXCEPT ![a] = w],
           UNCHANGED <<acked, base, nextseq, got, last, queue, link>>,
           resend' \in [Ends -> Nat], polls' \in [Ends -> Nat],
           master' \in [Ends -> BOOLEAN],
           \A e \in Ends : SendOK(e)'
    PROVE  IInv'
<1>1. TypeOK'
  BY DEF IInv, TypeOK, Ended
<1>2. ASSUME NEW e \in Ends
      PROVE  /\ (pc'[e] \in Ended <=> pc[e] \in Ended)
             /\ pc'[e] = "ack" <=> pc[e] = "ack"
  BY <1>2 DEF IInv, TypeOK, Ended
<1>3. ASSUME NEW e \in Ends
      PROVE  /\ LinkOK(e)' /\ PrefixOK(e)' /\ DataOK(e)' /\ SentOK(e)'
             /\ AckOK(e)' /\ AckSentOK(e)' /\ LastOK(e)'
  <2>1. Peer(e) \in Ends
    BY PeerFacts
  <2>2. /\ LinkOK(e) /\ PrefixOK(e) /\ DataOK(e) /\ SentOK(e)
        /\ AckOK(e) /\ AckSentOK(e) /\ LastOK(e)
    BY DEF IInv
  <2>3. LinkOK(e)'
    BY <1>2, <2>1, <2>2 DEF LinkOK
  <2>4. PrefixOK(e)' /\ DataOK(e)' /\ SentOK(e)' /\ AckOK(e)'
    BY <2>2 DEF PrefixOK, DataOK, SentOK, AckOK, HasData, HasAck
  <2>5. AckSentOK(e)'
    BY <1>2, <2>1, <2>2 DEF AckSentOK, HasAck
  <2>6. LastOK(e)'
    BY <1>2, <2>1, <2>2 DEF LastOK
  <2> QED BY <2>3, <2>4, <2>5, <2>6
<1> QED BY <1>1, <1>3 DEF IInv

\* What a process does between two rounds of packets.
LEMMA LocalStep ==
    ASSUME IInv,
           \/ StartListen \/ Connect \/ Accept
           \/ \E e \in Ends : PollTimeout(e) \/ BeginSend(e) \/ NextRound(e)
    PROVE  IInv'
<1> USE DEF IInv, TypeOK, Ended
<1>1. Client \in Ends /\ Server \in Ends
  BY DEF Ends
<1>2. \A e \in Ends : Watches(e) \in Nat
  BY DEF Watches
<1>3. CASE StartListen
  <2>1. \A e \in Ends : SendOK(e)'
    BY <1>1, <1>3 DEF StartListen, local, SendOK
  <2> QED BY <1>1, <1>3, <2>1, QuietStep DEF StartListen, local
<1>4. CASE Connect
  <2>1. \A e \in Ends : SendOK(e)'
    BY <1>1, <1>4 DEF Connect, SendOK
  <2> QED BY <1>1, <1>2, <1>4, <2>1, QuietStep DEF Connect
<1>5. CASE Accept
  <2>1. \A e \in Ends : SendOK(e)'
    BY <1>1, <1>5 DEF Accept, SendOK
  <2> QED BY <1>1, <1>5, <2>1, QuietStep DEF Accept
<1>6. ASSUME NEW a \in Ends, PollTimeout(a)
      PROVE  IInv'
  <2>1. \A e \in Ends : SendOK(e)'
    BY <1>6 DEF PollTimeout, SendOK
  <2>2. pc' = [pc EXCEPT ![a] = "poll"]
    BY <1>6 DEF PollTimeout, Polling
  <2> QED BY <1>6, <2>1, <2>2, QuietStep DEF PollTimeout, Polling
<1>7. ASSUME NEW a \in Ends, BeginSend(a)
      PROVE  IInv'
  <2>1. /\ Cardinality(Unacked(a)) \in Nat
        /\ base[a] = -1 => Cardinality(Unacked(a)) = 1
    <3>1. Cardinality(Unacked(a)) \in Nat
      <4>1. Unacked(a) \subseteq base[a]..(nextseq[a] - 1)
        BY DEF Unacked
      <4>2. IsFiniteSet(base[a]..(nextseq[a] - 1))
        BY FS_Interval
      <4> QED BY <4>1, <4>2, FS_Subset, FS_CardinalityType
    <3>2. ASSUME base[a] = -1
          PROVE  Cardinality(Unacked(a)) = 1
      <4>1. nextseq[a] = 0 /\ -1 \notin acked[a]
        BY <3>2 DEF SendOK, Seqno
      <4>2. Unacked(a) = {-1}
        BY <3>2, <4>1, SMTT(30) DEF Unacked
      <4> QED BY <4>2, FS_Singleton
    <3> QED BY <3>1, <3>2
  <2>2. \A e \in Ends : SendOK(e)'
    <3> DEFINE c == Cardinality(Unacked(a))
    <3>1. /\ pc' = [pc EXCEPT ![a] = "send"] /\ pc[a] = "poll"
          /\ resend' = [resend EXCEPT ![a] = c]
          /\ UNCHANGED <<base, nextseq>>
      BY <1>7 DEF BeginSend
    <3>2. nextseq[a] # NPkts[a] /\ c \in Nat /\ (base[a] = -1 => c = 1)
      BY <2>1, <3>1 DEF SendOK
    <3> HIDE DEF c
    <3>3. SendOK(a)'
      BY <3>1, <3>2 DEF SendOK
    <3>4. ASSUME NEW e \in Ends, e # a
          PROVE  SendOK(e)'
      <4>1. SendOK(e)
        OBVIOUS
      <4>2. pc'[e] = pc[e] /\ resend'[e] = resend[e]
        BY <3>1, <3>4
      <4> QED BY <3>1, <4>1, <4>2 DEF SendOK
    <3> QED BY <3>3, <3>4
  <2> QED BY <1>7, <2>1, <2>2, QuietStep DEF BeginSend
<1>8. ASSUME NEW a \in Ends, NextRound(a)
      PROVE  IInv'
  <2>1. \A e \in Ends : SendOK(e)'
    BY <1>8, SMTT(30) DEF NextRound, SendOK
  <2> QED BY <1>2, <1>8, <2>1, QuietStep DEF NextRound
<1> QED BY <1>3, <1>4, <1>5, <1>6, <1>7, <1>8
-----------------------------------------------------------------------------
(* The steps that end a process *)

\* An end that has something for the other to read may end at any point where
\* it owes no ack.
LEMMA ExitStep ==
    ASSUME IInv, NEW a \in Ends, NEW how \in Ended,
           pc[a] \notin Ended, Exit(a, how), UNCHANGED local,
           link[a] = "up" => /\ pc[a] # "ack"
                             /\ queue[Peer(a)] # <<>> \/ last[Peer(a)] # NoPack
    PROVE  IInv'
<1> DEFINE p == Peer(a)
<1>1. /\ p \in Ends /\ p # a /\ Peer(p) = a /\ Peer(a) = p
      /\ \A e \in Ends : e = a \/ e = p
  BY PeerFacts
<1> HIDE DEF p
<1>2. TypeOK /\ LinkOK(a) /\ LinkOK(p)
  BY <1>1 DEF IInv
<1>3. /\ pc'[a] = how /\ pc'[p] = pc[p]
      /\ queue'[a] = <<>> /\ queue'[p] = queue[p]
      /\ link'[a] = link[a] /\ link'[p] # "up"
      /\ link[p] = "up"
  BY <1>1, <1>2 DEF TypeOK, LinkOK, Exit, p
<1>4. UNCHANGED <<acked, base, nextseq, resend, got, polls, master, last>>
  BY DEF local
<1>5. TypeOK'
  <2>1. /\ pc' \in [Ends -> {"connect", "start", "listen", "poll", "ack", "send"} \cup Ended]
        /\ queue' \in [Ends -> Seq(Pack)]
        /\ link' \in [Ends -> {"up", "fin", "err", "broken"}]
    BY <1>1, <1>2, SMTT(30) DEF TypeOK, Exit, p
  <2> QED BY <1>2, <1>4, <2>1 DEF TypeOK
<1>6. LinkOK(a)' /\ LinkOK(p)'
  BY <1>1, <1>2, <1>3 DEF LinkOK
<1>7. ASSUME NEW e \in Ends
      PROVE  /\ SendOK(e)' /\ PrefixOK(e)' /\ DataOK(e)' /\ SentOK(e)'
             /\ AckOK(e)' /\ AckSentOK(e)' /\ LastOK(e)'
  <2>1. /\ SendOK(e) /\ PrefixOK(e) /\ DataOK(e) /\ SentOK(e)
        /\ AckOK(e) /\ AckSentOK(e) /\ LastOK(e)
    BY DEF IInv
  <2>2. Peer(e) = IF e = a THEN p ELSE a
    BY <1>1 DEF p
  <2>3. SendOK(e)'
    BY <1>1, <1>3, <1>4, <2>1 DEF SendOK, Ended
  <2>4. PrefixOK(e)'
    BY <1>4, <2>1 DEF PrefixOK
  <2>5. DataOK(e)'
    <3>1. CASE e = a
      BY <1>1, <1>3, <1>4, <2>1, <3>1 DEF DataOK
    <3>2. CASE e = p
      BY <1>1, <1>3, <3>2 DEF DataOK
    <3> QED BY <1>1, <3>1, <3>2
  <2>6. SentOK(e)'
    <3>1. CASE e = a
      BY <1>1, <1>3, <1>4, <2>1, <3>1 DEF SentOK
    <3>2. CASE e = p
      BY <1>3, <3>2 DEF SentOK
    <3> QED BY <1>1, <3>1, <3>2
  <2>7. AckOK(e)'
    <3>1. CASE e = a
      BY <1>3, <3>1 DEF AckOK
    <3>2. CASE e = p
      BY <1>1, <1>3, <1>4, <2>1, <3>2 DEF AckOK
    <3> QED BY <1>1, <3>1, <3>2
  <2>8. AckSentOK(e)'
    BY <1>1, <1>3, <1>4, <2>1, <2>2, ZenonT(30) DEF AckSentOK, HasAck
  <2>9. LastOK(e)'
    BY <1>1, <1>2, <1>3, <1>4, <2>1, <2>2 DEF LastOK, LinkOK, Ended, p
  <2> QED BY <2>3, <2>4, <2>5, <2>6, <2>7, <2>8, <2>9
<1> QED BY <1>1, <1>5, <1>6, <1>7 DEF IInv

\* An end that has sent its file has left something for the other to read;
\* an end that is killed or fails is alone already.
LEMMA EndStep ==
    ASSUME IInv, NEW a \in Ends, RecvError(a) \/ Finish(a) \/ SigPipe(a)
    PROVE  IInv'
<1> DEFINE p == Peer(a)
<1>1. p \in Ends
  BY PeerFacts
<1>2. TypeOK /\ SentOK(a) /\ LastOK(p)
  BY <1>1 DEF IInv
<1>3. CASE RecvError(a)
  BY <1>3, ExitStep DEF RecvError, Polling, Ended
<1>4. CASE Finish(a)
  <2>1. ASSUME link[a] = "up"
        PROVE  queue[p] # <<>> \/ last[p] # NoPack
    <3>1. nextseq[a] \in 1..(Slots - 1)
      BY <1>4 DEF Finish
    <3>2. 0 \in got[p] \/ HasData(queue[p], Len(queue[p]), 0)
      BY <1>2, <2>1, <3>1 DEF SentOK
    <3>3. CASE 0 \in got[p]
      BY <1>2, <3>3 DEF LastOK
    <3>4. CASE HasData(queue[p], Len(queue[p]), 0)
      <4>1. PICK h \in 1..Len(queue[p]) : queue[p][h].sno = 0
        BY <3>4 DEF HasData
      <4>2. queue[p] # <<>>
        BY <4>1
      <4> QED BY <4>2
    <3> QED BY <3>2, <3>3, <3>4
  <2> QED BY <1>4, <2>1, ExitStep DEF Finish, Ended
<1>5. CASE SigPipe(a)
  BY <1>5, ExitStep DEF SigPipe, Ended
<1> QED BY <1>3, <1>4, <1>5
-----------------------------------------------------------------------------
(* The steps that send *)

\* A packet may be put on its way when what precedes it in the file is stored
\* or on its way, and what precedes it among the acks is known or on its way.
MayPut(a, m) ==
    LET p == Peer(a)
        n == Len(queue[p])
    IN  link[a] = "up" =>
            /\ m.sno # -1 =>
                /\ m.sno < NPkts[a]
                /\ m.ackno = -1 \/ m.sno \in got[p]
                /\ \A j \in 0..(m.sno - 1) : j \in got[p] \/ HasData(queue[p], n, j)
            /\ m.sno = -1 =>
                /\ m.ackno \in got[a]
                /\ \A j \in 0..(m.ackno - 1) : j \in acked[p] \/ HasAck(queue[p], n, j)

\* send() keeps the packets that wait in both sockets in order.
LEMMA PutOrder ==
    ASSUME IInv, NEW a \in Ends, NEW m \in Pack, Put(a, m),
           UNCHANGED <<acked, got>>,
           MayPut(a, m)
    PROVE  /\ queue' \in [Ends -> Seq(Pack)]
           /\ link' \in [Ends -> {"up", "fin", "err", "broken"}]
           /\ link'[Peer(a)] = link[Peer(a)]
           /\ link'[a] = "up" <=> link[a] = "up"
           /\ queue'[a] = queue[a]
           /\ queue'[Peer(a)] =
                IF link[a] = "up" THEN Append(queue[Peer(a)], m) ELSE queue[Peer(a)]
           /\ \A e \in Ends : DataOK(e)' /\ AckOK(e)'
<1> DEFINE p == Peer(a)
<1>1. /\ p \in Ends /\ p # a /\ Peer(p) = a /\ Peer(a) = p
      /\ \A e \in Ends : e = a \/ e = p
  BY PeerFacts
<1> HIDE DEF p
<1>2. TypeOK /\ \A e \in Ends : DataOK(e) /\ AckOK(e)
  BY DEF IInv
<1>3. queue[p] \in Seq(Pack)
  BY <1>1, <1>2 DEF TypeOK
<1>4. CASE link[a] = "up"
  <2> DEFINE q == queue[p]
             r == Append(q, m)
  <2>1. /\ queue' = [queue EXCEPT ![p] = r] /\ link' = link
    BY <1>1, <1>4 DEF Put
  <2>2. /\ queue' \in [Ends -> Seq(Pack)]
        /\ queue'[a] = queue[a] /\ queue'[p] = r
    BY <1>1, <1>2, <1>3, <2>1, AppendFacts DEF TypeOK
  <2>3. /\ Len(q) \in Nat /\ Len(r) = Len(q) + 1
        /\ \A i \in 1..Len(q) : r[i] = q[i]
        /\ r[Len(q) + 1] = m
    BY <1>3, AppendFacts, LenProperties
  <2>4. \A n \in 0..Len(q) : \A j :
          /\ HasData(q, n, j) => HasData(r, n, j)
          /\ HasAck(q, n, j) => HasAck(r, n, j)
    BY <1>3, HasAppend
  <2> HIDE DEF r
  <2>5. ASSUME NEW i \in 1..Len(r), r[i].sno # -1
        PROVE  /\ r[i].sno < NPkts[a]
               /\ r[i].ackno = -1 \/ r[i].sno \in got[p]
               /\ \A j \in 0..(r[i].sno - 1) : j \in got[p] \/ HasData(r, i - 1, j)
    <3>1. CASE i = Len(q) + 1
      <4>1. /\ r[i] = m /\ i - 1 = Len(q)
        BY <2>3, <3>1
      <4>2. \A j : HasData(q, Len(q), j) => HasData(r, Len(q), j)
        <5>1. Len(q) \in 0..Len(q)
          BY <2>3
        <5> QED BY <2>4, <5>1
      <4> QED BY <1>1, <1>4, <2>5, <4>1, <4>2 DEF MayPut
    <3>2. CASE i # Len(q) + 1
      <4>1. i \in 1..Len(q) /\ r[i] = q[i] /\ i - 1 \in 0..Len(q)
        BY <2>3, <3>2
      <4>2. /\ q[i].sno < NPkts[a]
            /\ q[i].ackno = -1 \/ q[i].sno \in got[p]
            /\ \A j \in 0..(q[i].sno - 1) : j \in got[p] \/ HasData(q, i - 1, j)
        BY <1>1, <1>2, <2>5, <4>1 DEF DataOK
      <4> QED BY <2>4, <4>1, <4>2
    <3> QED BY <3>1, <3>2
  <2>6. ASSUME NEW i \in 1..Len(r), r[i].sno = -1
        PROVE  /\ r[i].ackno \in got[a]
               /\ \A j \in 0..(r[i].ackno - 1) : j \in acked[p] \/ HasAck(r, i - 1, j)
    <3>1. CASE i = Len(q) + 1
      <4>1. /\ r[i] = m /\ i - 1 = Len(q)
        BY <2>3, <3>1
      <4>2. \A j : HasAck(q, Len(q), j) => HasAck(r, Len(q), j)
        <5>1. Len(q) \in 0..Len(q)
          BY <2>3
        <5> QED BY <2>4, <5>1
      <4> QED BY <1>1, <1>4, <2>6, <4>1, <4>2 DEF MayPut
    <3>2. CASE i # Len(q) + 1
      <4>1. i \in 1..Len(q) /\ r[i] = q[i] /\ i - 1 \in 0..Len(q)
        BY <2>3, <3>2
      <4>2. /\ q[i].ackno \in got[a]
            /\ \A j \in 0..(q[i].ackno - 1) : j \in acked[p] \/ HasAck(q, i - 1, j)
        BY <1>1, <1>2, <2>6, <4>1 DEF AckOK
      <4> QED BY <2>4, <4>1, <4>2
    <3> QED BY <3>1, <3>2
  <2>7. DataOK(a)' /\ AckOK(p)'
    BY <1>1, <2>2, <2>5, <2>6 DEF DataOK, AckOK
  <2>8. DataOK(p)' /\ AckOK(a)'
    BY <1>1, <1>2, <2>2 DEF DataOK, AckOK
  <2> QED BY <1>1, <1>2, <1>4, <2>1, <2>2, <2>7, <2>8 DEF TypeOK, r
<1>5. CASE link[a] # "up"
  <2>1. queue' = queue /\ link' = [link EXCEPT ![a] = "broken"]
    BY <1>5 DEF Put
  <2>2. \A e \in Ends : DataOK(e)' /\ AckOK(e)'
    BY <1>2, <2>1 DEF DataOK, AckOK
  <2> QED BY <1>1, <1>2, <1>5, <2>1, <2>2 DEF TypeOK
<1> QED BY <1>4, <1>5

\* A data packet: always the next one, or once more the next one.
LEMMA PutDataStep ==
    ASSUME IInv, NEW a \in Ends, NEW n,
           pc[a] = "send", nextseq[a] < NPkts[a],
           Put(a, DataPacket(a, nextseq[a])),
           n \in {nextseq[a], nextseq[a] + 1},
           nextseq' = [nextseq EXCEPT ![a] = n],
           base' \in [Ends -> -1..Slots], resend' \in [Ends -> Nat],
           UNCHANGED <<pc, acked, got, polls, master, last>>,
           \A e \in Ends : SendOK(e)'
    PROVE  IInv'
<1> DEFINE p == Peer(a)
           m == DataPacket(a, nextseq[a])
<1>1. /\ p \in Ends /\ p # a /\ Peer(p) = a /\ Peer(a) = p
      /\ \A e \in Ends : e = a \/ e = p
  BY PeerFacts
<1> HIDE DEF p
<1>2. /\ TypeOK
      /\ LinkOK(a) /\ PrefixOK(a) /\ SentOK(a) /\ AckSentOK(a) /\ LastOK(a)
      /\ LinkOK(p) /\ PrefixOK(p) /\ SentOK(p) /\ AckSentOK(p) /\ LastOK(p)
  BY <1>1 DEF IInv
<1>3. /\ NPkts[a] \in 1..(Slots - 1)
      /\ nextseq[a] \in Seqno
      /\ nextseq \in [Ends -> 0..Slots]
      /\ \A e \in Ends : nextseq[e] <= NPkts[e]
  <2>1. nextseq \in [Ends -> 0..Slots] /\ \A e \in Ends : nextseq[e] <= NPkts[e]
    BY <1>2 DEF TypeOK
  <2>2. NPkts[a] \in 1..(Slots - 1)
    OBVIOUS
  <2> QED BY <2>1, <2>2 DEF Seqno
<1>4. m \in Pack /\ m.sno = nextseq[a] /\ (m.ackno = -1 \/ m.sno \in acked[a])
  <2>1. /\ (IF nextseq[a] \in acked[a] THEN 1 ELSE -1) \in Seqno \cup {-1}
    BY <1>3 DEF Seqno
  <2> QED BY <1>3, <2>1 DEF DataPacket, Pack
<1> HIDE DEF m
<1>5. MayPut(a, m)
  BY <1>1, <1>2, <1>3, <1>4 DEF PrefixOK, SentOK, MayPut, Seqno
<1>6. Put(a, m)
  BY DEF m
<1>7. /\ queue' \in [Ends -> Seq(Pack)]
      /\ link' \in [Ends -> {"up", "fin", "err", "broken"}]
      /\ link'[p] = link[p]
      /\ link'[a] = "up" <=> link[a] = "up"
      /\ queue'[a] = queue[a]
      /\ queue'[p] = IF link[a] = "up" THEN Append(queue[p], m) ELSE queue[p]
      /\ \A e \in Ends : DataOK(e)' /\ AckOK(e)'
  BY <1>1, <1>4, <1>5, <1>6, PutOrder
<1>8. TypeOK'
  <2>1. nextseq' \in [Ends -> 0..Slots] /\ \A e \in Ends : nextseq'[e] <= NPkts[e]
    BY <1>3 DEF Seqno
  <2> QED BY <1>2, <1>7, <2>1 DEF TypeOK
<1>9. LinkOK(a)' /\ LinkOK(p)'
  BY <1>1, <1>2, <1>7 DEF LinkOK, Ended
<1>10. PrefixOK(a)' /\ PrefixOK(p)'
  BY <1>1, <1>2 DEF PrefixOK
<1>11. queue[p] \in Seq(Pack)
  BY <1>1, <1>2 DEF TypeOK
<1>12. SentOK(a)'
  <2> SUFFICES ASSUME link[a] = "up", NEW j \in 0..(n - 1)
               PROVE  j \in got[p] \/ HasData(queue'[p], Len(queue'[p]), j)
    BY <1>1, <1>2, <1>7 DEF SentOK, TypeOK
  <2>1. queue'[p] = Append(queue[p], m) /\ Len(queue'[p]) = Len(queue[p]) + 1
    BY <1>4, <1>7, <1>11, AppendFacts
  <2>2. CASE j = nextseq[a]
    BY <1>4, <1>11, <2>1, <2>2, HasAppend
  <2>3. CASE j # nextseq[a]
    <3>1. j \in 0..(nextseq[a] - 1)
      BY <1>3, <2>3 DEF Seqno
    <3>2. j \in got[p] \/ HasData(queue[p], Len(queue[p]), j)
      BY <1>1, <1>2, <3>1 DEF SentOK
    <3> QED BY <1>4, <1>11, <2>1, <3>2, HasAppend
  <2> QED BY <2>2, <2>3
<1>13. SentOK(p)'
  BY <1>1, <1>2, <1>7 DEF SentOK, TypeOK
<1>14. AckSentOK(a)'
  BY <1>1, <1>2, <1>7 DEF AckSentOK
<1>15. AckSentOK(p)'
  <2> SUFFICES ASSUME link[a] = "up", NEW j \in got[a]
               PROVE  \/ j \in acked[p]
                      \/ HasAck(queue'[p], Len(queue'[p]), j)
                      \/ pc[a] = "ack" /\ last[a].sno = j
    BY <1>1, <1>7 DEF AckSentOK
  <2>1. queue'[p] = Append(queue[p], m) /\ Len(queue'[p]) = Len(queue[p]) + 1
    BY <1>4, <1>7, <1>11, AppendFacts
  <2> QED BY <1>1, <1>2, <1>4, <1>11, <2>1, HasAppend, ZenonT(30) DEF AckSentOK
<1>16. LastOK(a)'
  BY <1>1, <1>2, <1>7 DEF LastOK
<1>17. LastOK(p)'
  <2>1. link[p] = "up"
    BY <1>1, <1>2 DEF LinkOK, Ended
  <2> QED BY <1>1, <1>2, <1>7, <2>1 DEF LastOK
<1> QED BY <1>1, <1>7, <1>8, <1>9, <1>10, <1>12, <1>13, <1>14, <1>15, <1>16, <1>17 DEF IInv

\* Both loops of sendpacket() preserve IInv: each sends packet nextseq, and
\* nextseq moves on only over a packet that has been sent.
LEMMA ResendStep ==
    ASSUME IInv, NEW a \in Ends, Resend(a) \/ SendNext(a)
    PROVE  IInv'
<1>1. /\ base \in [Ends -> -1..Slots]
      /\ nextseq \in [Ends -> 0..Slots]
      /\ resend \in [Ends -> Nat]
      /\ nextseq[a] <= NPkts[a]
  BY DEF IInv, TypeOK
<1>2. /\ NPkts[a] \in 1..(Slots - 1)
      /\ nextseq[a] \in Nat
  BY <1>1
<1>3. \A e \in Ends : SendOK(e)
  BY DEF IInv
<1>4. CASE Resend(a)
  <2>1. /\ resend' = [resend EXCEPT ![a] = @ - 1] /\ resend[a] > 0
        /\ pc[a] = "send" /\ pc' = pc
        /\ \/ base[a] = -1 /\ FirstSend(a)
           \/ base[a] # -1 /\ UNCHANGED <<base, nextseq>>
    BY <1>4 DEF Resend
  <2>2. nextseq[a] < NPkts[a]
    BY <1>1, <1>2, <1>3, <2>1 DEF SendOK
  <2>3. resend' \in [Ends -> Nat]
    BY <1>1, <2>1
  <2>4. CASE base[a] = -1
    <3>1. /\ base' = [base EXCEPT ![a] = 0]
          /\ nextseq' = [nextseq EXCEPT ![a] = 1]
      BY <2>1, <2>4 DEF FirstSend
    <3>2. nextseq[a] = 0 /\ resend[a] = 1
      BY <1>1, <1>3, <2>1, <2>4 DEF SendOK
    <3>3. base' \in [Ends -> -1..Slots]
      BY <1>1, <1>2, <3>1
    <3>4. \A e \in Ends : SendOK(e)'
      BY <1>1, <1>2, <1>3, <2>1, <3>1, <3>2 DEF SendOK
    <3>5. nextseq' = [nextseq EXCEPT ![a] = nextseq[a] + 1]
      BY <3>1, <3>2
    <3> QED BY <1>4, <2>1, <2>2, <2>3, <3>3, <3>4, <3>5, PutDataStep DEF Resend
  <2>5. CASE base[a] # -1
    <3>1. base' = base /\ nextseq' = [nextseq EXCEPT ![a] = nextseq[a]]
      BY <1>1, <2>1, <2>5
    <3>2. \A e \in Ends : SendOK(e)'
      BY <1>1, <1>2, <1>3, <2>1, <2>2, <2>5, <3>1 DEF SendOK
    <3> QED BY <1>1, <1>4, <2>1, <2>2, <2>3, <3>1, <3>2, PutDataStep DEF Resend
  <2> QED BY <2>4, <2>5
<1>5. CASE SendNext(a)
  <2>1. /\ nextseq' = [nextseq EXCEPT ![a] = nextseq[a] + 1]
        /\ nextseq[a] < NPkts[a] /\ resend[a] = 0
        /\ pc[a] = "send" /\ UNCHANGED <<pc, base, resend>>
    BY <1>5 DEF SendNext, WindowOpen
  <2>2. base[a] # -1 \/ nextseq[a] = 0
    BY <1>3 DEF SendOK
  <2>3. \A e \in Ends : SendOK(e)'
    BY <1>1, <1>2, <1>3, <2>1 DEF SendOK
  <2> QED BY <1>1, <1>5, <2>1, <2>3, PutDataStep DEF SendNext
<1> QED BY <1>4, <1>5

\* The ack of the packet just stored is the next in order, or a repetition.
LEMMA SendAckStep ==
    ASSUME IInv, NEW a \in Ends, SendAck(a)
    PROVE  IInv'
<1> DEFINE p == Peer(a)
           m == AckPacket(last[a].sno)
<1>1. /\ p \in Ends /\ p # a /\ Peer(p) = a /\ Peer(a) = p
      /\ \A e \in Ends : e = a \/ e = p
  BY PeerFacts
<1> HIDE DEF p
<1>2. /\ TypeOK
      /\ LinkOK(a) /\ SendOK(a) /\ PrefixOK(a) /\ SentOK(a) /\ AckSentOK(a) /\ LastOK(a)
      /\ LinkOK(p) /\ SendOK(p) /\ PrefixOK(p) /\ SentOK(p) /\ AckSentOK(p) /\ LastOK(p)
  BY <1>1 DEF IInv
<1>3. /\ pc[a] = "ack" /\ pc'[a] = "poll" /\ pc'[p] = pc[p]
      /\ pc' = [pc EXCEPT ![a] = "poll"]
      /\ Put(a, m)
      /\ UNCHANGED <<acked, base, nextseq, resend, got, polls, master, last>>
  BY <1>1, <1>2 DEF SendAck, local, TypeOK
<1>4. last[a].sno \in got[a] /\ got[a] \subseteq Seqno
  BY <1>2, <1>3 DEF LastOK, TypeOK
<1>5. m \in Pack /\ m.sno = -1 /\ m.ackno = last[a].sno
  BY <1>4 DEF AckPacket, Pack
<1> HIDE DEF m
<1>6. MayPut(a, m)
  <2> SUFFICES ASSUME link[a] = "up", NEW j \in 0..(m.ackno - 1)
               PROVE  j \in acked[p] \/ HasAck(queue[p], Len(queue[p]), j)
    BY <1>1, <1>4, <1>5 DEF MayPut
  <2>1. j \in got[a] /\ j # last[a].sno
    BY <1>1, <1>2, <1>4, <1>5 DEF PrefixOK, Seqno
  <2> QED BY <1>1, <1>2, <2>1 DEF AckSentOK
<1>7. /\ queue' \in [Ends -> Seq(Pack)]
      /\ link' \in [Ends -> {"up", "fin", "err", "broken"}]
      /\ link'[p] = link[p]
      /\ link'[a] = "up" <=> link[a] = "up"
      /\ queue'[a] = queue[a]
      /\ queue'[p] = IF link[a] = "up" THEN Append(queue[p], m) ELSE queue[p]
      /\ \A e \in Ends : DataOK(e)' /\ AckOK(e)'
  BY <1>1, <1>3, <1>5, <1>6, PutOrder
<1>8. TypeOK'
  <2>1. pc' \in [Ends -> {"connect", "start", "listen", "poll", "ack", "send"} \cup Ended]
    BY <1>2, <1>3 DEF TypeOK
  <2> QED BY <1>2, <1>3, <1>7, <2>1 DEF TypeOK
<1>9. LinkOK(a)' /\ LinkOK(p)'
  BY <1>1, <1>2, <1>3, <1>7 DEF LinkOK, Ended
<1>10. SendOK(a)' /\ SendOK(p)'
  BY <1>1, <1>2, <1>3 DEF SendOK, Ended
<1>11. PrefixOK(a)' /\ PrefixOK(p)'
  BY <1>1, <1>2, <1>3 DEF PrefixOK
<1>12. queue[p] \in Seq(Pack)
  BY <1>1, <1>2 DEF TypeOK
<1>13. link[a] = "up" =>
         queue'[p] = Append(queue[p], m) /\ Len(queue'[p]) = Len(queue[p]) + 1
  BY <1>5, <1>7, <1>12, AppendFacts
<1>14. SentOK(a)'
  <2> SUFFICES ASSUME link[a] = "up", NEW j \in 0..(nextseq[a] - 1)
               PROVE  j \in got[p] \/ HasData(queue'[p], Len(queue'[p]), j)
    BY <1>1, <1>3, <1>7 DEF SentOK
  <2>1. j \in got[p] \/ HasData(queue[p], Len(queue[p]), j)
    BY <1>1, <1>2 DEF SentOK
  <2>2. HasData(queue[p], Len(queue[p]), j)
            => HasData(Append(queue[p], m), Len(queue[p]) + 1, j)
    BY <1>5, <1>12, HasAppend
  <2> QED BY <1>13, <2>1, <2>2
<1>15. SentOK(p)'
  BY <1>1, <1>2, <1>3, <1>7 DEF SentOK
<1>16. AckSentOK(a)'
  BY <1>1, <1>2, <1>3, <1>7 DEF AckSentOK
<1>17. AckSentOK(p)'
  <2> SUFFICES ASSUME link[a] = "up", NEW j \in got[a]
               PROVE  j \in acked[p] \/ HasAck(queue'[p], Len(queue'[p]), j)
    BY <1>1, <1>3, <1>7 DEF AckSentOK
  <2>1. \/ j \in acked[p]
        \/ HasAck(queue[p], Len(queue[p]), j)
        \/ j = m.ackno
    BY <1>1, <1>2, <1>5 DEF AckSentOK
  <2> QED BY <1>5, <1>12, <1>13, <2>1, HasAppend
<1>18. LastOK(a)'
  BY <1>1, <1>2, <1>3, <1>7 DEF LastOK, Ended
<1>19. LastOK(p)'
  <2>1. link[p] = "up"
    BY <1>1, <1>2, <1>3 DEF LinkOK, Ended
  <2> QED BY <1>1, <1>2, <1>3, <1>7, <2>1 DEF LastOK
<1> QED BY <1>1, <1>7, <1>8, <1>9, <1>10, <1>11, <1>14, <1>15, <1>16, <1>17, <1>18, <1>19
        DEF IInv

-----------------------------------------------------------------------------
(* The steps that receive *)

\* What ackprocess() and dataprocess() leave behind.
LEMMA ProcessFacts ==
    ASSUME TypeOK, NEW a \in Ends, NEW pkt, Process(a, pkt), pc[a] = "poll",
           pkt.sno = -1 => pkt.ackno \in Seqno,
           pkt.sno # -1 => pkt.sno \in Seqno
    PROVE  LET data == pkt.sno # -1 /\ pkt.ackno = -1 IN
           /\ acked' = [acked EXCEPT ![a] = IF pkt.sno = -1 THEN @ \cup {pkt.ackno} ELSE @]
           /\ got' = [got EXCEPT ![a] = IF data THEN @ \cup {pkt.sno} ELSE @]
           /\ pc' = [pc EXCEPT ![a] = IF data THEN "ack" ELSE "poll"]
           /\ acked' \in [Ends -> SUBSET Seqno]
           /\ got' \in [Ends -> SUBSET Seqno]
           /\ pc' \in [Ends -> {"connect", "start", "listen", "poll", "ack", "send"} \cup Ended]
           /\ base' \in [Ends -> -1..Slots]
           /\ \A e \in Ends : base'[e] = -1 => base[e] = -1
<1>1. /\ acked \in [Ends -> SUBSET Seqno]
      /\ got \in [Ends -> SUBSET Seqno]
      /\ pc \in [Ends -> {"connect", "start", "listen", "poll", "ack", "send"} \cup Ended]
      /\ base \in [Ends -> -1..Slots]
  BY DEF TypeOK
<1>2. CASE pkt.sno = -1
  <2>1. AckProcess(a, pkt.ackno) /\ UNCHANGED <<got, pc>>
    BY <1>2 DEF Process, Seqno
  <2>2. PICK b \in base[a]..Slots : base' = [base EXCEPT ![a] = b]
    BY <2>1 DEF AckProcess
  <2>3. base' \in [Ends -> -1..Slots] /\ \A e \in Ends : base'[e] = -1 => base[e] = -1
    BY <1>1, <2>2
  <2>4. /\ acked' = [acked EXCEPT ![a] = @ \cup {pkt.ackno}]
        /\ acked' \in [Ends -> SUBSET Seqno]
    BY <1>1, <1>2, <2>1 DEF AckProcess
  <2> QED BY <1>1, <1>2, <2>1, <2>3, <2>4
<1>3. CASE pkt.sno # -1
  <2>1. UNCHANGED <<acked, base>>
    BY <1>3 DEF Process
  <2>2. CASE pkt.ackno = -1
    <3>1. DataProcess(a, pkt.sno)
      BY <2>2 DEF Process
    <3> QED BY <1>1, <1>3, <2>1, <2>2, <3>1 DEF DataProcess
  <2>3. CASE pkt.ackno # -1
    <3>1. UNCHANGED <<got, pc>>
      BY <2>3 DEF Process
    <3> QED BY <1>1, <1>3, <2>1, <2>3, <3>1
  <2> QED BY <2>2, <2>3
<1> QED BY <1>2, <1>3

\* The packet in front is the ack, or the data, that comes next, or one seen
\* before.
LEMMA RecvFacts ==
    ASSUME IInv, NEW a \in Ends, Recv(a)
    PROVE  LET h == Head(queue[a])
               data == h.sno # -1 /\ h.ackno = -1
           IN
           /\ h.sno = -1 => /\ h.ackno \in got[Peer(a)] \cap Seqno
                            /\ \A j \in 0..(h.ackno - 1) : j \in acked[a]
           /\ h.sno # -1 => /\ h.sno \in Seqno
                            /\ h.sno < NPkts[Peer(a)]
                            /\ h.ackno = -1 \/ h.sno \in got[a]
                            /\ \A j \in 0..(h.sno - 1) : j \in got[a]
           /\ acked' = [acked EXCEPT ![a] = IF h.sno = -1 THEN @ \cup {h.ackno} ELSE @]
           /\ got' = [got EXCEPT ![a] = IF data THEN @ \cup {h.sno} ELSE @]
           /\ pc' = [pc EXCEPT ![a] = IF data THEN "ack" ELSE "poll"]
           /\ acked' \in [Ends -> SUBSET Seqno]
           /\ got' \in [Ends -> SUBSET Seqno]
           /\ pc' \in [Ends -> {"connect", "start", "listen", "poll", "ack", "send"} \cup Ended]
           /\ base' \in [Ends -> -1..Slots]
           /\ \A e \in Ends : base'[e] = -1 => base[e] = -1
<1> DEFINE p == Peer(a)
           q == queue[a]
           t == Tail(queue[a])
           h == Head(queue[a])
           data == h.sno # -1 /\ h.ackno = -1
<1>1. /\ p \in Ends /\ p # a /\ Peer(p) = a /\ Peer(a) = p
      /\ \A e \in Ends : e = a \/ e = p
  BY PeerFacts
<1> HIDE DEF p
<1>2. /\ TypeOK
      /\ LinkOK(a) /\ SendOK(a) /\ PrefixOK(a) /\ DataOK(a) /\ SentOK(a)
      /\ AckOK(a) /\ AckSentOK(a) /\ LastOK(a)
      /\ LinkOK(p) /\ SendOK(p) /\ PrefixOK(p) /\ DataOK(p) /\ SentOK(p)
      /\ AckOK(p) /\ AckSentOK(p) /\ LastOK(p)
  BY <1>1 DEF IInv
<1>3. /\ pc[a] = "poll" /\ q # <<>> /\ polls[a] > 0
      /\ queue' = [queue EXCEPT ![a] = t]
      /\ last' = [last EXCEPT ![a] = h]
      /\ polls' = [polls EXCEPT ![a] = @ - 1]
      /\ Process(a, h)
      /\ UNCHANGED <<nextseq, resend, master, link>>
  BY DEF Recv, Polling
<1>4. q \in Seq(Pack)
  BY <1>2 DEF TypeOK
<1>5. /\ h \in Pack /\ h = q[1] /\ t \in Seq(Pack)
      /\ Len(q) \in Nat \ {0} /\ Len(t) = Len(q) - 1
      /\ \A i \in 1..Len(t) : t[i] = q[i + 1]
  BY <1>3, <1>4, TailFacts
<1> HIDE DEF q, t, h
<1>8. ~ \E j : HasData(q, 0, j) \/ HasAck(q, 0, j)
  BY DEF HasData, HasAck
<1>9. h.sno = -1 => /\ h.ackno \in got[p]
                    /\ \A j \in 0..(h.ackno - 1) : j \in acked[a]
  <2>1. 1 \in 1..Len(q) /\ 1 - 1 = 0
    BY <1>5
  <2>2. q[1].sno = -1 =>
            /\ q[1].ackno \in got[p]
            /\ \A j \in 0..(q[1].ackno - 1) : j \in acked[a] \/ HasAck(q, 1 - 1, j)
    BY <1>1, <1>2, <2>1 DEF AckOK, q
  <2> QED BY <1>5, <1>8, <2>1, <2>2
<1>10. h.sno # -1 => /\ h.sno < NPkts[p]
                     /\ h.ackno = -1 \/ h.sno \in got[a]
                     /\ \A j \in 0..(h.sno - 1) : j \in got[a]
  BY <1>1, <1>2, <1>5, <1>8 DEF DataOK, q
<1>11. /\ h.sno = -1 => h.ackno \in Seqno
       /\ h.sno # -1 => h.sno \in Seqno
  BY <1>1, <1>2, <1>5, <1>9 DEF TypeOK, Pack
<1>12. /\ acked' = [acked EXCEPT ![a] = IF h.sno = -1 THEN @ \cup {h.ackno} ELSE @]
       /\ got' = [got EXCEPT ![a] = IF data THEN @ \cup {h.sno} ELSE @]
       /\ pc' = [pc EXCEPT ![a] = IF data THEN "ack" ELSE "poll"]
       /\ acked' \in [Ends -> SUBSET Seqno]
       /\ got' \in [Ends -> SUBSET Seqno]
       /\ pc' \in [Ends -> {"connect", "start", "listen", "poll", "ack", "send"} \cup Ended]
       /\ base' \in [Ends -> -1..Slots]
       /\ \A e \in Ends : base'[e] = -1 => base[e] = -1
  BY <1>2, <1>3, <1>11, ProcessFacts
<1> QED BY <1>1, <1>9, <1>10, <1>11, <1>12 DEF h

\* Taking the first packet from a queue and processing it.
LEMMA RecvStep ==
    ASSUME IInv, NEW a \in Ends, Recv(a)
    PROVE  IInv'
<1> DEFINE p == Peer(a)
           q == queue[a]
           t == Tail(queue[a])
           h == Head(queue[a])
           data == h.sno # -1 /\ h.ackno = -1
<1>1. /\ p \in Ends /\ p # a /\ Peer(p) = a /\ Peer(a) = p
      /\ \A e \in Ends : e = a \/ e = p
  BY PeerFacts
<1> HIDE DEF p
<1>2. /\ TypeOK
      /\ LinkOK(a) /\ SendOK(a) /\ PrefixOK(a) /\ DataOK(a) /\ SentOK(a)
      /\ AckOK(a) /\ AckSentOK(a) /\ LastOK(a)
      /\ LinkOK(p) /\ SendOK(p) /\ PrefixOK(p) /\ DataOK(p) /\ SentOK(p)
      /\ AckOK(p) /\ AckSentOK(p) /\ LastOK(p)
  BY <1>1 DEF IInv
<1>3. /\ pc[a] = "poll" /\ q # <<>> /\ polls[a] > 0
      /\ queue' = [queue EXCEPT ![a] = t]
      /\ last' = [last EXCEPT ![a] = h]
      /\ polls' = [polls EXCEPT ![a] = @ - 1]
      /\ Process(a, h)
      /\ UNCHANGED <<nextseq, resend, master, link>>
  BY DEF Recv, Polling
<1>4. q \in Seq(Pack)
  BY <1>2 DEF TypeOK
<1>5. /\ h \in Pack /\ h = q[1] /\ t \in Seq(Pack)
      /\ Len(q) \in Nat \ {0} /\ Len(t) = Len(q) - 1
      /\ \A i \in 1..Len(t) : t[i] = q[i + 1]
  BY <1>3, <1>4, TailFacts
<1>6. \A n \in 0..Len(t) : \A j :
        /\ HasData(q, n + 1, j) => h.sno = j \/ HasData(t, n, j)
        /\ HasAck(q, n + 1, j) => (h.sno = -1 /\ h.ackno = j) \/ HasAck(t, n, j)
  BY <1>3, <1>4, HasTail
<1>7. /\ queue'[a] = t /\ queue'[p] = queue[p] /\ queue' \in [Ends -> Seq(Pack)]
      /\ last'[a] = h /\ last'[p] = last[p] /\ last' \in [Ends -> Pack \cup {NoPack}]
      /\ polls' \in [Ends -> Nat]
  <2>1. /\ queue \in [Ends -> Seq(Pack)] /\ last \in [Ends -> Pack \cup {NoPack}]
        /\ polls \in [Ends -> Nat]
    BY <1>2 DEF TypeOK
  <2> HIDE DEF q, t, h
  <2> QED BY <1>1, <1>3, <1>5, <2>1
<1> HIDE DEF q, t, h
<1>9. /\ h.sno = -1 => h.ackno \in got[p] /\ \A j \in 0..(h.ackno - 1) : j \in acked[a]
      /\ h.sno # -1 => /\ h.sno < NPkts[p]
                       /\ h.ackno = -1 \/ h.sno \in got[a]
                       /\ \A j \in 0..(h.sno - 1) : j \in got[a]
      /\ h.sno = -1 => h.ackno \in Seqno
      /\ h.sno # -1 => h.sno \in Seqno
  BY <1>1, RecvFacts DEF h
<1>10. /\ acked' = [acked EXCEPT ![a] = IF h.sno = -1 THEN @ \cup {h.ackno} ELSE @]
       /\ got' = [got EXCEPT ![a] = IF data THEN @ \cup {h.sno} ELSE @]
       /\ pc' = [pc EXCEPT ![a] = IF data THEN "ack" ELSE "poll"]
       /\ acked' \in [Ends -> SUBSET Seqno]
       /\ got' \in [Ends -> SUBSET Seqno]
       /\ pc' \in [Ends -> {"connect", "start", "listen", "poll", "ack", "send"} \cup Ended]
       /\ base' \in [Ends -> -1..Slots]
       /\ \A e \in Ends : base'[e] = -1 => base[e] = -1
  BY RecvFacts DEF h
<1>13. /\ acked'[a] = (IF h.sno = -1 THEN acked[a] \cup {h.ackno} ELSE acked[a])
       /\ acked'[p] = acked[p]
       /\ got'[a] = (IF data THEN got[a] \cup {h.sno} ELSE got[a])
       /\ got'[p] = got[p]
       /\ pc'[a] = (IF data THEN "ack" ELSE "poll") /\ pc'[p] = pc[p]
  BY <1>1, <1>2, <1>10 DEF TypeOK
<1>14. h.sno # -1 => h.sno \in got'[a]
  BY <1>9, <1>13
<1>15. TypeOK'
  BY <1>2, <1>3, <1>7, <1>10 DEF TypeOK
<1>16. LinkOK(a)' /\ LinkOK(p)'
  BY <1>1, <1>2, <1>3, <1>7, <1>13 DEF LinkOK, Ended
<1>17. SendOK(a)' /\ SendOK(p)'
  BY <1>1, <1>2, <1>3, <1>10, <1>13 DEF SendOK, Ended
<1>18. PrefixOK(a)'
  BY <1>1, <1>2, <1>9, <1>13 DEF PrefixOK, Seqno
<1>19. PrefixOK(p)'
  BY <1>1, <1>2, <1>9, <1>13 DEF PrefixOK, Seqno
<1>20. DataOK(a)' /\ SentOK(a)' /\ AckOK(p)'
  BY <1>1, <1>2, <1>3, <1>7, <1>13 DEF DataOK, SentOK, AckOK
<1>21. DataOK(p)'
  <2> SUFFICES ASSUME NEW i \in 1..Len(t), t[i].sno # -1
               PROVE  /\ t[i].sno < NPkts[p]
                      /\ t[i].ackno = -1 \/ t[i].sno \in got'[a]
                      /\ \A j \in 0..(t[i].sno - 1) : j \in got'[a] \/ HasData(t, i - 1, j)
    BY <1>1, <1>7 DEF DataOK
  <2>1. t[i] = q[i + 1] /\ i + 1 \in 1..Len(q) /\ i - 1 \in 0..Len(t) /\ (i + 1) - 1 = (i - 1) + 1
    BY <1>5
  <2>2. /\ t[i].sno < NPkts[p]
        /\ t[i].ackno = -1 \/ t[i].sno \in got[a]
        /\ \A j \in 0..(t[i].sno - 1) : j \in got[a] \/ HasData(q, (i - 1) + 1, j)
    BY <1>1, <1>2, <2>1 DEF DataOK, q
  <2>3. \A j : HasData(q, (i - 1) + 1, j) => h.sno = j \/ HasData(t, i - 1, j)
    BY <1>6, <2>1
  <2>4. got[a] \subseteq got'[a]
    BY <1>13
  <2>5. ASSUME NEW j \in 0..(t[i].sno - 1)
        PROVE  j \in got'[a] \/ HasData(t, i - 1, j)
    BY <1>14, <2>2, <2>3, <2>4
  <2> QED BY <2>2, <2>4, <2>5
<1>22. SentOK(p)'
  <2> SUFFICES ASSUME link[p] = "up", NEW j \in 0..(nextseq[p] - 1)
               PROVE  j \in got'[a] \/ HasData(t, Len(t), j)
    BY <1>1, <1>3, <1>7 DEF SentOK
  <2>1. j \in got[a] \/ HasData(q, Len(t) + 1, j)
    BY <1>1, <1>2, <1>5 DEF SentOK, q
  <2>2. Len(t) \in 0..Len(t)
    BY <1>5
  <2>3. j \in got[a] \/ h.sno = j \/ HasData(t, Len(t), j)
    BY <1>6, <2>1, <2>2
  <2> QED BY <1>13, <1>14, <2>3
<1>23. AckOK(a)'
  <2> SUFFICES ASSUME NEW i \in 1..Len(t), t[i].sno = -1
               PROVE  /\ t[i].ackno \in got[p]
                      /\ \A j \in 0..(t[i].ackno - 1) : j \in acked'[a] \/ HasAck(t, i - 1, j)
    BY <1>1, <1>7, <1>13 DEF AckOK
  <2>1. t[i] = q[i + 1] /\ i + 1 \in 1..Len(q) /\ i - 1 \in 0..Len(t) /\ (i + 1) - 1 = (i - 1) + 1
    BY <1>5
  <2>2. /\ t[i].ackno \in got[p]
        /\ \A j \in 0..(t[i].ackno - 1) : j \in acked[a] \/ HasAck(q, (i - 1) + 1, j)
    BY <1>1, <1>2, <2>1 DEF AckOK, q
  <2>3. \A j : HasAck(q, (i - 1) + 1, j) => (h.sno = -1 /\ h.ackno = j) \/ HasAck(t, i - 1, j)
    BY <1>6, <2>1
  <2> QED BY <1>13, <2>2, <2>3
<1>24. AckSentOK(a)'
  <2> SUFFICES ASSUME link[p] = "up", NEW j \in got[p]
               PROVE  \/ j \in acked'[a]
                      \/ HasAck(t, Len(t), j)
                      \/ pc[p] = "ack" /\ last[p].sno = j
    BY <1>1, <1>3, <1>7, <1>13 DEF AckSentOK
  <2>1. \/ j \in acked[a]
        \/ HasAck(q, Len(t) + 1, j)
        \/ pc[p] = "ack" /\ last[p].sno = j
    BY <1>1, <1>2, <1>5 DEF AckSentOK, q
  <2>2. Len(t) \in 0..Len(t)
    BY <1>5
  <2> QED BY <1>6, <1>13, <2>1, <2>2
<1>25. AckSentOK(p)'
  <2> SUFFICES ASSUME link[a] = "up", NEW j \in got'[a]
               PROVE  \/ j \in acked[p]
                      \/ HasAck(queue[p], Len(queue[p]), j)
                      \/ pc'[a] = "ack" /\ h.sno = j
    BY <1>1, <1>3, <1>7, <1>13 DEF AckSentOK
  <2>1. j \in got[a] \/ (data /\ j = h.sno)
    BY <1>13
  <2>2. CASE j \in got[a]
    BY <1>1, <1>2, <1>3, <2>2 DEF AckSentOK
  <2>3. CASE data /\ j = h.sno
    BY <1>13, <2>3
  <2> QED BY <2>1, <2>2, <2>3
<1>26. LastOK(a)'
  <2>1. h # NoPack
    BY <1>5, NoPackAssumption
  <2>2. h.sno = -1 => h.ackno \in acked'[a]
    BY <1>13
  <2> QED BY <1>7, <1>13, <1>14, <2>1, <2>2 DEF LastOK, Ended
<1>27. LastOK(p)'
  BY <1>1, <1>2, <1>3, <1>7, <1>13 DEF LastOK
<1> QED BY <1>1, <1>15, <1>16, <1>17, <1>18, <1>19, <1>20, <1>21, <1>22, <1>23, <1>24,
           <1>25, <1>26, <1>27 DEF IInv

\* At end of file the last packet is processed once more, which stores and
\* acknowledges nothing new.
LEMMA EOFFacts ==
    ASSUME IInv, NEW a \in Ends, RecvEOF(a)
    PROVE  LET h == last[a]
               data == h.sno # -1 /\ h.ackno = -1
           IN
           /\ h # NoPack /\ h \in Pack /\ last' = last
           /\ h.sno = -1 => h.ackno \in acked[a]
           /\ Process(a, h)
           /\ acked' = acked /\ got' = got
           /\ pc' = [pc EXCEPT ![a] = IF data THEN "ack" ELSE "poll"]
           /\ pc' \in [Ends -> {"connect", "start", "listen", "poll", "ack", "send"} \cup Ended]
           /\ base' \in [Ends -> -1..Slots]
           /\ \A e \in Ends : base'[e] = -1 => base[e] = -1
<1> DEFINE p == Peer(a)
           h == last[a]
<1>1. /\ p \in Ends /\ p # a /\ Peer(p) = a /\ Peer(a) = p
      /\ \A e \in Ends : e = a \/ e = p
  BY PeerFacts
<1> HIDE DEF p
<1>2. /\ TypeOK
      /\ LinkOK(a) /\ SendOK(a) /\ PrefixOK(a) /\ DataOK(a) /\ SentOK(a)
      /\ AckOK(a) /\ AckSentOK(a) /\ LastOK(a)
      /\ LinkOK(p) /\ SendOK(p) /\ PrefixOK(p) /\ DataOK(p) /\ SentOK(p)
      /\ AckOK(p) /\ AckSentOK(p) /\ LastOK(p)
  BY <1>1 DEF IInv
<1>3. /\ pc[a] = "poll" /\ queue[a] = <<>> /\ link[a] # "up" /\ polls[a] > 0
      /\ polls' = [polls EXCEPT ![a] = @ - 1]
      /\ master' = [master EXCEPT ![a] = FALSE]
      /\ UNCHANGED <<nextseq, resend, queue, link>>
  BY DEF RecvEOF, Polling
<1>4. h # NoPack /\ h \in Pack
  BY <1>2, <1>3 DEF LastOK, TypeOK, Ended
<1>5. Process(a, h) /\ last' = [last EXCEPT ![a] = h]
  BY <1>4 DEF RecvEOF, Incomming
<1>6. last' = last
  BY <1>2, <1>5 DEF TypeOK
<1>7. IF h.sno = -1 THEN h.ackno \in acked[a] ELSE h.sno \in got[a]
  BY <1>2, <1>4 DEF LastOK
<1> DEFINE data == h.sno # -1 /\ h.ackno = -1
<1>8. /\ h.sno = -1 => h.ackno \in Seqno
      /\ h.sno # -1 => h.sno \in Seqno
  BY <1>2, <1>7 DEF TypeOK
<1> HIDE DEF h
<1>9. /\ acked' = [acked EXCEPT ![a] = IF h.sno = -1 THEN @ \cup {h.ackno} ELSE @]
      /\ got' = [got EXCEPT ![a] = IF data THEN @ \cup {h.sno} ELSE @]
      /\ pc' = [pc EXCEPT ![a] = IF data THEN "ack" ELSE "poll"]
      /\ pc' \in [Ends -> {"connect", "start", "listen", "poll", "ack", "send"} \cup Ended]
      /\ base' \in [Ends -> -1..Slots]
      /\ \A e \in Ends : base'[e] = -1 => base[e] = -1
  BY <1>2, <1>3, <1>5, <1>8, ProcessFacts
<1>10. acked' = acked /\ got' = got
  BY <1>2, <1>7, <1>9 DEF TypeOK
<1> QED BY <1>4, <1>5, <1>6, <1>7, <1>9, <1>10 DEF h

\* recv() returning 0 preserves IInv.
LEMMA EOFStep ==
    ASSUME IInv, NEW a \in Ends, RecvEOF(a)
    PROVE  IInv'
<1> DEFINE p == Peer(a)
           h == last[a]
<1>1. /\ p \in Ends /\ p # a /\ Peer(p) = a /\ Peer(a) = p
      /\ \A e \in Ends : e = a \/ e = p
  BY PeerFacts
<1> HIDE DEF p
<1>2. /\ TypeOK
      /\ LinkOK(a) /\ SendOK(a) /\ PrefixOK(a) /\ DataOK(a) /\ SentOK(a)
      /\ AckOK(a) /\ AckSentOK(a) /\ LastOK(a)
      /\ LinkOK(p) /\ SendOK(p) /\ PrefixOK(p) /\ DataOK(p) /\ SentOK(p)
      /\ AckOK(p) /\ AckSentOK(p) /\ LastOK(p)
  BY <1>1 DEF IInv
<1>3. /\ pc[a] = "poll" /\ queue[a] = <<>> /\ link[a] # "up" /\ polls[a] > 0
      /\ polls' = [polls EXCEPT ![a] = @ - 1]
      /\ master' = [master EXCEPT ![a] = FALSE]
      /\ UNCHANGED <<nextseq, resend, queue, link>>
  BY DEF RecvEOF, Polling
<1> DEFINE data == h.sno # -1 /\ h.ackno = -1
<1>4. /\ h # NoPack /\ h \in Pack /\ last' = last
      /\ acked' = acked /\ got' = got
      /\ pc' = [pc EXCEPT ![a] = IF data THEN "ack" ELSE "poll"]
      /\ pc' \in [Ends -> {"connect", "start", "listen", "poll", "ack", "send"} \cup Ended]
      /\ base' \in [Ends -> -1..Slots]
      /\ \A e \in Ends : base'[e] = -1 => base[e] = -1
  BY EOFFacts
<1> HIDE DEF h
<1>11. pc'[a] = (IF data THEN "ack" ELSE "poll") /\ pc'[p] = pc[p]
  BY <1>1, <1>2, <1>4 DEF TypeOK
<1>12. TypeOK'
  <2>1. polls' \in [Ends -> Nat] /\ master' \in [Ends -> BOOLEAN]
    BY <1>2, <1>3 DEF TypeOK
  <2> QED BY <1>2, <1>3, <1>4, <2>1 DEF TypeOK
<1>13. LinkOK(a)' /\ LinkOK(p)'
  BY <1>1, <1>2, <1>3, <1>11 DEF LinkOK, Ended
<1>14. SendOK(a)' /\ SendOK(p)'
  BY <1>1, <1>2, <1>3, <1>4, <1>11 DEF SendOK, Ended
<1>15. ASSUME NEW e \in Ends
       PROVE  PrefixOK(e)' /\ DataOK(e)' /\ SentOK(e)' /\ AckOK(e)'
  <2>1. PrefixOK(e)'
    BY <1>1, <1>2, <1>3, <1>4 DEF PrefixOK
  <2>2. DataOK(e)'
    BY <1>1, <1>2, <1>3, <1>4 DEF DataOK
  <2>3. SentOK(e)'
    BY <1>1, <1>2, <1>3, <1>4 DEF SentOK
  <2>4. AckOK(e)'
    BY <1>1, <1>2, <1>3, <1>4 DEF AckOK
  <2> QED BY <2>1, <2>2, <2>3, <2>4
<1>16. AckSentOK(a)'
  BY <1>1, <1>2, <1>3, <1>4, <1>11 DEF AckSentOK
<1>17. AckSentOK(p)'
  BY <1>1, <1>3 DEF AckSentOK
<1>18. LastOK(a)'
  BY <1>2, <1>3, <1>4, <1>11 DEF LastOK, h
<1>19. LastOK(p)'
  BY <1>1, <1>2, <1>3, <1>4, <1>11 DEF LastOK
<1> QED BY <1>1, <1>12, <1>13, <1>14, <1>15, <1>16, <1>17, <1>18, <1>19 DEF IInv

-----------------------------------------------------------------------------
(* Theorems *)

\* Every step preserves IInv.
LEMMA NextIInv == IInv /\ [Next]_vars => IInv'
<1> SUFFICES ASSUME IInv, [Next]_vars PROVE IInv'
  OBVIOUS
<1>1. CASE StartListen \/ Connect \/ Accept
  BY <1>1, LocalStep
<1>2. ASSUME NEW a \in Ends, Poll(a)
      PROVE  IInv'
  BY <1>2, RecvStep, EOFStep, EndStep, LocalStep, SendAckStep DEF Poll
<1>3. ASSUME NEW a \in Ends, SendPacket(a)
      PROVE  IInv'
  BY <1>3, LocalStep, ResendStep, EndStep DEF SendPacket
<1>4. CASE UNCHANGED vars
  <2> USE <1>4 DEF vars
  <2>1. TypeOK'
    BY DEF IInv, TypeOK
  <2>2. ASSUME NEW e \in Ends
        PROVE  /\ LinkOK(e)' /\ SendOK(e)' /\ PrefixOK(e)' /\ DataOK(e)' /\ SentOK(e)'
               /\ AckOK(e)' /\ AckSentOK(e)' /\ LastOK(e)'
    <3>1. /\ LinkOK(e) /\ SendOK(e) /\ PrefixOK(e) /\ DataOK(e) /\ SentOK(e)
          /\ AckOK(e) /\ AckSentOK(e) /\ LastOK(e)
      BY DEF IInv
    <3>2. LinkOK(e)' /\ SendOK(e)' /\ PrefixOK(e)' /\ LastOK(e)'
      BY <3>1 DEF LinkOK, SendOK, PrefixOK, LastOK
    <3>3. DataOK(e)' /\ SentOK(e)' /\ AckOK(e)' /\ AckSentOK(e)'
      BY <3>1 DEF DataOK, SentOK, AckOK, AckSentOK
    <3> QED BY <3>2, <3>3
  <2> QED BY <2>1, <2>2 DEF IInv
<1> QED BY <1>1, <1>2, <1>3, <1>4 DEF Next

\* IInv is an invariant of the exchange, for files and windows of any size and
\* sockets that hold any number of packets.
THEOREM IInvInvariant == Spec => []IInv
BY InitIInv, NextIInv, PTL DEF Spec

\* Every variable keeps its type; in particular nextseq never passes the last
\* packet, and no slot outside the two buffers is ever marked.
THEOREM TypeCorrect == Spec => []TypeOK
<1>1. IInv => TypeOK
  BY DEF IInv
<1> QED BY <1>1, IInvInvariant, PTL

\* An acknowledged packet is stored at the other end.
THEOREM AckedIsDelivered == Spec => []AckImpliesDelivered
<1>1. IInv => AckImpliesDelivered
  BY DEF IInv, PrefixOK, AckImpliesDelivered
<1> QED BY <1>1, IInvInvariant, PTL

\* What is counted as sent is stored or waits in the socket of the receiver.
THEOREM SentIsNotSkipped == Spec => []NothingSkipped
<1>1. ASSUME IInv, NEW e \in Ends, link[e] = "up", NEW j \in 0..(nextseq[e] - 1)
      PROVE  j \in got[Peer(e)] \cup Waiting(Peer(e))
  <2>1. j \in got[Peer(e)] \/ HasData(queue[Peer(e)], Len(queue[Peer(e)]), j)
    BY <1>1 DEF IInv, SentOK
  <2>2. j # -1
    BY <1>1 DEF IInv, TypeOK
  <2> QED BY <2>1, <2>2 DEF HasData, Waiting
<1>2. IInv => NothingSkipped
  BY <1>1 DEF NothingSkipped
<1> QED BY <1>2, IInvInvariant, PTL

\* recv() has filled `incomming` before it returns 0.
THEOREM EOFFindsPacket == Spec => []EOFAfterPacket
<1>1. IInv => EOFAfterPacket
  BY DEF IInv, LastOK, EOFAfterPacket, Polling, Ended
<1> QED BY <1>1, IInvInvariant, PTL

\* An end that fails, fails after the other: it is alone on a connection that
\* only the exit of the other end breaks.
THEOREM OneEndCompletes == Spec => []OneCompletes
<1>1. Init => OneCompletes
  BY DEF Init, OneCompletes
<1>2. IInv /\ OneCompletes /\ [Next]_vars => OneCompletes'
  <2> SUFFICES ASSUME IInv, OneCompletes, [Next]_vars, NEW e \in Ends,
                      pc'[e] \in {"killed", "error"}
               PROVE  pc'[Peer(e)] = "done"
    BY DEF OneCompletes
  <2>1. /\ Peer(e) \in Ends /\ Peer(e) # e /\ Peer(Peer(e)) = e
        /\ \A d \in Ends : d = e \/ d = Peer(e)
    BY PeerFacts
  <2>2. pc \in [Ends -> {"connect", "start", "listen", "poll", "ack", "send"} \cup Ended]
    BY DEF IInv, TypeOK
  <2>3. /\ link[e] = "up" <=> pc[Peer(e)] \notin Ended
        /\ link[Peer(e)] = "up" <=> pc[e] \notin Ended
    BY <2>1 DEF IInv, LinkOK
  <2>4. CASE pc'[Peer(e)] = pc[Peer(e)] /\ pc'[e] = pc[e]
    BY <2>1, <2>4 DEF OneCompletes
  <2>5. CASE RecvError(e) \/ SigPipe(e)
    <3>1. /\ link[e] # "up" /\ pc[e] \notin Ended
          /\ pc'[Peer(e)] = pc[Peer(e)]
      BY <2>1, <2>2, <2>5 DEF RecvError, SigPipe, Exit, Polling, Ended
    <3>2. pc[Peer(e)] \in Ended /\ pc[Peer(e)] \notin {"killed", "error"}
      BY <2>1, <2>3, <3>1 DEF OneCompletes, Ended
    <3> QED BY <3>1, <3>2 DEF Ended
  <2>6. CASE RecvError(Peer(e)) \/ SigPipe(Peer(e)) \/ Finish(Peer(e))
    <3>1. pc[Peer(e)] \notin Ended /\ pc'[e] = pc[e]
      BY <2>1, <2>2, <2>6 DEF RecvError, SigPipe, Finish, Exit, Polling, Ended
    <3> QED BY <2>1, <3>1 DEF OneCompletes, Ended
  <2>7. CASE Finish(e)
    BY <2>2, <2>7 DEF Finish, Exit
  <2>8. CASE StartListen \/ Connect \/ Accept
    <3>1. pc[e] \in Ended
      BY <2>2, <2>8 DEF StartListen, Connect, Accept, Ends, Ended
    <3>2. pc[e] = pc'[e] /\ pc[Peer(e)] = "done"
      BY <2>2, <2>8, <3>1 DEF StartListen, Connect, Accept, Ends, Ended, OneCompletes
    <3>3. pc'[Peer(e)] = pc[Peer(e)]
      BY <2>1, <2>2, <2>8, <3>2 DEF StartListen, Connect, Accept, Ends
    <3> QED BY <3>2, <3>3
  <2>9. ASSUME NEW d \in Ends,
               \/ Recv(d) \/ RecvEOF(d) \/ PollTimeout(d) \/ SendAck(d)
               \/ BeginSend(d) \/ Resend(d) \/ SendNext(d) \/ NextRound(d)
        PROVE  pc'[Peer(e)] = "done"
    <3>1. /\ pc[d] \notin Ended /\ pc'[d] \notin Ended
          /\ \A c \in Ends : c # d => pc'[c] = pc[c]
      <4>1. ASSUME NEW pkt, pc[d] = "poll", Process(d, pkt)
            PROVE  /\ pc[d] \notin Ended /\ pc'[d] \notin Ended
                   /\ \A c \in Ends : c # d => pc'[c] = pc[c]
        <5>1. pc' = pc \/ pc' = [pc EXCEPT ![d] = "ack"]
          BY <4>1 DEF Process, DataProcess
        <5> QED BY <2>2, <4>1, <5>1 DEF Ended
      <4>2. CASE Recv(d) \/ RecvEOF(d)
        BY <4>1, <4>2 DEF Recv, RecvEOF, Polling
      <4>3. CASE PollTimeout(d) \/ SendAck(d) \/ BeginSend(d)
        BY <2>2, <4>3 DEF PollTimeout, Polling, SendAck, BeginSend, Ended
      <4>4. CASE Resend(d) \/ SendNext(d) \/ NextRound(d)
        BY <2>2, <4>4 DEF Resend, SendNext, NextRound, Ended
      <4> QED BY <2>9, <4>2, <4>3, <4>4
    <3> QED BY <2>1, <3>1 DEF OneCompletes, Ended
  <2>10. CASE UNCHANGED vars
    BY <2>4, <2>10 DEF vars
  <2> QED BY <2>1, <2>5, <2>6, <2>7, <2>8, <2>9, <2>10 DEF Next, Poll, SendPacket
<1> QED BY <1>1, <1>2, IInvInvariant, PTL DEF Spec

-----------------------------------------------------------------------------
(* The exchange implements ReliableTransfer *)

\* A prefix that has all numbers below k, but not k, ends just before k.
LEMMA PrefixExtends ==
    ASSUME NEW S \in SUBSET Nat, NEW k \in Nat, k \notin S,
           \A x \in S : 0..x \subseteq S,
           \A j \in 0..(k - 1) : j \in S
    PROVE  S = 0..(k - 1) /\ S \cup {k} = 0..k
<1>1. ASSUME NEW x \in S
      PROVE  x \in 0..(k - 1)
  <2>1. x \in Nat /\ ~(k <= x)
    OBVIOUS
  <2> QED BY <2>1
<1>2. S = 0..(k - 1)
  BY <1>1
<1>3. 0..(k - 1) \cup {k} = 0..k
  OBVIOUS
<1> QED BY <1>2, <1>3

\* An end stores or learns at most one packet in a step, the next of its file.
LEMMA TransferStep ==
    ASSUME IInv, [Next]_vars
    PROVE  [Transfer!Next]_(Transfer!transferVars)
<1> DEFINE del == [e \in Ends |-> got[Peer(e)]]
<1>1. ASSUME NEW a \in Ends, Recv(a)
      PROVE  \/ UNCHANGED <<acked, got>>
             \/ Transfer!Deliver(Peer(a))
             \/ Transfer!Confirm(a)
  <2> DEFINE p == Peer(a)
             h == Head(queue[a])
             data == h.sno # -1 /\ h.ackno = -1
  <2>1. p \in Ends /\ p # a /\ Peer(p) = a /\ \A e \in Ends : e = a \/ e = p
    BY PeerFacts
  <2>2. /\ h.sno = -1 => /\ h.ackno \in got[p] \cap Seqno
                         /\ \A j \in 0..(h.ackno - 1) : j \in acked[a]
        /\ h.sno # -1 => /\ h.sno \in Seqno
                         /\ h.sno < NPkts[p]
                         /\ \A j \in 0..(h.sno - 1) : j \in got[a]
        /\ acked' = [acked EXCEPT ![a] = IF h.sno = -1 THEN @ \cup {h.ackno} ELSE @]
        /\ got' = [got EXCEPT ![a] = IF data THEN @ \cup {h.sno} ELSE @]
    BY <1>1, RecvFacts
  <2>3. /\ acked \in [Ends -> SUBSET Seqno] /\ got \in [Ends -> SUBSET Seqno]
        /\ \A k \in acked[a] : 0..k \subseteq acked[a]
        /\ \A k \in got[a] : 0..k \subseteq got[a]
    BY <2>1 DEF IInv, TypeOK, PrefixOK
  <2> HIDE DEF p, h
  <2>4. CASE h.sno = -1 /\ h.ackno \notin acked[a]
    <3> DEFINE k == h.ackno
    <3>1. k \in Seqno /\ k \in got[p]
      BY <2>2, <2>4
    <3>2. acked[a] = 0..(k - 1) /\ acked[a] \cup {k} = 0..k
      <4>1. acked[a] \in SUBSET Nat /\ k \in Nat /\ k \notin acked[a]
        BY <2>3, <2>4, <3>1 DEF Seqno
      <4>2. \A j \in 0..(k - 1) : j \in acked[a]
        BY <2>2, <2>4
      <4> HIDE DEF k
      <4> QED BY <2>3, <4>1, <4>2, PrefixExtends
    <3>3. acked' = [acked EXCEPT ![a] = 0..k] /\ got' = got
      BY <2>2, <2>3, <2>4, <3>2
    <3>4. k \in del[a]
      BY <3>1 DEF p
    <3> QED BY <3>2, <3>3, <3>4 DEF Transfer!Confirm
  <2>5. CASE data /\ h.sno \notin got[a]
    <3> DEFINE k == h.sno
    <3>1. k \in Seqno /\ k \in 0..(NPkts[p] - 1)
      BY <2>1, <2>2, <2>5 DEF Seqno
    <3>2. got[a] = 0..(k - 1) /\ got[a] \cup {k} = 0..k
      <4>1. got[a] \in SUBSET Nat /\ k \in Nat /\ k \notin got[a]
        BY <2>3, <2>5, <3>1 DEF Seqno
      <4>2. \A j \in 0..(k - 1) : j \in got[a]
        BY <2>2, <2>5
      <4> HIDE DEF k
      <4> QED BY <2>3, <4>1, <4>2, PrefixExtends
    <3>3. got' = [got EXCEPT ![a] = 0..k] /\ acked' = acked
      BY <2>2, <2>3, <2>5, <3>2
    <3>4. del[p] = 0..(k - 1)
      BY <2>1, <3>2
    <3>5. del' = [del EXCEPT ![p] = 0..k]
      <4>1. \A e \in Ends : Peer(e) \in Ends /\ (Peer(e) = a <=> e = p)
        BY <2>1, PeerFacts
      <4> HIDE DEF k
      <4>2. \A e \in Ends : got'[Peer(e)] = IF e = p THEN 0..k ELSE got[Peer(e)]
        BY <2>3, <3>3, <4>1
      <4> QED BY <2>1, <4>2
    <3> QED BY <2>1, <3>1, <3>3, <3>4, <3>5 DEF Transfer!Deliver, p
  <2>6. CASE ~(h.sno = -1 /\ h.ackno \notin acked[a]) /\ ~(data /\ h.sno \notin got[a])
    BY <2>2, <2>3, <2>6
  <2> QED BY <2>4, <2>5, <2>6
<1>2. ASSUME NEW a \in Ends, RecvEOF(a)
      PROVE  UNCHANGED <<acked, got>>
  BY <1>2, EOFFacts
<1>3. ASSUME NEW a \in Ends,
             \/ RecvError(a) \/ PollTimeout(a) \/ SendAck(a) \/ SendPacket(a)
      PROVE  UNCHANGED <<acked, got>>
  BY <1>3 DEF RecvError, PollTimeout, SendAck, SendPacket, BeginSend, Resend, SendNext,
              NextRound, Finish, SigPipe, local
<1>4. CASE StartListen \/ Connect \/ Accept \/ UNCHANGED vars
  <2>1. UNCHANGED <<acked, got>>
    BY <1>4 DEF StartListen, Connect, Accept, local, vars
  <2> QED BY <2>1 DEF Transfer!transferVars
<1>5. ASSUME UNCHANGED <<acked, got>>
      PROVE  UNCHANGED Transfer!transferVars
  BY <1>5 DEF Transfer!transferVars
<1>6. \A a \in Ends : Peer(a) \in Ends
  BY PeerFacts
<1> QED BY <1>1, <1>2, <1>3, <1>4, <1>5, <1>6 DEF Next, Poll, Transfer!Next

\* Both files are delivered and confirmed one packet at a time and in order.
THEOREM ImplementsReliableTransfer == Spec => ImplementsTransfer
<1>1. Init => Transfer!Init
  <2>1. \A e \in Ends : Peer(e) \in Ends
    BY PeerFacts
  <2> QED BY <2>1 DEF Init, Transfer!Init
<1>2. IInv /\ [Next]_vars => [Transfer!Next]_(Transfer!transferVars)
  BY TransferStep
<1> QED BY <1>1, <1>2, IInvInvariant, PTL DEF Spec, ImplementsTransfer, Transfer!Spec

=============================================================================
