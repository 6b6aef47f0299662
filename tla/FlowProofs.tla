------------------------------ MODULE FlowProofs ------------------------------
(***************************************************************************)
(* The two ends of the exchange do not block each other in send(), if the  *)
(* sockets are large enough for the two windows.  What waits to be read,   *)
(* and what can still be sent before it is read, is weighed: no step makes *)
(* the sum grow but the end of a round of polls, which needs an empty      *)
(* socket; and if both ends are blocked, both sockets are full.            *)
(***************************************************************************)
EXTENDS WindowProofs

-----------------------------------------------------------------------------
(* Weights *)

DataAt(q) == {i \in 1..Len(q) : q[i].sno # -1}

LEMMA DataAtFinite ==
    ASSUME NEW q \in Seq(Pack)
    PROVE  /\ IsFiniteSet(DataAt(q)) /\ Cardinality(DataAt(q)) \in 0..Len(q)
           /\ Weight(q) = 2 * Len(q) + Cardinality(DataAt(q))
<1>1. Len(q) \in Nat /\ 1 \in Int /\ Len(q) \in Int
  OBVIOUS
<1>2. IsFiniteSet(1..Len(q)) /\ Cardinality(1..Len(q)) = IF 1 > Len(q) THEN 0 ELSE Len(q) - 1 + 1
  BY <1>1, FS_Interval, Zenon
<1>3. Cardinality(1..Len(q)) = Len(q)
  BY <1>1, <1>2
<1>4. DataAt(q) \in SUBSET (1..Len(q))
  BY DEF DataAt
<1>5. IsFiniteSet(DataAt(q)) /\ Cardinality(DataAt(q)) <= Cardinality(1..Len(q))
  BY <1>2, <1>4, FS_Subset, Zenon
<1>6. Cardinality(DataAt(q)) \in Nat
  BY <1>5, FS_CardinalityType, Zenon
<1>7. Weight(q) = 2 * Len(q) + Cardinality(DataAt(q))
  BY Zenon DEF Weight, DataAt
<1> QED BY <1>1, <1>3, <1>5, <1>6, <1>7

\* A packet weighs 2, or 3 if it is data.
LEMMA WeightBounds ==
    ASSUME NEW q \in Seq(Pack)
    PROVE  Weight(q) \in Nat /\ 2 * Len(q) <= Weight(q) /\ Weight(q) <= 3 * Len(q)
<1>1. /\ Len(q) \in Nat /\ Cardinality(DataAt(q)) \in 0..Len(q)
      /\ Weight(q) = 2 * Len(q) + Cardinality(DataAt(q))
  BY DataAtFinite
<1> QED BY <1>1

LEMMA WeightAppend ==
    ASSUME NEW q \in Seq(Pack), NEW m \in Pack
    PROVE  Weight(Append(q, m)) = Weight(q) + IF m.sno = -1 THEN 2 ELSE 3
<1> DEFINE t == Append(q, m)
<1>1. /\ t \in Seq(Pack) /\ Len(q) \in Nat /\ Len(t) = Len(q) + 1
      /\ \A i \in 1..Len(q) : t[i] = q[i]
      /\ t[Len(q) + 1] = m
  BY AppendFacts, LenProperties
<1>2. /\ Weight(t) = 2 * Len(t) + Cardinality(DataAt(t))
      /\ Weight(q) = 2 * Len(q) + Cardinality(DataAt(q))
      /\ IsFiniteSet(DataAt(q)) /\ Cardinality(DataAt(q)) \in 0..Len(q)
  BY <1>1, DataAtFinite, Zenon
<1> HIDE DEF t
<1>3. DataAt(t) = IF m.sno = -1 THEN DataAt(q) ELSE DataAt(q) \cup {Len(q) + 1}
  <2>1. \A i \in 1..Len(t) : i \in 1..Len(q) \/ i = Len(q) + 1
    BY <1>1
  <2>2. 1..Len(q) \subseteq 1..Len(t) /\ Len(q) + 1 \in 1..Len(t)
    BY <1>1
  <2> QED BY <1>1, <2>1, <2>2, Zenon DEF DataAt
<1>4. Len(q) + 1 \notin DataAt(q)
  BY <1>1 DEF DataAt
<1>5. Cardinality(DataAt(q) \cup {Len(q) + 1}) = Cardinality(DataAt(q)) + 1
  BY <1>2, <1>4, FS_AddElement, Zenon
<1>6. Cardinality(DataAt(t)) = Cardinality(DataAt(q)) + IF m.sno = -1 THEN 0 ELSE 1
  BY <1>2, <1>3, <1>5
<1>7. Weight(t) = Weight(q) + IF m.sno = -1 THEN 2 ELSE 3
  BY <1>1, <1>2, <1>6
<1> QED BY <1>7 DEF t

LEMMA WeightTail ==
    ASSUME NEW q \in Seq(Pack), q # <<>>
    PROVE  Weight(q) = Weight(Tail(q)) + IF Head(q).sno = -1 THEN 2 ELSE 3
<1> DEFINE t == Tail(q)
           rest == {i \in 2..Len(q) : q[i].sno # -1}
           next == [i \in DataAt(t) |-> i + 1]
<1>1. /\ t \in Seq(Pack) /\ Len(q) \in Nat \ {0} /\ Len(t) = Len(q) - 1
      /\ \A i \in 1..Len(t) : t[i] = q[i + 1]
      /\ Head(q) = q[1]
  BY TailFacts
<1>2. /\ Weight(t) = 2 * Len(t) + Cardinality(DataAt(t))
      /\ Weight(q) = 2 * Len(q) + Cardinality(DataAt(q))
      /\ IsFiniteSet(DataAt(t)) /\ Cardinality(DataAt(t)) \in 0..Len(t)
  BY <1>1, DataAtFinite, Zenon
<1> HIDE DEF t
<1>3. \A i \in DataAt(t) : i + 1 \in rest /\ i \in Int
  BY <1>1 DEF DataAt
<1>4. \A i \in rest : i - 1 \in DataAt(t) /\ (i - 1) + 1 = i /\ i \in Int
  <2> SUFFICES ASSUME NEW i \in rest PROVE i - 1 \in DataAt(t) /\ (i - 1) + 1 = i /\ i \in Int
    OBVIOUS
  <2>1. i \in 2..Len(q) /\ q[i].sno # -1
    OBVIOUS
  <2>2. i - 1 \in 1..Len(t) /\ (i - 1) + 1 = i
    BY <1>1, <2>1
  <2>3. t[i - 1] = q[i]
    BY <1>1, <2>2
  <2> QED BY <2>1, <2>2, <2>3 DEF DataAt
<1> HIDE DEF rest
<1>5. next \in Bijection(DataAt(t), rest)
  <2>1. next \in [DataAt(t) -> rest]
    BY <1>3
  <2>2. \A i, j \in DataAt(t) : next[i] = next[j] => i = j
    BY <1>3
  <2>3. \A k \in rest : \E i \in DataAt(t) : next[i] = k
    BY <1>4
  <2> HIDE DEF next
  <2> QED BY <2>1, <2>2, <2>3, Zenon DEF Bijection, Injection, Surjection, IsInjective
<1>6. IsFiniteSet(rest) /\ Cardinality(rest) = Cardinality(DataAt(t))
  <2>1. ExistsBijection(DataAt(t), rest)
    BY <1>5, Zenon DEF ExistsBijection
  <2> QED BY <1>2, <2>1, FS_Bijection, Zenon
<1>7. DataAt(q) = IF Head(q).sno = -1 THEN rest ELSE rest \cup {1}
  <2>1. \A i \in 1..Len(q) : i = 1 \/ i \in 2..Len(q)
    BY <1>1
  <2>2. 1 \in 1..Len(q) /\ 2..Len(q) \subseteq 1..Len(q)
    BY <1>1
  <2> QED BY <1>1, <2>1, <2>2, Zenon DEF DataAt, rest
<1>8. 1 \notin rest
  BY DEF rest
<1>9. Cardinality(rest \cup {1}) = Cardinality(rest) + 1
  BY <1>6, <1>8, FS_AddElement, Zenon
<1>10. Cardinality(DataAt(q)) = Cardinality(DataAt(t)) + IF Head(q).sno = -1 THEN 0 ELSE 1
  BY <1>2, <1>6, <1>7, <1>9
<1>11. Weight(q) = Weight(t) + IF Head(q).sno = -1 THEN 2 ELSE 3
  BY <1>1, <1>2, <1>10
<1> QED BY <1>11 DEF t

-----------------------------------------------------------------------------
(* What the weights rest on *)

\* A socket takes SockBuf packets; the polls of a round are three windows at most; an
\* end that reads watches the socket; a resend is of a packet in front of nextseq.
FlowOK(e) ==
    /\ Len(queue[e]) <= SockBuf
    /\ polls[e] <= 3 * Window[e]
    /\ pc[e] = "ack" => polls[e] < 3 * Window[e]
    /\ link[e] = "up" /\ pc[e] \notin {"start", "listen"} => master[e]
    /\ pc[e] = "send" => resend[e] = 0 \/ base[e] + resend[e] <= nextseq[e]

Flow == \A e \in Ends : FlowOK(e)

\* The types of what is counted.
LEMMA Counts ==
    ASSUME TypeOK, NEW e \in Ends
    PROVE  /\ queue[e] \in Seq(Pack) /\ Len(queue[e]) \in Nat /\ polls[e] \in Nat
           /\ resend[e] \in Nat /\ base[e] \in -1..Slots /\ nextseq[e] \in 0..Slots
           /\ nextseq[e] <= NPkts[e] /\ NPkts[e] \in 1..(Slots - 1)
           /\ Slots \in Nat /\ Window[e] \in Nat \ {0} /\ SockBuf \in Nat \ {0}
<1>1. queue[e] \in Seq(Pack)
  BY DEF TypeOK
<1>2. Len(queue[e]) \in Nat
  BY <1>1
<1>3. polls[e] \in Nat /\ resend[e] \in Nat
  BY DEF TypeOK
<1>4. base[e] \in -1..Slots /\ nextseq[e] \in 0..Slots /\ nextseq[e] <= NPkts[e]
  BY DEF TypeOK
<1>5. /\ NPkts[e] \in 1..(Slots - 1) /\ Slots \in Nat
      /\ Window[e] \in Nat \ {0} /\ SockBuf \in Nat \ {0}
  BY SizesAssumption
<1> QED BY <1>1, <1>2, <1>3, <1>4, <1>5

\* send() over a connection that is up puts the packet into the socket of the other end,
\* which has room for it.
LEMMA PutFacts ==
    ASSUME TypeOK, NEW a \in Ends, NEW m \in Pack, Put(a, m)
    PROVE  /\ queue'[a] = queue[a]
           /\ \/ queue'[Peer(a)] = queue[Peer(a)] /\ link[a] # "up"
              \/ /\ queue'[Peer(a)] = Append(queue[Peer(a)], m)
                 /\ Len(queue[Peer(a)]) < SockBuf
           /\ \A e \in Ends : link'[e] = "up" => link[e] = "up"
  BY PeerFacts DEF TypeOK, Put

LEMMA ExitFacts ==
    ASSUME TypeOK, NEW a \in Ends, NEW how \in Ended, Exit(a, how)
    PROVE  /\ pc'[a] = how /\ pc'[Peer(a)] = pc[Peer(a)]
           /\ \A e \in Ends : /\ queue'[e] \in {queue[e], <<>>}
                              /\ link'[e] = "up" => link[e] = "up"
  BY PeerFacts DEF TypeOK, Exit

\* The packets of the window that are not acknowledged are no more than its packets.
LEMMA UnackedBound ==
    ASSUME TypeOK, NEW e \in Ends
    PROVE  /\ Cardinality(Unacked(e)) \in Nat
           /\ Cardinality(Unacked(e)) = 0 \/ base[e] + Cardinality(Unacked(e)) <= nextseq[e]
<1>1. base[e] \in Int /\ nextseq[e] \in Int /\ nextseq[e] - 1 \in Int
  BY Counts
<1> DEFINE window == base[e]..(nextseq[e] - 1)
<1>2. /\ IsFiniteSet(window)
      /\ Cardinality(window) = IF base[e] > nextseq[e] - 1 THEN 0
                               ELSE nextseq[e] - 1 - base[e] + 1
  BY <1>1, FS_Interval, Zenon
<1>3. Unacked(e) \in SUBSET window
  BY DEF Unacked
<1> HIDE DEF window
<1>4. IsFiniteSet(Unacked(e)) /\ Cardinality(Unacked(e)) <= Cardinality(window)
  BY <1>2, <1>3, FS_Subset, Zenon
<1>5. Cardinality(Unacked(e)) \in Nat
  BY <1>4, FS_CardinalityType, Zenon
<1> QED BY <1>1, <1>2, <1>4, <1>5

LEMMA FlowFrame ==
    ASSUME NEW e \in Ends, TypeOK, FlowOK(e),
           queue'[e] \in {queue[e], <<>>} \/ Len(queue'[e]) <= SockBuf,
           pc'[e] = pc[e] \/ (pc'[e] \in Ended /\ pc[e] \notin {"start", "listen"}),
           polls'[e] = polls[e], master'[e] = master[e], resend'[e] = resend[e],
           base'[e] = base[e], nextseq'[e] = nextseq[e],
           link'[e] = "up" => link[e] = "up"
    PROVE  FlowOK(e)'
<1>1. Len(queue'[e]) <= SockBuf
  <2>1. CASE queue'[e] = <<>>
    <3>1. Len(<<>>) = 0 /\ SockBuf \in Nat
      BY Counts
    <3> QED BY <2>1, <3>1
  <2> QED BY <2>1 DEF FlowOK
<1> QED BY <1>1 DEF FlowOK, Ended

-----------------------------------------------------------------------------
(* Flow is kept *)

LEMMA FlowInit == Init => Flow
<1> SUFFICES ASSUME Init, NEW e \in Ends PROVE FlowOK(e)
  BY DEF Flow
<1>1. /\ queue[e] = <<>> /\ polls[e] = 0 /\ master[e] = (e = Client)
      /\ pc[e] = IF e = Client THEN "connect" ELSE "start"
  BY DEF Init
<1>2. Window[e] \in Nat \ {0} /\ SockBuf \in Nat \ {0} /\ Len(queue[e]) = 0
  BY <1>1, SizesAssumption
<1>3. (pc[e] \in {"start", "listen"} \/ master[e]) /\ pc[e] \notin {"ack", "send"}
  BY <1>1
<1>4. Len(queue[e]) <= SockBuf /\ polls[e] <= 3 * Window[e]
  BY <1>1, <1>2
<1> QED BY <1>3, <1>4 DEF FlowOK

\* The steps of setting up: a round of polls starts, or the server has its socket.
LEMMA FlowSetup ==
    ASSUME TypeOK, Flow, StartListen \/ Connect \/ Accept
    PROVE  Flow'
<1> SUFFICES ASSUME NEW e \in Ends PROVE FlowOK(e)'
  BY DEF Flow
<1>1. FlowOK(e) /\ Client \in Ends /\ Server \in Ends
  BY DEF Flow, Ends
<1>2. UNCHANGED <<queue, link, base, nextseq, resend>>
  BY DEF StartListen, Connect, Accept, local
<1>3. pc \in [Ends -> {"connect", "start", "listen", "poll", "ack", "send"} \cup Ended]
      /\ polls \in [Ends -> Nat] /\ master \in [Ends -> BOOLEAN] /\ Window[e] \in Nat \ {0}
  BY Counts DEF TypeOK
<1>4. CASE StartListen
  <2>1. pc'[e] \in {pc[e], "listen"} /\ polls'[e] = polls[e] /\ master'[e] = master[e]
    BY <1>3, <1>4 DEF StartListen, local
  <2> QED BY <1>1, <1>2, <2>1 DEF FlowOK
<1>5. CASE Connect
  <2>1. /\ polls'[e] = IF e = Client THEN Watches(e) ELSE polls[e]
        /\ pc'[e] = IF e = Client THEN "poll" ELSE pc[e]
        /\ master'[e] = master[e]
    BY <1>3, <1>5 DEF Connect
  <2>2. Watches(e) <= 3 * Window[e]
    BY <1>3 DEF Watches
  <2>3. e = Client => pc[e] \notin {"start", "listen"}
    BY <1>5 DEF Connect
  <2> QED BY <1>1, <1>2, <2>1, <2>2, <2>3 DEF FlowOK
<1>6. CASE Accept
  <2>1. /\ polls'[e] = polls[e]
        /\ pc'[e] = IF e = Server THEN "poll" ELSE pc[e]
        /\ master'[e] = IF e = Server THEN TRUE ELSE master[e]
    BY <1>3, <1>6 DEF Accept
  <2> QED BY <1>1, <1>2, <2>1 DEF FlowOK
<1> QED BY <1>4, <1>5, <1>6

\* The end of a process empties its socket and leaves the other end its own.
LEMMA FlowEnd ==
    ASSUME TypeOK, Flow, NEW a \in Ends, NEW how \in Ended,
           pc[a] \notin {"start", "listen"}, Exit(a, how), UNCHANGED local
    PROVE  Flow'
<1> SUFFICES ASSUME NEW e \in Ends PROVE FlowOK(e)'
  BY DEF Flow
<1>1. FlowOK(e) /\ (e = a \/ e = Peer(a))
  BY PeerFacts DEF Flow
<1>2. /\ queue'[e] \in {queue[e], <<>>} /\ (link'[e] = "up" => link[e] = "up")
      /\ pc'[a] = how /\ pc'[Peer(a)] = pc[Peer(a)]
  BY ExitFacts
<1>3. pc'[e] = pc[e] \/ (pc'[e] \in Ended /\ pc[e] \notin {"start", "listen"})
  <2>1. CASE e = a
    BY <1>2, <2>1
  <2> QED BY <1>1, <1>2, <2>1
<1>4. /\ polls'[e] = polls[e] /\ master'[e] = master[e] /\ resend'[e] = resend[e]
      /\ base'[e] = base[e] /\ nextseq'[e] = nextseq[e]
  BY DEF local
<1> QED BY ONLY TypeOK, e \in Ends, <1>1, <1>2, <1>3, <1>4, FlowFrame

\* A poll takes a packet at most, and is one of those that are left.
LEMMA FlowPoll ==
    ASSUME IInv, Flow, NEW a \in Ends, Recv(a) \/ RecvEOF(a) \/ PollTimeout(a)
    PROVE  Flow'
<1> DEFINE p == Peer(a)
<1>1. p \in Ends /\ p # a /\ \A e \in Ends : e = a \/ e = p
  BY PeerFacts
<1> HIDE DEF p
<1>2. TypeOK /\ FlowOK(a) /\ FlowOK(p) /\ pc[a] = "poll" /\ polls[a] > 0
  BY <1>1 DEF IInv, Flow, Recv, RecvEOF, PollTimeout, Polling
<1>3. /\ pc \in [Ends -> {"connect", "start", "listen", "poll", "ack", "send"} \cup Ended]
      /\ polls \in [Ends -> Nat] /\ master \in [Ends -> BOOLEAN]
      /\ base \in [Ends -> -1..Slots] /\ queue \in [Ends -> Seq(Pack)]
  BY <1>2 DEF TypeOK
<1>4. Window[a] \in Nat \ {0} /\ SockBuf \in Nat \ {0} /\ polls[a] \in Nat
      /\ Len(queue[a]) \in Nat
  BY <1>2, Counts
<1>5. UNCHANGED <<nextseq, resend, link>>
  BY DEF Recv, RecvEOF, PollTimeout
<1>6. /\ pc'[p] = pc[p] /\ pc'[a] \in {"poll", "ack"}
      /\ base'[p] = base[p]
  <2>1. CASE Recv(a)
    BY <1>1, <1>2, <1>3, <2>1 DEF Recv, Process, AckProcess, DataProcess
  <2>2. CASE RecvEOF(a)
    BY <1>1, <1>2, <1>3, <2>2 DEF RecvEOF, Process, AckProcess, DataProcess
  <2>3. CASE PollTimeout(a)
    BY <1>1, <1>2, <2>3 DEF PollTimeout
  <2> QED BY <2>1, <2>2, <2>3
<1>7. /\ polls'[p] = polls[p] /\ polls'[a] \in {0, polls[a] - 1}
      /\ master'[p] = master[p] /\ (master'[a] = master[a] \/ link[a] # "up")
  BY <1>1, <1>3 DEF Recv, RecvEOF, PollTimeout
<1>8. queue'[p] = queue[p] /\ Len(queue'[a]) <= Len(queue[a])
  <2>1. CASE Recv(a)
    <3>1. queue[a] \in Seq(Pack) /\ queue[a] # <<>> /\ queue'[a] = Tail(queue[a])
          /\ queue'[p] = queue[p]
      BY <1>1, <1>3, <2>1 DEF Recv
    <3>2. Len(queue[a]) \in Nat /\ Len(Tail(queue[a])) = Len(queue[a]) - 1
      BY <3>1, TailFacts
    <3> QED BY <3>1, <3>2
  <2> QED BY <1>4, <2>1 DEF RecvEOF, PollTimeout
<1>9. FlowOK(p)'
  <2>1. /\ queue'[p] \in {queue[p], <<>>} /\ link'[p] = link[p]
        /\ resend'[p] = resend[p] /\ nextseq'[p] = nextseq[p]
    BY <1>5, <1>8
  <2> QED BY ONLY <1>1, <1>2, <1>6, <1>7, <2>1, FlowFrame
<1>10. FlowOK(a)'
  <2>1. polls'[a] < 3 * Window[a]
    BY <1>2, <1>4, <1>7 DEF FlowOK
  <2>2. Len(queue'[a]) <= SockBuf
    <3>1. Len(queue'[a]) \in Nat
      BY <1>1, <1>3, TailFacts DEF Recv, RecvEOF, PollTimeout
    <3> QED BY <1>2, <1>4, <1>8, <3>1 DEF FlowOK
  <2>3. link'[a] = "up" => master'[a]
    BY <1>2, <1>5, <1>7 DEF FlowOK
  <2>4. polls'[a] <= 3 * Window[a]
    BY <1>4, <1>7, <2>1
  <2>5. pc'[a] # "send"
    BY <1>6
  <2> QED BY <2>1, <2>2, <2>3, <2>4, <2>5 DEF FlowOK
<1> QED BY <1>1, <1>9, <1>10 DEF Flow

\* The packets that the two kinds of send() put.
LEMMA SentData ==
    ASSUME IInv, NEW a \in Ends, Resend(a) \/ SendNext(a)
    PROVE  /\ DataPacket(a, nextseq[a]) \in Pack
           /\ DataPacket(a, nextseq[a]).sno # -1
           /\ nextseq[a] < NPkts[a]
<1>1. TypeOK /\ SendOK(a)
  BY DEF IInv
<1>2. nextseq[a] \in 0..Slots /\ nextseq[a] <= NPkts[a] /\ NPkts[a] \in 1..(Slots - 1)
  BY <1>1, Counts
<1>3. nextseq[a] # NPkts[a]
  BY <1>1, <1>2, Counts DEF Resend, SendNext, SendOK, WindowOpen
<1>4. nextseq[a] \in 0..(Slots - 1) /\ nextseq[a] < NPkts[a] /\ nextseq[a] # -1
      /\ 1 \in 0..(Slots - 1)
  BY <1>2, <1>3, SizesAssumption
<1> QED BY <1>4 DEF DataPacket, Pack, Seqno

LEMMA SentAck ==
    ASSUME IInv, NEW a \in Ends, SendAck(a)
    PROVE  AckPacket(last[a].sno) \in Pack /\ AckPacket(last[a].sno).sno = -1
<1>1. TypeOK /\ LastOK(a)
  BY DEF IInv
<1>2. last[a] \in Pack /\ last[a].sno \in Seqno
  BY <1>1 DEF SendAck, LastOK, TypeOK, Pack
<1> QED BY <1>2 DEF AckPacket, Pack

\* The sockets after a send() that does not block.
LEMMA FlowPut ==
    ASSUME TypeOK, Flow, NEW a \in Ends, NEW m \in Pack, Put(a, m), NEW e \in Ends
    PROVE  Len(queue'[e]) <= SockBuf /\ (link'[e] = "up" => link[e] = "up")
<1>1. FlowOK(e) /\ FlowOK(Peer(a)) /\ (e = a \/ e = Peer(a)) /\ Peer(a) \in Ends
  BY PeerFacts DEF Flow
<1>2. /\ queue'[a] = queue[a] /\ (link'[e] = "up" => link[e] = "up")
      /\ \/ queue'[Peer(a)] = queue[Peer(a)]
         \/ /\ queue'[Peer(a)] = Append(queue[Peer(a)], m)
            /\ Len(queue[Peer(a)]) < SockBuf
  BY PutFacts
<1>3. queue[Peer(a)] \in Seq(Pack) /\ Len(queue[Peer(a)]) \in Nat /\ SockBuf \in Nat
  BY <1>1, Counts
<1>4. Len(Append(queue[Peer(a)], m)) = Len(queue[Peer(a)]) + 1
  BY <1>3, AppendFacts
<1>5. Len(queue'[Peer(a)]) <= SockBuf
  <2>1. CASE queue'[Peer(a)] = queue[Peer(a)]
    BY <1>1, <2>1 DEF FlowOK
  <2> QED BY <1>2, <1>3, <1>4, <2>1
<1>6. CASE e = a
  BY <1>1, <1>2, <1>6 DEF FlowOK
<1> QED BY <1>1, <1>2, <1>5, <1>6

LEMMA FlowSend ==
    ASSUME IInv, Flow, NEW a \in Ends, SendAck(a) \/ Resend(a) \/ SendNext(a)
    PROVE  Flow'
<1> DEFINE p == Peer(a)
<1>1. p \in Ends /\ p # a /\ \A e \in Ends : e = a \/ e = p
  BY PeerFacts
<1> HIDE DEF p
<1>2. TypeOK /\ SendOK(a) /\ FlowOK(a) /\ FlowOK(p)
  BY <1>1 DEF IInv, Flow
<1>3. \A e \in Ends : Len(queue'[e]) <= SockBuf /\ (link'[e] = "up" => link[e] = "up")
  <2>1. PICK m \in Pack : Put(a, m)
    BY SentAck, SentData DEF SendAck, Resend, SendNext
  <2> QED BY <1>2, <2>1, FlowPut
<1>4. /\ pc \in [Ends -> {"connect", "start", "listen", "poll", "ack", "send"} \cup Ended]
      /\ base \in [Ends -> -1..Slots] /\ nextseq \in [Ends -> 0..Slots]
      /\ resend \in [Ends -> Nat] /\ polls \in [Ends -> Nat]
      /\ Window[a] \in Nat \ {0}
  BY <1>2, Counts DEF TypeOK
<1>5. UNCHANGED <<polls, master>>
  BY DEF SendAck, Resend, SendNext, local
<1>6. /\ pc'[p] = pc[p] /\ base'[p] = base[p] /\ nextseq'[p] = nextseq[p]
      /\ resend'[p] = resend[p]
  BY <1>1, <1>4 DEF SendAck, Resend, SendNext, FirstSend, local
<1>7. FlowOK(p)'
  <2>1. polls'[p] = polls[p] /\ master'[p] = master[p]
        /\ Len(queue'[p]) <= SockBuf /\ (link'[p] = "up" => link[p] = "up")
    BY <1>1, <1>3, <1>5
  <2> QED BY ONLY <1>1, <1>2, <1>6, <2>1, FlowFrame
<1>8. polls'[a] = polls[a] /\ master'[a] = master[a] /\ Len(queue'[a]) <= SockBuf
      /\ (link'[a] = "up" => link[a] = "up") /\ pc[a] \notin {"start", "listen"}
      /\ pc'[a] = IF pc[a] = "ack" THEN "poll" ELSE "send"
  BY <1>3, <1>4, <1>5 DEF SendAck, Resend, SendNext
<1>9. pc'[a] = "send" => resend'[a] = 0 \/ base'[a] + resend'[a] <= nextseq'[a]
  <2>1. CASE SendAck(a)
    BY <1>4, <2>1 DEF SendAck
  <2>2. CASE SendNext(a)
    BY <2>2 DEF SendNext
  <2>3. CASE Resend(a)
    <3>1. resend'[a] = resend[a] - 1 /\ resend[a] > 0 /\ pc[a] = "send"
      BY <1>4, <2>3 DEF Resend
    <3>2. CASE base[a] = -1
      BY <1>2, <3>1, <3>2 DEF SendOK
    <3>3. CASE base[a] # -1
      <4>1. base'[a] = base[a] /\ nextseq'[a] = nextseq[a]
        BY <2>3, <3>3 DEF Resend
      <4> QED BY <1>2, <1>4, <3>1, <4>1 DEF FlowOK
    <3> QED BY <3>2, <3>3
  <2> QED BY <2>1, <2>2, <2>3
<1>10. FlowOK(a)'
  BY <1>2, <1>8, <1>9 DEF FlowOK
<1> QED BY <1>1, <1>7, <1>10 DEF Flow

\* A round of polls ends, or the next one starts.
LEMMA FlowRound ==
    ASSUME IInv, Flow, NEW a \in Ends, BeginSend(a) \/ NextRound(a)
    PROVE  Flow'
<1> DEFINE p == Peer(a)
<1>1. p \in Ends /\ p # a /\ \A e \in Ends : e = a \/ e = p
  BY PeerFacts
<1> HIDE DEF p
<1>2. TypeOK /\ FlowOK(a) /\ FlowOK(p)
  BY <1>1 DEF IInv, Flow
<1>3. /\ pc \in [Ends -> {"connect", "start", "listen", "poll", "ack", "send"} \cup Ended]
      /\ resend \in [Ends -> Nat] /\ polls \in [Ends -> Nat]
      /\ Window[a] \in Nat \ {0}
  BY <1>2, Counts DEF TypeOK
<1>4. UNCHANGED <<base, nextseq, master, queue, link>>
  BY DEF BeginSend, NextRound
<1>5. pc'[p] = pc[p] /\ resend'[p] = resend[p] /\ polls'[p] = polls[p]
  BY <1>1, <1>3 DEF BeginSend, NextRound
<1>6. FlowOK(p)'
  BY <1>2, <1>4, <1>5 DEF FlowOK
<1>7. pc'[a] \in {"send", "poll"} /\ pc[a] \notin {"start", "listen"}
      /\ polls'[a] \in {polls[a], 0, 3 * Window[a]}
  BY <1>3 DEF BeginSend, NextRound, Watches
<1>8. pc'[a] = "send" => resend'[a] = 0 \/ base[a] + resend'[a] <= nextseq[a]
  <2>1. CASE BeginSend(a)
    <3>1. resend'[a] = Cardinality(Unacked(a))
      BY <1>3, <2>1 DEF BeginSend
    <3> QED BY <1>2, <3>1, UnackedBound
  <2>2. CASE NextRound(a)
    BY <1>3, <2>2 DEF NextRound
  <2> QED BY <2>1, <2>2
<1>9. polls'[a] <= 3 * Window[a]
  BY <1>2, <1>3, <1>7 DEF FlowOK
<1>10. FlowOK(a)'
  BY <1>2, <1>4, <1>7, <1>8, <1>9 DEF FlowOK
<1> QED BY <1>1, <1>6, <1>10 DEF Flow

LEMMA FlowNext == IInv /\ Flow /\ [Next]_vars => Flow'
<1> SUFFICES ASSUME IInv, Flow, [Next]_vars PROVE Flow'
  OBVIOUS
<1>1. TypeOK
  BY DEF IInv
<1>2. CASE StartListen \/ Connect \/ Accept
  BY <1>1, <1>2, FlowSetup
<1>3. CASE UNCHANGED vars
  BY <1>3 DEF vars, Flow, FlowOK
<1>4. ASSUME NEW a \in Ends, RecvError(a) \/ Finish(a) \/ SigPipe(a)
      PROVE  Flow'
  <2>1. /\ pc[a] \notin {"start", "listen"} /\ UNCHANGED local
        /\ \E how \in Ended : Exit(a, how)
    BY <1>4 DEF RecvError, Finish, SigPipe, Polling, Ended
  <2> QED BY <1>1, <2>1, FlowEnd
<1>5. ASSUME NEW a \in Ends, Poll(a) \/ SendPacket(a)
      PROVE  Flow'
  BY <1>4, <1>5, FlowPoll, FlowSend, FlowRound DEF Poll, SendPacket
<1> QED BY <1>2, <1>3, <1>5 DEF Next

-----------------------------------------------------------------------------
(* Load, seen from one end *)

Use(e) == Claim(e) - Past(e)

RoomFor(a) ==
    pc[a] \notin Ended /\ pc[Peer(a)] \notin Ended =>
        Weight(queue[a]) + Weight(queue[Peer(a)]) + Use(a) + Use(Peer(a))
          <= 3 * SockBuf + 3 * (Window[a] + Window[Peer(a)]) + 8

LEMMA UseInt ==
    ASSUME TypeOK, NEW e \in Ends
    PROVE  /\ Claim(e) \in Int /\ Past(e) \in Int /\ Use(e) \in Int /\ Ahead(e) \in 0..3
           /\ Weight(queue[e]) \in Nat /\ Window[e] \in Nat \ {0} /\ SockBuf \in Nat
<1>1. /\ queue[e] \in Seq(Pack) /\ polls[e] \in Nat /\ resend[e] \in Nat
      /\ base[e] \in Int /\ nextseq[e] \in Int /\ Window[e] \in Nat \ {0} /\ SockBuf \in Nat
  BY Counts
<1>2. Weight(queue[e]) \in Nat
  BY <1>1, WeightBounds
<1>3. Ahead(e) \in 0..3 /\ Past(e) \in Int
  BY <1>1 DEF Ahead, Past
<1>4. Claim(e) \in Int
  <2>1. (IF pc[e] = "ack" THEN 2 ELSE 0) \in Int
    OBVIOUS
  <2>2. 3 * (resend[e] + base[e] + Window[e] - nextseq[e]) \in Int
    BY <1>1
  <2>3. 3 * Window[e] - polls[e] + Ahead(e) \in Int
    BY <1>1, <1>3
  <2>4. 3 * Window[e] - polls[e] + Ahead(e) + (IF pc[e] = "ack" THEN 2 ELSE 0) \in Int
    BY <2>1, <2>3
  <2> QED BY <2>2, <2>4 DEF Claim
<1> QED BY <1>1, <1>2, <1>3, <1>4 DEF Use

LEMMA LoadRoom == TypeOK => \A a \in Ends : Load <=> RoomFor(a)
<1> SUFFICES ASSUME TypeOK, NEW a \in Ends PROVE Load <=> RoomFor(a)
  OBVIOUS
<1>1. /\ \/ a = Client /\ Peer(a) = Server
         \/ a = Server /\ Peer(a) = Client
      /\ Client \in Ends /\ Server \in Ends
  BY EndsAssumption DEF Ends, Peer
<1>2. (\A e \in Ends : pc[e] \notin Ended) <=> pc[a] \notin Ended /\ pc[Peer(a)] \notin Ended
  BY PeerFacts
<1>3. \A e \in Ends : /\ Claim(e) \in Int /\ Past(e) \in Int /\ Use(e) = Claim(e) - Past(e)
                      /\ Weight(queue[e]) \in Int /\ Window[e] \in Int /\ SockBuf \in Int
  BY UseInt DEF Use
<1>4. Weight(queue[Client]) + Weight(queue[Server]) + Claim(Client) + Claim(Server)
          <= 3 * SockBuf + 3 * (Window[Client] + Window[Server]) + 8
             + Past(Client) + Past(Server)
      <=> Weight(queue[a]) + Weight(queue[Peer(a)]) + Use(a) + Use(Peer(a))
          <= 3 * SockBuf + 3 * (Window[a] + Window[Peer(a)]) + 8
  <2>1. CASE a = Client /\ Peer(a) = Server
    BY <1>1, <1>3, <2>1
  <2>2. CASE a = Server /\ Peer(a) = Client
    BY <1>1, <1>3, <2>2
  <2> QED BY <1>1, <2>1, <2>2
<1> QED BY <1>2, <1>4 DEF Load, RoomFor

LEMMA LoadRoomNext == (TypeOK => \A a \in Ends : Load <=> RoomFor(a))'
BY LoadRoom, PTL

LEMMA WindowFactsNext == (IInv /\ WInv => WindowExact)'
BY WindowFacts, PTL

LEMMA UseIntNext ==
    (TypeOK => \A e \in Ends : Use(e) \in Int /\ Weight(queue[e]) \in Nat)'
<1>1. TypeOK => \A e \in Ends : Use(e) \in Int /\ Weight(queue[e]) \in Nat
  BY UseInt
<1> QED BY <1>1, PTL

\* A step of a, while both run, in which what is read outweighs what is sent and what
\* more may be sent.
LEMMA RoomStep ==
    ASSUME IInv, IInv', Load, NEW a \in Ends, pc[a] \notin Ended,
           pc'[Peer(a)] = pc[Peer(a)], polls'[Peer(a)] = polls[Peer(a)],
           base'[Peer(a)] = base[Peer(a)], nextseq'[Peer(a)] = nextseq[Peer(a)],
           resend'[Peer(a)] = resend[Peer(a)],
           link[a] = "up" =>
               Weight(queue'[a]) + Weight(queue'[Peer(a)]) + Use(a)'
                 <= Weight(queue[a]) + Weight(queue[Peer(a)]) + Use(a)
    PROVE  Load'
<1> DEFINE p == Peer(a)
<1>1. p \in Ends /\ TypeOK /\ TypeOK' /\ LinkOK(a)
  BY PeerFacts DEF IInv
<1>2. RoomFor(a) /\ (Load' <=> RoomFor(a)')
  BY <1>1, LoadRoom, LoadRoomNext
<1>3. /\ Use(a) \in Int /\ Use(p) \in Int /\ Window[a] \in Int /\ Window[p] \in Int
      /\ Weight(queue[a]) \in Int /\ Weight(queue[p]) \in Int /\ SockBuf \in Int
  BY <1>1, UseInt
<1>4. Use(a)' \in Int /\ Weight(queue'[a]) \in Int /\ Weight(queue'[p]) \in Int
  BY <1>1, UseIntNext
<1>5. Use(p)' = Use(p)
  BY DEF Use, Claim, Past, Ahead
<1>6. pc[p] \notin Ended => link[a] = "up"
  BY <1>1 DEF LinkOK
<1>7. RoomFor(a)'
  <2> SUFFICES ASSUME pc'[p] \notin Ended
               PROVE  Weight(queue'[a]) + Weight(queue'[p]) + Use(a)' + Use(p)'
                        <= 3 * SockBuf + 3 * (Window[a] + Window[p]) + 8
    BY DEF RoomFor
  <2>1. /\ Weight(queue'[a]) + Weight(queue'[p]) + Use(a)'
             <= Weight(queue[a]) + Weight(queue[p]) + Use(a)
        /\ Weight(queue[a]) + Weight(queue[p]) + Use(a) + Use(p)
             <= 3 * SockBuf + 3 * (Window[a] + Window[p]) + 8
    BY <1>2, <1>6 DEF RoomFor
  <2> HIDE DEF p
  <2> QED BY <1>3, <1>4, <1>5, <2>1
<1> QED BY <1>2, <1>7

-----------------------------------------------------------------------------
(* What is read *)

\* An ack moves base by a packet at most: all that precedes it in the file is
\* acknowledged already.
LEMMA BaseMoves ==
    ASSUME IInv, IInv', WInv, WInv', NEW a \in Ends, Recv(a)
    PROVE  \/ base'[a] = base[a]
           \/ /\ Head(queue[a]).sno = -1 /\ base[a] # -1
              /\ base'[a] = base[a] + 1 /\ base'[a] <= nextseq[a] + 1
<1> DEFINE h == Head(queue[a])
           k == h.ackno
<1>1. /\ TypeOK /\ WindowOK(a) /\ PrefixOK(a) /\ Process(a, h) /\ nextseq' = nextseq
  BY DEF IInv, WInv, Recv
<1>2. h.sno = -1 => k \in got[Peer(a)]
  BY RecvFacts
<1> HIDE DEF h
<1>3. CASE h.sno # -1
  BY <1>1, <1>3 DEF Process
<1>4. CASE h.sno = -1
  <2>1. AckProcess(a, k) /\ k \in got[Peer(a)]
    BY <1>1, <1>2, <1>4 DEF Process
  <2>2. /\ base \in [Ends -> -1..Slots] /\ acked \in [Ends -> SUBSET Seqno]
        /\ nextseq[a] \in Int
    BY <1>1, Counts DEF TypeOK
  <2>3. PICK b \in base[a]..Slots :
          /\ base[a]..(b - 1) \subseteq acked'[a]
          /\ base' = [base EXCEPT ![a] = b]
    BY <2>1 DEF AckProcess
  <2>4. base[a] \in Nat /\ base[a] # -1 /\ base[a] \notin acked[a]
    <3>1. base[a] # -1
      BY <1>1, <2>1 DEF WindowOK, Out
    <3> QED BY <1>1, <2>2, <3>1 DEF WindowOK
  <2>5. acked'[a] = acked[a] \cup {k} /\ base'[a] = b /\ b \in Int /\ base[a] <= b
    BY <2>1, <2>2, <2>3 DEF AckProcess
  <2>6. b <= base[a] + 1
    <3> SUFFICES ASSUME b > base[a] + 1 PROVE FALSE
      BY <2>4, <2>5
    <3>1. base[a] \in base[a]..(b - 1) /\ base[a] + 1 \in base[a]..(b - 1)
      BY <2>4, <2>5
    <3>2. k = base[a]
      BY <2>3, <2>4, <2>5, <3>1
    <3>3. base[a] + 1 \in acked[a]
      BY <2>3, <2>4, <2>5, <3>1, <3>2
    <3>4. 0..(base[a] + 1) \subseteq acked[a]
      BY <1>1, <3>3 DEF PrefixOK
    <3> QED BY <2>4, <3>4
  <2>7. base'[a] <= nextseq[a] + 1
    <3>1. nextseq[a] - base'[a] \in -1..Window[a]
      BY <1>1, <2>4, <2>5, WindowFactsNext DEF WindowExact
    <3> QED BY <2>2, <2>5, <3>1
  <2> QED BY <1>4, <2>4, <2>5, <2>6, <2>7 DEF h
<1> QED BY <1>3, <1>4

\* What is read weighs as much as what it lets this end send.
LEMMA LoadRecv ==
    ASSUME IInv, IInv', WInv, WInv', Load, NEW a \in Ends, Recv(a)
    PROVE  Load'
<1> DEFINE p == Peer(a)
           h == Head(queue[a])
           d == IF h.sno = -1 THEN 2 ELSE 3
<1>1. p \in Ends /\ p # a
  BY PeerFacts
<1>2. /\ TypeOK /\ pc[a] = "poll" /\ queue[a] # <<>> /\ queue[a] \in Seq(Pack)
      /\ queue'[a] = Tail(queue[a]) /\ queue'[p] = queue[p]
      /\ polls'[a] = polls[a] - 1 /\ polls'[p] = polls[p]
      /\ nextseq' = nextseq /\ resend' = resend
  <2>1. /\ TypeOK /\ queue \in [Ends -> Seq(Pack)] /\ polls \in [Ends -> Nat]
    BY DEF IInv, TypeOK
  <2>2. /\ pc[a] = "poll" /\ queue[a] # <<>>
        /\ queue' = [queue EXCEPT ![a] = Tail(@)] /\ polls' = [polls EXCEPT ![a] = @ - 1]
        /\ nextseq' = nextseq /\ resend' = resend
    BY DEF Recv, Polling
  <2> QED BY <1>1, <2>1, <2>2
<1>3. /\ base[a] \in -1..Slots /\ nextseq[a] \in Int /\ polls[a] \in Int /\ Window[a] \in Nat \ {0}
      /\ Weight(queue[a]) \in Int /\ Weight(queue[p]) \in Int /\ Ahead(a) \in 0..3
  <2>1. /\ base[a] \in -1..Slots /\ nextseq[a] \in 0..Slots /\ polls[a] \in Nat
    BY <1>2, Counts
  <2>2. /\ Window[a] \in Nat \ {0} /\ Ahead(a) \in 0..3
        /\ Weight(queue[a]) \in Nat /\ Weight(queue[p]) \in Nat
    BY <1>1, <1>2, UseInt
  <2>3. nextseq[a] \in Int /\ polls[a] \in Int
    BY <2>1
  <2> QED BY <2>1, <2>2, <2>3
<1>4. Weight(queue[a]) = Weight(queue'[a]) + d
  BY <1>2, WeightTail
<1>5. Weight(queue'[a]) = Weight(queue[a]) - d
  <2>1. Tail(queue[a]) \in Seq(Pack)
    BY <1>2, TailFacts
  <2>2. Weight(Tail(queue[a])) \in Nat
    BY <2>1, WeightBounds
  <2>3. Weight(queue'[a]) \in Nat
    BY <1>2, <2>2
  <2> QED BY <1>3, <1>4, <2>3
<1>6. /\ pc'[a] = IF h.sno # -1 /\ h.ackno = -1 THEN "ack" ELSE "poll"
      /\ pc'[p] = pc[p]
  <2>1. pc' = [pc EXCEPT ![a] = IF h.sno # -1 /\ h.ackno = -1 THEN "ack" ELSE "poll"]
    BY RecvFacts
  <2> QED BY <1>1, <1>2, <2>1 DEF TypeOK
<1>7. base'[p] = base[p]
  BY <1>1, <1>2 DEF Recv, Process, AckProcess, TypeOK
<1>8. \/ base'[a] = base[a]
      \/ /\ h.sno = -1 /\ base[a] # -1
         /\ base'[a] = base[a] + 1 /\ base'[a] <= nextseq[a] + 1
  BY BaseMoves
<1>9. Claim(a) = 3 * Window[a] - polls[a] + Ahead(a)
  BY <1>2, <1>3 DEF Claim
<1>10. (Ahead(a) \in 0..3)'
  BY <1>2, <1>3, <1>8 DEF Ahead
<1>11. Claim(a)' = 3 * Window[a] - (polls[a] - 1) + Ahead(a)'
                     + IF h.sno # -1 /\ h.ackno = -1 THEN 2 ELSE 0
  BY <1>2, <1>6 DEF Claim
<1>12. Ahead(a)' - Past(a)' <= Ahead(a) - Past(a) + (IF base'[a] = base[a] THEN 0 ELSE 1)
  <2>1. CASE base'[a] = base[a]
    BY <1>2, <1>3, <2>1 DEF Ahead, Past
  <2>2. CASE base'[a] # base[a]
    <3>1. /\ base[a] \in Nat /\ base'[a] = base[a] + 1 /\ base'[a] <= nextseq[a] + 1
          /\ nextseq'[a] = nextseq[a]
      BY <1>2, <1>3, <1>8, <2>2
    <3>2. CASE Window[a] = 1
      BY <1>3, <2>2, <3>1, <3>2 DEF Ahead, Past
    <3>3. CASE Window[a] # 1
      BY <1>3, <2>2, <3>1, <3>3 DEF Ahead, Past
    <3> QED BY <3>2, <3>3
  <2> QED BY <2>1, <2>2
<1>13. Past(a) \in Int /\ Past(a)' \in Int
  BY <1>3, <1>8 DEF Past
<1>14. Use(a)' <= Use(a) + d
  <2> HIDE DEF h, p
  <2>1. CASE h.sno = -1
    <3>1. Claim(a)' = 3 * Window[a] - (polls[a] - 1) + Ahead(a)'
      BY <1>3, <1>10, <1>11, <2>1
    <3>2. Ahead(a)' - Past(a)' <= Ahead(a) - Past(a) + 1
      BY <1>3, <1>10, <1>12, <1>13
    <3> QED BY <1>3, <1>9, <1>10, <1>13, <2>1, <3>1, <3>2 DEF Use
  <2>2. CASE h.sno # -1
    <3>1. Claim(a)' <= 3 * Window[a] - (polls[a] - 1) + Ahead(a)' + 2
      BY <1>3, <1>10, <1>11, <2>2
    <3>2. Ahead(a)' - Past(a)' <= Ahead(a) - Past(a)
      BY <1>3, <1>8, <1>10, <1>12, <1>13, <2>2
    <3>3. Claim(a)' \in Int
      BY <1>3, <1>10, <1>11
    <3> QED BY <1>3, <1>9, <1>10, <1>13, <2>2, <3>1, <3>2, <3>3 DEF Use
  <2> QED BY <2>1, <2>2
<1>15. Use(a) \in Int /\ Use(a)' \in Int
  BY <1>2, UseInt, UseIntNext DEF IInv
<1>16. Weight(queue'[a]) + Weight(queue'[p]) + Use(a)'
         <= Weight(queue[a]) + Weight(queue[p]) + Use(a)
  <2> HIDE DEF h, p
  <2> QED BY <1>2, <1>3, <1>5, <1>14, <1>15
<1>17. pc[a] \notin Ended /\ resend'[p] = resend[p] /\ nextseq'[p] = nextseq[p]
  BY <1>2 DEF Ended
<1> QED BY <1>2, <1>6, <1>7, <1>16, <1>17, RoomStep

-----------------------------------------------------------------------------
(* What is sent *)

\* Over a connection that is up, a packet adds its weight to the sockets.
LEMMA PutWeight ==
    ASSUME IInv, NEW a \in Ends, NEW m \in Pack, Put(a, m), link[a] = "up"
    PROVE  Weight(queue'[a]) + Weight(queue'[Peer(a)])
             = Weight(queue[a]) + Weight(queue[Peer(a)]) + IF m.sno = -1 THEN 2 ELSE 3
<1> DEFINE p == Peer(a)
           d == IF m.sno = -1 THEN 2 ELSE 3
<1>1. p \in Ends /\ p # a /\ TypeOK
  BY PeerFacts DEF IInv
<1>2. queue[p] \in Seq(Pack) /\ queue'[p] = Append(queue[p], m) /\ queue'[a] = queue[a]
  BY <1>1 DEF TypeOK, Put
<1>3. Weight(Append(queue[p], m)) = Weight(queue[p]) + d
  BY <1>2, WeightAppend
<1>4. Weight(queue[a]) \in Int /\ Weight(queue[p]) \in Int
  BY <1>1, UseInt
<1>5. d \in Int
  OBVIOUS
<1> HIDE DEF p, d
<1>6. Weight(queue'[a]) + Weight(queue'[p]) = Weight(queue[a]) + Weight(queue[p]) + d
  BY <1>2, <1>3, <1>4, <1>5
<1> QED BY <1>6 DEF p, d

\* The ack is the one that was due.
LEMMA LoadAck ==
    ASSUME IInv, IInv', Load, NEW a \in Ends, SendAck(a)
    PROVE  Load'
<1> DEFINE p == Peer(a)
           m == AckPacket(last[a].sno)
<1>1. p \in Ends /\ p # a /\ TypeOK /\ pc[a] = "ack"
  BY PeerFacts DEF IInv, SendAck
<1>2. UNCHANGED local /\ pc'[a] = "poll" /\ pc'[p] = pc[p] /\ Put(a, m)
  BY <1>1 DEF SendAck, TypeOK
<1>3. m \in Pack /\ m.sno = -1
  BY SentAck
<1>4. /\ polls[a] \in Int /\ Window[a] \in Int /\ Ahead(a) \in Int /\ Past(a) \in Int
      /\ Weight(queue[a]) \in Int /\ Weight(queue[p]) \in Int
  <2>1. /\ polls[a] \in Nat /\ Window[a] \in Nat \ {0} /\ Ahead(a) \in 0..3 /\ Past(a) \in Int
        /\ Weight(queue[a]) \in Nat /\ Weight(queue[p]) \in Nat
    BY <1>1, Counts, UseInt
  <2> QED BY <2>1
<1>5. Ahead(a)' = Ahead(a) /\ Past(a)' = Past(a) /\ polls' = polls
  BY <1>2 DEF local, Ahead, Past
<1>6. Claim(a) = 3 * Window[a] - polls[a] + Ahead(a) + 2
  BY <1>1 DEF Claim
<1>7. Claim(a)' = 3 * Window[a] - polls[a] + Ahead(a)
  BY <1>2, <1>4, <1>5 DEF Claim
<1>8. Use(a)' = Use(a) - 2 /\ Use(a) \in Int
  BY <1>4, <1>5, <1>6, <1>7 DEF Use
<1>9. ASSUME link[a] = "up"
      PROVE  Weight(queue'[a]) + Weight(queue'[p]) + Use(a)'
               <= Weight(queue[a]) + Weight(queue[p]) + Use(a)
  <2>1. Weight(queue'[a]) + Weight(queue'[p]) = Weight(queue[a]) + Weight(queue[p]) + 2
    BY <1>2, <1>3, <1>9, PutWeight
  <2> HIDE DEF p
  <2> QED BY <1>4, <1>8, <2>1
<1>10. /\ polls'[p] = polls[p] /\ base'[p] = base[p] /\ nextseq'[p] = nextseq[p]
       /\ resend'[p] = resend[p] /\ pc[a] \notin Ended
  BY <1>1, <1>2 DEF local, Ended
<1> QED BY <1>2, <1>9, <1>10, RoomStep

\* Each packet of sendpacket() takes its weight off what may still be sent.
LEMMA LoadSend ==
    ASSUME IInv, IInv', Load, NEW a \in Ends, Resend(a) \/ SendNext(a)
    PROVE  Load'
<1> DEFINE p == Peer(a)
           m == DataPacket(a, nextseq[a])
<1>1. p \in Ends /\ p # a /\ TypeOK /\ SendOK(a) /\ pc[a] = "send"
  BY PeerFacts DEF IInv, Resend, SendNext
<1>2. UNCHANGED <<pc, polls>> /\ Put(a, m)
  BY DEF Resend, SendNext
<1>3. m \in Pack /\ m.sno # -1
  BY SentData
<1>4. /\ base \in [Ends -> -1..Slots] /\ nextseq \in [Ends -> 0..Slots]
      /\ resend \in [Ends -> Nat] /\ resend[a] \in Nat /\ base[a] \in Int /\ nextseq[a] \in Int
      /\ Window[a] \in Nat \ {0}
      /\ Weight(queue[a]) \in Int /\ Weight(queue[p]) \in Int
  <2>1. /\ base \in [Ends -> -1..Slots] /\ nextseq \in [Ends -> 0..Slots]
        /\ resend \in [Ends -> Nat]
    BY <1>1 DEF TypeOK
  <2>2. /\ Window[a] \in Nat \ {0}
        /\ Weight(queue[a]) \in Nat /\ Weight(queue[p]) \in Nat
    BY <1>1, UseInt
  <2> QED BY <2>1, <2>2
<1>5. /\ base'[p] = base[p] /\ nextseq'[p] = nextseq[p] /\ resend'[p] = resend[p]
  BY <1>1, <1>4 DEF Resend, SendNext, FirstSend
<1>6. Claim(a) = 3 * (resend[a] + base[a] + Window[a] - nextseq[a])
  BY <1>1 DEF Claim
<1>7. Claim(a)' = 3 * (resend'[a] + base'[a] + Window[a] - nextseq'[a])
  BY <1>1, <1>2 DEF Claim
<1>8. Use(a)' <= Use(a) - 3 /\ Use(a) \in Int /\ Use(a)' \in Int
  <2>1. CASE base[a] = -1
    <3>1. Resend(a) /\ resend[a] = 1 /\ nextseq[a] = 0
      BY <1>1, <2>1 DEF SendOK, SendNext
    <3>2. base'[a] = 0 /\ nextseq'[a] = 1 /\ resend'[a] = 0
      BY <1>4, <2>1, <3>1 DEF Resend, FirstSend
    <3>3. Claim(a) = 3 * Window[a] /\ Claim(a)' = 3 * (Window[a] - 1)
      BY <1>4, <1>6, <1>7, <2>1, <3>1, <3>2
    <3>4. Past(a) \in {-1, 0} /\ Past(a)' = 0
      BY <2>1, <3>2 DEF Past
    <3> QED BY <1>4, <3>3, <3>4 DEF Use
  <2>2. CASE base[a] # -1
    <3>1. /\ base'[a] = base[a]
          /\ \/ resend'[a] = resend[a] - 1 /\ nextseq'[a] = nextseq[a]
             \/ resend'[a] = resend[a] /\ nextseq'[a] = nextseq[a] + 1
      BY <1>4, <2>2 DEF Resend, SendNext
    <3>2. Claim(a)' = Claim(a) - 3 /\ Claim(a) \in Int
      BY <1>4, <1>6, <1>7, <3>1
    <3>3. Past(a)' = Past(a) /\ Past(a) \in Int
      BY <1>4, <3>1 DEF Past
    <3> QED BY <3>2, <3>3 DEF Use
  <2> QED BY <2>1, <2>2
<1>9. ASSUME link[a] = "up"
      PROVE  Weight(queue'[a]) + Weight(queue'[p]) + Use(a)'
               <= Weight(queue[a]) + Weight(queue[p]) + Use(a)
  <2>1. Weight(queue'[a]) + Weight(queue'[p]) = Weight(queue[a]) + Weight(queue[p]) + 3
    BY <1>2, <1>3, <1>9, PutWeight
  <2> HIDE DEF p
  <2> QED BY <1>4, <1>8, <2>1
<1>10. polls'[p] = polls[p] /\ pc'[p] = pc[p] /\ pc[a] \notin Ended
  BY <1>1, <1>2 DEF Ended
<1> QED BY <1>5, <1>9, <1>10, RoomStep

-----------------------------------------------------------------------------
(* The rounds *)

\* A socket keeps its weight, and each end but a its claim, when a moves on.
LEMMA RoomMove ==
    ASSUME IInv, IInv', Load, NEW a \in Ends, pc[a] \notin Ended,
           pc'[Peer(a)] = pc[Peer(a)], polls'[Peer(a)] = polls[Peer(a)],
           base'[Peer(a)] = base[Peer(a)], nextseq'[Peer(a)] = nextseq[Peer(a)],
           resend'[Peer(a)] = resend[Peer(a)], queue' = queue,
           link[a] = "up" => Use(a)' <= Use(a)
    PROVE  Load'
<1>1. /\ Weight(queue[a]) \in Nat /\ Weight(queue[Peer(a)]) \in Nat /\ Use(a) \in Int
      /\ Use(a)' \in Int
  BY UseInt, UseIntNext, PeerFacts DEF IInv
<1>2. link[a] = "up" =>
        Weight(queue'[a]) + Weight(queue'[Peer(a)]) + Use(a)'
          <= Weight(queue[a]) + Weight(queue[Peer(a)]) + Use(a)
  BY <1>1
<1> QED BY <1>2, RoomStep

\* What sendpacket() may send is what the polls have let base come ahead.
LEMMA LoadBegin ==
    ASSUME IInv, IInv', WInv, Load, NEW a \in Ends, BeginSend(a)
    PROVE  Load'
<1>1. TypeOK /\ pc[a] = "poll" /\ polls[a] = 0 /\ Peer(a) \in Ends /\ Peer(a) # a /\ SendOK(a)
  BY PeerFacts DEF IInv, BeginSend
<1>2. /\ UNCHANGED <<base, nextseq, polls, queue>> /\ pc'[a] = "send"
      /\ pc'[Peer(a)] = pc[Peer(a)] /\ resend'[Peer(a)] = resend[Peer(a)]
      /\ resend'[a] = Cardinality(Unacked(a))
  BY <1>1 DEF BeginSend, TypeOK
<1>3. /\ resend'[a] \in Nat
      /\ resend'[a] = 0 \/ base[a] + resend'[a] <= nextseq[a]
  BY <1>1, <1>2, UnackedBound
<1>4. base[a] \in -1..Slots /\ nextseq[a] \in 0..Slots /\ Window[a] \in Nat \ {0}
  BY <1>1, Counts
<1>5. base[a] <= nextseq[a] + 1
  <2>1. base[a] # -1 => nextseq[a] - base[a] \in -1..Window[a]
    BY WindowFacts DEF WindowExact
  <2> QED BY <1>4, <2>1
<1>6. 3 * (resend'[a] + base[a] - nextseq[a]) <= Ahead(a)
  BY <1>3, <1>4, <1>5 DEF Ahead
<1>7. Claim(a) = 3 * Window[a] + Ahead(a) /\ Ahead(a) \in 0..3 /\ Past(a) \in Int
  <2>1. Ahead(a) \in 0..3 /\ Past(a) \in Int
    BY <1>1, UseInt
  <2> QED BY <1>1, <1>4, <2>1 DEF Claim
<1>8. Claim(a)' = 3 * (resend'[a] + base[a] + Window[a] - nextseq[a])
  BY <1>2 DEF Claim
<1>9. Past(a)' = Past(a)
  BY <1>2 DEF Past
<1>10. Use(a)' <= Use(a)
  BY <1>3, <1>4, <1>6, <1>7, <1>8, <1>9 DEF Use
<1>11. pc[a] \notin Ended /\ polls'[Peer(a)] = polls[Peer(a)] /\ base'[Peer(a)] = base[Peer(a)]
       /\ nextseq'[Peer(a)] = nextseq[Peer(a)]
  BY <1>1, <1>2 DEF Ended
<1> QED BY <1>2, <1>10, <1>11, RoomMove

\* The next round has all its polls, and nothing more may be sent before it ends.
LEMMA LoadRound ==
    ASSUME IInv, IInv', WInv, Flow, Load, NEW a \in Ends, NextRound(a)
    PROVE  Load'
<1>1. /\ TypeOK /\ SendOK(a) /\ WindowOK(a) /\ FlowOK(a) /\ Peer(a) \in Ends /\ Peer(a) # a
      /\ pc[a] = "send" /\ resend[a] = 0 /\ ~WindowOpen(a) /\ nextseq[a] # NPkts[a]
  BY PeerFacts DEF IInv, WInv, Flow, NextRound
<1>2. /\ UNCHANGED <<base, nextseq, resend, queue>> /\ pc'[a] = "poll"
      /\ pc'[Peer(a)] = pc[Peer(a)] /\ polls'[Peer(a)] = polls[Peer(a)]
      /\ polls'[a] = Watches(a)
  BY <1>1 DEF NextRound, TypeOK
<1>3. /\ base[a] \in -1..Slots /\ nextseq[a] \in 0..Slots /\ nextseq[a] <= NPkts[a]
      /\ NPkts[a] \in 1..(Slots - 1) /\ Window[a] \in Nat \ {0}
  BY <1>1, Counts
<1>4. base[a] # -1
  BY <1>1 DEF SendOK
<1>5. nextseq[a] = base[a] + Window[a]
  BY <1>1, <1>3, <1>4 DEF WindowOpen, WindowOK
<1>6. Claim(a) = 0
  BY <1>1, <1>3, <1>5 DEF Claim
<1>7. Ahead(a)' = 0 /\ Past(a)' = Past(a) /\ Past(a) \in Int
  BY <1>2, <1>3, <1>5 DEF Ahead, Past
<1>8. ASSUME link[a] = "up"
      PROVE  Use(a)' <= Use(a)
  <2>1. polls'[a] = 3 * Window[a]
    BY <1>1, <1>2, <1>8 DEF FlowOK, Watches
  <2>2. Claim(a)' = 0
    BY <1>2, <1>3, <1>7, <2>1 DEF Claim
  <2> QED BY <1>6, <1>7, <2>2 DEF Use
<1>9. pc[a] \notin Ended /\ base'[Peer(a)] = base[Peer(a)]
      /\ nextseq'[Peer(a)] = nextseq[Peer(a)] /\ resend'[Peer(a)] = resend[Peer(a)]
  BY <1>1, <1>2 DEF Ended
<1> QED BY <1>2, <1>8, <1>9, RoomMove

\* Nothing may be sent before the first round.
LEMMA LoadSetup ==
    ASSUME IInv, IInv', Flow, Load, StartListen \/ Connect \/ Accept
    PROVE  Load'
<1>1. /\ TypeOK /\ Client \in Ends /\ Server \in Ends /\ Peer(Client) = Server
      /\ Peer(Server) = Client /\ Client # Server
  BY EndsAssumption DEF IInv, Ends, Peer
<1>2. UNCHANGED <<base, nextseq, resend, queue>>
  BY DEF StartListen, Connect, Accept, local
<1>3. pc \in [Ends -> {"connect", "start", "listen", "poll", "ack", "send"} \cup Ended]
      /\ polls \in [Ends -> Nat]
  BY <1>1 DEF TypeOK
<1>4. CASE StartListen \/ Accept
  <2>1. /\ pc[Server] \in {"start", "listen"} /\ pc'[Server] \in {"listen", "poll"}
        /\ pc'[Client] = pc[Client] /\ polls' = polls
    BY <1>1, <1>3, <1>4 DEF StartListen, Accept, local
  <2>2. Claim(Server)' = Claim(Server) /\ Past(Server)' = Past(Server)
    BY <1>2, <2>1 DEF Claim, Past, Ahead
  <2>3. Use(Server)' = Use(Server) /\ Use(Server) \in Int /\ pc[Server] \notin Ended
    BY <1>1, <2>1, <2>2, UseInt DEF Use, Ended
  <2>4. Use(Server)' <= Use(Server)
    BY <2>3
  <2>5. /\ base'[Client] = base[Client] /\ nextseq'[Client] = nextseq[Client]
        /\ resend'[Client] = resend[Client] /\ polls'[Client] = polls[Client]
    BY <1>2, <2>1
  <2> QED BY <1>1, <1>2, <2>1, <2>3, <2>4, <2>5, RoomMove
<1>5. CASE Connect
  <2>1. /\ pc[Client] = "connect" /\ pc'[Client] = "poll" /\ pc'[Server] = pc[Server]
        /\ polls'[Client] = Watches(Client) /\ polls'[Server] = polls[Server]
    BY <1>1, <1>3, <1>5 DEF Connect
  <2>2. ASSUME link[Client] = "up"
        PROVE  Use(Client)' <= Use(Client)
    <3>1. /\ FlowOK(Client) /\ Ahead(Client) \in 0..3 /\ Past(Client) \in Int
          /\ Window[Client] \in Nat \ {0} /\ polls[Client] \in Nat
      BY <1>1, UseInt, Counts DEF Flow
    <3>2. polls'[Client] = 3 * Window[Client] /\ polls[Client] <= 3 * Window[Client]
      BY <2>1, <2>2, <3>1 DEF FlowOK, Watches
    <3>3. Ahead(Client)' = Ahead(Client) /\ Past(Client)' = Past(Client)
      BY <1>2 DEF Ahead, Past
    <3>4. /\ Claim(Client) = 3 * Window[Client] - polls[Client] + Ahead(Client)
          /\ Claim(Client)' = 3 * Window[Client] - 3 * Window[Client] + Ahead(Client)
      BY <2>1, <3>1, <3>2, <3>3 DEF Claim
    <3> QED BY <3>1, <3>2, <3>3, <3>4 DEF Use
  <2>3. /\ base'[Server] = base[Server] /\ nextseq'[Server] = nextseq[Server]
        /\ resend'[Server] = resend[Server] /\ pc[Client] \notin Ended
    BY <1>2, <2>1 DEF Ended
  <2> QED BY <1>1, <1>2, <2>1, <2>2, <2>3, RoomMove
<1> QED BY <1>4, <1>5

\* What an end may send at most.
LEMMA UseBound ==
    ASSUME IInv, WInv, Flow, NEW e \in Ends
    PROVE  Use(e) <= 3 * Window[e] + 5
<1>1. TypeOK /\ SendOK(e) /\ FlowOK(e)
  BY DEF IInv, Flow
<1>2. /\ base[e] \in -1..Slots /\ nextseq[e] \in 0..Slots /\ Window[e] \in Nat \ {0}
      /\ polls[e] \in Nat /\ resend[e] \in Nat /\ Ahead(e) \in 0..3
  BY <1>1, Counts, UseInt
<1>3. base[e] <= nextseq[e] + 1
  <2>1. base[e] # -1 => nextseq[e] - base[e] \in -1..Window[e]
    BY WindowFacts DEF WindowExact
  <2> QED BY <1>2, <2>1
<1>4. Past(e) \in Int /\ -1 <= Past(e)
  BY <1>2 DEF Past
<1>5. CASE pc[e] = "send"
  <2>1. Claim(e) = 3 * (resend[e] + base[e] + Window[e] - nextseq[e])
    BY <1>5 DEF Claim
  <2>2. resend[e] + base[e] - nextseq[e] <= 1
    BY <1>1, <1>2, <1>3, <1>5 DEF FlowOK
  <2>3. Claim(e) <= 3 * Window[e] + 3 /\ Claim(e) \in Int
    BY <1>2, <2>1, <2>2
  <2> QED BY <1>2, <1>4, <2>3 DEF Use
<1>6. CASE pc[e] # "send"
  <2>1. Claim(e) = 3 * Window[e] - polls[e] + Ahead(e) + IF pc[e] = "ack" THEN 2 ELSE 0
    BY <1>6 DEF Claim
  <2>2. Claim(e) <= 3 * Window[e] + Ahead(e) + 2 /\ Claim(e) \in Int
    BY <1>2, <2>1
  <2>3. Ahead(e) <= 2 \/ Past(e) >= 0
    BY <1>2 DEF Ahead, Past
  <2> QED BY <1>2, <1>4, <2>2, <2>3 DEF Use
<1> QED BY <1>5, <1>6

\* A poll times out on an empty socket only, and then the polls of the round are lost.
LEMMA LoadTimeout ==
    ASSUME IInv, IInv', WInv, Flow, NEW a \in Ends, PollTimeout(a)
    PROVE  Load'
<1> DEFINE p == Peer(a)
<1>1. /\ p \in Ends /\ p # a /\ TypeOK /\ TypeOK' /\ FlowOK(p)
      /\ pc[a] = "poll" /\ queue[a] = <<>>
  BY PeerFacts DEF IInv, Flow, PollTimeout, Polling
<1>2. /\ UNCHANGED <<pc, base, nextseq, resend, queue>>
      /\ polls'[a] = 0 /\ polls'[p] = polls[p]
  BY <1>1 DEF PollTimeout, TypeOK
<1>3. /\ base[a] \in -1..Slots /\ nextseq[a] \in 0..Slots /\ Ahead(a) \in 0..3
      /\ Window[a] \in Nat \ {0} /\ Window[p] \in Nat \ {0} /\ SockBuf \in Nat
      /\ Use(p) \in Int /\ queue[a] \in Seq(Pack) /\ queue[p] \in Seq(Pack)
      /\ Len(queue[p]) \in Nat
  BY <1>1, Counts, UseInt
<1>4. Weight(queue[a]) = 0 /\ Weight(queue[p]) \in Nat /\ Weight(queue[p]) <= 3 * SockBuf
  <2>1. Len(queue[a]) = 0 /\ Len(queue[p]) <= SockBuf
    BY <1>1 DEF FlowOK
  <2>2. /\ Weight(queue[a]) \in Nat /\ Weight(queue[a]) <= 3 * Len(queue[a])
        /\ Weight(queue[p]) \in Nat /\ Weight(queue[p]) <= 3 * Len(queue[p])
    BY <1>3, WeightBounds
  <2> QED BY <1>3, <2>1, <2>2
<1>5. Use(a)' <= 3 * Window[a] + 3 /\ Use(a)' \in Int
  <2>1. Ahead(a)' = Ahead(a) /\ Past(a)' = Past(a)
    BY <1>2 DEF Ahead, Past
  <2>2. Claim(a)' = 3 * Window[a] + Ahead(a)
    BY <1>1, <1>2, <1>3, <2>1 DEF Claim
  <2>3. Ahead(a) - Past(a) <= 3 /\ Past(a) \in Int
    BY <1>3 DEF Ahead, Past
  <2>4. Use(a)' = Claim(a)' - Past(a)'
    BY DEF Use
  <2>5. Use(a)' = (3 * Window[a] + Ahead(a)) - Past(a)
    BY <2>1, <2>2, <2>4, Zenon
  <2>6. Window[a] \in Int /\ Ahead(a) \in Int
    BY <1>3
  <2> QED BY <2>3, <2>5, <2>6
<1>6. Use(p)' = Use(p) /\ Use(p) <= 3 * Window[p] + 5
  <2>1. Use(p)' = Use(p)
    BY <1>2 DEF Use, Claim, Past, Ahead
  <2> QED BY <1>1, <2>1, UseBound
<1> HIDE DEF p
<1>7. Weight(queue[a]) + Weight(queue[p]) + Use(a)' + Use(p)'
        <= 3 * SockBuf + 3 * (Window[a] + Window[p]) + 8
  <2>1. /\ Window[a] \in Int /\ Window[p] \in Int /\ SockBuf \in Int /\ Use(p) \in Int
        /\ Use(p)' = Use(p)
    BY <1>3, <1>6
  <2>2. Use(a)' + Use(p)' <= 3 * Window[a] + 3 * Window[p] + 8
    BY <1>5, <1>6, <2>1
  <2> QED BY <1>4, <1>5, <2>1, <2>2
<1>8. RoomFor(a)'
  BY <1>2, <1>7 DEF RoomFor, p
<1> QED BY <1>1, <1>8, LoadRoomNext

LEMMA LoadInit == Init => Load
<1> SUFFICES ASSUME Init PROVE Load
  OBVIOUS
<1>1. TypeOK /\ Client \in Ends /\ Server \in Ends /\ Peer(Client) = Server
  BY InitIInv DEF IInv, Ends, Peer
<1>2. ASSUME NEW e \in Ends
      PROVE  Weight(queue[e]) = 0 /\ Use(e) <= 3 * Window[e] + 1
  <2>1. /\ queue[e] = <<>> /\ base[e] = -1 /\ nextseq[e] = 0 /\ polls[e] = 0
        /\ pc[e] \in {"connect", "start"}
    BY DEF Init
  <2>2. Window[e] \in Nat \ {0} /\ queue[e] \in Seq(Pack)
    BY <1>1, Counts
  <2>3. Weight(queue[e]) \in Nat /\ Weight(queue[e]) <= 3 * Len(queue[e]) /\ Len(queue[e]) = 0
    BY <2>1, <2>2, WeightBounds
  <2>4. /\ Ahead(e) = IF Window[e] = 1 THEN 0 ELSE 1
        /\ Past(e) = IF Window[e] = 1 THEN -1 ELSE 0
    BY <2>1 DEF Ahead, Past
  <2>5. Claim(e) = 3 * Window[e] + Ahead(e)
    BY <2>1, <2>2, <2>4 DEF Claim
  <2> QED BY <2>2, <2>3, <2>4, <2>5 DEF Use
<1>3. /\ Window[Client] \in Nat /\ Window[Server] \in Nat /\ SockBuf \in Nat
      /\ Use(Client) \in Int /\ Use(Server) \in Int
  BY <1>1, UseInt
<1>4. RoomFor(Client)
  BY <1>1, <1>2, <1>3 DEF RoomFor
<1> QED BY <1>1, <1>4, LoadRoom

LEMMA LoadNext == IInv /\ IInv' /\ WInv /\ WInv' /\ Flow /\ Load /\ [Next]_vars => Load'
<1> SUFFICES ASSUME IInv, IInv', WInv, WInv', Flow, Load, [Next]_vars
             PROVE  Load'
  OBVIOUS
<1>1. CASE UNCHANGED vars
  BY <1>1 DEF vars, Load, Claim, Past, Ahead
<1>2. ASSUME NEW a \in Ends, RecvError(a) \/ Finish(a) \/ SigPipe(a)
      PROVE  Load'
  <2>1. pc'[a] \in Ended
    BY <1>2 DEF RecvError, Finish, SigPipe, Exit, Ended, IInv, TypeOK
  <2> QED BY <2>1 DEF Load
<1>3. ASSUME NEW a \in Ends, RecvEOF(a)
      PROVE  Load'
  <2>1. /\ Peer(a) \in Ends /\ Peer(a) # a /\ TypeOK /\ LinkOK(a)
        /\ link[a] \in {"fin", "broken"}
        /\ pc' = [pc EXCEPT ![a] = IF last[a].sno # -1 /\ last[a].ackno = -1
                                   THEN "ack" ELSE "poll"]
    BY <1>3, PeerFacts, EOFFacts DEF IInv, RecvEOF
  <2>2. pc[Peer(a)] \in Ended /\ pc'[Peer(a)] = pc[Peer(a)]
    BY <2>1 DEF LinkOK, TypeOK
  <2> QED BY <2>1, <2>2 DEF Load
<1>4. ASSUME NEW a \in Ends, Poll(a) \/ SendPacket(a)
      PROVE  Load'
  BY <1>2, <1>3, <1>4, LoadRecv, LoadTimeout, LoadAck, LoadBegin, LoadSend, LoadRound
     DEF Poll, SendPacket
<1> QED BY <1>1, <1>4, LoadSetup DEF Next

-----------------------------------------------------------------------------
(* The theorems *)

\* The polls and the sockets keep to their bounds in every reachable state.
THEOREM FlowInvariant == Spec => []Flow
BY FlowInit, FlowNext, IInvInvariant, PTL DEF Spec

\* While both run, what waits in the sockets and what may still be sent before
\* anything is read weighs no more than a full socket and the two windows allow.
THEOREM LoadBounded == Spec => []Load
BY LoadInit, LoadNext, FlowInvariant, WInvInvariant, IInvInvariant, PTL DEF Spec

\* A window of 1 lets the packets of a whole file be sent one behind the other's ack.
Long(e) == IF Window[e] = 1 THEN NPkts[e] ELSE 0

\* Sockets that are large enough for the windows.
Roomy == SockBuf > 3 * (Window[Client] + Window[Server]) + 2 + Long(Client) + Long(Server)

\* An end that is blocked has a packet more to send, and base is within its file.
LEMMA BlockedClaim ==
    ASSUME IInv, WInv, Flow, NEW e \in Ends, Blocked(e)
    PROVE  Claim(e) >= 3 /\ Past(e) <= Long(e) /\ pc[e] \notin Ended
<1>1. /\ TypeOK /\ SendOK(e) /\ FlowOK(e) /\ WindowOK(e) /\ PrefixOK(e)
      /\ Peer(e) \in Ends
  BY PeerFacts DEF IInv, Flow, WInv
<1>2. /\ base[e] \in -1..Slots /\ nextseq[e] \in 0..Slots /\ Window[e] \in Nat \ {0}
      /\ polls[e] \in Nat /\ resend[e] \in Nat /\ Ahead(e) \in 0..3
      /\ NPkts[e] \in 1..(Slots - 1)
  BY <1>1, Counts, UseInt
<1>3. base[e] <= NPkts[e]
  <2>1. CASE base[e] \in {-1, 0}
    BY <1>2, <2>1
  <2>2. CASE base[e] \notin {-1, 0}
    <3>1. base[e] - 1 \in 0..(base[e] - 1) /\ base[e] # -1
      BY <1>2, <2>2
    <3>2. base[e] - 1 \in got[Peer(e)]
      BY <1>1, <3>1 DEF WindowOK, PrefixOK
    <3>3. base[e] - 1 < NPkts[e]
      BY <1>1, <3>2 DEF PrefixOK
    <3> QED BY <1>2, <3>3
  <2> QED BY <2>1, <2>2
<1>4. Past(e) <= Long(e)
  BY <1>2, <1>3 DEF Past, Long
<1>5. CASE pc[e] = "ack"
  <2>1. Claim(e) = 3 * Window[e] - polls[e] + Ahead(e) + 2
    BY <1>5 DEF Claim
  <2>2. Claim(e) >= 3
    BY <1>1, <1>2, <1>5, <2>1 DEF FlowOK
  <2> QED BY <1>4, <1>5, <2>2 DEF Ended
<1>6. CASE pc[e] = "send" /\ (resend[e] > 0 \/ WindowOpen(e))
  <2>1. Claim(e) = 3 * (resend[e] + base[e] + Window[e] - nextseq[e])
    BY <1>6 DEF Claim
  <2>2. resend[e] + base[e] + Window[e] - nextseq[e] >= 1
    <3>1. CASE base[e] = -1
      BY <1>1, <1>2, <1>6, <3>1 DEF SendOK
    <3>2. CASE base[e] # -1
      BY <1>1, <1>2, <1>6, <3>2 DEF WindowOK, WindowOpen
    <3> QED BY <3>1, <3>2
  <2>3. Claim(e) >= 3
    BY <1>2, <2>1, <2>2
  <2> QED BY <1>4, <1>6, <2>3 DEF Ended
<1> QED BY <1>5, <1>6 DEF Blocked

\* Were both ends blocked, both sockets would be full, and weigh too much.
LEMMA LoadNoDeadlock == IInv /\ WInv /\ Flow /\ Load /\ Roomy => NoSendDeadlock
<1> SUFFICES ASSUME IInv, WInv, Flow, Load, Roomy, \A e \in Ends : Blocked(e)
             PROVE  FALSE
  BY DEF NoSendDeadlock
<1>1. TypeOK /\ Client \in Ends /\ Server \in Ends /\ Peer(Client) = Server /\ Peer(Server) = Client
  BY EndsAssumption DEF IInv, Ends, Peer
<1>2. /\ \A e \in Ends : pc[e] \notin Ended
      /\ Claim(Client) >= 3 /\ Past(Client) <= Long(Client)
      /\ Claim(Server) >= 3 /\ Past(Server) <= Long(Server)
  BY <1>1, BlockedClaim
<1>3. Weight(queue[Client]) >= 2 * SockBuf /\ Weight(queue[Server]) >= 2 * SockBuf
  <2>1. ASSUME NEW e \in Ends, Len(queue[e]) >= SockBuf
        PROVE  Weight(queue[e]) >= 2 * SockBuf
    <3>1. queue[e] \in Seq(Pack) /\ Len(queue[e]) \in Nat /\ SockBuf \in Nat
      BY <1>1, Counts
    <3>2. Weight(queue[e]) \in Nat /\ 2 * Len(queue[e]) <= Weight(queue[e])
      BY <3>1, WeightBounds
    <3> QED BY <2>1, <3>1, <3>2
  <2>2. Len(queue[Client]) >= SockBuf /\ Len(queue[Server]) >= SockBuf
    BY <1>1 DEF Blocked
  <2> QED BY <1>1, <2>1, <2>2
<1>4. Weight(queue[Client]) + Weight(queue[Server]) + Claim(Client) + Claim(Server)
        <= 3 * SockBuf + 3 * (Window[Client] + Window[Server]) + 8
           + Past(Client) + Past(Server)
  BY <1>2 DEF Load
<1>5. /\ Window[Client] \in Nat /\ Window[Server] \in Nat /\ SockBuf \in Nat
      /\ Weight(queue[Client]) \in Int /\ Weight(queue[Server]) \in Int
      /\ Claim(Client) \in Int /\ Claim(Server) \in Int
      /\ Past(Client) \in Int /\ Past(Server) \in Int
  BY <1>1, UseInt
<1>6. Long(Client) \in Int /\ Long(Server) \in Int
  BY <1>1, SizesAssumption DEF Long
<1> QED BY <1>2, <1>3, <1>4, <1>5, <1>6 DEF Roomy

\* With sockets that are large enough for the windows, the two ends never wait in
\* send() for each other to read.
THEOREM NoDeadlock ==
    ASSUME Roomy
    PROVE  Spec => []NoSendDeadlock
<1>1. Roomy /\ IInv /\ WInv /\ Flow /\ Load => NoSendDeadlock
  BY LoadNoDeadlock
<1> QED BY <1>1, LoadBounded, FlowInvariant, WInvInvariant, IInvInvariant, PTL

=============================================================================
