---------------------------- MODULE WindowProofs ----------------------------
(***************************************************************************)
(* WindowExact holds in every reachable state.  Whatever is stored at the  *)
(* receiver, or on its way there, is numbered at most nextseq (a "resend"  *)
(* sends nextseq itself), so acks move base at most one past nextseq.      *)
(***************************************************************************)
EXTENDS SelectiveRepeatProofs

USE EndsAssumption, SizesAssumption

\* Packets of e's file that e has handed to its socket.
Out(e) == got[Peer(e)] \cup Waiting(Peer(e))

WindowOK(e) ==
    /\ \A k \in Out(e) : base[e] # -1 /\ k <= nextseq[e]
    /\ base[e] # -1 =>
        /\ base[e] \notin acked[e]
        /\ 0..(base[e] - 1) \subseteq acked[e]
        /\ nextseq[e] <= base[e] + Window[e]

WInv == \A e \in Ends : WindowOK(e)

-----------------------------------------------------------------------------
(* What waits in the sockets *)

\* What waits are sequence numbers.
LEMMA WaitingNat ==
    ASSUME TypeOK, NEW e \in Ends
    PROVE  Waiting(e) \subseteq Nat
<1>1. queue[e] \in Seq(Pack)
  BY DEF TypeOK
<1>2. \A i \in 1..Len(queue[e]) : queue[e][i].sno \in Seqno \cup {-1}
  <2>1. \A i \in 1..Len(queue[e]) : queue[e][i] \in Pack
    BY <1>1, ElementOfSeq
  <2> QED BY <2>1 DEF Pack
<1> QED BY <1>2 DEF Waiting, Seqno

\* send() adds its packet, if data, to what waits for the other end.
LEMMA WaitingPut ==
    ASSUME TypeOK, NEW a \in Ends, NEW m \in Pack, Put(a, m)
    PROVE  /\ Waiting(Peer(a))' \subseteq Waiting(Peer(a)) \cup ({m.sno} \ {-1})
           /\ Waiting(a)' = Waiting(a)
<1> DEFINE p == Peer(a)
<1>1. p \in Ends /\ p # a
  BY PeerFacts
<1>2. queue \in [Ends -> Seq(Pack)]
  BY DEF TypeOK
<1> HIDE DEF p
<1>3. CASE queue' = [queue EXCEPT ![p] = Append(queue[p], m)]
  <2>1. queue[p] \in Seq(Pack) /\ queue'[p] = Append(queue[p], m) /\ queue'[a] = queue[a]
    BY <1>1, <1>2, <1>3
  <2>2. /\ Len(queue[p]) \in Nat /\ Len(queue'[p]) = Len(queue[p]) + 1
        /\ \A i \in 1..Len(queue[p]) : queue'[p][i] = queue[p][i]
        /\ queue'[p][Len(queue[p]) + 1] = m
    BY <2>1, AppendFacts, LenProperties
  <2>3. \A i \in 1..Len(queue'[p]) : i \in 1..Len(queue[p]) \/ i = Len(queue[p]) + 1
    BY <2>2
  <2> QED BY <2>1, <2>2, <2>3 DEF Waiting, p
<1>4. CASE queue' = queue
  BY <1>4 DEF Waiting
<1> QED BY <1>3, <1>4 DEF Put, p

\* recv() takes one packet from what waits for this end.
LEMMA WaitingTail ==
    ASSUME TypeOK, NEW a \in Ends, queue[a] # <<>>,
           queue' = [queue EXCEPT ![a] = Tail(@)]
    PROVE  /\ Waiting(a)' \subseteq Waiting(a)
           /\ Waiting(Peer(a))' = Waiting(Peer(a))
           /\ Head(queue[a]).sno \in Waiting(a) \cup {-1}
<1>1. Peer(a) \in Ends /\ Peer(a) # a
  BY PeerFacts
<1>2. queue[a] \in Seq(Pack) /\ queue'[a] = Tail(queue[a]) /\ queue'[Peer(a)] = queue[Peer(a)]
  BY <1>1 DEF TypeOK
<1>3. /\ Head(queue[a]) = queue[a][1]
      /\ Len(queue[a]) \in Nat \ {0}
      /\ Len(queue'[a]) = Len(queue[a]) - 1
      /\ \A i \in 1..Len(queue'[a]) : queue'[a][i] = queue[a][i + 1]
  BY <1>2, TailFacts
<1>4. \A i \in 1..Len(queue'[a]) : i + 1 \in 1..Len(queue[a])
  BY <1>3
<1>5. 1 \in 1..Len(queue[a])
  BY <1>3
<1>6. Waiting(a)' \subseteq Waiting(a)
  BY <1>3, <1>4 DEF Waiting
<1>7. Head(queue[a]).sno \in Waiting(a) \cup {-1}
  BY <1>3, <1>5 DEF Waiting
<1>8. Waiting(Peer(a))' = Waiting(Peer(a))
  BY <1>2 DEF Waiting
<1> QED BY <1>6, <1>7, <1>8

\* A socket that is closed loses what waits in it, and only that.
LEMMA WaitingExit ==
    ASSUME TypeOK, NEW a \in Ends, NEW how, Exit(a, how)
    PROVE  \A e \in Ends : Waiting(e)' \subseteq Waiting(e)
<1> SUFFICES ASSUME NEW e \in Ends PROVE Waiting(e)' \subseteq Waiting(e)
  OBVIOUS
<1>1. queue'[e] = queue[e] \/ queue'[e] = <<>>
  BY DEF TypeOK, Exit
<1>2. CASE queue'[e] = <<>>
  <2>1. 1..Len(queue'[e]) = {}
    BY <1>2
  <2> QED BY <2>1 DEF Waiting
<1> QED BY <1>1, <1>2 DEF Waiting

-----------------------------------------------------------------------------
(* Steps that leave the window of e alone *)

\* Nothing more is on its way, and e has not moved: its window is as it was.
LEMMA WindowKept ==
    ASSUME NEW e \in Ends, WindowOK(e),
           Out(e)' \subseteq Out(e),
           base'[e] = base[e], nextseq'[e] = nextseq[e], acked'[e] = acked[e]
    PROVE  WindowOK(e)'
BY DEF WindowOK

\* What e has handed over grows with what is put, stored or read, by nothing
\* else: a stored packet has waited in the socket before.
LEMMA OutRecv ==
    ASSUME IInv, NEW a \in Ends, Recv(a)
    PROVE  \A e \in Ends : Out(e)' \subseteq Out(e)
<1> DEFINE p == Peer(a)
           h == Head(queue[a])
<1>1. p \in Ends /\ p # a /\ Peer(p) = a /\ \A e \in Ends : e = a \/ e = p
  BY PeerFacts
<1>2. /\ TypeOK /\ queue[a] # <<>>
      /\ queue' = [queue EXCEPT ![a] = Tail(@)]
  BY DEF IInv, Recv
<1>3. /\ Waiting(a)' \subseteq Waiting(a)
      /\ Waiting(p)' = Waiting(p)
      /\ h.sno \in Waiting(a) \cup {-1}
  BY <1>2, WaitingTail
<1>4. /\ got'[p] = got[p]
      /\ got'[a] \subseteq got[a] \cup ({h.sno} \ {-1})
  <2>1. got' = [got EXCEPT ![a] = IF h.sno # -1 /\ h.ackno = -1 THEN @ \cup {h.sno} ELSE @]
    BY RecvFacts
  <2>2. got \in [Ends -> SUBSET Seqno]
    BY <1>2 DEF TypeOK
  <2> QED BY <1>1, <2>1, <2>2
<1> HIDE DEF p, h
<1>5. Out(p)' \subseteq Out(p)
  BY <1>1, <1>3, <1>4 DEF Out
<1>6. Out(a)' \subseteq Out(a)
  BY <1>1, <1>3, <1>4 DEF Out, p
<1> QED BY <1>1, <1>5, <1>6

-----------------------------------------------------------------------------
(* The steps *)

\* ackprocess() leaves base at the first slot that is not acknowledged.
LEMMA WindowAck ==
    ASSUME TypeOK, NEW e \in Ends, WindowOK(e), NEW k \in got[Peer(e)], k \in Seqno,
           AckProcess(e, k), Out(e)' \subseteq Out(e), nextseq'[e] = nextseq[e]
    PROVE  WindowOK(e)'
<1>1. /\ acked \in [Ends -> SUBSET Seqno] /\ base \in [Ends -> -1..Slots]
      /\ nextseq[e] \in Nat /\ Window[e] \in Nat
  BY SMTT(30) DEF TypeOK
<1>2. base[e] # -1
  BY DEF WindowOK, Out
<1>3. PICK b \in base[e]..Slots :
        /\ base[e]..(b - 1) \subseteq acked'[e]
        /\ b \notin acked'[e]
        /\ base' = [base EXCEPT ![e] = b]
  BY DEF AckProcess
<1>4. acked'[e] = acked[e] \cup {k}
  BY <1>1 DEF AckProcess
<1>5. base'[e] = b /\ b \in Nat /\ base[e] \in Nat /\ base[e] <= b
  BY <1>1, <1>2, <1>3
<1>6. 0..(b - 1) \subseteq acked'[e]
  <2>1. 0..(base[e] - 1) \subseteq acked'[e]
    BY <1>2, <1>4 DEF WindowOK
  <2>2. \A i \in 0..(b - 1) : i \in 0..(base[e] - 1) \/ i \in base[e]..(b - 1)
    BY <1>5
  <2> QED BY <1>3, <2>1, <2>2
<1>7. nextseq'[e] <= base'[e] + Window[e]
  BY <1>1, <1>2, <1>5 DEF WindowOK
<1>8. \A i \in Out(e)' : base'[e] # -1 /\ i <= nextseq'[e]
  BY <1>5 DEF WindowOK
<1> QED BY <1>3, <1>5, <1>6, <1>7, <1>8 DEF WindowOK

\* Reading a packet keeps both windows.
LEMMA WindowRecv ==
    ASSUME IInv, WInv, NEW a \in Ends, Recv(a) \/ RecvEOF(a)
    PROVE  WInv'
<1> DEFINE p == Peer(a)
           h == IF queue[a] # <<>> THEN Head(queue[a]) ELSE last[a]
<1>1. p \in Ends /\ p # a /\ Peer(p) = a /\ \A e \in Ends : e = a \/ e = p
  BY PeerFacts
<1>2. TypeOK /\ WindowOK(a) /\ WindowOK(p)
  BY <1>1 DEF IInv, WInv
<1>3. \A e \in Ends : Out(e)' \subseteq Out(e)
  <2>1. CASE RecvEOF(a)
    <3>1. got' = got
      BY <2>1, EOFFacts
    <3>2. queue' = queue
      BY <2>1 DEF RecvEOF
    <3> QED BY <3>1, <3>2 DEF Out, Waiting
  <2> QED BY <2>1, OutRecv
<1>4. Process(a, h) /\ UNCHANGED nextseq
  <2>1. CASE Recv(a)
    BY <2>1 DEF Recv
  <2>2. CASE RecvEOF(a)
    <3>1. Process(a, last[a])
      BY <2>2, EOFFacts
    <3> QED BY <2>2, <3>1 DEF RecvEOF
  <2> QED BY <2>1, <2>2
<1>5. h.sno = -1 => h.ackno \in got[p] /\ h.ackno \in Seqno
  <2>1. CASE Recv(a)
    BY <2>1, RecvFacts DEF Recv
  <2>2. CASE RecvEOF(a)
    <3>1. h = last[a] /\ (last[a].sno = -1 => last[a].ackno \in acked[a])
      BY <2>2, EOFFacts DEF RecvEOF
    <3>2. acked[a] \subseteq got[p] \cap Seqno
      BY <1>1 DEF IInv, TypeOK, PrefixOK
    <3> QED BY <3>1, <3>2
  <2> QED BY <2>1, <2>2
<1> HIDE DEF p, h
<1>6. CASE h.sno = -1
  <2>1. AckProcess(a, h.ackno)
    BY <1>4, <1>6 DEF Process
  <2>2. WindowOK(a)'
    BY <1>2, <1>3, <1>4, <1>5, <1>6, <2>1, WindowAck DEF p
  <2>3. base'[p] = base[p] /\ acked'[p] = acked[p]
    BY <1>1, <1>2, <2>1 DEF AckProcess, TypeOK
  <2>4. WindowOK(p)'
    BY <1>1, <1>2, <1>3, <1>4, <2>3, WindowKept
  <2> QED BY <1>1, <2>2, <2>4 DEF WInv
<1>7. CASE h.sno # -1
  <2>1. UNCHANGED <<acked, base>>
    BY <1>4, <1>7 DEF Process
  <2> QED BY <1>1, <1>2, <1>3, <1>4, <2>1, WindowKept DEF WInv
<1> QED BY <1>6, <1>7

\* Both loops of sendpacket() send packet nextseq, and the window opened by
\* base has room when nextseq moves on.
LEMMA WindowSend ==
    ASSUME IInv, WInv, NEW a \in Ends, Resend(a) \/ SendNext(a)
    PROVE  WInv'
<1> DEFINE p == Peer(a)
           m == DataPacket(a, nextseq[a])
<1>1. p \in Ends /\ p # a /\ Peer(p) = a /\ \A e \in Ends : e = a \/ e = p
  BY PeerFacts
<1>2. TypeOK /\ WindowOK(a) /\ WindowOK(p) /\ SendOK(a) /\ PrefixOK(a)
  BY <1>1 DEF IInv, WInv
<1>3. /\ base \in [Ends -> -1..Slots] /\ nextseq \in [Ends -> 0..Slots]
      /\ nextseq[a] <= NPkts[a] /\ NPkts[a] \in 1..(Slots - 1) /\ Window[a] \in Nat \ {0}
      /\ acked[a] \subseteq got[p]
  BY <1>2 DEF TypeOK, PrefixOK
<1>4. Put(a, m) /\ UNCHANGED <<got, acked>> /\ pc[a] = "send"
  BY DEF Resend, SendNext
<1>5. nextseq[a] # NPkts[a]
  BY <1>2, <1>3 DEF Resend, SendNext, SendOK, WindowOpen
<1>6. m \in Pack /\ m.sno = nextseq[a]
  BY <1>3, <1>5 DEF DataPacket, Pack, Seqno
<1>7. /\ Waiting(p)' \subseteq Waiting(p) \cup {nextseq[a]}
      /\ Waiting(a)' = Waiting(a)
  <2>1. Waiting(p)' \subseteq Waiting(p) \cup ({m.sno} \ {-1}) /\ Waiting(a)' = Waiting(a)
    BY <1>2, <1>4, <1>6, WaitingPut
  <2> QED BY <1>6, <2>1
<1>8. Out(a)' \subseteq Out(a) \cup {nextseq[a]} /\ Out(p)' \subseteq Out(p)
  BY <1>1, <1>4, <1>7 DEF Out
<1>9. /\ base'[p] = base[p] /\ nextseq'[p] = nextseq[p]
      /\ acked'[p] = acked[p] /\ acked'[a] = acked[a]
  BY <1>1, <1>3, <1>4 DEF Resend, SendNext, FirstSend
<1>10. WindowOK(p)'
  BY <1>1, <1>2, <1>8, <1>9, WindowKept
<1> HIDE DEF p, m
<1>11. CASE base[a] = -1
  <2>1. /\ nextseq[a] = 0 /\ Resend(a)
        /\ base'[a] = 0 /\ nextseq'[a] = 1
    BY <1>2, <1>3, <1>4, <1>11 DEF SendOK, SendNext, Resend, FirstSend
  <2>2. Out(a) = {} /\ acked[a] = {}
    BY <1>2, <1>3, <1>11 DEF WindowOK, Out, p
  <2>3. \A k \in Out(a)' : k = 0
    BY <1>8, <2>1, <2>2
  <2> QED BY <1>1, <1>3, <1>9, <1>10, <2>1, <2>2, <2>3 DEF WindowOK, WInv
<1>12. CASE base[a] # -1
  <2>1. /\ base'[a] = base[a]
        /\ nextseq[a] <= nextseq'[a]
        /\ nextseq'[a] <= base[a] + Window[a]
    <3>1. CASE Resend(a)
      BY <1>2, <1>3, <1>12, <3>1 DEF Resend, WindowOK
    <3>2. CASE SendNext(a)
      BY <1>3, <1>12, <3>2 DEF SendNext, WindowOpen
    <3> QED BY <3>1, <3>2
  <2>2. nextseq[a] \in Nat /\ nextseq'[a] \in Int
    <3>1. nextseq'[a] \in {nextseq[a], nextseq[a] + 1}
      BY <1>3, <1>12 DEF Resend, SendNext
    <3> QED BY <1>3, <3>1
  <2>3. \A k \in Out(a) : k \in Int
    <3>1. got[p] \subseteq Seqno
      BY <1>1, <1>2 DEF TypeOK
    <3>2. Waiting(p) \subseteq Int
      BY <1>1, <1>2, WaitingNat
    <3> QED BY <3>1, <3>2 DEF Out, p, Seqno
  <2>4. \A k \in Out(a)' : k <= nextseq'[a]
    <3>1. \A k \in Out(a) : k <= nextseq[a]
      BY <1>2 DEF WindowOK
    <3> QED BY <1>8, <2>1, <2>2, <2>3, <3>1
  <2> QED BY <1>1, <1>2, <1>9, <1>10, <1>12, <2>1, <2>4 DEF WindowOK, WInv
<1> QED BY <1>11, <1>12

\* An ack on its way is not data.
LEMMA WindowSendAck ==
    ASSUME IInv, WInv, NEW a \in Ends, SendAck(a)
    PROVE  WInv'
<1> DEFINE m == AckPacket(last[a].sno)
<1>1. TypeOK /\ LastOK(a)
  BY DEF IInv
<1>2. last[a] \in Pack /\ last[a].sno \in Seqno
  BY <1>1 DEF SendAck, LastOK, TypeOK, Pack
<1>3. m \in Pack /\ m.sno = -1
  BY <1>2 DEF AckPacket, Pack
<1>4. Put(a, m) /\ UNCHANGED local
  BY DEF SendAck
<1>5. /\ Waiting(Peer(a))' \subseteq Waiting(Peer(a)) \cup ({m.sno} \ {-1})
      /\ Waiting(a)' = Waiting(a)
  BY <1>1, <1>3, <1>4, WaitingPut
<1>6. \A e \in Ends : Out(e)' \subseteq Out(e)
  BY <1>3, <1>4, <1>5, PeerFacts DEF Out, local
<1> QED BY <1>4, <1>6, WindowKept DEF WInv, local

\* The end of a process only empties its socket.
LEMMA WindowEnd ==
    ASSUME IInv, WInv, NEW a \in Ends, NEW how, Exit(a, how), UNCHANGED local
    PROVE  WInv'
<1>1. \A e \in Ends : Waiting(e)' \subseteq Waiting(e)
  BY WaitingExit DEF IInv
<1>2. \A e \in Ends : Out(e)' \subseteq Out(e)
  BY <1>1, PeerFacts DEF Out, local
<1> QED BY <1>2, WindowKept DEF WInv, local

-----------------------------------------------------------------------------
(* The theorem *)

\* No window is open initially, and every step keeps both.
LEMMA WindowInit == Init => WInv
<1> SUFFICES ASSUME Init, NEW e \in Ends PROVE WindowOK(e)
  BY DEF WInv
<1>1. base[e] = -1 /\ got[Peer(e)] = {} /\ queue[Peer(e)] = <<>>
  BY PeerFacts DEF Init
<1>2. 1..Len(queue[Peer(e)]) = {}
  BY <1>1
<1> QED BY <1>1, <1>2 DEF WindowOK, Out, Waiting

\* Every step keeps both windows.
LEMMA WindowNext == IInv /\ WInv /\ [Next]_vars => WInv'
<1> SUFFICES ASSUME IInv, WInv, [Next]_vars PROVE WInv'
  OBVIOUS
<1>1. ASSUME UNCHANGED <<acked, base, nextseq, got, queue>>
      PROVE  WInv'
  <2>1. \A e \in Ends : Out(e)' \subseteq Out(e)
    BY <1>1 DEF Out, Waiting
  <2> QED BY <1>1, <2>1, WindowKept DEF WInv
<1>2. CASE StartListen \/ Connect \/ Accept \/ UNCHANGED vars
  BY <1>1, <1>2 DEF StartListen, Connect, Accept, local, vars
<1>3. ASSUME NEW a \in Ends, Poll(a)
      PROVE  WInv'
  <2>1. CASE PollTimeout(a)
    BY <1>1, <2>1 DEF PollTimeout
  <2>2. CASE RecvError(a)
    BY <2>2, WindowEnd DEF RecvError
  <2> QED BY <1>3, <2>1, <2>2, WindowRecv, WindowSendAck DEF Poll
<1>4. ASSUME NEW a \in Ends, SendPacket(a)
      PROVE  WInv'
  <2>1. CASE BeginSend(a) \/ NextRound(a)
    BY <1>1, <2>1 DEF BeginSend, NextRound
  <2>2. CASE Finish(a) \/ SigPipe(a)
    BY <2>2, WindowEnd DEF Finish, SigPipe
  <2> QED BY <1>4, <2>1, <2>2, WindowSend DEF SendPacket
<1> QED BY <1>2, <1>3, <1>4 DEF Next

\* What the invariants say of base and nextseq.
LEMMA WindowFacts == IInv /\ WInv => WindowExact
<1> SUFFICES ASSUME IInv, WInv, NEW e \in Ends, base[e] # -1
             PROVE  /\ base[e] \notin acked[e]
                    /\ 0..(base[e] - 1) \subseteq acked[e]
                    /\ nextseq[e] - base[e] \in -1..Window[e]
  BY DEF WindowExact
<1>1. /\ WindowOK(e) /\ PrefixOK(e) /\ Window[e] \in Nat
      /\ base[e] \in -1..Slots /\ nextseq[e] \in 0..Slots
  BY DEF WInv, IInv, TypeOK
<1>2. base[e] <= nextseq[e] + 1
  <2>1. CASE base[e] = 0
    BY <1>1, <2>1
  <2>2. CASE base[e] # 0
    <3>1. base[e] - 1 \in 0..(base[e] - 1)
      BY <1>1, <2>2
    <3>2. base[e] - 1 \in got[Peer(e)]
      BY <1>1, <3>1 DEF WindowOK, PrefixOK
    <3>3. base[e] - 1 <= nextseq[e]
      BY <1>1, <3>2 DEF WindowOK, Out
    <3> QED BY <1>1, <3>3
  <2> QED BY <2>1, <2>2
<1> QED BY <1>1, <1>2 DEF WindowOK

THEOREM WInvInvariant == Spec => []WInv
BY WindowInit, WindowNext, IInvInvariant, PTL DEF Spec

\* sendbase is the first packet not acknowledged, and nextseq stays within the
\* window it opens, whatever the size of the window.
THEOREM WindowIsExact == Spec => []WindowExact
BY WindowFacts, WInvInvariant, IInvInvariant, PTL

=============================================================================
