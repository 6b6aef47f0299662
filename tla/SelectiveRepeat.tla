--------------------------- MODULE SelectiveRepeat ---------------------------
(***************************************************************************)
(* The selective-repeat file exchange of exp5: 5_120599C.c (the client)    *)
(* and 5_120599S.c (the server), one process each, joined by one TCP       *)
(* connection over which each sends its file to the other.                 *)
(*                                                                         *)
(* Both run the same loop: up to 3 * window polls, each of which takes at  *)
(* most one packet from the socket and answers data with an ack, then      *)
(* sendpacket(), then a busy wait of rtt seconds.  A step here is what one *)
(* process does from one system call to the next, since only system calls  *)
(* let the two see each other; the loop over the polls and the loops of    *)
(* sendpacket are therefore control state (pc, polls, resend).             *)
(*                                                                         *)
(* A payload is the identity of its packet, so it is left out.             *)
(*                                                                         *)
(* An operator Bug... is a slip the one below it could have had; nothing   *)
(* uses it, and PROJECT.json says which property catches it.               *)
(***************************************************************************)
EXTENDS Integers, Sequences, FiniteSets

CONSTANTS
    Client, Server,  \* the two programs
    Slots,           \* packets a buffer can hold: 100 in the code
    NPkts,           \* NPkts[e]: packets makepackets() cuts the file of e into
    Window,          \* Window[e]: the window size typed into e
    SockBuf,         \* packets a socket buffers before send() blocks
    NoPack           \* the contents of a struct pack never written

Ends == {Client, Server}
Peer(e) == IF e = Client THEN Server ELSE Client

\* makepackets() always adds an empty last packet, and it has no bound check:
\* the model covers the files whose packets leave one slot of the buffer free.
ASSUME EndsAssumption == Client # Server
ASSUME SizesAssumption ==
    /\ Slots \in Nat
    /\ NPkts \in [Ends -> 1..(Slots - 1)]
    /\ Window \in [Ends -> Nat \ {0}]
    /\ SockBuf \in Nat \ {0}

VARIABLES
    pc,       \* pc[e]: where e is between two system calls
    acked,    \* acked[e]: slots of datato with ackno = 1
    base,     \* base[e]: sendbase, -1 before the first packet
    nextseq,  \* nextseq[e]
    resend,   \* resend[e]: sends left in the for loop of sendpacket
    got,      \* got[e]: slots of datafrom with ackno = 1
    polls,    \* polls[e]: polls left that still watch the socket
    master,   \* master[e]: the connection is in master_fds
    last,     \* last[e]: the struct incomming, kept from one poll to the next
    queue,    \* queue[e]: packets in the receive queue of e's socket
    link      \* link[e]: what e's socket knows of the other end

local == <<acked, base, nextseq, resend, got, polls, master, last>>
vars == <<pc, acked, base, nextseq, resend, got, polls, master, last, queue, link>>

-----------------------------------------------------------------------------
(* Packets *)

Seqno == 0..(Slots - 1)
Pack == [sno : Seqno \cup {-1}, ackno : Seqno \cup {-1}]

ASSUME NoPackAssumption == NoPack \notin Pack

\* A data packet is a copy of its slot of datato, mark of the ack included.
DataPacket(e, k) == [sno |-> k, ackno |-> IF k \in acked[e] THEN 1 ELSE -1]

BugAckPacket(k) == [sno |-> -1, ackno |-> k + 1]
AckPacket(k) == [sno |-> -1, ackno |-> k]

\* What `incomming` may hold when recv() returns 0 and leaves it alone.
Incomming(e) == IF last[e] = NoPack THEN Pack ELSE {last[e]}

Ended == {"done", "killed", "error"}

-----------------------------------------------------------------------------
(* The connection.  link[e] is "up"; "fin" once the other end closed its   *)
(* socket with nothing left to read; "err" once it closed with packets     *)
(* unread, which resets the connection; "broken" when a send has met       *)
(* either of these.  A reset leaves the queue of e readable.               *)

\* The polls of a round that watch the socket: none after its end of file.
BugWatches(e) == IF master[e] THEN 1 ELSE 0
Watches(e) == IF master[e] THEN 3 * Window[e] ELSE 0

\* send(): its result is ignored.  It blocks on a full buffer; into a closed
\* connection it succeeds once, a reset connection fails it once.
Put(e, pkt) ==
    \/ /\ link[e] = "up"
       /\ Len(queue[Peer(e)]) < SockBuf
       /\ queue' = [queue EXCEPT ![Peer(e)] = Append(@, pkt)]
       /\ UNCHANGED link
    \/ /\ link[e] \in {"fin", "err"}
       /\ link' = [link EXCEPT ![e] = "broken"]
       /\ UNCHANGED queue

\* The process ends and its socket is closed.
Exit(e, how) ==
    /\ pc' = [pc EXCEPT ![e] = how]
    /\ link' = [link EXCEPT ![Peer(e)] =
                  IF @ # "up" THEN @
                  ELSE IF queue[e] = <<>> THEN "fin" ELSE "err"]
    /\ queue' = [queue EXCEPT ![e] = <<>>]

-----------------------------------------------------------------------------
Init ==
    /\ pc = [e \in Ends |-> IF e = Client THEN "connect" ELSE "start"]
    /\ acked = [e \in Ends |-> {}]
    /\ base = [e \in Ends |-> -1]
    /\ nextseq = [e \in Ends |-> 0]
    /\ resend = [e \in Ends |-> 0]
    /\ got = [e \in Ends |-> {}]
    /\ polls = [e \in Ends |-> 0]
    /\ master = [e \in Ends |-> e = Client]
    /\ last = [e \in Ends |-> NoPack]
    /\ queue = [e \in Ends |-> <<>>]
    /\ link = [e \in Ends |-> "up"]

(* Setting up *)

StartListen ==
    /\ pc[Server] = "start"
    /\ pc' = [pc EXCEPT ![Server] = "listen"]
    /\ UNCHANGED <<local, queue, link>>

\* connect() is retried until the server listens; the kernel completes it
\* before the server accepts.
Connect ==
    /\ pc[Client] = "connect"
    /\ pc[Server] # "start"
    /\ pc' = [pc EXCEPT ![Client] = "poll"]
    /\ polls' = [polls EXCEPT ![Client] = Watches(Client)]
    /\ UNCHANGED <<acked, base, nextseq, resend, got, master, last, queue, link>>

\* The new socket joins master_fds only: what is left of this round of polls
\* watches the listener alone, so sendpacket() is next.
Accept ==
    /\ pc[Server] = "listen"
    /\ pc[Client] # "connect"
    /\ pc' = [pc EXCEPT ![Server] = "poll"]
    /\ master' = [master EXCEPT ![Server] = TRUE]
    /\ UNCHANGED <<acked, base, nextseq, resend, got, polls, last, queue, link>>

-----------------------------------------------------------------------------
(* A poll *)

\* ackprocess(): mark the slot and move base over every acked slot.
BugAckProcess(e, k) ==
    /\ acked' = [acked EXCEPT ![e] = @ \cup {k}]
    /\ base' = [base EXCEPT ![e] = @ + 1]
BugAckMarks(e, k) ==
    /\ acked' = [acked EXCEPT ![e] = @ \cup {k}]
    /\ UNCHANGED base
AckProcess(e, k) ==
    /\ acked' = [acked EXCEPT ![e] = @ \cup {k}]
    /\ \E b \in base[e]..Slots :
        /\ base[e]..(b - 1) \subseteq acked'[e]
        /\ b \notin acked'[e]
        /\ base' = [base EXCEPT ![e] = b]

\* dataprocess(), then the ack, which is sent for a duplicate too.
DataProcess(e, k) ==
    /\ got' = [got EXCEPT ![e] = @ \cup {k}]
    /\ pc' = [pc EXCEPT ![e] = "ack"]

\* What the poll does with `incomming`.
Process(e, pkt) ==
    /\ \/ pkt.sno = -1 /\ AckProcess(e, pkt.ackno)
       \/ pkt.sno # -1 /\ UNCHANGED <<acked, base>>
    /\ \/ pkt.ackno = -1 /\ DataProcess(e, pkt.sno)
       \/ pkt.ackno # -1 /\ UNCHANGED <<got, pc>>

Polling(e) == pc[e] = "poll" /\ polls[e] > 0

Recv(e) ==
    /\ Polling(e)
    /\ queue[e] # <<>>
    /\ queue' = [queue EXCEPT ![e] = Tail(@)]
    /\ last' = [last EXCEPT ![e] = Head(queue[e])]
    /\ polls' = [polls EXCEPT ![e] = @ - 1]
    /\ Process(e, Head(queue[e]))
    /\ UNCHANGED <<nextseq, resend, master, link>>

\* recv() returns 0: the socket leaves master_fds but not read_fds, and the
\* packet of the last recv() is processed once more.
RecvEOF(e) ==
    /\ Polling(e)
    /\ queue[e] = <<>>
    /\ link[e] \in {"fin", "broken"}
    /\ master' = [master EXCEPT ![e] = FALSE]
    /\ polls' = [polls EXCEPT ![e] = @ - 1]
    /\ \E pkt \in Incomming(e) :
        /\ last' = [last EXCEPT ![e] = pkt]
        /\ Process(e, pkt)
    /\ UNCHANGED <<nextseq, resend, queue, link>>

\* recv() fails on a reset connection: errorrep().
RecvError(e) ==
    /\ Polling(e)
    /\ queue[e] = <<>>
    /\ link[e] = "err"
    /\ Exit(e, "error")
    /\ UNCHANGED local

\* select() times out and clears read_fds, which is not set again before the
\* next round: the polls that are left watch nothing.
BugPollTimeout(e) ==
    /\ Polling(e)
    /\ queue[e] = <<>>
    /\ link[e] = "up"
    /\ Exit(e, "error")
    /\ UNCHANGED local
PollTimeout(e) ==
    /\ Polling(e)
    /\ queue[e] = <<>>
    /\ link[e] = "up"
    /\ polls' = [polls EXCEPT ![e] = 0]
    /\ UNCHANGED <<pc, acked, base, nextseq, resend, got, master, last, queue, link>>

SendAck(e) ==
    /\ pc[e] = "ack"
    /\ Put(e, AckPacket(last[e].sno))
    /\ pc' = [pc EXCEPT ![e] = "poll"]
    /\ UNCHANGED local

-----------------------------------------------------------------------------
(* sendpacket() *)

\* The iterations of the for loop that send; {-1} the first time.
Unacked(e) == {i \in base[e]..(nextseq[e] - 1) : i \notin acked[e]}

BugWindowOpen(e) == nextseq[e] - base[e] < Window[e]
WindowOpen(e) ==
    /\ nextseq[e] - base[e] < Window[e]
    /\ nextseq[e] < NPkts[e]

BeginSend(e) ==
    /\ pc[e] = "poll"
    /\ polls[e] = 0
    /\ pc' = [pc EXCEPT ![e] = "send"]
    /\ resend' = [resend EXCEPT ![e] = Cardinality(Unacked(e))]
    /\ UNCHANGED <<acked, base, nextseq, got, polls, master, last, queue, link>>

\* What the loop does to base and nextseq the first time.
BugFirstSend(e) ==
    /\ base' = [base EXCEPT ![e] = 0]
    /\ nextseq' = [nextseq EXCEPT ![e] = IF NPkts[e] > 1 THEN 2 ELSE 1]
FirstSend(e) ==
    /\ base' = [base EXCEPT ![e] = 0]
    /\ nextseq' = [nextseq EXCEPT ![e] = 1]

\* The for loop: the first time it sends packet 0 and opens the window; later
\* it sends packet nextseq once for every unacked packet i of the window.
Resend(e) ==
    /\ pc[e] = "send"
    /\ resend[e] > 0
    /\ Put(e, DataPacket(e, nextseq[e]))
    /\ resend' = [resend EXCEPT ![e] = @ - 1]
    /\ \/ base[e] = -1 /\ FirstSend(e)
       \/ base[e] # -1 /\ UNCHANGED <<base, nextseq>>
    /\ UNCHANGED <<pc, acked, got, polls, master, last>>

\* The while loop.
SendNext(e) ==
    /\ pc[e] = "send"
    /\ resend[e] = 0
    /\ WindowOpen(e)
    /\ Put(e, DataPacket(e, nextseq[e]))
    /\ nextseq' = [nextseq EXCEPT ![e] = @ + 1]
    /\ UNCHANGED <<pc, acked, base, resend, got, polls, master, last>>

\* Packets are left: wait rtt seconds and start another round of polls.
\* The slip: `incomming` declared, and so empty again, in each round.
BugNextRound(e) ==
    /\ pc[e] = "send"
    /\ resend[e] = 0
    /\ ~WindowOpen(e)
    /\ nextseq[e] # NPkts[e]
    /\ pc' = [pc EXCEPT ![e] = "poll"]
    /\ polls' = [polls EXCEPT ![e] = Watches(e)]
    /\ last' = [last EXCEPT ![e] = NoPack]
    /\ UNCHANGED <<acked, base, nextseq, resend, got, master, queue, link>>
NextRound(e) ==
    /\ pc[e] = "send"
    /\ resend[e] = 0
    /\ ~WindowOpen(e)
    /\ nextseq[e] # NPkts[e]
    /\ pc' = [pc EXCEPT ![e] = "poll"]
    /\ polls' = [polls EXCEPT ![e] = Watches(e)]
    /\ UNCHANGED <<acked, base, nextseq, resend, got, master, last, queue, link>>

\* The last packet has been sent: exit(0), acknowledged or not.
Finish(e) ==
    /\ pc[e] = "send"
    /\ resend[e] = 0
    /\ nextseq[e] = NPkts[e]
    /\ Exit(e, "done")
    /\ UNCHANGED local

\* send() on a connection already broken raises SIGPIPE, which is not caught.
SigPipe(e) ==
    /\ link[e] = "broken"
    /\ \/ pc[e] = "ack"
       \/ pc[e] = "send" /\ (resend[e] > 0 \/ WindowOpen(e))
    /\ Exit(e, "killed")
    /\ UNCHANGED local

-----------------------------------------------------------------------------
Poll(e) ==
    \/ Recv(e) \/ RecvEOF(e) \/ RecvError(e) \/ PollTimeout(e) \/ SendAck(e)

SendPacket(e) ==
    \/ BeginSend(e) \/ Resend(e) \/ SendNext(e) \/ NextRound(e) \/ Finish(e)
    \/ SigPipe(e)

Next ==
    \/ StartListen \/ Connect \/ Accept
    \/ \E e \in Ends : Poll(e) \/ SendPacket(e)

Spec == Init /\ [][Next]_vars

\* Each process is run by its own scheduler: it keeps taking the step that is
\* next in its program whenever no call of it blocks.
Fairness ==
    /\ WF_vars(StartListen) /\ WF_vars(Connect) /\ WF_vars(Accept)
    /\ \A e \in Ends : WF_vars(Poll(e) \/ SendPacket(e))

FairSpec == Spec /\ Fairness

-----------------------------------------------------------------------------
(* Properties *)

TypeOK ==
    /\ pc \in [Ends -> {"connect", "start", "listen", "poll", "ack", "send"} \cup Ended]
    /\ acked \in [Ends -> SUBSET Seqno]
    /\ base \in [Ends -> -1..Slots]
    /\ nextseq \in [Ends -> 0..Slots]
    /\ \A e \in Ends : nextseq[e] <= NPkts[e]
    /\ resend \in [Ends -> Nat]
    /\ got \in [Ends -> SUBSET Seqno]
    /\ polls \in [Ends -> Nat]
    /\ master \in [Ends -> BOOLEAN]
    /\ last \in [Ends -> Pack \cup {NoPack}]
    /\ queue \in [Ends -> Seq(Pack)]
    /\ link \in [Ends -> {"up", "fin", "err", "broken"}]

\* A packet an end takes for acknowledged has been stored by the other end:
\* neither the resends, nor acks of duplicates, nor the reprocessing of the
\* last packet at end of file ever acknowledge a packet that is not there.
AckImpliesDelivered == \A e \in Ends : acked[e] \subseteq got[Peer(e)]

\* Both files arrive packet by packet in order, and are confirmed in order:
\* the exchange implements ReliableTransfer.
Transfer == INSTANCE ReliableTransfer WITH
    delivered <- [e \in Ends |-> got[Peer(e)]],
    confirmed <- acked
ImplementsTransfer == Transfer!Spec

\* Once sending has begun, sendbase is exactly the first packet not
\* acknowledged, and nextseq stays within the window it opens.  Base can pass
\* nextseq, by one: packet nextseq goes out as a "resend" before its turn,
\* and may be acknowledged before nextseq moves on.
WindowExact ==
    \A e \in Ends : base[e] # -1 =>
        /\ base[e] \notin acked[e]
        /\ 0..(base[e] - 1) \subseteq acked[e]
        /\ nextseq[e] - base[e] \in -1..Window[e]

\* sno of the data packets waiting in the socket of e.
Waiting(e) == {queue[e][i].sno : i \in 1..Len(queue[e])} \ {-1}

\* While the receiver runs, every packet the sender has counted as sent is
\* stored or waits in the receiver's socket, also when the sender has exited.
NothingSkipped ==
    \A e \in Ends : link[e] = "up" =>
        0..(nextseq[e] - 1) \subseteq got[Peer(e)] \cup Waiting(Peer(e))

\* recv() never returns 0 before it has filled `incomming` once: the end of
\* file code, which processes that struct whatever recv() returned, never
\* reads it uninitialised.
EOFAfterPacket ==
    \A e \in Ends :
        (Polling(e) /\ queue[e] = <<>> /\ link[e] \in {"fin", "broken"})
            => last[e] # NoPack

\* An end is killed by SIGPIPE or stopped by errorrep() only when the other
\* has sent its whole file and exited: the two never bring each other down.
OneCompletes ==
    \A e \in Ends : pc[e] \in {"killed", "error"} => pc[Peer(e)] = "done"

\* An end whose send() waits for room in the other's socket.
Blocked(e) ==
    /\ link[e] = "up"
    /\ Len(queue[Peer(e)]) >= SockBuf
    /\ \/ pc[e] = "ack"
       \/ pc[e] = "send" /\ (resend[e] > 0 \/ WindowOpen(e))

\* The ends read only between their sends, so each could wait in send() for
\* the other to read.  They do not, with sockets that hold enough packets.
NoSendDeadlock == ~ \A e \in Ends : Blocked(e)

\* Both programs end: neither the rounds of resends nor an end of file that
\* nothing handles keeps one of them running for ever.
Termination == <>(\A e \in Ends : pc[e] \in Ended)

-----------------------------------------------------------------------------
(* The inductive invariant.  In each part e sends the file and Peer(e)     *)
(* stores it.                                                              *)

\* Among the first n packets of q there is data packet j, or the ack of j.
HasData(q, n, j) == \E h \in 1..n : q[h].sno = j
HasAck(q, n, j) == \E h \in 1..n : q[h].sno = -1 /\ q[h].ackno = j

\* An end closes its socket when, and only when, it ends.
LinkOK(e) ==
    /\ link[e] = "up" <=> pc[Peer(e)] \notin Ended
    /\ pc[e] \in Ended => queue[e] = <<>>

\* Where nextseq can be while packets are left to send.
SendOK(e) ==
    /\ base[e] = -1 => /\ nextseq[e] = 0
                       /\ resend[e] \in 0..1
                       /\ pc[e] = "send" => resend[e] = 1
    /\ resend[e] > 0 => pc[e] \in {"send"} \cup Ended
    /\ nextseq[e] = NPkts[e] => pc[e] \in {"send"} \cup Ended /\ resend[e] = 0

\* What is stored, and what is acknowledged, is a prefix of the file.
PrefixOK(e) ==
    /\ \A k \in got[Peer(e)] : k < NPkts[e] /\ 0..k \subseteq got[Peer(e)]
    /\ \A k \in acked[e] : k \in got[Peer(e)] /\ 0..k \subseteq acked[e]

\* Data on its way comes after all that precedes it in the file; it carries
\* the mark of an ack only if it is stored already.
DataOK(e) ==
    \A i \in 1..Len(queue[Peer(e)]) :
        LET q == queue[Peer(e)]
            k == q[i].sno
        IN  k # -1 => /\ k < NPkts[e]
                      /\ q[i].ackno = -1 \/ k \in got[Peer(e)]
                      /\ \A j \in 0..(k - 1) : j \in got[Peer(e)] \/ HasData(q, i - 1, j)

\* What is counted as sent is stored or on its way.
SentOK(e) ==
    link[e] = "up" =>
        \A j \in 0..(nextseq[e] - 1) :
            \/ j \in got[Peer(e)]
            \/ HasData(queue[Peer(e)], Len(queue[Peer(e)]), j)

\* An ack on its way is the ack of a stored packet, and comes after the acks
\* of all that precedes it in the file.
AckOK(e) ==
    \A i \in 1..Len(queue[e]) :
        LET k == queue[e][i].ackno
        IN  queue[e][i].sno = -1 =>
                /\ k \in got[Peer(e)]
                /\ \A j \in 0..(k - 1) : j \in acked[e] \/ HasAck(queue[e], i - 1, j)

\* What is stored is acknowledged, or its ack is on its way or comes next.
AckSentOK(e) ==
    link[Peer(e)] = "up" =>
        \A j \in got[Peer(e)] :
            \/ j \in acked[e]
            \/ HasAck(queue[e], Len(queue[e]), j)
            \/ pc[Peer(e)] = "ack" /\ last[Peer(e)].sno = j

\* The packet received last has been processed, and an ack due is for it.
LastOK(e) ==
    /\ pc[e] = "ack" => last[e] # NoPack /\ last[e].sno # -1
    /\ last[e] # NoPack =>
        IF last[e].sno = -1 THEN last[e].ackno \in acked[e] ELSE last[e].sno \in got[e]
    /\ got[e] # {} => last[e] # NoPack
    /\ link[e] # "up" /\ pc[e] \notin Ended => queue[e] # <<>> \/ last[e] # NoPack

IInv ==
    /\ TypeOK
    /\ \A e \in Ends :
        /\ LinkOK(e) /\ SendOK(e) /\ PrefixOK(e) /\ DataOK(e) /\ SentOK(e)
        /\ AckOK(e) /\ AckSentOK(e) /\ LastOK(e)

-----------------------------------------------------------------------------
(* Why the sockets cannot fill up.  A data packet weighs 3, an ack 2: to   *)
(* read a data packet lets one more ack be sent, and takes one of the      *)
(* polls after which a packet may be sent.                                 *)

Weight(q) == 2 * Len(q) + Cardinality({i \in 1..Len(q) : q[i].sno # -1})

\* How far base has come after a window that was full: by a packet, two, or more.
Ahead(e) == IF base[e] > nextseq[e] THEN 3 ELSE IF base[e] = nextseq[e] THEN 2
            ELSE IF base[e] = nextseq[e] - 1 /\ Window[e] # 1 THEN 1 ELSE 0

\* The weight of what e may send before its next round of polls.
Claim(e) ==
    IF pc[e] = "send" THEN 3 * (resend[e] + base[e] + Window[e] - nextseq[e])
    ELSE 3 * Window[e] - polls[e] + Ahead(e) + IF pc[e] = "ack" THEN 2 ELSE 0

\* A window of 1 that has moved on lets a packet be sent behind the ack of the last.
Past(e) == IF Window[e] = 1 THEN base[e] ELSE 0

\* While both run, what waits in the sockets and what may still be sent before
\* anything is read weighs no more than a full socket and two windows of data.
Load ==
    (\A e \in Ends : pc[e] \notin Ended) =>
        Weight(queue[Client]) + Weight(queue[Server]) + Claim(Client) + Claim(Server)
          <= 3 * SockBuf + 3 * (Window[Client] + Window[Server]) + 8
             + Past(Client) + Past(Server)

=============================================================================
