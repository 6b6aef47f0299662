----------------------------- MODULE SelectMesh -----------------------------
(***************************************************************************)
(* The four peers of peers/ (4_120599P_1_1.c to 4_120599P_4_1.c).  Each    *)
(* connects to the three others, some of them before its loop and the rest *)
(* each time it has accepted a connection.  The loop waits in select() on  *)
(* read_fds itself, so that a descriptor that is not ready is not in the   *)
(* set any more; and it adds an accepted connection to the set it is going *)
(* through, so that it waits for its data in recv() at once.               *)
(*                                                                         *)
(* A connection goes one way: who connected sends, who accepted receives.  *)
(* A peer ends by a failed first connect(), by its user's signal, or by    *)
(* SIGPIPE, and is started once.  An operator Bug... is a slip the one     *)
(* below it could have had.                                                *)
(***************************************************************************)
EXTENDS Integers, Sequences, FiniteSets

CONSTANT MaxKills   \* how many peers their users stop

ASSUME KillsAssumption == MaxKills \in Nat

Peers == 1..4
None == 0
\* The sockets p2, p3, p4 of peer p are for the peers after it.
After(p, k) == 1 + ((p - 1 + k) % 4)

\* What a peer does before its loop.
Try(q)  == [do |-> "try", peer |-> q]     \* connect(), whatever it returns
Must(q) == [do |-> "must", peer |-> q]    \* connect(), or the peer ends
Wait    == [do |-> "accept", peer |-> None]
Startup == << << >>,
              << Try(1) >>,
              << Must(1), Wait, Try(2) >>,
              << Must(1), Wait, Must(2), Wait, Try(3) >> >>

\* Whom a peer connects to when it has accepted one more connection, by how
\* many it had before.
OnAccept == << <<2, 3, 4>>, <<None, 3, 4>>, <<None, None, 4>>, <<None, None, None>> >>

\* The descriptors behind the sockets made first, and the files among them.
Listener == 0
Descriptors == 1..5
PeerN == 5
RcvN == 6

VARIABLES
    pc,           \* pc[p]: where peer p is
    done,         \* done[p]: how much of Startup[p] is done
    table,        \* table[p]: what the descriptors of p are, a peer meaning
                  \* the connection accepted from it
    connections,  \* connections[p]: how many it has accepted
    read_fds,     \* read_fds[p]: the listener and descriptors in the set
    i,            \* i[p]: how far it has gone through the set
    out,          \* out[p]: how many of the three it has sent the word to
    link,         \* link[<<p, q>>]: the connection of p to q, as p sees it
    backlog,      \* backlog[q]: the connections to q not accepted yet
    wire,         \* wire[<<p, q>>]: words sent by p and not received by q
    rcv,          \* rcv[p]: the file rcvN of p, the senders of its words
    kills         \* how many peers have been stopped

loopVars == <<connections, read_fds, i, out>>
netVars == <<link, backlog, wire>>
vars == <<pc, done, table, loopVars, netVars, rcv, kills>>

Links == Peers \X Peers
Gone == {p \in Peers : pc[p] = "ended"}
Up(p) == pc[p] \notin {"off", "ended"}

\* open() and accept() return the lowest descriptor that is free.
Lowest(t) == CHOOSE f \in DOMAIN t : t[f] = None /\ \A g \in 1..f-1 : t[g] # None
Opened(t, x) == [t EXCEPT ![Lowest(t)] = x]
Closed(t, x) == [f \in DOMAIN t |-> IF t[f] = x THEN None ELSE t[f]]

\* The files a peer opens on its way into the loop; peer 4 has none to send.
IntoLoop(p, t) == Opened(IF p = 4 THEN t ELSE Opened(t, PeerN), RcvN)

-----------------------------------------------------------------------------
Init ==
    /\ pc = [p \in Peers |-> "off"]
    /\ done = [p \in Peers |-> 0]
    /\ table = [p \in Peers |-> [f \in Descriptors |-> None]]
    /\ connections = [p \in Peers |-> 0]
    /\ read_fds = [p \in Peers |-> {Listener}]
    /\ i = [p \in Peers |-> 0]
    /\ out = [p \in Peers |-> 0]
    /\ link = [c \in Links |-> "none"]
    /\ backlog = [p \in Peers |-> <<>>]
    /\ wire = [c \in Links |-> 0]
    /\ rcv = [p \in Peers |-> <<>>]
    /\ kills = 0

\* connect() to a peer that listens; it does not wait for accept().
Dial(p, q) ==
    IF q # None /\ Up(q)
    THEN /\ link' = [link EXCEPT ![<<p, q>>] = "up"]
         /\ backlog' = [backlog EXCEPT ![q] = Append(@, p)]
    ELSE UNCHANGED <<link, backlog>>

\* The next step before the loop; behind the last one, the files are opened.
Advance(p, n, t) ==
    /\ done' = [done EXCEPT ![p] = n]
    /\ IF n = Len(Startup[p])
       THEN /\ pc' = [pc EXCEPT ![p] = "select"]
            /\ table' = [table EXCEPT ![p] = IntoLoop(p, t)]
       ELSE /\ pc' = [pc EXCEPT ![p] = "startup"]
            /\ table' = [table EXCEPT ![p] = t]

\* socket(), bind() and listen().
Start(p) ==
    /\ pc[p] = "off"
    /\ Advance(p, 0, table[p])
    /\ UNCHANGED <<loopVars, netVars, rcv, kills>>

Starting(p, what) == pc[p] = "startup" /\ Startup[p][done[p] + 1].do \in what

Connect(p) ==
    /\ Starting(p, {"try", "must"})
    /\ LET s == Startup[p][done[p] + 1] IN
        /\ s.do = "must" => Up(s.peer)
        /\ Dial(p, s.peer)
    /\ Advance(p, done[p] + 1, table[p])
    /\ UNCHANGED <<loopVars, wire, rcv, kills>>

ConnectFails(p) ==
    /\ Starting(p, {"must"})
    /\ ~Up(Startup[p][done[p] + 1].peer)
    /\ pc' = [pc EXCEPT ![p] = "ended"]
    /\ UNCHANGED <<done, table, loopVars, netVars, rcv, kills>>

\* The slip: the connection is counted twice.
BugTake(p, t) ==
    /\ backlog[p] # <<>>
    /\ connections' = [connections EXCEPT ![p] = @ + 2]
    /\ read_fds' = [read_fds EXCEPT ![p] = @ \cup {Lowest(t)}]
\* accept(): the connection that has waited longest gets a descriptor, which
\* goes into read_fds.
Take(p, t) ==
    /\ backlog[p] # <<>>
    /\ connections' = [connections EXCEPT ![p] = @ + 1]
    /\ read_fds' = [read_fds EXCEPT ![p] = @ \cup {Lowest(t)}]

AcceptFirst(p) ==
    /\ Starting(p, {"accept"})
    /\ Take(p, table[p])
    /\ backlog' = [backlog EXCEPT ![p] = Tail(@)]
    /\ Advance(p, done[p] + 1, Opened(table[p], Head(backlog[p])))
    /\ UNCHANGED <<i, out, link, wire, rcv, kills>>

(* The loop *)

\* The slip: recv() does not wait, and nothing to read is taken for the end.
BugAtEnd(q) == q \in Peers
\* A connection from q has come to its end, behind the words on it.
AtEnd(q) == pc[q] = "ended"

\* recv() on the connection from q would not wait.
Readable(p, q) == wire[<<q, p>>] > 0 \/ AtEnd(q)

Ready(p, f) == IF f = Listener THEN backlog[p] # <<>> ELSE Readable(p, table[p][f])

\* select() takes out of read_fds what is not ready.
Select(p) ==
    /\ pc[p] = "select"
    /\ LET ready == {f \in read_fds[p] : Ready(p, f)} IN
        /\ ready # {}
        /\ read_fds' = [read_fds EXCEPT ![p] = ready]
    /\ pc' = [pc EXCEPT ![p] = "scan"]
    /\ i' = [i EXCEPT ![p] = Listener]
    /\ UNCHANGED <<done, table, connections, out, netVars, rcv, kills>>

\* FD_ISSET(): the loop has come to descriptor f.
At(p, f) ==
    /\ pc[p] = "scan"
    /\ f \in read_fds[p] /\ f >= i[p]
    /\ \A g \in read_fds[p] : g >= i[p] => f <= g

\* The slip: what is accepted is not looked at before the next select().
BugVisited(p, f) == i' = [i EXCEPT ![p] = IF f = Listener THEN 6 ELSE f + 1]
Visited(p, f) == i' = [i EXCEPT ![p] = f + 1]

\* The listener: accept() and, by the number of connections, connect().
Accept(p) ==
    /\ At(p, Listener)
    /\ Take(p, table[p])
    /\ LET q == Head(backlog[p])
           r == OnAccept[p][connections[p] + 1]
           rest == [backlog EXCEPT ![p] = Tail(@)] IN
        /\ table' = [table EXCEPT ![p] = Opened(@, q)]
        /\ IF r # None /\ Up(r)
           THEN /\ link' = [link EXCEPT ![<<p, r>>] = "up"]
                /\ backlog' = [rest EXCEPT ![r] = Append(@, p)]
           ELSE link' = link /\ backlog' = rest
    /\ Visited(p, Listener)
    /\ UNCHANGED <<pc, done, out, wire, rcv, kills>>

\* Behind every recv(), whatever it returned: a peer with all connections goes
\* on to send its next word.
Received(p, f) ==
    /\ Visited(p, f)
    /\ pc' = [pc EXCEPT ![p] = IF p # 4 /\ connections[p] = 3 THEN "send" ELSE "scan"]

\* The slip: neither.
BugDrop(p, f) == UNCHANGED <<table, read_fds>>
\* FD_CLR() and close().
Drop(p, f) ==
    /\ table' = [table EXCEPT ![p][f] = None]
    /\ read_fds' = [read_fds EXCEPT ![p] = @ \ {f}]

\* recv() of a word; or, when its sender is gone, of the end of the connection.
Recv(p) ==
    \E f \in Descriptors :
        /\ At(p, f)
        /\ LET q == table[p][f] IN
            IF wire[<<q, p>>] > 0
            THEN /\ wire' = [wire EXCEPT ![<<q, p>>] = @ - 1]
                 /\ rcv' = [rcv EXCEPT ![p] = Append(@, q)]
                 /\ UNCHANGED <<table, read_fds>>
            ELSE /\ AtEnd(q)
                 /\ Drop(p, f)
                 /\ UNCHANGED <<wire, rcv>>
        /\ Received(p, f)
        /\ UNCHANGED <<done, connections, out, link, backlog, kills>>

\* The end of the loop over the descriptors: rcvN is closed and opened again.
NextPass(p) ==
    /\ pc[p] = "scan"
    /\ \A f \in read_fds[p] : f < i[p]
    /\ table' = [table EXCEPT ![p] = Opened(Closed(@, RcvN), RcvN)]
    /\ pc' = [pc EXCEPT ![p] = "select"]
    /\ UNCHANGED <<done, loopVars, netVars, rcv, kills>>

\* The next of the three send().  The first one behind the end of the other
\* peer is lost, or fails, which is not looked at.
Send(p) ==
    /\ pc[p] = "send"
    /\ LET q == After(p, out[p] + 1)
           c == <<p, q>> IN
        /\ link[c] = "up"
        /\ IF Up(q)
           THEN wire' = [wire EXCEPT ![c] = @ + 1] /\ UNCHANGED link
           ELSE link' = [link EXCEPT ![c] = "broken"] /\ UNCHANGED wire
    /\ out' = [out EXCEPT ![p] = (@ + 1) % 3]
    /\ pc' = [pc EXCEPT ![p] = IF out[p] = 2 THEN "scan" ELSE "send"]
    /\ UNCHANGED <<done, table, connections, read_fds, i, backlog, rcv, kills>>

\* send() on a socket that is not connected, or not any more.
SigPipe(p) ==
    /\ pc[p] = "send"
    /\ link[<<p, After(p, out[p] + 1)>>] # "up"
    /\ pc' = [pc EXCEPT ![p] = "ended"]
    /\ UNCHANGED <<done, table, loopVars, netVars, rcv, kills>>

Kill(p) ==
    /\ Up(p)
    /\ kills < MaxKills
    /\ pc' = [pc EXCEPT ![p] = "ended"]
    /\ kills' = kills + 1
    /\ UNCHANGED <<done, table, loopVars, netVars, rcv>>

Step(p) ==
    \/ Connect(p) \/ ConnectFails(p) \/ AcceptFirst(p)
    \/ Select(p) \/ Accept(p) \/ Recv(p) \/ NextPass(p)
    \/ Send(p) \/ SigPipe(p)

Next == \E p \in Peers : Start(p) \/ Step(p) \/ Kill(p)

Spec == Init /\ [][Next]_vars

-----------------------------------------------------------------------------
TypeOK ==
    /\ pc \in [Peers -> {"off", "startup", "select", "scan", "send", "ended"}]
    /\ done \in [Peers -> 0..5]
    /\ table \in [Peers -> [Descriptors -> {None, PeerN, RcvN} \cup Peers]]
    /\ connections \in [Peers -> 0..3]
    /\ read_fds \in [Peers -> SUBSET (Descriptors \cup {Listener})]
    /\ i \in [Peers -> 0..6]
    /\ out \in [Peers -> 0..2]
    /\ link \in [Links -> {"none", "up", "broken"}]
    /\ backlog \in [Peers -> Seq(Peers)]
    /\ wire \in [Links -> Nat]
    /\ rcv \in [Peers -> Seq(Peers)]
    /\ kills \in 0..MaxKills

\* Nothing is ever sent to a peer that could receive it, and all files rcvN stay
\* empty: the recv() of a peer on the connection it has just accepted waits for
\* a peer that itself waits to be accepted elsewhere.
NothingArrives == (\A p \in Peers : rcv[p] = <<>>) /\ (\A c \in Links : wire[c] = 0)

\* The mesh grows only as peers end: the first two accept at most one connection
\* more than peers have ended, the third is never connected to all others, and
\* the fourth never comes to its second connect().
OneAtATime ==
    /\ \A p \in {1, 2} : connections[p] <= Cardinality(Gone) + 1
    /\ connections[3] <= 2 /\ connections[4] <= 1

\* Although select() takes the listener out of read_fds whenever it is not
\* ready, the first two peers never lose it (the third may).
FirstTwoListen == \A p \in {1, 2} : Listener \in read_fds[p]

\* The four come to rest: no connection that has ended keeps a loop running, and
\* no word goes round.
ComesToRest == <>[][FALSE]_vars

\* The connections that p can still accept, each to be dropped later, and those it has.
Events(p) ==
    2 * (3 - connections[p]) + Cardinality({f \in Descriptors : table[p][f] \in Peers})

\* The steps of p up to the next of these events, at most: those before its loop, or
\* the three send(), the end of a round and select().
Pace(p) ==
    CASE pc[p] = "off" -> 13
      [] pc[p] = "startup" -> 12 - done[p]
      [] pc[p] = "send" -> 6 - out[p]
      [] pc[p] = "scan" /\ i[p] # Listener -> 3
      [] pc[p] = "select" -> 2
      [] pc[p] = "scan" /\ i[p] = Listener -> 1
      [] pc[p] = "ended" -> 0

ToDo(p) == 6 * Events(p) + Pace(p)
Work == ToDo(1) + ToDo(2) + ToDo(3) + ToDo(4)

\* Every step uses up some of the work there is: select() never returns in vain, so
\* that each round of the loop accepts a connection or drops one, and no loop spins.
WearsOut == [][Work' < Work]_vars

=============================================================================
