------------------------------ MODULE ProxyMesh ------------------------------
(***************************************************************************)
(* The threaded peers (proxy1.c to proxy4.c).  A peer starts one thread    *)
(* connection() for each peer it connects to, which sends the words of its *)
(* file peerN, and one thread process() for each connection it accepts,    *)
(* which prints what it receives to rcvN.  Every process() has a FILE and  *)
(* an offset of its own: the end of rcvN when the thread started.          *)
(*                                                                         *)
(* A peer ends only by a signal: its user's, or SIGPIPE when it sends to a *)
(* peer that is gone.  An operator Bug... is a slip the one below it could *)
(* have had.                                                               *)
(***************************************************************************)
EXTENDS Integers, Sequences, FiniteSets

CONSTANTS
    Peers,
    Targets,    \* Targets[p]: the peers p connects to
    Words,      \* the words of the files peerN
    Text,       \* Text[p]: the words of p's file peerN
    Old,        \* Old[p]: what p's file rcvN holds at the start
    Junk,       \* what is left in a buffer behind the bytes received
    Block,      \* the size of the buffer of a FILE
    MaxStops    \* how many peers the user stops

Links == {c \in Peers \X Peers : c[2] \in Targets[c[1]]}
Src(c) == c[1]
Dst(c) == c[2]
Content == Words \cup {Junk}

ASSUME MeshAssumption ==
    /\ Targets \in [Peers -> SUBSET Peers]
    /\ \A p \in Peers : p \notin Targets[p]
ASSUME TextAssumption ==
    /\ Junk \notin Words
    /\ Text \in [Peers -> Seq(Words)]
    /\ Old \in [Peers -> Seq(Content)]
ASSUME BoundsAssumption == Block \in Nat \ {0} /\ MaxStops \in Nat

VARIABLES
    peer,       \* peer[p]: not started, running, or gone
    stops,      \* how many peers the user has stopped
    out,        \* out[c]: where the connection() thread of c is
    sent,       \* sent[c]: how many words it has sent
    refused,    \* refused[c]: it has sent something to a peer that is gone
    wire,       \* wire[c]: the words on their way
    in,         \* in[c]: where the process() thread of c is
    start,      \* start[c]: the end of the file when it opened it
    printed,    \* printed[c]: what it has printed
    flushed,    \* flushed[c]: how much of that is in the file
    file,       \* file[p]: the file rcvN of p
    shared      \* shared[c]: history, the connections whose threads had the
                \* file open together with that of c

sendVars == <<out, sent, refused>>
fileVars == <<start, printed, flushed, file, shared>>
vars == <<peer, stops, sendVars, wire, in, fileVars>>

Open(c) == in[c] = "open" /\ peer[Dst(c)] = "up"

\* The slip: only a close() counts.
BugFinished(c) == out[c] = "closed"
\* The other side has closed the connection, or is gone.
Finished(c) == out[c] = "closed" \/ peer[Src(c)] = "gone"

Junked(ws) == {ws, Append(ws, Junk)}

\* write() at an offset; it extends the file where that is needed.
Written(old, pos, ws) ==
    [i \in 1..(IF pos + Len(ws) > Len(old) THEN pos + Len(ws) ELSE Len(old)) |->
        IF i \in pos + 1 .. pos + Len(ws) THEN ws[i - pos] ELSE old[i]]

\* The next n words of the buffer go to the file.
Flush(c, n) ==
    /\ file' = [file EXCEPT ![Dst(c)] = Written(@, start[c] + flushed[c],
                    SubSeq(printed[c], flushed[c] + 1, flushed[c] + n))]
    /\ flushed' = [flushed EXCEPT ![c] = @ + n]

\* The buffer of a FILE is a block of the file; one more byte, and it is written.
Room(c) == Block - ((start[c] + flushed[c]) % Block)
Buffered(c) == Len(printed[c]) - flushed[c]
Overfull(c) == Buffered(c) > Room(c)

-----------------------------------------------------------------------------
Init ==
    /\ peer = [p \in Peers |-> "off"]
    /\ stops = 0
    /\ out = [c \in Links |-> "connect"]
    /\ sent = [c \in Links |-> 0]
    /\ refused = [c \in Links |-> FALSE]
    /\ wire = [c \in Links |-> <<>>]
    /\ in = [c \in Links |-> "none"]
    /\ start = [c \in Links |-> 0]
    /\ printed = [c \in Links |-> <<>>]
    /\ flushed = [c \in Links |-> 0]
    /\ file = Old
    /\ shared = [c \in Links |-> {}]

\* main(): bind, listen, create the threads.
Start(p) ==
    /\ peer[p] = "off"
    /\ peer' = [peer EXCEPT ![p] = "up"]
    /\ UNCHANGED <<stops, sendVars, wire, in, fileVars>>

Stop(p) ==
    /\ peer[p] = "up"
    /\ stops < MaxStops
    /\ peer' = [peer EXCEPT ![p] = "gone"]
    /\ stops' = stops + 1
    /\ UNCHANGED <<sendVars, wire, in, fileVars>>

(* connection() *)

\* The slip: connect() is tried once.
BugConnect(c) ==
    /\ peer[Src(c)] = "up" /\ out[c] = "connect"
    /\ IF peer[Dst(c)] = "up"
       THEN /\ out' = [out EXCEPT ![c] = "send"]
            /\ in' = [in EXCEPT ![c] = "queued"]
       ELSE /\ out' = [out EXCEPT ![c] = "closed"]
            /\ UNCHANGED in
    /\ UNCHANGED <<peer, stops, sent, refused, wire, fileVars>>
\* connect() is tried again until the other peer listens.
Connect(c) ==
    /\ peer[Src(c)] = "up" /\ out[c] = "connect"
    /\ peer[Dst(c)] = "up"
    /\ out' = [out EXCEPT ![c] = "send"]
    /\ in' = [in EXCEPT ![c] = "queued"]
    /\ UNCHANGED <<peer, stops, sent, refused, wire, fileVars>>

Send(c) ==
    /\ peer[Src(c)] = "up" /\ out[c] = "send"
    /\ sent[c] < Len(Text[Src(c)])
    /\ peer[Dst(c)] = "up"
    /\ wire' = [wire EXCEPT ![c] = Append(@, Text[Src(c)][sent[c] + 1])]
    /\ sent' = [sent EXCEPT ![c] = @ + 1]
    /\ UNCHANGED <<peer, stops, out, refused, in, fileVars>>

\* The slip: a send() that fails is tried again, and counted again.
BugSendRefused(c) ==
    /\ peer[Src(c)] = "up" /\ out[c] = "send"
    /\ peer[Dst(c)] = "gone"
    /\ sent[c] <= Len(Text[Src(c)])
    /\ refused' = [refused EXCEPT ![c] = TRUE]
    /\ sent' = [sent EXCEPT ![c] = @ + 1]
    /\ UNCHANGED <<peer, stops, out, wire, in, fileVars>>
\* The first send() to a peer that is gone is lost, the next raises SIGPIPE, which
\* ends the whole program.
SendRefused(c) ==
    /\ peer[Src(c)] = "up" /\ out[c] = "send"
    /\ sent[c] < Len(Text[Src(c)])
    /\ peer[Dst(c)] = "gone"
    /\ IF refused[c]
       THEN /\ peer' = [peer EXCEPT ![Src(c)] = "gone"]
            /\ UNCHANGED <<sent, refused>>
       ELSE /\ refused' = [refused EXCEPT ![c] = TRUE]
            /\ sent' = [sent EXCEPT ![c] = @ + 1]
            /\ UNCHANGED peer
    /\ UNCHANGED <<stops, out, wire, in, fileVars>>

CloseSend(c) ==
    /\ peer[Src(c)] = "up" /\ out[c] = "send"
    /\ sent[c] = Len(Text[Src(c)])
    /\ out' = [out EXCEPT ![c] = "closed"]
    /\ UNCHANGED <<peer, stops, sent, refused, wire, in, fileVars>>

(* accept() and process() *)

\* The slip: the offset is that of the start of the file.
BugOpenFile(c) ==
    /\ in[c] = "queued" /\ peer[Dst(c)] = "up"
    /\ in' = [in EXCEPT ![c] = "open"]
    /\ start' = [start EXCEPT ![c] = 0]
    /\ LET others == {d \in Links : d # c /\ Dst(d) = Dst(c) /\ Open(d)}
       IN  shared' = [d \in Links |-> IF d = c THEN others
                                      ELSE IF d \in others THEN shared[d] \cup {c}
                                      ELSE shared[d]]
    /\ UNCHANGED <<peer, stops, sendVars, wire, printed, flushed, file>>
\* The connection is accepted, its thread opens the file and seeks its end.
OpenFile(c) ==
    /\ in[c] = "queued" /\ peer[Dst(c)] = "up"
    /\ in' = [in EXCEPT ![c] = "open"]
    /\ start' = [start EXCEPT ![c] = Len(file[Dst(c)])]
    /\ LET others == {d \in Links : d # c /\ Dst(d) = Dst(c) /\ Open(d)}
       IN  shared' = [d \in Links |-> IF d = c THEN others
                                      ELSE IF d \in others THEN shared[d] \cup {c}
                                      ELSE shared[d]]
    /\ UNCHANGED <<peer, stops, sendVars, wire, printed, flushed, file>>

\* recv() and fprintf(): the buffer of 128 bytes has no end mark, so more than the
\* bytes received may be printed.
Recv(c) ==
    /\ Open(c) /\ ~Overfull(c)
    /\ \E n \in 1..Len(wire[c]) :
        /\ \E ws \in Junked(SubSeq(wire[c], 1, n)) :
            printed' = [printed EXCEPT ![c] = @ \o ws]
        /\ wire' = [wire EXCEPT ![c] = SubSeq(@, n + 1, Len(@))]
    /\ UNCHANGED <<peer, stops, sendVars, in, start, flushed, file, shared>>

\* fprintf() writes the block that is full.
FlushBlock(c) ==
    /\ Open(c) /\ Overfull(c)
    /\ Flush(c, Room(c))
    /\ UNCHANGED <<peer, stops, sendVars, wire, in, start, printed, shared>>

\* The slip: the buffer is not written.
BugCloseFile(c) ==
    /\ Open(c) /\ ~Overfull(c)
    /\ Finished(c) /\ wire[c] = <<>>
    /\ in' = [in EXCEPT ![c] = "closed"]
    /\ UNCHANGED <<peer, stops, sendVars, wire, start, printed, flushed, file, shared>>
\* recv() returns 0; fclose() writes the rest.
CloseFile(c) ==
    /\ Open(c) /\ ~Overfull(c)
    /\ Finished(c) /\ wire[c] = <<>>
    /\ Flush(c, Buffered(c))
    /\ in' = [in EXCEPT ![c] = "closed"]
    /\ UNCHANGED <<peer, stops, sendVars, wire, start, printed, shared>>

-----------------------------------------------------------------------------
Connection(c) == Connect(c) \/ Send(c) \/ SendRefused(c) \/ CloseSend(c)
Process(c) == OpenFile(c) \/ Recv(c) \/ FlushBlock(c) \/ CloseFile(c)

Next ==
    \/ \E p \in Peers : Start(p) \/ Stop(p)
    \/ \E c \in Links : Connection(c) \/ Process(c)

Spec == Init /\ [][Next]_vars

\* All peers are started; the threads run.
Fairness ==
    /\ \A p \in Peers : WF_vars(Start(p))
    /\ \A c \in Links : WF_vars(Connection(c)) /\ WF_vars(Process(c))

FairSpec == Spec /\ Fairness

-----------------------------------------------------------------------------
(* Properties *)

TypeOK ==
    /\ peer \in [Peers -> {"off", "up", "gone"}]
    /\ stops \in 0..MaxStops
    /\ out \in [Links -> {"connect", "send", "closed"}]
    /\ sent \in [Links -> Nat]
    /\ refused \in [Links -> BOOLEAN]
    /\ wire \in [Links -> Seq(Words)]
    /\ in \in [Links -> {"none", "queued", "open", "closed"}]
    /\ start \in [Links -> Nat]
    /\ printed \in [Links -> Seq(Content)]
    /\ flushed \in [Links -> Nat]
    /\ file \in [Peers -> Seq(Content)]
    /\ shared \in [Links -> SUBSET Links]
    /\ \A c \in Links : /\ sent[c] <= Len(Text[Src(c)])
                       /\ flushed[c] <= Len(printed[c])
                       /\ start[c] + flushed[c] <= Len(file[Dst(c)])

\* The place i of the file is in the part that the thread of c has written.
Covers(c, i) == i \in start[c] + 1 .. start[c] + flushed[c]

\* Threads lose data to each other, by nobody's fault but that of an overlap:
\* what a thread has written stays in the file, unless a thread that had the file
\* open at the same time has written to that very place.
LostToOverlapOnly ==
    \A c \in Links : \A i \in 1..flushed[c] :
        LET k == start[c] + i IN
        \/ file[Dst(c)][k] = printed[c][i]
        \/ \E d \in shared[c] : Covers(d, k) /\ file[Dst(c)][k] = printed[d][k - start[d]]

\* What was in the file before stays, and every word behind it is one that a thread
\* has printed: no thread leaves a hole when it writes behind the end.
NothingStrange ==
    \A p \in Peers : \A i \in 1..Len(file[p]) :
        \/ i <= Len(Old[p]) /\ file[p][i] = Old[p][i]
        \/ \E c \in Links : /\ Dst(c) = p /\ i > Len(Old[p]) /\ Covers(c, i)
                            /\ file[p][i] = printed[c][i - start[c]]

\* The text shows the words in their order, and nothing but junk between them.
Shows(text, words) ==
    \E pos \in [1..Len(words) -> 1..Len(text)] :
        /\ \A k, l \in 1..Len(words) : k < l => pos[k] < pos[l]
        /\ \A k \in 1..Len(words) : text[pos[k]] = words[k]
        /\ \A i \in 1..Len(text) :
             text[i] = Junk \/ \E k \in 1..Len(words) : pos[k] = i

\* A connection whose sender has closed it has printed, junk apart, all the
\* words of the file in order, and written all it has printed.
ClosedIsComplete ==
    \A c \in Links :
        in[c] = "closed" =>
            /\ flushed[c] = Len(printed[c])
            /\ out[c] = "closed" => Shows(printed[c], Text[Src(c)])

\* If the user stops nobody, all words get to every peer; nobody is killed by a
\* SIGPIPE, and no thread waits for ever.
AllArrive == <>(stops > 0) \/ <>[](\A c \in Links : in[c] = "closed")

\* Whoever goes, a thread that has accepted a connection comes to its end, unless
\* its own peer goes.
ReadersEnd == \A c \in Links : in[c] = "open" ~> in[c] = "closed" \/ peer[Dst(c)] = "gone"

=============================================================================
