---------------------------- MODULE PeerDirectory ----------------------------
(***************************************************************************)
(* The file directory of exp4: a server that select()s over its sockets    *)
(* (server.c) and peers that register with it, look names up and connect   *)
(* to each other (peer.c).                                                 *)
(*                                                                         *)
(* A step is what one program does from one system call to the next.       *)
(* Packets have one size and arrive whole.  There are fewer peers than the *)
(* 50 entries of the server's table, and what lies behind the entries of   *)
(* the table, which is never initialised, is taken to hold no file.  An    *)
(* operator Bug... is a slip the one below it could have had.              *)
(***************************************************************************)
EXTENDS Integers, Sequences

CONSTANTS
    Peers,          \* the runs of peer.c
    Names,          \* the names looked for
    NoName,
    NoPort,         \* no answer
    NoOne,          \* no peer
    Registration,   \* the packet of type 1; one of type 2 is the name in it
    Port,           \* Port[p]: the argument of p, 0 if it is not a number
    Listed,         \* Listed[p]: the names strstr() finds in the list p registers
    MaxAsks,        \* bounds: MaxAsks[p], how often p asks
    MaxKills        \*         how many peers are killed

ASSUME NamesAssumption ==
    /\ NoName \notin Names /\ Registration \notin Names \cup {NoName}
    /\ NoOne \notin Peers /\ NoPort \notin Nat
ASSUME PeersAssumption ==
    /\ Port \in [Peers -> Nat]
    /\ Listed \in [Peers -> SUBSET Names]
    /\ MaxAsks \in [Peers -> Nat] /\ MaxKills \in Nat

VARIABLES
    at,         \* at[p]: where p is
    cause,      \* cause[p]: why it is gone
    asks,       \* asks[p], kills: how many there were
    kills,
    asked,      \* asked[p]: the name p asked for last
    fileport,   \* fileport[p]: the variable the answer is received into
    link,       \* link[p]: p's end of its connection to the server
    inbox,      \* inbox[p]: the packets of p the server has not read
    reply,      \* reply[p]: the answer p has not read
    hung,       \* hung[p]: how p's end of the connection was closed
    server,     \* "up" or "exited"
    queue,      \* the peers that wait for the server's accept()
    master,     \* the peers it has accepted
    head,       \* its table: the peers in the order of their registrations
    sent,       \* history: sent[p], the last answer sent to p
    calls,      \* calls[p]: the peers that wait for p's accept()
    callee,     \* callee[p]: the peer that getfile of p is connected to
    file,       \* file[p]: what has become of that connection
    ready       \* ready[p]: what select() has left in read_fds

serverVars == <<server, queue, master, head, sent>>
wireVars == <<link, inbox, reply, hung>>
askVars == <<asks, asked, fileport>>
fileVars == <<calls, callee, file, ready>>
vars == <<at, cause, kills, askVars, wireVars, serverVars, fileVars>>

Live(p) == at[p] \notin {"off", "gone"}

Goto(p, where) == at' = [at EXCEPT ![p] = where] /\ UNCHANGED cause

\* The end of p: a connection with unread data is reset, any other is closed.
Die(p, why) ==
    /\ at' = [at EXCEPT ![p] = "gone"]
    /\ cause' = [cause EXCEPT ![p] = why]
    /\ hung' = [hung EXCEPT ![p] = IF reply[p] # NoPort THEN "reset" ELSE "closed"]
    /\ file' = [c \in Peers |->
         IF callee[c] # p \/ file[c] \in {"none", "closed", "reset"} THEN file[c]
         ELSE IF file[c] = "read" \/ (file[c] = "accepted" /\ at[c] = "dialled")
              THEN "closed" ELSE "reset"]

Init ==
    /\ at = [p \in Peers |-> "off"]
    /\ cause = [p \in Peers |-> "none"]
    /\ asks = [p \in Peers |-> 0] /\ kills = 0
    /\ asked = [p \in Peers |-> NoName]
    /\ fileport = [p \in Peers |-> NoPort]
    /\ link = [p \in Peers |-> "none"]
    /\ inbox = [p \in Peers |-> <<>>]
    /\ reply = [p \in Peers |-> NoPort]
    /\ hung = [p \in Peers |-> "no"]
    /\ server = "up" /\ queue = {} /\ master = {} /\ head = <<>>
    /\ sent = [p \in Peers |-> NoPort]
    /\ calls = [p \in Peers |-> <<>>]
    /\ callee = [p \in Peers |-> NoOne]
    /\ file = [p \in Peers |-> "none"]
    /\ ready = [p \in Peers |-> {}]

-----------------------------------------------------------------------------
(* The server *)

Accept(p) ==
    /\ server = "up" /\ p \in queue
    /\ queue' = queue \ {p} /\ master' = master \cup {p}
    /\ UNCHANGED <<at, cause, kills, askVars, wireVars, server, head, sent, fileVars>>

Store(p) ==
    /\ server = "up" /\ p \in master /\ inbox[p] # <<>> /\ Head(inbox[p]) = Registration
    /\ head' = Append(head, p)
    /\ inbox' = [inbox EXCEPT ![p] = Tail(@)]
    /\ UNCHANGED <<at, cause, kills, askVars, link, reply, hung, server, queue, master,
                   sent, fileVars>>

\* find(): the first entry that has the name in its list; a port 0 is the end.
Stops(n) == {k \in 1..Len(head) : Port[head[k]] = 0 \/ n \in Listed[head[k]]}
First(ks) == CHOOSE k \in ks : \A l \in ks : k <= l
\* The slip: the first entry is never looked at.
BugFind(n) ==
    LET ks == Stops(n) \ {1} IN IF ks = {} THEN 0 ELSE Port[head[First(ks)]]
Find(n) == IF Stops(n) = {} THEN 0 ELSE Port[head[First(Stops(n))]]

\* The slip: there is no answer if nobody has the file.
BugLookUp(p) ==
    /\ server = "up" /\ p \in master /\ inbox[p] # <<>> /\ Head(inbox[p]) \in Names
    /\ LET port == Find(Head(inbox[p]))
       IN  IF port = 0 THEN UNCHANGED <<reply, sent>>
           ELSE /\ reply' = [reply EXCEPT ![p] = port]
                /\ sent' = [sent EXCEPT ![p] = port]
    /\ inbox' = [inbox EXCEPT ![p] = Tail(@)]
    /\ UNCHANGED <<at, cause, kills, askVars, link, hung, server, queue, master, head,
                   fileVars>>
LookUp(p) ==
    /\ server = "up" /\ p \in master /\ inbox[p] # <<>> /\ Head(inbox[p]) \in Names
    /\ LET port == Find(Head(inbox[p]))
       IN  /\ reply' = [reply EXCEPT ![p] = port]
           /\ sent' = [sent EXCEPT ![p] = port]
    /\ inbox' = [inbox EXCEPT ![p] = Tail(@)]
    /\ UNCHANGED <<at, cause, kills, askVars, link, hung, server, queue, master, head,
                   fileVars>>

\* recv() returns 0.
Drop(p) ==
    /\ server = "up" /\ p \in master /\ inbox[p] = <<>> /\ hung[p] = "closed"
    /\ master' = master \ {p}
    /\ UNCHANGED <<at, cause, kills, askVars, wireVars, server, queue, head, sent, fileVars>>

\* The slip: 0 is taken for an error too.
BugFail(p) ==
    /\ server = "up" /\ p \in master /\ inbox[p] = <<>> /\ hung[p] # "no"
    /\ server' = "exited"
    /\ UNCHANGED <<at, cause, kills, askVars, wireVars, queue, master, head, sent, fileVars>>
\* recv() returns -1, and that is the end of the server.
Fail(p) ==
    /\ server = "up" /\ p \in master /\ inbox[p] = <<>> /\ hung[p] = "reset"
    /\ server' = "exited"
    /\ link' = [c \in Peers |-> IF link[c] # "up" THEN link[c]
                                ELSE IF c \in queue \/ inbox[c] # <<>> THEN "reset"
                                ELSE "closed"]
    /\ UNCHANGED <<at, cause, kills, askVars, inbox, reply, hung, queue, master, head, sent,
                   fileVars>>

ServerStep(p) == Accept(p) \/ Store(p) \/ LookUp(p) \/ Drop(p) \/ Fail(p)

-----------------------------------------------------------------------------
(* A peer and the server *)

\* The slip: a peer only listens when it comes to select().
BugTaken(port) ==
    /\ port # 0
    /\ \E q \in Peers : /\ at[q] \in {"selecting", "accepting", "receiving", "reading", "spinning"}
                       /\ Port[q] = port
\* Somebody listens at the port; port 0 is any free port.
Taken(port) == port # 0 /\ \E q \in Peers : Live(q) /\ Port[q] = port

\* The slip: the result of bind() is not looked at.
BugStart(p) ==
    /\ at[p] = "off"
    /\ Goto(p, "listening")
    /\ UNCHANGED <<kills, askVars, wireVars, serverVars, fileVars>>
Start(p) ==
    /\ at[p] = "off"
    /\ IF Taken(Port[p]) THEN Die(p, "bind")
       ELSE Goto(p, "listening") /\ UNCHANGED <<hung, file>>
    /\ UNCHANGED <<kills, askVars, link, inbox, reply, serverVars, calls, callee, ready>>

Connect(p) ==
    /\ at[p] = "listening"
    /\ IF server = "up"
       THEN /\ Goto(p, "connected")
            /\ link' = [link EXCEPT ![p] = "up"]
            /\ queue' = queue \cup {p}
            /\ UNCHANGED <<hung, file>>
       ELSE Die(p, "connect") /\ UNCHANGED <<link, queue>>
    /\ UNCHANGED <<kills, askVars, inbox, reply, server, master, head, sent, calls, callee,
                   ready>>

\* send() to the server: what follows an error, or a reset, raises SIGPIPE.
Send(p, packet) ==
    /\ inbox' = IF link[p] = "up" THEN [inbox EXCEPT ![p] = Append(@, packet)] ELSE inbox
    /\ link' = IF link[p] = "up" THEN link ELSE [link EXCEPT ![p] = "broken"]

Register(p) ==
    /\ at[p] = "connected"
    /\ Send(p, Registration)
    /\ Goto(p, "idle")
    /\ UNCHANGED <<kills, askVars, reply, hung, serverVars, fileVars>>

Ask(p) ==
    /\ at[p] = "idle" /\ asks[p] < MaxAsks[p]
    /\ IF link[p] = "broken"
       THEN Die(p, "sigpipe") /\ UNCHANGED <<asks, asked, inbox, link>>
       ELSE /\ \E n \in Names : /\ asked' = [asked EXCEPT ![p] = n]
                                /\ Send(p, n)
            /\ asks' = [asks EXCEPT ![p] = @ + 1]
            /\ Goto(p, "asking")
            /\ UNCHANGED <<hung, file>>
    /\ UNCHANGED <<kills, fileport, reply, serverVars, calls, callee, ready>>

\* The slip: a packet of 4 bytes is looked at and left where it is (MSG_PEEK).
BugReceive(p) ==
    /\ at[p] = "asking" /\ reply[p] # NoPort
    /\ fileport' = [fileport EXCEPT ![p] = reply[p]]
    /\ Goto(p, "told")
    /\ UNCHANGED <<kills, asks, asked, wireVars, hung, serverVars, fileVars>>
\* Without an answer fileport is what it was, which at the first time is anything.
Receive(p) ==
    /\ at[p] = "asking" /\ (reply[p] # NoPort \/ link[p] # "up")
    /\ \E port \in {0} \cup {Port[q] : q \in Peers} :
        /\ reply[p] # NoPort => port = reply[p]
        /\ reply[p] = NoPort /\ fileport[p] # NoPort => port = fileport[p]
        /\ fileport' = [fileport EXCEPT ![p] = port]
    /\ reply' = [reply EXCEPT ![p] = NoPort]
    /\ link' = IF reply[p] = NoPort /\ link[p] = "reset" THEN [link EXCEPT ![p] = "broken"]
               ELSE link
    /\ Goto(p, "told")
    /\ UNCHANGED <<kills, asks, asked, inbox, hung, serverVars, fileVars>>

Decline(p) ==
    /\ at[p] = "told"
    /\ Goto(p, "idle")
    /\ UNCHANGED <<kills, askVars, wireVars, serverVars, fileVars>>

Kill(p) ==
    /\ Live(p) /\ kills < MaxKills
    /\ kills' = kills + 1
    /\ Die(p, "killed")
    /\ UNCHANGED <<askVars, link, inbox, reply, serverVars, calls, callee, ready>>

-----------------------------------------------------------------------------
(* Peers with each other *)

Dial(p) ==
    /\ at[p] = "told"
    /\ IF Taken(fileport[p])
       THEN \E q \in Peers :
            /\ Live(q) /\ Port[q] = fileport[p]
            /\ calls' = [calls EXCEPT ![q] = Append(@, p)]
            /\ callee' = [callee EXCEPT ![p] = q]
            /\ file' = [file EXCEPT ![p] = "queued"]
            /\ Goto(p, "dialled") /\ UNCHANGED hung
       ELSE Die(p, "refused") /\ UNCHANGED <<calls, callee>>
    /\ UNCHANGED <<kills, askVars, link, inbox, reply, serverVars, ready>>

SendFileRequest(p) ==
    /\ at[p] = "dialled"
    /\ IF file[p] = "reset" THEN Die(p, "file request")
       ELSE Goto(p, "selecting") /\ UNCHANGED <<hung, file>>
    /\ UNCHANGED <<kills, askVars, link, inbox, reply, serverVars, calls, callee, ready>>

\* What the loop over read_fds finds in it, from the listening socket on.
Scan(left) ==
    IF "calls" \in left THEN "accepting" ELSE IF "file" \in left THEN "reading"
    ELSE "spinning"

\* write_fds is never initialised: what is in it may end select() at once.
Select(p) ==
    /\ at[p] = "selecting"
    /\ LET left == (IF calls[p] # <<>> THEN {"calls"} ELSE {})
                   \cup (IF file[p] \in {"closed", "reset"} THEN {"file"} ELSE {})
       IN  ready' = [ready EXCEPT ![p] = left] /\ Goto(p, Scan(left))
    /\ UNCHANGED <<kills, askVars, wireVars, serverVars, calls, callee, file>>

\* The loop never calls select() again: it accepts once more in every round.
AcceptCall(p) ==
    /\ at[p] = "accepting" /\ calls[p] # <<>>
    /\ LET c == Head(calls[p])
       IN  file' = [file EXCEPT ![c] = IF @ = "queued" THEN "accepted" ELSE @]
    /\ Goto(p, "receiving")
    /\ UNCHANGED <<kills, askVars, wireVars, serverVars, calls, callee, ready>>

ReceiveCall(p) ==
    /\ at[p] = "receiving" /\ at[Head(calls[p])] # "dialled"
    /\ LET c == Head(calls[p])
       IN  file' = [file EXCEPT ![c] = IF @ = "accepted" THEN "read" ELSE @]
    /\ calls' = [calls EXCEPT ![p] = Tail(@)]
    /\ Goto(p, IF "file" \in ready[p] THEN "reading" ELSE "accepting")
    /\ UNCHANGED <<kills, askVars, wireVars, serverVars, callee, ready>>

\* recv() returns 0 in every round, or -1; write_fds may hold getfile, and then put,
\* which is not initialised either, is read.
ReadFile(p) ==
    /\ at[p] = "reading"
    /\ \/ file[p] = "closed" /\ Goto(p, Scan(ready[p])) /\ UNCHANGED <<hung, file>>
       \/ Die(p, "file")
    /\ UNCHANGED <<kills, askVars, link, inbox, reply, serverVars, calls, callee, ready>>

FileStep(p) ==
    \/ SendFileRequest(p) \/ Select(p) \/ AcceptCall(p) \/ ReceiveCall(p) \/ ReadFile(p)

-----------------------------------------------------------------------------
Next ==
    \E p \in Peers :
        \/ ServerStep(p) \/ FileStep(p)
        \/ Start(p) \/ Connect(p) \/ Register(p) \/ Ask(p) \/ Receive(p) \/ Decline(p)
        \/ Dial(p) \/ Kill(p)

Spec == Init /\ [][Next]_vars

\* The programs run: the server looks at every socket in each round of its loop.
\* What the users type, and when, is up to them.
Fairness ==
    \A p \in Peers :
        /\ WF_vars(Accept(p)) /\ WF_vars(Store(p) \/ LookUp(p)) /\ WF_vars(Drop(p) \/ Fail(p))
        /\ WF_vars(Connect(p)) /\ WF_vars(Register(p)) /\ WF_vars(Receive(p))
        /\ WF_vars(FileStep(p))

FairSpec == Spec /\ Fairness

-----------------------------------------------------------------------------
(* Properties *)

States == {"off", "listening", "connected", "idle", "asking", "told", "dialled", "selecting",
           "accepting", "receiving", "reading", "spinning", "gone"}
Causes == {"none", "killed", "bind", "connect", "sigpipe", "refused", "file request", "file"}

Ports == {0} \cup {Port[q] : q \in Peers}

\* The types; the table has no peer twice, and no peer has more to read than one
\* answer, or more to be read than its registration and one name.
TypeOK ==
    /\ at \in [Peers -> States] /\ cause \in [Peers -> Causes]
    /\ \A p \in Peers : at[p] = "gone" <=> cause[p] # "none"
    /\ asks \in [Peers -> Nat] /\ kills \in Nat
    /\ asked \in [Peers -> Names \cup {NoName}]
    /\ fileport \in [Peers -> Ports \cup {NoPort}]
    /\ link \in [Peers -> {"none", "up", "closed", "reset", "broken"}]
    /\ inbox \in [Peers -> Seq(Names \cup {Registration})]
    /\ \A p \in Peers : Len(inbox[p]) <= 2
    /\ reply \in [Peers -> Ports \cup {NoPort}]
    /\ \A p \in Peers : reply[p] # NoPort => at[p] \in {"asking", "gone"}
    /\ hung \in [Peers -> {"no", "closed", "reset"}]
    /\ server \in {"up", "exited"}
    /\ queue \subseteq Peers /\ master \subseteq Peers /\ queue \cap master = {}
    /\ head \in Seq(Peers)
    /\ \A k, l \in 1..Len(head) : head[k] = head[l] => k = l
    /\ sent \in [Peers -> Ports \cup {NoPort}]
    /\ calls \in [Peers -> Seq(Peers)]
    /\ \A p \in Peers : at[p] = "receiving" => calls[p] # <<>>
    /\ callee \in [Peers -> Peers \cup {NoOne}]
    /\ file \in [Peers -> {"none", "queued", "accepted", "read", "closed", "reset"}]
    /\ ready \in [Peers -> SUBSET {"calls", "file"}]

Entries == {head[k] : k \in 1..Len(head)}
Departed == {q \in Entries : at[q] = "gone"}

\* Nothing is ever taken out of the table.  As long as nobody in it has gone, a peer
\* that has been told a port finds somebody there who has the file it asked for.
ToldWell ==
    Departed = {} =>
        \A p \in Peers : at[p] = "told" /\ fileport[p] # 0 =>
            /\ Taken(fileport[p])
            /\ \A q \in Peers : Live(q) /\ Port[q] = fileport[p] => asked[p] \in Listed[q]

\* Why peers end: the errors that errorrep() and SIGPIPE make the end of a program
\* come from somebody else's end, from a port used twice, or from a name nobody has.
EndsExplained ==
    \A p \in Peers :
        /\ cause[p] = "bind" => \E q \in Peers \ {p} : at[q] # "off" /\ Port[q] = Port[p]
        /\ cause[p] \in {"connect", "sigpipe"} => server = "exited"
        /\ cause[p] = "refused" =>
            \/ fileport[p] = 0 \/ server = "exited"
            \/ \E q \in Departed : Port[q] = fileport[p]
        /\ cause[p] \in {"file request", "file"} => at[callee[p]] = "gone"

\* The server ends only behind a peer that was killed with an answer to read: the
\* connections of all others are closed, not reset.
OnlyKillEndsServer ==
    server = "exited" => \E p \in Peers : cause[p] = "killed" /\ hung[p] = "reset"

\* The server implements the directory: what is in the sockets, and the order of the
\* table, cannot be seen from outside.
DirectorySpec == INSTANCE Directory WITH
    entries <- Entries,
    wish <- [p \in Peers |->
               IF inbox[p] # <<>> /\ inbox[p][Len(inbox[p])] \in Names
               THEN inbox[p][Len(inbox[p])] ELSE NoName],
    told <- sent
ImplementsDirectory == DirectorySpec!Spec

\* A peer that asks is answered, or learns that the server has gone: it never waits
\* in recv() for ever.
Answered == \A p \in Peers : at[p] = "asking" ~> at[p] # "asking"

\* "the requesting peer should make a connection [to] the peer having the queried file
\* and sent a type 2 packet to request the file": a peer whose request another peer has
\* read gets its file and is back at its menu, unless one of the two ends.
TransferEnds ==
    \A p, q \in Peers :
        file[p] = "read" /\ callee[p] = q /\ p # q
            ~> at[p] \in {"idle", "gone"} \/ ~Live(q)

=============================================================================
