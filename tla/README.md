# networking_lab in TLA+

The repository is a set of small C programs for a networks course: clients,
servers, peers and proxies over BSD sockets, one directory for each experiment.
Every program is one `main()` around a loop of blocking system calls; what makes
them hard is what happens between two of these calls, in the other programs and
in the kernel. This project models those interleavings.

## Inventory

| Component | Sources | State | Operations | Interaction |
|---|---|---|---|---|
| Selective-repeat file exchange | `exp5/5_120599C.c`, `exp5/5_120599S.c` | `datato`, `datafrom` (100 slots each, `sno`/`ackno`), `sendbase`, `nextseq`, `read_fds`/`master_fds`, the struct `incomming` | `makepackets`, `ackprocess`, `dataprocess`, `sendpacket`, the polling loop | one TCP connection, each program sends its file to the other |
| Iterative name lookup | `exp2/2_120599_{CLIENT,SERVER,TLD}_1.c` | the file `DNS` (a cache), the file `HDNS`, the addresses `clientadr`, `tldadr` | `nslookup` at the client; look up, ask the TLD server, append, reply | UDP; a request is two datagrams (a command bit, a host name) |
| Threaded peer mesh | `proxy1.c` to `proxy4.c` | `peerN` (read), `rcvN` (written by all threads), one `FILE*` and offset in each thread | `connection` (connect, send all words), `process` (receive and write), accept loop | TCP between peers; the threads of a peer share a file |
| Select peer mesh | `peers/4_120599P_{1,2,3,4}_1.c` | `read_fds`, `connections`, `rcvN` | accept (which also connects to the next peer), receive 4 bytes, send the next 4 bytes to all | TCP between four peers |
| File directory | `exp4/server.c`, `exp4/peer.c` | `head[50]`, `peercnt` | register, look up, connection closed; at a peer: ask, download, serve | TCP to the server and between peers |
| Filtering HTTP proxy | `exp3/3_120599_SERVER_1.c` | none between requests | accept, `check`, parse, connect to the host, relay | browser, DNS, origin server |
| Login and upload | `exp2/120599C.c`, `exp2/120599S.c` | the logged-in flag, files | command shell | UDP |
| File reversal | `exp1/client.c`, `exp1/server.c` | none | one request, one reply | TCP |

Drafts (`*~`, `*.bak`, `client1.c`, `peer.c`, `test/`, ...) are earlier copies of
these programs; `ns/` is the unchanged ns-2 simulator.

Hard behaviours and what makes each component correct:

* **File exchange.** Both programs block in `send()` and `recv()`; packets are
  sent before their turn and more than once; the programs exit without waiting
  for each other, so end of file, `ECONNRESET` and `SIGPIPE` are part of every
  run. Correct: both files arrive in order, nothing unreceived is taken for
  acknowledged, the window is respected, the two never wait for each other, and
  both end.
* **Name lookup.** Two datagrams per request and no request numbers; the answer
  of the TLD server is "the next datagram". Correct: the address shown is that
  of the name asked for; the cache holds only what the TLD server said.
* **Threaded mesh.** Threads write to one file through buffers of their own, at
  offsets taken when they start. Correct: every word sent is in the file once all
  threads are done; where threads overlap, they damage each other's words only.
* **Select mesh.** `select()` is called on a set that it overwrites; an accepted
  connection is read at once; the `connect()` calls are ordered by a counter.
  Correct: the mesh gets complete, and every word reaches each peer. (It does not
  and they do not: see below.)
* **Directory.** A table without bound or removal, searched up to a sentinel that
  nothing wrote; a peer's error is the end of its program, and may be that of the
  server. Correct: a look-up returns a peer that registered the file, and no end
  of a program is the end of another one without a reason.
* **Proxy.** One browser at a time, with a time limit; `check` finds the word if
  and only if the URI contains it; a request that passes is relayed byte by byte.

`PROJECT.json` lists the hazards, each at its line, with the properties that are
about it.

## Modules and plan

| Component | Abstract | Model | For TLC | Theorems |
|---|---|---|---|---|
| File exchange | `ReliableTransfer` | `SelectiveRepeat`, `ResendRecord` | `MCSelectiveRepeat` | `SelectiveRepeatProofs`, `WindowProofs`, `FlowProofs` |
| Name lookup | `Resolver` | `DnsLookup` | `MCDnsLookup` | `DnsLookupProofs` |
| Threaded mesh | | `ProxyMesh` | `MCProxyMesh` | `ProxyMeshProofs` |
| Select mesh | | `SelectMesh` | | `SelectMeshProofs` |
| Directory | `Directory` | `PeerDirectory` | `MCPeerDirectory` | `PeerDirectoryProofs` |
| HTTP proxy | | `HttpProxy` | `MCHttpProxy` | `HttpProxyProofs` |

Definitions called `Bug...` are slips that the definition below them could have
had; they are used by no specification, and show that a property would notice.

All of the plan's components are modelled. Left for later: a shell of the lookup
that is killed while it waits; a second client of the file exchange, which takes
over `sendsocket`, and a `recv()` that returns part of a packet; restarts in the
two meshes.

## The selective-repeat exchange

### Modules

* `ReliableTransfer`: what the exchange promises. Per end, the packets delivered
  and those confirmed; `Deliver` and `Confirm` add the next one, in order.
* `SelectiveRepeat`: the two programs and the connection. A step is what one
  process does from one system call to the next; only system calls let the two
  see each other.
* `MCSelectiveRepeat`: sizes for TLC. `ResendRecord`: the same, with a record of
  what each call of `sendpacket()` sends.
* `SelectiveRepeatProofs`, `WindowProofs`, `FlowProofs`: the theorems.

### State and actions

| Model | Code |
|---|---|
| `acked[e]`, `got[e]` | slots of `datato`, of `datafrom`, with `ackno` 1 |
| `base`, `nextseq` | `sendbase`, `nextseq` |
| `resend` | sends left in the `for` loop of `sendpacket` |
| `polls` | iterations left of `for(z=0;z<window*3;z++)` that still watch the socket |
| `master` | the connection is in `master_fds` |
| `last` | the struct `incomming`, which keeps its contents between iterations |
| `queue`, `link` | receive queue and state of the connection (kernel) |
| `StartListen`, `Connect`, `Accept` | up to the first round of polls |
| `Recv`, `RecvEOF`, `RecvError`, `PollTimeout`, `SendAck` | one poll |
| `BeginSend`, `Resend`, `SendNext`, `NextRound`, `Finish`, `SigPipe` | `sendpacket` |

Payloads are left out: a packet is known by its number. The kernel part (`Put`,
`Exit`, `SigPipe`) is external: what TCP over loopback does. `send()` blocks on a
full buffer. A process that ends with unread packets resets the connection
(`err`), otherwise closes it (`fin`); the first `send()` after that fails or is
lost, the next one raises `SIGPIPE`. What is in a receive queue survives both.
`select()` may time out whenever nothing is to be read: the timeout of 1 second
is shared by all calls (Linux updates it), so later calls do not wait at all.
The busy wait of `rtt` seconds only delays, and delays are arbitrary here.

### Runs

| Run | Instance | Shows |
|---|---|---|
| `selective_repeat` | 5 and 4 packets, windows 2 and 1, sockets of 4 packets; about 204 000 states | type invariant, inductive invariant, the window, delivery, no mutual blocking and the bound on what is in the sockets (`Load`) that it follows from, refinement of `ReliableTransfer`, termination |
| `short_files` | 1 packet against 3, windows 2 | the early exits: an end may be gone before the other has received or sent anything |
| `resend_record` | as `selective_repeat` | expected violation of `WindowResent` |

The bounds: windows 2 and 1 make a full window, an unequal pair, `base` past
`nextseq` and several rounds occur; five packets make the window move over
acknowledged and unacknowledged slots before the end; `Slots` is two more than
the longer file, so the free slot behind the last packet is in the model.
`short_files` is there because with longer files acks are needed before an end
can exit, so end of file never meets an empty `incomming`.

`CHECK_DEADLOCK FALSE`: both programs stop. That they stop only at their end is
`Termination`, and `NoSendDeadlock` for the case of two blocked `send()` calls.

`NoSendDeadlock` depends on the sizes. With longer files (7 and 7 packets), TLC
finds the two blocked in `send()` when a socket holds no more than 2 packets for
windows 1 and 1, 3 for 2 and 1, 5 for 2 and 2, 3 and 1 or 3 and 2, and 6 for 3
and 3; one packet more and they are not. `NoDeadlock` below gives a size that is
enough for any files: with windows of 2 or more, `3 * (Wc + Ws) + 3` packets. A
packet is 28 bytes, so for windows as large as the files can be (99 packets) that
is 597 packets or about 17 kB.

Fairness: weak fairness of each process as a whole (`Poll \/ SendPacket`), not of
each action: the operating system runs a process that is not blocked, and the
program then takes the step that is next. Nothing is assumed about time.

### Finding

`sendpacket()` walks over the unacknowledged packets `i` of the window and sends
`buffer+next` for each of them (`exp5/5_120599C.c:86-87`), where the design has it
send the packets of the window that are not acknowledged
(`exp5/5_120599D.txt:11`, `:22`). `resend_record` shows a call of `sendpacket()`
that leaves out packet 0, unacknowledged, and sends packet 1 in its place, which
is outside a window of 1. Over TCP nothing is lost, so both files still arrive:
`ImplementsTransfer` holds.

### Proofs

For all sizes (files that fit the buffer, any windows, any socket buffers), from
`EndsAssumption`, `SizesAssumption` and `NoPackAssumption` only:

* `IInvInvariant`: the inductive invariant `IInv`;
* `TypeCorrect`, `AckedIsDelivered`, `SentIsNotSkipped`, `EOFFindsPacket`;
* `OneEndCompletes`, by an invariant of its own on top of `IInv`;
* `ImplementsReliableTransfer`: step simulation of `ReliableTransfer`;
* `WindowIsExact`, in `WindowProofs`;
* `LoadBounded` and `NoDeadlock`, in `FlowProofs`. `NoDeadlock` has the hypothesis
  `Roomy`, that the sockets are large enough for the windows.

None of the properties is inductive. That an acknowledged packet is stored
depends on the acks in the queue, those on what the receiver has stored, that on
the data in the other queue being in the order of the file although packet
`nextseq` is sent early and repeatedly. `IInv` states this along the way of a
packet: `DataOK` and `SentOK` for data in the queue, `PrefixOK` for the buffers,
`AckOK` and `AckSentOK` for acks, `LastOK` for `incomming` (needed because the end
of file code processes it again), `LinkOK` and `SendOK` for where the two programs
are. The step proof has one lemma for each kind of step: `RecvStep`, `EOFStep`,
`ResendStep`, `SendAckStep`, `EndStep`, `LocalStep`. `WindowProofs` adds that
nothing stored or on its way is numbered above `nextseq`, so that `base` can pass
`nextseq` by one at most.

That the two ends do not wait for each other is an argument about quantities. A
data packet that is read lets this end send its ack, and uses up a poll; an ack
that is read moves `base` by at most one packet, and so lets at most one more data
packet be sent in the next `sendpacket()`. So a data packet in a socket is given
the weight 3 and an ack 2 (`Weight`), and each end a claim, the weight of what it
may send before it has to read again (`Claim`). `Load` bounds the sum of the weights
and the claims. No step adds to the sum, except `PollTimeout`, which throws away the
polls of the round, and it needs an empty socket: what is left then is the other
socket, and what the two windows let be sent. If both ends were blocked, both
sockets would be full, which is more than `Load` allows if `Roomy` holds. The proof
also needs `Flow` (what a socket, a round of polls and a `for` loop of
`sendpacket()` hold at most) and `WindowIsExact`, because `base` past `nextseq` adds to
the claim. For a window of 1, `base` itself is part of the bound (`Past`): there
every ack opens the window at once, and lets more be sent, by a weight of 1, than was
read, so that the sum may grow by one with each packet acknowledged; `Roomy` asks for room
for the packets of the file in that case, and only then. `Roomy` is enough but more
than is needed: `selective_repeat` checks `NoSendDeadlock` for sockets of 4 packets.

Model-checked only: `Termination` (liveness).

### Not modelled

* Files of 100 or more packets: `makepackets()` writes past its buffer.
  `SizesAssumption` keeps one slot free.
* A `recv()` that returns part of a packet.
* A second client at the server, which would share `sendbase` and both buffers.
* Window sizes below 1, failing `socket()`/`bind()`/`listen()`/`select()`.

## The name lookup

### Modules

* `Resolver`: what the lookup promises. A shell asks for a name and is shown the
  address that the two files give for it.
* `DnsLookup`: the shells, the server with its cache, the TLD server, and the
  datagrams waiting at each socket. `MCDnsLookup`: names and files for TLC.
  `DnsLookupProofs`: the theorems.

### State and actions

| Model | Code |
|---|---|
| `shell[c]`, `server`, `tld` | where each program is: the system call it does next |
| `asked[c]`, `ip[c]` | `hostname` and `ip` of the shell |
| `hostname`, `address` | `hostname` and `ip` of the server |
| `clientadr`, `tldadr`, `tldclient` | the address structs that `recvfrom()` overwrites |
| `dns`, `Hdns` | the words of the files `DNS` and `HDNS` |
| `inbox[p]` | the socket's receive queue (kernel) |
| `Nslookup`, `SendName`, `Show`, `ExitShell` | the shell: command bit, host name, reply, `exit` |
| `ServerBit`, `ServerName` | the two `recvfrom()` of a request |
| `ServerFound` | the look-up finds the name and replies |
| `ServerAskBit`, `ServerAskName`, `ServerAnswer`, `ServerTell` | a miss: ask the TLD server, take the next datagram for its answer, append, reply |
| `TldBit`, `TldName`, `TldReply` | the TLD server |

A string is a value. Three things about strings matter and are constants: `Over`,
a buffer whose first character the one-byte datagram has overwritten; `Words`,
what `fscanf("%s")` makes of a string; and that "not found" is two words. The
files are sequences of words, read in pairs. `saddr` of the shell is left out:
only the server ever sends to a shell. Buffers declared in the loops keep their
contents from one iteration to the next; no reply depends on it in `dns_lookup`.

### Runs

| Run | Instance | Shows |
|---|---|---|
| `dns_lookup` | one shell, one name in `DNS`, two in `HDNS`, one in neither; about 1 500 states | type invariant, exactness of the cache, refinement of `Resolver`, every question answered |
| `two_shells` | the same with two shells | expected violation of `CacheExact` |

Nothing is bounded: one shell has one question open at a time, so the queues stay
short, and the cache cannot grow beyond the names there are, which is what
`CacheExact` says. Four names give a hit, a miss that is learned, a miss that
is not, and two hosts that share an address; the order in which names are learned
changes what the file looks like. Deadlock is checked: some program can always
go on.

Fairness: weak fairness of each server and of a shell that has begun a request;
what the user types is not assumed. Both servers run and no datagram is lost: on
loopback a datagram is lost only if a socket's buffer is full or nobody has the
port.

### Finding

The server does not look at who sent the datagram it takes for the TLD server's
answer (`exp2/2_120599_SERVER_1.c:103`); the design has it handle the response to
its request (`exp2/2_120599_DESIGN_1.pdf`, page 1, Server, items 8 to 10). In
`two_shells`, the datagrams of a second shell become a host name and an address
and go to `DNS`. A second shell does run: it binds the same port 1111, and the
failure of `bind()` is only printed (`exp2/2_120599_CLIENT_1.c:26-28`), so its
socket gets a port of its own at its first `sendto()`.

### Proofs

For any strings, any names and any two files of pairs, under two hypotheses:
`OneShell` (there is one; with two, `two_shells` shows that the properties fail) and
`OneAddress` (the first file does not give a name twice; a cache that did would not
be exact from the start). `TypeCorrect`, `CacheIsExact` and `ImplementsTheResolver`
(step simulation of `Resolver`).

No program looks at who sent a datagram, so no property is inductive: the answer
that the server stores is right only because nothing else can be in its socket.
The invariant therefore says where the request is at every moment: which stage each
program is in together with everything that is in the three sockets (`Early`,
`Asks`, `Answering`), that the name at the server is the one asked and not in its
cache as long as the TLD server is at work (`Request`), and that the cache has
forgotten nothing of its first file (`Cache`), so that a miss there is a miss in
the zone's first file too.

Model-checked only: the liveness of `Answered`.

### Not modelled

* A shell killed while it waits: started again on the same port it may take the
  late reply for the answer to its next question.
* A server that is not running, so that `recvfrom()` waits for ever.
* A restart of the server, and when the appended pair gets from the buffer of the
  C library to the file (at the next `fseek()`; only the server reads the file).
* Names of 30 characters or more, which write past the shell's buffer.

## The threaded mesh

### State and actions

`ProxyMesh` has one connection for each pair in `Targets`; a connection has a
sending thread `connection()` at one peer and a receiving one `process()` at the
other.

| Model | Code |
|---|---|
| `peer[p]`, `stops` | the process of peer `p`: not started, running, gone |
| `out[c]`, `sent[c]`, `refused[c]` | where `connection()` is, how far it is in `peerN`, whether it has sent to a peer that is gone |
| `wire[c]` | the words in the connection (kernel) |
| `in[c]` | where `process()` is: waiting for `accept()`, open, closed |
| `start[c]`, `printed[c]`, `flushed[c]` | the offset of its `FILE` after `fseek()`, what it printed, how much of it is in the file |
| `file[p]` | `rcvN` |
| `shared[c]` | history: the threads that had the file open together with it |
| `Start`, `Connect`, `Send`, `CloseSend` | `main()`, `connection()`; `connect()` is retried |
| `SendRefused` | `send()` to a peer that is gone: lost, then `SIGPIPE` ends the peer with all threads |
| `OpenFile`, `Recv`, `FlushBlock`, `CloseFile` | `accept()` with `fopen()`/`fseek()`, `recv()` with `fprintf()`, a full buffer, `fclose()` |
| `Stop` | a user's signal |

A word is the unit of data, and `Block` words a buffer of the C library, which
writes when a byte more comes than fits up to the next multiple of the block in
the file. The receive buffer is not terminated: `fprintf("%s")` may print `Junk`
behind what came. The uninitialised `addr_len` of `accept()` (`proxy1.c:221`) has
no effect on what is modelled: the address is not used.

### Run

`proxy_mesh`: three peers, two connections to one file and one to another, files
of 1 and 2 words, blocks of 2, one stop; about 77 000 states. Two writers at one
file are the smallest overlap, two words and a block of two make partial and full
flushes and a `SIGPIPE` (the second lost word) occur, the file that is not empty
makes an offset inside a block.

Fairness: the users start all peers, and the threads run (weak fairness of each
thread, since a thread that is not blocked is scheduled). `AllArrive` is about runs
in which nobody is stopped. `CHECK_DEADLOCK FALSE`: peers never end by themselves,
they wait in `accept()` when all is done.

### Proofs

For any peers, targets, texts, block size and number of stops: `TypeCorrect`,
`LossNeedsOverlap` (what a thread has written stays, unless one that had the file
open at the same time wrote to that place), `OldContentsStay` (the old contents
stay and there are no holes), `AloneIsWhole` (a thread that never shared the
file has all it wrote in it) and `ClosedIsWhole` (a thread that has closed its file
has written all that was sent to it). `LostToOverlapOnly` is not inductive: a write
damages what is behind the offset of its thread, so the invariant needs that a
thread starts at or behind everything written by threads that are closed
(`Ordered`), that two threads know of each other (`Mutual`), that nothing is
recorded for threads not started (`NotStarted`, `Unconnected`), and that the old
contents come first (`OldFirst`). `ClosedIsComplete` follows from where the words of a
connection are at every moment (`Whole`): those that were sent are shown by what was
printed, in order, and the rest of them is in the connection. It says "shown" with
the positions at which the words stand (`Shows`), not with `SelectSeq`, which is a
recursive operator and so out of the provers' reach.

Model-checked only: the liveness of `AllArrive` and `ReadersEnd`.

### Not modelled

`recv()` that returns -1 (the thread then loops, `proxy1.c:77`), `fopen()` that
fails, a peer that is started a second time.

## The select mesh

### State and actions

`SelectMesh` is the four programs at once, whose only differences are the lists
`Startup` and `OnAccept`: whom a peer connects to, and waits for, before its loop,
and whom it connects to with each connection it accepts. A connection goes one
way.

| Model | Code |
|---|---|
| `pc[p]`, `done[p]` | before the loop, in `select()`, in the loop over the descriptors, before one of the three `send()`, ended |
| `table[p]` | the descriptors behind the four sockets made first, files among them |
| `connections[p]`, `read_fds[p]`, `i[p]` | the variables of that name |
| `out[p]` | which of the three `send()` is next |
| `link`, `backlog`, `wire`, `rcv` | connections, those not accepted yet, words on their way, the file `rcvN` |
| `Start`, `Connect`, `ConnectFails`, `AcceptFirst` | up to the loop |
| `Select`, `Accept`, `Recv`, `NextPass` | one round of the loop |
| `Send`, `SigPipe` | the three `send()` of a peer with all its connections |
| `Kill` | a user's signal |

Descriptors have their numbers because the loop goes through them in order: which
one is free when a connection is accepted decides whether it is met in the round
that has begun. The word that is sent is not modelled: nobody gets one.

### What it shows

`accept()` puts the new connection into `read_fds`, the very set the loop is going
through (`peers/4_120599P_1_1.c:222`), and so calls `recv()` on it in the same
round. `recv()` blocks until the other side sends, which it does only when it has
three connections, or ends. It follows, and is proved for any number of stops,
that no word is ever sent to a peer that could receive it (`NothingArrives`: the
files `rcv1` to `rcv4` in the repository are empty), and that the mesh grows only
as peers end (`OneAtATime`). `FirstTwoListen` says that peers 1 and 2 never lose
their listener in spite of `select()` on a set that is never restored; peer 3 may.
These are not reported as a finding, because no document of the repository says
anything of these programs that they contradict.

### Run and proofs

`select_mesh`: the four peers, started in any order, three of them stopped at any
time; about 7 200 states. There are no constants but `MaxKills`, and a fourth stop
would leave nobody. `ComesToRest` needs no fairness: it says that no behaviour goes
on changing state for ever. `WearsOut` says why, step by step: `Work` adds up, for
each peer, six for every connection it can still accept or has still to drop, and
the steps up to the next of these (`Pace`), and every step makes it less. A
`select()` that returned for nothing, or an ended connection that stayed in the
set, would break it. `CHECK_DEADLOCK FALSE`: the peers end up all blocked, which is
the point.

`Invariant`, `TypeCorrect`, `NothingEverArrives`, `GrowsOneAtATime`,
`FirstTwoHear`, `WorkBounded` and `EveryStepCounts` hold for any `MaxKills`. The inductive invariant has a part about
bookkeeping, `Base`: no connection is made before its turn and so none twice
(`Dialled`), nobody waits twice in a backlog (`QueueOK`), `connections` counts the
peers accepted (`Counts`), descriptors mean what they should (`Tables`,
`Watched`); and a part about who waits for whom: all that the first two have
accepted are gone, or all but the one whose `recv()` they are in (`FirstTwo`); so
not both of them come to connect to the fourth (`Apart`), which therefore waits
for ever for its second connection (`Fourth`), so that the third lacks one.

`EveryStepCounts` adds to it that a round which begins has something to look at
(`Fresh`), so that none goes by for nothing; that a step touches the work of its own
peer only; and that `Work` begins at 196 (`WorkBounded`). With `NothingArrives`, a
`recv()` that returns always drops a connection, without which words could keep the
loops going.

Model-checked only: `ComesToRest`. It follows from `WorkBounded` and
`EveryStepCounts`, because no natural number can become less for ever, but that
last step is an induction the provers cannot be given.

### Not modelled

A peer that is started a second time, and `fopen()` or `bind()` that fails.

## The file directory

### State and actions

`Directory` promises: a peer that asks is told the port of a registered peer that
has the file, and 0 only if there is none (or a port 0 hides it).
`PeerDirectory` is `server.c` and the runs of `peer.c`.

| Model | Code |
|---|---|
| `at[p]`, `cause[p]` | where the peer is, and why it is gone |
| `asked[p]`, `fileport[p]` | the name asked for, the variable the answer is received into |
| `link`, `inbox`, `reply`, `hung` | the connection to the server, what is in it, how it ended (kernel) |
| `server`, `queue`, `master`, `head` | the server, connections it has not accepted and has, its table |
| `sent[p]` | history: the last answer sent |
| `calls`, `callee`, `file`, `ready` | connections between peers, what `select()` left |
| `Accept`, `Store`, `LookUp`, `Drop`, `Fail` | the server's loop |
| `Start`, `Connect`, `Register`, `Ask`, `Receive`, `Decline` | a peer and the server |
| `Dial`, `SendFileRequest`, `Select`, `AcceptCall`, `ReceiveCall`, `ReadFile` | a peer and the peer that has the file |
| `Kill` | a signal |

`Listed[p]` is what `strstr()` finds in the list that `p` registers. A process that
ends with unread data resets its connection, and a reset is what makes the server's
`recv()` return -1 and the server exit. What the code leaves uninitialised is a
choice: `fileport` before its first answer, `write_fds`, `put`. The end of the
table, which `find()` reads, is taken to hold no file.

### Runs

| Run | Instance | Shows |
|---|---|---|
| `peer_directory` | three runs of `peer.c`, the third at the port of the first, 1, 2 and 0 questions, one kill; about 70 600 states | `ToldWell`, `EndsExplained`, `OnlyKillEndsServer`, refinement of `Directory`, every question answered |
| `transfer_ends` | the same | expected violation of `TransferEnds` |

Two peers at one port, one with the file and one without it, are what makes an
answer wrong; a second question is what an old `fileport` or an answer left unread
would spoil; one kill suffices for a reset. Fairness: the server serves every
socket (its loop goes through all of them), and a peer goes on; what users type is
not assumed. `CHECK_DEADLOCK FALSE`: users may stop typing, and peers end.

### Finding

Behind the file request `peer.c` scans the result of one `select()` for ever
(`exp4/peer.c:204-268`): the peer that has the file accepts the request but only
looks at sockets in `read_fds`, sends nothing and blocks in the next `accept()`.
The exercise (`exp4/Experiment_4 (1).pdf`, page 1) asks for the file to be served,
and that the program "is not terminated immediately after one transfer or so".

### Proofs

For any peers, ports, files and bounds: `Invariant`, `TypeCorrect`, `TellsWell`,
`EndsAreExplained`, `OnlyKillsHurt` and `ImplementsTheDirectory` (step simulation). The inductive
invariant: where a peer is says what can be in its connection (`Stages`), an
answer in it or in `fileport` is right for the name asked as long as nobody has
gone (`Answers`), resets come from kills (`Resets`), and no two live peers share a
port (`OnePerPort`). `EndsAreExplained` adds that the connection between two peers is
closed or reset only by the end of the peer it leads to, and that a peer gets to
`recv()` on it only then (`Ties`); and that what has ended a peer stays true, since
nobody comes back (`Lasting`).

Model-checked only: the liveness of `Answered`.

### Not modelled

The 51st registration, names longer than their arrays, the server's log file
`peer`, the contents of files. `exp4/server1.c` is an earlier draft.

## The HTTP proxy

### State and actions

| Model | Code |
|---|---|
| `browser[b]`, `backlog`, `refused` | the browsers and their connections (kernel) |
| `pc`, `cause` | where the program is, why it has exited |
| `expired`, `late` | the 100 seconds are over; history: browsers accepted after that |
| `con`, `uri` | `consocket` and what came over it |
| `i`, `start` | the indices of `check()` |
| `num`, `cres` | the loop over the addresses of the host |
| `fresh`, `wire`, `returndata` | bytes the host has yet to send, bytes sent, the relay's buffer |
| `took`, `got`, `zeroed` | history: the pieces received from the host; the bytes sent on; the buffer was all 0 when it was allocated |
| `Top`, `Accept`, `GetData`, `GetDataFails` | the head of the loop; a browser may leave before it asks |
| `Match`, `Mismatch`, `NoMatch` | one round of `check()` |
| `LookUp`, `Connect`, `HostFails`, `SendRequest`, `Relay`, `EndRelay` | the rest of the loop |
| `Dial`, `Ask`, `HangUp`, `HostSends`, `Expire` | browsers, hosts, time |

The relay receives `sizeof(returndata)` bytes, the size of a pointer (`Width`), into
memory that `malloc()` returned (each byte 0 or junk), and sends `strlen()` bytes of
it. An answer is any sequence of bytes; a 0 in a piece, as in any image, ends what
is sent of it, and the bytes behind it are lost. `NothingLost` therefore speaks of
the bytes in front of the first 0 of their piece (`Kept`): they get to a browser
that stays, in order. `ExactUnlessShorter` says when nothing else does: when the
buffer was all 0 and no piece is shorter than one before it. An answer without a 0
in it is then relayed byte by byte.

If the browser leaves without a request, `recv()` fails, or `sscanf()` and the scan
of the method and host work on what `malloc()` returned: an URI that is there from
an earlier request, or none, which ends the program (`GetDataFails`, "no request").
A `send()` to a browser that has gone is refused at once or later, and the next one
behind that raises SIGPIPE. `connect()` never returns more than 0, so that the loop
over the addresses always tries all of them.

### Runs

| Run | Instance | Shows |
|---|---|---|
| `http_proxy` | two browsers, four URIs, answers of 5 and 2 bytes with a 0 in them, in pieces of 1 or 2; about 417 000 states | exactness of `check()`, the time limit, what is in front of a 0 is not lost, nothing else is sent if no piece is shorter than one before, everybody answered |
| `http_relay` | the same, answers without a 0 | expected violation of `RelayExact` |
| `http_offence` | the same | expected violation of `OffenceHitsNobodyElse` |

The word has two characters, so that a partial match overlaps the beginning of the
whole one; 5 bytes in pieces of up to 2 give a shorter piece behind longer ones, and
a 0 at the beginning of a piece, at its end, and in no piece when the host breaks
off. A second browser is what the exit of the program and the time limit are about.
Fairness: the program runs, hosts send what they have and browsers that connect ask;
without the last two one silent browser blocks everybody. `CHECK_DEADLOCK FALSE`:
the program ends.

### Findings

An URI with the word makes the program exit (`exp3/3_120599_SERVER_1.c:145-146`),
with the connections of all browsers that wait; the design (`exp3/design.odt`, item
4) has it "close the connection else go on". And a piece of an answer that is
shorter than the one before it is sent on with the end of that one behind it
(`:233-241`): of "p q r" in pieces of 2 and 1 the browser gets "p q r q", where the
design (`exp3/design.pdf`, item 7) says "forward it to the browser". The same line
240 keeps the bytes behind a 0 in a piece from the browser, whatever the pieces; the
run's answers have no 0, so that its trace shows the first of the two.

### Proofs

For any URIs, word, hosts, widths and answers, with 0 bytes in them or not:
`TypeCorrect`, `CheckIsExact`, `LimitHolds`, `RelayLosesNothing`, `RelayIsExact`.
The invariant adds to these that `check()` has looked at every start before `start`
and matched `i` characters there (`Scanned`), how many may be late and where
(`Limit`), and what the buffer holds in terms of the pieces received (`RelayInv`).

Model-checked only: the liveness of `Answered`.

### Not modelled

Requests in several pieces or with another method, the parsing of host and port,
arrays written past their end (`uri`, `host`, `offencive`), the sockets that leak in
the loop over the addresses, browsers or hosts that stay silent for ever.

## Components not modelled

* **Login and upload** (`exp2/120599C.c`, `120599S.c`): the client does not link
  (`itoa()` is not in the C library), so the two never run together.
* **File reversal** (`exp1`): `server.c` does not compile (line 33); `server1.c` and
  `client1.c` write past an array of one element before their first message, so
  that nothing of what follows is defined.
* **Drafts and demonstrations**: `exp5/proxy1.c` does not compile, `exp4/server1.c`,
  `exp2/mods.c`, `exp3/3_120599p.c` and the files `*~` are earlier versions of what
  is modelled; `test/` and the socket exercises have no behaviour of their own.
* **`ns/`**: the ns-2.35 simulator with otcl and tclcl, third-party code that the
  repository does not change. It is nearly all of the repository's lines, so the
  lines modelled are a small share of the repository's and most of its own.
