-------------------------- MODULE SelectMeshProofs --------------------------
(***************************************************************************)
(* Theorems about SelectMesh, for any number of kills.                     *)
(***************************************************************************)
EXTENDS SelectMesh, FiniteSetTheorems, TLAPS

\* The peers waiting in a backlog, and that none waits twice.
Queued(s) == {s[k] : k \in DOMAIN s}
Distinct(s) == \A j, k \in DOMAIN s : s[j] = s[k] => j = k

\* The peers whose connection p has accepted.
MetIn(l, b, p) == {q \in Peers : l[<<q, p>>] # "none" /\ q \notin Queued(b[p])}
Met(p) == MetIn(link, backlog, p)

-----------------------------------------------------------------------------
(* The constants *)

LEMMA StartupFacts ==
    /\ Len(Startup[1]) = 0 /\ Len(Startup[2]) = 1
    /\ Len(Startup[3]) = 3 /\ Len(Startup[4]) = 5
    /\ Startup[2][1].do = "try" /\ Startup[2][1].peer = 1
    /\ Startup[3][1].do = "must" /\ Startup[3][1].peer = 1
    /\ Startup[3][2].do = "accept"
    /\ Startup[3][3].do = "try" /\ Startup[3][3].peer = 2
    /\ Startup[4][1].do = "must" /\ Startup[4][1].peer = 1
    /\ Startup[4][2].do = "accept"
    /\ Startup[4][3].do = "must" /\ Startup[4][3].peer = 2
    /\ Startup[4][4].do = "accept"
    /\ Startup[4][5].do = "try" /\ Startup[4][5].peer = 3
  BY DEF Startup, Try, Must, Wait, None

LEMMA OnAcceptFacts ==
    /\ OnAccept[1][1] = 2 /\ OnAccept[1][2] = 3 /\ OnAccept[1][3] = 4
    /\ OnAccept[2][1] = 0 /\ OnAccept[2][2] = 3 /\ OnAccept[2][3] = 4
    /\ OnAccept[3][1] = 0 /\ OnAccept[3][2] = 0 /\ OnAccept[3][3] = 4
    /\ OnAccept[4][1] = 0 /\ OnAccept[4][2] = 0 /\ OnAccept[4][3] = 0
  BY DEF OnAccept, None

LEMMA AfterPeer == ASSUME NEW p \in Peers, NEW k \in 1..3
                   PROVE  After(p, k) \in Peers /\ After(p, k) # p
  BY DEF After, Peers

(* Backlogs *)

LEMMA AppendQueued ==
    ASSUME NEW S, NEW s \in Seq(S), NEW x \in S, Distinct(s), x \notin Queued(s)
    PROVE  /\ Append(s, x) \in Seq(S)
           /\ Queued(Append(s, x)) = Queued(s) \cup {x}
           /\ Distinct(Append(s, x))
<1>1. /\ Append(s, x) \in Seq(S) /\ Len(s) \in Nat
      /\ DOMAIN s = 1..Len(s) /\ DOMAIN Append(s, x) = 1..Len(s) + 1
      /\ \A k \in 1..Len(s) : Append(s, x)[k] = s[k]
      /\ Append(s, x)[Len(s) + 1] = x
  OBVIOUS
<1>2. \A k \in 1..Len(s) : s[k] # x
  BY <1>1 DEF Queued
<1>3. Queued(Append(s, x)) = Queued(s) \cup {x}
  BY <1>1 DEF Queued
<1>4. Distinct(Append(s, x))
  BY <1>1, <1>2 DEF Distinct
<1>5. QED
  BY <1>1, <1>3, <1>4

LEMMA TailQueued ==
    ASSUME NEW S, NEW s \in Seq(S), s # <<>>, Distinct(s)
    PROVE  /\ Tail(s) \in Seq(S)
           /\ Head(s) \in Queued(s) /\ Head(s) \in S
           /\ Queued(Tail(s)) = Queued(s) \ {Head(s)}
           /\ Distinct(Tail(s))
<1>1. /\ Len(s) \in Nat \ {0} /\ DOMAIN s = 1..Len(s)
      /\ Head(s) = s[1] /\ Head(s) \in S
      /\ Tail(s) \in Seq(S) /\ DOMAIN Tail(s) = 1..Len(s) - 1
      /\ \A k \in 1..Len(s) - 1 : Tail(s)[k] = s[k + 1]
  OBVIOUS
<1>2. Distinct(Tail(s))
  BY <1>1 DEF Distinct
<1>3. ASSUME NEW x \in Queued(s), x # Head(s) PROVE x \in Queued(Tail(s))
  <2>1. PICK k \in 1..Len(s) : s[k] = x
    BY <1>1, <1>3 DEF Queued
  <2>2. k - 1 \in 1..Len(s) - 1 /\ Tail(s)[k - 1] = x
    BY <1>1, <1>3, <2>1
  <2>3. QED
    BY <1>1, <2>2 DEF Queued
<1>4. ASSUME NEW x \in Queued(Tail(s)) PROVE x \in Queued(s) /\ x # Head(s)
  BY <1>1, <1>4 DEF Queued, Distinct
<1>5. Queued(Tail(s)) = Queued(s) \ {Head(s)}
  BY <1>3, <1>4
<1>6. Head(s) \in Queued(s)
  BY <1>1 DEF Queued
<1>7. QED
  BY <1>1, <1>2, <1>5, <1>6

(* Descriptors *)

Entries == {None, PeerN, RcvN} \cup Peers
OneEach(t) == \A f, g \in Descriptors : t[f] = t[g] /\ t[f] # None => f = g

\* Five descriptors, six things they can be: without two of these, one is free.
LEMMA FreeDescriptor ==
    ASSUME NEW t \in [Descriptors -> Entries], OneEach(t),
           NEW x \in 1..6, NEW y \in 1..6, x # y,
           \A f \in Descriptors : t[f] # x /\ t[f] # y
    PROVE  \E f \in Descriptors : t[f] = None
  BY DEF Descriptors, Entries, Peers, None, PeerN, RcvN, OneEach

LEMMA LowestFree ==
    ASSUME NEW t \in [Descriptors -> Entries], \E f \in Descriptors : t[f] = None
    PROVE  Lowest(t) \in Descriptors /\ t[Lowest(t)] = None
<1>1. \E f \in DOMAIN t : t[f] = None /\ \A g \in 1..f-1 : t[g] # None
  BY DEF Descriptors, None
<1>2. DOMAIN t = Descriptors
  BY DEF Descriptors
<1>3. QED
  BY <1>1, <1>2, Zenon DEF Lowest

LEMMA OpenedOne ==
    ASSUME NEW t \in [Descriptors -> Entries], OneEach(t),
           NEW x \in 1..6, \A f \in Descriptors : t[f] # x,
           \E f \in Descriptors : t[f] = None
    PROVE  /\ Opened(t, x) \in [Descriptors -> Entries]
           /\ OneEach(Opened(t, x))
           /\ Lowest(t) \in Descriptors /\ t[Lowest(t)] = None
           /\ Opened(t, x)[Lowest(t)] = x
           /\ \A f \in Descriptors : f # Lowest(t) => Opened(t, x)[f] = t[f]
<1>1. Lowest(t) \in Descriptors /\ t[Lowest(t)] = None
  BY LowestFree
<1>2. x \in Entries
  BY DEF Entries, Peers, PeerN, RcvN, None
<1>3. QED
  BY <1>1, <1>2 DEF Opened, OneEach

LEMMA ClosedOne ==
    ASSUME NEW t \in [Descriptors -> Entries], OneEach(t), NEW x \in 1..6
    PROVE  /\ Closed(t, x) \in [Descriptors -> Entries]
           /\ OneEach(Closed(t, x))
           /\ \A f \in Descriptors : Closed(t, x)[f] = (IF t[f] = x THEN None ELSE t[f])
  BY DEF Closed, OneEach, Entries, None

LEMMA IntoLoopOne ==
    ASSUME NEW p \in Peers, NEW t \in [Descriptors -> Entries], OneEach(t),
           \A f \in Descriptors : t[f] \notin {p, PeerN, RcvN}
    PROVE  /\ IntoLoop(p, t) \in [Descriptors -> Entries]
           /\ OneEach(IntoLoop(p, t))
           /\ \A f \in Descriptors : t[f] \in Peers => IntoLoop(p, t)[f] = t[f]
           /\ \A f \in Descriptors :
                 IntoLoop(p, t)[f] \in Peers => IntoLoop(p, t)[f] = t[f]
<1> DEFINE u == IF p = 4 THEN t ELSE Opened(t, PeerN)
<1>1. /\ p \in 1..6 /\ PeerN \in 1..6 /\ RcvN \in 1..6
      /\ p # RcvN /\ PeerN # RcvN /\ p # PeerN
      /\ PeerN \notin Peers /\ RcvN \notin Peers /\ None \notin Peers
  BY DEF Peers, PeerN, RcvN, None
<1>2. \E f \in Descriptors : t[f] = None
  BY <1>1, FreeDescriptor
<1>3. /\ u \in [Descriptors -> Entries] /\ OneEach(u)
      /\ \A f \in Descriptors : t[f] \in Peers => u[f] = t[f]
      /\ \A f \in Descriptors : u[f] \in Peers => u[f] = t[f]
      /\ \A f \in Descriptors : u[f] # RcvN /\ u[f] # p
  <2>1. CASE p = 4
    BY <2>1
  <2>2. CASE p # 4
    <3>1. /\ Opened(t, PeerN) \in [Descriptors -> Entries]
          /\ OneEach(Opened(t, PeerN))
          /\ Lowest(t) \in Descriptors /\ t[Lowest(t)] = None
          /\ Opened(t, PeerN)[Lowest(t)] = PeerN
          /\ \A f \in Descriptors : f # Lowest(t) => Opened(t, PeerN)[f] = t[f]
      BY <1>1, <1>2, OpenedOne
    <3>2. QED
      BY <1>1, <2>2, <3>1
  <2>3. QED
    BY <2>1, <2>2
<1>4. \E f \in Descriptors : u[f] = None
  BY <1>1, <1>3, FreeDescriptor
<1>5. /\ Opened(u, RcvN) \in [Descriptors -> Entries]
      /\ OneEach(Opened(u, RcvN))
      /\ Lowest(u) \in Descriptors /\ u[Lowest(u)] = None
      /\ Opened(u, RcvN)[Lowest(u)] = RcvN
      /\ \A f \in Descriptors : f # Lowest(u) => Opened(u, RcvN)[f] = u[f]
  BY <1>1, <1>3, <1>4, OpenedOne
<1>6. IntoLoop(p, t) = Opened(u, RcvN)
  BY DEF IntoLoop
<1>7. QED
  BY <1>1, <1>3, <1>5, <1>6

(* Links and backlogs *)

QueueOK(l, b) ==
    \A q \in Peers : Distinct(b[q]) /\ \A r \in Queued(b[q]) : l[<<r, q>>] # "none"

LinkStates == {"none", "up", "broken"}

\* connect() and accept(), as they change links and backlogs.
Made(l, p, q) == [l EXCEPT ![<<p, q>>] = "up"]
Joined(b, q, p) == [b EXCEPT ![q] = Append(@, p)]
Left(b, p) == [b EXCEPT ![p] = Tail(@)]
Waiting(b, p) == b[p] # <<>>
First(b, p) == Head(b[p])

\* What connect() does to the peers accepted: nothing.
Dialed(l, b, p, q) ==
    /\ Made(l, p, q) \in [Links -> LinkStates]
    /\ Joined(b, q, p) \in [Peers -> Seq(Peers)]
    /\ QueueOK(Made(l, p, q), Joined(b, q, p))
    /\ \A r \in Peers : MetIn(Made(l, p, q), Joined(b, q, p), r) = MetIn(l, b, r)

LEMMA DialNet ==
    ASSUME NEW l \in [Links -> LinkStates], NEW b \in [Peers -> Seq(Peers)],
           QueueOK(l, b), NEW p \in Peers, NEW q \in Peers,
           l[<<p, q>>] = "none"
    PROVE  Dialed(l, b, p, q)
<1> DEFINE m == Made(l, p, q)
           c == Joined(b, q, p)
<1>1. p \notin Queued(b[q]) /\ Distinct(b[q]) /\ b[q] \in Seq(Peers)
  BY DEF QueueOK
<1>2. /\ Append(b[q], p) \in Seq(Peers)
      /\ Queued(Append(b[q], p)) = Queued(b[q]) \cup {p}
      /\ Distinct(Append(b[q], p))
  BY <1>1, AppendQueued
<1>3. /\ m \in [Links -> LinkStates] /\ c \in [Peers -> Seq(Peers)]
      /\ m[<<p, q>>] = "up"
      /\ \A d \in Links : d # <<p, q>> => m[d] = l[d]
      /\ c[q] = Append(b[q], p)
      /\ \A r \in Peers : r # q => c[r] = b[r]
  BY <1>2 DEF Links, LinkStates, Made, Joined
<1> HIDE DEF m, c
<1>4. \A r, s \in Peers : <<r, s>> \in Links /\ (<<r, s>> = <<p, q>> <=> r = p /\ s = q)
  BY DEF Links
<1>5. \A r \in Peers : Queued(b[r]) \subseteq Peers
  BY DEF Queued
<1>6. QueueOK(m, c)
  <2>1. \A r, s \in Peers : l[<<r, s>>] # "none" => m[<<r, s>>] # "none"
    BY <1>3, <1>4
  <2>2. Distinct(c[q]) /\ \A r \in Queued(c[q]) : m[<<r, q>>] # "none"
    BY <1>2, <1>3, <1>5, <2>1 DEF QueueOK
  <2>3. ASSUME NEW s \in Peers, s # q
        PROVE  Distinct(c[s]) /\ \A r \in Queued(c[s]) : m[<<r, s>>] # "none"
    BY <1>3, <1>5, <2>1, <2>3 DEF QueueOK
  <2>4. QED
    BY <2>2, <2>3 DEF QueueOK
<1>7. ASSUME NEW r \in Peers, NEW s \in Peers
      PROVE  s \in MetIn(m, c, r) <=> s \in MetIn(l, b, r)
  BY <1>2, <1>3, <1>4 DEF MetIn
<1>8. \A r \in Peers : MetIn(m, c, r) = MetIn(l, b, r)
  BY <1>7 DEF MetIn
<1>9. QED
  BY <1>3, <1>6, <1>8 DEF m, c, Dialed

\* What accept() does to the peers accepted.
Taken(l, b, p) ==
    /\ Left(b, p) \in [Peers -> Seq(Peers)] /\ QueueOK(l, Left(b, p))
    /\ First(b, p) \in Peers /\ l[<<First(b, p), p>>] # "none"
    /\ First(b, p) \notin MetIn(l, b, p)
    /\ MetIn(l, Left(b, p), p) = MetIn(l, b, p) \cup {First(b, p)}
    /\ \A r \in Peers : r # p => MetIn(l, Left(b, p), r) = MetIn(l, b, r)

LEMMA TakeNet ==
    ASSUME NEW l \in [Links -> LinkStates], NEW b \in [Peers -> Seq(Peers)],
           QueueOK(l, b), NEW p \in Peers, Waiting(b, p)
    PROVE  Taken(l, b, p)
<1> DEFINE c == Left(b, p)
<1>1. /\ Tail(b[p]) \in Seq(Peers)
      /\ Head(b[p]) \in Queued(b[p]) /\ Head(b[p]) \in Peers
      /\ Queued(Tail(b[p])) = Queued(b[p]) \ {Head(b[p])}
      /\ Distinct(Tail(b[p]))
  BY TailQueued DEF QueueOK, Waiting
<1>2. /\ c \in [Peers -> Seq(Peers)] /\ c[p] = Tail(b[p])
      /\ \A r \in Peers : r # p => c[r] = b[r]
  BY <1>1 DEF Left
<1> HIDE DEF c
<1>3. l[<<Head(b[p]), p>>] # "none"
  BY <1>1 DEF QueueOK
<1>4. QueueOK(l, c)
  BY <1>1, <1>2 DEF QueueOK
<1>5. Head(b[p]) \notin MetIn(l, b, p)
  BY <1>1 DEF MetIn
<1>6. MetIn(l, c, p) = MetIn(l, b, p) \cup {Head(b[p])}
  BY <1>1, <1>2, <1>3 DEF MetIn
<1>7. \A r \in Peers : r # p => MetIn(l, c, r) = MetIn(l, b, r)
  BY <1>2 DEF MetIn
<1>8. QED
  BY <1>1, <1>2, <1>3, <1>4, <1>5, <1>6, <1>7 DEF c, First, Taken

LEMMA PeersFinite == IsFiniteSet(Peers)
  BY FS_Interval, 1 \in Int, 4 \in Int, Zenon DEF Peers

-----------------------------------------------------------------------------
(* The part of the invariant that is about connecting and descriptors *)

\* No connection is made before its turn, so that none is made twice.
Dialled ==
    /\ \A p \in Peers : link[<<p, p>>] = "none"
    /\ \A q \in Peers : link[<<1, q>>] # "none" => connections[1] >= q - 1
    /\ link[<<2, 1>>] # "none" => done[2] >= 1
    /\ link[<<2, 3>>] # "none" => connections[2] >= 2
    /\ link[<<2, 4>>] # "none" => connections[2] >= 3
    /\ link[<<3, 1>>] # "none" => done[3] >= 1
    /\ link[<<3, 2>>] # "none" => done[3] >= 3
    /\ link[<<3, 4>>] # "none" => connections[3] >= 3
    /\ link[<<4, 1>>] # "none" => done[4] >= 1
    /\ link[<<4, 2>>] # "none" => done[4] >= 3
    /\ link[<<4, 3>>] # "none" => done[4] >= 5

Counts == \A p \in Peers : connections[p] = Cardinality(Met(p))

Tables == \A p \in Peers :
    /\ OneEach(table[p])
    /\ \A f \in Descriptors : table[p][f] \in Peers => table[p][f] \in Met(p)
    /\ pc[p] \in {"off", "startup"} =>
          \A f \in Descriptors : table[p][f] \notin {PeerN, RcvN}

Watched == \A p \in Peers : \A f \in read_fds[p] :
    f # Listener => table[p][f] \in Peers

Stages == \A p \in Peers :
    /\ pc[p] = "off" => done[p] = 0
    /\ pc[p] = "startup" => done[p] < Len(Startup[p])
    /\ pc[p] = "send" => p # 4 /\ connections[p] = 3

Base == /\ TypeOK /\ Dialled /\ QueueOK(link, backlog)
        /\ Counts /\ Tables /\ Watched /\ Stages

LEMMA MetIsPeers ==
    ASSUME NEW p \in Peers, link[<<p, p>>] = "none"
    PROVE  /\ Met(p) \subseteq Peers /\ p \notin Met(p)
           /\ IsFiniteSet(Met(p))
<1>1. Met(p) \subseteq Peers /\ p \notin Met(p)
  BY DEF Met, MetIn
<1>2. QED
  BY <1>1, PeersFinite, FS_Subset

\* No peer accepts more than three connections.
LEMMA AtMostThree ==
    ASSUME NEW S, NEW p \in Peers, S \subseteq Peers, p \notin S
    PROVE  IsFiniteSet(S) /\ Cardinality(S) \in 0..3
<1>1. IsFiniteSet(S)
  BY PeersFinite, FS_Subset
<1>2. Cardinality(S) \in Nat /\ Cardinality(Peers) = 4
  <2>1. Cardinality(Peers) = 4
    <3>1. Cardinality(1..4) = IF 1 > 4 THEN 0 ELSE 4 - 1 + 1
      BY FS_Interval, 1 \in Int, 4 \in Int, Zenon
    <3>2. QED
      BY <3>1 DEF Peers
  <2>2. QED
    BY <1>1, <2>1, FS_CardinalityType
<1>3. Cardinality(S \cup {p}) = Cardinality(S) + 1
  BY <1>1, FS_AddElement
<1>4. S \cup {p} \subseteq Peers
  OBVIOUS
<1>5. Cardinality(S \cup {p}) <= Cardinality(Peers)
  BY <1>4, PeersFinite, FS_Subset
<1>6. QED
  BY <1>1, <1>2, <1>3, <1>5

LEMMA InitBase == Init => Base
<1> SUFFICES ASSUME Init PROVE Base
  OBVIOUS
<1> USE DEF Init
<1>1. TypeOK
  BY KillsAssumption DEF TypeOK, Descriptors, Listener, None, Links
<1>2. Dialled
  BY DEF Dialled, Peers, Links
<1>3. QueueOK(link, backlog)
  BY DEF QueueOK, Queued, Distinct
<1>4. Counts
  <2>1. ASSUME NEW p \in Peers PROVE Met(p) = {}
    BY DEF Met, MetIn, Links
  <2>2. QED
    BY <2>1, FS_EmptySet DEF Counts
<1>5. Tables
  BY DEF Tables, OneEach, Descriptors, None, Peers, PeerN, RcvN
<1>6. Watched
  BY DEF Watched, Listener
<1>7. Stages
  BY DEF Stages, Peers
<1>8. QED
  BY <1>1, <1>2, <1>3, <1>4, <1>5, <1>6, <1>7 DEF Base

\* A step that leaves connections and backlogs alone leaves Met alone.
LEMMA SameMet ==
    ASSUME UNCHANGED <<link, backlog>>
    PROVE  /\ \A p \in Peers : Met(p)' = Met(p)
           /\ QueueOK(link, backlog) => QueueOK(link, backlog)'
  BY DEF Met, MetIn, QueueOK, Queued, Distinct

\* A step that leaves the table, the counterparts and the place of a peer alone.
LEMMA SameTable ==
    ASSUME Tables, NEW r \in Peers,
           Met(r)' = Met(r), table'[r] = table[r], pc'[r] = pc[r]
    PROVE  /\ OneEach(table'[r])
           /\ \A f \in Descriptors : table'[r][f] \in Peers => table'[r][f] \in Met(r)'
           /\ pc'[r] \in {"off", "startup"} =>
                 \A f \in Descriptors : table'[r][f] \notin {PeerN, RcvN}
  BY DEF Tables

LEMMA EndBase ==
    ASSUME Base, NEW p \in Peers, ConnectFails(p) \/ SigPipe(p) \/ Kill(p)
    PROVE  Base'
<1> USE DEF loopVars, netVars
<1>1. /\ pc' = [pc EXCEPT ![p] = "ended"]
      /\ kills' \in 0..MaxKills
      /\ UNCHANGED <<done, table, connections, read_fds, i, out, link, backlog, wire, rcv>>
  BY KillsAssumption DEF Base, TypeOK, ConnectFails, SigPipe, Kill
<1>2. (\A q \in Peers : Met(q)' = Met(q)) /\ QueueOK(link, backlog)'
  BY <1>1, SameMet DEF Base
<1>3. TypeOK'
  BY <1>1 DEF Base, TypeOK
<1>4. Dialled'
  BY <1>1 DEF Base, Dialled
<1>5. Counts'
  BY <1>1, <1>2 DEF Base, Counts
<1>6. Tables'
  BY <1>1, <1>2 DEF Base, TypeOK, Tables, OneEach
<1>7. Watched'
  BY <1>1 DEF Base, Watched
<1>8. Stages'
  BY <1>1 DEF Base, TypeOK, Stages
<1>9. QED
  BY <1>2, <1>3, <1>4, <1>5, <1>6, <1>7, <1>8 DEF Base

LEMMA SelectBase ==
    ASSUME Base, NEW p \in Peers, Select(p)
    PROVE  Base'
<1> USE DEF loopVars, netVars
<1>1. /\ pc[p] = "select" /\ pc' = [pc EXCEPT ![p] = "scan"]
      /\ i' = [i EXCEPT ![p] = Listener]
      /\ read_fds'[p] \subseteq read_fds[p]
      /\ \A q \in Peers : q # p => read_fds'[q] = read_fds[q]
      /\ read_fds' \in [Peers -> SUBSET (Descriptors \cup {Listener})]
      /\ UNCHANGED <<done, table, connections, out, link, backlog, wire, rcv, kills>>
  BY DEF Base, TypeOK, Select
<1>2. (\A q \in Peers : Met(q)' = Met(q)) /\ QueueOK(link, backlog)'
  BY <1>1, SameMet DEF Base
<1>3. TypeOK'
  BY <1>1 DEF Base, TypeOK, Listener
<1>4. Dialled'
  BY <1>1 DEF Base, Dialled
<1>5. Counts'
  BY <1>1, <1>2 DEF Base, Counts
<1>6. Tables'
  BY <1>1, <1>2 DEF Base, TypeOK, Tables, OneEach
<1>7. Watched'
  BY <1>1 DEF Base, Watched
<1>8. Stages'
  BY <1>1 DEF Base, TypeOK, Stages
<1>9. QED
  BY <1>2, <1>3, <1>4, <1>5, <1>6, <1>7, <1>8 DEF Base

\* What recv() does, without what it returns.
LEMMA RecvFacts ==
    ASSUME Base, NEW p \in Peers, Recv(p)
    PROVE  \E f \in Descriptors :
              /\ At(p, f) /\ table[p][f] \in Peers
              /\ \/ /\ wire[<<table[p][f], p>>] > 0
                    /\ wire' = [wire EXCEPT ![<<table[p][f], p>>] = @ - 1]
                    /\ rcv' = [rcv EXCEPT ![p] = Append(@, table[p][f])]
                    /\ UNCHANGED <<table, read_fds>>
                 \/ /\ pc[table[p][f]] = "ended"
                    /\ table' = [table EXCEPT ![p][f] = None]
                    /\ read_fds' = [read_fds EXCEPT ![p] = @ \ {f}]
                    /\ UNCHANGED <<wire, rcv>>
              /\ i' = [i EXCEPT ![p] = f + 1]
              /\ pc' = [pc EXCEPT ![p] =
                          IF p # 4 /\ connections[p] = 3 THEN "send" ELSE "scan"]
              /\ UNCHANGED <<done, connections, out, link, backlog, kills>>
<1>1. PICK f \in Descriptors :
        /\ At(p, f)
        /\ LET q == table[p][f] IN
            IF wire[<<q, p>>] > 0
            THEN /\ wire' = [wire EXCEPT ![<<q, p>>] = @ - 1]
                 /\ rcv' = [rcv EXCEPT ![p] = Append(@, q)]
                 /\ UNCHANGED <<table, read_fds>>
            ELSE /\ AtEnd(q)
                 /\ Drop(p, f)
                 /\ UNCHANGED <<wire, rcv>>
        /\ Received(p, f)
        /\ UNCHANGED <<done, connections, out, link, backlog, kills>>
  BY DEF Recv
<1>2. table[p][f] \in Peers
  BY <1>1 DEF Base, Watched, At, Descriptors, Listener
<1>3. QED
  BY <1>1, <1>2 DEF AtEnd, Drop, Received, Visited

LEMMA RecvBase ==
    ASSUME Base, NEW p \in Peers, Recv(p)
    PROVE  Base'
<1>1. PICK f \in Descriptors :
              /\ At(p, f) /\ table[p][f] \in Peers
              /\ \/ /\ wire[<<table[p][f], p>>] > 0
                    /\ wire' = [wire EXCEPT ![<<table[p][f], p>>] = @ - 1]
                    /\ rcv' = [rcv EXCEPT ![p] = Append(@, table[p][f])]
                    /\ UNCHANGED <<table, read_fds>>
                 \/ /\ pc[table[p][f]] = "ended"
                    /\ table' = [table EXCEPT ![p][f] = None]
                    /\ read_fds' = [read_fds EXCEPT ![p] = @ \ {f}]
                    /\ UNCHANGED <<wire, rcv>>
              /\ i' = [i EXCEPT ![p] = f + 1]
              /\ pc' = [pc EXCEPT ![p] =
                          IF p # 4 /\ connections[p] = 3 THEN "send" ELSE "scan"]
              /\ UNCHANGED <<done, connections, out, link, backlog, kills>>
  BY RecvFacts
<1>2. (\A q \in Peers : Met(q)' = Met(q)) /\ QueueOK(link, backlog)'
  BY <1>1, SameMet DEF Base
<1>3. TypeOK'
  <2>1. wire' \in [Links -> Nat]
    <3>1. wire \in [Links -> Nat] /\ <<table[p][f], p>> \in Links
      BY <1>1 DEF Base, TypeOK, Links
    <3>2. CASE wire' = [wire EXCEPT ![<<table[p][f], p>>] = @ - 1]
               /\ wire[<<table[p][f], p>>] > 0
      <4>1. wire[<<table[p][f], p>>] - 1 \in Nat
        BY <3>1, <3>2
      <4>2. QED
        BY <3>1, <3>2, <4>1
    <3>3. CASE UNCHANGED wire
      BY <3>1, <3>3
    <3>4. QED
      BY <1>1, <3>2, <3>3, Zenon
  <2>a. rcv' \in [Peers -> Seq(Peers)]
    <3>1. rcv \in [Peers -> Seq(Peers)] /\ table[p][f] \in Peers
      BY <1>1 DEF Base, TypeOK
    <3>2. CASE rcv' = [rcv EXCEPT ![p] = Append(@, table[p][f])]
      BY <3>1, <3>2
    <3>3. CASE UNCHANGED rcv
      BY <3>1, <3>3
    <3>4. QED
      BY <1>1, <3>2, <3>3, Zenon
  <2>2. table' \in [Peers -> [Descriptors -> Entries]]
    <3>1. table \in [Peers -> [Descriptors -> Entries]] /\ None \in Entries
      BY DEF Base, TypeOK, Entries
    <3>2. CASE table' = [table EXCEPT ![p][f] = None]
      BY <3>1, <3>2
    <3>3. CASE UNCHANGED table
      BY <3>1, <3>3
    <3>4. QED
      BY <1>1, <3>2, <3>3, Zenon
  <2>b. read_fds' \in [Peers -> SUBSET (Descriptors \cup {Listener})]
    <3>1. read_fds \in [Peers -> SUBSET (Descriptors \cup {Listener})]
      BY DEF Base, TypeOK
    <3>2. QED
      BY <1>1, <3>1
  <2>3. /\ i' \in [Peers -> 0..6]
        /\ pc' \in [Peers -> {"off", "startup", "select", "scan", "send", "ended"}]
    BY <1>1 DEF Base, TypeOK, Descriptors
  <2>4. QED
    BY <1>1, <2>1, <2>a, <2>2, <2>b, <2>3 DEF Base, TypeOK, Entries
<1>4. Dialled'
  BY <1>1 DEF Base, Dialled
<1>5. Counts'
  BY <1>1, <1>2 DEF Base, Counts
<1>6. /\ \A q \in Peers : \A g \in Descriptors :
           table'[q][g] = table[q][g] \/ (table'[q][g] = None /\ q = p /\ g = f)
      /\ table'[p][f] = None \/ UNCHANGED <<table, read_fds>>
  BY <1>1 DEF Base, TypeOK
<1>7. Tables'
  <2>1. pc'[p] \notin {"off", "startup"} /\ \A q \in Peers : q # p => pc'[q] = pc[q]
    BY <1>1 DEF Base, TypeOK
  <2>2. QED
    BY <1>2, <1>6, <2>1 DEF Base, Tables, OneEach, Peers, None
<1>8. Watched'
  <2>a. read_fds \in [Peers -> SUBSET (Descriptors \cup {Listener})]
    BY DEF Base, TypeOK
  <2>1. \A q \in Peers : \A g \in read_fds'[q] :
           g \in read_fds[q] /\ g \in Descriptors \cup {Listener}
    BY <1>1, <2>a
  <2>2. \A g \in read_fds'[p] : g # f \/ UNCHANGED <<table, read_fds>>
    BY <1>1, <2>a
  <2>3. QED
    BY <1>6, <2>1, <2>2 DEF Base, Watched
<1>9. Stages'
  BY <1>1 DEF Base, TypeOK, Stages, At
<1>10. QED
  BY <1>2, <1>3, <1>4, <1>5, <1>7, <1>8, <1>9 DEF Base

\* What the end of a round does: another file rcvN is no other connection.
LEMMA NextPassFacts ==
    ASSUME Base, NEW p \in Peers, NextPass(p)
    PROVE  /\ pc[p] = "scan" /\ pc' = [pc EXCEPT ![p] = "select"]
           /\ UNCHANGED <<done, connections, read_fds, i, out, link, backlog, wire, rcv, kills>>
           /\ table' \in [Peers -> [Descriptors -> Entries]]
           /\ OneEach(table'[p])
           /\ \A q \in Peers : q # p => table'[q] = table[q]
           /\ \A f \in Descriptors : table'[p][f] \in Peers => table'[p][f] = table[p][f]
           /\ \A f \in Descriptors : table[p][f] \in Peers => table'[p][f] = table[p][f]
<1> USE DEF loopVars, netVars
<1> DEFINE t == Closed(table[p], RcvN)
<1>1. /\ pc[p] = "scan" /\ pc' = [pc EXCEPT ![p] = "select"]
      /\ table' = [table EXCEPT ![p] = Opened(t, RcvN)]
      /\ UNCHANGED <<done, connections, read_fds, i, out, link, backlog, wire, rcv, kills>>
  BY DEF NextPass
<1>2. /\ table \in [Peers -> [Descriptors -> Entries]] /\ table[p] \in [Descriptors -> Entries]
      /\ OneEach(table[p])
      /\ \A f \in Descriptors : table[p][f] # p
  <2>1. p \notin Met(p)
    BY MetIsPeers DEF Base, Dialled
  <2>2. QED
    BY <2>1 DEF Base, TypeOK, Entries, Tables
<1>3. /\ p \in 1..6 /\ RcvN \in 1..6 /\ p # RcvN /\ RcvN \notin Peers /\ None \notin Peers
      /\ RcvN # None
  BY DEF Peers, RcvN, None
<1>4. /\ t \in [Descriptors -> Entries] /\ OneEach(t)
      /\ \A f \in Descriptors : t[f] = (IF table[p][f] = RcvN THEN None ELSE table[p][f])
  BY <1>2, <1>3, ClosedOne
<1>5. \A f \in Descriptors : t[f] # p /\ t[f] # RcvN
  BY <1>2, <1>3, <1>4 DEF Peers, None
<1>6. \E f \in Descriptors : t[f] = None
  BY <1>3, <1>4, <1>5, FreeDescriptor
<1>7. /\ Opened(t, RcvN) \in [Descriptors -> Entries]
      /\ OneEach(Opened(t, RcvN))
      /\ Lowest(t) \in Descriptors /\ t[Lowest(t)] = None
      /\ Opened(t, RcvN)[Lowest(t)] = RcvN
      /\ \A f \in Descriptors : f # Lowest(t) => Opened(t, RcvN)[f] = t[f]
  BY <1>3, <1>4, <1>5, <1>6, OpenedOne
<1> HIDE DEF t
<1>8. /\ table' \in [Peers -> [Descriptors -> Entries]]
      /\ OneEach(table'[p])
      /\ \A q \in Peers : q # p => table'[q] = table[q]
      /\ \A f \in Descriptors : table'[p][f] \in Peers => table'[p][f] = table[p][f]
      /\ \A f \in Descriptors : table[p][f] \in Peers => table'[p][f] = table[p][f]
  BY <1>1, <1>2, <1>3, <1>4, <1>7
<1>9. QED
  BY <1>1, <1>8

LEMMA NextPassBase ==
    ASSUME Base, NEW p \in Peers, NextPass(p)
    PROVE  Base'
<1>1. /\ pc[p] = "scan" /\ pc' = [pc EXCEPT ![p] = "select"]
      /\ UNCHANGED <<done, connections, read_fds, i, out, link, backlog, wire, rcv, kills>>
      /\ table' \in [Peers -> [Descriptors -> Entries]]
      /\ OneEach(table'[p])
      /\ \A q \in Peers : q # p => table'[q] = table[q]
      /\ \A f \in Descriptors : table'[p][f] \in Peers => table'[p][f] = table[p][f]
      /\ \A f \in Descriptors : table[p][f] \in Peers => table'[p][f] = table[p][f]
  BY NextPassFacts
<1>2. (\A q \in Peers : Met(q)' = Met(q)) /\ QueueOK(link, backlog)'
  BY <1>1, SameMet DEF Base
<1>3. TypeOK'
  BY <1>1 DEF Base, TypeOK, Entries
<1>4. Dialled'
  BY <1>1 DEF Base, Dialled
<1>5. Counts'
  BY <1>1, <1>2 DEF Base, Counts
<1>6. Tables'
  <2>1. pc'[p] = "select" /\ \A q \in Peers : q # p => pc'[q] = pc[q]
    BY <1>1 DEF Base, TypeOK
  <2>2. QED
    BY <1>1, <1>2, <2>1 DEF Base, Tables
<1>7. Watched'
  <2>1. \A f \in read_fds[p] : f # Listener => f \in Descriptors
    BY DEF Base, TypeOK
  <2>2. QED
    BY <1>1, <2>1 DEF Base, Watched
<1>8. Stages'
  BY <1>1 DEF Base, TypeOK, Stages
<1>9. QED
  BY <1>2, <1>3, <1>4, <1>5, <1>6, <1>7, <1>8 DEF Base

\* A connection that breaks stays one that was made.
LEMMA SendMet ==
    ASSUME backlog' = backlog,
           \A c \in Links : link'[c] = "none" <=> link[c] = "none"
    PROVE  /\ \A p \in Peers : Met(p)' = Met(p)
           /\ QueueOK(link, backlog) =>
                 ((\A q \in Peers : Queued(backlog[q]) \subseteq Peers)
                   => QueueOK(link, backlog)')
  BY DEF Met, MetIn, QueueOK, Queued, Distinct, Links

LEMMA SendFacts ==
    ASSUME Base, NEW p \in Peers, Send(p)
    PROVE  \E q \in Peers :
              /\ q # p /\ link[<<p, q>>] = "up" /\ pc[p] = "send"
              /\ \/ /\ Up(q) /\ UNCHANGED link
                    /\ wire' = [wire EXCEPT ![<<p, q>>] = @ + 1]
                 \/ /\ link' = [link EXCEPT ![<<p, q>>] = "broken"]
                    /\ UNCHANGED wire
              /\ out' = [out EXCEPT ![p] = (@ + 1) % 3]
              /\ pc' = [pc EXCEPT ![p] = IF out[p] = 2 THEN "scan" ELSE "send"]
              /\ UNCHANGED <<done, table, connections, read_fds, i, backlog, rcv, kills>>
<1>1. out[p] + 1 \in 1..3
  <2>1. out \in [Peers -> 0..2]
    BY DEF Base, TypeOK
  <2>2. QED
    BY <2>1
<1>2. After(p, out[p] + 1) \in Peers /\ After(p, out[p] + 1) # p
  BY <1>1, AfterPeer
<1>3. QED
  BY <1>2 DEF Send

LEMMA SendBase ==
    ASSUME Base, NEW p \in Peers, Send(p)
    PROVE  Base'
<1>1. PICK q \in Peers :
              /\ q # p /\ link[<<p, q>>] = "up" /\ pc[p] = "send"
              /\ \/ /\ Up(q) /\ UNCHANGED link
                    /\ wire' = [wire EXCEPT ![<<p, q>>] = @ + 1]
                 \/ /\ link' = [link EXCEPT ![<<p, q>>] = "broken"]
                    /\ UNCHANGED wire
              /\ out' = [out EXCEPT ![p] = (@ + 1) % 3]
              /\ pc' = [pc EXCEPT ![p] = IF out[p] = 2 THEN "scan" ELSE "send"]
              /\ UNCHANGED <<done, table, connections, read_fds, i, backlog, rcv, kills>>
  BY SendFacts
<1>2. /\ link \in [Links -> LinkStates] /\ wire \in [Links -> Nat]
      /\ <<p, q>> \in Links /\ out[p] \in 0..2 /\ backlog \in [Peers -> Seq(Peers)]
  BY DEF Base, TypeOK, Links, LinkStates
<1>3. /\ link' \in [Links -> LinkStates]
      /\ \A c \in Links : link'[c] = "none" <=> link[c] = "none"
  <2>1. CASE UNCHANGED link
    BY <1>2, <2>1
  <2>2. CASE link' = [link EXCEPT ![<<p, q>>] = "broken"]
    BY <1>1, <1>2, <2>2 DEF LinkStates
  <2>3. QED
    BY <1>1, <2>1, <2>2, Zenon
<1>4. wire' \in [Links -> Nat]
  <2>1. CASE UNCHANGED wire
    BY <1>2, <2>1
  <2>2. CASE wire' = [wire EXCEPT ![<<p, q>>] = @ + 1]
    <3>1. wire[<<p, q>>] + 1 \in Nat
      BY <1>2
    <3>2. QED
      BY <1>2, <2>2, <3>1
  <2>3. QED
    BY <1>1, <2>1, <2>2, Zenon
<1>5. (\A r \in Peers : Met(r)' = Met(r)) /\ QueueOK(link, backlog)'
  <2>1. \A r \in Peers : Queued(backlog[r]) \subseteq Peers
    BY <1>2 DEF Queued
  <2>2. QED
    BY <1>1, <1>3, <2>1, SendMet DEF Base
<1>6. out' \in [Peers -> 0..2]
  <2>1. out \in [Peers -> 0..2]
    BY DEF Base, TypeOK
  <2>2. (out[p] + 1) % 3 \in 0..2
    BY <2>1
  <2>3. QED
    BY <1>1, <2>1, <2>2
<1>7. TypeOK'
  BY <1>1, <1>3, <1>4, <1>6 DEF Base, TypeOK, LinkStates
<1>8. Dialled'
  BY <1>1, <1>3 DEF Base, Dialled, Links, Peers
<1>9. Counts'
  BY <1>1, <1>5 DEF Base, Counts
<1>10. Tables'
  BY <1>1, <1>5 DEF Base, TypeOK, Tables, OneEach
<1>11. Watched'
  BY <1>1 DEF Base, Watched
<1>12. Stages'
  BY <1>1 DEF Base, TypeOK, Stages
<1>13. QED
  BY <1>5, <1>7, <1>8, <1>9, <1>10, <1>11, <1>12 DEF Base

(* The steps before the loop *)

LEMMA Within == ASSUME NEW a \in 0..5, NEW n \in 0..a PROVE n \in 0..5
  OBVIOUS

LEMMA AdvanceFacts ==
    ASSUME Base, NEW p \in Peers, NEW n \in 0..Len(Startup[p]),
           NEW t \in [Descriptors -> Entries], OneEach(t),
           \A f \in Descriptors : t[f] \notin {p, PeerN, RcvN},
           Advance(p, n, t)
    PROVE  /\ done' = [done EXCEPT ![p] = n] /\ done' \in [Peers -> 0..5]
           /\ pc' \in [Peers -> {"off", "startup", "select", "scan", "send", "ended"}]
           /\ pc'[p] = "select" \/ (pc'[p] = "startup" /\ n < Len(Startup[p]))
           /\ \A q \in Peers : q # p => pc'[q] = pc[q] /\ table'[q] = table[q]
           /\ table' \in [Peers -> [Descriptors -> Entries]] /\ OneEach(table'[p])
           /\ \A f \in Descriptors : table'[p][f] \in Peers => table'[p][f] = t[f]
           /\ \A f \in Descriptors : t[f] \in Peers => table'[p][f] = t[f]
           /\ pc'[p] = "startup" => \A f \in Descriptors : table'[p][f] \notin {PeerN, RcvN}
<1>1. Len(Startup[p]) \in 0..5
  BY StartupFacts DEF Peers
<1>2. /\ done \in [Peers -> 0..5] /\ table \in [Peers -> [Descriptors -> Entries]]
      /\ pc \in [Peers -> {"off", "startup", "select", "scan", "send", "ended"}]
  BY DEF Base, TypeOK, Entries
<1>3. /\ IntoLoop(p, t) \in [Descriptors -> Entries]
      /\ OneEach(IntoLoop(p, t))
      /\ \A f \in Descriptors : t[f] \in Peers => IntoLoop(p, t)[f] = t[f]
      /\ \A f \in Descriptors : IntoLoop(p, t)[f] \in Peers => IntoLoop(p, t)[f] = t[f]
  BY IntoLoopOne
<1>4. done' = [done EXCEPT ![p] = n] /\ done' \in [Peers -> 0..5]
  <2>1. n \in 0..5
    BY <1>1, Within, Zenon
  <2>2. QED
    BY <1>2, <2>1 DEF Advance
<1>5. CASE n = Len(Startup[p])
  <2>1. pc' = [pc EXCEPT ![p] = "select"] /\ table' = [table EXCEPT ![p] = IntoLoop(p, t)]
    BY <1>5 DEF Advance
  <2>2. QED
    BY <1>2, <1>3, <1>4, <2>1
<1>6. CASE n # Len(Startup[p])
  <2>1. pc' = [pc EXCEPT ![p] = "startup"] /\ table' = [table EXCEPT ![p] = t]
    BY <1>6 DEF Advance
  <2>2. n < Len(Startup[p])
    BY <1>1, <1>6
  <2>3. QED
    BY <1>2, <1>4, <2>1, <2>2
<1>7. QED
  BY <1>5, <1>6

\* What Advance needs of the table of a peer that is not in its loop.
LEMMA BeforeLoop ==
    ASSUME Base, NEW p \in Peers, pc[p] \in {"off", "startup"}
    PROVE  /\ table[p] \in [Descriptors -> Entries] /\ OneEach(table[p])
           /\ \A f \in Descriptors : table[p][f] \notin {p, PeerN, RcvN}
<1>1. p \notin Met(p)
  BY MetIsPeers DEF Base, Dialled
<1>2. QED
  BY <1>1 DEF Base, TypeOK, Entries, Tables

LEMMA StartBase ==
    ASSUME Base, NEW p \in Peers, Start(p)
    PROVE  Base'
<1> USE DEF loopVars, netVars
<1>1. /\ pc[p] = "off" /\ Advance(p, 0, table[p])
      /\ UNCHANGED <<connections, read_fds, i, out, link, backlog, wire, rcv, kills>>
  BY DEF Start
<1>2. /\ table[p] \in [Descriptors -> Entries] /\ OneEach(table[p])
      /\ \A f \in Descriptors : table[p][f] \notin {p, PeerN, RcvN}
      /\ 0 \in 0..Len(Startup[p])
  BY <1>1, BeforeLoop, StartupFacts DEF Peers
<1>3. /\ done' = [done EXCEPT ![p] = 0] /\ done' \in [Peers -> 0..5]
      /\ pc' \in [Peers -> {"off", "startup", "select", "scan", "send", "ended"}]
      /\ pc'[p] = "select" \/ (pc'[p] = "startup" /\ 0 < Len(Startup[p]))
      /\ \A q \in Peers : q # p => pc'[q] = pc[q] /\ table'[q] = table[q]
      /\ table' \in [Peers -> [Descriptors -> Entries]] /\ OneEach(table'[p])
      /\ \A f \in Descriptors : table'[p][f] \in Peers => table'[p][f] = table[p][f]
      /\ \A f \in Descriptors : table[p][f] \in Peers => table'[p][f] = table[p][f]
      /\ pc'[p] = "startup" => \A f \in Descriptors : table'[p][f] \notin {PeerN, RcvN}
  BY <1>1, <1>2, AdvanceFacts
<1>4. (\A q \in Peers : Met(q)' = Met(q)) /\ QueueOK(link, backlog)'
  BY <1>1, SameMet DEF Base
<1>5. TypeOK'
  BY <1>1, <1>3 DEF Base, TypeOK, Entries
<1>6. UNCHANGED done
  BY <1>1, <1>3 DEF Base, TypeOK, Stages
<1>7. Dialled'
  BY <1>1, <1>6 DEF Base, Dialled
<1>8. Counts'
  BY <1>1, <1>4 DEF Base, Counts
<1>9. Tables'
  <2>1. \A f \in Descriptors : table'[p][f] \in Peers => table'[p][f] \in Met(p)'
    BY <1>3, <1>4 DEF Base, Tables
  <2>2. ASSUME NEW q \in Peers, q # p
        PROVE  /\ OneEach(table'[q])
               /\ \A f \in Descriptors : table'[q][f] \in Peers => table'[q][f] \in Met(q)'
               /\ pc'[q] \in {"off", "startup"} =>
                     \A f \in Descriptors : table'[q][f] \notin {PeerN, RcvN}
    <3>1. Tables
      BY DEF Base
    <3>2. Met(q)' = Met(q) /\ table'[q] = table[q] /\ pc'[q] = pc[q]
      BY <1>3, <1>4, <2>2
    <3>3. QED
      BY <3>1, <3>2, SameTable
  <2>3. pc'[p] # "off"
    BY <1>3
  <2>4. QED
    BY <1>3, <2>1, <2>2, <2>3 DEF Tables, OneEach
<1>10. Watched'
  <2>1. \A q \in Peers : \A f \in read_fds[q] : f # Listener => f \in Descriptors
    BY DEF Base, TypeOK
  <2>2. QED
    BY <1>1, <1>3, <2>1 DEF Base, Watched
<1>11. Stages'
  <2>1. done'[p] = 0
    BY <1>3 DEF Base, TypeOK
  <2>2. QED
    BY <1>1, <1>3, <1>6, <2>1 DEF Base, Stages
<1>12. QED
  BY <1>4, <1>5, <1>7, <1>8, <1>9, <1>10, <1>11 DEF Base

LEMMA StartupStep ==
    ASSUME Base, NEW p \in Peers, NEW what, Starting(p, what)
    PROVE  /\ pc[p] = "startup" /\ done[p] \in 0..4 /\ done[p] < Len(Startup[p])
           /\ done[p] + 1 \in 0..Len(Startup[p])
           /\ Startup[p][done[p] + 1].do \in what
           /\ \/ p = 2 /\ done[p] = 0
              \/ p = 3 /\ done[p] \in 0..2
              \/ p = 4
<1>1. /\ pc[p] = "startup" /\ done[p] \in 0..5 /\ done[p] < Len(Startup[p])
      /\ Startup[p][done[p] + 1].do \in what
  BY DEF Base, TypeOK, Stages, Starting
<1>2. /\ Len(Startup[1]) = 0 /\ Len(Startup[2]) = 1
      /\ Len(Startup[3]) = 3 /\ Len(Startup[4]) = 5
  BY StartupFacts
<1>3. p = 1 \/ p = 2 \/ p = 3 \/ p = 4
  BY DEF Peers
<1>4. /\ \/ p = 2 /\ done[p] = 0
         \/ p = 3 /\ done[p] \in 0..2
         \/ p = 4
      /\ done[p] \in 0..4 /\ done[p] + 1 \in 0..Len(Startup[p])
  <2>1. CASE p = 1
    BY <1>1, <1>2, <2>1
  <2>2. CASE p = 2
    BY <1>1, <1>2, <2>2
  <2>3. CASE p = 3
    BY <1>1, <1>2, <2>3
  <2>4. CASE p = 4
    BY <1>1, <1>2, <2>4
  <2>5. QED
    BY <1>3, <2>1, <2>2, <2>3, <2>4
<1>5. QED
  BY <1>1, <1>4

\* Whom a peer connects to before its loop, and when.
LEMMA ConnectFacts ==
    ASSUME Base, NEW p \in Peers, Connect(p)
    PROVE  \E q \in Peers :
              /\ q # p /\ link[<<p, q>>] = "none"
              /\ \/ UNCHANGED <<link, backlog>>
                 \/ /\ Up(q) /\ link' = [link EXCEPT ![<<p, q>>] = "up"]
                    /\ backlog' = [backlog EXCEPT ![q] = Append(@, p)]
              /\ \/ p = 2 /\ q = 1 /\ done[p] = 0
                 \/ p = 3 /\ q = 1 /\ done[p] = 0
                 \/ p = 3 /\ q = 2 /\ done[p] = 2
                 \/ p = 4 /\ q = 1 /\ done[p] = 0
                 \/ p = 4 /\ q = 2 /\ done[p] = 2
                 \/ p = 4 /\ q = 3 /\ done[p] = 4
<1> DEFINE q == Startup[p][done[p] + 1].peer
<1>1. Starting(p, {"try", "must"}) /\ Dial(p, q)
  BY DEF Connect
<1>2. /\ done[p] \in 0..4 /\ done[p] < Len(Startup[p])
      /\ Startup[p][done[p] + 1].do \in {"try", "must"}
      /\ \/ p = 2 /\ done[p] = 0
         \/ p = 3 /\ done[p] \in 0..2
         \/ p = 4
  BY <1>1, StartupStep
<1>3. \/ p = 2 /\ q = 1 /\ done[p] = 0
      \/ p = 3 /\ q = 1 /\ done[p] = 0
      \/ p = 3 /\ q = 2 /\ done[p] = 2
      \/ p = 4 /\ q = 1 /\ done[p] = 0
      \/ p = 4 /\ q = 2 /\ done[p] = 2
      \/ p = 4 /\ q = 3 /\ done[p] = 4
  BY <1>2, StartupFacts
<1>4. q \in Peers /\ q # p
  BY <1>3 DEF Peers
<1>5. link[<<p, q>>] = "none"
  BY <1>3 DEF Base, Dialled
<1>6. \/ UNCHANGED <<link, backlog>>
      \/ /\ Up(q) /\ link' = [link EXCEPT ![<<p, q>>] = "up"]
         /\ backlog' = [backlog EXCEPT ![q] = Append(@, p)]
  BY <1>1 DEF Dial
<1> HIDE DEF q
<1>7. QED
  BY <1>3, <1>4, <1>5, <1>6

\* A connect() leaves the peers accepted alone, whether it fails or not.
LEMMA ConnectMet ==
    ASSUME Base, NEW p \in Peers, NEW q \in Peers, link[<<p, q>>] = "none",
           \/ UNCHANGED <<link, backlog>>
           \/ /\ link' = [link EXCEPT ![<<p, q>>] = "up"]
              /\ backlog' = [backlog EXCEPT ![q] = Append(@, p)]
    PROVE  /\ link' \in [Links -> LinkStates] /\ backlog' \in [Peers -> Seq(Peers)]
           /\ QueueOK(link, backlog)'
           /\ \A r \in Peers : Met(r)' = Met(r)
           /\ \A c \in Links : c # <<p, q>> => link'[c] = link[c]
<1>1. link \in [Links -> LinkStates] /\ backlog \in [Peers -> Seq(Peers)]
  BY DEF Base, TypeOK, LinkStates
<1>2. CASE UNCHANGED <<link, backlog>>
  BY <1>1, <1>2, SameMet DEF Base
<1>3. CASE /\ link' = [link EXCEPT ![<<p, q>>] = "up"]
           /\ backlog' = [backlog EXCEPT ![q] = Append(@, p)]
  <2>1. /\ link' \in [Links -> LinkStates] /\ backlog' \in [Peers -> Seq(Peers)]
        /\ QueueOK(link', backlog')
        /\ \A r \in Peers : MetIn(link', backlog', r) = MetIn(link, backlog, r)
    <3>1. link' = Made(link, p, q) /\ backlog' = Joined(backlog, q, p)
      BY <1>3 DEF Made, Joined
    <3>2. QueueOK(link, backlog) /\ link[<<p, q>>] = "none"
      BY DEF Base
    <3>3. Dialed(link, backlog, p, q)
      BY ONLY <1>1, <3>2, p \in Peers, q \in Peers, DialNet, Zenon
    <3>4. QED
      BY <3>1, <3>3 DEF Dialed
  <2>2. \A c \in Links : c # <<p, q>> => link'[c] = link[c]
    BY <1>1, <1>3
  <2>3. QED
    BY <2>1, <2>2 DEF Met, QueueOK, MetIn
<1>4. QED
  BY <1>2, <1>3, Zenon

LEMMA ConnectBase ==
    ASSUME Base, NEW p \in Peers, Connect(p)
    PROVE  Base'
<1> USE DEF loopVars
<1>1. /\ Starting(p, {"try", "must"}) /\ Advance(p, done[p] + 1, table[p])
      /\ UNCHANGED <<connections, read_fds, i, out, wire, rcv, kills>>
  BY DEF Connect
<1>2. PICK q \in Peers :
        /\ q # p /\ link[<<p, q>>] = "none"
        /\ \/ UNCHANGED <<link, backlog>>
           \/ /\ Up(q) /\ link' = [link EXCEPT ![<<p, q>>] = "up"]
              /\ backlog' = [backlog EXCEPT ![q] = Append(@, p)]
        /\ \/ p = 2 /\ q = 1 /\ done[p] = 0
           \/ p = 3 /\ q = 1 /\ done[p] = 0
           \/ p = 3 /\ q = 2 /\ done[p] = 2
           \/ p = 4 /\ q = 1 /\ done[p] = 0
           \/ p = 4 /\ q = 2 /\ done[p] = 2
           \/ p = 4 /\ q = 3 /\ done[p] = 4
  BY ConnectFacts
<1>3. /\ pc[p] = "startup" /\ done[p] + 1 \in 0..Len(Startup[p])
  BY <1>1, StartupStep
<1>4. /\ table[p] \in [Descriptors -> Entries] /\ OneEach(table[p])
      /\ \A f \in Descriptors : table[p][f] \notin {p, PeerN, RcvN}
  BY <1>3, BeforeLoop
<1>5. /\ done' = [done EXCEPT ![p] = done[p] + 1] /\ done' \in [Peers -> 0..5]
      /\ pc' \in [Peers -> {"off", "startup", "select", "scan", "send", "ended"}]
      /\ pc'[p] = "select" \/ (pc'[p] = "startup" /\ done[p] + 1 < Len(Startup[p]))
      /\ \A r \in Peers : r # p => pc'[r] = pc[r] /\ table'[r] = table[r]
      /\ table' \in [Peers -> [Descriptors -> Entries]] /\ OneEach(table'[p])
      /\ \A f \in Descriptors : table'[p][f] \in Peers => table'[p][f] = table[p][f]
      /\ \A f \in Descriptors : table[p][f] \in Peers => table'[p][f] = table[p][f]
      /\ pc'[p] = "startup" => \A f \in Descriptors : table'[p][f] \notin {PeerN, RcvN}
  BY <1>1, <1>3, <1>4, AdvanceFacts
<1>6. /\ link' \in [Links -> LinkStates] /\ backlog' \in [Peers -> Seq(Peers)]
      /\ QueueOK(link, backlog)'
      /\ \A r \in Peers : Met(r)' = Met(r)
      /\ \A c \in Links : c # <<p, q>> => link'[c] = link[c]
  BY <1>2, ConnectMet
<1>7. TypeOK'
  BY <1>1, <1>5, <1>6 DEF Base, TypeOK, Entries, LinkStates
<1>8. Dialled'
  <2>1. /\ done'[p] = done[p] + 1 /\ \A r \in Peers : r # p => done'[r] = done[r]
        /\ \A r \in Peers : done[r] \in 0..5
    BY <1>5 DEF Base, TypeOK
  <2>2. \A r, s \in Peers : r # p \/ s # q => link'[<<r, s>>] = link[<<r, s>>]
    BY <1>6 DEF Links
  <2>3. QED
    BY <1>1, <1>2, <2>1, <2>2 DEF Base, Dialled, Peers
<1>9. Counts'
  BY <1>1, <1>6 DEF Base, Counts
<1>10. Tables'
  <2>1. \A f \in Descriptors : table'[p][f] \in Peers => table'[p][f] \in Met(p)'
    <3>1. Met(p)' = Met(p)
      BY <1>6
    <3>2. \A f \in Descriptors : table[p][f] \in Peers => table[p][f] \in Met(p)
      BY DEF Base, Tables
    <3>3. \A f \in Descriptors : table'[p][f] \in Peers => table'[p][f] = table[p][f]
      BY <1>5
    <3>4. QED
      BY <3>1, <3>2, <3>3
  <2>2. ASSUME NEW r \in Peers, r # p
        PROVE  /\ OneEach(table'[r])
               /\ \A f \in Descriptors : table'[r][f] \in Peers => table'[r][f] \in Met(r)'
               /\ pc'[r] \in {"off", "startup"} =>
                     \A f \in Descriptors : table'[r][f] \notin {PeerN, RcvN}
    <3>1. Tables
      BY DEF Base
    <3>2. Met(r)' = Met(r) /\ table'[r] = table[r] /\ pc'[r] = pc[r]
      BY <1>5, <1>6, <2>2
    <3>3. QED
      BY <3>1, <3>2, SameTable
  <2>3. pc'[p] # "off"
    BY <1>5
  <2>4. QED
    BY <1>5, <2>1, <2>2, <2>3 DEF Tables, OneEach
<1>11. Watched'
  <2>1. \A r \in Peers : \A f \in read_fds[r] : f # Listener => f \in Descriptors
    BY DEF Base, TypeOK
  <2>2. QED
    BY <1>1, <1>5, <2>1 DEF Base, Watched
<1>12. Stages'
  <2>1. done'[p] = done[p] + 1 /\ \A r \in Peers : r # p => done'[r] = done[r]
    BY <1>5 DEF Base, TypeOK
  <2>2. QED
    BY <1>1, <1>5, <2>1 DEF Base, Stages
<1>13. QED
  BY <1>6, <1>7, <1>8, <1>9, <1>10, <1>11, <1>12 DEF Base

(* accept() *)

\* Who is accepted is none of those in the table, and there is a descriptor.
LEMMA TakeFacts ==
    ASSUME Base, NEW p \in Peers, Take(p, table[p])
    PROVE  /\ connections' = [connections EXCEPT ![p] = @ + 1]
           /\ connections' \in [Peers -> 0..3]
           /\ connections'[p] = Cardinality(Met(p) \cup {Head(backlog[p])})
           /\ read_fds' = [read_fds EXCEPT ![p] = @ \cup {Lowest(table[p])}]
           /\ read_fds' \in [Peers -> SUBSET (Descriptors \cup {Listener})]
           /\ Head(backlog[p]) \in Peers /\ Head(backlog[p]) # p
           /\ Head(backlog[p]) \notin Met(p)
           /\ link[<<Head(backlog[p]), p>>] # "none"
           /\ Left(backlog, p) \in [Peers -> Seq(Peers)]
           /\ QueueOK(link, Left(backlog, p))
           /\ MetIn(link, Left(backlog, p), p) = Met(p) \cup {Head(backlog[p])}
           /\ \A r \in Peers : r # p => MetIn(link, Left(backlog, p), r) = Met(r)
           /\ Opened(table[p], Head(backlog[p])) \in [Descriptors -> Entries]
           /\ OneEach(Opened(table[p], Head(backlog[p])))
           /\ Lowest(table[p]) \in Descriptors /\ table[p][Lowest(table[p])] = None
           /\ Opened(table[p], Head(backlog[p]))[Lowest(table[p])] = Head(backlog[p])
           /\ \A f \in Descriptors : f # Lowest(table[p]) =>
                  Opened(table[p], Head(backlog[p]))[f] = table[p][f]
<1> DEFINE q == Head(backlog[p])
<1>1. /\ backlog[p] # <<>>
      /\ connections' = [connections EXCEPT ![p] = @ + 1]
      /\ read_fds' = [read_fds EXCEPT ![p] = @ \cup {Lowest(table[p])}]
  BY DEF Take
<1>2. link \in [Links -> LinkStates] /\ backlog \in [Peers -> Seq(Peers)]
  BY DEF Base, TypeOK, LinkStates
<1>3. /\ Left(backlog, p) \in [Peers -> Seq(Peers)]
           /\ QueueOK(link, Left(backlog, p))
      /\ q \in Peers /\ link[<<q, p>>] # "none"
      /\ q \notin Met(p)
      /\ MetIn(link, Left(backlog, p), p) = Met(p) \cup {q}
      /\ \A r \in Peers : r # p => MetIn(link, Left(backlog, p), r) = Met(r)
  <2>1. QueueOK(link, backlog) /\ Waiting(backlog, p)
    BY <1>1 DEF Base, Waiting
  <2>2. Taken(link, backlog, p)
    BY ONLY <1>2, <2>1, p \in Peers, TakeNet, Zenon
  <2>3. QED
    BY <2>2 DEF Taken, Met, First
<1>4. q # p
  BY <1>3 DEF Base, Dialled
<1>5. Met(p) \subseteq Peers /\ p \notin Met(p) /\ IsFiniteSet(Met(p))
  BY MetIsPeers DEF Base, Dialled
<1>6. /\ table[p] \in [Descriptors -> Entries] /\ OneEach(table[p])
      /\ \A f \in Descriptors : table[p][f] # p /\ table[p][f] # q
  BY <1>3, <1>5 DEF Base, TypeOK, Entries, Tables
<1>7. p \in 1..6 /\ q \in 1..6
  BY <1>3 DEF Peers
<1>8. \E f \in Descriptors : table[p][f] = None
  BY <1>4, <1>6, <1>7, FreeDescriptor
<1>9. /\ Opened(table[p], q) \in [Descriptors -> Entries]
      /\ OneEach(Opened(table[p], q))
      /\ Lowest(table[p]) \in Descriptors /\ table[p][Lowest(table[p])] = None
      /\ Opened(table[p], q)[Lowest(table[p])] = q
      /\ \A f \in Descriptors : f # Lowest(table[p]) => Opened(table[p], q)[f] = table[p][f]
  BY <1>6, <1>7, <1>8, OpenedOne
<1>10. /\ connections \in [Peers -> 0..3] /\ connections[p] = Cardinality(Met(p))
       /\ read_fds \in [Peers -> SUBSET (Descriptors \cup {Listener})]
  BY DEF Base, TypeOK, Counts
<1>11. connections[p] + 1 = Cardinality(Met(p) \cup {q})
  BY <1>3, <1>5, <1>10, FS_AddElement
<1>12. Cardinality(Met(p) \cup {q}) \in 0..3
  <2>1. Met(p) \cup {q} \subseteq Peers /\ p \notin Met(p) \cup {q}
    BY <1>3, <1>4, <1>5
  <2>2. QED
    BY <2>1, AtMostThree
<1>13. connections' \in [Peers -> 0..3] /\ connections'[p] = Cardinality(Met(p) \cup {q})
  BY <1>1, <1>10, <1>11, <1>12
<1>14. read_fds' \in [Peers -> SUBSET (Descriptors \cup {Listener})]
  BY <1>1, <1>9, <1>10
<1>15. QED
  BY <1>1, <1>3, <1>4, <1>9, <1>13, <1>14

LEMMA AcceptFirstBase ==
    ASSUME Base, NEW p \in Peers, AcceptFirst(p)
    PROVE  Base'
<1> DEFINE q == Head(backlog[p])
           t == Opened(table[p], q)
<1>1. /\ Starting(p, {"accept"}) /\ Take(p, table[p])
      /\ backlog' = Left(backlog, p)
      /\ Advance(p, done[p] + 1, t)
      /\ UNCHANGED <<i, out, link, wire, rcv, kills>>
  BY DEF AcceptFirst, Left
<1>2. /\ connections' = [connections EXCEPT ![p] = @ + 1]
      /\ connections' \in [Peers -> 0..3]
      /\ connections'[p] = Cardinality(Met(p) \cup {q})
      /\ read_fds' = [read_fds EXCEPT ![p] = @ \cup {Lowest(table[p])}]
      /\ read_fds' \in [Peers -> SUBSET (Descriptors \cup {Listener})]
      /\ q \in Peers /\ q # p
      /\ backlog' \in [Peers -> Seq(Peers)] /\ QueueOK(link, backlog')
      /\ MetIn(link, backlog', p) = Met(p) \cup {q}
      /\ \A r \in Peers : r # p => MetIn(link, backlog', r) = Met(r)
      /\ t \in [Descriptors -> Entries] /\ OneEach(t)
      /\ Lowest(table[p]) \in Descriptors /\ table[p][Lowest(table[p])] = None
      /\ t[Lowest(table[p])] = q
      /\ \A f \in Descriptors : f # Lowest(table[p]) => t[f] = table[p][f]
  BY <1>1, TakeFacts
<1> HIDE DEF t
<1>3. /\ pc[p] = "startup" /\ done[p] + 1 \in 0..Len(Startup[p])
  BY <1>1, StartupStep
<1>4. \A f \in Descriptors : t[f] \notin {p, PeerN, RcvN}
  <2>1. \A f \in Descriptors : table[p][f] \notin {p, PeerN, RcvN}
    BY <1>3, BeforeLoop
  <2>2. q \notin {p, PeerN, RcvN}
    BY <1>2 DEF Peers, PeerN, RcvN
  <2>3. QED
    BY <1>2, <2>1, <2>2
<1>5. /\ done' = [done EXCEPT ![p] = done[p] + 1] /\ done' \in [Peers -> 0..5]
      /\ pc' \in [Peers -> {"off", "startup", "select", "scan", "send", "ended"}]
      /\ pc'[p] = "select" \/ (pc'[p] = "startup" /\ done[p] + 1 < Len(Startup[p]))
      /\ \A r \in Peers : r # p => pc'[r] = pc[r] /\ table'[r] = table[r]
      /\ table' \in [Peers -> [Descriptors -> Entries]] /\ OneEach(table'[p])
      /\ \A f \in Descriptors : table'[p][f] \in Peers => table'[p][f] = t[f]
      /\ \A f \in Descriptors : t[f] \in Peers => table'[p][f] = t[f]
      /\ pc'[p] = "startup" => \A f \in Descriptors : table'[p][f] \notin {PeerN, RcvN}
  BY <1>1, <1>2, <1>3, <1>4, AdvanceFacts
<1>6. /\ QueueOK(link, backlog)'
      /\ Met(p)' = Met(p) \cup {q}
      /\ \A r \in Peers : r # p => Met(r)' = Met(r)
  BY <1>1, <1>2 DEF Met, MetIn, QueueOK
<1>7. TypeOK'
  BY <1>1, <1>2, <1>5 DEF Base, TypeOK, Entries
<1>8. Dialled'
  <2>1. /\ done'[p] = done[p] + 1 /\ \A r \in Peers : r # p => done'[r] = done[r]
        /\ \A r \in Peers : done[r] \in 0..5 /\ connections[r] \in 0..3
        /\ connections'[p] = connections[p] + 1
        /\ \A r \in Peers : r # p => connections'[r] = connections[r]
    BY <1>2, <1>5 DEF Base, TypeOK
  <2>2. QED
    BY <1>1, <2>1 DEF Base, Dialled, Peers
<1>9. Counts'
  <2>1. \A r \in Peers : r # p => connections'[r] = connections[r]
    BY <1>2 DEF Base, TypeOK
  <2>2. QED
    BY <1>2, <1>6, <2>1 DEF Base, Counts
<1>10. Tables'
  <2>1. \A f \in Descriptors : table'[p][f] \in Peers => table'[p][f] \in Met(p)'
    BY <1>2, <1>5, <1>6 DEF Base, Tables
  <2>2. ASSUME NEW r \in Peers, r # p
        PROVE  /\ OneEach(table'[r])
               /\ \A f \in Descriptors : table'[r][f] \in Peers => table'[r][f] \in Met(r)'
               /\ pc'[r] \in {"off", "startup"} =>
                     \A f \in Descriptors : table'[r][f] \notin {PeerN, RcvN}
    <3>1. Tables
      BY DEF Base
    <3>2. Met(r)' = Met(r) /\ table'[r] = table[r] /\ pc'[r] = pc[r]
      BY <1>5, <1>6, <2>2
    <3>3. QED
      BY <3>1, <3>2, SameTable
  <2>3. pc'[p] # "off"
    BY <1>5
  <2>4. QED
    BY <1>5, <2>1, <2>2, <2>3 DEF Tables, OneEach
<1>11. Watched'
  <2>1. /\ \A r \in Peers : \A f \in read_fds[r] : f # Listener => f \in Descriptors
        /\ \A f \in read_fds'[p] : f \in read_fds[p] \/ f = Lowest(table[p])
        /\ \A r \in Peers : r # p => read_fds'[r] = read_fds[r]
    BY <1>2 DEF Base, TypeOK
  <2>2. ASSUME NEW f \in read_fds'[p], f # Listener PROVE table'[p][f] \in Peers
    <3>1. f \in Descriptors /\ t[f] \in Peers
      <4>1. CASE f = Lowest(table[p])
        BY <1>2, <4>1
      <4>2. CASE f # Lowest(table[p])
        <5>1. f \in read_fds[p] /\ f \in Descriptors
          BY <2>1, <2>2, <4>2
        <5>2. table[p][f] \in Peers
          BY <2>2, <5>1 DEF Base, Watched
        <5>3. QED
          BY <1>2, <4>2, <5>1, <5>2
      <4>3. QED
        BY <4>1, <4>2
    <3>2. QED
      BY <1>5, <3>1
  <2>3. ASSUME NEW r \in Peers, r # p, NEW f \in read_fds'[r], f # Listener
        PROVE  table'[r][f] \in Peers
    BY <1>5, <2>1, <2>3 DEF Base, Watched
  <2>4. QED
    BY <2>2, <2>3 DEF Watched
<1>12. Stages'
  <2>1. /\ done'[p] = done[p] + 1 /\ \A r \in Peers : r # p => done'[r] = done[r]
        /\ \A r \in Peers : r # p => connections'[r] = connections[r]
    BY <1>2, <1>5 DEF Base, TypeOK
  <2>2. QED
    BY <1>1, <1>5, <2>1 DEF Base, Stages
<1>13. QED
  BY <1>6, <1>7, <1>8, <1>9, <1>10, <1>11, <1>12 DEF Base

\* Whom a peer connects to when it accepts a connection, and when.
Turn(p, r, n) ==
    \/ p = 1 /\ r = 2 /\ n = 0
    \/ p = 1 /\ r = 3 /\ n = 1
    \/ p = 1 /\ r = 4 /\ n = 2
    \/ p = 2 /\ r = 3 /\ n = 1
    \/ p = 2 /\ r = 4 /\ n = 2
    \/ p = 3 /\ r = 4 /\ n = 2

LEMMA TurnFacts ==
    ASSUME NEW p \in Peers, NEW n \in 0..2, OnAccept[p][n + 1] # None
    PROVE  Turn(p, OnAccept[p][n + 1], n)
<1>1. p \in {1, 2, 3, 4} /\ n \in {0, 1, 2}
  BY DEF Peers
<1>2. \/ n = 0 /\ n + 1 = 1
      \/ n = 1 /\ n + 1 = 2
      \/ n = 2 /\ n + 1 = 3
  BY <1>1
<1>3. QED
  BY <1>1, <1>2, OnAcceptFacts DEF Turn, None

\* The change of links and backlogs by a step of the listener.
LEMMA AcceptFacts ==
    ASSUME Base, NEW p \in Peers, Accept(p)
    PROVE  /\ link' \in [Links -> LinkStates] /\ backlog' \in [Peers -> Seq(Peers)]
           /\ QueueOK(link', backlog')
           /\ \A r \in Peers : MetIn(link', backlog', r) = MetIn(link, Left(backlog, p), r)
           /\ \/ UNCHANGED link
              \/ \E r \in Peers :
                    /\ Turn(p, r, connections[p]) /\ Up(r)
                    /\ \A c \in Links : c # <<p, r>> => link'[c] = link[c]
<1> DEFINE r == OnAccept[p][connections[p] + 1]
<1>1. /\ Take(p, table[p])
      /\ IF r # None /\ Up(r)
         THEN /\ link' = Made(link, p, r)
              /\ backlog' = [Left(backlog, p) EXCEPT ![r] = Append(@, p)]
         ELSE link' = link /\ backlog' = Left(backlog, p)
  BY DEF Accept, Made, Left
<1>2. /\ Left(backlog, p) \in [Peers -> Seq(Peers)]
      /\ QueueOK(link, Left(backlog, p))
      /\ link \in [Links -> LinkStates]
  BY <1>1, TakeFacts DEF Base, TypeOK, LinkStates
<1>3. connections[p] \in 0..2
  <2>1. connections \in [Peers -> 0..3] /\ connections' \in [Peers -> 0..3]
        /\ connections' = [connections EXCEPT ![p] = @ + 1]
    BY <1>1, TakeFacts DEF Base, TypeOK
  <2>2. QED
    BY <2>1
<1>4. CASE r # None /\ Up(r)
  <2>1. Turn(p, r, connections[p])
    BY <1>3, <1>4, TurnFacts
  <2> HIDE DEF r
  <2>2. r \in Peers /\ link[<<p, r>>] = "none"
    BY <1>3, <2>1 DEF Base, Dialled, Turn, Peers
  <2>3. Dialed(link, Left(backlog, p), p, r)
    BY ONLY <1>2, <2>2, p \in Peers, DialNet, Zenon
  <2>4. link' = Made(link, p, r) /\ backlog' = Joined(Left(backlog, p), r, p)
    BY <1>1, <1>4 DEF Joined
  <2>5. \A c \in Links : c # <<p, r>> => link'[c] = link[c]
    BY <1>2, <2>4 DEF Made
  <2>6. QED
    BY <1>4, <2>1, <2>2, <2>3, <2>4, <2>5 DEF Dialed
<1>5. CASE ~(r # None /\ Up(r))
  BY <1>1, <1>2, <1>5
<1>6. QED
  BY <1>4, <1>5

LEMMA AcceptBase ==
    ASSUME Base, NEW p \in Peers, Accept(p)
    PROVE  Base'
<1> DEFINE q == Head(backlog[p])
           t == Opened(table[p], q)
<1>1. /\ At(p, Listener) /\ Take(p, table[p])
      /\ table' = [table EXCEPT ![p] = t]
      /\ i' = [i EXCEPT ![p] = Listener + 1]
      /\ UNCHANGED <<pc, done, out, wire, rcv, kills>>
  BY DEF Accept, Visited
<1>2. /\ connections' = [connections EXCEPT ![p] = @ + 1]
      /\ connections' \in [Peers -> 0..3]
      /\ connections'[p] = Cardinality(Met(p) \cup {q})
      /\ read_fds' = [read_fds EXCEPT ![p] = @ \cup {Lowest(table[p])}]
      /\ read_fds' \in [Peers -> SUBSET (Descriptors \cup {Listener})]
      /\ q \in Peers /\ q # p
      /\ MetIn(link, Left(backlog, p), p) = Met(p) \cup {q}
      /\ \A r \in Peers : r # p => MetIn(link, Left(backlog, p), r) = Met(r)
      /\ t \in [Descriptors -> Entries] /\ OneEach(t)
      /\ Lowest(table[p]) \in Descriptors /\ table[p][Lowest(table[p])] = None
      /\ t[Lowest(table[p])] = q
      /\ \A f \in Descriptors : f # Lowest(table[p]) => t[f] = table[p][f]
  BY <1>1, TakeFacts
<1> HIDE DEF t
<1>3. /\ link' \in [Links -> LinkStates] /\ backlog' \in [Peers -> Seq(Peers)]
      /\ QueueOK(link', backlog')
      /\ \A r \in Peers : MetIn(link', backlog', r) = MetIn(link, Left(backlog, p), r)
      /\ \/ UNCHANGED link
         \/ \E r \in Peers :
               /\ Turn(p, r, connections[p]) /\ Up(r)
               /\ \A c \in Links : c # <<p, r>> => link'[c] = link[c]
  BY AcceptFacts
<1>4. /\ QueueOK(link, backlog)'
      /\ Met(p)' = Met(p) \cup {q}
      /\ \A r \in Peers : r # p => Met(r)' = Met(r)
  BY <1>2, <1>3 DEF Met, MetIn, QueueOK
<1>5. /\ table' \in [Peers -> [Descriptors -> Entries]] /\ table'[p] = t
      /\ \A r \in Peers : r # p => table'[r] = table[r]
  BY <1>1, <1>2 DEF Base, TypeOK, Entries
<1>6. TypeOK'
  <2>1. i' \in [Peers -> 0..6] /\ link' \in [Links -> {"none", "up", "broken"}]
    BY <1>1, <1>3 DEF Base, TypeOK, LinkStates, Listener
  <2>2. table' \in [Peers -> [Descriptors -> {None, PeerN, RcvN} \cup Peers]]
    BY <1>5 DEF Entries
  <2>3. QED
    BY <1>1, <1>2, <1>3, <2>1, <2>2 DEF Base, TypeOK
<1>7. /\ connections'[p] = connections[p] + 1 /\ connections[p] \in 0..2
      /\ \A r \in Peers : r # p => connections'[r] = connections[r]
      /\ \A r \in Peers : connections[r] \in 0..3
  BY <1>2 DEF Base, TypeOK
<1>8. Dialled'
  <2>1. CASE UNCHANGED link
    BY <1>1, <1>7, <2>1 DEF Base, Dialled, Peers
  <2>2. ASSUME NEW r \in Peers, Turn(p, r, connections[p]),
               \A c \in Links : c # <<p, r>> => link'[c] = link[c]
        PROVE  Dialled'
    <3>1. \A u, v \in Peers : u # p \/ v # r => link'[<<u, v>>] = link[<<u, v>>]
      BY <2>2 DEF Links
    <3>2. QED
      BY <1>1, <1>7, <2>2, <3>1 DEF Base, Dialled, Peers, Turn
  <2>3. QED
    BY <1>3, <2>1, <2>2
<1>9. Counts'
  BY <1>2, <1>4, <1>7 DEF Base, Counts
<1>10. Tables'
  <2>1. pc'[p] \notin {"off", "startup"}
    BY <1>1 DEF At
  <2>2. \A f \in Descriptors : table'[p][f] \in Peers => table'[p][f] \in Met(p)'
    BY <1>2, <1>4, <1>5 DEF Base, Tables
  <2>3. ASSUME NEW r \in Peers, r # p
        PROVE  /\ OneEach(table'[r])
               /\ \A f \in Descriptors : table'[r][f] \in Peers => table'[r][f] \in Met(r)'
               /\ pc'[r] \in {"off", "startup"} =>
                     \A f \in Descriptors : table'[r][f] \notin {PeerN, RcvN}
    <3>1. Tables
      BY DEF Base
    <3>2. Met(r)' = Met(r) /\ table'[r] = table[r] /\ pc'[r] = pc[r]
      BY <1>1, <1>4, <1>5, <2>3
    <3>3. QED
      BY <3>1, <3>2, SameTable
  <2>4. QED
    BY <1>2, <1>5, <2>1, <2>2, <2>3 DEF Tables, OneEach
<1>11. Watched'
  <2>1. /\ \A r \in Peers : \A f \in read_fds[r] : f # Listener => f \in Descriptors
        /\ \A f \in read_fds'[p] : f \in read_fds[p] \/ f = Lowest(table[p])
        /\ \A r \in Peers : r # p => read_fds'[r] = read_fds[r]
    BY <1>2 DEF Base, TypeOK
  <2>2. ASSUME NEW f \in read_fds'[p], f # Listener PROVE table'[p][f] \in Peers
    BY <1>2, <1>5, <2>1, <2>2 DEF Base, Watched
  <2>3. ASSUME NEW r \in Peers, r # p, NEW f \in read_fds'[r], f # Listener
        PROVE  table'[r][f] \in Peers
    BY <1>5, <2>1, <2>3 DEF Base, Watched
  <2>4. QED
    BY <2>2, <2>3 DEF Watched
<1>12. Stages'
  <2>1. pc[p] = "scan"
    BY <1>1 DEF At
  <2>2. QED
    BY <1>1, <1>7, <2>1 DEF Base, Stages
<1>13. QED
  BY <1>4, <1>6, <1>8, <1>9, <1>10, <1>11, <1>12 DEF Base

LEMMA StepBase == Base /\ [Next]_vars => Base'
<1> SUFFICES ASSUME Base, [Next]_vars PROVE Base'
  OBVIOUS
<1>1. ASSUME NEW p \in Peers, Start(p) \/ Step(p) \/ Kill(p) PROVE Base'
  <2>1. CASE Start(p)
    BY <2>1, StartBase
  <2>2. CASE Connect(p)
    BY <2>2, ConnectBase
  <2>3. CASE ConnectFails(p) \/ SigPipe(p) \/ Kill(p)
    BY <2>3, EndBase
  <2>4. CASE AcceptFirst(p)
    BY <2>4, AcceptFirstBase
  <2>5. CASE Select(p)
    BY <2>5, SelectBase
  <2>6. CASE Accept(p)
    BY <2>6, AcceptBase
  <2>7. CASE Recv(p)
    BY <2>7, RecvBase
  <2>8. CASE NextPass(p)
    BY <2>8, NextPassBase
  <2>9. CASE Send(p)
    BY <2>9, SendBase
  <2>10. QED
    BY <1>1, <2>1, <2>2, <2>3, <2>4, <2>5, <2>6, <2>7, <2>8, <2>9 DEF Step
<1>2. CASE UNCHANGED vars
  <2>1. (\A p \in Peers : Met(p)' = Met(p)) /\ QueueOK(link, backlog)'
    BY <1>2, SameMet DEF Base, vars, netVars
  <2>2. /\ UNCHANGED <<pc, done, table, connections, read_fds, i, out, link, backlog, wire,
                      rcv, kills>>
        /\ TypeOK /\ Dialled /\ Stages /\ Watched
    BY <1>2 DEF Base, vars, netVars, loopVars
  <2>a. TypeOK'
    BY <2>2 DEF TypeOK
  <2>b. Dialled'
    BY <2>2 DEF Dialled
  <2>c. Stages' /\ Watched'
    BY <2>2 DEF Stages, Watched
  <2>3. Counts' /\ Tables'
    BY <1>2, <2>1 DEF Base, vars, loopVars, Counts, Tables, OneEach
  <2>4. QED
    BY <2>1, <2>a, <2>b, <2>c, <2>3 DEF Base
<1>3. QED
  BY <1>1, <1>2 DEF Next

-----------------------------------------------------------------------------
(* The part that is about who waits for whom *)

\* All that a peer has accepted are gone, and it listens; or it is at the recv()
\* on the one it has just accepted.
Idle(p) == read_fds[p] = {Listener} /\ Met(p) \subseteq Gone
Holding(p) ==
    /\ pc[p] \in {"scan", "ended"} /\ i[p] = 1
    /\ \E f \in Descriptors :
          /\ read_fds[p] = {Listener, f}
          /\ \A q \in Met(p) : q # table[p][f] => q \in Gone
FirstTwo == \A p \in {1, 2} : Idle(p) \/ Holding(p)

\* The first two come to the fourth only when the others are gone, and so not
\* both of them.
Apart ==
    /\ link[<<1, 4>>] # "none" => {2, 3} \subseteq Gone
    /\ link[<<2, 4>>] # "none" => {1, 3} \subseteq Gone
    /\ ~(link[<<1, 4>>] # "none" /\ link[<<2, 4>>] # "none")

\* The fourth waits for its second connection, so that the third lacks one.
Fourth ==
    /\ done[4] \in 0..3 /\ pc[4] \in {"off", "startup", "ended"}
    /\ connections[4] = IF done[4] \in {0, 1} THEN 0 ELSE 1

Inv == Base /\ FirstTwo /\ Apart /\ Fourth /\ NothingArrives

\* What a step of p leaves alone.
LEMMA Frame ==
    ASSUME Base, NEW p \in Peers, Start(p) \/ Step(p) \/ Kill(p)
    PROVE  /\ \A r \in Peers : r # p =>
                /\ Met(r)' = Met(r) /\ read_fds'[r] = read_fds[r] /\ i'[r] = i[r]
                /\ pc'[r] = pc[r] /\ table'[r] = table[r] /\ done'[r] = done[r]
                /\ connections'[r] = connections[r]
           /\ Accept(p) \/ AcceptFirst(p) \/ (Met(p)' = Met(p) /\ UNCHANGED connections)
           /\ Gone \subseteq Gone'
<1> USE DEF loopVars, netVars
<1>a. /\ pc \in [Peers -> {"off", "startup", "select", "scan", "send", "ended"}]
      /\ read_fds \in [Peers -> SUBSET (Descriptors \cup {Listener})]
      /\ table \in [Peers -> [Descriptors -> Entries]]
      /\ done \in [Peers -> 0..5] /\ connections \in [Peers -> 0..3]
      /\ i \in [Peers -> 0..6]
  BY DEF Base, TypeOK, Entries
<1>1. CASE Start(p)
  <2>1. \A r \in Peers : Met(r)' = Met(r)
    BY <1>1, SameMet DEF Start
  <2>2. QED
    BY <1>a, <1>1, <2>1 DEF Start, Advance, Gone
<1>2. CASE Connect(p)
  <2>1. \A r \in Peers : Met(r)' = Met(r)
    <3>1. PICK q \in Peers :
            /\ link[<<p, q>>] = "none"
            /\ \/ UNCHANGED <<link, backlog>>
               \/ /\ Up(q) /\ link' = [link EXCEPT ![<<p, q>>] = "up"]
                  /\ backlog' = [backlog EXCEPT ![q] = Append(@, p)]
      BY <1>2, ConnectFacts
    <3>2. QED
      BY <3>1, ConnectMet
  <2>2. pc[p] # "ended"
    BY <1>2 DEF Connect, Starting
  <2>3. QED
    BY <1>a, <1>2, <2>1, <2>2 DEF Connect, Advance, Gone
<1>3. CASE ConnectFails(p) \/ SigPipe(p) \/ Kill(p)
  <2>1. /\ pc' = [pc EXCEPT ![p] = "ended"]
        /\ UNCHANGED <<done, table, connections, read_fds, i, link, backlog>>
    BY <1>3 DEF ConnectFails, SigPipe, Kill
  <2>2. \A r \in Peers : Met(r)' = Met(r)
    BY <2>1, SameMet
  <2>3. QED
    BY <1>a, <2>1, <2>2 DEF Gone
<1>4. CASE AcceptFirst(p)
  <2>1. /\ pc[p] # "ended" /\ Take(p, table[p]) /\ backlog' = Left(backlog, p)
        /\ UNCHANGED <<link, i>>
    BY <1>4 DEF AcceptFirst, Starting, Left
  <2>2. \A r \in Peers : r # p => MetIn(link, Left(backlog, p), r) = Met(r)
    BY <2>1, TakeFacts
  <2>3. \A r \in Peers : r # p => Met(r)' = Met(r)
    BY <2>1, <2>2 DEF Met, MetIn
  <2>4. QED
    BY <1>a, <1>4, <2>1, <2>3 DEF AcceptFirst, Advance, Take, Gone
<1>5. CASE Accept(p)
  <2>1. /\ Take(p, table[p]) /\ UNCHANGED <<pc, done>>
        /\ i' = [i EXCEPT ![p] = Listener + 1]
        /\ \A r \in Peers : r # p => table'[r] = table[r]
    BY <1>a, <1>5 DEF Accept, Visited
  <2>2. \A r \in Peers : r # p => MetIn(link, Left(backlog, p), r) = Met(r)
    BY <2>1, TakeFacts
  <2>3. \A r \in Peers : MetIn(link', backlog', r) = MetIn(link, Left(backlog, p), r)
    BY <1>5, AcceptFacts
  <2>4. \A r \in Peers : r # p => Met(r)' = Met(r)
    BY <2>2, <2>3 DEF Met, MetIn
  <2>5. QED
    BY <1>a, <1>5, <2>1, <2>4 DEF Take, Gone
<1>6. CASE Select(p) \/ Recv(p) \/ NextPass(p)
  <2>1. UNCHANGED <<done, connections, link, backlog>> /\ pc[p] # "ended"
    BY <1>6 DEF Select, Recv, NextPass, At
  <2>2. \A r \in Peers : Met(r)' = Met(r)
    BY <2>1, SameMet
  <2>3. \A r \in Peers : r # p => /\ read_fds'[r] = read_fds[r] /\ i'[r] = i[r]
                                  /\ pc'[r] = pc[r] /\ table'[r] = table[r]
    <3>1. CASE Select(p) \/ NextPass(p)
      BY <1>a, <3>1 DEF Select, NextPass
    <3>2. CASE Recv(p)
      <4>1. PICK f \in Descriptors :
              /\ At(p, f) /\ table[p][f] \in Peers
              /\ \/ /\ wire[<<table[p][f], p>>] > 0
                    /\ wire' = [wire EXCEPT ![<<table[p][f], p>>] = @ - 1]
                    /\ rcv' = [rcv EXCEPT ![p] = Append(@, table[p][f])]
                    /\ UNCHANGED <<table, read_fds>>
                 \/ /\ pc[table[p][f]] = "ended"
                    /\ table' = [table EXCEPT ![p][f] = None]
                    /\ read_fds' = [read_fds EXCEPT ![p] = @ \ {f}]
                    /\ UNCHANGED <<wire, rcv>>
              /\ i' = [i EXCEPT ![p] = f + 1]
              /\ pc' = [pc EXCEPT ![p] =
                          IF p # 4 /\ connections[p] = 3 THEN "send" ELSE "scan"]
              /\ UNCHANGED <<done, connections, out, link, backlog, kills>>
        BY <3>2, RecvFacts, Zenon
      <4>2. QED
        BY <1>a, <4>1
    <3>3. QED
      BY <1>6, <3>1, <3>2
  <2>4. QED
    BY <2>1, <2>2, <2>3 DEF Gone
<1>7. CASE Send(p)
  <2>1. /\ UNCHANGED <<done, connections, read_fds, i, table, backlog>> /\ pc[p] # "ended"
        /\ \A r \in Peers : r # p => pc'[r] = pc[r]
    BY <1>a, <1>7 DEF Send
  <2>2. \A r \in Peers : Met(r)' = Met(r)
    <3>1. \A c \in Links : link'[c] = "none" <=> link[c] = "none"
      <4>1. PICK q \in Peers :
              /\ link[<<p, q>>] = "up"
              /\ UNCHANGED link \/ link' = [link EXCEPT ![<<p, q>>] = "broken"]
        BY <1>7, SendFacts
      <4>2. link \in [Links -> LinkStates] /\ <<p, q>> \in Links
        BY DEF Base, TypeOK, LinkStates, Links
      <4>3. QED
        BY <4>1, <4>2
    <3>2. QED
      BY <2>1, <3>1, SendMet
  <2>3. QED
    BY <2>1, <2>2 DEF Gone
<1>8. QED
  BY <1>1, <1>2, <1>3, <1>4, <1>5, <1>6, <1>7 DEF Step

\* A peer that is idle or holding keeps that while another one moves.
LEMMA OtherMoves ==
    ASSUME Base, NEW p \in Peers, Start(p) \/ Step(p) \/ Kill(p),
           NEW r \in Peers, r # p, Idle(r) \/ Holding(r)
    PROVE  Idle(r)' \/ Holding(r)'
<1>1. /\ Met(r)' = Met(r) /\ read_fds'[r] = read_fds[r] /\ i'[r] = i[r]
      /\ pc'[r] = pc[r] /\ table'[r] = table[r] /\ Gone \subseteq Gone'
  BY Frame
<1>2. CASE Idle(r)
  BY <1>1, <1>2 DEF Idle
<1>3. CASE Holding(r)
  BY <1>1, <1>3 DEF Holding
<1>4. QED
  BY <1>2, <1>3

LEMMA FirstTwoStep ==
    ASSUME Inv, NEW p \in Peers, Start(p) \/ Step(p) \/ Kill(p)
    PROVE  FirstTwo'
<1> USE DEF loopVars, netVars
<1>a. /\ pc \in [Peers -> {"off", "startup", "select", "scan", "send", "ended"}]
      /\ read_fds \in [Peers -> SUBSET (Descriptors \cup {Listener})]
      /\ table \in [Peers -> [Descriptors -> Entries]]
      /\ i \in [Peers -> 0..6]
      /\ Base
  BY DEF Inv, Base, TypeOK, Entries
<1>b. /\ Gone \subseteq Gone'
      /\ Accept(p) \/ AcceptFirst(p) \/ Met(p)' = Met(p)
  BY <1>a, Frame
<1>1. ASSUME NEW r \in {1, 2}, r # p PROVE Idle(r)' \/ Holding(r)'
  <2>1. r \in Peers /\ (Idle(r) \/ Holding(r))
    BY DEF Inv, FirstTwo, Peers
  <2>2. QED
    BY <1>a, <1>1, <2>1, OtherMoves
<1>2. ASSUME p \in {1, 2} PROVE Idle(p)' \/ Holding(p)'
  <2>1. Idle(p) \/ Holding(p)
    BY <1>2 DEF Inv, FirstTwo
  <2>2. CASE Kill(p)
    <3>1. /\ pc' = [pc EXCEPT ![p] = "ended"] /\ UNCHANGED <<read_fds, i, table>>
          /\ Met(p)' = Met(p)
      BY <2>2, SameMet DEF Kill
    <3>2. QED
      BY <1>a, <1>b, <2>1, <3>1 DEF Idle, Holding
  <2>3. CASE Start(p) \/ Connect(p) \/ ConnectFails(p) \/ SigPipe(p) \/ Send(p)
    <3>1. pc[p] \in {"off", "startup", "send"} /\ UNCHANGED read_fds
      BY <2>3 DEF Start, Connect, ConnectFails, SigPipe, Send, Starting
    <3>2. Idle(p)
      BY <2>1, <3>1 DEF Holding
    <3>3. Met(p)' = Met(p)
      <4>1. ~Accept(p) /\ ~AcceptFirst(p)
        <5>1. CASE Start(p) \/ SigPipe(p) \/ Send(p)
          BY <5>1 DEF Start, SigPipe, Send, Accept, AcceptFirst, At, Starting
        <5>2. CASE Connect(p) \/ ConnectFails(p)
          BY <5>2 DEF Connect, ConnectFails, Accept, AcceptFirst, At, Starting
        <5>3. QED
          BY <2>3, <5>1, <5>2
      <4>2. QED
        BY <1>b, <4>1
    <3>4. QED
      BY <1>b, <3>1, <3>2, <3>3 DEF Idle
  <2>4. CASE AcceptFirst(p)
    <3>1. /\ Startup[p][done[p] + 1].do = "accept" /\ (p = 2 /\ done[p] = 0)
      BY <1>a, <1>2, <2>4, StartupStep DEF AcceptFirst
    <3>2. QED
      BY <3>1, StartupFacts
  <2>5. CASE Select(p)
    <3>1. Idle(p)
      BY <2>1, <2>5 DEF Select, Holding
    <3>2. read_fds'[p] = {Listener} /\ Met(p)' = Met(p)
      BY <1>a, <2>5, <3>1, SameMet DEF Select, Idle
    <3>3. QED
      BY <1>b, <3>1, <3>2 DEF Idle
  <2>6. CASE Accept(p)
    <3>1. Idle(p)
      BY <1>a, <2>1, <2>6 DEF Accept, At, Holding, Listener
    <3>2. /\ pc[p] = "scan" /\ UNCHANGED pc /\ i'[p] = 1
          /\ Take(p, table[p])
          /\ table' = [table EXCEPT ![p] = Opened(table[p], Head(backlog[p]))]
      BY <1>a, <2>6 DEF Accept, At, Visited, Listener
    <3>3. /\ read_fds' = [read_fds EXCEPT ![p] = @ \cup {Lowest(table[p])}]
          /\ MetIn(link, Left(backlog, p), p) = Met(p) \cup {Head(backlog[p])}
          /\ Lowest(table[p]) \in Descriptors
          /\ Opened(table[p], Head(backlog[p]))[Lowest(table[p])] = Head(backlog[p])
      BY <1>a, <3>2, TakeFacts
    <3>4. Met(p)' = Met(p) \cup {Head(backlog[p])}
      BY <1>a, <2>6, <3>3, AcceptFacts DEF Met, MetIn
    <3>5. /\ read_fds'[p] = {Listener, Lowest(table[p])}
          /\ table'[p][Lowest(table[p])] = Head(backlog[p])
      BY <1>a, <3>1, <3>2, <3>3 DEF Idle
    <3>6. Holding(p)'
      BY <1>b, <3>1, <3>2, <3>3, <3>4, <3>5 DEF Holding, Idle
    <3>7. QED
      BY <3>6
  <2>7. CASE Recv(p)
    <3>1. PICK f \in Descriptors :
            /\ At(p, f) /\ table[p][f] \in Peers
            /\ wire[<<table[p][f], p>>] > 0 \/
                 (/\ pc[table[p][f]] = "ended"
                  /\ read_fds' = [read_fds EXCEPT ![p] = @ \ {f}])
            /\ UNCHANGED <<link, backlog>>
      BY <1>a, <2>7, RecvFacts
    <3>2. f # Listener /\ f \in read_fds[p]
      BY <3>1 DEF At, Descriptors, Listener
    <3>3. /\ read_fds[p] = {Listener, f}
          /\ \A q \in Met(p) : q # table[p][f] => q \in Gone
      BY <2>1, <3>2 DEF Idle, Holding
    <3>4. wire[<<table[p][f], p>>] = 0
      BY <3>1 DEF Inv, NothingArrives, Links
    <3>5. /\ table[p][f] \in Gone
          /\ read_fds' = [read_fds EXCEPT ![p] = @ \ {f}]
      BY <3>1, <3>4 DEF Gone
    <3>6. Met(p)' = Met(p)
      BY <3>1, SameMet
    <3>7. Idle(p)'
      BY <1>a, <1>b, <3>2, <3>3, <3>5, <3>6 DEF Idle
    <3>8. QED
      BY <3>7
  <2>8. CASE NextPass(p)
    <3>1. Idle(p)
      BY <2>1, <2>8 DEF NextPass, Holding, Descriptors
    <3>2. UNCHANGED read_fds /\ Met(p)' = Met(p)
      BY <2>8, SameMet DEF NextPass
    <3>3. QED
      BY <1>b, <3>1, <3>2 DEF Idle
  <2>9. QED
    BY <2>2, <2>3, <2>4, <2>5, <2>6, <2>7, <2>8 DEF Step
<1>3. QED
  BY <1>1, <1>2 DEF FirstTwo

(* Counting peers *)

\* Three of the four peers are all but one.
LEMMA AllOthers ==
    ASSUME NEW p \in Peers, NEW S, S \subseteq Peers, p \notin S, Cardinality(S) = 3,
           NEW q \in Peers, q # p
    PROVE  q \in S
<1> SUFFICES ASSUME q \notin S PROVE FALSE
  OBVIOUS
<1>1. IsFiniteSet(S)
  BY AtMostThree
<1>2. Cardinality(S \cup {q}) = Cardinality(S) + 1
  BY <1>1, FS_AddElement
<1>3. S \cup {q} \subseteq Peers /\ p \notin S \cup {q}
  OBVIOUS
<1>4. Cardinality(S \cup {q}) \in 0..3
  BY ONLY p \in Peers, <1>3, AtMostThree
<1>5. QED
  BY <1>2, <1>4

\* Two of them that are neither of two others are the other two.
LEMMA TheOtherTwo ==
    ASSUME NEW p \in Peers, NEW S, S \subseteq Peers, p \notin S, Cardinality(S) = 2,
           NEW x \in Peers, x # p, x \notin S, NEW q \in Peers, q # p, q # x
    PROVE  q \in S
<1>1. IsFiniteSet(S)
  BY AtMostThree
<1>2. Cardinality(S \cup {x}) = 3
  BY <1>1, FS_AddElement
<1>3. S \cup {x} \subseteq Peers /\ p \notin S \cup {x}
  OBVIOUS
<1>4. q \in S \cup {x}
  BY <1>2, <1>3, AllOthers
<1>5. QED
  BY <1>4

\* While the fourth peer waits for its second connection, the third lacks one,
\* and so does not connect to the fourth.
LEMMA ThirdFew ==
    ASSUME Base, done[4] \in 0..3
    PROVE  connections[3] \in 0..2 /\ link[<<3, 4>>] = "none"
<1>1. link[<<4, 3>>] = "none" /\ 3 \in Peers /\ 4 \in Peers
  BY DEF Base, Dialled, Peers
<1>2. Met(3) \subseteq Peers /\ 3 \notin Met(3) /\ 4 \notin Met(3) /\ IsFiniteSet(Met(3))
  BY <1>1, MetIsPeers DEF Base, Dialled, Met, MetIn
<1>3. Cardinality(Met(3) \cup {4}) = Cardinality(Met(3)) + 1
  BY <1>2, FS_AddElement
<1>4. Met(3) \cup {4} \subseteq Peers /\ 3 \notin Met(3) \cup {4}
  BY <1>1, <1>2
<1>5. Cardinality(Met(3) \cup {4}) \in 0..3 /\ Cardinality(Met(3)) \in 0..3
  BY <1>1, <1>2, <1>4, AtMostThree
<1>6. connections[3] \in 0..2
  BY <1>1, <1>3, <1>5 DEF Base, Counts
<1>7. QED
  BY <1>6 DEF Base, Dialled

\* Only accept() brings a peer to connect to the fourth.
LEMMA ToFourth ==
    ASSUME Base, NEW p \in Peers, Start(p) \/ Step(p) \/ Kill(p),
           NEW r \in Peers, link'[<<r, 4>>] # "none", link[<<r, 4>>] = "none"
    PROVE  r = p /\ Accept(p) /\ Turn(p, 4, connections[p]) /\ Up(4)
<1> USE DEF loopVars, netVars
<1>a. link \in [Links -> LinkStates] /\ 4 \in Peers
  BY DEF Base, TypeOK, LinkStates, Peers
<1>b. \A u, v \in Peers : <<u, v>> \in Links
  BY DEF Links
<1>1. CASE Connect(p)
  <2>1. PICK q \in Peers :
          /\ q # p /\ link[<<p, q>>] = "none"
          /\ \/ UNCHANGED <<link, backlog>>
             \/ /\ Up(q) /\ link' = [link EXCEPT ![<<p, q>>] = "up"]
                /\ backlog' = [backlog EXCEPT ![q] = Append(@, p)]
          /\ \/ p = 2 /\ q = 1 /\ done[p] = 0
             \/ p = 3 /\ q = 1 /\ done[p] = 0
             \/ p = 3 /\ q = 2 /\ done[p] = 2
             \/ p = 4 /\ q = 1 /\ done[p] = 0
             \/ p = 4 /\ q = 2 /\ done[p] = 2
             \/ p = 4 /\ q = 3 /\ done[p] = 4
    BY <1>1, ConnectFacts, Zenon
  <2>2. QED
    BY <1>a, <1>b, <2>1
<1>2. CASE Accept(p)
  <2>1. PICK q \in Peers :
          /\ Turn(p, q, connections[p]) /\ Up(q)
          /\ \A c \in Links : c # <<p, q>> => link'[c] = link[c]
    BY <1>2, AcceptFacts
  <2>2. r = p /\ q = 4
    BY <1>a, <1>b, <2>1
  <2>3. QED
    BY <1>2, <2>1, <2>2
<1>3. CASE Send(p)
  <2>1. \E q \in Peers :
          /\ q # p /\ link[<<p, q>>] = "up" /\ pc[p] = "send"
          /\ \/ /\ Up(q) /\ UNCHANGED link
                /\ wire' = [wire EXCEPT ![<<p, q>>] = @ + 1]
             \/ /\ link' = [link EXCEPT ![<<p, q>>] = "broken"]
                /\ UNCHANGED wire
          /\ out' = [out EXCEPT ![p] = (@ + 1) % 3]
          /\ pc' = [pc EXCEPT ![p] = IF out[p] = 2 THEN "scan" ELSE "send"]
          /\ UNCHANGED <<done, table, connections, read_fds, i, backlog, rcv, kills>>
    BY <1>3, SendFacts, Zenon
  <2>2. QED
    BY <1>a, <1>b, <2>1
<1>4. CASE Start(p) \/ ConnectFails(p) \/ AcceptFirst(p) \/ Select(p)
             \/ NextPass(p) \/ SigPipe(p) \/ Kill(p)
  BY <1>4 DEF Start, ConnectFails, AcceptFirst, Select, NextPass, SigPipe, Kill
<1>5. CASE Recv(p)
  BY <1>5, RecvFacts
<1>6. QED
  BY <1>1, <1>2, <1>3, <1>4, <1>5 DEF Step

LEMMA ApartStep ==
    ASSUME Inv, NEW p \in Peers, Start(p) \/ Step(p) \/ Kill(p)
    PROVE  Apart'
<1>a. Base /\ FirstTwo /\ Apart /\ {1, 2, 3, 4} \subseteq Peers
  BY DEF Inv, Peers
<1>b. Gone \subseteq Gone'
  BY <1>a, Frame
<1>1. ASSUME NEW r \in {1, 2}, NEW s \in {1, 2}, s # r,
             link'[<<r, 4>>] # "none", link[<<r, 4>>] = "none"
      PROVE  /\ {s, 3} \subseteq Gone'
             /\ link[<<s, 4>>] = "none" /\ link'[<<s, 4>>] = "none"
  <2>1. /\ r \in Peers /\ s \in Peers /\ s # 4 /\ r # 4
        /\ r = p /\ Accept(p) /\ Turn(p, 4, connections[p]) /\ Up(4)
    BY <1>a, <1>1, ToFourth
  <2>2. connections[p] = 2 /\ pc[p] = "scan" /\ ~(i[p] = 1)
    <3>1. connections[p] = 2
      BY <1>1, <2>1 DEF Turn
    <3>2. pc[p] = "scan" /\ ~(i[p] = 1)
      BY <2>1 DEF Accept, At, Listener
    <3>3. QED
      BY <3>1, <3>2
  <2>3. Idle(p)
    BY <1>a, <1>1, <2>1, <2>2 DEF FirstTwo, Holding
  <2>4. /\ Met(p) \subseteq Peers /\ p \notin Met(p)
        /\ Cardinality(Met(p)) = 2 /\ 4 \notin Met(p)
    BY <1>a, <2>1, <2>2, <2>3, MetIsPeers DEF Base, Dialled, Counts, Idle, Gone, Up
  <2>5. s \in Met(p) /\ 3 \in Met(p)
    BY <1>a, <1>1, <2>1, <2>4, TheOtherTwo
  <2>6. s \in Gone /\ 3 \in Gone
    BY <2>3, <2>5 DEF Idle
  <2>7. link[<<s, 4>>] = "none"
    BY <1>a, <1>1, <2>1, <2>2 DEF Apart, Gone
  <2>8. link'[<<s, 4>>] = "none"
    BY <1>a, <1>1, <2>1, <2>7, ToFourth
  <2>9. QED
    BY <1>b, <2>6, <2>7, <2>8
<1>2. QED
  <2>1. \A r \in {1, 2} : \A s \in {1, 2} : s # r =>
            /\ link[<<r, 4>>] # "none" => {s, 3} \subseteq Gone'
            /\ link'[<<r, 4>>] # "none" /\ link[<<r, 4>>] = "none" =>
                  {s, 3} \subseteq Gone' /\ link'[<<s, 4>>] = "none"
    BY <1>a, <1>b, <1>1 DEF Apart
  <2>2. ASSUME link'[<<1, 4>>] # "none", link'[<<2, 4>>] # "none" PROVE FALSE
    BY <1>a, <2>1, <2>2 DEF Apart
  <2>3. QED
    BY <2>1, <2>2 DEF Apart

LEMMA FourthStep ==
    ASSUME Inv, NEW p \in Peers, Start(p) \/ Step(p) \/ Kill(p)
    PROVE  Fourth'
<1> USE DEF loopVars, netVars
<1>a. /\ Base /\ Apart /\ Fourth /\ 4 \in Peers /\ Len(Startup[4]) = 5
      /\ pc \in [Peers -> {"off", "startup", "select", "scan", "send", "ended"}]
      /\ done \in [Peers -> 0..5] /\ connections \in [Peers -> 0..3]
  <2>1. Base /\ Apart /\ Fourth
    BY DEF Inv
  <2>2. 4 \in Peers /\ Len(Startup[4]) = 5
    BY StartupFacts DEF Peers
  <2>3. QED
    BY <2>1, <2>2 DEF Base, TypeOK
<1>1. CASE p # 4
  BY <1>a, <1>1, Frame DEF Fourth
<1>2. ASSUME p = 4 PROVE Fourth'
  <2>1. CASE Start(4)
    <3>1. pc[4] = "off" /\ done[4] = 0 /\ Advance(4, 0, table[4]) /\ UNCHANGED connections
      BY <1>a, <2>1 DEF Start, Base, Stages
    <3>2. done'[4] = 0 /\ pc'[4] = "startup"
      BY <1>a, <3>1 DEF Advance
    <3>3. QED
      BY <1>a, <3>1, <3>2 DEF Fourth
  <2>2. CASE Connect(4)
    <3>1. done[4] \in {0, 2}
      <4>1. \E q \in Peers : done[4] \in {0, 2, 4}
        BY <1>a, <2>2, ConnectFacts
      <4>2. QED
        BY <1>a, <4>1 DEF Fourth
    <3>2. Advance(4, done[4] + 1, table[4]) /\ UNCHANGED connections
      BY <2>2 DEF Connect
    <3>3. done'[4] = done[4] + 1 /\ pc'[4] = "startup"
      BY <1>a, <3>1, <3>2 DEF Advance
    <3>4. QED
      BY <1>a, <3>1, <3>2, <3>3 DEF Fourth
  <2>3. CASE AcceptFirst(4)
    <3>1. /\ Startup[4][done[4] + 1].do = "accept" /\ Take(4, table[4])
          /\ Advance(4, done[4] + 1, Opened(table[4], Head(backlog[4])))
      BY <2>3 DEF AcceptFirst, Starting
    <3>2. done[4] \in {1, 3}
      BY <1>a, <3>1, StartupFacts DEF Fourth
    <3>3. CASE done[4] = 1
      <4>1. connections'[4] = 1
        BY <1>a, <3>1, <3>3 DEF Fourth, Take
      <4>2. done'[4] = 2 /\ pc'[4] = "startup"
        BY <1>a, <3>1, <3>3 DEF Advance
      <4>3. QED
        BY <4>1, <4>2 DEF Fourth
    <3>4. CASE done[4] = 3
      \* The two connections would be those of the first two peers.
      <4>1. Met(4) \subseteq Peers /\ 4 \notin Met(4) /\ IsFiniteSet(Met(4))
        BY <1>a, MetIsPeers DEF Base, Dialled
      <4>2. Cardinality(Met(4)) = 1
        BY <1>a, <3>4 DEF Fourth, Base, Counts
      <4>3. Met(4) # {}
        BY <4>2, FS_EmptySet
      <4>4. PICK r \in Met(4) : TRUE
        BY <4>3
      <4>5. /\ Head(backlog[4]) \in Peers /\ Head(backlog[4]) # 4
            /\ Head(backlog[4]) # r /\ link[<<Head(backlog[4]), 4>>] # "none"
        <5>1. Take(4, table[4])
          BY <3>1
        <5>2. /\ Head(backlog[4]) \in Peers /\ Head(backlog[4]) # 4
              /\ Head(backlog[4]) \notin Met(4)
              /\ link[<<Head(backlog[4]), 4>>] # "none"
          BY ONLY <1>a, <5>1, TakeFacts
        <5>3. QED
          BY <4>4, <5>2
      <4>6. r \in Peers /\ r # 4 /\ link[<<r, 4>>] # "none"
        BY <4>1, <4>4 DEF Met, MetIn
      <4>7. link[<<3, 4>>] = "none"
        BY <1>a, ThirdFew DEF Fourth
      <4>8. r \in {1, 2} /\ Head(backlog[4]) \in {1, 2}
        BY <4>5, <4>6, <4>7 DEF Peers
      <4>9. QED
        BY <1>a, <4>5, <4>6, <4>8 DEF Apart
    <3>5. QED
      BY <3>2, <3>3, <3>4
  <2>4. CASE ConnectFails(4) \/ SigPipe(4) \/ Kill(4)
    <3>1. pc' = [pc EXCEPT ![4] = "ended"] /\ UNCHANGED <<done, connections>>
      BY <2>4 DEF ConnectFails, SigPipe, Kill
    <3>2. QED
      BY <1>a, <3>1 DEF Fourth
  <2>5. pc[4] \in {"off", "startup", "ended"}
    BY <1>a DEF Fourth
  <2>6. ~Select(4) /\ ~Accept(4) /\ ~NextPass(4) /\ ~Send(4)
    BY <2>5 DEF Select, Accept, At, NextPass, Send
  <2>7. ~Recv(4)
    BY <2>5 DEF Recv, At
  <2>8. QED
    BY <1>2, <2>1, <2>2, <2>3, <2>4, <2>6, <2>7 DEF Step
<1>3. QED
  BY <1>1, <1>2

\* No word is sent: who has three connections has nobody left to send to.
LEMMA QuietStep ==
    ASSUME Inv, NEW p \in Peers, Start(p) \/ Step(p) \/ Kill(p)
    PROVE  NothingArrives'
<1> USE DEF loopVars, netVars
<1>a. Base /\ FirstTwo /\ Fourth /\ NothingArrives
  BY DEF Inv
<1>1. CASE Recv(p)
  <2>1. PICK f \in Descriptors :
          /\ table[p][f] \in Peers
          /\ wire[<<table[p][f], p>>] > 0 \/ UNCHANGED <<wire, rcv>>
    BY <1>a, <1>1, RecvFacts
  <2>2. <<table[p][f], p>> \in Links
    BY <2>1 DEF Links
  <2>3. wire[<<table[p][f], p>>] = 0
    BY <1>a, <2>2 DEF NothingArrives
  <2>4. UNCHANGED <<wire, rcv>>
    BY <2>1, <2>3
  <2>5. QED
    BY <1>a, <2>4 DEF NothingArrives
<1>2. CASE Send(p)
  <2>1. PICK q \in Peers :
          /\ q # p /\ link[<<p, q>>] = "up" /\ pc[p] = "send"
          /\ \/ /\ Up(q) /\ UNCHANGED link
                /\ wire' = [wire EXCEPT ![<<p, q>>] = @ + 1]
             \/ /\ link' = [link EXCEPT ![<<p, q>>] = "broken"]
                /\ UNCHANGED wire
          /\ out' = [out EXCEPT ![p] = (@ + 1) % 3]
          /\ pc' = [pc EXCEPT ![p] = IF out[p] = 2 THEN "scan" ELSE "send"]
          /\ UNCHANGED <<done, table, connections, read_fds, i, backlog, rcv, kills>>
    BY <1>a, <1>2, SendFacts, Zenon
  <2>2. p # 4 /\ connections[p] = 3
    BY <1>a, <2>1 DEF Base, Stages
  <2>3. p # 3
    BY <1>a, <2>2, ThirdFew DEF Fourth
  <2>4. Idle(p)
    BY <1>a, <2>1, <2>2, <2>3 DEF FirstTwo, Holding, Peers
  <2>5. Met(p) \subseteq Peers /\ p \notin Met(p) /\ Cardinality(Met(p)) = 3
    BY <1>a, <2>2, MetIsPeers DEF Base, Dialled, Counts
  <2>6. q \in Met(p)
    BY <2>1, <2>5, AllOthers
  <2>7. ~Up(q)
    BY <2>4, <2>6 DEF Idle, Gone, Up
  <2>8. UNCHANGED <<wire, rcv>>
    BY <2>1, <2>7
  <2>9. QED
    BY <1>a, <2>8 DEF NothingArrives
<1>3. CASE ~Recv(p) /\ ~Send(p)
  <2>1. UNCHANGED <<wire, rcv>>
    BY <1>3 DEF Step, Start, Connect, ConnectFails, AcceptFirst, Select, Accept,
                NextPass, SigPipe, Kill
  <2>2. QED
    BY <1>a, <2>1 DEF NothingArrives
<1>4. QED
  BY <1>1, <1>2, <1>3

-----------------------------------------------------------------------------
(* The invariant *)

LEMMA InvInit == Init => Inv
<1> SUFFICES ASSUME Init PROVE Inv
  OBVIOUS
<1>1. Base
  BY InitBase
<1>2. \A p \in Peers : Met(p) = {}
  BY DEF Init, Met, MetIn, Links
<1>3. FirstTwo
  BY <1>2 DEF Init, FirstTwo, Idle, Peers
<1>4. Apart /\ Fourth /\ NothingArrives
  BY DEF Init, Apart, Fourth, NothingArrives, Links, Peers
<1>5. QED
  BY <1>1, <1>3, <1>4 DEF Inv

LEMMA InvStep == Inv /\ [Next]_vars => Inv'
<1> SUFFICES ASSUME Inv, [Next]_vars PROVE Inv'
  OBVIOUS
<1>1. Base'
  BY StepBase DEF Inv
<1>2. ASSUME NEW p \in Peers, Start(p) \/ Step(p) \/ Kill(p)
      PROVE  FirstTwo' /\ Apart' /\ Fourth' /\ NothingArrives'
  BY <1>2, FirstTwoStep, ApartStep, FourthStep, QuietStep
<1>3. ASSUME UNCHANGED vars
      PROVE  FirstTwo' /\ Apart' /\ Fourth' /\ NothingArrives'
  <2>1. \A p \in Peers : Met(p)' = Met(p)
    BY <1>3, SameMet DEF vars, netVars
  <2>2. FirstTwo'
    BY <1>3, <2>1 DEF Inv, vars, loopVars, FirstTwo, Idle, Holding, Gone, Peers
  <2>3. Apart' /\ Fourth' /\ NothingArrives'
    BY <1>3 DEF Inv, vars, loopVars, netVars, Apart, Fourth, NothingArrives, Gone
  <2>4. QED
    BY <2>2, <2>3
<1>4. FirstTwo' /\ Apart' /\ Fourth' /\ NothingArrives'
  BY <1>2, <1>3 DEF Next
<1>5. QED
  BY <1>1, <1>4 DEF Inv

\* Counting: who has accepted only peers that are gone, but for one, has accepted
\* at most one more than are gone.
LEMMA CountsGone ==
    ASSUME Base, NEW p \in Peers, Idle(p) \/ Holding(p)
    PROVE  connections[p] <= Cardinality(Gone) + 1
<1>1. Gone \subseteq Peers /\ IsFiniteSet(Gone) /\ Cardinality(Gone) \in Nat
  <2>1. Gone \subseteq Peers
    BY DEF Gone
  <2>2. IsFiniteSet(Gone)
    BY <2>1, PeersFinite, FS_Subset
  <2>3. QED
    BY <2>1, <2>2, FS_CardinalityType
<1>2. connections[p] = Cardinality(Met(p))
  BY DEF Base, Counts
<1>3. Met(p) \subseteq Peers /\ p \notin Met(p)
  BY MetIsPeers DEF Base, Dialled
<1>4. Cardinality(Met(p)) \in 0..3
  BY <1>3, AtMostThree
<1>5. PICK x : Met(p) \subseteq Gone \cup {x}
  <2>1. CASE Idle(p)
    BY <2>1 DEF Idle
  <2>2. CASE Holding(p)
    <3>1. PICK f \in Descriptors : \A q \in Met(p) : q # table[p][f] => q \in Gone
      BY <2>2 DEF Holding
    <3>2. Met(p) \subseteq Gone \cup {table[p][f]}
      BY <3>1
    <3>3. QED
      BY <3>2
  <2>3. QED
    BY <2>1, <2>2
<1>6. IsFiniteSet(Gone \cup {x}) /\ Cardinality(Gone \cup {x}) \in {Cardinality(Gone), Cardinality(Gone) + 1}
  BY <1>1, FS_AddElement
<1>7. Cardinality(Met(p)) <= Cardinality(Gone \cup {x})
  BY <1>5, <1>6, FS_Subset
<1>8. QED
  BY <1>1, <1>2, <1>4, <1>6, <1>7

LEMMA InvOneAtATime == Inv => OneAtATime
<1> SUFFICES ASSUME Inv PROVE OneAtATime
  OBVIOUS
<1>1. Base /\ FirstTwo /\ Fourth
  BY DEF Inv
<1>2. \A p \in {1, 2} : connections[p] <= Cardinality(Gone) + 1
  BY <1>1, CountsGone DEF FirstTwo, Peers
<1>3. connections[3] <= 2
  BY <1>1, ThirdFew DEF Fourth
<1>4. connections[4] <= 1
  BY <1>1 DEF Fourth
<1>5. QED
  BY <1>2, <1>3, <1>4 DEF OneAtATime

LEMMA InvFirstTwoListen == Inv => FirstTwoListen
  BY DEF Inv, FirstTwo, FirstTwoListen, Idle, Holding

\* Connections, descriptors and counts belong together; the first two peers listen
\* and have lost all they accepted but the one they wait for; the fourth waits in
\* its startup; nothing is sent.
THEOREM Invariant == Spec => []Inv
  BY InvInit, InvStep, PTL DEF Spec

\* Every variable of the four peers keeps its type: no peer accepts a fourth
\* connection or leaves its five descriptors.
THEOREM TypeCorrect == Spec => []TypeOK
<1>1. Inv => TypeOK
  BY DEF Inv, Base
<1>2. QED
  BY <1>1, Invariant, PTL

\* However the four are started, scheduled and stopped, no word is ever sent to a
\* peer that could receive it, and the files rcv1 to rcv4 stay empty.
THEOREM NothingEverArrives == Spec => []NothingArrives
<1>1. Inv => NothingArrives
  BY DEF Inv
<1>2. QED
  BY <1>1, Invariant, PTL

\* A peer's recv() on the connection it has just accepted lets the mesh grow only
\* as its peers end.
THEOREM GrowsOneAtATime == Spec => []OneAtATime
  BY InvOneAtATime, Invariant, PTL

\* The first two peers never lose the listener out of the set that select()
\* changes.
THEOREM FirstTwoHear == Spec => []FirstTwoListen
  BY InvFirstTwoListen, Invariant, PTL

-----------------------------------------------------------------------------
(* The work that is left *)

\* A round of the loop has something to look at, and words are sent behind recv().
Fresh == \A p \in Peers :
    /\ pc[p] = "scan" /\ i[p] = Listener => read_fds[p] # {}
    /\ pc[p] = "send" => i[p] # Listener

Held(t) == {f \in Descriptors : t[f] \in Peers}

LEMMA HeldCount == ASSUME NEW t
                   PROVE  IsFiniteSet(Held(t)) /\ Cardinality(Held(t)) \in Nat
<1>1. IsFiniteSet(Descriptors)
  BY FS_Interval, 1 \in Int, 5 \in Int, Zenon DEF Descriptors
<1>2. Held(t) \subseteq Descriptors
  BY DEF Held
<1>3. IsFiniteSet(Held(t))
  BY <1>1, <1>2, FS_Subset
<1>4. QED
  BY <1>3, FS_CardinalityType

\* One descriptor more is a connection.
LEMMA HeldMore ==
    ASSUME NEW t, NEW u, NEW f \in Descriptors, t[f] \notin Peers, u[f] \in Peers,
           \A g \in Descriptors : g # f => u[g] = t[g]
    PROVE  Cardinality(Held(u)) = Cardinality(Held(t)) + 1
<1>1. Held(u) = Held(t) \cup {f} /\ f \notin Held(t)
  BY DEF Held
<1>2. IsFiniteSet(Held(t))
  BY HeldCount
<1>3. QED
  BY <1>1, <1>2, FS_AddElement

LEMMA HeldSame ==
    ASSUME NEW t, NEW u, \A f \in Descriptors : t[f] \in Peers <=> u[f] \in Peers
    PROVE  Cardinality(Held(u)) = Cardinality(Held(t))
<1>1. Held(u) = Held(t)
  BY DEF Held
<1>2. QED
  BY <1>1

LEMMA EventsAre == \A p \in Peers :
    Events(p) = 2 * (3 - connections[p]) + Cardinality(Held(table[p]))
  BY DEF Events, Held

LEMMA EventsAreThen == \A p \in Peers :
    Events(p)' = 2 * (3 - connections'[p]) + Cardinality(Held(table'[p]))
  BY DEF Events, Held

LEMMA ToDoIs ==
    ASSUME Base, NEW p \in Peers
    PROVE  /\ Events(p) \in Nat /\ Pace(p) \in 0..13 /\ ToDo(p) \in Nat
<1>1. connections[p] \in 0..3 /\ done[p] \in 0..5 /\ out[p] \in 0..2
  BY DEF Base, TypeOK
<1>2. Cardinality(Held(table[p])) \in Nat
  BY HeldCount
<1>3. Events(p) \in Nat
  <2>1. 2 * (3 - connections[p]) + Cardinality(Held(table[p])) \in Nat
    BY <1>1, <1>2
  <2>2. QED
    BY <2>1, EventsAre
<1>4. Pace(p) \in 0..13
  <2>1. pc[p] \in {"off", "startup", "select", "scan", "send", "ended"}
    BY DEF Base, TypeOK
  <2>2. QED
    BY <1>1, <2>1 DEF Pace
<1>5. ToDo(p) \in Nat
  BY <1>3, <1>4 DEF ToDo
<1>6. QED
  BY <1>3, <1>4, <1>5

LEMMA ToDoIsThen == (Base => \A p \in Peers : ToDo(p) \in Nat)'
<1>1. Base => \A p \in Peers : ToDo(p) \in Nat
  BY ToDoIs
<1>2. QED
  BY <1>1, PTL

Falls(p) == ToDo(p)' < ToDo(p)

\* Steps that neither accept nor drop come closer to the end of the pace.
LEMMA PaceFalls ==
    ASSUME Base, NEW p \in Peers, UNCHANGED connections,
           \A f \in Descriptors : table'[p][f] \in Peers <=> table[p][f] \in Peers,
           Pace(p)' \in 0..13, Pace(p)' < Pace(p)
    PROVE  Falls(p)
<1>1. Cardinality(Held(table'[p])) = Cardinality(Held(table[p]))
  BY HeldSame
<1>2. Events(p)' = Events(p)
  BY <1>1, EventsAre, EventsAreThen
<1>3. Events(p) \in Nat /\ Pace(p) \in 0..13
  BY ToDoIs
<1>4. QED
  BY <1>2, <1>3 DEF Falls, ToDo

\* Steps that accept or drop may begin a whole new one in the loop.
LEMMA EventFalls ==
    ASSUME Base, NEW p \in Peers, Events(p)' = Events(p) - 1,
           Pace(p)' \in 0..13, Pace(p)' < Pace(p) + 6
    PROVE  Falls(p)
<1>1. Events(p) \in Nat /\ Pace(p) \in 0..13
  BY ToDoIs
<1>2. QED
  BY <1>1 DEF Falls, ToDo

LEMMA StartFalls ==
    ASSUME Base, NEW p \in Peers, Start(p)
    PROVE  Falls(p)
<1>1. /\ pc[p] = "off" /\ Advance(p, 0, table[p]) /\ UNCHANGED connections
  BY DEF Start, loopVars
<1>2. /\ table[p] \in [Descriptors -> Entries] /\ OneEach(table[p])
      /\ \A f \in Descriptors : table[p][f] \notin {p, PeerN, RcvN}
      /\ 0 \in 0..Len(Startup[p])
  BY <1>1, BeforeLoop, StartupFacts DEF Peers
<1>3. /\ done' = [done EXCEPT ![p] = 0]
      /\ pc'[p] = "select" \/ pc'[p] = "startup"
      /\ \A f \in Descriptors : table'[p][f] \in Peers => table'[p][f] = table[p][f]
      /\ \A f \in Descriptors : table[p][f] \in Peers => table'[p][f] = table[p][f]
  BY <1>1, <1>2, AdvanceFacts
<1>4. done'[p] = 0
  BY <1>3 DEF Base, TypeOK
<1>5. Pace(p) = 13 /\ Pace(p)' \in {2, 12}
  BY <1>1, <1>3, <1>4 DEF Pace
<1>6. \A f \in Descriptors : table'[p][f] \in Peers <=> table[p][f] \in Peers
  BY <1>3
<1>7. QED
  BY <1>1, <1>5, <1>6, PaceFalls

\* A step before the loop, done one of at most five.
LEMMA StartupPace ==
    ASSUME Base, NEW p \in Peers, pc[p] = "startup", done[p] \in 0..4,
           done'[p] = done[p] + 1, pc'[p] \in {"select", "startup"}
    PROVE  Pace(p)' \in 0..13 /\ Pace(p)' < Pace(p)
<1>1. Pace(p) = 12 - done[p]
  BY DEF Pace
<1>2. Pace(p)' = 2 \/ Pace(p)' = 12 - (done[p] + 1)
  BY DEF Pace
<1>3. QED
  BY <1>1, <1>2

LEMMA ConnectFalls ==
    ASSUME Base, NEW p \in Peers, Connect(p)
    PROVE  Falls(p)
<1>1. /\ Starting(p, {"try", "must"}) /\ Advance(p, done[p] + 1, table[p])
      /\ UNCHANGED connections
  BY DEF Connect, loopVars
<1>2. /\ pc[p] = "startup" /\ done[p] \in 0..4 /\ done[p] + 1 \in 0..Len(Startup[p])
  BY <1>1, StartupStep
<1>3. /\ table[p] \in [Descriptors -> Entries] /\ OneEach(table[p])
      /\ \A f \in Descriptors : table[p][f] \notin {p, PeerN, RcvN}
  BY <1>2, BeforeLoop
<1>4. /\ done' = [done EXCEPT ![p] = done[p] + 1]
      /\ pc'[p] = "select" \/ pc'[p] = "startup"
      /\ \A f \in Descriptors : table'[p][f] \in Peers => table'[p][f] = table[p][f]
      /\ \A f \in Descriptors : table[p][f] \in Peers => table'[p][f] = table[p][f]
  BY <1>1, <1>2, <1>3, AdvanceFacts
<1>5. done'[p] = done[p] + 1
  BY <1>4 DEF Base, TypeOK
<1>6. Pace(p)' \in 0..13 /\ Pace(p)' < Pace(p)
  BY <1>2, <1>4, <1>5, StartupPace
<1>7. \A f \in Descriptors : table'[p][f] \in Peers <=> table[p][f] \in Peers
  BY <1>4
<1>8. QED
  BY <1>1, <1>6, <1>7, PaceFalls

\* An end leaves no pace.
LEMMA EndFalls ==
    ASSUME Base, NEW p \in Peers, ConnectFails(p) \/ SigPipe(p) \/ Kill(p)
    PROVE  Falls(p)
<1>1. /\ pc' = [pc EXCEPT ![p] = "ended"] /\ UNCHANGED <<connections, table>>
      /\ pc[p] \notin {"off", "ended"} \/ pc[p] = "startup"
  BY DEF ConnectFails, SigPipe, Kill, Starting, Up, loopVars
<1>2. pc[p] \in {"startup", "select", "scan", "send"} /\ pc'[p] = "ended"
  BY <1>1 DEF Base, TypeOK
<1>3. done[p] \in 0..5 /\ out[p] \in 0..2
  BY DEF Base, TypeOK
<1>4. Pace(p)' = 0 /\ Pace(p) > 0
  BY <1>2, <1>3 DEF Pace
<1>5. QED
  BY <1>1, <1>4, PaceFalls

LEMMA SelectFalls ==
    ASSUME Base, NEW p \in Peers, Select(p)
    PROVE  Falls(p)
<1>1. /\ pc[p] = "select" /\ pc'[p] = "scan" /\ i'[p] = Listener
      /\ UNCHANGED <<connections, table>>
  BY DEF Base, TypeOK, Select
<1>2. Pace(p)' = 1 /\ Pace(p) = 2
  BY <1>1 DEF Pace
<1>3. QED
  BY <1>1, <1>2, PaceFalls

LEMMA NextPassFalls ==
    ASSUME Base, Fresh, NEW p \in Peers, NextPass(p)
    PROVE  Falls(p)
<1>1. /\ pc[p] = "scan" /\ pc'[p] = "select" /\ \A f \in read_fds[p] : f < i[p]
      /\ UNCHANGED connections
  BY DEF Base, TypeOK, NextPass, loopVars
<1>2. i[p] # Listener
  <2>1. ASSUME i[p] = Listener PROVE FALSE
    <3>1. PICK f \in read_fds[p] : f < i[p]
      BY <1>1, <2>1 DEF Fresh
    <3>2. f \in Descriptors \cup {Listener}
      BY DEF Base, TypeOK
    <3>3. QED
      BY <2>1, <3>1, <3>2 DEF Descriptors, Listener
  <2>2. QED
    BY <2>1
<1>3. Pace(p) = 3 /\ Pace(p)' = 2
  BY <1>1, <1>2 DEF Pace
<1>4. \A f \in Descriptors : table'[p][f] \in Peers <=> table[p][f] \in Peers
  BY NextPassFacts
<1>5. QED
  BY <1>1, <1>3, <1>4, PaceFalls

LEMMA SendFalls ==
    ASSUME Base, Fresh, NEW p \in Peers, Send(p)
    PROVE  Falls(p)
<1>1. /\ pc[p] = "send" /\ UNCHANGED <<connections, table, i>>
      /\ out' = [out EXCEPT ![p] = (@ + 1) % 3]
      /\ pc' = [pc EXCEPT ![p] = IF out[p] = 2 THEN "scan" ELSE "send"]
  BY DEF Send
<1>2. /\ out \in [Peers -> 0..2]
      /\ pc \in [Peers -> {"off", "startup", "select", "scan", "send", "ended"}]
      /\ i'[p] # Listener
  BY <1>1 DEF Base, TypeOK, Fresh
<1>3. Pace(p) = 6 - out[p]
  BY <1>1 DEF Pace
<1>4. CASE out[p] = 2
  <2>1. pc'[p] = "scan"
    BY <1>1, <1>2, <1>4
  <2>2. Pace(p)' = 3
    BY <1>2, <2>1 DEF Pace
  <2>3. QED
    BY <1>1, <1>3, <1>4, <2>2, PaceFalls
<1>5. CASE out[p] # 2
  <2>1. pc'[p] = "send" /\ out'[p] = out[p] + 1 /\ out[p] \in {0, 1}
    BY <1>1, <1>2, <1>5
  <2>2. Pace(p)' = 6 - (out[p] + 1)
    BY <2>1 DEF Pace
  <2>3. QED
    BY <1>1, <1>3, <2>1, <2>2, PaceFalls
<1>6. QED
  BY <1>4, <1>5

\* accept() takes one of the connections still possible and holds it.
LEMMA TakeEvent ==
    ASSUME Base, NEW p \in Peers, Take(p, table[p]),
           \A f \in Descriptors : table'[p][f] \in Peers <=>
               Opened(table[p], Head(backlog[p]))[f] \in Peers
    PROVE  Events(p)' = Events(p) - 1
<1> DEFINE u == Opened(table[p], Head(backlog[p]))
<1>1. /\ connections' = [connections EXCEPT ![p] = @ + 1]
      /\ Head(backlog[p]) \in Peers
      /\ Lowest(table[p]) \in Descriptors /\ table[p][Lowest(table[p])] = None
      /\ u[Lowest(table[p])] = Head(backlog[p])
      /\ \A f \in Descriptors : f # Lowest(table[p]) => u[f] = table[p][f]
  BY TakeFacts
<1> HIDE DEF u
<1>2. table[p][Lowest(table[p])] \notin Peers
  BY <1>1 DEF Peers, None
<1>3. Cardinality(Held(u)) = Cardinality(Held(table[p])) + 1
  BY <1>1, <1>2, HeldMore
<1>4. Cardinality(Held(table'[p])) = Cardinality(Held(u))
  BY HeldSame DEF u
<1>5. connections'[p] = connections[p] + 1 /\ connections[p] \in 0..3
  BY <1>1 DEF Base, TypeOK
<1>6. Cardinality(Held(table[p])) \in Nat
  BY HeldCount
<1>7. Events(p) = 2 * (3 - connections[p]) + Cardinality(Held(table[p]))
  BY EventsAre
<1>8. Events(p)' = 2 * (3 - connections'[p]) + Cardinality(Held(table'[p]))
  BY EventsAreThen
<1>9. QED
  BY <1>3, <1>4, <1>5, <1>6, <1>7, <1>8

LEMMA AcceptFirstFalls ==
    ASSUME Base, NEW p \in Peers, AcceptFirst(p)
    PROVE  Falls(p)
<1> DEFINE q == Head(backlog[p])
           t == Opened(table[p], q)
<1>1. /\ Starting(p, {"accept"}) /\ Take(p, table[p])
      /\ Advance(p, done[p] + 1, t)
  BY DEF AcceptFirst
<1>2. /\ pc[p] = "startup" /\ done[p] \in 0..4 /\ done[p] + 1 \in 0..Len(Startup[p])
  BY <1>1, StartupStep
<1>3. /\ q \in Peers /\ q # p
      /\ t \in [Descriptors -> Entries] /\ OneEach(t)
      /\ Lowest(table[p]) \in Descriptors
      /\ t[Lowest(table[p])] = q
      /\ \A f \in Descriptors : f # Lowest(table[p]) => t[f] = table[p][f]
  BY <1>1, TakeFacts
<1> HIDE DEF t
<1>4. \A f \in Descriptors : t[f] \notin {p, PeerN, RcvN}
  <2>1. \A f \in Descriptors : table[p][f] \notin {p, PeerN, RcvN}
    BY <1>2, BeforeLoop
  <2>2. q \notin {p, PeerN, RcvN}
    BY <1>3 DEF Peers, PeerN, RcvN
  <2>3. QED
    BY <1>3, <2>1, <2>2
<1>5. /\ done' = [done EXCEPT ![p] = done[p] + 1]
      /\ pc'[p] = "select" \/ pc'[p] = "startup"
      /\ \A f \in Descriptors : table'[p][f] \in Peers => table'[p][f] = t[f]
      /\ \A f \in Descriptors : t[f] \in Peers => table'[p][f] = t[f]
  BY <1>1, <1>2, <1>3, <1>4, AdvanceFacts
<1>6. done'[p] = done[p] + 1
  BY <1>5 DEF Base, TypeOK
<1>7. Pace(p)' \in 0..13 /\ Pace(p)' < Pace(p)
  BY <1>2, <1>5, <1>6, StartupPace
<1>8. \A f \in Descriptors : table'[p][f] \in Peers <=> t[f] \in Peers
  BY <1>5
<1>9. Events(p)' = Events(p) - 1
  BY <1>1, <1>8, TakeEvent DEF t
<1>10. Pace(p) \in 0..13
  BY ToDoIs
<1>11. QED
  BY <1>7, <1>9, <1>10, EventFalls

LEMMA AcceptFalls ==
    ASSUME Base, NEW p \in Peers, Accept(p)
    PROVE  Falls(p)
<1>1. /\ At(p, Listener) /\ Take(p, table[p])
      /\ table' = [table EXCEPT ![p] = Opened(@, Head(backlog[p]))]
      /\ i' = [i EXCEPT ![p] = Listener + 1] /\ UNCHANGED pc
  BY DEF Accept, Visited
<1>2. /\ table'[p] = Opened(table[p], Head(backlog[p]))
      /\ i'[p] = 1 /\ i[p] \in 0..6 /\ pc[p] = "scan"
      /\ Listener >= i[p]
  BY <1>1 DEF Base, TypeOK, Listener, At
<1>3. Events(p)' = Events(p) - 1
  BY <1>1, <1>2, TakeEvent
<1>4. i[p] = Listener
  BY <1>2 DEF Listener
<1>5. Pace(p) = 1
  BY <1>2, <1>4 DEF Pace
<1>6. Pace(p)' = 3
  BY <1>1, <1>2 DEF Pace, Listener
<1>7. QED
  BY <1>3, <1>5, <1>6, EventFalls

\* recv() returns the end of a connection, which is dropped.
LEMMA RecvFalls ==
    ASSUME Base, NothingArrives, NEW p \in Peers, Recv(p), Base'
    PROVE  Falls(p) /\ i'[p] # Listener
<1>1. PICK f \in Descriptors :
          /\ At(p, f) /\ table[p][f] \in Peers
          /\ \/ wire[<<table[p][f], p>>] > 0
             \/ table' = [table EXCEPT ![p][f] = None]
          /\ i' = [i EXCEPT ![p] = f + 1]
          /\ pc' = [pc EXCEPT ![p] =
                      IF p # 4 /\ connections[p] = 3 THEN "send" ELSE "scan"]
          /\ UNCHANGED connections
  BY RecvFacts
<1>2. <<table[p][f], p>> \in Links
  BY <1>1 DEF Links
<1>3. table' = [table EXCEPT ![p][f] = None]
  BY <1>1, <1>2 DEF NothingArrives
<1>4. /\ table'[p][f] \notin Peers
      /\ \A g \in Descriptors : g # f => table'[p][g] = table[p][g]
  BY <1>1, <1>3 DEF Base, TypeOK, Peers, None
<1>5. Cardinality(Held(table[p])) = Cardinality(Held(table'[p])) + 1
  BY <1>1, <1>4, HeldMore
<1>6. Cardinality(Held(table'[p])) \in Nat /\ connections[p] \in 0..3
  BY HeldCount DEF Base, TypeOK
<1>7. Events(p) = 2 * (3 - connections[p]) + Cardinality(Held(table[p]))
  BY EventsAre
<1>8. Events(p)' = 2 * (3 - connections[p]) + Cardinality(Held(table'[p]))
  BY <1>1, EventsAreThen
<1>9. Events(p)' = Events(p) - 1
  BY <1>5, <1>6, <1>7, <1>8
<1>10. /\ i'[p] = f + 1 /\ i'[p] # Listener /\ pc[p] = "scan" /\ pc'[p] \in {"scan", "send"}
  BY <1>1 DEF Base, TypeOK, At, Listener, Descriptors
<1>11. Pace(p) \in {1, 3}
  BY <1>10 DEF Pace
<1>12. out'[p] \in 0..2
  BY DEF Base, TypeOK
<1>13. Pace(p)' \in 0..6
  BY <1>10, <1>12 DEF Pace
<1>14. QED
  BY <1>9, <1>10, <1>11, <1>13, EventFalls

LEMMA StepFalls ==
    ASSUME Inv, Fresh, Base', NEW p \in Peers, Start(p) \/ Step(p) \/ Kill(p)
    PROVE  Falls(p)
<1>1. Base /\ NothingArrives
  BY DEF Inv
<1>2. QED
  BY <1>1, StartFalls, ConnectFalls, EndFalls, AcceptFirstFalls, SelectFalls,
     AcceptFalls, RecvFalls, NextPassFalls, SendFalls DEF Step

LEMMA FreshStep ==
    ASSUME Inv, Fresh, Base', NEW p \in Peers, Start(p) \/ Step(p) \/ Kill(p)
    PROVE  Fresh'
<1>1. Base /\ NothingArrives
  BY DEF Inv
<1>2. \A r \in Peers : r # p =>
          read_fds'[r] = read_fds[r] /\ i'[r] = i[r] /\ pc'[r] = pc[r]
  BY <1>1, Frame
<1>3. /\ pc \in [Peers -> {"off", "startup", "select", "scan", "send", "ended"}]
      /\ i \in [Peers -> 0..6]
      /\ read_fds \in [Peers -> SUBSET (Descriptors \cup {Listener})]
  BY <1>1 DEF Base, TypeOK
<1>4. /\ pc'[p] = "scan" /\ i'[p] = Listener => read_fds'[p] # {}
      /\ pc'[p] = "send" => i'[p] # Listener
  <2>1. CASE Start(p) \/ Connect(p) \/ AcceptFirst(p)
    <3>1. PICK n, t : Advance(p, n, t)
      BY <2>1 DEF Start, Connect, AcceptFirst
    <3>2. pc'[p] \in {"select", "startup"}
      BY <1>3, <3>1 DEF Advance
    <3>3. QED
      BY <3>2
  <2>2. CASE ConnectFails(p) \/ SigPipe(p) \/ Kill(p)
    <3>1. pc'[p] = "ended"
      BY <1>3, <2>2 DEF ConnectFails, SigPipe, Kill
    <3>2. QED
      BY <3>1
  <2>3. CASE Select(p)
    <3>1. pc'[p] = "scan" /\ read_fds'[p] # {}
      BY <1>3, <2>3 DEF Select
    <3>2. QED
      BY <3>1
  <2>4. CASE Accept(p)
    <3>1. i'[p] = 1
      BY <1>3, <2>4 DEF Accept, Visited, Listener
    <3>2. QED
      BY <3>1 DEF Listener
  <2>5. CASE Recv(p)
    BY <1>1, <2>5, RecvFalls
  <2>6. CASE NextPass(p)
    <3>1. pc'[p] = "select"
      BY <1>3, <2>6 DEF NextPass
    <3>2. QED
      BY <3>1
  <2>7. CASE Send(p)
    <3>1. pc[p] = "send" /\ UNCHANGED i
      BY <2>7 DEF Send
    <3>2. QED
      BY <3>1 DEF Fresh
  <2>8. QED
    BY <2>1, <2>2, <2>3, <2>4, <2>5, <2>6, <2>7 DEF Step
<1>5. QED
  BY <1>2, <1>4 DEF Fresh

\* A step of one peer leaves the work of the others alone.
LEMMA OthersWork ==
    ASSUME Base, NEW p \in Peers, Start(p) \/ Step(p) \/ Kill(p),
           NEW r \in Peers, r # p
    PROVE  ToDo(r)' = ToDo(r)
<1>1. /\ i'[r] = i[r] /\ pc'[r] = pc[r] /\ table'[r] = table[r] /\ done'[r] = done[r]
      /\ connections'[r] = connections[r]
  BY Frame
<1>2. out'[r] = out[r]
  <2>1. CASE Send(p)
    <3>1. out' = [out EXCEPT ![p] = (@ + 1) % 3] /\ out \in [Peers -> 0..2]
      BY <2>1 DEF Send, Base, TypeOK
    <3>2. QED
      BY <3>1
  <2>2. CASE ~Send(p)
    BY <2>2 DEF Step, Start, Connect, ConnectFails, AcceptFirst, Select, Accept,
                Recv, NextPass, SigPipe, Kill, loopVars
  <2>3. QED
    BY <2>1, <2>2
<1>3. Events(r)' = Events(r)
  BY <1>1, EventsAre, EventsAreThen
<1>4. Pace(r)' = Pace(r)
  BY <1>1, <1>2 DEF Pace
<1>5. QED
  BY <1>3, <1>4 DEF ToDo

LEMMA WorkStep ==
    ASSUME Inv, Fresh, Inv', NEW p \in Peers, Start(p) \/ Step(p) \/ Kill(p)
    PROVE  Fresh' /\ Work' < Work
<1>1. Base /\ Base'
  BY DEF Inv
<1>2. Fresh' /\ Falls(p)
  BY <1>1, FreshStep, StepFalls
<1>3. \A r \in Peers : r # p => ToDo(r)' = ToDo(r)
  BY <1>1, OthersWork
<1>4. \A r \in Peers : ToDo(r) \in Nat
  BY <1>1, ToDoIs
<1>5. \A r \in Peers : ToDo(r)' \in Nat
  BY <1>1, ToDoIsThen
<1>6. /\ Work = ToDo(1) + ToDo(2) + ToDo(3) + ToDo(4)
      /\ Work' = ToDo(1)' + ToDo(2)' + ToDo(3)' + ToDo(4)'
      /\ 1 \in Peers /\ 2 \in Peers /\ 3 \in Peers /\ 4 \in Peers
      /\ p = 1 \/ p = 2 \/ p = 3 \/ p = 4
  BY DEF Work, Peers
<1>7. QED
  BY <1>2, <1>3, <1>4, <1>5, <1>6 DEF Falls

\* 6 * 6 + 13 for each peer.
LEMMA WorkInit == Init => Fresh /\ Work = 196
<1> SUFFICES ASSUME Init PROVE Fresh /\ Work = 196
  OBVIOUS
<1>1. Fresh
  BY DEF Init, Fresh
<1>2. \A r \in Peers : ToDo(r) = 49
  <2>1. ASSUME NEW r \in Peers PROVE ToDo(r) = 49
    <3>1. Held(table[r]) = {}
      BY DEF Init, Held, Peers, None
    <3>2. Cardinality(Held(table[r])) = 0
      BY <3>1, FS_EmptySet
    <3>3. Events(r) = 6
      BY <3>2, EventsAre DEF Init
    <3>4. Pace(r) = 13
      BY DEF Init, Pace
    <3>5. QED
      BY <3>3, <3>4 DEF ToDo
  <2>2. QED
    BY <2>1
<1>3. 1 \in Peers /\ 2 \in Peers /\ 3 \in Peers /\ 4 \in Peers
  BY DEF Peers
<1>4. Work = 196
  BY <1>2, <1>3 DEF Work
<1>5. QED
  BY <1>1, <1>4

WorkInv == Inv /\ Fresh /\ Work \in 0..196

LEMMA WorkInvInit == Init => WorkInv
  BY InvInit, WorkInit DEF WorkInv

LEMMA WorkIsNat == Inv => Work \in Nat
<1> SUFFICES ASSUME Inv PROVE Work \in Nat
  OBVIOUS
<1>1. \A r \in Peers : ToDo(r) \in Nat
  BY ToDoIs DEF Inv
<1>2. 1 \in Peers /\ 2 \in Peers /\ 3 \in Peers /\ 4 \in Peers
  BY DEF Peers
<1>3. QED
  BY <1>1, <1>2 DEF Work

LEMMA WorkIsNatThen == (Inv => Work \in Nat)'
  BY WorkIsNat, PTL

LEMMA WorkInvStep == WorkInv /\ [Next]_vars => WorkInv' /\ [Work' < Work]_vars
<1> SUFFICES ASSUME WorkInv, [Next]_vars PROVE WorkInv' /\ [Work' < Work]_vars
  OBVIOUS
<1>1. Inv /\ Fresh /\ Work \in 0..196
  BY DEF WorkInv
<1>2. Inv'
  BY <1>1, InvStep
<1>3. CASE Next
  <2>1. Fresh' /\ Work' < Work
    BY <1>1, <1>2, <1>3, WorkStep DEF Next
  <2>2. Work' \in Nat
    BY <1>2, WorkIsNatThen
  <2>3. Work' \in 0..196
    BY <1>1, <2>1, <2>2
  <2>4. QED
    BY <1>2, <2>1, <2>3 DEF WorkInv
<1>4. CASE UNCHANGED vars
  <2>1. Fresh' /\ Work' = Work
    BY <1>1, <1>4 DEF Fresh, Work, ToDo, Events, Pace, vars, loopVars
  <2>2. QED
    BY <1>1, <1>2, <1>4, <2>1 DEF WorkInv
<1>5. QED
  BY <1>3, <1>4

\* However the four are started, scheduled and stopped, they make at most 196
\* steps: the work that is left is never more, nor less than none.
THEOREM WorkBounded == Spec => [](Work \in 0..196)
<1>1. WorkInv => Work \in 0..196
  BY DEF WorkInv
<1>2. QED
  BY <1>1, WorkInvInit, WorkInvStep, PTL DEF Spec

\* And each step leaves less of it: select() never returns in vain, every round of a
\* loop accepts a connection or drops one, and the four come to rest.
THEOREM EveryStepCounts == Spec => WearsOut
  BY WorkInvInit, WorkInvStep, PTL DEF Spec, WearsOut

=============================================================================
