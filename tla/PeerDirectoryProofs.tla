------------------------- MODULE PeerDirectoryProofs -------------------------
(***************************************************************************)
(* Proofs about PeerDirectory, for any peers, ports and lists of files:    *)
(* the server implements Directory, only a killed peer ends it, and a peer *)
(* is told well as long as nobody in the table has gone.                   *)
(***************************************************************************)
EXTENDS PeerDirectory, FiniteSetTheorems, SequenceTheorems, TLAPS

\* What the server has not read of p: its registration, then the name it asks for.
Boxes(p) == {<<>>, <<Registration>>, <<asked[p]>>, <<Registration, asked[p]>>}

\* p has registered, and does not wait for an answer.
Settled(p) == at[p] \notin {"off", "listening", "connected", "asking", "gone"}

\* A registered peer has the file, or nobody is named.
Good(port, n) == port = 0 \/ \E q \in Entries : Port[q] = port /\ n \in Listed[q]

Stage(p) ==
    /\ inbox[p] \in Boxes(p)
    /\ at[p] \in {"off", "listening", "connected"} => inbox[p] = <<>> /\ p \notin Entries
    /\ at[p] \in {"off", "listening"} => link[p] = "none"
    /\ at[p] \notin {"off", "listening", "gone"} => link[p] # "none"
    /\ inbox[p] \in {<<Registration>>, <<Registration, asked[p]>>} => p \notin Entries
    /\ inbox[p] = <<asked[p]>> => p \in Entries
    /\ Settled(p) /\ link[p] # "broken" => inbox[p] \in {<<>>, <<Registration>>}
    /\ link[p] = "closed" => inbox[p] = <<>>
    /\ (Settled(p) \/ at[p] = "asking") /\ link[p] = "up" /\ inbox[p] = <<>> => p \in Entries
    /\ server = "up" => link[p] \in {"none", "up"}
    /\ link[p] = "none" => p \notin queue \cup master

\* The answer on its way to p, and the one p has received, are right.
Answer(p) ==
    /\ reply[p] # NoPort =>
        /\ inbox[p] = <<>> /\ at[p] \in {"asking", "gone"} /\ p \in Entries
        /\ Good(reply[p], asked[p])
    /\ at[p] = "told" /\ server = "up" => Good(fileport[p], asked[p])

\* A connection is only reset by a registered peer that is killed.
Resets ==
    /\ \A p \in Peers : hung[p] = "reset" => cause[p] = "killed" /\ p \in Entries
    /\ \A p \in Peers : at[p] # "gone" => hung[p] = "no"
    /\ server = "exited" => \E p \in Peers : hung[p] = "reset"

\* bind() lets one peer listen at a port.
OnePerPort ==
    \A p, q \in Peers : Live(p) /\ Live(q) /\ Port[p] = Port[q] /\ Port[p] # 0 => p = q

Stages == \A p \in Peers : Stage(p)
Answers == \A p \in Peers : Answer(p)

Inv == TypeOK /\ Stages /\ Answers /\ Resets /\ OnePerPort

-----------------------------------------------------------------------------
(* find() *)

\* A set of indices has a first one: it stands behind those in front of all of them,
\* which are as many as the last of them says.
LEMMA FirstExists ==
    ASSUME NEW n \in Nat, NEW hits \in SUBSET (1..n), hits # {}
    PROVE  First(hits) \in hits /\ \A l \in hits : First(hits) <= l
<1> DEFINE front == {k \in 1..n : \A l \in 1..k : l \notin hits}
           m == Cardinality(front)
<1>1. IsFiniteSet(1..n) /\ front \in SUBSET (1..n)
  <2>1. 1 \in Int /\ n \in Int
    OBVIOUS
  <2> QED BY <2>1, FS_Interval, Zenon
<1>2. IsFiniteSet(front)
  BY <1>1, FS_Subset, Zenon
<1>3. m \in Nat
  BY <1>2, FS_CardinalityType, Zenon
<1>4. \A k \in Nat : IsFiniteSet(1..k) /\ Cardinality(1..k) = k
  <2>1. ASSUME NEW k \in Nat PROVE IsFiniteSet(1..k) /\ Cardinality(1..k) = k
    <3>1. 1 \in Int /\ k \in Int
      OBVIOUS
    <3>2. IsFiniteSet(1..k) /\ Cardinality(1..k) = IF 1 > k THEN 0 ELSE k - 1 + 1
      BY <3>1, FS_Interval, Zenon
    <3> QED BY <3>2
  <2> QED BY <2>1
<1>5. ASSUME NEW k \in front PROVE k \in 1..m
  <2>1. k \in Nat /\ k >= 1 /\ 1..k \subseteq front
    OBVIOUS
  <2>2. Cardinality(1..k) <= m
    BY <1>2, <2>1, FS_Subset, Zenon
  <2>3. Cardinality(1..k) = k
    BY <1>4, <2>1, Zenon
  <2> HIDE DEF m
  <2> QED BY <1>3, <2>1, <2>2, <2>3
<1>6. front = 1..m
  <2>1. front \in SUBSET (1..m)
    BY <1>5
  <2>2. IsFiniteSet(1..m) /\ Cardinality(1..m) = m
    BY <1>3, <1>4, Zenon
  <2> QED BY <2>1, <2>2, FS_Subset, Zenon
<1> HIDE DEF m
<1>7. m + 1 \in hits
  <2>1. PICK h \in hits : TRUE
    OBVIOUS
  <2>2. h \notin 1..m /\ h \in 1..n
    <3>1. h \notin front
      OBVIOUS
    <3> QED BY <1>6, <3>1
  <2>3. m + 1 \in 1..n /\ m + 1 \notin front
    <3>1. m + 1 \in 1..n /\ m + 1 \notin 1..m
      BY <1>3, <2>2
    <3> QED BY <1>6, <3>1
  <2>4. PICK l \in 1..m + 1 : l \in hits
    BY <2>3
  <2>5. l \notin 1..m
    <3>1. l \notin front
      BY <2>4
    <3> QED BY <1>6, <3>1
  <2> QED BY <1>3, <2>4, <2>5
<1>8. \A l \in hits : m + 1 <= l
  <2>1. ASSUME NEW l \in hits PROVE m + 1 <= l
    <3>1. l \in 1..n /\ l \in 1..l
      OBVIOUS
    <3>2. l \notin 1..m
      BY ONLY <1>6, <3>1, l \in hits
    <3> QED BY ONLY <1>3, <3>1, <3>2, n \in Nat
  <2> QED BY <2>1
<1> HIDE DEF front
<1> QED BY <1>7, <1>8, Zenon DEF First

LEMMA FindFacts ==
    ASSUME head \in Seq(Peers), NEW n \in Names
    PROVE  /\ Find(n) \in Ports
           /\ Good(Find(n), n)
           /\ Find(n) = 0 => \/ \A q \in Entries : n \notin Listed[q]
                             \/ \E q \in Entries : Port[q] = 0
<1>1. \A k \in 1..Len(head) : head[k] \in Peers /\ head[k] \in Entries
  BY DEF Entries
<1>2. CASE Stops(n) = {}
  <2>1. Find(n) = 0
    BY <1>2 DEF Find
  <2>2. \A q \in Entries : n \notin Listed[q]
    BY <1>2 DEF Entries, Stops
  <2> QED BY <2>1, <2>2 DEF Good, Ports
<1>3. CASE Stops(n) # {}
  <2>1. Stops(n) \in SUBSET (1..Len(head)) /\ Len(head) \in Nat
    BY DEF Stops
  <2>2. First(Stops(n)) \in Stops(n)
    BY <1>3, <2>1, FirstExists, Zenon
  <2> DEFINE k == First(Stops(n))
  <2>3. k \in 1..Len(head) /\ (Port[head[k]] = 0 \/ n \in Listed[head[k]])
    BY <2>2 DEF Stops
  <2>4. Find(n) = Port[head[k]]
    BY <1>3 DEF Find
  <2> HIDE DEF k
  <2>5. head[k] \in Peers /\ head[k] \in Entries
    BY <1>1, <2>3
  <2>6. Find(n) \in Ports
    BY <2>4, <2>5 DEF Ports
  <2>7. CASE Port[head[k]] = 0
    BY <2>4, <2>5, <2>6, <2>7, Zenon DEF Good
  <2>8. CASE Port[head[k]] # 0 /\ n \in Listed[head[k]]
    BY <2>4, <2>5, <2>6, <2>8, Zenon DEF Good
  <2> QED BY <2>3, <2>7, <2>8
<1> QED BY <1>2, <1>3

-----------------------------------------------------------------------------
(* Packets *)

LEMMA AppendFacts ==
    ASSUME NEW S, NEW s \in Seq(S), NEW b \in S
    PROVE  /\ Append(s, b) \in Seq(S) /\ Len(Append(s, b)) = Len(s) + 1
           /\ Append(s, b)[Len(s) + 1] = b
           /\ \A k \in 1..Len(s) : Append(s, b)[k] = s[k]
  OBVIOUS

LEMMA AppendSecond ==
    ASSUME NEW S, NEW a \in S, NEW b \in S
    PROVE  Append(<<a>>, b) = <<a, b>>
<1> DEFINE s == <<a>>
           t == Append(s, b)
           u == <<a, b>>
<1>1. s \in Seq(S) /\ Len(s) = 1 /\ s[1] = a
  OBVIOUS
<1>2. u \in Seq(S) /\ Len(u) = 2 /\ u[1] = a /\ u[2] = b
  OBVIOUS
<1> HIDE DEF s, u
<1>3. /\ t \in Seq(S) /\ Len(t) = Len(s) + 1 /\ t[Len(s) + 1] = b
      /\ \A k \in 1..Len(s) : t[k] = s[k]
  <2>1. /\ Append(s, b) \in Seq(S) /\ Len(Append(s, b)) = Len(s) + 1
        /\ Append(s, b)[Len(s) + 1] = b
        /\ \A k \in 1..Len(s) : Append(s, b)[k] = s[k]
    <3>1. s \in Seq(S)
      BY <1>1
    <3> QED BY ONLY <3>1, b \in S, AppendFacts, SMTT(20)
  <2> QED BY <2>1, Zenon
<1> HIDE DEF t
<1>4. Len(t) = 2 /\ \A k \in 1..2 : t[k] = u[k]
  BY <1>1, <1>2, <1>3
<1>5. t = u
  BY ONLY <1>2, <1>3, <1>4, SeqEqual
<1> QED BY <1>5 DEF s, t, u

LEMMA Packets ==
    ASSUME NEW p \in Peers, TypeOK, inbox[p] \in Boxes(p)
    PROVE  /\ inbox[p] # <<>> /\ Head(inbox[p]) = Registration
                => inbox[p] \in {<<Registration>>, <<Registration, asked[p]>>}
           /\ inbox[p] # <<>> /\ Head(inbox[p]) \in Names
                => inbox[p] = <<asked[p]>> /\ asked[p] \in Names
           /\ inbox[p] = <<asked[p]>> => asked[p] \in Names \cup {Registration}
           /\ asked[p] # Registration
<1>1. asked[p] \in Names \cup {NoName} /\ inbox[p] \in Seq(Names \cup {Registration})
  BY DEF TypeOK
<1>2. asked[p] # Registration /\ Registration \notin Names /\ NoName \notin Names
  BY <1>1, NamesAssumption
<1>3. CASE inbox[p] = <<>>
  BY <1>2, <1>3
<1>4. CASE inbox[p] = <<Registration>>
  BY <1>2, <1>4
<1>5. CASE inbox[p] = <<asked[p]>>
  BY <1>1, <1>2, <1>5
<1>6. CASE inbox[p] = <<Registration, asked[p]>>
  BY <1>2, <1>6
<1> QED BY <1>3, <1>4, <1>5, <1>6 DEF Boxes

-----------------------------------------------------------------------------
(* Type correctness *)

LEMMA InitType == Init => TypeOK
<1> SUFFICES ASSUME Init PROVE TypeOK
  OBVIOUS
<1>1. <<>> \in Seq(Names \cup {Registration}) /\ <<>> \in Seq(Peers) /\ Len(<<>>) = 0
  OBVIOUS
<1>2. \A p \in Peers : Len(inbox[p]) <= 2 /\ (at[p] = "gone" <=> cause[p] # "none")
                       /\ reply[p] = NoPort /\ at[p] # "receiving"
  <2> SUFFICES ASSUME NEW p \in Peers
               PROVE  /\ Len(inbox[p]) <= 2 /\ (at[p] = "gone" <=> cause[p] # "none")
                      /\ reply[p] = NoPort /\ at[p] # "receiving"
    OBVIOUS
  <2>1. inbox[p] = <<>> /\ at[p] = "off" /\ cause[p] = "none" /\ reply[p] = NoPort
    BY DEF Init
  <2> QED BY <1>1, <2>1
<1>3. head \in Seq(Peers) /\ \A k, l \in 1..Len(head) : head[k] = head[l] => k = l
  BY DEF Init
<1>4. /\ at \in [Peers -> States] /\ cause \in [Peers -> Causes]
      /\ asks \in [Peers -> Nat] /\ kills \in Nat
      /\ asked \in [Peers -> Names \cup {NoName}]
      /\ fileport \in [Peers -> Ports \cup {NoPort}]
  BY DEF Init, States, Causes
<1>5. /\ link \in [Peers -> {"none", "up", "closed", "reset", "broken"}]
      /\ inbox \in [Peers -> Seq(Names \cup {Registration})]
      /\ reply \in [Peers -> Ports \cup {NoPort}]
      /\ hung \in [Peers -> {"no", "closed", "reset"}]
  BY <1>1 DEF Init
<1>6. /\ server = "up" /\ queue = {} /\ master = {}
      /\ sent \in [Peers -> Ports \cup {NoPort}]
      /\ calls \in [Peers -> Seq(Peers)]
      /\ callee \in [Peers -> Peers \cup {NoOne}]
      /\ file \in [Peers -> {"none", "queued", "accepted", "read", "closed", "reset"}]
      /\ ready \in [Peers -> SUBSET {"calls", "file"}]
  BY <1>1 DEF Init
<1> QED BY <1>2, <1>3, <1>4, <1>5, <1>6 DEF TypeOK

\* TypeOK in four parts.
AtOK ==
    /\ at \in [Peers -> States] /\ cause \in [Peers -> Causes]
    /\ \A p \in Peers : at[p] = "gone" <=> cause[p] # "none"
WaitOK ==
    /\ \A p \in Peers : reply[p] # NoPort => at[p] \in {"asking", "gone"}
    /\ \A p \in Peers : at[p] = "receiving" => calls[p] # <<>>
WireOK ==
    /\ link \in [Peers -> {"none", "up", "closed", "reset", "broken"}]
    /\ inbox \in [Peers -> Seq(Names \cup {Registration})]
    /\ \A p \in Peers : Len(inbox[p]) <= 2
    /\ reply \in [Peers -> Ports \cup {NoPort}]
    /\ hung \in [Peers -> {"no", "closed", "reset"}]
    /\ server \in {"up", "exited"}
    /\ queue \subseteq Peers /\ master \subseteq Peers /\ queue \cap master = {}
    /\ head \in Seq(Peers)
    /\ \A k, l \in 1..Len(head) : head[k] = head[l] => k = l
    /\ sent \in [Peers -> Ports \cup {NoPort}]
FileOK ==
    /\ asks \in [Peers -> Nat] /\ kills \in Nat
    /\ asked \in [Peers -> Names \cup {NoName}]
    /\ fileport \in [Peers -> Ports \cup {NoPort}]
    /\ calls \in [Peers -> Seq(Peers)]
    /\ callee \in [Peers -> Peers \cup {NoOne}]
    /\ file \in [Peers -> {"none", "queued", "accepted", "read", "closed", "reset"}]
    /\ ready \in [Peers -> SUBSET {"calls", "file"}]

LEMMA TypeParts == TypeOK <=> AtOK /\ WaitOK /\ WireOK /\ FileOK
  BY DEF TypeOK, AtOK, WaitOK, WireOK, FileOK

\* A peer goes on, or ends.
LEMMA GotoType ==
    ASSUME TypeOK, NEW p \in Peers, NEW where \in States \ {"gone"}, Goto(p, where),
           at[p] # "gone"
    PROVE  /\ at' \in [Peers -> States] /\ cause' \in [Peers -> Causes]
           /\ \A q \in Peers : at'[q] = "gone" <=> cause'[q] # "none"
           /\ at'[p] = where /\ \A q \in Peers \ {p} : at'[q] = at[q]
  BY DEF Goto, TypeOK

LEMMA DieType ==
    ASSUME TypeOK, NEW p \in Peers, NEW why \in Causes \ {"none"}, Die(p, why),
           at[p] # "gone"
    PROVE  /\ at' \in [Peers -> States] /\ cause' \in [Peers -> Causes]
           /\ \A q \in Peers : at'[q] = "gone" <=> cause'[q] # "none"
           /\ at'[p] = "gone" /\ \A q \in Peers \ {p} : at'[q] = at[q]
           /\ hung' \in [Peers -> {"no", "closed", "reset"}]
           /\ file' \in [Peers -> {"none", "queued", "accepted", "read", "closed", "reset"}]
           /\ cause'[p] = why /\ \A q \in Peers \ {p} : cause'[q] = cause[q]
           /\ hung'[p] = (IF reply[p] # NoPort THEN "reset" ELSE "closed")
           /\ \A q \in Peers \ {p} : hung'[q] = hung[q]
<1>1. /\ at' \in [Peers -> States] /\ cause' \in [Peers -> Causes]
      /\ \A q \in Peers : at'[q] = "gone" <=> cause'[q] # "none"
      /\ at'[p] = "gone" /\ \A q \in Peers \ {p} : at'[q] = at[q]
      /\ cause'[p] = why /\ \A q \in Peers \ {p} : cause'[q] = cause[q]
  BY DEF Die, TypeOK, States
<1>2. /\ hung' \in [Peers -> {"no", "closed", "reset"}]
      /\ hung'[p] = (IF reply[p] # NoPort THEN "reset" ELSE "closed")
      /\ \A q \in Peers \ {p} : hung'[q] = hung[q]
  BY DEF Die, TypeOK
<1>3. file' \in [Peers -> {"none", "queued", "accepted", "read", "closed", "reset"}]
  BY DEF Die, TypeOK
<1> QED BY <1>1, <1>2, <1>3

\* In which case it leaves the other facts of TypeOK about at as they are.
LEMMA GotoKeeps ==
    ASSUME TypeOK, NEW p \in Peers, NEW where \in States \ {"gone"}, Goto(p, where),
           at[p] \notin {"asking", "gone"}, where # "receiving",
           reply' = reply, \A q \in Peers : calls'[q] = calls[q] \/ calls'[q] # <<>>
    PROVE  /\ \A q \in Peers : reply'[q] # NoPort => at'[q] \in {"asking", "gone"}
           /\ \A q \in Peers : at'[q] = "receiving" => calls'[q] # <<>>
<1>1. at'[p] = where /\ \A q \in Peers \ {p} : at'[q] = at[q]
  BY GotoType, Zenon
<1>2. /\ \A q \in Peers : reply[q] # NoPort => at[q] \in {"asking", "gone"}
      /\ \A q \in Peers : at[q] = "receiving" => calls[q] # <<>>
  BY DEF TypeOK
<1> QED BY <1>1, <1>2

LEMMA DieKeeps ==
    ASSUME TypeOK, NEW p \in Peers, NEW why \in Causes \ {"none"}, Die(p, why),
           at[p] # "gone", reply' = reply, calls' = calls
    PROVE  /\ \A q \in Peers : reply'[q] # NoPort => at'[q] \in {"asking", "gone"}
           /\ \A q \in Peers : at'[q] = "receiving" => calls'[q] # <<>>
<1>1. at'[p] = "gone" /\ \A q \in Peers \ {p} : at'[q] = at[q]
  BY DieType, Zenon
<1>2. /\ \A q \in Peers : reply[q] # NoPort => at[q] \in {"asking", "gone"}
      /\ \A q \in Peers : at[q] = "receiving" => calls[q] # <<>>
  BY DEF TypeOK
<1> QED BY <1>1, <1>2

\* What a peer puts into the socket.
LEMMA SendType ==
    ASSUME TypeOK, NEW p \in Peers, NEW packet \in Names \cup {Registration},
           Send(p, packet), link[p] = "up" => Len(inbox[p]) <= 1
    PROVE  /\ inbox' \in [Peers -> Seq(Names \cup {Registration})]
           /\ \A q \in Peers : Len(inbox'[q]) <= 2
           /\ link' \in [Peers -> {"none", "up", "closed", "reset", "broken"}]
<1>1. inbox[p] \in Seq(Names \cup {Registration}) /\ Len(inbox[p]) <= 2
  BY DEF TypeOK
<1>2. /\ Append(inbox[p], packet) \in Seq(Names \cup {Registration})
      /\ Len(Append(inbox[p], packet)) = Len(inbox[p]) + 1 /\ Len(inbox[p]) \in Nat
  BY <1>1
<1>3. link' \in [Peers -> {"none", "up", "closed", "reset", "broken"}]
  BY DEF Send, TypeOK
<1>4. CASE link[p] = "up"
  <2>1. inbox' = [inbox EXCEPT ![p] = Append(inbox[p], packet)]
    BY <1>4 DEF Send
  <2> QED BY <1>2, <1>3, <1>4, <2>1 DEF TypeOK
<1>5. CASE link[p] # "up"
  BY <1>3, <1>5 DEF Send, TypeOK
<1> QED BY <1>4, <1>5

\* One packet is read.
LEMMA TailType ==
    ASSUME TypeOK, NEW p \in Peers, inbox[p] # <<>>,
           inbox' = [inbox EXCEPT ![p] = Tail(inbox[p])]
    PROVE  /\ inbox' \in [Peers -> Seq(Names \cup {Registration})]
           /\ \A q \in Peers : Len(inbox'[q]) <= 2
<1>1. inbox[p] \in Seq(Names \cup {Registration}) /\ Len(inbox[p]) <= 2
  BY DEF TypeOK
<1>2. /\ Tail(inbox[p]) \in Seq(Names \cup {Registration})
      /\ Len(Tail(inbox[p])) <= 2
  BY <1>1
<1> QED BY <1>2 DEF TypeOK

LEMMA NextType == TypeOK /\ Stages /\ [Next]_vars => TypeOK'
<1> SUFFICES ASSUME TypeOK, Stages, [Next]_vars PROVE AtOK' /\ WaitOK' /\ WireOK' /\ FileOK'
  <2>1. (AtOK /\ WaitOK /\ WireOK /\ FileOK)' => TypeOK'
    BY DEF TypeOK, AtOK, WaitOK, WireOK, FileOK
  <2> QED BY <2>1
<1> USE DEF serverVars, wireVars, askVars, fileVars
<1>0. AtOK /\ WaitOK /\ WireOK /\ FileOK
  BY TypeParts
<1>1. CASE UNCHANGED vars
  BY <1>0, <1>1 DEF vars, AtOK, WaitOK, WireOK, FileOK
<1>2. ASSUME NEW p \in Peers, Accept(p) PROVE AtOK' /\ WaitOK' /\ WireOK' /\ FileOK'
  <2>1. AtOK' /\ WaitOK' /\ FileOK'
    BY <1>0, <1>2 DEF Accept, AtOK, WaitOK, FileOK
  <2>2. WireOK'
    BY <1>0, <1>2 DEF Accept, WireOK
  <2> QED BY <2>1, <2>2
<1>3. ASSUME NEW p \in Peers, Store(p) PROVE AtOK' /\ WaitOK' /\ WireOK' /\ FileOK'
  <2>1. /\ inbox' \in [Peers -> Seq(Names \cup {Registration})]
        /\ \A q \in Peers : Len(inbox'[q]) <= 2
    BY <1>3, TailType DEF Store
  <2>2. p \notin Entries
    BY <1>3, Packets DEF Store, Stages, Stage
  <2>3. head \in Seq(Peers) /\ \A k, l \in 1..Len(head) : head[k] = head[l] => k = l
    BY <1>0 DEF WireOK
  <2>4. head' = Append(head, p)
    BY <1>3 DEF Store
  <2>5. head' \in Seq(Peers) /\ \A k, l \in 1..Len(head') : head'[k] = head'[l] => k = l
    <3>1. \A k \in 1..Len(head) : head[k] # p
      BY <2>2 DEF Entries
    <3> QED BY ONLY p \in Peers, <2>3, <2>4, <3>1
  <2>6. AtOK' /\ WaitOK' /\ FileOK'
    BY <1>0, <1>3 DEF Store, AtOK, WaitOK, FileOK
  <2>7. WireOK'
    BY <1>0, <1>3, <2>1, <2>5 DEF Store, WireOK
  <2> QED BY <2>6, <2>7
<1>4. ASSUME NEW p \in Peers, LookUp(p) PROVE AtOK' /\ WaitOK' /\ WireOK' /\ FileOK'
  <2>1. /\ inbox' \in [Peers -> Seq(Names \cup {Registration})]
        /\ \A q \in Peers : Len(inbox'[q]) <= 2
    BY <1>4, TailType DEF LookUp
  <2>2. Find(Head(inbox[p])) \in Ports
    BY <1>0, <1>4, FindFacts DEF LookUp, WireOK
  <2>3. inbox[p] = <<asked[p]>> /\ inbox[p] # <<>> /\ asked[p] # Registration
    BY <1>4, Packets DEF LookUp, Stages, Stage
  <2>4. at[p] \in {"asking", "gone"}
    BY <1>0, <1>4, <2>3 DEF LookUp, Stages, Stage, Settled, AtOK, States
  <2>5. AtOK' /\ FileOK'
    BY <1>0, <1>4 DEF LookUp, AtOK, FileOK
  <2>6. WaitOK'
    BY <1>0, <1>4, <2>4 DEF LookUp, WaitOK, WireOK
  <2>7. WireOK'
    BY <1>0, <1>4, <2>1, <2>2 DEF LookUp, WireOK
  <2> QED BY <2>5, <2>6, <2>7
<1>5. ASSUME NEW p \in Peers, Drop(p) PROVE AtOK' /\ WaitOK' /\ WireOK' /\ FileOK'
  <2>1. AtOK' /\ WaitOK' /\ FileOK'
    BY <1>0, <1>5 DEF Drop, AtOK, WaitOK, FileOK
  <2>2. WireOK'
    BY <1>0, <1>5 DEF Drop, WireOK
  <2> QED BY <2>1, <2>2
<1>6. ASSUME NEW p \in Peers, Fail(p) PROVE AtOK' /\ WaitOK' /\ WireOK' /\ FileOK'
  <2>1. AtOK' /\ WaitOK' /\ FileOK'
    BY <1>0, <1>6 DEF Fail, AtOK, WaitOK, FileOK
  <2>2. WireOK'
    BY <1>0, <1>6 DEF Fail, WireOK
  <2> QED BY <2>1, <2>2
<1>7. ASSUME NEW p \in Peers, Start(p) PROVE AtOK' /\ WaitOK' /\ WireOK' /\ FileOK'
  <2>1. CASE Taken(Port[p])
    <3>1. Die(p, "bind") /\ at[p] # "gone" /\ reply' = reply /\ calls' = calls
      BY <1>7, <2>1 DEF Start
    <3>2. "bind" \in Causes \ {"none"}
      BY DEF Causes
    <3>3. AtOK' /\ WaitOK'
      BY <3>1, <3>2, DieType, DieKeeps DEF AtOK, WaitOK
    <3>4. /\ hung' \in [Peers -> {"no", "closed", "reset"}]
          /\ file' \in [Peers -> {"none", "queued", "accepted", "read", "closed", "reset"}]
      BY <3>1, <3>2, DieType, Zenon
    <3>5. WireOK'
      BY <1>0, <1>7, <2>1, <3>4 DEF Start, WireOK
    <3>6. FileOK'
      BY <1>0, <1>7, <2>1, <3>4 DEF Start, FileOK
    <3> QED BY <3>3, <3>5, <3>6
  <2>2. CASE ~Taken(Port[p])
    <3>1. Goto(p, "listening") /\ at[p] \notin {"asking", "gone"} /\ reply' = reply /\ calls' = calls
      BY <1>7, <2>2 DEF Start
    <3>2. "listening" \in States \ {"gone"}
      BY DEF States
    <3>3. AtOK' /\ WaitOK'
      BY <3>1, <3>2, GotoType, GotoKeeps DEF AtOK, WaitOK
    <3>5. WireOK'
      BY <1>0, <1>7, <2>2 DEF Start, WireOK
    <3>6. FileOK'
      BY <1>0, <1>7, <2>2 DEF Start, FileOK
    <3> QED BY <3>3, <3>5, <3>6
  <2> QED BY <2>1, <2>2
<1>8. ASSUME NEW p \in Peers, Connect(p) PROVE AtOK' /\ WaitOK' /\ WireOK' /\ FileOK'
  <2>1. CASE server # "up"
    <3>1. Die(p, "connect") /\ at[p] # "gone" /\ reply' = reply /\ calls' = calls
      BY <1>8, <2>1 DEF Connect
    <3>2. "connect" \in Causes \ {"none"}
      BY DEF Causes
    <3>3. AtOK' /\ WaitOK'
      BY <3>1, <3>2, DieType, DieKeeps DEF AtOK, WaitOK
    <3>4. /\ hung' \in [Peers -> {"no", "closed", "reset"}]
          /\ file' \in [Peers -> {"none", "queued", "accepted", "read", "closed", "reset"}]
      BY <3>1, <3>2, DieType, Zenon
    <3>5. WireOK'
      BY <1>0, <1>8, <2>1, <3>4 DEF Connect, WireOK
    <3>6. FileOK'
      BY <1>0, <1>8, <2>1, <3>4 DEF Connect, FileOK
    <3> QED BY <3>3, <3>5, <3>6
  <2>2. CASE server = "up"
    <3>1. Goto(p, "connected") /\ at[p] \notin {"asking", "gone"} /\ reply' = reply /\ calls' = calls
      BY <1>8, <2>2 DEF Connect
    <3>2. "connected" \in States \ {"gone"}
      BY DEF States
    <3>3. AtOK' /\ WaitOK'
      BY <3>1, <3>2, GotoType, GotoKeeps DEF AtOK, WaitOK
    <3>4. p \notin queue \cup master
      <4>1. Stage(p) /\ at[p] = "listening"
        BY <1>8 DEF Connect, Stages
      <4> QED BY ONLY <4>1 DEF Stage
    <3>5. WireOK'
      <4>1. queue' = queue \cup {p} /\ link' = [link EXCEPT ![p] = "up"]
        BY <1>8, <2>2 DEF Connect
      <4>2. UNCHANGED <<inbox, reply, hung, server, master, head, sent>>
        BY <1>8, <2>2 DEF Connect
      <4>3. queue' \subseteq Peers /\ queue' \cap master' = {}
        BY <1>0, <3>4, <4>1, <4>2 DEF WireOK
      <4>4. link' \in [Peers -> {"none", "up", "closed", "reset", "broken"}]
        BY <1>0, <4>1 DEF WireOK
      <4> QED BY <1>0, <4>2, <4>3, <4>4 DEF WireOK
    <3>6. FileOK'
      BY <1>0, <1>8, <2>2 DEF Connect, FileOK
    <3> QED BY <3>3, <3>5, <3>6
  <2> QED BY <2>1, <2>2
<1>9. ASSUME NEW p \in Peers, Register(p) PROVE AtOK' /\ WaitOK' /\ WireOK' /\ FileOK'
  <2>1. AtOK' /\ WaitOK'
    <3>1. Goto(p, "idle") /\ at[p] \notin {"asking", "gone"} /\ reply' = reply /\ calls' = calls
      BY <1>9 DEF Register
    <3>2. "idle" \in States \ {"gone"}
      BY DEF States
    <3> QED BY <3>1, <3>2, GotoType, GotoKeeps DEF AtOK, WaitOK
  <2>2. inbox[p] = <<>> /\ Len(<<>>) = 0
    BY <1>9 DEF Register, Stages, Stage
  <2>3. /\ inbox' \in [Peers -> Seq(Names \cup {Registration})]
        /\ \A q \in Peers : Len(inbox'[q]) <= 2
        /\ link' \in [Peers -> {"none", "up", "closed", "reset", "broken"}]
    BY <1>9, <2>2, SendType DEF Register
  <2>4. WireOK'
    BY <1>0, <1>9, <2>3 DEF Register, WireOK
  <2>5. FileOK'
    BY <1>0, <1>9 DEF Register, FileOK
  <2> QED BY <2>1, <2>4, <2>5
<1>10. ASSUME NEW p \in Peers, Ask(p) PROVE AtOK' /\ WaitOK' /\ WireOK' /\ FileOK'
  <2>1. CASE link[p] = "broken"
    <3>1. Die(p, "sigpipe") /\ at[p] # "gone" /\ reply' = reply /\ calls' = calls
      BY <1>10, <2>1 DEF Ask
    <3>2. "sigpipe" \in Causes \ {"none"}
      BY DEF Causes
    <3>3. AtOK' /\ WaitOK'
      BY <3>1, <3>2, DieType, DieKeeps DEF AtOK, WaitOK
    <3>4. /\ hung' \in [Peers -> {"no", "closed", "reset"}]
          /\ file' \in [Peers -> {"none", "queued", "accepted", "read", "closed", "reset"}]
      BY <3>1, <3>2, DieType, Zenon
    <3>5. WireOK'
      BY <1>0, <1>10, <2>1, <3>4 DEF Ask, WireOK
    <3>6. FileOK'
      BY <1>0, <1>10, <2>1, <3>4 DEF Ask, FileOK
    <3> QED BY <3>3, <3>5, <3>6
  <2>2. CASE link[p] # "broken"
    <3>1. PICK n \in Names : asked' = [asked EXCEPT ![p] = n] /\ Send(p, n)
      BY <1>10, <2>2 DEF Ask
    <3>2. link[p] = "up" => Len(inbox[p]) <= 1
      <4>1. link[p] = "up" => inbox[p] \in {<<>>, <<Registration>>}
        BY <1>10 DEF Ask, Stages, Stage, Settled
      <4>2. CASE inbox[p] = <<>>
        BY <4>2
      <4>3. CASE inbox[p] = <<Registration>>
        BY <4>3
      <4> QED BY <4>1, <4>2, <4>3
    <3>3. /\ inbox' \in [Peers -> Seq(Names \cup {Registration})]
          /\ \A q \in Peers : Len(inbox'[q]) <= 2
          /\ link' \in [Peers -> {"none", "up", "closed", "reset", "broken"}]
      BY <3>1, <3>2, SendType
    <3>4. Goto(p, "asking") /\ at[p] \notin {"asking", "gone"} /\ reply' = reply /\ calls' = calls
      BY <1>10, <2>2 DEF Ask
    <3>5. "asking" \in States \ {"gone"}
      BY DEF States
    <3>6. AtOK' /\ WaitOK'
      BY <3>4, <3>5, GotoType, GotoKeeps DEF AtOK, WaitOK
    <3>7. WireOK'
      BY <1>0, <1>10, <2>2, <3>3 DEF Ask, WireOK
    <3>8. FileOK'
      BY <1>0, <1>10, <2>2, <3>1 DEF Ask, FileOK
    <3> QED BY <3>6, <3>7, <3>8
  <2> QED BY <2>1, <2>2
<1>11. ASSUME NEW p \in Peers, Receive(p) PROVE AtOK' /\ WaitOK' /\ WireOK' /\ FileOK'
  <2>1. PICK port \in Ports : fileport' = [fileport EXCEPT ![p] = port]
    BY <1>11 DEF Receive, Ports
  <2>2. Goto(p, "told") /\ at[p] = "asking" /\ "told" \in States \ {"gone"}
    BY <1>11 DEF Receive, States
  <2>3. /\ AtOK'
        /\ at'[p] = "told" /\ \A q \in Peers \ {p} : at'[q] = at[q]
    BY <2>2, GotoType DEF AtOK
  <2>4. reply' = [reply EXCEPT ![p] = NoPort] /\ calls' = calls
    BY <1>11 DEF Receive
  <2>5. WaitOK'
    BY <1>0, <2>3, <2>4 DEF WaitOK, WireOK
  <2>6. WireOK'
    BY <1>0, <1>11 DEF Receive, WireOK
  <2>7. FileOK'
    BY <1>0, <1>11, <2>1 DEF Receive, FileOK
  <2> QED BY <2>3, <2>5, <2>6, <2>7
<1>12. ASSUME NEW p \in Peers, Decline(p) PROVE AtOK' /\ WaitOK' /\ WireOK' /\ FileOK'
  <2>1. AtOK' /\ WaitOK'
    <3>1. Goto(p, "idle") /\ at[p] \notin {"asking", "gone"} /\ reply' = reply /\ calls' = calls
      BY <1>12 DEF Decline
    <3>2. "idle" \in States \ {"gone"}
      BY DEF States
    <3> QED BY <3>1, <3>2, GotoType, GotoKeeps DEF AtOK, WaitOK
  <2>2. WireOK' /\ FileOK'
    BY <1>0, <1>12 DEF Decline, WireOK, FileOK
  <2> QED BY <2>1, <2>2
<1>13. ASSUME NEW p \in Peers, Kill(p) PROVE AtOK' /\ WaitOK' /\ WireOK' /\ FileOK'
  <2>1. CASE TRUE
    <3>1. Die(p, "killed") /\ at[p] # "gone" /\ reply' = reply /\ calls' = calls
      BY <1>13, <2>1 DEF Kill, Live
    <3>2. "killed" \in Causes \ {"none"}
      BY DEF Causes
    <3>3. AtOK' /\ WaitOK'
      BY <3>1, <3>2, DieType, DieKeeps DEF AtOK, WaitOK
    <3>4. /\ hung' \in [Peers -> {"no", "closed", "reset"}]
          /\ file' \in [Peers -> {"none", "queued", "accepted", "read", "closed", "reset"}]
      BY <3>1, <3>2, DieType, Zenon
    <3>5. WireOK'
      BY <1>0, <1>13, <2>1, <3>4 DEF Kill, WireOK
    <3>6. FileOK'
      BY <1>0, <1>13, <2>1, <3>4 DEF Kill, FileOK
    <3> QED BY <3>3, <3>5, <3>6
  <2> QED BY <2>1
<1>14. ASSUME NEW p \in Peers, Dial(p) PROVE AtOK' /\ WaitOK' /\ WireOK' /\ FileOK'
  <2>1. CASE Taken(fileport[p])
    <3>1. PICK q \in Peers :
            /\ calls' = [calls EXCEPT ![q] = Append(calls[q], p)]
            /\ callee' = [callee EXCEPT ![p] = q]
            /\ file' = [file EXCEPT ![p] = "queued"]
            /\ Goto(p, "dialled") /\ UNCHANGED hung
      BY <1>14, <2>1 DEF Dial
    <3>2. Append(calls[q], p) \in Seq(Peers) /\ Append(calls[q], p) # <<>>
      <4>1. calls[q] \in Seq(Peers)
        BY <1>0 DEF FileOK
      <4> QED BY ONLY <4>1, p \in Peers, SMTT(30)
    <3>3. /\ calls' \in [Peers -> Seq(Peers)]
          /\ \A r \in Peers : calls'[r] = calls[r] \/ calls'[r] # <<>>
      <4>1. calls \in [Peers -> Seq(Peers)]
        BY <1>0 DEF FileOK
      <4>2. \A r \in Peers : calls'[r] = IF r = q THEN Append(calls[q], p) ELSE calls[r]
        BY <3>1, <4>1
      <4>3. calls' \in [Peers -> Seq(Peers)]
        BY <3>1, <3>2, <4>1
      <4> QED BY <3>2, <4>2, <4>3
    <3>4. at[p] \notin {"asking", "gone"} /\ reply' = reply /\ "dialled" \in States \ {"gone"}
      BY <1>14 DEF Dial, States
    <3>5. AtOK' /\ WaitOK'
      BY <3>1, <3>3, <3>4, GotoType, GotoKeeps DEF AtOK, WaitOK
    <3>6. WireOK'
      BY <1>0, <1>14, <3>1 DEF Dial, WireOK
    <3>7. FileOK'
      BY <1>0, <1>14, <3>1, <3>3 DEF Dial, FileOK
    <3> QED BY <3>5, <3>6, <3>7
  <2>2. CASE ~Taken(fileport[p])
    <3>1. Die(p, "refused") /\ at[p] # "gone" /\ reply' = reply /\ calls' = calls
      BY <1>14, <2>2 DEF Dial
    <3>2. "refused" \in Causes \ {"none"}
      BY DEF Causes
    <3>3. AtOK' /\ WaitOK'
      BY <3>1, <3>2, DieType, DieKeeps DEF AtOK, WaitOK
    <3>4. /\ hung' \in [Peers -> {"no", "closed", "reset"}]
          /\ file' \in [Peers -> {"none", "queued", "accepted", "read", "closed", "reset"}]
      BY <3>1, <3>2, DieType, Zenon
    <3>5. WireOK'
      BY <1>0, <1>14, <2>2, <3>4 DEF Dial, WireOK
    <3>6. FileOK'
      BY <1>0, <1>14, <2>2, <3>4 DEF Dial, FileOK
    <3> QED BY <3>3, <3>5, <3>6
  <2> QED BY <2>1, <2>2
<1>15. ASSUME NEW p \in Peers, SendFileRequest(p) PROVE AtOK' /\ WaitOK' /\ WireOK' /\ FileOK'
  <2>1. CASE file[p] = "reset"
    <3>1. Die(p, "file request") /\ at[p] # "gone" /\ reply' = reply /\ calls' = calls
      BY <1>15, <2>1 DEF SendFileRequest
    <3>2. "file request" \in Causes \ {"none"}
      BY DEF Causes
    <3>3. AtOK' /\ WaitOK'
      BY <3>1, <3>2, DieType, DieKeeps DEF AtOK, WaitOK
    <3>4. /\ hung' \in [Peers -> {"no", "closed", "reset"}]
          /\ file' \in [Peers -> {"none", "queued", "accepted", "read", "closed", "reset"}]
      BY <3>1, <3>2, DieType, Zenon
    <3>5. WireOK'
      BY <1>0, <1>15, <2>1, <3>4 DEF SendFileRequest, WireOK
    <3>6. FileOK'
      BY <1>0, <1>15, <2>1, <3>4 DEF SendFileRequest, FileOK
    <3> QED BY <3>3, <3>5, <3>6
  <2>2. CASE file[p] # "reset"
    <3>1. Goto(p, "selecting") /\ at[p] \notin {"asking", "gone"} /\ reply' = reply /\ calls' = calls
      BY <1>15, <2>2 DEF SendFileRequest
    <3>2. "selecting" \in States \ {"gone"}
      BY DEF States
    <3>3. AtOK' /\ WaitOK'
      BY <3>1, <3>2, GotoType, GotoKeeps DEF AtOK, WaitOK
    <3>5. WireOK'
      BY <1>0, <1>15, <2>2 DEF SendFileRequest, WireOK
    <3>6. FileOK'
      BY <1>0, <1>15, <2>2 DEF SendFileRequest, FileOK
    <3> QED BY <3>3, <3>5, <3>6
  <2> QED BY <2>1, <2>2
<1>16. ASSUME NEW p \in Peers, Select(p) PROVE AtOK' /\ WaitOK' /\ WireOK' /\ FileOK'
  <2>1. PICK left \in SUBSET {"calls", "file"} :
          ready' = [ready EXCEPT ![p] = left] /\ Goto(p, Scan(left))
    BY <1>16 DEF Select
  <2>2. Scan(left) \in States \ {"gone"} /\ Scan(left) # "receiving"
    BY DEF Scan, States
  <2>3. at[p] \notin {"asking", "gone"} /\ reply' = reply /\ calls' = calls
    BY <1>16 DEF Select
  <2>4. AtOK' /\ WaitOK'
    BY <2>1, <2>2, <2>3, GotoType, GotoKeeps DEF AtOK, WaitOK
  <2>5. WireOK'
    BY <1>0, <1>16 DEF Select, WireOK
  <2>6. FileOK'
    BY <1>0, <1>16, <2>1 DEF Select, FileOK
  <2> QED BY <2>4, <2>5, <2>6
<1>17. ASSUME NEW p \in Peers, AcceptCall(p) PROVE AtOK' /\ WaitOK' /\ WireOK' /\ FileOK'
  <2>1. Head(calls[p]) \in Peers
    BY <1>0, <1>17 DEF AcceptCall, FileOK
  <2>2. Goto(p, "receiving") /\ at[p] = "accepting" /\ "receiving" \in States \ {"gone"}
    BY <1>17 DEF AcceptCall, States
  <2>3. /\ AtOK'
        /\ at'[p] = "receiving" /\ \A q \in Peers \ {p} : at'[q] = at[q]
    BY <2>2, GotoType DEF AtOK
  <2>4. WaitOK'
    BY <1>0, <1>17, <2>2, <2>3 DEF AcceptCall, WaitOK
  <2>5. WireOK'
    BY <1>0, <1>17 DEF AcceptCall, WireOK
  <2>6. FileOK'
    BY <1>0, <1>17, <2>1 DEF AcceptCall, FileOK
  <2> QED BY <2>3, <2>4, <2>5, <2>6
<1>18. ASSUME NEW p \in Peers, ReceiveCall(p) PROVE AtOK' /\ WaitOK' /\ WireOK' /\ FileOK'
  <2>1. calls[p] \in Seq(Peers) /\ calls[p] # <<>>
    BY <1>0, <1>18 DEF ReceiveCall, WaitOK, FileOK
  <2>2. Head(calls[p]) \in Peers /\ Tail(calls[p]) \in Seq(Peers)
    BY <2>1
  <2>3. PICK where \in {"reading", "accepting"} : Goto(p, where)
    BY <1>18 DEF ReceiveCall
  <2>4. at[p] = "receiving" /\ where \in States \ {"gone"}
    BY <1>18 DEF ReceiveCall, States
  <2>5. /\ AtOK'
        /\ at'[p] # "receiving" /\ \A q \in Peers \ {p} : at'[q] = at[q]
    BY <2>3, <2>4, GotoType DEF AtOK
  <2>6. reply' = reply /\ calls' = [calls EXCEPT ![p] = Tail(calls[p])]
    BY <1>18 DEF ReceiveCall
  <2>7. WaitOK'
    BY <1>0, <2>4, <2>5, <2>6 DEF WaitOK, FileOK
  <2>8. WireOK'
    BY <1>0, <1>18 DEF ReceiveCall, WireOK
  <2>9. FileOK'
    BY <1>0, <1>18, <2>2 DEF ReceiveCall, FileOK
  <2> QED BY <2>5, <2>7, <2>8, <2>9
<1>19. ASSUME NEW p \in Peers, ReadFile(p) PROVE AtOK' /\ WaitOK' /\ WireOK' /\ FileOK'
  <2>1. CASE Die(p, "file")
    <3>1. at[p] # "gone" /\ reply' = reply /\ calls' = calls /\ "file" \in Causes \ {"none"}
      BY <1>19 DEF ReadFile, Causes
    <3>2. AtOK' /\ WaitOK'
      BY <2>1, <3>1, DieType, DieKeeps DEF AtOK, WaitOK
    <3>3. /\ hung' \in [Peers -> {"no", "closed", "reset"}]
          /\ file' \in [Peers -> {"none", "queued", "accepted", "read", "closed", "reset"}]
      BY <2>1, <3>1, DieType, Zenon
    <3>4. WireOK'
      BY <1>0, <1>19, <3>3 DEF ReadFile, WireOK
    <3>5. FileOK'
      BY <1>0, <1>19, <3>3 DEF ReadFile, FileOK
    <3> QED BY <3>2, <3>4, <3>5
  <2>2. CASE Goto(p, Scan(ready[p])) /\ UNCHANGED <<hung, file>>
    <3>1. Scan(ready[p]) \in States \ {"gone"} /\ Scan(ready[p]) # "receiving"
      BY DEF Scan, States
    <3>2. at[p] \notin {"asking", "gone"} /\ reply' = reply /\ calls' = calls
      BY <1>19 DEF ReadFile
    <3>3. AtOK' /\ WaitOK'
      BY <2>2, <3>1, <3>2, GotoType, GotoKeeps DEF AtOK, WaitOK
    <3>4. WireOK' /\ FileOK'
      BY <1>0, <1>19, <2>2 DEF ReadFile, WireOK, FileOK
    <3> QED BY <3>3, <3>4
  <2> QED BY <1>19, <2>1, <2>2 DEF ReadFile
<1> QED BY <1>1, <1>2, <1>3, <1>4, <1>5, <1>6, <1>7, <1>8, <1>9, <1>10, <1>11, <1>12,
           <1>13, <1>14, <1>15, <1>16, <1>17, <1>18, <1>19
        DEF Next, ServerStep, FileStep

-----------------------------------------------------------------------------
(* The stages of registration and question *)

LEMMA StoreEntries ==
    ASSUME TypeOK, NEW p \in Peers, head' = Append(head, p)
    PROVE  Entries' = Entries \cup {p}
<1>1. head \in Seq(Peers)
  BY DEF TypeOK
<1>2. /\ Len(head') = Len(head) + 1 /\ Len(head) \in Nat
      /\ \A k \in 1..Len(head) : head'[k] = head[k]
      /\ head'[Len(head) + 1] = p
  BY <1>1
<1>3. Entries' = {head'[k] : k \in 1..Len(head) + 1}
  BY <1>2 DEF Entries
<1>4. \A k \in 1..Len(head) + 1 : k \in 1..Len(head) \/ k = Len(head) + 1
  BY <1>2
<1>5. 1..Len(head) \subseteq 1..Len(head) + 1 /\ Len(head) + 1 \in 1..Len(head) + 1
  BY <1>2
<1> QED BY <1>2, <1>3, <1>4, <1>5, Zenon DEF Entries

\* p goes on at its user's side, or ends; nothing of the server's changes.
Moves(p) ==
    /\ UNCHANGED <<inbox, link, asked, head, server, queue, master, reply, fileport>>
    /\ \A q \in Peers \ {p} : at'[q] = at[q]
    /\ \/ at'[p] = "gone"
       \/ at[p] = "off" /\ at'[p] = "listening"
       \/ Settled(p) /\ Settled(p)' /\ at'[p] # "told"

LocalStep(p) ==
    \/ Start(p) \/ Decline(p) \/ Kill(p) \/ Dial(p) \/ FileStep(p)
    \/ (Connect(p) /\ server # "up") \/ (Ask(p) /\ link[p] = "broken")

LEMMA Local ==
    ASSUME TypeOK, NEW p \in Peers, LocalStep(p) PROVE Moves(p)
<1> USE DEF wireVars, askVars, serverVars, Die, Goto, Moves, Settled
<1>0. at \in [Peers -> States]
  BY DEF TypeOK
<1>1. CASE Start(p)
  BY <1>0, <1>1 DEF Start
<1>2. CASE Decline(p)
  BY <1>0, <1>2 DEF Decline
<1>3. CASE Kill(p)
  BY <1>0, <1>3 DEF Kill
<1>4. CASE Dial(p)
  BY <1>0, <1>4 DEF Dial
<1>5. CASE SendFileRequest(p)
  BY <1>0, <1>5 DEF SendFileRequest
<1>6. CASE Select(p)
  BY <1>0, <1>6 DEF Select, Scan
<1>7. CASE AcceptCall(p)
  BY <1>0, <1>7 DEF AcceptCall
<1>8. CASE ReceiveCall(p)
  BY <1>0, <1>8 DEF ReceiveCall
<1>9. CASE ReadFile(p)
  BY <1>0, <1>9 DEF ReadFile, Scan
<1>10. CASE Connect(p) /\ server # "up"
  BY <1>0, <1>10 DEF Connect
<1>11. CASE Ask(p) /\ link[p] = "broken"
  BY <1>0, <1>11 DEF Ask
<1> QED BY <1>1, <1>2, <1>3, <1>4, <1>5, <1>6, <1>7, <1>8, <1>9, <1>10, <1>11
        DEF LocalStep, FileStep

\* What a step of somebody else leaves alone.
LEMMA StageFrame ==
    ASSUME NEW q \in Peers, Stage(q), at'[q] = at[q], inbox'[q] = inbox[q],
           link'[q] = link[q], asked'[q] = asked[q], server' = server,
           q \in Entries' <=> q \in Entries,
           q \in queue' \cup master' => q \in queue \cup master
    PROVE  Stage(q)'
  BY DEF Stage, Boxes, Settled

LEMMA MovesStages ==
    ASSUME TypeOK, Stages, NEW p \in Peers, Moves(p) PROVE Stages'
<1> SUFFICES ASSUME NEW q \in Peers PROVE Stage(q)'
  BY DEF Stages
<1>1. Stage(q) /\ Entries' = Entries
  BY DEF Stages, Moves, Entries
<1>2. CASE q # p
  BY <1>1, <1>2, StageFrame DEF Moves
<1>3. CASE q = p
  BY <1>1, <1>3 DEF Moves, Stage, Boxes, Settled
<1> QED BY <1>2, <1>3

\* One step of the loop over the server's sockets.
LEMMA TailBox ==
    ASSUME TypeOK, NEW p \in Peers, inbox[p] \in Boxes(p), inbox[p] # <<>>,
           inbox' = [inbox EXCEPT ![p] = Tail(inbox[p])]
    PROVE  /\ Head(inbox[p]) = Registration
                => \/ inbox[p] = <<Registration>> /\ inbox'[p] = <<>>
                   \/ inbox[p] = <<Registration, asked[p]>> /\ inbox'[p] = <<asked[p]>>
           /\ Head(inbox[p]) \in Names
                => /\ inbox[p] = <<asked[p]>> /\ asked[p] \in Names /\ inbox'[p] = <<>>
                   /\ Head(inbox[p]) = asked[p]
           /\ \A q \in Peers \ {p} : inbox'[q] = inbox[q]
<1>1. inbox'[p] = Tail(inbox[p]) /\ \A q \in Peers \ {p} : inbox'[q] = inbox[q]
  BY DEF TypeOK
<1>2. CASE Head(inbox[p]) = Registration
  <2>1. Registration \notin Names
    BY NamesAssumption
  <2>2. CASE inbox[p] = <<Registration>>
    BY <1>1, <1>2, <2>1, <2>2
  <2>3. CASE inbox[p] = <<Registration, asked[p]>>
    BY <1>1, <1>2, <2>1, <2>3
  <2> QED BY <1>2, <2>2, <2>3, Packets
<1>3. CASE Head(inbox[p]) \in Names
  <2>1. inbox[p] = <<asked[p]>> /\ asked[p] \in Names
    BY <1>3, Packets
  <2>2. Registration \notin Names /\ Tail(<<asked[p]>>) = <<>> /\ Head(<<asked[p]>>) = asked[p]
    BY NamesAssumption
  <2> QED BY <1>1, <2>1, <2>2
<1> QED BY <1>1, <1>2, <1>3

LEMMA NextStages == TypeOK /\ Stages /\ Answers /\ [Next]_vars => Stages'
<1> SUFFICES ASSUME TypeOK, Stages, Answers, [Next]_vars PROVE Stages'
  OBVIOUS
<1> USE DEF serverVars, wireVars, askVars, fileVars
<1>0. \A q \in Peers : Stage(q)
  BY DEF Stages
<1>1. CASE UNCHANGED vars
  BY <1>0, <1>1 DEF vars, Stages, Stage, Boxes, Settled, Entries
<1>2. ASSUME NEW p \in Peers, Accept(p) \/ Drop(p) PROVE Stages'
  <2> SUFFICES ASSUME NEW q \in Peers PROVE Stage(q)'
    BY DEF Stages
  <2>1. /\ at' = at /\ inbox' = inbox /\ link' = link /\ asked' = asked /\ server' = server
        /\ Entries' = Entries /\ queue' \cup master' \subseteq queue \cup master
    BY <1>2 DEF Accept, Drop, Entries
  <2> QED BY <1>0, <2>1, StageFrame
<1>3. ASSUME NEW p \in Peers, Store(p) PROVE Stages'
  <2> SUFFICES ASSUME NEW q \in Peers PROVE Stage(q)'
    BY DEF Stages
  <2>1. /\ at' = at /\ link' = link /\ asked' = asked /\ server' = server
        /\ queue' = queue /\ master' = master
        /\ inbox[p] # <<>> /\ Head(inbox[p]) = Registration
        /\ inbox' = [inbox EXCEPT ![p] = Tail(inbox[p])]
    BY <1>3 DEF Store
  <2>2. Entries' = Entries \cup {p}
    BY <1>3, StoreEntries DEF Store
  <2>3. inbox[p] \in Boxes(p)
    BY <1>0 DEF Stage
  <2>4. \/ inbox[p] = <<Registration>> /\ inbox'[p] = <<>>
        \/ inbox[p] = <<Registration, asked[p]>> /\ inbox'[p] = <<asked[p]>>
    BY <2>1, <2>3, TailBox
  <2>5. \A r \in Peers \ {p} : inbox'[r] = inbox[r]
    BY <2>1, <2>3, TailBox
  <2>6. CASE q # p
    BY <1>0, <2>1, <2>2, <2>5, <2>6, StageFrame
  <2>7. CASE q = p
    <3>1. asked[p] # Registration
      BY <2>3, Packets
    <3>2. Stage(p)
      BY <1>0
    <3> QED BY <2>1, <2>2, <2>4, <2>7, <3>1, <3>2 DEF Stage, Boxes, Settled
  <2> QED BY <2>6, <2>7
<1>4. ASSUME NEW p \in Peers, LookUp(p) PROVE Stages'
  <2> SUFFICES ASSUME NEW q \in Peers PROVE Stage(q)'
    BY DEF Stages
  <2>1. /\ at' = at /\ link' = link /\ asked' = asked /\ server' = server
        /\ queue' = queue /\ master' = master /\ Entries' = Entries
        /\ inbox[p] # <<>> /\ Head(inbox[p]) \in Names
        /\ inbox' = [inbox EXCEPT ![p] = Tail(inbox[p])]
    BY <1>4 DEF LookUp, Entries
  <2>3. inbox[p] \in Boxes(p)
    BY <1>0 DEF Stage
  <2>4. inbox[p] = <<asked[p]>> /\ inbox'[p] = <<>>
    BY <2>1, <2>3, TailBox
  <2>5. \A r \in Peers \ {p} : inbox'[r] = inbox[r]
    BY <2>1, <2>3, TailBox
  <2>6. CASE q # p
    BY <1>0, <2>1, <2>5, <2>6, StageFrame
  <2>7. CASE q = p
    <3>2. Stage(p)
      BY <1>0
    <3> QED BY <2>1, <2>4, <2>7, <3>2 DEF Stage, Boxes, Settled
  <2> QED BY <2>6, <2>7
<1>5. ASSUME NEW p \in Peers, Fail(p) PROVE Stages'
  <2> SUFFICES ASSUME NEW q \in Peers PROVE Stage(q)'
    BY DEF Stages
  <2>1. /\ at' = at /\ inbox' = inbox /\ asked' = asked /\ server' = "exited"
        /\ queue' = queue /\ master' = master /\ Entries' = Entries
        /\ link'[q] = IF link[q] # "up" THEN link[q]
                      ELSE IF q \in queue \/ inbox[q] # <<>> THEN "reset" ELSE "closed"
    BY <1>5 DEF Fail, Entries
  <2>2. Stage(q)
    BY <1>0
  <2> QED BY <2>1, <2>2 DEF Stage, Boxes, Settled
<1>6. ASSUME NEW p \in Peers, LocalStep(p) PROVE Stages'
  BY <1>6, Local, MovesStages
<1>7. ASSUME NEW p \in Peers, Connect(p), server = "up" PROVE Stages'
  <2> SUFFICES ASSUME NEW q \in Peers PROVE Stage(q)'
    BY DEF Stages
  <2>1. /\ at' = [at EXCEPT ![p] = "connected"] /\ at[p] = "listening"
        /\ link' = [link EXCEPT ![p] = "up"] /\ queue' = queue \cup {p}
        /\ UNCHANGED <<inbox, asked, server, master>> /\ Entries' = Entries
    BY <1>7 DEF Connect, Goto, Entries
  <2>2. /\ at'[p] = "connected" /\ link'[p] = "up"
        /\ \A r \in Peers \ {p} : at'[r] = at[r] /\ link'[r] = link[r]
    BY <2>1 DEF TypeOK
  <2>3. CASE q # p
    BY <1>0, <2>1, <2>2, <2>3, StageFrame
  <2>4. CASE q = p
    <3>1. Stage(p)
      BY <1>0
    <3>2. <<Registration>> # <<>> /\ <<asked[p]>> # <<>> /\ <<Registration, asked[p]>> # <<>>
      OBVIOUS
    <3> QED BY <2>1, <2>2, <2>4, <3>1, <3>2 DEF Stage, Boxes, Settled
  <2> QED BY <2>3, <2>4
<1>8. ASSUME NEW p \in Peers, Register(p) PROVE Stages'
  <2> SUFFICES ASSUME NEW q \in Peers PROVE Stage(q)'
    BY DEF Stages
  <2>1. /\ at' = [at EXCEPT ![p] = "idle"] /\ at[p] = "connected" /\ Send(p, Registration)
        /\ UNCHANGED <<asked, server, queue, master>> /\ Entries' = Entries
    BY <1>8 DEF Register, Goto, Entries
  <2>2. inbox[p] = <<>> /\ p \notin Entries /\ link[p] # "none" /\ Stage(p)
    BY <1>0, <2>1 DEF Stage
  <2>3. /\ at'[p] = "idle" /\ \A r \in Peers \ {p} : at'[r] = at[r]
        /\ \A r \in Peers \ {p} : inbox'[r] = inbox[r] /\ link'[r] = link[r]
    BY <2>1 DEF Send, TypeOK
  <2>4. \/ link[p] = "up" /\ link'[p] = "up" /\ inbox'[p] = <<Registration>>
        \/ link[p] # "up" /\ link'[p] = "broken" /\ inbox'[p] = <<>>
    <3>1. Append(<<>>, Registration) = <<Registration>>
      OBVIOUS
    <3> QED BY <2>1, <2>2, <3>1 DEF Send, TypeOK
  <2>5. CASE q # p
    BY <1>0, <2>1, <2>3, <2>5, StageFrame
  <2>6. CASE q = p
    <3>1. asked[p] # Registration
      BY <2>2, Packets DEF Stage
    <3>2. <<Registration>> # <<>> /\ <<Registration>> # <<asked[p]>>
          /\ <<asked[p]>> # <<>> /\ <<Registration, asked[p]>> # <<>>
      BY <3>1
    <3> QED BY <2>1, <2>2, <2>3, <2>4, <2>6, <3>2 DEF Stage, Boxes, Settled
  <2> QED BY <2>5, <2>6
<1>9. ASSUME NEW p \in Peers, Ask(p), link[p] # "broken" PROVE Stages'
  <2> SUFFICES ASSUME NEW q \in Peers PROVE Stage(q)'
    BY DEF Stages
  <2>1. /\ at' = [at EXCEPT ![p] = "asking"] /\ at[p] = "idle"
        /\ UNCHANGED <<server, queue, master>> /\ Entries' = Entries
    BY <1>9 DEF Ask, Goto, Entries
  <2>2. PICK n \in Names : asked' = [asked EXCEPT ![p] = n] /\ Send(p, n)
    BY <1>9 DEF Ask
  <2>3. /\ at'[p] = "asking" /\ asked'[p] = n
        /\ \A r \in Peers \ {p} : at'[r] = at[r] /\ asked'[r] = asked[r]
        /\ \A r \in Peers \ {p} : inbox'[r] = inbox[r] /\ link'[r] = link[r]
    BY <2>1, <2>2 DEF Send, TypeOK
  <2>4. Stage(p) /\ Settled(p) /\ inbox[p] \in {<<>>, <<Registration>>} /\ link[p] # "none"
    BY <1>0, <1>9, <2>1 DEF Stage, Settled
  <2>5. n # Registration
    BY NamesAssumption
  <2>6. CASE q # p
    BY <1>0, <2>1, <2>3, <2>6, StageFrame
  <2>7. CASE q = p /\ link[p] # "up"
    <3>1. inbox'[p] = inbox[p] /\ link'[p] = "broken"
      BY <2>2, <2>7 DEF Send, TypeOK
    <3>2. <<n>> # <<>> /\ <<n>> # <<Registration>>
      BY <2>5
    <3>3. <<Registration>> # <<>> /\ <<Registration, n>> # <<>> /\ <<Registration, n>> # <<Registration>>
          /\ <<Registration, asked[p]>> # <<>>
      OBVIOUS
    <3> QED BY <2>1, <2>3, <2>4, <2>7, <3>1, <3>2, <3>3 DEF Stage, Boxes, Settled
  <2>8. CASE q = p /\ link[p] = "up"
    <3>1. link'[p] = "up" /\ inbox'[p] = Append(inbox[p], n)
      BY <2>2, <2>8 DEF Send, TypeOK
    <3>2. \/ inbox[p] = <<>> /\ inbox'[p] = <<n>> /\ p \in Entries
          \/ inbox[p] = <<Registration>> /\ inbox'[p] = <<Registration, n>> /\ p \notin Entries
      <4>1. Append(<<>>, n) = <<n>>
        OBVIOUS
      <4>2. Append(<<Registration>>, n) = <<Registration, n>>
        <5>1. Registration \in Names \cup {Registration} /\ n \in Names \cup {Registration}
          OBVIOUS
        <5> QED BY <5>1, AppendSecond, Zenon
      <4>3. CASE inbox[p] = <<>>
        <5>1. p \in Entries
          BY <2>4, <2>8, <4>3 DEF Stage
        <5> QED BY <3>1, <4>1, <4>3, <5>1
      <4>4. CASE inbox[p] = <<Registration>>
        <5>1. p \notin Entries
          BY <2>4, <4>4 DEF Stage
        <5> QED BY <3>1, <4>2, <4>4, <5>1
      <4> QED BY <2>4, <4>3, <4>4
    <3>3. <<n>> # <<>> /\ <<n>> # <<Registration>> /\ <<n>> # <<Registration, n>>
      BY <2>5
    <3>4. <<Registration>> # <<>> /\ <<Registration, n>> # <<>> /\ <<Registration, n>> # <<Registration>>
      OBVIOUS
    <3> QED BY <2>1, <2>3, <2>4, <2>8, <3>1, <3>2, <3>3, <3>4 DEF Stage, Boxes, Settled
  <2> QED BY <2>6, <2>7, <2>8
<1>10. ASSUME NEW p \in Peers, Receive(p) PROVE Stages'
  <2> SUFFICES ASSUME NEW q \in Peers PROVE Stage(q)'
    BY DEF Stages
  <2>1. /\ at' = [at EXCEPT ![p] = "told"] /\ at[p] = "asking"
        /\ UNCHANGED <<inbox, asked, server, queue, master>> /\ Entries' = Entries
        /\ link' = IF reply[p] = NoPort /\ link[p] = "reset"
                   THEN [link EXCEPT ![p] = "broken"] ELSE link
    BY <1>10 DEF Receive, Goto, Entries
  <2>2. /\ at'[p] = "told" /\ \A r \in Peers \ {p} : at'[r] = at[r]
        /\ \A r \in Peers \ {p} : link'[r] = link[r]
        /\ link'[p] = IF reply[p] = NoPort /\ link[p] = "reset" THEN "broken" ELSE link[p]
    BY <2>1 DEF TypeOK
  <2>3. CASE q # p
    BY <1>0, <2>1, <2>2, <2>3, StageFrame
  <2>4. CASE q = p /\ reply[p] # NoPort
    <3>1. inbox[p] = <<>> /\ p \in Entries
      BY <2>4 DEF Answers, Answer
    <3>2. Stage(p)
      BY <1>0
    <3> QED BY <2>1, <2>2, <2>4, <3>1, <3>2 DEF Stage, Boxes, Settled
  <2>5. CASE q = p /\ reply[p] = NoPort
    <3>1. link[p] # "up"
      BY <1>10, <2>5 DEF Receive
    <3>2. Stage(p) /\ link[p] \in {"none", "up", "closed", "reset", "broken"}
      BY <1>0 DEF TypeOK
    <3>3. link'[p] \in {"closed", "broken"}
      BY <2>1, <2>2, <2>5, <3>1, <3>2 DEF Stage
    <3> QED BY <2>1, <2>2, <2>5, <3>1, <3>2, <3>3 DEF Stage, Boxes, Settled
  <2> QED BY <2>3, <2>4, <2>5
<1>11. ASSUME Next PROVE Stages'
  <2>1. PICK p \in Peers :
          \/ ServerStep(p) \/ FileStep(p)
          \/ Start(p) \/ Connect(p) \/ Register(p) \/ Ask(p) \/ Receive(p) \/ Decline(p)
          \/ Dial(p) \/ Kill(p)
    BY <1>11 DEF Next
  <2>2. CASE ServerStep(p)
    BY <1>2, <1>3, <1>4, <1>5, <2>2 DEF ServerStep
  <2>3. CASE \/ FileStep(p) \/ Start(p) \/ Decline(p) \/ Dial(p) \/ Kill(p)
    <3>1. LocalStep(p)
      BY <2>3, Zenon DEF LocalStep
    <3> QED BY <1>6, <3>1
  <2>4. CASE Connect(p)
    <3>1. CASE server # "up"
      <4>1. LocalStep(p)
        BY <2>4, <3>1, Zenon DEF LocalStep
      <4> QED BY <1>6, <4>1
    <3>2. CASE server = "up"
      BY <1>7, <2>4, <3>2
    <3> QED BY <3>1, <3>2
  <2>5. CASE Ask(p)
    <3>1. CASE link[p] = "broken"
      <4>1. LocalStep(p)
        BY <2>5, <3>1, Zenon DEF LocalStep
      <4> QED BY <1>6, <4>1
    <3>2. CASE link[p] # "broken"
      BY <1>9, <2>5, <3>2
    <3> QED BY <3>1, <3>2
  <2>6. CASE Register(p) \/ Receive(p)
    BY <1>8, <1>10, <2>6
  <2> QED BY <2>1, <2>2, <2>3, <2>4, <2>5, <2>6
<1> QED BY <1>1, <1>11

-----------------------------------------------------------------------------
(* Answers *)

LEMMA AnswerFrame ==
    ASSUME NEW q \in Peers, Answer(q), at'[q] = at[q], inbox'[q] = inbox[q],
           reply'[q] = reply[q], asked'[q] = asked[q], fileport'[q] = fileport[q],
           server' = "up" => server = "up", Entries \subseteq Entries'
    PROVE  Answer(q)'
  BY DEF Answer, Good

LEMMA MovesAnswers ==
    ASSUME TypeOK, Answers, NEW p \in Peers, Moves(p) PROVE Answers'
<1> SUFFICES ASSUME NEW q \in Peers PROVE Answer(q)'
  BY DEF Answers
<1>1. Answer(q) /\ Entries' = Entries
  BY DEF Answers, Moves, Entries
<1>2. CASE q # p
  BY <1>1, <1>2, AnswerFrame DEF Moves
<1>3. CASE q = p
  <2>1. reply'[p] = reply[p] /\ inbox'[p] = inbox[p] /\ asked'[p] = asked[p]
    BY DEF Moves
  <2>2. reply[p] # NoPort => at[p] \in {"asking", "gone"}
    BY DEF TypeOK
  <2>3. at'[p] # "told" /\ (reply[p] # NoPort => at'[p] = "gone")
    BY <2>2 DEF Moves, Settled
  <2> QED BY <1>1, <1>3, <2>1, <2>3 DEF Answer, Good
<1> QED BY <1>2, <1>3

LEMMA NextAnswers == TypeOK /\ Stages /\ Answers /\ [Next]_vars => Answers'
<1> SUFFICES ASSUME TypeOK, Stages, Answers, [Next]_vars PROVE Answers'
  OBVIOUS
<1> USE DEF serverVars, wireVars, askVars, fileVars
<1>0. \A q \in Peers : Stage(q) /\ Answer(q)
  BY DEF Stages, Answers
<1>1. CASE UNCHANGED vars
  BY <1>0, <1>1 DEF vars, Answers, Answer, Good, Entries
<1>2. ASSUME NEW p \in Peers, Accept(p) \/ Drop(p) \/ Fail(p) PROVE Answers'
  <2>1. /\ UNCHANGED <<at, inbox, reply, asked, fileport>> /\ (server' = "up" => server = "up")
        /\ Entries' = Entries
    BY <1>2 DEF Accept, Drop, Fail, Entries
  <2> QED BY <1>0, <2>1, AnswerFrame DEF Answers
<1>3. ASSUME NEW p \in Peers, Store(p) PROVE Answers'
  <2> SUFFICES ASSUME NEW q \in Peers PROVE Answer(q)'
    BY DEF Answers
  <2>1. /\ UNCHANGED <<at, reply, asked, fileport, server>> /\ inbox[p] # <<>>
        /\ \A r \in Peers \ {p} : inbox'[r] = inbox[r]
    BY <1>3 DEF Store, TypeOK
  <2>2. Entries \subseteq Entries'
    BY <1>3, StoreEntries DEF Store
  <2>3. CASE q # p
    BY <1>0, <2>1, <2>2, <2>3, AnswerFrame
  <2>4. CASE q = p
    BY <1>0, <2>1, <2>2, <2>4 DEF Answer, Good
  <2> QED BY <2>3, <2>4
<1>4. ASSUME NEW p \in Peers, LookUp(p) PROVE Answers'
  <2> SUFFICES ASSUME NEW q \in Peers PROVE Answer(q)'
    BY DEF Answers
  <2>1. /\ UNCHANGED <<at, asked, fileport, server>> /\ Entries' = Entries
        /\ inbox[p] # <<>> /\ Head(inbox[p]) \in Names
        /\ inbox' = [inbox EXCEPT ![p] = Tail(inbox[p])]
        /\ reply' = [reply EXCEPT ![p] = Find(Head(inbox[p]))]
    BY <1>4 DEF LookUp, Entries
  <2>2. inbox[p] \in Boxes(p)
    BY <1>0 DEF Stage
  <2>3. /\ inbox[p] = <<asked[p]>> /\ asked[p] \in Names /\ inbox'[p] = <<>>
        /\ Head(inbox[p]) = asked[p] /\ \A r \in Peers \ {p} : inbox'[r] = inbox[r]
    BY <2>1, <2>2, TailBox
  <2>4. reply'[p] = Find(asked[p]) /\ \A r \in Peers \ {p} : reply'[r] = reply[r]
    BY <2>1, <2>3 DEF TypeOK
  <2>5. CASE q # p
    BY <1>0, <2>1, <2>3, <2>4, <2>5, AnswerFrame
  <2>6. CASE q = p
    <3>1. \/ reply'[p] = 0
          \/ \E r \in Entries : Port[r] = reply'[p] /\ asked[p] \in Listed[r]
      <4>1. Good(Find(asked[p]), asked[p])
        BY <2>3, FindFacts DEF TypeOK
      <4> QED BY <2>4, <4>1 DEF Good
    <3>3. p \in Entries /\ at[p] \in {"asking", "gone"}
      <4>1. <<asked[p]>> # <<>> /\ <<asked[p]>> # <<Registration>>
        BY <2>3, NamesAssumption
      <4>2. at[p] \in States /\ server = "up"
        BY <1>4 DEF LookUp, TypeOK
      <4> QED BY <1>0, <2>3, <4>1, <4>2 DEF Stage, Settled, States
    <3> QED BY <1>0, <2>1, <2>3, <2>6, <3>1, <3>3 DEF Answer, Good
  <2> QED BY <2>5, <2>6
<1>5. ASSUME NEW p \in Peers, LocalStep(p) PROVE Answers'
  BY <1>5, Local, MovesAnswers
<1>6. ASSUME NEW p \in Peers,
             \/ (Connect(p) /\ server = "up") \/ Register(p) \/ (Ask(p) /\ link[p] # "broken")
      PROVE  Answers'
  <2> SUFFICES ASSUME NEW q \in Peers PROVE Answer(q)'
    BY DEF Answers
  <2>1. /\ UNCHANGED <<reply, fileport, server>> /\ Entries' = Entries
        /\ at[p] \in {"listening", "connected", "idle"}
        /\ at'[p] \in {"connected", "idle", "asking"}
        /\ \A r \in Peers \ {p} : at'[r] = at[r] /\ inbox'[r] = inbox[r] /\ asked'[r] = asked[r]
    <3>1. CASE Connect(p) /\ server = "up"
      BY <3>1 DEF Connect, Goto, Entries, TypeOK
    <3>2. CASE Register(p)
      BY <3>2 DEF Register, Goto, Send, Entries, TypeOK
    <3>3. CASE Ask(p) /\ link[p] # "broken"
      <4>1. PICK n \in Names : asked' = [asked EXCEPT ![p] = n] /\ Send(p, n)
        BY <3>3 DEF Ask
      <4>2. \A r \in Peers \ {p} : inbox'[r] = inbox[r] /\ asked'[r] = asked[r]
        BY <4>1 DEF Send, TypeOK
      <4>3. /\ UNCHANGED <<reply, fileport, server>> /\ Entries' = Entries
            /\ at[p] = "idle" /\ at' = [at EXCEPT ![p] = "asking"]
        BY <3>3 DEF Ask, Goto, Entries
      <4> QED BY <4>2, <4>3 DEF TypeOK
    <3> QED BY <1>6, <3>1, <3>2, <3>3
  <2>2. CASE q # p
    BY <1>0, <2>1, <2>2, AnswerFrame
  <2>3. CASE q = p
    <3>1. reply[p] = NoPort
      BY <2>1 DEF TypeOK
    <3> QED BY <2>1, <2>3, <3>1 DEF Answer
  <2> QED BY <2>2, <2>3
<1>7. ASSUME NEW p \in Peers, Receive(p) PROVE Answers'
  <2> SUFFICES ASSUME NEW q \in Peers PROVE Answer(q)'
    BY DEF Answers
  <2>1. PICK port \in Ports :
          /\ reply[p] # NoPort => port = reply[p]
          /\ fileport' = [fileport EXCEPT ![p] = port]
    BY <1>7 DEF Receive, Ports
  <2>2. /\ UNCHANGED <<inbox, asked, server>> /\ Entries' = Entries
        /\ at[p] = "asking" /\ at' = [at EXCEPT ![p] = "told"]
        /\ reply' = [reply EXCEPT ![p] = NoPort]
        /\ reply[p] # NoPort \/ link[p] # "up"
    BY <1>7 DEF Receive, Goto, Entries
  <2>3. /\ at'[p] = "told" /\ reply'[p] = NoPort /\ fileport'[p] = port
        /\ \A r \in Peers \ {p} : /\ at'[r] = at[r] /\ reply'[r] = reply[r]
                                  /\ fileport'[r] = fileport[r]
    BY <2>1, <2>2 DEF TypeOK
  <2>4. CASE q # p
    BY <1>0, <2>2, <2>3, <2>4, AnswerFrame
  <2>5. CASE q = p /\ reply[p] # NoPort
    BY <1>0, <2>1, <2>2, <2>3, <2>5 DEF Answer, Good
  <2>6. CASE q = p /\ reply[p] = NoPort
    <3>1. server # "up"
      BY <1>0, <2>2, <2>6 DEF Stage
    <3> QED BY <2>2, <2>3, <2>6, <3>1 DEF Answer
  <2> QED BY <2>4, <2>5, <2>6
<1>8. ASSUME Next PROVE Answers'
  <2>1. PICK p \in Peers :
          \/ ServerStep(p) \/ FileStep(p)
          \/ Start(p) \/ Connect(p) \/ Register(p) \/ Ask(p) \/ Receive(p) \/ Decline(p)
          \/ Dial(p) \/ Kill(p)
    BY <1>8 DEF Next
  <2>2. CASE ServerStep(p)
    BY <1>2, <1>3, <1>4, <2>2 DEF ServerStep
  <2>3. CASE \/ FileStep(p) \/ Start(p) \/ Decline(p) \/ Dial(p) \/ Kill(p)
    <3>1. LocalStep(p)
      BY <2>3, Zenon DEF LocalStep
    <3> QED BY <1>5, <3>1
  <2>4. CASE Connect(p) \/ Register(p) \/ Ask(p)
    <3>1. CASE LocalStep(p)
      BY <1>5, <3>1
    <3>2. CASE ~LocalStep(p)
      <4>1. \/ (Connect(p) /\ server = "up") \/ Register(p) \/ (Ask(p) /\ link[p] # "broken")
        BY <2>4, <3>2, Zenon DEF LocalStep
      <4> QED BY <1>6, <4>1, Zenon
    <3> QED BY <3>1, <3>2
  <2>5. CASE Receive(p)
    BY <1>7, <2>5
  <2> QED BY <2>1, <2>2, <2>3, <2>4, <2>5
<1> QED BY <1>1, <1>8

-----------------------------------------------------------------------------
(* Ends and resets *)

\* The three kinds of steps: of the server, of a peer that goes on, of one that ends.
Serves ==
    /\ UNCHANGED <<at, cause, hung>> /\ Entries \subseteq Entries'
    /\ server' = server \/ \E p \in Peers : hung[p] = "reset"
Goes(p) ==
    /\ \E where \in States \ {"gone"} : Goto(p, where)
    /\ UNCHANGED <<hung, server>> /\ Entries' = Entries
    /\ at[p] # "gone" /\ (at[p] = "off" => ~Taken(Port[p]))
Ends(p) ==
    /\ \E why \in Causes \ {"none"} : Die(p, why) /\ (at[p] = "asking" => why = "killed")
    /\ server' = server /\ Entries' = Entries
    /\ at[p] # "gone"

LEMMA StepKinds ==
    ASSUME TypeOK, [Next]_vars PROVE Serves \/ \E p \in Peers : Goes(p) \/ Ends(p)
<1> USE DEF serverVars, wireVars, askVars, fileVars
<1>0. \A q \in Peers : Scan(ready[q]) \in States \ {"gone"}
  BY DEF Scan, States
<1>1. CASE UNCHANGED vars
  BY <1>1 DEF vars, Serves, Entries
<1>2. ASSUME NEW p \in Peers, ServerStep(p) PROVE Serves
  <2>1. CASE Store(p)
    BY <2>1, StoreEntries DEF Store, Serves
  <2>2. CASE Accept(p) \/ LookUp(p) \/ Drop(p) \/ Fail(p)
    BY <2>2 DEF Accept, LookUp, Drop, Fail, Serves, Entries
  <2> QED BY <1>2, <2>1, <2>2 DEF ServerStep
<1>3. ASSUME NEW p \in Peers, Start(p) PROVE Goes(p) \/ Ends(p)
  BY <1>0, <1>3 DEF Start, Goes, Ends, States, Causes, Entries
<1>4. ASSUME NEW p \in Peers, Connect(p) PROVE Goes(p) \/ Ends(p)
  BY <1>0, <1>4 DEF Connect, Goes, Ends, States, Causes, Entries
<1>5. ASSUME NEW p \in Peers, Register(p) PROVE Goes(p) \/ Ends(p)
  BY <1>0, <1>5 DEF Register, Goes, Ends, States, Causes, Entries
<1>6. ASSUME NEW p \in Peers, Ask(p) PROVE Goes(p) \/ Ends(p)
  BY <1>0, <1>6 DEF Ask, Goes, Ends, States, Causes, Entries
<1>7. ASSUME NEW p \in Peers, Receive(p) PROVE Goes(p) \/ Ends(p)
  BY <1>0, <1>7 DEF Receive, Goes, Ends, States, Causes, Entries
<1>8. ASSUME NEW p \in Peers, Decline(p) PROVE Goes(p) \/ Ends(p)
  BY <1>0, <1>8 DEF Decline, Goes, Ends, States, Causes, Entries
<1>9. ASSUME NEW p \in Peers, Dial(p) PROVE Goes(p) \/ Ends(p)
  BY <1>0, <1>9 DEF Dial, Goes, Ends, States, Causes, Entries
<1>10. ASSUME NEW p \in Peers, Kill(p) PROVE Goes(p) \/ Ends(p)
  BY <1>0, <1>10 DEF Kill, Goes, Ends, States, Causes, Entries, Live
<1>11. ASSUME NEW p \in Peers, SendFileRequest(p) PROVE Goes(p) \/ Ends(p)
  BY <1>0, <1>11 DEF SendFileRequest, Goes, Ends, States, Causes, Entries
<1>12. ASSUME NEW p \in Peers, Select(p) PROVE Goes(p) \/ Ends(p)
  <2>1. PICK left \in SUBSET {"calls", "file"} : Goto(p, Scan(left))
    BY <1>12 DEF Select
  <2>2. Scan(left) \in States \ {"gone"}
    BY DEF Scan, States
  <2> QED BY <1>12, <2>1, <2>2 DEF Select, Goes, Entries
<1>13. ASSUME NEW p \in Peers, AcceptCall(p) PROVE Goes(p) \/ Ends(p)
  BY <1>0, <1>13 DEF AcceptCall, Goes, Ends, States, Causes, Entries
<1>14. ASSUME NEW p \in Peers, ReceiveCall(p) PROVE Goes(p) \/ Ends(p)
  BY <1>0, <1>14 DEF ReceiveCall, Goes, Ends, States, Causes, Entries
<1>15. ASSUME NEW p \in Peers, ReadFile(p) PROVE Goes(p) \/ Ends(p)
  BY <1>0, <1>15 DEF ReadFile, Goes, Ends, States, Causes, Entries
<1>16. ASSUME Next PROVE Serves \/ \E p \in Peers : Goes(p) \/ Ends(p)
  <2>1. PICK p \in Peers :
          \/ ServerStep(p) \/ FileStep(p)
          \/ Start(p) \/ Connect(p) \/ Register(p) \/ Ask(p) \/ Receive(p) \/ Decline(p)
          \/ Dial(p) \/ Kill(p)
    BY <1>16 DEF Next
  <2>2. CASE ServerStep(p)
    BY <1>2, <2>2
  <2>3. CASE FileStep(p)
    BY <1>11, <1>12, <1>13, <1>14, <1>15, <2>3 DEF FileStep
  <2> QED BY <1>3, <1>4, <1>5, <1>6, <1>7, <1>8, <1>9, <1>10, <2>1, <2>2, <2>3
<1> QED BY <1>1, <1>16

\* A connection is reset only if there was an answer to read, and peers that have one
\* wait for it in recv(): they can only be killed.
LEMMA NextResets == TypeOK /\ Answers /\ Resets /\ [Next]_vars => Resets'
<1> SUFFICES ASSUME TypeOK, Answers, Resets, [Next]_vars PROVE Resets'
  OBVIOUS
<1>1. CASE Serves
  BY <1>1 DEF Serves, Resets, TypeOK
<1>2. ASSUME NEW p \in Peers, Goes(p) PROVE Resets'
  <2>1. PICK where \in States \ {"gone"} : Goto(p, where)
    BY <1>2 DEF Goes
  <2>2. at'[p] = where /\ \A q \in Peers \ {p} : at'[q] = at[q]
    BY <1>2, <2>1, GotoType DEF Goes
  <2>3. UNCHANGED <<hung, server, cause>> /\ Entries' = Entries /\ at[p] # "gone"
    BY <1>2, <2>1 DEF Goes, Goto
  <2> QED BY <2>2, <2>3 DEF Resets
<1>3. ASSUME NEW p \in Peers, Ends(p) PROVE Resets'
  <2>1. PICK why \in Causes \ {"none"} : Die(p, why) /\ (at[p] = "asking" => why = "killed")
    BY <1>3 DEF Ends
  <2>2. server' = server /\ Entries' = Entries /\ at[p] # "gone"
    BY <1>3 DEF Ends
  <2>3. /\ at'[p] = "gone" /\ \A q \in Peers \ {p} : at'[q] = at[q]
        /\ cause'[p] = why /\ \A q \in Peers \ {p} : cause'[q] = cause[q]
        /\ hung'[p] = (IF reply[p] # NoPort THEN "reset" ELSE "closed")
        /\ \A q \in Peers \ {p} : hung'[q] = hung[q]
    BY <2>1, <2>2, DieType, Zenon
  <2>4. hung'[p] = "reset" => cause'[p] = "killed" /\ p \in Entries
    BY <2>1, <2>2, <2>3 DEF Answers, Answer
  <2>5. hung[p] = "no"
    BY <2>2 DEF Resets
  <2> QED BY <2>2, <2>3, <2>4, <2>5 DEF Resets
<1> QED BY <1>1, <1>2, <1>3, StepKinds

LEMMA NextPorts == TypeOK /\ OnePerPort /\ [Next]_vars => OnePerPort'
<1> SUFFICES ASSUME TypeOK, OnePerPort, [Next]_vars PROVE OnePerPort'
  OBVIOUS
<1>1. CASE Serves
  BY <1>1 DEF Serves, OnePerPort, Live
<1>2. ASSUME NEW p \in Peers, Goes(p) PROVE OnePerPort'
  <2>1. PICK where \in States \ {"gone"} : Goto(p, where)
    BY <1>2 DEF Goes
  <2>2. at'[p] = where /\ \A q \in Peers \ {p} : at'[q] = at[q]
    BY <1>2, <2>1, GotoType DEF Goes
  <2> QED BY <1>2, <2>2 DEF Goes, OnePerPort, Live, Taken
<1>3. ASSUME NEW p \in Peers, Ends(p) PROVE OnePerPort'
  <2>1. PICK why \in Causes \ {"none"} : Die(p, why)
    BY <1>3 DEF Ends
  <2>2. at'[p] = "gone" /\ \A q \in Peers \ {p} : at'[q] = at[q]
    BY <1>3, <2>1, DieType, Zenon DEF Ends
  <2> QED BY <2>2 DEF OnePerPort, Live
<1> QED BY <1>1, <1>2, <1>3, StepKinds

-----------------------------------------------------------------------------
(* The inductive invariant *)

LEMMA InitInv == Init => Inv
<1> SUFFICES ASSUME Init PROVE Inv
  OBVIOUS
<1>1. \A p \in Peers : /\ at[p] = "off" /\ inbox[p] = <<>> /\ link[p] = "none" /\ reply[p] = NoPort
                       /\ hung[p] = "no"
  BY DEF Init
<1>2. Entries = {} /\ server = "up" /\ queue = {} /\ master = {}
  BY DEF Init, Entries
<1>3. Stages
  <2> SUFFICES ASSUME NEW p \in Peers PROVE Stage(p)
    BY DEF Stages
  <2>1. <<Registration>> # <<>> /\ <<asked[p]>> # <<>> /\ <<Registration, asked[p]>> # <<>>
    OBVIOUS
  <2> QED BY <1>1, <1>2, <2>1 DEF Stage, Boxes, Settled
<1>4. Answers /\ Resets /\ OnePerPort
  BY <1>1, <1>2 DEF Answers, Answer, Resets, OnePerPort, Live
<1> QED BY <1>3, <1>4, InitType DEF Inv

LEMMA NextInv == Inv /\ [Next]_vars => Inv'
  BY NextType, NextStages, NextAnswers, NextResets, NextPorts DEF Inv

THEOREM Invariant == Spec => []Inv
  BY InitInv, NextInv, PTL DEF Spec

-----------------------------------------------------------------------------
(* The properties *)

\* The state has the type of the variables of server.c and peer.c: no peer is in the
\* table twice, and the sockets hold at most a registration and one name.
THEOREM TypeCorrect == Spec => []TypeOK
<1>1. Inv => TypeOK
  BY DEF Inv
<1> QED BY <1>1, Invariant, PTL

\* The answer of find() (server.c) is good when it is given, and stays so until a peer
\* in the table goes: nothing is ever taken out of the table.
THEOREM TellsWell == Spec => []ToldWell
<1>1. Inv => ToldWell
  <2> SUFFICES ASSUME Inv, Departed = {}, NEW p \in Peers, at[p] = "told", fileport[p] # 0
               PROVE  /\ Taken(fileport[p])
                      /\ \A q \in Peers : Live(q) /\ Port[q] = fileport[p]
                                          => asked[p] \in Listed[q]
    BY DEF ToldWell
  <2>1. server = "up"
    <3>1. ASSUME NEW q \in Peers, hung[q] = "reset" PROVE FALSE
      <4>1. q \in Entries /\ at[q] = "gone"
        BY <3>1 DEF Inv, Resets
      <4> QED BY <4>1 DEF Departed
    <3>2. server \in {"up", "exited"}
      BY DEF Inv, TypeOK
    <3>3. server = "exited" => \E q \in Peers : hung[q] = "reset"
      BY DEF Inv, Resets
    <3> QED BY ONLY <3>1, <3>2, <3>3
  <2>2. Good(fileport[p], asked[p])
    <3>1. Answer(p)
      BY DEF Inv, Answers
    <3> QED BY ONLY <2>1, <3>1, at[p] = "told" DEF Answer
  <2>3. PICK q \in Entries : Port[q] = fileport[p] /\ asked[p] \in Listed[q]
    BY <2>2 DEF Good
  <2>4. q \in Peers
    BY DEF Inv, TypeOK, Entries
  <2>5. Live(q)
    BY <2>4 DEF Inv, Stages, Stage, Departed, Live
  <2>6. Taken(fileport[p])
    BY <2>3, <2>4, <2>5 DEF Taken
  <2>7. \A r \in Peers : Live(r) /\ Port[r] = fileport[p] => r = q
    BY <2>3, <2>4, <2>5 DEF Inv, OnePerPort
  <2> QED BY <2>3, <2>6, <2>7
<1> QED BY <1>1, Invariant, PTL

\* errorrep() ends the server (server.c:192) only behind a peer that was killed with an
\* answer to read: no peer that ends by itself takes the directory with it.
THEOREM OnlyKillsHurt == Spec => []OnlyKillEndsServer
<1>1. Inv => OnlyKillEndsServer
  BY DEF Inv, Resets, OnlyKillEndsServer
<1> QED BY <1>1, Invariant, PTL

-----------------------------------------------------------------------------
(* Why peers end *)

\* The connection of getfile is closed or reset by the end of the peer it leads to,
\* and only then is there something to receive: "file" is in read_fds.
Tied(p) ==
    /\ file[p] # "none" => callee[p] \in Peers
    /\ file[p] \in {"closed", "reset"} => at[callee[p]] = "gone"
    /\ at[p] = "reading" \/ "file" \in ready[p] => file[p] \in {"closed", "reset"}
    /\ at[p] \in {"off", "listening", "connected", "idle", "asking", "told", "dialled", "selecting"}
         => ready[p] = {}

Ties == \A p \in Peers : Tied(p)

\* What the end of p does to the connections of getfile.
LEMMA DieFiles ==
    ASSUME TypeOK, NEW p \in Peers, NEW why \in Causes \ {"none"}, Die(p, why),
           at[p] # "gone", Ties
    PROVE  \A c \in Peers :
             /\ file'[c] = file[c] \/ (callee[c] = p /\ file[c] # "none")
             /\ file[c] = "none" <=> file'[c] = "none"
             /\ file[c] \in {"closed", "reset"} => file'[c] = file[c]
  BY DEF Die, TypeOK

LEMMA DieTies ==
    ASSUME TypeOK, NEW p \in Peers, NEW why \in Causes \ {"none"}, Die(p, why),
           at[p] # "gone", UNCHANGED <<callee, ready>>, Ties
    PROVE  Ties'
<1>1. at'[p] = "gone" /\ \A q \in Peers \ {p} : at'[q] = at[q]
  BY DieType, Zenon
<1>2. \A c \in Peers :
        /\ file'[c] = file[c] \/ (callee[c] = p /\ file[c] # "none")
        /\ file[c] = "none" <=> file'[c] = "none"
        /\ file[c] \in {"closed", "reset"} => file'[c] = file[c]
  BY DieFiles, Zenon
<1> QED BY <1>1, <1>2 DEF Ties, Tied

LEMMA GotoTies ==
    ASSUME TypeOK, NEW p \in Peers, NEW where \in States \ {"gone"}, Goto(p, where),
           at[p] # "gone", UNCHANGED <<callee, file, ready>>, Ties,
           where = "reading" => file[p] \in {"closed", "reset"},
           where \in {"off", "listening", "connected", "idle", "asking", "told", "dialled",
                      "selecting"} => ready[p] = {}
    PROVE  Ties'
<1>1. at'[p] = where /\ \A q \in Peers \ {p} : at'[q] = at[q]
  BY GotoType, Zenon
<1> QED BY <1>1 DEF Ties, Tied

LEMMA NextTies == TypeOK /\ Ties /\ [Next]_vars => Ties'
<1> SUFFICES ASSUME TypeOK, Ties, [Next]_vars PROVE Ties'
  OBVIOUS
<1> USE DEF serverVars, wireVars, askVars, fileVars
<1>0. ASSUME UNCHANGED <<at, callee, file, ready>> PROVE Ties'
  BY <1>0 DEF Ties, Tied
<1>1. CASE UNCHANGED vars
  BY <1>0, <1>1 DEF vars
<1>2. ASSUME NEW p \in Peers, ServerStep(p) PROVE Ties'
  BY <1>0, <1>2 DEF ServerStep, Accept, Store, LookUp, Drop, Fail
<1>3. ASSUME NEW p \in Peers, Start(p) PROVE Ties'
  <2>1. CASE Taken(Port[p])
    <3>1. Die(p, "bind") /\ "bind" \in Causes \ {"none"} /\ at[p] # "gone"
          /\ UNCHANGED <<callee, ready>>
      BY <1>3, <2>1 DEF Start, Causes
    <3> QED BY <3>1, DieTies
  <2>2. CASE ~Taken(Port[p])
    <3>1. /\ Goto(p, "listening") /\ "listening" \in States \ {"gone"} /\ at[p] = "off"
          /\ UNCHANGED <<callee, file, ready>>
      BY <1>3, <2>2 DEF Start, States
    <3>2. ready[p] = {}
      BY <3>1 DEF Ties, Tied
    <3> QED BY <3>1, <3>2, GotoTies
  <2> QED BY <2>1, <2>2
<1>4. ASSUME NEW p \in Peers, Connect(p) PROVE Ties'
  <2>1. CASE server # "up"
    <3>1. Die(p, "connect") /\ "connect" \in Causes \ {"none"} /\ at[p] # "gone"
          /\ UNCHANGED <<callee, ready>>
      BY <1>4, <2>1 DEF Connect, Causes
    <3> QED BY <3>1, DieTies
  <2>2. CASE server = "up"
    <3>1. /\ Goto(p, "connected") /\ "connected" \in States \ {"gone"} /\ at[p] = "listening"
          /\ UNCHANGED <<callee, file, ready>>
      BY <1>4, <2>2 DEF Connect, States
    <3>2. ready[p] = {}
      BY <3>1 DEF Ties, Tied
    <3> QED BY <3>1, <3>2, GotoTies
  <2> QED BY <2>1, <2>2
<1>5. ASSUME NEW p \in Peers, Register(p) PROVE Ties'
  <2>1. /\ Goto(p, "idle") /\ "idle" \in States \ {"gone"} /\ at[p] = "connected"
        /\ UNCHANGED <<callee, file, ready>>
    BY <1>5 DEF Register, States
  <2>2. ready[p] = {}
    BY <2>1 DEF Ties, Tied
  <2> QED BY <2>1, <2>2, GotoTies
<1>6. ASSUME NEW p \in Peers, Ask(p) PROVE Ties'
  <2>1. CASE link[p] = "broken"
    <3>1. Die(p, "sigpipe") /\ "sigpipe" \in Causes \ {"none"} /\ at[p] # "gone"
          /\ UNCHANGED <<callee, ready>>
      BY <1>6, <2>1 DEF Ask, Causes
    <3> QED BY <3>1, DieTies
  <2>2. CASE link[p] # "broken"
    <3>1. /\ Goto(p, "asking") /\ "asking" \in States \ {"gone"} /\ at[p] = "idle"
          /\ UNCHANGED <<callee, file, ready>>
      BY <1>6, <2>2 DEF Ask, States
    <3>2. ready[p] = {}
      BY <3>1 DEF Ties, Tied
    <3> QED BY <3>1, <3>2, GotoTies
  <2> QED BY <2>1, <2>2
<1>7. ASSUME NEW p \in Peers, Receive(p) PROVE Ties'
  <2>1. /\ Goto(p, "told") /\ "told" \in States \ {"gone"} /\ at[p] = "asking"
        /\ UNCHANGED <<callee, file, ready>>
    BY <1>7 DEF Receive, States
  <2>2. ready[p] = {}
    BY <2>1 DEF Ties, Tied
  <2> QED BY <2>1, <2>2, GotoTies
<1>8. ASSUME NEW p \in Peers, Decline(p) PROVE Ties'
  <2>1. /\ Goto(p, "idle") /\ "idle" \in States \ {"gone"} /\ at[p] = "told"
        /\ UNCHANGED <<callee, file, ready>>
    BY <1>8 DEF Decline, States
  <2>2. ready[p] = {}
    BY <2>1 DEF Ties, Tied
  <2> QED BY <2>1, <2>2, GotoTies
<1>9. ASSUME NEW p \in Peers, Kill(p) PROVE Ties'
  <2>1. Die(p, "killed") /\ "killed" \in Causes \ {"none"} /\ at[p] # "gone"
        /\ UNCHANGED <<callee, ready>>
    BY <1>9 DEF Kill, Live, Causes
  <2> QED BY <2>1, DieTies
<1>10. ASSUME NEW p \in Peers, Dial(p) PROVE Ties'
  <2>1. CASE ~Taken(fileport[p])
    <3>1. Die(p, "refused") /\ "refused" \in Causes \ {"none"} /\ at[p] # "gone"
          /\ UNCHANGED <<callee, ready>>
      BY <1>10, <2>1 DEF Dial, Causes
    <3> QED BY <3>1, DieTies
  <2>2. CASE Taken(fileport[p])
    <3>1. PICK q \in Peers : /\ callee' = [callee EXCEPT ![p] = q]
                             /\ file' = [file EXCEPT ![p] = "queued"]
                             /\ Goto(p, "dialled")
      BY <1>10, <2>2 DEF Dial
    <3>2. at[p] = "told" /\ ready' = ready /\ "dialled" \in States \ {"gone"}
      BY <1>10 DEF Dial, States
    <3>3. at'[p] = "dialled" /\ \A r \in Peers \ {p} : at'[r] = at[r]
      BY <3>1, <3>2, GotoType
    <3>4. /\ callee'[p] = q /\ \A r \in Peers \ {p} : callee'[r] = callee[r]
          /\ file'[p] = "queued" /\ \A r \in Peers \ {p} : file'[r] = file[r]
      BY <3>1 DEF TypeOK
    <3> QED BY <3>2, <3>3, <3>4 DEF Ties, Tied
  <2> QED BY <2>1, <2>2
<1>11. ASSUME NEW p \in Peers, SendFileRequest(p) PROVE Ties'
  <2>1. CASE file[p] = "reset"
    <3>1. Die(p, "file request") /\ "file request" \in Causes \ {"none"} /\ at[p] # "gone"
          /\ UNCHANGED <<callee, ready>>
      BY <1>11, <2>1 DEF SendFileRequest, Causes
    <3> QED BY <3>1, DieTies
  <2>2. CASE file[p] # "reset"
    <3>1. /\ Goto(p, "selecting") /\ "selecting" \in States \ {"gone"} /\ at[p] = "dialled"
          /\ UNCHANGED <<callee, file, ready>>
      BY <1>11, <2>2 DEF SendFileRequest, States
    <3>2. ready[p] = {}
      BY <3>1 DEF Ties, Tied
    <3> QED BY <3>1, <3>2, GotoTies
  <2> QED BY <2>1, <2>2
<1>12. ASSUME NEW p \in Peers, Select(p) PROVE Ties'
  <2> DEFINE left == (IF calls[p] # <<>> THEN {"calls"} ELSE {})
                     \cup (IF file[p] \in {"closed", "reset"} THEN {"file"} ELSE {})
  <2>1. /\ ready' = [ready EXCEPT ![p] = left] /\ Goto(p, Scan(left)) /\ at[p] = "selecting"
        /\ UNCHANGED <<callee, file>>
    BY <1>12 DEF Select
  <2>2. "file" \in left => file[p] \in {"closed", "reset"}
    OBVIOUS
  <2>3. Scan(left) \in {"accepting", "reading", "spinning"}
        /\ (Scan(left) = "reading" => "file" \in left)
    BY DEF Scan
  <2> HIDE DEF left
  <2>4. at'[p] = Scan(left) /\ \A r \in Peers \ {p} : at'[r] = at[r]
    <3>1. Scan(left) \in States \ {"gone"} /\ at[p] # "gone"
      BY <2>1, <2>3 DEF States
    <3> QED BY <2>1, <3>1, GotoType
  <2>5. ready'[p] = left /\ \A r \in Peers \ {p} : ready'[r] = ready[r]
    BY <2>1 DEF TypeOK
  <2> QED BY <2>1, <2>2, <2>3, <2>4, <2>5 DEF Ties, Tied
<1>13. ASSUME NEW p \in Peers, AcceptCall(p) PROVE Ties'
  <2>1. /\ Goto(p, "receiving") /\ "receiving" \in States \ {"gone"} /\ at[p] = "accepting"
        /\ UNCHANGED <<callee, ready>>
    BY <1>13 DEF AcceptCall, States
  <2>2. at'[p] = "receiving" /\ \A r \in Peers \ {p} : at'[r] = at[r]
    BY <2>1, GotoType
  <2>3. \A r \in Peers : file'[r] = file[r] \/ (file[r] = "queued" /\ file'[r] = "accepted")
    BY <1>13 DEF AcceptCall, TypeOK
  <2> QED BY <2>1, <2>2, <2>3 DEF Ties, Tied
<1>14. ASSUME NEW p \in Peers, ReceiveCall(p) PROVE Ties'
  <2>1. /\ at[p] = "receiving" /\ UNCHANGED <<callee, ready>>
        /\ \/ Goto(p, "reading") /\ "file" \in ready[p]
           \/ Goto(p, "accepting")
    BY <1>14 DEF ReceiveCall
  <2>2. /\ at'[p] = "accepting" \/ (at'[p] = "reading" /\ "file" \in ready[p])
        /\ \A r \in Peers \ {p} : at'[r] = at[r]
    <3>1. "reading" \in States \ {"gone"} /\ "accepting" \in States \ {"gone"}
      BY DEF States
    <3> QED BY <2>1, <3>1, GotoType
  <2>3. \A r \in Peers : file'[r] = file[r] \/ (file[r] = "accepted" /\ file'[r] = "read")
    BY <1>14 DEF ReceiveCall, TypeOK
  <2> QED BY <2>1, <2>2, <2>3 DEF Ties, Tied
<1>15. ASSUME NEW p \in Peers, ReadFile(p) PROVE Ties'
  <2>1. at[p] = "reading" /\ UNCHANGED <<callee, ready>>
    BY <1>15 DEF ReadFile
  <2>2. CASE Die(p, "file")
    <3>1. "file" \in Causes \ {"none"} /\ at[p] # "gone"
      BY <2>1 DEF Causes
    <3> QED BY <2>1, <2>2, <3>1, DieTies
  <2>3. CASE Goto(p, Scan(ready[p])) /\ file' = file /\ file[p] = "closed"
    <3>1. Scan(ready[p]) \in {"accepting", "reading", "spinning"}
      BY DEF Scan
    <3>2. Scan(ready[p]) \in States \ {"gone"} /\ at[p] # "gone"
      BY <2>1, <3>1 DEF States
    <3> QED BY <2>1, <2>3, <3>1, <3>2, GotoTies
  <2> QED BY <1>15, <2>2, <2>3 DEF ReadFile
<1>16. CASE Next
  <2>1. PICK p \in Peers :
          \/ ServerStep(p) \/ FileStep(p)
          \/ Start(p) \/ Connect(p) \/ Register(p) \/ Ask(p) \/ Receive(p) \/ Decline(p)
          \/ Dial(p) \/ Kill(p)
    BY <1>16 DEF Next
  <2>2. CASE ServerStep(p) \/ FileStep(p)
    BY <1>2, <1>11, <1>12, <1>13, <1>14, <1>15, <2>2 DEF FileStep
  <2> QED BY <1>3, <1>4, <1>5, <1>6, <1>7, <1>8, <1>9, <1>10, <2>1, <2>2
<1> QED BY <1>1, <1>16

\* What holds when p ends of itself, or is killed.
Reason(p, why) ==
    \/ why = "killed"
    \/ why = "bind" /\ at[p] = "off" /\ Taken(Port[p])
    \/ why = "connect" /\ server # "up"
    \/ why = "sigpipe" /\ link[p] = "broken"
    \/ why = "refused" /\ at[p] = "told" /\ ~Taken(fileport[p])
    \/ why = "file request" /\ file[p] = "reset"
    \/ why = "file" /\ at[p] = "reading"

\* What has been written down of the peers that are gone stays as it is.
Lasting ==
    /\ \A p \in Peers : /\ at[p] = "gone" => at'[p] = "gone"
                        /\ at[p] # "off" => at'[p] # "off"
                        /\ cause[p] # "none" => /\ fileport'[p] = fileport[p]
                                                /\ callee'[p] = callee[p]
    /\ server = "exited" => server' = "exited"
    /\ Entries \subseteq Entries'

LEMMA StepLasts ==
    ASSUME TypeOK, [Next]_vars
    PROVE  /\ Lasting
           /\ \A p \in Peers :
                \/ cause'[p] = cause[p]
                \/ /\ cause[p] = "none" /\ Reason(p, cause'[p])
                   /\ UNCHANGED <<fileport, callee>>
<1> DEFINE Motive(p) == \/ cause'[p] = cause[p]
                       \/ /\ cause[p] = "none" /\ Reason(p, cause'[p])
                          /\ UNCHANGED <<fileport, callee>>
<1> SUFFICES Lasting /\ \A p \in Peers : Motive(p)
  OBVIOUS
<1> HIDE DEF Motive
<1> USE DEF serverVars, wireVars, askVars, fileVars
<1>0. \A q \in Peers : at[q] = "gone" <=> cause[q] # "none"
  BY DEF TypeOK
<1>1. ASSUME UNCHANGED <<at, cause, fileport, callee>>, Entries \subseteq Entries',
             server = "exited" => server' = "exited"
      PROVE  Lasting /\ \A q \in Peers : Motive(q)
  BY <1>1 DEF Lasting, Motive
<1>2. ASSUME NEW p \in Peers, NEW where \in States \ {"gone", "off"}, Goto(p, where),
             at[p] # "gone",
             \A q \in Peers \ {p} : fileport'[q] = fileport[q] /\ callee'[q] = callee[q],
             UNCHANGED <<head, server>>
      PROVE  Lasting /\ \A q \in Peers : Motive(q)
  <2>1. at'[p] = where /\ \A q \in Peers \ {p} : at'[q] = at[q]
    BY <1>2, GotoType
  <2>2. cause' = cause /\ Entries' = Entries
    BY <1>2 DEF Goto, Entries
  <2> QED BY <1>0, <1>2, <2>1, <2>2 DEF Lasting, Motive
<1>3. ASSUME NEW p \in Peers, NEW why \in Causes \ {"none"}, Die(p, why), at[p] # "gone",
             Reason(p, why), UNCHANGED <<fileport, callee, head, server>>
      PROVE  Lasting /\ \A q \in Peers : Motive(q)
  <2>1. /\ at'[p] = "gone" /\ \A q \in Peers \ {p} : at'[q] = at[q]
        /\ cause'[p] = why /\ \A q \in Peers \ {p} : cause'[q] = cause[q]
    BY <1>3, DieType, Zenon
  <2>2. Entries' = Entries
    BY <1>3 DEF Entries
  <2>3. Motive(p)
    BY <1>0, <1>3, <2>1 DEF Motive
  <2> QED BY <1>0, <1>3, <2>1, <2>2, <2>3 DEF Lasting, Motive
<1>4. CASE UNCHANGED vars
  BY <1>1, <1>4 DEF vars, Entries
<1>5. ASSUME NEW p \in Peers, ServerStep(p) PROVE Lasting /\ \A q \in Peers : Motive(q)
  <2>1. CASE Store(p)
    BY <1>1, <2>1, StoreEntries DEF Store
  <2>2. CASE Accept(p) \/ LookUp(p) \/ Drop(p) \/ Fail(p)
    BY <1>1, <2>2 DEF Accept, LookUp, Drop, Fail, Entries
  <2> QED BY <1>5, <2>1, <2>2 DEF ServerStep
<1>6. {"listening", "connected", "idle", "asking", "told", "dialled", "selecting", "accepting",
       "receiving", "reading", "spinning"} \subseteq States \ {"gone", "off"}
  BY DEF States
<1>7. {"killed", "bind", "connect", "sigpipe", "refused", "file request", "file"}
        \subseteq Causes \ {"none"}
  BY DEF Causes
<1>8. ASSUME NEW p \in Peers, Start(p) PROVE Lasting /\ \A q \in Peers : Motive(q)
  <2>1. CASE Taken(Port[p])
    <3>1. /\ Die(p, "bind") /\ "bind" \in Causes \ {"none"} /\ at[p] # "gone"
          /\ Reason(p, "bind") /\ UNCHANGED <<fileport, callee, head, server>>
      BY <1>7, <1>8, <2>1 DEF Start, Reason
    <3> QED BY <1>3, <3>1
  <2>2. CASE ~Taken(Port[p])
    <3>1. /\ Goto(p, "listening") /\ at[p] # "gone" /\ "listening" \in States \ {"gone", "off"}
          /\ UNCHANGED <<fileport, callee, head, server>>
      BY <1>6, <1>8, <2>2 DEF Start
    <3> QED BY <1>2, <3>1
  <2> QED BY <2>1, <2>2
<1>9. ASSUME NEW p \in Peers, Connect(p) PROVE Lasting /\ \A q \in Peers : Motive(q)
  <2>1. CASE server # "up"
    <3>1. /\ Die(p, "connect") /\ "connect" \in Causes \ {"none"} /\ at[p] # "gone"
          /\ Reason(p, "connect") /\ UNCHANGED <<fileport, callee, head, server>>
      BY <1>7, <1>9, <2>1 DEF Connect, Reason
    <3> QED BY <1>3, <3>1
  <2>2. CASE server = "up"
    <3>1. /\ Goto(p, "connected") /\ at[p] # "gone" /\ "connected" \in States \ {"gone", "off"}
          /\ UNCHANGED <<fileport, callee, head, server>>
      BY <1>6, <1>9, <2>2 DEF Connect
    <3> QED BY <1>2, <3>1
  <2> QED BY <2>1, <2>2
<1>10. ASSUME NEW p \in Peers, Register(p) PROVE Lasting /\ \A q \in Peers : Motive(q)
  <2>1. /\ Goto(p, "idle") /\ at[p] # "gone" /\ "idle" \in States \ {"gone", "off"}
        /\ UNCHANGED <<fileport, callee, head, server>>
    BY <1>6, <1>10 DEF Register
  <2> QED BY <1>2, <2>1
<1>11. ASSUME NEW p \in Peers, Ask(p) PROVE Lasting /\ \A q \in Peers : Motive(q)
  <2>1. CASE link[p] = "broken"
    <3>1. /\ Die(p, "sigpipe") /\ "sigpipe" \in Causes \ {"none"} /\ at[p] # "gone"
          /\ Reason(p, "sigpipe") /\ UNCHANGED <<fileport, callee, head, server>>
      BY <1>7, <1>11, <2>1 DEF Ask, Reason
    <3> QED BY <1>3, <3>1
  <2>2. CASE link[p] # "broken"
    <3>1. /\ Goto(p, "asking") /\ at[p] # "gone" /\ "asking" \in States \ {"gone", "off"}
          /\ UNCHANGED <<fileport, callee, head, server>>
      BY <1>6, <1>11, <2>2 DEF Ask
    <3> QED BY <1>2, <3>1
  <2> QED BY <2>1, <2>2
<1>12. ASSUME NEW p \in Peers, Receive(p) PROVE Lasting /\ \A q \in Peers : Motive(q)
  <2>1. /\ Goto(p, "told") /\ at[p] # "gone" /\ "told" \in States \ {"gone", "off"}
        /\ UNCHANGED <<callee, head, server>>
        /\ \A q \in Peers \ {p} : fileport'[q] = fileport[q]
    BY <1>6, <1>12 DEF Receive, TypeOK
  <2> QED BY <1>2, <2>1
<1>13. ASSUME NEW p \in Peers, Decline(p) PROVE Lasting /\ \A q \in Peers : Motive(q)
  <2>1. /\ Goto(p, "idle") /\ at[p] # "gone" /\ "idle" \in States \ {"gone", "off"}
        /\ UNCHANGED <<fileport, callee, head, server>>
    BY <1>6, <1>13 DEF Decline
  <2> QED BY <1>2, <2>1
<1>14. ASSUME NEW p \in Peers, Kill(p) PROVE Lasting /\ \A q \in Peers : Motive(q)
  <2>1. /\ Die(p, "killed") /\ "killed" \in Causes \ {"none"} /\ at[p] # "gone"
        /\ Reason(p, "killed") /\ UNCHANGED <<fileport, callee, head, server>>
    BY <1>7, <1>14 DEF Kill, Live, Reason
  <2> QED BY <1>3, <2>1
<1>15. ASSUME NEW p \in Peers, Dial(p) PROVE Lasting /\ \A q \in Peers : Motive(q)
  <2>1. CASE ~Taken(fileport[p])
    <3>1. /\ Die(p, "refused") /\ "refused" \in Causes \ {"none"} /\ at[p] # "gone"
          /\ Reason(p, "refused") /\ UNCHANGED <<fileport, callee, head, server>>
      BY <1>7, <1>15, <2>1 DEF Dial, Reason
    <3> QED BY <1>3, <3>1
  <2>2. CASE Taken(fileport[p])
    <3>1. PICK q \in Peers : callee' = [callee EXCEPT ![p] = q] /\ Goto(p, "dialled")
      BY <1>15, <2>2 DEF Dial
    <3>2. /\ at[p] # "gone" /\ "dialled" \in States \ {"gone", "off"}
          /\ UNCHANGED <<fileport, head, server>>
      BY <1>6, <1>15 DEF Dial
    <3>3. \A r \in Peers \ {p} : callee'[r] = callee[r]
      BY <3>1 DEF TypeOK
    <3> QED BY <1>2, <3>1, <3>2, <3>3
  <2> QED BY <2>1, <2>2
<1>16. ASSUME NEW p \in Peers, SendFileRequest(p) PROVE Lasting /\ \A q \in Peers : Motive(q)
  <2>1. CASE file[p] = "reset"
    <3>1. /\ Die(p, "file request") /\ "file request" \in Causes \ {"none"} /\ at[p] # "gone"
          /\ Reason(p, "file request") /\ UNCHANGED <<fileport, callee, head, server>>
      BY <1>7, <1>16, <2>1 DEF SendFileRequest, Reason
    <3> QED BY <1>3, <3>1
  <2>2. CASE file[p] # "reset"
    <3>1. /\ Goto(p, "selecting") /\ at[p] # "gone" /\ "selecting" \in States \ {"gone", "off"}
          /\ UNCHANGED <<fileport, callee, head, server>>
      BY <1>6, <1>16, <2>2 DEF SendFileRequest
    <3> QED BY <1>2, <3>1
  <2> QED BY <2>1, <2>2
<1>17. ASSUME NEW p \in Peers, Select(p) PROVE Lasting /\ \A q \in Peers : Motive(q)
  <2>1. PICK left \in SUBSET {"calls", "file"} : Goto(p, Scan(left))
    BY <1>17 DEF Select
  <2>2. Scan(left) \in States \ {"gone", "off"}
    BY <1>6 DEF Scan
  <2>3. at[p] # "gone" /\ UNCHANGED <<fileport, callee, head, server>>
    BY <1>17 DEF Select
  <2> QED BY <1>2, <2>1, <2>2, <2>3
<1>18. ASSUME NEW p \in Peers, AcceptCall(p) PROVE Lasting /\ \A q \in Peers : Motive(q)
  <2>1. /\ Goto(p, "receiving") /\ at[p] # "gone" /\ "receiving" \in States \ {"gone", "off"}
        /\ UNCHANGED <<fileport, callee, head, server>>
    BY <1>6, <1>18 DEF AcceptCall
  <2> QED BY <1>2, <2>1
<1>19. ASSUME NEW p \in Peers, ReceiveCall(p) PROVE Lasting /\ \A q \in Peers : Motive(q)
  <2>1. PICK where \in {"reading", "accepting"} : Goto(p, where)
    BY <1>19 DEF ReceiveCall
  <2>2. /\ at[p] # "gone" /\ where \in States \ {"gone", "off"}
        /\ UNCHANGED <<fileport, callee, head, server>>
    BY <1>6, <1>19 DEF ReceiveCall
  <2> QED BY <1>2, <2>1, <2>2
<1>20. ASSUME NEW p \in Peers, ReadFile(p) PROVE Lasting /\ \A q \in Peers : Motive(q)
  <2>1. at[p] = "reading" /\ UNCHANGED <<fileport, callee, head, server>>
    BY <1>20 DEF ReadFile
  <2>2. CASE Die(p, "file")
    <3>1. "file" \in Causes \ {"none"} /\ Reason(p, "file") /\ at[p] # "gone"
      BY <1>7, <2>1 DEF Reason
    <3> QED BY <1>3, <2>1, <2>2, <3>1
  <2>3. CASE Goto(p, Scan(ready[p]))
    <3>1. Scan(ready[p]) \in States \ {"gone", "off"} /\ at[p] # "gone"
      BY <1>6, <2>1 DEF Scan
    <3> QED BY <1>2, <2>1, <2>3, <3>1
  <2> QED BY <1>20, <2>2, <2>3 DEF ReadFile
<1>21. CASE Next
  <2>1. PICK p \in Peers :
          \/ ServerStep(p) \/ FileStep(p)
          \/ Start(p) \/ Connect(p) \/ Register(p) \/ Ask(p) \/ Receive(p) \/ Decline(p)
          \/ Dial(p) \/ Kill(p)
    BY <1>21 DEF Next
  <2>2. CASE ServerStep(p)
    BY <1>5, <2>2
  <2>3. CASE FileStep(p)
    BY <1>16, <1>17, <1>18, <1>19, <1>20, <2>3 DEF FileStep
  <2> QED BY <1>8, <1>9, <1>10, <1>11, <1>12, <1>13, <1>14, <1>15, <2>1, <2>2, <2>3
<1> QED BY <1>4, <1>21

\* The reason is still there to be seen when the peer has gone.
Explained ==
    /\ EndsExplained
    /\ \A p \in Peers : cause[p] \in {"file request", "file"} => callee[p] \in Peers

LEMMA NextExplained == Inv /\ Ties /\ Explained /\ [Next]_vars => Explained'
<1> SUFFICES ASSUME Inv, Ties, Explained, [Next]_vars, NEW p \in Peers
             PROVE  /\ cause'[p] = "bind"
                         => \E q \in Peers \ {p} : at'[q] # "off" /\ Port[q] = Port[p]
                    /\ cause'[p] \in {"connect", "sigpipe"} => server' = "exited"
                    /\ cause'[p] = "refused" =>
                         \/ fileport'[p] = 0 \/ server' = "exited"
                         \/ \E q \in Departed' : Port[q] = fileport'[p]
                    /\ cause'[p] \in {"file request", "file"}
                         => callee'[p] \in Peers /\ at'[callee'[p]] = "gone"
  BY DEF EndsExplained, Explained
<1>1. Lasting /\ TypeOK /\ server \in {"up", "exited"}
  BY StepLasts DEF Inv, TypeOK
<1>2. \A q \in Departed : q \in Peers /\ q \in Departed'
  <2>1. \A q \in Entries : q \in Peers
    BY <1>1 DEF TypeOK, Entries
  <2> QED BY <1>1, <2>1 DEF Departed, Lasting
<1>4. CASE cause'[p] = cause[p]
  <2>1. /\ cause[p] = "bind" => \E q \in Peers \ {p} : at[q] # "off" /\ Port[q] = Port[p]
        /\ cause[p] \in {"connect", "sigpipe"} => server = "exited"
        /\ cause[p] = "refused" => \/ fileport[p] = 0 \/ server = "exited"
                                   \/ \E q \in Departed : Port[q] = fileport[p]
        /\ cause[p] \in {"file request", "file"}
             => callee[p] \in Peers /\ at[callee[p]] = "gone"
    BY DEF EndsExplained, Explained
  <2> QED BY <1>1, <1>2, <1>4, <2>1 DEF Lasting
<1>5. CASE cause'[p] # cause[p]
  <2>1. cause[p] = "none" /\ Reason(p, cause'[p]) /\ UNCHANGED <<fileport, callee>>
    BY <1>1, <1>5, StepLasts
  <2>2. CASE cause'[p] = "bind"
    <3>1. PICK q \in Peers : Live(q) /\ Port[q] = Port[p]
      BY <2>1, <2>2 DEF Reason, Taken
    <3>2. at[p] = "off"
      BY <2>1, <2>2 DEF Reason
    <3>3. q \in Peers \ {p} /\ at'[q] # "off"
      BY <1>1, <3>1, <3>2 DEF Live, Lasting
    <3> QED BY <2>2, <3>1, <3>3
  <2>3. CASE cause'[p] = "connect"
    BY <1>1, <2>1, <2>3 DEF Reason, Lasting
  <2>4. CASE cause'[p] = "sigpipe"
    <3>1. link[p] = "broken" /\ Stage(p)
      BY <2>1, <2>4 DEF Reason, Inv, Stages
    <3>2. server # "up"
      BY <3>1 DEF Stage
    <3> QED BY <1>1, <2>4, <3>2 DEF Lasting
  <2>5. CASE cause'[p] = "refused"
    <3>1. at[p] = "told" /\ ~Taken(fileport[p]) /\ Answer(p)
      BY <2>1, <2>5 DEF Reason, Inv, Answers
    <3>2. CASE server = "exited"
      BY <1>1, <2>5, <3>2 DEF Lasting
    <3>3. CASE fileport[p] = 0
      BY <2>1, <2>5, <3>3
    <3>4. CASE server = "up" /\ fileport[p] # 0
      <4>1. PICK q \in Entries : Port[q] = fileport[p]
        BY <3>1, <3>4 DEF Answer, Good
      <4>2. q \in Peers
        BY <1>1 DEF TypeOK, Entries
      <4>3. at[q] # "off"
        BY <4>1, <4>2 DEF Inv, Stages, Stage
      <4>4. q \in Departed
        BY <3>1, <3>4, <4>1, <4>2, <4>3 DEF Taken, Live, Departed
      <4> QED BY <1>2, <2>1, <2>5, <4>1, <4>4
    <3> QED BY <1>1, <3>2, <3>3, <3>4
  <2>6. CASE cause'[p] \in {"file request", "file"}
    <3>1. file[p] \in {"closed", "reset"}
      BY <2>1, <2>6 DEF Reason, Ties, Tied
    <3>2. callee[p] \in Peers /\ at[callee[p]] = "gone"
      BY <3>1 DEF Ties, Tied
    <3> QED BY <1>1, <2>1, <2>6, <3>2 DEF Lasting
  <2>7. CASE cause'[p] = "killed"
    BY <2>7
  <2> QED BY <2>1, <2>2, <2>3, <2>4, <2>5, <2>6, <2>7 DEF Reason
<1> QED BY <1>4, <1>5

\* errorrep() (peer.c:55, 145, 192, 201, 246) and SIGPIPE are the end of a peer only when
\* a port is used twice, the server has gone, nobody has the file or who had it has gone,
\* or the peer it is connected to has.
THEOREM EndsAreExplained == Spec => []EndsExplained
<1>1. Init => Ties
  BY DEF Init, Ties, Tied
<1>2. Init => Explained
  BY DEF Init, Explained, EndsExplained
<1>3. Inv /\ Ties /\ [Next]_vars => Ties'
  BY NextTies DEF Inv
<1>4. Inv /\ Ties /\ Explained /\ [Next]_vars => Explained'
  BY NextExplained
<1>5. Explained => EndsExplained
  BY DEF Explained
<1> QED BY <1>1, <1>2, <1>3, <1>4, <1>5, Invariant, PTL DEF Spec

-----------------------------------------------------------------------------
(* The server implements Directory *)

\* The name that waits in a socket, and those of all peers.
LastName(box) == IF box # <<>> /\ box[Len(box)] \in Names THEN box[Len(box)] ELSE NoName
Wishes == [p \in Peers |-> LastName(inbox[p])]

LEMMA LastNameIs ==
    ASSUME NEW name \in Names \cup {NoName}, NEW box \in Seq(Names \cup {Registration})
    PROVE  /\ box \in {<<>>, <<Registration>>} => LastName(box) = NoName
           /\ box \in {<<name>>, <<Registration, name>>} => LastName(box) = name /\ name \in Names
<1>1. Registration \notin Names /\ NoName \notin Names /\ name # Registration
  BY NamesAssumption
<1>2. CASE box = <<>>
  <2>1. box # <<name>> /\ box # <<Registration, name>>
    BY <1>2
  <2> QED BY <1>2, <2>1 DEF LastName
<1>3. CASE box = <<Registration>>
  <2>1. box # <<name>> /\ box # <<Registration, name>>
    BY <1>1, <1>3
  <2>2. Len(box) = 1 /\ box[1] = Registration
    BY <1>3
  <2>3. box[Len(box)] = Registration
    BY <2>2
  <2>4. LastName(box) = NoName
    BY ONLY <1>1, <2>3 DEF LastName
  <2> QED BY <2>1, <2>4
<1>4. CASE box = <<name>> \/ box = <<Registration, name>>
  <2>1. box # <<>> /\ box # <<Registration>>
    BY <1>1, <1>4
  <2>2. box[Len(box)] = name
    <3>1. CASE box = <<name>>
      <4>1. Len(box) = 1 /\ box[1] = name
        BY <3>1
      <4> QED BY <4>1
    <3>2. CASE box = <<Registration, name>>
      <4>1. Len(box) = 2 /\ box[2] = name
        BY <3>2
      <4> QED BY <4>1
    <3> QED BY <1>4, <3>1, <3>2
  <2>3. name \in Names
    <3>1. Len(box) \in 1..Len(box)
      BY <2>1
    <3>2. box[Len(box)] \in Names \cup {Registration}
      BY <3>1
    <3> QED BY <1>1, <2>2, <3>2
  <2>4. LastName(box) = name
    BY ONLY <2>1, <2>2, <2>3 DEF LastName
  <2> QED BY <2>1, <2>3, <2>4
<1> QED BY <1>2, <1>3, <1>4

\* What only one peer's socket can change.
LEMMA WishesOf ==
    ASSUME NEW p \in Peers, \A q \in Peers \ {p} : inbox'[q] = inbox[q]
    PROVE  Wishes' = [Wishes EXCEPT ![p] = LastName(inbox'[p])]
<1>1. \A q \in Peers \ {p} : LastName(inbox'[q]) = LastName(inbox[q])
  OBVIOUS
<1> QED BY <1>1 DEF Wishes

Registers(p) == Entries' = Entries \cup {p} /\ UNCHANGED <<Wishes, sent>>
Requests(p) ==
    /\ Wishes[p] = NoName
    /\ \E n \in Names : Wishes' = [Wishes EXCEPT ![p] = n]
    /\ UNCHANGED <<Entries, sent>>
Finds(p) ==
    /\ Wishes[p] # NoName
    /\ Wishes' = [Wishes EXCEPT ![p] = NoName]
    /\ \E port \in Ports :
        /\ Good(port, Wishes[p])
        /\ port = 0 => \/ \A q \in Entries : Wishes[p] \notin Listed[q]
                      \/ \E q \in Entries : Port[q] = 0
        /\ sent' = [sent EXCEPT ![p] = port]
    /\ UNCHANGED Entries
Nothing == UNCHANGED <<Entries, Wishes, sent>>

LEMMA Simulation ==
    ASSUME Inv, Inv', [Next]_vars
    PROVE  Nothing \/ \E p \in Peers : Registers(p) \/ Requests(p) \/ Finds(p)
<1> USE DEF serverVars, wireVars, askVars, fileVars
<1>0. TypeOK /\ TypeOK' /\ \A p \in Peers : Stage(p)
  BY DEF Inv, Stages
<1>1. ASSUME inbox' = inbox, head' = head, sent' = sent PROVE Nothing
  BY <1>1 DEF Nothing, Wishes, Entries
<1>2. ASSUME NEW p \in Peers
      PROVE  /\ asked[p] \in Names \cup {NoName} /\ asked'[p] \in Names \cup {NoName}
             /\ inbox[p] \in Seq(Names \cup {Registration})
             /\ inbox'[p] \in Seq(Names \cup {Registration})
  BY <1>0 DEF TypeOK
<1>3. ASSUME NEW p \in Peers, Store(p) PROVE Registers(p)
  <2>1. Entries' = Entries \cup {p} /\ sent' = sent
    BY <1>0, <1>3, StoreEntries DEF Store
  <2>2. /\ inbox[p] # <<>> /\ Head(inbox[p]) = Registration /\ inbox[p] \in Boxes(p)
        /\ inbox' = [inbox EXCEPT ![p] = Tail(inbox[p])]
    BY <1>0, <1>3 DEF Store, Stage
  <2>3. \/ inbox[p] = <<Registration>> /\ inbox'[p] = <<>>
        \/ inbox[p] = <<Registration, asked[p]>> /\ inbox'[p] = <<asked[p]>>
    BY <1>0, <2>2, TailBox
  <2>4. \A q \in Peers \ {p} : inbox'[q] = inbox[q]
    BY <1>0, <2>2, TailBox
  <2>5. LastName(inbox'[p]) = LastName(inbox[p])
    BY <1>2, <2>3, LastNameIs
  <2>6. Wishes' = [Wishes EXCEPT ![p] = LastName(inbox'[p])]
    BY <2>4, WishesOf
  <2> QED BY <2>1, <2>5, <2>6 DEF Registers, Wishes
<1>4. ASSUME NEW p \in Peers, LookUp(p) PROVE Finds(p)
  <2>1. /\ inbox[p] # <<>> /\ Head(inbox[p]) \in Names /\ inbox[p] \in Boxes(p)
        /\ inbox' = [inbox EXCEPT ![p] = Tail(inbox[p])] /\ Entries' = Entries
        /\ sent' = [sent EXCEPT ![p] = Find(Head(inbox[p]))]
    BY <1>0, <1>4 DEF LookUp, Stage, Entries
  <2>2. /\ inbox[p] = <<asked[p]>> /\ asked[p] \in Names /\ inbox'[p] = <<>>
        /\ Head(inbox[p]) = asked[p]
    BY <1>0, <2>1, TailBox
  <2>3. \A q \in Peers \ {p} : inbox'[q] = inbox[q]
    BY <1>0, <2>1, TailBox
  <2>4. LastName(inbox[p]) = asked[p] /\ LastName(inbox'[p]) = NoName
    BY <1>2, <2>2, LastNameIs
  <2>5. Wishes' = [Wishes EXCEPT ![p] = NoName]
    BY <2>3, <2>4, WishesOf
  <2>6. Wishes[p] = asked[p] /\ asked[p] # NoName
    BY <2>2, <2>4, NamesAssumption DEF Wishes
  <2>7. /\ Find(asked[p]) \in Ports /\ Good(Find(asked[p]), asked[p])
        /\ Find(asked[p]) = 0 => \/ \A q \in Entries : asked[p] \notin Listed[q]
                                \/ \E q \in Entries : Port[q] = 0
    BY <1>0, <2>2, FindFacts DEF TypeOK
  <2> QED BY <2>1, <2>2, <2>5, <2>6, <2>7 DEF Finds
<1>5. ASSUME NEW p \in Peers, Register(p) PROVE Nothing
  <2>1. at[p] = "connected" /\ Send(p, Registration) /\ sent' = sent /\ Entries' = Entries
    BY <1>5 DEF Register, Entries
  <2>2. inbox[p] = <<>>
    BY <1>0, <2>1 DEF Stage
  <2>3. inbox'[p] \in {<<>>, <<Registration>>} /\ \A q \in Peers \ {p} : inbox'[q] = inbox[q]
    <3>1. Append(<<>>, Registration) = <<Registration>>
      OBVIOUS
    <3> QED BY <1>0, <2>1, <2>2, <3>1 DEF Send, TypeOK
  <2>4. LastName(inbox'[p]) = NoName /\ LastName(inbox[p]) = NoName
    BY <1>2, <2>2, <2>3, LastNameIs
  <2>5. Wishes' = [Wishes EXCEPT ![p] = LastName(inbox'[p])]
    BY <2>3, WishesOf
  <2> QED BY <2>1, <2>4, <2>5 DEF Nothing, Wishes
<1>6. ASSUME NEW p \in Peers, Ask(p) PROVE Nothing \/ Requests(p)
  <2>1. at[p] = "idle" /\ sent' = sent /\ head' = head /\ Entries' = Entries
    BY <1>6 DEF Ask, Entries
  <2>2. CASE link[p] # "up"
    <3>1. inbox' = inbox
      BY <1>6, <2>2 DEF Ask, Send
    <3> QED BY <1>1, <2>1, <3>1
  <2>3. CASE link[p] = "up"
    <3>1. PICK n \in Names : Send(p, n)
      BY <1>6, <2>3 DEF Ask
    <3>2. inbox'[p] = Append(inbox[p], n) /\ \A q \in Peers \ {p} : inbox'[q] = inbox[q]
      BY <1>0, <2>3, <3>1 DEF Send, TypeOK
    <3>3. inbox[p] \in {<<>>, <<Registration>>}
      BY <1>0, <2>1, <2>3 DEF Stage, Settled
    <3>4. inbox'[p] \in {<<n>>, <<Registration, n>>}
      <4>1. Append(<<>>, n) = <<n>>
        OBVIOUS
      <4>2. Append(<<Registration>>, n) = <<Registration, n>>
        <5>1. Registration \in Names \cup {Registration} /\ n \in Names \cup {Registration}
          OBVIOUS
        <5> QED BY <5>1, AppendSecond, Zenon
      <4>3. CASE inbox[p] = <<>>
        BY <3>2, <4>1, <4>3
      <4>4. CASE inbox[p] = <<Registration>>
        BY <3>2, <4>2, <4>4
      <4> QED BY <3>3, <4>3, <4>4
    <3>5. LastName(inbox[p]) = NoName
      BY <1>2, <3>3, LastNameIs
    <3>6. LastName(inbox'[p]) = n
      BY <1>2, <3>4, LastNameIs
    <3>7. Wishes' = [Wishes EXCEPT ![p] = LastName(inbox'[p])]
      BY <3>2, WishesOf
    <3> QED BY <2>1, <3>5, <3>6, <3>7 DEF Requests, Wishes
  <2> QED BY <2>2, <2>3
<1>7. ASSUME NEW p \in Peers,
             \/ Accept(p) \/ Drop(p) \/ Fail(p) \/ FileStep(p)
             \/ Start(p) \/ Connect(p) \/ Receive(p) \/ Decline(p) \/ Dial(p) \/ Kill(p)
      PROVE  Nothing
  <2>1. CASE Accept(p) \/ Drop(p) \/ Fail(p)
    BY <1>1, <2>1 DEF Accept, Drop, Fail
  <2>2. CASE SendFileRequest(p) \/ Select(p) \/ AcceptCall(p) \/ ReceiveCall(p) \/ ReadFile(p)
    BY <1>1, <2>2 DEF SendFileRequest, Select, AcceptCall, ReceiveCall, ReadFile
  <2>3. CASE Start(p) \/ Connect(p) \/ Receive(p) \/ Decline(p) \/ Dial(p) \/ Kill(p)
    BY <1>1, <2>3 DEF Start, Connect, Receive, Decline, Dial, Kill
  <2> QED BY <1>7, <2>1, <2>2, <2>3 DEF FileStep
<1>8. CASE UNCHANGED vars
  BY <1>1, <1>8 DEF vars
<1>9. CASE Next
  <2>1. PICK p \in Peers :
          \/ ServerStep(p) \/ FileStep(p)
          \/ Start(p) \/ Connect(p) \/ Register(p) \/ Ask(p) \/ Receive(p) \/ Decline(p)
          \/ Dial(p) \/ Kill(p)
    BY <1>9 DEF Next
  <2>2. CASE Store(p) \/ LookUp(p) \/ Register(p) \/ Ask(p)
    BY <1>3, <1>4, <1>5, <1>6, <2>2
  <2>3. CASE ~(Store(p) \/ LookUp(p) \/ Register(p) \/ Ask(p))
    <3>1. \/ Accept(p) \/ Drop(p) \/ Fail(p) \/ FileStep(p)
          \/ Start(p) \/ Connect(p) \/ Receive(p) \/ Decline(p) \/ Dial(p) \/ Kill(p)
      BY <2>1, <2>3, Zenon DEF ServerStep
    <3> QED BY <1>7, <3>1, Zenon
  <2> QED BY <2>2, <2>3
<1> QED BY <1>8, <1>9

\* The steps of Directory, under the refinement mapping.
LEMMA DirectoryStep ==
    ASSUME Nothing \/ \E p \in Peers : Registers(p) \/ Requests(p) \/ Finds(p)
    PROVE  [DirectorySpec!Next]_<<Entries, Wishes, sent>>
<1>1. CASE Nothing
  BY <1>1 DEF Nothing
<1>2. ASSUME NEW p \in Peers, Registers(p) PROVE DirectorySpec!Next
  BY <1>2 DEF Registers, Wishes, LastName, DirectorySpec!Next, DirectorySpec!Register
<1>3. ASSUME NEW p \in Peers, Requests(p) PROVE DirectorySpec!Next
  BY <1>3 DEF Requests, Wishes, LastName, DirectorySpec!Next, DirectorySpec!Request
<1>4. ASSUME NEW p \in Peers, Finds(p) PROVE DirectorySpec!Next
  <2>1. PICK port \in Ports :
          /\ Good(port, Wishes[p])
          /\ port = 0 => \/ \A q \in Entries : Wishes[p] \notin Listed[q]
                        \/ \E q \in Entries : Port[q] = 0
          /\ sent' = [sent EXCEPT ![p] = port]
    BY <1>4 DEF Finds
  <2>2. DirectorySpec!Having(Wishes[p]) = {q \in Entries : Wishes[p] \in Listed[q]}
    BY DEF DirectorySpec!Having
  <2>3. port \in {Port[q] : q \in DirectorySpec!Having(Wishes[p])} \cup {0}
    BY <2>1, <2>2 DEF Good
  <2>4. port = 0 => DirectorySpec!Having(Wishes[p]) = {} \/ DirectorySpec!Hidden
    BY <2>1, <2>2 DEF DirectorySpec!Hidden
  <2>5. Wishes[p] # NoName /\ Wishes' = [Wishes EXCEPT ![p] = NoName] /\ UNCHANGED Entries
    BY <1>4 DEF Finds
  <2>6. DirectorySpec!Answer(p)
    BY <2>1, <2>3, <2>4, <2>5 DEF DirectorySpec!Answer, Wishes, LastName
  <2> QED BY <2>6 DEF DirectorySpec!Next
<1> QED BY <1>1, <1>2, <1>3, <1>4

\* server.c implements Directory: a peer that looks for a file is told the port of a
\* registered peer that has it, and 0 only if there is none or an entry without a port
\* hides the rest of the table.
THEOREM ImplementsTheDirectory == Spec => ImplementsDirectory
<1>1. Init => DirectorySpec!Init
  <2> SUFFICES ASSUME Init PROVE DirectorySpec!Init
    OBVIOUS
  <2>1. Entries = {} /\ sent = [p \in Peers |-> NoPort]
    BY DEF Init, Entries
  <2>2. Wishes = [p \in Peers |-> NoName]
    BY DEF Init, Wishes, LastName
  <2> QED BY <2>1, <2>2 DEF DirectorySpec!Init, Wishes, LastName
<1>2. Inv /\ Inv' /\ [Next]_vars => [DirectorySpec!Next]_<<Entries, Wishes, sent>>
  BY Simulation, DirectoryStep
<1>3. Inv /\ Inv' /\ [Next]_vars
        => [DirectorySpec!Next]_<<Entries,
             [p \in Peers |-> IF inbox[p] # <<>> /\ inbox[p][Len(inbox[p])] \in Names
                              THEN inbox[p][Len(inbox[p])] ELSE NoName], sent>>
  BY <1>2 DEF Wishes, LastName
<1> QED BY <1>1, <1>3, Invariant, PTL DEF Spec, ImplementsDirectory, DirectorySpec!Spec

=============================================================================
