--------------------------- MODULE ProxyMeshProofs ---------------------------
(***************************************************************************)
(* Proofs about ProxyMesh: what the threads of a peer can do to the file   *)
(* they share, for any number of peers, any words and any buffer size.     *)
(***************************************************************************)
EXTENDS ProxyMesh, TLAPS

Started(c) == in[c] \in {"open", "closed"}

\* A thread that has not opened the file has nothing to do with it.
NotStarted ==
    \A c \in Links : ~Started(c) =>
        start[c] = 0 /\ printed[c] = <<>> /\ flushed[c] = 0 /\ shared[c] = {}

\* A connection that is not there yet has no thread at the other side.
Unconnected == \A c \in Links : out[c] = "connect" => in[c] = "none"

\* To share a file is mutual, and of threads of one peer.
Mutual ==
    \A c, d \in Links : d \in shared[c] =>
        /\ c # d /\ Dst(c) = Dst(d) /\ c \in shared[d]
        /\ Started(c) /\ Started(d)

\* c is over, and all it has written is in front of where d began.
Before(c, d) == in[c] = "closed" /\ start[c] + flushed[c] <= start[d]

\* Two threads that did not share the file had it one after the other.
Ordered ==
    \A c, d \in Links :
        c # d /\ Dst(c) = Dst(d) /\ Started(c) /\ Started(d) /\ d \notin shared[c]
            => Before(c, d) \/ Before(d, c)

\* Threads begin behind what was in the file at the start.
OldFirst ==
    /\ \A p \in Peers : Len(Old[p]) <= Len(file[p])
    /\ \A c \in Links : Started(c) => Len(Old[Dst(c)]) <= start[c]

Inv == TypeOK /\ Unconnected /\ NotStarted /\ Mutual /\ Ordered /\ OldFirst
       /\ LostToOverlapOnly /\ NothingStrange

-----------------------------------------------------------------------------
(* What write() at an offset does. *)

LEMMA WrittenIsSeq ==
    ASSUME NEW S, NEW old \in Seq(S), NEW ws \in Seq(S), NEW pos \in 0..Len(old)
    PROVE  /\ Written(old, pos, ws) \in Seq(S)
           /\ Len(old) <= Len(Written(old, pos, ws))
           /\ pos + Len(ws) <= Len(Written(old, pos, ws))
           /\ \A i \in 1..Len(ws) : Written(old, pos, ws)[pos + i] = ws[i]
           /\ \A i \in 1..Len(old) :
                i \notin pos + 1 .. pos + Len(ws) => Written(old, pos, ws)[i] = old[i]
           /\ \A i \in 1..Len(Written(old, pos, ws)) :
                i \in 1..Len(old) \/ i \in pos + 1 .. pos + Len(ws)
<1> DEFINE n == IF pos + Len(ws) > Len(old) THEN pos + Len(ws) ELSE Len(old)
           W == [i \in 1..n |-> IF i \in pos + 1 .. pos + Len(ws) THEN ws[i - pos]
                                ELSE old[i]]
<1>1. n \in Nat /\ n >= Len(old) /\ n >= pos + Len(ws)
      /\ (n = Len(old) \/ n = pos + Len(ws))
  OBVIOUS
<1>2. Written(old, pos, ws) = W
  BY DEF Written
<1> HIDE DEF n
<1>3. ASSUME NEW i \in 1..n
      PROVE  /\ W[i] \in S
             /\ i \in 1..Len(old) \/ i \in pos + 1 .. pos + Len(ws)
  BY <1>1
<1>4. W \in Seq(S) /\ Len(W) = n
  <2>1. W \in [1..n -> S]
    BY <1>3
  <2> QED BY <1>1, <2>1
<1>5. \A i \in 1..Len(ws) : W[pos + i] = ws[i]
  BY <1>1
<1>6. \A i \in 1..Len(old) : i \notin pos + 1 .. pos + Len(ws) => W[i] = old[i]
  BY <1>1
<1> QED BY <1>1, <1>2, <1>3, <1>4, <1>5, <1>6

LEMMA SubSeqFacts ==
    ASSUME NEW S, NEW s \in Seq(S), NEW m \in Nat, NEW n \in Nat, m + n <= Len(s)
    PROVE  /\ SubSeq(s, m + 1, m + n) \in Seq(S)
           /\ Len(SubSeq(s, m + 1, m + n)) = n
           /\ \A i \in 1..n : SubSeq(s, m + 1, m + n)[i] = s[m + i]
OBVIOUS

LEMMA LinksType ==
    ASSUME NEW c \in Links
    PROVE  Src(c) \in Peers /\ Dst(c) \in Peers
BY DEF Links, Src, Dst

-----------------------------------------------------------------------------
(* A write, by fprintf() or fclose(). *)

\* What the thread of c does when it writes the next n words of its buffer.
FlushStep(c, n) ==
    /\ in[c] = "open" /\ n \in 0..Buffered(c)
    /\ Flush(c, n)
    /\ in' = in \/ in' = [in EXCEPT ![c] = "closed"]
    /\ UNCHANGED <<peer, stops, sendVars, wire, start, printed, shared>>

LEMMA FlushFacts ==
    ASSUME Inv, NEW c \in Links, NEW n, FlushStep(c, n)
    PROVE  /\ file' \in [Peers -> Seq(Content)]
           /\ flushed' = [flushed EXCEPT ![c] = @ + n]
           /\ n \in Nat /\ flushed[c] + n <= Len(printed[c])
           /\ \A p \in Peers : p # Dst(c) => file'[p] = file[p]
           /\ \A p \in Peers : Len(file[p]) <= Len(file'[p])
           /\ start[c] + flushed[c] + n <= Len(file'[Dst(c)])
           /\ \A i \in flushed[c] + 1 .. flushed[c] + n :
                file'[Dst(c)][start[c] + i] = printed[c][i]
           /\ \A k \in 1..Len(file[Dst(c)]) :
                k \notin start[c] + flushed[c] + 1 .. start[c] + flushed[c] + n
                    => file'[Dst(c)][k] = file[Dst(c)][k]
           /\ \A k \in 1..Len(file'[Dst(c)]) :
                k \in 1..Len(file[Dst(c)])
                \/ k \in start[c] + flushed[c] + 1 .. start[c] + flushed[c] + n
<1> DEFINE q == Dst(c)
           pos == start[c] + flushed[c]
           ws == SubSeq(printed[c], flushed[c] + 1, flushed[c] + n)
<1>0. q \in Peers
  BY LinksType
<1>1. /\ n \in Nat /\ flushed[c] \in Nat /\ start[c] \in Nat
      /\ flushed[c] + n <= Len(printed[c])
      /\ printed[c] \in Seq(Content) /\ file[q] \in Seq(Content)
      /\ pos \in 0..Len(file[q])
  BY <1>0 DEF Inv, TypeOK, FlushStep, Buffered
<1>2. ws \in Seq(Content) /\ Len(ws) = n
      /\ \A i \in 1..n : ws[i] = printed[c][flushed[c] + i]
  <2>1. printed[c] \in Seq(Content) /\ flushed[c] \in Nat /\ n \in Nat
        /\ flushed[c] + n <= Len(printed[c])
    BY <1>1
  <2> DEFINE m == flushed[c]
             s == printed[c]
  <2> HIDE DEF m, s
  <2>2. s \in Seq(Content) /\ m \in Nat /\ n \in Nat /\ m + n <= Len(s)
    BY <2>1 DEF m, s
  <2>3. /\ SubSeq(s, m + 1, m + n) \in Seq(Content)
        /\ Len(SubSeq(s, m + 1, m + n)) = n
        /\ \A i \in 1..n : SubSeq(s, m + 1, m + n)[i] = s[m + i]
    BY <2>2, SubSeqFacts
  <2> QED BY <2>3 DEF m, s
<1>3. /\ file' = [file EXCEPT ![q] = Written(file[q], pos, ws)]
      /\ flushed' = [flushed EXCEPT ![c] = @ + n]
  BY DEF FlushStep, Flush
<1>4. file \in [Peers -> Seq(Content)] /\ file'[q] = Written(file[q], pos, ws)
      /\ \A p \in Peers : p # q => file'[p] = file[p]
  BY <1>0, <1>3 DEF Inv, TypeOK
<1> HIDE DEF q, pos, ws
<1>5. /\ file'[q] \in Seq(Content)
      /\ Len(file[q]) <= Len(file'[q])
      /\ pos + n <= Len(file'[q])
      /\ \A i \in 1..n : file'[q][pos + i] = ws[i]
      /\ \A i \in 1..Len(file[q]) : i \notin pos + 1 .. pos + n => file'[q][i] = file[q][i]
      /\ \A i \in 1..Len(file'[q]) : i \in 1..Len(file[q]) \/ i \in pos + 1 .. pos + n
  <2>1. /\ file[q] \in Seq(Content) /\ ws \in Seq(Content)
        /\ pos \in 0..Len(file[q]) /\ Len(ws) = n
    BY <1>1, <1>2
  <2> DEFINE new == Written(file[q], pos, ws)
  <2>2. /\ new \in Seq(Content)
        /\ Len(file[q]) <= Len(new)
        /\ pos + Len(ws) <= Len(new)
        /\ \A i \in 1..Len(ws) : new[pos + i] = ws[i]
        /\ \A i \in 1..Len(file[q]) :
                i \notin pos + 1 .. pos + Len(ws) => new[i] = file[q][i]
        /\ \A i \in 1..Len(new) :
                i \in 1..Len(file[q]) \/ i \in pos + 1 .. pos + Len(ws)
    BY <2>1, WrittenIsSeq, Zenon
  <2>3. file'[q] = new
    BY <1>4
  <2> HIDE DEF new
  <2> QED BY <2>1, <2>2, <2>3
<1>6. file' \in [Peers -> Seq(Content)]
  BY <1>0, <1>3, <1>4, <1>5
<1>7. \A i \in flushed[c] + 1 .. flushed[c] + n : file'[q][start[c] + i] = printed[c][i]
  <2> SUFFICES ASSUME NEW i \in flushed[c] + 1 .. flushed[c] + n
               PROVE  file'[q][start[c] + i] = printed[c][i]
    OBVIOUS
  <2>1. i - flushed[c] \in 1..n /\ pos + (i - flushed[c]) = start[c] + i
        /\ flushed[c] + (i - flushed[c]) = i
    <3>1. i \in Int /\ flushed[c] \in Int /\ start[c] \in Int /\ n \in Int
      BY <1>1
    <3> QED BY <3>1 DEF pos
  <2> QED BY <1>2, <1>5, <2>1
<1>8. \A p \in Peers : Len(file[p]) <= Len(file'[p])
  BY <1>4, <1>5
<1> QED BY <1>1, <1>3, <1>4, <1>5, <1>6, <1>7, <1>8 DEF q, pos

LEMMA Lengths ==
    ASSUME Inv, NEW p \in Peers
    PROVE  Len(file[p]) \in Nat /\ Len(Old[p]) \in Nat /\ file[p] \in Seq(Content)
<1>1. file[p] \in Seq(Content) /\ Old[p] \in Seq(Content)
  BY TextAssumption DEF Inv, TypeOK
<1> QED BY <1>1

LEMMA FlushLengths ==
    ASSUME Inv, NEW c \in Links, NEW n, FlushStep(c, n), NEW p \in Peers
    PROVE  Len(file'[p]) \in Nat
<1>1. file' \in [Peers -> Seq(Content)]
  BY FlushFacts
<1>2. file'[p] \in Seq(Content)
  BY <1>1
<1> QED BY <1>2

LEMMA LinkTypes ==
    ASSUME Inv, NEW c \in Links
    PROVE  /\ start[c] \in Nat /\ flushed[c] \in Nat
           /\ Len(printed[c]) \in Nat /\ Len(file[Dst(c)]) \in Nat
           /\ flushed[c] <= Len(printed[c])
           /\ start[c] + flushed[c] <= Len(file[Dst(c)])
           /\ shared[c] \in SUBSET Links
<1>1. printed[c] \in Seq(Content)
  BY DEF Inv, TypeOK
<1>2. Len(file[Dst(c)]) \in Nat
  BY Lengths, LinksType
<1> QED BY <1>1, <1>2 DEF Inv, TypeOK

LEMMA FlushCovers ==
    ASSUME Inv, NEW c \in Links, NEW n, FlushStep(c, n), NEW d \in Links
    PROVE  /\ flushed'[d] \in Nat /\ flushed[d] <= flushed'[d]
           /\ d # c => flushed'[d] = flushed[d]
           /\ flushed'[c] = flushed[c] + n
           /\ \A k \in Int : Covers(d, k) => Covers(d, k)'
<1>1. /\ flushed' = [flushed EXCEPT ![c] = @ + n] /\ n \in Nat
      /\ flushed \in [Links -> Nat] /\ start' = start /\ start[d] \in Nat
  BY FlushFacts DEF Inv, TypeOK, FlushStep
<1>2. /\ flushed'[d] \in Nat /\ flushed[d] <= flushed'[d]
      /\ d # c => flushed'[d] = flushed[d]
      /\ flushed'[c] = flushed[c] + n
  BY <1>1
<1>3. ASSUME NEW k \in Int, Covers(d, k)
      PROVE  Covers(d, k)'
  BY <1>1, <1>2, <1>3 DEF Covers
<1> QED BY <1>2, <1>3

\* What is overwritten by a write of c is the data of a thread that shares the file.
LEMMA FlushLoses ==
    ASSUME Inv, NEW c \in Links, NEW n, FlushStep(c, n)
    PROVE  LostToOverlapOnly'
<1> SUFFICES ASSUME NEW e \in Links, NEW i \in 1..flushed'[e],
                    NEW k, k = start[e] + i
             PROVE  \/ file'[Dst(e)][k] = printed[e][i]
                    \/ \E d \in shared[e] : /\ Covers(d, k)'
                                            /\ file'[Dst(e)][k] = printed[d][k - start[d]]
  BY DEF LostToOverlapOnly, FlushStep, Dst
<1> DEFINE Place == start[c] + flushed[c] + 1 .. start[c] + flushed[c] + n
<1>a. start[e] \in Nat /\ start[c] \in Nat /\ flushed[e] \in Nat /\ flushed[c] \in Nat
  BY DEF Inv, TypeOK
<1>b. n \in Nat /\ flushed'[e] \in Nat /\ flushed'[c] = flushed[c] + n
      /\ (e # c => flushed'[e] = flushed[e])
  BY FlushFacts, FlushCovers
<1>c. i \in Nat /\ i >= 1 /\ i <= flushed'[e] /\ k \in Nat
  BY <1>a, <1>b
<1>d. Len(file[Dst(e)]) \in Nat /\ start[e] + flushed[e] <= Len(file[Dst(e)])
  BY LinksType DEF Inv, TypeOK
<1>e. shared[e] \in SUBSET Links
  BY DEF Inv, TypeOK
<1>1. CASE e = c /\ i > flushed[c]
  <2>1. i \in flushed[c] + 1 .. flushed[c] + n
    BY <1>1, <1>a, <1>b, <1>c
  <2>2. file'[Dst(c)][start[c] + i] = printed[c][i]
    BY <2>1, FlushFacts
  <2> QED BY <2>2, <1>1
<1>2. CASE i <= flushed[e]
  <2>1. k \in 1..Len(file[Dst(e)]) /\ k \in Int
    BY <1>a, <1>c, <1>d, <1>2
  <2>2. \A d \in shared[e] : Covers(d, k) => Covers(d, k)'
    BY <1>e, <2>1, FlushCovers
  <2>3. \/ file[Dst(e)][k] = printed[e][i]
        \/ \E d \in shared[e] : Covers(d, k) /\ file[Dst(e)][k] = printed[d][k - start[d]]
    BY <1>a, <1>c, <1>2 DEF Inv, LostToOverlapOnly
  <2>4. CASE ~(k \in Place /\ Dst(e) = Dst(c))
    <3>1. file'[Dst(e)][k] = file[Dst(e)][k]
      BY <2>1, <2>4, FlushFacts, LinksType
    <3> QED BY <2>2, <2>3, <3>1
  <2>5. CASE k \in Place /\ Dst(e) = Dst(c)
    <3>1. e # c
      BY <1>a, <1>b, <1>c, <1>2, <2>5
    <3>2. Started(c) /\ Started(e) /\ in[c] = "open"
      BY <1>c, <1>2, <1>a DEF Inv, NotStarted, FlushStep, Started
    <3>3. ~Before(c, e)
      BY <3>2 DEF Before
    <3>4. ~Before(e, c)
      BY <1>a, <1>b, <1>c, <1>2, <2>5 DEF Before
    <3>5. c \in shared[e]
      BY <3>1, <3>2, <3>3, <3>4, <2>5 DEF Inv, Ordered
    <3>6. k - start[c] \in flushed[c] + 1 .. flushed[c] + n /\ start[c] + (k - start[c]) = k
      BY <1>a, <1>b, <1>c, <2>5
    <3>7. file'[Dst(e)][k] = printed[c][k - start[c]]
      BY <3>6, <2>5, FlushFacts
    <3>8. Covers(c, k)'
      BY <1>a, <1>b, <1>c, <2>5 DEF Covers, FlushStep
    <3> QED BY <3>5, <3>7, <3>8
  <2> QED BY <2>4, <2>5
<1>3. i <= flushed[e] \/ (e = c /\ i > flushed[c])
  BY <1>a, <1>b, <1>c
<1> QED BY <1>1, <1>2, <1>3

LEMMA FlushStrange ==
    ASSUME Inv, NEW c \in Links, NEW n, FlushStep(c, n)
    PROVE  NothingStrange' /\ OldFirst'
<1> DEFINE Place == start[c] + flushed[c] + 1 .. start[c] + flushed[c] + n
<1>1. ASSUME NEW p \in Peers, NEW i \in 1..Len(file'[p])
      PROVE  \/ i <= Len(Old[p]) /\ file'[p][i] = Old[p][i]
             \/ \E d \in Links : /\ Dst(d) = p /\ i > Len(Old[p]) /\ Covers(d, i)'
                                 /\ file'[p][i] = printed[d][i - start[d]]
  <2>t. /\ start[c] \in Nat /\ flushed[c] \in Nat /\ n \in Nat /\ Len(file'[p]) \in Nat
        /\ Len(Old[p]) \in Nat /\ i \in Nat
    <3>1. Len(file'[p]) \in Nat /\ Len(Old[p]) \in Nat
      BY FlushLengths, Lengths
    <3>2. start[c] \in Nat /\ flushed[c] \in Nat /\ n \in Nat
      BY FlushFacts, LinkTypes
    <3> QED BY <3>1, <3>2
  <2>1. CASE p = Dst(c) /\ i \in Place
    <3>1. i - start[c] \in flushed[c] + 1 .. flushed[c] + n
          /\ start[c] + (i - start[c]) = i
      BY <2>t, <2>1
    <3>2. file'[p][i] = printed[c][i - start[c]]
      BY <2>1, <3>1, FlushFacts
    <3>3. Covers(c, i)'
      <4>1. flushed'[c] = flushed[c] + n /\ start' = start
        BY FlushCovers DEF FlushStep
      <4> QED BY <2>t, <2>1, <4>1 DEF Covers
    <3>4. Len(Old[p]) <= start[c]
      BY <2>1 DEF Inv, OldFirst, FlushStep, Started
    <3> QED BY <2>t, <2>1, <3>2, <3>3, <3>4
  <2>2. CASE ~(p = Dst(c) /\ i \in Place)
    <3>1. i \in 1..Len(file[p]) /\ file'[p][i] = file[p][i]
      BY <2>2, FlushFacts
    <3>2. \A d \in Links : Covers(d, i) => Covers(d, i)'
      BY <2>t, FlushCovers
    <3> QED BY <3>1, <3>2 DEF Inv, NothingStrange
  <2> QED BY <2>1, <2>2
<1>2. NothingStrange'
  BY <1>1 DEF NothingStrange, FlushStep, Dst
<1>3. ASSUME NEW p \in Peers
      PROVE  Len(Old[p]) <= Len(file'[p])
  <2>1. Len(Old[p]) \in Nat /\ Len(file[p]) \in Nat /\ Len(file'[p]) \in Nat
    BY FlushLengths, Lengths
  <2> QED BY <2>1, FlushFacts DEF Inv, OldFirst
<1>4. \A d \in Links : Started(d)' => Started(d)
  BY DEF FlushStep, Started, Inv, TypeOK
<1>5. OldFirst'
  BY <1>3, <1>4 DEF Inv, OldFirst, FlushStep, Dst
<1> QED BY <1>2, <1>5

LEMMA FlushOrders ==
    ASSUME Inv, NEW c \in Links, NEW n, FlushStep(c, n)
    PROVE  Unconnected' /\ NotStarted' /\ Mutual' /\ Ordered'
<1>1. \A d \in Links : /\ Started(d)' <=> Started(d)
                       /\ in'[d] = in[d] \/ (d = c /\ in'[d] = "closed")
  BY DEF FlushStep, Started, Inv, TypeOK
<1>2. \A d \in Links : flushed'[d] # flushed[d] => d = c
  BY FlushCovers
<1>3. \A d, e \in Links : Before(d, e) => Before(d, e)'
  BY <1>1, <1>2 DEF Before, FlushStep
<1>4. NotStarted' /\ Mutual'
  BY <1>1, <1>2 DEF Inv, NotStarted, Mutual, FlushStep, Started, Dst
<1>5. Ordered'
  BY <1>1, <1>3 DEF Inv, Ordered, FlushStep, Dst
<1>6. Unconnected'
  BY <1>1 DEF Inv, Unconnected, FlushStep, sendVars
<1> QED BY <1>4, <1>5, <1>6

LEMMA FlushTypes ==
    ASSUME Inv, NEW c \in Links, NEW n, FlushStep(c, n)
    PROVE  TypeOK'
<1>1. flushed' \in [Links -> Nat]
  <2>1. flushed' = [flushed EXCEPT ![c] = @ + n] /\ n \in Nat
    BY FlushFacts
  <2>2. flushed \in [Links -> Nat]
    BY DEF Inv, TypeOK
  <2> QED BY <2>1, <2>2
<1>2. in' \in [Links -> {"none", "queued", "open", "closed"}]
  BY DEF FlushStep, Inv, TypeOK
<1>3. ASSUME NEW d \in Links
      PROVE  flushed'[d] <= Len(printed[d]) /\ start[d] + flushed'[d] <= Len(file'[Dst(d)])
  <2>1. CASE d = c
    <3>1. start[c] \in Nat /\ flushed[c] \in Nat
      BY LinkTypes
    <3>2. flushed'[c] = flushed[c] + n /\ n \in Nat /\ flushed[c] + n <= Len(printed[c])
      BY FlushFacts, FlushCovers
    <3>3. start[c] + flushed[c] + n <= Len(file'[Dst(c)])
      BY FlushFacts
    <3> QED BY <2>1, <3>1, <3>2, <3>3
  <2>2. CASE d # c
    <3>1. flushed'[d] = flushed[d] /\ Len(file[Dst(d)]) <= Len(file'[Dst(d)])
      BY <2>2, FlushFacts, FlushCovers, LinksType
    <3>2. start[d] \in Nat /\ flushed[d] \in Nat
          /\ Len(file[Dst(d)]) \in Nat /\ Len(file'[Dst(d)]) \in Nat
      BY LinksType, LinkTypes, FlushLengths
    <3>3. flushed[d] <= Len(printed[d]) /\ start[d] + flushed[d] <= Len(file[Dst(d)])
      BY LinkTypes
    <3> QED BY <3>1, <3>2, <3>3
  <2> QED BY <2>1, <2>2
<1>4. file' \in [Peers -> Seq(Content)]
  BY FlushFacts
<1> QED BY <1>1, <1>2, <1>3, <1>4 DEF TypeOK, Inv, FlushStep, sendVars, Dst, Src

LEMMA FlushPreserves ==
    ASSUME Inv, NEW c \in Links, NEW n, FlushStep(c, n)
    PROVE  Inv'
BY FlushTypes, FlushOrders, FlushStrange, FlushLoses DEF Inv

-----------------------------------------------------------------------------
(* The other steps. *)

LEMMA OpenPreserves ==
    ASSUME Inv, NEW c \in Links, OpenFile(c)
    PROVE  Inv'
<1> DEFINE others == {d \in Links : d # c /\ Dst(d) = Dst(c) /\ Open(d)}
<1>1. /\ in[c] = "queued" /\ peer[Dst(c)] = "up"
      /\ in' = [in EXCEPT ![c] = "open"]
      /\ start' = [start EXCEPT ![c] = Len(file[Dst(c)])]
      /\ shared' = [d \in Links |-> IF d = c THEN others
                                    ELSE IF d \in others THEN shared[d] \cup {c}
                                    ELSE shared[d]]
      /\ UNCHANGED <<peer, stops, sendVars, wire, printed, flushed, file>>
  BY DEF OpenFile
<1>2. ~Started(c) /\ flushed[c] = 0 /\ printed[c] = <<>> /\ shared[c] = {}
  BY <1>1 DEF Inv, NotStarted, Started
<1>3. start'[c] = Len(file[Dst(c)]) /\ Len(file[Dst(c)]) \in Nat
      /\ \A d \in Links : d # c => start'[d] = start[d]
  BY <1>1, Lengths, LinksType DEF Inv, TypeOK
<1>4. Started(c)' /\ \A d \in Links : d # c => in'[d] = in[d] /\ (Started(d)' <=> Started(d))
  BY <1>1 DEF Inv, TypeOK, Started
<1>5. /\ shared'[c] = others
      /\ \A d \in Links : d # c => \/ d \in others /\ shared'[d] = shared[d] \cup {c}
                                   \/ d \notin others /\ shared'[d] = shared[d]
      /\ \A d \in Links : c \notin shared[d]
  BY <1>1, <1>2 DEF Inv, Mutual
<1>6. others \in SUBSET Links /\ \A d \in others : Started(d) /\ d # c /\ Dst(d) = Dst(c)
  BY DEF Open, Started
<1>7. \A d \in Links : d # c /\ Dst(d) = Dst(c) /\ Started(d) /\ d \notin others
            => in[d] = "closed"
  BY <1>1 DEF Open, Started
<1> HIDE DEF others
<1>8. TypeOK'
  <2>1. /\ start' \in [Links -> Nat]
        /\ in' \in [Links -> {"none", "queued", "open", "closed"}]
    BY <1>1, <1>3 DEF Inv, TypeOK
  <2>2. shared' \in [Links -> SUBSET Links]
    BY <1>1, <1>6 DEF Inv, TypeOK
  <2>3. ASSUME NEW d \in Links
        PROVE  start'[d] + flushed[d] <= Len(file[Dst(d)])
    <3>1. CASE d = c
      BY <3>1, <1>2, <1>3
    <3>2. CASE d # c
      BY <3>2, <1>3 DEF Inv, TypeOK
    <3> QED BY <3>1, <3>2
  <2> QED BY <1>1, <2>1, <2>2, <2>3 DEF Inv, TypeOK, sendVars, Dst, Src
<1>9. NotStarted'
  BY <1>1, <1>3, <1>4, <1>5, <1>6 DEF Inv, NotStarted
<1>10. Mutual'
  <2> SUFFICES ASSUME NEW d \in Links, NEW e \in Links, e \in shared'[d]
               PROVE  /\ d # e /\ Dst(d) = Dst(e) /\ d \in shared'[e]
                      /\ Started(d)' /\ Started(e)'
    BY DEF Mutual, Dst
  <2>1. CASE d = c
    BY <2>1, <1>4, <1>5, <1>6
  <2>2. CASE d # c /\ e = c
    BY <2>2, <1>4, <1>5, <1>6
  <2>3. CASE d # c /\ e # c
    <3>1. e \in shared[d]
      BY <2>3, <1>5
    <3>2. d # e /\ Dst(d) = Dst(e) /\ d \in shared[e] /\ Started(d) /\ Started(e)
      BY <3>1 DEF Inv, Mutual
    <3> QED BY <2>3, <3>2, <1>4, <1>5
  <2> QED BY <2>1, <2>2, <2>3
<1>11. Ordered'
  <2>1. ASSUME NEW d \in Links, d # c, Dst(d) = Dst(c), Started(d), d \notin others
        PROVE  Before(d, c)'
    <3>1. in'[d] = "closed"
      BY <2>1, <1>4, <1>7
    <3>2. start[d] + flushed[d] <= Len(file[Dst(c)])
      BY <2>1 DEF Inv, TypeOK
    <3> QED BY <2>1, <3>1, <3>2, <1>1, <1>3 DEF Before
  <2>2. \A d, e \in Links : d # c /\ e # c /\ Before(d, e) => Before(d, e)'
    BY <1>1, <1>3, <1>4 DEF Before
  <2> SUFFICES ASSUME NEW d \in Links, NEW e \in Links,
                      d # e, Dst(d) = Dst(e), Started(d)', Started(e)', e \notin shared'[d]
               PROVE  Before(d, e)' \/ Before(e, d)'
    BY DEF Ordered, Dst
  <2>3. CASE d = c
    BY <2>1, <2>3, <1>4, <1>5
  <2>4. CASE e = c
    BY <2>1, <2>4, <1>4, <1>5
  <2>5. CASE d # c /\ e # c
    BY <2>2, <2>5, <1>4, <1>5 DEF Inv, Ordered
  <2> QED BY <2>3, <2>4, <2>5
<1>12. OldFirst'
  BY <1>1, <1>3, <1>4, LinksType DEF Inv, OldFirst, Dst
<1>13. \A d \in Links : \A k \in Int : Covers(d, k) => d # c /\ Covers(d, k)'
  <2> SUFFICES ASSUME NEW d \in Links, NEW k \in Int, Covers(d, k)
               PROVE  d # c /\ Covers(d, k)'
    OBVIOUS
  <2>1. start[d] \in Nat /\ flushed[d] \in Nat
    BY DEF Inv, TypeOK
  <2>2. d # c
    BY <1>2, <2>1 DEF Covers
  <2> QED BY <2>2, <1>1, <1>3 DEF Covers
<1>14. LostToOverlapOnly'
  <2> SUFFICES ASSUME NEW e \in Links, NEW i \in 1..flushed[e], NEW k, k = start'[e] + i
               PROVE  \/ file[Dst(e)][k] = printed[e][i]
                      \/ \E d \in shared'[e] : /\ Covers(d, k)'
                                               /\ file[Dst(e)][k] = printed[d][k - start'[d]]
    BY <1>1 DEF LostToOverlapOnly, Dst
  <2>1. e # c /\ start'[e] = start[e] /\ start[e] \in Nat /\ k \in Int
    <3>1. start[e] \in Nat /\ flushed[e] \in Nat
      BY LinkTypes
    <3>2. e # c
      BY <1>2
    <3> QED BY <3>1, <3>2, <1>3
  <2>2. \/ file[Dst(e)][k] = printed[e][i]
        \/ \E d \in shared[e] : Covers(d, k) /\ file[Dst(e)][k] = printed[d][k - start[d]]
    BY <2>1 DEF Inv, LostToOverlapOnly
  <2>3. \A d \in shared[e] : d \in Links /\ d \in shared'[e]
    BY <2>1, <1>5 DEF Inv, TypeOK
  <2>4. \A d \in shared[e] : Covers(d, k) => Covers(d, k)' /\ start'[d] = start[d]
    BY <2>1, <2>3, <1>3, <1>13
  <2> QED BY <2>2, <2>3, <2>4
<1>15. NothingStrange'
  <2> SUFFICES ASSUME NEW p \in Peers, NEW i \in 1..Len(file[p])
               PROVE  \/ i <= Len(Old[p]) /\ file[p][i] = Old[p][i]
                      \/ \E d \in Links : /\ Dst(d) = p /\ i > Len(Old[p]) /\ Covers(d, i)'
                                          /\ file[p][i] = printed[d][i - start'[d]]
    BY <1>1 DEF NothingStrange, Dst
  <2>1. i \in Int
    BY Lengths
  <2>2. \A d \in Links : Covers(d, i) => Covers(d, i)' /\ start'[d] = start[d]
    BY <2>1, <1>3, <1>13
  <2> QED BY <2>2 DEF Inv, NothingStrange
<1>16. Unconnected'
  BY <1>1, <1>4 DEF Inv, Unconnected, sendVars
<1> QED BY <1>8, <1>9, <1>10, <1>11, <1>12, <1>14, <1>15, <1>16 DEF Inv

LEMMA RecvPreserves ==
    ASSUME Inv, NEW c \in Links, Recv(c)
    PROVE  Inv'
<1>0. PICK n \in 1..Len(wire[c]) :
            /\ \E ws \in Junked(SubSeq(wire[c], 1, n)) :
                    printed' = [printed EXCEPT ![c] = @ \o ws]
            /\ wire' = [wire EXCEPT ![c] = SubSeq(@, n + 1, Len(@))]
  BY DEF Recv
<1>1. PICK ws \in Junked(SubSeq(wire[c], 1, n)) :
            printed' = [printed EXCEPT ![c] = @ \o ws]
  BY <1>0
<1>2. /\ UNCHANGED <<peer, stops, sendVars, in, start, flushed, file, shared>>
      /\ in[c] = "open"
  BY DEF Recv, Open
<1>3. wire[c] \in Seq(Words) /\ printed[c] \in Seq(Content) /\ flushed[c] \in Nat
      /\ flushed[c] <= Len(printed[c])
  BY DEF Inv, TypeOK
<1>4. ws \in Seq(Content)
  <2>1. SubSeq(wire[c], 1, n) \in Seq(Content)
    BY <1>3 DEF Content
  <2>2. Append(SubSeq(wire[c], 1, n), Junk) \in Seq(Content)
    BY <2>1 DEF Content
  <2> QED BY <2>1, <2>2 DEF Junked
<1>5. SubSeq(wire[c], n + 1, Len(wire[c])) \in Seq(Words)
  BY <1>3
<1>6. /\ printed[c] \o ws \in Seq(Content)
      /\ Len(printed[c]) <= Len(printed[c] \o ws)
      /\ \A i \in 1..Len(printed[c]) : (printed[c] \o ws)[i] = printed[c][i]
  BY <1>3, <1>4
<1>7. /\ printed' \in [Links -> Seq(Content)]
      /\ \A d \in Links : /\ flushed[d] <= Len(printed'[d])
                          /\ \A i \in 1..flushed[d] : printed'[d][i] = printed[d][i]
  <2>1. printed' \in [Links -> Seq(Content)] /\ printed'[c] = printed[c] \o ws
        /\ \A d \in Links : d # c => printed'[d] = printed[d]
    BY <1>1, <1>6 DEF Inv, TypeOK
  <2>2. ASSUME NEW d \in Links
        PROVE  /\ flushed[d] <= Len(printed'[d])
               /\ \A i \in 1..flushed[d] : printed'[d][i] = printed[d][i]
    <3>1. CASE d # c
      BY <3>1, <2>1 DEF Inv, TypeOK
    <3>2. CASE d = c
      <4>1. flushed[c] <= Len(printed[c] \o ws)
        BY <1>3, <1>6
      <4>2. \A i \in 1..flushed[c] : (printed[c] \o ws)[i] = printed[c][i]
        BY <1>3, <1>6
      <4> QED BY <3>2, <4>1, <4>2, <2>1
    <3> QED BY <3>1, <3>2
  <2> QED BY <2>1, <2>2
<1>8. wire' \in [Links -> Seq(Words)]
  BY <1>0, <1>5 DEF Inv, TypeOK
<1>9. TypeOK'
  BY <1>2, <1>7, <1>8 DEF Inv, TypeOK, sendVars, Src, Dst
<1>10. Unconnected' /\ NotStarted' /\ Mutual' /\ Ordered' /\ OldFirst'
  <2>1. \A d \in Links : d # c => printed'[d] = printed[d]
    BY <1>1 DEF Inv, TypeOK
  <2>2. NotStarted' /\ Mutual' /\ Unconnected'
    BY <1>2, <2>1 DEF Inv, NotStarted, Mutual, Unconnected, Started, Dst, sendVars
  <2>3. Ordered' /\ OldFirst'
    BY <1>2 DEF Inv, Ordered, OldFirst, Started, Before, Dst
  <2> QED BY <2>2, <2>3
<1>11. \A d \in Links : \A k \in Int :
            Covers(d, k) => printed'[d][k - start[d]] = printed[d][k - start[d]]
  <2> SUFFICES ASSUME NEW d \in Links, NEW k \in Int, Covers(d, k)
               PROVE  printed'[d][k - start[d]] = printed[d][k - start[d]]
    OBVIOUS
  <2>1. start[d] \in Nat /\ flushed[d] \in Nat
    BY DEF Inv, TypeOK
  <2>2. k - start[d] \in 1..flushed[d]
    BY <2>1 DEF Covers
  <2> QED BY <2>2, <1>7
<1>12. LostToOverlapOnly'
  <2> SUFFICES ASSUME NEW e \in Links, NEW i \in 1..flushed[e], NEW k, k = start[e] + i
               PROVE  \/ file[Dst(e)][k] = printed'[e][i]
                      \/ \E d \in shared[e] : /\ Covers(d, k)
                                              /\ file[Dst(e)][k] = printed'[d][k - start[d]]
    BY <1>2 DEF LostToOverlapOnly, Dst, Covers
  <2>1. k \in Int /\ shared[e] \in SUBSET Links
    BY LinkTypes
  <2>2. \/ file[Dst(e)][k] = printed[e][i]
        \/ \E d \in shared[e] : Covers(d, k) /\ file[Dst(e)][k] = printed[d][k - start[d]]
    BY DEF Inv, LostToOverlapOnly
  <2> QED BY <2>1, <2>2, <1>7, <1>11
<1>13. NothingStrange'
  <2> SUFFICES ASSUME NEW p \in Peers, NEW i \in 1..Len(file[p])
               PROVE  \/ i <= Len(Old[p]) /\ file[p][i] = Old[p][i]
                      \/ \E d \in Links : /\ Dst(d) = p /\ i > Len(Old[p]) /\ Covers(d, i)
                                          /\ file[p][i] = printed'[d][i - start[d]]
    BY <1>2 DEF NothingStrange, Dst, Covers
  <2>1. i \in Int
    BY Lengths
  <2> QED BY <2>1, <1>11 DEF Inv, NothingStrange
<1> QED BY <1>9, <1>10, <1>12, <1>13 DEF Inv

\* A step that leaves the file and its threads alone.
LEMMA AsidePreserves ==
    ASSUME Inv, TypeOK', UNCHANGED fileVars, Unconnected',
           \A c \in Links : in'[c] = in[c] \/ (in[c] = "none" /\ in'[c] = "queued")
    PROVE  Inv'
<1>1. start' = start /\ printed' = printed /\ flushed' = flushed /\ file' = file
      /\ shared' = shared
  BY DEF fileVars
<1>2. \A c \in Links : (Started(c)' <=> Started(c)) /\ (Before(c, c)' => TRUE)
  BY DEF Started
<1>3. \A c, d \in Links : Before(c, d) => Before(c, d)'
  BY <1>1 DEF Before
<1>4. NotStarted' /\ Mutual' /\ Ordered'
  BY <1>1, <1>2, <1>3 DEF Inv, NotStarted, Mutual, Ordered, Dst
<1>5. OldFirst' /\ LostToOverlapOnly' /\ NothingStrange'
  BY <1>1, <1>2 DEF Inv, OldFirst, LostToOverlapOnly, NothingStrange, Covers, Dst
<1> QED BY <1>4, <1>5 DEF Inv

LEMMA RoomIsInt ==
    ASSUME Inv, NEW c \in Links, Overfull(c)
    PROVE  Room(c) \in 0..Buffered(c)
<1>1. start[c] + flushed[c] \in Nat /\ Buffered(c) \in Int
  BY DEF Inv, TypeOK, Buffered
<1>2. (start[c] + flushed[c]) % Block \in 0..Block - 1
  BY <1>1, BoundsAssumption
<1> QED BY <1>1, <1>2, BoundsAssumption DEF Room, Overfull

\* One more word is sent, while there are some left.
LEMMA Counted ==
    ASSUME NEW c \in Links, sent \in [Links -> Nat],
           \A d \in Links : sent[d] <= Len(Text[Src(d)]),
           Len(Text[Src(c)]) \in Nat, sent[c] < Len(Text[Src(c)]),
           sent' = [sent EXCEPT ![c] = @ + 1]
    PROVE  /\ sent' \in [Links -> Nat]
           /\ \A d \in Links : sent'[d] <= Len(Text[Src(d)])
<1>1. sent' \in [Links -> Nat] /\ sent'[c] = sent[c] + 1
      /\ \A d \in Links : d # c => sent'[d] = sent[d]
  OBVIOUS
<1>2. sent'[c] <= Len(Text[Src(c)])
  BY <1>1
<1>3. ASSUME NEW d \in Links
      PROVE  sent'[d] <= Len(Text[Src(d)])
  <2>1. CASE d = c
    BY <2>1, <1>2
  <2>2. CASE d # c
    BY <2>2, <1>1
  <2> QED BY <2>1, <2>2
<1> QED BY <1>1, <1>3

LEMMA NextPreserves ==
    ASSUME Inv, [Next]_vars
    PROVE  Inv'
<1>1. CASE UNCHANGED vars
  <2>1. TypeOK' /\ Unconnected'
    BY <1>1 DEF Inv, TypeOK, Unconnected, vars, sendVars, fileVars, Src, Dst
  <2> QED BY <1>1, <2>1, AsidePreserves DEF vars
<1>2. ASSUME NEW p \in Peers, Start(p) \/ Stop(p)
      PROVE  Inv'
  <2>1. UNCHANGED <<sendVars, wire, in, fileVars>>
    BY <1>2 DEF Start, Stop
  <2>2. peer' \in [Peers -> {"off", "up", "gone"}] /\ stops' \in 0..MaxStops
    <3>1. CASE Start(p)
      BY <3>1 DEF Inv, TypeOK, Start
    <3>2. CASE Stop(p)
      <4>1. stops \in 0..MaxStops /\ stops < MaxStops /\ stops' = stops + 1
        BY <3>2 DEF Inv, TypeOK, Stop
      <4>2. stops' \in 0..MaxStops
        BY <4>1, BoundsAssumption
      <4>3. peer' \in [Peers -> {"off", "up", "gone"}]
        BY <3>2 DEF Inv, TypeOK, Stop
      <4> QED BY <4>2, <4>3
    <3> QED BY <1>2, <3>1, <3>2
  <2>3. TypeOK'
    BY <2>1, <2>2 DEF Inv, TypeOK, sendVars, fileVars, Src, Dst
  <2>4. Unconnected'
    BY <2>1 DEF Inv, Unconnected, sendVars
  <2> QED BY <2>1, <2>3, <2>4, AsidePreserves
<1>3. ASSUME NEW c \in Links, Connect(c)
      PROVE  Inv'
  <2>1. in[c] = "none" /\ \A d \in Links : in'[d] = in[d] \/ (d = c /\ in'[d] = "queued")
    <3>1. in[c] = "none"
      BY <1>3 DEF Inv, Unconnected, Connect
    <3>2. in' = [in EXCEPT ![c] = "queued"]
          /\ in \in [Links -> {"none", "queued", "open", "closed"}]
      BY <1>3 DEF Inv, TypeOK, Connect
    <3>3. ASSUME NEW d \in Links
          PROVE  in'[d] = in[d] \/ (d = c /\ in'[d] = "queued")
      BY <3>2
    <3> QED BY <3>1, <3>3
  <2>2. TypeOK'
    BY <1>3 DEF Inv, TypeOK, Connect, fileVars, Src, Dst
  <2>3. Unconnected'
    BY <1>3, <2>1 DEF Inv, TypeOK, Unconnected, Connect
  <2> QED BY <1>3, <2>1, <2>2, <2>3, AsidePreserves DEF Connect
<1>4. ASSUME NEW c \in Links, Send(c)
      PROVE  Inv'
  <2>1. Text[Src(c)] \in Seq(Words) /\ sent[c] \in Nat /\ sent[c] < Len(Text[Src(c)])
    BY <1>4, LinksType, TextAssumption DEF Send, Inv, TypeOK
  <2>2. Text[Src(c)][sent[c] + 1] \in Words
    BY <2>1
  <2>3. TypeOK'
    <3>1. wire' \in [Links -> Seq(Words)]
      BY <1>4, <2>2 DEF Send, Inv, TypeOK
    <3>2. sent' \in [Links -> Nat] /\ \A d \in Links : sent'[d] <= Len(Text[Src(d)])
      <4>1. sent' = [sent EXCEPT ![c] = @ + 1] /\ sent \in [Links -> Nat]
            /\ \A d \in Links : sent[d] <= Len(Text[Src(d)])
        BY <1>4 DEF Send, Inv, TypeOK
      <4>2. Len(Text[Src(c)]) \in Nat
        BY <2>1
      <4> QED BY <2>1, <4>1, <4>2, Counted
    <3> QED BY <1>4, <3>1, <3>2 DEF Send, Inv, TypeOK, fileVars, Src, Dst
  <2>4. Unconnected'
    BY <1>4 DEF Send, Inv, Unconnected
  <2> QED BY <1>4, <2>3, <2>4, AsidePreserves DEF Send
<1>5. ASSUME NEW c \in Links, SendRefused(c)
      PROVE  Inv'
  <2>1. Len(Text[Src(c)]) \in Nat
    BY LinksType, TextAssumption
  <2>2. sent' \in [Links -> Nat] /\ \A d \in Links : sent'[d] <= Len(Text[Src(d)])
    <3>1. sent \in [Links -> Nat] /\ (\A d \in Links : sent[d] <= Len(Text[Src(d)]))
          /\ sent[c] < Len(Text[Src(c)])
          /\ (sent' = sent \/ sent' = [sent EXCEPT ![c] = @ + 1])
      BY <1>5 DEF SendRefused, Inv, TypeOK
    <3> QED BY <2>1, <3>1, Counted
  <2>3. peer' \in [Peers -> {"off", "up", "gone"}] /\ refused' \in [Links -> BOOLEAN]
    BY <1>5 DEF SendRefused, Inv, TypeOK
  <2>4. TypeOK'
    BY <1>5, <2>2, <2>3 DEF SendRefused, Inv, TypeOK, fileVars, Src, Dst
  <2>5. Unconnected'
    BY <1>5 DEF SendRefused, Inv, Unconnected
  <2> QED BY <1>5, <2>4, <2>5, AsidePreserves DEF SendRefused
<1>6. ASSUME NEW c \in Links, CloseSend(c)
      PROVE  Inv'
  <2>1. TypeOK' /\ Unconnected'
    BY <1>6 DEF CloseSend, Inv, TypeOK, Unconnected, fileVars, Src, Dst
  <2> QED BY <1>6, <2>1, AsidePreserves DEF CloseSend
<1>7. ASSUME NEW c \in Links, FlushBlock(c)
      PROVE  Inv'
  <2>1. FlushStep(c, Room(c))
    BY <1>7, RoomIsInt DEF FlushBlock, FlushStep, Open
  <2> QED BY <2>1, FlushPreserves
<1>8. ASSUME NEW c \in Links, CloseFile(c)
      PROVE  Inv'
  <2>1. Buffered(c) \in 0..Buffered(c)
    BY DEF Inv, TypeOK, Buffered
  <2>2. FlushStep(c, Buffered(c))
    BY <1>8, <2>1 DEF CloseFile, FlushStep, Open
  <2> QED BY <2>2, FlushPreserves
<1> QED BY <1>1, <1>2, <1>3, <1>4, <1>5, <1>6, <1>7, <1>8, OpenPreserves, RecvPreserves
        DEF Next, Connection, Process

LEMMA InitInv == Init => Inv
<1> SUFFICES ASSUME Init PROVE Inv
  OBVIOUS
<1>1. TypeOK
  <2>1. \A c \in Links : Len(Text[Src(c)]) \in Nat /\ Len(Old[Dst(c)]) \in Nat
    BY LinksType, TextAssumption
  <2> QED BY <2>1, BoundsAssumption, TextAssumption DEF Init, TypeOK
<1>2. Unconnected /\ NotStarted /\ Mutual /\ Ordered
  BY DEF Init, Unconnected, NotStarted, Mutual, Ordered, Started
<1>3. OldFirst /\ NothingStrange
  <2>1. \A p \in Peers : Len(Old[p]) \in Nat
    BY TextAssumption
  <2> QED BY <2>1 DEF Init, OldFirst, NothingStrange, Started
<1>4. LostToOverlapOnly
  BY DEF Init, LostToOverlapOnly
<1> QED BY <1>1, <1>2, <1>3, <1>4 DEF Inv

LEMMA InvInvariant == Spec => []Inv
<1>1. Inv /\ [Next]_vars => Inv'
  BY NextPreserves
<1> QED BY <1>1, InitInv, PTL DEF Spec

\* Every variable keeps its type, and no thread writes behind the end of its file.
THEOREM TypeCorrect == Spec => []TypeOK
<1>1. Inv => TypeOK
  BY DEF Inv
<1> QED BY <1>1, InvInvariant, PTL

\* What a process() thread has written to rcvN stays there, unless a thread that had
\* the file open together with it wrote to the same place.
THEOREM LossNeedsOverlap == Spec => []LostToOverlapOnly
<1>1. Inv => LostToOverlapOnly
  BY DEF Inv
<1> QED BY <1>1, InvInvariant, PTL

\* The old contents of rcvN stay, and behind them is only what threads printed.
THEOREM OldContentsStay == Spec => []NothingStrange
<1>1. Inv => NothingStrange
  BY DEF Inv
<1> QED BY <1>1, InvInvariant, PTL

\* A connection whose thread never shared the file is in it whole.
THEOREM AloneIsWhole ==
    Spec => [](\A c \in Links : shared[c] = {} =>
                    \A i \in 1..flushed[c] :
                        file[Dst(c)][start[c] + i] = printed[c][i])
<1>1. LostToOverlapOnly =>
        \A c \in Links : shared[c] = {} =>
            \A i \in 1..flushed[c] : file[Dst(c)][start[c] + i] = printed[c][i]
  BY DEF LostToOverlapOnly
<1> QED BY <1>1, LossNeedsOverlap, PTL

-----------------------------------------------------------------------------
(* What arrives is what was sent. *)

\* The first n words are what the text shows, junk apart.
Shown(text, words, n) ==
    \E pos \in [1..n -> 1..Len(text)] :
        /\ \A k, l \in 1..n : k < l => pos[k] < pos[l]
        /\ \A k \in 1..n : text[pos[k]] = words[k]
        /\ \A i \in 1..Len(text) : text[i] = Junk \/ \E k \in 1..n : pos[k] = i

\* n words have been received, the rest of those sent is on its way.
Arrived(c, n) ==
    /\ n + Len(wire[c]) = sent[c]
    /\ \A i \in 1..Len(wire[c]) : wire[c][i] = Text[Src(c)][n + i]
    /\ Shown(printed[c], Text[Src(c)], n)

\* Nothing is lost on a connection before the peer at its other side has gone, and a
\* thread that has closed the file has seen the end of what it is sent.
Whole(c) ==
    /\ refused[c] => peer[Dst(c)] = "gone" /\ in[c] # "closed"
    /\ in[c] = "closed" => /\ Finished(c) /\ wire[c] = <<>>
                           /\ flushed[c] = Len(printed[c])
    /\ out[c] = "closed" => sent[c] = Len(Text[Src(c)])
    /\ ~refused[c] => \E n \in Nat : Arrived(c, n)

AllWhole == \A c \in Links : Whole(c)

\* What the steps of others leave of it.
LEMMA WholeFrame ==
    ASSUME NEW c \in Links, Whole(c),
           out'[c] = out[c], sent'[c] = sent[c], refused'[c] = refused[c],
           wire'[c] = wire[c], in'[c] = in[c], printed'[c] = printed[c],
           flushed'[c] = flushed[c] \/ in[c] # "closed",
           \A p \in Peers : peer[p] = "gone" => peer'[p] = "gone"
    PROVE  Whole(c)'
<1>1. Src(c) \in Peers /\ Dst(c) \in Peers
  BY LinksType
<1>2. ASSUME NEW n \in Nat, Arrived(c, n) PROVE Arrived(c, n)'
  <2> QED BY <1>2 DEF Arrived, Src
<1> QED BY <1>1, <1>2 DEF Whole, Finished, Src, Dst

\* More words are printed, perhaps with junk behind them.
LEMMA ShownMore ==
    ASSUME NEW s \in Seq(Content), NEW ws \in Seq(Content), NEW text,
           NEW n \in Nat, NEW m \in Nat, Shown(s, text, n),
           Len(ws) \in {m, m + 1},
           \A i \in 1..m : ws[i] = text[n + i],
           Len(ws) = m + 1 => ws[m + 1] = Junk
    PROVE  Shown(s \o ws, text, n + m)
<1> DEFINE t == s \o ws
           L == Len(s)
<1>1. PICK pos \in [1..n -> 1..L] :
        /\ \A k, l \in 1..n : k < l => pos[k] < pos[l]
        /\ \A k \in 1..n : s[pos[k]] = text[k]
        /\ \A i \in 1..L : s[i] = Junk \/ \E k \in 1..n : pos[k] = i
  BY DEF Shown
<1>2. /\ L \in Nat /\ t \in Seq(Content) /\ Len(t) = L + Len(ws)
      /\ \A i \in 1..L : t[i] = s[i]
      /\ \A i \in 1..Len(ws) : t[L + i] = ws[i]
  OBVIOUS
<1> DEFINE at == [k \in 1..n + m |-> IF k <= n THEN pos[k] ELSE L + (k - n)]
<1> HIDE DEF t, L
<1>3. \A k \in 1..n : pos[k] \in 1..L
  BY <1>1
<1>4. \A k \in 1..n + m : /\ k \in 1..n \/ k - n \in 1..m
                          /\ k \in 1..n => at[k] = pos[k]
                          /\ k \notin 1..n => at[k] = L + (k - n)
  OBVIOUS
<1>5. at \in [1..n + m -> 1..Len(t)]
  <2>1. ASSUME NEW k \in 1..n + m PROVE at[k] \in 1..Len(t)
    <3>1. Len(ws) >= m /\ Len(ws) \in Nat
      OBVIOUS
    <3>2. CASE k \in 1..n
      BY <1>2, <1>3, <1>4, <3>1, <3>2
    <3>3. CASE k \notin 1..n
      BY <1>2, <1>4, <3>1, <3>3
    <3> QED BY <3>2, <3>3
  <2> QED BY <2>1
<1>6. ASSUME NEW k \in 1..n + m, NEW l \in 1..n + m, k < l PROVE at[k] < at[l]
  <2>1. CASE l \in 1..n
    <3>1. k \in 1..n
      BY <1>6, <2>1
    <3> QED BY <1>1, <1>4, <1>6, <2>1, <3>1
  <2>2. CASE l \notin 1..n /\ k \in 1..n
    <3>1. at[k] \in 1..L /\ at[l] = L + (l - n) /\ l - n \in 1..m
      BY <1>3, <1>4, <2>2
    <3> QED BY <1>2, <3>1
  <2>3. CASE l \notin 1..n /\ k \notin 1..n
    BY <1>2, <1>4, <1>6, <2>3
  <2> QED BY <2>1, <2>2, <2>3
<1>7. ASSUME NEW k \in 1..n + m PROVE t[at[k]] = text[k]
  <2>1. CASE k \in 1..n
    <3>1. at[k] = pos[k] /\ pos[k] \in 1..L /\ s[pos[k]] = text[k]
      BY <1>1, <1>3, <1>4, <2>1
    <3> HIDE DEF at
    <3> QED BY <1>2, <3>1
  <2>2. CASE k \notin 1..n
    <3>1. k - n \in 1..m /\ at[k] = L + (k - n) /\ n + (k - n) = k
      BY <1>4, <2>2
    <3>2. k - n \in 1..Len(ws)
      BY <3>1
    <3>3. ws[k - n] = text[k]
      BY <3>1
    <3> QED BY <1>2, <3>1, <3>2, <3>3
  <2> QED BY <2>1, <2>2
<1>8. ASSUME NEW i \in 1..Len(t)
      PROVE  t[i] = Junk \/ \E k \in 1..n + m : at[k] = i
  <2>1. CASE i \in 1..L
    <3>1. t[i] = s[i]
      BY <1>2, <2>1
    <3>2. \A k \in 1..n : k \in 1..n + m /\ at[k] = pos[k]
      BY <1>4
    <3> QED BY <1>1, <2>1, <3>1, <3>2
  <2>2. CASE i \notin 1..L
    <3>1. i - L \in 1..Len(ws) /\ L + (i - L) = i
      BY <1>2, <2>2
    <3>2. CASE i - L \in 1..m
      <4> DEFINE j == i - L
      <4>1. j \in 1..m /\ L + j = i
        BY <3>1, <3>2
      <4> HIDE DEF j
      <4>2. n + j \in 1..n + m /\ n + j \notin 1..n /\ n + j - n = j
        BY <4>1
      <4> HIDE DEF at
      <4>3. at[n + j] = i
        BY <1>4, <4>1, <4>2
      <4> QED BY <4>2, <4>3
    <3>3. CASE i - L \notin 1..m
      <4>1. i - L = m + 1 /\ Len(ws) = m + 1
        BY <1>2, <3>1, <3>3
      <4> QED BY <1>2, <3>1, <4>1
    <3> QED BY <3>2, <3>3
  <2> QED BY <2>1, <2>2
<1> HIDE DEF at
<1> QED BY <1>5, <1>6, <1>7, <1>8 DEF Shown, t

LEMMA RecvWhole ==
    ASSUME TypeOK, NEW c \in Links, Recv(c), Whole(c) PROVE Whole(c)'
<1>1. PICK m \in 1..Len(wire[c]) :
        /\ \E ws \in Junked(SubSeq(wire[c], 1, m)) :
                printed' = [printed EXCEPT ![c] = @ \o ws]
        /\ wire' = [wire EXCEPT ![c] = SubSeq(@, m + 1, Len(@))]
  BY DEF Recv
<1>2. PICK ws \in Junked(SubSeq(wire[c], 1, m)) :
            printed' = [printed EXCEPT ![c] = @ \o ws]
  BY <1>1
<1>3. /\ UNCHANGED <<peer, out, sent, refused, in, flushed>>
      /\ in[c] = "open" /\ peer[Dst(c)] = "up"
  BY DEF Recv, Open, sendVars
<1>4. /\ wire[c] \in Seq(Words) /\ printed[c] \in Seq(Content) /\ sent[c] \in Nat
      /\ wire'[c] = SubSeq(wire[c], m + 1, Len(wire[c])) /\ printed'[c] = printed[c] \o ws
  BY <1>1, <1>2 DEF TypeOK
<1> DEFINE w == wire[c]
           v == wire'[c]
<1>5. ~refused[c]
  BY <1>3 DEF Whole
<1>6. PICK n \in Nat : Arrived(c, n)
  BY <1>5 DEF Whole
<1>7. n + Len(w) = sent[c] /\ (\A i \in 1..Len(w) : w[i] = Text[Src(c)][n + i])
      /\ Shown(printed[c], Text[Src(c)], n)
  BY <1>6 DEF Arrived
<1>8. /\ m \in Nat /\ m <= Len(w) /\ Len(v) = Len(w) - m
      /\ \A i \in 1..Len(v) : v[i] = w[m + i]
  <2>1. /\ w \in Seq(Words) /\ m \in 1..Len(w) /\ Len(w) \in Nat
        /\ v = SubSeq(w, m + 1, Len(w))
    BY <1>4
  <2> HIDE DEF w, v
  <2> QED BY <2>1
<1>9. /\ SubSeq(w, 1, m) \in Seq(Words) /\ Len(SubSeq(w, 1, m)) = m
      /\ \A i \in 1..m : SubSeq(w, 1, m)[i] = w[i]
  BY <1>4
<1>10. /\ ws \in Seq(Content) /\ Len(ws) \in {m, m + 1}
       /\ \A i \in 1..m : ws[i] = w[i]
       /\ Len(ws) = m + 1 => ws[m + 1] = Junk
  <2> DEFINE u == SubSeq(w, 1, m)
  <2>1. u \in Seq(Words) /\ Len(u) = m /\ \A i \in 1..m : u[i] = w[i]
    BY <1>9
  <2>2. ws \in {u, Append(u, Junk)}
    BY <1>2 DEF Junked
  <2> HIDE DEF u
  <2>3. u \in Seq(Content) /\ Junk \in Content
    BY <2>1 DEF Content
  <2>4. CASE ws = u
    BY <1>8, <2>1, <2>3, <2>4
  <2>5. CASE ws = Append(u, Junk)
    BY <1>8, <2>1, <2>3, <2>5
  <2> QED BY <2>2, <2>4, <2>5
<1> HIDE DEF w, v
<1>11. \A i \in 1..m : ws[i] = Text[Src(c)][n + i]
  <2>1. \A i \in 1..m : i \in 1..Len(w)
    BY <1>8
  <2> QED BY <1>7, <1>10, <2>1
<1>12. Shown(printed'[c], Text[Src(c)], n + m)
  <2>1. /\ printed[c] \in Seq(Content) /\ ws \in Seq(Content) /\ n \in Nat /\ m \in Nat
        /\ Shown(printed[c], Text[Src(c)], n) /\ Len(ws) \in {m, m + 1}
        /\ \A i \in 1..m : ws[i] = Text[Src(c)][n + i]
        /\ Len(ws) = m + 1 => ws[m + 1] = Junk
    BY <1>4, <1>7, <1>8, <1>10, <1>11
  <2>2. Shown(printed[c] \o ws, Text[Src(c)], n + m)
    BY ONLY <2>1, ShownMore, Zenon
  <2> QED BY <1>4, <2>2
<1>13. Arrived(c, n + m)'
  <2>0. Len(w) \in Nat
    BY <1>4 DEF w
  <2>1. n + m + Len(v) = sent[c]
    BY <1>7, <1>8, <2>0
  <2>2. ASSUME NEW i \in 1..Len(v) PROVE v[i] = Text[Src(c)][n + m + i]
    <3>1. m + i \in 1..Len(w) /\ n + (m + i) = n + m + i
      BY <1>8, <2>0
    <3> QED BY <1>7, <1>8, <3>1
  <2> QED BY <1>3, <1>12, <2>1, <2>2 DEF Arrived, v, Src
<1>14. n + m \in Nat
  BY <1>8
<1> QED BY <1>3, <1>5, <1>13, <1>14 DEF Whole, Finished, Src, Dst

LEMMA SendWhole ==
    ASSUME TypeOK, NEW c \in Links, Send(c), Whole(c) PROVE Whole(c)'
<1>1. /\ UNCHANGED <<peer, out, refused, in, printed, flushed>>
      /\ peer[Src(c)] = "up" /\ out[c] = "send" /\ peer[Dst(c)] = "up"
      /\ sent[c] < Len(Text[Src(c)])
      /\ sent'[c] = sent[c] + 1 /\ sent[c] \in Nat
      /\ wire'[c] = Append(wire[c], Text[Src(c)][sent[c] + 1])
      /\ wire[c] \in Seq(Words)
  BY DEF Send, TypeOK, fileVars
<1>2. in[c] # "closed" /\ ~refused[c]
  BY <1>1 DEF Whole, Finished
<1>3. PICK n \in Nat : Arrived(c, n)
  BY <1>2 DEF Whole
<1> DEFINE w == wire[c]
           v == wire'[c]
           text == Text[Src(c)]
<1>4. n + Len(w) = sent[c] /\ (\A i \in 1..Len(w) : w[i] = text[n + i])
      /\ Shown(printed[c], text, n)
  BY <1>3 DEF Arrived
<1>5. text[sent[c] + 1] \in Words
  <2>1. text \in Seq(Words)
    BY LinksType, TextAssumption
  <2> HIDE DEF text
  <2>2. sent[c] < Len(text)
    BY <1>1 DEF text
  <2> QED BY <1>1, <2>1, <2>2
<1>6. /\ Len(w) \in Nat /\ Len(v) = Len(w) + 1 /\ v[Len(w) + 1] = text[sent[c] + 1]
      /\ \A i \in 1..Len(w) : v[i] = w[i]
  <2>1. w \in Seq(Words) /\ v = Append(w, text[sent[c] + 1])
    BY <1>1
  <2> HIDE DEF w, v, text
  <2> QED BY <1>5, <2>1
<1> HIDE DEF w, v, text
<1>7. Arrived(c, n)'
  <2>1. n + Len(v) = sent[c] + 1
    BY <1>1, <1>4, <1>6
  <2>2. ASSUME NEW i \in 1..Len(v) PROVE v[i] = text[n + i]
    <3>1. CASE i \in 1..Len(w)
      BY <1>4, <1>6, <3>1
    <3>2. CASE i \notin 1..Len(w)
      <4>1. /\ Len(w) \in Nat /\ Len(v) = Len(w) + 1 /\ sent[c] \in Nat
            /\ n + Len(w) = sent[c]
        BY <1>1, <1>4, <1>6
      <4>2. i = Len(w) + 1 /\ n + i = sent[c] + 1
        BY ONLY <3>2, <4>1, i \in 1..Len(v), n \in Nat
      <4> QED BY <1>6, <4>2
    <3> QED BY <3>1, <3>2
  <2> QED BY <1>1, <1>4, <2>1, <2>2 DEF Arrived, v, text, Src
<1> QED BY <1>1, <1>2, <1>7 DEF Whole, Finished, Src, Dst

LEMMA NextWhole == Inv /\ AllWhole /\ [Next]_vars => AllWhole'
<1> SUFFICES ASSUME Inv, AllWhole, [Next]_vars PROVE AllWhole'
  OBVIOUS
<1>0. TypeOK
  BY DEF Inv
<1>1. ASSUME NEW c \in Links, Whole(c)',
             \A d \in Links \ {c} :
                /\ out'[d] = out[d] /\ sent'[d] = sent[d] /\ refused'[d] = refused[d]
                /\ wire'[d] = wire[d] /\ in'[d] = in[d] /\ printed'[d] = printed[d]
                /\ flushed'[d] = flushed[d],
             \A p \in Peers : peer[p] = "gone" => peer'[p] = "gone"
      PROVE  AllWhole'
  BY <1>1, WholeFrame DEF AllWhole
<1>2. ASSUME UNCHANGED <<sendVars, wire, in, fileVars>>,
             \A p \in Peers : peer[p] = "gone" => peer'[p] = "gone"
      PROVE  AllWhole'
  BY <1>2, WholeFrame DEF AllWhole, sendVars, fileVars
<1>3. CASE UNCHANGED vars
  BY <1>2, <1>3 DEF vars
<1>4. ASSUME NEW p \in Peers, Start(p) \/ Stop(p) PROVE AllWhole'
  BY <1>0, <1>2, <1>4 DEF Start, Stop, TypeOK
<1>5. ASSUME NEW c \in Links, Connect(c) PROVE AllWhole'
  <2>1. in[c] = "none"
    BY <1>5 DEF Inv, Unconnected, Connect
  <2>2. out'[c] = "send" /\ in'[c] = "queued"
        /\ \A d \in Links \ {c} : out'[d] = out[d] /\ in'[d] = in[d]
    BY <1>0, <1>5 DEF Connect, TypeOK
  <2>3. UNCHANGED <<peer, sent, refused, wire, printed, flushed>>
    BY <1>5 DEF Connect, fileVars
  <2>4. \A n \in Nat : Arrived(c, n) => Arrived(c, n)'
    BY <2>3 DEF Arrived, Src
  <2>5. Whole(c)'
    BY <2>2, <2>3, <2>4 DEF AllWhole, Whole, Dst
  <2> QED BY <1>1, <2>2, <2>3, <2>5
<1>6. ASSUME NEW c \in Links, Send(c) PROVE AllWhole'
  <2>1. Whole(c)'
    BY <1>0, <1>6, SendWhole DEF AllWhole
  <2> QED BY <1>0, <1>1, <1>6, <2>1 DEF Send, TypeOK, fileVars
<1>7. ASSUME NEW c \in Links, SendRefused(c) PROVE AllWhole'
  <2>1. /\ peer[Src(c)] = "up" /\ out[c] = "send" /\ peer[Dst(c)] = "gone"
        /\ UNCHANGED <<out, wire, in, printed, flushed>>
    BY <1>7 DEF SendRefused, fileVars
  <2>2. Whole(c)
    BY DEF AllWhole
  <2>3. CASE refused[c]
    BY <1>0, <1>2, <1>7, <2>3 DEF SendRefused, TypeOK, sendVars
  <2>4. CASE ~refused[c]
    <3>1. /\ refused'[c] /\ peer' = peer
          /\ \A d \in Links \ {c} : refused'[d] = refused[d] /\ sent'[d] = sent[d]
      BY <1>0, <1>7, <2>4 DEF SendRefused, TypeOK
    <3>2. in[c] # "closed"
      BY <2>1, <2>2 DEF Whole, Finished
    <3>3. Whole(c)'
      BY <2>1, <3>1, <3>2 DEF Whole, Dst
    <3> QED BY <1>1, <2>1, <3>1, <3>3
  <2> QED BY <2>3, <2>4
<1>8. ASSUME NEW c \in Links, CloseSend(c) PROVE AllWhole'
  <2>1. /\ out'[c] = "closed" /\ sent[c] = Len(Text[Src(c)])
        /\ \A d \in Links \ {c} : out'[d] = out[d]
        /\ UNCHANGED <<peer, sent, refused, wire, in, printed, flushed>>
    BY <1>0, <1>8 DEF CloseSend, TypeOK, fileVars
  <2>2. \A n \in Nat : Arrived(c, n) => Arrived(c, n)'
    BY <2>1 DEF Arrived, Src
  <2>3. Whole(c)'
    BY <2>1, <2>2 DEF AllWhole, Whole, Finished, Src, Dst
  <2> QED BY <1>1, <2>1, <2>3
<1>9. ASSUME NEW c \in Links, OpenFile(c) PROVE AllWhole'
  <2>1. /\ in[c] = "queued" /\ in'[c] = "open"
        /\ \A d \in Links \ {c} : in'[d] = in[d]
        /\ UNCHANGED <<peer, out, sent, refused, wire, printed, flushed>>
    BY <1>0, <1>9 DEF OpenFile, TypeOK, sendVars
  <2>2. \A n \in Nat : Arrived(c, n) => Arrived(c, n)'
    BY <2>1 DEF Arrived, Src
  <2>3. Whole(c)'
    BY <2>1, <2>2 DEF AllWhole, Whole, Src, Dst
  <2> QED BY <1>1, <2>1, <2>3
<1>10. ASSUME NEW c \in Links, Recv(c) PROVE AllWhole'
  <2>1. Whole(c)'
    BY <1>0, <1>10, RecvWhole DEF AllWhole
  <2> QED BY <1>0, <1>1, <1>10, <2>1 DEF Recv, TypeOK, sendVars
<1>11. ASSUME NEW c \in Links, FlushBlock(c) PROVE AllWhole'
  <2>1. /\ in[c] = "open" /\ flushed' = [flushed EXCEPT ![c] = @ + Room(c)]
        /\ UNCHANGED <<peer, out, sent, refused, wire, in, printed>>
    BY <1>11 DEF FlushBlock, Flush, Open, sendVars
  <2>2. \A d \in Links : flushed'[d] = flushed[d] \/ in[d] # "closed"
    BY <1>0, <2>1 DEF TypeOK
  <2> QED BY <2>1, <2>2, WholeFrame DEF AllWhole
<1>12. ASSUME NEW c \in Links, CloseFile(c) PROVE AllWhole'
  <2>1. /\ in[c] = "open" /\ in'[c] = "closed" /\ peer[Dst(c)] = "up"
        /\ Finished(c) /\ wire[c] = <<>>
        /\ \A d \in Links \ {c} : in'[d] = in[d] /\ flushed'[d] = flushed[d]
        /\ UNCHANGED <<peer, out, sent, refused, wire, printed>>
    BY <1>0, <1>12 DEF CloseFile, Flush, Open, TypeOK, sendVars
  <2>2. flushed'[c] = Len(printed[c])
    <3>1. flushed'[c] = flushed[c] + (Len(printed[c]) - flushed[c])
      BY <1>0, <1>12 DEF CloseFile, Flush, Buffered, TypeOK
    <3>2. flushed[c] \in Nat /\ Len(printed[c]) \in Nat
      BY LinkTypes
    <3> QED BY <3>1, <3>2
  <2>3. \A n \in Nat : Arrived(c, n) => Arrived(c, n)'
    BY <2>1 DEF Arrived, Src
  <2>4. Whole(c)'
    BY <2>1, <2>2, <2>3 DEF AllWhole, Whole, Finished, Src, Dst
  <2> QED BY <1>1, <2>1, <2>4
<1> QED BY <1>3, <1>4, <1>5, <1>6, <1>7, <1>8, <1>9, <1>10, <1>11, <1>12
        DEF Next, Connection, Process

LEMMA InitWhole == Init => AllWhole
<1> SUFFICES ASSUME Init, NEW c \in Links PROVE Whole(c)
  BY DEF AllWhole
<1>1. /\ out[c] = "connect" /\ sent[c] = 0 /\ refused[c] = FALSE /\ wire[c] = <<>>
      /\ in[c] = "none" /\ printed[c] = <<>>
  BY DEF Init
<1>2. Shown(printed[c], Text[Src(c)], 0)
  <2> DEFINE none == [k \in 1..0 |-> 0]
  <2>1. none \in [1..0 -> 1..Len(printed[c])]
    OBVIOUS
  <2>2. \A i \in 1..Len(printed[c]) : FALSE
    BY <1>1
  <2> QED BY <2>1, <2>2 DEF Shown
<1>3. Arrived(c, 0)
  BY <1>1, <1>2 DEF Arrived
<1> QED BY <1>1, <1>3 DEF Whole

\* A thread that has closed rcvN (proxy1.c, process()) has written all it has printed; if
\* the sender came to its end, this shows all the words of its file in their order.
THEOREM ClosedIsWhole == Spec => []ClosedIsComplete
<1>1. Inv /\ AllWhole => ClosedIsComplete
  <2> SUFFICES ASSUME Inv, AllWhole, NEW c \in Links, in[c] = "closed"
               PROVE  /\ flushed[c] = Len(printed[c])
                      /\ out[c] = "closed" => Shows(printed[c], Text[Src(c)])
    BY DEF ClosedIsComplete
  <2>1. /\ Whole(c) /\ ~refused[c] /\ wire[c] = <<>> /\ flushed[c] = Len(printed[c])
        /\ out[c] = "closed" => sent[c] = Len(Text[Src(c)])
    BY DEF AllWhole, Whole
  <2>2. PICK n \in Nat : Arrived(c, n)
    BY <2>1 DEF Whole
  <2>3. n = sent[c] /\ Shown(printed[c], Text[Src(c)], n)
    BY <2>1, <2>2 DEF Arrived
  <2> QED BY <2>1, <2>3 DEF Shown, Shows
<1>2. Inv /\ AllWhole /\ [Next]_vars => AllWhole'
  BY NextWhole
<1> QED BY <1>1, <1>2, InitWhole, InvInvariant, PTL DEF Spec

=============================================================================
