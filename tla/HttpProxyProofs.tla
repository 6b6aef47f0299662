--------------------------- MODULE HttpProxyProofs ---------------------------
(***************************************************************************)
(* Proofs about HttpProxy: what check() decides, what the time limit does  *)
(* and what the relay can do to an answer, for any word, any URIs, any     *)
(* answers, those with a 0 in them too, and any size of the buffer.        *)
(***************************************************************************)
EXTENDS HttpProxy, FiniteSetTheorems, TLAPS

\* The word does not begin in front of where check() looks.
Behind(s) ==
    \A k \in 0..Len(uri) - Len(Word) :
        k < s => \E l \in 1..Len(Word) : uri[k + l] # Word[l]

\* What a round of check() knows: i characters match from start on.
Scanned ==
    /\ pc \in {"check", "lookup", "connect", "relay"} => uri \in Uris
    /\ pc = "check" =>
        /\ i < Len(Word) /\ start + i <= Len(uri)
        /\ \A l \in 1..i : uri[start + l] = Word[l]
        /\ Behind(start)

\* The browser accepted behind the limit is served when the limit is looked at again.
Limit == late = 0 \/ (late = 1 /\ expired /\ pc # "accept")

\* Behind the longest piece, the buffer is what it was when it was allocated.
Clean ==
    pc = "relay" /\ zeroed =>
        \A k \in 1..Width + 1 :
            (\A m \in DOMAIN took : Len(took[m]) < k) => returndata[k] = Nul

RelayInv == Clean /\ ExactUnlessShorter /\ NothingLost

Inv == TypeOK /\ Scanned /\ CheckExact /\ Limit /\ RelayInv

-----------------------------------------------------------------------------
(* What strlen() and recv() do to a buffer. *)

\* strlen() ends in front of the first 0, or of the end of the buffer.
LEMMA LengthEnds ==
    ASSUME NEW S, NEW buf \in Seq(S)
    PROVE  /\ Length(buf) \in 0..Len(buf)
           /\ \A k \in 1..Length(buf) : buf[k] # Nul
           /\ Length(buf) < Len(buf) => buf[Length(buf) + 1] = Nul
<1> DEFINE L == {k \in 1..Len(buf) : \A l \in 1..k : buf[l] # Nul}
           z == Cardinality(L)
<1>1. \A n \in Nat : IsFiniteSet(1..n) /\ Cardinality(1..n) = n
  <2>1. ASSUME NEW n \in Nat PROVE IsFiniteSet(1..n) /\ Cardinality(1..n) = n
    <3>1. 1 \in Int /\ n \in Int /\ n >= 0
      OBVIOUS
    <3>2. IsFiniteSet(1..n) /\ Cardinality(1..n) = IF 1 > n THEN 0 ELSE n - 1 + 1
      BY <3>1, FS_Interval, Zenon
    <3> QED BY <3>1, <3>2
  <2> QED BY <2>1
<1>2. Len(buf) \in Nat
  OBVIOUS
<1>3. IsFiniteSet(L) /\ z <= Len(buf)
  <2>1. L \in SUBSET (1..Len(buf))
    OBVIOUS
  <2>2. IsFiniteSet(1..Len(buf)) /\ Cardinality(1..Len(buf)) = Len(buf)
    BY <1>1, <1>2
  <2> QED BY <2>1, <2>2, FS_Subset
<1>4. z \in Nat
  BY <1>3, FS_CardinalityType
<1>5. \A k \in L : k \in Nat /\ 1..k \subseteq L
  BY <1>2
<1> HIDE DEF L
<1>6. \A k \in L : k <= z
  <2>1. ASSUME NEW k \in L PROVE k <= z
    <3>1. k \in Nat /\ 1..k \in SUBSET L
      BY <1>5
    <3>2. Cardinality(1..k) <= z
      BY <1>3, <3>1, FS_Subset
    <3> QED BY <1>1, <3>1, <3>2
  <2> QED BY <2>1
<1>7. L = 1..z
  <2>1. L \subseteq 1..z
    BY <1>2, <1>4, <1>6 DEF L
  <2>2. IsFiniteSet(1..z) /\ Cardinality(1..z) = z
    BY <1>1, <1>4
  <2> QED BY <2>1, <2>2, FS_Subset
<1>8. z \in 0..Len(buf) /\ \A k \in 1..z : buf[k] # Nul
  <2>1. ASSUME NEW k \in 1..z PROVE buf[k] # Nul
    <3>1. k \in L /\ k \in 1..k
      BY <1>4, <1>7
    <3> QED BY <3>1 DEF L
  <2> QED BY <1>2, <1>3, <1>4, <2>1
<1>9. z < Len(buf) => buf[z + 1] = Nul
  <2> SUFFICES ASSUME z < Len(buf), buf[z + 1] # Nul PROVE FALSE
    OBVIOUS
  <2>1. z + 1 \in 1..Len(buf)
    BY <1>2, <1>4
  <2>2. \A l \in 1..z + 1 : buf[l] # Nul
    BY <1>4, <1>8
  <2>3. z + 1 \in L
    BY <2>1, <2>2 DEF L
  <2> QED BY <1>4, <1>7, <2>3
<1>10. Length(buf) = z
  BY DEF Length, L
<1> QED BY <1>8, <1>9, <1>10

\* recv() writes the first cells and leaves the others.
LEMMA IntoCells ==
    ASSUME NEW S, NEW buf \in Seq(S), NEW bytes \in Seq(S), Len(bytes) <= Len(buf)
    PROVE  /\ Into(buf, bytes) \in Seq(S)
           /\ Len(Into(buf, bytes)) = Len(buf)
           /\ \A k \in 1..Len(bytes) : Into(buf, bytes)[k] = bytes[k]
           /\ \A k \in Len(bytes) + 1 .. Len(buf) : Into(buf, bytes)[k] = buf[k]
<1> DEFINE rest == SubSeq(buf, Len(bytes) + 1, Len(buf))
<1>1. /\ rest \in Seq(S)
      /\ Len(rest) = Len(buf) - Len(bytes)
      /\ \A k \in 1..Len(rest) : rest[k] = buf[Len(bytes) + k]
  OBVIOUS
<1> HIDE DEF rest
<1>2. /\ bytes \o rest \in Seq(S)
      /\ Len(bytes \o rest) = Len(buf)
      /\ \A k \in 1..Len(bytes) : (bytes \o rest)[k] = bytes[k]
      /\ \A k \in Len(bytes) + 1 .. Len(buf) : (bytes \o rest)[k] = rest[k - Len(bytes)]
  BY <1>1
<1>3. \A k \in Len(bytes) + 1 .. Len(buf) : rest[k - Len(bytes)] = buf[k]
  BY <1>1
<1>4. Into(buf, bytes) = bytes \o rest
  BY DEF Into, rest
<1> QED BY <1>2, <1>3, <1>4

LEMMA TextCells ==
    ASSUME NEW S, NEW buf \in Seq(S)
    PROVE  /\ Text(buf) \in Seq(S)
           /\ Len(Text(buf)) = Length(buf)
           /\ \A k \in 1..Length(buf) : Text(buf)[k] = buf[k]
<1>1. Length(buf) \in 0..Len(buf)
  BY LengthEnds
<1> QED BY <1>1 DEF Text

\* z bytes of the piece are in front of its first 0.
FirstNul(piece, z) ==
    /\ z \in 0..Len(piece)
    /\ \A k \in 1..z : piece[k] # Nul
    /\ z < Len(piece) => piece[z + 1] = Nul

\* The bytes that arrive in front of a 0 are in what is sent on; and they are all of
\* it, if there is a 0 behind them, in their piece or in the buffer.
LEMMA TextOfInto ==
    ASSUME NEW buf \in Seq(Bytes), NEW piece \in Seq(Bytes), Len(piece) < Len(buf)
    PROVE  \E z \in 0..Len(piece) :
             LET text == Text(Into(buf, piece))
             IN  /\ FirstNul(piece, z)
                 /\ text \in Seq(Bytes)
                 /\ z <= Len(text)
                 /\ \A k \in 1..z : text[k] = piece[k]
                 /\ buf[Len(piece) + 1] = Nul => Len(text) = z
<1> DEFINE new == Into(buf, piece)
           text == Text(new)
           n == Len(piece)
           z == Length(piece)
           y == Length(new)
<1>1. n \in Nat /\ Len(buf) \in Nat
  OBVIOUS
<1>2. /\ new \in Seq(Bytes) /\ Len(new) = Len(buf)
      /\ \A k \in 1..n : new[k] = piece[k]
      /\ new[n + 1] = buf[n + 1]
  <2>1. n + 1 \in n + 1 .. Len(buf) /\ n <= Len(buf)
    BY <1>1
  <2> QED BY <2>1, IntoCells
<1> HIDE DEF new
<1>3. z \in 0..n /\ FirstNul(piece, z)
  BY LengthEnds DEF FirstNul
<1>4. /\ y \in 0..Len(new) /\ \A k \in 1..y : new[k] # Nul
      /\ y < Len(new) => new[y + 1] = Nul
  BY <1>2, LengthEnds
<1>5. text \in Seq(Bytes) /\ Len(text) = y /\ \A k \in 1..y : text[k] = new[k]
  BY <1>2, TextCells
<1> HIDE DEF z, y, n, text
<1>6. z <= y
  <2> SUFFICES ASSUME y < z PROVE FALSE
    BY <1>2, <1>3, <1>4, <1>1
  <2>1. y + 1 \in 1..z /\ y + 1 \in 1..n /\ y < Len(new)
    BY <1>1, <1>2, <1>3, <1>4 DEF n
  <2>2. new[y + 1] = Nul /\ new[y + 1] = piece[y + 1] /\ piece[y + 1] # Nul
    BY <1>2, <1>3, <1>4, <2>1 DEF FirstNul
  <2> QED BY <2>2
<1>7. ASSUME buf[n + 1] = Nul PROVE y = z
  <2> SUFFICES ASSUME z < y PROVE FALSE
    BY <1>1, <1>2, <1>3, <1>4, <1>6
  <2>1. z + 1 \in 1..y
    BY <1>1, <1>2, <1>3, <1>4
  <2>2. new[z + 1] = Nul
    <3>1. CASE z < n
      <4>1. piece[z + 1] = Nul /\ z + 1 \in 1..n
        BY <1>1, <1>3, <3>1 DEF FirstNul, n
      <4> QED BY <1>2, <4>1
    <3>2. CASE z = n
      BY <1>2, <1>7, <3>2
    <3> QED BY <1>1, <1>3, <3>1, <3>2
  <2> QED BY <1>4, <2>1, <2>2
<1>8. \A k \in 1..z : text[k] = piece[k]
  <2>1. ASSUME NEW k \in 1..z PROVE text[k] = piece[k]
    <3>1. k \in 1..y /\ k \in 1..n
      BY <1>1, <1>2, <1>3, <1>4, <1>6
    <3> QED BY <1>2, <1>5, <3>1
  <2> QED BY <2>1
<1> QED BY <1>3, <1>5, <1>6, <1>7, <1>8 DEF text, new, n

-----------------------------------------------------------------------------
(* Type correctness *)

\* At(s, k) is the character, or the 0 at the end, which no character is.
LEMMA AtFacts ==
    ASSUME NEW s \in Seq(Chars), NEW k \in Nat
    PROVE  /\ k < Len(s) => At(s, k) = s[k + 1] /\ At(s, k) # Nul
           /\ At(s, k) = Nul <=> k >= Len(s)
<1>1. k < Len(s) => s[k + 1] \in Chars
  OBVIOUS
<1> QED BY <1>1, UrisAssumption DEF At

LEMMA ConstantTypes ==
    /\ Word \in Seq(Chars) /\ Len(Word) \in Nat \ {0}
    /\ Nul \in Bytes /\ Junk \in Bytes
    /\ \A u \in Uris : u \in Seq(Chars)
    /\ \A u \in Uris : Addresses[u] \in Nat /\ Reply[u] \in Seq(Bytes)
  BY UrisAssumption, HostsAssumption

LEMMA WidthIsNat == Width \in Nat /\ Width >= 1
<1>1. Width \in Nat \ {0}
  BY HostsAssumption
<1> QED BY ONLY <1>1

LEMMA PrefixType ==
    ASSUME NEW S, NEW s \in Seq(S), NEW n \in 0..Len(s)
    PROVE  SubSeq(s, 1, n) \in Seq(S)
  OBVIOUS

\* A piece of the wire, and the wire behind it.
LEMMA PieceTypes ==
    ASSUME TypeOK, NEW n \in 1..Width, n <= Len(wire)
    PROVE  /\ SubSeq(wire, 1, n) \in Seq(Bytes) /\ Len(SubSeq(wire, 1, n)) = n
           /\ SubSeq(wire, n + 1, Len(wire)) \in Seq(Bytes)
<1>1. wire \in Seq(Bytes)
  BY DEF TypeOK
<1>2. Width \in Nat
  BY HostsAssumption
<1>3. n \in 1..Width /\ n <= Len(wire)
  OBVIOUS
<1>4. QED
  BY ONLY <1>1, <1>2, <1>3

\* What one round of the relay does to the buffer, the browser and the history.
RelayRound(n, z) ==
    LET piece == SubSeq(wire, 1, n)
        text  == Text(returndata')
    IN  /\ piece \in Seq(Bytes) /\ Len(piece) = n /\ wire' \in Seq(Bytes)
        /\ took' = Append(took, piece)
        /\ returndata' \in Seq(Bytes) /\ Len(returndata') = Width + 1
        /\ \A k \in n + 1 .. Width + 1 : returndata'[k] = returndata[k]
        /\ got' = IF Gone(con) THEN got ELSE got \o text
        /\ FirstNul(piece, z)
        /\ text \in Seq(Bytes) /\ z <= Len(text)
        /\ \A k \in 1..z : text[k] = piece[k]
        /\ returndata[n + 1] = Nul => Len(text) = z

LEMMA RelayStep ==
    ASSUME TypeOK, Relay
    PROVE  \E n \in 1..Width : \E z \in 0..n : RelayRound(n, z)
<1>1. PICK n \in 1..Width : n <= Len(wire) /\ Received(n)
  BY DEF Relay
<1> DEFINE piece == SubSeq(wire, 1, n)
<1>2. piece \in Seq(Bytes) /\ Len(piece) = n /\ SubSeq(wire, n + 1, Len(wire)) \in Seq(Bytes)
  BY <1>1, PieceTypes
<1>3. /\ wire' = SubSeq(wire, n + 1, Len(wire)) /\ took' = Append(took, piece)
      /\ returndata' = Into(returndata, piece)
  BY <1>1 DEF Received
<1>4. returndata \in Seq(Bytes) /\ Len(returndata) = Width + 1 /\ Width \in Nat
  BY HostsAssumption DEF TypeOK, Relay
<1> HIDE DEF piece
<1>5. Len(piece) < Len(returndata) /\ n \in Nat
  BY <1>2, <1>4
<1>6. /\ returndata' \in Seq(Bytes) /\ Len(returndata') = Width + 1
      /\ \A k \in n + 1 .. Width + 1 : returndata'[k] = returndata[k]
  <2>1. /\ Into(returndata, piece) \in Seq(Bytes)
        /\ Len(Into(returndata, piece)) = Len(returndata)
        /\ \A k \in Len(piece) + 1 .. Len(returndata) :
              Into(returndata, piece)[k] = returndata[k]
    <3>1. Len(piece) <= Len(returndata)
      BY <1>4, <1>5
    <3> QED BY <1>2, <1>4, <3>1, IntoCells
  <2> QED BY <1>2, <1>3, <1>4, <2>1
<1>7. PICK z \in 0..Len(piece) :
        /\ FirstNul(piece, z)
        /\ Text(Into(returndata, piece)) \in Seq(Bytes)
        /\ z <= Len(Text(Into(returndata, piece)))
        /\ \A k \in 1..z : Text(Into(returndata, piece))[k] = piece[k]
        /\ returndata[Len(piece) + 1] = Nul => Len(Text(Into(returndata, piece))) = z
  BY <1>2, <1>4, <1>5, TextOfInto
<1>8. got' = IF Gone(con) THEN got ELSE got \o Text(returndata')
  BY DEF Relay
<1>9. RelayRound(n, z)
  BY <1>2, <1>3, <1>6, <1>7, <1>8 DEF piece, RelayRound
<1> QED BY <1>2, <1>9

LEMMA InitType == Init => TypeOK
<1> SUFFICES ASSUME Init PROVE TypeOK
  OBVIOUS
<1>1. 0 \in 0..Len(Word) /\ 0 \in 0..Len(uri)
  BY ConstantTypes DEF Init
<1>2. browser \in [Browsers -> {"away", "dialled", "asked", "gone", "served"}]
  BY DEF Init
<1>3. <<>> \in Seq(Browsers) /\ <<>> \in Seq(Bytes) /\ <<>> \in Seq(Seq(Bytes))
  OBVIOUS
<1> QED BY <1>1, <1>2, <1>3 DEF Init, TypeOK

LEMMA NextType == TypeOK /\ Scanned /\ [Next]_vars => TypeOK'
<1> SUFFICES ASSUME TypeOK, Scanned, [Next]_vars
             PROVE  TypeOK'
  OBVIOUS
<1> USE DEF TypeOK
<1>1. CASE UNCHANGED vars
  BY ZenonT(60), <1>1 DEF vars, browserVars, checkVars, dialVars, relayVars
<1>2. CASE \E b \in Browsers : Dial(b) \/ Ask(b) \/ HangUp(b)
  <2>1. PICK b \in Browsers : Dial(b) \/ Ask(b) \/ HangUp(b)
    BY <1>2
  <2>2. CASE Dial(b)
    <3>0. backlog \in Seq(Browsers) /\ backlog' = Append(backlog, b)
      BY <2>2 DEF Dial
    <3>1. backlog' \in Seq(Browsers)
      BY ONLY b \in Browsers, <3>0
    <3>2. browser' \in [Browsers -> {"away", "dialled", "asked", "gone", "served"}]
      BY <2>2 DEF Dial
    <3> QED BY ZenonT(60), <2>2, <3>1, <3>2 DEF Dial, checkVars, dialVars, relayVars
  <2>3. CASE Ask(b)
    BY ZenonT(60), <2>3 DEF Ask, checkVars, dialVars, relayVars
  <2>4. CASE HangUp(b)
    BY ZenonT(60), <2>4 DEF HangUp, checkVars, dialVars, relayVars
  <2> QED BY <2>1, <2>2, <2>3, <2>4
<1>3. CASE HostSends \/ Expire
  <2>1. CASE HostSends
    <3>1. fresh' \in Seq(Bytes) /\ wire' \in Seq(Bytes)
      BY <2>1 DEF HostSends
    <3> QED BY <2>1, <3>1 DEF HostSends, browserVars, checkVars, dialVars
  <2>2. CASE Expire
    BY ZenonT(60), <2>2 DEF Expire, browserVars, checkVars, dialVars, relayVars
  <2> QED BY <1>3, <2>1, <2>2
<1>4. CASE Top
  BY <1>4 DEF Top, Exit, browserVars, checkVars, dialVars, relayVars
<1>5. CASE Accept
  BY <1>5 DEF Accept, checkVars, dialVars, relayVars
<1>6. CASE GetData
  BY <1>6 DEF GetData, browserVars, dialVars, relayVars
<1>7. CASE Match
  <2>1. i' \in 0..Len(Word)
    BY <1>7 DEF Match, Scanned
  <2> QED BY <1>7, <2>1 DEF Match, Exit, browserVars, dialVars, relayVars
<1>8. CASE Mismatch
  BY <1>8 DEF Mismatch, browserVars, dialVars, relayVars
<1>9. CASE NoMatch
  BY <1>9 DEF NoMatch, browserVars, checkVars, dialVars, relayVars
<1>10. CASE LookUp
  BY <1>10 DEF LookUp, Exit, browserVars, checkVars, relayVars
<1>11. CASE Connect
  BY <1>11 DEF Connect, Scanned, browserVars, checkVars, relayVars
<1>12. CASE SendRequest
  <2>1. Reply[uri] \in Seq(Bytes)
    BY <1>12, ConstantTypes DEF SendRequest, Scanned
  <2>2. /\ \E n \in 0..Len(Reply[uri]) : fresh' = SubSeq(Reply[uri], 1, n)
        /\ returndata' \in [1..Width + 1 -> {Nul, Junk}]
        /\ wire' = <<>> /\ took' = <<>> /\ got' = <<>> /\ refused' = FALSE
        /\ zeroed' = (returndata' = [k \in 1..Width + 1 |-> Nul])
        /\ pc' = "relay" /\ cause' = cause
    BY <1>12, Zenon DEF SendRequest
  <2>3. fresh' \in Seq(Bytes)
    <3>1. PICK n \in 0..Len(Reply[uri]) : fresh' = SubSeq(Reply[uri], 1, n)
      BY <2>2, Zenon
    <3>2. SubSeq(Reply[uri], 1, n) \in Seq(Bytes)
      BY <2>1, <3>1, PrefixType, Zenon
    <3> QED BY <3>1, <3>2, Zenon
  <2>4. returndata' \in Seq(Bytes) /\ Len(returndata') = Width + 1
    <3>1. Width + 1 \in Nat
      BY ONLY WidthIsNat
    <3>2. {Nul, Junk} \subseteq Bytes
      BY ConstantTypes
    <3>3. returndata' \in [1..Width + 1 -> Bytes]
      BY ONLY <2>2, <3>2
    <3> QED BY ONLY <3>1, <3>3
  <2>5. wire' \in Seq(Bytes) /\ took' \in Seq(Seq(Bytes)) /\ got' \in Seq(Bytes)
    BY ONLY <2>2
  <2>6. zeroed' \in BOOLEAN
    BY <2>2, Zenon
  <2> QED BY <1>12, <2>2, <2>3, <2>4, <2>5, <2>6
          DEF SendRequest, browserVars, checkVars, dialVars
<1>13. CASE Relay
  <2>1. /\ wire' \in Seq(Bytes) /\ took' \in Seq(Seq(Bytes))
        /\ returndata' \in Seq(Bytes) /\ Len(returndata') = Width + 1
        /\ got' \in Seq(Bytes)
    <3>1. took \in Seq(Seq(Bytes)) /\ got \in Seq(Bytes)
      OBVIOUS
    <3> HIDE DEF TypeOK
    <3>2. PICK piece \in Seq(Bytes), text \in Seq(Bytes) :
            /\ wire' \in Seq(Bytes) /\ took' = Append(took, piece)
            /\ returndata' \in Seq(Bytes) /\ Len(returndata') = Width + 1
            /\ got' = IF Gone(con) THEN got ELSE got \o text
      BY <1>13, RelayStep, Zenon DEF RelayRound
    <3> QED BY ONLY <3>1, <3>2
  <2>2. refused' \in BOOLEAN
    BY <1>13 DEF Relay, Gone
  <2> QED BY <1>13, <2>1, <2>2 DEF Relay, Exit, browserVars, checkVars, dialVars
<1>14. CASE EndRelay
  BY <1>14 DEF EndRelay, checkVars, dialVars, relayVars
<1>15. CASE GetDataFails \/ HostFails
  BY <1>15 DEF GetDataFails, HostFails, Exit, browserVars, checkVars, dialVars, relayVars
<1> QED BY <1>1, <1>2, <1>3, <1>4, <1>5, <1>6, <1>7, <1>8, <1>9, <1>10, <1>11, <1>12,
           <1>13, <1>14, <1>15 DEF Next, Proxy

-----------------------------------------------------------------------------
(* check() is exact *)

LEMMA InitScan == Init => Scanned /\ CheckExact
  BY DEF Init, Scanned, CheckExact

\* Steps that do not touch what check() works on, and do not get to its end.
LEMMA ScanFrame ==
    ASSUME TypeOK, Scanned, CheckExact, UNCHANGED <<uri, i, start>>,
           pc' = pc \/ pc' \notin {"check", "lookup", "connect", "relay"}
             \/ (pc \in {"lookup", "connect", "relay"} /\ pc' # "check"),
           cause' = cause \/ cause' # "offence"
    PROVE  Scanned' /\ CheckExact'
<1>1. Scanned'
  BY DEF Scanned, Behind
<1>2. CheckExact'
  BY DEF CheckExact, Occurs
<1> QED BY <1>1, <1>2

\* The scan begins: nothing is looked at yet.
LEMMA ScanBegins == TypeOK /\ GetData => Scanned' /\ CheckExact'
<1> SUFFICES ASSUME TypeOK, GetData PROVE Scanned' /\ CheckExact'
  OBVIOUS
<1>1. uri' \in Uris /\ i' = 0 /\ start' = 0 /\ pc' = "check" /\ cause' = "none"
  BY DEF GetData, TypeOK
<1>2. Len(uri') \in Nat /\ Len(Word) \in Nat \ {0}
  BY <1>1, ConstantTypes
<1> QED BY <1>1, <1>2 DEF Scanned, CheckExact, Behind

\* A character that does not match: the word does not begin at start.
LEMMA ScanMoves == TypeOK /\ Scanned /\ Mismatch => Scanned' /\ CheckExact'
<1> SUFFICES ASSUME TypeOK, Scanned, Mismatch PROVE Scanned' /\ CheckExact'
  OBVIOUS
<1>1. /\ uri \in Uris /\ i < Len(Word) /\ Behind(start)
      /\ pc = "check" /\ start < Len(uri) /\ At(uri, i + start) # At(Word, i)
      /\ i' = 0 /\ start' = start + 1 /\ UNCHANGED <<pc, cause, uri>>
  BY DEF Mismatch, Scanned
<1>2. uri \in Seq(Chars) /\ Word \in Seq(Chars) /\ Len(Word) \in Nat \ {0}
  BY <1>1, ConstantTypes
<1>3. i \in Nat /\ start \in Nat /\ Len(uri) \in Nat /\ cause = "none"
  BY <1>1, <1>2 DEF TypeOK
<1>4. ASSUME NEW k \in 0..Len(uri) - Len(Word), k < start + 1
      PROVE  \E l \in 1..Len(Word) : uri[k + l] # Word[l]
  <2>1. CASE k < start
    BY <1>1, <2>1 DEF Behind
  <2>2. CASE k = start
    <3>1. i + start < Len(uri) /\ i + start \in Nat
      BY <1>1, <1>3, <2>2
    <3>2. At(uri, i + start) = uri[(i + start) + 1]
      BY <1>2, <3>1, AtFacts
    <3>3. At(Word, i) = Word[i + 1]
      BY <1>1, <1>2, <1>3, AtFacts
    <3>4. uri[k + (i + 1)] # Word[i + 1]
      <4>1. k + (i + 1) = (i + start) + 1
        BY <1>3, <2>2
      <4> QED BY <1>1, <3>2, <3>3, <4>1
    <3>5. i + 1 \in 1..Len(Word)
      BY <1>1, <1>2, <1>3
    <3> QED BY <3>4, <3>5
  <2>3. k < start \/ k = start
    <3>1. k \in Int
      BY <1>2, <1>3
    <3> QED BY ONLY <3>1, <1>3, k < start + 1
  <2> QED BY <2>1, <2>2, <2>3, Zenon
<1>5. (Behind(start))'
  BY <1>1, <1>4 DEF Behind
<1> QED BY <1>1, <1>2, <1>3, <1>5 DEF Scanned, CheckExact

\* A character that matches is no 0: with the last one the word is there.
LEMMA ScanMatches == TypeOK /\ Scanned /\ Match => Scanned' /\ CheckExact'
<1> SUFFICES ASSUME TypeOK, Scanned, Match PROVE Scanned' /\ CheckExact'
  OBVIOUS
<1>1. /\ uri \in Uris /\ i < Len(Word) /\ start + i <= Len(uri) /\ Behind(start)
      /\ \A l \in 1..i : uri[start + l] = Word[l]
      /\ pc = "check" /\ start < Len(uri) /\ At(uri, i + start) = At(Word, i)
      /\ i' = i + 1 /\ UNCHANGED <<start, uri>>
  BY DEF Match, Scanned
<1>2. uri \in Seq(Chars) /\ Word \in Seq(Chars) /\ Len(Word) \in Nat \ {0}
  BY <1>1, ConstantTypes
<1>3. i \in Nat /\ start \in Nat /\ Len(uri) \in Nat /\ cause = "none"
  BY <1>1, <1>2 DEF TypeOK
<1>4. At(Word, i) = Word[i + 1] /\ At(Word, i) # Nul
  BY <1>1, <1>2, <1>3, AtFacts
<1>5. i + start < Len(uri) /\ At(uri, i + start) = uri[(i + start) + 1]
  <2>1. i + start \in Nat
    BY <1>3
  <2>2. ~(i + start >= Len(uri))
    BY <1>1, <1>2, <1>4, <2>1, AtFacts
  <2>3. i + start < Len(uri)
    BY <1>3, <2>2
  <2> QED BY <1>2, <2>1, <2>3, AtFacts
<1>6. \A l \in 1..i + 1 : uri[start + l] = Word[l]
  <2>1. ASSUME NEW l \in 1..i + 1
        PROVE  uri[start + l] = Word[l]
    <3>1. CASE l \in 1..i
      BY <1>1, <3>1
    <3>2. CASE l = i + 1
      <4>1. start + (i + 1) = (i + start) + 1
        BY <1>3
      <4> QED BY <1>1, <1>4, <1>5, <3>2, <4>1
    <3>3. l \in 1..i \/ l = i + 1
      BY <1>3
    <3> QED BY <3>1, <3>2, <3>3
  <2> QED BY <2>1
<1>7. CASE At(Word, i + 1) = Nul
  <2>1. pc' = "exited" /\ cause' = "offence"
    BY <1>7 DEF Match, Exit
  <2>2. i + 1 = Len(Word)
    BY <1>1, <1>2, <1>3, <1>7, AtFacts
  <2>3. Occurs(Word, uri)
    <3>1. start \in 0..Len(uri) - Len(Word)
      BY <1>2, <1>3, <1>5, <2>2
    <3> QED BY <1>6, <2>2, <3>1 DEF Occurs
  <2> QED BY <1>1, <2>1, <2>3 DEF Scanned, CheckExact
<1>8. CASE At(Word, i + 1) # Nul
  <2>1. pc' = "check" /\ cause' = "none"
    BY <1>1, <1>3, <1>8 DEF Match
  <2>2. i + 1 < Len(Word)
    BY <1>1, <1>2, <1>3, <1>8, AtFacts
  <2>3. start + (i + 1) <= Len(uri)
    BY <1>3, <1>5
  <2>4. (Behind(start))'
    BY <1>1 DEF Behind
  <2> QED BY <1>1, <1>6, <2>1, <2>2, <2>3, <2>4 DEF Scanned, CheckExact
<1> QED BY <1>7, <1>8

\* The end of the URI: the word begins nowhere.
LEMMA ScanEnds == TypeOK /\ Scanned /\ NoMatch => Scanned' /\ CheckExact'
<1> SUFFICES ASSUME TypeOK, Scanned, NoMatch PROVE Scanned' /\ CheckExact'
  OBVIOUS
<1>1. /\ uri \in Uris /\ Behind(start) /\ pc = "check" /\ start >= Len(uri)
      /\ pc' = "lookup" /\ UNCHANGED <<cause, uri>>
  BY DEF NoMatch, Scanned
<1>2. Len(Word) \in Nat \ {0} /\ uri \in Seq(Chars)
  BY <1>1, ConstantTypes
<1>3. start \in Nat /\ Len(uri) \in Nat /\ cause = "none"
  BY <1>1, <1>2 DEF TypeOK
<1>4. ~Occurs(Word, uri)
  <2>1. \A k \in 0..Len(uri) - Len(Word) : k < start
    BY <1>1, <1>2, <1>3
  <2> QED BY <1>1, <2>1 DEF Behind, Occurs
<1> QED BY <1>1, <1>3, <1>4 DEF Scanned, CheckExact

LEMMA NextScan == TypeOK /\ Scanned /\ CheckExact /\ [Next]_vars => Scanned' /\ CheckExact'
<1> SUFFICES ASSUME TypeOK, Scanned, CheckExact, [Next]_vars
             PROVE  Scanned' /\ CheckExact'
  OBVIOUS
<1>1. CASE UNCHANGED vars
  BY <1>1, ScanFrame DEF vars, checkVars
<1>2. CASE \E b \in Browsers : Dial(b) \/ Ask(b) \/ HangUp(b)
  BY <1>2, ScanFrame DEF Dial, Ask, HangUp, checkVars
<1>3. CASE HostSends \/ Expire
  BY <1>3, ScanFrame DEF HostSends, Expire, checkVars
<1>4. CASE Top \/ Accept
  BY <1>4, ScanFrame DEF Top, Accept, Exit, checkVars
<1>5. CASE LookUp \/ Connect
  BY <1>5, ScanFrame DEF LookUp, Connect, Exit, checkVars
<1>6. CASE GetDataFails \/ HostFails \/ SendRequest
  BY <1>6, ScanFrame DEF GetDataFails, HostFails, SendRequest, Exit, checkVars
<1>7. CASE Relay \/ EndRelay
  BY <1>7, ScanFrame DEF Relay, EndRelay, Exit, checkVars
<1> QED BY <1>1, <1>2, <1>3, <1>4, <1>5, <1>6, <1>7, ScanBegins, ScanMatches, ScanMoves,
           ScanEnds DEF Next, Proxy

-----------------------------------------------------------------------------
(* One browser behind the limit *)

LEMMA NextLimit == TypeOK /\ Limit /\ [Next]_vars => Limit'
<1> SUFFICES ASSUME TypeOK, Limit, [Next]_vars PROVE Limit'
  OBVIOUS
<1> USE DEF Limit
<1>1. CASE UNCHANGED vars
  BY <1>1 DEF vars
<1>2. CASE \E b \in Browsers : Dial(b) \/ Ask(b) \/ HangUp(b)
  BY <1>2 DEF Dial, Ask, HangUp
<1>3. CASE HostSends \/ Expire
  BY <1>3 DEF HostSends, Expire
<1>4. CASE Top
  BY <1>4 DEF Top, Exit
<1>5. CASE Accept
  BY <1>5 DEF Accept
<1>6. CASE GetData \/ Match \/ Mismatch \/ NoMatch
  BY <1>6 DEF GetData, Match, Mismatch, NoMatch, Exit
<1>7. CASE LookUp \/ Connect \/ SendRequest
  BY <1>7 DEF LookUp, Connect, SendRequest, Exit
<1>9. CASE GetDataFails \/ HostFails
  BY <1>9 DEF GetDataFails, HostFails, Exit
<1>8. CASE Relay \/ EndRelay
  BY <1>8 DEF Relay, EndRelay, Exit
<1> QED BY <1>1, <1>2, <1>3, <1>4, <1>5, <1>6, <1>7, <1>8, <1>9 DEF Next, Proxy

-----------------------------------------------------------------------------
(* What the relay does to an answer *)

\* Steps that leave the relay alone, or end it.
LEMMA RelayFrame ==
    ASSUME TypeOK, RelayInv, UNCHANGED <<returndata, zeroed, took, got>>,
           pc' = "relay" => pc = "relay" /\ con' = con,
           \A b \in Browsers : Gone(b) => browser'[b] = "gone"
    PROVE  RelayInv'
<1>1. Clean'
  BY DEF RelayInv, Clean
<1>2. Relaying' => Relaying
  BY DEF Relaying, Gone, TypeOK
<1>3. Kept' = Kept
  BY DEF Kept, Arrived
<1>4. NothingLost'
  <2>1. HasGot(Kept) => HasGot(Kept)'
    BY <1>3 DEF HasGot, GotAt
  <2> QED BY <1>2, <2>1 DEF RelayInv, NothingLost
<1>5. ExactUnlessShorter'
  <2>1. HasGotOnly(Kept) => HasGotOnly(Kept)'
    BY <1>3 DEF HasGotOnly, GotAt, OnlyAt
  <2> QED BY <1>2, <2>1 DEF RelayInv, ExactUnlessShorter, Growing
<1> QED BY <1>1, <1>4, <1>5 DEF RelayInv

LEMMA RelayBegins == SendRequest => RelayInv'
<1> SUFFICES ASSUME SendRequest PROVE RelayInv'
  OBVIOUS
<1>1. /\ zeroed' = (returndata' = [k \in 1..Width + 1 |-> Nul])
      /\ took' = <<>> /\ got' = <<>>
  BY Zenon DEF SendRequest
<1>2. Clean'
  <2>1. zeroed' => \A k \in 1..Width + 1 : returndata'[k] = Nul
    BY <1>1
  <2> QED BY <2>1 DEF Clean
<1>3. Kept' = {} /\ DOMAIN got' = {}
  <2>1. DOMAIN <<>> = {}
    OBVIOUS
  <2> QED BY <1>1, <2>1 DEF Kept, Arrived
<1>4. PICK none \in [{} -> {}] : TRUE
  <2>1. [a \in {} |-> 1] \in [{} -> {}]
    OBVIOUS
  <2> QED BY <2>1
<1>5. NothingLost'
  <2>1. HasGot(Kept)'
    BY <1>3, <1>4 DEF HasGot, GotAt
  <2> QED BY <2>1 DEF NothingLost
<1>6. ExactUnlessShorter'
  <2>1. HasGotOnly(Kept)'
    BY <1>3, <1>4 DEF HasGotOnly, GotAt, OnlyAt
  <2> QED BY <2>1 DEF ExactUnlessShorter
<1> QED BY <1>2, <1>5, <1>6 DEF RelayInv

\* One more piece, and the pieces before it.
LEMMA AppendFacts ==
    ASSUME NEW S, NEW s \in Seq(Seq(S)), NEW e \in Seq(S)
    PROVE  /\ DOMAIN s = 1..Len(s) /\ Len(s) \in Nat
           /\ DOMAIN Append(s, e) = 1..Len(s) + 1
           /\ Append(s, e)[Len(s) + 1] = e
           /\ \A k \in 1..Len(s) : Append(s, e)[k] = s[k] /\ s[k] \in Seq(S)
  OBVIOUS

LEMMA TookGrows ==
    ASSUME TypeOK, NEW piece \in Seq(Bytes), took' = Append(took, piece)
    PROVE  /\ DOMAIN took = 1..Len(took) /\ Len(took) \in Nat
           /\ DOMAIN took' = 1..Len(took) + 1
           /\ took'[Len(took) + 1] = piece
           /\ \A k \in 1..Len(took) : took'[k] = took[k] /\ took[k] \in Seq(Bytes)
<1>1. took \in Seq(Seq(Bytes))
  BY DEF TypeOK
<1> QED BY <1>1, AppendFacts

\* A piece that is not shorter than one before it leaves the rest of the buffer clean.
LEMMA GrowingEnds ==
    ASSUME TypeOK, NEW piece \in Seq(Bytes), took' = Append(took, piece)
    PROVE  /\ Growing' => Growing
           /\ Growing' => \A k \in DOMAIN took : Len(took[k]) <= Len(piece)
<1>1. /\ DOMAIN took = 1..Len(took) /\ Len(took) \in Nat
      /\ DOMAIN took' = 1..Len(took) + 1
      /\ took'[Len(took) + 1] = piece
      /\ \A k \in 1..Len(took) : took'[k] = took[k]
  BY TookGrows
<1>2. /\ DOMAIN took \subseteq DOMAIN took' /\ Len(took) + 1 \in DOMAIN took'
      /\ \A k \in DOMAIN took : k < Len(took) + 1
  BY <1>1
<1>3. Growing' => Growing
  BY <1>1, <1>2 DEF Growing
<1>4. Growing' => \A k \in DOMAIN took : Len(took[k]) <= Len(piece)
  BY <1>1, <1>2 DEF Growing
<1> QED BY <1>3, <1>4

\* What is kept of one more piece is what is in front of its first 0.
LEMMA KeptGrows ==
    ASSUME TypeOK, NEW piece \in Seq(Bytes), took' = Append(took, piece),
           NEW z, FirstNul(piece, z)
    PROVE  /\ \A a \in Kept : a \in Kept' /\ a[1] \in 1..Len(took)
                              /\ took'[a[1]][a[2]] = took[a[1]][a[2]]
           /\ \A k \in 1..z : <<Len(took) + 1, k>> \in Kept'
           /\ \A a \in Kept' : a \in Kept \/ \E k \in 1..z : a = <<Len(took) + 1, k>>
<1>1. /\ DOMAIN took = 1..Len(took) /\ Len(took) \in Nat
      /\ DOMAIN took' = 1..Len(took) + 1
      /\ took'[Len(took) + 1] = piece
      /\ \A k \in 1..Len(took) : took'[k] = took[k] /\ took[k] \in Seq(Bytes)
  BY TookGrows
<1>2. \A a \in Arrived : \E m \in DOMAIN took : \E k \in DOMAIN took[m] : a = <<m, k>>
  BY DEF Arrived
<1>3. \A a \in Arrived' : \E m \in DOMAIN took' : \E k \in DOMAIN took'[m] : a = <<m, k>>
  BY DEF Arrived
<1>4. \A m \in DOMAIN took : \A k \in DOMAIN took[m] : <<m, k>> \in Arrived
  BY DEF Arrived
<1>5. \A m \in DOMAIN took' : \A k \in DOMAIN took'[m] : <<m, k>> \in Arrived'
  BY DEF Arrived
<1>6. ASSUME NEW a \in Kept
      PROVE  a \in Kept' /\ a[1] \in 1..Len(took) /\ took'[a[1]][a[2]] = took[a[1]][a[2]]
  <2>0. PICK m \in DOMAIN took : \E k \in DOMAIN took[m] : a = <<m, k>>
    BY <1>2 DEF Kept
  <2>1. PICK k \in DOMAIN took[m] : a = <<m, k>>
    BY <2>0
  <2>2. m \in 1..Len(took) /\ m \in DOMAIN took' /\ took'[m] = took[m] /\ a[1] = m /\ a[2] = k
    BY <1>1, <2>0, <2>1
  <2>3. a \in Arrived'
    BY <1>5, <2>1, <2>2
  <2>4. \A l \in 1..a[2] : took'[a[1]][l] # Nul
    BY <2>2 DEF Kept
  <2>5. a \in Kept'
    BY <2>3, <2>4 DEF Kept
  <2> QED BY <2>2, <2>5
<1>7. ASSUME NEW k \in 1..z
      PROVE  <<Len(took) + 1, k>> \in Kept'
  <2>1. Len(took) + 1 \in DOMAIN took' /\ k \in DOMAIN piece /\ 1..k \subseteq 1..z
    BY <1>1 DEF FirstNul
  <2>2. <<Len(took) + 1, k>> \in Arrived'
    BY <1>1, <1>5, <2>1
  <2>3. \A l \in 1..k : took'[Len(took) + 1][l] # Nul
    BY <1>1, <2>1 DEF FirstNul
  <2> QED BY <2>2, <2>3 DEF Kept
<1>8. ASSUME NEW a \in Kept'
      PROVE  a \in Kept \/ \E k \in 1..z : a = <<Len(took) + 1, k>>
  <2>0. PICK m \in DOMAIN took' : \E k \in DOMAIN took'[m] : a = <<m, k>>
    BY <1>3 DEF Kept
  <2>1. PICK k \in DOMAIN took'[m] : a = <<m, k>>
    BY <2>0
  <2>2. \A l \in 1..k : took'[m][l] # Nul
    BY <2>1 DEF Kept
  <2>3. CASE m \in 1..Len(took)
    <3>1. m \in DOMAIN took /\ took'[m] = took[m]
      BY <1>1, <2>3
    <3>2. a \in Arrived
      BY <1>4, <2>1, <3>1
    <3> QED BY <2>1, <2>2, <3>1, <3>2 DEF Kept
  <2>4. CASE m = Len(took) + 1
    <3>1. took'[m] = piece /\ k \in 1..Len(piece) /\ k \in Nat
      BY <1>1, <2>1, <2>4
    <3>2. k <= z
      <4> SUFFICES ASSUME z < k PROVE FALSE
        BY <3>1 DEF FirstNul
      <4>1. z + 1 \in 1..k /\ z < Len(piece)
        BY <3>1 DEF FirstNul
      <4> QED BY <2>2, <3>1, <4>1 DEF FirstNul
    <3>3. k \in 1..z
      BY <3>1, <3>2 DEF FirstNul
    <3> QED BY <2>1, <2>4, <3>3
  <2> QED BY <1>1, <2>1, <2>3, <2>4
<1> QED BY <1>6, <1>7, <1>8

\* What is sent on goes behind what was sent before, as the piece behind the others.
LEMMA GotGrows ==
    ASSUME TypeOK, NEW piece \in Seq(Bytes), took' = Append(took, piece),
           NEW z, FirstNul(piece, z),
           NEW text \in Seq(Bytes), got' = got \o text, z <= Len(text),
           \A k \in 1..z : text[k] = piece[k],
           NEW at \in [Kept -> DOMAIN got], GotAt(Kept, at)
    PROVE  \E new \in [Kept' -> DOMAIN got'] :
             /\ GotAt(Kept, new)'
             /\ Len(text) = z /\ OnlyAt(Kept, at) => OnlyAt(Kept, new)'
<1> DEFINE M == Len(took) + 1
           g == Len(got)
<1>1. /\ \A a \in Kept : a \in Kept' /\ a[1] \in 1..Len(took)
                         /\ took'[a[1]][a[2]] = took[a[1]][a[2]]
      /\ \A k \in 1..z : <<M, k>> \in Kept'
      /\ \A a \in Kept' : a \in Kept \/ \E k \in 1..z : a = <<M, k>>
  BY KeptGrows
<1>2. M - 1 = Len(took) /\ M \in Nat /\ took'[M] = piece /\ z \in Nat
  BY TookGrows DEF FirstNul
<1>3. got \in Seq(Bytes)
  BY DEF TypeOK
<1>4. /\ g \in Nat /\ DOMAIN got = 1..g /\ DOMAIN got' = 1..g + Len(text) /\ Len(text) \in Nat
      /\ \A k \in 1..g : got'[k] = got[k]
      /\ \A k \in 1..Len(text) : got'[g + k] = text[k]
  BY <1>3
<1>5. \A a \in Kept : at[a] \in 1..g /\ a[1] < M
  BY <1>1, <1>2, <1>4
<1> HIDE DEF g, M
<1>6. \A a \in Kept' : (IF a[1] = M THEN g + a[2] ELSE at[a]) \in DOMAIN got'
  <2>1. ASSUME NEW a \in Kept, a[1] # M PROVE at[a] \in 1..g + Len(text)
    BY <1>4, <1>5, <2>1
  <2>2. ASSUME NEW k \in 1..z PROVE g + k \in 1..g + Len(text)
    BY <1>2, <1>4
  <2> QED BY <1>1, <1>2, <1>4, <1>5, <2>1, <2>2
<1>7. PICK new \in [Kept' -> DOMAIN got'] :
        \A a \in Kept' : new[a] = IF a[1] = M THEN g + a[2] ELSE at[a]
  <2> DEFINE all == [a \in Kept' |-> IF a[1] = M THEN g + a[2] ELSE at[a]]
  <2>1. all \in [Kept' -> DOMAIN got']
    BY <1>6
  <2> QED BY <2>1
<1>8. (\A a \in Kept : new[a] = at[a]) /\ \A k \in 1..z : new[<<M, k>>] = g + k
  <2>1. \A a \in Kept : a \in Kept' /\ a[1] # M
    BY <1>1, <1>2, <1>5
  <2>2. \A k \in 1..z : <<M, k>> \in Kept' /\ <<M, k>>[1] = M /\ <<M, k>>[2] = k
    BY <1>1
  <2> QED BY <1>7, <2>1, <2>2
<1>9. ASSUME NEW a \in Kept', NEW b \in Kept', Before(a, b)
      PROVE  new[a] < new[b]
  <2>1. CASE a \in Kept /\ b \in Kept
    BY <1>8, <1>9, <2>1 DEF GotAt
  <2>2. CASE a \in Kept /\ \E k \in 1..z : b = <<M, k>>
    BY <1>2, <1>4, <1>5, <1>8, <2>2
  <2>3. CASE b \in Kept /\ \E k \in 1..z : a = <<M, k>>
    <3>1. a[1] = M /\ b[1] < M /\ b[1] \in Int
      BY <1>1, <1>5, <2>3
    <3> QED BY <1>2, <1>9, <3>1 DEF Before
  <2>4. CASE (\E k \in 1..z : a = <<M, k>>) /\ (\E k \in 1..z : b = <<M, k>>)
    <3>1. PICK k \in 1..z : a = <<M, k>>
      BY <2>4
    <3>2. PICK l \in 1..z : b = <<M, l>>
      BY <2>4
    <3>3. k < l
      BY <1>2, <1>9, <3>1, <3>2 DEF Before
    <3>4. new[a] = g + k /\ new[b] = g + l
      BY <1>8, <3>1, <3>2
    <3> QED BY <1>2, <1>4, <3>3, <3>4
  <2> QED BY <1>1, <2>1, <2>2, <2>3, <2>4
<1>10. ASSUME NEW a \in Kept'
      PROVE  got'[new[a]] = took'[a[1]][a[2]]
  <2>1. CASE a \in Kept
    <3>1. got[at[a]] = took[a[1]][a[2]] /\ got'[at[a]] = got[at[a]] /\ new[a] = at[a]
      BY <1>4, <1>5, <1>8, <2>1 DEF GotAt
    <3> QED BY <1>1, <2>1, <3>1
  <2>2. CASE \E k \in 1..z : a = <<M, k>>
    <3>1. PICK k \in 1..z : a = <<M, k>>
      BY <2>2
    <3>2. k \in 1..Len(text)
      BY <1>2, <1>4
    <3>3. got'[g + k] = text[k] /\ text[k] = piece[k]
      BY <1>4, <3>2
    <3>4. took'[a[1]][a[2]] = piece[k]
      BY <1>2, <3>1
    <3>5. new[a] = g + k
      BY <1>8, <3>1
    <3> QED BY <3>3, <3>4, <3>5
  <2> QED BY <1>1, <2>1, <2>2
<1>11. ASSUME Len(text) = z, OnlyAt(Kept, at), NEW k \in DOMAIN got'
       PROVE  \E a \in Kept' : new[a] = k
  <2>1. CASE k \in 1..g
    BY <1>1, <1>4, <1>8, <1>11, <2>1 DEF OnlyAt
  <2>2. CASE k \notin 1..g
    <3>1. k - g \in 1..z /\ g + (k - g) = k
      BY <1>4, <1>11, <2>2
    <3> QED BY <1>1, <1>8, <3>1
  <2> QED BY <2>1, <2>2
<1>12. GotAt(Kept, new)'
  BY <1>9, <1>10 DEF GotAt, Before
<1>13. Len(text) = z /\ OnlyAt(Kept, at) => OnlyAt(Kept, new)'
  BY <1>11 DEF OnlyAt
<1> QED BY <1>12, <1>13

LEMMA RelayGoesOn == TypeOK /\ RelayInv /\ Relay => RelayInv'
<1> SUFFICES ASSUME TypeOK, RelayInv, Relay PROVE RelayInv'
  OBVIOUS
<1>1. PICK n \in 1..Width : \E z \in 0..n : RelayRound(n, z)
  BY RelayStep, Zenon
<1>2. PICK z \in 0..n : RelayRound(n, z)
  BY <1>1, Zenon
<1> DEFINE piece == SubSeq(wire, 1, n)
           text == Text(returndata')
<1>3. /\ piece \in Seq(Bytes) /\ Len(piece) = n /\ took' = Append(took, piece)
      /\ FirstNul(piece, z)
      /\ text \in Seq(Bytes) /\ z <= Len(text)
      /\ \A k \in 1..z : text[k] = piece[k]
      /\ returndata[n + 1] = Nul => Len(text) = z
      /\ \A k \in n + 1 .. Width + 1 : returndata'[k] = returndata[k]
      /\ got' = IF Gone(con) THEN got ELSE got \o text
  BY <1>2 DEF RelayRound
<1> HIDE DEF piece, text
<1>4. /\ DOMAIN took' = 1..Len(took) + 1 /\ DOMAIN took = 1..Len(took) /\ Len(took) \in Nat
      /\ took'[Len(took) + 1] = piece
      /\ \A k \in 1..Len(took) : took'[k] = took[k] /\ took[k] \in Seq(Bytes)
  BY <1>3, TookGrows
<1>5. n \in Nat /\ Width \in Nat /\ n <= Width
  BY ONLY n \in 1..Width, WidthIsNat
<1>6. pc = "relay" /\ UNCHANGED <<browser, con, zeroed>>
  BY DEF Relay, browserVars
<1>7. Clean'
  <2> SUFFICES ASSUME pc' = "relay", zeroed', NEW k \in 1..Width + 1,
                      \A m \in DOMAIN took' : Len(took'[m]) < k
               PROVE  returndata'[k] = Nul
    BY DEF Clean
  <2>1. n < k /\ \A m \in DOMAIN took : Len(took[m]) < k
    <3>1. Len(took) + 1 \in DOMAIN took' /\ DOMAIN took \subseteq DOMAIN took'
      BY <1>4
    <3> QED BY <1>3, <1>4, <3>1
  <2>2. returndata'[k] = returndata[k]
    BY <1>3, <1>5, <2>1
  <2> QED BY <1>6, <2>1, <2>2 DEF RelayInv, Clean
<1>8. ASSUME Relaying' PROVE Relaying /\ got' = got \o text
  BY <1>3, <1>6, <1>8 DEF Relaying, Gone
<1>9. ASSUME Relaying' PROVE HasGot(Kept)'
  <2>1. PICK at \in [Kept -> DOMAIN got] : GotAt(Kept, at)
    BY <1>8, <1>9 DEF RelayInv, NothingLost, HasGot
  <2>2. \E new \in [Kept' -> DOMAIN got'] : GotAt(Kept, new)'
    BY <1>3, <1>8, <1>9, <2>1, GotGrows
  <2> QED BY <2>2 DEF HasGot
<1>10. ASSUME Relaying', zeroed', Growing' PROVE HasGotOnly(Kept)'
  <2>1. Growing /\ \A k \in DOMAIN took : Len(took[k]) <= n
    BY <1>3, <1>10, GrowingEnds
  <2>2. returndata[n + 1] = Nul
    <3>1. n + 1 \in 1..Width + 1 /\ \A m \in DOMAIN took : Len(took[m]) < n + 1
      BY <1>4, <1>5, <2>1
    <3> QED BY <1>6, <1>10, <3>1 DEF RelayInv, Clean
  <2>3. PICK at \in [Kept -> DOMAIN got] : GotAt(Kept, at) /\ OnlyAt(Kept, at)
    BY <1>6, <1>8, <1>10, <2>1 DEF RelayInv, ExactUnlessShorter, HasGotOnly
  <2>4. Len(text) = z /\ got' = got \o text
    BY <1>3, <1>8, <1>10, <2>2
  <2>5. \E new \in [Kept' -> DOMAIN got'] :
          GotAt(Kept, new)' /\ (Len(text) = z /\ OnlyAt(Kept, at) => OnlyAt(Kept, new)')
    BY <1>3, <2>3, <2>4, GotGrows
  <2> QED BY <2>3, <2>4, <2>5 DEF HasGotOnly
<1> QED BY <1>7, <1>9, <1>10 DEF RelayInv, ExactUnlessShorter, NothingLost

LEMMA NextRelay == TypeOK /\ RelayInv /\ [Next]_vars => RelayInv'
<1> SUFFICES ASSUME TypeOK, RelayInv, [Next]_vars PROVE RelayInv'
  OBVIOUS
<1>1. CASE UNCHANGED vars
  BY <1>1, RelayFrame DEF vars, relayVars, browserVars, Gone
<1>2. CASE \E b \in Browsers : Dial(b) \/ Ask(b) \/ HangUp(b)
  BY <1>2, RelayFrame DEF Dial, Ask, HangUp, relayVars, Gone, TypeOK
<1>3. CASE HostSends \/ Expire
  BY <1>3, RelayFrame DEF HostSends, Expire, relayVars, browserVars, Gone
<1>4. CASE Top \/ Accept \/ GetData
  BY <1>4, RelayFrame DEF Top, Accept, GetData, Exit, relayVars, browserVars, Gone
<1>5. CASE Match \/ Mismatch \/ NoMatch
  BY <1>5, RelayFrame DEF Match, Mismatch, NoMatch, Exit, relayVars, browserVars, Gone
<1>6. CASE LookUp \/ Connect
  BY <1>6, RelayFrame DEF LookUp, Connect, Exit, relayVars, browserVars, Gone
<1>7. CASE EndRelay
  BY <1>7, RelayFrame DEF EndRelay, relayVars, Gone, TypeOK
<1>8. CASE GetDataFails \/ HostFails
  BY <1>8, RelayFrame DEF GetDataFails, HostFails, Exit, relayVars, browserVars, Gone
<1> QED BY <1>1, <1>2, <1>3, <1>4, <1>5, <1>6, <1>7, <1>8, RelayBegins, RelayGoesOn
        DEF Next, Proxy

-----------------------------------------------------------------------------
LEMMA InitInv == Init => Inv
<1>1. Init => Limit /\ RelayInv
  BY DEF Init, Limit, RelayInv, Clean, ExactUnlessShorter, NothingLost, Relaying
<1> QED BY <1>1, InitType, InitScan DEF Inv

LEMMA InvInvariant == Spec => []Inv
<1>1. Inv /\ [Next]_vars => Inv'
  BY NextType, NextScan, NextLimit, NextRelay DEF Inv
<1> QED BY <1>1, InitInv, PTL DEF Spec

\* Every variable of the proxy keeps its type.
THEOREM TypeCorrect == Spec => []TypeOK
<1>1. Inv => TypeOK
  BY DEF Inv
<1> QED BY <1>1, InvInvariant, PTL

\* check() ends the program for every URI that has the word in it, and for no other,
\* though it begins again behind a part of the word that matched.
THEOREM CheckIsExact == Spec => []CheckExact
<1>1. Inv => CheckExact
  BY DEF Inv
<1> QED BY <1>1, InvInvariant, PTL

\* At most one browser is accepted after the time limit.
THEOREM LimitHolds == Spec => []OneAfterLimit
<1>1. Inv => OneAfterLimit
  BY DEF Inv, Limit, OneAfterLimit
<1> QED BY <1>1, InvInvariant, PTL

\* Every byte the proxy has received gets to the browser, in order, but those behind
\* a 0 of the piece they came in, which strlen() does not see.
THEOREM RelayLosesNothing == Spec => []NothingLost
<1>1. Inv => NothingLost
  BY DEF Inv, RelayInv
<1> QED BY <1>1, InvInvariant, PTL

\* Nothing else gets there if the buffer began with 0 everywhere and the pieces did
\* not get shorter: an answer without a 0 in it is then relayed unchanged.
THEOREM RelayIsExact == Spec => []ExactUnlessShorter
<1>1. Inv => ExactUnlessShorter
  BY DEF Inv, RelayInv
<1> QED BY <1>1, InvInvariant, PTL

=============================================================================
