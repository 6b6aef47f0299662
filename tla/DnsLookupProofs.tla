--------------------------- MODULE DnsLookupProofs ---------------------------
(***************************************************************************)
(* Proofs about DnsLookup with one shell, for any strings and any two      *)
(* files: a request is where it must be at every moment, so the next       *)
(* datagram is the right one, although no program looks.                   *)
(***************************************************************************)
EXTENDS DnsLookup, SequenceTheorems, WellFoundedInduction, TLAPS

\* The case in which the programs keep to what they promise; see MCTwoShells.
OneShell == \E c : Clients = {c}

\* The first file gives a name one address.
OneAddress == \A i, j \in Hosts(Dns) : Dns[i] = Dns[j] => i = j

Mail(from, what) == [from |-> from, what |-> what]

At(c, s, v, t) == shell[c] = s /\ server = v /\ tld = t
Mailed(c, toShell, toServer, toTld) ==
    inbox[c] = toShell /\ inbox[Server] = toServer /\ inbox[Tld] = toTld

\* The request before the server has read the name, and when the server looks.
Early(c) ==
    \/ At(c, "shell", "bit", "bit") /\ Mailed(c, <<>>, <<>>, <<>>)
    \/ At(c, "name", "bit", "bit") /\ Mailed(c, <<>>, <<Mail(c, Bit)>>, <<>>)
    \/ At(c, "name", "name", "bit") /\ Mailed(c, <<>>, <<>>, <<>>)
    \/ /\ At(c, "wait", "bit", "bit")
       /\ Mailed(c, <<>>, <<Mail(c, Bit), Mail(c, asked[c])>>, <<>>)
    \/ At(c, "wait", "name", "bit") /\ Mailed(c, <<>>, <<Mail(c, asked[c])>>, <<>>)
    \/ At(c, "wait", "look", "bit") /\ Mailed(c, <<>>, <<>>, <<>>) /\ hostname = asked[c]

\* The request when it is at the TLD server.
Asks(c) ==
    \/ At(c, "wait", "ask", "bit") /\ Mailed(c, <<>>, <<>>, <<Mail(Server, Bit)>>)
    \/ At(c, "wait", "ask", "name") /\ Mailed(c, <<>>, <<>>, <<>>)
    \/ /\ At(c, "wait", "tld", "bit")
       /\ Mailed(c, <<>>, <<>>, <<Mail(Server, Bit), Mail(Server, asked[c])>>)
    \/ At(c, "wait", "tld", "name") /\ Mailed(c, <<>>, <<>>, <<Mail(Server, asked[c])>>)
    \/ At(c, "wait", "tld", "look") /\ Mailed(c, <<>>, <<>>, <<>>) /\ tldhost = asked[c]
    \/ /\ At(c, "wait", "tld", "bit")
       /\ Mailed(c, <<>>, <<Mail(Tld, Zone(asked[c]))>>, <<>>)
    \/ At(c, "wait", "tell", "bit") /\ Mailed(c, <<>>, <<>>, <<>>) /\ address = Zone(asked[c])

\* The request that has been answered.
Answering(c) ==
    At(c, "wait", "bit", "bit") /\ Mailed(c, <<Mail(Server, Zone(asked[c]))>>, <<>>, <<>>)

\* A request is in one of these stages; the TLD server is asked for what the
\* server does not have.
Request(c) ==
    /\ shell[c] # "shell" => asked[c] \in Names
    /\ \/ Early(c)
       \/ Asks(c) /\ hostname = asked[c] /\ ~Has(dns, asked[c])
       \/ Answering(c)

\* The cache answers like the zone, and has forgotten nothing of its first file.
Cache ==
    /\ CacheExact
    /\ \A n \in Strings : Has(Dns, n) => Has(dns, n)

Inv(c) == TypeOK /\ Cache /\ Request(c)
ShellsInv == \A c \in Clients : Inv(c)

-----------------------------------------------------------------------------
(* Datagrams *)

LEMMA ShortQueues ==
    ASSUME NEW x, NEW y
    PROVE  /\ Append(<<>>, x) = <<x>> /\ Append(<<x>>, y) = <<x, y>>
           /\ Head(<<x>>) = x /\ Head(<<x, y>>) = x
           /\ Tail(<<x>>) = <<>> /\ Tail(<<x, y>>) = <<y>>
           /\ <<x>> # <<>> /\ <<x, y>> # <<>>
<1>1. Append(<<>>, x) = <<x>>
  OBVIOUS
<1>6. Append(<<x>>, y) = <<x, y>>
  <2> DEFINE S == {x, y}
             one == <<x>>
             two == <<x, y>>
             both == Append(one, y)
  <2>1. one \in Seq(S) /\ Len(one) = 1 /\ one[1] = x /\ y \in S
    OBVIOUS
  <2>2. two \in Seq(S) /\ Len(two) = 2 /\ two[1] = x /\ two[2] = y
    OBVIOUS
  <2> HIDE DEF S, one, two
  <2>3. /\ both \in Seq(S) /\ Len(both) = 2 /\ both[2] = y
        /\ \A k \in 1..1 : both[k] = one[k]
    BY <2>1
  <2> HIDE DEF both
  <2>4. \A k \in 1..2 : both[k] = two[k]
    BY <2>1, <2>2, <2>3
  <2>5. both = two
    BY ONLY <2>2, <2>3, <2>4, SeqEqual
  <2> QED BY <2>5 DEF both, one, two
<1>2. Head(<<x>>) = x /\ Head(<<x, y>>) = x
  OBVIOUS
<1>3. Tail(<<x>>) = <<>>
  OBVIOUS
<1>4. Tail(<<x, y>>) = <<y>>
  OBVIOUS
<1>5. <<x>> # <<>> /\ <<x, y>> # <<>>
  OBVIOUS
<1> QED BY <1>1, <1>2, <1>3, <1>4, <1>5, <1>6

LEMMA SendFacts ==
    ASSUME inbox \in [Programs -> Seq(Datagram)], NEW from \in Programs,
           NEW to \in Programs, NEW what \in Strings \cup {Bit}, Send(from, to, what)
    PROVE  /\ inbox' \in [Programs -> Seq(Datagram)]
           /\ inbox'[to] = Append(inbox[to], Mail(from, what))
           /\ \A p \in Programs : p # to => inbox'[p] = inbox[p]
<1>1. Mail(from, what) \in Datagram
  BY DEF Mail, Datagram
<1>2. Append(inbox[to], Mail(from, what)) \in Seq(Datagram)
  BY <1>1
<1>3. inbox' = [inbox EXCEPT ![to] = Append(inbox[to], Mail(from, what))]
  BY DEF Send, Mail
<1> QED BY <1>2, <1>3

LEMMA ReceiveFacts ==
    ASSUME inbox \in [Programs -> Seq(Datagram)], NEW p \in Programs,
           Arrived(p), Receive(p), NEW buffer \in Strings
    PROVE  /\ inbox' \in [Programs -> Seq(Datagram)]
           /\ inbox'[p] = Tail(inbox[p])
           /\ \A q \in Programs : q # p => inbox'[q] = inbox[q]
           /\ Into(buffer, p) \in Strings
<1>1. inbox[p] \in Seq(Datagram) /\ inbox[p] # <<>>
  BY DEF Arrived
<1>2. Tail(inbox[p]) \in Seq(Datagram) /\ Head(inbox[p]) \in Datagram
  BY <1>1
<1>3. Head(inbox[p]).what \in Strings \cup {Bit}
  BY <1>2 DEF Datagram
<1>4. inbox' = [inbox EXCEPT ![p] = Tail(inbox[p])]
  BY DEF Receive
<1>5. Into(buffer, p) \in Strings
  BY <1>3, StringsAssumption DEF Into
<1> QED BY <1>2, <1>4, <1>5

\* A name or an address that arrives is what was sent.
LEMMA IntoString ==
    ASSUME NEW p, NEW from, NEW s \in Strings, NEW buffer,
           inbox[p] = <<Mail(from, s)>>
    PROVE  Into(buffer, p) = s /\ From(p) = from
BY ShortQueues, StringsAssumption DEF Into, From, Mail

-----------------------------------------------------------------------------
(* Files *)

LEMMA FindFacts ==
    ASSUME NEW file \in Seq(Strings), Len(file) % 2 = 0, NEW host, Has(file, host)
    PROVE  \E i \in Hosts(file) :
             /\ file[i] = host /\ i + 1 \in 1..Len(file)
             /\ Find(file, host) = file[i + 1]
<1> DEFINE hits == {i \in Hosts(file) : file[i] = host}
           first == CHOOSE i \in Hosts(file) :
                      file[i] = host /\ \A j \in Hosts(file) : file[j] = host => i <= j
<1>1. hits \subseteq Nat /\ hits # {}
  BY DEF Has, Hosts
<1>2. PICK i \in hits : \A j \in hits : <<j, i>> \notin OpToRel(<, Nat)
  BY <1>1, NatLessThanWellFounded, WFMin, Zenon
<1>3. \A j \in hits : i <= j
  <2>1. ASSUME NEW j \in hits PROVE ~(j < i)
    <3>1. i \in Nat /\ j \in Nat
      BY <1>1, Zenon
    <3>2. ~(<<j, i>> \in {ss \in Nat \X Nat : ss[1] < ss[2]})
      BY <1>2, Zenon DEF OpToRel
    <3> QED BY <3>1, <3>2
  <2> QED BY <1>1, <2>1
<1>4. first \in Hosts(file) /\ file[first] = host
  <2>1. \E k \in Hosts(file) :
          file[k] = host /\ \A j \in Hosts(file) : file[j] = host => k <= j
    BY <1>3
  <2> QED BY <2>1
<1>5. first < Len(file) /\ first + 1 \in 1..Len(file)
  <2>1. Len(file) \in Nat /\ first \in 1..Len(file) /\ first % 2 = 1
    <3>1. first \in Hosts(file) /\ Len(file) \in Nat
      BY <1>4
    <3> HIDE DEF first
    <3> QED BY <3>1 DEF Hosts
  <2>2. first # Len(file)
    <3> HIDE DEF first
    <3> QED BY <2>1
  <2> HIDE DEF first
  <2> QED BY <2>1, <2>2
<1>6. Find(file, host) = file[first + 1]
  BY <1>5 DEF Find
<1> HIDE DEF first
<1> QED BY <1>4, <1>5, <1>6

\* An address of the zone is one word, or there is none.
LEMMA ZoneFacts ==
    ASSUME NEW n
    PROVE  /\ Zone(n) \in Strings
           /\ Zone(n) # NotFound => Words[Zone(n)] = <<Zone(n)>>
<1>1. ASSUME NEW file, Pairs(file), Has(file, n)
      PROVE  Find(file, n) \in Strings /\ Words[Find(file, n)] = <<Find(file, n)>>
  <2>1. file \in Seq(Strings) /\ Len(file) % 2 = 0
    BY <1>1 DEF Pairs
  <2>2. PICK i \in Hosts(file) : i + 1 \in 1..Len(file) /\ Find(file, n) = file[i + 1]
    BY <1>1, <2>1, FindFacts, Zenon
  <2>3. file[i + 1] \in Strings
    BY <2>1, <2>2
  <2> QED BY <1>1, <2>2, <2>3 DEF Pairs
<1> QED BY <1>1, FilesAssumption, StringsAssumption, Zenon DEF Zone

-----------------------------------------------------------------------------
(* The cache *)

LEMMA FirstCache ==
    ASSUME OneAddress, dns = Dns
    PROVE  Cache
<1>1. dns \in Seq(Strings) /\ Len(dns) % 2 = 0
  BY FilesAssumption DEF Pairs
<1>2. ASSUME NEW i \in Hosts(dns) PROVE dns[i + 1] = Zone(dns[i])
  <2>1. Has(Dns, Dns[i])
    BY <1>2 DEF Has
  <2>2. PICK j \in Hosts(Dns) : Dns[j] = Dns[i] /\ Find(Dns, Dns[i]) = Dns[j + 1]
    BY <1>1, <2>1, FindFacts, Zenon
  <2>3. j = i
    BY <2>2 DEF OneAddress
  <2> QED BY <2>1, <2>2, <2>3 DEF Zone
<1>3. \A i \in Hosts(dns) : \A j \in Hosts(dns) : dns[j] = dns[i] => j = i
  BY DEF OneAddress
<1> QED BY <1>1, <1>2, <1>3 DEF Cache, CacheExact

\* A name that the cache has is answered by the zone.
LEMMA CachedIsZone ==
    ASSUME Cache, dns \in Seq(Strings), NEW h, Has(dns, h)
    PROVE  Find(dns, h) = Zone(h)
<1>1. PICK i \in Hosts(dns) : dns[i] = h /\ Find(dns, h) = dns[i + 1]
  <2>1. Len(dns) % 2 = 0
    BY DEF Cache, CacheExact
  <2> QED BY <2>1, FindFacts, Zenon
<1> QED BY <1>1 DEF Cache, CacheExact

\* A name it does not have is answered by the TLD server.
LEMMA TldIsZone ==
    ASSUME Cache, NEW h \in Strings, ~Has(dns, h)
    PROVE  Zone(h) = IF Has(Hdns, h) THEN Find(Hdns, h) ELSE NotFound
<1>1. ~Has(Dns, h)
  BY DEF Cache
<1> QED BY <1>1 DEF Zone

LEMMA CacheGrows ==
    ASSUME Cache, dns \in Seq(Strings), NEW h \in Strings, ~Has(dns, h),
           dns' = dns \o <<h>> \o <<Zone(h)>>
    PROVE  Cache' /\ dns' \in Seq(Strings)
<1> DEFINE n == Len(dns)
           a == Zone(h)
           more == dns \o <<h>> \o <<a>>
<1>1. n \in Nat /\ n % 2 = 0 /\ a \in Strings
  <2>1. n \in Nat
    OBVIOUS
  <2>2. n % 2 = 0
    BY DEF Cache, CacheExact
  <2>3. a \in Strings
    BY ZoneFacts
  <2> QED BY ONLY <2>1, <2>2, <2>3
<1>2. /\ more \in Seq(Strings) /\ Len(more) = n + 2
      /\ more[n + 1] = h /\ more[n + 2] = a
      /\ \A i \in 1..n : more[i] = dns[i]
  <2> HIDE DEF a
  <2> DEFINE d == dns \o <<h>>
  <2>1. d \in Seq(Strings) /\ Len(d) = n + 1
    OBVIOUS
  <2>2. d[n + 1] = h /\ \A i \in 1..n : d[i] = dns[i]
    <3>1. \A i \in 1..n + 1 : d[i] = IF i <= n THEN dns[i] ELSE <<h>>[i - n]
      <4>1. <<h>> \in Seq(Strings) /\ Len(<<h>>) = 1
        OBVIOUS
      <4> QED BY <4>1
    <3> HIDE DEF d, n
    <3> QED BY <1>1, <3>1
  <2> HIDE DEF d
  <2>3. /\ d \o <<a>> \in Seq(Strings) /\ Len(d \o <<a>>) = n + 2
        /\ (d \o <<a>>)[n + 2] = a /\ \A i \in 1..n + 1 : (d \o <<a>>)[i] = d[i]
    <3> HIDE DEF n
    <3>1. <<a>> \in Seq(Strings) /\ Len(<<a>>) = 1 /\ <<a>>[1] = a
      BY <1>1
    <3> QED BY <1>1, <2>1, <3>1
  <2>4. more = d \o <<a>>
    BY DEF d
  <2>5. \A i \in 1..n : i \in 1..n + 1 /\ n + 1 \in 1..n + 1
    BY <1>1
  <2>6. (d \o <<a>>)[n + 1] = h
    BY <1>1, <2>2, <2>3
  <2>7. \A i \in 1..n : (d \o <<a>>)[i] = dns[i]
    BY <2>2, <2>3, <2>5
  <2> HIDE DEF more, n
  <2> QED BY ONLY <2>3, <2>4, <2>6, <2>7, Zenon
<1>3. dns' = more
  OBVIOUS
<1> HIDE DEF n, a, more
<1>4. Hosts(more) = Hosts(dns) \cup {n + 1} /\ Hosts(dns) \subseteq 1..n
  <2>1. (n + 1) % 2 = 1 /\ (n + 2) % 2 = 0
    BY ONLY <1>1, SMTT(30)
  <2>2. \A i \in 1..n + 2 : i \in 1..n \/ i = n + 1 \/ i = n + 2
    BY <1>1
  <2>3. 1..n \subseteq 1..n + 2 /\ n + 1 \in 1..n + 2
    BY <1>1
  <2>4. Hosts(more) = {i \in 1..n + 2 : i % 2 = 1} /\ Hosts(dns) = {i \in 1..n : i % 2 = 1}
    BY <1>2 DEF Hosts, n
  <2> QED BY <2>1, <2>2, <2>3, <2>4
<1>5. \A i \in Hosts(dns) : i + 1 \in 1..n
  <2>1. ASSUME NEW i \in 1..n, i % 2 = 1 PROVE i + 1 \in 1..n
    <3>1. i # n
      BY <1>1, <2>1
    <3> QED BY <1>1, <3>1
  <2> QED BY <2>1 DEF Hosts, n
<1>6. \A i \in Hosts(dns) : more[i] = dns[i] /\ more[i + 1] = dns[i + 1] /\ dns[i] # h
  <2>1. \A i \in Hosts(dns) : i \in 1..n
    BY <1>4
  <2>2. \A i \in Hosts(dns) : dns[i] # h
    BY DEF Has
  <2> QED BY <1>2, <1>5, <2>1, <2>2
<1>7. n + 1 \notin Hosts(dns) /\ n + 2 = (n + 1) + 1
  <2>1. n + 1 \notin 1..n /\ n + 2 = (n + 1) + 1
    BY <1>1
  <2> QED BY <1>4, <2>1
<1>8. \A i \in Hosts(more) :
        more[i + 1] = Zone(more[i]) /\ \A j \in Hosts(more) : more[j] = more[i] => j = i
  <2>1. \A i \in Hosts(dns) : dns[i + 1] = Zone(dns[i])
    BY DEF Cache, CacheExact
  <2>2. \A i, j \in Hosts(dns) : dns[j] = dns[i] => j = i
    BY DEF Cache, CacheExact
  <2>3. \A i \in Hosts(dns) : more[i + 1] = Zone(more[i])
    BY <1>6, <2>1
  <2>4. more[(n + 1) + 1] = Zone(more[n + 1])
    BY <1>2, <1>7 DEF a
  <2>5. \A i, j \in Hosts(more) : more[j] = more[i] => j = i
    BY <1>2, <1>4, <1>6, <2>2
  <2> QED BY <1>4, <2>3, <2>4, <2>5
<1>9. Len(more) % 2 = 0
  BY <1>1, <1>2
<1>10. ASSUME NEW m \in Strings, Has(Dns, m) PROVE Has(more, m)
  <2>1. PICK i \in Hosts(dns) : dns[i] = m
    BY <1>10 DEF Cache, Has
  <2> QED BY <1>4, <1>6, <2>1 DEF Has
<1>11. CacheExact'
  BY <1>3, <1>8, <1>9 DEF CacheExact
<1> QED BY <1>2, <1>3, <1>10, <1>11 DEF Cache

-----------------------------------------------------------------------------
(* The steps *)

LEMMA ThreePrograms ==
    ASSUME NEW c, Clients = {c}, TypeOK
    PROVE  /\ c \in Programs /\ Server \in Programs /\ Tld \in Programs
           /\ c # Server /\ c # Tld /\ Server # Tld /\ c \in Clients
           /\ \A d \in Clients : d = c
           /\ clientadr = c /\ tldadr = Tld /\ tldclient = Server
           /\ inbox \in [Programs -> Seq(Datagram)]
           /\ hostname \in Strings /\ address \in Strings /\ tldhost \in Strings
           /\ dns \in Seq(Strings) /\ shell \in [Clients -> {"shell", "name", "wait"}]
           /\ asked \in [Clients -> Names \cup {NoName}] /\ ip \in [Clients -> Strings]
           /\ Names \subseteq Strings /\ Bit \notin Strings
           /\ server \in {"bit", "name", "look", "ask", "tld", "tell"}
           /\ tld \in {"bit", "name", "look"}
BY ProgramsAssumption, StringsAssumption DEF Programs, TypeOK

\* What a step leaves alone does not change the cache.
LEMMA CacheKept ==
    ASSUME Cache, dns' = dns
    PROVE  Cache'
BY DEF Cache, CacheExact

LEMMA ShellSteps ==
    ASSUME NEW c, Clients = {c}, Inv(c), ShellStep(c)
    PROVE  Inv(c)'
<1>1. TypeOK /\ Cache /\ Request(c)
  BY DEF Inv
<1> USE <1>1, ThreePrograms, ShortQueues
<1>2. CASE Nslookup(c)
  <2>1. PICK n \in Names : asked' = [asked EXCEPT ![c] = n]
    BY <1>2 DEF Nslookup
  <2>2. At(c, "shell", "bit", "bit") /\ Mailed(c, <<>>, <<>>, <<>>)
    BY <1>2 DEF Nslookup, Request, Early, Asks, Answering, At
  <2>3. Send(c, Server, Bit)
    BY <1>2 DEF Nslookup
  <2>4. /\ inbox' \in [Programs -> Seq(Datagram)]
        /\ inbox'[Server] = Append(inbox[Server], Mail(c, Bit))
        /\ \A p \in Programs : p # Server => inbox'[p] = inbox[p]
    BY <2>3, SendFacts
  <2>5. Mailed(c, <<>>, <<Mail(c, Bit)>>, <<>>)'
    BY <2>2, <2>4 DEF Mailed
  <2>6. At(c, "name", "bit", "bit")' /\ asked'[c] \in Names /\ Cache'
    BY <1>2, <2>1, <2>2, CacheKept DEF Nslookup, At, serverVars, tldVars
  <2>7. TypeOK'
    BY <1>2, <2>1, <2>4 DEF Nslookup, TypeOK, serverVars, tldVars
  <2> QED BY <2>5, <2>6, <2>7 DEF Inv, Request, Early
<1>3. CASE SendName(c)
  <2>1. asked[c] \in Names /\ asked' = asked /\ Send(c, Server, asked[c])
    BY <1>3 DEF SendName, Request
  <2>2. /\ inbox' \in [Programs -> Seq(Datagram)]
        /\ inbox'[Server] = Append(inbox[Server], Mail(c, asked[c]))
        /\ \A p \in Programs : p # Server => inbox'[p] = inbox[p]
    <3>1. /\ inbox \in [Programs -> Seq(Datagram)] /\ c \in Programs /\ Server \in Programs
          /\ asked[c] \in Strings \cup {Bit}
      BY <2>1
    <3> QED BY ONLY <2>1, <3>1, SendFacts, Zenon
  <2>3. TypeOK' /\ Cache'
    BY <1>3, <2>2, CacheKept DEF SendName, TypeOK, serverVars, tldVars
  <2>4. \/ At(c, "name", "bit", "bit") /\ Mailed(c, <<>>, <<Mail(c, Bit)>>, <<>>)
        \/ At(c, "name", "name", "bit") /\ Mailed(c, <<>>, <<>>, <<>>)
    BY <1>3 DEF SendName, Request, Early, Asks, Answering, At
  <2>5. CASE At(c, "name", "bit", "bit") /\ Mailed(c, <<>>, <<Mail(c, Bit)>>, <<>>)
    <3>1. Mailed(c, <<>>, <<Mail(c, Bit), Mail(c, asked[c])>>, <<>>)'
      BY <2>1, <2>2, <2>5 DEF Mailed
    <3>2. At(c, "wait", "bit", "bit")'
      BY <1>3, <2>5 DEF SendName, At, serverVars, tldVars
    <3> QED BY <2>1, <2>3, <3>1, <3>2 DEF Inv, Request, Early
  <2>6. CASE At(c, "name", "name", "bit") /\ Mailed(c, <<>>, <<>>, <<>>)
    <3>1. Mailed(c, <<>>, <<Mail(c, asked[c])>>, <<>>)'
      BY <2>1, <2>2, <2>6 DEF Mailed
    <3>2. At(c, "wait", "name", "bit")'
      BY <1>3, <2>6 DEF SendName, At, serverVars, tldVars
    <3> QED BY <2>1, <2>3, <3>1, <3>2 DEF Inv, Request, Early
  <2> QED BY <2>4, <2>5, <2>6
<1>4. CASE Show(c)
  <2>1. At(c, "wait", "bit", "bit") /\ Mailed(c, <<Mail(Server, Zone(asked[c]))>>, <<>>, <<>>)
    BY <1>4 DEF Show, Arrived, Request, Early, Asks, Answering, At, Mailed
  <2>2. /\ inbox' \in [Programs -> Seq(Datagram)] /\ inbox'[c] = Tail(inbox[c])
        /\ \A q \in Programs : q # c => inbox'[q] = inbox[q]
        /\ Into(ip[c], c) \in Strings
    BY <1>4, ReceiveFacts DEF Show
  <2>3. Mailed(c, <<>>, <<>>, <<>>)'
    BY <2>1, <2>2 DEF Mailed
  <2>4. At(c, "shell", "bit", "bit")' /\ Cache'
    BY <1>4, <2>1, CacheKept DEF Show, At, serverVars, tldVars
  <2>5. TypeOK'
    BY <1>4, <2>2 DEF Show, TypeOK, serverVars, tldVars
  <2> QED BY <2>3, <2>4, <2>5 DEF Inv, Request, Early, At
<1>5. CASE ExitShell(c)
  <2>1. At(c, "shell", "bit", "bit") /\ Mailed(c, <<>>, <<>>, <<>>)
    BY <1>5 DEF ExitShell, Request, Early, Asks, Answering, At
  <2>2. inbox' = inbox
    BY <1>5, <2>1 DEF ExitShell, Mailed
  <2>3. At(c, "shell", "bit", "bit")' /\ Mailed(c, <<>>, <<>>, <<>>)' /\ Cache'
    BY <1>5, <2>1, <2>2, CacheKept DEF ExitShell, At, Mailed, serverVars, tldVars
  <2>4. TypeOK'
    BY <1>5, <2>2, StringsAssumption DEF ExitShell, TypeOK, serverVars, tldVars
  <2> QED BY <2>3, <2>4 DEF Inv, Request, Early, At
<1> QED BY <1>2, <1>3, <1>4, <1>5 DEF ShellStep

\* The server reads a request, and answers it from its file or asks for it.
LEMMA ServerReads ==
    ASSUME NEW c, Clients = {c}, Inv(c), ServerBit \/ ServerName
    PROVE  Inv(c)'
<1>1. TypeOK /\ Cache /\ Request(c)
  BY DEF Inv
<1> USE <1>1, ThreePrograms, ShortQueues
<1>2. CASE ServerBit
  <2>1. \/ At(c, "name", "bit", "bit") /\ Mailed(c, <<>>, <<Mail(c, Bit)>>, <<>>)
        \/ /\ At(c, "wait", "bit", "bit")
           /\ Mailed(c, <<>>, <<Mail(c, Bit), Mail(c, asked[c])>>, <<>>)
    BY <1>2 DEF ServerBit, Arrived, Request, Early, Asks, Answering, At, Mailed
  <2>2. /\ inbox' \in [Programs -> Seq(Datagram)] /\ inbox'[Server] = Tail(inbox[Server])
        /\ \A q \in Programs : q # Server => inbox'[q] = inbox[q]
    BY <1>2, ReceiveFacts DEF ServerBit
  <2>3. clientadr' = c
    BY <1>2, <2>1 DEF ServerBit, From, Mailed, Mail
  <2>4. TypeOK' /\ Cache'
    BY <1>2, <2>2, <2>3, CacheKept DEF ServerBit, TypeOK, clientVars, tldVars
  <2>5. shell'[c] # "shell" => asked'[c] \in Names
    BY <1>2 DEF ServerBit, Request, clientVars
  <2>6. CASE At(c, "name", "bit", "bit") /\ Mailed(c, <<>>, <<Mail(c, Bit)>>, <<>>)
    <3>1. At(c, "name", "name", "bit")' /\ Mailed(c, <<>>, <<>>, <<>>)'
      BY <1>2, <2>2, <2>6 DEF ServerBit, At, Mailed, clientVars, tldVars
    <3> QED BY <2>4, <2>5, <3>1 DEF Inv, Request, Early
  <2>7. CASE /\ At(c, "wait", "bit", "bit")
             /\ Mailed(c, <<>>, <<Mail(c, Bit), Mail(c, asked[c])>>, <<>>)
    <3>1. At(c, "wait", "name", "bit")' /\ Mailed(c, <<>>, <<Mail(c, asked[c])>>, <<>>)'
      BY <1>2, <2>2, <2>7 DEF ServerBit, At, Mailed, clientVars, tldVars
    <3> QED BY <2>4, <2>5, <3>1 DEF Inv, Request, Early
  <2> QED BY <2>1, <2>6, <2>7
<1>3. CASE ServerName
  <2>1. At(c, "wait", "name", "bit") /\ Mailed(c, <<>>, <<Mail(c, asked[c])>>, <<>>)
    BY <1>3 DEF ServerName, Arrived, Request, Early, Asks, Answering, At, Mailed
  <2>2. /\ inbox' \in [Programs -> Seq(Datagram)] /\ inbox'[Server] = Tail(inbox[Server])
        /\ \A q \in Programs : q # Server => inbox'[q] = inbox[q]
    BY <1>3, ReceiveFacts DEF ServerName
  <2>3. asked[c] \in Names /\ asked[c] \in Strings
    BY <2>1 DEF Request, At
  <2>4. Into(hostname, Server) = asked[c] /\ From(Server) = c
    BY <2>1, <2>3, IntoString DEF Mailed
  <2>5. TypeOK' /\ Cache'
    BY <1>3, <2>2, <2>3, <2>4, CacheKept DEF ServerName, TypeOK, clientVars, tldVars
  <2>6. /\ At(c, "wait", "look", "bit")' /\ Mailed(c, <<>>, <<>>, <<>>)'
        /\ hostname' = asked'[c] /\ asked'[c] \in Names
    BY <1>3, <2>1, <2>2, <2>3, <2>4 DEF ServerName, At, Mailed, clientVars, tldVars
  <2> QED BY <2>5, <2>6 DEF Inv, Request, Early
<1> QED BY <1>2, <1>3

LEMMA ServerLooks ==
    ASSUME NEW c, Clients = {c}, Inv(c), ServerFound \/ ServerAskBit
    PROVE  Inv(c)'
<1>1. TypeOK /\ Cache /\ Request(c)
  BY DEF Inv
<1> USE <1>1, ThreePrograms, ShortQueues
<1>2. /\ At(c, "wait", "look", "bit") /\ Mailed(c, <<>>, <<>>, <<>>)
      /\ hostname = asked[c] /\ asked[c] \in Names
  BY DEF ServerFound, ServerAskBit, Request, Early, Asks, Answering, At
<1>3. CASE ServerFound
  <2>1. Find(dns, hostname) = Zone(asked[c])
    <3>1. Has(dns, hostname)
      BY <1>3 DEF ServerFound
    <3> QED BY <1>2, <3>1, CachedIsZone
  <2>2. Send(Server, c, Zone(asked[c])) /\ Zone(asked[c]) \in Strings
    BY <1>3, <2>1, ZoneFacts DEF ServerFound
  <2>3. /\ inbox' \in [Programs -> Seq(Datagram)]
        /\ inbox'[c] = Append(inbox[c], Mail(Server, Zone(asked[c])))
        /\ \A p \in Programs : p # c => inbox'[p] = inbox[p]
    <3>1. /\ inbox \in [Programs -> Seq(Datagram)] /\ c \in Programs /\ Server \in Programs
          /\ Zone(asked[c]) \in Strings \cup {Bit}
      BY <2>2
    <3> QED BY ONLY <2>2, <3>1, SendFacts, Zenon
  <2>4. TypeOK' /\ Cache'
    BY <1>3, <2>3, CacheKept DEF ServerFound, TypeOK, clientVars, tldVars
  <2>5. /\ At(c, "wait", "bit", "bit")' /\ asked'[c] = asked[c]
        /\ Mailed(c, <<Mail(Server, Zone(asked[c]))>>, <<>>, <<>>)'
    BY <1>2, <1>3, <2>3 DEF ServerFound, At, Mailed, clientVars, tldVars
  <2>6. asked'[c] \in Names /\ Mailed(c, <<Mail(Server, Zone(asked[c]))>>, <<>>, <<>>)'
    BY <1>2, <2>5
  <2>7. Answering(c)'
    BY <1>3, <2>5, <2>6 DEF Answering, ServerFound, clientVars
  <2> QED BY <2>4, <2>6, <2>7 DEF Inv, Request
<1>4. CASE ServerAskBit
  <2>1. Send(Server, Tld, Bit) /\ ~Has(dns, asked[c])
    BY <1>2, <1>4 DEF ServerAskBit
  <2>2. /\ inbox' \in [Programs -> Seq(Datagram)]
        /\ inbox'[Tld] = Append(inbox[Tld], Mail(Server, Bit))
        /\ \A p \in Programs : p # Tld => inbox'[p] = inbox[p]
    BY <2>1, SendFacts
  <2>3. TypeOK' /\ Cache'
    BY <1>4, <2>2, CacheKept DEF ServerAskBit, TypeOK, clientVars, tldVars
  <2>4. At(c, "wait", "ask", "bit")' /\ Mailed(c, <<>>, <<>>, <<Mail(Server, Bit)>>)'
    BY <1>2, <1>4, <2>2 DEF ServerAskBit, At, Mailed, clientVars, tldVars
  <2>5. hostname' = asked'[c] /\ asked'[c] \in Names /\ ~Has(dns, asked[c])'
    BY <1>2, <1>4, <2>1 DEF ServerAskBit, clientVars
  <2> QED BY <2>3, <2>4, <2>5 DEF Inv, Request, Asks
<1> QED BY <1>3, <1>4

\* While the TLD server is asked, the question does not change.
Asked(c) ==
    /\ shell[c] = "wait" /\ asked[c] \in Names
    /\ hostname = asked[c] /\ ~Has(dns, asked[c])

LEMMA ServerAsks ==
    ASSUME NEW c, Clients = {c}, Inv(c), ServerAskName \/ ServerAnswer
    PROVE  Inv(c)'
<1>1. TypeOK /\ Cache /\ Request(c)
  BY DEF Inv
<1> USE <1>1, ThreePrograms, ShortQueues
<1>2. Asks(c) /\ Asked(c)
  BY DEF ServerAskName, ServerAnswer, Request, Early, Asks, Answering, At, Asked
<1>3. CASE ServerAskName
  <2>1. Send(Server, Tld, asked[c]) /\ asked[c] \in Strings
    BY <1>2, <1>3 DEF ServerAskName, Asked
  <2>2. /\ inbox' \in [Programs -> Seq(Datagram)]
        /\ inbox'[Tld] = Append(inbox[Tld], Mail(Server, asked[c]))
        /\ \A p \in Programs : p # Tld => inbox'[p] = inbox[p]
    <3>1. /\ inbox \in [Programs -> Seq(Datagram)] /\ Tld \in Programs /\ Server \in Programs
          /\ asked[c] \in Strings \cup {Bit}
      BY <2>1
    <3> QED BY ONLY <2>1, <3>1, SendFacts, Zenon
  <2>3. TypeOK' /\ Cache' /\ Asked(c)'
    BY <1>2, <1>3, <2>2, CacheKept DEF ServerAskName, TypeOK, Asked, clientVars, tldVars
  <2>4. \/ At(c, "wait", "ask", "bit") /\ Mailed(c, <<>>, <<>>, <<Mail(Server, Bit)>>)
        \/ At(c, "wait", "ask", "name") /\ Mailed(c, <<>>, <<>>, <<>>)
    BY <1>2, <1>3 DEF ServerAskName, Asks, At
  <2>5. CASE At(c, "wait", "ask", "bit") /\ Mailed(c, <<>>, <<>>, <<Mail(Server, Bit)>>)
    <3>1. /\ At(c, "wait", "tld", "bit")'
          /\ Mailed(c, <<>>, <<>>, <<Mail(Server, Bit), Mail(Server, asked[c])>>)'
      <4>1. At(c, "wait", "tld", "bit")' /\ asked' = asked
        BY <1>3, <2>5 DEF ServerAskName, At, clientVars, tldVars
      <4>2. inbox'[c] = <<>> /\ inbox'[Server] = <<>>
        BY <2>2, <2>5 DEF Mailed
      <4>3. inbox'[Tld] = <<Mail(Server, Bit), Mail(Server, asked[c])>>
        <5>1. inbox'[Tld] = Append(<<Mail(Server, Bit)>>, Mail(Server, asked[c]))
          BY ONLY <2>2, <2>5 DEF Mailed
        <5> QED BY ONLY <5>1, ShortQueues, Zenon
      <4> QED BY ONLY <4>1, <4>2, <4>3 DEF Mailed
    <3> QED BY <2>3, <3>1 DEF Inv, Request, Asks, Asked
  <2>6. CASE At(c, "wait", "ask", "name") /\ Mailed(c, <<>>, <<>>, <<>>)
    <3>1. At(c, "wait", "tld", "name")' /\ Mailed(c, <<>>, <<>>, <<Mail(Server, asked[c])>>)'
      BY <1>3, <2>2, <2>6 DEF ServerAskName, At, Mailed, clientVars, tldVars
    <3> QED BY <2>3, <3>1 DEF Inv, Request, Asks, Asked
  <2> QED BY <2>4, <2>5, <2>6
<1>4. CASE ServerAnswer
  <2>1. At(c, "wait", "tld", "bit") /\ Mailed(c, <<>>, <<Mail(Tld, Zone(asked[c]))>>, <<>>)
    BY <1>2, <1>4 DEF ServerAnswer, Arrived, Asks, At, Mailed
  <2>2. /\ inbox' \in [Programs -> Seq(Datagram)] /\ inbox'[Server] = Tail(inbox[Server])
        /\ \A q \in Programs : q # Server => inbox'[q] = inbox[q]
    BY <1>4, ReceiveFacts DEF ServerAnswer
  <2>3. Zone(asked[c]) \in Strings
    BY ZoneFacts
  <2>4. Into(address, Server) = Zone(asked[c]) /\ From(Server) = Tld
    BY <2>1, <2>3, IntoString DEF Mailed
  <2>5. TypeOK' /\ Cache' /\ Asked(c)'
    BY <1>2, <1>4, <2>2, <2>3, <2>4, CacheKept
       DEF ServerAnswer, TypeOK, Asked, clientVars, tldVars
  <2>6. At(c, "wait", "tell", "bit")' /\ Mailed(c, <<>>, <<>>, <<>>)'
    BY <1>4, <2>1, <2>2 DEF ServerAnswer, At, Mailed, clientVars, tldVars
  <2>7. address' = Zone(asked[c]) /\ asked' = asked
    BY <1>4, <2>4 DEF ServerAnswer, clientVars
  <2>8. Asks(c)'
    BY <2>6, <2>7 DEF Asks
  <2> QED BY <2>5, <2>8 DEF Inv, Request, Asked
<1> QED BY <1>3, <1>4

\* The server tells the shell, and stores what it has learned.
LEMMA ServerTells ==
    ASSUME NEW c, Clients = {c}, Inv(c), ServerTell
    PROVE  Inv(c)'
<1>1. TypeOK /\ Cache /\ Request(c)
  BY DEF Inv
<1> USE <1>1, ThreePrograms, ShortQueues
<1>2. /\ At(c, "wait", "tell", "bit") /\ Mailed(c, <<>>, <<>>, <<>>)
      /\ address = Zone(asked[c]) /\ Asked(c)
  BY DEF ServerTell, Request, Early, Asks, Answering, At, Asked
<1>3. asked[c] \in Strings /\ Zone(asked[c]) \in Strings
  BY <1>2, ZoneFacts DEF Asked
<1>4. Send(Server, c, Zone(asked[c]))
  BY <1>2 DEF ServerTell
<1>5. /\ inbox' \in [Programs -> Seq(Datagram)]
      /\ inbox'[c] = Append(inbox[c], Mail(Server, Zone(asked[c])))
      /\ \A p \in Programs : p # c => inbox'[p] = inbox[p]
  <2>1. /\ inbox \in [Programs -> Seq(Datagram)] /\ c \in Programs /\ Server \in Programs
        /\ Zone(asked[c]) \in Strings \cup {Bit}
    BY <1>3
  <2> QED BY ONLY <1>4, <2>1, SendFacts, Zenon
<1>6. Cache' /\ dns' \in Seq(Strings)
  <2>1. CASE Zone(asked[c]) = NotFound
    <3>1. dns' = dns
      BY <1>2, <2>1 DEF ServerTell
    <3> QED BY <3>1, CacheKept
  <2>2. CASE Zone(asked[c]) # NotFound
    <3>1. Words[asked[c]] = <<asked[c]>> /\ Words[Zone(asked[c])] = <<Zone(asked[c])>>
      BY <1>2, <2>2, ZoneFacts, StringsAssumption DEF Asked
    <3>2. dns' = dns \o <<asked[c]>> \o <<Zone(asked[c])>>
      BY <1>2, <2>2, <3>1 DEF ServerTell, Asked
    <3>3. ~Has(dns, asked[c])
      BY <1>2 DEF Asked
    <3>4. dns \in Seq(Strings)
      OBVIOUS
    <3> QED BY ONLY <1>1, <1>3, <3>2, <3>3, <3>4, CacheGrows, Zenon
  <2> QED BY <2>1, <2>2
<1>7. TypeOK'
  BY <1>5, <1>6 DEF ServerTell, TypeOK, clientVars, tldVars
<1>8. At(c, "wait", "bit", "bit")' /\ asked' = asked
  BY <1>2 DEF ServerTell, At, clientVars, tldVars
<1>9. Mailed(c, <<Mail(Server, Zone(asked[c]))>>, <<>>, <<>>)'
  BY <1>2, <1>5, <1>8 DEF Mailed
<1>10. Answering(c)' /\ asked'[c] \in Names
  BY <1>2, <1>8, <1>9 DEF Answering, Asked
<1> QED BY <1>6, <1>7, <1>10 DEF Inv, Request

LEMMA TldSteps ==
    ASSUME NEW c, Clients = {c}, Inv(c), TldStep
    PROVE  Inv(c)'
<1>1. TypeOK /\ Cache /\ Request(c)
  BY DEF Inv
<1> USE <1>1, ThreePrograms, ShortQueues
<1>2. CASE TldBit
  <2>1. /\ Asked(c)
        /\ \/ At(c, "wait", "ask", "bit") /\ Mailed(c, <<>>, <<>>, <<Mail(Server, Bit)>>)
           \/ /\ At(c, "wait", "tld", "bit")
              /\ Mailed(c, <<>>, <<>>, <<Mail(Server, Bit), Mail(Server, asked[c])>>)
    BY <1>2 DEF TldBit, Arrived, Request, Early, Asks, Answering, At, Mailed, Asked
  <2>2. /\ inbox' \in [Programs -> Seq(Datagram)] /\ inbox'[Tld] = Tail(inbox[Tld])
        /\ \A q \in Programs : q # Tld => inbox'[q] = inbox[q]
    BY <1>2, ReceiveFacts DEF TldBit
  <2>3. tldclient' = Server
    BY <1>2, <2>1 DEF TldBit, From, Mailed, Mail
  <2>4. TypeOK' /\ Cache' /\ Asked(c)'
    BY <1>2, <2>1, <2>2, <2>3, CacheKept DEF TldBit, TypeOK, Asked, clientVars, serverVars
  <2>5. CASE At(c, "wait", "ask", "bit") /\ Mailed(c, <<>>, <<>>, <<Mail(Server, Bit)>>)
    <3>1. At(c, "wait", "ask", "name")' /\ Mailed(c, <<>>, <<>>, <<>>)'
      BY <1>2, <2>2, <2>5 DEF TldBit, At, Mailed, clientVars, serverVars
    <3> QED BY <2>4, <3>1 DEF Inv, Request, Asks, Asked
  <2>6. CASE /\ At(c, "wait", "tld", "bit")
             /\ Mailed(c, <<>>, <<>>, <<Mail(Server, Bit), Mail(Server, asked[c])>>)
    <3>1. At(c, "wait", "tld", "name")' /\ Mailed(c, <<>>, <<>>, <<Mail(Server, asked[c])>>)'
      BY <1>2, <2>2, <2>6 DEF TldBit, At, Mailed, clientVars, serverVars
    <3> QED BY <2>4, <3>1 DEF Inv, Request, Asks, Asked
  <2> QED BY <2>1, <2>5, <2>6
<1>3. CASE TldName
  <2>1. /\ Asked(c) /\ At(c, "wait", "tld", "name")
        /\ Mailed(c, <<>>, <<>>, <<Mail(Server, asked[c])>>)
    BY <1>3 DEF TldName, Arrived, Request, Early, Asks, Answering, At, Mailed, Asked
  <2>2. /\ inbox' \in [Programs -> Seq(Datagram)] /\ inbox'[Tld] = Tail(inbox[Tld])
        /\ \A q \in Programs : q # Tld => inbox'[q] = inbox[q]
    BY <1>3, ReceiveFacts DEF TldName
  <2>3. asked[c] \in Strings
    BY <2>1 DEF Asked
  <2>4. Into(tldhost, Tld) = asked[c] /\ From(Tld) = Server
    BY <2>1, <2>3, IntoString DEF Mailed
  <2>5. TypeOK' /\ Cache' /\ Asked(c)'
    BY <1>3, <2>1, <2>2, <2>3, <2>4, CacheKept
       DEF TldName, TypeOK, Asked, clientVars, serverVars
  <2>6. /\ At(c, "wait", "tld", "look")' /\ Mailed(c, <<>>, <<>>, <<>>)'
        /\ tldhost' = asked'[c]
    BY <1>3, <2>1, <2>2, <2>4 DEF TldName, At, Mailed, clientVars, serverVars
  <2> QED BY <2>5, <2>6 DEF Inv, Request, Asks, Asked
<1>4. CASE TldReply
  <2>1. /\ Asked(c) /\ At(c, "wait", "tld", "look") /\ Mailed(c, <<>>, <<>>, <<>>)
        /\ tldhost = asked[c]
    BY <1>4 DEF TldReply, Request, Early, Asks, Answering, At, Asked
  <2>2. asked[c] \in Strings /\ Zone(asked[c]) \in Strings
    BY <2>1, ZoneFacts DEF Asked
  <2>3. Zone(asked[c]) = IF Has(Hdns, asked[c]) THEN Find(Hdns, asked[c]) ELSE NotFound
    BY <2>1, <2>2, TldIsZone DEF Asked
  <2>4. Send(Tld, Server, Zone(asked[c]))
    BY <1>4, <2>1, <2>3 DEF TldReply
  <2>5. /\ inbox' \in [Programs -> Seq(Datagram)]
        /\ inbox'[Server] = Append(inbox[Server], Mail(Tld, Zone(asked[c])))
        /\ \A p \in Programs : p # Server => inbox'[p] = inbox[p]
    <3>1. /\ inbox \in [Programs -> Seq(Datagram)] /\ Tld \in Programs /\ Server \in Programs
          /\ Zone(asked[c]) \in Strings \cup {Bit}
      BY <2>2
    <3> QED BY ONLY <2>4, <3>1, SendFacts, Zenon
  <2>6. TypeOK' /\ Cache' /\ Asked(c)'
    BY <1>4, <2>1, <2>5, CacheKept DEF TldReply, TypeOK, Asked, clientVars, serverVars
  <2>7. /\ At(c, "wait", "tld", "bit")' /\ asked' = asked
        /\ Mailed(c, <<>>, <<Mail(Tld, Zone(asked[c]))>>, <<>>)'
    BY <1>4, <2>1, <2>5 DEF TldReply, At, Mailed, clientVars, serverVars
  <2>8. Asks(c)'
    BY <2>7 DEF Asks
  <2> QED BY <2>6, <2>8 DEF Inv, Request, Asked
<1> QED BY <1>2, <1>3, <1>4 DEF TldStep

LEMMA EveryStep ==
    ASSUME NEW c, Clients = {c}, Inv(c), [Next]_vars
    PROVE  Inv(c)'
<1>1. CASE ServerStep
  BY <1>1, ServerReads, ServerLooks, ServerAsks, ServerTells, Zenon DEF ServerStep
<1>2. CASE TldStep
  BY <1>2, TldSteps, Zenon
<1>3. CASE \E d \in Clients : ShellStep(d)
  BY <1>3, ShellSteps
<1>4. CASE UNCHANGED vars
  BY <1>4 DEF vars, clientVars, serverVars, tldVars, Inv, TypeOK, Cache, CacheExact, Request,
              Early, Asks, Answering, At, Mailed
<1> QED BY <1>1, <1>2, <1>3, <1>4 DEF Next

LEMMA FirstState ==
    ASSUME NEW c, Clients = {c}, OneAddress, Init
    PROVE  Inv(c)
<1>1. dns = Dns /\ dns \in Seq(Strings)
  BY FilesAssumption DEF Init, Pairs
<1>2. TypeOK
  BY <1>1, StringsAssumption DEF Init, TypeOK, Programs
<1>3. Request(c)
  BY DEF Init, Programs, Request, Early, At, Mailed
<1> QED BY <1>1, <1>2, <1>3, FirstCache DEF Inv

-----------------------------------------------------------------------------
(* The theorems *)

THEOREM Invariant ==
    ASSUME OneShell, OneAddress
    PROVE  Spec => []ShellsInv
<1>1. Init => ShellsInv
  BY FirstState, Zenon DEF ShellsInv, OneShell
<1>2. ShellsInv /\ [Next]_vars => ShellsInv'
  BY EveryStep DEF ShellsInv, OneShell
<1> QED BY <1>1, <1>2, PTL DEF Spec

LEMMA InvariantFacts ==
    ASSUME OneShell, ShellsInv
    PROVE  TypeOK /\ CacheExact
BY DEF OneShell, ShellsInv, Inv, Cache

\* With one shell the datagrams have the types they should, and the server
\* replies to the shell and asks the TLD server, whatever recvfrom() stored.
THEOREM TypeCorrect ==
    ASSUME OneShell, OneAddress
    PROVE  Spec => []TypeOK
BY Invariant, InvariantFacts, PTL

\* With one shell the cache that is written over and over keeps answering like
\* the two files, and no name enters it twice.
THEOREM CacheIsExact ==
    ASSUME OneShell, OneAddress
    PROVE  Spec => []CacheExact
BY Invariant, InvariantFacts, PTL

LEMMA ResolverStarts ==
    ASSUME Init
    PROVE  ResolverSpec!Init
BY DEF Init, ResolverSpec!Init

LEMMA ResolverSteps ==
    ASSUME NEW c, Clients = {c}, Inv(c), [Next]_vars
    PROVE  [ResolverSpec!Next]_<<[d \in Clients |-> IF shell[d] = "shell" THEN NoName
                                                    ELSE asked[d]], ip>>
<1> DEFINE question == [d \in Clients |-> IF shell[d] = "shell" THEN NoName ELSE asked[d]]
<1>1. TypeOK /\ Cache /\ Request(c)
  BY DEF Inv
<1> USE <1>1, ThreePrograms, ShortQueues
<1>2. CASE Nslookup(c)
  <2>1. PICK n \in Names : asked' = [asked EXCEPT ![c] = n]
    BY <1>2 DEF Nslookup
  <2>2. question[c] = NoName /\ ip' = ip /\ question' = [question EXCEPT ![c] = n]
    BY <1>2, <2>1 DEF Nslookup
  <2>3. ResolverSpec!Ask(c)
    BY <2>2 DEF ResolverSpec!Ask
  <2> QED BY <2>3 DEF ResolverSpec!Next
<1>3. CASE SendName(c)
  <2>1. question' = question /\ ip' = ip
    BY <1>3 DEF SendName
  <2> QED BY <2>1
<1>4. CASE Show(c)
  <2>1. /\ At(c, "wait", "bit", "bit") /\ asked[c] \in Names
        /\ Mailed(c, <<Mail(Server, Zone(asked[c]))>>, <<>>, <<>>)
    BY <1>4 DEF Show, Arrived, Request, Early, Asks, Answering, At, Mailed
  <2>2. Into(ip[c], c) = Zone(asked[c])
    <3>1. Zone(asked[c]) \in Strings /\ inbox[c] = <<Mail(Server, Zone(asked[c]))>>
      BY <2>1, ZoneFacts DEF Mailed
    <3> QED BY ONLY <3>1, IntoString, Zenon
  <2>3. question[c] = asked[c] /\ asked[c] # NoName
    BY <2>1, StringsAssumption DEF At
  <2>4. /\ question' = [question EXCEPT ![c] = NoName]
        /\ ip' = [ip EXCEPT ![c] = Zone(question[c])]
    BY <1>4, <2>2, <2>3 DEF Show
  <2>5. ResolverSpec!Tell(c)
    BY <2>3, <2>4 DEF ResolverSpec!Tell
  <2> QED BY <2>5 DEF ResolverSpec!Next
<1>5. CASE ExitShell(c)
  <2>1. question[c] = NoName /\ question' = question /\ ip' = [ip EXCEPT ![c] = Unset]
    BY <1>5 DEF ExitShell
  <2>2. ResolverSpec!Leave(c)
    BY <2>1 DEF ResolverSpec!Leave
  <2> QED BY <2>2 DEF ResolverSpec!Next
<1>6. CASE ServerStep \/ TldStep \/ UNCHANGED vars
  <2>1. UNCHANGED <<shell, asked, ip>>
    BY <1>6 DEF ServerStep, ServerBit, ServerName, ServerFound, ServerAskBit, ServerAskName,
                ServerAnswer, ServerTell, TldStep, TldBit, TldName, TldReply, vars, clientVars
  <2> QED BY <2>1
<1> QED BY <1>2, <1>3, <1>4, <1>5, <1>6 DEF Next, ShellStep

\* With one shell, the shell is shown the zone's address of the very name it
\* asked for, once a question: the cache, the TLD server and the datagrams
\* cannot be told from outside.
THEOREM ImplementsTheResolver ==
    ASSUME OneShell, OneAddress
    PROVE  Spec => ImplementsResolver
<1>1. Init => ResolverSpec!Init
  BY ResolverStarts
<1>2. ShellsInv /\ [Next]_vars
      => [ResolverSpec!Next]_<<[c \in Clients |-> IF shell[c] = "shell" THEN NoName
                                                  ELSE asked[c]], ip>>
  BY ResolverSteps DEF ShellsInv, OneShell
<1> QED BY <1>1, <1>2, Invariant, PTL DEF Spec, ImplementsResolver, ResolverSpec!Spec

=============================================================================
