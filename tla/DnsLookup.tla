------------------------------ MODULE DnsLookup ------------------------------
(***************************************************************************)
(* The name lookup of exp2: a shell (2_120599_CLIENT_1.c), a server that   *)
(* keeps a cache (2_120599_SERVER_1.c) and a TLD server                    *)
(* (2_120599_TLD_1.c), which exchange UDP datagrams.  A request is two     *)
(* datagrams, the command bit and the host name; nothing ties a reply to   *)
(* its request, and every program takes the next datagram for the one it   *)
(* waits for.                                                              *)
(*                                                                         *)
(* A step is what one program does from one system call to the next.  All  *)
(* three programs run; an operator Bug... is a slip the one below it could *)
(* have had.                                                               *)
(***************************************************************************)
EXTENDS Integers, Sequences

CONSTANTS
    Clients,     \* the shells, each with a socket of its own
    Server, Tld, \* the two servers
    Strings,     \* what a buffer of 30 characters may hold
    Names,       \* the host names typed
    NotFound,    \* the string "not found"
    Unset,       \* a buffer never written
    NoName,      \* a shell that has not been asked yet
    Bit,         \* the datagram of one byte, '1'
    Over,        \* Over[s]: s with its first character replaced by '1'
    Words,       \* Words[s]: the words that fscanf makes of s
    Dns, Hdns    \* the words of the two files at the start

\* The files are pairs of a name and an address, each of one word.
Pairs(file) ==
    /\ file \in Seq(Strings) /\ Len(file) % 2 = 0
    /\ \A i \in 1..Len(file) : Words[file[i]] = <<file[i]>> /\ file[i] # NotFound

ASSUME StringsAssumption ==
    /\ Names \cup {NotFound, Unset} \subseteq Strings
    /\ Bit \notin Strings /\ NoName \notin Strings
    /\ Over \in [Strings -> Strings]
    /\ Words \in [Strings -> Seq(Strings)]
    /\ \A n \in Names : Words[n] = <<n>> /\ n # NotFound
ASSUME FilesAssumption == Pairs(Dns) /\ Dns # <<>> /\ Pairs(Hdns)
ASSUME ProgramsAssumption == Server # Tld /\ {Server, Tld} \cap Clients = {}

VARIABLES
    shell,      \* shell[c]: where shell c is
    asked,      \* asked[c]: the name it asked for last
    ip,         \* ip[c]: the buffer it shows
    server,     \* where the server is
    hostname,   \* its buffers for the name and for the answer of the TLD
    address,
    clientadr,  \* the addresses it replies to and asks
    tldadr,
    dns,        \* the words of its file
    tld,        \* where the TLD server is
    tldhost,    \* its buffer and the address it replies to
    tldclient,
    inbox       \* inbox[p]: the datagrams waiting at the socket of p

clientVars == <<shell, asked, ip>>
serverVars == <<server, hostname, address, clientadr, tldadr, dns>>
tldVars == <<tld, tldhost, tldclient>>
vars == <<clientVars, serverVars, tldVars, inbox>>

Programs == Clients \cup {Server, Tld}
Datagram == [from : Programs, what : Strings \cup {Bit}]

-----------------------------------------------------------------------------
(* Datagrams and files *)

Send(from, to, what) ==
    inbox' = [inbox EXCEPT ![to] = Append(@, [from |-> from, what |-> what])]

\* recvfrom(): the bit overwrites one character of the buffer only.
Arrived(p) == inbox[p] # <<>>
Receive(p) == inbox' = [inbox EXCEPT ![p] = Tail(@)]
From(p) == Head(inbox[p]).from
Into(buffer, p) ==
    IF Head(inbox[p]).what = Bit THEN Over[buffer] ELSE Head(inbox[p]).what

\* The look-up reads the file two words at a time and stops at the first match;
\* behind an odd last word, the buffer has the address of the pair before.
Hosts(file) == {i \in 1..Len(file) : i % 2 = 1}
Has(file, host) == \E i \in Hosts(file) : file[i] = host
Find(file, host) ==
    LET i == CHOOSE i \in Hosts(file) :
                file[i] = host /\ \A j \in Hosts(file) : file[j] = host => i <= j
    IN  IF i < Len(file) THEN file[i + 1] ELSE file[i - 1]

-----------------------------------------------------------------------------
Init ==
    /\ shell = [c \in Clients |-> "shell"]
    /\ asked = [c \in Clients |-> NoName]
    /\ ip = [c \in Clients |-> Unset]
    /\ server = "bit"
    /\ hostname = Unset /\ address = Unset
    /\ clientadr \in Clients    \* the shell that has port 1111
    /\ tldadr = Tld
    /\ dns = Dns
    /\ tld = "bit"
    /\ tldhost = Unset /\ tldclient = Server
    /\ inbox = [p \in Programs |-> <<>>]

(* The shell *)

Nslookup(c) ==
    /\ shell[c] = "shell"
    /\ \E n \in Names : asked' = [asked EXCEPT ![c] = n]
    /\ Send(c, Server, Bit)
    /\ shell' = [shell EXCEPT ![c] = "name"]
    /\ UNCHANGED <<ip, serverVars, tldVars>>

SendName(c) ==
    /\ shell[c] = "name"
    /\ Send(c, Server, asked[c])
    /\ shell' = [shell EXCEPT ![c] = "wait"]
    /\ UNCHANGED <<asked, ip, serverVars, tldVars>>

Show(c) ==
    /\ shell[c] = "wait"
    /\ Arrived(c)
    /\ ip' = [ip EXCEPT ![c] = Into(ip[c], c)]
    /\ Receive(c)
    /\ shell' = [shell EXCEPT ![c] = "shell"]
    /\ UNCHANGED <<asked, serverVars, tldVars>>

\* The shell ends; another is started and gets the same port.
ExitShell(c) ==
    /\ shell[c] = "shell"
    /\ asked' = [asked EXCEPT ![c] = NoName]
    /\ ip' = [ip EXCEPT ![c] = Unset]
    /\ inbox' = [inbox EXCEPT ![c] = <<>>]
    /\ UNCHANGED <<shell, serverVars, tldVars>>

-----------------------------------------------------------------------------
(* The server *)

ServerBit ==
    /\ server = "bit"
    /\ Arrived(Server)
    /\ clientadr' = From(Server)
    /\ Receive(Server)
    /\ server' = "name"
    /\ UNCHANGED <<hostname, address, tldadr, dns, clientVars, tldVars>>

ServerName ==
    /\ server = "name"
    /\ Arrived(Server)
    /\ hostname' = Into(hostname, Server)
    /\ clientadr' = From(Server)
    /\ Receive(Server)
    /\ server' = "look"
    /\ UNCHANGED <<address, tldadr, dns, clientVars, tldVars>>

\* The slip: no break after the reply.
BugServerFound ==
    /\ server = "look"
    /\ Has(dns, hostname)
    /\ Send(Server, clientadr, Find(dns, hostname))
    /\ server' = "ask"
    /\ UNCHANGED <<hostname, address, clientadr, tldadr, dns, clientVars, tldVars>>
ServerFound ==
    /\ server = "look"
    /\ Has(dns, hostname)
    /\ Send(Server, clientadr, Find(dns, hostname))
    /\ server' = "bit"
    /\ UNCHANGED <<hostname, address, clientadr, tldadr, dns, clientVars, tldVars>>

ServerAskBit ==
    /\ server = "look"
    /\ ~Has(dns, hostname)
    /\ Send(Server, tldadr, Bit)
    /\ server' = "ask"
    /\ UNCHANGED <<hostname, address, clientadr, tldadr, dns, clientVars, tldVars>>

ServerAskName ==
    /\ server = "ask"
    /\ Send(Server, tldadr, hostname)
    /\ server' = "tld"
    /\ UNCHANGED <<hostname, address, clientadr, tldadr, dns, clientVars, tldVars>>

\* The slip: the sender of the answer goes to clientadr.
BugServerAnswer ==
    /\ server = "tld"
    /\ Arrived(Server)
    /\ address' = Into(address, Server)
    /\ clientadr' = From(Server)
    /\ Receive(Server)
    /\ server' = "tell"
    /\ UNCHANGED <<hostname, tldadr, dns, clientVars, tldVars>>
ServerAnswer ==
    /\ server = "tld"
    /\ Arrived(Server)
    /\ address' = Into(address, Server)
    /\ tldadr' = From(Server)
    /\ Receive(Server)
    /\ server' = "tell"
    /\ UNCHANGED <<hostname, clientadr, dns, clientVars, tldVars>>

\* The slips: everything is stored; "not found" is not passed on.
BugServerStores ==
    /\ server = "tell"
    /\ dns' = dns \o Words[hostname] \o Words[address]
    /\ Send(Server, clientadr, address)
    /\ server' = "bit"
    /\ UNCHANGED <<hostname, address, clientadr, tldadr, clientVars, tldVars>>
BugServerSilent ==
    /\ server = "tell"
    /\ IF address = NotFound THEN UNCHANGED <<dns, inbox>>
       ELSE /\ dns' = dns \o Words[hostname] \o Words[address]
            /\ Send(Server, clientadr, address)
    /\ server' = "bit"
    /\ UNCHANGED <<hostname, address, clientadr, tldadr, clientVars, tldVars>>
ServerTell ==
    /\ server = "tell"
    /\ dns' = IF address = NotFound THEN dns
              ELSE dns \o Words[hostname] \o Words[address]
    /\ Send(Server, clientadr, address)
    /\ server' = "bit"
    /\ UNCHANGED <<hostname, address, clientadr, tldadr, clientVars, tldVars>>

-----------------------------------------------------------------------------
(* The TLD server *)

TldBit ==
    /\ tld = "bit"
    /\ Arrived(Tld)
    /\ tldclient' = From(Tld)
    /\ Receive(Tld)
    /\ tld' = "name"
    /\ UNCHANGED <<tldhost, clientVars, serverVars>>

TldName ==
    /\ tld = "name"
    /\ Arrived(Tld)
    /\ tldhost' = Into(tldhost, Tld)
    /\ tldclient' = From(Tld)
    /\ Receive(Tld)
    /\ tld' = "look"
    /\ UNCHANGED <<clientVars, serverVars>>

TldReply ==
    /\ tld = "look"
    /\ Send(Tld, tldclient, IF Has(Hdns, tldhost) THEN Find(Hdns, tldhost) ELSE NotFound)
    /\ tld' = "bit"
    /\ UNCHANGED <<tldhost, tldclient, clientVars, serverVars>>

-----------------------------------------------------------------------------
ShellStep(c) == Nslookup(c) \/ SendName(c) \/ Show(c) \/ ExitShell(c)

ServerStep ==
    \/ ServerBit \/ ServerName \/ ServerFound \/ ServerAskBit \/ ServerAskName
    \/ ServerAnswer \/ ServerTell

TldStep == TldBit \/ TldName \/ TldReply

Next == ServerStep \/ TldStep \/ \E c \in Clients : ShellStep(c)

Spec == Init /\ [][Next]_vars

\* The programs run; whether the user asks anything is up to the user.
Fairness ==
    /\ WF_vars(ServerStep) /\ WF_vars(TldStep)
    /\ \A c \in Clients : WF_vars(SendName(c) \/ Show(c))

FairSpec == Spec /\ Fairness

-----------------------------------------------------------------------------
(* Properties *)

\* The types.  With one shell, the server replies to shells only and asks the
\* TLD server only, although recvfrom() overwrites both addresses.
TypeOK ==
    /\ shell \in [Clients -> {"shell", "name", "wait"}]
    /\ asked \in [Clients -> Names \cup {NoName}]
    /\ ip \in [Clients -> Strings]
    /\ server \in {"bit", "name", "look", "ask", "tld", "tell"}
    /\ hostname \in Strings /\ address \in Strings
    /\ clientadr \in Clients /\ tldadr = Tld
    /\ dns \in Seq(Strings)
    /\ tld \in {"bit", "name", "look"}
    /\ tldhost \in Strings /\ tldclient = Server
    /\ inbox \in [Programs -> Seq(Datagram)]

\* The address the two files give for a name.
Zone(n) ==
    IF Has(Dns, n) THEN Find(Dns, n)
    ELSE IF Has(Hdns, n) THEN Find(Hdns, n) ELSE NotFound

\* The cache holds complete pairs, each the answer of the zone, and no name
\* twice: what it has learned is never asked for, or stored, again.
CacheExact ==
    /\ Len(dns) % 2 = 0
    /\ \A i \in Hosts(dns) :
        /\ dns[i + 1] = Zone(dns[i])
        /\ \A j \in Hosts(dns) : dns[j] = dns[i] => j = i

\* A shell that asks is shown the zone's address of that very name, once: cache,
\* TLD server and datagrams cannot be seen from outside.
ResolverSpec == INSTANCE Resolver WITH
    question <- [c \in Clients |-> IF shell[c] = "shell" THEN NoName ELSE asked[c]],
    shown <- ip
ImplementsResolver == ResolverSpec!Spec

\* A shell that waits in recvfrom() is told something: each of the two servers
\* answers every request it has read.
Answered == \A c \in Clients : (shell[c] = "wait") ~> (shell[c] = "shell")

=============================================================================
