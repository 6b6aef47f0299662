------------------------------ MODULE HttpProxy ------------------------------
(***************************************************************************)
(* The filtering proxy of exp3 (3_120599_SERVER_1.c): one loop that        *)
(* accepts a browser, looks for a word in the URI it asks for, connects to *)
(* the host and relays the host's answer, until 100 seconds have gone by   *)
(* or something fails, which ends the program.                             *)
(*                                                                         *)
(* A request is sent in one piece and is a GET; the host closes the        *)
(* connection behind its answer.  An operator Bug... is a slip the one     *)
(* below it could have had.                                                *)
(***************************************************************************)
EXTENDS Integers, Sequences, FiniteSets

CONSTANTS
    Browsers,
    NoOne,      \* no browser
    Chars,      \* the characters of URIs
    Uris,       \* the URIs asked for
    Word,       \* the offensive word
    Addresses,  \* Addresses[u]: those of the host of u, none if nobody knows it
    Bytes,      \* the bytes of answers, 0 among them
    Reply,      \* Reply[u]: the host's answer
    Nul, Junk,  \* the byte 0; what else memory may hold
    Width       \* the bytes received at a time: sizeof(returndata), a pointer

ASSUME UrisAssumption ==
    /\ Uris \subseteq Seq(Chars) /\ Word \in Seq(Chars) \ {<<>>}
    /\ Nul \notin Chars /\ NoOne \notin Browsers
ASSUME HostsAssumption ==
    /\ Addresses \in [Uris -> Nat]
    /\ Reply \in [Uris -> Seq(Bytes)]
    /\ Nul \in Bytes /\ Junk \in Bytes \ {Nul}
    /\ Width \in Nat \ {0}

VARIABLES
    browser,    \* browser[b]: where browser b is
    backlog,    \* the browsers that wait for accept()
    refused,    \* a send() to a browser that is gone has been lost
    pc,         \* where the proxy is
    cause,      \* why it has ended
    expired,    \* 100 seconds have gone by
    late,       \* history: how many browsers were accepted after that
    con,        \* the browser at consocket, uri: what it asks for
    uri,
    i, start,   \* of check()
    num, cres,  \* of the loop over the addresses
    fresh,      \* the bytes the host has not sent yet
    wire,       \* the bytes on their way to the proxy
    returndata, \* the buffer; its last cell stands for all that recv() never fills
    zeroed,     \* history: it was all 0 when it was allocated
    took, got   \* history: the pieces received from the host; the bytes sent on

browserVars == <<browser, backlog>>
checkVars == <<i, start>>
dialVars == <<num, cres>>
relayVars == <<fresh, wire, returndata, zeroed, took, got, refused>>
vars == <<browserVars, pc, cause, expired, late, con, uri, checkVars, dialVars, relayVars>>

Gone(b) == browser[b] = "gone"
Exit(why) == pc' = "exited" /\ cause' = why

\* strlen(): what is in the buffer up to the first 0.
Length(buf) == Cardinality({k \in 1..Len(buf) : \A l \in 1..k : buf[l] # Nul})
Text(buf) == SubSeq(buf, 1, Length(buf))

\* The slip: what was in the buffer before is moved up behind the bytes received.
BugInto(buf, bytes) == bytes \o SubSeq(buf, 1, Len(buf) - Len(bytes))
\* recv() writes the bytes it gets and no more.
Into(buf, bytes) == bytes \o SubSeq(buf, Len(bytes) + 1, Len(buf))

-----------------------------------------------------------------------------
Init ==
    /\ browser = [b \in Browsers |-> "away"]
    /\ backlog = <<>>
    /\ refused = FALSE
    /\ pc = "top" /\ cause = "none"
    /\ expired = FALSE /\ late = 0
    /\ con = NoOne /\ uri = <<>>
    /\ i = 0 /\ start = 0
    /\ num = 0 /\ cres = -1
    /\ fresh = <<>> /\ wire = <<>>
    /\ returndata = <<>> /\ zeroed = FALSE
    /\ took = <<>> /\ got = <<>>

(* Browsers, hosts and time *)

Dial(b) ==
    /\ browser[b] = "away" /\ pc # "exited"
    /\ browser' = [browser EXCEPT ![b] = "dialled"]
    /\ backlog' = Append(backlog, b)
    /\ UNCHANGED <<pc, cause, expired, late, con, uri, checkVars, dialVars, relayVars>>

Ask(b) ==
    /\ browser[b] = "dialled" /\ pc # "exited"
    /\ browser' = [browser EXCEPT ![b] = "asked"]
    /\ UNCHANGED <<backlog, pc, cause, expired, late, con, uri, checkVars, dialVars,
                   relayVars>>

\* The browser does not wait for (the rest of) the answer, or does not ask at all.
HangUp(b) ==
    /\ browser[b] \in {"dialled", "asked"}
    /\ browser' = [browser EXCEPT ![b] = "gone"]
    /\ UNCHANGED <<backlog, pc, cause, expired, late, con, uri, checkVars, dialVars,
                   relayVars>>

Expire ==
    /\ ~expired
    /\ expired' = TRUE
    /\ UNCHANGED <<browserVars, pc, cause, late, con, uri, checkVars, dialVars, relayVars>>

HostSends ==
    /\ pc = "relay" /\ fresh # <<>>
    /\ wire' = Append(wire, Head(fresh))
    /\ fresh' = Tail(fresh)
    /\ UNCHANGED <<browserVars, pc, cause, expired, late, con, uri, checkVars, dialVars,
                   returndata, zeroed, took, got, refused>>

(* The loop of main() *)

\* The slip: the time is not looked at.
BugTop ==
    /\ pc = "top"
    /\ pc' = "accept"
    /\ UNCHANGED <<browserVars, cause, expired, late, con, uri, checkVars, dialVars, relayVars>>
\* The time is looked at before accept(), which may take its time.
Top ==
    /\ pc = "top"
    /\ IF expired THEN Exit("timeout") ELSE pc' = "accept" /\ UNCHANGED cause
    /\ UNCHANGED <<browserVars, expired, late, con, uri, checkVars, dialVars, relayVars>>

Accept ==
    /\ pc = "accept" /\ backlog # <<>>
    /\ con' = Head(backlog)
    /\ backlog' = Tail(backlog)
    /\ late' = IF expired THEN late + 1 ELSE late
    /\ pc' = "getdata"
    /\ UNCHANGED <<browser, cause, expired, uri, checkVars, dialVars, relayVars>>

\* recv() and sscanf(): if the browser left without asking, the URI is what was in
\* the memory that malloc() returned.
GetData ==
    /\ pc = "getdata" /\ browser[con] \in {"asked", "gone"}
    /\ uri' \in Uris
    /\ i' = 0 /\ start' = 0
    /\ pc' = "check"
    /\ UNCHANGED <<browserVars, cause, expired, late, con, dialVars, relayVars>>

\* recv() fails, or there is nothing like a request in that memory.
GetDataFails ==
    /\ pc = "getdata" /\ Gone(con)
    /\ \E why \in {"recv failed", "no request"} : Exit(why)
    /\ UNCHANGED <<browserVars, expired, late, con, uri, checkVars, dialVars, relayVars>>

\* check(): one round of its loop; uri[k + 1] is *(ur + k), and the 0 at its end is
\* no character.
At(s, k) == IF k < Len(s) THEN s[k + 1] ELSE Nul

\* The slip: the search goes on behind the characters that matched.
BugMismatch ==
    /\ pc = "check" /\ start < Len(uri)
    /\ At(uri, i + start) # At(Word, i)
    /\ i' = 0 /\ start' = start + i + 1
    /\ UNCHANGED <<browserVars, pc, cause, expired, late, con, uri, dialVars, relayVars>>
Mismatch ==
    /\ pc = "check" /\ start < Len(uri)
    /\ At(uri, i + start) # At(Word, i)
    /\ i' = 0 /\ start' = start + 1
    /\ UNCHANGED <<browserVars, pc, cause, expired, late, con, uri, dialVars, relayVars>>

\* A whole word ends the program.
Match ==
    /\ pc = "check" /\ start < Len(uri)
    /\ At(uri, i + start) = At(Word, i)
    /\ i' = i + 1
    /\ IF At(Word, i + 1) = Nul THEN Exit("offence") ELSE UNCHANGED <<pc, cause>>
    /\ UNCHANGED <<browserVars, expired, late, con, uri, start, dialVars, relayVars>>

NoMatch ==
    /\ pc = "check" /\ start >= Len(uri)
    /\ pc' = "lookup"
    /\ UNCHANGED <<browserVars, cause, expired, late, con, uri, checkVars, dialVars, relayVars>>

LookUp ==
    /\ pc = "lookup"
    /\ IF Addresses[uri] = 0 THEN Exit("lookup") ELSE pc' = "connect" /\ UNCHANGED cause
    /\ num' = 0
    /\ UNCHANGED <<browserVars, expired, late, con, uri, checkVars, cres, relayVars>>

\* Every address is tried: connect() never returns more than 0.
Connect ==
    /\ pc = "connect" /\ num < Addresses[uri]
    /\ cres' \in {0, -1}
    /\ num' = IF cres' > 0 THEN Addresses[uri] ELSE num + 1
    /\ UNCHANGED <<browserVars, pc, cause, expired, late, con, uri, checkVars, relayVars>>

\* The last address does not answer, or the request cannot be sent.
HostFails ==
    /\ pc = "connect" /\ num = Addresses[uri]
    /\ IF cres < 0 THEN Exit("host down") ELSE Exit("send failed")
    /\ UNCHANGED <<browserVars, expired, late, con, uri, checkVars, dialVars, relayVars>>

\* The request goes to the host, which may fail before its answer is complete, and
\* there is a new buffer for the answer.
SendRequest ==
    /\ pc = "connect" /\ num = Addresses[uri] /\ cres >= 0
    /\ pc' = "relay"
    /\ \E n \in 0..Len(Reply[uri]) : fresh' = SubSeq(Reply[uri], 1, n)
    /\ wire' = <<>> /\ took' = <<>> /\ got' = <<>>
    /\ refused' = FALSE
    /\ returndata' \in [1..Width + 1 -> {Nul, Junk}]
    /\ zeroed' = (returndata' = [k \in 1..Width + 1 |-> Nul])
    /\ UNCHANGED <<browserVars, cause, expired, late, con, uri, checkVars, dialVars>>

\* recv() and send(): what is sent to a browser that is gone is refused, sooner or
\* later, and the send() behind that raises SIGPIPE.
Received(n) ==
    /\ wire' = SubSeq(wire, n + 1, Len(wire))
    /\ took' = Append(took, SubSeq(wire, 1, n))
    /\ returndata' = Into(returndata, SubSeq(wire, 1, n))
\* The slip: the buffer is sent, then filled.
BugRelay ==
    /\ pc = "relay"
    /\ \E n \in 1..Width : n <= Len(wire) /\ Received(n)
    /\ got' = IF Gone(con) THEN got ELSE got \o Text(returndata)
    /\ refused' \in {FALSE, Gone(con)}
    /\ IF refused THEN Exit("sigpipe") ELSE UNCHANGED <<pc, cause>>
    /\ UNCHANGED <<browserVars, expired, late, con, uri, checkVars, dialVars, fresh, zeroed>>
Relay ==
    /\ pc = "relay"
    /\ \E n \in 1..Width : n <= Len(wire) /\ Received(n)
    /\ got' = IF Gone(con) THEN got ELSE got \o Text(returndata')
    /\ refused' \in {FALSE, Gone(con)}
    /\ IF refused THEN Exit("sigpipe") ELSE UNCHANGED <<pc, cause>>
    /\ UNCHANGED <<browserVars, expired, late, con, uri, checkVars, dialVars, fresh, zeroed>>

\* The slip: the browser's socket is left open.
BugEndRelay ==
    /\ pc = "relay" /\ wire = <<>> /\ fresh = <<>>
    /\ pc' = "top"
    /\ UNCHANGED <<browserVars, cause, expired, late, con, uri, checkVars, dialVars, relayVars>>
\* recv() returns 0; both sockets are closed.
EndRelay ==
    /\ pc = "relay" /\ wire = <<>> /\ fresh = <<>>
    /\ browser' = [browser EXCEPT ![con] = IF @ = "gone" THEN @ ELSE "served"]
    /\ pc' = "top"
    /\ UNCHANGED <<backlog, cause, expired, late, con, uri, checkVars, dialVars, relayVars>>

-----------------------------------------------------------------------------
Proxy ==
    \/ Top \/ Accept \/ GetData \/ GetDataFails \/ Match \/ Mismatch \/ NoMatch
    \/ LookUp \/ Connect \/ HostFails \/ SendRequest \/ Relay \/ EndRelay

Next ==
    \/ Proxy \/ HostSends \/ Expire
    \/ \E b \in Browsers : Dial(b) \/ Ask(b) \/ HangUp(b)

Spec == Init /\ [][Next]_vars

\* The proxy runs, a host sends its answer, and a browser that connects asks.
Fairness ==
    /\ WF_vars(Proxy) /\ WF_vars(HostSends)
    /\ \A b \in Browsers : WF_vars(Ask(b))

FairSpec == Spec /\ Fairness

-----------------------------------------------------------------------------
(* Properties *)

TypeOK ==
    /\ browser \in [Browsers -> {"away", "dialled", "asked", "gone", "served"}]
    /\ backlog \in Seq(Browsers)
    /\ refused \in BOOLEAN /\ expired \in BOOLEAN
    /\ pc \in {"top", "accept", "getdata", "check", "lookup", "connect", "relay", "exited"}
    /\ cause \in {"none", "timeout", "recv failed", "no request", "offence", "lookup",
                  "host down", "send failed", "sigpipe"}
    /\ pc = "exited" <=> cause # "none"
    /\ late \in Nat
    /\ con \in Browsers \cup {NoOne}
    /\ pc \in {"getdata", "check", "lookup", "connect", "relay"} => con \in Browsers
    /\ uri \in Uris \cup {<<>>}
    /\ i \in 0..Len(Word) /\ start \in 0..Len(uri)
    /\ num \in Nat /\ cres \in {0, -1}
    /\ fresh \in Seq(Bytes) /\ wire \in Seq(Bytes)
    /\ took \in Seq(Seq(Bytes)) /\ got \in Seq(Bytes)
    /\ zeroed \in BOOLEAN
    /\ pc = "relay" => returndata \in Seq(Bytes) /\ Len(returndata) = Width + 1

\* The word is somewhere in the URI.
Occurs(word, u) ==
    \E k \in 0..Len(u) - Len(word) : \A l \in 1..Len(word) : u[k + l] = word[l]

\* check() is exact: the program ends if and only if the word is in the URI, and no
\* host is ever looked up, dialled or asked for a URI that has the word in it.
CheckExact ==
    /\ cause = "offence" => Occurs(Word, uri)
    /\ pc \in {"lookup", "connect", "relay"} => ~Occurs(Word, uri)

\* The time limit is looked at before accept() only: one browser more may be
\* accepted behind it, and no second one.
OneAfterLimit == late <= 1

\* The proxy relays an answer, and the browser is there.
Relaying == pc = "relay" /\ ~Gone(con)

\* The places <<m, k>> of the bytes received, byte k of piece m, in the order of the
\* answer, and those in front of the first 0 of their piece.
Arrived == UNION {{m} \X DOMAIN took[m] : m \in DOMAIN took}
Kept == {a \in Arrived : \A k \in 1..a[2] : took[a[1]][k] # Nul}
Before(a, b) == a[1] < b[1] \/ (a[1] = b[1] /\ a[2] < b[2])

\* The bytes at the places A were sent on in their order, the one at a as number at[a];
\* and nothing else was.
GotAt(A, at) ==
    /\ \A a, b \in A : Before(a, b) => at[a] < at[b]
    /\ \A a \in A : got[at[a]] = took[a[1]][a[2]]
OnlyAt(A, at) == \A k \in DOMAIN got : \E a \in A : at[a] = k
HasGot(A) == \E at \in [A -> DOMAIN got] : GotAt(A, at)
HasGotOnly(A) == \E at \in [A -> DOMAIN got] : GotAt(A, at) /\ OnlyAt(A, at)

\* strlen() of the buffer is right for what is in front of a 0 in a piece of the
\* answer: while the browser is there, all such bytes get to it, in order, whatever
\* the buffer holds behind the piece.  The bytes behind a 0 may be lost.
NothingLost ==
    Relaying => HasGot(Kept)

\* Nothing else is sent if the buffer was all 0 when it was allocated and no piece is
\* shorter than one before it: then nothing old is behind what recv() has written.
\* Such an answer is relayed exactly if it has no 0 in it.
Growing == \A k, l \in DOMAIN took : k < l => Len(took[k]) <= Len(took[l])
ExactUnlessShorter == Relaying /\ zeroed /\ Growing => HasGotOnly(Kept)

\* "when the server sends the data forward it to the browser": the browser is sent
\* what the host has sent, whatever the sizes of its pieces.
RelayExact == Relaying /\ zeroed => HasGotOnly(Arrived)

\* A browser that has asked gets its connection closed behind an answer, or leaves,
\* or the program ends: nobody waits for ever.
Answered == \A b \in Browsers : browser[b] = "asked" ~> browser[b] # "asked" \/ pc = "exited"

\* "if found close the connection else go on": an offence is the end of one
\* connection, and not of those of other browsers.
OffenceHitsNobodyElse ==
    cause = "offence" => \A b \in Browsers : b = con \/ browser[b] \notin {"dialled", "asked"}

=============================================================================
