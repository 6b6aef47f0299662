------------------------------ MODULE Directory ------------------------------
(***************************************************************************)
(* What the directory server of exp4 promises: a peer that looks for a     *)
(* file is told the port of a registered peer that has it, and 0 only if   *)
(* there is none.  There are no sockets, no table and no order in it.      *)
(***************************************************************************)
EXTENDS Naturals

CONSTANTS
    Peers,
    Names,          \* the names of files
    NoName, NoPort, \* nothing is looked for; nothing has been answered
    Port,           \* Port[p]: where peer p listens; 0 hides who comes after it
    Listed          \* Listed[p]: the names found in the list of p

VARIABLES
    entries,    \* the peers registered
    wish,       \* wish[p]: the name p looks for
    told        \* told[p]: the last answer to p

Init ==
    /\ entries = {}
    /\ wish = [p \in Peers |-> NoName]
    /\ told = [p \in Peers |-> NoPort]

Register(p) ==
    /\ entries' = entries \cup {p}
    /\ UNCHANGED <<wish, told>>

Request(p) ==
    /\ wish[p] = NoName
    /\ \E n \in Names : wish' = [wish EXCEPT ![p] = n]
    /\ UNCHANGED <<entries, told>>

Having(n) == {q \in entries : n \in Listed[q]}
Hidden == \E q \in entries : Port[q] = 0

Answer(p) ==
    /\ wish[p] # NoName
    /\ wish' = [wish EXCEPT ![p] = NoName]
    /\ \E port \in {Port[q] : q \in Having(wish[p])} \cup {0} :
        /\ port = 0 => Having(wish[p]) = {} \/ Hidden
        /\ told' = [told EXCEPT ![p] = port]
    /\ UNCHANGED entries

Next == \E p \in Peers : Register(p) \/ Request(p) \/ Answer(p)

Spec == Init /\ [][Next]_<<entries, wish, told>>

=============================================================================
