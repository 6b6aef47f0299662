------------------------------ MODULE Resolver ------------------------------
(***************************************************************************)
(* What the lookup of exp2 promises: a shell that asks for a name is shown *)
(* the address that the files of the two servers give for it.  There is no *)
(* cache, no TLD server and no datagram.                                   *)
(***************************************************************************)

CONSTANTS
    Clients,    \* the shells
    Names,      \* the host names they ask for
    NoName,     \* no question
    Unset,      \* a shell that has shown nothing yet
    Zone(_)     \* Zone(n): the address of n, or "not found"

VARIABLES
    question,   \* question[c]: what c waits to be told
    shown       \* shown[c]: the last address c has shown

Init ==
    /\ question = [c \in Clients |-> NoName]
    /\ shown = [c \in Clients |-> Unset]

Ask(c) ==
    /\ question[c] = NoName
    /\ \E n \in Names : question' = [question EXCEPT ![c] = n]
    /\ UNCHANGED shown

Tell(c) ==
    /\ question[c] # NoName
    /\ shown' = [shown EXCEPT ![c] = Zone(question[c])]
    /\ question' = [question EXCEPT ![c] = NoName]

\* A new shell takes the place of one that exits.
Leave(c) ==
    /\ question[c] = NoName
    /\ shown' = [shown EXCEPT ![c] = Unset]
    /\ UNCHANGED question

Next == \E c \in Clients : Ask(c) \/ Tell(c) \/ Leave(c)

Spec == Init /\ [][Next]_<<question, shown>>

=============================================================================
