-------------------------- MODULE ReliableTransfer --------------------------
(***************************************************************************)
(* What the two programs of exp5 promise each other, with no packets, no   *)
(* acknowledgements in transit and no sockets: each end has a file cut     *)
(* into numbered packets; the packets reach the other end one at a time    *)
(* and in order, and the sender learns of each one, in order, only after   *)
(* the other end has it.  Either transfer may stop anywhere: an end that   *)
(* has sent its last packet exits without waiting, which can cut off both. *)
(***************************************************************************)
EXTENDS Integers

CONSTANTS
    Ends,       \* the two programs
    NPkts       \* NPkts[e]: how many packets the file of e makes

VARIABLES
    delivered,  \* delivered[e]: the packets of e's file the other end has
    confirmed   \* confirmed[e]: those that e knows to be delivered

transferVars == <<delivered, confirmed>>

Init ==
    /\ delivered = [e \in Ends |-> {}]
    /\ confirmed = [e \in Ends |-> {}]

Deliver(e) ==
    \E k \in 0..(NPkts[e] - 1) :
        /\ delivered[e] = 0..(k - 1)
        /\ delivered' = [delivered EXCEPT ![e] = 0..k]
        /\ UNCHANGED confirmed

Confirm(e) ==
    \E k \in delivered[e] :
        /\ confirmed[e] = 0..(k - 1)
        /\ confirmed' = [confirmed EXCEPT ![e] = 0..k]
        /\ UNCHANGED delivered

Next == \E e \in Ends : Deliver(e) \/ Confirm(e)

Spec == Init /\ [][Next]_transferVars

=============================================================================
