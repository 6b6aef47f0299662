---------------------------- MODULE ResendRecord ----------------------------
(***************************************************************************)
(* MCSelectiveRepeat with a record of what each call of sendpacket() has   *)
(* sent, to compare it with the design, exp5/5_120599D.txt:11 and :22.     *)
(***************************************************************************)
EXTENDS MCSelectiveRepeat

VARIABLE sent   \* sent[e]: packets e has sent since its last BeginSend

\* The packets that a step adds to the socket of Peer(e).
Added(e) == {queue'[Peer(e)][i].sno :
                i \in (Len(queue[Peer(e)]) + 1)..Len(queue'[Peer(e)])}

RecordInit == Init /\ sent = [e \in Ends |-> {}]

RecordNext ==
    /\ Next
    /\ sent' = [e \in Ends |->
                  IF pc'[e] # "send" THEN {}
                  ELSE IF pc[e] = "send" THEN sent[e] \cup Added(e)
                  ELSE {}]

RecordSpec == RecordInit /\ [][RecordNext]_<<vars, sent>>

\* "the server sends packets of seqno base to base+window if the packet has
\* bee ack before it will skip else it will send" (5_120599D.txt:11, and :22
\* for the client): when sendpacket() is through, on a connection that is up,
\* it has sent every packet of its window that is not acknowledged.
WindowResent ==
    \A e \in Ends :
        (pc[e] = "send" /\ resend[e] = 0 /\ ~WindowOpen(e) /\ link[e] = "up")
            => \A k \in base[e]..(base[e] + Window[e] - 1) :
                   k < NPkts[e] => k \in acked[e] \cup sent[e]

=============================================================================
