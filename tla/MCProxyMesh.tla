---------------------------- MODULE MCProxyMesh ----------------------------
(* ProxyMesh for TLC: of two peers that send, one is sent to as well; both  *)
(* send to the third, which sends nothing, as the fourth peer does.         *)
EXTENDS ProxyMesh

CONSTANTS p1, p2, p4

MCTargets == [p \in Peers |-> IF p = p1 THEN {p2, p4}
                              ELSE IF p = p2 THEN {p4} ELSE {}]
MCText == [p \in Peers |-> IF p = p1 THEN <<"surya">>
                           ELSE IF p = p2 THEN <<"teja", "pala">> ELSE <<>>]
MCOld == [p \in Peers |-> IF p = p4 THEN <<"teja">> ELSE <<>>]

=============================================================================
