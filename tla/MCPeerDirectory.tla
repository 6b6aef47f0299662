--------------------------- MODULE MCPeerDirectory ---------------------------
(* PeerDirectory for TLC: three runs of peer.c, two of which have the file  *)
(* that is looked for; the third, at the port of the first, has none.       *)
EXTENDS PeerDirectory, TLC

CONSTANTS p1, p2, p3

MCPort == (p1 :> 11) @@ (p2 :> 12) @@ (p3 :> 11)
MCListed == (p1 :> {"a"}) @@ (p2 :> {"a"}) @@ (p3 :> {})
MCMaxAsks == (p1 :> 1) @@ (p2 :> 2) @@ (p3 :> 0)

=============================================================================
