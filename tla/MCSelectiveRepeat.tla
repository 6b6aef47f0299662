-------------------------- MODULE MCSelectiveRepeat --------------------------
(* SelectiveRepeat for TLC: file and window sizes given one by one. *)
EXTENDS SelectiveRepeat

CONSTANTS ClientPkts, ServerPkts, ClientWindow, ServerWindow

PerEnd(c, s) == [e \in Ends |-> IF e = Client THEN c ELSE s]

MCNPkts == PerEnd(ClientPkts, ServerPkts)
MCWindow == PerEnd(ClientWindow, ServerWindow)

=============================================================================
