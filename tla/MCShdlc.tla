------------------------------- MODULE MCShdlc -------------------------------
(* Two peers; how often each of them writes and what goes wrong is the      *)
(* choice of the cfg.                                                       *)
EXTENDS Shdlc, TLC

CONSTANTS a, b

MCPeers == {a, b}
OneWriter == a :> 2 @@ b :> 0
BothWrite == a :> 3 @@ b :> 1
=============================================================================
