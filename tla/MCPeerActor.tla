---------------------------- MODULE MCPeerActor ----------------------------
(* PeerActor on small sets of messages and Welcomes.                       *)
EXTENDS PeerActor
====
