---------------------------- MODULE MCPeerRoute ----------------------------
(* The accountless viewer's routes for TLC; the cfg gives the bounds. *)
EXTENDS PeerRoute
=============================================================================
