--------------------------- MODULE MCClientRoute ---------------------------
(* The viewer's relay and direct routes for TLC; the cfg gives the bounds. *)
EXTENDS ClientRoute
=============================================================================
