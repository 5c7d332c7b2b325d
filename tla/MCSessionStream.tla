--------------------------- MODULE MCSessionStream ---------------------------
(* SessionStream on small instances: see the .cfg files for the bounds. *)
EXTENDS SessionStream
=============================================================================
