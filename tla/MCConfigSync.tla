---------------------------- MODULE MCConfigSync ----------------------------
(* ConfigSync on small instances: see the .cfg files for the bounds. *)
EXTENDS ConfigSync
=============================================================================
