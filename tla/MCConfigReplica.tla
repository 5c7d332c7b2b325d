--------------------------- MODULE MCConfigReplica ---------------------------
(* ConfigReplica on small instances: see the .cfg files for the bounds. *)
EXTENDS ConfigReplica
=============================================================================
