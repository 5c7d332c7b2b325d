---------------------------- MODULE MCLazyStream ----------------------------
(* LazyStream on small instances: see the .cfg files for the bounds. *)
EXTENDS LazyStream
=============================================================================
