---------------------------- MODULE MCWorkspace ----------------------------
(* The desktop window's tabs and panes for TLC; the cfg gives the bounds. *)
EXTENDS Workspace
=============================================================================
