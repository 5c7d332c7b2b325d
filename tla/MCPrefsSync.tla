---------------------------- MODULE MCPrefsSync ----------------------------
(* Preference synchronisation for TLC; the cfg gives the bounds. *)
EXTENDS PrefsSync
=============================================================================
