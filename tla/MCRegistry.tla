---------------------------- MODULE MCRegistry ----------------------------
(* Two sessions, two requests at a time. *)
EXTENDS Registry
=============================================================================
