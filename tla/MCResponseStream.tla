-------------------------- MODULE MCResponseStream --------------------------
(* One turn of either path.                                                 *)
EXTENDS ResponseStream
=============================================================================
