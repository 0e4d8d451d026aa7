--------------------------- MODULE MCChatSession ---------------------------
(* One session with two directories; a conversation can branch at any turn. *)
EXTENDS ChatSession
=============================================================================
