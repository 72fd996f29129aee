---------------------------- MODULE MCChatClient ----------------------------
(* Model values for the chat client. *)
EXTENDS ChatClient
=============================================================================
