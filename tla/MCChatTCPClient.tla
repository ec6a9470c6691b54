-------------------------- MODULE MCChatTCPClient --------------------------
(* The instance of ChatTCPClient for TLC. *)
EXTENDS ChatTCPClient
=============================================================================
