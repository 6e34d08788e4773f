-------------------------- MODULE MCChatBroadcast --------------------------
(* Three requests: the first two may be under way together, the third is    *)
(* sent when the answer of one is lost.                                     *)
EXTENDS ChatBroadcast
=============================================================================
