--------------------------- MODULE MCConversation ---------------------------
(* Instances of Conversation for TLC; the bounds are in the configurations. *)
EXTENDS Conversation
=============================================================================
