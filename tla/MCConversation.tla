--------------------------- MODULE MCConversation ---------------------------
(***************************************************************************)
(* Conversation with its windows scaled down; the .cfg gives the sizes.    *)
(***************************************************************************)
EXTENDS Conversation, TLC
=============================================================================
