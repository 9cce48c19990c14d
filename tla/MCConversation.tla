--------------------------- MODULE MCConversation ---------------------------
(* Three messages of two users; a history of three entries is summarised   *)
(* above one, down to one.                                                 *)
EXTENDS Conversation
=============================================================================
