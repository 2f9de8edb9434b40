--------------------------- MODULE MCConversations ---------------------------
(* The instance of Conversations that TLC checks: one shopper who writes on   *)
(* both channels.                                                             *)
EXTENDS Conversations

OneShopper == [m \in WhatsApp |-> "shopper"]
SameText == [m \in Messages |-> "text"]
=============================================================================
