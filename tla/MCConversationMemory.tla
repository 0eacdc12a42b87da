------------------------ MODULE MCConversationMemory ------------------------
(* Two short replies, so that three of a kind come about; short and long     *)
(* utterances, so that turns are trimmed.                                    *)
EXTENDS ConversationMemory

MCReplies == {"yes", "no"}
MCSizes == {1, 3}
=============================================================================
