------------------------ MODULE MCConversationBatches ------------------------
(* Small instances of ConversationBatches for TLC. *)
EXTENDS ConversationBatches

Symmetry == Permutations(Workers)
=============================================================================
