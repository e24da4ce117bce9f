--------------------------- MODULE MCConversation ---------------------------
(***************************************************************************)
(* Conversation for TLC.                                                   *)
(***************************************************************************)
EXTENDS Conversation, TLC

Symmetric == Permutations(Contacts) \cup Permutations(Temps)

=============================================================================
