---------------------------- MODULE MCChatLists ----------------------------
(* A small account: values for TLC. *)
EXTENDS ChatLists

Symmetry == Permutations(Chats)
=============================================================================
