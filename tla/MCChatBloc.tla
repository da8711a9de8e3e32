----------------------------- MODULE MCChatBloc -----------------------------
(* A short chat and short answers: values for TLC. *)
EXTENDS ChatBloc

Both == BOOLEAN
=============================================================================
