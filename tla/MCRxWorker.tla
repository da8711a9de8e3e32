---------------------------- MODULE MCRxWorker -----------------------------
(* Two isolates, that of the UI and that of the push handler: values for TLC. *)
EXTENDS RxWorker

Symmetry == Permutations(Clients)
=============================================================================
