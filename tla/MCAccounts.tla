---------------------------- MODULE MCAccounts -----------------------------
(* A few clients of each process: values for TLC. *)
EXTENDS Accounts, TLC

Symmetry == Permutations(Clients)
=============================================================================
