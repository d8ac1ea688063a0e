---------------------------- MODULE MCLoginServer ----------------------------
(* Small instances of LoginServer. *)
EXTENDS LoginServer, TLC

Symmetry == Permutations(Clients)
=============================================================================
