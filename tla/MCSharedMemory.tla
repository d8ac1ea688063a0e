--------------------------- MODULE MCSharedMemory ---------------------------
(* Two managers, whose modules have one key between them. *)
EXTENDS SharedMemory, TLC
CONSTANTS m1, m2
Modules  == m1 :> 0 @@ m2 :> 1
Symmetry == Permutations(Users)
=============================================================================
