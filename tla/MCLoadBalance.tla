---------------------------- MODULE MCLoadBalance ----------------------------
(* Small instances of LoadBalance. *)
EXTENDS LoadBalance, TLC

CONSTANTS n1, n2, b1, b2, c1, c2

Symmetry == Permutations(Callbacks) \cup Permutations(Callers)

B(w, c, r) == [workers |-> w, changes |-> c, requests |-> r]

\* Discovery alone and with requests, on one worker and on two.
MCBounds == {B(1, 4, 0), B(2, 2, 0), B(1, 1, 4), B(1, 2, 3), B(2, 1, 1)}
=============================================================================
