----------------------------- MODULE MCNameServer -----------------------------
(* Small instances of NameServer. *)
EXTENDS NameServer, TLC

CONSTANTS s1, s2, n1, n2

OwnNode == (s1 :> n1) @@ (s2 :> n2)
ThreeOrTwo == <<3, 2>>
=============================================================================
