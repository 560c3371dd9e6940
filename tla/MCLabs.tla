------------------------------- MODULE MCLabs -------------------------------
(* An instance of Labs for TLC. *)
EXTENDS Labs, TLC

CONSTANTS p1, p2, c1, c2

MCNumber   == p1 :> 1 @@ p2 :> 2 @@ c1 :> 3 @@ c2 :> 4
MCSessions == <<2, 1>>
=============================================================================
