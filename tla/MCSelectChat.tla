---------------------------- MODULE MCSelectChat ----------------------------
(* Instances of SelectChat for TLC. *)
EXTENDS SelectChat, TLC

CONSTANTS C1, C2, C3

MCLines == C1 :> 2 @@ C2 :> 1 @@ C3 :> 0
=============================================================================
