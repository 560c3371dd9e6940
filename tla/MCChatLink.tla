----------------------------- MODULE MCChatLink -----------------------------
(* An instance of ChatLink for TLC. *)
EXTENDS ChatLink

MCTyped == {Text("slash", 0), Text("number", 1), Text("join", 1)}
=============================================================================
