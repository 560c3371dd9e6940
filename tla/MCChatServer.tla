---------------------------- MODULE MCChatServer ----------------------------
(* Instances of ChatServer for TLC. *)
EXTENDS ChatServer, TLC

CONSTANTS alice, bob, secret, other

Users2 == <<[id |-> alice, pw |-> secret], [id |-> bob, pw |-> secret]>>
Users1 == <<[id |-> alice, pw |-> secret]>>
NoUsers == <<>>

\* Addresses and descriptors are only compared for equality.
SymPtrFd == {a @@ b : a \in Permutations(Ptr), b \in Permutations(Fd)}
=============================================================================
