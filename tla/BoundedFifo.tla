---------------------------- MODULE BoundedFifo ----------------------------
(***************************************************************************)
(* What the bounded buffer promises its threads: a first-in first-out      *)
(* queue of at most Size items.  An item made by a producer enters at most *)
(* once, and an item in the queue goes to exactly one consumer.            *)
(***************************************************************************)
EXTENDS Naturals, Sequences

CONSTANTS Producers, Consumers, Items, Size, NoItem

VARIABLES
  queue,   \* the items inserted and not yet removed
  made,    \* the item a producer has made and not yet inserted
  got      \* the item a consumer has removed and not yet consumed

Init ==
  /\ queue = <<>>
  /\ made = [p \in Producers |-> NoItem]
  /\ got = [c \in Consumers |-> NoItem]

Make(p, x) ==
  /\ made[p] = NoItem
  /\ made' = [made EXCEPT ![p] = x]
  /\ UNCHANGED <<queue, got>>

Put(p) ==
  /\ made[p] # NoItem
  /\ Len(queue) < Size
  /\ queue' = Append(queue, made[p])
  /\ made' = [made EXCEPT ![p] = NoItem]
  /\ UNCHANGED got

\* The producer gives up on its item.
Drop(p) ==
  /\ made[p] # NoItem
  /\ made' = [made EXCEPT ![p] = NoItem]
  /\ UNCHANGED <<queue, got>>

Take(c) ==
  /\ got[c] = NoItem
  /\ queue # <<>>
  /\ got' = [got EXCEPT ![c] = Head(queue)]
  /\ queue' = Tail(queue)
  /\ UNCHANGED made

Consume(c) ==
  /\ got[c] # NoItem
  /\ got' = [got EXCEPT ![c] = NoItem]
  /\ UNCHANGED <<queue, made>>

Next ==
  \/ \E p \in Producers : (\E x \in Items : Make(p, x)) \/ Put(p) \/ Drop(p)
  \/ \E c \in Consumers : Take(c) \/ Consume(c)

Spec == Init /\ [][Next]_<<queue, made, got>>
=============================================================================
