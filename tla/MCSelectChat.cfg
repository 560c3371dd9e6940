\* Three clients that type, read and leave when they like.
SPECIFICATION FairSpec
CONSTANTS
  C1 = c1
  C2 = c2
  C3 = c3
  Client = {c1, c2, c3}
  Listener = listener
  MaxLines <- MCLines
\* Everybody may stop typing, and the server may die.
CHECK_DEADLOCK FALSE
INVARIANTS TypeOK RelayedInOrder
PROPERTY Served
