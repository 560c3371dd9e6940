\* A count to 20; three children with four messages each; a user with two sessions
\* and one with one, and queues of one message; two lines typed; two producers and
\* two consumers.
SPECIFICATION LabsSpec
CONSTANTS
  Top = 20
  N = 3
  Messages = 4
  MaxMsg = 1
  MaxLines = 2
  p1 = p1
  p2 = p2
  c1 = c1
  c2 = c2
  Producers = {p1, p2}
  Consumers = {c1, c2}
  Number <- MCNumber
  Sessions <- MCSessions
  Zero = zero
  NoItem = NoItem
  NoThread = NoThread
\* The chats may end, or nobody types.
CHECK_DEADLOCK FALSE
INVARIANTS EachHeard NameIsMine
PROPERTIES PrintsGrow BothEnd SendReturns BothLeave KeepsFlowing
