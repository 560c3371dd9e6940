\* NUM_PRODUCERS producers and NUM_CONSUMERS consumers, spurious wakeups and
\* every error return.  A failing signal may really stop everybody.
SPECIFICATION Spec
CONSTANTS
  Producers = {p1, p2}
  Consumers = {c1, c2}
  BUFFER_SIZE = 2
  Items = {zero, a}
  Zero = zero
  NoItem = NoItem
  NoThread = NoThread
  Spurious = TRUE
  MayFail = TRUE
SYMMETRY Symmetric
INVARIANTS TypeOK NoStranded
PROPERTIES ImplementsFifo
CHECK_DEADLOCK FALSE
