\* One client that logs in or registers twice, and two lines after that, its own or others.
SPECIFICATION FairSpec
CONSTANTS
  Button = {0, 1}
  Typed <- MCTyped
  Capacity = 2
  MaxTries = 2
  MaxLines = 2
  MaxLog = 4
\* The user may do nothing, or have quit.
CHECK_DEADLOCK FALSE
INVARIANTS TypeOK LoginTruthful LabelMatchesRoom DisplayInOrder
PROPERTIES LoginReturns WriteGoesThrough
