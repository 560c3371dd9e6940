\* Pipelines, foreground and background commands and signals in any order.
SPECIFICATION FairSpec
CONSTANTS
  Child = {c1, c2, c3}
  Pipe = {q1, q2}
  Shell = shell
INVARIANTS TypeOK ChildAccount PipeEnds
PROPERTY PipelineReturns
