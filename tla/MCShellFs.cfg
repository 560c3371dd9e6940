\* Every directory of three names, every command of MCLines in each; one step of
\* another process in a command.
SPECIFICATION Spec
CONSTANTS
  I1 = i1
  I2 = i2
  I3 = i3
  Nil = nil
  Name <- MCName
  Inode <- MCInode
  Text <- MCText
  Word <- MCWord
  Lines <- MCLines
  Stale <- MCStale
SYMMETRY Symmetric
INVARIANTS TypeOK LineMeaning CopyOutcome FailureHarmless
PROPERTY NoSilentLoss
