\* Every handler that reaches DISCONNECT frees its record, while one client stops
\* and starts reading, and registrations that fail take mutx again and again.
SPECIFICATION FairSpec
CONSTANTS
  alice = alice
  bob = bob
  secret = secret
  other = other
  Ptr = {p1, p2}
  Fd = {f1, f2}
  Id = {alice}
  Pw = {secret}
  Room = {0}
  MAX_CLNT = 2
  InitialUsers <- NoUsers
  MaxSent = 1
  MayClog = {f1}
  Mishap = {"file"}
  NULL = NULL
  NoName = NoName
  Junk = Junk
  BadFd = BadFd
  Garbage = Garbage
  NoThread = NoThread
  NoReq = NoReq
PROPERTIES DisconnectCompletes
