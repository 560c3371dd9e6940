\* gui_server.c:149: an id that is connected cannot log in again.
SPECIFICATION Spec
CONSTANTS
  alice = alice
  bob = bob
  secret = secret
  other = other
  Ptr = {p1, p2}
  Fd = {f1, f2}
  Id = {alice}
  Pw = {secret}
  Room = {0}
  MAX_CLNT = 2
  InitialUsers <- Users1
  MaxSent = 0
  MayClog = {}
  Mishap = {"accept", "malloc"}
  NULL = NULL
  NoName = NoName
  Junk = Junk
  BadFd = BadFd
  Garbage = Garbage
  NoThread = NoThread
  NoReq = NoReq
INVARIANT NoDuplicateLogin
