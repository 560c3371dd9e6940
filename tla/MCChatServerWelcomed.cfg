\* gui_server.c:160: a welcomed client is on the list of the lobby.
SPECIFICATION Spec
CONSTANTS
  alice = alice
  bob = bob
  secret = secret
  other = other
  Ptr = {p1, p2}
  Fd = {f1, f2}
  Id = {alice, bob}
  Pw = {secret}
  Room = {0}
  MAX_CLNT = 2
  InitialUsers <- Users2
  MaxSent = 0
  MayClog = {}
  Mishap = {"accept", "malloc"}
  NULL = NULL
  NoName = NoName
  Junk = Junk
  BadFd = BadFd
  Garbage = Garbage
  NoThread = NoThread
  NoReq = NoReq
INVARIANT WelcomedIsListed
