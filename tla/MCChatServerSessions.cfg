\* Three connections at a time register, log in and leave in any order, calls on
\* users.txt fail, and the server is killed in between.
SPECIFICATION Spec
CONSTANTS
  alice = alice
  bob = bob
  secret = secret
  other = other
  Ptr = {p1, p2, p3}
  Fd = {f1, f2, f3}
  Id = {alice}
  Pw = {secret}
  Room = {0}
  MAX_CLNT = 3
  InitialUsers <- NoUsers
  MaxSent = 0
  MayClog = {}
  Mishap = {"accept", "file"}
  NULL = NULL
  NoName = NoName
  Junk = Junk
  BadFd = BadFd
  Garbage = Garbage
  NoThread = NoThread
  NoReq = NoReq
SYMMETRY SymPtrFd
INVARIANTS TypeOK CountIsLive NoNullEntry ListExactWhileLifo UniqueIds AckedSurvives
