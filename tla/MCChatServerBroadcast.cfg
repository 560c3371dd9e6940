\* Two lines relayed between two rooms while clients log in, rightly or with a
\* wrong password, join, leave and fail.
SPECIFICATION Spec
CONSTANTS
  alice = alice
  bob = bob
  secret = secret
  other = other
  Ptr = {p1, p2}
  Fd = {f1, f2}
  Id = {alice}
  Pw = {secret, other}
  Room = {0, 1}
  MAX_CLNT = 2
  InitialUsers <- Users1
  MaxSent = 2
  MayClog = {}
  Mishap = {"accept", "malloc"}
  NULL = NULL
  NoName = NoName
  Junk = Junk
  BadFd = BadFd
  Garbage = Garbage
  NoThread = NoThread
  NoReq = NoReq
SYMMETRY SymPtrFd
INVARIANTS AgreedOrder OwedPaid
