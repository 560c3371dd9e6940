----------------------------- MODULE ChatServer -----------------------------
(***************************************************************************)
(* The chat server of project2/gui_server.c: the main thread accepts a     *)
(* connection, mallocs a Client record, appends it to clnt_list and starts *)
(* a handler thread; the handler authenticates the connection against      *)
(* users.txt, relays chat lines to the clients of the same room, and at    *)
(* the end takes the record out of clnt_list, closes the socket and frees  *)
(* the record.  mutx guards clnt_list, clnt_cnt and users.txt.             *)
(*                                                                         *)
(* A record is named by its address.  Between malloc and free exactly one  *)
(* handler owns the address, so the address names the handler thread too.  *)
(* A critical section that cannot block is one step; send_msg, and the     *)
(* buffered append to users.txt, keep mutx across several steps.           *)
(***************************************************************************)
EXTENDS Naturals, Sequences, FiniteSets

CONSTANTS
  Ptr,           \* addresses malloc(sizeof(Client)) can return
  Fd,            \* descriptors accept can return
  Id, Pw,        \* ids and passwords clients type
  Room,          \* room numbers; 0 is the lobby
  MAX_CLNT,      \* capacity of clnt_list
  InitialUsers,  \* users.txt when the server is first started
  MaxSent,       \* bound of the model: number of broadcasts in one run
  MayClog,       \* bound of the model: descriptors whose client may stop reading
  Mishap,        \* bound of the model: which of the mishaps below can happen
  NULL,          \* an entry of clnt_list never written
  NoName,        \* the empty name
  Junk,          \* uninitialised bytes in a name: not empty, and no id
  BadFd,         \* -1: accept failed and nobody looked
  Garbage,       \* what the sock field of a freed record holds
  NoThread,      \* mutx is free
  NoReq          \* no request read yet

Line == [id : Id, pw : Pw]
\* accept returns -1, malloc returns memory used before, and a call on
\* users.txt fails.
Mishaps == {"accept", "malloc", "file"}

Request == [mode : {"LOGIN", "REGISTER"}, id : Id, pw : Pw]

DistinctIds(file) ==
  \A i, j \in DOMAIN file : file[i].id = file[j].id => i = j

ASSUME ServerAssumption ==
  /\ IsFiniteSet(Ptr)
  /\ MAX_CLNT \in Nat \ {0}
  /\ Cardinality(Ptr) <= MAX_CLNT   \* never more clients than clnt_list holds
  /\ Room \subseteq Nat /\ 0 \in Room
  /\ MaxSent \in Nat /\ MayClog \subseteq Fd /\ Mishap \subseteq Mishaps
  /\ InitialUsers \in Seq(Line) /\ DistinctIds(InitialUsers)
  /\ NULL \notin Ptr /\ NoThread \notin Ptr
  /\ NoName \notin Id /\ Junk \notin Id /\ NoName # Junk
  /\ BadFd \notin Fd /\ Garbage \notin Fd /\ BadFd # Garbage
  /\ NoReq \notin Request

VARIABLES
  users,      \* users.txt on disk
  clnt_cnt, clnt_list,
  sock, name, room,   \* the fields of every record, live or freed
  mutx,       \* the thread that holds the mutex
  pc,         \* where each handler is; "fresh" while main still owns the record
  req,        \* the request a handler has parsed
  err,        \* the socket's pending error was already reported by read
  cursor,     \* i of the loop in send_msg
  msg,        \* number of the chat line a handler is relaying
  sent,       \* chat lines read so far
  wire,       \* the chat lines written on each descriptor since it was accepted
  clogged,    \* descriptors with a full buffer, as the client does not read
  acked,      \* ghost: ids whose registrant was told OK
  lost,       \* ghost: ids that a failed fopen or fclose kept out of users.txt
  lifo,       \* ghost: every departure so far found its socket only at the end
  owed        \* ghost: who must still get the broadcast in progress

vars == <<users, clnt_cnt, clnt_list, sock, name, room, mutx, pc, req, err,
          cursor, msg, sent, wire, clogged, acked, lost, lifo, owed>>

listVars == <<clnt_cnt, clnt_list, lifo>>
recVars  == <<sock, name, room>>
sendVars == <<cursor, msg, sent, wire, clogged, owed>>
fileVars == <<users, acked, lost>>

-----------------------------------------------------------------------------
(* States of a handler and sets of clients.                                *)

Stage == {"free", "fresh", "auth_read", "dup_scan", "login", "register",
          "flush", "reg_ok", "login_ok", "loop", "send", "sending",
          "disconnect", "closing", "freeing"}

Entries    == {clnt_list[i] : i \in 0 .. clnt_cnt - 1}
\* From the append in main to the removal in DISCONNECT.
Registered == {p \in Ptr : pc[p] \notin {"free", "fresh", "closing", "freeing"}}
OpenFds    == {sock[p] : p \in {q \in Ptr : pc[q] \notin {"free", "freeing"}}}
Unlocked   == mutx = NoThread
Goto(p, stage) == pc' = [pc EXCEPT ![p] = stage]

-----------------------------------------------------------------------------
(* The server starts with the users.txt it finds and an empty list.        *)

NoList   == [i \in 0 .. MAX_CLNT |-> NULL]
EachPtr(v) == [p \in Ptr |-> v]

Init ==
  /\ users = InitialUsers /\ acked = {} /\ lost = {}
  /\ clnt_cnt = 0 /\ clnt_list = NoList /\ lifo = TRUE
  /\ sock = EachPtr(Garbage) /\ name = EachPtr(Junk) /\ room = EachPtr(0)
  /\ mutx = NoThread /\ pc = EachPtr("free")
  /\ req = EachPtr(NoReq) /\ err = EachPtr(FALSE)
  /\ cursor = EachPtr(0) /\ msg = EachPtr(0) /\ sent = 0
  /\ wire = [f \in Fd |-> <<>>] /\ clogged = {} /\ owed = {}

\* The process dies at any point (SIGPIPE from a write to a departed client,
\* ^C, exit) and is started again: only the file survives.
Restart ==
  /\ UNCHANGED fileVars
  /\ clnt_cnt' = 0 /\ clnt_list' = NoList /\ lifo' = TRUE
  /\ sock' = EachPtr(Garbage) /\ name' = EachPtr(Junk) /\ room' = EachPtr(0)
  /\ mutx' = NoThread /\ pc' = EachPtr("free")
  /\ req' = EachPtr(NoReq) /\ err' = EachPtr(FALSE)
  /\ cursor' = EachPtr(0) /\ msg' = EachPtr(0) /\ sent' = 0
  /\ wire' = [f \in Fd |-> <<>>] /\ clogged' = {} /\ owed' = {}

-----------------------------------------------------------------------------
(* The main thread.                                                        *)

\* accept, malloc and the two field initialisations.  The name is not
\* initialised: a chunk fresh from the kernel is zero, a recycled one is not.
Accept(p, f, bytes) ==
  /\ \A q \in Ptr : pc[q] # "fresh"
  /\ pc[p] = "free"
  /\ f \notin OpenFds \ {BadFd}
  /\ f = BadFd => "accept" \in Mishap
  /\ bytes = Junk => "malloc" \in Mishap
  /\ Goto(p, "fresh")
  /\ sock' = [sock EXCEPT ![p] = f]
  /\ room' = [room EXCEPT ![p] = 0]
  /\ name' = [name EXCEPT ![p] = bytes]
  /\ wire' = IF f \in Fd THEN [wire EXCEPT ![f] = <<>>] ELSE wire
  /\ clogged' = clogged \ {f}
  /\ UNCHANGED <<listVars, fileVars, mutx, req, err, cursor, msg, sent, owed>>

\* Mutant: the index is incremented before it is used.
RegisterPreIncrement(p) ==
  /\ pc[p] = "fresh"
  /\ Unlocked
  /\ clnt_list' = [clnt_list EXCEPT ![clnt_cnt + 1] = p]
  /\ clnt_cnt' = clnt_cnt + 1
  /\ Goto(p, "auth_read")
  /\ UNCHANGED <<recVars, sendVars, fileVars, mutx, req, err, lifo>>

\* The append under mutx, and pthread_create.
Register(p) ==
  /\ pc[p] = "fresh"
  /\ Unlocked
  /\ clnt_list' = [clnt_list EXCEPT ![clnt_cnt] = p]
  /\ clnt_cnt' = clnt_cnt + 1
  /\ Goto(p, "auth_read")
  /\ UNCHANGED <<recVars, sendVars, fileVars, mutx, req, err, lifo>>

-----------------------------------------------------------------------------
(* Authentication.                                                         *)

\* After the authentication block: a client without a name is let go.  A
\* record whose name bytes were never set may well have one.
AfterAuth(p) == IF name[p] = NoName THEN "disconnect" ELSE "loop"

\* The parsed request goes out of scope.
Forget(p) == req' = [req EXCEPT ![p] = NoReq]

\* read returned 0 or -1
ReadAuthFails(p) ==
  /\ pc[p] = "auth_read"
  /\ Goto(p, AfterAuth(p))
  /\ UNCHANGED <<listVars, recVars, sendVars, fileVars, mutx, req, err>>

ReadAuth(p, r) ==
  /\ pc[p] = "auth_read"
  /\ sock[p] \in Fd
  /\ req' = [req EXCEPT ![p] = r]
  /\ Goto(p, IF r.mode = "LOGIN" THEN "dup_scan" ELSE "register")
  /\ UNCHANGED <<listVars, recVars, sendVars, fileVars, mutx, err>>

AlreadyLoggedIn(p) ==
  \E q \in Entries : sock[q] # sock[p] /\ name[q] = req[p].id

\* The scan for the id among the connected clients, in a critical section
\* of its own.
DupScan(p) ==
  /\ pc[p] = "dup_scan"
  /\ Unlocked
  /\ IF AlreadyLoggedIn(p)
     THEN Goto(p, "disconnect") /\ Forget(p)
     ELSE Goto(p, "login") /\ UNCHANGED req
  /\ UNCHANGED <<listVars, recVars, sendVars, fileVars, mutx, err>>

Ids(file) == {file[i].id : i \in DOMAIN file}

\* fopen with "r+", and with "w+" when that failed: for whatever reason it
\* failed (no file, no descriptor left), "w+" empties the file.  When both
\* fail, fscanf dereferences NULL: a Restart.
Fopen(file) ==
  /\ file # users => "file" \in Mishap
  /\ users' = file
  /\ lost' = lost \cup (Ids(users) \ Ids(file))

\* process_auth compares with the first line that has the id.
Found(id) == id \in Ids(users)
Matches(file, r) ==
  \E i \in DOMAIN file : /\ file[i] = [id |-> r.id, pw |-> r.pw]
                         /\ \A j \in 1 .. i - 1 : file[j].id # r.id

\* process_auth for LOGIN: the file is read under mutx, the password
\* compared after the unlock with what was read.
Login(p) ==
  /\ pc[p] = "login"
  /\ Unlocked
  /\ \E file \in {users, <<>>} :
       /\ Fopen(file)
       /\ IF Matches(file, req[p])
          THEN Goto(p, "login_ok") /\ UNCHANGED req
          ELSE Goto(p, "disconnect") /\ Forget(p)
  /\ UNCHANGED <<listVars, recVars, sendVars, acked, mutx, err>>

\* OK is written, the name is set outside mutx, the welcome is written.
ReplyLoggedIn(p) ==
  /\ pc[p] = "login_ok"
  /\ name' = [name EXCEPT ![p] = req[p].id]
  /\ Forget(p)
  /\ Goto(p, "loop")
  /\ UNCHANGED <<listVars, sendVars, fileVars, sock, room, mutx, err>>

\* Mutant: mutx is released before fclose on this path too.
RegisterUserUnlocked(p) ==
  /\ pc[p] = "register"
  /\ Unlocked
  /\ \E file \in {users, <<>>} :
       /\ Fopen(file)
       /\ IF req[p].id \in Ids(file) THEN Goto(p, "disconnect") /\ Forget(p)
                                   ELSE Goto(p, "flush") /\ UNCHANGED req
  /\ UNCHANGED <<listVars, recVars, sendVars, acked, mutx, err>>

\* process_auth for REGISTER up to the fprintf, which only fills stdio's
\* buffer; an id already in the file is refused.
RegisterUser(p) ==
  /\ pc[p] = "register"
  /\ Unlocked
  /\ \E file \in {users, <<>>} :
       /\ Fopen(file)
       /\ IF req[p].id \in Ids(file)
          THEN Goto(p, "disconnect") /\ Forget(p) /\ UNCHANGED mutx
          ELSE Goto(p, "flush") /\ mutx' = p /\ UNCHANGED req
  /\ UNCHANGED <<listVars, recVars, sendVars, acked, err>>

\* Mutant: fclose is forgotten, so that the line stays in the buffer.
FlushForgotten(p) ==
  /\ pc[p] = "flush"
  /\ mutx' = NoThread
  /\ Goto(p, "reg_ok")
  /\ UNCHANGED <<listVars, recVars, sendVars, fileVars, req, err>>

\* fclose puts the line into the file, or fails and drops it (a full disk):
\* the result is not looked at.  Then mutx is released.
Flush(p) ==
  /\ pc[p] = "flush"
  /\ \/ /\ users' = Append(users, [id |-> req[p].id, pw |-> req[p].pw])
        /\ lost' = lost \ {req[p].id}
     \/ /\ "file" \in Mishap
        /\ UNCHANGED users
        /\ lost' = lost \cup {req[p].id}
  /\ mutx' = NoThread
  /\ Goto(p, "reg_ok")
  /\ UNCHANGED <<listVars, recVars, sendVars, acked, req, err>>

ReplyRegistered(p) ==
  /\ pc[p] = "reg_ok"
  /\ acked' = acked \cup {req[p].id}
  /\ Forget(p)
  /\ Goto(p, AfterAuth(p))
  /\ UNCHANGED <<listVars, recVars, sendVars, users, lost, mutx, err>>

-----------------------------------------------------------------------------
(* The chat loop and send_msg.                                             *)

\* A line "/join r": the room is set without mutx.
Join(p, r) ==
  /\ pc[p] = "loop" /\ sock[p] \in Fd /\ ~err[p]
  /\ room' = [room EXCEPT ![p] = r]
  /\ owed' = owed \ {p}
  /\ UNCHANGED <<listVars, fileVars, sock, name, mutx, pc, req, err,
                 cursor, msg, sent, wire, clogged>>

\* Any other line is relayed.
ReadLine(p) ==
  /\ pc[p] = "loop" /\ sock[p] \in Fd /\ ~err[p]
  /\ sent < MaxSent
  /\ sent' = sent + 1
  /\ msg' = [msg EXCEPT ![p] = sent + 1]
  /\ Goto(p, "send")
  /\ UNCHANGED <<listVars, recVars, fileVars, mutx, req, err, cursor, wire, clogged, owed>>

\* read returned -1, which is not 0: what the buffer held before is taken for
\* a line.  It is relayed, or skipped when it begins with '/'.  A socket
\* reports its error once; descriptor -1 fails for ever.
ReadError(p) ==
  /\ pc[p] = "loop" /\ (~err[p] \/ sock[p] = BadFd)
  /\ \/ /\ sent < MaxSent
        /\ sent' = sent + 1
        /\ msg' = [msg EXCEPT ![p] = sent + 1]
        /\ Goto(p, "send")
     \/ UNCHANGED <<sent, msg, pc>>
  /\ err' = [err EXCEPT ![p] = TRUE]
  /\ UNCHANGED <<listVars, recVars, fileVars, mutx, req, cursor, wire, clogged, owed>>

ReadEof(p) ==
  /\ pc[p] = "loop" /\ sock[p] \in Fd
  /\ Goto(p, "disconnect")
  /\ UNCHANGED <<listVars, recVars, sendVars, fileVars, mutx, req, err>>

Hears(q, p) == name[q] # NoName /\ room[q] = room[p]

\* Mutant: send_msg does not take mutx.
SendLockless(p) ==
  /\ pc[p] = "send"
  /\ cursor' = [cursor EXCEPT ![p] = 0]
  /\ owed' = {q \in Registered : Hears(q, p)}
  /\ Goto(p, "sending")
  /\ UNCHANGED <<listVars, recVars, fileVars, mutx, req, err, msg, sent, wire, clogged>>

\* Mutant: the loop of send_msg starts at 1.
SendFromOne(p) ==
  /\ pc[p] = "send"
  /\ Unlocked
  /\ mutx' = p
  /\ cursor' = [cursor EXCEPT ![p] = 1]
  /\ owed' = {q \in Registered : Hears(q, p)}
  /\ Goto(p, "sending")
  /\ UNCHANGED <<listVars, recVars, fileVars, req, err, msg, sent, wire, clogged>>

SendLock(p) ==
  /\ pc[p] = "send"
  /\ Unlocked
  /\ mutx' = p
  /\ cursor' = [cursor EXCEPT ![p] = 0]
  /\ owed' = {q \in Registered : Hears(q, p)}
  /\ Goto(p, "sending")
  /\ UNCHANGED <<listVars, recVars, fileVars, req, err, msg, sent, wire, clogged>>

\* One turn of the loop: the entry's fields are read now, a write on a
\* descriptor that is not open is lost, and a write into a full buffer waits,
\* with mutx held.
SendWrite(p) ==
  /\ pc[p] = "sending"
  /\ cursor[p] < clnt_cnt
  /\ LET q == clnt_list[cursor[p]] IN
       IF Hears(q, p)
       THEN /\ sock[q] \notin clogged
            /\ wire' = IF sock[q] \in Fd
                       THEN [wire EXCEPT ![sock[q]] = Append(@, msg[p])]
                       ELSE wire
            /\ owed' = owed \ {q}
       ELSE UNCHANGED <<wire, owed>>
  /\ cursor' = [cursor EXCEPT ![p] = @ + 1]
  /\ UNCHANGED <<listVars, recVars, fileVars, mutx, pc, req, err, msg, sent, clogged>>

\* Mutant: the unlock at the end of send_msg is forgotten.
SendKeepsLock(p) ==
  /\ pc[p] = "sending"
  /\ cursor[p] >= clnt_cnt
  /\ Goto(p, "loop")
  /\ UNCHANGED <<listVars, recVars, sendVars, fileVars, mutx, req, err>>

SendUnlock(p) ==
  /\ pc[p] = "sending"
  /\ cursor[p] >= clnt_cnt
  /\ mutx' = NoThread
  /\ Goto(p, "loop")
  /\ cursor' = [cursor EXCEPT ![p] = 0]
  /\ msg' = [msg EXCEPT ![p] = 0]
  /\ UNCHANGED <<listVars, recVars, fileVars, req, err, sent, wire, clogged, owed>>

-----------------------------------------------------------------------------
(* DISCONNECT.                                                             *)

Hits(p) == {i \in 0 .. clnt_cnt - 1 : sock[clnt_list[i]] = sock[p]}
FirstHit(p) == CHOOSE i \in Hits(p) : \A j \in Hits(p) : i <= j

\* while (i++ < clnt_cnt - 1) clnt_list[i] = clnt_list[i + 1];
\* The increment comes before the body, so the entry found stays and the one
\* after it is overwritten.
ShiftAfter(i) ==
  [k \in 0 .. MAX_CLNT |-> IF i < k /\ k < clnt_cnt THEN clnt_list[k + 1]
                                                    ELSE clnt_list[k]]

\* Mutant: the count goes down only when the socket was found.
DisconnectIfFound(p) ==
  /\ pc[p] = "disconnect"
  /\ Unlocked
  /\ clnt_list' = IF Hits(p) = {} THEN clnt_list ELSE ShiftAfter(FirstHit(p))
  /\ clnt_cnt' = IF Hits(p) = {} THEN clnt_cnt ELSE clnt_cnt - 1
  /\ lifo' = (lifo /\ Hits(p) = {clnt_cnt - 1})
  /\ Goto(p, "closing")
  /\ UNCHANGED <<recVars, sendVars, fileVars, mutx, req, err>>

\* Mutant: the count stays.
DisconnectUncounted(p) ==
  /\ pc[p] = "disconnect"
  /\ Unlocked
  /\ clnt_list' = IF Hits(p) = {} THEN clnt_list ELSE ShiftAfter(FirstHit(p))
  /\ lifo' = (lifo /\ Hits(p) = {clnt_cnt - 1})
  /\ Goto(p, "closing")
  /\ UNCHANGED <<clnt_cnt, recVars, sendVars, fileVars, mutx, req, err>>

Disconnect(p) ==
  /\ pc[p] = "disconnect"
  /\ Unlocked
  /\ clnt_list' = IF Hits(p) = {} THEN clnt_list ELSE ShiftAfter(FirstHit(p))
  /\ clnt_cnt' = clnt_cnt - 1
  /\ lifo' = (lifo /\ Hits(p) = {clnt_cnt - 1})
  /\ Goto(p, "closing")
  /\ UNCHANGED <<recVars, sendVars, fileVars, mutx, req, err>>

Close(p) ==
  /\ pc[p] = "closing"
  /\ Goto(p, "freeing")
  /\ clogged' = clogged \ {sock[p]}
  /\ UNCHANGED <<listVars, recVars, fileVars, mutx, req, err,
                 cursor, msg, sent, wire, owed>>

\* The allocator's links overwrite the first bytes of the chunk; room stays.
Free(p) ==
  /\ pc[p] = "freeing"
  /\ Goto(p, "free")
  /\ sock' = [sock EXCEPT ![p] = Garbage]
  /\ name' = [name EXCEPT ![p] = Junk]
  /\ err' = [err EXCEPT ![p] = FALSE]
  /\ cursor' = [cursor EXCEPT ![p] = 0]
  /\ msg' = [msg EXCEPT ![p] = 0]
  /\ UNCHANGED <<listVars, fileVars, room, mutx, req, sent, wire, clogged, owed>>

\* A client stops reading until its buffer is full, or reads again.
ClientReads(f) ==
  /\ f \in OpenFds
  /\ clogged' \in {clogged \cup {f}, clogged \ {f}}
  /\ UNCHANGED <<listVars, recVars, fileVars, mutx, pc, req, err,
                 cursor, msg, sent, wire, owed>>

-----------------------------------------------------------------------------

Handler(p) ==
  \/ ReadAuthFails(p)
  \/ \E r \in Request : ReadAuth(p, r)
  \/ DupScan(p) \/ Login(p) \/ ReplyLoggedIn(p)
  \/ RegisterUser(p) \/ Flush(p) \/ ReplyRegistered(p)
  \/ \E r \in Room : Join(p, r)
  \/ ReadLine(p) \/ ReadError(p) \/ ReadEof(p)
  \/ SendLock(p) \/ SendWrite(p) \/ SendUnlock(p)
  \/ Disconnect(p) \/ Close(p) \/ Free(p)

Next ==
  \/ Restart
  \/ \E p \in Ptr :
       \/ \E f \in Fd \cup {BadFd}, bytes \in {NoName, Junk} : Accept(p, f, bytes)
       \/ Register(p)
       \/ Handler(p)
  \/ \E f \in MayClog : ClientReads(f)

Spec == Init /\ [][Next]_vars

\* A handler that waits for nobody goes on.  One that waits, for mutx or for
\* room in a client's buffer, needs strong fairness: the lock is free, or the
\* client reads, again and again, not for ever.
Goes(p)  == Flush(p) \/ SendUnlock(p) \/ Close(p) \/ Free(p)
Waits(p) == SendLock(p) \/ SendWrite(p) \/ Disconnect(p)

Fairness == \A p \in Ptr : WF_vars(Goes(p)) /\ SF_vars(Waits(p))

FairSpec == Spec /\ Fairness

-----------------------------------------------------------------------------
(* Properties.                                                             *)

\* Every variable keeps its type.  That clnt_cnt stays within the array is the
\* assumption on Ptr and nothing the code sees to: main never looks at MAX_CLNT.
TypeOK ==
  /\ users \in Seq(Line)
  /\ clnt_cnt \in 0 .. MAX_CLNT
  /\ clnt_list \in [0 .. MAX_CLNT -> Ptr \cup {NULL}]
  /\ sock \in [Ptr -> Fd \cup {BadFd, Garbage}]
  /\ name \in [Ptr -> Id \cup {NoName, Junk}]
  /\ room \in [Ptr -> Room]
  /\ mutx \in Ptr \cup {NoThread}
  /\ pc \in [Ptr -> Stage]
  /\ req \in [Ptr -> Request \cup {NoReq}]
  /\ err \in [Ptr -> BOOLEAN]
  /\ cursor \in [Ptr -> 0 .. MAX_CLNT]
  /\ msg \in [Ptr -> 0 .. MaxSent]
  /\ sent \in 0 .. MaxSent
  /\ wire \in [Fd -> Seq(1 .. MaxSent)]
  /\ clogged \subseteq Fd
  /\ acked \subseteq Id /\ lost \subseteq Id
  /\ lifo \in BOOLEAN
  /\ owed \subseteq Ptr

\* clnt_cnt counts the records appended and not yet disconnected, whatever
\* state the list itself is in: the decrement of DISCONNECT is unconditional,
\* and no path skips it or takes it twice.
CountIsLive == clnt_cnt = Cardinality(Registered)

\* Every entry the three scans dereference was written: the shift, which reads
\* one past the end, and the unconditional decrement never bring an entry that
\* no Register filled below clnt_cnt.
NoNullEntry == \A i \in 0 .. clnt_cnt - 1 : clnt_list[i] \in Ptr

\* As long as clients only leave from the end of the list, the list holds
\* exactly the connected clients, each once.
ListExactWhileLifo ==
  lifo => /\ Entries = Registered
          /\ \A i, j \in 0 .. clnt_cnt - 1 : clnt_list[i] = clnt_list[j] => i = j

\* No id is in users.txt twice: mutx covers the search and the append
\* together, fclose included.
UniqueIds == DistinctIds(users)

\* An id whose registrant was told OK is in users.txt from then on, whenever
\* the server is killed and whoever registers meanwhile, unless the file
\* system took it: its own fclose failed, or an fopen that failed emptied the
\* file since.  The code looks at neither and answers OK all the same.
AckedSurvives == \A id \in acked : Found(id) \/ id \in lost

Carries(f, m, n) ==
  \E i, j \in DOMAIN wire[f] : i < j /\ wire[f][i] = m /\ wire[f][j] = n

\* Two clients that both get two lines get them in the same order: send_msg
\* keeps mutx for the whole loop.  It holds even for a list that DISCONNECT
\* has damaged.
AgreedOrder ==
  \A f, g \in Fd : \A m, n \in 1 .. sent :
    m # n => ~(Carries(f, m, n) /\ Carries(g, n, m))

\* As long as clients only leave from the end of the list, a broadcast has
\* reached everyone who was in the room when it began and has not moved away,
\* by the time mutx is released.
OwedPaid == lifo /\ Unlocked => owed = {}

\* If every client reads again and again, a handler that reaches DISCONNECT
\* closes its socket and frees its record, however often other handlers take
\* mutx before it and wait in a write with it.  One client that never reads
\* again keeps everybody waiting: send_msg writes under mutx.
DisconnectCompletes ==
  (\A f \in Fd : []<>(f \notin clogged))
    => \A p \in Ptr : pc[p] = "disconnect" ~> pc[p] = "free"

InChat(p) == pc[p] \in {"loop", "send", "sending"} /\ name[p] \in Id

\* gui_server.c:149 refuses an id that is already connected: no two clients in
\* the chat have the same id.  The scan and the strcpy of the name are two
\* steps, so it fails.
NoDuplicateLogin == \A p, q \in Ptr : InChat(p) /\ InChat(q) /\ name[p] = name[q] => p = q

\* gui_server.c:160 tells a client that it has entered the lobby: a client in
\* the chat is on the list that send_msg walks.  DISCONNECT of an earlier
\* client overwrites the entry after its own, so it fails.
WelcomedIsListed == \A p \in Ptr : InChat(p) => p \in Entries

=============================================================================
