----------------------------- MODULE SelectChat -----------------------------
(***************************************************************************)
(* The chat server of lab3/6 (chat_server.c): one thread that selects over *)
(* its listening socket and its clients, and relays what it reads from one *)
(* client to all the others, under its descriptor; and its clients         *)
(* (chat_client.c), which select over the terminal and their socket.  A    *)
(* read takes at most 1024 bytes: one or more lines, and it may end inside *)
(* one.  A line is one part, or two when some read ends inside it; what    *)
(* follows goes out like a line.  A client connects once.                  *)
(***************************************************************************)
EXTENDS Naturals, Sequences, FiniteSets

CONSTANTS
  Client,   \* the processes that run the client
  Listener, \* serv_sock; the descriptors of the clients are above it
  MaxLines  \* bound of the model: how many parts of lines each client types

ASSUME ClientAssumption ==
  IsFiniteSet(Client) /\ Listener \notin Client /\ MaxLines \in [Client -> Nat]

VARIABLES
  st,      \* each client: "new", "open", "left"
  conn,    \* its connection at the server: "open", "fin" after an orderly
           \* close, "broken" after a reset, "done" when that was reported
  typed,   \* how many parts it typed
  up,      \* its parts in transit
  wire,    \* what the server wrote to it, and it shows: the name, and what was read
  again,   \* what it showed a second time, when its read failed
  queue,   \* connections waiting for accept
  fd,      \* the descriptors of accepted clients, 0 of others
  reads,   \* clients in the set reads
  ready,   \* the part of cpy_reads that the loop has not come to
  buf,     \* what the last read left in buf
  srv,     \* "up" or "dead"
  reset,   \* ghost: clients whose read failed
  before   \* ghost: how many parts of each client were read before one joined

clientVars == <<st, typed>>
serverVars == <<queue, fd, reads, ready, buf, srv, reset, before>>
vars == <<clientVars, again, conn, up, wire, serverVars>>

Init ==
  /\ st = [c \in Client |-> "new"] /\ conn = [c \in Client |-> "open"]
  /\ typed = [c \in Client |-> 0] /\ up = [c \in Client |-> <<>>]
  /\ wire = [c \in Client |-> <<>>] /\ again = [c \in Client |-> <<>>]
  /\ queue = <<>> /\ fd = [c \in Client |-> 0]
  /\ reads = {} /\ ready = {} /\ buf = <<>> /\ srv = "up" /\ reset = {}
  /\ before = [c \in Client |-> [d \in Client |-> 0]]

-----------------------------------------------------------------------------
(* The clients.                                                            *)

Connect(c) ==
  /\ st[c] = "new" /\ srv = "up"
  /\ st' = [st EXCEPT ![c] = "open"]
  /\ queue' = Append(queue, c)
  /\ UNCHANGED <<typed, again, conn, up, wire, fd, reads, ready, buf, srv, reset, before>>

\* A line from the keyboard; empty is none of them, and q is Quit.  (One that is
\* typed after the end of the server goes nowhere.)
TypeLine(c) ==
  /\ st[c] = "open" /\ srv = "up"
  /\ \E n \in 1 .. 2 :
       /\ typed[c] + n <= MaxLines[c]
       /\ typed' = [typed EXCEPT ![c] = @ + n]
       /\ up' = [up EXCEPT ![c] = @ \o [k \in 1 .. n |-> [from |-> c, line |-> typed[c] + k]]]
  /\ UNCHANGED <<st, again, conn, wire, serverVars>>

\* The server ended and had not read everything: the read of the client fails with
\* -1, which is not 0, and what the read before it left in buf, however much that
\* was, is shown again.  The next read returns 0.
ShowFails(c) ==
  /\ st[c] = "open" /\ srv = "dead" /\ up[c] # <<>> /\ again[c] = <<>>
  /\ \E k \in 1 .. Len(wire[c]) : again' = [again EXCEPT ![c] = SubSeq(wire[c], k, Len(wire[c]))]
  /\ UNCHANGED <<clientVars, conn, up, wire, serverVars>>

\* q, or the end of the server.  A close with something unread is a reset.
Quit(c) ==
  /\ st[c] = "open"
  /\ st' = [st EXCEPT ![c] = "left"]
  /\ \E how \in {"fin"} \cup (IF wire[c] = <<>> THEN {} ELSE {"broken"}) :
       conn' = [conn EXCEPT ![c] = how]
  /\ UNCHANGED <<typed, again, up, wire, serverVars>>

-----------------------------------------------------------------------------
(* The server.                                                             *)

HasInput(c) == up[c] # <<>> \/ conn[c] # "open"

Nr(i) == IF i = Listener THEN 0 ELSE fd[i]
FdMax == CHOOSE n \in {0} \cup {fd[c] : c \in Client} : \A c \in Client : fd[c] <= n

\* Mutant: i < fd_max.
BelowMax(i) == Nr(i) < FdMax \/ i = Listener
InLoop(i)   == Nr(i) < FdMax + 1

\* Mutant: the loop goes over the set itself.
SelectAll ==
  /\ srv = "up" /\ \A i \in ready : ~InLoop(i)
  /\ ready' = reads \cup {Listener}
  /\ UNCHANGED <<clientVars, again, conn, up, wire, queue, fd, reads, buf, srv, reset, before>>

\* The set is copied, and the loop goes over the copy.
Select ==
  /\ srv = "up" /\ \A i \in ready : ~InLoop(i)
  /\ ready' = {c \in reads : HasInput(c)} \cup (IF queue = <<>> THEN {} ELSE {Listener})
  /\ ready' # {}
  /\ UNCHANGED <<clientVars, again, conn, up, wire, queue, fd, reads, buf, srv, reset, before>>

\* The loop comes to i.
Turn(i) ==
  /\ srv = "up" /\ i \in ready /\ InLoop(i) /\ \A k \in ready : Nr(i) <= Nr(k)
  /\ ready' = ready \ {i}

ReadOf(c) == typed[c] - Len(up[c])

\* accept returns the lowest free descriptor.
Accept ==
  /\ Turn(Listener)
  /\ LET c == Head(queue)
         free == (1 .. Cardinality(Client)) \ {fd[d] : d \in reads}
     IN  /\ queue' = Tail(queue) /\ reads' = reads \cup {c}
         /\ fd' = [fd EXCEPT ![c] = CHOOSE n \in free : \A m \in free : n <= m]
         /\ before' = [before EXCEPT ![c] = [d \in Client |-> ReadOf(d)]]
  /\ UNCHANGED <<clientVars, again, conn, up, wire, buf, srv, reset>>

\* Mutant: j > i.
OthersAbove(c) == {d \in reads : fd[d] > fd[c]}
Others(c)      == reads \ {c}

\* write to all the others, under the descriptor; by is a ghost.  A client that has
\* closed answers with a reset; a write after a reset is an error or SIGPIPE, and
\* SIGPIPE once read or write has reported the error.
Relay(c, own, lines) ==
  LET to   == Others(c)
      hurt == {d \in to : conn[d] \in {"broken", "done"}}
      line(m) == [id |-> fd[c], by |-> c, from |-> m.from, line |-> m.line]
  IN  /\ wire' = [d \in Client |-> IF d \notin to \ hurt THEN wire[d] ELSE
                                   wire[d] \o [k \in DOMAIN lines |-> line(lines[k])]]
      /\ conn' = [d \in Client |-> IF d = c THEN own ELSE IF d \notin to THEN conn[d]
                                   ELSE IF conn[d] = "fin" THEN "broken"
                                   ELSE IF conn[d] = "broken" THEN "done" ELSE conn[d]]
      /\ srv' \in IF hurt = {} THEN {"up"}
                  ELSE IF \E d \in hurt : conn[d] = "done" THEN {"dead"} ELSE {"up", "dead"}

\* The name comes before the first part only.
Read(c) ==
  /\ Turn(c) /\ up[c] # <<>>
  /\ \E n \in 1 .. Len(up[c]) :
       /\ up' = [up EXCEPT ![c] = SubSeq(@, n + 1, Len(@))]
       /\ buf' = SubSeq(up[c], 1, n)
       /\ Relay(c, conn[c], buf')
  /\ UNCHANGED <<clientVars, again, queue, fd, reads, reset, before>>

\* read fails with -1, which is not 0: buf still holds what was read before, and
\* goes out under the name of this one.
ReadFails(c) ==
  /\ Turn(c) /\ up[c] = <<>> /\ conn[c] = "broken"
  /\ Relay(c, "done", buf)
  /\ reset' = reset \cup {c}
  /\ UNCHANGED <<clientVars, again, up, queue, fd, reads, buf, before>>

\* read returns 0.
ReadEof(c) ==
  /\ Turn(c) /\ up[c] = <<>> /\ conn[c] \in {"fin", "done"}
  /\ reads' = reads \ {c}
  /\ UNCHANGED <<clientVars, again, conn, up, wire, queue, fd, buf, srv, reset, before>>

-----------------------------------------------------------------------------

Server == Select \/ Accept \/ \E c \in Client : Read(c) \/ ReadFails(c) \/ ReadEof(c)

Next == Server \/ \E c \in Client : Connect(c) \/ TypeLine(c) \/ ShowFails(c) \/ Quit(c)

\* The server is scheduled.  Nothing is assumed of the clients.
Spec     == Init /\ [][Next]_vars
FairSpec == Spec /\ WF_vars(Server)

-----------------------------------------------------------------------------
(* Properties.                                                             *)

\* Every variable keeps its type; the descriptors in the set are different ones,
\* of clients that were accepted.
TypeOK ==
  /\ st \in [Client -> {"new", "open", "left"}]
  /\ conn \in [Client -> {"open", "fin", "broken", "done"}]
  /\ typed \in [Client -> Nat] /\ fd \in [Client -> 0 .. Cardinality(Client)]
  /\ \A c \in Client : /\ Len(up[c]) <= typed[c] /\ typed[c] <= MaxLines[c]
                       /\ conn[c] # "open" <=> st[c] = "left"
  /\ reads \subseteq Client /\ ready \subseteq reads \cup {Listener} /\ reset \subseteq Client
  /\ srv \in {"up", "dead"}
  /\ \A c, d \in reads : fd[c] > 0 /\ (fd[c] = fd[d] => c = d)
  /\ Listener \in ready => queue # <<>>

\* A read failed under this name, maybe for one of several clients that had it.
Spoilt(id) == \E c \in reset : fd[c] = id

\* Under a name a client sees what one other client typed, or clients that had the
\* descriptor one after the other: each in order, and never an earlier one again.
RightName(d) ==
  LET w == wire[d] IN
  \A i \in DOMAIN w : ~Spoilt(w[i].id) =>
    /\ fd[w[i].from] = w[i].id /\ w[i].from # d
    /\ \A j \in DOMAIN w : i < j /\ w[j].id = w[i].id =>
         IF w[j].from = w[i].from THEN w[i].line < w[j].line
         ELSE \A k \in DOMAIN w : j < k /\ w[k].id = w[i].id => w[k].from # w[i].from

\* What d got of c, under its name.
PartsOf(d, c) ==
  {wire[d][i].line : i \in {i \in DOMAIN wire[d] : wire[d][i].id = fd[c] /\ wire[d][i].from = c}}

\* It gets all that the server has read of another client since it joined itself,
\* up to some point before one of the two left.
NothingMissing(d) ==
  \A c \in Client \ {d} : ~Spoilt(fd[c]) =>
    /\ \E n \in before[d][c] .. ReadOf(c) : PartsOf(d, c) = before[d][c] + 1 .. n
    /\ d \in reads /\ srv = "up" /\ conn[d] = "open" => PartsOf(d, c) = before[d][c] + 1 .. ReadOf(c)

\* How often something is in s.
Times(s, m) == Cardinality({k \in DOMAIN s : s[k].from = m.from /\ s[k].line = m.line})

\* A read of the server that fails repeats what the read before it brought, and a
\* read of the client repeats, once, what it showed last.
FewRepeats(d) ==
  \A i \in DOMAIN wire[d] :
    LET m == wire[d][i] IN
    /\ Times(wire[d], m) <= 1 + Cardinality(reset)
    /\ Times(again[d], m) <= 1 + Cardinality(reset)

\* What a client shows of the others, unless a read under their name has failed, is
\* theirs, in order and complete; and nothing is repeated more often than reads
\* have failed, its own included.
RelayedInOrder == \A d \in Client : RightName(d) /\ NothingMissing(d) /\ FewRepeats(d)

\* What a client typed is read, whatever its descriptor, and after it left it is
\* taken out of the set, also after a failed read - unless the server dies of
\* writing to a client that left.
Pending(c) == up[c] # <<>> \/ (st[c] = "left" /\ (fd[c] = 0 \/ c \in reads))
Served     == \A c \in Client : Pending(c) ~> (~Pending(c) \/ srv = "dead")
=============================================================================
