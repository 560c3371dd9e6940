----------------------------- MODULE CgiServer -----------------------------
(***************************************************************************)
(* lab3/7/cgiserver.c: the main process accepts a connection and forks a   *)
(* worker for it; the worker answers from a file or forks a CGI program    *)
(* that it feeds through a pipe and waits for.  Every process that has a   *)
(* descriptor of a connection or of a pipe keeps it open: conn, writers    *)
(* and readers record who does.                                            *)
(*                                                                         *)
(* A slot is one connection with its worker and its CGI program.           *)
(***************************************************************************)
EXTENDS Naturals, FiniteSets

CONSTANT Slot   \* bound of the model: connections with their processes at a time

ASSUME SlotAssumption == IsFiniteSet(Slot) /\ Slot # {}

VARIABLES
  main, cur,        \* the main process and the connection it has in hand
  wpc, cpc,         \* each worker and each CGI program
  conn,             \* who has the connection open
  writers, readers, \* who has the two ends of input_pipe open
  chld, wchld,      \* SIGCHLD pending at main, at each worker
  merged            \* ghost: exits whose SIGCHLD met one already pending

vars == <<main, cur, wpc, cpc, conn, writers, readers, chld, wchld, merged>>
pipes == <<writers, readers>>

Init ==
  /\ main = "accept" /\ cur \in Slot
  /\ wpc = [w \in Slot |-> "none"] /\ cpc = [w \in Slot |-> "none"]
  /\ conn = [w \in Slot |-> {}]
  /\ writers = [w \in Slot |-> {}] /\ readers = [w \in Slot |-> {}]
  /\ chld = FALSE /\ wchld = [w \in Slot |-> FALSE]
  /\ merged = 0

Free(w)    == wpc[w] = "none" /\ cpc[w] = "none" /\ conn[w] = {}
Running(w) == wpc[w] \notin {"none", "zombie"}
Zombies    == {w \in Slot : wpc[w] = "zombie"}

-----------------------------------------------------------------------------
(* The main process.                                                       *)

Accept(w) ==
  /\ main = "accept"
  /\ Free(w)
  /\ main' = "fork" /\ cur' = w
  /\ conn' = [conn EXCEPT ![w] = {"main"}]
  /\ UNCHANGED <<wpc, cpc, pipes, chld, wchld, merged>>

\* No process can be forked any more: the connection is closed unanswered.
Refuse ==
  /\ main = "accept"
  /\ \A w \in Slot : ~Free(w)
  /\ UNCHANGED vars

\* The worker starts with a copy of the connection; serv_sock is not followed.
Fork ==
  /\ main = "fork"
  /\ main' = "close"
  /\ \/ /\ wpc' = [wpc EXCEPT ![cur] = "read"]
        /\ conn' = [conn EXCEPT ![cur] = @ \cup {"worker"}]
     \/ UNCHANGED <<wpc, conn>>                              \* fork failed
  /\ UNCHANGED <<cur, cpc, pipes, chld, wchld, merged>>

\* Mutant: main keeps its copy of the connection.
KeepConnection ==
  /\ main = "close"
  /\ main' = "accept"
  /\ UNCHANGED <<cur, wpc, cpc, conn, pipes, chld, wchld, merged>>

CloseConnection ==
  /\ main = "close"
  /\ main' = "accept"
  /\ conn' = [conn EXCEPT ![cur] = @ \ {"main"}]
  /\ UNCHANGED <<cur, wpc, cpc, pipes, chld, wchld, merged>>

\* Mutant: the handler returns without the waitpid.
ReadChildprocIdle ==
  /\ chld
  /\ chld' = FALSE
  /\ UNCHANGED <<main, cur, wpc, cpc, conn, pipes, wchld, merged>>

\* The handler of SIGCHLD, wherever main is: one waitpid.
ReadChildproc ==
  /\ chld
  /\ chld' = FALSE
  /\ \/ \E w \in Zombies : wpc' = [wpc EXCEPT ![w] = "none"]
     \/ Zombies = {} /\ UNCHANGED wpc
  /\ UNCHANGED <<main, cur, cpc, conn, pipes, wchld, merged>>

-----------------------------------------------------------------------------
(* handle_request in the worker.                                           *)

WorkerGoto(w, stage) == wpc' = [wpc EXCEPT ![w] = stage]

\* The request is read; a file, an error or nothing at all is answered at once.
ReadRequest(w) ==
  /\ wpc[w] = "read"
  /\ \E stage \in {"pipe", "close"} : WorkerGoto(w, stage)
  /\ UNCHANGED <<main, cur, cpc, conn, pipes, chld, wchld, merged>>

\* pipe, fork and the close of the read end in the parent branch.
ForkCgi(w) ==
  /\ wpc[w] = "pipe"
  /\ WorkerGoto(w, "feed")
  /\ \/ /\ cpc' = [cpc EXCEPT ![w] = "setup"]
        /\ conn' = [conn EXCEPT ![w] = @ \cup {"cgi"}]
        /\ writers' = [writers EXCEPT ![w] = {"worker", "cgi"}]
        /\ readers' = [readers EXCEPT ![w] = {"cgi"}]
     \/ /\ writers' = [writers EXCEPT ![w] = {"worker"}]     \* fork failed
        /\ UNCHANGED <<cpc, conn, readers>>
  /\ UNCHANGED <<main, cur, chld, wchld, merged>>

\* The body fits into the pipe.  A write to a pipe without a reader is Killed.
Feed(w) ==
  /\ wpc[w] = "feed"
  /\ WorkerGoto(w, "shut")
  /\ UNCHANGED <<main, cur, cpc, conn, pipes, chld, wchld, merged>>

Shut(w) ==
  /\ wpc[w] = "shut"
  /\ writers' = [writers EXCEPT ![w] = @ \ {"worker"}]
  /\ WorkerGoto(w, "wait")
  /\ UNCHANGED <<main, cur, cpc, conn, readers, chld, wchld, merged>>

\* wait(NULL) reaps the program, or fails when the handler already has.
Wait(w) ==
  /\ wpc[w] = "wait"
  /\ cpc[w] \in {"zombie", "none"}
  /\ cpc' = [cpc EXCEPT ![w] = "none"]
  /\ WorkerGoto(w, "close")
  /\ UNCHANGED <<main, cur, conn, pipes, chld, wchld, merged>>

\* The handler inherited from main, in the worker.
WorkerReadChildproc(w) ==
  /\ wchld[w] /\ Running(w)
  /\ wchld' = [wchld EXCEPT ![w] = FALSE]
  /\ cpc' = [cpc EXCEPT ![w] = IF @ = "zombie" THEN "none" ELSE @]
  /\ UNCHANGED <<main, cur, wpc, conn, pipes, chld, merged>>

\* The end of a worker: its descriptors close, main gets SIGCHLD, a dead CGI
\* program goes to init.
End(w) ==
  /\ WorkerGoto(w, "zombie")
  /\ conn' = [conn EXCEPT ![w] = @ \ {"worker"}]
  /\ writers' = [writers EXCEPT ![w] = @ \ {"worker"}]
  /\ cpc' = [cpc EXCEPT ![w] = IF @ = "zombie" THEN "none" ELSE @]
  /\ wchld' = [wchld EXCEPT ![w] = FALSE]
  /\ chld' = TRUE
  /\ merged' = IF chld THEN merged + 1 ELSE merged
  /\ UNCHANGED <<main, cur, readers>>

Exit(w) == wpc[w] = "close" /\ End(w)

\* SIGPIPE from a write to a client that went away, or to a pipe whose reader
\* went away.
Killed(w) ==
  /\ \/ wpc[w] \in {"read", "pipe"}
     \/ wpc[w] = "feed" /\ readers[w] = {}
  /\ End(w)

-----------------------------------------------------------------------------
(* The CGI program; from exec on it is external.                           *)

\* Mutant: the child branch keeps the write end.
ExecCgiOpen(w) ==
  /\ cpc[w] = "setup"
  /\ cpc' = [cpc EXCEPT ![w] = "running"]
  /\ UNCHANGED <<main, cur, wpc, conn, pipes, chld, wchld, merged>>

\* dup2, close of the write end, execl.
ExecCgi(w) ==
  /\ cpc[w] = "setup"
  /\ cpc' = [cpc EXCEPT ![w] = "running"]
  /\ writers' = [writers EXCEPT ![w] = @ \ {"cgi"}]
  /\ UNCHANGED <<main, cur, wpc, conn, readers, chld, wchld, merged>>

CgiEnds(w) ==
  /\ cpc[w] = "running"
  /\ conn' = [conn EXCEPT ![w] = @ \ {"cgi"}]
  /\ writers' = [writers EXCEPT ![w] = @ \ {"cgi"}]
  /\ readers' = [readers EXCEPT ![w] = {}]
  /\ cpc' = [cpc EXCEPT ![w] = IF Running(w) THEN "zombie" ELSE "none"]
  /\ wchld' = [wchld EXCEPT ![w] = Running(w)]
  /\ UNCHANGED <<main, cur, wpc, chld, merged>>

\* It ends at the latest when its input does.
CgiSeesEof(w) == writers[w] = {} /\ CgiEnds(w)

-----------------------------------------------------------------------------

MainStep == Fork \/ CloseConnection

WorkerStep(w) ==
  ReadRequest(w) \/ ForkCgi(w) \/ Feed(w) \/ Shut(w) \/ Wait(w) \/ Exit(w)

Next ==
  \/ MainStep \/ ReadChildproc \/ Refuse
  \/ \E w \in Slot :
       \/ Accept(w)
       \/ WorkerStep(w) \/ WorkerReadChildproc(w) \/ Killed(w)
       \/ ExecCgi(w) \/ CgiEnds(w)

\* Every process is scheduled and signals are delivered; clients send their
\* request or go away, and CGI programs end once their input has.
Fairness ==
  /\ WF_vars(MainStep) /\ WF_vars(ReadChildproc)
  /\ \A w \in Slot : /\ WF_vars(WorkerStep(w)) /\ WF_vars(WorkerReadChildproc(w))
                     /\ WF_vars(ExecCgi(w)) /\ WF_vars(CgiSeesEof(w))

Spec     == Init /\ [][Next]_vars
FairSpec == Spec /\ Fairness

-----------------------------------------------------------------------------
(* Properties.                                                             *)

\* Every variable keeps its type, and a descriptor is open only in a process
\* that lives; the program has given up the write end of its own input before
\* it runs.
TypeOK ==
  /\ main \in {"accept", "fork", "close"} /\ cur \in Slot
  /\ wpc \in [Slot -> {"none", "read", "pipe", "feed", "shut", "wait", "close", "zombie"}]
  /\ cpc \in [Slot -> {"none", "setup", "running", "zombie"}]
  /\ conn \in [Slot -> SUBSET {"main", "worker", "cgi"}]
  /\ writers \in [Slot -> SUBSET {"worker", "cgi"}]
  /\ readers \in [Slot -> SUBSET {"cgi"}]
  /\ chld \in BOOLEAN /\ wchld \in [Slot -> BOOLEAN]
  /\ merged \in Nat
  /\ \A w \in Slot :
       /\ "worker" \in conn[w] \cup writers[w] => Running(w)
       /\ "cgi" \in conn[w] \cup readers[w] => cpc[w] \in {"setup", "running"}
       /\ "cgi" \in writers[w] => cpc[w] = "setup"

\* The handler reaps one worker per delivered signal: exactly the workers whose
\* SIGCHLD met a pending one stay behind, and none of them is ever caught up on.
LeakAccount == Cardinality(Zombies) = merged + (IF chld THEN 1 ELSE 0)

\* Every accepted connection is closed in the end by every process that had it,
\* although worker, program and signal handler race for the program's exit.  So
\* a program that reads its input to the end comes to an end.
ConnectionCloses == \A w \in Slot : conn[w] # {} ~> conn[w] = {}
=============================================================================
