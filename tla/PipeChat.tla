------------------------------ MODULE PipeChat ------------------------------
(***************************************************************************)
(* lab2/pipe.c: a parent and its child chat over two pipes.  Both select   *)
(* over their pipe and the standard input they share; what is typed goes   *)
(* to one of them.  At a terminal the end of the input is read once, in a  *)
(* file again and again.                                                   *)
(***************************************************************************)
EXTENDS Naturals, Sequences

CONSTANT MaxLines   \* bound of the model: lines typed

Proc == {"Parent", "Child"}
Peer(p) == IF p = "Parent" THEN "Child" ELSE "Parent"

VARIABLES
  tty,     \* the input is a terminal
  typed,   \* lines typed
  input,   \* what is typed and not read: "line", or "end" last
  pipe,    \* the lines in the pipe each process reads
  pc,      \* "select", "stdin", "pipe", "wait", "gone"
  set      \* what select found ready

shared == <<tty, typed, input>>
vars   == <<shared, pipe, pc, set>>

Init ==
  /\ tty \in BOOLEAN /\ typed = 0 /\ input = <<>>
  /\ pipe = [p \in Proc |-> 0] /\ pc = [p \in Proc |-> "select"]
  /\ set = [p \in Proc |-> {}]

TypeLine ==
  /\ typed < MaxLines /\ \A k \in DOMAIN input : input[k] # "end"
  /\ typed' = typed + 1 /\ input' = Append(input, "line")
  /\ UNCHANGED <<tty, pipe, pc, set>>

\* ^D, again when the one before was read; or the end of a file.
EndInput ==
  /\ \A k \in DOMAIN input : input[k] # "end"
  /\ input' = Append(input, "end")
  /\ UNCHANGED <<tty, typed, pipe, pc, set>>

-----------------------------------------------------------------------------

\* A process that has left its loop closes its pipes and ends; the parent waits.
Left(p)  == pc[p] \in {"wait", "gone"}
Leave(p) == IF p = "Parent" THEN "wait" ELSE "gone"

\* Mutant: the process keeps its copy of the write end it inherited.
PipeReadyOpen(p) == pipe[p] > 0
PipeReady(p)     == pipe[p] > 0 \/ Left(Peer(p))

Select(p) ==
  /\ pc[p] = "select"
  /\ set' = [set EXCEPT ![p] = (IF input = <<>> THEN {} ELSE {"stdin"})
                                 \cup (IF PipeReady(p) THEN {"pipe"} ELSE {})]
  /\ set'[p] # {}
  /\ pc' = [pc EXCEPT ![p] = IF "stdin" \in set'[p] THEN "stdin" ELSE "pipe"]
  /\ UNCHANGED <<shared, pipe>>

\* read waits when the other process took the line that select saw.  A write to
\* a process that closed its pipe is a SIGPIPE.
ReadInput(p) ==
  /\ pc[p] = "stdin" /\ Head(input) = "line"
  /\ input' = Tail(input)
  /\ IF Left(Peer(p))
     THEN pc' = [pc EXCEPT ![p] = "gone"] /\ UNCHANGED pipe
     ELSE /\ pc' = [pc EXCEPT ![p] = IF "pipe" \in set[p] THEN "pipe" ELSE "select"]
          /\ pipe' = [pipe EXCEPT ![Peer(p)] = @ + 1]
  /\ UNCHANGED <<tty, typed, set>>

\* The end leaves the loop, also when the pipe is ready.
ReadEnd(p) ==
  /\ pc[p] = "stdin" /\ Head(input) = "end"
  /\ input' = IF tty THEN Tail(input) ELSE input
  /\ pc' = [pc EXCEPT ![p] = Leave(p)]
  /\ UNCHANGED <<tty, typed, pipe, set>>

\* One read prints all that is there; 0 ends the loop.
ReadPipe(p) ==
  /\ pc[p] = "pipe" /\ PipeReady(p)
  /\ pipe' = [pipe EXCEPT ![p] = 0]
  /\ pc' = [pc EXCEPT ![p] = IF pipe[p] = 0 THEN Leave(p) ELSE "select"]
  /\ UNCHANGED <<shared, set>>

\* wait(NULL) in the parent.
Wait ==
  /\ pc["Parent"] = "wait" /\ pc["Child"] = "gone"
  /\ pc' = [pc EXCEPT !["Parent"] = "gone"]
  /\ UNCHANGED <<shared, pipe, set>>

-----------------------------------------------------------------------------

Read(p) == input # <<>> /\ (ReadInput(p) \/ ReadEnd(p))
Step(p) == Select(p) \/ Read(p) \/ ReadPipe(p) \/ (p = "Parent" /\ Wait)

Next == TypeLine \/ EndInput \/ \E p \in Proc : Step(p)

-----------------------------------------------------------------------------
(* Properties.                                                             *)

\* When one process leaves, the other one does: it sees the end of its pipe, or
\* dies of a write to it - unless it is in a read of the input, for a line that
\* the other process took after select had seen it.  There nothing reaches it
\* until something is typed.  wait returns in the parent.
BothLeave ==
  (\E p \in Proc : Left(p)) ~>
    \/ \A p \in Proc : pc[p] = "gone"
    \/ input = <<>> /\ \E p \in Proc : pc[p] = "stdin"
=============================================================================
