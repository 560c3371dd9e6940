----------------------------- MODULE ShellJobs -----------------------------
(***************************************************************************)
(* The main loop of project1/myshell.c as far as processes go: what it     *)
(* forks, which pipe ends every process has open, what it waits for and    *)
(* what the keyboard signals interrupt.  Built-in commands, a failing      *)
(* pipe() and an empty line come back to the prompt and change nothing of  *)
(* this; files and redirections are left out.                              *)
(*                                                                         *)
(* The commands are external programs: they end when they like, those on   *)
(* the right of a pipe at the latest when their input does.                *)
(***************************************************************************)
EXTENDS Naturals, FiniteSets

CONSTANTS
  Child,   \* bound of the model: children at a time
  Pipe,    \* bound of the model: pipes at a time
  Shell    \* the shell, as a holder of pipe ends

ASSUME ChildAssumption == IsFiniteSet(Child) /\ Child # {} /\ Shell \notin Child
ASSUME PipeAssumption  == Pipe # {}

VARIABLES
  sh, fg, fd,       \* where the shell is, the child it waits for, its current pipe
  st, job, on,      \* each child: its state, its part, its pipe
  writers, readers, \* who has the ends of each pipe open
  due,              \* ghost: children of this command that no wait has paid for
  extra             \* ghost: children left behind by earlier commands

vars  == <<sh, fg, fd, st, job, on, writers, readers, due, extra>>
pipes == <<writers, readers>>

Stages == {"prompt", "fork1", "fork2", "close", "wait1", "wait2", "fg", "exit"}

\* The stage after a wait; how many of its children a command has forked at
\* most and can still wait for.
After       == [wait1 |-> "wait2", wait2 |-> "prompt", fg |-> "prompt"]
WaitsToCome == [prompt |-> 0, fork1 |-> 0, fork2 |-> 1, close |-> 2,
                wait1 |-> 2, wait2 |-> 1, fg |-> 1, exit |-> 0]

Init ==
  /\ sh = "prompt" /\ fg \in Child /\ fd \in Pipe
  /\ st = [c \in Child |-> "none"] /\ job = [c \in Child |-> "fg"]
  /\ on = [c \in Child |-> fd]
  /\ writers = [q \in Pipe |-> {}] /\ readers = [q \in Pipe |-> {}]
  /\ due = 0 /\ extra = 0

Unreaped == {c \in Child : st[c] # "none"}
Alive    == {c \in Child : st[c] \in {"setup", "running"}}
Zombies  == {c \in Child : st[c] = "zombie"}

-----------------------------------------------------------------------------
(* Starting a command.                                                     *)

\* What a child inherits: every end that the shell has open.
Inherit(ends, c) ==
  [q \in Pipe |-> IF Shell \in ends[q] THEN ends[q] \cup {c} ELSE ends[q]]

Fork(c, part) ==
  /\ st[c] = "none"
  /\ st' = [st EXCEPT ![c] = "setup"]
  /\ job' = [job EXCEPT ![c] = part]
  /\ on' = [on EXCEPT ![c] = fd]
  /\ writers' = Inherit(writers, c) /\ readers' = Inherit(readers, c)

ForkFails == UNCHANGED <<st, job, on, pipes>>

StartFg(c) ==
  /\ sh = "prompt" /\ sh' = "fg"
  /\ Fork(c, "fg")
  /\ fg' = c /\ due' = 1
  /\ UNCHANGED <<fd, extra>>

StartBg(c) ==
  /\ sh = "prompt"
  /\ Fork(c, "bg")
  /\ extra' = extra + 1
  /\ UNCHANGED <<sh, fg, fd, due>>

Pipeline(q) ==
  /\ sh = "prompt" /\ sh' = "fork1"
  /\ writers[q] = {} /\ readers[q] = {}
  /\ fd' = q
  /\ writers' = [writers EXCEPT ![q] = {Shell}]
  /\ readers' = [readers EXCEPT ![q] = {Shell}]
  /\ UNCHANGED <<fg, st, job, on, due, extra>>

\* Neither fork of a pipeline is checked.
ForkSide(from, to, part) ==
  /\ sh = from /\ sh' = to
  /\ \/ \E c \in Child : Fork(c, part) /\ due' = due + 1
     \/ ForkFails /\ UNCHANGED due
  /\ UNCHANGED <<fg, fd, extra>>

ForkLeft  == ForkSide("fork1", "fork2", "left")
ForkRight == ForkSide("fork2", "close", "right")

\* Mutant: the shell keeps its write end.
ClosePipeHalf ==
  /\ sh = "close" /\ sh' = "wait1"
  /\ readers' = [readers EXCEPT ![fd] = @ \ {Shell}]
  /\ UNCHANGED <<fg, fd, st, job, on, writers, due, extra>>

ClosePipe ==
  /\ sh = "close" /\ sh' = "wait1"
  /\ writers' = [writers EXCEPT ![fd] = @ \ {Shell}]
  /\ readers' = [readers EXCEPT ![fd] = @ \ {Shell}]
  /\ UNCHANGED <<fg, fd, st, job, on, due, extra>>

-----------------------------------------------------------------------------
(* Waiting.                                                                *)

Reap(c) ==
  /\ st' = [st EXCEPT ![c] = "none"]
  /\ IF due > 0 THEN due' = due - 1 /\ UNCHANGED extra
                ELSE extra' = extra - 1 /\ UNCHANGED due

\* Mutant: a pipeline waits once.
WaitAnyOnce ==
  /\ sh \in {"wait1", "wait2"} /\ sh' = "prompt"
  /\ \/ \E c \in Zombies : Reap(c)
     \/ Unreaped = {} /\ UNCHANGED <<st, due, extra>>
  /\ UNCHANGED <<fg, fd, job, on, pipes>>

\* wait(NULL), twice after a pipeline: any child will do, also one of an
\* earlier command; without children it fails at once.
WaitAny ==
  /\ sh \in {"wait1", "wait2"} /\ sh' = After[sh]
  /\ \/ \E c \in Zombies : Reap(c)
     \/ Unreaped = {} /\ UNCHANGED <<st, due, extra>>
  /\ UNCHANGED <<fg, fd, job, on, pipes>>

WaitFg ==
  /\ sh = "fg" /\ sh' = "prompt"
  /\ fg \in Zombies
  /\ Reap(fg)
  /\ UNCHANGED <<fg, fd, job, on, pipes>>

-----------------------------------------------------------------------------
(* The children.                                                           *)

\* Mutant: the right child keeps its copy of the write end.
SetupOpen(c) ==
  /\ st[c] = "setup"
  /\ st' = [st EXCEPT ![c] = "running"]
  /\ readers' = IF job[c] = "left" THEN [readers EXCEPT ![on[c]] = @ \ {c}] ELSE readers
  /\ UNCHANGED <<sh, fg, fd, job, on, writers, due, extra>>

\* The closes, dup2 and execvp; a program that cannot be executed is one that
\* ends at once.
Setup(c) ==
  /\ st[c] = "setup"
  /\ st' = [st EXCEPT ![c] = "running"]
  /\ readers' = IF job[c] = "left" THEN [readers EXCEPT ![on[c]] = @ \ {c}] ELSE readers
  /\ writers' = IF job[c] = "right" THEN [writers EXCEPT ![on[c]] = @ \ {c}] ELSE writers
  /\ UNCHANGED <<sh, fg, fd, job, on, due, extra>>

\* The children of S end: their ends close, and they wait to be reaped, by
\* init when the shell has gone.
Ended(S) ==
  /\ st' = [c \in Child |->
              IF c \in S THEN (IF sh = "exit" THEN "none" ELSE "zombie") ELSE st[c]]
  /\ writers' = [q \in Pipe |-> writers[q] \ S]
  /\ readers' = [q \in Pipe |-> readers[q] \ S]

End(c) ==
  /\ st[c] = "running"
  /\ Ended({c})
  /\ UNCHANGED <<sh, fg, fd, job, on, due, extra>>

ForegroundEnds(c) == job[c] \in {"fg", "left"} /\ End(c)
EndsAtEof(c)      == job[c] = "right" /\ writers[on[c]] = {} /\ End(c)

-----------------------------------------------------------------------------
(* Signals and the end of the shell.                                       *)

\* The shell blocks in its wait: no child it waits for has ended.
Blocked ==
  \/ sh \in {"wait1", "wait2"} /\ Zombies = {} /\ Unreaped # {}
  \/ sh = "fg" /\ fg \notin Zombies

\* SIGINT and SIGQUIT go to the shell and to all children, those in the
\* background too; each program dies or handles it.  The handler of the shell
\* only prints, but sa_flags is 0: a wait that blocks returns.
Signal ==
  /\ \E S \in SUBSET {c \in Alive : st[c] = "running"} : Ended(S)
  /\ \/ UNCHANGED <<sh, due, extra>>
     \/ /\ Blocked
        /\ sh' = After[sh]
        /\ IF due > 0 THEN due' = due - 1 /\ extra' = extra + 1
                      ELSE UNCHANGED <<due, extra>>
  /\ UNCHANGED <<fg, fd, job, on>>

\* exit, or the end of the input.  The zombies go to init.
Quit ==
  /\ sh = "prompt" /\ sh' = "exit"
  /\ st' = [c \in Child |-> IF st[c] = "zombie" THEN "none" ELSE st[c]]
  /\ due' = 0 /\ extra' = 0
  /\ UNCHANGED <<fg, fd, job, on, pipes>>

-----------------------------------------------------------------------------

ShellStep == ForkLeft \/ ForkRight \/ ClosePipe \/ WaitAny \/ WaitFg

Next ==
  \/ ShellStep \/ Signal \/ Quit
  \/ \E q \in Pipe : Pipeline(q)
  \/ \E c \in Child : StartFg(c) \/ StartBg(c) \/ Setup(c) \/ End(c)

\* The shell and its children are scheduled; commands in the foreground end,
\* one on the right of a pipe when its input has.  Nothing is assumed of
\* background commands or of the user.
Fairness ==
  /\ WF_vars(ShellStep)
  /\ \A c \in Child : /\ WF_vars(Setup(c))
                      /\ WF_vars(ForegroundEnds(c)) /\ WF_vars(EndsAtEof(c))

Spec     == Init /\ [][Next]_vars
FairSpec == Spec /\ Fairness

-----------------------------------------------------------------------------
(* Properties.                                                             *)

\* Every variable keeps its type; a command never has more children to wait for
\* than waits to come, and no pipe end outlives its process.
TypeOK ==
  /\ sh \in Stages /\ fg \in Child /\ fd \in Pipe
  /\ st \in [Child -> {"none", "setup", "running", "zombie"}]
  /\ job \in [Child -> {"fg", "bg", "left", "right"}]
  /\ on \in [Child -> Pipe]
  /\ writers \in [Pipe -> SUBSET (Child \cup {Shell})]
  /\ readers \in [Pipe -> SUBSET (Child \cup {Shell})]
  /\ \A q \in Pipe : (writers[q] \cup readers[q]) \ {Shell} \subseteq Alive
  /\ due \in 0 .. WaitsToCome[sh] /\ extra \in Nat

\* Every child of a command is paid for by one wait, which reaps it or an older
\* child or is interrupted.  So what is left over at the prompt, where due is 0,
\* running or zombie, is one child for every background command and every
\* interrupted wait, less what spare waits have reaped.
ChildAccount ==
  sh # "exit" => Cardinality(Unreaped) = extra + due

\* Once it is set up, a pipe is open for writing in its left command only and
\* for reading in its right command only, whatever was forked in between: so
\* the right one sees the end of its input when the left one ends.
PipeEnds ==
  /\ \A q \in Pipe : Shell \in writers[q] \cup readers[q]
                       => sh \in {"fork1", "fork2", "close"} /\ q = fd
  /\ \A q \in Pipe, c \in Child :
       /\ c \in writers[q] => on[c] = q /\ (job[c] = "left" \/ (job[c] = "right" /\ st[c] = "setup"))
       /\ c \in readers[q] => on[c] = q /\ (job[c] = "right" \/ (job[c] = "left" /\ st[c] = "setup"))

\* A pipeline whose two forks succeeded comes back to the prompt, even when a
\* background command that never ends or a leftover zombie takes one of its waits.
PipelineReturns == (sh = "wait1" /\ due = 2) ~> (sh = "prompt")
=============================================================================
