---------------------------- MODULE MmapCounter ----------------------------
(***************************************************************************)
(* lab2/memorymapfile.c: a parent counts up to Top in a shared mapping,    *)
(* its child polls the counter and ends when it has seen Top.              *)
(*                                                                         *)
(* Both lock the file with flock on the descriptor the parent opened       *)
(* before fork.  A flock lock belongs to the open file, and the two        *)
(* descriptors share one: a request by either process converts the lock of *)
(* both and is granted at once, and an unlock by either drops it.          *)
(***************************************************************************)
EXTENDS Integers

CONSTANT Top     \* 50 in the code

ASSUME TopAssumption == Top \in Nat

VARIABLES
  counter,       \* the shared 8 bytes
  flock,         \* the one lock of the open file
  wpc, i,        \* the parent and its loop variable
  rpc, v, last   \* the child, what it read now and printed last

vars == <<counter, flock, wpc, i, rpc, v, last>>
parent == <<wpc, i>>
child  == <<rpc, v, last>>

Maxed == -1      \* (uint64_t)-1: differs from every counter value

\* Right after fork; the file was truncated and extended with zeros.
Init ==
  /\ counter = 0
  /\ flock = "none"
  /\ wpc = "mmap" /\ i = 0
  /\ rpc = "mmap" /\ v = 0 /\ last = Maxed

-----------------------------------------------------------------------------
(* The parent.                                                             *)

ParentMap ==
  /\ wpc = "mmap"
  /\ wpc' = "zero"
  /\ UNCHANGED <<counter, flock, i, child>>

ParentZero ==
  /\ wpc = "zero"
  /\ counter' = 0
  /\ wpc' = "lock"
  /\ UNCHANGED <<flock, i, child>>

ParentLock ==
  /\ wpc = "lock"
  /\ flock' = "exclusive"
  /\ wpc' = "write"
  /\ UNCHANGED <<counter, i, child>>

ParentWrite ==
  /\ wpc = "write"
  /\ counter' = i
  /\ wpc' = "unlock"
  /\ UNCHANGED <<flock, i, child>>

\* Mutant: the loop stops one short of Top.
ParentUnlockShort ==
  /\ wpc = "unlock"
  /\ flock' = "none"
  /\ IF i < Top - 1 THEN i' = i + 1 /\ wpc' = "lock" ELSE wpc' = "waitpid" /\ UNCHANGED i
  /\ UNCHANGED <<counter, child>>

\* Mutant: the reset to 0 is repeated in the loop.
ParentUnlockReset ==
  /\ wpc = "unlock"
  /\ flock' = "none"
  /\ counter' = 0
  /\ IF i < Top THEN i' = i + 1 /\ wpc' = "lock" ELSE wpc' = "waitpid" /\ UNCHANGED i
  /\ UNCHANGED child

ParentUnlock ==
  /\ wpc = "unlock"
  /\ flock' = "none"
  /\ IF i < Top THEN i' = i + 1 /\ wpc' = "lock" ELSE wpc' = "waitpid" /\ UNCHANGED i
  /\ UNCHANGED <<counter, child>>

\* waitpid returns once the child has exited.
ParentReap ==
  /\ wpc = "waitpid"
  /\ rpc = "exit"
  /\ wpc' = "exit"
  /\ UNCHANGED <<counter, flock, i, child>>

\* mmap fails: that process exits, the other is not told.
ParentMapFails ==
  /\ wpc = "mmap"
  /\ wpc' = "exit"
  /\ UNCHANGED <<counter, flock, i, child>>

-----------------------------------------------------------------------------
(* The child.                                                              *)

ChildMap ==
  /\ rpc = "mmap"
  /\ rpc' \in {"lock", "exit"}   \* exit when mmap fails
  /\ UNCHANGED <<counter, flock, parent, v, last>>

ChildLock ==
  /\ rpc = "lock"
  /\ flock' = "shared"
  /\ rpc' = "read"
  /\ UNCHANGED <<counter, parent, v, last>>

ChildRead ==
  /\ rpc = "read"
  /\ v' = counter
  /\ rpc' = "unlock"
  /\ UNCHANGED <<counter, flock, parent, last>>

ChildUnlock ==
  /\ rpc = "unlock"
  /\ flock' = "none"
  /\ rpc' = "check"
  /\ UNCHANGED <<counter, parent, v, last>>

\* Only a change is printed, and only then is the end looked for.
ChildCheck ==
  /\ rpc = "check"
  /\ last' = v
  /\ rpc' = IF v # last /\ v >= Top THEN "exit" ELSE "lock"
  /\ UNCHANGED <<counter, flock, parent, v>>

-----------------------------------------------------------------------------

Parent ==
  ParentMap \/ ParentZero \/ ParentLock \/ ParentWrite \/ ParentUnlock \/ ParentReap
Child == ChildMap \/ ChildLock \/ ChildRead \/ ChildUnlock \/ ChildCheck

Done == wpc = "exit" /\ rpc = "exit" /\ UNCHANGED vars

Next == Parent \/ ParentMapFails \/ Child \/ Done

Spec == Init /\ [][Next]_vars

-----------------------------------------------------------------------------
(* Properties.                                                             *)

\* Every variable keeps its type.
TypeOK ==
  /\ counter \in 0 .. Top /\ i \in 0 .. Top
  /\ flock \in {"none", "shared", "exclusive"}
  /\ wpc \in {"mmap", "zero", "lock", "write", "unlock", "waitpid", "exit"}
  /\ rpc \in {"mmap", "lock", "read", "unlock", "check", "exit"}
  /\ v \in 0 .. Top /\ last \in -1 .. Top

\* The child never prints a smaller value than before, although the lock
\* excludes nothing and the parent stores 0 when the child may already poll.
PrintsGrow == [][last' # last => last' > last]_vars

\* If the parent gets its mapping both processes end: the child, if it has a
\* mapping too, sees Top although it may miss any other value.
BothEnd == wpc = "zero" ~> wpc = "exit" /\ rpc = "exit"
=============================================================================
