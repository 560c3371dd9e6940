----------------------------- MODULE SelectPipe -----------------------------
(***************************************************************************)
(* lab2/selectpipe.c: a parent forks N children, each with a pipe of its   *)
(* own, and selects over the pipes and its standard input.  After every    *)
(* round it asks once, without waiting, for a child that ended, and returns*)
(* when there is no child left.                                            *)
(***************************************************************************)
EXTENDS Naturals, Sequences

CONSTANTS
  N,         \* 3 in the code
  Messages   \* what a child writes: 4 in the code

VARIABLES
  parent,    \* "fork", "select", "read", "return", "exit"
  forked,    \* the children 0 .. forked - 1 exist
  written,   \* messages each child wrote
  got,       \* messages of each child the parent printed
  gone,      \* children that ended
  reaped,    \* children waitpid returned, in order
  ready      \* the pipes in set that the loop has not come to

vars == <<parent, forked, written, got, gone, reaped, ready>>
Children == 0 .. N - 1

\* The sizes that the properties are about.
PipeSizes == N \in Nat \ {0} /\ Messages \in Nat /\ N <= Messages

Init ==
  /\ parent = "fork" /\ forked = 0
  /\ written = [c \in Children |-> 0] /\ got = [c \in Children |-> 0]
  /\ gone = {} /\ reaped = <<>> /\ ready = {}

Running(c) == c < forked /\ c \notin gone

\* A child inherits both ends of the pipes made before its own.
Holders(c)   == {d \in Children : d >= c /\ Running(d)}
HasReader(c) == parent # "exit" \/ Holders(c) # {c}

Readable(c) == got[c] < written[c] \/ Holders(c) = {}

-----------------------------------------------------------------------------

Fork ==
  /\ parent = "fork"
  /\ forked' = forked + 1
  /\ parent' = IF forked' = N THEN "select" ELSE "fork"
  /\ UNCHANGED <<written, got, gone, reaped, ready>>

\* pipe or fork fails; the children that exist are not told.
ForkFails ==
  /\ parent = "fork"
  /\ parent' = "exit"
  /\ UNCHANGED <<forked, written, got, gone, reaped, ready>>

\* An ended pipe is readable too.
Select ==
  /\ parent = "select"
  /\ ready' = {c \in Children : Readable(c)}
  /\ ready' # {}
  /\ parent' = "read"
  /\ UNCHANGED <<forked, written, got, gone, reaped>>

\* Something is typed while no pipe is readable.
Input ==
  /\ parent = "select" /\ \A c \in Children : ~Readable(c)
  /\ parent' = "read"
  /\ UNCHANGED <<forked, written, got, gone, reaped, ready>>

\* The pipes in order; one message, or the end.
Read ==
  /\ parent = "read"
  /\ \E c \in ready :
       /\ \A d \in ready : c <= d
       /\ ready' = ready \ {c}
       /\ got' = IF got[c] < written[c] THEN [got EXCEPT ![c] = @ + 1] ELSE got
  /\ UNCHANGED <<parent, forked, written, gone, reaped>>

Reaped == {reaped[k] : k \in DOMAIN reaped}

\* Mutant: the round that reaps the last child is the last round.
WaitShort ==
  /\ parent = "read" /\ ready = {}
  /\ IF gone \subseteq Reaped THEN UNCHANGED reaped
     ELSE \E c \in gone \ Reaped : reaped' = Append(reaped, c)
  /\ parent' = IF Len(reaped') = N THEN "return" ELSE "select"
  /\ UNCHANGED <<forked, written, got, gone, ready>>

\* waitpid(-1, NULL, WNOHANG): a child that ended, 0, or -1 when all are reaped.
Wait ==
  /\ parent = "read" /\ ready = {}
  /\ IF gone \subseteq Reaped
     THEN /\ parent' = IF Len(reaped) = N THEN "return" ELSE "select"
          /\ UNCHANGED reaped
     ELSE /\ \E c \in gone \ Reaped : reaped' = Append(reaped, c)
          /\ parent' = "select"
  /\ UNCHANGED <<forked, written, got, gone, ready>>

\* A write of a message, ended by SIGPIPE when nobody can read it.
Write(c) ==
  /\ Running(c) /\ written[c] < Messages
  /\ IF HasReader(c)
     THEN written' = [written EXCEPT ![c] = @ + 1] /\ UNCHANGED gone
     ELSE gone' = gone \cup {c} /\ UNCHANGED written
  /\ UNCHANGED <<parent, forked, got, reaped, ready>>

Exit(c) ==
  /\ Running(c) /\ written[c] = Messages
  /\ gone' = gone \cup {c}
  /\ UNCHANGED <<parent, forked, written, got, reaped, ready>>

-----------------------------------------------------------------------------

Parent == Fork \/ Select \/ Read \/ Wait
Child(c) == Write(c) \/ Exit(c)

Done == parent \in {"return", "exit"} /\ (\A c \in Children : ~Running(c)) /\ UNCHANGED vars

Next == Parent \/ ForkFails \/ Input \/ (\E c \in Children : Child(c)) \/ Done

Spec == Init /\ [][Next]_vars

-----------------------------------------------------------------------------
(* Properties.                                                             *)

\* The parent returns when no child is left, which is not when the pipes are
\* empty.  It goes on for a round after each child it reaps: of the child reaped
\* first it misses at most Messages - N messages, of the last all but one.
EachHeard ==
  parent = "return" =>
    Len(reaped) = N /\ \A k \in 1 .. N : got[reaped[k]] >= N + 1 - k
=============================================================================
