-------------------------------- MODULE Labs --------------------------------
(***************************************************************************)
(* The small programs of lab2 and lab3: prog says which one runs.          *)
(***************************************************************************)
EXTENDS MmapCounter, Sequences, FiniteSets

CONSTANTS
  N, Messages,            \* of SelectPipe
  MaxMsg, Sessions,       \* of MsgQueueChat
  MaxLines,               \* of PipeChat
  Producers, Consumers, Zero, NoItem, NoThread,   \* of BoundedBuffer
  Number                  \* a number for each of its threads

VARIABLES prog,
  pParent, pForked, pWritten, pGot, pGone, pReaped, pReady,
  qName, qBox, qMain, qReader, qMy, qPeer, qSig, qOverlap,
  cTty, cTyped, cInput, cPipe, cPc, cSet,
  bItem, bTotal, bIn, bOut, bMutex, bFull, bEmpty, bPc, bLocal, bLost

P == INSTANCE SelectPipe WITH parent <- pParent, forked <- pForked, written <- pWritten,
       got <- pGot, gone <- pGone, reaped <- pReaped, ready <- pReady
Q == INSTANCE MsgQueueChat WITH name <- qName, box <- qBox, main <- qMain, reader <- qReader,
       my <- qMy, peer <- qPeer, sigint <- qSig, overlap <- qOverlap
C == INSTANCE PipeChat WITH tty <- cTty, typed <- cTyped, input <- cInput, pipe <- cPipe,
       pc <- cPc, set <- cSet
B == INSTANCE BoundedBuffer WITH BUFFER_SIZE <- 2, Items <- {Zero}, Spurious <- FALSE,
       MayFail <- FALSE, item <- bItem, totalitems <- bTotal, in <- bIn, out <- bOut,
       mutex <- bMutex, full <- bFull, empty <- bEmpty, pc <- bPc, local <- bLocal, lost <- bLost

\* The sizes that the properties of SelectPipe and MsgQueueChat are about.
ASSUME LabsAssumption == P!PipeSizes /\ Q!SessionSizes

Names == {"mmap", "pipes", "queues", "talk", "buffer"}

pVars == <<pParent, pForked, pWritten, pGot, pGone, pReaped, pReady>>
qVars == <<qName, qBox, qMain, qReader, qMy, qPeer, qSig, qOverlap>>
cVars == <<cTty, cTyped, cInput, cPipe, cPc, cSet>>
bVars == <<bItem, bTotal, bIn, bOut, bMutex, bFull, bEmpty, bPc, bLocal, bLost>>

\* A step of program n leaves the variables of the others alone.
Only(n) ==
  /\ prog = n /\ UNCHANGED prog
  /\ IF n = "mmap" THEN TRUE ELSE UNCHANGED vars
  /\ IF n = "pipes" THEN TRUE ELSE UNCHANGED pVars
  /\ IF n = "queues" THEN TRUE ELSE UNCHANGED qVars
  /\ IF n = "talk" THEN TRUE ELSE UNCHANGED cVars
  /\ IF n = "buffer" THEN TRUE ELSE UNCHANGED bVars

LabsInit ==
  /\ prog \in Names
  /\ Init /\ P!Init /\ Q!Init /\ C!Init /\ B!Init
  /\ cTty => prog = "talk"

LabsNext ==
  \/ Only("mmap")   /\ Next
  \/ Only("pipes")  /\ P!Next
  \/ Only("queues") /\ Q!Next
  \/ Only("talk")   /\ C!Next
  \/ Only("buffer") /\ B!Next

labs == <<prog, vars, pVars, qVars, cVars, bVars>>

\* The processes of program n, by number, where a property needs fairness.
Step(n, k) ==
  \/ n = "mmap"   /\ k = 1 /\ Parent
  \/ n = "mmap"   /\ k = 2 /\ Child
  \/ n = "queues" /\ \E s \in Q!Session : LET p == 6 * s[2] + 3 * s[1] - 8 IN
                       \/ k = p /\ Q!MainStep(s)
                       \/ k = p + 1 /\ Q!ReaderStep(s)
                       \/ k = p + 2 /\ (Q!CleanupMain(s) \/ Q!CleanupReader(s))
  \/ n = "talk"   /\ k = 1 /\ C!Step("Parent")
  \/ n = "talk"   /\ k = 2 /\ C!Step("Child")
  \/ n = "buffer" /\ \E t \in Producers \cup Consumers : Number[t] = k /\ B!Step(t)

LabsSafety == LabsInit /\ [][LabsNext]_labs

\* Every process and thread is scheduled; users do what they like.
LabsSpec ==
  /\ LabsSafety
  /\ \A k \in 1 .. 9 : WF_labs(Step(prog, k) /\ Only(prog))

-----------------------------------------------------------------------------
(* The properties of the programs.                                         *)

\* selectpipe.c: the parent returns after a round for every child it reaped.
EachHeard    == P!EachHeard
\* messagequeue.c: a running session can be found under its user's name.
NameIsMine   == Q!NameIsMine
\* messagequeue.c: a full queue is emptied while its reader goes on.
SendReturns  == Q!SendReturns
\* pipe.c: both processes leave, unless one is in a read of the input.
BothLeave    == C!BothLeave
\* boundedbuffer.c: items keep being consumed, however unfair the mutex.
KeepsFlowing == []<>(prog = "buffer" => \E c \in Consumers : bPc[c] = "done")
=============================================================================
