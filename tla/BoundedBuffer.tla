--------------------------- MODULE BoundedBuffer ---------------------------
(***************************************************************************)
(* The monitor of lab3/3/boundedbuffer.c (lab3/2 has the same code for one *)
(* producer and one consumer): a ring buffer under one mutex, producers    *)
(* waiting on the condition variable empty and consumers on full.          *)
(*                                                                         *)
(* The steps are the points where another thread may come in between: the  *)
(* lock, the test of the while with what follows it, the signal and the    *)
(* unlock.  pthread_cond_wait may return without a signal (Spurious), and  *)
(* the code's error returns are taken when MayFail is set.                 *)
(***************************************************************************)
EXTENDS Naturals, Sequences, FiniteSets

CONSTANTS
  Producers, Consumers,
  BUFFER_SIZE,
  Items,      \* what produce_item returns
  Zero,       \* the initial content of the array
  NoItem,     \* the uninitialised local of a consumer or a producer
  NoThread,   \* the mutex is free
  Spurious,   \* pthread_cond_wait may return without a signal
  MayFail     \* the pthread calls may return an error

Threads == Producers \cup Consumers

ASSUME BufferAssumption ==
  /\ BUFFER_SIZE \in Nat \ {0}
  /\ Producers \cap Consumers = {}
  /\ Producers # {} /\ Consumers # {}
  /\ NoThread \notin Threads
  /\ Zero \in Items /\ NoItem \notin Items
  /\ Spurious \in BOOLEAN /\ MayFail \in BOOLEAN

VARIABLES
  item, totalitems, in, out,   \* bb
  mutex,                       \* who holds bb.mutex
  full, empty,                 \* who waits on bb.full and on bb.empty
  pc,
  local,                       \* the local variable item of each thread
  lost                         \* ghost: some signal returned an error

vars == <<item, totalitems, in, out, mutex, full, empty, pc, local, lost>>
ring == <<item, totalitems, in, out>>
conds == <<full, empty>>

\* "idle" is outside insert_item and remove_item; "bail" holds the mutex on an
\* error return; a consumer is "done" after a successful remove_item and
\* "stale" after a failed one.
Stage == {"idle", "lock", "test", "wait", "woken", "signal", "unlock", "bail",
          "done", "stale"}
Holding == {"test", "signal", "unlock", "bail"}

Init ==
  /\ item = [i \in 0 .. BUFFER_SIZE - 1 |-> Zero]
  /\ totalitems = 0 /\ in = 0 /\ out = 0
  /\ mutex = NoThread
  /\ full = {} /\ empty = {}
  /\ pc = [t \in Threads |-> "idle"]
  /\ local = [t \in Threads |-> NoItem]
  /\ lost = FALSE

Goto(t, stage) == pc' = [pc EXCEPT ![t] = stage]

-----------------------------------------------------------------------------
(* The calls of both sides.                                                *)

\* producer: an item is made, then insert_item is entered.
Produce(p, x) ==
  /\ pc[p] = "idle"
  /\ local' = [local EXCEPT ![p] = x]
  /\ Goto(p, "lock")
  /\ UNCHANGED <<ring, mutex, conds, lost>>

\* consumer: remove_item is entered.
CallRemove(c) ==
  /\ pc[c] = "idle"
  /\ Goto(c, "lock")
  /\ UNCHANGED <<ring, mutex, conds, local, lost>>

\* pthread_mutex_lock, also the one at the end of pthread_cond_wait
Lock(t) ==
  /\ pc[t] \in {"lock", "woken"}
  /\ mutex = NoThread
  /\ mutex' = t
  /\ Goto(t, "test")
  /\ UNCHANGED <<ring, conds, local, lost>>

\* An error of the first pthread_mutex_lock: the caller ignores the status.
LockFails(t) ==
  /\ MayFail
  /\ pc[t] = "lock"
  /\ Goto(t, IF t \in Consumers THEN "stale" ELSE "idle")
  /\ UNCHANGED <<ring, mutex, conds, local, lost>>

\* A wait that returns an error still holds the mutex.
WaitFails(t) ==
  /\ MayFail
  /\ pc[t] = "test"
  /\ t \in Producers => totalitems >= BUFFER_SIZE
  /\ t \in Consumers => totalitems <= 0
  /\ Goto(t, "bail")
  /\ UNCHANGED <<ring, mutex, conds, local, lost>>

SpuriousWakeup(t) ==
  /\ Spurious
  /\ pc[t] = "wait"
  /\ full' = full \ {t} /\ empty' = empty \ {t}
  /\ Goto(t, "woken")
  /\ UNCHANGED <<ring, mutex, local, lost>>

\* A signal that returns an error: unlock and return, nobody is woken.
SignalFails(t) ==
  /\ MayFail
  /\ pc[t] = "signal"
  /\ lost' = TRUE
  /\ Goto(t, "unlock")
  /\ UNCHANGED <<ring, mutex, conds, local>>

Unlock(t) ==
  /\ pc[t] \in {"unlock", "bail"}
  /\ mutex' = NoThread
  /\ Goto(t, CASE t \in Producers -> "idle"
                [] t \in Consumers -> IF pc[t] = "unlock" THEN "done" ELSE "stale")
  /\ UNCHANGED <<ring, conds, local, lost>>

-----------------------------------------------------------------------------
(* insert_item                                                             *)

WaitEmpty(p) ==
  /\ pc[p] = "test"
  /\ totalitems >= BUFFER_SIZE
  /\ mutex' = NoThread
  /\ empty' = empty \cup {p}
  /\ Goto(p, "wait")
  /\ UNCHANGED <<ring, full, local, lost>>

\* Mutant: one item more than the array holds.
InsertPastEnd(p) ==
  /\ pc[p] = "test"
  /\ totalitems <= BUFFER_SIZE
  /\ item' = [item EXCEPT ![in] = local[p]]
  /\ in' = (in + 1) % BUFFER_SIZE
  /\ totalitems' = totalitems + 1
  /\ Goto(p, "signal")
  /\ UNCHANGED <<out, mutex, conds, local, lost>>

Insert(p) ==
  /\ pc[p] = "test"
  /\ totalitems < BUFFER_SIZE
  /\ item' = [item EXCEPT ![in] = local[p]]
  /\ in' = (in + 1) % BUFFER_SIZE
  /\ totalitems' = totalitems + 1
  /\ Goto(p, "signal")
  /\ UNCHANGED <<out, mutex, conds, local, lost>>

\* Mutant: insert_item signals the condition it waits on itself.
SignalFullSwapped(p) ==
  /\ pc[p] = "signal"
  /\ \/ empty = {} /\ Goto(p, "unlock") /\ UNCHANGED empty
     \/ \E q \in empty :
          /\ empty' = empty \ {q}
          /\ pc' = [pc EXCEPT ![p] = "unlock", ![q] = "woken"]
  /\ UNCHANGED <<ring, mutex, full, local, lost>>

\* pthread_cond_signal(&bb.full) wakes some waiter, if there is one.
SignalFull(p) ==
  /\ pc[p] = "signal"
  /\ \/ full = {} /\ Goto(p, "unlock") /\ UNCHANGED full
     \/ \E c \in full :
          /\ full' = full \ {c}
          /\ pc' = [pc EXCEPT ![p] = "unlock", ![c] = "woken"]
  /\ UNCHANGED <<ring, mutex, empty, local, lost>>

-----------------------------------------------------------------------------
(* remove_item                                                             *)

\* Mutant: the consumer polls without giving the mutex away.
WaitFullPolling(c) ==
  /\ pc[c] = "test"
  /\ totalitems <= 0
  /\ UNCHANGED vars

WaitFull(c) ==
  /\ pc[c] = "test"
  /\ totalitems <= 0
  /\ mutex' = NoThread
  /\ full' = full \cup {c}
  /\ Goto(c, "wait")
  /\ UNCHANGED <<ring, empty, local, lost>>

\* Mutant: out is advanced before the item is read.
RemoveAdvanced(c) ==
  /\ pc[c] = "test"
  /\ totalitems > 0
  /\ local' = [local EXCEPT ![c] = item[(out + 1) % BUFFER_SIZE]]
  /\ out' = (out + 1) % BUFFER_SIZE
  /\ totalitems' = totalitems - 1
  /\ Goto(c, "signal")
  /\ UNCHANGED <<item, in, mutex, conds, lost>>

Remove(c) ==
  /\ pc[c] = "test"
  /\ totalitems > 0
  /\ local' = [local EXCEPT ![c] = item[out]]
  /\ out' = (out + 1) % BUFFER_SIZE
  /\ totalitems' = totalitems - 1
  /\ Goto(c, "signal")
  /\ UNCHANGED <<item, in, mutex, conds, lost>>

\* Mutant: remove_item signals the condition it waits on itself.
SignalEmptySwapped(c) ==
  /\ pc[c] = "signal"
  /\ \/ full = {} /\ Goto(c, "unlock") /\ UNCHANGED full
     \/ \E q \in full :
          /\ full' = full \ {q}
          /\ pc' = [pc EXCEPT ![c] = "unlock", ![q] = "woken"]
  /\ UNCHANGED <<ring, mutex, empty, local, lost>>

SignalEmpty(c) ==
  /\ pc[c] = "signal"
  /\ \/ empty = {} /\ Goto(c, "unlock") /\ UNCHANGED empty
     \/ \E p \in empty :
          /\ empty' = empty \ {p}
          /\ pc' = [pc EXCEPT ![c] = "unlock", ![p] = "woken"]
  /\ UNCHANGED <<ring, mutex, full, local, lost>>

\* The consumer ignores the status: after a failed remove_item it consumes what
\* its local variable held before.
ConsumeItem(c) ==
  /\ pc[c] \in {"done", "stale"}
  /\ Goto(c, "idle")
  /\ UNCHANGED <<ring, mutex, conds, local, lost>>

-----------------------------------------------------------------------------

Producer(p) ==
  \/ \E x \in Items : Produce(p, x)
  \/ WaitEmpty(p) \/ Insert(p) \/ SignalFull(p)

Consumer(c) ==
  \/ CallRemove(c) \/ WaitFull(c) \/ Remove(c) \/ SignalEmpty(c) \/ ConsumeItem(c)

Step(t) ==
  \/ t \in Producers /\ Producer(t)
  \/ t \in Consumers /\ Consumer(t)
  \/ Lock(t) \/ Unlock(t)

Disturbance(t) == LockFails(t) \/ WaitFails(t) \/ SpuriousWakeup(t) \/ SignalFails(t)

Next == \E t \in Threads : Step(t) \/ Disturbance(t)

Spec == Init /\ [][Next]_vars

-----------------------------------------------------------------------------
(* Properties.                                                             *)

\* Every variable keeps its type.
TypeOK ==
  /\ item \in [0 .. BUFFER_SIZE - 1 -> Items]
  /\ totalitems \in 0 .. BUFFER_SIZE
  /\ in \in 0 .. BUFFER_SIZE - 1 /\ out \in 0 .. BUFFER_SIZE - 1
  /\ mutex \in Threads \cup {NoThread}
  /\ full \subseteq Consumers /\ empty \subseteq Producers
  /\ pc \in [Threads -> Stage]
  /\ local \in [Threads -> Items \cup {NoItem}]
  /\ lost \in BOOLEAN

\* Index of the k-th item from the oldest, counted from 0.
Slot(k) == IF out + k < BUFFER_SIZE THEN out + k ELSE out + k - BUFFER_SIZE

\* A consumer that waits while items are there will be helped: another consumer
\* is on its feet, or a producer has yet to signal full.  One signal per item
\* is enough although the producer signals one waiter only.
NoStrandedConsumer ==
  ~lost /\ totalitems > 0 =>
    full # Consumers \/ \E p \in Producers : pc[p] = "signal"

\* The same for the producers while slots are free.
NoStrandedProducer ==
  ~lost /\ totalitems < BUFFER_SIZE =>
    empty # Producers \/ \E c \in Consumers : pc[c] = "signal"

\* Nobody sleeps while there is something to do for all of his kind.
NoStranded == NoStrandedConsumer /\ NoStrandedProducer

\* Producers and consumers are never all asleep: the two condition variables
\* cannot be waited on by everybody at once.
NotAllAsleep == ~lost => full \cup empty # Threads

\* The buffer is a first-in first-out queue of capacity BUFFER_SIZE, error
\* returns included: an item goes in at most once and comes out exactly once.
Contents == [k \in 1 .. totalitems |-> item[Slot(k - 1)]]
Inserting == {"lock", "test", "wait", "woken", "bail"}
Removing  == {"signal", "unlock", "done"}
InHand   == [p \in Producers |-> IF pc[p] \in Inserting THEN local[p] ELSE NoItem]
Removed  == [c \in Consumers |-> IF pc[c] \in Removing THEN local[c] ELSE NoItem]

Fifo == INSTANCE BoundedFifo WITH
          Size <- BUFFER_SIZE, queue <- Contents, made <- InHand, got <- Removed
ImplementsFifo == Fifo!Spec
=============================================================================
