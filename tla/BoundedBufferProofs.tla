------------------------ MODULE BoundedBufferProofs ------------------------
(***************************************************************************)
(* Safety of BoundedBuffer for any number of producers and consumers and   *)
(* any capacity, and its refinement of BoundedFifo.                        *)
(***************************************************************************)
EXTENDS BoundedBuffer, SequenceTheorems, TLAPS

\* The mutex is held by exactly the thread inside insert_item or remove_item.
MutexHeld == \A t \in Threads : pc[t] \in Holding <=> mutex = t

\* A thread is on a condition variable exactly while it waits.
Waiters ==
  /\ \A p \in Producers : p \in empty <=> pc[p] = "wait"
  /\ \A c \in Consumers : c \in full <=> pc[c] = "wait"

\* in is the first free slot after the items.
RingShape == in = Slot(totalitems)

\* A producer in insert_item and a consumer after Remove hold a real item.
LocalItem ==
  /\ \A p \in Producers :
       pc[p] \in Inserting => local[p] \in Items
  /\ \A c \in Consumers : pc[c] \in Removing => local[c] \in Items

\* Only a consumer has something to consume.
Sides == \A p \in Producers : pc[p] \notin {"done", "stale"}

BufferInv == TypeOK /\ MutexHeld /\ Waiters /\ RingShape /\ LocalItem /\ Sides

\* The wrap of in and out without the remainder.
LEMMA Wrap ==
  ASSUME NEW i \in 0 .. BUFFER_SIZE - 1
  PROVE  (i + 1) % BUFFER_SIZE = IF i = BUFFER_SIZE - 1 THEN 0 ELSE i + 1
<1> BUFFER_SIZE \in Nat \ {0}
  BY BufferAssumption
<1>1. CASE i = BUFFER_SIZE - 1
  BY <1>1
<1>2. CASE i + 1 < BUFFER_SIZE
  BY <1>2
<1> QED
  BY <1>1, <1>2

-----------------------------------------------------------------------------

\* The static initialiser of bb, with no thread started, satisfies the
\* invariant.
THEOREM InitBuffer == Init => BufferInv
<1> USE BufferAssumption DEF Init, Stage
<1>1. Init => TypeOK
  <2>1. Init => item \in [0 .. BUFFER_SIZE - 1 -> Items] /\ lost \in BOOLEAN
    OBVIOUS
  <2>2. Init => pc \in [Threads -> Stage] /\ local \in [Threads -> Items \cup {NoItem}]
    OBVIOUS
  <2> QED
    BY <2>1, <2>2 DEF TypeOK
<1>2. Init => MutexHeld /\ Waiters /\ RingShape /\ LocalItem /\ Sides
  BY DEF MutexHeld, Waiters, RingShape, LocalItem, Inserting, Removing, Sides, Holding,
     Slot, Threads
<1> QED
  BY <1>1, <1>2 DEF BufferInv

\* Every step of insert_item, remove_item and their callers keeps the types,
\* the owner of the mutex, the wait sets and the shape of the ring.
LEMMA BufferStep == BufferInv /\ [Next]_vars => BufferInv'
<1> SUFFICES ASSUME BufferInv, [Next]_vars PROVE BufferInv'
  OBVIOUS
<1> USE BufferAssumption DEF BufferInv, TypeOK, MutexHeld, Waiters, RingShape,
        LocalItem, Inserting, Removing, Sides, Stage, Holding, Slot, Goto, Threads, ring, conds
<1>1. ASSUME NEW p \in Producers, NEW x \in Items, Produce(p, x)
      PROVE  BufferInv'
  BY <1>1 DEF Produce
<1>2. ASSUME NEW p \in Producers, WaitEmpty(p)
      PROVE  BufferInv'
  BY <1>2 DEF WaitEmpty
<1>3. ASSUME NEW p \in Producers, Insert(p)
      PROVE  BufferInv'
  <2>1. in' = IF in = BUFFER_SIZE - 1 THEN 0 ELSE in + 1
    BY <1>3, Wrap DEF Insert
  <2>2. totalitems' = totalitems + 1 /\ totalitems < BUFFER_SIZE /\ UNCHANGED out
    BY <1>3 DEF Insert
  <2>3. RingShape' /\ in' \in 0 .. BUFFER_SIZE - 1 /\ totalitems' \in 0 .. BUFFER_SIZE
    BY <2>1, <2>2
  <2>4. item' \in [0 .. BUFFER_SIZE - 1 -> Items]
    BY <1>3 DEF Insert
  <2> QED
    BY <1>3, <2>2, <2>3, <2>4 DEF Insert
<1>4. ASSUME NEW p \in Producers, SignalFull(p)
      PROVE  BufferInv'
  BY <1>4 DEF SignalFull
<1>5. ASSUME NEW c \in Consumers, CallRemove(c)
      PROVE  BufferInv'
  BY <1>5 DEF CallRemove
<1>6. ASSUME NEW c \in Consumers, WaitFull(c)
      PROVE  BufferInv'
  BY <1>6 DEF WaitFull
<1>7. ASSUME NEW c \in Consumers, Remove(c)
      PROVE  BufferInv'
  <2>1. out' = IF out = BUFFER_SIZE - 1 THEN 0 ELSE out + 1
    BY <1>7, Wrap DEF Remove
  <2>2. totalitems' = totalitems - 1 /\ totalitems > 0 /\ UNCHANGED <<item, in>>
    BY <1>7 DEF Remove
  <2>3. RingShape' /\ out' \in 0 .. BUFFER_SIZE - 1 /\ totalitems' \in 0 .. BUFFER_SIZE
    BY <2>1, <2>2
  <2>4. local' = [local EXCEPT ![c] = item[out]] /\ item[out] \in Items
    BY <1>7 DEF Remove
  <2> QED
    BY <1>7, <2>2, <2>3, <2>4 DEF Remove
<1>8. ASSUME NEW c \in Consumers, SignalEmpty(c)
      PROVE  BufferInv'
  BY <1>8 DEF SignalEmpty
<1>9. ASSUME NEW c \in Consumers, ConsumeItem(c)
      PROVE  BufferInv'
  BY <1>9 DEF ConsumeItem
<1>10. ASSUME NEW t \in Threads, Lock(t)
      PROVE  BufferInv'
  BY <1>10 DEF Lock
<1>11. ASSUME NEW t \in Threads, Unlock(t)
      PROVE  BufferInv'
  BY <1>11 DEF Unlock
<1>12. ASSUME NEW t \in Threads, LockFails(t)
      PROVE  BufferInv'
  BY <1>12 DEF LockFails
<1>13. ASSUME NEW t \in Threads, WaitFails(t)
      PROVE  BufferInv'
  BY <1>13 DEF WaitFails
<1>14. ASSUME NEW t \in Threads, SpuriousWakeup(t)
      PROVE  BufferInv'
  BY <1>14 DEF SpuriousWakeup
<1>15. ASSUME NEW t \in Threads, SignalFails(t)
      PROVE  BufferInv'
  BY <1>15 DEF SignalFails
<1>16. CASE UNCHANGED vars
  BY <1>16 DEF vars
<1> HIDE BufferAssumption DEF BufferInv, TypeOK, MutexHeld, Waiters, RingShape,
         LocalItem, Inserting, Removing, Sides, Stage, Holding, Slot, Goto, Threads, ring, conds
<1> QED
  BY <1>1, <1>2, <1>3, <1>4, <1>5, <1>6, <1>7, <1>8, <1>9, <1>10, <1>11, <1>12, <1>13, <1>14, <1>15, <1>16 DEF Next, Step, Disturbance, Producer, Consumer

\* The base invariant holds in every state the threads can reach.
THEOREM BufferInvariant == Spec => []BufferInv
  BY InitBuffer, BufferStep, PTL DEF Spec

\* Types; in particular totalitems, in and out stay within the array.
THEOREM BufferTypeCorrect == Spec => []TypeOK
  BY BufferInvariant, PTL DEF BufferInv

-----------------------------------------------------------------------------
(* Nobody is stranded: the two invariants are inductive over BufferInv.    *)

\* A thread goes to sleep only after its test under the mutex, and an item or
\* a free slot appears only together with a signal that is still to come, so
\* that each step keeps both kinds of thread helped.
LEMMA AwakeStep ==
  ASSUME BufferInv, BufferInv', NoStranded, [Next]_vars
  PROVE  NoStranded'
<1> USE BufferAssumption DEF BufferInv, TypeOK, MutexHeld, Waiters, Stage, Holding,
        Goto, Threads, ring, conds, NoStranded, NoStrandedConsumer, NoStrandedProducer
<1>1. ASSUME NEW p \in Producers, NEW x \in Items, Produce(p, x)
      PROVE  NoStranded'
  BY <1>1 DEF Produce
<1>2. ASSUME NEW p \in Producers, WaitEmpty(p)
      PROVE  NoStranded'
  BY <1>2 DEF WaitEmpty
<1>3. ASSUME NEW p \in Producers, Insert(p)
      PROVE  NoStranded'
  BY <1>3 DEF Insert
<1>4. ASSUME NEW p \in Producers, SignalFull(p)
      PROVE  NoStranded'
  BY <1>4 DEF SignalFull
<1>5. ASSUME NEW c \in Consumers, CallRemove(c)
      PROVE  NoStranded'
  BY <1>5 DEF CallRemove
<1>6. ASSUME NEW c \in Consumers, WaitFull(c)
      PROVE  NoStranded'
  BY <1>6 DEF WaitFull
<1>7. ASSUME NEW c \in Consumers, Remove(c)
      PROVE  NoStranded'
  BY <1>7 DEF Remove
<1>8. ASSUME NEW c \in Consumers, SignalEmpty(c)
      PROVE  NoStranded'
  BY <1>8 DEF SignalEmpty
<1>9. ASSUME NEW c \in Consumers, ConsumeItem(c)
      PROVE  NoStranded'
  BY <1>9 DEF ConsumeItem
<1>10. ASSUME NEW t \in Threads, Lock(t)
      PROVE  NoStranded'
  BY <1>10 DEF Lock
<1>11. ASSUME NEW t \in Threads, Unlock(t)
      PROVE  NoStranded'
  BY <1>11 DEF Unlock
<1>12. ASSUME NEW t \in Threads, LockFails(t)
      PROVE  NoStranded'
  BY <1>12 DEF LockFails
<1>13. ASSUME NEW t \in Threads, WaitFails(t)
      PROVE  NoStranded'
  BY <1>13 DEF WaitFails
<1>14. ASSUME NEW t \in Threads, SpuriousWakeup(t)
      PROVE  NoStranded'
  <2>1. CASE t \in Consumers
    <3>1. NoStrandedConsumer'
      BY <1>14, <2>1 DEF SpuriousWakeup
    <3>2. empty' = empty /\ totalitems' = totalitems /\ lost' = lost
      BY <1>14, <2>1 DEF SpuriousWakeup
    <3>3. \A d \in Consumers : pc[d] = "signal" => pc'[d] = "signal"
      BY <1>14 DEF SpuriousWakeup
    <3> QED
      BY <3>1, <3>2, <3>3
  <2>2. CASE t \in Producers
    <3>1. NoStrandedProducer'
      BY <1>14, <2>2 DEF SpuriousWakeup
    <3>2. full' = full /\ totalitems' = totalitems /\ lost' = lost
      BY <1>14, <2>2 DEF SpuriousWakeup
    <3>3. \A d \in Producers : pc[d] = "signal" => pc'[d] = "signal"
      BY <1>14 DEF SpuriousWakeup
    <3> QED
      BY <3>1, <3>2, <3>3
  <2> QED
    BY <2>1, <2>2
<1>15. ASSUME NEW t \in Threads, SignalFails(t)
      PROVE  NoStranded'
  BY <1>15 DEF SignalFails
<1>16. CASE UNCHANGED vars
  BY <1>16 DEF vars
<1> HIDE BufferAssumption DEF BufferInv, TypeOK, MutexHeld, Waiters, Stage, Holding,
         Goto, Threads, ring, conds, NoStranded, NoStrandedConsumer, NoStrandedProducer
<1> QED
  BY <1>1, <1>2, <1>3, <1>4, <1>5, <1>6, <1>7, <1>8, <1>9, <1>10, <1>11, <1>12, <1>13, <1>14, <1>15, <1>16 DEF Next, Step, Disturbance, Producer, Consumer

\* Nobody is ever stranded, neither the consumers on full while items are there
\* nor the producers on empty while slots are free.
THEOREM NobodyStranded == Spec => []NoStranded
<1>1. Init => NoStranded
  BY BufferAssumption DEF Init, NoStranded, NoStrandedConsumer, NoStrandedProducer
<1>2. BufferInv /\ BufferInv' /\ NoStranded /\ [Next]_vars => NoStranded'
  BY AwakeStep
<1> QED
  BY <1>1, <1>2, BufferInvariant, PTL DEF Spec

\* While items are there, the consumers are not all asleep without a signal on
\* its way.
THEOREM ConsumersHelped == Spec => []NoStrandedConsumer
  BY NobodyStranded, PTL DEF NoStranded

\* While slots are free, the producers are not all asleep without a signal on
\* its way.
THEOREM ProducersHelped == Spec => []NoStrandedProducer
  BY NobodyStranded, PTL DEF NoStranded

\* The threads are never all asleep, whatever their number.
THEOREM SomebodyAwake == Spec => []NotAllAsleep
<1>1. BufferInv /\ NoStranded => NotAllAsleep
  <2> SUFFICES ASSUME BufferInv, NoStranded, ~lost, full \cup empty = Threads
               PROVE  FALSE
    BY DEF NotAllAsleep
  <2>1. full = Consumers /\ empty = Producers
    BY BufferAssumption DEF BufferInv, TypeOK, Threads
  <2>2. \A t \in Threads : pc[t] = "wait"
    BY <2>1 DEF BufferInv, Waiters, Threads
  <2>3. totalitems > 0 \/ totalitems < BUFFER_SIZE
    BY BufferAssumption DEF BufferInv, TypeOK
  <2> QED
    BY <2>1, <2>2, <2>3 DEF NoStranded, NoStrandedConsumer, NoStrandedProducer, Threads
<1> QED
  BY <1>1, BufferInvariant, NobodyStranded, PTL

-----------------------------------------------------------------------------
(* Refinement.                                                             *)

\* What the mapped queue looks like.
LEMMA ContentsShape ==
  ASSUME BufferInv
  PROVE  /\ Contents \in Seq(Items)
         /\ Len(Contents) = totalitems
         /\ \A k \in 1 .. totalitems : Contents[k] = item[Slot(k - 1)]
<1>1. ASSUME NEW k \in 1 .. totalitems
      PROVE  Slot(k - 1) \in 0 .. BUFFER_SIZE - 1
  BY BufferAssumption DEF BufferInv, TypeOK, Slot
<1>2. Contents \in [1 .. totalitems -> Items]
  BY <1>1 DEF Contents, BufferInv, TypeOK
<1>3. totalitems \in Nat
  BY BufferAssumption DEF BufferInv, TypeOK
<1> QED
  BY <1>2, <1>3 DEF Contents

\* Insert appends at the end of the mapped queue.
LEMMA InsertAppends ==
  ASSUME BufferInv, BufferInv', NEW p \in Producers, Insert(p)
  PROVE  Contents' = Append(Contents, local[p])
<1>1. totalitems' = totalitems + 1 /\ totalitems < BUFFER_SIZE /\ out' = out
      /\ totalitems \in Nat /\ out \in 0 .. BUFFER_SIZE - 1
  BY BufferAssumption DEF Insert, BufferInv, TypeOK
<1>2. \A i \in 0 .. BUFFER_SIZE - 1 : item'[i] = IF i = in THEN local[p] ELSE item[i]
  BY DEF Insert, BufferInv, TypeOK
<1>3. in = Slot(totalitems) /\ in \in 0 .. BUFFER_SIZE - 1
  BY DEF BufferInv, RingShape, TypeOK
<1>4. ASSUME NEW k \in 1 .. totalitems
      PROVE  Slot(k - 1) \in 0 .. BUFFER_SIZE - 1 /\ Slot(k - 1) # in
  BY <1>1, <1>3, BufferAssumption DEF Slot
<1>5. Contents' = [k \in 1 .. totalitems + 1 |-> item'[Slot(k - 1)]]
  BY <1>1 DEF Contents, Slot
<1>6. \A k \in 1 .. totalitems + 1 :
        item'[Slot(k - 1)] = IF k = totalitems + 1 THEN local[p] ELSE Contents[k]
  <2> SUFFICES ASSUME NEW k \in 1 .. totalitems + 1
               PROVE  item'[Slot(k - 1)] = IF k = totalitems + 1 THEN local[p] ELSE Contents[k]
    OBVIOUS
  <2>1. CASE k = totalitems + 1
    BY <1>1, <1>2, <1>3, <2>1
  <2>2. CASE k \in 1 .. totalitems
    BY <1>1, <1>2, <1>4, <2>2, ContentsShape
  <2> QED
    BY <1>1, <2>1, <2>2
<1>7. Contents \in Seq(Items) /\ Len(Contents) = totalitems
  BY ContentsShape
<1>8. local[p] \in Items
  BY DEF Insert, BufferInv, LocalItem, Inserting
<1>9. Append(Contents, local[p]) =
        [k \in 1 .. totalitems + 1 |-> IF k = totalitems + 1 THEN local[p] ELSE Contents[k]]
  BY <1>1, <1>7, <1>8
<1> QED
  BY <1>5, <1>6, <1>9

\* Remove takes the head of the mapped queue.
LEMMA RemoveTakesHead ==
  ASSUME BufferInv, BufferInv', NEW c \in Consumers, Remove(c)
  PROVE  /\ Contents # <<>>
         /\ item[out] = Head(Contents)
         /\ Contents' = Tail(Contents)
<1>1. totalitems' = totalitems - 1 /\ totalitems > 0 /\ UNCHANGED item
      /\ totalitems \in 1 .. BUFFER_SIZE /\ out \in 0 .. BUFFER_SIZE - 1
  BY BufferAssumption DEF Remove, BufferInv, TypeOK
<1>2. out' = IF out = BUFFER_SIZE - 1 THEN 0 ELSE out + 1
  BY Wrap DEF Remove, BufferInv, TypeOK
<1>3. Contents \in Seq(Items) /\ Len(Contents) = totalitems
  BY ContentsShape
<1>4. Contents # <<>> /\ Head(Contents) = Contents[1]
  BY <1>1, <1>3
<1>5. Contents[1] = item[out]
  <2>1. Slot(1 - 1) = out
    BY <1>1, BufferAssumption DEF Slot
  <2>2. 1 \in 1 .. totalitems
    BY <1>1
  <2> QED
    BY <2>1, <2>2, ContentsShape
<1>6. ASSUME NEW k \in 1 .. totalitems - 1
      PROVE  Slot(k - 1)' = Slot(k)
  BY <1>1, <1>2, BufferAssumption DEF Slot
<1>7. \A k \in 1 .. totalitems - 1 : Contents[k + 1] = item[Slot(k)]
  BY <1>1, ContentsShape
<1>8. Contents' = [k \in 1 .. totalitems - 1 |-> Contents[k + 1]]
  BY <1>1, <1>6, <1>7 DEF Contents
<1>9. /\ Tail(Contents) \in Seq(Items) /\ Len(Tail(Contents)) = totalitems - 1
      /\ \A k \in 1 .. totalitems - 1 : Tail(Contents)[k] = Contents[k + 1]
  BY <1>3, <1>4, HeadTailProperties
<1>10. Contents' \in Seq(Items) /\ Len(Contents') = totalitems - 1
  <2>1. \A k \in 1 .. totalitems - 1 : Contents[k + 1] \in Items
    BY <1>1, <1>3
  <2> QED
    BY <1>1, <1>8, <2>1
<1>11. \A k \in 1 .. totalitems - 1 : Contents'[k] = Contents[k + 1]
  BY <1>8
<1>12. Contents' = Tail(Contents)
  BY <1>9, <1>10, <1>11, SeqEqual
<1> QED
  BY <1>4, <1>5, <1>12

\* The empty ring is the empty queue, and nobody holds an item.
LEMMA FifoInit == Init => Fifo!Init
<1> SUFFICES ASSUME Init PROVE Fifo!Init
  OBVIOUS
<1>1. Contents = <<>>
  BY DEF Init, Contents
<1>2. InHand = [p \in Producers |-> NoItem] /\ Removed = [c \in Consumers |-> NoItem]
  BY DEF Init, InHand, Removed, Threads
<1> QED
  BY <1>1, <1>2 DEF Fifo!Init

\* A step that leaves the ring alone leaves the mapped queue alone.
LEMMA ContentsQuiet == UNCHANGED ring => UNCHANGED Contents
  BY DEF ring, Contents, Slot

\* What a step does to the mapped hands, from what it does to pc and local.
LEMMA HandsQuiet ==
  ASSUME \A p \in Producers : pc'[p] \in Inserting <=> pc[p] \in Inserting,
         \A p \in Producers : local'[p] = local[p]
  PROVE  UNCHANGED InHand
  BY DEF InHand

\* The same for the items the consumers have taken out.
LEMMA RemovedQuiet ==
  ASSUME \A c \in Consumers : pc'[c] \in Removing <=> pc[c] \in Removing,
         \A c \in Consumers : local'[c] = local[c]
  PROVE  UNCHANGED Removed
  BY DEF Removed

\* A producer that leaves insert_item has no item in hand any more.
LEMMA HandEmptied ==
  ASSUME NEW p \in Producers, pc'[p] \notin Inserting,
         \A q \in Producers \ {p} : pc'[q] = pc[q] /\ local'[q] = local[q]
  PROVE  InHand' = [InHand EXCEPT ![p] = NoItem]
  BY DEF InHand

\* One consumer moves and changes only its own entry.
LEMMA RemovedSet ==
  ASSUME NEW c \in Consumers, NEW x,
         x = IF pc'[c] \in Removing THEN local'[c] ELSE NoItem,
         \A d \in Consumers \ {c} : pc'[d] = pc[d] /\ local'[d] = local[d]
  PROVE  Removed' = [Removed EXCEPT ![c] = x]
  BY DEF Removed

FifoVars == <<Contents, InHand, Removed>>

\* insert_item past its while puts, remove_item past its while takes, an error
\* return drops, and every other step is invisible to the queue.
LEMMA FifoStep ==
  ASSUME BufferInv, BufferInv', [Next]_vars
  PROVE  Fifo!Next \/ UNCHANGED FifoVars
<1> USE BufferAssumption DEF BufferInv, TypeOK, Waiters, Stage, Goto, Threads, LocalItem,
        Sides, Inserting, Removing
<1>1. ASSUME NEW p \in Producers, NEW x \in Items, Produce(p, x)
      PROVE  Fifo!Make(p, x)
  BY <1>1, ContentsQuiet DEF Produce, Fifo!Make, InHand, Removed
<1>2. ASSUME NEW p \in Producers, Insert(p)
      PROVE  Fifo!Put(p)
  <2>1. InHand[p] = local[p] /\ local[p] # NoItem
    BY <1>2 DEF Insert, InHand
  <2>2. InHand' = [InHand EXCEPT ![p] = NoItem] /\ UNCHANGED Removed
    BY <1>2, HandEmptied, RemovedQuiet DEF Insert
  <2>3. Len(Contents) < BUFFER_SIZE
    BY <1>2, ContentsShape DEF Insert
  <2> QED
    BY <1>2, <2>1, <2>2, <2>3, InsertAppends DEF Fifo!Put
<1>3. ASSUME NEW c \in Consumers, Remove(c)
      PROVE  Fifo!Take(c)
  <2>1. Removed[c] = NoItem
    BY <1>3 DEF Remove, Removed
  <2>2. Removed' = [Removed EXCEPT ![c] = item[out]] /\ UNCHANGED InHand
    BY <1>3, RemovedSet, HandsQuiet DEF Remove
  <2> QED
    BY <1>3, <2>1, <2>2, RemoveTakesHead DEF Fifo!Take
<1>4. ASSUME NEW c \in Consumers, ConsumeItem(c)
      PROVE  Fifo!Consume(c) \/ UNCHANGED FifoVars
  <2>1. UNCHANGED <<Contents, InHand>>
    BY <1>4, ContentsQuiet DEF ConsumeItem, InHand
  <2>2. CASE pc[c] = "done"
    <3>1. Removed[c] # NoItem
      BY <1>4, <2>2 DEF Removed
    <3>2. Removed' = [Removed EXCEPT ![c] = NoItem]
      BY <1>4, RemovedSet DEF ConsumeItem
    <3> QED
      BY <2>1, <3>1, <3>2 DEF Fifo!Consume
  <2>3. CASE pc[c] = "stale"
    BY <1>4, <2>1, <2>3 DEF ConsumeItem, FifoVars, Removed
  <2> QED
    BY <1>4, <2>2, <2>3 DEF ConsumeItem
<1>5. ASSUME NEW t \in Producers, LockFails(t)
      PROVE  Fifo!Drop(t)
  <2>1. InHand[t] # NoItem
    BY <1>5 DEF LockFails, InHand
  <2>2. InHand' = [InHand EXCEPT ![t] = NoItem]
    BY <1>5, HandEmptied DEF LockFails
  <2>3. UNCHANGED <<Contents, Removed>>
    BY <1>5, ContentsQuiet, RemovedQuiet DEF LockFails
  <2> QED
    BY <2>1, <2>2, <2>3 DEF Fifo!Drop
<1>6. ASSUME NEW t \in Consumers, LockFails(t)
      PROVE  UNCHANGED FifoVars
  BY <1>6, ContentsQuiet DEF LockFails, FifoVars, InHand, Removed
<1>7. ASSUME NEW t \in Producers, Unlock(t)
      PROVE  Fifo!Drop(t) \/ UNCHANGED FifoVars
  <2>1. UNCHANGED <<Contents, Removed>>
    BY <1>7, ContentsQuiet DEF Unlock, Removed
  <2>2. CASE pc[t] = "bail"
    <3>1. InHand[t] # NoItem
      BY <2>2 DEF InHand
    <3>2. InHand' = [InHand EXCEPT ![t] = NoItem]
      BY <1>7, HandEmptied DEF Unlock
    <3> QED
      BY <2>1, <3>1, <3>2 DEF Fifo!Drop
  <2>3. CASE pc[t] = "unlock"
    BY <1>7, <2>1, <2>3 DEF Unlock, FifoVars, InHand
  <2> QED
    BY <1>7, <2>2, <2>3 DEF Unlock
<1>8. ASSUME NEW t \in Consumers, Unlock(t)
      PROVE  UNCHANGED FifoVars
  BY <1>8, ContentsQuiet DEF Unlock, FifoVars, InHand, Removed
<1>9. ASSUME NEW p \in Producers, WaitEmpty(p)
      PROVE  UNCHANGED FifoVars
  BY <1>9, ContentsQuiet DEF WaitEmpty, FifoVars, InHand, Removed
<1>10. ASSUME NEW p \in Producers, SignalFull(p)
      PROVE  UNCHANGED FifoVars
  <2>1. \A t \in Threads : /\ pc'[t] \in Inserting <=> pc[t] \in Inserting
                          /\ pc'[t] \in Removing <=> pc[t] \in Removing
    BY <1>10 DEF SignalFull
  <2>2. UNCHANGED <<InHand, Removed>>
    BY <1>10, <2>1, HandsQuiet, RemovedQuiet DEF SignalFull
  <2> QED
    BY <1>10, <2>2, ContentsQuiet DEF SignalFull, FifoVars
<1>11. ASSUME NEW c \in Consumers, CallRemove(c)
      PROVE  UNCHANGED FifoVars
  BY <1>11, ContentsQuiet DEF CallRemove, FifoVars, InHand, Removed
<1>12. ASSUME NEW c \in Consumers, WaitFull(c)
      PROVE  UNCHANGED FifoVars
  BY <1>12, ContentsQuiet DEF WaitFull, FifoVars, InHand, Removed
<1>13. ASSUME NEW c \in Consumers, SignalEmpty(c)
      PROVE  UNCHANGED FifoVars
  <2>1. \A t \in Threads : /\ pc'[t] \in Inserting <=> pc[t] \in Inserting
                          /\ pc'[t] \in Removing <=> pc[t] \in Removing
    BY <1>13 DEF SignalEmpty
  <2>2. UNCHANGED <<InHand, Removed>>
    BY <1>13, <2>1, HandsQuiet, RemovedQuiet DEF SignalEmpty
  <2> QED
    BY <1>13, <2>2, ContentsQuiet DEF SignalEmpty, FifoVars
<1>14. ASSUME NEW t \in Threads, Lock(t)
      PROVE  UNCHANGED FifoVars
  BY <1>14, ContentsQuiet DEF Lock, FifoVars, InHand, Removed
<1>15. ASSUME NEW t \in Threads, WaitFails(t)
      PROVE  UNCHANGED FifoVars
  BY <1>15, ContentsQuiet DEF WaitFails, FifoVars, InHand, Removed
<1>16. ASSUME NEW t \in Threads, SpuriousWakeup(t)
      PROVE  UNCHANGED FifoVars
  BY <1>16, ContentsQuiet DEF SpuriousWakeup, FifoVars, InHand, Removed
<1>17. ASSUME NEW t \in Threads, SignalFails(t)
      PROVE  UNCHANGED FifoVars
  BY <1>17, ContentsQuiet DEF SignalFails, FifoVars, InHand, Removed
<1>18. CASE UNCHANGED vars
  BY <1>18, ContentsQuiet DEF vars, ring, FifoVars, InHand, Removed
<1> HIDE BufferAssumption DEF BufferInv, TypeOK, Waiters, Stage, Goto, LocalItem,
         Sides, Inserting, Removing
<1> QED
  BY <1>1, <1>2, <1>3, <1>4, <1>5, <1>6, <1>7, <1>8, <1>9, <1>10, <1>11, <1>12, <1>13, <1>14, <1>15, <1>16, <1>17, <1>18
     DEF Next, Step, Disturbance, Producer, Consumer, Fifo!Next

\* The monitor implements the queue, with spurious wakeups and error returns.
THEOREM BufferIsFifo == Spec => ImplementsFifo
<1>1. BufferInv /\ BufferInv' /\ [Next]_vars => [Fifo!Next]_FifoVars
  BY FifoStep
<1> QED
  BY <1>1, FifoInit, BufferInvariant, PTL DEF Spec, ImplementsFifo, Fifo!Spec, FifoVars

=============================================================================
