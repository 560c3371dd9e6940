-------------------------- MODULE CgiServerProofs --------------------------
(***************************************************************************)
(* Safety of CgiServer for any number of connections: who holds which      *)
(* descriptor, and how many zombies the handler of SIGCHLD leaves.         *)
(***************************************************************************)
EXTENDS CgiServer, FiniteSetTheorems, TLAPS

\* The connection in main's hand has no worker before the fork.
InHandUnforked == main = "fork" => wpc[cur] = "none"

CgiInv == TypeOK /\ InHandUnforked /\ LeakAccount

\* Main has just started and nobody has connected.
LEMMA CgiInit == Init => CgiInv
<1> SUFFICES ASSUME Init PROVE CgiInv
  OBVIOUS
<1>1. Zombies = {}
  BY DEF Init, Zombies
<1>2. Cardinality(Zombies) = 0
  BY <1>1, FS_EmptySet
<1>3. TypeOK
  BY DEF Init, TypeOK, Running
<1>4. InHandUnforked /\ LeakAccount
  BY <1>2 DEF Init, InHandUnforked, LeakAccount
<1> QED
  BY <1>3, <1>4 DEF CgiInv

\* Every step keeps the types and the ownership of descriptors: a process
\* closes or loses what it held when it ends.
LEMMA CgiTypeStep ==
  ASSUME TypeOK, InHandUnforked, [Next]_vars
  PROVE  TypeOK' /\ InHandUnforked'
<1> USE DEF TypeOK, InHandUnforked, Running, Free, WorkerGoto, pipes
<1>1. CASE MainStep
  BY <1>1 DEF MainStep, Fork, CloseConnection
<1>2. CASE ReadChildproc \/ Refuse
  <2>1. CASE ReadChildproc
    BY <2>1 DEF ReadChildproc, Zombies
  <2>2. CASE Refuse
    BY <2>2 DEF Refuse, vars
  <2> QED BY <1>2, <2>1, <2>2
<1>3. ASSUME NEW w \in Slot, Accept(w)
      PROVE  TypeOK' /\ InHandUnforked'
  BY <1>3 DEF Accept
<1>4. ASSUME NEW w \in Slot, ReadRequest(w) \/ ForkCgi(w) \/ Feed(w)
      PROVE  TypeOK' /\ InHandUnforked'
  BY <1>4 DEF ReadRequest, ForkCgi, Feed
<1>5. ASSUME NEW w \in Slot, Shut(w) \/ Wait(w)
      PROVE  TypeOK' /\ InHandUnforked'
  BY <1>5 DEF Shut, Wait
<1>6. ASSUME NEW w \in Slot, Exit(w) \/ Killed(w)
      PROVE  TypeOK' /\ InHandUnforked'
  <2> w \in Slot /\ wpc[w] \notin {"none", "zombie"} /\ End(w)
    BY <1>6 DEF Exit, Killed
  <2>1. /\ wpc' \in [Slot -> {"none", "read", "pipe", "feed", "shut", "wait", "close", "zombie"}]
        /\ cpc' \in [Slot -> {"none", "setup", "running", "zombie"}]
        /\ conn' \in [Slot -> SUBSET {"main", "worker", "cgi"}]
        /\ writers' \in [Slot -> SUBSET {"worker", "cgi"}]
        /\ wchld' \in [Slot -> BOOLEAN]
    BY DEF End
  <2>2. /\ \A x \in Slot \ {w} : /\ wpc'[x] = wpc[x] /\ cpc'[x] = cpc[x]
                               /\ conn'[x] = conn[x] /\ writers'[x] = writers[x]
        /\ wpc'[w] = "zombie"
        /\ cpc[w] \in {"setup", "running"} => cpc'[w] = cpc[w]
        /\ conn'[w] = conn[w] \ {"worker"} /\ writers'[w] = writers[w] \ {"worker"}
        /\ UNCHANGED <<main, cur, readers>>
    BY DEF End
  <2>3. chld' \in BOOLEAN /\ merged' \in Nat
    BY DEF End
  <2> QED
    BY <2>1, <2>2, <2>3
<1>7. ASSUME NEW w \in Slot, WorkerReadChildproc(w) \/ ExecCgi(w) \/ CgiEnds(w)
      PROVE  TypeOK' /\ InHandUnforked'
  <2>1. CASE WorkerReadChildproc(w)
    BY <2>1 DEF WorkerReadChildproc
  <2>2. CASE ExecCgi(w)
    BY <2>2 DEF ExecCgi
  <2>3. CASE CgiEnds(w)
    <3>1. /\ cpc' \in [Slot -> {"none", "setup", "running", "zombie"}]
          /\ wchld' \in [Slot -> BOOLEAN]
          /\ conn' \in [Slot -> SUBSET {"main", "worker", "cgi"}]
          /\ writers' \in [Slot -> SUBSET {"worker", "cgi"}]
          /\ readers' \in [Slot -> SUBSET {"cgi"}]
      BY <2>3 DEF CgiEnds
    <3> QED
      BY <3>1, <2>3 DEF CgiEnds
  <2> QED
    BY <1>7, <2>1, <2>2, <2>3
<1>8. CASE UNCHANGED vars
  BY <1>8 DEF vars
<1> QED
  BY <1>1, <1>2, <1>3, <1>4, <1>5, <1>6, <1>7, <1>8 DEF Next, WorkerStep

\* A worker's end makes one zombie and one pending or merged signal; a
\* delivered signal finds a zombie and takes one.
LEMMA LeakStep ==
  ASSUME CgiInv, [Next]_vars
  PROVE  LeakAccount'
<1> USE SlotAssumption DEF CgiInv, TypeOK, InHandUnforked
<1>1. /\ IsFiniteSet(Zombies) /\ Cardinality(Zombies) \in Nat
      /\ Cardinality(Zombies) = 0 <=> Zombies = {}
  <2>1. IsFiniteSet(Zombies)
    BY FS_Subset DEF Zombies
  <2> QED
    BY <2>1, FS_CardinalityType, FS_EmptySet
<1>2. CASE Zombies' = Zombies /\ merged' = merged /\ chld' = chld
  BY <1>2 DEF LeakAccount
<1>3. ASSUME NEW w \in Slot, Exit(w) \/ Killed(w)
      PROVE  LeakAccount'
  <2>1. w \notin Zombies /\ Zombies' = Zombies \cup {w}
    BY <1>3 DEF Exit, Killed, End, WorkerGoto, Zombies
  <2>2. Cardinality(Zombies') = Cardinality(Zombies) + 1
    BY <1>1, <2>1, FS_AddElement
  <2>3. chld' = TRUE /\ merged' = IF chld THEN merged + 1 ELSE merged
    BY <1>3 DEF Exit, Killed, End
  <2> QED
    BY <2>2, <2>3 DEF LeakAccount
<1>4. CASE ReadChildproc
  <2>1. chld /\ chld' = FALSE /\ merged' = merged
    BY <1>4 DEF ReadChildproc
  <2>2. Zombies # {}
    BY <1>1, <2>1 DEF LeakAccount
  <2>3. PICK w \in Zombies : wpc' = [wpc EXCEPT ![w] = "none"]
    BY <1>4, <2>2 DEF ReadChildproc
  <2>4. Zombies' = Zombies \ {w}
    BY <2>3 DEF Zombies
  <2>5. Cardinality(Zombies') = Cardinality(Zombies) - 1
    BY <1>1, <2>3, <2>4, FS_RemoveElement
  <2> QED
    BY <2>1, <2>5 DEF LeakAccount
<1>5. CASE MainStep
  BY <1>2, <1>5 DEF MainStep, Fork, CloseConnection, Zombies
<1>6. ASSUME NEW w \in Slot,
             Accept(w) \/ WorkerReadChildproc(w) \/ ExecCgi(w) \/ CgiEnds(w)
      PROVE  LeakAccount'
  BY <1>2, <1>6 DEF Accept, WorkerReadChildproc, ExecCgi, CgiEnds, Zombies
<1>7. ASSUME NEW w \in Slot,
             ReadRequest(w) \/ ForkCgi(w) \/ Feed(w) \/ Shut(w) \/ Wait(w)
      PROVE  LeakAccount'
  BY <1>2, <1>7 DEF ReadRequest, ForkCgi, Feed, Shut, Wait, WorkerGoto, Zombies
<1>8. CASE Refuse \/ UNCHANGED vars
  BY <1>2, <1>8 DEF Refuse, vars, Zombies
<1> QED
  BY <1>3, <1>4, <1>5, <1>6, <1>7, <1>8 DEF Next, WorkerStep

\* Types, ownership of descriptors and the account of zombies hold always.
THEOREM CgiInvariant == Spec => []CgiInv
<1>1. CgiInv /\ [Next]_vars => CgiInv'
  BY CgiTypeStep, LeakStep DEF CgiInv
<1> QED
  BY <1>1, CgiInit, PTL DEF Spec

\* No process that has ended holds a descriptor of a connection or a pipe.
THEOREM CgiTypeCorrect == Spec => []TypeOK
  BY CgiInvariant, PTL DEF CgiInv

\* One waitpid per delivered signal: the zombies are exactly the signals that
\* were merged into a pending one, plus the one still pending.
THEOREM ZombieAccount == Spec => []LeakAccount
  BY CgiInvariant, PTL DEF CgiInv
=============================================================================
