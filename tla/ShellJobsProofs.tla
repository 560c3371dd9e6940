-------------------------- MODULE ShellJobsProofs --------------------------
(***************************************************************************)
(* Proofs about ShellJobs for any number of children and pipes.            *)
(* JobInv is inductive: the bound on due by stage gives ChildAccount its    *)
(* meaning at the prompt, and ChildAccount keeps extra from going negative. *)
(***************************************************************************)
EXTENDS ShellJobs, TLAPS, FiniteSetTheorems

JobInv == TypeOK /\ ChildAccount /\ PipeEnds

\* Starting and reaping one child changes the number of unreaped children by one.
LEMMA CountStart ==
  ASSUME TypeOK, NEW c \in Child, st[c] = "none",
         st' = [st EXCEPT ![c] = "setup"]
  PROVE  Cardinality(Unreaped') = Cardinality(Unreaped) + 1
<1>1. Unreaped' = Unreaped \cup {c} /\ c \notin Unreaped
  BY DEF TypeOK, Unreaped
<1>2. IsFiniteSet(Unreaped)
  BY ChildAssumption, FS_Subset DEF Unreaped
<1> QED BY <1>1, <1>2, FS_AddElement

\* Reaping, by init or the shell, is the other direction.
LEMMA CountReap ==
  ASSUME TypeOK, NEW c \in Child, st[c] # "none",
         st' = [st EXCEPT ![c] = "none"]
  PROVE  /\ Cardinality(Unreaped') = Cardinality(Unreaped) - 1
         /\ Cardinality(Unreaped) \in Nat \ {0}
<1>1. Unreaped' = Unreaped \ {c} /\ c \in Unreaped
  BY DEF TypeOK, Unreaped
<1>2. IsFiniteSet(Unreaped)
  BY ChildAssumption, FS_Subset DEF Unreaped
<1>3. Cardinality(Unreaped \ {c}) = Cardinality(Unreaped) - 1
  BY <1>1, <1>2, FS_RemoveElement
<1>4. Cardinality(Unreaped) \in Nat /\ Cardinality(Unreaped \ {c}) \in Nat
  BY <1>2, FS_CardinalityType, FS_Subset
<1> QED BY <1>1, <1>3, <1>4

\* The three parts of the invariant hold when the shell starts.
LEMMA JobInit == Init => JobInv
<1> SUFFICES ASSUME Init PROVE JobInv
  OBVIOUS
<1>1. TypeOK
  BY DEF Init, TypeOK, Stages, WaitsToCome, Alive
<1>2. ChildAccount
  <2>1. Unreaped = {}
    BY DEF Init, Unreaped
  <2> QED BY <2>1, FS_EmptySet DEF Init, ChildAccount
<1>3. PipeEnds
  BY DEF Init, PipeEnds
<1> QED BY <1>1, <1>2, <1>3 DEF JobInv

-----------------------------------------------------------------------------
(* Types.                                                                  *)

\* Forking at a stage where the shell has no end open but those of fd keeps
\* the types of everything but due.
LEMMA ForkTypes ==
  ASSUME TypeOK, NEW c \in Child, NEW part \in {"fg", "bg", "left", "right"},
         Fork(c, part)
  PROVE  /\ st' \in [Child -> {"none", "setup", "running", "zombie"}]
         /\ job' \in [Child -> {"fg", "bg", "left", "right"}]
         /\ on' \in [Child -> Pipe]
         /\ writers' \in [Pipe -> SUBSET (Child \cup {Shell})]
         /\ readers' \in [Pipe -> SUBSET (Child \cup {Shell})]
         /\ \A q \in Pipe : (writers'[q] \cup readers'[q]) \ {Shell} \subseteq Alive'
<1>1. Alive' = Alive \cup {c}
  BY DEF TypeOK, Fork, Alive
<1>2. \A q \in Pipe : /\ writers'[q] \subseteq writers[q] \cup {c}
                      /\ readers'[q] \subseteq readers[q] \cup {c}
  BY DEF TypeOK, Fork, Inherit
<1>3. \A q \in Pipe : (writers[q] \cup readers[q]) \ {Shell} \subseteq Alive
  BY DEF TypeOK
<1>4. \A q \in Pipe : (writers'[q] \cup readers'[q]) \ {Shell} \subseteq Alive'
  BY <1>1, <1>2, <1>3
<1>5. /\ writers' \in [Pipe -> SUBSET (Child \cup {Shell})]
      /\ readers' \in [Pipe -> SUBSET (Child \cup {Shell})]
  BY DEF TypeOK, Fork, Inherit
<1> QED BY <1>4, <1>5 DEF TypeOK, Fork

\* Ending a set of running children keeps the types it touches.
LEMMA EndedTypes ==
  ASSUME TypeOK, NEW S, S \subseteq {c \in Alive : st[c] = "running"}, Ended(S)
  PROVE  /\ st' \in [Child -> {"none", "setup", "running", "zombie"}]
         /\ writers' \in [Pipe -> SUBSET (Child \cup {Shell})]
         /\ readers' \in [Pipe -> SUBSET (Child \cup {Shell})]
         /\ \A q \in Pipe : (writers'[q] \cup readers'[q]) \ {Shell} \subseteq Alive'
<1>1. Alive' = Alive \ S
  BY DEF TypeOK, Ended, Alive
<1>2. \A q \in Pipe : /\ writers'[q] = writers[q] \ S
                      /\ readers'[q] = readers[q] \ S
  BY DEF TypeOK, Ended
<1> QED BY <1>1, <1>2 DEF TypeOK, Ended

\* Every step keeps the types; reaping an older child needs the account, which
\* says that there is one.
LEMMA JobTypeStep == TypeOK /\ ChildAccount /\ [Next]_vars => TypeOK'
<1> SUFFICES ASSUME TypeOK, ChildAccount, [Next]_vars PROVE TypeOK'
  OBVIOUS
<1>1. CASE UNCHANGED vars
  BY <1>1 DEF TypeOK, vars, pipes, Alive
<1>2. ASSUME NEW c \in Child, StartFg(c) PROVE TypeOK'
  <2>1. Fork(c, "fg") /\ sh' = "fg" /\ fg' = c /\ due' = 1 /\ fd' = fd /\ extra' = extra
    BY <1>2 DEF StartFg
  <2> QED BY <2>1, ForkTypes DEF TypeOK, Stages, WaitsToCome
<1>3. ASSUME NEW c \in Child, StartBg(c) PROVE TypeOK'
  <2>1. Fork(c, "bg") /\ extra' = extra + 1 /\ UNCHANGED <<sh, fg, fd, due>>
    BY <1>3 DEF StartBg
  <2> QED BY <2>1, ForkTypes DEF TypeOK
<1>4. ASSUME NEW q \in Pipe, Pipeline(q) PROVE TypeOK'
  BY <1>4 DEF Pipeline, TypeOK, Stages, WaitsToCome, Alive
<1>5. ASSUME NEW from, NEW to, NEW part \in {"left", "right"},
             <<from, to>> \in {<<"fork1", "fork2">>, <<"fork2", "close">>},
             ForkSide(from, to, part)
      PROVE  TypeOK'
  <2>1. /\ sh' \in Stages /\ fg' = fg /\ fd' = fd /\ extra' = extra
        /\ WaitsToCome[sh'] = WaitsToCome[sh] + 1
    BY <1>5 DEF ForkSide, Stages, WaitsToCome
  <2>2. CASE \E c \in Child : Fork(c, part) /\ due' = due + 1
    BY <2>1, <2>2, ForkTypes DEF TypeOK, Stages, WaitsToCome
  <2>3. CASE ForkFails /\ UNCHANGED due
    BY <2>1, <2>3 DEF ForkFails, pipes, TypeOK, Stages, WaitsToCome, Alive
  <2> QED BY <1>5, <2>2, <2>3 DEF ForkSide
<1>6. CASE ClosePipe
  BY <1>6 DEF ClosePipe, TypeOK, Stages, WaitsToCome, Alive
<1>7. ASSUME NEW c \in Zombies, Reap(c), sh \in {"wait1", "wait2", "fg"},
             sh' = After[sh], UNCHANGED <<fg, fd, job, on, pipes>>
      PROVE  TypeOK'
  <2>1. c \in Child /\ st[c] = "zombie" /\ st' = [st EXCEPT ![c] = "none"]
    BY <1>7 DEF Zombies, Reap
  <2>2. Alive' = Alive
    BY <2>1 DEF Alive, TypeOK
  <2>3. /\ due' \in 0 .. WaitsToCome[sh'] /\ sh' \in Stages
    BY <1>7 DEF TypeOK, Stages, WaitsToCome, After, Reap
  <2>4. extra' \in Nat
    <3>1. Cardinality(Unreaped) \in Nat \ {0}
      BY <2>1, CountReap
    <3>2. Cardinality(Unreaped) = extra + due
      BY <1>7 DEF ChildAccount
    <3>3. extra \in Nat /\ due \in 0 .. 2
      BY <1>7 DEF TypeOK, WaitsToCome
    <3> QED BY <1>7, <3>1, <3>2, <3>3 DEF Reap
  <2> QED BY <1>7, <2>1, <2>2, <2>3, <2>4 DEF TypeOK, pipes
<1>8. CASE WaitAny
  <2>1. CASE \E c \in Zombies : Reap(c)
    BY <1>7, <1>8, <2>1 DEF WaitAny
  <2>2. CASE Unreaped = {} /\ UNCHANGED <<st, due, extra>>
    <3>1. Cardinality(Unreaped) = extra + due
      BY <1>8 DEF WaitAny, ChildAccount
    <3>2. due = 0
      BY <2>2, <3>1, <1>8, FS_EmptySet DEF TypeOK, WaitAny, WaitsToCome
    <3> QED BY <1>8, <2>2, <3>2 DEF WaitAny, TypeOK, pipes, Stages, WaitsToCome, After, Alive
  <2> QED BY <1>8, <2>1, <2>2 DEF WaitAny
<1>9. CASE WaitFg
  BY <1>7, <1>9 DEF WaitFg, After
<1>10. ASSUME NEW c \in Child, Setup(c) PROVE TypeOK'
  <2>1. Alive' = Alive
    BY <1>10 DEF Setup, Alive, TypeOK
  <2>2. \A q \in Pipe : writers'[q] \subseteq writers[q] /\ readers'[q] \subseteq readers[q]
    BY <1>10 DEF Setup, TypeOK
  <2> QED BY <1>10, <2>1, <2>2 DEF Setup, TypeOK
<1>11. ASSUME NEW c \in Child, End(c) PROVE TypeOK'
  <2>1. {c} \subseteq {d \in Alive : st[d] = "running"}
    BY <1>11 DEF End, Alive
  <2> QED BY <1>11, <2>1, EndedTypes DEF End, TypeOK
<1>12. CASE Signal
  <2>1. PICK S \in SUBSET {c \in Alive : st[c] = "running"} : Ended(S)
    BY <1>12 DEF Signal
  <2>2. UNCHANGED <<fg, fd, job, on>>
    BY <1>12 DEF Signal
  <2>3. sh' \in Stages /\ due' \in 0 .. WaitsToCome[sh'] /\ extra' \in Nat
    BY <1>12 DEF Signal, Blocked, TypeOK, Stages, WaitsToCome, After
  <2> QED BY <2>1, <2>2, <2>3, EndedTypes DEF TypeOK
<1>13. CASE Quit
  <2>1. Alive' = Alive
    BY <1>13 DEF Quit, Alive, TypeOK
  <2> QED BY <1>13, <2>1 DEF Quit, TypeOK, pipes, Stages, WaitsToCome
<1>14. CASE ForkLeft
  BY <1>5, <1>14 DEF ForkLeft
<1>15. CASE ForkRight
  BY <1>5, <1>15 DEF ForkRight
<1> QED BY <1>1, <1>2, <1>3, <1>4, <1>6, <1>8, <1>9, <1>10, <1>11, <1>12, <1>13,
           <1>14, <1>15 DEF Next, ShellStep

-----------------------------------------------------------------------------
(* The account.                                                            *)

\* Every step keeps the account.
LEMMA AccountStep == TypeOK /\ ChildAccount /\ [Next]_vars => ChildAccount'
<1> SUFFICES ASSUME TypeOK, ChildAccount, [Next]_vars PROVE ChildAccount'
  OBVIOUS
<1>0. extra \in Nat /\ due \in 0 .. 2
  BY DEF TypeOK, WaitsToCome, Stages
<1>1. ASSUME UNCHANGED <<st, due, extra>>, sh # "exit" PROVE ChildAccount'
  BY <1>1 DEF ChildAccount, Unreaped
<1>2. ASSUME NEW c \in Child, NEW part, Fork(c, part), sh # "exit",
             extra' + due' = extra + due + 1
      PROVE  ChildAccount'
  <2>1. Cardinality(Unreaped') = Cardinality(Unreaped) + 1
    BY <1>2, CountStart DEF Fork
  <2> QED BY <1>0, <1>2, <2>1 DEF ChildAccount
<1>3. ASSUME NEW c \in Zombies, Reap(c), sh # "exit" PROVE ChildAccount'
  <2>1. c \in Child /\ st[c] # "none" /\ st' = [st EXCEPT ![c] = "none"]
    BY <1>3 DEF Zombies, Reap
  <2>2. Cardinality(Unreaped') = Cardinality(Unreaped) - 1
    BY <2>1, CountReap
  <2>3. extra' + due' = extra + due - 1
    BY <1>0, <1>3 DEF Reap
  <2> QED BY <1>0, <1>3, <2>2, <2>3 DEF ChildAccount
<1>4. ASSUME NEW S, S \subseteq {c \in Alive : st[c] = "running"}, Ended(S),
             sh # "exit", extra' + due' = extra + due
      PROVE  ChildAccount'
  <2>1. Unreaped' = Unreaped
    BY <1>4 DEF Ended, Alive, Unreaped, TypeOK
  <2> QED BY <1>4, <2>1 DEF ChildAccount
<1>5. CASE UNCHANGED vars
  BY <1>5 DEF ChildAccount, vars, Unreaped
<1>6. ASSUME NEW c \in Child, StartFg(c) PROVE ChildAccount'
  <2>1. due = 0
    BY <1>6 DEF StartFg, TypeOK, WaitsToCome
  <2> QED BY <1>0, <1>2, <1>6, <2>1 DEF StartFg
<1>7. ASSUME NEW c \in Child, StartBg(c) PROVE ChildAccount'
  BY <1>0, <1>2, <1>7 DEF StartBg
<1>8. ASSUME NEW q \in Pipe, Pipeline(q) PROVE ChildAccount'
  BY <1>1, <1>8 DEF Pipeline
<1>9. ASSUME NEW from \in {"fork1", "fork2"}, NEW to, NEW part, ForkSide(from, to, part)
      PROVE  ChildAccount'
  <2>1. CASE \E c \in Child : Fork(c, part) /\ due' = due + 1
    BY <1>0, <1>2, <1>9, <2>1 DEF ForkSide
  <2>2. CASE ForkFails /\ UNCHANGED due
    BY <1>1, <1>9, <2>2 DEF ForkSide, ForkFails
  <2> QED BY <1>9, <2>1, <2>2 DEF ForkSide
<1>10. CASE ClosePipe
  BY <1>1, <1>10 DEF ClosePipe
<1>11. CASE WaitAny
  BY <1>1, <1>3, <1>11 DEF WaitAny
<1>12. CASE WaitFg
  BY <1>3, <1>12 DEF WaitFg
<1>13. ASSUME NEW c \in Child, Setup(c) PROVE ChildAccount'
  <2>1. Unreaped' = Unreaped
    BY <1>13 DEF Setup, Unreaped, TypeOK
  <2> QED BY <1>13, <2>1 DEF Setup, ChildAccount
<1>14. ASSUME NEW S, S \subseteq {c \in Alive : st[c] = "running"}, Ended(S),
              sh = "exit", sh' = sh
       PROVE  ChildAccount'
  BY <1>14 DEF ChildAccount
<1>15. ASSUME NEW c \in Child, End(c) PROVE ChildAccount'
  <2>1. {c} \subseteq {d \in Alive : st[d] = "running"}
    BY <1>15 DEF End, Alive
  <2>2. Ended({c}) /\ UNCHANGED <<sh, due, extra>>
    BY <1>15 DEF End
  <2> QED BY <1>4, <1>14, <2>1, <2>2
<1>16. CASE Signal
  <2>1. PICK S \in SUBSET {c \in Alive : st[c] = "running"} : Ended(S)
    BY <1>16 DEF Signal
  <2>2. CASE UNCHANGED <<sh, due, extra>>
    BY <1>4, <1>14, <2>1, <2>2
  <2>3. CASE Blocked /\ IF due > 0 THEN due' = due - 1 /\ extra' = extra + 1
                                   ELSE UNCHANGED <<due, extra>>
    <3>1. sh # "exit" /\ extra' + due' = extra + due
      BY <1>0, <2>3 DEF Blocked
    <3> QED BY <1>4, <2>1, <3>1
  <2> QED BY <1>16, <2>2, <2>3 DEF Signal
<1>17. CASE Quit
  BY <1>17 DEF Quit, ChildAccount
<1> QED BY <1>5, <1>6, <1>7, <1>8, <1>9, <1>10, <1>11, <1>12, <1>13, <1>15, <1>16,
           <1>17 DEF Next, ShellStep, ForkLeft, ForkRight

-----------------------------------------------------------------------------
(* The pipe ends.                                                          *)

\* A fork hands on the ends of fd only, and to a child on fd, unless the shell
\* has no end open.
LEMMA ForkEnds ==
  ASSUME TypeOK, PipeEnds, NEW c \in Child, NEW part, Fork(c, part),
         part \in {"left", "right"} \/ sh = "prompt"
  PROVE  /\ \A q \in Pipe : /\ Shell \in writers'[q] <=> Shell \in writers[q]
                            /\ Shell \in readers'[q] <=> Shell \in readers[q]
         /\ \A q \in Pipe, d \in Child :
              /\ d \in writers'[q] => on'[d] = q /\ (job'[d] = "left" \/ (job'[d] = "right" /\ st'[d] = "setup"))
              /\ d \in readers'[q] => on'[d] = q /\ (job'[d] = "right" \/ (job'[d] = "left" /\ st'[d] = "setup"))
<1>1. c # Shell /\ c \notin Alive
  BY ChildAssumption DEF Fork, Alive
<1>2. \A q \in Pipe : c \notin writers[q] /\ c \notin readers[q]
  BY <1>1 DEF TypeOK
<1>3. \A q \in Pipe : /\ writers'[q] = IF Shell \in writers[q] THEN writers[q] \cup {c} ELSE writers[q]
                      /\ readers'[q] = IF Shell \in readers[q] THEN readers[q] \cup {c} ELSE readers[q]
  BY DEF Fork, Inherit
<1>4. \A q \in Pipe : Shell \in writers[q] \cup readers[q] => q = fd /\ sh # "prompt"
  BY DEF PipeEnds
<1>5. st'[c] = "setup" /\ job'[c] = part /\ on'[c] = fd
  BY DEF Fork, TypeOK
<1>6. \A d \in Child : d # c => st'[d] = st[d] /\ job'[d] = job[d] /\ on'[d] = on[d]
  BY DEF Fork, TypeOK
<1>7. \A q \in Pipe : /\ Shell \in writers'[q] <=> Shell \in writers[q]
                      /\ Shell \in readers'[q] <=> Shell \in readers[q]
  BY <1>1, <1>3
<1>8. ASSUME NEW q \in Pipe, NEW d \in Child
      PROVE  /\ d \in writers'[q] => on'[d] = q /\ (job'[d] = "left" \/ (job'[d] = "right" /\ st'[d] = "setup"))
             /\ d \in readers'[q] => on'[d] = q /\ (job'[d] = "right" \/ (job'[d] = "left" /\ st'[d] = "setup"))
  <2>1. CASE d = c
    BY <1>2, <1>3, <1>4, <1>5, <2>1
  <2>2. CASE d # c
    <3>1. (d \in writers'[q] => d \in writers[q]) /\ (d \in readers'[q] => d \in readers[q])
      BY <1>3, <2>2
    <3>2. st'[d] = st[d] /\ job'[d] = job[d] /\ on'[d] = on[d]
      BY <1>6, <2>2
    <3>3. /\ d \in writers[q] => on[d] = q /\ (job[d] = "left" \/ (job[d] = "right" /\ st[d] = "setup"))
          /\ d \in readers[q] => on[d] = q /\ (job[d] = "right" \/ (job[d] = "left" /\ st[d] = "setup"))
      BY DEF PipeEnds
    <3> QED BY <3>1, <3>2, <3>3
  <2> QED BY <2>1, <2>2
<1> QED BY <1>7, <1>8

\* Every step keeps the pipe ends where they belong.
LEMMA PipeEndsStep == TypeOK /\ PipeEnds /\ [Next]_vars => PipeEnds'
<1> SUFFICES ASSUME TypeOK, PipeEnds, [Next]_vars PROVE PipeEnds'
  OBVIOUS
<1>1. CASE UNCHANGED vars
  BY <1>1 DEF vars, pipes, PipeEnds
<1>2. ASSUME NEW c \in Child, StartFg(c) PROVE PipeEnds'
  <2>1. Fork(c, "fg") /\ sh = "prompt"
    BY <1>2 DEF StartFg
  <2> QED BY <2>1, ForkEnds DEF PipeEnds
<1>3. ASSUME NEW c \in Child, StartBg(c) PROVE PipeEnds'
  <2>1. Fork(c, "bg") /\ sh = "prompt"
    BY <1>3 DEF StartBg
  <2> QED BY <2>1, ForkEnds DEF PipeEnds
<1>4. ASSUME NEW q \in Pipe, Pipeline(q) PROVE PipeEnds'
  BY <1>4, ChildAssumption DEF Pipeline, PipeEnds, TypeOK
<1>5. ASSUME NEW from, NEW to, NEW part \in {"left", "right"},
             <<from, to>> \in {<<"fork1", "fork2">>, <<"fork2", "close">>},
             ForkSide(from, to, part)
      PROVE  PipeEnds'
  <2>1. sh' \in {"fork2", "close"} /\ fd' = fd
    BY <1>5 DEF ForkSide
  <2>2. CASE \E c \in Child : Fork(c, part) /\ due' = due + 1
    <3>1. PICK c \in Child : Fork(c, part)
      BY <2>2
    <3> QED BY <2>1, <3>1, ForkEnds DEF PipeEnds
  <2>3. CASE ForkFails
    BY <2>1, <2>3 DEF ForkFails, pipes, PipeEnds
  <2> QED BY <1>5, <2>2, <2>3 DEF ForkSide
<1>6. CASE ClosePipe
  BY <1>6, ChildAssumption DEF ClosePipe, PipeEnds, TypeOK
<1>7. ASSUME sh \notin {"fork1", "fork2", "close"}, UNCHANGED <<job, on, pipes>>,
             \A c \in Alive : st'[c] = st[c]
      PROVE  PipeEnds'
  <2>1. \A q \in Pipe, c \in Child : c \in writers[q] \cup readers[q] => c \in Alive
    BY ChildAssumption DEF TypeOK
  <2> QED BY <1>7, <2>1 DEF PipeEnds, pipes
<1>8. ASSUME NEW c \in Zombies, Reap(c) PROVE \A d \in Alive : st'[d] = st[d]
  BY <1>8 DEF Zombies, Alive, Reap, TypeOK
<1>9. CASE WaitAny
  BY <1>7, <1>8, <1>9 DEF WaitAny
<1>10. CASE WaitFg
  BY <1>7, <1>8, <1>10 DEF WaitFg
<1>11. ASSUME NEW c \in Child, Setup(c) PROVE PipeEnds'
  <2>1. \A q \in Pipe : /\ Shell \in writers'[q] <=> Shell \in writers[q]
                        /\ Shell \in readers'[q] <=> Shell \in readers[q]
    BY <1>11, ChildAssumption DEF Setup, TypeOK
  <2>2. \A q \in Pipe, d \in Child : /\ d \in writers'[q] => d \in writers[q]
                                     /\ d \in readers'[q] => d \in readers[q]
    BY <1>11 DEF Setup, TypeOK
  <2>3. \A d \in Child : d # c => st'[d] = st[d]
    BY <1>11 DEF Setup, TypeOK
  <2>4. \A q \in Pipe : /\ c \in writers'[q] => on[c] = q /\ job[c] = "left"
                        /\ c \in readers'[q] => on[c] = q /\ job[c] = "right"
    BY <1>11 DEF Setup, TypeOK, PipeEnds
  <2>5. UNCHANGED <<sh, fd, job, on>>
    BY <1>11 DEF Setup
  <2> QED BY <2>1, <2>2, <2>3, <2>4, <2>5 DEF PipeEnds
<1>12. ASSUME NEW S, S \subseteq {c \in Alive : st[c] = "running"}, Ended(S),
              UNCHANGED <<fd, job, on>>, sh' = sh \/ sh \in {"wait1", "wait2", "fg"}
       PROVE  PipeEnds'
  <2>1. \A q \in Pipe : writers'[q] = writers[q] \ S /\ readers'[q] = readers[q] \ S
    BY <1>12 DEF Ended
  <2>2. \A d \in Child : d \notin S => st'[d] = st[d]
    BY <1>12 DEF Ended
  <2> QED BY <1>12, <2>1, <2>2 DEF PipeEnds
<1>13. ASSUME NEW c \in Child, End(c) PROVE PipeEnds'
  <2>1. {c} \subseteq {d \in Alive : st[d] = "running"}
    BY <1>13 DEF End, Alive
  <2> QED BY <1>12, <1>13, <2>1 DEF End
<1>14. CASE Signal
  BY <1>12, <1>14 DEF Signal, Blocked
<1>15. CASE Quit
  <2>1. \A d \in Alive : st'[d] = st[d]
    BY <1>15 DEF Quit, Alive
  <2> QED BY <1>7, <1>15, <2>1 DEF Quit
<1>16. CASE ForkLeft
  BY <1>5, <1>16 DEF ForkLeft
<1>17. CASE ForkRight
  BY <1>5, <1>17 DEF ForkRight
<1> QED BY <1>1, <1>2, <1>3, <1>4, <1>6, <1>9, <1>10, <1>11, <1>13, <1>14, <1>15,
           <1>16, <1>17 DEF Next, ShellStep

-----------------------------------------------------------------------------

\* The three parts together are an invariant of the shell.
THEOREM JobInvariant == Spec => []JobInv
<1>1. JobInv /\ [Next]_vars => JobInv'
  BY JobTypeStep, AccountStep, PipeEndsStep DEF JobInv
<1> QED BY JobInit, <1>1, PTL DEF Spec

\* Types; no command has more children than waits to come, and no pipe end
\* outlives its process, for any number of children and pipes.
THEOREM JobTypeCorrect == Spec => []TypeOK
<1>1. JobInv => TypeOK
  BY DEF JobInv
<1> QED BY JobInvariant, <1>1, PTL

\* The two waits of a pipeline pay for its two children, whichever children
\* they reap: what is left at the prompt is what the user left there.
THEOREM ChildrenAccounted == Spec => []ChildAccount
<1>1. JobInv => ChildAccount
  BY DEF JobInv
<1> QED BY JobInvariant, <1>1, PTL

\* A pipe that is set up is open in its two commands only.
THEOREM PipeEndsInPlace == Spec => []PipeEnds
<1>1. JobInv => PipeEnds
  BY DEF JobInv
<1> QED BY JobInvariant, <1>1, PTL
=============================================================================
