----------------------------- MODULE LabsProofs -----------------------------
(***************************************************************************)
(* Theorems about the small programs of lab2: each program's invariant, for*)
(* the program alone, and that Labs runs nothing but the programs.         *)
(***************************************************************************)
EXTENDS Labs, TLAPS

-----------------------------------------------------------------------------
(* memorymapfile.c.                                                        *)


\* What the child printed last is at most what it read last, that is at most
\* what the mapping holds, and that is at most the parent's loop variable;
\* before the loop everything is 0.
Chain ==
  /\ last <= v /\ v <= counter /\ counter <= i
  /\ wpc \in {"mmap", "zero"} => counter = 0

MmapInv == TypeOK /\ Chain

\* The chain of values is kept by every step of parent and child, flock or not.
THEOREM MmapInvariant == Spec => []MmapInv
<1> USE TopAssumption
<1>1. Init => MmapInv
  BY DEF Init, MmapInv, TypeOK, Chain, Maxed
<1>2. MmapInv /\ [Next]_vars => MmapInv'
  <2> SUFFICES ASSUME MmapInv, [Next]_vars PROVE MmapInv'
    OBVIOUS
  <2> USE DEF MmapInv, TypeOK, Chain, parent, child
  <2>1. CASE Parent
    BY <2>1
       DEF Parent, ParentMap, ParentZero, ParentLock, ParentWrite, ParentUnlock, ParentReap
  <2>2. CASE ParentMapFails
    BY <2>2 DEF ParentMapFails
  <2>3. CASE Child
    BY <2>3 DEF Child, ChildMap, ChildLock, ChildRead, ChildUnlock, ChildCheck
  <2>4. CASE Done \/ UNCHANGED vars
    BY <2>4 DEF Done, vars
  <2> QED
    BY <2>1, <2>2, <2>3, <2>4 DEF Next
<1> QED
  BY <1>1, <1>2, PTL DEF Spec

\* Types; the counter never passes Top.
THEOREM MmapTypeCorrect == Spec => []TypeOK
  BY MmapInvariant, PTL DEF MmapInv

\* What the child prints is what it read last.
LEMMA MmapPrints == Spec => PrintsGrow
<1>1. MmapInv /\ [Next]_vars => [last' # last => last' > last]_vars
  <2> SUFFICES ASSUME MmapInv, [Next]_vars, last' # last PROVE last' > last
    OBVIOUS
  <2>1. last' = v
    BY DEF Next, Parent, ParentMap, ParentZero, ParentLock, ParentWrite, ParentUnlock,
       ParentReap, ParentMapFails, Child, ChildMap, ChildLock, ChildRead, ChildUnlock,
       ChildCheck, Done, child, parent, vars
  <2> QED
    BY <2>1, TopAssumption DEF MmapInv, TypeOK, Chain
<1> QED
  BY <1>1, MmapInvariant, PTL DEF Spec, PrintsGrow

-----------------------------------------------------------------------------
(* selectpipe.c.                                                           *)


PipeType ==
  /\ pParent \in {"fork", "select", "read", "return", "exit"}
  /\ pWritten \in [P!Children -> 0 .. Messages] /\ pGot \in [P!Children -> 0 .. Messages]
  /\ pGone \subseteq P!Children /\ pReady \subseteq P!Children
  /\ pReaped \in Seq(P!Children)

\* Nobody is heard before it wrote; a child that ended has written everything,
\* unless the parent ended before; only such children are reaped.
Written ==
  /\ \A c \in P!Children : pGot[c] <= pWritten[c]
  /\ pParent # "exit" => \A c \in pGone : pWritten[c] = Messages
  /\ \A k \in DOMAIN pReaped : pReaped[k] \in pGone
  /\ pParent = "fork" => pReaped = <<>>

\* Of the child reaped k-th the parent has read everything, or a message in every
\* round since; in a round, the pipe may be still to come.
Rounds(k)  == pGot[pReaped[k]] = Messages \/ pGot[pReaped[k]] >= Len(pReaped) - k
RoundOn(k) == pGot[pReaped[k]] = Messages \/ pGot[pReaped[k]] >= Len(pReaped) + 1 - k

Heard ==
  \A k \in DOMAIN pReaped :
    /\ pParent \in {"select", "read"} => Rounds(k)
    /\ pParent = "read" /\ pReaped[k] \notin pReady => RoundOn(k)

PipeInv == PipeType /\ Written /\ Heard /\ P!EachHeard

-----------------------------------------------------------------------------

LEMMA PipeInvInit == ASSUME P!PipeSizes PROVE P!Init => PipeInv
BY DEF P!PipeSizes, P!Init, PipeInv, PipeType, Written, Heard, P!EachHeard, P!Children

\* What select does not report of an ended child has been read.
LEMMA UnreadyRead ==
  ASSUME P!PipeSizes, PipeInv, pParent # "exit",
         NEW k \in DOMAIN pReaped, ~P!Readable(pReaped[k])
  PROVE  pGot[pReaped[k]] = Messages
<1>1. pReaped[k] \in P!Children /\ pReaped[k] \in pGone
  BY DEF PipeInv, PipeType, Written
<1>2. pWritten[pReaped[k]] = Messages /\ pGot[pReaped[k]] <= pWritten[pReaped[k]]
  BY <1>1 DEF PipeInv, Written
<1>3. ~(pGot[pReaped[k]] < pWritten[pReaped[k]])
  BY DEF P!Readable
<1>4. pGot[pReaped[k]] \in Nat /\ Messages \in Nat
  BY <1>1 DEF P!PipeSizes, PipeInv, PipeType
<1> QED BY <1>2, <1>3, <1>4

LEMMA PipeInvNext == ASSUME P!PipeSizes PROVE PipeInv /\ [P!Next]_(P!vars) => PipeInv'
<1> SUFFICES ASSUME PipeInv, [P!Next]_(P!vars) PROVE PipeInv' OBVIOUS
<1> USE DEF PipeInv, P!PipeSizes
<1>1. CASE P!Fork \/ P!ForkFails
  BY <1>1 DEF P!Fork, P!ForkFails, PipeType, Written, Heard, P!EachHeard
<1>2. CASE P!Select \/ P!Input
  <2>1. PipeType' /\ Written' /\ P!EachHeard'
    BY <1>2 DEF P!Select, P!Input, PipeType, Written, P!EachHeard
  <2>2. ASSUME NEW k \in DOMAIN pReaped
        PROVE  Rounds(k)' /\ (pReaped[k] \notin pReady' => RoundOn(k)')
    <3>1. Rounds(k) /\ UNCHANGED <<pGot, pReaped>>
      BY <1>2 DEF P!Select, P!Input, Heard
    <3>2. pReaped[k] \notin pReady' => ~P!Readable(pReaped[k])
      BY <1>2 DEF P!Select, P!Input, PipeType
    <3> QED BY <1>2, <3>1, <3>2, UnreadyRead DEF Rounds, RoundOn, P!Select, P!Input
  <2> QED BY <1>2, <2>1, <2>2 DEF Heard, P!Select, P!Input
<1>3. CASE P!Read
  <2>1. PICK c \in pReady :
          /\ pReady' = pReady \ {c}
          /\ pGot' = IF pGot[c] < pWritten[c] THEN [pGot EXCEPT ![c] = @ + 1] ELSE pGot
    BY <1>3 DEF P!Read
  <2>2. pParent = "read" /\ UNCHANGED <<pParent, pForked, pWritten, pGone, pReaped>>
    BY <1>3 DEF P!Read
  <2>3. PipeType' /\ Written' /\ P!EachHeard'
    BY <2>1, <2>2 DEF PipeType, Written, P!EachHeard
  <2>4. ASSUME NEW k \in DOMAIN pReaped
        PROVE  Rounds(k)' /\ (pReaped[k] \notin pReady' => RoundOn(k)')
    <3>1. Rounds(k) /\ (pReaped[k] \notin pReady => RoundOn(k))
      BY <2>2 DEF Heard
    <3>2. pReaped[k] \in P!Children /\ k \in Nat /\ Len(pReaped) \in Nat
      BY DEF PipeType
    <3>3. CASE pReaped[k] = c
      <4>1. pWritten[c] = Messages
        BY <2>2, <3>3 DEF Written
      <4> QED BY <2>1, <2>2, <3>1, <3>2, <3>3, <4>1 DEF Rounds, RoundOn, PipeType
    <3>4. CASE pReaped[k] # c
      BY <2>1, <2>2, <3>1, <3>2, <3>4 DEF Rounds, RoundOn, PipeType
    <3> QED BY <3>3, <3>4
  <2> QED BY <2>2, <2>3, <2>4 DEF Heard
<1>4. CASE P!Wait
  <2>1. \A k \in DOMAIN pReaped : RoundOn(k)
    BY <1>4 DEF P!Wait, Heard
  <2>2. CASE UNCHANGED pReaped /\ pParent' = "select"
    <3>1. PipeType' /\ Written' /\ P!EachHeard'
      BY <1>4, <2>2 DEF P!Wait, PipeType, Written, P!EachHeard
    <3>2. ASSUME NEW k \in DOMAIN pReaped PROVE Rounds(k)'
      BY <1>4, <2>1, <2>2 DEF P!Wait, PipeType, Rounds, RoundOn
    <3> QED BY <2>2, <3>1, <3>2 DEF Heard
  <2>3. CASE UNCHANGED pReaped /\ pParent' = "return" /\ Len(pReaped) = N
    <3>1. PipeType' /\ Written' /\ Heard'
      BY <1>4, <2>3 DEF P!Wait, PipeType, Written, Heard
    <3>2. DOMAIN pReaped = 1 .. N /\ \A k \in 1 .. N : pReaped[k] \in P!Children
      BY <2>3 DEF PipeType
    <3>3. \A k \in 1 .. N : pGot[pReaped[k]] >= N + 1 - k
      BY <2>1, <2>3, <3>2 DEF PipeType, RoundOn
    <3> QED BY <1>4, <2>3, <3>1, <3>3 DEF P!Wait, P!EachHeard
  <2>4. ASSUME NEW c \in pGone \ P!Reaped, pReaped' = Append(pReaped, c), pParent' = "select"
        PROVE  PipeInv'
    <3>1. PipeType'
      BY <1>4, <2>4 DEF P!Wait, PipeType
    <3>2. /\ Len(pReaped') = Len(pReaped) + 1 /\ DOMAIN pReaped' = 1 .. Len(pReaped) + 1
          /\ \A k \in DOMAIN pReaped : pReaped'[k] = pReaped[k]
          /\ pReaped'[Len(pReaped) + 1] = c
      BY <2>4 DEF PipeType
    <3>3. Written' /\ P!EachHeard'
      BY <1>4, <2>4, <3>2 DEF P!Wait, PipeType, Written, P!EachHeard
    <3>4. ASSUME NEW k \in DOMAIN pReaped' PROVE Rounds(k)'
      BY <1>4, <2>1, <2>4, <3>2 DEF P!Wait, PipeType, Rounds, RoundOn
    <3> QED BY <2>4, <3>1, <3>3, <3>4 DEF Heard
  <2> QED BY <1>4, <2>2, <2>3, <2>4 DEF P!Wait
<1>5. ASSUME NEW c \in P!Children, P!Child(c) PROVE PipeInv'
  <2>1. UNCHANGED <<pParent, pForked, pGot, pReaped, pReady>>
    BY <1>5 DEF P!Child, P!Write, P!Exit
  <2>2. PipeType'
    <3>1. pWritten' \in [P!Children -> 0 .. Messages]
      <4>1. pWritten[c] < Messages => pWritten[c] + 1 \in 0 .. Messages
        BY DEF PipeType
      <4>2. \/ UNCHANGED pWritten
            \/ pWritten[c] < Messages /\ pWritten' = [pWritten EXCEPT ![c] = @ + 1]
        BY <1>5 DEF P!Child, P!Write, P!Exit
      <4> QED BY <4>1, <4>2 DEF PipeType
    <3>2. pGone' \subseteq P!Children
      BY <1>5 DEF P!Child, P!Write, P!Exit, PipeType
    <3> QED BY <2>1, <3>1, <3>2 DEF PipeType
  <2>3. Written'
    <3>1. CASE P!Write(c) /\ P!HasReader(c)
      <4>1. \A d \in P!Children : d # c => pWritten'[d] = pWritten[d]
        BY <3>1 DEF P!Write, PipeType
      <4>2. pWritten'[c] = pWritten[c] + 1 /\ pGot[c] <= pWritten'[c]
        BY <3>1 DEF P!Write, PipeType, Written
      <4>3. c \notin pGone /\ UNCHANGED <<pParent, pGot, pGone, pReaped>>
        BY <3>1 DEF P!Write, P!Running
      <4> QED BY <4>1, <4>2, <4>3 DEF PipeType, Written
    <3>2. CASE P!Write(c) /\ ~P!HasReader(c)
      BY <3>2 DEF P!Write, P!HasReader, PipeType, Written
    <3>3. CASE P!Exit(c)
      BY <3>3 DEF P!Exit, PipeType, Written
    <3> QED BY <1>5, <3>1, <3>2, <3>3 DEF P!Child
  <2>4. Heard' /\ P!EachHeard'
    BY <2>1 DEF Heard, P!EachHeard, Rounds, RoundOn
  <2> QED BY <2>2, <2>3, <2>4
<1>6. CASE UNCHANGED P!vars
  BY <1>6 DEF P!vars, PipeType, Written, Heard, P!EachHeard, Rounds, RoundOn
<1> QED BY <1>1, <1>2, <1>3, <1>4, <1>5, <1>6 DEF P!Next, P!Parent, P!Done

LEMMA PipeInvariant == P!Spec => []PipeInv
<1>1. P!PipeSizes
  BY LabsAssumption
<1>2. P!Init => PipeInv
  BY <1>1, PipeInvInit
<1>3. PipeInv /\ [P!Next]_(P!vars) => PipeInv'
  BY <1>1, PipeInvNext
<1> QED BY <1>2, <1>3, PTL DEF P!Spec

-----------------------------------------------------------------------------
(* messagequeue.c.                                                         *)


Live(s) == qMain[s] \in {"connect", "chat", "send"}

ChatType ==
  /\ qName \in [Q!User -> Q!Session \cup {Q!NoQueue}]
  /\ qMain \in [Q!Session -> {"none", "connect", "chat", "send", "cleanup", "gone"}]
  /\ qReader \in [Q!Session -> {"none", "receive", "gone"}]
  /\ qMy \in [Q!Session -> Q!Session \cup {Q!NoQueue}]

\* The sessions of a user follow each other; their readers need not.
OneAfterAnother ==
  \A s, t \in Q!Session :
    s[1] = t[1] /\ t[2] < s[2] /\ qMain[s] # "none" => qMain[t] = "gone"

\* A reader belongs to a session that has begun.
ReaderBegan == \A s \in Q!Session : qReader[s] # "none" => qMain[s] \notin {"none", "connect"}

\* A reader that outlived its session when the next one began is on record.
OverlapKnown ==
  \A s, t \in Q!Session :
    s[1] = t[1] /\ t[2] < s[2] /\ qMain[s] # "none" /\ qReader[t] = "receive" => s \in qOverlap

\* No signal is pending before the chat; the child is only interrupted when its
\* parent is, or has left the chat.
BothInterrupted ==
  \A s \in Q!Session :
    /\ <<s, "main">> \in qSig \/ <<s, "reader">> \in qSig => qMain[s] \notin {"none", "connect"}
    /\ <<s, "reader">> \in qSig => <<s, "main">> \in qSig \/ ~Live(s)

ChatInv ==
  ChatType /\ OneAfterAnother /\ ReaderBegan /\ OverlapKnown /\ BothInterrupted /\ Q!NameIsMine

-----------------------------------------------------------------------------

LEMMA SessionParts ==
  ASSUME Q!SessionSizes, NEW s \in Q!Session
  PROVE  /\ s \in Q!User \X Nat /\ s[1] \in Q!User /\ s[2] \in Nat \ {0}
         /\ s = <<s[1], s[2]>> /\ s # Q!NoQueue
         /\ \A j \in 1 .. s[2] : <<s[1], j>> \in Q!Session
BY DEF Q!SessionSizes, Q!Session, Q!User, Q!NoQueue

LEMMA SessionOrder ==
  ASSUME Q!SessionSizes, NEW s \in Q!Session, NEW t \in Q!Session, s[1] = t[1]
  PROVE  s = t \/ s[2] < t[2] \/ t[2] < s[2]
BY SessionParts

LEMMA ChatInvInit == ASSUME Q!SessionSizes PROVE Q!Init => ChatInv
BY SessionParts DEF Q!Init, ChatInv, ChatType, OneAfterAnother, ReaderBegan, OverlapKnown,
   BothInterrupted, Q!NameIsMine, Live

\* A session that starts is the last of its user, and all before it are gone.
LEMMA StartIsLast ==
  ASSUME Q!SessionSizes, ChatInv, NEW s \in Q!Session, Q!Start(s)
  PROVE  \A t \in Q!Session : s[1] = t[1] /\ s # t =>
           \/ t[2] < s[2] /\ qMain[t] = "gone"
           \/ s[2] < t[2] /\ qMain[t] = "none"
<1> SUFFICES ASSUME NEW t \in Q!Session, s[1] = t[1], s # t
             PROVE  \/ t[2] < s[2] /\ qMain[t] = "gone"
                    \/ s[2] < t[2] /\ qMain[t] = "none"
  OBVIOUS
<1> DEFINE p == <<s[1], s[2] - 1>>
<1>1. CASE t[2] < s[2]
  <2>1. s[2] > 1 /\ p \in Q!Session /\ p[1] = s[1] /\ p[2] = s[2] - 1
    <3>1. s[2] - 1 \in 1 .. s[2] /\ s[2] > 1
      BY <1>1, SessionParts
    <3> QED BY <3>1, SessionParts
  <2>2. qMain[p] = "gone"
    BY <2>1 DEF Q!Start
  <2>3. t = p \/ t[2] < p[2]
    BY <1>1, <2>1, SessionParts, SessionOrder
  <2> HIDE DEF p
  <2> QED BY <1>1, <2>1, <2>2, <2>3 DEF ChatInv, OneAfterAnother
<1>2. CASE s[2] < t[2]
  BY <1>2 DEF ChatInv, OneAfterAnother, Q!Start
<1> QED BY <1>1, <1>2, SessionOrder

\* Unlinking disturbs no other running session than those on record.
LEMMA UnlinkHarmless ==
  ASSUME Q!SessionSizes, ChatInv, NEW s \in Q!Session, NEW t \in Q!Session,
         s # t, s[1] = t[1], Live(t),
         qMain[s] \notin {"none", "gone"} \/ qReader[s] = "receive"
  PROVE  t \in qOverlap
<1>1. qMain[s] # "none"
  BY DEF ChatInv, ReaderBegan
<1>2. CASE t[2] < s[2]
  BY <1>1, <1>2 DEF ChatInv, OneAfterAnother, Live
<1>3. CASE s[2] < t[2]
  <2>1. qMain[s] = "gone"
    BY <1>3 DEF ChatInv, OneAfterAnother, Live
  <2> QED BY <1>3, <2>1 DEF ChatInv, OverlapKnown, Live
<1> QED BY <1>2, <1>3, SessionOrder

LEMMA ChatInvNext == ASSUME Q!SessionSizes PROVE ChatInv /\ [Q!Next]_(Q!vars) => ChatInv'
<1> SUFFICES ASSUME ChatInv, [Q!Next]_(Q!vars) PROVE ChatInv' OBVIOUS
<1> USE DEF ChatInv
<1>1. ASSUME NEW s \in Q!Session, Q!Start(s) PROVE ChatInv'
  <2>0. \A t \in Q!Session : s[1] = t[1] /\ s # t =>
          \/ t[2] < s[2] /\ qMain[t] = "gone"
          \/ s[2] < t[2] /\ qMain[t] = "none"
    BY <1>1, StartIsLast
  <2>1. ChatType'
    BY <1>1, SessionParts DEF Q!Start, ChatType
  <2>2. OneAfterAnother'
    <3> SUFFICES ASSUME NEW a \in Q!Session, NEW b \in Q!Session, a[1] = b[1], b[2] < a[2],
                        qMain'[a] # "none"
                 PROVE  qMain'[b] = "gone"
      BY DEF OneAfterAnother
    <3>1. CASE a = s
      <4>1. b # s /\ qMain'[b] = qMain[b]
        BY <3>1, <1>1, SessionParts DEF Q!Start, ChatType
      <4> QED BY <2>0, <3>1, <4>1, SessionParts
    <3>2. CASE b = s
      <4>1. a # s /\ qMain'[a] = qMain[a]
        BY <3>2, <1>1, SessionParts DEF Q!Start, ChatType
      <4> QED BY <2>0, <3>2, <4>1, SessionParts
    <3>3. CASE a # s /\ b # s
      BY <3>3, <1>1 DEF Q!Start, ChatType, OneAfterAnother
    <3> QED BY <3>1, <3>2, <3>3
  <2>3. ReaderBegan'
    BY <1>1 DEF Q!Start, ChatType, ReaderBegan
  <2>4. OverlapKnown'
    <3> SUFFICES ASSUME NEW a \in Q!Session, NEW b \in Q!Session, a[1] = b[1], b[2] < a[2],
                        qMain'[a] # "none", qReader'[b] = "receive"
                 PROVE  a \in qOverlap'
      BY DEF OverlapKnown
    <3>1. CASE a = s
      <4>1. b = <<s[1], b[2]>> /\ b[2] \in 1 .. s[2] - 1
        BY <3>1, SessionParts DEF Q!Session, Q!User
      <4>2. \E k \in 1 .. s[2] - 1 : qReader[<<s[1], k>>] = "receive"
        BY <4>1, <1>1 DEF Q!Start
      <4> QED BY <3>1, <4>2, <1>1 DEF Q!Start
    <3>2. CASE a # s
      BY <3>2, <1>1 DEF Q!Start, ChatType, OverlapKnown
    <3> QED BY <3>1, <3>2
  <2>5. BothInterrupted'
    BY <1>1 DEF Q!Start, ChatType, BothInterrupted, ReaderBegan, Live
  <2>6. Q!NameIsMine'
    <3> SUFFICES ASSUME NEW a \in Q!Session, qMain'[a] \in {"connect", "chat", "send"},
                        <<a, "main">> \notin qSig', a \notin qOverlap'
                 PROVE  qName'[a[1]] = qMy'[a]
      BY DEF Q!NameIsMine
    <3>1. CASE a = s
      BY <3>1, <1>1, SessionParts DEF Q!Start, ChatType
    <3>2. CASE a # s /\ a[1] = s[1]
      BY <3>2, <1>1, <2>0 DEF Q!Start, ChatType
    <3>3. CASE a[1] # s[1]
      BY <3>3, <1>1, SessionParts DEF Q!Start, ChatType, Q!NameIsMine
    <3> QED BY <3>1, <3>2, <3>3
  <2> QED BY <2>1, <2>2, <2>3, <2>4, <2>5, <2>6
<1>2. ASSUME NEW s \in Q!Session, Q!Connect(s) \/ Q!TypeLine(s) \/ Q!Send(s) \/ Q!Receive(s)
      PROVE  ChatInv'
  <2>1. ChatType'
    BY <1>2 DEF Q!Connect, Q!TypeLine, Q!Send, Q!Receive, ChatType, Q!files
  <2>2. \A t \in Q!Session :
          /\ qMain'[t] = "none" <=> qMain[t] = "none"
          /\ qMain'[t] = "gone" <=> qMain[t] = "gone"
          /\ Live(t)' <=> Live(t)
          /\ qReader'[t] # qReader[t] => qMain[t] = "connect"
          /\ qMain'[t] = "connect" => qMain[t] = "connect" /\ qReader'[t] = qReader[t]
    BY <1>2 DEF Q!Connect, Q!TypeLine, Q!Send, Q!Receive, ChatType, Live, Q!files
  <2>3. UNCHANGED <<qName, qMy, qSig, qOverlap>>
    BY <1>2 DEF Q!Connect, Q!TypeLine, Q!Send, Q!Receive, Q!files
  <2>4. OneAfterAnother'
    BY <2>2 DEF OneAfterAnother
  <2>5. ReaderBegan'
    BY <2>2 DEF ReaderBegan
  <2>6. OverlapKnown'
    BY <2>2, <2>3 DEF OverlapKnown, OneAfterAnother
  <2>7. BothInterrupted'
    BY <2>2, <2>3 DEF BothInterrupted
  <2>8. Q!NameIsMine'
    BY <2>2, <2>3 DEF Q!NameIsMine, Live
  <2> QED BY <2>1, <2>4, <2>5, <2>6, <2>7, <2>8
<1>3. ASSUME NEW s \in Q!Session, Q!Interrupt(s) \/ Q!EndInput(s) PROVE ChatInv'
  <2>1. ChatType'
    BY <1>3 DEF Q!Interrupt, Q!EndInput, ChatType, Q!files
  <2>2. OneAfterAnother' /\ ReaderBegan' /\ OverlapKnown'
    BY <1>3 DEF Q!Interrupt, Q!EndInput, ChatType, OneAfterAnother, ReaderBegan,
       OverlapKnown, Q!files
  <2>3. BothInterrupted'
    <3> SUFFICES ASSUME NEW a \in Q!Session
                 PROVE  /\ <<a, "main">> \in qSig' \/ <<a, "reader">> \in qSig'
                             => qMain'[a] \notin {"none", "connect"}
                        /\ <<a, "reader">> \in qSig'
                             => <<a, "main">> \in qSig' \/ ~Live(a)'
      BY DEF BothInterrupted
    <3>1. CASE a # s
      <4>1. qMain'[a] = qMain[a]
        BY <1>3, <3>1 DEF Q!Interrupt, Q!EndInput, ChatType
      <4>2. \A w \in {"main", "reader"} : <<a, w>> \in qSig' <=> <<a, w>> \in qSig
        BY <1>3, <3>1 DEF Q!Interrupt, Q!EndInput
      <4> QED BY <4>1, <4>2 DEF BothInterrupted, Live
    <3>2. CASE a = s /\ Q!Interrupt(s)
      BY <3>2 DEF Q!Interrupt, ChatType, BothInterrupted, Live
    <3>3. CASE a = s /\ Q!EndInput(s)
      BY <3>3 DEF Q!EndInput, ChatType, BothInterrupted, Live
    <3> QED BY <1>3, <3>1, <3>2, <3>3
  <2>4. Q!NameIsMine'
    BY <1>3 DEF Q!Interrupt, Q!EndInput, ChatType, Q!NameIsMine, Q!files
  <2> QED BY <2>1, <2>2, <2>3, <2>4
<1>4. ASSUME NEW s \in Q!Session, Q!CleanupMain(s) \/ Q!CleanupReader(s) PROVE ChatInv'
  <2>1. ChatType'
    BY <1>4, SessionParts DEF Q!CleanupMain, Q!CleanupReader, Q!Unlink, ChatType
  <2>2. qMain[s] \notin {"none", "gone"} \/ qReader[s] = "receive"
    BY <1>4 DEF Q!CleanupMain, Q!CleanupReader, BothInterrupted
  <2>3. /\ qMain'[s] \in {qMain[s], "gone"}
        /\ qReader'[s] # "none" => qReader[s] # "none" /\ qMain'[s] \notin {"none", "connect"}
        /\ qReader'[s] = "receive" => qReader[s] = "receive"
        /\ \A t \in Q!Session \ {s} : qMain'[t] = qMain[t] /\ qReader'[t] = qReader[t]
        /\ UNCHANGED <<qMy, qSig, qOverlap>>
    BY <1>4 DEF Q!CleanupMain, Q!CleanupReader, ChatType, Live, ReaderBegan
  <2>4. OneAfterAnother'
    BY <2>2, <2>3 DEF OneAfterAnother, ReaderBegan
  <2>5. ReaderBegan'
    BY <2>3 DEF ReaderBegan
  <2>6. OverlapKnown'
    BY <2>2, <2>3 DEF OverlapKnown, ReaderBegan
  <2>7. BothInterrupted'
    BY <1>4 DEF Q!CleanupMain, Q!CleanupReader, ChatType, BothInterrupted, Live
  <2>8. Q!NameIsMine'
    <3> SUFFICES ASSUME NEW a \in Q!Session, Live(a)', <<a, "main">> \notin qSig',
                        a \notin qOverlap'
                 PROVE  qName'[a[1]] = qMy'[a]
      BY DEF Q!NameIsMine, Live
    <3>1. a # s
      BY <1>4, <2>3 DEF Q!CleanupMain, Q!CleanupReader, BothInterrupted, ChatType, Live
    <3>2. Live(a)
      BY <2>3, <3>1 DEF Live
    <3>3. a[1] # s[1]
      BY <2>2, <2>3, <3>1, <3>2, UnlinkHarmless
    <3>4. qName'[a[1]] = qName[a[1]]
      BY <1>4, <3>3, SessionParts DEF Q!CleanupMain, Q!CleanupReader, Q!Unlink, ChatType
    <3> QED BY <2>3, <3>2, <3>4 DEF Q!NameIsMine, Live
  <2> QED BY <2>1, <2>4, <2>5, <2>6, <2>7, <2>8
<1>5. CASE UNCHANGED Q!vars
  BY <1>5 DEF Q!vars, Q!files, ChatType, OneAfterAnother, ReaderBegan, OverlapKnown,
     BothInterrupted, Q!NameIsMine, Live
<1> QED BY <1>1, <1>2, <1>3, <1>4, <1>5 DEF Q!Next, Q!MainStep, Q!ReaderStep, Q!Typed

LEMMA ChatInvariant == Q!Spec => []ChatInv
<1>1. Q!SessionSizes
  BY LabsAssumption
<1>2. Q!Init => ChatInv
  BY <1>1, ChatInvInit
<1>3. ChatInv /\ [Q!Next]_(Q!vars) => ChatInv'
  BY <1>1, ChatInvNext
<1> QED BY <1>2, <1>3, PTL DEF Q!Spec

-----------------------------------------------------------------------------
(* All of them.                                                            *)

\* Whichever program runs, every program sees a behaviour of its own: its steps, or
\* none of its variables changes.
LEMMA LabsRuns ==
  LabsSafety => Spec /\ P!Spec /\ Q!Spec /\ B!Spec /\ C!Init /\ [][C!Next]_(C!vars)
<1>1. LabsInit => Init /\ P!Init /\ Q!Init /\ C!Init /\ B!Init
  BY DEF LabsInit
<1>2. [LabsNext]_labs => /\ [Next]_vars /\ [P!Next]_(P!vars) /\ [Q!Next]_(Q!vars)
                         /\ [C!Next]_(C!vars) /\ [B!Next]_(B!vars)
  <2> SUFFICES ASSUME [LabsNext]_labs
               PROVE  /\ [Next]_vars /\ [P!Next]_(P!vars) /\ [Q!Next]_(Q!vars)
                      /\ [C!Next]_(C!vars) /\ [B!Next]_(B!vars)
    OBVIOUS
  <2>1. /\ UNCHANGED pVars => UNCHANGED P!vars
        /\ UNCHANGED qVars => UNCHANGED Q!vars
        /\ UNCHANGED cVars => UNCHANGED C!vars
        /\ UNCHANGED bVars => UNCHANGED B!vars
    BY DEF pVars, qVars, cVars, bVars, P!vars, Q!vars, Q!files, C!vars, C!shared, B!vars
  <2>2. CASE UNCHANGED labs
    BY <2>1, <2>2 DEF labs
  <2>3. CASE Only("mmap") /\ Next
    BY <2>1, <2>3 DEF Only
  <2>4. CASE Only("pipes") /\ P!Next
    BY <2>1, <2>4 DEF Only
  <2>5. CASE Only("queues") /\ Q!Next
    BY <2>1, <2>5 DEF Only
  <2>6. CASE Only("talk") /\ C!Next
    BY <2>1, <2>6 DEF Only
  <2>7. CASE Only("buffer") /\ B!Next
    BY <2>1, <2>7 DEF Only
  <2> QED BY <2>2, <2>3, <2>4, <2>5, <2>6, <2>7 DEF LabsNext
<1> QED BY <1>1, <1>2, PTL DEF LabsSafety, Spec, P!Spec, Q!Spec, B!Spec

\* memorymapfile.c: the values the child prints grow, for every Top and every
\* schedule.
THEOREM PrintedValuesGrow == LabsSafety => PrintsGrow
BY LabsRuns, MmapPrints, PTL

\* selectpipe.c, parent: for any number of children, of the child that waitpid
\* returned k-th at least N + 1 - k messages were printed.
THEOREM ChildrenHeard == LabsSafety => []EachHeard
<1>1. PipeInv => EachHeard
  BY DEF PipeInv, EachHeard
<1> QED BY <1>1, LabsRuns, PipeInvariant, PTL

\* messagequeue.c, cleanup: as long as the sessions of a user do not overlap, the
\* two unlinks of a session never take the name of the next one.
THEOREM SessionsFound == LabsSafety => []NameIsMine
<1>1. ChatInv => NameIsMine
  BY DEF ChatInv, NameIsMine
<1> QED BY <1>1, LabsRuns, ChatInvariant, PTL
=============================================================================
