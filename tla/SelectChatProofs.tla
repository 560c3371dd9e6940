-------------------------- MODULE SelectChatProofs --------------------------
(* Theorems about SelectChat. *)
EXTENDS SelectChat, FiniteSetTheorems, SequenceTheorems, NaturalsInduction, WellFoundedInduction, TLAPS

Line  == [from : Client, line : Nat]
Entry == [id : Nat, by : Client, from : Client, line : Nat]

Streams ==
  /\ queue \in Seq(Client) /\ buf \in Seq(Line)
  /\ up \in [Client -> Seq(Line)] /\ wire \in [Client -> Seq(Entry)]
  /\ before \in [Client -> [Client -> Nat]]

\* A connection waits for accept once; before that its client gets nothing.
Joining ==
  /\ \A i, j \in DOMAIN queue : queue[i] = queue[j] => i = j
  /\ \A i \in DOMAIN queue : fd[queue[i]] = 0 /\ st[queue[i]] # "new"
  /\ \A c \in Client : /\ st[c] = "new" => fd[c] = 0
                       /\ fd[c] = 0 => wire[c] = <<>>

\* In transit are the lines that follow the ones read; only lines that were read
\* are relayed or left in buf, where no line is twice.
Numbered ==
  /\ \A c \in Client : \A i \in DOMAIN up[c] : up[c][i] = [from |-> c, line |-> ReadOf(c) + i]
  /\ \A d \in Client : \A i \in DOMAIN wire[d] : wire[d][i].line <= ReadOf(wire[d][i].from)
  /\ \A i \in DOMAIN buf : buf[i].line <= ReadOf(buf[i].from)
  /\ \A i, j \in DOMAIN buf : buf[i] = buf[j] => i = j
  /\ \A c, d \in Client : before[d][c] <= ReadOf(c)

\* A connection whose read failed brings nothing more.
Failed == \A c \in reset : conn[c] = "done" /\ up[c] = <<>>

\* Only a failed read relays under a wrong name, or what was relayed before, once.
Repeats ==
  \A d \in Client :
    /\ \A i \in DOMAIN wire[d] : wire[d][i].by # wire[d][i].from => wire[d][i].by \in reset
    /\ \A i, j \in DOMAIN wire[d] :
         i < j /\ wire[d][i] = wire[d][j] =>
           /\ wire[d][i].by = wire[d][i].from /\ wire[d][i].by \in reset
           /\ \A k \in DOMAIN wire[d] : j < k => wire[d][k] # wire[d][i]

\* A name is the descriptor of the client whose turn it was; of two clients that
\* had the same one, the first had left before the second came.
Named ==
  \A d \in Client :
    /\ \A i \in DOMAIN wire[d] :
         LET e == wire[d][i] IN e.id = fd[e.by] /\ e.id # 0 /\ e.by # d
    /\ \A i, j \in DOMAIN wire[d] :
         i < j /\ wire[d][i].id = wire[d][j].id /\ wire[d][i].by # wire[d][j].by =>
           /\ wire[d][i].by \notin reads
           /\ \A k \in DOMAIN wire[d] : j < k => wire[d][k].by # wire[d][i].by

\* Shown a second time is an end of what a client was sent, and nothing follows.
Again ==
  DOMAIN again = Client /\ \A d \in Client : again[d] # <<>> =>
    srv = "dead" /\ \E k \in 1 .. Len(wire[d]) : again[d] = SubSeq(wire[d], k, Len(wire[d]))

\* What d got at the turns of c.
Under(d, c)   == {i \in DOMAIN wire[d] : wire[d][i].by = c}
LinesOf(d, c) == {wire[d][i].line : i \in Under(d, c)}

\* What RelayedInOrder says, of clients instead of names; all of it also when the client has
\* closed and the server has not written to it since.
RelayedTo(d, c) ==
  /\ \A i \in Under(d, c) : /\ wire[d][i].from = c
                           /\ \A j \in Under(d, c) : i < j => wire[d][i].line < wire[d][j].line
  /\ \E n \in before[d][c] .. ReadOf(c) : LinesOf(d, c) = before[d][c] + 1 .. n
  /\ d \in reads /\ conn[d] \in {"open", "fin"} => LinesOf(d, c) = before[d][c] + 1 .. ReadOf(c)

Relayed == \A d \in Client : \A c \in Client \ (reset \cup {d}) : RelayedTo(d, c)

ChatInv == TypeOK /\ Streams /\ Joining /\ Numbered /\ Failed /\ Repeats /\ Named /\ Again /\ Relayed

-----------------------------------------------------------------------------
(* Data.                                                                   *)

\* Every set of numbers that is not empty has a least element.
LEMMA Least ==
  ASSUME NEW S, S \subseteq Nat, S # {}
  PROVE  \E x \in S : \A y \in S : x <= y
<1>1. IsWellFoundedOn(OpToRel(<, Nat), Nat)
  BY NatLessThanWellFounded
<1>2. PICK x \in S : \A y \in S : ~ (<<y, x>> \in OpToRel(<, Nat))
  BY <1>1, WFMin
<1>3. ASSUME NEW y \in S PROVE ~(y < x)
  <2>1. y \in Nat /\ x \in Nat
    OBVIOUS
  <2>2. ~ (<<y, x>> \in OpToRel(<, Nat))
    BY <1>2
  <2> QED BY <2>1, <2>2 DEF OpToRel
<1> QED BY <1>3

\* t is s with b behind it.
Behind(s, b, t) ==
  /\ Len(s) \in Nat /\ Len(b) \in Nat /\ DOMAIN s = 1 .. Len(s) /\ DOMAIN b = 1 .. Len(b)
  /\ DOMAIN t = 1 .. Len(s) + Len(b)
  /\ \A i \in DOMAIN s : t[i] = s[i]
  /\ \A k \in DOMAIN b : t[Len(s) + k] = b[k]

LEMMA Concat ==
  ASSUME NEW X, NEW s \in Seq(X), NEW b \in Seq(X)
  PROVE  s \o b \in Seq(X) /\ Behind(s, b, s \o b)
BY DEF Behind

\* A sequence without the first n of its elements.
LEMMA Rest ==
  ASSUME NEW X, NEW s \in Seq(X), NEW n \in 1 .. Len(s)
  PROVE  /\ SubSeq(s, n + 1, Len(s)) \in Seq(X) /\ Len(SubSeq(s, n + 1, Len(s))) = Len(s) - n
         /\ \A k \in 1 .. Len(s) - n : SubSeq(s, n + 1, Len(s))[k] = s[n + k] /\ n + k \in DOMAIN s
<1> DEFINE u == SubSeq(s, n + 1, Len(s))
<1>1. Len(s) \in Nat /\ n \in Nat /\ n <= Len(s) /\ DOMAIN s = 1 .. Len(s)
  OBVIOUS
<1>2. \A i \in n + 1 .. Len(s) : s[i] \in X
  BY <1>1
<1>3. n + 1 \in Int /\ Len(s) \in Int
  BY <1>1
<1>4. /\ u \in Seq(X)
      /\ Len(u) = IF n + 1 <= Len(s) THEN Len(s) - (n + 1) + 1 ELSE 0
      /\ \A i \in 1 .. Len(s) - (n + 1) + 1 : u[i] = s[(n + 1) + i - 1]
  BY <1>2, <1>3, SubSeqProperties
<1> HIDE DEF u
<1>5. Len(u) = Len(s) - n
  <2>1. Len(u) = IF n + 1 <= Len(s) THEN Len(s) - (n + 1) + 1 ELSE 0
    BY <1>4
  <2>2. CASE n = Len(s)
    <3>1. ~(n + 1 <= Len(s)) /\ Len(s) - n = 0
      BY <1>1, <2>2
    <3> QED BY <2>1, <3>1
  <2>3. CASE n # Len(s)
    <3>0. \A m, k \in Nat : k <= m /\ k # m => k + 1 <= m /\ m - (k + 1) + 1 = m - k
      OBVIOUS
    <3>1. n + 1 <= Len(s) /\ Len(s) - (n + 1) + 1 = Len(s) - n
      BY ONLY <1>1, <2>3, <3>0
    <3> QED BY <2>1, <3>1
  <2> QED BY <2>2, <2>3
<1>6. ASSUME NEW k \in 1 .. Len(s) - n PROVE u[k] = s[n + k] /\ n + k \in DOMAIN s
  <2>1. k \in 1 .. Len(s) - (n + 1) + 1 /\ (n + 1) + k - 1 = n + k /\ n + k \in DOMAIN s
    BY <1>1
  <2> QED BY <1>4, <2>1
<1> QED BY <1>4, <1>5, <1>6 DEF u

\* A sequence with one more element.
LEMMA AppendParts ==
  ASSUME NEW X, NEW s \in Seq(X), NEW e \in X
  PROVE  /\ Append(s, e) \in Seq(X) /\ Append(s, e) # <<>>
         /\ Len(s) \in Nat /\ Len(Append(s, e)) = Len(s) + 1
         /\ DOMAIN s = 1 .. Len(s) /\ DOMAIN Append(s, e) = 1 .. Len(s) + 1
         /\ Append(s, e)[Len(s) + 1] = e
         /\ \A i \in DOMAIN s : Append(s, e)[i] = s[i]
OBVIOUS

\* accept finds a descriptor that is no other client's.
LEMMA FreeDescriptor ==
  ASSUME TypeOK, NEW c \in Client \ reads,
         NEW free, free = (1 .. Cardinality(Client)) \ {fd[d] : d \in reads}
  PROVE  \E n \in free : \A m \in free : n <= m
<1> DEFINE used == {fd[d] : d \in reads}
           f == [d \in reads |-> fd[d]]
<1>1. IsFiniteSet(Client) /\ Cardinality(Client) \in Nat /\ reads \subseteq Client
  BY ClientAssumption, FS_CardinalityType DEF TypeOK
<1>2. IsFiniteSet(reads) /\ Cardinality(reads) < Cardinality(Client) /\ Cardinality(reads) \in Nat
  <2>1. IsFiniteSet(reads) /\ Cardinality(reads) <= Cardinality(Client)
    BY <1>1, FS_Subset
  <2>2. Cardinality(reads) # Cardinality(Client)
    BY <1>1, FS_Subset
  <2>3. Cardinality(reads) \in Nat
    BY <2>1, FS_CardinalityType
  <2> QED BY <1>1, <2>1, <2>2, <2>3
<1>3. IsFiniteSet(used) /\ Cardinality(used) <= Cardinality(reads) /\ Cardinality(used) \in Nat
  <2>1. f \in Surjection(reads, used)
    BY DEF Surjection
  <2> HIDE DEF used, f
  <2>2. IsFiniteSet(used) /\ Cardinality(used) <= Cardinality(reads)
    BY <1>2, <2>1, FS_Surjection
  <2> QED BY <2>2, FS_CardinalityType
<1>4. IsFiniteSet(1 .. Cardinality(Client)) /\ Cardinality(1 .. Cardinality(Client)) = Cardinality(Client)
  <2>1. \A n \in Nat : IsFiniteSet(1 .. n) /\ Cardinality(1 .. n) = n
    <3> TAKE n \in Nat
    <3>1. 1 \in Int /\ n \in Int
      OBVIOUS
    <3>2. IsFiniteSet(1 .. n) /\ Cardinality(1 .. n) = IF 1 > n THEN 0 ELSE n - 1 + 1
      BY <3>1, FS_Interval
    <3> QED BY <3>2
  <2> QED BY <1>1, <2>1
<1>5. ~ (1 .. Cardinality(Client) \subseteq used)
  <2> SUFFICES ASSUME 1 .. Cardinality(Client) \subseteq used PROVE FALSE
    OBVIOUS
  <2> HIDE DEF used
  <2>1. Cardinality(1 .. Cardinality(Client)) <= Cardinality(used)
    BY <1>3, FS_Subset
  <2> QED BY <1>1, <1>2, <1>3, <1>4, <2>1
<1>6. free \subseteq Nat /\ free # {}
  BY <1>5
<1> QED BY <1>6, Least

-----------------------------------------------------------------------------

\* Every line is a client's.
LEMMA EntryFrom ==
  ASSUME Streams
  PROVE  /\ \A d \in Client : \A i \in DOMAIN wire[d] :
              wire[d][i] \in Entry /\ wire[d][i].by \in Client /\ wire[d][i].from \in Client
              /\ wire[d][i].line \in Nat /\ wire[d][i].id \in Nat
         /\ \A i \in DOMAIN buf : buf[i] \in Line /\ buf[i].from \in Client /\ buf[i].line \in Nat
<1>1. ASSUME NEW d \in Client, NEW i \in DOMAIN wire[d] PROVE wire[d][i] \in Entry
  <2>1. wire[d] \in Seq(Entry)
    BY DEF Streams
  <2> QED BY <1>1, <2>1
<1>2. ASSUME NEW i \in DOMAIN buf PROVE buf[i] \in Line
  <2>1. buf \in Seq(Line)
    BY DEF Streams
  <2> QED BY <1>2, <2>1
<1> QED BY <1>1, <1>2 DEF Entry, Line

LEMMA ChatInvInit == Init => ChatInv
<1> SUFFICES ASSUME Init PROVE ChatInv OBVIOUS
<1> USE DEF Init
<1>1. Cardinality(Client) \in Nat
  BY ClientAssumption, FS_CardinalityType
<1>2. TypeOK
  BY <1>1, ClientAssumption DEF TypeOK
<1>3. Streams /\ Joining /\ Failed /\ Repeats /\ Named /\ Again
  BY DEF Streams, Joining, Failed, Repeats, Named, Again
<1>4. Numbered
  BY DEF Numbered, ReadOf
<1>5. Relayed
  <2> SUFFICES ASSUME NEW d \in Client, NEW c \in Client PROVE RelayedTo(d, c)
    BY DEF Relayed
  <2>1. Under(d, c) = {} /\ LinesOf(d, c) = {}
    BY DEF Under, LinesOf
  <2>2. before[d][c] = 0 /\ ReadOf(c) = 0 /\ 0 \in 0 .. 0 /\ 1 .. 0 = {}
    BY DEF ReadOf
  <2> QED BY <2>1, <2>2 DEF RelayedTo
<1> QED BY <1>2, <1>3, <1>4, <1>5 DEF ChatInv

-----------------------------------------------------------------------------
(* A relay.                                                                *)

\* The invariant about the relayed lines depends on these variables only.
LEMMA Unrelayed ==
  ASSUME ChatInv, UNCHANGED <<wire, before, reset>>, \A c \in Client : ReadOf(c)' = ReadOf(c),
         \A d \in Client : d \in reads' /\ conn'[d] \in {"open", "fin"}
                             => d \in reads /\ conn[d] \in {"open", "fin"}
  PROVE  Repeats' /\ Relayed'
<1>1. Repeats'
  BY DEF ChatInv, Repeats
<1>2. ASSUME NEW d \in Client, NEW c \in Client \ (reset \cup {d}) PROVE RelayedTo(d, c)'
  <2>1. RelayedTo(d, c) /\ Under(d, c)' = Under(d, c) /\ LinesOf(d, c)' = LinesOf(d, c)
    BY DEF ChatInv, Relayed, Under, LinesOf
  <2>2. ReadOf(c)' = ReadOf(c)
    OBVIOUS
  <2> QED BY <2>1, <2>2 DEF RelayedTo
<1> QED BY <1>1, <1>2 DEF Relayed

\* Whom a relay for c reaches.
Hears(d, c) == d \in reads \ {c} /\ conn[d] \in {"open", "fin"}

\* What a relay does to the clients.
LEMMA RelayWrites ==
  ASSUME ChatInv, NEW c \in reads, NEW own \in {conn[c], "done"}, NEW lines \in Seq(Line),
         conn[c] # "broken" => own = conn[c],
         Relay(c, own, lines)
  PROVE  \E b \in Seq(Entry) :
           /\ Len(b) = Len(lines)
           /\ \A k \in DOMAIN lines :
                b[k] = [id |-> fd[c], by |-> c, from |-> lines[k].from, line |-> lines[k].line]
           /\ wire' \in [Client -> Seq(Entry)]
           /\ \A d \in Client : wire'[d] = IF Hears(d, c) THEN wire[d] \o b ELSE wire[d]
           /\ conn' \in [Client -> {"open", "fin", "broken", "done"}] /\ conn'[c] = own
           /\ \A d \in Client : /\ conn'[d] = "open" <=> conn[d] = "open"
                                /\ conn[d] = "done" => conn'[d] = "done"
                                /\ conn'[d] = "fin" => conn[d] = "fin"
           /\ srv' \in {"up", "dead"}
<1> DEFINE b == [k \in DOMAIN lines |-> [id |-> fd[c], by |-> c, from |-> lines[k].from, line |-> lines[k].line]]
<1>1. c \in Client /\ reads \subseteq Client /\ wire \in [Client -> Seq(Entry)]
      /\ conn \in [Client -> {"open", "fin", "broken", "done"}]
  BY DEF ChatInv, TypeOK, Streams
<1>2. b \in Seq(Entry) /\ Len(b) = Len(lines)
  <2>1. Len(lines) \in Nat /\ DOMAIN lines = 1 .. Len(lines)
        /\ \A k \in DOMAIN lines : lines[k] \in Line
    OBVIOUS
  <2>2. \A k \in DOMAIN lines : [id |-> fd[c], by |-> c, from |-> lines[k].from, line |-> lines[k].line] \in Entry
    <3>1. Cardinality(Client) \in Nat
      BY ClientAssumption, FS_CardinalityType
    <3>2. fd[c] \in Nat
      BY <1>1, <3>1 DEF ChatInv, TypeOK
    <3> QED BY <1>1, <2>1, <3>2 DEF Line, Entry
  <2> QED BY <2>1, <2>2
<1> HIDE DEF b
<1>3. \A d \in Client : wire[d] \o b \in Seq(Entry)
  BY <1>1, <1>2
<1> DEFINE hurt == {d \in reads \ {c} : conn[d] \in {"broken", "done"}}
<1>4. /\ wire' = [d \in Client |-> IF d \notin (reads \ {c}) \ hurt THEN wire[d] ELSE wire[d] \o b]
      /\ conn' = [d \in Client |-> IF d = c THEN own ELSE IF d \notin reads \ {c} THEN conn[d]
                                   ELSE IF conn[d] = "fin" THEN "broken"
                                   ELSE IF conn[d] = "broken" THEN "done" ELSE conn[d]]
      /\ srv' \in {"up", "dead"}
  BY DEF Relay, Others, b
<1>5. wire' \in [Client -> Seq(Entry)]
  BY <1>1, <1>3, <1>4
<1>6. conn' \in [Client -> {"open", "fin", "broken", "done"}]
  BY <1>1, <1>4
<1>7. \A d \in Client : wire'[d] = IF Hears(d, c) THEN wire[d] \o b ELSE wire[d]
  BY <1>1, <1>4 DEF Hears
<1>9. /\ conn'[c] = own
      /\ \A d \in Client : /\ conn'[d] = "open" <=> conn[d] = "open"
                           /\ conn[d] = "done" => conn'[d] = "done"
                           /\ conn'[d] = "fin" => conn[d] = "fin"
  BY <1>1, <1>4
<1>10. \A k \in DOMAIN lines : b[k] = [id |-> fd[c], by |-> c, from |-> lines[k].from, line |-> lines[k].line]
  BY DEF b
<1> QED BY <1>2, <1>4, <1>5, <1>6, <1>7, <1>9, <1>10

\* What the invariant says of the names depends on these variables only.
LEMMA Unnamed ==
  ASSUME ChatInv, wire' = wire, \A c \in Client : fd[c] # 0 => fd'[c] = fd[c],
         \A c \in reads' : c \in reads \/ fd[c] = 0
  PROVE  Named'
<1>1. \A d \in Client : \A i \in DOMAIN wire[d] :
        wire[d][i].by \in Client /\ wire[d][i].id = fd[wire[d][i].by] /\ wire[d][i].id # 0 /\ wire[d][i].by # d
  BY EntryFrom DEF ChatInv, Named
<1>2. \A d \in Client : \A i \in DOMAIN wire[d] : wire[d][i].by \notin reads => wire[d][i].by \notin reads'
  BY <1>1
<1>3. \A d \in Client : \A i \in DOMAIN wire[d] : wire[d][i].id = fd'[wire[d][i].by]
  BY <1>1
<1>4. Named
  BY DEF ChatInv
<1> QED BY <1>1, <1>2, <1>3, <1>4 DEF Named

\* A relay writes under the name of a client that is in the set.
LEMMA RelayNamed ==
  ASSUME ChatInv, NEW c \in reads, NEW b \in Seq(Entry),
         \A k \in DOMAIN b : b[k].id = fd[c] /\ b[k].by = c,
         \A d \in Client : wire'[d] = IF Hears(d, c) THEN wire[d] \o b ELSE wire[d],
         UNCHANGED <<fd, reads>>
  PROVE  Named'
<1>0. c \in Client /\ reads \subseteq Client /\ fd[c] # 0 /\ (\A a \in reads : fd[a] = fd[c] => a = c)
      /\ \A d \in Client : wire[d] \in Seq(Entry)
  <2>1. /\ c \in Client /\ reads \subseteq Client /\ fd[c] > 0 /\ \A a \in reads : fd[a] = fd[c] => a = c
    BY DEF ChatInv, TypeOK
  <2>2. wire \in [Client -> Seq(Entry)]
    BY DEF ChatInv, Streams
  <2> QED BY <2>1, <2>2
<1> SUFFICES ASSUME NEW d \in Client
             PROVE  /\ \A i \in DOMAIN wire'[d] :
                         LET e == wire'[d][i] IN e.id = fd[e.by] /\ e.id # 0 /\ e.by # d
                    /\ \A i, j \in DOMAIN wire'[d] :
                         i < j /\ wire'[d][i].id = wire'[d][j].id /\ wire'[d][i].by # wire'[d][j].by =>
                           /\ wire'[d][i].by \notin reads
                           /\ \A k \in DOMAIN wire'[d] : j < k => wire'[d][k].by # wire'[d][i].by
  BY DEF Named
<1> DEFINE s == wire[d]
           t == wire'[d]
<1>1. /\ \A i \in DOMAIN s : s[i].id = fd[s[i].by] /\ s[i].id # 0 /\ s[i].by # d
      /\ \A i, j \in DOMAIN s : i < j /\ s[i].id = s[j].id /\ s[i].by # s[j].by =>
           /\ s[i].by \notin reads
           /\ \A k \in DOMAIN s : j < k => s[k].by # s[i].by
  BY DEF ChatInv, Named
<1>2. CASE t = s
  BY <1>1, <1>2
<1>3. CASE t = s \o b /\ c # d
  <2>1. Behind(s, b, t)
    BY <1>0, <1>3, Concat
  <2> HIDE DEF s, t
  <2>2. /\ Len(s) \in Nat /\ DOMAIN s = 1 .. Len(s) /\ DOMAIN t = 1 .. Len(s) + Len(b) /\ Len(b) \in Nat
        /\ DOMAIN b = 1 .. Len(b)
        /\ \A i \in DOMAIN s : t[i] = s[i]
        /\ \A k \in DOMAIN b : t[Len(s) + k] = b[k]
    BY <2>1 DEF Behind
  <2>3. \A i \in DOMAIN t : \/ (i \in DOMAIN s /\ t[i] = s[i])
                           \/ (i \notin DOMAIN s /\ t[i].id = fd[c] /\ t[i].by = c)
    <3> TAKE i \in DOMAIN t
    <3>1. CASE i \notin DOMAIN s
      <4>1. i - Len(s) \in DOMAIN b /\ i = Len(s) + (i - Len(s))
        BY <2>2, <3>1
      <4>2. t[i] = b[i - Len(s)]
        BY <2>2, <4>1
      <4> QED BY <3>1, <4>1, <4>2
    <3> QED BY <2>2, <3>1
  <2>4. \A i, j \in DOMAIN t : i < j /\ j \in DOMAIN s => i \in DOMAIN s
    BY <2>2
  <2>5. \A i \in DOMAIN t : t[i].id = fd[t[i].by] /\ t[i].id # 0 /\ t[i].by # d
    BY <1>0, <1>1, <1>3, <2>3
  <2>6. ASSUME NEW i \in DOMAIN t, NEW j \in DOMAIN t, i < j, t[i].id = t[j].id, t[i].by # t[j].by
        PROVE  t[i].by \notin reads /\ \A k \in DOMAIN t : j < k => t[k].by # t[i].by
    <3>1. CASE j \in DOMAIN s
      <4>1. i \in DOMAIN s /\ t[i] = s[i] /\ t[j] = s[j]
        BY <2>2, <2>4, <2>6, <3>1
      <4>2. s[i].by \notin reads /\ \A k \in DOMAIN s : j < k => s[k].by # s[i].by
        BY <1>1, <2>6, <3>1, <4>1
      <4> QED BY <2>3, <4>1, <4>2
    <3>2. CASE j \notin DOMAIN s
      <4>1. t[j].id = fd[c] /\ t[j].by = c /\ \A k \in DOMAIN t : j < k => t[k].by = c
        BY <2>3, <2>4, <3>2
      <4>2. t[i].by \notin reads
        BY <1>0, <2>5, <2>6, <4>1
      <4> QED BY <2>6, <4>1, <4>2
    <3> QED BY <3>1, <3>2
  <2> QED BY <2>5, <2>6 DEF t
<1> QED BY <1>2, <1>3 DEF Hears

-----------------------------------------------------------------------------

LEMMA ChatInvConnect == ASSUME ChatInv, NEW c \in Client, Connect(c) PROVE ChatInv'
<1> USE DEF ChatInv, Connect
<1>0. queue \in Seq(Client) /\ queue' = Append(queue, c)
  BY DEF Streams
<1>1. /\ queue' \in Seq(Client) /\ queue' # <<>> /\ Len(queue) \in Nat
      /\ DOMAIN queue' = 1 .. Len(queue) + 1 /\ DOMAIN queue = 1 .. Len(queue)
      /\ queue'[Len(queue) + 1] = c /\ \A i \in DOMAIN queue : queue'[i] = queue[i]
  BY <1>0, AppendParts
<1>2. TypeOK'
  <2>1. st[c] = "new" /\ st' \in [Client -> {"new", "open", "left"}]
    BY DEF TypeOK
  <2>2. \A d \in Client : st'[d] = "left" <=> st[d] = "left"
    BY DEF TypeOK
  <2> QED BY <1>1, <2>1, <2>2 DEF TypeOK
<1>3. Streams'
  BY <1>1 DEF Streams
<1>4. Joining'
  BY <1>1 DEF Joining, TypeOK
<1>5. Numbered' /\ Failed'
  BY DEF Numbered, Failed, ReadOf
<1>6. Repeats' /\ Relayed'
  BY Unrelayed DEF ReadOf
<1>7. Named' /\ Again'
  <2>1. Named'
    BY Unnamed
  <2> QED BY <2>1 DEF Again
<1> QED BY <1>2, <1>3, <1>4, <1>5, <1>6, <1>7

LEMMA ChatInvTypeLine == ASSUME ChatInv, NEW c \in Client, TypeLine(c) PROVE ChatInv'
<1> USE DEF ChatInv, TypeLine
<1>0. up[c] \in Seq(Line) /\ typed[c] \in Nat /\ Len(up[c]) \in Nat /\ Len(up[c]) <= typed[c]
      /\ MaxLines[c] \in Nat /\ up \in [Client -> Seq(Line)] /\ typed \in [Client -> Nat]
  <2>1. up \in [Client -> Seq(Line)] /\ typed \in [Client -> Nat] /\ MaxLines[c] \in Nat
        /\ Len(up[c]) <= typed[c]
    BY ClientAssumption DEF Streams, TypeOK
  <2> QED BY <2>1
<1> DEFINE new(n) == [k \in 1 .. n |-> [from |-> c, line |-> typed[c] + k]]
<1>1. PICK n \in 1 .. 2 : /\ typed[c] + n <= MaxLines[c]
                           /\ typed' = [typed EXCEPT ![c] = typed[c] + n]
                           /\ up' = [up EXCEPT ![c] = up[c] \o new(n)]
  OBVIOUS
<1> DEFINE u == up[c] \o new(n)
<1>2. /\ u \in Seq(Line) /\ Len(u) = Len(up[c]) + n /\ DOMAIN u = 1 .. Len(up[c]) + n
      /\ DOMAIN up[c] = 1 .. Len(up[c])
      /\ \A k \in 1 .. n : u[Len(up[c]) + k] = [from |-> c, line |-> typed[c] + k]
      /\ \A i \in DOMAIN up[c] : u[i] = up[c][i]
  <2>1. new(n) \in Seq(Line) /\ DOMAIN new(n) = 1 .. n /\ Len(new(n)) = n
        /\ \A k \in 1 .. n : new(n)[k] = [from |-> c, line |-> typed[c] + k]
    <3>1. \A k \in 1 .. n : [from |-> c, line |-> typed[c] + k] \in Line
      BY <1>0 DEF Line
    <3> QED BY <3>1
  <2> HIDE DEF new
  <2>2. Behind(up[c], new(n), u) /\ u \in Seq(Line) /\ Len(u) = Len(up[c]) + n
    BY <1>0, <2>1, Concat
  <2> HIDE DEF u
  <2> QED BY <2>1, <2>2 DEF Behind
<1>3. up'[c] = u /\ typed'[c] = typed[c] + n
      /\ \A d \in Client \ {c} : up'[d] = up[d] /\ typed'[d] = typed[d]
  BY <1>0, <1>1
<1> HIDE DEF u, new
<1>4. up' \in [Client -> Seq(Line)] /\ typed' \in [Client -> Nat]
  <2>1. up' = [up EXCEPT ![c] = u]
    BY <1>1 DEF u
  <2>2. typed[c] + n \in Nat
    BY <1>0
  <2> QED BY <1>0, <1>1, <1>2, <2>1, <2>2
<1>5. \A d \in Client : ReadOf(d)' = ReadOf(d)
  BY <1>0, <1>1, <1>2, <1>3 DEF ReadOf
<1>6. TypeOK'
  <2>1. typed'[c] <= MaxLines[c] /\ Len(up'[c]) <= typed'[c]
    BY <1>0, <1>1, <1>2, <1>3
  <2> QED BY <1>3, <1>4, <2>1 DEF TypeOK, serverVars
<1>7. Streams' /\ Joining'
  BY <1>4 DEF Streams, Joining, serverVars
<1>8. Numbered'
  <2>1. \A d \in Client : \A i \in DOMAIN up'[d] : up'[d][i] = [from |-> d, line |-> ReadOf(d)' + i]
    <3> SUFFICES ASSUME NEW d \in Client, NEW i \in DOMAIN up'[d]
                 PROVE  up'[d][i] = [from |-> d, line |-> ReadOf(d)' + i]
      OBVIOUS
    <3>1. CASE d # c
      BY <1>3, <1>5, <3>1 DEF Numbered
    <3>2. CASE d = c /\ i \in DOMAIN up[c]
      BY <1>2, <1>3, <1>5, <3>2 DEF Numbered
    <3>3. CASE d = c /\ i \notin DOMAIN up[c]
      <4>1. i - Len(up[c]) \in 1 .. n /\ i = Len(up[c]) + (i - Len(up[c]))
        BY <1>0, <1>2, <1>3, <3>3
      <4>2. up'[c][i] = [from |-> c, line |-> typed[c] + (i - Len(up[c]))]
        BY <1>2, <1>3, <4>1
      <4>3. typed[c] + (i - Len(up[c])) = ReadOf(c)' + i
        BY <1>0, <1>5, <4>1 DEF ReadOf
      <4> QED BY <3>3, <4>2, <4>3
    <3> QED BY <1>2, <1>3, <3>1, <3>2, <3>3
  <2>2. \A d \in Client : \A i \in DOMAIN wire[d] : wire[d][i].from \in Client
    BY EntryFrom
  <2>3. \A i \in DOMAIN buf : buf[i].from \in Client
    BY EntryFrom
  <2> QED BY <1>5, <2>1, <2>2, <2>3 DEF Numbered, serverVars
<1>9. Failed'
  BY <1>3 DEF Failed, TypeOK, serverVars
<1>10. Repeats' /\ Relayed'
  BY <1>5, Unrelayed DEF serverVars
<1>11. Named' /\ Again'
  <2>1. Named'
    BY Unnamed DEF serverVars
  <2> QED BY <2>1 DEF Again, serverVars
<1> QED BY <1>6, <1>7, <1>8, <1>9, <1>10, <1>11

LEMMA ChatInvShowFails == ASSUME ChatInv, NEW c \in Client, ShowFails(c) PROVE ChatInv'
<1> USE DEF ChatInv, ShowFails, clientVars, serverVars
<1>1. TypeOK' /\ Streams' /\ Joining' /\ Failed'
  BY DEF TypeOK, Streams, Joining, Failed
<1>2. Numbered'
  BY DEF Numbered, ReadOf
<1>3. Repeats' /\ Relayed'
  BY Unrelayed DEF ReadOf
<1>4. Named'
  BY Unnamed
<1>5. Again'
  <2>1. PICK k \in 1 .. Len(wire[c]) : again' = [again EXCEPT ![c] = SubSeq(wire[c], k, Len(wire[c]))]
    OBVIOUS
  <2> QED BY <2>1 DEF Again
<1> QED BY <1>1, <1>2, <1>3, <1>4, <1>5

LEMMA ChatInvQuit == ASSUME ChatInv, NEW c \in Client, Quit(c) PROVE ChatInv'
<1> USE DEF ChatInv, Quit, serverVars
<1>1. PICK how \in {"fin", "broken"} : conn' = [conn EXCEPT ![c] = how]
  OBVIOUS
<1>2. conn[c] = "open"
  BY DEF TypeOK
<1>3. TypeOK'
  BY <1>1 DEF TypeOK
<1>4. Streams' /\ Joining'
  <2>1. \A d \in Client : st'[d] = "new" => st[d] = "new"
    BY DEF TypeOK
  <2>2. \A d \in Client : st[d] # "new" => st'[d] # "new"
    BY DEF TypeOK
  <2>3. \A i \in DOMAIN queue : queue[i] \in Client
    <3>1. queue \in Seq(Client)
      BY DEF Streams
    <3> QED BY <3>1
  <2> QED BY <2>1, <2>2, <2>3 DEF Streams, Joining
<1>5. Numbered' /\ Failed'
  BY <1>1, <1>2 DEF Numbered, Failed, ReadOf, TypeOK
<1>6. Repeats' /\ Relayed'
  <2>1. \A d \in Client : conn'[d] \in {"open", "fin"} => conn[d] \in {"open", "fin"}
    BY <1>1, <1>2 DEF TypeOK
  <2> QED BY <2>1, Unrelayed DEF ReadOf
<1>7. Named' /\ Again'
  <2>1. Named'
    BY Unnamed
  <2> QED BY <2>1 DEF Again
<1> QED BY <1>3, <1>4, <1>5, <1>6, <1>7

LEMMA ChatInvSelect == ASSUME ChatInv, Select PROVE ChatInv'
<1> USE DEF ChatInv, Select, clientVars
<1>1. TypeOK'
  <2>1. ready' \subseteq reads \cup {Listener} /\ (Listener \in ready' => queue # <<>>)
    <3>1. CASE queue = <<>>
      BY <3>1, ClientAssumption DEF TypeOK
    <3>2. CASE queue # <<>>
      BY <3>2
    <3> QED BY <3>1, <3>2
  <2> QED BY <2>1 DEF TypeOK
<1>2. Streams' /\ Joining'
  BY DEF Streams, Joining
<1>3. Numbered' /\ Failed'
  BY DEF Numbered, Failed, ReadOf
<1>4. Repeats' /\ Relayed'
  BY Unrelayed DEF ReadOf
<1>5. Named' /\ Again'
  <2>1. Named'
    BY Unnamed
  <2> QED BY <2>1 DEF Again
<1> QED BY <1>1, <1>2, <1>3, <1>4, <1>5

LEMMA ChatInvAccept == ASSUME ChatInv, Accept PROVE ChatInv'
<1> USE DEF ChatInv, clientVars
<1> DEFINE c == Head(queue)
           free == (1 .. Cardinality(Client)) \ {fd[d] : d \in reads}
           low == CHOOSE n \in free : \A m \in free : n <= m
<1>1. /\ Listener \in ready /\ ready' = ready \ {Listener}
      /\ queue' = Tail(queue) /\ reads' = reads \cup {c}
      /\ fd' = [fd EXCEPT ![c] = low]
      /\ before' = [before EXCEPT ![c] = [d \in Client |-> ReadOf(d)]]
      /\ UNCHANGED <<st, typed, again, conn, up, wire, buf, srv, reset>>
  BY DEF Accept, Turn
<1>2. queue \in Seq(Client) /\ queue # <<>>
  BY <1>1 DEF TypeOK, Streams
<1>3. /\ c \in Client /\ c = queue[1] /\ 1 \in DOMAIN queue
      /\ queue' \in Seq(Client) /\ Len(queue') = Len(queue) - 1 /\ Len(queue) \in Nat \ {0}
      /\ DOMAIN queue = 1 .. Len(queue) /\ DOMAIN queue' = 1 .. Len(queue) - 1
      /\ \A i \in DOMAIN queue' : queue'[i] = queue[i + 1]
  BY <1>1, <1>2
<1> HIDE DEF c
<1>4. /\ fd[c] = 0 /\ st[c] # "new" /\ c \notin reads /\ wire[c] = <<>>
      /\ \A i \in DOMAIN queue' : queue'[i] # c
  <2>1. fd[c] = 0 /\ st[c] # "new" /\ wire[c] = <<>>
    BY <1>3 DEF Joining
  <2>2. c \notin reads
    BY <2>1 DEF TypeOK
  <2>3. ASSUME NEW i \in DOMAIN queue' PROVE queue'[i] # c
    <3>1. i + 1 \in DOMAIN queue /\ i + 1 # 1 /\ queue'[i] = queue[i + 1]
      BY <1>3, <2>3
    <3> QED BY <1>3, <3>1 DEF Joining
  <2> QED BY <2>1, <2>2, <2>3
<1>5. low \in free
  <2>1. \E n \in free : \A m \in free : n <= m
    BY <1>3, <1>4, FreeDescriptor
  <2> HIDE DEF free
  <2> QED BY <2>1
<1>6. low \in 1 .. Cardinality(Client) /\ low > 0 /\ \A d \in reads : fd[d] # low
  BY <1>5
<1> HIDE DEF low, free
<1>7. /\ fd' \in [Client -> 0 .. Cardinality(Client)] /\ fd'[c] = low
      /\ \A d \in Client \ {c} : fd'[d] = fd[d]
  BY <1>1, <1>3, <1>6 DEF TypeOK
<1>8. TypeOK'
  <2>1. reads \subseteq Client /\ reads' \subseteq Client /\ ready' \subseteq reads' \cup {Listener}
    BY <1>1, <1>3 DEF TypeOK
  <2>2. \A a, d \in reads' : fd'[a] > 0 /\ (fd'[a] = fd'[d] => a = d)
    <3> SUFFICES ASSUME NEW a \in reads', NEW d \in reads'
                 PROVE  fd'[a] > 0 /\ (fd'[a] = fd'[d] => a = d)
      OBVIOUS
    <3>1. CASE a = c
      BY <1>1, <1>6, <1>7, <2>1, <3>1
    <3>2. CASE d = c /\ a # c
      <4>1. a \in reads /\ a \in Client \ {c} /\ fd'[a] = fd[a] /\ fd[a] > 0 /\ fd[a] # low
        BY <1>1, <1>6, <1>7, <2>1, <3>2 DEF TypeOK
      <4> QED BY <1>7, <3>2, <4>1
    <3>3. CASE a # c /\ d # c
      <4>1. a \in reads /\ d \in reads /\ fd'[a] = fd[a] /\ fd'[d] = fd[d]
        BY <1>1, <1>7, <2>1, <3>3
      <4> QED BY <4>1 DEF TypeOK
    <3> QED BY <3>1, <3>2, <3>3
  <2>3. Listener \notin ready'
    BY <1>1
  <2> QED BY <1>1, <1>7, <2>1, <2>2, <2>3 DEF TypeOK
<1>9. \A d \in Client : ReadOf(d) \in Nat
  <2> TAKE d \in Client
  <2>1. typed[d] \in Nat /\ Len(up[d]) <= typed[d] /\ up[d] \in Seq(Line)
    BY DEF TypeOK, Streams
  <2>2. Len(up[d]) \in Nat
    BY <2>1
  <2> QED BY <2>1, <2>2 DEF ReadOf
<1>10. /\ before' \in [Client -> [Client -> Nat]]
       /\ \A d \in Client : before'[c][d] = ReadOf(d)
       /\ \A d \in Client \ {c} : before'[d] = before[d]
  <2>1. [d \in Client |-> ReadOf(d)] \in [Client -> Nat]
    BY <1>9
  <2> QED BY <1>1, <1>3, <2>1 DEF Streams
<1>11. Streams'
  BY <1>1, <1>3, <1>10 DEF Streams
<1>12. Joining'
  <2>1. \A i, j \in DOMAIN queue' : queue'[i] = queue'[j] => i = j
    BY <1>3 DEF Joining
  <2>2. \A i \in DOMAIN queue' : fd'[queue'[i]] = 0 /\ st'[queue'[i]] # "new"
    <3> TAKE i \in DOMAIN queue'
    <3>1. queue'[i] \in Client \ {c} /\ i + 1 \in DOMAIN queue /\ queue'[i] = queue[i + 1]
      BY <1>3, <1>4
    <3> QED BY <1>1, <1>7, <3>1 DEF Joining
  <2>3. \A d \in Client : (st'[d] = "new" => fd'[d] = 0) /\ (fd'[d] = 0 => wire'[d] = <<>>)
    BY <1>1, <1>4, <1>6, <1>7 DEF Joining
  <2> QED BY <2>1, <2>2, <2>3 DEF Joining
<1>13. Numbered'
  <2>1. \A d \in Client : ReadOf(d)' = ReadOf(d)
    BY <1>1 DEF ReadOf
  <2>2. \A a, d \in Client : before'[d][a] <= ReadOf(a)'
    <3> TAKE a, d \in Client
    <3>1. CASE d = c
      BY <1>9, <1>10, <2>1, <3>1
    <3>2. CASE d # c
      BY <1>10, <2>1, <3>2 DEF Numbered
    <3> QED BY <3>1, <3>2
  <2> QED BY <1>1, <2>1, <2>2, EntryFrom DEF Numbered
<1>14. Failed' /\ Repeats'
  BY <1>1 DEF Failed, Repeats
<1>15. Relayed'
  <2> SUFFICES ASSUME NEW d \in Client, NEW a \in Client \ (reset \cup {d}) PROVE RelayedTo(d, a)'
    BY <1>1 DEF Relayed
  <2>1. ReadOf(a)' = ReadOf(a) /\ Under(d, a)' = Under(d, a) /\ LinesOf(d, a)' = LinesOf(d, a)
    BY <1>1 DEF ReadOf, Under, LinesOf
  <2>2. CASE d = c
    <3>1. Under(d, a) = {} /\ LinesOf(d, a) = {}
      BY <1>4, <2>2 DEF Under, LinesOf
    <3>2. before'[d][a] = ReadOf(a) /\ ReadOf(a) \in Nat
      BY <1>9, <1>10, <2>2
    <3>3. ReadOf(a) + 1 .. ReadOf(a) = {} /\ ReadOf(a) \in ReadOf(a) .. ReadOf(a)
      BY <3>2
    <3> QED BY <2>1, <3>1, <3>2, <3>3 DEF RelayedTo
  <2>3. CASE d # c
    <3>1. RelayedTo(d, a) /\ before'[d] = before[d]
      BY <1>10, <2>3 DEF Relayed
    <3>2. d \in reads' => d \in reads
      BY <1>1, <2>3
    <3> QED BY <1>1, <2>1, <3>1, <3>2 DEF RelayedTo
  <2> QED BY <2>2, <2>3
<1>16. Named' /\ Again'
  <2>1. Named'
    BY <1>1, <1>4, <1>7, Unnamed
  <2> QED BY <1>1, <2>1 DEF Again
<1> QED BY <1>8, <1>11, <1>12, <1>13, <1>14, <1>15, <1>16

LEMMA ChatInvReadEof == ASSUME ChatInv, NEW c \in Client, ReadEof(c) PROVE ChatInv'
<1> USE DEF ChatInv, clientVars, ReadEof, Turn
<1>1. TypeOK'
  BY ClientAssumption DEF TypeOK
<1>2. Streams' /\ Joining'
  BY DEF Streams, Joining
<1>3. Numbered' /\ Failed'
  BY DEF Numbered, Failed, ReadOf
<1>4. Repeats' /\ Relayed'
  BY Unrelayed DEF ReadOf
<1>5. Named' /\ Again'
  <2>1. Named'
    BY Unnamed
  <2> QED BY <2>1 DEF Again
<1> QED BY <1>1, <1>2, <1>3, <1>4, <1>5

\* The invariant about the relayed lines when c relays what it has sent.
LEMMA ReadRelayed ==
  ASSUME ChatInv, NEW c \in reads, c \notin reset,
         NEW n \in Nat \ {0}, NEW b \in Seq(Entry), Len(b) = n,
         ReadOf(c) \in Nat, ReadOf(c)' = ReadOf(c) + n,
         \A a \in Client \ {c} : ReadOf(a)' = ReadOf(a),
         \A k \in DOMAIN b : b[k] = [id |-> fd[c], by |-> c, from |-> c, line |-> ReadOf(c) + k],
         \A d \in Client : wire'[d] = IF Hears(d, c) THEN wire[d] \o b ELSE wire[d],
         \A d \in Client : conn'[d] \in {"open", "fin"} => conn[d] \in {"open", "fin"},
         UNCHANGED <<before, reset, reads>>
  PROVE  Repeats' /\ Relayed'
<1> USE DEF ChatInv
<1>0. Streams /\ (\A d \in Client : wire[d] \in Seq(Entry)) /\ DOMAIN b = 1 .. n /\ c \in Client
  <2>1. Streams /\ c \in Client
    BY DEF TypeOK
  <2>2. \A d \in Client : wire[d] \in Seq(Entry)
    BY DEF Streams
  <2>3. DOMAIN b = 1 .. n
    OBVIOUS
  <2> QED BY <2>1, <2>2, <2>3
<1>1. \A d \in Client : \A i \in DOMAIN wire[d] :
        /\ wire[d][i].by \in Client /\ wire[d][i].from \in Client /\ wire[d][i].line \in Nat
        /\ wire[d][i].line <= ReadOf(wire[d][i].from)
  BY EntryFrom DEF Numbered
\* A line of c in wire[d] has been read before; those of b have not.
<1>2. \A d \in Client : \A i \in DOMAIN wire[d], k \in DOMAIN b : wire[d][i] # b[k]
  BY <1>0, <1>1
<1>3. \A j, k \in DOMAIN b : b[j] = b[k] => j = k
  BY <1>0
<1>4. Repeats'
  <2> SUFFICES ASSUME NEW d \in Client
               PROVE  /\ \A i \in DOMAIN wire'[d] : wire'[d][i].by # wire'[d][i].from => wire'[d][i].by \in reset
                      /\ \A i, j \in DOMAIN wire'[d] :
                           i < j /\ wire'[d][i] = wire'[d][j] =>
                             /\ wire'[d][i].by = wire'[d][i].from /\ wire'[d][i].by \in reset
                             /\ \A k \in DOMAIN wire'[d] : j < k => wire'[d][k] # wire'[d][i]
    BY DEF Repeats
  <2>1. CASE wire'[d] = wire[d]
    BY <2>1 DEF Repeats
  <2>2. CASE wire'[d] = wire[d] \o b
    <3> DEFINE s == wire[d]
               t == wire'[d]
    <3>1. /\ Len(s) \in Nat /\ DOMAIN s = 1 .. Len(s) /\ DOMAIN t = 1 .. Len(s) + n
          /\ \A i \in DOMAIN s : t[i] = s[i]
          /\ \A k \in DOMAIN b : t[Len(s) + k] = b[k]
      <4>1. wire[d] \in Seq(Entry) /\ wire'[d] = wire[d] \o b
        BY <1>0, <2>2
      <4>2. Behind(wire[d], b, wire'[d])
        BY <4>1, Concat
      <4> QED BY <4>2 DEF Behind
    <3>2. \A i \in DOMAIN t : i \in DOMAIN s \/ \E k \in DOMAIN b : i = Len(s) + k
      <4> HIDE DEF s, t
      <4> TAKE i \in DOMAIN t
      <4>1. i > Len(s) => i - Len(s) \in 1 .. n /\ i = Len(s) + (i - Len(s))
        BY ONLY <3>1, i \in DOMAIN t, n \in Nat
      <4> QED BY <1>0, <3>1, <4>1
    <3>3. /\ \A i \in DOMAIN s : s[i].by # s[i].from => s[i].by \in reset
          /\ \A i, j \in DOMAIN s :
               i < j /\ s[i] = s[j] =>
                 /\ s[i].by = s[i].from /\ s[i].by \in reset
                 /\ \A k \in DOMAIN s : j < k => s[k] # s[i]
      BY DEF Repeats
    <3>4. /\ \A i \in DOMAIN s, k \in DOMAIN b : s[i] # b[k]
          /\ \A k \in DOMAIN b : b[k].by = b[k].from
      BY <1>2
    <3> HIDE DEF s, t
    <3>5. \A i \in DOMAIN t : t[i].by # t[i].from => t[i].by \in reset
      BY <3>1, <3>2, <3>3, <3>4
    <3>6. \A i, j \in DOMAIN t : i < j /\ t[i] = t[j] => i \in DOMAIN s /\ j \in DOMAIN s
      <4> SUFFICES ASSUME NEW i \in DOMAIN t, NEW j \in DOMAIN t, i < j, t[i] = t[j]
                   PROVE  i \in DOMAIN s /\ j \in DOMAIN s
        OBVIOUS
      <4>1. CASE i \in DOMAIN s
        BY <3>1, <3>2, <3>4, <4>1
      <4>2. ASSUME NEW k \in DOMAIN b, i = Len(s) + k PROVE FALSE
        <5>1. PICK m \in DOMAIN b : j = Len(s) + m
          <6>1. j > Len(s)
            BY <1>0, <3>1, <4>2
          <6> QED BY <3>1, <3>2, <6>1
        <5>2. k = m
          BY <1>3, <3>1, <4>2, <5>1
        <5> QED BY <4>2, <5>1, <5>2
      <4> QED BY <3>2, <4>1, <4>2
    <3>7. \A i, j \in DOMAIN t : i < j /\ t[i] = t[j] =>
            /\ t[i].by = t[i].from /\ t[i].by \in reset
            /\ \A k \in DOMAIN t : j < k => t[k] # t[i]
      <4> SUFFICES ASSUME NEW i \in DOMAIN t, NEW j \in DOMAIN t, i < j, t[i] = t[j]
                   PROVE  /\ t[i].by = t[i].from /\ t[i].by \in reset
                          /\ \A k \in DOMAIN t : j < k => t[k] # t[i]
        OBVIOUS
      <4>1. i \in DOMAIN s /\ j \in DOMAIN s /\ t[i] = s[i] /\ s[i] = s[j]
        BY <3>1, <3>6
      <4> QED BY <3>1, <3>2, <3>3, <3>4, <4>1
    <3> QED BY <3>5, <3>7 DEF t
  <2> QED BY <2>1, <2>2
<1>5. Relayed'
  <2> SUFFICES ASSUME NEW d \in Client, NEW a \in Client \ (reset \cup {d}) PROVE RelayedTo(d, a)'
    BY DEF Relayed
  <2>0. RelayedTo(d, a)
    BY DEF Relayed
  <2>1. CASE ~Hears(d, c)
    <3>1. wire'[d] = wire[d] /\ Under(d, a)' = Under(d, a) /\ LinesOf(d, a)' = LinesOf(d, a)
      BY <2>1 DEF Under, LinesOf
    <3>2. before[d][a] \in Nat
      BY DEF Streams
    <3>3. CASE a # c
      BY <2>0, <3>1, <3>3 DEF RelayedTo
    <3>4. CASE a = c
      <4>1. ~(d \in reads' /\ conn'[d] \in {"open", "fin"})
        BY <2>1, <3>4 DEF Hears
      <4>2. before[d][c] .. ReadOf(c) \subseteq before[d][c] .. ReadOf(c)'
        BY <3>2, <3>4
      <4> QED BY <2>0, <3>1, <3>4, <4>1, <4>2 DEF RelayedTo
    <3> QED BY <3>3, <3>4
  <2>2. CASE Hears(d, c)
    <3> DEFINE s == wire[d]
               t == wire'[d]
    <3>1. /\ Len(s) \in Nat /\ DOMAIN s = 1 .. Len(s) /\ DOMAIN t = 1 .. Len(s) + n
          /\ \A i \in DOMAIN s : t[i] = s[i]
          /\ \A k \in DOMAIN b : t[Len(s) + k] = b[k]
      <4>1. wire[d] \in Seq(Entry) /\ wire'[d] = wire[d] \o b
        BY <1>0, <2>2
      <4>2. Behind(wire[d], b, wire'[d])
        BY <4>1, Concat
      <4> QED BY <4>2 DEF Behind
    <3>2. \A i \in DOMAIN t : i \in DOMAIN s \/ \E k \in DOMAIN b : i = Len(s) + k
      <4> HIDE DEF s, t
      <4> TAKE i \in DOMAIN t
      <4>1. i > Len(s) => i - Len(s) \in 1 .. n /\ i = Len(s) + (i - Len(s))
        BY ONLY <3>1, i \in DOMAIN t, n \in Nat
      <4> QED BY <1>0, <3>1, <4>1
    <3>3. \A k \in DOMAIN b : Len(s) + k \in DOMAIN t /\ t[Len(s) + k].by = c
                              /\ t[Len(s) + k].from = c /\ t[Len(s) + k].line = ReadOf(c) + k
      BY <1>0, <3>1
    <3>4. DOMAIN s \subseteq DOMAIN t
      BY <3>1
    <3>5. CASE a # c
      <4>1. Under(d, a)' = Under(d, a) /\ \A i \in Under(d, a) : t[i] = s[i]
        BY <3>1, <3>2, <3>3, <3>4, <3>5 DEF Under
      <4>2. LinesOf(d, a)' = LinesOf(d, a)
        BY <4>1 DEF LinesOf
      <4>3. ReadOf(a)' = ReadOf(a)
        BY <3>5
      <4> QED BY <2>0, <4>1, <4>2, <4>3 DEF RelayedTo
    <3>6. CASE a = c
      <4>1. Under(d, c)' = Under(d, c) \cup {Len(s) + k : k \in DOMAIN b}
        BY <3>1, <3>2, <3>3, <3>4 DEF Under
      <4>2. LinesOf(d, c)' = LinesOf(d, c) \cup {ReadOf(c) + k : k \in DOMAIN b}
        <5>1. \A i \in Under(d, c) : t[i].line = s[i].line
          BY <3>1 DEF Under
        <5>2. LinesOf(d, c)' = {t[i].line : i \in Under(d, c)'} /\ LinesOf(d, c) = {s[i].line : i \in Under(d, c)}
          BY DEF LinesOf
        <5>3. {t[i].line : i \in Under(d, c)'}
                = {t[i].line : i \in Under(d, c)} \cup {t[Len(s) + k].line : k \in DOMAIN b}
          BY <4>1
        <5>4. {t[i].line : i \in Under(d, c)} = {s[i].line : i \in Under(d, c)}
          BY <5>1
        <5>5. {t[Len(s) + k].line : k \in DOMAIN b} = {ReadOf(c) + k : k \in DOMAIN b}
          BY <3>3
        <5> QED BY <5>2, <5>3, <5>4, <5>5
      <4>3. /\ LinesOf(d, c) = before[d][c] + 1 .. ReadOf(c) /\ before[d][c] \in Nat
            /\ before[d][c] <= ReadOf(c)
        BY <1>0, <2>0, <2>2, <3>6 DEF RelayedTo, Hears, Numbered, Streams
      <4>4. LinesOf(d, c)' = before[d][c] + 1 .. ReadOf(c) + n
        <5>1. {ReadOf(c) + k : k \in DOMAIN b} = ReadOf(c) + 1 .. ReadOf(c) + n
          <6>1. ASSUME NEW x \in ReadOf(c) + 1 .. ReadOf(c) + n
                PROVE  x \in {ReadOf(c) + k : k \in DOMAIN b}
            <7>1. x - ReadOf(c) \in 1 .. n /\ x = ReadOf(c) + (x - ReadOf(c))
              BY <6>1
            <7> QED BY <1>0, <7>1
          <6>2. ASSUME NEW k \in DOMAIN b PROVE ReadOf(c) + k \in ReadOf(c) + 1 .. ReadOf(c) + n
            BY <1>0, <6>2
          <6> QED BY <6>1, <6>2
        <5>2. (before[d][c] + 1 .. ReadOf(c)) \cup (ReadOf(c) + 1 .. ReadOf(c) + n)
                = before[d][c] + 1 .. ReadOf(c) + n
          BY <4>3
        <5> QED BY <4>2, <4>3, <5>1, <5>2
      <4>5. /\ \A i \in Under(d, c) : s[i].from = c /\ s[i].line <= ReadOf(c) /\ s[i].line \in Nat
            /\ \A i, j \in Under(d, c) : i < j => s[i].line < s[j].line
        BY <1>1, <2>0, <3>6 DEF RelayedTo, Under
      <4>6. \A i \in Under(d, c)' : \/ i \in Under(d, c) /\ i <= Len(s) /\ t[i] = s[i]
                                   \/ \E k \in DOMAIN b : i = Len(s) + k
        BY <3>1, <4>1 DEF Under
      <4>7. \A i \in Under(d, c)' : t[i].from = c
        BY <3>3, <4>5, <4>6
      <4>8. \A i, j \in Under(d, c)' : i < j => t[i].line < t[j].line
        <5> SUFFICES ASSUME NEW i \in Under(d, c)', NEW j \in Under(d, c)', i < j
                     PROVE  t[i].line < t[j].line
          OBVIOUS
        <5>1. CASE j \in Under(d, c) /\ j <= Len(s)
          <6>1. i \in Under(d, c) /\ t[i] = s[i] /\ t[j] = s[j]
            BY <1>0, <3>1, <4>6, <5>1 DEF Under
          <6> QED BY <4>5, <5>1, <6>1
        <5>2. ASSUME NEW k \in DOMAIN b, j = Len(s) + k PROVE t[i].line < t[j].line
          <6>1. t[j].line = ReadOf(c) + k /\ k \in 1 .. n
            BY <1>0, <3>3, <5>2
          <6>2. CASE i \in Under(d, c) /\ t[i] = s[i]
            BY <4>5, <6>1, <6>2
          <6>3. ASSUME NEW m \in DOMAIN b, i = Len(s) + m PROVE t[i].line < t[j].line
            BY <1>0, <3>1, <3>3, <5>2, <6>1, <6>3
          <6> QED BY <4>6, <6>2, <6>3
        <5> QED BY <4>6, <5>1, <5>2
      <4>9. ReadOf(c) + n \in before[d][c] .. ReadOf(c) + n
        BY <4>3
      <4> QED BY <3>6, <4>4, <4>7, <4>8, <4>9 DEF RelayedTo
    <3> QED BY <3>5, <3>6
  <2> QED BY <2>1, <2>2
<1> QED BY <1>4, <1>5

LEMMA ChatInvRead == ASSUME ChatInv, NEW c \in Client, Read(c) PROVE ChatInv'
<1> USE DEF ChatInv
<1>0. /\ up[c] \in Seq(Line) /\ Len(up[c]) \in Nat /\ DOMAIN up[c] = 1 .. Len(up[c])
      /\ typed[c] \in Nat /\ Len(up[c]) <= typed[c] /\ up \in [Client -> Seq(Line)]
      /\ c \in reads /\ up[c] # <<>> /\ srv = "up"
  <2>1. up[c] \in Seq(Line) /\ typed[c] \in Nat /\ Len(up[c]) <= typed[c] /\ up \in [Client -> Seq(Line)]
    BY DEF TypeOK, Streams
  <2>2. c \in reads
    BY ClientAssumption DEF Read, Turn, TypeOK
  <2> QED BY <2>1, <2>2 DEF Read, Turn
<1>1. PICK n \in 1 .. Len(up[c]) :
        /\ up' = [up EXCEPT ![c] = SubSeq(up[c], n + 1, Len(up[c]))]
        /\ buf' = SubSeq(up[c], 1, n)
        /\ Relay(c, conn[c], buf')
  BY DEF Read
<1>2. /\ ready' = ready \ {c} /\ UNCHANGED <<st, typed, again, queue, fd, reads, reset, before>>
  BY DEF Read, Turn, clientVars
<1>3. /\ buf' \in Seq(Line) /\ Len(buf') = n /\ DOMAIN buf' = 1 .. n
      /\ \A k \in DOMAIN buf' : buf'[k] = up[c][k]
  BY <1>0, <1>1
<1>4. /\ up' \in [Client -> Seq(Line)] /\ \A d \in Client \ {c} : up'[d] = up[d]
      /\ Len(up'[c]) = Len(up[c]) - n /\ DOMAIN up'[c] = 1 .. Len(up[c]) - n
      /\ \A k \in DOMAIN up'[c] : up'[c][k] = up[c][n + k] /\ n + k \in DOMAIN up[c]
  <2> DEFINE u == SubSeq(up[c], n + 1, Len(up[c]))
  <2>1. u \in Seq(Line) /\ Len(u) = Len(up[c]) - n
        /\ \A k \in 1 .. Len(up[c]) - n : u[k] = up[c][n + k] /\ n + k \in DOMAIN up[c]
    BY <1>0, Rest
  <2>2. up' = [up EXCEPT ![c] = u]
    BY <1>1
  <2> HIDE DEF u
  <2>3. DOMAIN u = 1 .. Len(up[c]) - n
    BY <2>1
  <2> QED BY <1>0, <2>1, <2>2, <2>3
<1>5. c \notin reset
  BY <1>0 DEF Failed
<1>6. PICK b \in Seq(Entry) :
        /\ Len(b) = Len(buf')
        /\ \A k \in DOMAIN buf' : b[k] = [id |-> fd[c], by |-> c, from |-> buf'[k].from, line |-> buf'[k].line]
        /\ wire' \in [Client -> Seq(Entry)]
        /\ \A d \in Client : wire'[d] = IF Hears(d, c) THEN wire[d] \o b ELSE wire[d]
        /\ conn' \in [Client -> {"open", "fin", "broken", "done"}] /\ conn'[c] = conn[c]
        /\ \A d \in Client : /\ conn'[d] = "open" <=> conn[d] = "open"
                             /\ conn[d] = "done" => conn'[d] = "done"
                             /\ conn'[d] = "fin" => conn[d] = "fin"
        /\ srv' \in {"up", "dead"}
  <2>1. Relay(c, conn[c], buf')
    BY <1>1
  <2> QED BY ONLY ChatInv, <1>0, <1>3, <2>1, RelayWrites
<1>7. /\ ReadOf(c) \in Nat /\ ReadOf(c)' = ReadOf(c) + n
      /\ \A a \in Client \ {c} : ReadOf(a)' = ReadOf(a)
  BY <1>0, <1>2, <1>4 DEF ReadOf
<1>8. \A k \in DOMAIN buf' : buf'[k] = [from |-> c, line |-> ReadOf(c) + k]
  BY <1>0, <1>3 DEF Numbered
<1>9. Len(b) = n /\ DOMAIN b = 1 .. n
      /\ \A k \in DOMAIN b : b[k] = [id |-> fd[c], by |-> c, from |-> c, line |-> ReadOf(c) + k]
  <2>1. Len(b) = n /\ DOMAIN b = 1 .. n
    BY <1>3, <1>6
  <2> QED BY <1>3, <1>6, <1>8, <2>1
<1>10. TypeOK'
  <2>1. \A d \in Client : Len(up'[d]) <= typed[d]
    BY <1>0, <1>4 DEF TypeOK
  <2>2. Listener \in ready' => queue' # <<>>
    BY <1>2 DEF TypeOK
  <2>3. reads' \subseteq Client /\ ready' \subseteq reads' \cup {Listener}
    BY <1>2 DEF TypeOK
  <2> QED BY <1>2, <1>6, <2>1, <2>2, <2>3 DEF TypeOK
<1>11. Streams'
  BY <1>2, <1>3, <1>4, <1>6 DEF Streams
<1>12. Joining'
  <2>1. \A d \in Client : fd[d] = 0 => ~Hears(d, c)
    BY DEF Hears, TypeOK
  <2> QED BY <1>2, <1>6, <2>1 DEF Joining
<1>13. \A d \in Client : ReadOf(d) \in Nat /\ ReadOf(d)' \in Nat /\ ReadOf(d) <= ReadOf(d)'
  <2> TAKE d \in Client
  <2>1. typed[d] \in Nat /\ Len(up[d]) <= typed[d] /\ up[d] \in Seq(Line)
    BY DEF TypeOK, Streams
  <2>2. ReadOf(d) \in Nat
    BY <2>1 DEF ReadOf
  <2> QED BY <1>7, <2>2
<1>14. Numbered'
  <2>1. \A d \in Client : \A i \in DOMAIN up'[d] : up'[d][i] = [from |-> d, line |-> ReadOf(d)' + i]
    <3> SUFFICES ASSUME NEW d \in Client, NEW i \in DOMAIN up'[d]
                 PROVE  up'[d][i] = [from |-> d, line |-> ReadOf(d)' + i]
      OBVIOUS
    <3>0. \A k \in DOMAIN up[d] : up[d][k] = [from |-> d, line |-> ReadOf(d) + k]
      BY DEF Numbered
    <3>1. CASE d # c
      <4>1. ReadOf(d)' = ReadOf(d) /\ up'[d] = up[d]
        BY <1>4, <1>7, <3>1
      <4> QED BY <3>0, <4>1
    <3>2. CASE d = c
      <4>1. i \in DOMAIN up'[c] /\ i \in Nat /\ up'[c][i] = up[c][n + i] /\ n + i \in DOMAIN up[c]
        BY <1>4, <3>2
      <4>2. up[c][n + i] = [from |-> c, line |-> ReadOf(c) + (n + i)]
        BY <3>0, <3>2, <4>1
      <4>3. ReadOf(c)' + i = ReadOf(c) + (n + i)
        BY <1>7, <4>1
      <4> QED BY <3>2, <4>1, <4>2, <4>3
    <3> QED BY <3>1, <3>2
  <2>2. \A d \in Client : \A i \in DOMAIN wire'[d] : (wire[d][i].line <= ReadOf(wire[d][i].from))'
    <3> SUFFICES ASSUME NEW d \in Client, NEW i \in DOMAIN wire'[d]
                 PROVE  \E a \in Client : wire'[d][i].from = a /\ wire'[d][i].line <= ReadOf(a)'
      BY DEF ReadOf
    <3>1. \A k \in DOMAIN wire[d] : wire[d][k].from \in Client /\ wire[d][k].line \in Nat
                                   /\ wire[d][k].line <= ReadOf(wire[d][k].from)
      BY EntryFrom DEF Numbered
    <3>2. CASE wire'[d] = wire[d]
      <4>1. PICK a \in Client : wire[d][i].from = a /\ wire[d][i].line \in Nat /\ wire[d][i].line <= ReadOf(a)
        BY <3>1, <3>2
      <4> QED BY <1>13, <3>2, <4>1
    <3>3. CASE wire'[d] = wire[d] \o b
      <4>1. wire[d] \in Seq(Entry)
        BY DEF Streams
      <4>2. Behind(wire[d], b, wire'[d])
        BY <1>6, <3>3, <4>1, Concat
      <4>3. CASE i \in DOMAIN wire[d]
        <5>1. PICK a \in Client : wire[d][i].from = a /\ wire[d][i].line \in Nat /\ wire[d][i].line <= ReadOf(a)
          BY <3>1, <4>3
        <5>2. wire'[d][i] = wire[d][i]
          BY <4>2, <4>3 DEF Behind
        <5> QED BY <1>13, <5>1, <5>2
      <4>4. CASE i \notin DOMAIN wire[d]
        <5>1. i - Len(wire[d]) \in DOMAIN b /\ i = Len(wire[d]) + (i - Len(wire[d]))
          BY <4>2, <4>4 DEF Behind
        <5>2. wire'[d][i] = b[i - Len(wire[d])]
          BY <4>2, <5>1 DEF Behind
        <5>3. i - Len(wire[d]) \in 1 .. n
          BY <1>9, <5>1
        <5> QED BY <1>7, <1>9, <5>1, <5>2, <5>3
      <4> QED BY <4>3, <4>4
    <3> QED BY <1>6, <3>2, <3>3
  <2>3. \A i \in DOMAIN buf' : (buf[i].line <= ReadOf(buf[i].from))'
    <3> SUFFICES ASSUME NEW i \in DOMAIN buf' PROVE buf'[i].from = c /\ buf'[i].line <= ReadOf(c)'
      BY DEF ReadOf
    <3> QED BY <1>3, <1>7, <1>8
  <2>4. \A i, j \in DOMAIN buf' : buf'[i] = buf'[j] => i = j
    BY <1>3, <1>7, <1>8
  <2>5. \A a, d \in Client : before'[d][a] <= ReadOf(a)'
    <3> TAKE a, d \in Client
    <3>1. before[d][a] \in Nat /\ before[d][a] <= ReadOf(a)
      BY DEF Streams, Numbered
    <3> QED BY <1>2, <1>13, <3>1
  <2> QED BY <2>1, <2>2, <2>3, <2>4, <2>5 DEF Numbered, ReadOf
<1>15. Failed'
  <2>1. \A a \in reset : a \in Client /\ a # c
    BY <1>5 DEF TypeOK
  <2> QED BY <1>2, <1>4, <1>6, <2>1 DEF Failed
<1>16. Repeats' /\ Relayed'
  <2>1. \A d \in Client : conn'[d] \in {"open", "fin"} => conn[d] \in {"open", "fin"}
    BY <1>6
  <2>2. n \in Nat \ {0}
    BY <1>0
  <2>3. \A d \in Client : wire'[d] = IF Hears(d, c) THEN wire[d] \o b ELSE wire[d]
    BY <1>6
  <2> QED BY ONLY ChatInv, <1>0, <1>2, <1>5, <1>7, <1>9, <2>1, <2>2, <2>3, b \in Seq(Entry), ReadRelayed
<1>17. Named' /\ Again'
  <2>1. Named'
    <3>1. /\ \A k \in DOMAIN b : b[k].id = fd[c] /\ b[k].by = c
          /\ \A d \in Client : wire'[d] = IF Hears(d, c) THEN wire[d] \o b ELSE wire[d]
      BY <1>6, <1>9
    <3> QED BY ONLY ChatInv, <1>0, <1>2, <3>1, b \in Seq(Entry), RelayNamed
  <2> QED BY <1>0, <1>2, <2>1 DEF Again
<1> QED BY <1>10, <1>11, <1>12, <1>14, <1>15, <1>16, <1>17

\* A read that fails relays lines under the wrong name; of the client whose name
\* it is nothing is promised from then on.
LEMMA ChatInvReadFails == ASSUME ChatInv, NEW c \in Client, ReadFails(c) PROVE ChatInv'
<1> USE DEF ChatInv
<1>0. /\ c \in reads /\ up[c] = <<>> /\ conn[c] = "broken" /\ c \notin reset /\ srv = "up"
      /\ Relay(c, "done", buf) /\ reset' = reset \cup {c} /\ ready' = ready \ {c}
      /\ UNCHANGED <<st, typed, again, up, queue, fd, reads, buf, before>>
  <2>1. c \in reads
    BY ClientAssumption DEF ReadFails, Turn, TypeOK
  <2> QED BY <2>1 DEF ReadFails, Turn, clientVars, Failed
<1>1. buf \in Seq(Line) /\ DOMAIN buf = 1 .. Len(buf) /\ Len(buf) \in Nat
  BY DEF Streams
<1>2. PICK b \in Seq(Entry) :
        /\ Len(b) = Len(buf)
        /\ \A k \in DOMAIN buf : b[k] = [id |-> fd[c], by |-> c, from |-> buf[k].from, line |-> buf[k].line]
        /\ wire' \in [Client -> Seq(Entry)]
        /\ \A d \in Client : wire'[d] = IF Hears(d, c) THEN wire[d] \o b ELSE wire[d]
        /\ conn' \in [Client -> {"open", "fin", "broken", "done"}] /\ conn'[c] = "done"
        /\ \A d \in Client : /\ conn'[d] = "open" <=> conn[d] = "open"
                             /\ conn[d] = "done" => conn'[d] = "done"
                             /\ conn'[d] = "fin" => conn[d] = "fin"
        /\ srv' \in {"up", "dead"}
  BY ONLY ChatInv, <1>0, <1>1, RelayWrites
<1>3. \A a \in Client : ReadOf(a)' = ReadOf(a)
  BY <1>0 DEF ReadOf
<1>4. TypeOK'
  <2>1. Listener \in ready' => queue' # <<>>
    BY <1>0 DEF TypeOK
  <2>2. reads' \subseteq Client /\ ready' \subseteq reads' \cup {Listener} /\ reset' \subseteq Client
    BY <1>0 DEF TypeOK
  <2> QED BY <1>0, <1>2, <2>1, <2>2 DEF TypeOK
<1>5. Streams'
  BY <1>0, <1>2 DEF Streams
<1>6. Joining'
  <2>1. \A d \in Client : fd[d] = 0 => ~Hears(d, c)
    BY DEF Hears, TypeOK
  <2> QED BY <1>0, <1>2, <2>1 DEF Joining
<1>7. Failed'
  <2>1. \A a \in reset : a \in Client
    BY DEF TypeOK
  <2> QED BY <1>0, <1>2, <2>1 DEF Failed
<1>8. Len(b) = Len(buf) /\ DOMAIN b = DOMAIN buf
      /\ \A k \in DOMAIN b : b[k] = [id |-> fd[c], by |-> c, from |-> buf[k].from, line |-> buf[k].line]
  <2>1. DOMAIN b = 1 .. Len(b)
    OBVIOUS
  <2> QED BY <1>1, <1>2, <2>1
<1>9. \A i, j \in DOMAIN b : b[i] = b[j] => i = j
  <2> SUFFICES ASSUME NEW i \in DOMAIN b, NEW j \in DOMAIN b, b[i] = b[j] PROVE i = j
    OBVIOUS
  <2>1. buf[i] \in Line /\ buf[j] \in Line /\ buf[i].from = buf[j].from /\ buf[i].line = buf[j].line
    BY <1>8, EntryFrom
  <2>2. buf[i] = buf[j]
    BY <2>1 DEF Line
  <2> QED BY <1>8, <2>2 DEF Numbered
\* Where d hears the repetition.
<1>10. ASSUME NEW d \in Client
       PROVE  \/ wire'[d] = wire[d]
              \/ /\ Behind(wire[d], b, wire'[d])
                 /\ \A i \in DOMAIN wire'[d] : \/ i \in DOMAIN wire[d]
                                               \/ \E k \in DOMAIN b : i = Len(wire[d]) + k
  <2>1. CASE wire'[d] = wire[d] \o b
    <3>1. wire[d] \in Seq(Entry)
      BY DEF Streams
    <3>2. Behind(wire[d], b, wire'[d])
      BY <2>1, <3>1, Concat
    <3>3. ASSUME NEW i \in DOMAIN wire'[d], i \notin DOMAIN wire[d]
          PROVE  \E k \in DOMAIN b : i = Len(wire[d]) + k
      <4>1. i - Len(wire[d]) \in DOMAIN b /\ i = Len(wire[d]) + (i - Len(wire[d]))
        BY <3>2, <3>3 DEF Behind
      <4> QED BY <4>1
    <3> QED BY <3>2, <3>3
  <2> QED BY <1>2, <2>1
<1>11. Numbered'
  <2>1. \A d \in Client : \A i \in DOMAIN up'[d] : up'[d][i] = [from |-> d, line |-> ReadOf(d)' + i]
    BY <1>0, <1>3 DEF Numbered
  <2>2. \A d \in Client : \A i \in DOMAIN wire'[d] : (wire[d][i].line <= ReadOf(wire[d][i].from))'
    <3> SUFFICES ASSUME NEW d \in Client, NEW i \in DOMAIN wire'[d]
                 PROVE  \E a \in Client : wire'[d][i].from = a /\ wire'[d][i].line <= ReadOf(a)'
      BY DEF ReadOf
    <3>1. \A k \in DOMAIN wire[d] : \E a \in Client : wire[d][k].from = a /\ wire[d][k].line <= ReadOf(a)
      BY EntryFrom DEF Numbered
    <3>2. \A k \in DOMAIN buf : \E a \in Client : buf[k].from = a /\ buf[k].line <= ReadOf(a)
      BY EntryFrom DEF Numbered
    <3>3. CASE i \in DOMAIN wire[d] /\ wire'[d][i] = wire[d][i]
      BY <1>3, <3>1, <3>3
    <3>4. ASSUME NEW k \in DOMAIN b, wire'[d][i] = b[k]
          PROVE  \E a \in Client : wire'[d][i].from = a /\ wire'[d][i].line <= ReadOf(a)'
      BY <1>3, <1>8, <3>2, <3>4
    <3> QED BY <1>10, <3>3, <3>4 DEF Behind
  <2>3. \A i \in DOMAIN buf' : (buf[i].line <= ReadOf(buf[i].from))'
    <3>1. \A i \in DOMAIN buf : buf[i].from \in Client /\ buf[i].line <= ReadOf(buf[i].from)
      BY EntryFrom DEF Numbered
    <3> QED BY <1>0, <3>1 DEF ReadOf
  <2>4. \A a, d \in Client : before'[d][a] <= ReadOf(a)'
    BY <1>0, <1>3 DEF Numbered
  <2>5. \A i, j \in DOMAIN buf' : buf'[i] = buf'[j] => i = j
    BY <1>0 DEF Numbered
  <2> QED BY <2>1, <2>2, <2>3, <2>4, <2>5 DEF Numbered, ReadOf
<1>12. Repeats'
  <2> SUFFICES ASSUME NEW d \in Client
               PROVE  /\ \A i \in DOMAIN wire'[d] : wire'[d][i].by # wire'[d][i].from => wire'[d][i].by \in reset'
                      /\ \A i, j \in DOMAIN wire'[d] :
                           i < j /\ wire'[d][i] = wire'[d][j] =>
                             /\ wire'[d][i].by = wire'[d][i].from /\ wire'[d][i].by \in reset'
                             /\ \A k \in DOMAIN wire'[d] : j < k => wire'[d][k] # wire'[d][i]
    BY DEF Repeats
  <2> DEFINE s == wire[d]
             t == wire'[d]
  <2>1. /\ \A i \in DOMAIN s : s[i].by # s[i].from => s[i].by \in reset'
        /\ \A i, j \in DOMAIN s :
             i < j /\ s[i] = s[j] =>
               /\ s[i].by = s[i].from /\ s[i].by \in reset'
               /\ \A k \in DOMAIN s : j < k => s[k] # s[i]
    BY <1>0 DEF Repeats
  <2>2. CASE t = s
    BY <2>1, <2>2
  <2>3. CASE Behind(s, b, t) /\ \A i \in DOMAIN t : i \in DOMAIN s \/ \E k \in DOMAIN b : i = Len(s) + k
    <3>1. /\ Len(s) \in Nat /\ DOMAIN s = 1 .. Len(s) /\ DOMAIN b = 1 .. Len(b) /\ Len(b) \in Nat
          /\ \A i \in DOMAIN s : t[i] = s[i]
          /\ \A k \in DOMAIN b : t[Len(s) + k] = b[k]
          /\ \A i \in DOMAIN t : i \in DOMAIN s \/ \E k \in DOMAIN b : i = Len(s) + k
      BY <2>3 DEF Behind
    <3>2. \A k \in DOMAIN b : b[k].by = c /\ c \in reset'
      BY <1>0, <1>8
    <3>3. \A i \in DOMAIN s : s[i].by = c => s[i].from = c
      BY <1>0 DEF Repeats
    \* c was not in reset: in s it repeats nothing.
    <3>4. \A i, j \in DOMAIN s : i < j /\ s[i].by = c => s[i] # s[j]
      BY <1>0 DEF Repeats
    <3> HIDE DEF s, t
    <3>5. \A i \in DOMAIN t : t[i].by # t[i].from => t[i].by \in reset'
      BY <2>1, <3>1, <3>2
    <3>6. ASSUME NEW i \in DOMAIN t, NEW j \in DOMAIN t, i < j, t[i] = t[j]
          PROVE  /\ t[i].by = t[i].from /\ t[i].by \in reset'
                 /\ \A k \in DOMAIN t : j < k => t[k] # t[i]
      <4>1. CASE j \in DOMAIN s
        <5>1. i \in DOMAIN s
          <6>1. i \notin DOMAIN s => \E k \in DOMAIN b : i = Len(s) + k
            BY <3>1, <3>6
          <6> QED BY <3>1, <3>6, <4>1, <6>1
        <5>2. t[i] = s[i] /\ t[j] = s[j]
          BY <3>1, <4>1, <5>1
        <5>3. s[i].by = s[i].from /\ s[i].by \in reset' /\ \A k \in DOMAIN s : j < k => s[k] # s[i]
          BY <2>1, <3>6, <4>1, <5>1, <5>2
        <5>4. s[i].by # c
          BY <3>4, <3>6, <4>1, <5>1, <5>2
        <5>5. ASSUME NEW k \in DOMAIN t, j < k PROVE t[k] # t[i]
          <6>1. CASE k \in DOMAIN s
            BY <3>1, <5>2, <5>3, <5>5, <6>1
          <6>2. ASSUME NEW m \in DOMAIN b, k = Len(s) + m PROVE t[k] # t[i]
            BY <3>1, <3>2, <5>2, <5>4, <6>2
          <6> QED BY <3>1, <6>1, <6>2
        <5> QED BY <5>2, <5>3, <5>5
      <4>2. ASSUME NEW m \in DOMAIN b, j = Len(s) + m
            PROVE  /\ t[i].by = t[i].from /\ t[i].by \in reset'
                   /\ \A k \in DOMAIN t : j < k => t[k] # t[i]
        <5>1. t[j] = b[m] /\ t[i].by = c
          BY <3>1, <3>2, <3>6, <4>2
        <5>2. i \in DOMAIN s
          <6>1. ASSUME NEW l \in DOMAIN b, i = Len(s) + l PROVE FALSE
            <7>1. b[l] = b[m]
              BY <3>1, <3>6, <5>1, <6>1
            <7>2. l = m
              BY <1>9, <7>1
            <7> QED BY <3>1, <3>6, <4>2, <6>1, <7>2
          <6> QED BY <3>1, <6>1
        <5>3. t[i].from = c
          BY <3>1, <3>3, <5>1, <5>2
        <5>4. ASSUME NEW k \in DOMAIN t, j < k PROVE t[k] # t[i]
          <6>1. PICK l \in DOMAIN b : k = Len(s) + l
            <7>1. k \notin DOMAIN s
              BY <3>1, <4>2, <5>4
            <7> QED BY <3>1, <7>1
          <6>2. l # m
            BY <3>1, <4>2, <5>4, <6>1
          <6>3. t[k] = b[l] /\ b[l] # b[m]
            BY <1>9, <3>1, <6>1, <6>2
          <6> QED BY <3>6, <5>1, <6>3
        <5> QED BY <3>2, <4>2, <5>1, <5>3, <5>4
      <4> QED BY <3>1, <4>1, <4>2
    <3> QED BY <3>5, <3>6 DEF t
  <2> QED BY <1>10, <2>2, <2>3
<1>13. Relayed'
  <2> SUFFICES ASSUME NEW d \in Client, NEW a \in Client \ (reset' \cup {d}) PROVE RelayedTo(d, a)'
    BY DEF Relayed
  <2>1. RelayedTo(d, a) /\ a # c
    BY <1>0 DEF Relayed
  <2>2. Under(d, a)' = Under(d, a) /\ \A i \in Under(d, a) : wire'[d][i] = wire[d][i]
    <3>1. CASE wire'[d] = wire[d]
      BY <3>1 DEF Under
    <3>2. CASE /\ Behind(wire[d], b, wire'[d])
               /\ \A i \in DOMAIN wire'[d] : \/ i \in DOMAIN wire[d]
                                             \/ \E k \in DOMAIN b : i = Len(wire[d]) + k
      <4>1. \A k \in DOMAIN b : wire'[d][Len(wire[d]) + k].by # a
        BY <1>8, <2>1, <3>2 DEF Behind
      <4>2. \A i \in DOMAIN wire[d] : wire'[d][i] = wire[d][i] /\ i \in DOMAIN wire'[d]
        BY <3>2 DEF Behind
      <4> QED BY <3>2, <4>1, <4>2 DEF Under
    <3> QED BY <1>10, <3>1, <3>2
  <2>3. LinesOf(d, a)' = LinesOf(d, a)
    BY <2>2 DEF LinesOf
  <2>4. ReadOf(a)' = ReadOf(a)
    BY <1>3
  <2>5. d \in reads' /\ conn'[d] \in {"open", "fin"} => d \in reads /\ conn[d] \in {"open", "fin"}
    BY <1>0, <1>2
  <2> QED BY <1>0, <2>1, <2>2, <2>3, <2>4, <2>5 DEF RelayedTo
<1>14. Named' /\ Again'
  <2>1. Named'
    <3>1. /\ \A k \in DOMAIN b : b[k].id = fd[c] /\ b[k].by = c
          /\ \A d \in Client : wire'[d] = IF Hears(d, c) THEN wire[d] \o b ELSE wire[d]
      BY <1>2, <1>8
    <3> QED BY ONLY ChatInv, <1>0, <3>1, b \in Seq(Entry), RelayNamed
  <2> QED BY <1>0, <2>1 DEF Again
<1> QED BY <1>4, <1>5, <1>6, <1>7, <1>11, <1>12, <1>13, <1>14

LEMMA ChatInvNext == ChatInv /\ [Next]_vars => ChatInv'
<1> SUFFICES ASSUME ChatInv, [Next]_vars PROVE ChatInv'
  OBVIOUS
<1>1. CASE Select
  BY <1>1, ChatInvSelect
<1>2. CASE Accept
  BY <1>2, ChatInvAccept
<1>3. ASSUME NEW c \in Client, Read(c) \/ ReadFails(c) \/ ReadEof(c) PROVE ChatInv'
  BY <1>3, ChatInvRead, ChatInvReadFails, ChatInvReadEof
<1>4. ASSUME NEW c \in Client, Connect(c) \/ TypeLine(c) \/ ShowFails(c) \/ Quit(c) PROVE ChatInv'
  BY <1>4, ChatInvConnect, ChatInvTypeLine, ChatInvShowFails, ChatInvQuit
<1>5. CASE UNCHANGED vars
  <2> USE <1>5 DEF vars, clientVars, serverVars, ChatInv
  <2>1. TypeOK' /\ Streams' /\ Joining' /\ Failed'
    BY DEF TypeOK, Streams, Joining, Failed
  <2>2. Numbered'
    BY DEF Numbered, ReadOf
  <2>3. Repeats' /\ Relayed'
    BY Unrelayed DEF ReadOf
  <2>4. Named' /\ Again'
    BY DEF Named, Again
  <2> QED BY <2>1, <2>2, <2>3, <2>4
<1> QED BY <1>1, <1>2, <1>3, <1>4, <1>5 DEF Next, Server

-----------------------------------------------------------------------------

\* A line and its repetitions are as many as the connections that failed and one:
\* each but the first under its own name was relayed by another failed read.
LEMMA RepeatsBounded ==
  ASSUME ChatInv, NEW d \in Client, NEW i \in DOMAIN wire[d]
  PROVE  Cardinality({k \in DOMAIN wire[d] : wire[d][k].from = wire[d][i].from
                                            /\ wire[d][k].line = wire[d][i].line})
           <= 1 + Cardinality(reset)
<1> DEFINE w == wire[d]
           K == {k \in DOMAIN w : w[k].from = w[i].from /\ w[k].line = w[i].line}
           who == w[i].from
           Earlier(k) == \E j \in K : j < k /\ w[j].by = who
           g == [k \in K |-> IF w[k].by # who THEN w[k].by ELSE IF Earlier(k) THEN who ELSE Listener]
<1>1. reset \subseteq Client /\ Listener \notin Client /\ IsFiniteSet(Client) /\ Listener \notin reset
  BY ClientAssumption DEF ChatInv, TypeOK
<1>2. IsFiniteSet(reset) /\ Cardinality(reset) \in Nat
      /\ IsFiniteSet(reset \cup {Listener}) /\ Cardinality(reset \cup {Listener}) = Cardinality(reset) + 1
  <2>1. IsFiniteSet(reset)
    BY <1>1, FS_Subset
  <2> QED BY <1>1, <2>1, FS_CardinalityType, FS_AddElement
<1>3. /\ \A k \in DOMAIN w : w[k].by # w[k].from => w[k].by \in reset
      /\ \A k, j \in DOMAIN w :
           k < j /\ w[k] = w[j] =>
             /\ w[k].by = w[k].from /\ w[k].by \in reset
             /\ \A l \in DOMAIN w : j < l => w[l] # w[k]
  BY DEF ChatInv, Repeats
<1>4. DOMAIN w \subseteq Nat /\ \A k \in DOMAIN w : w[k] \in Entry /\ w[k].by \in Client
  <2>1. w \in Seq(Entry)
    BY DEF ChatInv, Streams
  <2>2. DOMAIN w \subseteq Nat
    BY <2>1
  <2> QED BY <2>2, EntryFrom DEF ChatInv
<1>12. \A j \in DOMAIN w : w[j].id = fd[w[j].by]
  BY DEF ChatInv, Named
<1> HIDE DEF w
<1>5. \A j, k \in K : w[j].by = w[k].by => w[j] = w[k]
  BY <1>4, <1>12 DEF Entry
<1>6. \A k \in K : w[k].from = who /\ k \in DOMAIN w
  OBVIOUS
<1> HIDE DEF K, who
<1>7. \A k \in K : g[k] \in reset \cup {Listener}
  <2> SUFFICES ASSUME NEW k \in K PROVE g[k] \in reset \cup {Listener}
    OBVIOUS
  <2>1. CASE w[k].by # who
    BY <1>3, <1>6, <2>1
  <2>2. CASE w[k].by = who /\ Earlier(k)
    <3>1. PICK j \in K : j < k /\ w[j].by = who
      BY <2>2
    <3>2. w[j] = w[k]
      BY <1>5, <2>2, <3>1
    <3> QED BY <1>3, <1>6, <2>2, <3>1, <3>2
  <2> QED BY <2>1, <2>2
<1>8. \A j, k \in K : j < k => g[j] # g[k]
  <2> SUFFICES ASSUME NEW j \in K, NEW k \in K, j < k, g[j] = g[k] PROVE FALSE
    OBVIOUS
  <2>1. CASE w[k].by # who
    <3>1. w[j].by = w[k].by
      BY <1>1, <1>4, <1>6, <2>1
    <3> QED BY <1>3, <1>5, <1>6, <2>1, <3>1
  <2>2. CASE w[k].by = who /\ w[j].by # who
    BY <1>1, <1>4, <1>6, <2>2
  <2>3. CASE w[k].by = who /\ w[j].by = who
    <3>1. g[k] = who
      BY <2>3
    <3>2. who # Listener
      BY <1>1, <1>4, <1>6, <2>3
    <3>3. PICK l \in K : l < j /\ w[l].by = who
      BY <2>3, <3>1, <3>2
    <3>4. w[l] = w[j] /\ w[l] = w[k]
      BY <1>5, <2>3, <3>3
    <3> QED BY <1>3, <1>6, <3>3, <3>4
  <2> QED BY <2>1, <2>2, <2>3
<1>9. g \in Injection(K, reset \cup {Listener})
  <2>1. g \in [K -> reset \cup {Listener}]
    BY <1>7
  <2>2. \A j, k \in K : g[j] = g[k] => j = k
    <3> SUFFICES ASSUME NEW j \in K, NEW k \in K, g[j] = g[k], j # k PROVE FALSE
      OBVIOUS
    <3>1. j < k \/ k < j
      BY <1>4, <1>6
    <3> QED BY <1>8, <3>1
  <2> HIDE DEF g
  <2>3. DOMAIN g = K
    BY <2>1
  <2> QED BY <2>1, <2>2, <2>3 DEF Injection, IsInjective
<1>10. IsFiniteSet(K) /\ Cardinality(K) <= Cardinality(reset \cup {Listener})
  <2> HIDE DEF g
  <2> QED BY <1>2, <1>9, FS_Injection
<1>11. Cardinality(K) \in Nat
  BY <1>10, FS_CardinalityType
<1> QED BY <1>2, <1>10, <1>11 DEF K, w

\* What is shown again is part of what was sent.
LEMMA AgainBounded ==
  ASSUME ChatInv, NEW d \in Client, NEW m
  PROVE  /\ Times(again[d], m) <= Times(wire[d], m)
         /\ Times(again[d], m) \in Nat /\ Times(wire[d], m) \in Nat
<1> DEFINE K(s) == {k \in DOMAIN s : s[k].from = m.from /\ s[k].line = m.line}
<1>0. wire[d] \in Seq(Entry) /\ Len(wire[d]) \in Nat /\ DOMAIN wire[d] = 1 .. Len(wire[d])
  <2>1. wire[d] \in Seq(Entry)
    BY DEF ChatInv, Streams
  <2> QED BY <2>1
<1>1. IsFiniteSet(K(wire[d])) /\ Cardinality(K(wire[d])) \in Nat
  <2>1. IsFiniteSet(1 .. Len(wire[d])) /\ K(wire[d]) \subseteq 1 .. Len(wire[d])
    BY <1>0, FS_Interval
  <2>2. IsFiniteSet(K(wire[d]))
    BY ONLY <2>1, FS_Subset
  <2> QED BY <2>2, FS_CardinalityType
<1>2. Times(again[d], m) = Cardinality(K(again[d])) /\ Times(wire[d], m) = Cardinality(K(wire[d]))
  BY DEF Times
<1>3. CASE again[d] = <<>>
  <2>1. K(again[d]) = {}
    BY <1>3
  <2>2. Cardinality({}) = 0
    BY FS_EmptySet
  <2> HIDE DEF K
  <2> QED BY <1>1, <1>2, <2>1, <2>2
<1>4. CASE again[d] # <<>>
  <2>1. PICK n \in 1 .. Len(wire[d]) : again[d] = SubSeq(wire[d], n, Len(wire[d]))
    BY <1>4 DEF ChatInv, Again
  <2>2. \A k \in DOMAIN again[d] :
          /\ k \in Nat /\ n - 1 + k \in DOMAIN wire[d] /\ again[d][k] = wire[d][n - 1 + k]
    <3>1. n \in Nat /\ n >= 1 /\ n <= Len(wire[d])
      BY <1>0
    <3>2. DOMAIN again[d] = 1 .. Len(wire[d]) - n + 1
          /\ \A k \in 1 .. Len(wire[d]) - n + 1 : again[d][k] = wire[d][n + k - 1]
      BY <1>0, <2>1, <3>1
    <3>3. ASSUME NEW k \in 1 .. Len(wire[d]) - n + 1
          PROVE  k \in Nat /\ n - 1 + k \in 1 .. Len(wire[d]) /\ n - 1 + k = n + k - 1
      BY <1>0, <3>1
    <3> QED BY <1>0, <3>2, <3>3
  <2> DEFINE f == [k \in K(again[d]) |-> n - 1 + k]
  <2>3. f \in Injection(K(again[d]), K(wire[d]))
    <3>1. f \in [K(again[d]) -> K(wire[d])]
      BY <2>2
    <3>2. \A j, k \in K(again[d]) : f[j] = f[k] => j = k
      BY <1>0, <2>2
    <3> QED BY <3>1, <3>2 DEF Injection, IsInjective
  <2> HIDE DEF f, K
  <2>4. IsFiniteSet(K(again[d])) /\ Cardinality(K(again[d])) <= Cardinality(K(wire[d]))
    BY <1>1, <2>3, FS_Injection
  <2> QED BY <1>1, <1>2, <2>4, FS_CardinalityType
<1> QED BY <1>3, <1>4

\* Of a name under which no read has failed, everything is its client's own.
LEMMA OwnName ==
  ASSUME ChatInv, NEW d \in Client, NEW i \in DOMAIN wire[d], ~Spoilt(wire[d][i].id)
  PROVE  /\ wire[d][i].from = wire[d][i].by /\ wire[d][i].by \in Client \ (reset \cup {d})
         /\ wire[d][i].id = fd[wire[d][i].by]
<1>1. wire[d][i].by \in Client /\ wire[d][i].id = fd[wire[d][i].by] /\ wire[d][i].by # d
  BY EntryFrom DEF ChatInv, Named
<1>2. wire[d][i].by \notin reset
  BY <1>1 DEF Spoilt
<1> QED BY <1>1, <1>2 DEF ChatInv, Repeats

LEMMA ChatInvRelayed == ChatInv => RelayedInOrder
<1> SUFFICES ASSUME ChatInv, NEW d \in Client PROVE RightName(d) /\ NothingMissing(d) /\ FewRepeats(d)
  BY DEF RelayedInOrder
<1> DEFINE w == wire[d]
<1>1. RightName(d)
  <2> SUFFICES ASSUME NEW i \in DOMAIN w, ~Spoilt(w[i].id)
               PROVE  /\ fd[w[i].from] = w[i].id /\ w[i].from # d
                      /\ \A j \in DOMAIN w : i < j /\ w[j].id = w[i].id =>
                           IF w[j].from = w[i].from THEN w[i].line < w[j].line
                           ELSE \A k \in DOMAIN w : j < k /\ w[k].id = w[i].id => w[k].from # w[i].from
    BY DEF RightName
  <2>1. \A k \in DOMAIN w : w[k].id = w[i].id =>
          /\ w[k].from = w[k].by /\ w[k].by \in Client \ (reset \cup {d}) /\ w[k].id = fd[w[k].by]
    BY OwnName
  <2>2. ASSUME NEW j \in DOMAIN w, i < j, w[j].id = w[i].id, w[j].from = w[i].from
        PROVE  w[i].line < w[j].line
    <3>1. i \in Under(d, w[i].by) /\ j \in Under(d, w[i].by) /\ w[i].by \in Client \ (reset \cup {d})
      BY <2>1, <2>2 DEF Under
    <3>2. RelayedTo(d, w[i].by)
      BY <3>1 DEF ChatInv, Relayed
    <3> QED BY <2>2, <3>1, <3>2 DEF RelayedTo
  <2>3. ASSUME NEW j \in DOMAIN w, i < j, w[j].id = w[i].id, w[j].from # w[i].from,
               NEW k \in DOMAIN w, j < k, w[k].id = w[i].id
        PROVE  w[k].from # w[i].from
    <3>1. w[i].by # w[j].by /\ w[k].from = w[k].by /\ w[i].from = w[i].by
      BY <2>1, <2>3
    <3> QED BY <2>3, <3>1 DEF ChatInv, Named
  <2> QED BY <2>1, <2>2, <2>3
<1>2. NothingMissing(d)
  <2> SUFFICES ASSUME NEW c \in Client \ {d}, ~Spoilt(fd[c])
               PROVE  /\ \E n \in before[d][c] .. ReadOf(c) : PartsOf(d, c) = before[d][c] + 1 .. n
                      /\ d \in reads /\ srv = "up" /\ conn[d] = "open"
                           => PartsOf(d, c) = before[d][c] + 1 .. ReadOf(c)
    BY DEF NothingMissing
  <2>1. c \notin reset
    BY DEF Spoilt
  <2>2. RelayedTo(d, c)
    BY <2>1 DEF ChatInv, Relayed
  <2>3. \A i \in DOMAIN w : w[i].id = fd[c] /\ w[i].from = c <=> w[i].by = c
    <3> TAKE i \in DOMAIN w
    <3>1. ASSUME w[i].id = fd[c], w[i].from = c PROVE w[i].by = c
      BY <3>1, OwnName
    <3>2. ASSUME w[i].by = c PROVE w[i].id = fd[c] /\ w[i].from = c
      <4>1. w[i].id = fd[c]
        BY <3>2 DEF ChatInv, Named
      <4> QED BY <3>2, <4>1, OwnName
    <3> QED BY <3>1, <3>2
  <2>4. PartsOf(d, c) = LinesOf(d, c)
    BY <2>3 DEF PartsOf, LinesOf, Under
  <2> QED BY <2>2, <2>4 DEF RelayedTo
<1>3. FewRepeats(d)
  <2> SUFFICES ASSUME NEW i \in DOMAIN wire[d]
               PROVE  /\ Times(wire[d], wire[d][i]) <= 1 + Cardinality(reset)
                      /\ Times(again[d], wire[d][i]) <= 1 + Cardinality(reset)
    BY DEF FewRepeats
  <2>1. Times(wire[d], wire[d][i]) <= 1 + Cardinality(reset)
    BY RepeatsBounded DEF Times
  <2>2. /\ Times(again[d], wire[d][i]) <= Times(wire[d], wire[d][i])
        /\ Times(wire[d], wire[d][i]) \in Nat /\ Times(again[d], wire[d][i]) \in Nat
    BY AgainBounded
  <2>3. Cardinality(reset) \in Nat
    <3>1. IsFiniteSet(reset)
      BY ClientAssumption, FS_Subset DEF ChatInv, TypeOK
    <3> QED BY <3>1, FS_CardinalityType
  <2> QED BY <2>1, <2>2, <2>3
<1> QED BY <1>1, <1>2, <1>3

LEMMA ChatInvAlways == Spec => []ChatInv
<1> QED BY ChatInvInit, ChatInvNext, PTL DEF Spec

\* However many clients come and go: every variable keeps its type, and select
\* never takes two clients for one.
THEOREM Typed == Spec => []TypeOK
<1>1. ChatInv => TypeOK
  BY DEF ChatInv
<1> QED BY <1>1, ChatInvAlways, PTL

\* However many clients come and go, and however their reads and writes fail: each
\* hears the others from the moment it joined, in order, nothing missing; and no
\* line more often than once and once for every failed connection.
THEOREM Relays == Spec => []RelayedInOrder
BY ChatInvRelayed, ChatInvAlways, PTL
=============================================================================
