---------------------------- MODULE ShellFsProofs ----------------------------
(* Theorems about ShellFs. *)
EXTENDS ShellFs, FiniteSetTheorems, SequenceTheorems, NaturalsInduction,
        WellFoundedInduction, TLAPS

\* What an inode can be, and a disk whose inodes are that.
Target == Name \cup {c.src : c \in Commands}
Nodes  == [kind : {"file", "dir", "link", "free"}, text : Seq(Nat), to : Target \cup {Nil}]
Sound(f) ==
  /\ f \in [Inode -> Nodes]
  /\ \A i \in Inode : /\ f[i].kind # "file" => f[i].text = <<>>
                      /\ f[i].kind # "link" => f[i].to = Nil

\* The disk when the command began.
Before ==
  Calm => /\ old.dir \in [Name -> Inode \cup {Nil}] /\ Sound(old.node)
          /\ \A i \in Inode : (old.node[i] = Free) <=> i \notin InUse(old.dir, {})

Untouched == dir = old.dir /\ node = old.node

\* Which commands come where, and what the user has said by then.
Stages ==
  /\ pc \in {"open_src", "open_dst", "copy"} => cmd.op \in {"cp", "filter"}
  /\ pc = "call" => cmd.op \notin {"cp", "filter"}
  /\ pc = "access" => cmd.op # "rm"
  /\ pc = "open_dst" => off = 0
  /\ dfd # Nil => node[dfd].kind = "file"
  /\ cmd.flag /\ ~yes /\ pc \in {"open_src", "open_dst", "copy", "call"} => cmd.op # "rm"
  /\ pc \notin {"copy", "prompt"} => mishap = {}
  /\ pc = "copy" => mishap \subseteq {"write"} /\ (off = 0 => mishap = {})

\* What access did not find is still not there, unless somebody else has made it.
Unseen ==
  /\ cmd.flag /\ ~yes /\ ~late /\ cmd.op \in {"cp", "mv"}
  /\ pc \in {"open_src", "open_dst", "call"}
  => Lookup(dir, node, cmd.dst) = Nil

\* Up to the first change, and after a failure that is none of exec.
Waiting ==
  /\ Calm
  /\ \/ pc \notin {"copy", "prompt"}
     \/ pc = "prompt" /\ (out = "refused" \/ (out = "failed" /\ mishap # {"exec"}))
  => Untouched

Opened ==
  Calm /\ pc \in {"open_dst", "copy"} => sfd = Src /\ (cmd.op = "cp" => Src # Nil)

\* The destination holds text, and nothing else is different.
Holds(text) ==
  LET d == Lookup(dir, node, cmd.dst) IN
    /\ d # Nil /\ node[d] = File(text)
    /\ d = Dst \/ (Dst = Nil /\ old.node[d] = Free)
    /\ \A i \in Inode \ {d} : node[i] = old.node[i]
    /\ \A n \in Name : old.dir[n] # Nil => dir[n] = old.dir[n]

\* What a copy has to copy, and a filter that has nowhere to write to.
Whole   == IF Src = Nil \/ Src = Dst THEN <<>> ELSE old.node[Src].text
Nowhere == cmd.op = "filter" /\ Untouched /\ (Dst = Nil \/ old.node[Dst] = Dir)

Copying ==
  Calm /\ pc = "copy" =>
    \/ dfd = Nil /\ Nowhere
    \/ /\ dfd = Lookup(dir, node, cmd.dst) /\ \E t : Holds(t)
       /\ mishap = {} => off <= Len(Whole) /\ Holds(SubSeq(Whole, 1, off))

Copied ==
  Calm /\ pc = "prompt" /\ out = "done" /\ cmd.op \in {"cp", "filter"} =>
    /\ cmd.op = "cp" => Src # Nil
    /\ \/ Nowhere
       \/ /\ \E t : Holds(t)
          /\ mishap = {} => Holds(Whole)
          /\ mishap = {"read"} => \E k \in 0 .. Len(Whole) : Holds(SubSeq(Whole, 1, k))

\* A program that could not be executed.
NotRun ==
  Calm /\ pc = "prompt" /\ out = "failed" /\ mishap = {"exec"} => Untouched \/ Holds(<<>>)

ShellInv ==
  /\ TypeOK /\ Sound(node) /\ Before /\ Stages /\ Unseen
  /\ Waiting /\ Opened /\ Copying /\ Copied /\ NotRun

-----------------------------------------------------------------------------
(* Numbers.                                                                *)

\* A set of numbers that has 0, and with a number the next one, has them all.
LEMMA SetInduction ==
  ASSUME NEW S, 0 \in S, \A n \in Nat : n \in S => n + 1 \in S
  PROVE  Nat \subseteq S
<1> DEFINE T == Nat \ S
<1> SUFFICES ASSUME T # {} PROVE FALSE
  OBVIOUS
<1>1. IsWellFoundedOn(OpToRel(<, Nat), Nat)
  BY NatLessThanWellFounded
<1> HIDE DEF T
<1>2. T \subseteq Nat
  BY DEF T
<1>3. PICK x \in T : \A y \in T : ~ (<<y, x>> \in OpToRel(<, Nat))
  BY <1>1, <1>2, WFMin
<1>4. x \in Nat /\ x \notin S
  BY DEF T
<1>5. x # 0
  BY <1>4
<1>6. x - 1 \in Nat /\ x - 1 < x /\ (x - 1) + 1 = x
  BY <1>4, <1>5
<1>7. x - 1 \in T
  BY <1>4, <1>6 DEF T
<1> QED BY <1>3, <1>4, <1>6, <1>7 DEF OpToRel

\* A set of numbers has a least one, and a bounded one a greatest.
LEMMA MinMax ==
  ASSUME NEW N \in Nat, NEW K \in SUBSET (1 .. N), K # {}
  PROVE  /\ Min(K) \in K /\ \A k \in K : Min(K) <= k
         /\ Max(K) \in K /\ \A k \in K : k <= Max(K)
<1>1. ASSUME NEW T \in SUBSET Nat, T # {} PROVE \E x \in T : \A y \in T : x <= y
  <2>1. IsWellFoundedOn(OpToRel(<, Nat), Nat)
    BY NatLessThanWellFounded
  <2>2. PICK x \in T : \A y \in T : ~ (<<y, x>> \in OpToRel(<, Nat))
    BY <1>1, <2>1, WFMin
  <2>3. ASSUME NEW y \in T PROVE x <= y
    <3>1. x \in Nat /\ y \in Nat
      BY <1>1
    <3>2. ~(y < x)
      BY <2>2, <3>1 DEF OpToRel
    <3> QED BY <3>1, <3>2
  <2> QED BY <2>3
<1>2. \E x \in K : \A y \in K : x <= y
  BY <1>1
<1>3. \E x \in K : \A y \in K : x >= y
  <2> DEFINE T == {N - k : k \in K}
  <2>1. T \in SUBSET Nat /\ T # {}
    <3>1. \A k \in K : N - k \in Nat
      OBVIOUS
    <3> QED BY <3>1
  <2> HIDE DEF T
  <2>2. PICK t \in T : \A y \in T : t <= y
    BY <1>1, <2>1
  <2>3. PICK x \in K : t = N - x
    BY DEF T
  <2>4. ASSUME NEW y \in K PROVE x >= y
    <3>1. N - y \in T
      BY DEF T
    <3>2. N - x <= N - y
      BY <2>2, <2>3, <3>1
    <3> QED BY <3>2
  <2> QED BY <2>4
<1> QED BY <1>2, <1>3 DEF Min, Max

-----------------------------------------------------------------------------
(* Lines.                                                                  *)

\* The scan from index i on, when it knows the result for the later ones.
ScanAt(mem, from, i) ==
  IF i > Len(mem) \/ mem[i] = Nil THEN Nothing
  ELSE IF mem[i] = "<" THEN [from[i + 2] EXCEPT !.infile = IF @ = Nil THEN mem[i + 1] ELSE @]
  ELSE IF mem[i] = ">" THEN [from[i + 2] EXCEPT !.outfile = IF @ = Nil THEN mem[i + 1] ELSE @]
  ELSE [from[i + 1] EXCEPT !.args = <<mem[i]>> \o @]

\* Scan is the recursive function that its definition says.
LEMMA ScanFunction ==
  ASSUME NEW mem, Len(mem) \in Nat
  PROVE  \E from : /\ Scan(mem) = from[1]
                   /\ \A i \in 1 .. Len(mem) + 2 : from[i] = ScanAt(mem, from, i)
<1> DEFINE L == Len(mem)
           From(f, m) == f = [i \in m .. L + 2 |-> ScanAt(mem, f, i)]
           S == {d \in Nat : d <= L + 1 => \E f : From(f, L + 2 - d)}
<1>1. 0 \in S
  <2> DEFINE f == [i \in L + 2 .. L + 2 |-> Nothing]
  <2>1. \A i \in L + 2 .. L + 2 : i > L
    OBVIOUS
  <2>2. From(f, L + 2)
    BY <2>1 DEF ScanAt
  <2>3. L + 2 - 0 = L + 2
    OBVIOUS
  <2> HIDE DEF f
  <2> QED BY <2>2, <2>3
<1>2. ASSUME NEW d \in Nat, d \in S PROVE d + 1 \in S
  <2> SUFFICES ASSUME d + 1 <= L + 1 PROVE \E f : From(f, L + 2 - (d + 1))
    OBVIOUS
  <2>1. PICK m, f : m = L + 2 - d /\ From(f, m)
    BY <1>2
  <2>2. /\ m \in Nat /\ m - 1 \in 1 .. L + 2 /\ L + 2 - (d + 1) = m - 1 /\ m \in 1 .. L + 2
        /\ \A i \in m - 1 .. L + 2 : /\ i = m - 1 \/ i \in m .. L + 2
                                     /\ i <= L => i + 1 \in m .. L + 2 /\ i + 2 \in m .. L + 2
        /\ \A i \in m .. L + 2 : i \in m - 1 .. L + 2 /\ i # m - 1
    BY <2>1
  <2> DEFINE g == [i \in m - 1 .. L + 2 |-> IF i = m - 1 THEN ScanAt(mem, f, m - 1) ELSE f[i]]
  <2>3. \A i \in m .. L + 2 : g[i] = f[i]
    BY <2>2
  <2>4. \A i \in m - 1 .. L + 2 : g[i] = ScanAt(mem, f, i)
    BY <2>1, <2>2
  <2>5. g = [i \in m - 1 .. L + 2 |-> g[i]]
    OBVIOUS
  <2> HIDE DEF g
  <2>6. ASSUME NEW i \in m - 1 .. L + 2 PROVE ScanAt(mem, g, i) = ScanAt(mem, f, i)
    <3>1. i <= L => g[i + 1] = f[i + 1] /\ g[i + 2] = f[i + 2]
      BY <2>2, <2>3
    <3>2. i > L \/ i <= L
      BY <2>2
    <3> QED BY <3>1, <3>2 DEF ScanAt
  <2>7. From(g, m - 1)
    BY <2>4, <2>5, <2>6
  <2> QED BY <2>2, <2>7
<1> HIDE DEF S
<1>3. Nat \subseteq S
  BY <1>1, <1>2, SetInduction
<1>4. L + 1 \in S /\ L + 2 - (L + 1) = 1
  BY <1>3
<1>5. \E f : From(f, 1)
  BY <1>4 DEF S
<1> DEFINE from == CHOOSE f : From(f, 1)
<1> HIDE DEF from
<1>6. From(from, 1)
  BY <1>5 DEF from
<1>7. Scan(mem) = from[1]
  BY DEF Scan, from, ScanAt
<1>8. \A i \in 1 .. L + 2 : from[i] = ScanAt(mem, from, i)
  BY <1>6
<1> QED BY <1>7, <1>8

\* An operator is a word that says so and is no operand.
LEMMA OperatorsAre ==
  ASSUME NEW line, Len(line) \in Nat
  PROVE  /\ Operators(line) \subseteq 1 .. Len(line)
         /\ \A k \in 1 .. Len(line) :
              k \in Operators(line) <=> line[k] \in Redirect /\ k - 1 \notin Operators(line)
<1> DEFINE n == Len(line)
           Marks(f, m) == f = [k \in 0 .. m |-> k > 0 /\ line[k] \in Redirect /\ ~f[k - 1]]
           S == {m \in Nat : \E f : Marks(f, m)}
<1>1. 0 \in S
  <2> DEFINE f == [k \in 0 .. 0 |-> FALSE]
  <2>1. \A k \in 0 .. 0 : (k > 0) = FALSE
    OBVIOUS
  <2>2. Marks(f, 0)
    BY <2>1, Zenon
  <2> HIDE DEF f
  <2> QED BY <2>2
<1>2. ASSUME NEW m \in Nat, m \in S PROVE m + 1 \in S
  <2>1. PICK f : Marks(f, m)
    BY <1>2
  <2> DEFINE g == [k \in 0 .. m + 1 |-> IF k = m + 1 THEN line[k] \in Redirect /\ ~f[m] ELSE f[k]]
  <2>2. \A k \in 0 .. m : g[k] = f[k] /\ f[k] = (k > 0 /\ line[k] \in Redirect /\ ~f[k - 1])
    BY <2>1
  <2>3. \A k \in 0 .. m : k > 0 => k - 1 \in 0 .. m
    OBVIOUS
  <2>4. \A k \in 0 .. m : g[k] = (k > 0 /\ line[k] \in Redirect /\ ~g[k - 1])
    BY <2>2, <2>3
  <2>5. g[m + 1] = (line[m + 1] \in Redirect /\ ~g[m])
    BY <2>2
  <2>6. \A k \in 0 .. m + 1 : k \in 0 .. m \/ (k = m + 1 /\ k > 0 /\ k - 1 = m)
    OBVIOUS
  <2>7. g = [k \in 0 .. m + 1 |-> g[k]]
    OBVIOUS
  <2> HIDE DEF g
  <2>8. \A k \in 0 .. m + 1 : g[k] = (k > 0 /\ line[k] \in Redirect /\ ~g[k - 1])
    BY <2>4, <2>5, <2>6
  <2>9. Marks(g, m + 1)
    BY <2>7, <2>8
  <2> QED BY <2>9
<1> HIDE DEF S
<1>3. n \in S
  BY <1>1, <1>2, SetInduction
<1> DEFINE is == CHOOSE f : Marks(f, n)
<1>4. Marks(is, n)
  BY <1>3 DEF S
<1>5. Operators(line) = {k \in 1 .. n : is[k]}
  BY DEF Operators
<1> HIDE DEF is
<1>6. \A k \in 0 .. n : is[k] = (k > 0 /\ line[k] \in Redirect /\ ~is[k - 1])
  BY <1>4
<1>7. \A k \in 1 .. n : k \in 0 .. n /\ k > 0 /\ k - 1 \in 0 .. n /\ (k - 1 \in 1 .. n \/ k - 1 = 0)
  OBVIOUS
<1>8. ~is[0]
  <2>1. 0 \in 0 .. n /\ ~(0 > 0)
    OBVIOUS
  <2> QED BY <1>6, <2>1
<1>9. \A k \in 0 .. n : k \in Operators(line) <=> is[k]
  BY <1>5, <1>8
<1>10. \A k \in 1 .. n : is[k] <=> line[k] \in Redirect /\ ~is[k - 1]
  BY <1>6, <1>7
<1> QED BY <1>5, <1>7, <1>9, <1>10

\* The words that belong to no redirection, from index i on.
WordsFrom(line, i) ==
  {k \in DOMAIN line : k >= i /\ k \notin Operators(line) /\ k - 1 \notin Operators(line)}

\* h numbers the words from index i on in the order they stand, and args are they.
Numbers(h, line, i, args) ==
  /\ h \in [1 .. Len(args) -> WordsFrom(line, i)]
  /\ \A j, k \in 1 .. Len(args) : j < k => h[j] < h[k]
  /\ \A w \in WordsFrom(line, i) : \E j \in 1 .. Len(args) : h[j] = w
  /\ \A j \in 1 .. Len(args) : args[j] = line[h[j]]

\* to is the operand of the last w from index i on, if there is a w.
LastFrom(line, i, w, to) ==
  LET ops == Operators(line) IN
    \/ to = Nil /\ \A k \in ops : k >= i => line[k] # w
    \/ \E k \in ops : /\ k >= i /\ line[k] = w /\ line[k + 1] = to
                      /\ \A j \in ops : j > k => line[j] # w

Scanned(line, i, scan) ==
  /\ scan \in [args : Seq(Word), infile : Word \cup {Nil}, outfile : Word \cup {Nil}]
  /\ \E h : Numbers(h, line, i, scan.args)
  /\ LastFrom(line, i, "<", scan.infile)
  /\ LastFrom(line, i, ">", scan.outfile)

\* One more operator and its operand.
LEMMA OperandStep ==
  ASSUME NEW line, Len(line) \in Nat, Operators(line) \subseteq 1 .. Len(line),
         NEW i \in Operators(line), i + 1 \notin Operators(line),
         \A k \in Operators(line) : line[k + 1] # Nil,
         NEW w, NEW to, LastFrom(line, i + 2, w, to)
  PROVE  LastFrom(line, i, w, IF line[i] = w /\ to = Nil THEN line[i + 1] ELSE to)
<1> DEFINE ops == Operators(line)
<1>1. \A k \in ops : /\ k \in Nat /\ i \in Nat
                     /\ k >= i => k = i \/ k >= i + 2
                     /\ k >= i + 2 => k >= i
                     /\ k > i <=> k >= i + 2
  <2>1. ASSUME NEW k \in ops PROVE k \in Nat /\ i \in Nat /\ k # i + 1
    OBVIOUS
  <2> QED BY <2>1
<1>2. CASE to = Nil
  <2>1. \A k \in ops : k >= i + 2 => line[k] # w
    BY <1>2 DEF LastFrom
  <2>2. CASE line[i] = w
    BY <1>1, <1>2, <2>1, <2>2 DEF LastFrom
  <2>3. CASE line[i] # w
    BY <1>1, <1>2, <2>1, <2>3 DEF LastFrom
  <2> QED BY <2>2, <2>3
<1>3. CASE to # Nil
  BY <1>1, <1>3 DEF LastFrom
<1> QED BY <1>2, <1>3

\* What the scan finds from index i on, where no operand stands.
LEMMA ScanMeans ==
  ASSUME NEW line \in Seq(Word), NEW mem, Len(mem) \in Nat, Len(mem) > Len(line),
         \A k \in 1 .. Len(line) : mem[k] = line[k], mem[Len(line) + 1] = Nil,
         Len(line) \notin Operators(line)
  PROVE  Scanned(line, 1, Scan(mem))
<1> DEFINE n   == Len(line)
           ops == Operators(line)
<1>1. PICK from : /\ Scan(mem) = from[1]
                  /\ \A i \in 1 .. Len(mem) + 2 : from[i] = ScanAt(mem, from, i)
  BY ScanFunction
<1>2. /\ n \in Nat /\ ops \subseteq 1 .. n
      /\ \A k \in 1 .. n : k \in ops <=> line[k] \in Redirect /\ k - 1 \notin ops
  BY OperatorsAre
<1> HIDE DEF ops
<1>3. \A k \in 1 .. n : line[k] \in Word /\ line[k] # Nil
  BY LineAssumption
<1>4. \A k \in ops : k + 1 \in 1 .. n /\ line[k + 1] # Nil
  <2>1. \A k \in ops : k # n /\ k \in 1 .. n
    BY <1>2 DEF ops
  <2>2. \A k \in ops : k + 1 \in 1 .. n
    BY <1>2, <2>1
  <2> QED BY <1>3, <2>2
<1> DEFINE Right(i) == i - 1 \notin ops => Scanned(line, i, from[i])
           S == {d \in Nat : \A i \in 1 .. n + 1 : i + d >= n + 1 => Right(i)}
<1>5. Right(n + 1)
  <2>1. /\ Nothing \in [args : Seq(Word), infile : Word \cup {Nil}, outfile : Word \cup {Nil}]
        /\ Len(Nothing.args) = 0 /\ Nothing.infile = Nil /\ Nothing.outfile = Nil
    BY DEF Nothing
  <2>2. from[n + 1] = Nothing
    <3>1. n + 1 \in 1 .. Len(mem) + 2
      BY <1>2
    <3>2. from[n + 1] = ScanAt(mem, from, n + 1)
      BY <1>1, <3>1
    <3> QED BY <3>2 DEF ScanAt
  <2>3. WordsFrom(line, n + 1) = {}
    BY <1>2 DEF WordsFrom
  <2>4. \A k \in ops : ~(k >= n + 1)
    BY <1>2
  <2>5. Numbers(<<>>, line, n + 1, Nothing.args)
    <3>1. 1 .. Len(Nothing.args) = {}
      BY <2>1
    <3>2. <<>> \in [{} -> WordsFrom(line, n + 1)]
      OBVIOUS
    <3> QED BY <2>3, <3>1, <3>2 DEF Numbers
  <2>6. \A w : LastFrom(line, n + 1, w, Nil)
    BY <2>4 DEF LastFrom, ops
  <2> QED BY <2>1, <2>2, <2>5, <2>6 DEF Scanned
<1>6. ASSUME NEW i \in 1 .. n, i - 1 \notin ops, line[i] \in Redirect, Right(i + 2)
      PROVE  Scanned(line, i, from[i])
  <2>1. i \in ops
    BY <1>2, <1>6
  <2>2. /\ i + 1 \in 1 .. n /\ i + 1 \notin ops /\ (i + 2) - 1 = i + 1 /\ i \in 1 .. Len(mem) + 2
        /\ (i + 1) - 1 = i /\ ~(i > Len(mem))
    <3>1. i + 1 \in 1 .. n /\ (i + 1) - 1 = i /\ (i + 2) - 1 = i + 1
      BY <1>4, <2>1
    <3>2. i + 1 \notin ops
      BY <1>2, <2>1, <3>1
    <3> QED BY <1>2, <3>1, <3>2
  <2>3. PICK r : r = from[i + 2]
    OBVIOUS
  <2>4. Scanned(line, i + 2, r)
    BY <1>6, <2>2, <2>3
  <2>5. WordsFrom(line, i) = WordsFrom(line, i + 2)
    <3>1. ASSUME NEW k \in 1 .. n PROVE k >= i => k = i \/ k = i + 1 \/ k >= i + 2
      BY <1>2
    <3>2. ASSUME NEW k \in 1 .. n PROVE k >= i + 2 => k >= i
      BY <1>2
    <3>3. DOMAIN line = 1 .. n
      OBVIOUS
    <3> QED BY <2>1, <2>2, <3>1, <3>2, <3>3 DEF WordsFrom, ops
  <2>6. \A w, to : LastFrom(line, i + 2, w, to)
                   => LastFrom(line, i, w, IF line[i] = w /\ to = Nil THEN line[i + 1] ELSE to)
    BY <1>2, <1>4, <2>1, <2>2, OperandStep DEF ops
  <2>7. mem[i] = line[i] /\ mem[i + 1] = line[i + 1] /\ line[i] # Nil /\ line[i + 1] \in Word
    BY <1>3, <2>2
  <2>8. from[i] = ScanAt(mem, from, i)
    BY <1>1, <2>2
  <2>11. \A h, args : Numbers(h, line, i + 2, args) => Numbers(h, line, i, args)
    BY <2>5 DEF Numbers
  <2>9. CASE line[i] = "<"
    <3>1. from[i] = [r EXCEPT !.infile = IF @ = Nil THEN line[i + 1] ELSE @]
      BY <2>2, <2>3, <2>7, <2>8, <2>9 DEF ScanAt
    <3>2. /\ from[i] \in [args : Seq(Word), infile : Word \cup {Nil}, outfile : Word \cup {Nil}]
          /\ from[i].args = r.args /\ from[i].outfile = r.outfile
          /\ from[i].infile = IF line[i] = "<" /\ r.infile = Nil THEN line[i + 1] ELSE r.infile
          /\ r.outfile = IF line[i] = ">" /\ r.outfile = Nil THEN line[i + 1] ELSE r.outfile
      BY <2>4, <2>7, <2>9, <3>1 DEF Scanned
    <3>3. LastFrom(line, i, "<", from[i].infile) /\ LastFrom(line, i, ">", from[i].outfile)
      BY <2>4, <2>6, <3>2 DEF Scanned
    <3>4. \E h : Numbers(h, line, i, from[i].args)
      BY <2>4, <2>11, <3>2 DEF Scanned
    <3> QED BY <3>2, <3>3, <3>4 DEF Scanned
  <2>10. CASE line[i] = ">"
    <3>1. from[i] = [r EXCEPT !.outfile = IF @ = Nil THEN line[i + 1] ELSE @]
      BY <2>2, <2>3, <2>7, <2>8, <2>10 DEF ScanAt
    <3>2. /\ from[i] \in [args : Seq(Word), infile : Word \cup {Nil}, outfile : Word \cup {Nil}]
          /\ from[i].args = r.args /\ from[i].infile = r.infile
          /\ from[i].outfile = IF line[i] = ">" /\ r.outfile = Nil THEN line[i + 1] ELSE r.outfile
          /\ r.infile = IF line[i] = "<" /\ r.infile = Nil THEN line[i + 1] ELSE r.infile
      BY <2>4, <2>7, <2>10, <3>1 DEF Scanned
    <3>3. LastFrom(line, i, "<", from[i].infile) /\ LastFrom(line, i, ">", from[i].outfile)
      BY <2>4, <2>6, <3>2 DEF Scanned
    <3>4. \E h : Numbers(h, line, i, from[i].args)
      BY <2>4, <2>11, <3>2 DEF Scanned
    <3> QED BY <3>2, <3>3, <3>4 DEF Scanned
  <2> QED BY <1>6, <2>9, <2>10 DEF Redirect
<1>7. ASSUME NEW i \in 1 .. n, i - 1 \notin ops, line[i] \notin Redirect, Right(i + 1)
      PROVE  Scanned(line, i, from[i])
  <2>1. i \notin ops /\ (i + 1) - 1 = i /\ i \in 1 .. Len(mem) + 2 /\ ~(i > Len(mem)) /\ i \in DOMAIN line
    BY <1>2, <1>7
  <2>2. PICK r : r = from[i + 1]
    OBVIOUS
  <2>3. Scanned(line, i + 1, r)
    BY <1>7, <2>1, <2>2
  <2>4. mem[i] = line[i] /\ line[i] # Nil /\ line[i] \in Word
    BY <1>3
  <2>5. from[i] = [r EXCEPT !.args = <<line[i]>> \o @]
    <3>1. from[i] = ScanAt(mem, from, i)
      BY <1>1, <2>1
    <3> QED BY <1>7, <2>1, <2>2, <2>4, <3>1 DEF ScanAt, Redirect
  <2>6. /\ r \in [args : Seq(Word), infile : Word \cup {Nil}, outfile : Word \cup {Nil}]
        /\ r.args \in Seq(Word) /\ from[i].args = <<line[i]>> \o r.args
        /\ from[i].infile = r.infile /\ from[i].outfile = r.outfile
    BY <2>3, <2>5 DEF Scanned
  <2>7. from[i] \in [args : Seq(Word), infile : Word \cup {Nil}, outfile : Word \cup {Nil}]
    <3>1. <<line[i]>> \o r.args \in Seq(Word)
      BY <2>4, <2>6
    <3> QED BY <2>5, <2>6, <3>1
  <2>8. \A k \in ops : k >= i <=> k >= i + 1
    <3>1. ASSUME NEW k \in ops PROVE k \in Nat /\ k # i
      BY <1>2, <2>1
    <3> QED BY <3>1
  <2>9. \A w, to : LastFrom(line, i + 1, w, to) => LastFrom(line, i, w, to)
    BY <2>8 DEF LastFrom, ops
  <2>10. PICK h : Numbers(h, line, i + 1, r.args)
    BY <2>3 DEF Scanned
  <2>11. \E g : Numbers(g, line, i, from[i].args)
    <3>0. PICK a, b, m : a = r.args /\ b = <<line[i]>> \o a /\ m = Len(a)
      OBVIOUS
    <3> DEFINE g == [j \in 1 .. m + 1 |-> IF j = 1 THEN i ELSE h[j - 1]]
    <3>1. /\ m \in Nat /\ Len(b) = m + 1 /\ b[1] = line[i]
          /\ \A j \in 2 .. m + 1 : b[j] = a[j - 1]
      BY <2>4, <2>6, <3>0
    <3>2. \A j \in 1 .. m + 1 : j = 1 \/ (j \in 2 .. m + 1 /\ j # 1 /\ j - 1 \in 1 .. m)
      BY <3>1
    <3>3. WordsFrom(line, i) = {i} \cup WordsFrom(line, i + 1)
      <4>1. ASSUME NEW k \in DOMAIN line PROVE k >= i <=> k = i \/ k >= i + 1
        BY <1>2
      <4> QED BY <1>7, <2>1, <4>1 DEF WordsFrom, ops
    <3>4. \A w \in WordsFrom(line, i + 1) : w \in Nat /\ w > i
      BY <1>2 DEF WordsFrom
    <3>5. /\ h \in [1 .. m -> WordsFrom(line, i + 1)]
          /\ \A j, k \in 1 .. m : j < k => h[j] < h[k]
          /\ \A w \in WordsFrom(line, i + 1) : \E j \in 1 .. m : h[j] = w
          /\ \A j \in 1 .. m : a[j] = line[h[j]]
      BY <2>10, <3>0 DEF Numbers
    <3>6. g[1] = i /\ \A j \in 1 .. m : j + 1 \in 1 .. m + 1 /\ g[j + 1] = h[j]
      BY <3>1
    <3>7. \A j \in 2 .. m + 1 : g[j] = h[j - 1] /\ g[j] \in WordsFrom(line, i + 1)
      <4> SUFFICES ASSUME NEW j \in 2 .. m + 1 PROVE g[j] = h[j - 1] /\ g[j] \in WordsFrom(line, i + 1)
        OBVIOUS
      <4>1. j \in 1 .. m + 1 /\ j # 1 /\ j - 1 \in 1 .. m
        BY <3>1
      <4>2. g[j] = h[j - 1]
        BY <4>1
      <4> QED BY <3>5, <4>1, <4>2
    <3>8. g \in [1 .. m + 1 -> WordsFrom(line, i)]
      BY <3>2, <3>3, <3>7
    <3> HIDE DEF g
    <3>9. ASSUME NEW j \in 1 .. m + 1, NEW k \in 1 .. m + 1, j < k PROVE g[j] < g[k]
      <4>1. k \in 2 .. m + 1 /\ k - 1 \in 1 .. m
        BY <3>1, <3>9
      <4>2. CASE j = 1
        BY <3>4, <3>6, <3>7, <4>1, <4>2
      <4>3. CASE j # 1
        <5>1. j \in 2 .. m + 1 /\ j - 1 \in 1 .. m /\ j - 1 < k - 1
          BY <3>1, <3>9, <4>3
        <5> QED BY <3>5, <3>7, <4>1, <5>1
      <4> QED BY <4>2, <4>3
    <3>10. \A w \in WordsFrom(line, i) : \E j \in 1 .. m + 1 : g[j] = w
      <4>1. 1 \in 1 .. m + 1
        BY <3>1
      <4> SUFFICES ASSUME NEW w \in WordsFrom(line, i) PROVE \E j \in 1 .. m + 1 : g[j] = w
        OBVIOUS
      <4>2. CASE w = i
        BY <3>6, <4>1, <4>2
      <4>3. CASE w \in WordsFrom(line, i + 1)
        <5>1. PICK j \in 1 .. m : h[j] = w
          BY <3>5, <4>3
        <5> QED BY <3>6, <5>1
      <4> QED BY <3>3, <4>2, <4>3
    <3>11. \A j \in 1 .. m + 1 : b[j] = line[g[j]]
      <4> SUFFICES ASSUME NEW j \in 1 .. m + 1 PROVE b[j] = line[g[j]]
        OBVIOUS
      <4>1. CASE j = 1
        BY <3>1, <3>6, <4>1
      <4>2. CASE j \in 2 .. m + 1 /\ j - 1 \in 1 .. m
        BY <3>1, <3>5, <3>7, <4>2
      <4> QED BY <3>2, <4>1, <4>2
    <3>12. from[i].args = b
      BY <2>6, <3>0
    <3>13. 1 .. Len(b) = 1 .. m + 1
      BY <3>1
    <3>14. Numbers(g, line, i, b)
      BY <3>8, <3>9, <3>10, <3>11, <3>13 DEF Numbers
    <3> QED BY <3>12, <3>14
  <2> QED BY <2>3, <2>6, <2>7, <2>9, <2>11 DEF Scanned
<1>8. 0 \in S
  <2>1. \A i \in 1 .. n + 1 : i + 0 >= n + 1 => i = n + 1
    BY <1>2
  <2> QED BY <1>5, <2>1
<1>9. ASSUME NEW d \in Nat, d \in S PROVE d + 1 \in S
  <2> SUFFICES ASSUME NEW i \in 1 .. n + 1, i + (d + 1) >= n + 1, i - 1 \notin ops
               PROVE  Scanned(line, i, from[i])
    OBVIOUS
  <2>1. CASE i = n + 1
    BY <1>5, <2>1
  <2>2. CASE i \in 1 .. n
    <3>1. i + 1 \in 1 .. n + 1 /\ (i + 1) + d >= n + 1
      BY <1>2, <2>2
    <3>2. Right(i + 1)
      BY <1>9, <3>1
    <3>3. CASE line[i] \notin Redirect
      BY <1>7, <2>2, <3>2, <3>3
    <3>4. CASE line[i] \in Redirect
      <4>1. i \in ops
        BY <1>2, <2>2, <3>4
      <4>2. i + 2 \in 1 .. n + 1 /\ (i + 2) + d >= n + 1
        BY <1>2, <1>4, <2>2, <3>1, <4>1
      <4>3. Right(i + 2)
        BY <1>9, <4>2
      <4> QED BY <1>6, <2>2, <3>4, <4>3
    <3> QED BY <3>3, <3>4
  <2> QED BY <1>2, <2>1, <2>2
<1> HIDE DEF S
<1>10. n \in S
  BY <1>2, <1>8, <1>9, SetInduction
<1>11. 1 \in 1 .. n + 1 /\ 1 + n >= n + 1 /\ 1 - 1 = 0 /\ 0 \notin ops
  BY <1>2
<1>12. Right(1)
  BY <1>10, <1>11 DEF S
<1> QED BY <1>1, <1>11, <1>12

\* An increasing numbering takes the least to the least and the greatest to the
\* greatest.
LEMMA LeastAndGreatest ==
  ASSUME NEW m \in Nat, NEW h \in [1 .. m -> Nat],
         \A j, k \in 1 .. m : j < k => h[j] < h[k],
         NEW A \in SUBSET (1 .. m), A # {}
  PROVE  /\ Min(A) \in A /\ \A i \in A : h[Min(A)] <= h[i] /\ (h[Min(A)] < h[i] <=> i > Min(A))
         /\ Max(A) \in A /\ \A i \in A : h[i] <= h[Max(A)]
<1>1. /\ Min(A) \in A /\ \A k \in A : Min(A) <= k
      /\ Max(A) \in A /\ \A k \in A : k <= Max(A)
  BY MinMax
<1>2. ASSUME NEW j \in 1 .. m, NEW k \in 1 .. m PROVE /\ j <= k => h[j] <= h[k]
                                                      /\ h[j] < h[k] <=> k > j
  <2>1. j < k \/ j = k \/ k < j
    OBVIOUS
  <2>2. h[j] \in Nat /\ h[k] \in Nat
    OBVIOUS
  <2>3. (j < k => h[j] < h[k]) /\ (k < j => h[k] < h[j])
    OBVIOUS
  <2> QED BY <2>1, <2>2, <2>3
<1>3. Min(A) \in 1 .. m /\ Max(A) \in 1 .. m
  BY <1>1
<1>4. ASSUME NEW i \in A PROVE /\ h[Min(A)] <= h[i] /\ (h[Min(A)] < h[i] <=> i > Min(A))
                               /\ h[i] <= h[Max(A)]
  <2>1. i \in 1 .. m /\ Min(A) <= i /\ i <= Max(A)
    BY <1>1
  <2> QED BY <1>2, <1>3, <2>1
<1> QED BY <1>1, <1>4

\* What a line means is a property of the commands that lines turn into.
LEMMA CommandsMean == ASSUME cmd \in Commands PROVE LineMeaning
<1>0. PICK l \in Lines : \E mem \in Memory(l) : Scan(mem).args # <<>> /\ cmd = Command(l, mem)
  BY DEF Commands
<1>1. PICK mem \in Memory(l) : Scan(mem).args # <<>> /\ cmd = Command(l, mem)
  BY <1>0
<1>2. /\ cmd.op \in {"rm", "mkdir", "rmdir"} => cmd.src # Nil
      /\ cmd.op \in {"cp", "mv", "ln"} => cmd.dst # Nil
  BY DEF Commands
<1>3. DOMAIN Option = {"cp", "mv", "rm", "ln", "mkdir", "rmdir"} /\ cmd.op # "quiet"
  BY DEF Option, Commands
<1>4. PICK args, words, later : args = Scan(mem).args /\ words = Words(l) /\ later = Behind(words)
  OBVIOUS
<1>5. /\ cmd.line = l
      /\ cmd.op = IF args[1] \in DOMAIN Option THEN args[1]
                  ELSE IF args[1] \in Quiet THEN "quiet" ELSE "filter"
  BY <1>1, <1>4 DEF Command
<1>6. /\ words = {k \in DOMAIN l : k \notin Operators(l) /\ k - 1 \notin Operators(l)}
      /\ later = {k \in words : \E j \in words : j < k}
  BY <1>4 DEF Words, Behind
<1> SUFFICES ASSUME Len(l) \notin Operators(l) PROVE LineMeaning
  BY <1>5 DEF LineMeaning
<1>7. Scanned(l, 1, Scan(mem)) /\ l \in Seq(Word) /\ Len(l) \in Nat /\ DOMAIN l = 1 .. Len(l)
  <2>1. PICK s \in Stale : mem = l \o <<Nil>> \o s \o <<Nil>>
    BY <1>1 DEF Memory
  <2>2. l \in Seq(Word \cup {Nil}) /\ s \in Seq(Word \cup {Nil}) /\ l \in Seq(Word)
    BY LineAssumption
  <2>3. /\ Len(mem) \in Nat /\ Len(mem) > Len(l) /\ mem[Len(l) + 1] = Nil
        /\ \A k \in 1 .. Len(l) : mem[k] = l[k]
    BY <2>1, <2>2
  <2> QED BY <2>2, <2>3, ScanMeans
<1>8. Operators(l) \subseteq 1 .. Len(l)
  BY <1>7, OperatorsAre
<1> DEFINE m == Len(args)
<1>9. WordsFrom(l, 1) = words
  BY <1>6, <1>7 DEF WordsFrom
<1>10. PICK h : /\ h \in [1 .. m -> words]
                /\ \A j, k \in 1 .. m : j < k => h[j] < h[k]
                /\ \A w \in words : \E j \in 1 .. m : h[j] = w
                /\ \A j \in 1 .. m : args[j] = l[h[j]]
  BY <1>4, <1>7, <1>9 DEF Scanned, Numbers
<1>11. m \in Nat /\ m >= 1 /\ words \subseteq Nat
  BY <1>1, <1>4, <1>6, <1>7 DEF Scanned
<1>12. h \in [1 .. m -> Nat]
  BY <1>10, <1>11
<1>13. /\ \A j \in 2 .. m : h[j] \in later
       /\ \A k \in later : \E j \in 2 .. m : h[j] = k
       /\ h[1] \in words /\ \A k \in words : h[1] <= k
  <2>1. ASSUME NEW j \in 2 .. m PROVE h[j] \in later
    <3>1. j \in 1 .. m /\ 1 \in 1 .. m /\ 1 < j
      BY <1>11
    <3>2. h[1] < h[j] /\ h[1] \in words /\ h[j] \in words
      BY <1>10, <3>1
    <3> QED BY <1>6, <3>2
  <2>2. ASSUME NEW k \in later PROVE \E j \in 2 .. m : h[j] = k
    <3>1. PICK w \in words : k \in words /\ w < k
      BY <1>6
    <3>2. PICK j \in 1 .. m, i \in 1 .. m : h[j] = k /\ h[i] = w
      BY <1>10, <3>1
    <3>3. j # 1
      <4> SUFFICES ASSUME j = 1 PROVE FALSE
        OBVIOUS
      <4>1. i = 1 \/ j < i
        BY <1>11
      <4>2. h[j] \in Nat /\ h[i] \in Nat
        BY <1>12
      <4> QED BY <1>10, <3>1, <3>2, <4>1, <4>2
    <3>4. j \in 2 .. m
      BY <1>11, <3>3
    <3> QED BY <3>2, <3>4
  <2>3. h[1] \in words
    BY <1>10, <1>11
  <2>4. ASSUME NEW k \in words PROVE h[1] <= k
    <3>1. PICK j \in 1 .. m : h[j] = k
      BY <1>10
    <3>2. j = 1 \/ 1 < j
      BY <1>11
    <3>3. 1 \in 1 .. m /\ h[1] \in Nat /\ h[j] \in Nat
      BY <1>11, <1>12
    <3> QED BY <1>10, <3>1, <3>2, <3>3
  <2> QED BY <2>1, <2>2, <2>3, <2>4
<1>14. \A w : FirstIn(l, words, w) <=> w = args[1]
  <2>1. args[1] = l[h[1]] /\ h[1] \in Nat
    BY <1>10, <1>11, <1>12
  <2>2. \A k \in words : (\A j \in words : k <= j) => k = h[1]
    <3> SUFFICES ASSUME NEW k \in words, \A j \in words : k <= j PROVE k = h[1]
      OBVIOUS
    <3>1. k <= h[1] /\ h[1] <= k /\ k \in Nat /\ h[1] \in Nat
      BY <1>11, <1>13, <2>1
    <3> QED BY <3>1
  <2> QED BY <1>13, <2>1, <2>2 DEF FirstIn
<1>15. CASE cmd.op = "filter"
  <2>1. args[1] \notin DOMAIN Option \cup Quiet
    BY <1>3, <1>5, <1>15
  <2>2. cmd.src = Scan(mem).infile /\ cmd.dst = Scan(mem).outfile
    BY <1>1, <1>4, <2>1 DEF Command
  <2>3. LastFrom(l, 1, "<", cmd.src) /\ LastFrom(l, 1, ">", cmd.dst)
    BY <1>7, <2>2 DEF Scanned
  <2>4. \A k \in Operators(l) : k >= 1
    BY <1>7, <1>8
  <2>5. \A w, to : LastFrom(l, 1, w, to) => LastOperand(l, w, to)
    BY <2>4 DEF LastFrom, LastOperand
  <2> QED BY <1>4, <1>5, <1>14, <1>15, <2>1, <2>3, <2>5 DEF LineMeaning
<1>16. CASE cmd.op # "filter"
  <2>1. args[1] \in DOMAIN Option /\ cmd.op = args[1]
    BY <1>3, <1>5, <1>16
  <2>2. PICK o, names, K, K2 :
          /\ o = Option[cmd.op] /\ names = {k \in later : l[k] # o}
          /\ K = Names(args, o) /\ K2 = {i \in K : i > Min(K)}
    OBVIOUS
  <2>3. /\ cmd.flag = Given(args, o)
        /\ cmd.src = IF cmd.op = "rm" THEN Last(args, K) ELSE First(args, K)
        /\ cmd.op # "rm" => cmd.dst = First(args, K2)
    BY <1>1, <1>4, <2>1, <2>2 DEF Command, Second
  <2>4. /\ K = {i \in 2 .. m : args[i] # o} /\ K \in SUBSET (1 .. m)
        /\ \A i \in 1 .. m : h[i] \in Nat /\ args[i] = l[h[i]]
    <3>1. K = {i \in 2 .. m : args[i] # o}
      BY <2>2 DEF Names
    <3>2. \A i \in 1 .. m : h[i] \in Nat /\ args[i] = l[h[i]]
      BY <1>10, <1>12
    <3>3. \A i \in 2 .. m : i \in 1 .. m
      BY <1>11
    <3> QED BY <3>1, <3>2, <3>3
  <2>5. \A i \in 2 .. m : args[i] = l[h[i]] /\ h[i] \in later
    BY <1>11, <1>13, <2>4
  <2>6. cmd.flag = (names # later)
    <3>1. (\E i \in 2 .. m : args[i] = o) <=> (names # later)
      BY <1>13, <2>2, <2>5
    <3>2. cmd.flag = (\E i \in 2 .. m : args[i] = o)
      BY <2>3 DEF Given
    <3> QED BY <3>1, <3>2
  <2>7. (\A i \in K : h[i] \in names) /\ (\A k \in names : \E i \in K : h[i] = k)
    BY <1>13, <2>2, <2>4, <2>5
  <2>8. ASSUME K # {} PROVE /\ Min(K) \in K /\ \A i \in K : h[Min(K)] <= h[i] /\ (h[Min(K)] < h[i] <=> i > Min(K))
                            /\ Max(K) \in K /\ \A i \in K : h[i] <= h[Max(K)]
    BY <1>10, <1>11, <1>12, <2>4, <2>8, LeastAndGreatest
  <2>9. ASSUME cmd.op = "rm" PROVE LastIn(l, names, cmd.src)
    <3>1. cmd.src = Last(args, K) /\ cmd.src # Nil
      BY <1>2, <2>3, <2>9
    <3>2. K # {} /\ cmd.src = args[Max(K)]
      BY <3>1 DEF Last
    <3>3. Max(K) \in K /\ Max(K) \in 1 .. m
      BY <2>4, <2>8, <3>2
    <3>4. ASSUME NEW j \in names PROVE j <= h[Max(K)]
      <4>1. PICK i \in K : h[i] = j
        BY <2>7
      <4> QED BY <2>8, <3>2, <4>1
    <3>5. h[Max(K)] \in names /\ cmd.src = l[h[Max(K)]]
      BY <2>4, <2>7, <3>2, <3>3
    <3> QED BY <3>4, <3>5 DEF LastIn
  <2>10. ASSUME cmd.op # "rm"
         PROVE  /\ FirstIn(l, names, cmd.src)
                /\ cmd.op \in {"cp", "mv", "ln"} => FirstIn(l, Behind(names), cmd.dst)
    <3>1. cmd.src = First(args, K) /\ cmd.dst = First(args, K2)
      BY <2>3, <2>10
    <3>2. cmd.op \in {"cp", "mv", "ln"} => K2 # {} /\ cmd.dst = args[Min(K2)]
      BY <1>2, <3>1 DEF First
    <3>3. K # {} /\ cmd.src = args[Min(K)]
      <4>1. cmd.op \in {"cp", "mv", "ln"} => K # {}
        BY <2>2, <3>2
      <4>2. cmd.op \in {"mkdir", "rmdir"} => cmd.src # Nil
        BY <1>2
      <4>3. cmd.op \in {"cp", "mv", "ln", "mkdir", "rmdir"}
        BY <1>3, <2>1, <2>10
      <4> QED BY <3>1, <4>1, <4>2, <4>3 DEF First
    <3>4. Min(K) \in K /\ Min(K) \in 1 .. m /\ h[Min(K)] \in names
      BY <2>4, <2>7, <2>8, <3>3
    <3>5. ASSUME NEW j \in names PROVE h[Min(K)] <= j
      <4>1. PICK i \in K : h[i] = j
        BY <2>7
      <4> QED BY <2>8, <3>3, <4>1
    <3>6. FirstIn(l, names, cmd.src)
      BY <2>4, <3>3, <3>4, <3>5 DEF FirstIn
    <3>7. (\A i \in K2 : h[i] \in Behind(names)) /\ (\A k \in Behind(names) : \E i \in K2 : h[i] = k)
      <4>1. ASSUME NEW i \in K2 PROVE h[i] \in Behind(names)
        BY <2>2, <2>7, <2>8, <3>3, <3>4 DEF Behind
      <4>2. ASSUME NEW k \in Behind(names) PROVE \E i \in K2 : h[i] = k
        <5>1. PICK j \in names : k \in names /\ j < k
          BY DEF Behind
        <5>2. PICK i \in K, i0 \in K : h[i] = k /\ h[i0] = j
          BY <2>7, <5>1
        <5>3. h[Min(K)] <= j /\ h[Min(K)] \in Nat /\ j \in Nat /\ k \in Nat
          BY <2>4, <3>4, <3>5, <5>2
        <5>4. h[Min(K)] < h[i]
          BY <5>1, <5>2, <5>3
        <5>5. i \in K2
          BY <2>2, <2>8, <3>3, <5>4
        <5> QED BY <5>2, <5>5
      <4> QED BY <4>1, <4>2
    <3>8. K2 \in SUBSET (1 .. m)
      BY <2>2, <2>4
    <3>9. ASSUME cmd.op \in {"cp", "mv", "ln"} PROVE FirstIn(l, Behind(names), cmd.dst)
      <4>1. Min(K2) \in K2 /\ \A i \in K2 : h[Min(K2)] <= h[i]
        BY <1>10, <1>11, <1>12, <3>2, <3>8, <3>9, LeastAndGreatest
      <4>2. h[Min(K2)] \in Behind(names) /\ cmd.dst = l[h[Min(K2)]]
        BY <2>4, <3>2, <3>7, <3>8, <3>9, <4>1
      <4>3. ASSUME NEW j \in Behind(names) PROVE h[Min(K2)] <= j
        <5>1. PICK i \in K2 : h[i] = j
          BY <3>7
        <5> QED BY <4>1, <5>1
      <4> QED BY <4>2, <4>3 DEF FirstIn
    <3> QED BY <3>6, <3>9
  <2>11. FirstIn(l, words, cmd.op)
    BY <1>14, <2>1
  <2> QED BY <1>4, <1>5, <1>16, <2>2, <2>6, <2>9, <2>10, <2>11 DEF LineMeaning
<1> QED BY <1>15, <1>16

-----------------------------------------------------------------------------
(* Paths.                                                                  *)

\* A path that is not a link leads where it says.
LEMMA FollowStays ==
  ASSUME NEW hops, NEW n, n \in Name => hops[n] = n
  PROVE  Follow(hops, n) = n
<1> DEFINE N == Cardinality(Name)
           W(w, m) == w = [k \in 0 .. m |-> IF k = 0 THEN n
                                           ELSE IF w[k - 1] \in Name THEN hops[w[k - 1]] ELSE w[k - 1]]
           w0 == [k \in 0 .. N |-> n]
<1>1. N \in Nat
  BY NameAssumption, FS_CardinalityType
<1>2. W(w0, N)
  <2>1. ASSUME NEW k \in 0 .. N, k # 0 PROVE w0[k - 1] = n
    <3>1. k - 1 \in 0 .. N
      BY <1>1, <2>1
    <3> QED BY <3>1
  <2>2. w0 = [k \in 0 .. N |-> IF k = 0 THEN n
                               ELSE IF w0[k - 1] \in Name THEN hops[w0[k - 1]] ELSE w0[k - 1]]
    BY <2>1
  <2> QED BY <2>2
<1> DEFINE walk == CHOOSE w : W(w, N)
<1> HIDE DEF w0
<1>3. W(walk, N)
  BY <1>2
<1> HIDE DEF walk
<1> DEFINE S == {k \in Nat : k <= N => walk[k] = n}
<1>4. 0 \in S
  BY <1>1, <1>3
<1>5. ASSUME NEW k \in Nat, k \in S PROVE k + 1 \in S
  <2> SUFFICES ASSUME k + 1 <= N PROVE walk[k + 1] = n
    OBVIOUS
  <2>1. k + 1 \in 0 .. N /\ k + 1 # 0 /\ (k + 1) - 1 = k /\ k <= N
    BY <1>1
  <2>2. walk[k] = n
    BY <1>5, <2>1
  <2>3. walk[k + 1] = IF walk[(k + 1) - 1] \in Name THEN hops[walk[(k + 1) - 1]] ELSE walk[(k + 1) - 1]
    BY <1>3, <2>1
  <2> QED BY <2>1, <2>2, <2>3
<1> HIDE DEF S
<1>6. Nat \subseteq S
  BY <1>4, <1>5, SetInduction
<1>7. walk[N] = n
  BY <1>1, <1>6 DEF S
<1>8. Follow(hops, n) = walk[N]
  BY DEF Follow, walk
<1> QED BY <1>7, <1>8

\* open and access see the inode of a name that is no link.
LEMMA LookupDirect ==
  ASSUME NEW d, NEW f, NEW n \in Name, d[n] # Nil, f[d[n]].kind # "link"
  PROVE  Lookup(d, f, n) = d[n]
<1>1. ~IsLink(d, f, n) /\ Hops(d, f)[n] = n
  BY DEF IsLink, At, Hops
<1>2. Resolve(d, f, n) = n
  BY <1>1, FollowStays DEF Resolve
<1> QED BY <1>1, <1>2 DEF Lookup, At

\* Lookup finds an inode that a name leads to, and that is no link, or none.
LEMMA LookupFinds ==
  ASSUME NEW d, NEW f, NEW n, Lookup(d, f, n) # Nil
  PROVE  /\ Resolve(d, f, n) \in Name /\ Lookup(d, f, n) = d[Resolve(d, f, n)]
         /\ f[Lookup(d, f, n)].kind # "link"
BY DEF Lookup, IsLink, At

\* To write to a file changes no path.
LEMMA WriteKeepsPaths ==
  ASSUME NEW d, NEW f, NEW g, NEW i, f[i].kind = "file", g[i].kind = "file",
         \A n \in Name : d[n] # Nil /\ d[n] # i => g[d[n]] = f[d[n]]
  PROVE  /\ \A n : Resolve(d, g, n) = Resolve(d, f, n)
         /\ \A n : Lookup(d, g, n) = Lookup(d, f, n)
<1>1. \A n \in Name : IsLink(d, g, n) <=> IsLink(d, f, n)
  BY DEF IsLink, At
<1>2. \A n \in Name : IsLink(d, f, n) => g[d[n]] = f[d[n]]
  BY DEF IsLink, At
<1>3. Hops(d, g) = Hops(d, f)
  BY <1>1, <1>2 DEF Hops
<1>4. \A n : Resolve(d, g, n) = Resolve(d, f, n)
  BY <1>3 DEF Resolve
<1>5. \A n : IsLink(d, g, n) <=> IsLink(d, f, n)
  BY <1>1 DEF IsLink, At
<1> QED BY <1>4, <1>5 DEF Lookup

\* From d and f to e and g, m has got a file, and nothing else has changed.
Created(d, f, e, g, m) ==
  /\ m \in Name /\ d[m] = Nil /\ e[m] # Nil /\ g[e[m]].kind = "file"
  /\ \A k \in Name \ {m} : e[k] = d[k]
  /\ \A k \in Name : d[k] # Nil => g[d[k]] = f[d[k]]

\* Nor does a new file, except that it is found now.
LEMMA CreateFound ==
  ASSUME NEW d, NEW e, NEW f, NEW g, NEW n, Created(d, f, e, g, Resolve(d, f, n))
  PROVE  Lookup(e, g, n) = e[Resolve(d, f, n)]
<1> DEFINE m == Resolve(d, f, n)
<1> HIDE DEF m
<1>0. /\ m \in Name /\ d[m] = Nil /\ e[m] # Nil /\ g[e[m]].kind = "file"
      /\ \A k \in Name \ {m} : e[k] = d[k]
      /\ \A k \in Name : d[k] # Nil => g[d[k]] = f[d[k]]
  BY DEF m, Created
<1>1. \A k \in Name : IsLink(e, g, k) <=> IsLink(d, f, k)
  BY <1>0 DEF IsLink, At
<1>2. \A k \in Name : IsLink(d, f, k) => e[k] = d[k] /\ g[d[k]] = f[d[k]]
  BY <1>0 DEF IsLink, At
<1>3. Hops(e, g) = Hops(d, f)
  BY <1>1, <1>2 DEF Hops
<1>4. Resolve(e, g, n) = m
  BY <1>3 DEF Resolve, m
<1>5. ~IsLink(e, g, m) /\ At(e, m) = e[m]
  BY <1>0 DEF IsLink, At
<1> QED BY <1>4, <1>5 DEF Lookup, m

\* What is left of a text after its first n blocks.
LEMMA Left ==
  ASSUME NEW s \in Seq(Nat), NEW n \in Nat
  PROVE  /\ n < Len(s) => /\ SubSeq(s, n + 1, Len(s)) # <<>>
                          /\ Head(SubSeq(s, n + 1, Len(s))) = s[n + 1]
                          /\ Append(SubSeq(s, 1, n), s[n + 1]) = SubSeq(s, 1, n + 1)
                          /\ SubSeq(s, 1, n) \in Seq(Nat) /\ s[n + 1] \in Nat
         /\ n >= Len(s) => SubSeq(s, n + 1, Len(s)) = <<>>
<1>0. Len(s) \in Nat /\ DOMAIN s = 1 .. Len(s)
  OBVIOUS
<1>1. ASSUME n >= Len(s) PROVE SubSeq(s, n + 1, Len(s)) = <<>>
  BY <1>0, <1>1, SubSeqEmpty
<1>2. ASSUME n < Len(s)
      PROVE  /\ SubSeq(s, n + 1, Len(s)) # <<>>
             /\ Head(SubSeq(s, n + 1, Len(s))) = s[n + 1]
             /\ Append(SubSeq(s, 1, n), s[n + 1]) = SubSeq(s, 1, n + 1)
             /\ SubSeq(s, 1, n) \in Seq(Nat) /\ s[n + 1] \in Nat
  <2>1. n + 1 \in 1 .. Len(s) /\ 1 \in 1 .. Len(s) /\ Len(s) \in n + 1 .. Len(s) /\ n + 1 \in 1 .. Len(s)
    BY <1>0, <1>2
  <2>2. \A i \in n + 1 .. Len(s) : s[i] \in Nat
    BY <1>0
  <2>3. Len(SubSeq(s, n + 1, Len(s))) # 0
    <3>1. Len(SubSeq(s, n + 1, Len(s))) = IF n + 1 <= Len(s) THEN Len(s) - (n + 1) + 1 ELSE 0
      BY <1>0, <2>2, SubSeqProperties
    <3>0. \A m, k \in Nat : k < m => k + 1 <= m /\ m - (k + 1) + 1 # 0
      OBVIOUS
    <3>2. n + 1 <= Len(s) /\ Len(s) - (n + 1) + 1 # 0
      BY ONLY <1>0, <1>2, <3>0, n \in Nat
    <3> QED BY <3>1, <3>2
  <2>4. SubSeq(s, n + 1, Len(s)) # <<>>
    <3>1. Len(<<>>) = 0
      OBVIOUS
    <3> QED BY <2>3, <3>1, Zenon
  <2>5. Head(SubSeq(s, n + 1, Len(s))) = s[n + 1]
    BY <2>1, HeadTailOfSubSeq
  <2>6. SubSeq(s, 1, n) \in Seq(Nat) /\ s[n + 1] \in Nat
    <3>1. \A i \in 1 .. n : s[i] \in Nat
      BY <1>0, <1>2
    <3> QED BY <2>1, <3>1, <1>0, SubSeqProperties
  <2>7. Append(SubSeq(s, 1, n), s[n + 1]) = SubSeq(s, 1, n + 1)
    <3>1. SubSeq(s, 1, n + 1) = SubSeq(s, 1, (n + 1) - 1) \o <<s[n + 1]>>
      BY <2>1, SubSeqRecursiveSecond
    <3>2. SubSeq(s, 1, n) \o <<s[n + 1]>> = Append(SubSeq(s, 1, n), s[n + 1])
      BY <2>6
    <3>3. (n + 1) - 1 = n
      OBVIOUS
    <3> QED BY <3>1, <3>2, <3>3
  <2> QED BY <2>4, <2>5, <2>6, <2>7
<1> QED BY <1>1, <1>2

-----------------------------------------------------------------------------
(* Inodes.                                                                 *)

LEMMA CommandKinds ==
  ASSUME NEW c \in Commands
  PROVE  /\ c.op \in {"cp", "mv", "rm", "ln", "mkdir", "rmdir", "filter"}
         /\ c.op = "filter" => ~c.flag
<1>1. c.op \in {"cp", "mv", "rm", "ln", "mkdir", "rmdir", "filter"}
  BY DEF Commands
<1>2. PICK l, mem : c = Command(l, mem)
  BY DEF Commands
<1>3. c.op = "filter" => c.flag = FALSE
  <2>1. DOMAIN Option = {"cp", "mv", "rm", "ln", "mkdir", "rmdir"}
    BY DEF Option
  <2>2. CASE Scan(mem).args[1] \in DOMAIN Option
    <3>1. c.op = Scan(mem).args[1]
      BY <1>2, <2>2 DEF Command
    <3> QED BY <2>1, <2>2, <3>1
  <2>3. CASE Scan(mem).args[1] \notin DOMAIN Option
    BY <1>2, <2>3 DEF Command
  <2> QED BY <2>2, <2>3
<1> QED BY <1>1, <1>3

\* An inode is free only if it is Free; a file is what File says.
LEMMA Kinds ==
  ASSUME NEW f, Sound(f), NEW i \in Inode
  PROVE  /\ f[i] \in Nodes /\ f[i].text \in Seq(Nat)
         /\ (f[i] = Free) <=> (f[i].kind = "free")
         /\ (f[i] = Dir) <=> (f[i].kind = "dir")
         /\ f[i].kind = "file" => f[i] = File(f[i].text)
         /\ f[i].kind # "file" => f[i].text = <<>>
<1>1. f[i] \in Nodes /\ (f[i].kind # "file" => f[i].text = <<>>) /\ (f[i].kind # "link" => f[i].to = Nil)
  BY DEF Sound
<1> QED BY <1>1 DEF Nodes, Free, Dir, File

\* What an inode can be made.
LEMMA NewNodes ==
  /\ \A t \in Seq(Nat) : File(t) \in Nodes /\ File(t).kind = "file" /\ File(t).text = t /\ File(t).to = Nil
  /\ File(<<>>) \in Nodes /\ File(<<>>).kind = "file" /\ File(<<>>).to = Nil /\ File(<<>>) # Free
  /\ \A n \in Target : Link(n) \in Nodes /\ Link(n).kind = "link" /\ Link(n).text = <<>>
  /\ Dir \in Nodes /\ Dir.kind = "dir" /\ Dir.text = <<>> /\ Dir.to = Nil
  /\ Free \in Nodes /\ Free.kind = "free" /\ Free.text = <<>> /\ Free.to = Nil
<1>1. <<>> \in Seq(Nat)
  OBVIOUS
<1> QED BY <1>1 DEF Nodes, File, Link, Dir, Free

\* What Disk leaves: nothing that is free is in use, and nothing else.
LEMMA DiskTyped ==
  ASSUME NEW d \in [Name -> Inode \cup {Nil}], NEW f, Sound(f), Disk(d, f),
         sfd' \in Inode \cup {Nil}, dfd' \in Inode \cup {Nil},
         \A i \in InUse(d, {sfd', dfd'}) : f[i] # Free
  PROVE  /\ dir' = d /\ dir' \in [Name -> Inode \cup {Nil}] /\ Sound(node')
         /\ \A i \in Inode : /\ (node'[i] = Free) <=> i \notin InUse(dir', {sfd', dfd'})
                             /\ node'[i].kind \in {"file", "dir", "link", "free"}
         /\ \A i \in InUse(d, {sfd', dfd'}) : i \in Inode /\ node'[i] = f[i]
         /\ \A n \in Name : dir'[n] # Nil => node'[dir'[n]] = f[dir'[n]]
<1>1. /\ dir' = d
      /\ node' = [i \in Inode |-> IF i \in InUse(d, {sfd', dfd'}) THEN f[i] ELSE Free]
  BY DEF Disk
<1>2. \A i \in InUse(d, {sfd', dfd'}) : i \in Inode
  BY DEF InUse
<1>3. Sound(node')
  BY <1>1, NewNodes DEF Sound
<1>4. \A i \in Inode : node'[i].kind \in {"file", "dir", "link", "free"}
  BY <1>3 DEF Sound, Nodes
<1>5. \A n \in Name : d[n] # Nil => d[n] \in InUse(d, {sfd', dfd'})
  BY DEF InUse
<1>6. \A i \in Inode : (node'[i] = Free) <=> i \notin InUse(dir', {sfd', dfd'})
  BY <1>1
<1> QED BY <1>1, <1>2, <1>3, <1>4, <1>5, <1>6

\* What Disk leaves when nothing else of f is in use.
LEMMA DiskIs ==
  ASSUME NEW d, NEW f, Sound(f), Disk(d, f),
         \A i \in Inode : i \notin InUse(d, {sfd', dfd'}) => f[i] = Free
  PROVE  dir' = d /\ node' = f
BY DEF Disk, Sound

-----------------------------------------------------------------------------
(* What the parts of the invariant say of each other.                      *)

\* A step that leaves the disk alone.
LEMMA DiskSame ==
  ASSUME ShellInv, UNCHANGED <<dir, node, cmd, old>>
  PROVE  /\ Sound(node)' /\ Before' /\ Src' = Src /\ Dst' = Dst /\ Calm' = Calm
         /\ (Untouched => Untouched') /\ (Nowhere => Nowhere')
         /\ \A t : Holds(t) => Holds(t)'
         /\ Lookup(dir, node, cmd.dst)' = Lookup(dir, node, cmd.dst)
<1>1. Sound(node)' /\ Src' = Src /\ Dst' = Dst /\ Calm' = Calm
  BY DEF ShellInv, Sound, Src, Dst, Calm
<1>2. Before'
  BY DEF ShellInv, Before, Calm, Sound, InUse
<1>3. (Untouched => Untouched') /\ (Nowhere => Nowhere')
  BY DEF Untouched, Nowhere, Dst
<1>4. \A t : Holds(t) => Holds(t)'
  BY DEF Holds, Dst
<1> QED BY <1>1, <1>2, <1>3, <1>4

-----------------------------------------------------------------------------
(* The steps.                                                              *)

LEMMA ShellInvInit == Init => ShellInv
<1> SUFFICES ASSUME Init PROVE ShellInv
  OBVIOUS
<1> USE DEF Init
<1>1. \A i \in Inode : node[i] \in {File(t) : t \in Text} \cup {Link(n) : n \in Name} \cup {Dir, Free}
  OBVIOUS
<1>2. Sound(node)
  <2>1. \A i \in Inode : /\ node[i] \in Nodes /\ (node[i].kind # "file" => node[i].text = <<>>)
                         /\ (node[i].kind # "link" => node[i].to = Nil)
    <3> SUFFICES ASSUME NEW i \in Inode
                 PROVE  /\ node[i] \in Nodes /\ (node[i].kind # "file" => node[i].text = <<>>)
                        /\ (node[i].kind # "link" => node[i].to = Nil)
      OBVIOUS
    <3>1. CASE node[i] \in {File(t) : t \in Text}
      BY <3>1, NewNodes, TextAssumption
    <3>2. CASE node[i] \in {Link(n) : n \in Name}
      BY <3>2, NewNodes DEF Target
    <3>3. CASE node[i] \in {Dir, Free}
      BY <3>3, NewNodes
    <3> QED BY <1>1, <3>1, <3>2, <3>3
  <2> QED BY <2>1 DEF Sound
<1>3. InUse(dir, {sfd, dfd}) = InUse(dir, {})
  BY DEF InUse
<1>4. TypeOK
  BY <1>2, <1>3 DEF TypeOK, Sound, Nodes
<1>5. Before /\ Stages /\ Unseen /\ Waiting /\ Opened /\ Copying /\ Copied /\ NotRun
  BY DEF Before, Stages, Unseen, Waiting, Opened, Copying, Copied, NotRun, Calm
<1> QED BY <1>2, <1>4, <1>5 DEF ShellInv

LEMMA ShellInvType == ASSUME ShellInv, NEW c \in Commands, Type(c) PROVE ShellInv'
<1> USE DEF Type, disk, files
<1>0. sfd = Nil /\ dfd = Nil /\ InUse(dir, {sfd, dfd}) = InUse(dir, {}) /\ TypeOK /\ Sound(node)
  BY DEF ShellInv, TypeOK, InUse
<1>1. pc' = Begin(c) /\ cmd' = c /\ pc' \in {"open_src", "call", "ask", "access"}
  BY DEF Begin, Work
<1>2. c.op \in {"cp", "mv", "rm", "ln", "mkdir", "rmdir", "filter"}
  BY CommandKinds
<1>3. TypeOK' /\ Sound(node)'
  <2>1. UNCHANGED <<dir, node, sfd, dfd, off>> /\ out' = "none" /\ yes' = FALSE /\ cmd' \in Commands
        /\ mishap' = {} /\ late' = FALSE
    BY <1>1
  <2>2. TypeOK /\ sfd = Nil /\ dfd = Nil /\ InUse(dir, {sfd, dfd})' = InUse(dir, {sfd, dfd})
    BY <1>0, <2>1 DEF InUse
  <2>3. TypeOK'
    BY <1>1, <2>1, <2>2 DEF TypeOK
  <2> QED BY <1>0, <2>1, <2>3 DEF Sound
<1>4. Untouched' /\ Before'
  BY <1>0 DEF Untouched, Before, TypeOK, Sound, InUse
<1>5. Stages'
  <2>1. dfd' = Nil
    BY <1>0
  <2> QED BY <1>1, <1>2, <2>1 DEF Stages, Begin, Work
<1>6. Waiting' /\ Opened' /\ Copying' /\ Copied' /\ NotRun'
  BY <1>1, <1>4 DEF Waiting, Opened, Copying, Copied, NotRun
<1>7. Unseen'
  BY <1>1 DEF Unseen, Begin
<1> QED BY <1>3, <1>4, <1>5, <1>6, <1>7 DEF ShellInv

LEMMA ShellInvAccess == ASSUME ShellInv, Access PROVE ShellInv'
<1> USE DEF Access, disk, files
<1>0. TypeOK /\ Stages /\ UNCHANGED <<dir, node, cmd, sfd, dfd, off, yes, mishap, old, out>>
      /\ pc = "access" /\ late' = FALSE
  BY DEF ShellInv, Goto
<1>1. pc' \in {"ask", Work(cmd.op)} /\ pc' \in {"ask", "open_src", "call"}
  BY DEF Goto, Work
<1>2. TypeOK'
  <2>1. pc' \in {"ask", "open_src", "call"} /\ late' \in BOOLEAN
    BY <1>0, <1>1
  <2> QED BY <1>0, <2>1 DEF TypeOK, InUse
<1>3. Calm' => Untouched /\ Untouched'
  BY <1>0, DiskSame DEF ShellInv, Waiting
<1>4. Stages'
  <2>1. cmd.op # "rm" /\ mishap = {}
    BY <1>0 DEF Stages
  <2> QED BY <1>0, <1>1, <2>1 DEF Stages, Work
<1>5. Waiting' /\ Opened' /\ Copying' /\ Copied' /\ NotRun'
  BY <1>1, <1>3 DEF Waiting, Opened, Copying, Copied, NotRun
<1>6. Unseen'
  <2>1. pc' # "ask" => Lookup(dir, node, cmd.dst) = Nil
    BY DEF Goto, There
  <2> QED BY <1>0, <2>1, DiskSame DEF Unseen
<1> QED BY <1>0, <1>2, <1>4, <1>5, <1>6, DiskSame DEF ShellInv

LEMMA ShellInvAnswer == ASSUME ShellInv, Answer PROVE ShellInv'
<1> USE DEF Answer, disk, files
<1>0. TypeOK /\ Stages /\ UNCHANGED <<dir, node, cmd, sfd, dfd, off, mishap, late, old>> /\ pc = "ask"
  BY DEF ShellInv
<1>1. \/ yes' = TRUE /\ pc' = Work(cmd.op) /\ out' = out
      \/ pc' = "prompt" /\ out' = "refused" /\ yes' = FALSE
  BY DEF Goto, Return
<1>2. TypeOK'
  <2>1. pc' \in {"open_src", "call", "prompt"} /\ out' \in {out, "refused"} /\ yes' \in BOOLEAN
    BY <1>1 DEF Work
  <2> QED BY <1>0, <2>1 DEF TypeOK, InUse
<1>3. Calm' => Untouched'
  BY <1>0, DiskSame DEF ShellInv, Waiting
<1>4. Stages'
  BY <1>0, <1>1 DEF Stages, Work
<1>5. Waiting' /\ Opened' /\ Copying' /\ Copied' /\ NotRun'
  BY <1>1, <1>3 DEF Waiting, Opened, Copying, Copied, NotRun, Work
<1>6. Unseen'
  BY <1>0, <1>1 DEF Unseen
<1> QED BY <1>0, <1>2, <1>4, <1>5, <1>6, DiskSame DEF ShellInv

LEMMA ShellInvOpenSrc == ASSUME ShellInv, OpenSrc PROVE ShellInv'
<1> USE DEF OpenSrc, disk, ghosts
<1> DEFINE i == Lookup(dir, node, cmd.src)
<1>0. TypeOK /\ Stages /\ UNCHANGED <<dir, node, cmd, dfd, yes, mishap, late, old>> /\ pc = "open_src"
      /\ sfd' = i /\ off' = 0
  BY DEF ShellInv
<1>1. \/ i = Nil /\ cmd.op = "cp" /\ pc' = "prompt" /\ out' = "failed"
      \/ ~(i = Nil /\ cmd.op = "cp") /\ pc' = "open_dst" /\ out' = out
  BY DEF Goto, Return
<1>2. sfd = Nil /\ dfd = Nil /\ (i # Nil => i \in Inode /\ i \in InUse(dir, {}))
  <2>1. i # Nil => Resolve(dir, node, cmd.src) \in Name /\ i = dir[Resolve(dir, node, cmd.src)]
    BY LookupFinds
  <2> QED BY <1>0, <2>1 DEF TypeOK, InUse
<1>3. InUse(dir, {sfd', dfd'}) = InUse(dir, {sfd, dfd})
  BY <1>0, <1>2 DEF InUse
<1>4. TypeOK'
  BY <1>0, <1>1, <1>2, <1>3 DEF TypeOK
<1>5. Calm' => Untouched /\ Untouched'
  BY <1>0, DiskSame DEF ShellInv, Waiting
<1>6. Stages'
  BY <1>0, <1>1 DEF Stages
<1>7. Opened'
  <2>1. Calm' => sfd' = Src'
    BY <1>0, <1>5 DEF Src, Untouched
  <2>2. pc' = "open_dst" /\ cmd'.op = "cp" => sfd' # Nil
    BY <1>0, <1>1
  <2> QED BY <1>1, <2>1, <2>2 DEF Opened
<1>8. Waiting' /\ Copying' /\ Copied' /\ NotRun'
  BY <1>0, <1>1, <1>5 DEF Stages, Waiting, Copying, Copied, NotRun
<1>9. Unseen'
  BY <1>0, <1>1, DiskSame DEF ShellInv, Unseen
<1> QED BY <1>0, <1>4, <1>6, <1>7, <1>8, <1>9, DiskSame DEF ShellInv

LEMMA ShellInvForkFails == ASSUME ShellInv, ForkFails PROVE ShellInv'
<1>0. /\ TypeOK /\ Stages /\ UNCHANGED <<dir, node, cmd, sfd, dfd, off, yes, mishap, late, old>>
      /\ pc = "open_src" /\ pc' = "prompt" /\ out' = "failed"
  BY DEF ShellInv, ForkFails, disk, files, ghosts, Return
<1>1. TypeOK'
  BY <1>0 DEF TypeOK, InUse
<1>2. Calm' => Untouched'
  BY <1>0, DiskSame DEF ShellInv, Waiting
<1>3. Stages' /\ Unseen' /\ Waiting' /\ Opened' /\ Copying' /\ Copied' /\ NotRun'
  BY <1>0, <1>2 DEF Stages, Unseen, Waiting, Opened, Copying, Copied, NotRun
<1> QED BY <1>0, <1>1, <1>3, DiskSame DEF ShellInv

\* What a failed open says of the destination.
LEMMA FailsMeans ==
  ASSUME TypeOK, Sound(node), Fails(Resolve(dir, node, cmd.dst))
  PROVE  LET d == Lookup(dir, node, cmd.dst) IN d = Nil \/ node[d] = Dir
<1> DEFINE m == Resolve(dir, node, cmd.dst)
           d == Lookup(dir, node, cmd.dst)
<1> SUFFICES ASSUME d # Nil PROVE node[d] = Dir
  OBVIOUS
<1>1. m \in Name /\ d = dir[m] /\ node[d].kind # "link"
  BY LookupFinds
<1>2. d \in Inode /\ d \in InUse(dir, {sfd, dfd})
  BY <1>1 DEF TypeOK, InUse
<1>3. node[d] # Free /\ node[d].kind \in {"file", "dir", "link", "free"}
  BY <1>2 DEF TypeOK
<1>4. node[d].kind # "file"
  BY <1>1 DEF Fails, IsFile
<1> QED BY <1>1, <1>2, <1>3, <1>4, Kinds

\* What there is to copy is a text.
LEMMA WholeText ==
  ASSUME Before, Calm
  PROVE  Whole \in Seq(Nat) /\ (Src # Nil => Src \in Inode /\ old.node[Src] # Free)
<1>1. Src # Nil => Src \in Inode /\ old.node[Src] # Free
  <2> SUFFICES ASSUME Src # Nil PROVE Src \in Inode /\ old.node[Src] # Free
    OBVIOUS
  <2>1. Resolve(old.dir, old.node, cmd.src) \in Name /\ Src = old.dir[Resolve(old.dir, old.node, cmd.src)]
    BY LookupFinds DEF Src
  <2>2. Src \in Inode /\ Src \in InUse(old.dir, {})
    BY <2>1 DEF Before, InUse
  <2> QED BY <2>2 DEF Before
<1>2. Src # Nil => old.node[Src].text \in Seq(Nat)
  BY <1>1, Kinds DEF Before
<1> QED BY <1>1, <1>2 DEF Whole

LEMMA ShellInvOpenDst == ASSUME ShellInv, OpenDst PROVE ShellInv'
<1> DEFINE m == Resolve(dir, node, cmd.dst)
           i == At(dir, m)
<1>0. /\ TypeOK /\ Sound(node) /\ Stages /\ pc = "open_dst"
      /\ UNCHANGED <<cmd, off, yes, mishap, late, old>> /\ mishap = {}
      /\ cmd.op \in {"cp", "filter"} /\ dfd = Nil /\ sfd \in Inode \cup {Nil} /\ off = 0
      /\ dir \in [Name -> Inode \cup {Nil}]
  BY DEF ShellInv, OpenDst, OpenDstOr, Stages, TypeOK, ghosts
<1>1. Src' = Src /\ Dst' = Dst /\ Calm' = Calm /\ Before'
  BY <1>0 DEF ShellInv, Before, Src, Dst, Calm, Sound, InUse
<1>2. Calm => Untouched /\ sfd = Src /\ (cmd.op = "cp" => Src # Nil)
  BY <1>0 DEF ShellInv, Waiting, Opened
<1>3. \A x \in Inode : (node[x] = Free) <=> x \notin InUse(dir, {sfd, dfd})
  BY <1>0 DEF TypeOK
<1>4. Calm => sfd \notin Inode \/ sfd \in InUse(dir, {})
  <2>1. Calm /\ sfd # Nil => Resolve(dir, node, cmd.src) \in Name /\ sfd = dir[Resolve(dir, node, cmd.src)]
    BY <1>2, LookupFinds DEF Src, Untouched
  <2> QED BY <2>1, InodeAssumption DEF InUse
<1>6. CASE /\ Fails(m)
           /\ dfd' = Nil
           /\ IF cmd.op = "cp" THEN Return("failed") /\ sfd' = Nil
                               ELSE Goto("copy") /\ UNCHANGED sfd
           /\ Disk(dir, node)
  <2>1. /\ dfd' = Nil /\ sfd' \in {sfd, Nil}
        /\ \/ cmd.op = "cp" /\ pc' = "prompt" /\ out' = "failed" /\ sfd' = Nil
           \/ cmd.op = "filter" /\ pc' = "copy" /\ out' = out /\ sfd' = sfd
    BY <1>0, <1>6 DEF Return, Goto
  <2>2. \A x \in InUse(dir, {sfd', dfd'}) : node[x] # Free
    <3>1. InUse(dir, {sfd', dfd'}) \subseteq InUse(dir, {sfd, dfd})
      BY <1>0, <2>1 DEF InUse
    <3>2. InUse(dir, {sfd, dfd}) \subseteq Inode
      BY <1>0 DEF InUse
    <3> QED BY <1>3, <3>1, <3>2
  <2>3. /\ dir' = dir /\ dir' \in [Name -> Inode \cup {Nil}] /\ Sound(node')
        /\ \A x \in Inode : /\ (node'[x] = Free) <=> x \notin InUse(dir', {sfd', dfd'})
                            /\ node'[x].kind \in {"file", "dir", "link", "free"}
    <3>1. sfd' \in Inode \cup {Nil} /\ dfd' \in Inode \cup {Nil} /\ Disk(dir, node)
      BY <1>0, <1>6, <2>1
    <3> QED BY <1>0, <2>2, <3>1, DiskTyped
  <2>4. TypeOK'
    BY <1>0, <2>1, <2>3 DEF TypeOK
  <2>5. Calm => Untouched'
    <3> SUFFICES ASSUME Calm PROVE Untouched'
      OBVIOUS
    <3>1. \A x \in Inode : x \notin InUse(dir, {sfd', dfd'}) => node[x] = Free
      BY <1>0, <1>3, <1>4, <2>1 DEF InUse
    <3>2. dir' = dir /\ node' = node
      BY <1>0, <1>6, <3>1, DiskIs
    <3> QED BY <1>0, <1>2, <3>2 DEF Untouched
  <2>6. Stages'
    BY <1>0, <1>1, <2>1 DEF Stages
  <2>7. Waiting' /\ Opened' /\ Copied' /\ NotRun' /\ Unseen'
    BY <1>0, <1>1, <1>2, <2>1, <2>5 DEF Waiting, Opened, Copied, NotRun, Unseen
  <2>8. Copying'
    <3>1. Calm => Dst = Nil \/ old.node[Dst] = Dir
      BY <1>0, <1>2, <1>6, FailsMeans DEF Dst, Untouched
    <3> QED BY <1>0, <1>1, <2>1, <2>5, <3>1 DEF Copying, Nowhere
  <2> QED BY <1>1, <2>3, <2>4, <2>6, <2>7, <2>8 DEF ShellInv
\* The destination is open and empty.
<1>7. ASSUME pc' = "copy", sfd' = sfd, out' = out, dfd' \in Inode, node'[dfd'].kind = "file",
             dir' \in [Name -> Inode \cup {Nil}], Sound(node'),
             \A x \in Inode : /\ (node'[x] = Free) <=> x \notin InUse(dir', {sfd', dfd'})
                              /\ node'[x].kind \in {"file", "dir", "link", "free"},
             Calm => Holds(<<>>)' /\ dfd' = Lookup(dir', node', cmd'.dst)
      PROVE  ShellInv'
  <2>1. TypeOK' /\ Stages'
    BY <1>0, <1>1, <1>7 DEF TypeOK, Stages
  <2>2. Waiting' /\ Opened' /\ Copied' /\ NotRun' /\ Unseen'
    BY <1>1, <1>2, <1>7, <1>0 DEF Waiting, Opened, Copied, NotRun, Unseen
  <2>3. Copying'
    <3>1. Calm' => Whole' \in Seq(Nat)
      <4>1. Before /\ Calm => Whole \in Seq(Nat)
        BY WholeText
      <4> QED BY <1>0, <1>1, <4>1 DEF ShellInv, Whole
    <3>2. Calm' => Len(Whole') >= 0 /\ SubSeq(Whole', 1, 0) = <<>>
      BY <3>1, SubSeqEmpty
    <3> QED BY <1>0, <1>1, <1>7, <3>2 DEF Copying
  <2> QED BY <1>1, <1>7, <2>1, <2>2, <2>3 DEF ShellInv
<1>8. ASSUME IsFile(i), dfd' = i, sfd' = sfd, Goto("copy"),
             Disk(dir, [node EXCEPT ![i].text = Cut(@)])
      PROVE  ShellInv'
  <2>1. m \in Name /\ i = dir[m] /\ i \in Inode /\ node[i].kind = "file" /\ i \in InUse(dir, {sfd, dfd})
    BY <1>0, <1>8 DEF IsFile, At, InUse
  <2> DEFINE f == [node EXCEPT ![i] = File(<<>>)]
  <2>2. Disk(dir, f)
    <3>1. node[i] = File(node[i].text)
      BY <1>0, <2>1, Kinds
    <3>2. [node[i] EXCEPT !.text = <<>>] = File(<<>>)
      BY <3>1 DEF File
    <3>3. [node EXCEPT ![i].text = Cut(@)] = f
      BY <3>2 DEF Cut
    <3> QED BY <1>8, <3>3
  <2>3. Sound(f) /\ f[i] = File(<<>>) /\ \A x \in Inode \ {i} : f[x] = node[x]
    BY <1>0, <2>1, NewNodes DEF Sound
  <2> HIDE DEF f
  <2>4. InUse(dir, {sfd', dfd'}) = InUse(dir, {sfd, dfd}) /\ InUse(dir, {sfd, dfd}) \subseteq Inode
    BY <1>0, <1>8, <2>1 DEF InUse
  <2>5. dir' = dir /\ node' = f
    <3>1. \A x \in Inode : x \notin InUse(dir, {sfd', dfd'}) => f[x] = Free
      BY <1>3, <2>1, <2>3, <2>4
    <3> QED BY <2>2, <2>3, <3>1, DiskIs
  <2>6. \A x \in Inode : /\ (node'[x] = Free) <=> x \notin InUse(dir', {sfd', dfd'})
                         /\ node'[x].kind \in {"file", "dir", "link", "free"}
    <3>1. File(<<>>) # Free
      BY NewNodes
    <3>2. \A x \in Inode : node[x].kind \in {"file", "dir", "link", "free"}
      BY <1>0 DEF TypeOK
    <3> QED BY <1>3, <2>1, <2>3, <2>4, <2>5, <3>1, <3>2, NewNodes
  <2>7. Lookup(dir', node', cmd'.dst) = i /\ Lookup(dir, node, cmd.dst) = i
    <3>1. Lookup(dir, node, cmd.dst) = i
      BY <2>1 DEF Lookup, IsLink, At
    <3>2. \A n : Lookup(dir, f, n) = Lookup(dir, node, n)
      <4>1. f[i].kind = "file"
        BY <2>3, NewNodes
      <4>2. \A n \in Name : dir[n] # Nil /\ dir[n] # i => f[dir[n]] = node[dir[n]]
        BY <1>0, <2>3
      <4> QED BY <2>1, <4>1, <4>2, WriteKeepsPaths
    <3> QED BY <1>0, <2>5, <3>1, <3>2
  <2>8. Calm => Holds(<<>>)'
    <3> SUFFICES ASSUME Calm PROVE Holds(<<>>)'
      OBVIOUS
    <3>1. i = Dst' /\ dir = old'.dir /\ node = old'.node
      BY <1>0, <1>1, <1>2, <2>7 DEF Dst, Untouched
    <3>2. i # Nil
      BY <2>1, InodeAssumption
    <3> QED BY <2>3, <2>5, <2>7, <3>1, <3>2 DEF Holds
  <2>9. pc' = "copy" /\ out' = out
    BY <1>8 DEF Goto
  <2> QED BY <1>0, <1>7, <1>8, NewNodes, <2>1, <2>3, <2>5, <2>6, <2>7, <2>8, <2>9
<1>9. ASSUME m \in Name, i = Nil, NEW j \in Unused, dfd' = j, sfd' = sfd, Goto("copy"),
             Disk(Bind(m, j), [node EXCEPT ![j] = File(<<>>)])
      PROVE  ShellInv'
  <2> DEFINE f == [node EXCEPT ![j] = File(<<>>)]
             d == Bind(m, j)
  <2>1. /\ dir[m] = Nil /\ j \in Inode /\ j # Nil /\ j \notin InUse(dir, {sfd, dfd}) /\ node[j] = Free
        /\ \A n \in Name : dir[n] # j
    BY <1>0, <1>3, <1>9, InodeAssumption DEF At, Unused, InUse
  <2>2. Sound(f) /\ f[j] = File(<<>>) /\ \A x \in Inode \ {j} : f[x] = node[x]
    BY <1>0, <2>1, NewNodes DEF Sound
  <2>3. d \in [Name -> Inode \cup {Nil}] /\ d[m] = j /\ \A n \in Name \ {m} : d[n] = dir[n]
    BY <1>0, <1>9, <2>1 DEF Bind
  <2> HIDE DEF f, d
  <2>4. InUse(d, {sfd', dfd'}) = InUse(dir, {sfd, dfd}) \cup {j} /\ InUse(dir, {sfd, dfd}) \subseteq Inode
    BY <1>0, <1>9, <2>1, <2>3 DEF InUse
  <2>5. dir' = d /\ node' = f
    <3>1. \A x \in Inode : x \notin InUse(d, {sfd', dfd'}) => f[x] = Free
      BY <1>3, <2>1, <2>2, <2>4
    <3> QED BY <1>9, <2>2, <3>1, DiskIs DEF f, d
  <2>6. \A x \in Inode : /\ (node'[x] = Free) <=> x \notin InUse(dir', {sfd', dfd'})
                         /\ node'[x].kind \in {"file", "dir", "link", "free"}
    <3>1. File(<<>>) # Free
      BY NewNodes
    <3>2. \A x \in Inode : node[x].kind \in {"file", "dir", "link", "free"}
      BY <1>0 DEF TypeOK
    <3> QED BY <1>3, <2>1, <2>2, <2>4, <2>5, <3>1, <3>2, NewNodes
  <2>7. Lookup(dir', node', cmd'.dst) = j /\ Lookup(dir, node, cmd.dst) = Nil
    <3>1. Lookup(dir, node, cmd.dst) = Nil
      BY <1>9 DEF Lookup
    <3>2. f[j].kind = "file"
      BY <2>2, NewNodes
    <3>3. \A n \in Name : dir[n] # Nil => f[dir[n]] = node[dir[n]]
      BY <1>0, <2>1, <2>2
    <3>4. Lookup(d, f, cmd.dst) = d[m]
      <4>1. Created(dir, node, d, f, m)
        BY <1>9, <2>1, <2>3, <3>2, <3>3 DEF Created
      <4> QED BY <4>1, CreateFound
    <3> QED BY <1>0, <2>3, <2>5, <3>1, <3>4
  <2>8. Calm => Holds(<<>>)'
    <3> SUFFICES ASSUME Calm PROVE Holds(<<>>)'
      OBVIOUS
    <3>1. Dst' = Nil /\ dir = old'.dir /\ node = old'.node
      BY <1>0, <1>1, <1>2, <2>7 DEF Dst, Untouched
    <3> QED BY <2>1, <2>2, <2>3, <2>5, <2>7, <3>1 DEF Holds
  <2>9. pc' = "copy" /\ out' = out
    BY <1>9 DEF Goto
  <2> QED BY <1>0, <1>7, <1>9, NewNodes, <2>1, <2>2, <2>3, <2>5, <2>6, <2>7, <2>8, <2>9
<1> QED BY <1>6, <1>8, <1>9 DEF OpenDst, OpenDstOr

\* While a file is being written: what is left to read of the source.
LEMMA SourceText ==
  ASSUME ShellInv, pc = "copy", Calm, dfd # Nil, mishap = {}
  PROVE  /\ dfd \in Inode /\ dfd = Lookup(dir, node, cmd.dst)
         /\ Whole \in Seq(Nat) /\ off <= Len(Whole) /\ Holds(SubSeq(Whole, 1, off))
         /\ Unread = <<>> => off = Len(Whole)
         /\ Unread # <<>> => off < Len(Whole) /\ Head(Unread) = Whole[off + 1]
<1>0. TypeOK /\ Sound(node) /\ Before /\ off \in Nat /\ sfd = Src /\ dfd \in Inode
  BY DEF ShellInv, Opened, TypeOK
<1>1. dfd = Lookup(dir, node, cmd.dst) /\ off <= Len(Whole) /\ Holds(SubSeq(Whole, 1, off))
  BY DEF ShellInv, Copying
<1>2. Src # Nil => Src \in Inode /\ old.node[Src] # Free
  BY <1>0, WholeText
<1>3. Whole \in Seq(Nat)
  BY <1>0, WholeText
<1>4. CASE Src = Nil
  <2>1. Whole = <<>> /\ Unread = <<>>
    BY <1>0, <1>4 DEF Whole, Unread, IsFile
  <2> QED BY <1>0, <1>1, <1>3, <2>1
<1>5. CASE Src # Nil /\ Src = Dst
  <2>1. dfd = Src /\ Whole = <<>>
    BY <1>1, <1>5 DEF Holds, Whole
  <2>2. node[dfd] = File(SubSeq(<<>>, 1, 0)) /\ off = 0
    <3>1. off = 0
      BY <1>0, <1>1, <2>1
    <3> QED BY <1>1, <2>1, <3>1 DEF Holds
  <2>3. SubSeq(<<>>, 1, 0) = <<>>
    BY SubSeqEmpty
  <2>4. node[sfd].text = <<>>
    BY <1>0, <2>1, <2>2, <2>3 DEF File
  <2>5. Unread = <<>>
    <3>1. SubSeq(<<>>, 0 + 1, Len(<<>>)) = <<>>
      BY SubSeqEmpty
    <3> QED BY <2>2, <2>4, <3>1 DEF Unread
  <2> QED BY <1>0, <1>1, <1>3, <2>1, <2>2, <2>5
<1>6. CASE Src # Nil /\ Src # Dst
  <2>1. Whole = old.node[Src].text
    BY <1>6 DEF Whole
  <2>2. node[sfd] = old.node[Src]
    BY <1>0, <1>1, <1>2, <1>6 DEF Holds
  <2>3. CASE IsFile(sfd)
    <3>1. Unread = SubSeq(Whole, off + 1, Len(Whole))
      BY <2>1, <2>2, <2>3 DEF Unread
    <3>2. off >= Len(Whole) \/ off < Len(Whole)
      BY <1>0, <1>3
    <3>3. off >= Len(Whole) => off = Len(Whole)
      BY <1>0, <1>1, <1>3
    <3> QED BY <1>0, <1>1, <1>3, <3>1, <3>2, <3>3, Left
  <2>4. CASE ~IsFile(sfd)
    <3>1. Whole = <<>> /\ Unread = <<>>
      <4>1. node[sfd].kind # "file" /\ sfd \in Inode
        BY <1>0, <1>2, <1>6, <2>4 DEF IsFile
      <4>2. node[sfd].text = <<>>
        BY <1>0, <4>1, Kinds
      <4> QED BY <2>1, <2>2, <2>4, <4>2 DEF Unread
    <3> QED BY <1>0, <1>1, <1>3, <3>1
  <2> QED BY <2>3, <2>4
<1> QED BY <1>4, <1>5, <1>6

LEMMA ShellInvCopy == ASSUME ShellInv, Copy PROVE ShellInv'
<1>0. /\ TypeOK /\ Sound(node) /\ Stages /\ Before /\ pc = "copy" /\ Unread # <<>>
      /\ off' = off + 1 /\ off \in Nat /\ off' # 0 /\ mishap \subseteq {"write"}
      /\ UNCHANGED <<pc, cmd, sfd, dfd, out, yes, late, old>>
  <2>1. /\ TypeOK /\ Sound(node) /\ Stages /\ Before /\ pc = "copy" /\ Unread # <<>>
        /\ off' = off + 1 /\ UNCHANGED <<pc, cmd, sfd, dfd, out, yes, late, old>>
    BY DEF ShellInv, Copy
  <2>2. off \in Nat
    BY <2>1 DEF TypeOK
  <2>3. mishap \subseteq {"write"}
    BY <2>1 DEF Stages
  <2> QED BY <2>1, <2>2, <2>3
<1>1. CASE UNCHANGED disk /\ mishap' = IF dfd = Nil THEN mishap ELSE mishap \cup {"write"}
  <2>0. UNCHANGED <<dir, node>> /\ mishap' \subseteq {"write"} /\ (dfd # Nil => mishap' # {})
    BY <1>0, <1>1 DEF disk
  <2>1. TypeOK'
    BY <1>0, <2>0 DEF TypeOK, InUse
  <2>2. Stages' /\ Unseen'
    BY <1>0, <2>0 DEF Stages, Unseen
  <2>3. Waiting' /\ Opened' /\ Copied' /\ NotRun'
    BY <1>0, <2>0, DiskSame DEF ShellInv, Waiting, Opened, Copied, NotRun
  <2>4. Copying'
    <3> SUFFICES ASSUME Calm PROVE Copying'
      BY <1>0 DEF Copying, Calm
    <3>1. CASE dfd = Nil
      <4>1. Nowhere
        BY <1>0, <3>1 DEF ShellInv, Copying, Holds
      <4> QED BY <1>0, <2>0, <3>1, <4>1, DiskSame DEF Copying
    <3>2. CASE dfd # Nil
      <4>1. dfd = Lookup(dir, node, cmd.dst) /\ \E t : Holds(t)
        BY <1>0, <3>2 DEF ShellInv, Copying
      <4>2. dfd' = Lookup(dir, node, cmd.dst)' /\ \E t : Holds(t)'
        BY <1>0, <2>0, <4>1, DiskSame
      <4> QED BY <2>0, <3>2, <4>2 DEF Copying
    <3> QED BY <3>1, <3>2
  <2> QED BY <1>0, <2>0, <2>1, <2>2, <2>3, <2>4, DiskSame DEF ShellInv
<1>2. CASE /\ dfd # Nil
           /\ Disk(dir, [node EXCEPT ![dfd].text = Append(@, Head(Unread))])
           /\ UNCHANGED mishap
  <2>1. dfd \in Inode /\ node[dfd].kind = "file" /\ node[dfd].text \in Seq(Nat) /\ node[dfd] = File(node[dfd].text)
    <3>1. dfd \in Inode /\ node[dfd].kind = "file"
      BY <1>0, <1>2 DEF TypeOK, Stages
    <3> QED BY <1>0, <3>1, Kinds
  <2>2. Head(Unread) \in Nat
    <3>1. IsFile(sfd) /\ sfd \in Inode /\ Unread = SubSeq(node[sfd].text, off + 1, Len(node[sfd].text))
      BY <1>0 DEF Unread, IsFile, TypeOK
    <3>2. node[sfd].text \in Seq(Nat)
      BY <1>0, <3>1, Kinds
    <3>3. off < Len(node[sfd].text) \/ off >= Len(node[sfd].text)
      BY <1>0, <3>2
    <3> QED BY <1>0, <3>1, <3>2, <3>3, Left
  <2> DEFINE text == Append(node[dfd].text, Head(Unread))
             f    == [node EXCEPT ![dfd] = File(text)]
  <2>3. text \in Seq(Nat)
    BY <2>1, <2>2
  <2>4. Disk(dir, f)
    <3>0. \A s, t : [File(s) EXCEPT !.text = t] = File(t)
      BY DEF File
    <3>1. [node[dfd] EXCEPT !.text = text] = File(text)
      BY <2>1, <3>0
    <3>2. [node EXCEPT ![dfd].text = Append(@, Head(Unread))] = f
      BY <3>1
    <3> QED BY <1>2, <3>2
  <2> HIDE DEF text
  <2>5. Sound(f) /\ f[dfd] = File(text) /\ f[dfd].kind = "file" /\ f[dfd] # Free
        /\ \A x \in Inode \ {dfd} : f[x] = node[x]
    <3>1. File(text) \in Nodes /\ File(text).kind = "file" /\ File(text).to = Nil
      BY <2>3, NewNodes
    <3> QED BY <1>0, <2>1, <3>1, NewNodes DEF Sound
  <2> HIDE DEF f
  <2>6. InUse(dir, {sfd', dfd'}) = InUse(dir, {sfd, dfd}) /\ dfd \in InUse(dir, {sfd, dfd})
        /\ \A x \in Inode : (node[x] = Free) <=> x \notin InUse(dir, {sfd, dfd})
    BY <1>0, <1>2 DEF InUse, TypeOK
  <2>7. dir' = dir /\ node' = f
    <3>1. \A x \in Inode : x \notin InUse(dir, {sfd', dfd'}) => f[x] = Free
      BY <2>1, <2>5, <2>6
    <3> QED BY <2>4, <2>5, <3>1, DiskIs
  <2>8. TypeOK'
    <3>1. \A x \in Inode : /\ (node'[x] = Free) <=> x \notin InUse(dir', {sfd', dfd'})
                           /\ node'[x].kind \in {"file", "dir", "link", "free"}
      <4>1. \A x \in Inode : node[x].kind \in {"file", "dir", "link", "free"}
        BY <1>0 DEF TypeOK
      <4> QED BY <2>1, <2>5, <2>6, <2>7, <4>1
    <3>2. /\ dir' \in [Name -> Inode \cup {Nil}] /\ off' \in Nat /\ pc' = "copy" /\ dfd' \in Inode
          /\ cmd' \in Commands /\ sfd' \in Inode \cup {Nil} /\ yes' \in BOOLEAN
          /\ late' \in BOOLEAN /\ mishap' \subseteq {"read", "write", "exec"}
          /\ out' \in {"none", "done", "failed", "refused"}
      BY <1>0, <1>2, <2>1, <2>7 DEF TypeOK
    <3> QED BY <3>1, <3>2 DEF TypeOK
  <2>9. Src' = Src /\ Dst' = Dst /\ Calm' = Calm /\ Whole' = Whole /\ Before'
    BY <1>0, <1>2 DEF Src, Dst, Calm, Whole, Before, Sound, InUse
  <2>10. Sound(node') /\ Stages' /\ Unseen'
    BY <1>0, <1>2, <2>5, <2>7, <2>9 DEF Stages, Unseen
  <2>11. Waiting' /\ Opened' /\ Copied' /\ NotRun'
    BY <1>0, <2>9 DEF ShellInv, Waiting, Opened, Copied, NotRun
  <2>12. ASSUME Calm
         PROVE  /\ dfd' = Lookup(dir', node', cmd'.dst)
                /\ \E t : Holds(t)' /\ (mishap = {} => off' <= Len(Whole') /\ t = SubSeq(Whole', 1, off'))
    <3>1. dfd = Lookup(dir, node, cmd.dst) /\ \E t : Holds(t)
      BY <1>0, <1>2, <2>12 DEF ShellInv, Copying
    <3>2. \A n : Lookup(dir, f, n) = Lookup(dir, node, n)
      <4>1. \A n \in Name : dir[n] # Nil /\ dir[n] # dfd => f[dir[n]] = node[dir[n]]
        BY <1>0, <2>5 DEF TypeOK
      <4> QED BY <2>1, <2>5, <4>1, WriteKeepsPaths
    <3>3. dfd' = Lookup(dir', node', cmd'.dst)
      BY <1>0, <2>7, <3>1, <3>2
    <3>4. PICK t : t = text
      OBVIOUS
    <3>6. Holds(t)'
      <4>1. dfd # Nil /\ node'[dfd] = File(text)
        BY <1>0, <1>2, <2>5, <2>7
      <4>2. /\ dfd = Dst' \/ (Dst' = Nil /\ old'.node[dfd] = Free)
            /\ \A x \in Inode \ {dfd} : node'[x] = old'.node[x]
            /\ \A n \in Name : old'.dir[n] # Nil => dir'[n] = old'.dir[n]
        BY <1>0, <2>5, <2>7, <2>9, <3>1 DEF Holds
      <4> QED BY <1>0, <3>3, <3>4, <4>1, <4>2 DEF Holds
    <3>5. ASSUME mishap = {} PROVE off' <= Len(Whole') /\ text = SubSeq(Whole', 1, off')
      <4>1. /\ Whole \in Seq(Nat) /\ Holds(SubSeq(Whole, 1, off))
            /\ off < Len(Whole) /\ Head(Unread) = Whole[off + 1]
        BY <1>0, <1>2, <2>12, <3>5, SourceText
      <4>2. node[dfd] = File(SubSeq(Whole, 1, off))
        BY <3>1, <4>1 DEF Holds
      <4>3. \A s : File(s).text = s
        BY DEF File
      <4>4. node[dfd].text = SubSeq(Whole, 1, off)
        BY <4>2, <4>3
      <4>5. text = SubSeq(Whole, 1, off + 1)
        BY <1>0, <4>1, <4>4, Left DEF text
      <4> QED BY <1>0, <2>9, <4>1, <4>5
    <3> QED BY <3>3, <3>4, <3>5, <3>6
  <2>13. Copying'
    BY <1>2, <2>9, <2>12 DEF Copying
  <2> QED BY <2>8, <2>9, <2>10, <2>11, <2>13 DEF ShellInv
<1> QED BY <1>1, <1>2 DEF Copy

\* The three ways a copy or a filter stops.  Nothing that is in use goes away with
\* its descriptors.
LEMMA Stops ==
  ASSUME ShellInv, pc = "copy", NEW CONSTANT how \in {"done", "failed"}, Stop(how),
         mishap' \subseteq {"read", "write", "exec"}
  PROVE  /\ TypeOK' /\ Sound(node)' /\ Before' /\ Stages' /\ Unseen' /\ Opened' /\ Copying'
         /\ pc' = "prompt" /\ out' = how /\ UNCHANGED <<cmd, old>> /\ (Calm <=> Calm')
         /\ Src' = Src /\ Whole' = Whole /\ cmd.op \in {"cp", "filter"}
         /\ mishap \subseteq {"write"} /\ (off = 0 => mishap = {})
         /\ Calm => UNCHANGED <<dir, node>>
<1>0. /\ TypeOK /\ Sound(node) /\ Stages /\ Before /\ pc = "copy"
      /\ sfd' = Nil /\ dfd' = Nil /\ off' = 0 /\ Disk(dir, node)
      /\ pc' = "prompt" /\ out' = how /\ UNCHANGED <<cmd, yes, late, old>>
      /\ dir \in [Name -> Inode \cup {Nil}] /\ cmd.op \in {"cp", "filter"}
      /\ sfd \in Inode \cup {Nil} /\ dfd \in Inode \cup {Nil}
      /\ mishap \subseteq {"write"} /\ (off = 0 => mishap = {})
      /\ \A x \in Inode : (node[x] = Free) <=> x \notin InUse(dir, {sfd, dfd})
  BY DEF ShellInv, Stop, Return, TypeOK, Stages
<1>1. InUse(dir, {sfd', dfd'}) \subseteq InUse(dir, {sfd, dfd}) /\ InUse(dir, {sfd, dfd}) \subseteq Inode
  BY <1>0 DEF InUse
<1>2. /\ dir' = dir /\ Sound(node')
      /\ \A x \in Inode : /\ (node'[x] = Free) <=> x \notin InUse(dir', {sfd', dfd'})
                          /\ node'[x].kind \in {"file", "dir", "link", "free"}
  <2>1. \A x \in InUse(dir, {sfd', dfd'}) : node[x] # Free
    BY <1>0, <1>1
  <2> QED BY <1>0, <2>1, DiskTyped
<1>3. TypeOK'
  <2>1. dir' \in [Name -> Inode \cup {Nil}] /\ cmd' \in Commands /\ yes' \in BOOLEAN /\ late' \in BOOLEAN
    BY <1>0, <1>2 DEF TypeOK
  <2> QED BY <1>0, <1>2, <2>1 DEF TypeOK
<1>4. Src' = Src /\ (Calm <=> Calm') /\ Whole' = Whole /\ Before'
  BY <1>0 DEF Src, Dst, Calm, Whole, Before, Sound, InUse
<1>5. Stages' /\ Unseen' /\ Opened' /\ Copying'
  BY <1>0 DEF Stages, Unseen, Opened, Copying
\* What the copy had open has a name.
<1>6. ASSUME Calm PROVE node' = node
  <2>1. sfd = Src /\ (dfd = Nil \/ dfd = Lookup(dir, node, cmd.dst))
    BY <1>0, <1>6 DEF ShellInv, Opened, Copying
  <2>2. Untouched \/ \A n \in Name : old.dir[n] # Nil => dir[n] = old.dir[n]
    BY <1>0, <1>6 DEF ShellInv, Copying, Nowhere, Holds
  <2>3. sfd # Nil => \E n \in Name : dir[n] = sfd
    <3>1. sfd # Nil => Resolve(old.dir, old.node, cmd.src) \in Name
                       /\ sfd = old.dir[Resolve(old.dir, old.node, cmd.src)]
      BY <2>1, LookupFinds DEF Src
    <3> QED BY <2>2, <3>1 DEF Untouched
  <2>4. dfd # Nil => \E n \in Name : dir[n] = dfd
    BY <2>1, LookupFinds
  <2>5. \A x \in Inode : x \notin InUse(dir, {sfd', dfd'}) => node[x] = Free
    BY <1>0, <2>3, <2>4 DEF InUse
  <2> QED BY <1>0, <2>5, DiskIs
<1> QED BY <1>0, <1>2, <1>3, <1>4, <1>5, <1>6

\* What the copy wrote until then is there afterwards.
LEMMA StopsHolding ==
  ASSUME ShellInv, pc = "copy", Calm, UNCHANGED <<dir, node, cmd, old>>
  PROVE  \/ dfd = Nil /\ Nowhere'
         \/ /\ dfd # Nil
            /\ \E t : Holds(t)' /\ (mishap = {} => off <= Len(Whole) /\ t = SubSeq(Whole, 1, off))
<1>1. CASE dfd = Nil
  <2>1. Nowhere
    BY <1>1 DEF ShellInv, Copying, Holds
  <2> QED BY <1>1, <2>1, DiskSame
<1>2. CASE dfd # Nil
  <2>1. PICK t : Holds(t) /\ (mishap = {} => off <= Len(Whole) /\ t = SubSeq(Whole, 1, off))
    BY <1>2 DEF ShellInv, Copying
  <2>2. Holds(t)'
    BY <2>1, DiskSame
  <2> QED BY <1>2, <2>1, <2>2
<1> QED BY <1>1, <1>2

LEMMA ShellInvCopyEnds == ASSUME ShellInv, CopyEnds PROVE ShellInv'
<1>0. /\ pc = "copy" /\ Unread = <<>> /\ Stop("done") /\ mishap' = mishap
      /\ mishap \subseteq {"read", "write", "exec"}
  BY DEF CopyEnds, ShellInv, TypeOK
<1>1. /\ TypeOK' /\ Sound(node)' /\ Before' /\ Stages' /\ Unseen' /\ Opened' /\ Copying'
      /\ pc' = "prompt" /\ out' = "done" /\ UNCHANGED <<cmd, old>> /\ (Calm <=> Calm')
      /\ Src' = Src /\ Whole' = Whole /\ mishap \subseteq {"write"}
      /\ Calm => UNCHANGED <<dir, node>>
  BY <1>0, Stops
<1>2. Waiting' /\ NotRun'
  BY <1>1 DEF Waiting, NotRun
<1>3. Copied'
  <2> SUFFICES ASSUME Calm
               PROVE  /\ cmd'.op = "cp" => Src' # Nil
                      /\ Nowhere' \/ \E t : Holds(t)' /\ (mishap = {} => t = Whole)
    BY <1>0, <1>1 DEF Copied
  <2>1. cmd'.op = "cp" => Src' # Nil
    BY <1>0, <1>1 DEF ShellInv, Opened
  <2>2. CASE dfd = Nil
    BY <1>0, <1>1, <2>1, <2>2, StopsHolding
  <2>3. CASE dfd # Nil
    <3>1. PICK t : Holds(t)' /\ (mishap = {} => off <= Len(Whole) /\ t = SubSeq(Whole, 1, off))
      BY <1>0, <1>1, <2>3, StopsHolding
    <3>2. mishap = {} => off = Len(Whole) /\ Whole \in Seq(Nat)
      BY <1>0, <2>3, SourceText
    <3>3. mishap = {} => t = Whole
      BY <3>1, <3>2, SubSeqFull
    <3> QED BY <2>1, <3>1, <3>3
  <2> QED BY <2>2, <2>3
<1> QED BY <1>1, <1>2, <1>3 DEF ShellInv

LEMMA ShellInvReadFails == ASSUME ShellInv, ReadFails PROVE ShellInv'
<1>0. /\ pc = "copy" /\ Stop("done") /\ mishap' = mishap \cup {"read"}
      /\ mishap' \subseteq {"read", "write", "exec"} /\ off \in Nat
  BY DEF ReadFails, ShellInv, TypeOK
<1>1. /\ TypeOK' /\ Sound(node)' /\ Before' /\ Stages' /\ Unseen' /\ Opened' /\ Copying'
      /\ pc' = "prompt" /\ out' = "done" /\ UNCHANGED <<cmd, old>> /\ (Calm <=> Calm')
      /\ Src' = Src /\ Whole' = Whole /\ mishap \subseteq {"write"}
      /\ Calm => UNCHANGED <<dir, node>>
  BY <1>0, Stops
<1>2. Waiting' /\ NotRun'
  BY <1>1 DEF Waiting, NotRun
<1>3. Copied'
  <2> SUFFICES ASSUME Calm
               PROVE  /\ cmd'.op = "cp" => Src' # Nil
                      /\ Nowhere' \/ \E t : /\ Holds(t)'
                                            /\ mishap = {} => \E k \in 0 .. Len(Whole) : t = SubSeq(Whole, 1, k)
    <3>1. mishap' # {} /\ (mishap' = {"read"} => mishap = {})
      BY <1>0, <1>1
    <3> QED BY <1>0, <1>1, <3>1 DEF Copied
  <2>1. cmd'.op = "cp" => Src' # Nil
    BY <1>0, <1>1 DEF ShellInv, Opened
  <2>2. CASE dfd = Nil
    BY <1>0, <1>1, <2>1, <2>2, StopsHolding
  <2>3. CASE dfd # Nil
    <3>1. PICK t : Holds(t)' /\ (mishap = {} => off <= Len(Whole) /\ t = SubSeq(Whole, 1, off))
      BY <1>0, <1>1, <2>3, StopsHolding
    <3>2. Whole \in Seq(Nat)
      BY <1>1, WholeText DEF ShellInv
    <3>3. mishap = {} => off \in 0 .. Len(Whole)
      BY <1>0, <3>1, <3>2
    <3> QED BY <2>1, <3>1, <3>3
  <2> QED BY <2>2, <2>3
<1> QED BY <1>1, <1>2, <1>3 DEF ShellInv

\* Nothing is copied yet when a program cannot be executed.
LEMMA ShellInvExecFails == ASSUME ShellInv, ExecFails PROVE ShellInv'
<1>0. pc = "copy" /\ off = 0 /\ Stop("failed") /\ mishap' = {"exec"}
  BY DEF ExecFails
<1>1. /\ TypeOK' /\ Sound(node)' /\ Before' /\ Stages' /\ Unseen' /\ Opened' /\ Copying'
      /\ pc' = "prompt" /\ out' = "failed" /\ UNCHANGED <<cmd, old>> /\ (Calm <=> Calm')
      /\ mishap = {}
      /\ Calm => UNCHANGED <<dir, node>>
  BY <1>0, Stops
<1>2. Waiting' /\ Copied'
  BY <1>0, <1>1 DEF Waiting, Copied
<1>3. NotRun'
  <2> SUFFICES ASSUME Calm PROVE Untouched' \/ Holds(<<>>)'
    BY <1>1 DEF NotRun
  <2>1. CASE dfd = Nil
    BY <1>0, <1>1, <2>1, StopsHolding DEF Nowhere
  <2>2. CASE dfd # Nil
    <3>1. PICK t : Holds(t)' /\ off <= Len(Whole) /\ t = SubSeq(Whole, 1, off)
      BY <1>0, <1>1, <2>2, StopsHolding
    <3>2. t = <<>>
      <4>1. Whole \in Seq(Nat)
        BY WholeText DEF ShellInv
      <4> QED BY <1>0, <3>1, <4>1, SubSeqEmpty
    <3> QED BY <3>1, <3>2
  <2> QED BY <2>1, <2>2
<1> QED BY <1>1, <1>2, <1>3 DEF ShellInv

-----------------------------------------------------------------------------
(* Calls.                                                                  *)

\* A disk that a call can leave.
Fine(e) ==
  /\ e.dir \in [Name -> Inode \cup {Nil}] /\ Sound(e.node)
  /\ \A i \in InUse(e.dir, {sfd, dfd}) : e.node[i] # Free
  /\ \A i \in InUse(dir, {sfd, dfd}) : e.node[i] = node[i]

\* Every file that has a name in dir has one in d; every file but i.
NamedBut(d, i) ==
  \A n \in Name : dir[n] # Nil /\ dir[n] # i /\ node[dir[n]].kind = "file" => \E m \in Name : d[m] = dir[n]
Named(d) == NamedBut(d, Nil)

LEMMA RenameFine ==
  ASSUME TypeOK, Sound(node), NEW n \in Name, NEW m \in Name, NEW e \in Rename(n, m)
  PROVE  Fine(e) /\ NamedBut(e.dir, dir[m])
<1>1. /\ dir \in [Name -> Inode \cup {Nil}] /\ dir[n] # Nil
      /\ \A i \in InUse(dir, {sfd, dfd}) : i \in Inode /\ node[i] # Free
  BY DEF TypeOK, InUse, Rename, At
<1>2. CASE e = [dir |-> dir, node |-> node]
  BY <1>1, <1>2 DEF Fine, NamedBut
<1>3. CASE n # m /\ e = [dir |-> [dir EXCEPT ![n] = Nil, ![m] = dir[n]], node |-> node]
  <2>1. /\ e.dir \in [Name -> Inode \cup {Nil}] /\ e.node = node
        /\ e.dir[m] = dir[n] /\ e.dir[n] = Nil /\ \A k \in Name \ {n, m} : e.dir[k] = dir[k]
    BY <1>1, <1>3
  <2>2. InUse(e.dir, {sfd, dfd}) \subseteq InUse(dir, {sfd, dfd})
    <3>1. \A k \in Name : e.dir[k] = Nil \/ \E l \in Name : e.dir[k] = dir[l]
      BY <2>1
    <3> QED BY <3>1 DEF InUse
  <2>3. Fine(e)
    BY <1>1, <2>1, <2>2 DEF Fine
  <2>4. NamedBut(e.dir, dir[m])
    BY <2>1 DEF NamedBut
  <2> QED BY <2>3, <2>4
<1> QED BY <1>2, <1>3 DEF Rename, After

LEMMA RemoveFine ==
  ASSUME TypeOK, Sound(node), NEW n \in Name, NEW what \in {"dir", "other"}, NEW e \in Remove(n, what)
  PROVE  Fine(e) /\ (what = "dir" => Named(e.dir))
<1>1. /\ dir \in [Name -> Inode \cup {Nil}] /\ dir[n] # Nil /\ (what = "dir" => node[dir[n]] = Dir)
      /\ \A i \in InUse(dir, {sfd, dfd}) : i \in Inode /\ node[i] # Free
      /\ e = [dir |-> [dir EXCEPT ![n] = Nil], node |-> node]
  BY DEF TypeOK, InUse, Remove, Is, At, After, Bind
<1>2. /\ e.dir \in [Name -> Inode \cup {Nil}] /\ e.node = node
      /\ e.dir[n] = Nil /\ \A k \in Name \ {n} : e.dir[k] = dir[k]
  BY <1>1
<1>3. InUse(e.dir, {sfd, dfd}) \subseteq InUse(dir, {sfd, dfd})
  BY <1>2 DEF InUse
<1>4. Fine(e)
  BY <1>1, <1>2, <1>3 DEF Fine
<1>5. ASSUME what = "dir" PROVE Named(e.dir)
  <2>1. node[dir[n]].kind # "file"
    BY <1>1, <1>5, NewNodes
  <2> QED BY <1>2, <2>1 DEF Named, NamedBut
<1> QED BY <1>4, <1>5

LEMMA HardLinkFine ==
  ASSUME TypeOK, Sound(node), NEW n \in Name, NEW m \in Name, NEW e \in HardLink(n, m)
  PROVE  Fine(e) /\ Named(e.dir)
<1>1. /\ dir \in [Name -> Inode \cup {Nil}] /\ dir[n] # Nil /\ dir[m] = Nil
      /\ \A i \in InUse(dir, {sfd, dfd}) : i \in Inode /\ node[i] # Free
      /\ e = [dir |-> [dir EXCEPT ![m] = dir[n]], node |-> node]
  BY DEF TypeOK, InUse, HardLink, Is, At, After, Bind
<1>2. /\ e.dir \in [Name -> Inode \cup {Nil}] /\ e.node = node
      /\ e.dir[m] = dir[n] /\ \A k \in Name \ {m} : e.dir[k] = dir[k]
  BY <1>1
<1>3. InUse(e.dir, {sfd, dfd}) \subseteq InUse(dir, {sfd, dfd})
  BY <1>2 DEF InUse
<1>4. Fine(e)
  BY <1>1, <1>2, <1>3 DEF Fine
<1> QED BY <1>1, <1>2, <1>4 DEF Named, NamedBut

LEMMA CreateFine ==
  ASSUME TypeOK, Sound(node), NEW n \in Name,
         NEW what \in {File(<<>>), Dir} \cup {Link(t) : t \in Target}, NEW e \in Create(n, what)
  PROVE  Fine(e) /\ Named(e.dir)
<1>1. /\ dir \in [Name -> Inode \cup {Nil}] /\ dir[n] = Nil
      /\ \A i \in InUse(dir, {sfd, dfd}) : i \in Inode /\ node[i] # Free
  BY DEF TypeOK, InUse, Create
<1>2. PICK i \in Unused : e = [dir |-> [dir EXCEPT ![n] = i], node |-> [node EXCEPT ![i] = what]]
  BY DEF Create, After, Bind
<1>3. i \in Inode /\ i \notin InUse(dir, {sfd, dfd})
  BY DEF Unused
<1>4. /\ e.dir \in [Name -> Inode \cup {Nil}]
      /\ e.dir[n] = i /\ \A k \in Name \ {n} : e.dir[k] = dir[k]
      /\ e.node = [node EXCEPT ![i] = what]
  BY <1>1, <1>2, <1>3
<1>6. /\ what \in Nodes /\ what # Free
      /\ (what.kind # "file" => what.text = <<>>) /\ (what.kind # "link" => what.to = Nil)
  <2>1. \A t \in Target : Link(t) # Free
    BY NewNodes
  <2> QED BY <2>1, NewNodes
<1>7. Sound(e.node) /\ e.node[i] = what /\ \A k \in Inode \ {i} : e.node[k] = node[k]
  BY <1>3, <1>4, <1>6 DEF Sound
<1>8. InUse(e.dir, {sfd, dfd}) \subseteq InUse(dir, {sfd, dfd}) \cup {i}
  BY <1>4 DEF InUse
<1>9. Fine(e)
  BY <1>1, <1>3, <1>4, <1>6, <1>7, <1>8 DEF Fine
<1> QED BY <1>1, <1>4, <1>9 DEF Named, NamedBut

\* What a fine disk does to the invariant when no descriptor is opened or closed.
LEMMA FineTyped ==
  ASSUME TypeOK, Sound(node), NEW e, Fine(e), Disk(e.dir, e.node), UNCHANGED <<sfd, dfd>>
  PROVE  /\ dir' = e.dir /\ dir' \in [Name -> Inode \cup {Nil}] /\ Sound(node')
         /\ \A i \in Inode : /\ (node'[i] = Free) <=> i \notin InUse(dir', {sfd', dfd'})
                             /\ node'[i].kind \in {"file", "dir", "link", "free"}
         /\ dfd # Nil => node'[dfd] = node[dfd]
         /\ \A n, m \in Name : dir[n] # Nil /\ e.dir[m] = dir[n] => node'[dir[n]] = node[dir[n]]
<1>1. sfd' \in Inode \cup {Nil} /\ dfd' \in Inode \cup {Nil}
  BY DEF TypeOK
<1>2. /\ e.dir \in [Name -> Inode \cup {Nil}] /\ Sound(e.node)
      /\ \A i \in InUse(e.dir, {sfd', dfd'}) : e.node[i] # Free
      /\ \A i \in InUse(dir, {sfd, dfd}) : e.node[i] = node[i]
  BY DEF Fine
<1>3. /\ dir' = e.dir /\ dir' \in [Name -> Inode \cup {Nil}] /\ Sound(node')
      /\ \A i \in Inode : /\ (node'[i] = Free) <=> i \notin InUse(dir', {sfd', dfd'})
                          /\ node'[i].kind \in {"file", "dir", "link", "free"}
      /\ \A i \in InUse(e.dir, {sfd', dfd'}) : i \in Inode /\ node'[i] = e.node[i]
  BY <1>1, <1>2, DiskTyped
<1>4. dfd # Nil => dfd \in InUse(dir, {sfd, dfd}) /\ dfd \in InUse(e.dir, {sfd', dfd'})
  BY DEF InUse
<1>5. \A n, m \in Name : dir[n] # Nil /\ e.dir[m] = dir[n] =>
        dir[n] \in InUse(dir, {sfd, dfd}) /\ dir[n] \in InUse(e.dir, {sfd', dfd'})
  BY DEF InUse
<1> QED BY <1>2, <1>3, <1>4, <1>5

\* A call leaves a fine disk; mv takes a name from what dest was at most, and
\* nothing but rm from another file.
LEMMA EffectsFine ==
  ASSUME ShellInv, pc = "call", NEW e \in Effects(cmd)
  PROVE  /\ Fine(e)
         /\ cmd.op = "mv" => cmd.dst \in Name /\ NamedBut(e.dir, dir[cmd.dst])
         /\ cmd.op \notin {"mv", "rm"} => Named(e.dir)
<1>0. TypeOK /\ Sound(node) /\ cmd \in Commands /\ cmd.op \in {"mv", "rm", "rmdir", "mkdir", "ln"}
  <2>1. cmd.op \notin {"cp", "filter"}
    BY DEF ShellInv, Stages
  <2> QED BY <2>1, CommandKinds DEF ShellInv, TypeOK
<1>1. /\ cmd.op \in {"mv", "ln", "rm", "mkdir", "rmdir"} => cmd.src \in Name
      /\ cmd.op \in {"mv", "ln"} => cmd.dst \in Name
      /\ cmd.src \in Target
  BY <1>0, CommandAssumption DEF Target
<1>2. /\ cmd.op = "mv" => e \in Rename(cmd.src, cmd.dst)
      /\ cmd.op = "rm" => e \in Remove(cmd.src, "other")
      /\ cmd.op = "rmdir" => e \in Remove(cmd.src, "dir")
      /\ cmd.op = "mkdir" => e \in Create(cmd.src, Dir)
      /\ cmd.op = "ln" => \/ e \in Create(cmd.dst, Link(cmd.src))
                          \/ e \in HardLink(cmd.src, cmd.dst)
  BY <1>0 DEF Effects
<1>3. CASE cmd.op = "mv"
  BY <1>0, <1>1, <1>2, <1>3, RenameFine
<1>4. CASE cmd.op \in {"rm", "rmdir"}
  BY <1>0, <1>1, <1>2, <1>4, RemoveFine
<1>5. CASE cmd.op = "mkdir"
  BY <1>0, <1>1, <1>2, <1>5, CreateFine
<1>6. CASE cmd.op = "ln"
  BY <1>0, <1>1, <1>2, <1>6, CreateFine, HardLinkFine
<1> QED BY <1>0, <1>3, <1>4, <1>5, <1>6

LEMMA ShellInvCall == ASSUME ShellInv, Call PROVE ShellInv'
<1>0. /\ TypeOK /\ Sound(node) /\ Stages /\ Before /\ pc = "call" /\ pc' = "prompt"
      /\ UNCHANGED <<sfd, dfd, off, cmd, yes, mishap, late, old>> /\ sfd = Nil /\ dfd = Nil
      /\ mishap = {} /\ cmd.op \notin {"cp", "filter"}
  <2>1. TypeOK /\ Sound(node) /\ Stages /\ Before /\ pc = "call" /\ pc' = "prompt"
        /\ UNCHANGED <<sfd, dfd, off, cmd, yes, mishap, late, old>>
    BY DEF ShellInv, Call, Return, files, ghosts
  <2>2. sfd = Nil /\ dfd = Nil
    BY <2>1 DEF TypeOK
  <2>3. cmd.op \notin {"cp", "filter"} /\ mishap = {}
    BY <2>1 DEF Stages
  <2> QED BY <2>1, <2>2, <2>3
<1>1. Calm => Untouched
  BY <1>0 DEF ShellInv, Waiting
<1>2. Calm' = Calm /\ Before'
  BY <1>0 DEF Calm, Before, Sound, InUse
<1>3. Stages' /\ Unseen' /\ Opened' /\ Copying' /\ Copied' /\ NotRun'
  BY <1>0 DEF Stages, Unseen, Opened, Copying, Copied, NotRun
<1>4. CASE Effects(cmd) = {} /\ UNCHANGED disk /\ Return("failed")
  <2>1. UNCHANGED <<dir, node, cmd, old>> /\ out' = "failed"
    BY <1>0, <1>4 DEF disk, Return
  <2>2. TypeOK'
    BY <1>0, <2>1 DEF TypeOK, InUse
  <2>3. Waiting'
    BY <1>1, <1>2, <2>1, DiskSame DEF Waiting
  <2> QED BY <1>3, <2>1, <2>2, <2>3, DiskSame DEF ShellInv
<1>5. ASSUME NEW e \in Effects(cmd), Disk(e.dir, e.node), Return("done") PROVE ShellInv'
  <2>1. /\ dir' \in [Name -> Inode \cup {Nil}] /\ Sound(node')
        /\ \A i \in Inode : /\ (node'[i] = Free) <=> i \notin InUse(dir', {sfd', dfd'})
                            /\ node'[i].kind \in {"file", "dir", "link", "free"}
    <3>1. Fine(e)
      BY <1>0, EffectsFine
    <3> QED BY <1>0, <1>5, <3>1, FineTyped
  <2>2. out' = "done"
    BY <1>5 DEF Return
  <2>3. TypeOK' /\ Waiting'
    BY <1>0, <2>1, <2>2 DEF TypeOK, Waiting
  <2> QED BY <1>2, <1>3, <2>1, <2>3 DEF ShellInv
<1> QED BY <1>4, <1>5 DEF Call

LEMMA ShellInvOther == ASSUME ShellInv, Other PROVE ShellInv'
<1>0. TypeOK /\ Sound(node) /\ Stages /\ UNCHANGED <<sfd, dfd, off, pc, cmd, out, yes, mishap>>
      /\ old' = Nil /\ late' = TRUE
  BY DEF ShellInv, Other, files
<1>1. PICK m \in Name, n \in Name :
        \E e \in Rename(m, n) \cup Remove(n, "other") \cup HardLink(m, n) \cup Create(n, File(<<>>)) :
          Disk(e.dir, e.node)
  BY DEF Other
<1>2. PICK e \in Rename(m, n) \cup Remove(n, "other") \cup HardLink(m, n) \cup Create(n, File(<<>>)) :
        Disk(e.dir, e.node)
  BY <1>1
<1>3. Fine(e)
  <2>1. CASE e \in Rename(m, n)
    BY <1>0, <2>1, RenameFine
  <2>2. CASE e \in Remove(n, "other")
    BY <1>0, <2>2, RemoveFine
  <2>3. CASE e \in HardLink(m, n)
    BY <1>0, <2>3, HardLinkFine
  <2>4. CASE e \in Create(n, File(<<>>))
    BY <1>0, <2>4, CreateFine
  <2> QED BY <2>1, <2>2, <2>3, <2>4
<1>4. /\ dir' \in [Name -> Inode \cup {Nil}] /\ Sound(node')
      /\ \A i \in Inode : /\ (node'[i] = Free) <=> i \notin InUse(dir', {sfd', dfd'})
                          /\ node'[i].kind \in {"file", "dir", "link", "free"}
      /\ dfd # Nil => node'[dfd] = node[dfd]
  BY <1>0, <1>2, <1>3, FineTyped
<1>5. TypeOK'
  BY <1>0, <1>4 DEF TypeOK
<1>6. ~Calm'
  BY <1>0 DEF Calm
<1>7. Stages' /\ Unseen'
  BY <1>0, <1>4 DEF Stages, Unseen
<1>8. Before' /\ Waiting' /\ Opened' /\ Copying' /\ Copied' /\ NotRun'
  BY <1>6 DEF Before, Waiting, Opened, Copying, Copied, NotRun
<1> QED BY <1>4, <1>5, <1>7, <1>8 DEF ShellInv

LEMMA ShellInvNext == ShellInv /\ [Next]_vars => ShellInv'
<1> SUFFICES ASSUME ShellInv, [Next]_vars PROVE ShellInv'
  OBVIOUS
<1>1. CASE Step
  BY <1>1, ShellInvAccess, ShellInvAnswer, ShellInvOpenSrc, ShellInvForkFails, ShellInvOpenDst,
     ShellInvCopy, ShellInvCopyEnds, ShellInvReadFails, ShellInvExecFails, ShellInvCall DEF Step
<1>2. CASE Other
  BY <1>2, ShellInvOther
<1>3. ASSUME NEW c \in Commands, Type(c) PROVE ShellInv'
  BY <1>3, ShellInvType
<1>4. CASE UNCHANGED vars
  <2>1. UNCHANGED <<dir, node, cmd, old, pc, sfd, dfd, off, out, yes, mishap, late>>
    BY <1>4 DEF vars
  <2>2. TypeOK'
    BY <2>1 DEF ShellInv, TypeOK, InUse
  <2>3. Stages' /\ Unseen' /\ Waiting' /\ Opened' /\ NotRun'
    BY <2>1, DiskSame DEF ShellInv, Stages, Unseen, Waiting, Opened, NotRun
  <2>4. Whole' = Whole
    BY <2>1 DEF Whole, Src, Dst
  <2>5. Copying'
    BY <2>1, <2>4, DiskSame DEF ShellInv, Copying
  <2>6. Copied'
    BY <2>1, <2>4, DiskSame DEF ShellInv, Copied
  <2> QED BY <2>1, <2>2, <2>3, <2>5, <2>6, DiskSame DEF ShellInv
<1> QED BY <1>1, <1>2, <1>3, <1>4 DEF Next

LEMMA ShellInvAlways == Spec => []ShellInv
BY ShellInvInit, ShellInvNext, PTL DEF Spec

-----------------------------------------------------------------------------
(* What a step with -i does to the files.                                  *)

\* The file i keeps a name and what is in it.
Survives(i) == HasName(i)' /\ Len(node'[i].text) >= Len(node[i].text)

\* An inode keeps what the disk says of it as long as it has a name.
LEMMA DiskKeeps ==
  ASSUME NEW d, NEW f, Disk(d, f), NEW i \in Inode, i # Nil, NEW n \in Name, d[n] = i,
         Len(f[i].text) >= Len(node[i].text)
  PROVE  Survives(i)
<1>1. i \in InUse(d, {sfd', dfd'})
  BY DEF InUse
<1>2. dir'[n] = i /\ node'[i] = f[i]
  BY <1>1 DEF Disk
<1> QED BY <1>2 DEF Survives, HasName

LEMMA NoLossStep ==
  ASSUME ShellInv, Next, cmd.flag, ~yes, UNCHANGED old, NEW i \in Inode, IsFile(i), HasName(i)
  PROVE  Survives(i) \/ (late /\ i = Lookup(dir, node, cmd.dst))
<1>0. /\ TypeOK /\ Sound(node) /\ Stages /\ Unseen /\ cmd \in Commands /\ i # Nil
      /\ node[i].kind = "file" /\ node[i].text \in Seq(Nat) /\ Len(node[i].text) \in Nat
  <2>1. node[i].text \in Seq(Nat) /\ Len(node[i].text) \in Nat
    <3>1. node[i].text \in Seq(Nat)
      BY Kinds DEF ShellInv
    <3> QED BY <3>1
  <2>2. cmd \in Commands
    BY DEF ShellInv, TypeOK
  <2> QED BY <2>1, <2>2, InodeAssumption DEF ShellInv, IsFile
<1>1. PICK n \in Name : dir[n] = i
  BY DEF HasName
<1>2. CASE UNCHANGED disk
  BY <1>0, <1>1, <1>2 DEF Survives, HasName, disk
<1>3. CASE Disk(dir, node)
  BY <1>0, <1>1, <1>3, DiskKeeps
<1>4. CASE OpenDst
  <2> DEFINE m == Resolve(dir, node, cmd.dst)
             k == At(dir, m)
  <2>1. CASE k = i
    <3>1. i = Lookup(dir, node, cmd.dst)
      BY <1>0, <2>1 DEF Lookup, IsLink
    <3>2. pc = "open_dst" /\ cmd.op \in {"cp", "filter"}
      BY <1>0, <1>4 DEF OpenDst, OpenDstOr, Stages
    <3>3. cmd.op = "cp"
      BY <1>0, <3>2, CommandKinds
    <3> QED BY <1>0, <3>1, <3>2, <3>3 DEF Unseen
  <2>2. ASSUME k # i, IsFile(k), Disk(dir, [node EXCEPT ![k].text = Cut(@)]) PROVE Survives(i)
    <3>1. PICK f : f = [node EXCEPT ![k].text = Cut(@)]
      OBVIOUS
    <3>2. f[i] = node[i]
      BY <1>0, <2>2, <3>1 DEF ShellInv, Sound
    <3>3. Len(f[i].text) >= Len(node[i].text) /\ Disk(dir, f)
      BY <1>0, <2>2, <3>1, <3>2
    <3> QED BY <1>0, <1>1, <3>3, DiskKeeps
  <2>3. ASSUME m \in Name, k = Nil, NEW j \in Unused,
               Disk(Bind(m, j), [node EXCEPT ![j] = File(<<>>)])
        PROVE  Survives(i)
    <3>1. PICK d, f : d = Bind(m, j) /\ f = [node EXCEPT ![j] = File(<<>>)]
      OBVIOUS
    <3>2. n # m /\ i # j
      BY <1>0, <1>1, <2>3 DEF At, Unused, InUse
    <3>3. d[n] = i /\ f[i] = node[i]
      BY <1>0, <1>1, <3>1, <3>2 DEF ShellInv, Sound, Bind, TypeOK
    <3>4. Len(f[i].text) >= Len(node[i].text) /\ Disk(d, f)
      BY <1>0, <2>3, <3>1, <3>3
    <3> QED BY <1>0, <3>3, <3>4, DiskKeeps
  <2> QED BY <1>3, <1>4, <2>1, <2>2, <2>3 DEF OpenDst, OpenDstOr
<1>5. CASE Copy
  <2> SUFFICES ASSUME dfd # Nil, Disk(dir, [node EXCEPT ![dfd].text = Append(@, Head(Unread))])
               PROVE  Survives(i)
    BY <1>2, <1>5 DEF Copy
  <2>1. PICK b, f : b = Head(Unread) /\ f = [node EXCEPT ![dfd].text = Append(@, b)]
    OBVIOUS
  <2>2. i # dfd => f[i] = node[i]
    BY <2>1 DEF ShellInv, Sound
  <2>3. i = dfd => Len(f[i].text) >= Len(node[i].text)
    <3>1. i = dfd => f[i].text = Append(node[i].text, b)
      BY <1>0, <2>1 DEF ShellInv, Sound, Nodes
    <3>2. Len(Append(node[i].text, b)) = Len(node[i].text) + 1
      BY <1>0
    <3> QED BY <1>0, <3>1, <3>2
  <2>4. Len(f[i].text) >= Len(node[i].text) /\ Disk(dir, f)
    BY <1>0, <2>1, <2>2, <2>3
  <2> QED BY <1>0, <1>1, <2>4, DiskKeeps
<1>6. CASE Call
  <2> SUFFICES ASSUME NEW e \in Effects(cmd), Disk(e.dir, e.node),
                      ~(late /\ i = Lookup(dir, node, cmd.dst))
               PROVE  Survives(i)
    BY <1>2, <1>6 DEF Call
  <2>1. /\ pc = "call" /\ cmd.op # "rm"
    BY <1>0, <1>6 DEF Call, Stages
  <2>2. Fine(e) /\ (cmd.op = "mv" => cmd.dst \in Name /\ NamedBut(e.dir, dir[cmd.dst]))
        /\ (cmd.op # "mv" => Named(e.dir))
    BY <2>1, EffectsFine
  <2>3. cmd.op = "mv" => dir[cmd.dst] # i
    <3>1. cmd.op = "mv" /\ dir[cmd.dst] = i => Lookup(dir, node, cmd.dst) = i
      BY <1>0, <2>2, LookupDirect
    <3> QED BY <1>0, <2>1, <3>1 DEF Unseen
  <2>4. \E m \in Name : e.dir[m] = i
    BY <1>0, <1>1, <2>2, <2>3 DEF Named, NamedBut
  <2>5. e.node[i] = node[i]
    BY <1>0, <1>1, <2>2 DEF Fine, InUse
  <2> QED BY <1>0, <2>4, <2>5, DiskKeeps
<1>7. CASE Step
  BY <1>2, <1>3, <1>4, <1>5, <1>6, <1>7
     DEF Step, Access, Answer, OpenSrc, ForkFails, CopyEnds, ReadFails, ExecFails, Stop
<1>8. CASE Other
  BY <1>8 DEF Other
<1>9. CASE \E c \in Commands : Type(c)
  BY <1>2, <1>9 DEF Type
<1> QED BY <1>7, <1>8, <1>9 DEF Next

-----------------------------------------------------------------------------

\* On any directory, whatever is typed and whatever another process does to it: no
\* name leads to a free inode, no inode in use is freed, and cp, the filters and
\* the calls leave no descriptor open.
THEOREM Typed == Spec => []TypeOK
<1>1. ShellInv => TypeOK
  BY DEF ShellInv
<1> QED BY <1>1, ShellInvAlways, PTL

\* Every line that does not end in an operator means what it says, however long,
\* and whatever an earlier line left behind it.
THEOREM LinesMean == Spec => []LineMeaning
<1>1. ShellInv => LineMeaning
  BY CommandsMean DEF ShellInv, TypeOK
<1> QED BY <1>1, ShellInvAlways, PTL

\* When no other process works on the directory: a file of any length, through
\* links of any depth, is copied whole if no read and no write fails, or is empty
\* when it was copied onto itself; a failed read leaves a beginning of it; and
\* whatever fails, nothing else changes.
THEOREM CopyCorrect == Spec => []CopyOutcome
<1>1. ShellInv => CopyOutcome
  <2> SUFFICES ASSUME ShellInv, Ended, out = "done", cmd.op \in {"cp", "filter"}, Src # Nil,
                      LET d == Lookup(dir, node, cmd.dst)
                      IN  cmd.op = "cp" \/ (d # Nil /\ node[d] # Dir)
               PROVE  LET d == Lookup(dir, node, cmd.dst) IN
                        /\ mishap = {} => node[d] = File(Source)
                        /\ mishap = {"read"} => \E k \in 0 .. Len(Source) : node[d] = File(SubSeq(Source, 1, k))
                        /\ OnlyFile(d)
    BY DEF CopyOutcome
  <2>1. ~Nowhere
    BY DEF Nowhere, Untouched, Dst
  <2>2. /\ \E t : Holds(t)
        /\ mishap = {} => Holds(Whole)
        /\ mishap = {"read"} => \E k \in 0 .. Len(Whole) : Holds(SubSeq(Whole, 1, k))
    BY <2>1 DEF ShellInv, Copied, Ended
  <2>3. Whole = Source
    BY DEF Whole, Source
  <2> QED BY <2>2, <2>3 DEF Holds, OnlyFile
<1> QED BY <1>1, ShellInvAlways, PTL

\* When no other process works on the directory: whatever system call fails, and
\* whenever the user refuses, nothing is different when the command says so; but a
\* program that cannot be executed leaves the file that it was redirected to empty,
\* and only that one.
THEOREM FailuresHarmless == Spec => []FailureHarmless
<1>1. ShellInv => FailureHarmless
  <2> SUFFICES ASSUME ShellInv, Ended, out \in {"refused", "failed"} \/ (cmd.op = "cp" /\ Src = Nil)
               PROVE  Untouched \/ (mishap = {"exec"} /\ Holds(<<>>))
    BY DEF FailureHarmless, Untouched, Holds, OnlyFile
  <2>1. CASE out = "refused" \/ (out = "failed" /\ mishap # {"exec"})
    BY <2>1 DEF ShellInv, Waiting, Ended
  <2>2. CASE out = "failed" /\ mishap = {"exec"}
    BY <2>2 DEF ShellInv, NotRun, Ended
  <2>3. CASE out \notin {"refused", "failed"}
    <3>1. out = "done"
      BY <2>3 DEF ShellInv, TypeOK, Ended
    <3>2. cmd.op = "cp" /\ Src = Nil
      BY <2>3
    <3> QED BY <3>1, <3>2 DEF ShellInv, Copied, Ended
  <2> QED BY <2>1, <2>2, <2>3
<1> QED BY <1>1, ShellInvAlways, PTL

\* With -i and without a y no step of a command, in any state and whatever other
\* processes have done to the directory, cuts a file or takes its last name,
\* however many names and links lead to it; except the file that dest leads to,
\* when another process came between the test with access and the step.
THEOREM NothingLostSilently == Spec => NoSilentLoss
<1>1. ShellInv /\ [Next]_vars =>
        [cmd.flag /\ ~yes /\ UNCHANGED old =>
           \A i \in Inode : IsFile(i) /\ HasName(i) =>
             \/ HasName(i)' /\ Len(node'[i].text) >= Len(node[i].text)
             \/ late /\ i = Lookup(dir, node, cmd.dst)]_vars
  BY NoLossStep DEF Survives
<1> QED BY <1>1, ShellInvAlways, PTL DEF Spec, NoSilentLoss
=============================================================================
