--------------------------- MODULE ChatLinkProofs ---------------------------
(* Theorems about ChatLink. *)
EXTENDS ChatLink, SequenceTheorems, NaturalsInduction, WellFoundedInduction, TLAPS

Sent == [k : {"request", "join", "slash", "number", "file", "text"}, n : Nat]
Got  == [k : {"ok", "fail", "text", "file"}, n : Nat]

StreamType == up \in Seq(Sent) /\ down \in Seq(Got) /\ log \in Seq(Got)

Accepted == \E i \in DOMAIN log : log[i].k = "ok"

\* Until the answer is read nothing is, and nothing but the request is written.
Unanswered ==
  Waiting => /\ down = log /\ heard = 0 /\ room = 0 /\ Len(up) <= 1
             /\ \A i \in DOMAIN up : up[i].k = "request"

\* Before the answer only a record with a stale name gets anything.
AuthFirst ==
  srv = "auth" => ~named /\ ~Accepted /\ (~dirty => log = <<>>)

\* Without a stale name OK comes first.
OkFirst == ~dirty /\ Accepted => log[1].k = "ok"

\* The label says where the last /join on its way leads, or where the client is.
Joins(s, n) ==
  \E i \in DOMAIN s : /\ s[i].k = "join" /\ s[i].n = n
                      /\ \A j \in DOMAIN s : j > i => s[j].k # "join"
NoJoin(s) == \A i \in DOMAIN s : s[i].k # "join"

Follows(s, r, n) == Joins(s, n) \/ (NoJoin(s) /\ r = n)

RoomPending == Chatting /\ plain /\ srv # "none" => Follows(up, room, label)

LinkInv ==
  TypeOK /\ StreamType /\ Unanswered /\ AuthFirst /\ OkFirst /\ RoomPending /\ LoginTruthful

-----------------------------------------------------------------------------

\* A read takes a first part that is not empty, and leaves the rest.
LEMMA ChunkParts ==
  ASSUME NEW X, NEW s \in Seq(X), NEW c \in Chunks(s)
  PROVE  /\ c[1] \in Seq(X) /\ c[2] \in Seq(X)
         /\ Len(c[1]) \in 1 .. Len(s) /\ Len(c[2]) = Len(s) - Len(c[1])
         /\ \A i \in DOMAIN c[1] : c[1][i] = s[i]
         /\ \A i \in DOMAIN c[2] : c[2][i] = s[Len(c[1]) + i]
<1>1. PICK n \in 1 .. Len(s) : c = <<SubSeq(s, 1, n), SubSeq(s, n + 1, Len(s))>>
  BY DEF Chunks
<1>2. n \in Nat /\ n <= Len(s) /\ c[1] = SubSeq(s, 1, n) /\ c[2] = SubSeq(s, n + 1, Len(s))
  BY <1>1
<1>3. c[1] \in Seq(X) /\ Len(c[1]) = n /\ \A i \in DOMAIN c[1] : c[1][i] = s[i]
  BY <1>1, <1>2
<1>4. c[2] \in Seq(X) /\ Len(c[2]) = Len(s) - n /\ \A i \in DOMAIN c[2] : c[2][i] = s[n + i]
  BY <1>1, <1>2
<1> QED BY <1>1, <1>3, <1>4

\* Its first write is the stream's first.
LEMMA ChunkFirst ==
  ASSUME NEW X, NEW s \in Seq(X), NEW c \in Chunks(s)
  PROVE  /\ 1 \in DOMAIN c[1] /\ 1 \in DOMAIN s /\ s # <<>> /\ c[1][1] = s[1] /\ s[1] \in X
         /\ Len(s) \in Nat /\ Len(c[1]) \in Nat /\ DOMAIN c[1] = 1 .. Len(c[1])
         /\ \A i \in DOMAIN c[1] : c[1][i] \in X
         /\ \A i \in DOMAIN c[2] : Len(c[1]) + i \in DOMAIN s
<1>1. PICK a, b : a = c[1] /\ b = c[2]
  OBVIOUS
<1>2. /\ a \in Seq(X) /\ b \in Seq(X) /\ Len(a) \in 1 .. Len(s) /\ Len(b) = Len(s) - Len(a)
      /\ \A i \in DOMAIN a : a[i] = s[i]
  BY <1>1, ChunkParts
<1>3. /\ Len(s) \in Nat /\ Len(a) \in Nat /\ Len(b) \in Nat
      /\ DOMAIN s = 1 .. Len(s) /\ DOMAIN a = 1 .. Len(a) /\ DOMAIN b = 1 .. Len(b)
  BY <1>2
<1>4. 1 \in DOMAIN a /\ 1 \in DOMAIN s /\ \A i \in DOMAIN b : Len(a) + i \in DOMAIN s
  BY <1>2, <1>3
<1>5. /\ a[1] = s[1] /\ s[1] \in X /\ s # <<>>
      /\ \A i \in DOMAIN a : a[i] \in X
  BY <1>2, <1>4
<1> QED BY <1>1, <1>3, <1>4, <1>5

\* A read of the handler, too; what is left of the last is one piece.
LEMMA ReadParts ==
  ASSUME NEW s \in Seq(Sent), NEW c \in Reads(s)
  PROVE  /\ c[1] \in Seq(Sent) /\ c[2] \in Seq(Sent)
         /\ Len(c[1]) \in 1 .. Len(s) /\ Len(c[2]) <= Len(s)
         /\ \A i \in DOMAIN c[1] : c[1][i] = s[i]
         /\ c \in Chunks(s) \/ (Len(c[1]) > 1 /\ Len(s) > 1)
<1>1. CASE c \in Chunks(s)
  <2>1. PICK a, b : a = c[1] /\ b = c[2]
    OBVIOUS
  <2>2. /\ a \in Seq(Sent) /\ b \in Seq(Sent) /\ Len(a) \in 1 .. Len(s) /\ Len(b) = Len(s) - Len(a)
        /\ \A i \in DOMAIN a : a[i] = s[i]
    BY <1>1, <2>1, ChunkParts
  <2>3. Len(b) <= Len(s)
    BY <2>2
  <2> QED BY <1>1, <2>1, <2>2, <2>3
<1>2. ASSUME NEW n \in 2 .. Len(s), NEW t \in Typed,
             c = <<SubSeq(s, 1, n), <<t>> \o SubSeq(s, n + 1, Len(s))>>
      PROVE  /\ c[1] \in Seq(Sent) /\ c[2] \in Seq(Sent)
             /\ Len(c[1]) \in 1 .. Len(s) /\ Len(c[2]) <= Len(s)
             /\ \A i \in DOMAIN c[1] : c[1][i] = s[i]
             /\ Len(c[1]) > 1 /\ Len(s) > 1
  <2>1. PICK a, b, v : a = SubSeq(s, 1, n) /\ b = SubSeq(s, n + 1, Len(s)) /\ v = <<t>>
    OBVIOUS
  <2>2. /\ n \in Nat /\ n <= Len(s) /\ n > 1 /\ Len(s) \in Nat
        /\ a \in Seq(Sent) /\ Len(a) = n /\ \A i \in DOMAIN a : a[i] = s[i]
    BY <2>1
  <2>3. b \in Seq(Sent) /\ Len(b) = Len(s) - n
    BY <2>1
  <2>4. v \in Seq(Sent) /\ Len(v) = 1
    BY <2>1, TypedAssumption, ButtonAssumption DEF Texts, Text, Sent
  <2>5. v \o b \in Seq(Sent) /\ Len(v \o b) = Len(v) + Len(b)
    <3>1. v \in Seq(Sent) /\ b \in Seq(Sent)
      BY <2>3, <2>4
    <3> QED BY <3>1, ConcatProperties
  <2>6. Len(v \o b) <= Len(s) /\ Len(a) \in 1 .. Len(s)
    BY <2>2, <2>3, <2>4, <2>5
  <2>7. c[1] = a /\ c[2] = v \o b
    BY <1>2, <2>1
  <2> QED BY <2>2, <2>5, <2>6, <2>7
<1>3. \/ c \in Chunks(s)
      \/ \E n \in 2 .. Len(s), t \in Typed : c = <<SubSeq(s, 1, n), <<t>> \o SubSeq(s, n + 1, Len(s))>>
  BY DEF Reads
<1> QED BY <1>1, <1>2, <1>3

\* A /join on its way, followed by nothing else, is what counts.
LEMMA JoinLast ==
  ASSUME NEW s \in Seq(Sent), NEW t \in Sent, NEW r, NEW n
  PROVE  /\ t.k = "join" => Follows(Append(s, t), r, t.n)
         /\ t.k # "join" /\ Follows(s, r, n) => Follows(Append(s, t), r, n)
<1> DEFINE a == Append(s, t)
<1>1. /\ DOMAIN a = 1 .. Len(s) + 1 /\ DOMAIN s = 1 .. Len(s) /\ Len(s) \in Nat
      /\ a[Len(s) + 1] = t /\ \A i \in DOMAIN s : a[i] = s[i]
  OBVIOUS
<1> HIDE DEF a
<1>2. t.k = "join" => Joins(a, t.n)
  BY <1>1 DEF Joins
<1>3. t.k # "join" /\ Joins(s, n) => Joins(a, n)
  BY <1>1 DEF Joins
<1>4. t.k # "join" /\ NoJoin(s) => NoJoin(a)
  BY <1>1 DEF NoJoin
<1> QED BY <1>2, <1>3, <1>4 DEF Follows, a

\* Reading one write: a /join makes its room the current one.
LEMMA JoinRead ==
  ASSUME NEW s \in Seq(Sent), NEW t \in Seq(Sent), Len(s) = Len(t) + 1,
         \A i \in DOMAIN t : t[i] = s[i + 1],
         NEW r, NEW n, Follows(s, r, n)
  PROVE  /\ s[1].k = "join" => Follows(t, s[1].n, n)
         /\ s[1].k # "join" => Follows(t, r, n)
<1>1. DOMAIN s = 1 .. Len(t) + 1 /\ DOMAIN t = 1 .. Len(t) /\ Len(t) \in Nat
  OBVIOUS
<1>2. ASSUME NEW i \in DOMAIN s, s[i].k = "join", s[i].n = n,
             \A j \in DOMAIN s : j > i => s[j].k # "join", i # 1
      PROVE  Joins(t, n)
  <2>1. i - 1 \in DOMAIN t /\ t[i - 1] = s[i]
    BY <1>1, <1>2
  <2>2. ASSUME NEW j \in DOMAIN t, j > i - 1 PROVE t[j].k # "join"
    BY <1>1, <1>2, <2>2
  <2> QED BY <1>2, <2>1, <2>2 DEF Joins
<1>3. ASSUME s[1].k = "join", s[1].n = n, \A j \in DOMAIN s : j > 1 => s[j].k # "join"
      PROVE  NoJoin(t)
  BY <1>1, <1>3 DEF NoJoin
<1>4. CASE Joins(s, n)
  BY <1>2, <1>3, <1>4 DEF Joins, Follows
<1>5. CASE NoJoin(s) /\ r = n
  BY <1>1, <1>5 DEF NoJoin, Follows
<1> QED BY <1>4, <1>5 DEF Follows

\* A write of two pieces is one, and then the other.
LEMMA TwoPieces ==
  ASSUME NEW X, NEW s \in Seq(X), NEW t \in X, NEW u \in X
  PROVE  /\ s \o <<t>> = Append(s, t)
         /\ s \o <<t, u>> = Append(Append(s, t), u)
         /\ Append(s, t) \in Seq(X) /\ Len(Append(s, t)) = Len(s) + 1
<1> DEFINE a == Append(s, t)
           b == Append(a, u)
           v == <<t, u>>
<1>1. a \in Seq(X) /\ Len(a) = Len(s) + 1 /\ a[Len(s) + 1] = t /\ \A i \in 1 .. Len(s) : a[i] = s[i]
  OBVIOUS
<1>2. s \o <<t>> = a
  OBVIOUS
<1> HIDE DEF a
<1>3. b \in Seq(X) /\ Len(b) = Len(a) + 1 /\ b[Len(a) + 1] = u /\ \A i \in 1 .. Len(a) : b[i] = a[i]
  BY <1>1
<1>4. v \in Seq(X) /\ Len(v) = 2 /\ v[1] = t /\ v[2] = u
  OBVIOUS
<1> HIDE DEF b, v
<1>5. /\ s \o v \in Seq(X) /\ Len(s \o v) = Len(s) + Len(v)
      /\ \A i \in 1 .. Len(s) + Len(v) : (s \o v)[i] = IF i <= Len(s) THEN s[i] ELSE v[i - Len(s)]
  <2>1. s \in Seq(X) /\ v \in Seq(X)
    BY <1>4
  <2> QED BY <2>1, ConcatProperties
<1>6. PICK N : N = Len(s) /\ N \in Nat
  OBVIOUS
<1>7. ASSUME NEW i \in 1 .. N + 2 PROVE (s \o v)[i] = b[i]
  <2>1. CASE i <= N
    BY <1>1, <1>3, <1>4, <1>5, <1>6, <2>1
  <2>2. CASE i = N + 1
    BY <1>1, <1>3, <1>4, <1>5, <1>6, <2>2
  <2>3. CASE i = N + 2
    BY <1>1, <1>3, <1>4, <1>5, <1>6, <2>3
  <2>4. i <= N \/ i = N + 1 \/ i = N + 2
    BY <1>6
  <2> QED BY <2>1, <2>2, <2>3, <2>4
<1>8. s \o v = b
  <2>1. Len(s \o v) = N + 2 /\ Len(b) = N + 2
    BY <1>1, <1>3, <1>4, <1>5, <1>6
  <2>2. \A i \in 1 .. Len(b) : (s \o v)[i] = b[i]
    BY <1>7, <2>1
  <2> QED BY <1>3, <1>5, <2>1, <2>2, SeqEqual
<1> QED BY <1>1, <1>2, <1>8 DEF a, b, v

LEMMA LinkInvInit == Init => LinkInv
<1> SUFFICES ASSUME Init PROVE LinkInv OBVIOUS
<1> USE DEF Init
<1>1. TypeOK
  <2>1. Len(up) = 0 /\ Len(down) = 0 /\ Len(log) = 0
    OBVIOUS
  <2>2. /\ tries \in 0 .. MaxTries /\ writes \in 0 .. MaxLines /\ others \in 0 .. MaxLines
        /\ Len(up) <= Capacity /\ Len(down) <= Capacity /\ heard \in 0 .. Len(log)
    BY <2>1, BoundAssumption
  <2> QED BY <2>2, ButtonAssumption DEF TypeOK, Waiting, Chatting
<1>2. StreamType
  BY DEF StreamType
<1>3. Unanswered /\ AuthFirst /\ OkFirst /\ RoomPending /\ LoginTruthful
  BY DEF Unanswered, AuthFirst, OkFirst, RoomPending, LoginTruthful, Waiting, Chatting, Accepted
<1> QED BY <1>1, <1>2, <1>3 DEF LinkInv

-----------------------------------------------------------------------------

\* The server writes one piece, or two when it is no answer.
LEMMA WriteParts ==
  ASSUME TypeOK, StreamType, NEW k \in {"ok", "fail", "text", "file"}, Write(k)
  PROVE  /\ Len(down') <= Capacity
         /\ \E t \in Got :
              /\ t.k = k /\ t.n = Len(log) + 1
              /\ \/ down' = Append(down, t) /\ log' = Append(log, t)
                 \/ \E u \in Got : /\ u.k \in {"text", "file"} /\ u.n = Len(log) + 2
                                   /\ down' = Append(Append(down, t), u) /\ log' = Append(Append(log, t), u)
<1>1. PICK s \in Pieces(k) : Len(down) + Len(s) <= Capacity /\ down' = down \o s /\ log' = log \o s
  BY DEF Write
<1>0. Text(k, Len(log) + 1) \in Got
  BY DEF Text, Got, StreamType
<1>2. PICK t \in Got : t = Text(k, Len(log) + 1)
  BY <1>0
<1>3. t.k = k /\ t.n = Len(log) + 1
  BY <1>2 DEF Text
<1>4. CASE s = <<t>>
  <2>1. down' = Append(down, t) /\ log' = Append(log, t)
    BY <1>1, <1>4, TwoPieces DEF StreamType
  <2>2. Len(down') = Len(down) + 1 /\ Len(s) = 1
    BY <1>4, <2>1 DEF StreamType
  <2> QED BY <1>1, <1>3, <2>1, <2>2
<1>5. ASSUME NEW j \in {"text", "file"}, s = <<t, Text(j, Len(log) + 2)>>
      PROVE  /\ Len(down') <= Capacity
             /\ \E u \in Got : /\ u.k \in {"text", "file"} /\ u.n = Len(log) + 2
                               /\ down' = Append(Append(down, t), u) /\ log' = Append(Append(log, t), u)
  <2>0. Text(j, Len(log) + 2) \in Got
    BY DEF Text, Got, StreamType
  <2>1. PICK u \in Got : u = Text(j, Len(log) + 2)
    BY <2>0
  <2>2. u.k \in {"text", "file"} /\ u.n = Len(log) + 2
    BY <2>1 DEF Text
  <2>3. down' = Append(Append(down, t), u) /\ log' = Append(Append(log, t), u)
    BY <1>1, <1>5, <2>1, TwoPieces DEF StreamType
  <2>4. Append(down, t) \in Seq(Got) /\ Len(Append(down, t)) = Len(down) + 1
    BY TwoPieces DEF StreamType
  <2>5. PICK d : d = Append(down, t)
    OBVIOUS
  <2>6. Len(down') = Len(d) + 1 /\ Len(s) = 2 /\ Len(down) \in Nat
    BY <1>5, <2>3, <2>4, <2>5 DEF StreamType
  <2> QED BY <1>1, <2>2, <2>3, <2>4, <2>5, <2>6
<1>6. s = <<t>> \/ \E j \in {"text", "file"} : s = <<t, Text(j, Len(log) + 2)>>
  BY <1>1, <1>2 DEF Pieces
<1> QED BY <1>3, <1>4, <1>5, <1>6

\* One more piece in the log.
LEMMA LogGrows ==
  ASSUME NEW a \in Seq(Got), NEW t \in Got
  PROVE  /\ Append(a, t) \in Seq(Got) /\ Len(Append(a, t)) = Len(a) + 1
         /\ Append(a, t) # <<>> /\ (a # <<>> => Append(a, t)[1] = a[1]) /\ (a = <<>> => Append(a, t)[1] = t)
         /\ (\E i \in DOMAIN Append(a, t) : Append(a, t)[i].k = "ok")
            <=> ((\E i \in DOMAIN a : a[i].k = "ok") \/ t.k = "ok")
<1> DEFINE b == Append(a, t)
<1>1. /\ b \in Seq(Got) /\ Len(b) = Len(a) + 1 /\ Len(a) \in Nat
      /\ DOMAIN b = 1 .. Len(a) + 1 /\ DOMAIN a = 1 .. Len(a)
      /\ b[Len(a) + 1] = t /\ \A i \in DOMAIN a : b[i] = a[i]
  OBVIOUS
<1> HIDE DEF b
<1>2. b # <<>> /\ (a # <<>> => b[1] = a[1]) /\ (a = <<>> => b[1] = t)
  BY <1>1
<1>3. (\E i \in DOMAIN b : b[i].k = "ok") <=> ((\E i \in DOMAIN a : a[i].k = "ok") \/ t.k = "ok")
  BY <1>1
<1> QED BY <1>1, <1>2, <1>3 DEF b

\* What a write of the server does to the connection and to its log.
LEMMA WriteAppends ==
  ASSUME TypeOK, StreamType, NEW k \in {"ok", "fail", "text", "file"}, Write(k)
  PROVE  /\ down' \in Seq(Got) /\ log' \in Seq(Got) /\ Len(down') <= Capacity
         /\ heard \in 0 .. Len(log')
         /\ log' # <<>> /\ (log # <<>> => log'[1] = log[1]) /\ (log = <<>> => log'[1].k = k)
         /\ Accepted' <=> (Accepted \/ k = "ok")
         /\ (down = log => down' = log')
<1>1. PICK t \in Got :
        /\ t.k = k /\ t.n = Len(log) + 1
        /\ \/ down' = Append(down, t) /\ log' = Append(log, t)
           \/ \E u \in Got : /\ u.k \in {"text", "file"} /\ u.n = Len(log) + 2
                             /\ down' = Append(Append(down, t), u) /\ log' = Append(Append(log, t), u)
  BY WriteParts
<1>2. Len(down') <= Capacity
  BY WriteParts
<1>3. PICK a, d : a = Append(log, t) /\ d = Append(down, t)
  OBVIOUS
<1>4. /\ a \in Seq(Got) /\ d \in Seq(Got) /\ Len(a) = Len(log) + 1 /\ (down = log => d = a)
      /\ a # <<>> /\ (log # <<>> => a[1] = log[1]) /\ (log = <<>> => a[1].k = k)
      /\ (\E i \in DOMAIN a : a[i].k = "ok") <=> (Accepted \/ k = "ok")
  BY <1>1, <1>3, LogGrows DEF StreamType, Accepted
<1>5. heard \in 0 .. Len(log) /\ Len(log) \in Nat
  BY DEF TypeOK, StreamType
<1>6. CASE down' = d /\ log' = a
  <2>1. heard \in 0 .. Len(log')
    BY <1>4, <1>5, <1>6
  <2> QED BY <1>2, <1>4, <1>6, <2>1 DEF Accepted
<1>7. ASSUME NEW u \in Got, u.k \in {"text", "file"}, down' = Append(d, u), log' = Append(a, u)
      PROVE  /\ down' \in Seq(Got) /\ log' \in Seq(Got)
             /\ heard \in 0 .. Len(log')
             /\ log' # <<>> /\ (log # <<>> => log'[1] = log[1]) /\ (log = <<>> => log'[1].k = k)
             /\ Accepted' <=> (Accepted \/ k = "ok")
             /\ (down = log => down' = log')
  <2>1. /\ down' \in Seq(Got) /\ log' \in Seq(Got) /\ Len(log') = Len(a) + 1
        /\ log' # <<>> /\ log'[1] = a[1]
        /\ (\E i \in DOMAIN log' : log'[i].k = "ok") <=> (\E i \in DOMAIN a : a[i].k = "ok")
    BY <1>4, <1>7, LogGrows
  <2>2. heard \in 0 .. Len(log')
    BY <1>4, <1>5, <2>1
  <2> QED BY <1>4, <1>7, <2>1, <2>2 DEF Accepted
<1> QED BY <1>1, <1>2, <1>3, <1>6, <1>7

\* What a write of the client does to the connection.
LEMMA SendAppends ==
  ASSUME TypeOK, StreamType, NEW s \in Seq(Sent), Send(s), Chatting
  PROVE  /\ up' \in Seq(Sent) /\ Len(up') <= Capacity /\ writes' \in 0 .. MaxLines
         /\ link' \in {"open", "eof", "reset"} /\ (srv # "none" => link' = "open")
         /\ (srv # "none" => up' = up \o s)
<1>1. writes' \in 0 .. MaxLines
  <2>1. Len(s) \in Nat
    OBVIOUS
  <2> QED BY <2>1, BoundAssumption DEF Send, TypeOK
<1>2. CASE link = "open" /\ Len(up) + Len(s) <= Capacity /\ up' = up \o s /\ UNCHANGED link
  <2>1. up' \in Seq(Sent) /\ Len(up') = Len(up) + Len(s)
    BY <1>2, ConcatProperties DEF StreamType
  <2> QED BY <1>1, <1>2, <2>1
<1>3. CASE link = "eof" /\ link' = "reset" /\ UNCHANGED up
  <2>1. srv = "none"
    BY <1>3 DEF TypeOK
  <2> QED BY <1>1, <1>3, <2>1 DEF TypeOK, StreamType
<1> QED BY <1>2, <1>3 DEF Send

\* After the answer, and before it to a stale name, a line changes nothing else.
LEMMA LineHarmless ==
  ASSUME TypeOK, StreamType, OkFirst, LoginTruthful, UNCHANGED <<gtk, dirty, heard>>,
         UNCHANGED <<down, log>> \/ \E k \in {"text", "file"} : Write(k)
  PROVE  /\ down' \in Seq(Got) /\ log' \in Seq(Got) /\ Len(down') <= Capacity
         /\ heard' \in 0 .. Len(log') /\ (down = log => down' = log')
         /\ Accepted' = Accepted /\ OkFirst'
         /\ Chatting => log' # <<>> /\ log'[1].k = "ok"
<1>1. CASE UNCHANGED <<down, log>>
  BY <1>1 DEF TypeOK, StreamType, OkFirst, LoginTruthful, Accepted
<1>2. ASSUME NEW k \in {"text", "file"}, Write(k)
      PROVE  /\ down' \in Seq(Got) /\ log' \in Seq(Got) /\ Len(down') <= Capacity
             /\ heard' \in 0 .. Len(log') /\ (down = log => down' = log')
             /\ Accepted' = Accepted /\ OkFirst'
             /\ Chatting => log' # <<>> /\ log'[1].k = "ok"
  <2>1. /\ down' \in Seq(Got) /\ log' \in Seq(Got) /\ Len(down') <= Capacity
        /\ heard \in 0 .. Len(log') /\ (down = log => down' = log')
        /\ Accepted' <=> Accepted
        /\ log' # <<>> /\ (log # <<>> => log'[1] = log[1])
    BY <1>2, WriteAppends
  <2>2. Accepted => log # <<>>
    BY DEF Accepted
  <2>3. OkFirst'
    BY <2>1, <2>2 DEF OkFirst
  <2>4. Accepted' = Accepted
    BY <2>1 DEF Accepted
  <2> QED BY <2>1, <2>3, <2>4 DEF LoginTruthful
<1> QED BY <1>1, <1>2

LEMMA LinkInvNext == LinkInv /\ [Next]_vars => LinkInv'
<1> SUFFICES ASSUME LinkInv, [Next]_vars PROVE LinkInv' OBVIOUS
<1>0. TypeOK /\ StreamType /\ Unanswered /\ AuthFirst /\ OkFirst /\ RoomPending /\ LoginTruthful
  BY DEF LinkInv
<1>1. CASE Dialogs \/ Dismiss \/ ClickFile
  <2>1. /\ UNCHANGED <<label, view, idle, rcv, link, up, down, srv, recordVars, counters, log,
                       ghostVars>>
        /\ Waiting' = FALSE /\ ~Waiting /\ Chatting' = Chatting /\ gtk' \in {"login", "signup", "chat", "file"}
    BY <1>1 DEF Dialogs, OpenSignup, CloseSignup, Dismiss, ClickFile, Waiting, Chatting
  <2>2. TypeOK' /\ StreamType'
    BY <1>0, <2>1 DEF TypeOK, StreamType, recordVars, counters, ghostVars
  <2>3. Unanswered' /\ AuthFirst' /\ OkFirst'
    BY <1>0, <2>1 DEF Unanswered, AuthFirst, OkFirst, Accepted, recordVars, ghostVars
  <2>4. RoomPending' /\ LoginTruthful'
    BY <1>0, <2>1 DEF RoomPending, LoginTruthful, recordVars, ghostVars
  <2> QED BY <2>2, <2>3, <2>4 DEF LinkInv
<1>2. CASE Update \/ Receive \/ ReceiveEnds
  <2>1. /\ UNCHANGED <<gtk, label, link, up, srv, recordVars, counters, log, ghostVars>>
        /\ Chatting /\ ~Waiting
    BY <1>0, <1>2 DEF Update, Receive, ReceiveEnds, TypeOK, Waiting, Chatting
  <2>2. rcv' = rcv \/ (rcv = "running" /\ rcv' = "ended")
    BY <1>2 DEF Update, Receive, ReceiveEnds
  <2>3. down' \in Seq(Got) /\ Len(down') <= Capacity
    <3>1. CASE UNCHANGED down
      BY <1>0, <3>1 DEF TypeOK, StreamType
    <3>2. ASSUME NEW c \in Chunks(down), down' = c[2] PROVE down' \in Seq(Got) /\ Len(down') <= Capacity
      <4>1. /\ c[2] \in Seq(Got) /\ Len(c[1]) \in 1 .. Len(down)
            /\ Len(c[2]) = Len(down) - Len(c[1])
        BY <1>0, ChunkParts DEF StreamType
      <4>2. Len(down) \in Nat /\ Len(down) <= Capacity
        BY <1>0 DEF TypeOK, StreamType
      <4> QED BY <3>2, <4>1, <4>2, BoundAssumption
    <3> QED BY <1>2, <3>1, <3>2 DEF Update, Receive, ReceiveEnds
  <2>4. TypeOK' /\ StreamType'
    BY <1>0, <2>1, <2>2, <2>3 DEF TypeOK, StreamType, recordVars, counters, ghostVars, Waiting, Chatting
  <2>5. Unanswered' /\ AuthFirst' /\ OkFirst'
    BY <1>0, <2>1 DEF Unanswered, AuthFirst, OkFirst, Accepted, recordVars, ghostVars, Waiting
  <2>6. RoomPending' /\ LoginTruthful'
    BY <1>0, <2>1 DEF RoomPending, LoginTruthful, Chatting, recordVars, ghostVars
  <2> QED BY <2>4, <2>5, <2>6 DEF LinkInv
<1>3. CASE Refused
  <2>1. Len(log') = 0 /\ log' \in Seq(Got) /\ ~Accepted'
    BY <1>3 DEF Refused, Accepted
  <2>2. ~Waiting' /\ ~Chatting' /\ ~Waiting /\ ~Chatting
    BY <1>3 DEF Refused, Waiting, Chatting
  <2>3. srv = "none"
    BY <1>0, <2>2 DEF TypeOK
  <2>4. TypeOK' /\ StreamType'
    BY <1>0, <1>3, <2>1, <2>2, BoundAssumption DEF Refused, TypeOK, StreamType, recordVars
  <2>5. Unanswered' /\ AuthFirst' /\ OkFirst' /\ RoomPending' /\ LoginTruthful'
    BY <1>3, <2>1, <2>2, <2>3
       DEF Refused, Unanswered, AuthFirst, OkFirst, RoomPending, LoginTruthful, Accepted
  <2> QED BY <2>4, <2>5 DEF LinkInv
<1>4. CASE Connect
  <2>1. /\ Len(log') = 0 /\ log' \in Seq(Got) /\ ~Accepted' /\ down' = log'
        /\ up' \in Seq(Sent) /\ Len(up') = 1 /\ \A i \in DOMAIN up' : up'[i].k = "request"
    BY <1>4 DEF Connect, Accepted, Text, Sent
  <2>2. Waiting' /\ ~Chatting' /\ ~Waiting /\ ~Chatting
    BY <1>4 DEF Connect, Waiting, Chatting
  <2>3. TypeOK' /\ StreamType'
    <3>1. /\ tries' \in 0 .. MaxTries /\ Len(up') <= Capacity /\ Len(down') <= Capacity
          /\ heard' \in 0 .. Len(log')
      BY <1>0, <1>4, <2>1, BoundAssumption DEF Connect, TypeOK
    <3>2. rcv = "none" /\ rcv' = "none"
      BY <1>0, <1>4, <2>2 DEF Connect, TypeOK
    <3>3. /\ gtk' \in {"wait_login", "wait_signup"} /\ link' = "open" /\ srv' = "auth"
          /\ dirty' \in BOOLEAN /\ named' = FALSE /\ room' = 0
          /\ UNCHANGED <<label, writes, others, plain>>
      BY <1>4 DEF Connect
    <3> QED BY <1>0, <2>1, <2>2, <3>1, <3>2, <3>3 DEF TypeOK, StreamType
  <2>4. Unanswered' /\ AuthFirst' /\ OkFirst'
    BY <1>4, <2>1 DEF Connect, Unanswered, AuthFirst, OkFirst
  <2>5. RoomPending' /\ LoginTruthful'
    BY <1>4, <2>2 DEF Connect, RoomPending, LoginTruthful, Waiting
  <2> QED BY <2>3, <2>4, <2>5 DEF LinkInv
<1>5. CASE Answered
  <2>1. PICK c \in Chunks(down) :
          /\ down' = c[2]
          /\ \/ gtk = "wait_login" /\ c[1][1].k = "ok" /\ OpenChat(c[1])
             \/ \E next \in {"alert_login", "alert_signup"} : c[1][1].k # "ok" /\ Drop(next)
             \/ Drop("info")
    <3>1. gtk \in {"wait_login", "wait_signup"}
      BY <1>5 DEF Answered, Waiting
    <3>2. CASE gtk = "wait_login"
      BY <1>5, <3>2 DEF Answered
    <3>3. CASE gtk = "wait_signup"
      BY <1>5, <3>3 DEF Answered
    <3> QED BY <3>1, <3>2, <3>3
  <2>2. /\ down' \in Seq(Got) /\ Len(c[1]) \in 1 .. Len(down) /\ Len(down') <= Capacity
        /\ c[1][1] = log[1] /\ log # <<>> /\ down = log /\ room = 0
        /\ heard = 0 /\ \A i \in DOMAIN up : up[i].k = "request"
    <3>1. Waiting
      BY <1>5 DEF Answered
    <3>2. /\ c[1] \in Seq(Got) /\ c[2] \in Seq(Got) /\ Len(c[1]) \in 1 .. Len(down)
          /\ Len(c[2]) = Len(down) - Len(c[1]) /\ \A i \in DOMAIN c[1] : c[1][i] = down[i]
      BY <1>0, ChunkParts DEF StreamType
    <3>3. Len(down) \in Nat /\ c[1][1] = down[1] /\ down # <<>>
      BY <1>0, ChunkFirst DEF StreamType
    <3>4. down = log /\ room = 0 /\ heard = 0 /\ \A i \in DOMAIN up : up[i].k = "request"
      BY <1>0, <3>1 DEF Unanswered
    <3>5. c[1][1] = log[1] /\ log # <<>>
      BY <3>3, <3>4
    <3>6. Len(down') <= Capacity
      BY <1>0, <2>1, <3>2, <3>3, BoundAssumption DEF TypeOK
    <3> QED BY <2>1, <3>2, <3>4, <3>5, <3>6
  <2>3. UNCHANGED <<view, idle, recordVars, counters, log, plain>>
    BY <1>5 DEF Answered
  <2>4. Accepted' = Accepted
    BY <2>3 DEF Accepted
  <2>5. CASE c[1][1].k = "ok" /\ OpenChat(c[1])
    <3>1. Accepted /\ srv # "auth"
      BY <1>0, <2>2, <2>5 DEF Accepted, AuthFirst, StreamType
    <3>2. TypeOK' /\ StreamType'
      BY <1>0, <1>5, <2>2, <2>3, <2>5, ButtonAssumption
         DEF OpenChat, Answered, TypeOK, StreamType, Waiting, Chatting, recordVars, counters
    <3>3. Unanswered' /\ AuthFirst' /\ OkFirst' /\ LoginTruthful'
      BY <1>0, <2>2, <2>3, <2>4, <2>5, <3>1
         DEF OpenChat, Unanswered, AuthFirst, OkFirst, LoginTruthful, Waiting, Chatting, recordVars
    <3>4. RoomPending'
      BY <2>2, <2>3, <2>5 DEF OpenChat, RoomPending, Follows, NoJoin, recordVars
    <3> QED BY <3>2, <3>3, <3>4 DEF LinkInv
  <2>6. ASSUME NEW next \in {"alert_login", "alert_signup", "info"}, Drop(next),
               next # "info" => log[1].k # "ok"
        PROVE  LinkInv'
    <3>1. TypeOK' /\ StreamType'
      BY <1>0, <1>5, <2>2, <2>3, <2>6, BoundAssumption
         DEF Drop, Answered, TypeOK, StreamType, Waiting, Chatting, recordVars, counters
    <3>2. Unanswered' /\ AuthFirst' /\ OkFirst' /\ RoomPending'
      BY <1>0, <2>3, <2>4, <2>6
         DEF Drop, Unanswered, AuthFirst, OkFirst, RoomPending, Waiting, Chatting, recordVars
    <3>3. LoginTruthful'
      BY <1>0, <2>3, <2>6 DEF Drop, LoginTruthful, OkFirst, Accepted, Chatting, recordVars
    <3> QED BY <3>1, <3>2, <3>3 DEF LinkInv
  <2> QED BY <2>1, <2>2, <2>5, <2>6
<1>6. CASE NoAnswer
  <2>1. PICK next \in {"alert_login", "alert_signup"} : Drop(next)
    BY <1>6 DEF NoAnswer
  <2>2. log = <<>> /\ UNCHANGED <<view, idle, down, recordVars, counters, log, plain>>
    BY <1>0, <1>6 DEF NoAnswer, Unanswered
  <2>3. ~Accepted /\ ~Accepted'
    BY <2>2 DEF Accepted
  <2>4. TypeOK' /\ StreamType'
    BY <1>0, <1>6, <2>1, <2>2, BoundAssumption
       DEF NoAnswer, Drop, TypeOK, StreamType, Waiting, Chatting, recordVars, counters
  <2>5. Unanswered' /\ AuthFirst' /\ OkFirst' /\ RoomPending' /\ LoginTruthful'
    BY <2>1, <2>2, <2>3 DEF Drop, Unanswered, AuthFirst, OkFirst, RoomPending, LoginTruthful,
       Accepted, Waiting, Chatting
  <2> QED BY <2>4, <2>5 DEF LinkInv
<1>7. ASSUME NEW s \in Seq(Sent), Send(s), Chatting, Chatting', ~Waiting',
             UNCHANGED <<rcv, down, srv, recordVars, tries, others, log, heard>>,
             label' \in Button, plain' \in BOOLEAN,
             plain' => plain /\ (Follows(up, room, label) => Follows(up \o s, room, label'))
      PROVE  LinkInv'
  <2>1. /\ up' \in Seq(Sent) /\ Len(up') <= Capacity /\ writes' \in 0 .. MaxLines
        /\ link' \in {"open", "eof", "reset"} /\ (srv # "none" => link' = "open")
        /\ (srv # "none" => up' = up \o s)
    BY <1>0, <1>7, SendAppends
  <2>2. gtk' \in {"chat", "file"}
    BY <1>7 DEF Chatting
  <2>3. TypeOK' /\ StreamType'
    BY <1>0, <1>7, <2>1, <2>2 DEF TypeOK, StreamType, recordVars
  <2>4. Unanswered' /\ AuthFirst' /\ OkFirst' /\ LoginTruthful'
    BY <1>0, <1>7, <2>2 DEF Unanswered, AuthFirst, OkFirst, LoginTruthful, Accepted, recordVars
  <2>5. RoomPending'
    <3> SUFFICES ASSUME plain', srv' # "none" PROVE Follows(up', room', label')
      BY DEF RoomPending
    <3>1. Follows(up, room, label) /\ up' = up \o s /\ room' = room
      BY <1>0, <1>7, <2>1 DEF RoomPending, recordVars
    <3> QED BY <1>7, <3>1
  <2> QED BY <2>3, <2>4, <2>5 DEF LinkInv
<1>8. ASSUME NEW r \in Button, ClickRoom(r) PROVE LinkInv'
  <2>0. Text("join", r) \in Sent /\ Text("join", r).k = "join" /\ Text("join", r).n = r
    BY ButtonAssumption DEF Text, Sent
  <2>1. PICK t \in Sent : t = Text("join", r) /\ t.k = "join" /\ t.n = r
    BY <2>0
  <2>2. Chatting /\ Chatting' /\ ~Waiting' /\ plain' = plain /\ plain \in BOOLEAN
    BY <1>0, <1>8 DEF ClickRoom, Chatting, Waiting, ghostVars, TypeOK
  <2>3. <<t>> \in Seq(Sent) /\ up \o <<t>> = Append(up, t) /\ Follows(Append(up, t), room, r)
    BY <1>0, <2>1, TwoPieces, JoinLast DEF StreamType
  <2>4. Send(<<t>>) /\ label' = r
    BY <1>8, <2>1 DEF ClickRoom
  <2>5. plain' => plain /\ (Follows(up, room, label) => Follows(up \o <<t>>, room, label'))
    BY <2>2, <2>3, <2>4
  <2> QED BY <1>7, <1>8, <2>2, <2>3, <2>4, <2>5 DEF ClickRoom, ghostVars
<1>9. ASSUME NEW t \in Typed, ClickSend(t) PROVE LinkInv'
  <2>1. t \in Sent /\ Typed \subseteq Sent
    BY TypedAssumption, ButtonAssumption DEF Texts, Text, Sent
  <2>2. Chatting /\ Chatting' /\ ~Waiting' /\ label \in Button /\ label' = label /\ plain \in BOOLEAN
    BY <1>0, <1>9 DEF ClickSend, clientVars, Chatting, Waiting, TypeOK
  <2>3. PICK s \in {<<t>>} \cup {<<t, u>> : u \in Typed} :
          Send(s) /\ plain' = (plain /\ \A i \in DOMAIN s : s[i].k # "join")
    BY <1>9 DEF ClickSend
  <2>4. plain' \in BOOLEAN
    BY <2>2, <2>3
  <2>5. CASE s = <<t>>
    <3>1. s \in Seq(Sent) /\ up \o s = Append(up, t) /\ DOMAIN s = {1} /\ s[1] = t
      BY <1>0, <2>1, <2>5, TwoPieces DEF StreamType
    <3>2. plain' => plain /\ t.k # "join"
      BY <2>3, <3>1
    <3>3. plain' => plain /\ (Follows(up, room, label) => Follows(up \o s, room, label'))
      BY <1>0, <2>1, <2>2, <3>1, <3>2, JoinLast DEF StreamType
    <3> QED BY <1>7, <1>9, <2>2, <2>3, <2>4, <3>1, <3>3 DEF ClickSend, clientVars
  <2>6. ASSUME NEW u \in Typed, s = <<t, u>> PROVE LinkInv'
    <3>1. /\ s \in Seq(Sent) /\ up \o s = Append(Append(up, t), u) /\ Append(up, t) \in Seq(Sent)
          /\ u \in Sent
      BY <1>0, <2>1, <2>6, TwoPieces DEF StreamType
    <3>2. DOMAIN s = {1, 2} /\ s[1] = t /\ s[2] = u
      BY <2>6
    <3>3. plain' => plain /\ t.k # "join" /\ u.k # "join"
      BY <2>3, <3>2
    <3>4. t.k # "join" /\ Follows(up, room, label) => Follows(Append(up, t), room, label)
      BY <1>0, <2>1, JoinLast DEF StreamType
    <3>5. u.k # "join" /\ Follows(Append(up, t), room, label) => Follows(Append(Append(up, t), u), room, label)
      BY <3>1, JoinLast
    <3>6. plain' => plain /\ (Follows(up, room, label) => Follows(up \o s, room, label'))
      BY <2>2, <3>1, <3>3, <3>4, <3>5
    <3> QED BY <1>7, <1>9, <2>2, <2>3, <2>4, <3>1, <3>6 DEF ClickSend, clientVars
  <2> QED BY <2>3, <2>5, <2>6
<1>10. CASE ChooseFile
  <2>0. Text("file", 0) \in Sent /\ Text("file", 0).k # "join"
    BY DEF Text, Sent
  <2>1. PICK t \in Sent : t = Text("file", 0) /\ t.k # "join"
    BY <2>0
  <2>2. Chatting /\ Chatting' /\ ~Waiting /\ ~Waiting' /\ label \in Button /\ plain \in BOOLEAN
    BY <1>0, <1>10 DEF ChooseFile, Chatting, Waiting, TypeOK
  <2>3. CASE Send(<<t>>)
    <3>1. <<t>> \in Seq(Sent) /\ up \o <<t>> = Append(up, t)
      BY <1>0, <2>1, TwoPieces DEF StreamType
    <3>2. Follows(up, room, label) => Follows(up \o <<t>>, room, label)
      BY <1>0, <2>1, <3>1, JoinLast DEF StreamType
    <3> QED BY <1>7, <1>10, <2>2, <2>3, <3>1, <3>2 DEF ChooseFile, ghostVars
  <2>4. CASE UNCHANGED <<writes, link, up>>
    <3>1. TypeOK' /\ StreamType'
      BY <1>0, <1>10, <2>2, <2>4 DEF ChooseFile, TypeOK, StreamType, recordVars, ghostVars
    <3>2. Unanswered' /\ AuthFirst' /\ OkFirst'
      BY <1>0, <1>10, <2>2, <2>4
         DEF ChooseFile, Unanswered, AuthFirst, OkFirst, Accepted, recordVars, ghostVars
    <3>3. RoomPending' /\ LoginTruthful'
      BY <1>0, <1>10, <2>2, <2>4
         DEF ChooseFile, RoomPending, LoginTruthful, recordVars, ghostVars
    <3> QED BY <3>1, <3>2, <3>3 DEF LinkInv
  <2> QED BY <1>10, <2>1, <2>3, <2>4 DEF ChooseFile
<1>11. CASE Authenticate
  <2>1. PICK k \in {"ok", "fail"} : Write(k) /\ srv' = IF k = "ok" THEN "accepted" ELSE "closing"
    BY <1>11 DEF Authenticate
  <2>2. /\ srv = "auth" /\ up' = <<>> /\ link = "open"
        /\ UNCHANGED <<clientVars, link, recordVars, counters, ghostVars>>
    BY <1>0, <1>11 DEF Authenticate, TypeOK
  <2>3. Waiting /\ ~Chatting /\ ~Accepted
    BY <1>0, <2>2 DEF TypeOK, AuthFirst, LoginTruthful, Accepted, StreamType, Waiting, Chatting
  <2>4. /\ down' \in Seq(Got) /\ log' \in Seq(Got) /\ Len(down') <= Capacity
        /\ heard \in 0 .. Len(log') /\ (down = log => down' = log')
        /\ (log = <<>> => log'[1].k = k) /\ (Accepted' <=> k = "ok")
    BY <1>0, <2>1, <2>3, WriteAppends
  <2>5. TypeOK' /\ StreamType'
    BY <1>0, <2>1, <2>2, <2>4, BoundAssumption
       DEF TypeOK, StreamType, clientVars, recordVars, counters, ghostVars, Waiting, Chatting
  <2>6. Unanswered' /\ AuthFirst' /\ OkFirst'
    BY <1>0, <2>1, <2>2, <2>3, <2>4
       DEF Unanswered, AuthFirst, OkFirst, Waiting, clientVars, recordVars, ghostVars
  <2>7. RoomPending' /\ LoginTruthful'
    BY <2>2, <2>3 DEF RoomPending, LoginTruthful, Waiting, Chatting, clientVars
  <2> QED BY <2>5, <2>6, <2>7 DEF LinkInv
<1>12. CASE SetName
  <2>1. /\ srv # "none" /\ srv # "auth" /\ srv' \in {"welcome", "loop", "closing"} /\ named' \in BOOLEAN
        /\ UNCHANGED <<clientVars, link, up, down, dirty, room, counters, log, ghostVars>>
    BY <1>12 DEF SetName
  <2>2. TypeOK' /\ StreamType'
    BY <1>0, <2>1 DEF TypeOK, StreamType, clientVars, counters, ghostVars, Waiting, Chatting
  <2>3. Unanswered' /\ AuthFirst' /\ OkFirst'
    BY <1>0, <2>1 DEF Unanswered, AuthFirst, OkFirst, Accepted, Waiting, clientVars, ghostVars
  <2>4. RoomPending' /\ LoginTruthful'
    BY <1>0, <2>1 DEF RoomPending, LoginTruthful, Chatting, clientVars, ghostVars
  <2> QED BY <2>2, <2>3, <2>4 DEF LinkInv
<1>13. CASE Welcome \/ OtherLine
  <2>1. /\ UNCHANGED <<clientVars, link, up, recordVars, tries, writes, ghostVars>>
        /\ \E k \in {"text", "file"} : Write(k)
        /\ link = "open" /\ others' \in 0 .. MaxLines
    BY <1>0, <1>13, BoundAssumption DEF Welcome, OtherLine, counters, TypeOK
  <2>2. /\ srv' = srv \/ (srv = "welcome" /\ srv' = "loop")
        /\ srv = "auth" => dirty \/ named
    BY <1>13 DEF Welcome, OtherLine, HasName
  <2>3. /\ down' \in Seq(Got) /\ log' \in Seq(Got) /\ Len(down') <= Capacity
        /\ heard' \in 0 .. Len(log') /\ (down = log => down' = log')
        /\ Accepted' = Accepted /\ OkFirst'
        /\ Chatting => log' # <<>> /\ log'[1].k = "ok"
    BY <1>0, <2>1, LineHarmless DEF clientVars, recordVars, ghostVars
  <2>4. TypeOK' /\ StreamType'
    BY <1>0, <2>1, <2>2, <2>3
       DEF TypeOK, StreamType, clientVars, recordVars, ghostVars, Waiting, Chatting
  <2>5. Unanswered' /\ AuthFirst'
    BY <1>0, <2>1, <2>2, <2>3
       DEF Unanswered, AuthFirst, Waiting, clientVars, recordVars, ghostVars
  <2>6. RoomPending'
    BY <1>0, <2>1, <2>2 DEF RoomPending, Chatting, clientVars, recordVars, ghostVars
  <2>7. LoginTruthful'
    BY <1>0, <2>1, <2>3 DEF LoginTruthful, TypeOK, Waiting, Chatting, clientVars
  <2> QED BY <2>3, <2>4, <2>5, <2>6, <2>7 DEF LinkInv
<1>14. CASE Handle
  <2>1. PICK c \in Reads(up) :
          /\ up' = c[2] /\ plain' = (plain /\ Len(c[1]) = 1)
          /\ \/ c[1][1].k = "join" /\ room' = Number(c[1])
             \/ c[1][1].k # "join" /\ UNCHANGED room
          /\ UNCHANGED <<down, log>> \/ \E k \in {"text", "file"} : Write(k)
    BY <1>14 DEF Handle
  <2>2. /\ srv = "loop" /\ link = "open"
        /\ UNCHANGED <<clientVars, link, srv, dirty, named, counters, heard>>
    BY <1>0, <1>14 DEF Handle, TypeOK
  <2>3. /\ c[1] \in Seq(Sent) /\ c[2] \in Seq(Sent)
        /\ Len(c[1]) \in 1 .. Len(up) /\ Len(c[2]) <= Len(up)
        /\ \A i \in DOMAIN c[1] : c[1][i] = up[i]
        /\ c \in Chunks(up) \/ (Len(c[1]) > 1 /\ Len(up) > 1)
    BY <1>0, ReadParts DEF StreamType
  <2>4. /\ Len(up) \in Nat /\ Len(up) <= Capacity /\ c[1][1] = up[1] /\ up[1] \in Sent
        /\ 1 \in DOMAIN up /\ Len(c[1]) \in Nat /\ DOMAIN c[1] = 1 .. Len(c[1])
        /\ \A i \in DOMAIN c[1] : c[1][i] \in Sent
    <3>1. PICK a : a = c[1]
      OBVIOUS
    <3>2. /\ Len(up) \in Nat /\ DOMAIN up = 1 .. Len(up) /\ DOMAIN a = 1 .. Len(a) /\ Len(a) \in 1 .. Len(up)
          /\ Len(a) \in Nat /\ \A i \in DOMAIN a : a[i] = up[i] /\ a[i] \in Sent
      BY <1>0, <2>3, <3>1 DEF StreamType
    <3>3. 1 \in DOMAIN a /\ 1 \in DOMAIN up
      BY <3>2
    <3> QED BY <1>0, <3>1, <3>2, <3>3 DEF TypeOK
  <2>5. Len(up') <= Capacity /\ plain' \in BOOLEAN
    <3>1. PICK b : b = c[2]
      OBVIOUS
    <3>2. Len(b) \in Nat /\ Len(b) <= Len(up)
      BY <2>3, <3>1
    <3>3. Len(b) <= Capacity
      BY <2>4, <3>2, BoundAssumption
    <3> QED BY <1>0, <2>1, <3>1, <3>3 DEF TypeOK
  <2>6. Number(c[1]) \in Nat /\ (Len(c[1]) = 1 => Number(c[1]) = up[1].n)
    <3>1. \A i \in DOMAIN c[1] : c[1][i].n \in Nat
      BY <2>4 DEF Sent
    <3>2. Len(c[1]) \in Nat /\ DOMAIN c[1] = 1 .. Len(c[1])
      BY <2>4
    <3>3. c[1][1].n \in Nat /\ (Len(c[1]) > 1 => c[1][2].n \in Nat)
      BY <2>3, <3>1, <3>2
    <3> QED BY <2>4, <3>2, <3>3 DEF Number
  <2>7. /\ down' \in Seq(Got) /\ log' \in Seq(Got) /\ Len(down') <= Capacity
        /\ heard' \in 0 .. Len(log') /\ (down = log => down' = log')
        /\ Accepted' = Accepted /\ OkFirst'
        /\ Chatting => log' # <<>> /\ log'[1].k = "ok"
    BY <1>0, <2>1, <2>2, LineHarmless DEF clientVars
  <2>8. TypeOK' /\ StreamType'
    <3>1. room' \in Nat
      BY <1>0, <2>1, <2>6 DEF TypeOK
    <3> QED BY <1>0, <2>1, <2>2, <2>3, <2>5, <2>7, <3>1
            DEF TypeOK, StreamType, clientVars, counters, Waiting, Chatting
  <2>9. Unanswered'
    <3> SUFFICES ASSUME Waiting
                 PROVE  /\ down' = log' /\ heard' = 0 /\ room' = 0 /\ Len(up') <= 1
                        /\ \A i \in DOMAIN up' : up'[i].k = "request"
      BY <2>2 DEF Unanswered, Waiting, clientVars
    <3>1. /\ down = log /\ heard = 0 /\ room = 0 /\ Len(up) <= 1
          /\ \A i \in DOMAIN up : up[i].k = "request"
      BY <1>0 DEF Unanswered
    <3>2. c \in Chunks(up) /\ Len(up) = 1
      <4>1. PICK n, m : n = Len(up) /\ m = Len(c[1])
        OBVIOUS
      <4>2. n \in Nat /\ m \in 1 .. n /\ n <= 1
        BY <2>3, <2>4, <3>1, <4>1
      <4>3. n = 1 /\ ~(n > 1)
        BY <4>2
      <4> QED BY <2>3, <4>1, <4>3
    <3>3. Len(c[2]) = 0 /\ DOMAIN c[2] = {}
      <4>1. PICK a, b : a = c[1] /\ b = c[2]
        OBVIOUS
      <4>2. b \in Seq(Sent) /\ Len(a) \in 1 .. Len(up) /\ Len(b) = Len(up) - Len(a)
        BY <1>0, <3>2, <4>1, ChunkParts DEF StreamType
      <4>3. Len(b) = 0 /\ DOMAIN b = {}
        BY <3>2, <4>2
      <4> QED BY <4>1, <4>3
    <3>4. up[1].k = "request" /\ room' = 0 /\ down' = log' /\ heard' = 0
      BY <2>1, <2>2, <2>4, <2>7, <3>1
    <3> QED BY <2>1, <3>3, <3>4
  <2>10. AuthFirst'
    BY <2>2 DEF AuthFirst
  <2>11. RoomPending'
    <3> SUFFICES ASSUME Chatting, plain' PROVE Follows(up', room', label')
      BY <2>2 DEF RoomPending, Chatting, clientVars
    <3>1. plain /\ Len(c[1]) = 1 /\ label' = label
      BY <2>1, <2>2, <2>5 DEF clientVars
    <3>2. Follows(up, room, label)
      BY <1>0, <2>2, <3>1 DEF RoomPending
    <3>3. Len(up) = Len(c[2]) + 1 /\ \A i \in DOMAIN c[2] : c[2][i] = up[i + 1]
      <4>1. PICK a, b : a = c[1] /\ b = c[2]
        OBVIOUS
      <4>2. c \in Chunks(up) /\ Len(a) = 1
        <5>1. ~(Len(c[1]) > 1)
          BY <3>1
        <5> QED BY <2>3, <3>1, <4>1, <5>1
      <4>3. b \in Seq(Sent) /\ Len(b) = Len(up) - Len(a) /\ \A i \in DOMAIN b : b[i] = up[Len(a) + i]
        BY <1>0, <4>1, <4>2, ChunkParts DEF StreamType
      <4>4. Len(up) = Len(b) + 1 /\ DOMAIN b = 1 .. Len(b) /\ Len(b) \in Nat
        BY <2>4, <4>2, <4>3
      <4>5. \A i \in DOMAIN b : Len(a) + i = i + 1
        BY <4>2, <4>4
      <4> QED BY <4>1, <4>3, <4>4, <4>5
    <3>4. /\ up[1].k = "join" => Follows(c[2], up[1].n, label)
          /\ up[1].k # "join" => Follows(c[2], room, label)
      BY <1>0, <2>3, <3>2, <3>3, JoinRead DEF StreamType
    <3> QED BY <2>1, <2>4, <2>6, <3>1, <3>4
  <2>12. LoginTruthful'
    BY <1>0, <2>2, <2>7 DEF LoginTruthful, TypeOK, Waiting, Chatting, clientVars
  <2> QED BY <2>7, <2>8, <2>9, <2>10, <2>11, <2>12 DEF LinkInv
<1>15. CASE Close
  <2>1. /\ link = "open" /\ link' \in {"eof", "reset"} /\ srv' = "none" /\ up' = <<>> /\ Len(up') = 0
        /\ UNCHANGED <<clientVars, down, recordVars, counters, log, ghostVars>>
    BY <1>15 DEF Close
  <2>2. TypeOK' /\ StreamType'
    BY <1>0, <2>1, BoundAssumption
       DEF TypeOK, StreamType, clientVars, recordVars, counters, ghostVars, Waiting, Chatting
  <2>3. Unanswered' /\ AuthFirst' /\ OkFirst'
    BY <1>0, <2>1 DEF Unanswered, AuthFirst, OkFirst, Accepted, Waiting, clientVars, recordVars, ghostVars
  <2>4. RoomPending' /\ LoginTruthful'
    BY <1>0, <2>1 DEF RoomPending, LoginTruthful, Chatting, clientVars, recordVars
  <2> QED BY <2>2, <2>3, <2>4 DEF LinkInv
<1>16. CASE Quit
  <2>1. /\ gtk' = "dead" /\ rcv' = "none" /\ link' = "none" /\ srv' = "none"
        /\ Len(up') = 0 /\ Len(down') = 0 /\ up' \in Seq(Sent) /\ down' \in Seq(Got)
        /\ UNCHANGED <<label, view, idle, recordVars, counters, log, ghostVars>>
    BY <1>16 DEF Quit
  <2>2. TypeOK' /\ StreamType'
    BY <1>0, <2>1, BoundAssumption
       DEF TypeOK, StreamType, recordVars, counters, ghostVars, Waiting, Chatting
  <2>3. Unanswered' /\ AuthFirst' /\ OkFirst' /\ RoomPending' /\ LoginTruthful'
    BY <1>0, <2>1 DEF Unanswered, AuthFirst, OkFirst, RoomPending, LoginTruthful, Accepted,
       Waiting, Chatting, recordVars
  <2> QED BY <2>2, <2>3 DEF LinkInv
<1>17. CASE UNCHANGED vars
  BY <1>0, <1>17
     DEF vars, clientVars, recordVars, counters, ghostVars, LinkInv, TypeOK, StreamType, Unanswered,
         AuthFirst, OkFirst, RoomPending, LoginTruthful, Accepted, Waiting, Chatting
<1> QED
  BY <1>1, <1>2, <1>3, <1>4, <1>5, <1>6, <1>8, <1>9, <1>10, <1>11, <1>12, <1>13, <1>14, <1>15,
     <1>16, <1>17 DEF Next, Gtk, Handler, User, Disconnect

LEMMA LinkInvariant == Spec => []LinkInv
BY LinkInvInit, LinkInvNext, PTL DEF Spec

-----------------------------------------------------------------------------
(* What the window shows.                                                  *)

\* Pieces of the log l, in order, from h + 1 to its end; some are missing only
\* behind the header of a file, or from such a header on.
Ordered(s, h, l) ==
  /\ \A i \in 1 .. Len(s) : s[i].n \in h + 1 .. Len(l) /\ l[s[i].n] = s[i]
  /\ \A i, j \in 1 .. Len(s) : i < j => s[i].n < s[j].n
  /\ \A i \in 1 .. Len(s) : i < Len(s) => \/ s[i].k = "file" \/ s[i + 1].n = s[i].n + 1
                                           \/ l[s[i].n + 1].k = "file"
  /\ Len(s) # 0 => /\ s[1].n = h + 1 \/ l[h + 1].k = "file"
                   /\ s[Len(s)].k = "file" \/ s[Len(s)].n = Len(l) \/ l[s[Len(s)].n + 1].k = "file"
  /\ Len(s) = 0 => h = Len(l) \/ l[h + 1].k = "file"

\* What was shown, what the GTK thread is going to show, and what is on its way.
Seen == view \o Flat(idle) \o down

ShowInv ==
  /\ view \in Seq(Got) /\ idle \in Seq(Seq(Got))
  /\ \A i \in DOMAIN log : log[i].n = i
  /\ Chatting => Ordered(Seen, heard, log)
  /\ ~Chatting /\ gtk # "dead" => view = <<>> /\ idle = <<>>

\* A set of numbers that has 0, and with a number the next one, has them all.
LEMMA SetInduction ==
  ASSUME NEW S, 0 \in S, \A n \in Nat : n \in S => n + 1 \in S
  PROVE  Nat \subseteq S
<1> DEFINE T == Nat \ S
<1> SUFFICES ASSUME T # {} PROVE FALSE
  OBVIOUS
<1>1. IsWellFoundedOn(OpToRel(<, Nat), Nat)
  BY NatLessThanWellFounded
<1> HIDE DEF T
<1>2. T \subseteq Nat
  BY DEF T
<1>3. PICK x \in T : \A y \in T : ~ (<<y, x>> \in OpToRel(<, Nat))
  BY <1>1, <1>2, WFMin
<1>4. x \in Nat /\ x \notin S
  BY DEF T
<1>5. x # 0
  BY <1>4
<1>6. x - 1 \in Nat /\ x - 1 < x /\ (x - 1) + 1 = x
  BY <1>4, <1>5
<1>7. x - 1 \in T
  BY <1>4, <1>6 DEF T
<1> QED BY <1>3, <1>4, <1>6, <1>7 DEF OpToRel

\* Which brackets are left out makes no difference.
LEMMA Brackets ==
  \A a, b, c \in Seq(Got) : (a \o b) \o c = a \o (b \o c)
BY ConcatAssociative

\* The last number, or one before.
LEMMA LastOrBefore ==
  \A n \in Nat : \A i \in 1 .. n + 1 :
    i = n + 1 \/ (i \in 1 .. n /\ i \in 0 .. n /\ i - 1 \in 0 .. n)
OBVIOUS

\* f holds what the first chunks make, for every number of them up to n.
Prefixes(f, s, n) ==
  /\ f \in [0 .. n -> Seq(Got)] /\ f[0] = <<>>
  /\ \A i \in 1 .. n : f[i] = f[i - 1] \o s[i]

LEMMA PrefixesExtend ==
  ASSUME NEW s, NEW n \in Nat, NEW f, Prefixes(f, s, n), s[n + 1] \in Seq(Got)
  PROVE  \E g : Prefixes(g, s, n + 1)
<1> DEFINE g == [i \in 0 .. n + 1 |-> IF i <= n THEN f[i] ELSE f[n] \o s[n + 1]]
<1>1. n \in 0 .. n /\ 0 \in 0 .. n /\ n + 1 \in 0 .. n + 1 /\ ~(n + 1 <= n) /\ (n + 1) - 1 = n
  OBVIOUS
<1>2. \A i \in 0 .. n : i \in 0 .. n + 1 /\ i <= n
  OBVIOUS
<1>3. f[n] \in Seq(Got) /\ \A i \in 0 .. n : f[i] \in Seq(Got)
  BY <1>1 DEF Prefixes
<1>4. f[n] \o s[n + 1] \in Seq(Got)
  BY <1>3
<1>5. \A i \in 0 .. n : g[i] = f[i]
  BY <1>2
<1>6. g[n + 1] = f[n] \o s[n + 1]
  BY <1>1
<1>7. g \in [0 .. n + 1 -> Seq(Got)]
  <2>1. \A i \in 0 .. n + 1 : i <= n => i \in 0 .. n
    OBVIOUS
  <2>2. \A i \in 0 .. n + 1 : (IF i <= n THEN f[i] ELSE f[n] \o s[n + 1]) \in Seq(Got)
    BY <1>3, <1>4, <2>1
  <2> QED BY <2>2
<1> HIDE DEF g
<1>8. ASSUME NEW i \in 1 .. n + 1 PROVE g[i] = g[i - 1] \o s[i]
  <2>1. CASE i = n + 1
    BY <1>1, <1>5, <1>6, <2>1
  <2>2. CASE i \in 1 .. n /\ i \in 0 .. n /\ i - 1 \in 0 .. n
    BY <1>5, <2>2 DEF Prefixes
  <2> QED BY <2>1, <2>2, LastOrBefore
<1>9. g[0] = <<>>
  BY <1>1, <1>5 DEF Prefixes
<1> QED BY <1>7, <1>8, <1>9 DEF Prefixes

LEMMA PrefixesExist ==
  ASSUME NEW s \in Seq(Seq(Got))
  PROVE  \E f : Prefixes(f, s, Len(s))
<1> DEFINE S == {n \in Nat : n <= Len(s) => \E f : Prefixes(f, s, n)}
<1>0. Len(s) \in Nat /\ DOMAIN s = 1 .. Len(s) /\ \A i \in DOMAIN s : s[i] \in Seq(Got)
  OBVIOUS
<1>1. 0 \in S
  <2> DEFINE f == [i \in 0 .. 0 |-> <<>>]
  <2>1. f \in [0 .. 0 -> Seq(Got)] /\ f[0] = <<>>
    OBVIOUS
  <2>2. \A i \in 1 .. 0 : f[i] = f[i - 1] \o s[i]
    OBVIOUS
  <2> QED BY <2>1, <2>2 DEF Prefixes
<1>2. ASSUME NEW n \in Nat, n \in S PROVE n + 1 \in S
  <2> SUFFICES ASSUME n + 1 <= Len(s) PROVE \E f : Prefixes(f, s, n + 1)
    OBVIOUS
  <2>1. n <= Len(s) /\ n + 1 \in DOMAIN s
    BY <1>0
  <2>2. PICK f : Prefixes(f, s, n)
    BY <1>2, <2>1
  <2>3. s[n + 1] \in Seq(Got)
    BY <1>0, <2>1
  <2> QED BY <2>2, <2>3, PrefixesExtend
<1> HIDE DEF S
<1>3. Nat \subseteq S
  BY <1>1, <1>2, SetInduction
<1> QED BY <1>0, <1>3 DEF S

\* Two ways to count to the same.
LEMMA FlatIs ==
  ASSUME NEW s \in Seq(Seq(Got)), NEW f, Prefixes(f, s, Len(s))
  PROVE  Flat(s) = f[Len(s)] /\ Flat(s) \in Seq(Got)
<1> DEFINE N == Len(s)
           W(w) == w = [i \in 0 .. N |-> IF i = 0 THEN <<>> ELSE w[i - 1] \o s[i]]
<1>0. N \in Nat
  OBVIOUS
<1>1. W(f)
  <2>1. f = [i \in 0 .. N |-> f[i]]
    BY DEF Prefixes
  <2>2. \A i \in 0 .. N : f[i] = IF i = 0 THEN <<>> ELSE f[i - 1] \o s[i]
    <3>1. f[0] = <<>> /\ \A i \in 1 .. N : f[i] = f[i - 1] \o s[i]
      BY DEF Prefixes
    <3>2. \A i \in 0 .. N : i = 0 \/ (i # 0 /\ i \in 1 .. N)
      BY <1>0
    <3> HIDE DEF N
    <3> QED BY <3>1, <3>2
  <2> QED BY <2>1, <2>2
<1> DEFINE g == CHOOSE w : W(w)
<1>2. W(g)
  BY <1>1
<1>3. Flat(s) = g[N]
  BY DEF Flat
<1> HIDE DEF g, N
<1> DEFINE S == {n \in Nat : n <= N => g[n] = f[n]}
<1>4. 0 \in S
  BY <1>0, <1>2 DEF Prefixes
<1>5. ASSUME NEW n \in Nat, n \in S PROVE n + 1 \in S
  <2> SUFFICES ASSUME n + 1 <= N PROVE g[n + 1] = f[n + 1]
    OBVIOUS
  <2>1. n + 1 \in 0 .. N /\ n + 1 \in 1 .. N /\ n + 1 # 0 /\ (n + 1) - 1 = n /\ n <= N
    BY <1>0
  <2>2. g[n + 1] = g[(n + 1) - 1] \o s[n + 1]
    BY <1>2, <2>1
  <2>3. f[n + 1] = f[(n + 1) - 1] \o s[n + 1]
    BY <2>1 DEF Prefixes, N
  <2> QED BY <1>5, <2>1, <2>2, <2>3
<1> HIDE DEF S
<1>6. Nat \subseteq S
  BY <1>4, <1>5, SetInduction
<1>7. g[N] = f[N] /\ f[N] \in Seq(Got)
  BY <1>0, <1>6 DEF S, Prefixes, N
<1> QED BY <1>3, <1>7 DEF N

LEMMA FlatEmpty == Flat(<<>>) = <<>>
<1>1. <<>> \in Seq(Seq(Got)) /\ Len(<<>>) = 0
  OBVIOUS
<1>2. PICK f : Prefixes(f, <<>>, Len(<<>>))
  BY <1>1, PrefixesExist
<1> QED BY <1>1, <1>2, FlatIs DEF Prefixes

\* One more chunk at the end.
LEMMA FlatAppend ==
  ASSUME NEW s \in Seq(Seq(Got)), NEW c \in Seq(Got)
  PROVE  Flat(Append(s, c)) = Flat(s) \o c
<1> DEFINE N == Len(s)
           t == Append(s, c)
<1>0. /\ N \in Nat /\ t \in Seq(Seq(Got)) /\ Len(t) = N + 1 /\ t[N + 1] = c
      /\ \A i \in 1 .. N : t[i] = s[i]
  OBVIOUS
<1>1. PICK g : Prefixes(g, t, Len(t))
  BY <1>0, PrefixesExist
<1> HIDE DEF t, N
<1> DEFINE f == [i \in 0 .. N |-> g[i]]
<1>2. \A i \in 0 .. N : i \in 0 .. N + 1
  BY <1>0
<1>3. f \in [0 .. N -> Seq(Got)] /\ \A i \in 0 .. N : f[i] = g[i]
  BY <1>0, <1>1, <1>2 DEF Prefixes
<1> HIDE DEF f
<1>4. \A i \in 1 .. N : i \in 0 .. N /\ i - 1 \in 0 .. N /\ i \in 1 .. N + 1
  BY <1>0
<1>5. \A i \in 1 .. N : f[i] = f[i - 1] \o s[i]
  BY <1>0, <1>1, <1>3, <1>4 DEF Prefixes
<1>6. 0 \in 0 .. N /\ N \in 0 .. N /\ N + 1 \in 1 .. N + 1 /\ (N + 1) - 1 = N
  BY <1>0
<1>7. Prefixes(f, s, N)
  BY <1>1, <1>3, <1>5, <1>6 DEF Prefixes
<1>8. Flat(s) = f[N]
  BY <1>7, FlatIs DEF N
<1>9. Flat(t) = g[N + 1]
  BY <1>0, <1>1, FlatIs
<1>10. g[N + 1] = g[N] \o c
  BY <1>0, <1>1, <1>6 DEF Prefixes
<1> QED BY <1>3, <1>6, <1>8, <1>9, <1>10 DEF t

\* The first chunk, and the rest.
LEMMA FlatHead ==
  ASSUME NEW s \in Seq(Seq(Got)), s # <<>>
  PROVE  Flat(s) = Head(s) \o Flat(Tail(s))
<1> DEFINE N == Len(s) - 1
           h == Head(s)
           t == Tail(s)
<1>0. /\ N \in Nat /\ Len(s) = N + 1 /\ t \in Seq(Seq(Got)) /\ Len(t) = N /\ h \in Seq(Got) /\ h = s[1]
      /\ \A i \in 1 .. N : t[i] = s[i + 1]
  OBVIOUS
<1>1. PICK f : Prefixes(f, t, N)
  BY <1>0, PrefixesExist
<1> HIDE DEF h, t, N
<1> DEFINE g == [i \in 0 .. N + 1 |-> IF i = 0 THEN <<>> ELSE h \o f[i - 1]]
<1>2. ASSUME NEW i \in 1 .. N + 1 PROVE g[i] = h \o f[i - 1] /\ i - 1 \in 0 .. N /\ f[i - 1] \in Seq(Got)
  <2>1. i \in 0 .. N + 1 /\ i # 0 /\ i - 1 \in 0 .. N
    BY <1>0
  <2> QED BY <1>1, <2>1 DEF Prefixes
<1>3. g \in [0 .. N + 1 -> Seq(Got)]
  <2>1. \A i \in 1 .. N + 1 : h \o f[i - 1] \in Seq(Got)
    <3> HIDE DEF g
    <3> TAKE i \in 1 .. N + 1
    <3>1. f[i - 1] \in Seq(Got)
      BY <1>2
    <3> QED BY <1>0, <3>1
  <2>2. \A i \in 0 .. N + 1 : i = 0 \/ i \in 1 .. N + 1
    BY <1>0
  <2>3. <<>> \in Seq(Got)
    OBVIOUS
  <2> QED BY <2>1, <2>2, <2>3
<1>4. g[0] = <<>>
  BY <1>0
<1> HIDE DEF g
<1>5. ASSUME NEW i \in 1 .. N + 1 PROVE g[i] = g[i - 1] \o s[i]
  <2>1. CASE i = 1
    <3>1. g[1] = h \o f[0] /\ f[0] = <<>>
      <4>1. 1 \in 1 .. N + 1 /\ 1 - 1 = 0
        BY <1>0
      <4> QED BY <1>1, <1>2, <4>1 DEF Prefixes
    <3>2. h \o <<>> = h /\ <<>> \o h = h
      BY <1>0
    <3> QED BY <1>0, <1>4, <2>1, <3>1, <3>2
  <2>2. CASE i \in 2 .. N + 1
    <3>1. /\ i - 1 \in 1 .. N /\ i - 1 \in 1 .. N + 1 /\ (i - 1) - 1 \in 0 .. N /\ (i - 1) + 1 = i
          /\ i \in 1 .. N + 1
      BY <1>0, <2>2
    <3>2. g[i] = h \o f[i - 1] /\ g[i - 1] = h \o f[(i - 1) - 1] /\ f[(i - 1) - 1] \in Seq(Got)
      BY <1>2, <3>1
    <3>3. f[i - 1] = f[(i - 1) - 1] \o t[i - 1] /\ t[i - 1] = s[i] /\ t[i - 1] \in Seq(Got)
      <4>1. t[i - 1] \in Seq(Got) /\ t[i - 1] = s[(i - 1) + 1]
        BY <1>0, <3>1
      <4> QED BY <1>1, <3>1, <4>1 DEF Prefixes
    <3>4. (h \o f[(i - 1) - 1]) \o t[i - 1] = h \o (f[(i - 1) - 1] \o t[i - 1])
      BY <1>0, <3>2, <3>3, Brackets
    <3> QED BY <3>2, <3>3, <3>4
  <2>3. i = 1 \/ i \in 2 .. N + 1
    BY <1>0
  <2> QED BY <2>1, <2>2, <2>3
<1>6. Prefixes(g, s, Len(s))
  <2>1. Len(s) = N + 1
    BY <1>0
  <2> QED BY <1>3, <1>4, <1>5, <2>1 DEF Prefixes
<1>7. Flat(s) = g[N + 1]
  BY <1>0, <1>6, FlatIs
<1>8. Flat(t) = f[N] /\ N + 1 \in 1 .. N + 1 /\ (N + 1) - 1 = N
  BY <1>0, <1>1, FlatIs
<1>9. g[N + 1] = h \o f[N]
  BY <1>2, <1>8
<1> QED BY <1>7, <1>8, <1>9 DEF h, t

LEMMA FlatType ==
  ASSUME NEW s \in Seq(Seq(Got))
  PROVE  Flat(s) \in Seq(Got)
BY PrefixesExist, FlatIs

\* One more piece, with the next number.
LEMMA OrderedAppend ==
  ASSUME NEW s \in Seq(Got), NEW h \in Nat, NEW l \in Seq(Got), Ordered(s, h, l),
         NEW t \in Got, t.n = Len(l) + 1, h <= Len(l)
  PROVE  Ordered(Append(s, t), h, Append(l, t))
<1> DEFINE N == Len(s)
           a == Append(s, t)
           top == Len(l)
           m == Append(l, t)
<1>0. N \in Nat /\ Len(a) = N + 1 /\ a[N + 1] = t /\ \A i \in 1 .. N : a[i] = s[i]
  OBVIOUS
<1>a. top \in Nat /\ Len(m) = top + 1 /\ m[top + 1] = t /\ \A i \in 1 .. top : m[i] = l[i]
  OBVIOUS
<1> HIDE DEF a, m
<1>1. \A i \in 1 .. N : s[i].n \in h + 1 .. top /\ s[i].n \in 1 .. top /\ l[s[i].n] = s[i]
  <2>1. \A i \in 1 .. N : s[i].n \in h + 1 .. top /\ l[s[i].n] = s[i]
    BY DEF Ordered
  <2> HIDE DEF N, top
  <2> QED BY <1>a, <2>1
<1> HIDE DEF N, top
<1>2. \A i \in 1 .. N + 1 : i = N + 1 \/ i \in 1 .. N
  BY <1>0
<1>3. ASSUME NEW i \in 1 .. N + 1 PROVE a[i].n \in h + 1 .. top + 1 /\ m[a[i].n] = a[i]
  <2>1. CASE i = N + 1
    <3>1. top + 1 \in h + 1 .. top + 1
      BY <1>a DEF top
    <3> QED BY <1>0, <1>a, <2>1, <3>1 DEF top
  <2>2. CASE i \in 1 .. N
    <3>1. a[i] = s[i] /\ s[i].n \in h + 1 .. top /\ m[s[i].n] = s[i]
      BY <1>0, <1>1, <1>a, <2>2
    <3> QED BY <1>a, <3>1
  <2> QED BY <1>2, <2>1, <2>2
<1>4. ASSUME NEW i \in 1 .. N + 1, NEW j \in 1 .. N + 1, i < j PROVE a[i].n < a[j].n
  <2>1. i \in 1 .. N
    BY <1>0, <1>4
  <2>2. CASE j = N + 1
    <3>1. a[i] = s[i] /\ s[i].n \in 1 .. top
      BY <1>0, <1>1, <2>1
    <3>2. a[j].n = top + 1
      BY <1>0, <2>2 DEF top
    <3> QED BY <1>a, <3>1, <3>2
  <2>3. CASE j \in 1 .. N
    BY <1>0, <1>4, <2>1, <2>3 DEF Ordered, N
  <2> QED BY <1>2, <2>2, <2>3
<1>5. ASSUME NEW n \in 1 .. top, n = top \/ l[n + 1].k = "file"
      PROVE  n + 1 = top + 1 \/ m[n + 1].k = "file"
  <2>1. n = top \/ n + 1 \in 1 .. top
    BY <1>a
  <2> QED BY <1>5, <1>a, <2>1
<1>6. ASSUME NEW i \in 1 .. N + 1, i < N + 1
      PROVE  a[i].k = "file" \/ a[i + 1].n = a[i].n + 1 \/ m[a[i].n + 1].k = "file"
  <2>1. i \in 1 .. N /\ a[i] = s[i] /\ s[i].n \in 1 .. top
    BY <1>0, <1>1, <1>6
  <2>2. CASE i = N
    <3>1. s[i].k = "file" \/ s[i].n = top \/ l[s[i].n + 1].k = "file"
      BY <1>0, <2>1, <2>2 DEF Ordered, N, top
    <3>2. a[i + 1].n = top + 1
      BY <1>0, <2>2 DEF top
    <3> QED BY <1>5, <2>1, <3>1, <3>2
  <2>3. CASE i < N
    <3>1. i + 1 \in 1 .. N /\ a[i + 1] = s[i + 1]
      BY <1>0, <2>1, <2>3
    <3>2. s[i].k = "file" \/ s[i + 1].n = s[i].n + 1 \/ l[s[i].n + 1].k = "file"
      BY <2>1, <2>3 DEF Ordered, N
    <3>3. s[i].n + 1 \in 1 .. top
      <4>1. s[i].n < s[i + 1].n
        BY <1>0, <2>1, <2>3, <3>1 DEF Ordered, N
      <4> QED BY <1>1, <1>a, <2>1, <3>1, <4>1
    <3> QED BY <1>a, <2>1, <3>1, <3>2, <3>3
  <2> QED BY <1>0, <2>1, <2>2, <2>3
<1>7. a[1].n = h + 1 \/ m[h + 1].k = "file"
  <2>0. h + 1 \in 1 .. top \/ h = top
    BY <1>a DEF top
  <2>1. CASE N = 0
    <3>1. h = top \/ l[h + 1].k = "file"
      BY <2>1 DEF Ordered, N, top
    <3>2. a[1].n = top + 1
      BY <1>0, <2>1 DEF top
    <3> QED BY <1>a, <2>0, <3>1, <3>2
  <2>2. CASE N # 0
    <3>1. 1 \in 1 .. N /\ a[1] = s[1] /\ s[1].n \in h + 1 .. top
      BY <1>0, <1>1, <2>2
    <3>2. s[1].n = h + 1 \/ l[h + 1].k = "file"
      BY <2>2 DEF Ordered, N
    <3>3. h + 1 \in 1 .. top
      BY <1>a, <2>0, <3>1
    <3> QED BY <1>a, <3>1, <3>2, <3>3
  <2> QED BY <2>1, <2>2
<1>8. a[N + 1].n = top + 1 /\ N + 1 # 0
  BY <1>0 DEF top
<1>9. Ordered(a, h, m)
  BY <1>0, <1>a, <1>3, <1>4, <1>6, <1>7, <1>8 DEF Ordered
<1> QED BY <1>9 DEF a, m

\* t is s without d pieces, which begin with the header of a file or follow one.
Gap(s, t, p, d) ==
  /\ p \in 0 .. Len(s) /\ d \in 0 .. Len(s) - p /\ Len(t) = Len(s) - d
  /\ \A i \in 1 .. Len(t) : t[i] = IF i <= p THEN s[i] ELSE s[i + d]
  /\ (p > 0 /\ s[p].k = "file") \/ (d > 0 /\ s[p + 1].k = "file")

LEMMA OrderedGap ==
  ASSUME NEW s \in Seq(Got), NEW t \in Seq(Got), NEW h \in Nat, NEW l \in Seq(Got),
         NEW p, NEW d, Ordered(s, h, l), Gap(s, t, p, d), h <= Len(l)
  PROVE  Ordered(t, h, l)
<1> DEFINE N == Len(s)
           M == Len(t)
           at(i) == IF i <= p THEN i ELSE i + d
<1>0. /\ N \in Nat /\ M \in Nat /\ p \in 0 .. N /\ d \in 0 .. N - p /\ M = N - d
      /\ p \in Nat /\ d \in Nat /\ Len(l) \in Nat
  BY DEF Gap
<1>1. \A i \in 1 .. M : t[i] = s[at(i)]
  BY DEF Gap
<1>a. (p > 0 /\ s[p].k = "file") \/ (d > 0 /\ s[p + 1].k = "file")
  BY DEF Gap
<1> HIDE DEF N, M
<1>2. \A i \in 1 .. M : at(i) \in 1 .. N
  BY <1>0
<1>3. \A i, j \in 1 .. M : i < j => at(i) < at(j)
  BY <1>0
<1>4. \A i \in 1 .. M : i < M => at(i) < N /\ i + 1 \in 1 .. M /\ (i # p => at(i + 1) = at(i) + 1)
  BY <1>0
<1>5. /\ p > 0 => p \in 1 .. M /\ at(p) = p /\ at(1) = 1
      /\ M # 0 => 1 \in 1 .. M /\ 1 \in 1 .. N /\ M \in 1 .. M /\ N # 0 /\ (at(M) = N \/ M = p)
      /\ N # 0 => 1 \in 1 .. N /\ N \in 1 .. N
      /\ d > 0 => p + 1 \in 1 .. N
  BY <1>0
<1> HIDE DEF at
<1>b. \A i \in 1 .. N : s[i].n \in h + 1 .. Len(l) /\ l[s[i].n] = s[i]
  BY DEF Ordered, N
<1>6. \A i \in 1 .. M : t[i].n \in h + 1 .. Len(l) /\ l[t[i].n] = t[i]
  BY <1>1, <1>2, <1>b
<1>7. \A i, j \in 1 .. M : i < j => t[i].n < t[j].n
  BY <1>1, <1>2, <1>3 DEF Ordered, N
\* The place of the gap.
<1>c. p > 0 => s[p].k = "file" \/ (p < N /\ l[s[p].n + 1].k = "file")
  <2> SUFFICES ASSUME p > 0, s[p].k # "file" PROVE p < N /\ l[s[p].n + 1].k = "file"
    OBVIOUS
  <2>1. d > 0 /\ s[p + 1].k = "file" /\ p + 1 \in 1 .. N /\ p \in 1 .. N /\ p < N
    BY <1>0, <1>5, <1>a
  <2>2. s[p + 1].n = s[p].n + 1 \/ l[s[p].n + 1].k = "file"
    BY <2>1 DEF Ordered, N
  <2> QED BY <1>b, <2>1, <2>2
<1>d. p = 0 => N # 0 /\ l[h + 1].k = "file"
  <2> SUFFICES ASSUME p = 0 PROVE N # 0 /\ l[h + 1].k = "file"
    OBVIOUS
  <2>1. s[1].k = "file" /\ 1 \in 1 .. N /\ N # 0
    BY <1>0, <1>5, <1>a
  <2>2. s[1].n = h + 1 \/ l[h + 1].k = "file"
    BY <2>1 DEF Ordered, N
  <2> QED BY <1>b, <2>1, <2>2
<1>8. ASSUME NEW i \in 1 .. M, i < M
      PROVE  t[i].k = "file" \/ t[i + 1].n = t[i].n + 1 \/ l[t[i].n + 1].k = "file"
  <2>1. CASE i = p
    BY <1>0, <1>1, <1>5, <1>c, <2>1
  <2>2. CASE i # p
    <3>1. at(i) \in 1 .. N /\ at(i) < N /\ t[i] = s[at(i)] /\ t[i + 1] = s[at(i) + 1]
      BY <1>1, <1>2, <1>4, <1>8, <2>2
    <3> QED BY <3>1 DEF Ordered, N
  <2> QED BY <2>1, <2>2
<1>9. ASSUME M # 0
      PROVE  /\ t[1].n = h + 1 \/ l[h + 1].k = "file"
             /\ t[M].k = "file" \/ t[M].n = Len(l) \/ l[t[M].n + 1].k = "file"
  <2>1. t[1] = s[at(1)] /\ t[M] = s[at(M)] /\ N # 0
    BY <1>1, <1>5, <1>9
  <2>2. /\ s[1].n = h + 1 \/ l[h + 1].k = "file"
        /\ s[N].k = "file" \/ s[N].n = Len(l) \/ l[s[N].n + 1].k = "file"
    BY <2>1 DEF Ordered, N
  <2>3. t[1].n = h + 1 \/ l[h + 1].k = "file"
    BY <1>0, <1>5, <1>d, <2>1, <2>2
  <2>4. M = p => t[M].k = "file" \/ l[t[M].n + 1].k = "file"
    <3> SUFFICES ASSUME M = p PROVE t[M].k = "file" \/ l[t[M].n + 1].k = "file"
      OBVIOUS
    <3>1. p > 0
      BY <1>0, <1>9
    <3>2. t[M] = s[p]
      BY <1>5, <2>1, <3>1
    <3> QED BY <1>c, <3>1, <3>2
  <2> QED BY <1>5, <1>9, <2>1, <2>2, <2>3, <2>4
<1>10. M = 0 => h = Len(l) \/ l[h + 1].k = "file"
  <2>1. CASE N = 0
    BY <2>1 DEF Ordered, N
  <2>2. CASE N # 0 /\ M = 0
    BY <1>0, <1>5, <1>d, <2>2
  <2> QED BY <2>1, <2>2
<1> QED BY <1>6, <1>7, <1>8, <1>9, <1>10 DEF Ordered, M

\* A file takes the place of all that came in its read.
LEMMA OrderedFile ==
  ASSUME NEW a \in Seq(Got), NEW b \in Seq(Got), NEW c \in Seq(Got), NEW h \in Nat, NEW l \in Seq(Got),
         Len(b) # 0, b[1].k = "file", h <= Len(l), Ordered(a \o (b \o c), h, l)
  PROVE  Ordered(a \o (<<b[1]>> \o c), h, l)
<1> DEFINE s == a \o (b \o c)
           t == a \o (<<b[1]>> \o c)
           p == Len(a) + 1
           d == Len(b) - 1
<1>0. /\ Len(a) \in Nat /\ Len(b) \in Nat /\ Len(c) \in Nat /\ d \in Nat /\ 1 \in 1 .. Len(b) /\ b[1] \in Got
  OBVIOUS
<1>1. <<b[1]>> \in Seq(Got) /\ Len(<<b[1]>>) = 1 /\ <<b[1]>>[1] = b[1]
  BY <1>0
<1>2. PICK v : v = <<b[1]>>
  OBVIOUS
<1>3. /\ b \o c \in Seq(Got) /\ Len(b \o c) = Len(b) + Len(c)
      /\ \A i \in 1 .. Len(b) + Len(c) : (b \o c)[i] = IF i <= Len(b) THEN b[i] ELSE c[i - Len(b)]
  BY ConcatProperties
<1>4. /\ v \o c \in Seq(Got) /\ Len(v \o c) = 1 + Len(c)
      /\ \A i \in 1 .. 1 + Len(c) : (v \o c)[i] = IF i <= 1 THEN v[i] ELSE c[i - 1]
  BY <1>1, <1>2, ConcatProperties
<1>5. PICK bc, vc : bc = b \o c /\ vc = v \o c
  OBVIOUS
<1>6. /\ s \in Seq(Got) /\ Len(s) = Len(a) + Len(bc)
      /\ \A i \in 1 .. Len(a) + Len(bc) : s[i] = IF i <= Len(a) THEN a[i] ELSE bc[i - Len(a)]
  BY <1>3, <1>5, ConcatProperties
<1>7. /\ t \in Seq(Got) /\ Len(t) = Len(a) + Len(vc)
      /\ \A i \in 1 .. Len(a) + Len(vc) : t[i] = IF i <= Len(a) THEN a[i] ELSE vc[i - Len(a)]
  BY <1>2, <1>4, <1>5, ConcatProperties
<1>8. Len(bc) = Len(b) + Len(c) /\ Len(vc) = 1 + Len(c)
  BY <1>3, <1>4, <1>5
<1>9. Ordered(s, h, l)
  OBVIOUS
<1> HIDE DEF s, t
<1>10. p \in 1 .. Len(s) /\ d \in 0 .. Len(s) - p /\ Len(t) = Len(s) - d
  BY <1>0, <1>6, <1>7, <1>8
<1>11. s[p] = b[1]
  <2>1. p \in 1 .. Len(a) + Len(bc) /\ ~(p <= Len(a)) /\ p - Len(a) = 1 /\ 1 \in 1 .. Len(b) + Len(c) /\ 1 <= Len(b)
    BY <1>0, <1>8
  <2>2. s[p] = bc[1]
    BY <1>6, <2>1
  <2> QED BY <1>3, <1>5, <2>1, <2>2
<1>12. ASSUME NEW i \in 1 .. Len(t) PROVE t[i] = IF i <= p THEN s[i] ELSE s[i + d]
  <2>0. i \in Nat /\ i \in 1 .. Len(a) + Len(vc)
    BY <1>7
  <2>1. CASE i <= Len(a)
    <3>1. i <= p /\ i \in 1 .. Len(a) + Len(bc)
      BY <1>0, <1>8, <2>0, <2>1
    <3> QED BY <1>6, <1>7, <2>0, <2>1, <3>1
  <2>2. CASE i = p
    <3>1. i <= p /\ ~(i <= Len(a)) /\ i - Len(a) = 1 /\ 1 \in 1 .. 1 + Len(c) /\ 1 <= 1
      BY <1>0, <2>2
    <3>2. t[i] = vc[1]
      BY <1>7, <2>0, <3>1
    <3>3. vc[1] = b[1]
      BY <1>1, <1>2, <1>4, <1>5, <3>1
    <3> QED BY <1>11, <2>2, <3>1, <3>2, <3>3
  <2>3. CASE i > p
    <3>1. /\ ~(i <= Len(a)) /\ ~(i <= p) /\ i - Len(a) \in 1 .. 1 + Len(c) /\ ~(i - Len(a) <= 1)
      BY <1>0, <1>8, <2>0, <2>3
    <3>2. t[i] = c[(i - Len(a)) - 1]
      BY <1>4, <1>5, <1>7, <2>0, <3>1
    <3>3. /\ i + d \in 1 .. Len(a) + Len(bc) /\ ~(i + d <= Len(a))
          /\ (i + d) - Len(a) \in 1 .. Len(b) + Len(c) /\ ~((i + d) - Len(a) <= Len(b))
          /\ ((i + d) - Len(a)) - Len(b) = (i - Len(a)) - 1
      BY <1>0, <1>8, <2>0, <2>3
    <3>4. s[i + d] = bc[(i + d) - Len(a)]
      BY <1>6, <3>3
    <3>5. s[i + d] = c[(i - Len(a)) - 1]
      BY <1>3, <1>5, <3>3, <3>4
    <3> QED BY <3>1, <3>2, <3>5
  <2> QED BY <1>0, <2>0, <2>1, <2>2, <2>3
<1>a. p > 0 /\ p \in 0 .. Len(s)
  BY <1>0, <1>10
<1>13. Gap(s, t, p, d)
  BY <1>a, <1>10, <1>11, <1>12 DEF Gap
<1>14. Ordered(t, h, l)
  BY <1>6, <1>7, <1>9, <1>13, OrderedGap
<1> QED BY <1>14 DEF t

\* Or nothing does, when it cannot be opened.
LEMMA OrderedDrop ==
  ASSUME NEW a \in Seq(Got), NEW b \in Seq(Got), NEW c \in Seq(Got), NEW h \in Nat, NEW l \in Seq(Got),
         Len(b) # 0, b[1].k = "file", h <= Len(l), Ordered(a \o (b \o c), h, l)
  PROVE  Ordered(a \o c, h, l)
<1> DEFINE s == a \o (b \o c)
           t == a \o c
           p == Len(a)
           d == Len(b)
<1>0. Len(a) \in Nat /\ Len(b) \in Nat /\ Len(c) \in Nat /\ Len(b) > 0 /\ 1 \in 1 .. Len(b)
  OBVIOUS
<1>1. /\ b \o c \in Seq(Got) /\ Len(b \o c) = Len(b) + Len(c)
      /\ \A i \in 1 .. Len(b) + Len(c) : (b \o c)[i] = IF i <= Len(b) THEN b[i] ELSE c[i - Len(b)]
  BY ConcatProperties
<1>2. PICK bc : bc = b \o c
  OBVIOUS
<1>3. /\ s \in Seq(Got) /\ Len(s) = Len(a) + Len(bc)
      /\ \A i \in 1 .. Len(a) + Len(bc) : s[i] = IF i <= Len(a) THEN a[i] ELSE bc[i - Len(a)]
  BY <1>1, <1>2, ConcatProperties
<1>4. /\ t \in Seq(Got) /\ Len(t) = Len(a) + Len(c)
      /\ \A i \in 1 .. Len(a) + Len(c) : t[i] = IF i <= Len(a) THEN a[i] ELSE c[i - Len(a)]
  BY ConcatProperties
<1>5. Len(bc) = Len(b) + Len(c)
  BY <1>1, <1>2
<1>6. Ordered(s, h, l)
  OBVIOUS
<1> HIDE DEF s, t
<1>7. p \in 0 .. Len(s) /\ d \in 0 .. Len(s) - p /\ Len(t) = Len(s) - d /\ d > 0
  BY <1>0, <1>3, <1>4, <1>5
<1>8. s[p + 1] = b[1]
  <2>1. p + 1 \in 1 .. Len(a) + Len(bc) /\ ~(p + 1 <= Len(a)) /\ (p + 1) - Len(a) = 1 /\ 1 \in 1 .. Len(b) + Len(c) /\ 1 <= Len(b)
    BY <1>0, <1>5
  <2>2. s[p + 1] = bc[1]
    BY <1>3, <2>1
  <2> QED BY <1>1, <1>2, <2>1, <2>2
<1>9. ASSUME NEW i \in 1 .. Len(t) PROVE t[i] = IF i <= p THEN s[i] ELSE s[i + d]
  <2>0. i \in Nat /\ i \in 1 .. Len(a) + Len(c)
    BY <1>4
  <2>1. CASE i <= Len(a)
    <3>1. i \in 1 .. Len(a) + Len(bc)
      BY <1>0, <1>5, <2>0, <2>1
    <3> QED BY <1>3, <1>4, <2>0, <2>1, <3>1
  <2>2. CASE ~(i <= Len(a))
    <3>1. /\ i + d \in 1 .. Len(a) + Len(bc) /\ ~(i + d <= Len(a))
          /\ (i + d) - Len(a) \in 1 .. Len(b) + Len(c) /\ ~((i + d) - Len(a) <= Len(b))
          /\ ((i + d) - Len(a)) - Len(b) = i - Len(a)
      BY <1>0, <1>5, <2>0, <2>2
    <3>2. s[i + d] = bc[(i + d) - Len(a)]
      BY <1>3, <3>1
    <3>3. s[i + d] = c[i - Len(a)]
      BY <1>1, <1>2, <3>1, <3>2
    <3> QED BY <1>4, <2>0, <2>2, <3>3
  <2> QED BY <2>1, <2>2
<1>10. Gap(s, t, p, d)
  BY <1>7, <1>8, <1>9 DEF Gap
<1>11. Ordered(t, h, l)
  BY <1>3, <1>4, <1>6, <1>10, OrderedGap
<1> QED BY <1>11 DEF t

\* The view, the pending updates and what is on its way are as they were.
LEMMA ShowSame ==
  ASSUME ShowInv, UNCHANGED <<view, idle, down, log, heard>>,
         Chatting' => Chatting, ~Chatting' /\ gtk' # "dead" => ~Chatting /\ gtk # "dead"
  PROVE  ShowInv'
<1>1. Seen' = Seen
  BY DEF Seen
<1>2. Ordered(Seen, heard, log)' = Ordered(Seen, heard, log)
  BY <1>1 DEF Ordered
<1> QED BY <1>2 DEF ShowInv

\* A piece that is not there yet comes last.
LEMMA ShowPiece ==
  ASSUME NEW a \in Seq(Got), NEW d \in Seq(Got), NEW l \in Seq(Got), NEW h \in Nat, h <= Len(l),
         NEW t \in Got, t.n = Len(l) + 1, \A i \in DOMAIN l : l[i].n = i
  PROVE  /\ \A i \in DOMAIN Append(l, t) : Append(l, t)[i].n = i
         /\ Ordered(a \o d, h, l) => Ordered(a \o Append(d, t), h, Append(l, t))
         /\ Append(d, t) \in Seq(Got) /\ Append(l, t) \in Seq(Got) /\ Len(Append(l, t)) = Len(l) + 1
         /\ h <= Len(Append(l, t))
<1>1. PICK m : m = Append(l, t)
  OBVIOUS
<1>2. /\ m \in Seq(Got) /\ Len(l) \in Nat /\ Len(m) = Len(l) + 1 /\ DOMAIN m = 1 .. Len(l) + 1
      /\ DOMAIN l = 1 .. Len(l) /\ m[Len(l) + 1] = t /\ \A i \in DOMAIN l : m[i] = l[i]
  BY <1>1
<1>3. \A i \in DOMAIN m : m[i].n = i
  BY <1>2
<1>4. a \o Append(d, t) = Append(a \o d, t) /\ a \o d \in Seq(Got) /\ Append(d, t) \in Seq(Got)
  OBVIOUS
<1>5. Ordered(a \o d, h, l) => Ordered(Append(a \o d, t), h, m)
  BY <1>1, <1>4, OrderedAppend
<1>6. h <= Len(m)
  BY <1>2
<1> QED BY <1>1, <1>2, <1>3, <1>4, <1>5, <1>6

\* A write of the server comes last.
LEMMA ShowWrite ==
  ASSUME TypeOK, StreamType, ShowInv, UNCHANGED <<gtk, view, idle, heard>>,
         NEW k \in {"ok", "fail", "text", "file"}, Write(k)
  PROVE  ShowInv'
<1>1. PICK t \in Got :
        /\ t.k = k /\ t.n = Len(log) + 1
        /\ \/ down' = Append(down, t) /\ log' = Append(log, t)
           \/ \E u \in Got : /\ u.k \in {"text", "file"} /\ u.n = Len(log) + 2
                             /\ down' = Append(Append(down, t), u) /\ log' = Append(Append(log, t), u)
  BY WriteParts
<1>2. PICK a, d, m : a = view \o Flat(idle) /\ d = Append(down, t) /\ m = Append(log, t)
  OBVIOUS
<1>3. /\ a \in Seq(Got) /\ down \in Seq(Got) /\ log \in Seq(Got) /\ heard \in Nat /\ heard <= Len(log)
      /\ \A i \in DOMAIN log : log[i].n = i
      /\ Chatting => Ordered(a \o down, heard, log)
  <2>1. a \in Seq(Got)
    BY <1>2, FlatType DEF ShowInv
  <2> QED BY <1>2, <2>1 DEF TypeOK, StreamType, ShowInv, Seen
<1>4. /\ d \in Seq(Got) /\ m \in Seq(Got) /\ heard <= Len(m) /\ Len(m) = Len(log) + 1
      /\ \A i \in DOMAIN m : m[i].n = i
      /\ Chatting => Ordered(a \o d, heard, m)
  BY <1>1, <1>2, <1>3, ShowPiece
<1>5. /\ \A i \in DOMAIN log' : log'[i].n = i
      /\ Chatting => Ordered(a \o down', heard, log')
  <2>1. CASE down' = d /\ log' = m
    BY <1>4, <2>1
  <2>2. ASSUME NEW u \in Got, u.n = Len(log) + 2, down' = Append(d, u), log' = Append(m, u)
        PROVE  /\ \A i \in DOMAIN log' : log'[i].n = i
               /\ Chatting => Ordered(a \o down', heard, log')
    <3>1. u.n = Len(m) + 1
      BY <1>3, <1>4, <2>2
    <3> QED BY <1>3, <1>4, <2>2, <3>1, ShowPiece
  <2> QED BY <1>1, <1>2, <2>1, <2>2
<1>6. Seen' = a \o down' /\ Chatting' = Chatting
  BY <1>2 DEF Seen, Chatting
<1> QED BY <1>5, <1>6 DEF ShowInv

\* A part of what is on its way becomes an update.
LEMMA ShowReceive ==
  ASSUME TypeOK, StreamType, ShowInv, Receive
  PROVE  ShowInv'
<1>1. PICK c \in Chunks(down) : down' = c[2] /\ idle' \in Shown(c[1])
  BY DEF Receive
<1>2. UNCHANGED <<gtk, view, log, heard>> /\ Chatting' = Chatting
  BY DEF Receive, ghostVars, Chatting
<1>3. PICK p, q, a : p = c[1] /\ q = c[2] /\ a = view \o Flat(idle)
  OBVIOUS
<1>4. /\ p \in Seq(Got) /\ q \in Seq(Got) /\ Len(p) \in 1 .. Len(down) /\ Len(q) = Len(down) - Len(p)
      /\ \A i \in DOMAIN p : p[i] = down[i]
      /\ \A i \in DOMAIN q : q[i] = down[Len(p) + i]
  BY <1>3, ChunkParts DEF StreamType
<1>5. p \o q = down
  <2>1. /\ down \in Seq(Got) /\ Len(down) \in Nat /\ Len(p) \in Nat /\ Len(q) \in Nat
        /\ Len(p) + Len(q) = Len(down) /\ DOMAIN p = 1 .. Len(p) /\ DOMAIN q = 1 .. Len(q)
    BY <1>4 DEF StreamType
  <2>2. \A i \in 1 .. Len(down) : (p \o q)[i] = IF i <= Len(p) THEN p[i] ELSE q[i - Len(p)]
    BY <1>4, <2>1, ConcatProperties
  <2>3. \A i \in 1 .. Len(down) : IF i <= Len(p) THEN i \in 1 .. Len(p)
                                  ELSE i - Len(p) \in 1 .. Len(q) /\ Len(p) + (i - Len(p)) = i
    BY <2>1
  <2>4. \A i \in 1 .. Len(down) : (p \o q)[i] = down[i]
    BY <1>4, <2>1, <2>2, <2>3
  <2>5. p \o q \in Seq(Got) /\ Len(p \o q) = Len(down)
    BY <1>4, <2>1, ConcatProperties
  <2> QED BY <2>1, <2>4, <2>5, SeqEqual
<1>6. a \in Seq(Got) /\ view \in Seq(Got) /\ idle \in Seq(Seq(Got)) /\ Flat(idle) \in Seq(Got)
  BY <1>3, FlatType DEF ShowInv
<1>7. Len(p) # 0 /\ p[1] \in Got
  BY <1>4 DEF StreamType
<1>8. /\ Ordered(a \o (p \o q), heard, log) /\ heard \in Nat /\ log \in Seq(Got) /\ heard <= Len(log)
  <2>1. Chatting
    BY DEF Receive, TypeOK
  <2> QED BY <1>3, <1>5, <2>1 DEF ShowInv, Seen, TypeOK, StreamType
<1>9. ASSUME NEW s \in Seq(Got), idle' = Append(idle, s), s = p \/ (p[1].k = "file" /\ s = <<p[1]>>)
      PROVE  idle' \in Seq(Seq(Got)) /\ Ordered(Seen', heard, log)
  <2>1. idle' \in Seq(Seq(Got)) /\ Flat(idle') = Flat(idle) \o s
    BY <1>6, <1>9, FlatAppend
  <2>2. Seen' = a \o (s \o q)
    <3>0. a \in Seq(Got) /\ s \in Seq(Got) /\ q \in Seq(Got) /\ view \in Seq(Got) /\ Flat(idle) \in Seq(Got)
      BY <1>4, <1>6
    <3>1. view \o (Flat(idle) \o s) = a \o s
      <4>1. (view \o Flat(idle)) \o s = view \o (Flat(idle) \o s)
        BY <3>0, Brackets
      <4> QED BY <1>3, <4>1
    <3>2. (a \o s) \o q = a \o (s \o q)
      BY <3>0, Brackets
    <3> QED BY <1>1, <1>2, <1>3, <2>1, <3>1, <3>2 DEF Seen
  <2>3. CASE s = p
    BY <1>8, <2>1, <2>2, <2>3
  <2>4. CASE p[1].k = "file" /\ s = <<p[1]>>
    BY <1>4, <1>6, <1>7, <1>8, <2>1, <2>2, <2>4, OrderedFile
  <2> QED BY <1>9, <2>3, <2>4
<1>10. ASSUME p[1].k = "file", idle' = idle PROVE Ordered(Seen', heard, log)
  <2>1. Seen' = a \o q
    BY <1>1, <1>2, <1>3, <1>10 DEF Seen
  <2> QED BY <1>4, <1>6, <1>7, <1>8, <1>10, <2>1, OrderedDrop
<1>11. \/ idle' = Append(idle, p)
       \/ p[1].k = "file" /\ (idle' = Append(idle, <<p[1]>>) \/ idle' = idle)
  BY <1>1, <1>3 DEF Shown
<1>a. <<p[1]>> \in Seq(Got)
  BY <1>7
<1>12. idle' \in Seq(Seq(Got)) /\ Ordered(Seen', heard', log')
  <2>1. CASE idle' = Append(idle, p)
    BY <1>2, <1>4, <1>9, <2>1
  <2>2. CASE p[1].k = "file" /\ idle' = Append(idle, <<p[1]>>)
    BY <1>2, <1>9, <1>a, <2>2
  <2>3. CASE p[1].k = "file" /\ idle' = idle
    BY <1>2, <1>6, <1>10, <2>3
  <2> QED BY <1>11, <2>1, <2>2, <2>3
<1>13. Chatting
  BY DEF Receive, TypeOK
<1> QED BY <1>2, <1>6, <1>12, <1>13 DEF ShowInv

\* The first update is shown.
LEMMA ShowUpdate ==
  ASSUME StreamType, ShowInv, Update
  PROVE  ShowInv'
<1>1. idle # <<>> /\ view' = view \o Head(idle) /\ idle' = Tail(idle) /\ Chatting
  BY DEF Update
<1>2. UNCHANGED <<gtk, down, log, heard>> /\ Chatting' = Chatting
  BY DEF Update, ghostVars, Chatting
<1>3. /\ view \in Seq(Got) /\ idle \in Seq(Seq(Got)) /\ Head(idle) \in Seq(Got)
      /\ Tail(idle) \in Seq(Seq(Got)) /\ view' \in Seq(Got)
  BY <1>1 DEF ShowInv
<1>4. Flat(idle) = Head(idle) \o Flat(Tail(idle)) /\ Flat(Tail(idle)) \in Seq(Got)
  BY <1>1, <1>3, FlatHead, FlatType
<1>5. (view \o Head(idle)) \o Flat(Tail(idle)) = view \o (Head(idle) \o Flat(Tail(idle)))
  BY <1>3, <1>4, Brackets
<1>6. Seen' = Seen
  BY <1>1, <1>2, <1>4, <1>5 DEF Seen
<1> QED BY <1>1, <1>2, <1>3, <1>6 DEF ShowInv

\* The window opens: what the read of the answer left is on its way.
LEMMA ShowOpen ==
  ASSUME TypeOK, StreamType, Unanswered, ShowInv, Waiting, UNCHANGED <<view, idle, log>>,
         NEW c \in Chunks(down), down' = c[2], OpenChat(c[1])
  PROVE  ShowInv'
<1>1. down = log /\ view = <<>> /\ idle = <<>>
  BY DEF Unanswered, ShowInv, Waiting, Chatting
<1>2. PICK p, q : p = c[1] /\ q = c[2]
  OBVIOUS
<1>3. /\ q \in Seq(Got) /\ Len(p) \in 1 .. Len(log) /\ Len(q) = Len(log) - Len(p)
      /\ \A i \in DOMAIN q : q[i] = log[Len(p) + i]
  BY <1>1, <1>2, ChunkParts DEF StreamType
<1>4. heard' = Len(p) /\ down' = q /\ gtk' = "chat" /\ log' = log
  BY <1>2 DEF OpenChat
<1>5. Seen' = q
  BY <1>1, <1>3, <1>4, FlatEmpty DEF Seen
<1>6. /\ Len(log) \in Nat /\ DOMAIN log = 1 .. Len(log) /\ Len(p) \in Nat /\ Len(q) \in Nat
      /\ DOMAIN q = 1 .. Len(q) /\ \A i \in DOMAIN log : log[i].n = i
  BY <1>3 DEF StreamType, ShowInv
<1>7. \A i \in 1 .. Len(q) : q[i].n = Len(p) + i
  <2>1. \A i \in 1 .. Len(q) : Len(p) + i \in 1 .. Len(log)
    BY <1>3, <1>6
  <2> QED BY <1>3, <1>6, <2>1
<1>8. Ordered(q, Len(p), log)
  <2>1. \A i \in 1 .. Len(q) : q[i].n \in Len(p) + 1 .. Len(log) /\ log[q[i].n] = q[i]
    <3>1. \A i \in 1 .. Len(q) : q[i].n \in Len(p) + 1 .. Len(log)
      BY <1>3, <1>6, <1>7
    <3>2. \A i \in 1 .. Len(q) : log[q[i].n] = q[i]
      BY <1>3, <1>6, <1>7
    <3> QED BY <3>1, <3>2
  <2>2. \A i \in 1 .. Len(q) : i < Len(q) => i + 1 \in 1 .. Len(q)
    BY <1>6
  <2>3. \A i \in 1 .. Len(q) : i < Len(q) => q[i + 1].n = q[i].n + 1
    BY <1>6, <1>7, <2>2
  <2>4. \A i, j \in 1 .. Len(q) : i < j => q[i].n < q[j].n
    BY <1>6, <1>7
  <2>5. Len(q) # 0 => q[1].n = Len(p) + 1 /\ q[Len(q)].n = Len(log)
    BY <1>3, <1>6, <1>7
  <2>6. Len(q) = 0 => Len(p) = Len(log)
    BY <1>3, <1>6
  <2> QED BY <2>1, <2>3, <2>4, <2>5, <2>6 DEF Ordered
<1> QED BY <1>1, <1>4, <1>5, <1>8 DEF ShowInv, Chatting

LEMMA ShowInvInit == Init => ShowInv
BY DEF Init, ShowInv, Chatting

LEMMA ShowInvNext == LinkInv /\ ShowInv /\ [Next]_vars => ShowInv'
<1> SUFFICES ASSUME LinkInv, ShowInv, [Next]_vars PROVE ShowInv' OBVIOUS
<1>0. TypeOK /\ StreamType /\ Unanswered
  BY DEF LinkInv
<1>1. CASE Dialogs \/ Dismiss \/ ClickFile
  <2>1. /\ UNCHANGED <<view, idle, down, log, heard>>
        /\ Chatting' = Chatting /\ gtk # "dead" /\ gtk' # "dead"
    BY <1>1 DEF Dialogs, OpenSignup, CloseSignup, Dismiss, ClickFile, Chatting, ghostVars
  <2> QED BY <2>1, ShowSame
<1>2. CASE Update
  BY <1>0, <1>2, ShowUpdate
<1>3. CASE Receive
  BY <1>0, <1>3, ShowReceive
<1>4. CASE ReceiveEnds \/ SetName \/ Close \/ UNCHANGED vars
  <2>1. UNCHANGED <<gtk, view, idle, down, log, heard>> /\ Chatting' = Chatting
    BY <1>4 DEF ReceiveEnds, SetName, Close, vars, clientVars, ghostVars, Chatting
  <2> QED BY <2>1, ShowSame
<1>5. CASE Refused \/ Connect
  <2>1. /\ UNCHANGED <<view, idle>> /\ log' = <<>> /\ ~Chatting /\ gtk # "dead" /\ ~Chatting' /\ gtk' # "dead"
    BY <1>5 DEF Refused, Connect, Chatting
  <2> QED BY <2>1 DEF ShowInv
<1>6. CASE Answered
  <2>1. PICK c \in Chunks(down) : /\ down' = c[2]
                                  /\ OpenChat(c[1]) \/ \E next \in {"alert_login", "alert_signup", "info"} : Drop(next)
    <3>1. gtk \in {"wait_login", "wait_signup"}
      BY <1>6 DEF Answered, Waiting
    <3>2. CASE gtk = "wait_login"
      BY <1>6, <3>2 DEF Answered
    <3>3. CASE gtk = "wait_signup"
      BY <1>6, <3>3 DEF Answered
    <3> QED BY <3>1, <3>2, <3>3
  <2>2. Waiting /\ UNCHANGED <<view, idle, log>>
    BY <1>6 DEF Answered
  <2>3. CASE OpenChat(c[1])
    BY <1>0, <2>1, <2>2, <2>3, ShowOpen
  <2>4. ASSUME NEW next \in {"alert_login", "alert_signup", "info"}, Drop(next) PROVE ShowInv'
    BY <2>2, <2>4 DEF Drop, Waiting, Chatting, ShowInv
  <2> QED BY <2>1, <2>3, <2>4
<1>7. CASE NoAnswer
  <2>1. UNCHANGED <<view, idle, log>> /\ Waiting /\ gtk' \in {"alert_login", "alert_signup"}
    BY <1>7 DEF NoAnswer, Drop
  <2> QED BY <2>1 DEF Waiting, Chatting, ShowInv
<1>8. CASE (\E r \in Button : ClickRoom(r)) \/ (\E t \in Typed : ClickSend(t))
  <2>1. UNCHANGED <<gtk, view, idle, down, log, heard>> /\ Chatting' = Chatting
    BY <1>8 DEF ClickRoom, ClickSend, clientVars, ghostVars, Chatting
  <2> QED BY <2>1, ShowSame
<1>9. CASE ChooseFile
  <2>1. UNCHANGED <<view, down, log, heard>> /\ Chatting /\ Chatting'
    BY <1>9 DEF ChooseFile, Chatting, ghostVars
  <2>2. CASE UNCHANGED idle
    BY <2>1, <2>2, ShowSame
  <2>3. CASE idle' = Append(idle, <<>>)
    <3>0. <<>> \in Seq(Got) /\ idle \in Seq(Seq(Got))
      BY DEF ShowInv
    <3>1. /\ idle' \in Seq(Seq(Got)) /\ Flat(idle') = Flat(idle) \o <<>>
          /\ Flat(idle) \in Seq(Got)
      <4>1. PICK e : e = <<>>
        OBVIOUS
      <4>2. e \in Seq(Got) /\ idle' = Append(idle, e)
        BY <2>3, <3>0, <4>1
      <4>3. idle' \in Seq(Seq(Got))
        BY <3>0, <4>2
      <4>4. Flat(Append(idle, e)) = Flat(idle) \o e
        BY <3>0, <4>2, FlatAppend
      <4> QED BY <3>0, <4>1, <4>2, <4>3, <4>4, FlatType
    <3>2. Seen' = Seen
      BY <2>1, <3>1, ConcatEmptySeq DEF Seen
    <3> QED BY <2>1, <3>1, <3>2 DEF ShowInv
  <2> QED BY <1>9, <2>2, <2>3 DEF ChooseFile
<1>10. CASE Authenticate \/ Welcome \/ OtherLine
  <2>1. UNCHANGED <<gtk, view, idle, heard>> /\ \E k \in {"ok", "fail", "text", "file"} : Write(k)
    BY <1>10 DEF Authenticate, Welcome, OtherLine, clientVars, ghostVars
  <2> QED BY <1>0, <2>1, ShowWrite
<1>11. CASE Handle
  <2>1. /\ UNCHANGED <<gtk, view, idle, heard>>
        /\ UNCHANGED <<down, log>> \/ \E k \in {"text", "file"} : Write(k)
    BY <1>11 DEF Handle, clientVars
  <2>2. CASE UNCHANGED <<down, log>>
    BY <2>1, <2>2, ShowSame DEF Chatting
  <2>3. ASSUME NEW k \in {"text", "file"}, Write(k) PROVE ShowInv'
    BY <1>0, <2>1, <2>3, ShowWrite
  <2> QED BY <2>1, <2>2, <2>3
<1>12. CASE Quit
  BY <1>12 DEF Quit, ShowInv, Chatting, ghostVars
<1> QED
  BY <1>1, <1>2, <1>3, <1>4, <1>5, <1>6, <1>7, <1>8, <1>9, <1>10, <1>11, <1>12
     DEF Next, Gtk, Handler, User, Disconnect

LEMMA ShowInvariant == Spec => []ShowInv
<1>1. LinkInv /\ ShowInv /\ [Next]_vars => ShowInv'
  BY ShowInvNext
<1> QED BY <1>1, LinkInvariant, ShowInvInit, PTL DEF Spec

-----------------------------------------------------------------------------

\* gui_client.c and handle_clnt: types; a connection exactly while a callback
\* waits for an answer or the chat window is open.
THEOREM LinkTypeCorrect == Spec => []TypeOK
<1>1. LinkInv => TypeOK
  BY DEF LinkInv
<1> QED BY <1>1, LinkInvariant, PTL

\* on_login_clicked: the chat window opens for an accepted login only, and an
\* accepted request is taken for a failure only with a name left uninitialised.
THEOREM AnswerTruthful == Spec => []LoginTruthful
<1>1. LinkInv => LoginTruthful
  BY DEF LinkInv
<1> QED BY <1>1, LinkInvariant, PTL

\* on_room_clicked: once everything is read the label names the client's room,
\* unless two writes came in one read or the user typed a /join.
THEOREM LabelCorrect == Spec => []LabelMatchesRoom
<1>1. LinkInv => LabelMatchesRoom
  <2> SUFFICES ASSUME LinkInv, gtk = "chat", srv = "loop", up = <<>>, plain PROVE label = room
    BY DEF LabelMatchesRoom
  <2>1. Follows(up, room, label)
    BY DEF LinkInv, RoomPending, Chatting
  <2> QED BY <2>1 DEF Follows, Joins
<1> QED BY <1>1, LinkInvariant, PTL

\* recv_msg and update_ui: the window shows what was written to the client, all of
\* it and in order, wherever the reads begin and end, but for the read of the answer
\* and for what came with the header of a file, or with it when no file is opened.
THEOREM ShowsInOrder == Spec => []DisplayInOrder
<1>1. LinkInv /\ ShowInv => DisplayInOrder
  <2> DEFINE seen == view \o Flat(idle) \o down
             upTo(i) == IF i = 0 THEN heard ELSE seen[i].n
             after(i) == IF i = Len(seen) THEN Len(log) + 1 ELSE seen[i + 1].n
  <2> SUFFICES ASSUME LinkInv, ShowInv, Chatting, NEW i \in 0 .. Len(seen)
               PROVE  \/ after(i) = upTo(i) + 1
                      \/ /\ after(i) > upTo(i)
                         /\ (i > 0 /\ seen[i].k = "file") \/ log[upTo(i) + 1].k = "file"
    BY DEF DisplayInOrder
  <2>1. seen \in Seq(Got)
    BY FlatType DEF LinkInv, StreamType, ShowInv
  <2>2. Ordered(seen, heard, log)
    BY DEF ShowInv, Seen
  <2>3. PICK s, n, top : s = seen /\ n = Len(s) /\ top = Len(log)
    OBVIOUS
  <2>4. n \in Nat /\ top \in Nat /\ i \in 0 .. n /\ heard \in 0 .. top
    BY <2>1, <2>3 DEF LinkInv, StreamType, TypeOK
  <2>5. \A j \in 1 .. n : s[j].n \in heard + 1 .. top
    BY <2>2, <2>3 DEF Ordered
  <2>6. CASE i = n
    <3>1. CASE n = 0
      <4>1. heard = top \/ log[heard + 1].k = "file"
        BY <2>2, <2>3, <3>1 DEF Ordered
      <4>2. top + 1 > heard
        BY <2>4
      <4> QED BY <2>3, <2>6, <3>1, <4>1, <4>2
    <3>2. CASE n # 0
      <4>1. n \in 1 .. n /\ n > 0 /\ (s[n].k = "file" \/ s[n].n = top \/ log[s[n].n + 1].k = "file")
        BY <2>2, <2>3, <2>4, <3>2 DEF Ordered
      <4>2. s[n].n <= top /\ s[n].n \in Int /\ top + 1 > s[n].n
        BY <2>4, <2>5, <4>1
      <4> QED BY <2>3, <2>4, <2>6, <3>2, <4>1, <4>2
    <3> QED BY <3>1, <3>2
  <2>7. CASE i # n /\ i = 0
    <3>1. n # 0 /\ 1 \in 1 .. n
      BY <2>4, <2>7
    <3>2. s[1].n = heard + 1 \/ log[heard + 1].k = "file"
      BY <2>2, <2>3, <3>1 DEF Ordered
    <3>3. s[1].n > heard
      BY <2>4, <2>5, <3>1
    <3> QED BY <2>3, <2>7, <3>2, <3>3
  <2>8. CASE i # n /\ i # 0
    <3>1. i \in 1 .. n /\ i + 1 \in 1 .. n /\ i < n /\ i < i + 1 /\ i > 0
      BY <2>4, <2>8
    <3>2. s[i].k = "file" \/ s[i + 1].n = s[i].n + 1 \/ log[s[i].n + 1].k = "file"
      BY <2>2, <2>3, <3>1 DEF Ordered
    <3>3. s[i].n < s[i + 1].n
      BY <2>2, <2>3, <3>1 DEF Ordered
    <3>4. s[i].n \in Int /\ s[i + 1].n \in Int
      BY <2>4, <2>5, <3>1
    <3> QED BY <2>3, <2>8, <3>1, <3>2, <3>3, <3>4
  <2> QED BY <2>6, <2>7, <2>8
<1> QED BY <1>1, LinkInvariant, ShowInvariant, PTL
=============================================================================
