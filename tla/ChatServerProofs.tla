-------------------------- MODULE ChatServerProofs --------------------------
(***************************************************************************)
(* Safety of ChatServer for every set of addresses, descriptors, ids and   *)
(* rooms.  BaseInv is inductive by itself; every later invariant is shown  *)
(* to be kept by a step between two states of BaseInv.                     *)
(***************************************************************************)
EXTENDS ChatServer, FiniteSetTheorems, TLAPS

-----------------------------------------------------------------------------
(* The base invariant: types, the count, the lock, and what a handler at a *)
(* given stage has in hand.                                                *)

\* A handler in the authentication has parsed a request.
ReqInHand ==
  \A p \in Ptr : pc[p] \in {"dup_scan", "login", "register", "flush", "reg_ok", "login_ok"}
                   => req[p] \in Request

\* A handler in send_msg has a line to relay.
MsgInHand == \A p \in Ptr : pc[p] \in {"send", "sending"} => msg[p] \in 1 .. sent

\* mutx is held by exactly the handler in the middle of a broadcast or of an
\* append to users.txt.
LockHeld == \A p \in Ptr : pc[p] \in {"flush", "sending"} <=> mutx = p

BaseInv == TypeOK /\ CountIsLive /\ NoNullEntry /\ ReqInHand /\ MsgInHand /\ LockHeld

\* Registered is finite and smaller than the list whenever some record is not
\* in it.
LEMMA RegisteredBound ==
  /\ IsFiniteSet(Registered)
  /\ Cardinality(Registered) \in Nat
  /\ \A p \in Ptr : p \notin Registered => Cardinality(Registered) < MAX_CLNT
  /\ \A p \in Registered : Cardinality(Registered) > 0
<1>1. Registered \subseteq Ptr
  BY DEF Registered
<1>2. IsFiniteSet(Registered) /\ Cardinality(Registered) \in Nat
  BY <1>1, ServerAssumption, FS_Subset, FS_CardinalityType
<1>3. ASSUME NEW p \in Ptr, p \notin Registered
      PROVE  Cardinality(Registered) < MAX_CLNT
  <2>1. Cardinality(Registered \cup {p}) = Cardinality(Registered) + 1
    BY <1>2, <1>3, FS_AddElement
  <2>2. Registered \cup {p} \subseteq Ptr
    BY <1>1
  <2>3. Cardinality(Registered \cup {p}) <= Cardinality(Ptr)
    BY <2>2, ServerAssumption, FS_Subset
  <2>4. Cardinality(Ptr) \in Nat
    BY ServerAssumption, FS_CardinalityType
  <2> QED
    BY <1>2, <2>1, <2>3, <2>4, ServerAssumption
<1>4. ASSUME NEW p \in Registered
      PROVE  Cardinality(Registered) > 0
  BY <1>2, <1>4, FS_EmptySet
<1> QED
  BY <1>2, <1>3, <1>4

-----------------------------------------------------------------------------

\* Whatever the two calls of fopen come to, users.txt stays a list of lines
\* and no id is lost that is not one.
LEMMA FopenType ==
  ASSUME users \in Seq(Line), lost \subseteq Id, NEW file, file \in {users, <<>>}, Fopen(file)
  PROVE  users' \in Seq(Line) /\ lost' \subseteq Id
<1>1. \A i \in DOMAIN users : users[i] \in Line
  OBVIOUS
<1>2. Ids(users) \subseteq Id
  BY <1>1 DEF Ids, Line
<1>3. users' \in Seq(Line)
  <2>1. <<>> \in Seq(Line)
    OBVIOUS
  <2> QED
    BY <2>1 DEF Fopen
<1> QED
  BY <1>2, <1>3 DEF Fopen

\* The freshly started server satisfies the base invariant.
THEOREM InitBase == Init => BaseInv
<1> SUFFICES ASSUME Init PROVE BaseInv
  OBVIOUS
<1> USE ServerAssumption DEF Init, NoList, EachPtr
<1>1. TypeOK
  BY DEF TypeOK, Stage
<1>2. CountIsLive
  <2>1. Registered = {}
    BY DEF Registered
  <2> QED
    BY <2>1, FS_EmptySet DEF CountIsLive
<1>3. NoNullEntry /\ ReqInHand /\ MsgInHand /\ LockHeld
  BY DEF NoNullEntry, ReqInHand, MsgInHand, LockHeld
<1> QED
  BY <1>1, <1>2, <1>3 DEF BaseInv

\* Every step of main and of a handler keeps the types; Register stays within
\* the array because an address outside the list is left over.
LEMMA TypeStep == BaseInv /\ [Next]_vars => TypeOK'
<1> SUFFICES ASSUME BaseInv, [Next]_vars PROVE TypeOK'
  OBVIOUS
<1> USE ServerAssumption DEF BaseInv, TypeOK, Stage, Goto, Forget, listVars, recVars, sendVars, fileVars
<1>1. CASE Restart
  BY <1>1 DEF Restart, NoList, EachPtr
<1>2. ASSUME NEW p \in Ptr, NEW f \in Fd \cup {BadFd}, NEW bytes \in {NoName, Junk},
             Accept(p, f, bytes)
      PROVE  TypeOK'
  BY <1>2 DEF Accept
<1>3. ASSUME NEW p \in Ptr, Register(p)
      PROVE  TypeOK'
  <2>1. p \notin Registered
    BY <1>3 DEF Register, Registered
  <2>2. clnt_cnt < MAX_CLNT
    BY <2>1, RegisteredBound DEF CountIsLive
  <2> QED
    BY <1>3, <2>2 DEF Register
<1>4. ASSUME NEW p \in Ptr, ReadAuthFails(p)
      PROVE  TypeOK'
  BY <1>4 DEF ReadAuthFails, AfterAuth
<1>5. ASSUME NEW p \in Ptr, \E r \in Request : ReadAuth(p, r)
      PROVE  TypeOK'
  BY <1>5 DEF ReadAuth
<1>6. ASSUME NEW p \in Ptr, DupScan(p)
      PROVE  TypeOK'
  BY <1>6 DEF DupScan
<1>7. ASSUME NEW p \in Ptr, Login(p)
      PROVE  TypeOK'
  <2>1. PICK file \in {users, <<>>} : Fopen(file)
    BY <1>7 DEF Login
  <2>2. users' \in Seq(Line) /\ lost' \subseteq Id
    BY <2>1, FopenType
  <2>3. pc' \in [Ptr -> Stage] /\ req' \in [Ptr -> Request \cup {NoReq}]
    <3>1. CASE Goto(p, "login_ok") /\ UNCHANGED req
      BY <3>1
    <3>2. CASE Goto(p, "disconnect") /\ Forget(p)
      BY <3>2
    <3> QED
      BY <1>7, <3>1, <3>2 DEF Login
  <2> QED
    BY <1>7, <2>2, <2>3 DEF Login
<1>8. ASSUME NEW p \in Ptr, ReplyLoggedIn(p)
      PROVE  TypeOK'
  BY <1>8 DEF ReplyLoggedIn, ReqInHand, Request
<1>9. ASSUME NEW p \in Ptr, RegisterUser(p)
      PROVE  TypeOK'
  <2>1. PICK file \in {users, <<>>} : Fopen(file)
    BY <1>9 DEF RegisterUser
  <2>2. users' \in Seq(Line) /\ lost' \subseteq Id
    BY <2>1, FopenType
  <2>3. /\ pc' \in [Ptr -> Stage] /\ req' \in [Ptr -> Request \cup {NoReq}]
        /\ mutx' \in Ptr \cup {NoThread}
    <3>1. CASE Goto(p, "disconnect") /\ Forget(p) /\ UNCHANGED mutx
      BY <3>1
    <3>2. CASE Goto(p, "flush") /\ mutx' = p /\ UNCHANGED req
      BY <3>2
    <3> QED
      BY <1>9, <3>1, <3>2 DEF RegisterUser
  <2> QED
    BY <1>9, <2>2, <2>3 DEF RegisterUser
<1>10. ASSUME NEW p \in Ptr, Flush(p)
      PROVE  TypeOK'
  <2>1. req[p] \in Request
    BY <1>10 DEF Flush, ReqInHand
  <2>2. [id |-> req[p].id, pw |-> req[p].pw] \in Line /\ req[p].id \in Id
    BY <2>1 DEF Request, Line
  <2>3. Append(users, [id |-> req[p].id, pw |-> req[p].pw]) \in Seq(Line)
    BY <2>2
  <2>4. users' \in Seq(Line) /\ lost' \subseteq Id
    BY <1>10, <2>2, <2>3 DEF Flush
  <2> QED
    BY <1>10, <2>4 DEF Flush
<1>11. ASSUME NEW p \in Ptr, ReplyRegistered(p)
      PROVE  TypeOK'
  BY <1>11 DEF ReplyRegistered, AfterAuth, ReqInHand, Request
<1>12. ASSUME NEW p \in Ptr, \E r \in Room : Join(p, r)
      PROVE  TypeOK'
  BY <1>12 DEF Join
<1>13. ASSUME NEW p \in Ptr, ReadLine(p)
      PROVE  TypeOK'
  BY <1>13 DEF ReadLine
<1>14. ASSUME NEW p \in Ptr, ReadError(p)
      PROVE  TypeOK'
  <2>1. /\ sent' \in 0 .. MaxSent /\ msg' \in [Ptr -> 0 .. MaxSent]
        /\ pc' \in [Ptr -> Stage] /\ err' \in [Ptr -> BOOLEAN]
    <3>1. CASE sent < MaxSent /\ sent' = sent + 1 /\ msg' = [msg EXCEPT ![p] = sent + 1] /\ Goto(p, "send")
      BY <1>14, <3>1 DEF ReadError
    <3>2. CASE UNCHANGED <<sent, msg, pc>>
      BY <1>14, <3>2 DEF ReadError
    <3> QED
      BY <1>14, <3>1, <3>2 DEF ReadError
  <2> QED
    BY <1>14, <2>1 DEF ReadError
<1>15. ASSUME NEW p \in Ptr, ReadEof(p)
      PROVE  TypeOK'
  BY <1>15 DEF ReadEof
<1>16. ASSUME NEW p \in Ptr, SendLock(p)
      PROVE  TypeOK'
  BY <1>16 DEF SendLock, Registered
<1>17. ASSUME NEW p \in Ptr, SendWrite(p)
      PROVE  TypeOK'
  <2>1. msg[p] \in 1 .. MaxSent
    BY <1>17 DEF SendWrite, MsgInHand
  <2>2. cursor' \in [Ptr -> 0 .. MAX_CLNT]
    BY <1>17 DEF SendWrite
  <2>3. owed' \subseteq Ptr
    BY <1>17 DEF SendWrite
  <2>4. wire' \in [Fd -> Seq(1 .. MaxSent)]
    <3> DEFINE f == sock[clnt_list[cursor[p]]]
    <3>1. wire' = wire \/ (f \in Fd /\ wire' = [wire EXCEPT ![f] = Append(@, msg[p])])
      BY <1>17 DEF SendWrite
    <3> HIDE DEF f
    <3>2. CASE f \in Fd /\ wire' = [wire EXCEPT ![f] = Append(@, msg[p])]
      <4>1. Append(wire[f], msg[p]) \in Seq(1 .. MaxSent)
        BY <2>1, <3>2
      <4> QED
        BY <3>2, <4>1
    <3> QED
      BY <3>1, <3>2
  <2> QED
    BY <1>17, <2>2, <2>3, <2>4 DEF SendWrite
<1>18. ASSUME NEW p \in Ptr, SendUnlock(p)
      PROVE  TypeOK'
  BY <1>18 DEF SendUnlock
<1>19. ASSUME NEW p \in Ptr, Disconnect(p)
      PROVE  TypeOK'
  <2>1. p \in Registered
    BY <1>19 DEF Disconnect, Registered
  <2>2. clnt_cnt \in 1 .. MAX_CLNT
    BY <2>1, RegisteredBound DEF CountIsLive
  <2>3. clnt_list' \in [0 .. MAX_CLNT -> Ptr \cup {NULL}]
    <3> DEFINE i == FirstHit(p)
    <3>1. clnt_list' = clnt_list \/ clnt_list' = ShiftAfter(i)
      BY <1>19 DEF Disconnect
    <3> HIDE DEF i
    <3>2. ShiftAfter(i) \in [0 .. MAX_CLNT -> Ptr \cup {NULL}]
      <4>1. ASSUME NEW k \in 0 .. MAX_CLNT, k < clnt_cnt
            PROVE  k + 1 \in 0 .. MAX_CLNT
        BY <4>1, <2>2
      <4> QED
        BY <4>1 DEF ShiftAfter
    <3> QED
      BY <3>1, <3>2
  <2> QED
    BY <1>19, <2>2, <2>3 DEF Disconnect
<1>20. ASSUME NEW p \in Ptr, Close(p)
      PROVE  TypeOK'
  BY <1>20 DEF Close
<1>21. ASSUME NEW p \in Ptr, Free(p)
      PROVE  TypeOK'
  BY <1>21 DEF Free
<1>22. ASSUME NEW f \in MayClog, ClientReads(f)
      PROVE  TypeOK'
  BY <1>22 DEF ClientReads
<1>23. CASE UNCHANGED vars
  BY <1>23 DEF vars
<1> HIDE DEF BaseInv, TypeOK, Stage, Goto, Forget, listVars, recVars, sendVars, fileVars
<1> QED
  BY <1>1, <1>2, <1>3, <1>4, <1>5, <1>6, <1>7, <1>8, <1>9, <1>10, <1>11, <1>12, <1>13, <1>14, <1>15, <1>16, <1>17, <1>18, <1>19, <1>20, <1>21, <1>22, <1>23 DEF Next, Handler


\* What a handler has in hand, and who holds mutx.
HandInv == ReqInHand /\ MsgInHand /\ LockHeld

\* Every step keeps what the handlers have in hand and who holds mutx.
LEMMA HandStep == BaseInv /\ [Next]_vars => HandInv'
<1> SUFFICES ASSUME BaseInv, [Next]_vars PROVE HandInv'
  OBVIOUS
<1> USE ServerAssumption DEF BaseInv, TypeOK, Stage, Goto, Forget, Unlocked,
        HandInv, ReqInHand, MsgInHand, LockHeld, listVars, recVars, sendVars, fileVars
<1>1. CASE Restart
  BY <1>1 DEF Restart, EachPtr
<1>2. ASSUME NEW p \in Ptr, NEW f \in Fd \cup {BadFd}, NEW bytes \in {NoName, Junk},
             Accept(p, f, bytes)
      PROVE  HandInv'
  BY <1>2 DEF Accept
<1>3. ASSUME NEW p \in Ptr, Register(p)
      PROVE  HandInv'
  BY <1>3 DEF Register
<1>4. ASSUME NEW p \in Ptr, ReadAuthFails(p)
      PROVE  HandInv'
  BY <1>4 DEF ReadAuthFails, AfterAuth
<1>5. ASSUME NEW p \in Ptr, \E r \in Request : ReadAuth(p, r)
      PROVE  HandInv'
  BY <1>5 DEF ReadAuth
<1>6. ASSUME NEW p \in Ptr, DupScan(p)
      PROVE  HandInv'
  <2>1. CASE Goto(p, "disconnect") /\ Forget(p) /\ UNCHANGED <<mutx, msg, sent>>
    BY <1>6, <2>1 DEF DupScan
  <2>2. CASE Goto(p, "login") /\ UNCHANGED <<mutx, req, msg, sent>>
    BY <1>6, <2>2 DEF DupScan
  <2> QED
    BY <1>6, <2>1, <2>2 DEF DupScan, sendVars
<1>7. ASSUME NEW p \in Ptr, Login(p)
      PROVE  HandInv'
  <2>1. CASE Goto(p, "disconnect") /\ Forget(p) /\ UNCHANGED <<mutx, msg, sent>>
    BY <1>7, <2>1 DEF Login
  <2>2. CASE Goto(p, "login_ok") /\ UNCHANGED <<mutx, req, msg, sent>>
    BY <1>7, <2>2 DEF Login
  <2> QED
    BY <1>7, <2>1, <2>2 DEF Login, sendVars
<1>8. ASSUME NEW p \in Ptr, ReplyLoggedIn(p)
      PROVE  HandInv'
  BY <1>8 DEF ReplyLoggedIn
<1>9. ASSUME NEW p \in Ptr, RegisterUser(p)
      PROVE  HandInv'
  <2>1. CASE Goto(p, "disconnect") /\ Forget(p) /\ UNCHANGED <<mutx, msg, sent>>
    BY <1>9, <2>1 DEF RegisterUser
  <2>2. CASE Goto(p, "flush") /\ mutx' = p /\ UNCHANGED <<req, msg, sent>>
    BY <1>9, <2>2 DEF RegisterUser
  <2> QED
    BY <1>9, <2>1, <2>2 DEF RegisterUser, sendVars
<1>10. ASSUME NEW p \in Ptr, Flush(p)
      PROVE  HandInv'
  BY <1>10 DEF Flush
<1>11. ASSUME NEW p \in Ptr, ReplyRegistered(p)
      PROVE  HandInv'
  BY <1>11 DEF ReplyRegistered, AfterAuth
<1>12. ASSUME NEW p \in Ptr, \E r \in Room : Join(p, r)
      PROVE  HandInv'
  BY <1>12 DEF Join
<1>13. ASSUME NEW p \in Ptr, ReadLine(p)
      PROVE  HandInv'
  BY <1>13 DEF ReadLine
<1>14. ASSUME NEW p \in Ptr, ReadError(p)
      PROVE  HandInv'
  <2>1. CASE UNCHANGED <<sent, msg, pc>>
    BY <1>14, <2>1 DEF ReadError
  <2>2. CASE sent' = sent + 1 /\ msg' = [msg EXCEPT ![p] = sent + 1] /\ Goto(p, "send")
    BY <1>14, <2>2 DEF ReadError
  <2> QED
    BY <1>14, <2>1, <2>2 DEF ReadError
<1>15. ASSUME NEW p \in Ptr, ReadEof(p)
      PROVE  HandInv'
  BY <1>15 DEF ReadEof
<1>16. ASSUME NEW p \in Ptr, SendLock(p)
      PROVE  HandInv'
  BY <1>16 DEF SendLock
<1>17. ASSUME NEW p \in Ptr, SendWrite(p)
      PROVE  HandInv'
  BY <1>17 DEF SendWrite
<1>18. ASSUME NEW p \in Ptr, SendUnlock(p)
      PROVE  HandInv'
  BY <1>18 DEF SendUnlock
<1>19. ASSUME NEW p \in Ptr, Disconnect(p)
      PROVE  HandInv'
  BY <1>19 DEF Disconnect
<1>20. ASSUME NEW p \in Ptr, Close(p)
      PROVE  HandInv'
  BY <1>20 DEF Close
<1>21. ASSUME NEW p \in Ptr, Free(p)
      PROVE  HandInv'
  BY <1>21 DEF Free
<1>22. ASSUME NEW f \in MayClog, ClientReads(f)
      PROVE  HandInv'
  BY <1>22 DEF ClientReads
<1>23. CASE UNCHANGED vars
  BY <1>23 DEF vars
<1> HIDE DEF BaseInv, TypeOK, HandInv, Goto, listVars, recVars, sendVars, fileVars
<1> QED
  BY <1>1, <1>2, <1>3, <1>4, <1>5, <1>6, <1>7, <1>8, <1>9, <1>10, <1>11, <1>12, <1>13, <1>14, <1>15, <1>16, <1>17, <1>18, <1>19, <1>20, <1>21, <1>22, <1>23 DEF Next, Handler

\* Only Register, Disconnect and a restart touch the list or change who is on
\* it; the other steps leave both alone.
ListQuiet == UNCHANGED listVars /\ Registered' = Registered

\* Which steps can change the list or who belongs on it.
LEMMA QuietStep ==
  ASSUME BaseInv, [Next]_vars
  PROVE  \/ Restart
         \/ \E p \in Ptr : Register(p) \/ Disconnect(p)
         \/ ListQuiet
<1> USE DEF BaseInv, TypeOK, Stage, Goto, ListQuiet, Registered, listVars
<1>1. ASSUME NEW p \in Ptr, NEW f \in Fd \cup {BadFd}, NEW bytes \in {NoName, Junk},
             Accept(p, f, bytes)
      PROVE  ListQuiet
  BY <1>1 DEF Accept
<1>2. ASSUME NEW p \in Ptr, ReadAuthFails(p)
      PROVE  ListQuiet
  BY <1>2 DEF ReadAuthFails, AfterAuth
<1>3. ASSUME NEW p \in Ptr, \E r \in Request : ReadAuth(p, r)
      PROVE  ListQuiet
  BY <1>3 DEF ReadAuth
<1>4. ASSUME NEW p \in Ptr, DupScan(p)
      PROVE  ListQuiet
  BY <1>4 DEF DupScan
<1>5. ASSUME NEW p \in Ptr, Login(p)
      PROVE  ListQuiet
  BY <1>5 DEF Login
<1>6. ASSUME NEW p \in Ptr, ReplyLoggedIn(p)
      PROVE  ListQuiet
  BY <1>6 DEF ReplyLoggedIn
<1>7. ASSUME NEW p \in Ptr, RegisterUser(p)
      PROVE  ListQuiet
  BY <1>7 DEF RegisterUser
<1>8. ASSUME NEW p \in Ptr, Flush(p)
      PROVE  ListQuiet
  BY <1>8 DEF Flush
<1>9. ASSUME NEW p \in Ptr, ReplyRegistered(p)
      PROVE  ListQuiet
  BY <1>9 DEF ReplyRegistered, AfterAuth
<1>10. ASSUME NEW p \in Ptr, \E r \in Room : Join(p, r)
      PROVE  ListQuiet
  BY <1>10 DEF Join
<1>11. ASSUME NEW p \in Ptr, ReadLine(p)
      PROVE  ListQuiet
  BY <1>11 DEF ReadLine
<1>12. ASSUME NEW p \in Ptr, ReadError(p)
      PROVE  ListQuiet
  BY <1>12 DEF ReadError
<1>13. ASSUME NEW p \in Ptr, ReadEof(p)
      PROVE  ListQuiet
  BY <1>13 DEF ReadEof
<1>14. ASSUME NEW p \in Ptr, SendLock(p)
      PROVE  ListQuiet
  BY <1>14 DEF SendLock
<1>15. ASSUME NEW p \in Ptr, SendWrite(p)
      PROVE  ListQuiet
  BY <1>15 DEF SendWrite
<1>16. ASSUME NEW p \in Ptr, SendUnlock(p)
      PROVE  ListQuiet
  BY <1>16 DEF SendUnlock
<1>17. ASSUME NEW p \in Ptr, Close(p)
      PROVE  ListQuiet
  BY <1>17 DEF Close
<1>18. ASSUME NEW p \in Ptr, Free(p)
      PROVE  ListQuiet
  BY <1>18 DEF Free
<1>19. ASSUME NEW f \in MayClog, ClientReads(f)
      PROVE  ListQuiet
  BY <1>19 DEF ClientReads
<1>20. CASE UNCHANGED vars
  BY <1>20 DEF vars
<1> HIDE DEF BaseInv, TypeOK, Goto, ListQuiet, Registered, listVars
<1> QED
  BY <1>1, <1>2, <1>3, <1>4, <1>5, <1>6, <1>7, <1>8, <1>9, <1>10, <1>11, <1>12, <1>13, <1>14, <1>15, <1>16, <1>17, <1>18, <1>19, <1>20 DEF Next, Handler


\* Register and Disconnect change clnt_cnt and the set of connected records
\* together, by one.
LEMMA CountStep == BaseInv /\ [Next]_vars => CountIsLive'
<1> SUFFICES ASSUME BaseInv, [Next]_vars PROVE CountIsLive'
  OBVIOUS
<1>1. CASE Restart
  <2>1. Registered' = {}
    BY <1>1 DEF Restart, EachPtr, Registered
  <2> QED
    BY <1>1, <2>1, FS_EmptySet DEF Restart, CountIsLive
<1>2. ASSUME NEW p \in Ptr, Register(p)
      PROVE  CountIsLive'
  <2>1. p \notin Registered /\ Registered' = Registered \cup {p}
    BY <1>2 DEF Register, Registered, Goto, BaseInv, TypeOK
  <2>2. Cardinality(Registered') = Cardinality(Registered) + 1
    BY <2>1, RegisteredBound, FS_AddElement
  <2> QED
    BY <1>2, <2>2 DEF Register, CountIsLive, BaseInv
<1>3. ASSUME NEW p \in Ptr, Disconnect(p)
      PROVE  CountIsLive'
  <2>1. p \in Registered /\ Registered' = Registered \ {p}
    BY <1>3 DEF Disconnect, Registered, Goto, BaseInv, TypeOK
  <2>2. Cardinality(Registered') = Cardinality(Registered) - 1
    BY <2>1, RegisteredBound, FS_RemoveElement
  <2> QED
    BY <1>3, <2>2 DEF Disconnect, CountIsLive, BaseInv
<1>4. CASE ListQuiet
  BY <1>4 DEF ListQuiet, listVars, CountIsLive, BaseInv
<1> QED
  BY <1>1, <1>2, <1>3, <1>4, QuietStep

\* What DISCONNECT leaves in an index below the new count was below the old
\* count before.
LEMMA DisconnectEntries ==
  ASSUME BaseInv, NEW p \in Ptr, Disconnect(p)
  PROVE  /\ clnt_cnt' = clnt_cnt - 1 /\ clnt_cnt \in 1 .. MAX_CLNT
         /\ \A i \in 0 .. clnt_cnt' - 1 :
              \E j \in 0 .. clnt_cnt - 1 : clnt_list'[i] = clnt_list[j]
<1>1. p \in Registered
  BY DEF Disconnect, Registered
<1>2. clnt_cnt' = clnt_cnt - 1 /\ clnt_cnt \in 1 .. MAX_CLNT
  BY <1>1, RegisteredBound DEF BaseInv, TypeOK, CountIsLive, Disconnect
<1>3. ASSUME NEW i \in 0 .. clnt_cnt' - 1
      PROVE  \E j \in 0 .. clnt_cnt - 1 : clnt_list'[i] = clnt_list[j]
  <2>1. clnt_list' = clnt_list \/ clnt_list' = ShiftAfter(FirstHit(p))
    BY DEF Disconnect
  <2>2. clnt_list'[i] = clnt_list[i] \/ clnt_list'[i] = clnt_list[i + 1]
    BY <1>2, <2>1, ServerAssumption DEF ShiftAfter
  <2>3. i \in 0 .. clnt_cnt - 1 /\ i + 1 \in 0 .. clnt_cnt - 1
    BY <1>2
  <2> QED
    BY <2>2, <2>3
<1> QED
  BY <1>2, <1>3

\* Neither the append, nor the shift, nor the decrement puts an entry that was
\* never written below clnt_cnt.
LEMMA NoNullStep == BaseInv /\ [Next]_vars => NoNullEntry'
<1> SUFFICES ASSUME BaseInv, [Next]_vars PROVE NoNullEntry'
  OBVIOUS
<1>1. CASE Restart
  BY <1>1 DEF Restart, NoNullEntry
<1>2. ASSUME NEW p \in Ptr, Register(p)
      PROVE  NoNullEntry'
  BY <1>2 DEF Register, NoNullEntry, BaseInv, TypeOK
<1>3. ASSUME NEW p \in Ptr, Disconnect(p)
      PROVE  NoNullEntry'
  BY <1>3, DisconnectEntries DEF NoNullEntry, BaseInv
<1>4. CASE ListQuiet
  BY <1>4 DEF ListQuiet, listVars, NoNullEntry, BaseInv
<1> QED
  BY <1>1, <1>2, <1>3, <1>4, QuietStep

\* The base invariant is inductive.
LEMMA BaseStep == BaseInv /\ [Next]_vars => BaseInv'
  BY TypeStep, HandStep, CountStep, NoNullStep DEF BaseInv, HandInv

\* The base invariant holds in every state of the server, across restarts.
THEOREM BaseInvariant == Spec => []BaseInv
  BY InitBase, BaseStep, PTL DEF Spec

\* Types.  That clnt_cnt stays within the array is ServerAssumption on Ptr.
LEMMA TypeCorrect == Spec => []TypeOK
  BY BaseInvariant, PTL DEF BaseInv

\* clnt_cnt is the number of records between main's append and DISCONNECT.
THEOREM CountCorrect == Spec => []CountIsLive
  BY BaseInvariant, PTL DEF BaseInv

\* No scan of the list dereferences an entry that was never written.
THEOREM EntriesWritten == Spec => []NoNullEntry
  BY BaseInvariant, PTL DEF BaseInv

-----------------------------------------------------------------------------
(* users.txt: the search and the append are under one mutex.               *)

\* The id a handler is about to append is not in the file, and the id of a
\* registrant about to be told OK is, if the file system did not take it.
AppendIsNew  == \A p \in Ptr : pc[p] = "flush" => ~Found(req[p].id)
OkIsInFile   == \A p \in Ptr : pc[p] = "reg_ok" => Found(req[p].id) \/ req[p].id \in lost
RegistryInv  == UniqueIds /\ AckedSurvives /\ AppendIsNew /\ OkIsInFile

\* The file changes only where process_auth opens or closes it, and a handler
\* enters the two stages only through RegisterUser and Flush.
RegistryQuiet ==
  /\ UNCHANGED fileVars
  /\ \A p \in Ptr : pc'[p] \in {"flush", "reg_ok"}
                      => pc'[p] = pc[p] /\ req'[p] = req[p]

\* Which steps matter to users.txt.
LEMMA RegistryQuietStep ==
  ASSUME BaseInv, [Next]_vars
  PROVE  \/ \E p \in Ptr : Login(p) \/ RegisterUser(p) \/ Flush(p) \/ ReplyRegistered(p)
         \/ RegistryQuiet
<1> USE DEF BaseInv, TypeOK, Stage, Goto, Forget, RegistryQuiet, fileVars
<1>1. CASE Restart
  BY <1>1 DEF Restart, EachPtr
<1>2. ASSUME NEW p \in Ptr, NEW f \in Fd \cup {BadFd}, NEW bytes \in {NoName, Junk},
             Accept(p, f, bytes)
      PROVE  RegistryQuiet
  BY <1>2 DEF Accept
<1>3. ASSUME NEW p \in Ptr, Register(p)
      PROVE  RegistryQuiet
  BY <1>3 DEF Register
<1>4. ASSUME NEW p \in Ptr, ReadAuthFails(p)
      PROVE  RegistryQuiet
  BY <1>4 DEF ReadAuthFails, AfterAuth
<1>5. ASSUME NEW p \in Ptr, \E r \in Request : ReadAuth(p, r)
      PROVE  RegistryQuiet
  BY <1>5 DEF ReadAuth
<1>6. ASSUME NEW p \in Ptr, DupScan(p)
      PROVE  RegistryQuiet
  BY <1>6 DEF DupScan
<1>7. ASSUME NEW f \in MayClog, ClientReads(f)
      PROVE  RegistryQuiet
  BY <1>7 DEF ClientReads
<1>8. ASSUME NEW p \in Ptr, ReplyLoggedIn(p)
      PROVE  RegistryQuiet
  BY <1>8 DEF ReplyLoggedIn
<1>9. ASSUME NEW p \in Ptr, \E r \in Room : Join(p, r)
      PROVE  RegistryQuiet
  BY <1>9 DEF Join
<1>10. ASSUME NEW p \in Ptr, ReadLine(p)
      PROVE  RegistryQuiet
  BY <1>10 DEF ReadLine
<1>11. ASSUME NEW p \in Ptr, ReadError(p)
      PROVE  RegistryQuiet
  BY <1>11 DEF ReadError
<1>12. ASSUME NEW p \in Ptr, ReadEof(p)
      PROVE  RegistryQuiet
  BY <1>12 DEF ReadEof
<1>13. ASSUME NEW p \in Ptr, SendLock(p)
      PROVE  RegistryQuiet
  BY <1>13 DEF SendLock
<1>14. ASSUME NEW p \in Ptr, SendWrite(p)
      PROVE  RegistryQuiet
  BY <1>14 DEF SendWrite
<1>15. ASSUME NEW p \in Ptr, SendUnlock(p)
      PROVE  RegistryQuiet
  BY <1>15 DEF SendUnlock
<1>16. ASSUME NEW p \in Ptr, Disconnect(p)
      PROVE  RegistryQuiet
  BY <1>16 DEF Disconnect
<1>17. ASSUME NEW p \in Ptr, Close(p)
      PROVE  RegistryQuiet
  BY <1>17 DEF Close
<1>18. ASSUME NEW p \in Ptr, Free(p)
      PROVE  RegistryQuiet
  BY <1>18 DEF Free
<1>19. CASE UNCHANGED vars
  BY <1>19 DEF vars
<1> HIDE DEF BaseInv, TypeOK, Stage, Goto, Forget, RegistryQuiet, fileVars
<1> QED
  BY <1>1, <1>2, <1>3, <1>4, <1>5, <1>6, <1>7, <1>8, <1>9, <1>10, <1>11, <1>12, <1>13, <1>14, <1>15, <1>16, <1>17, <1>18, <1>19 DEF Next, Handler

\* An fopen keeps the file or empties it: it brings no id twice and no new id,
\* and an id it takes is one of lost.
LEMMA FopenKeeps ==
  ASSUME BaseInv, UniqueIds, NEW file, file \in {users, <<>>}, Fopen(file)
  PROVE  /\ UniqueIds'
         /\ Ids(users)' = Ids(file) /\ Ids(file) \subseteq Ids(users)
         /\ \A id : Found(id) \/ id \in lost => (Found(id) \/ id \in lost)'
<1>1. users' = file /\ lost' = lost \cup (Ids(users) \ Ids(file))
  BY DEF Fopen
<1>2. Ids(users)' = Ids(file)
  BY <1>1 DEF Ids
<1>3. UniqueIds'
  BY <1>1 DEF UniqueIds, DistinctIds
<1>4. Ids(file) \subseteq Ids(users)
  <2>1. CASE file = users
    BY <2>1
  <2>2. CASE file = <<>>
    BY <2>2 DEF Ids
  <2> QED
    BY <2>1, <2>2
<1> QED
  BY <1>1, <1>2, <1>3, <1>4 DEF Found

\* The search finds no such id, and mutx stays with the registrant until the
\* line is in the file: no other registration comes in between.
LEMMA RegistryStep ==
  ASSUME BaseInv, BaseInv', RegistryInv, [Next]_vars
  PROVE  RegistryInv'
<1> USE DEF RegistryInv
<1>1. ASSUME NEW p \in Ptr, Login(p) \/ RegisterUser(p)
      PROVE  RegistryInv'
  <2>1. PICK file \in {users, <<>>} :
          /\ Fopen(file) /\ UNCHANGED acked
          /\ \/ Login(p) /\ \/ Goto(p, "login_ok") /\ UNCHANGED req
                            \/ Goto(p, "disconnect") /\ Forget(p)
             \/ RegisterUser(p) /\ \/ Goto(p, "disconnect") /\ Forget(p)
                                   \/ req[p].id \notin Ids(file) /\ Goto(p, "flush") /\ UNCHANGED req
    BY <1>1 DEF Login, RegisterUser
  <2>2. /\ UniqueIds'
        /\ Ids(users)' = Ids(file) /\ Ids(file) \subseteq Ids(users)
        /\ \A id : Found(id) \/ id \in lost => (Found(id) \/ id \in lost)'
    BY <2>1, FopenKeeps
  <2>3. AckedSurvives'
    BY <2>1, <2>2 DEF AckedSurvives
  <2>4. ASSUME NEW q \in Ptr, pc'[q] = "flush"
        PROVE  req'[q] = req[q] /\ req[q].id \notin Ids(file)
    BY <2>1, <2>2, <2>4 DEF Goto, Forget, AppendIsNew, Found, BaseInv, TypeOK
  <2>5. ASSUME NEW q \in Ptr, pc'[q] = "reg_ok"
        PROVE  req'[q] = req[q] /\ pc[q] = "reg_ok"
    BY <2>1, <2>5 DEF Goto, Forget, BaseInv, TypeOK
  <2>6. AppendIsNew'
    BY <2>2, <2>4 DEF AppendIsNew, Found
  <2>7. OkIsInFile'
    <3> SUFFICES ASSUME NEW q \in Ptr, pc'[q] = "reg_ok"
                 PROVE  (Found(req[q].id) \/ req[q].id \in lost)'
      BY DEF OkIsInFile
    <3>1. Found(req[q].id) \/ req[q].id \in lost
      BY <2>5 DEF OkIsInFile
    <3> DEFINE id == req[q].id
    <3>2. (Found(req[q].id) \/ req[q].id \in lost) => req'[q].id \in Ids(users)' \cup lost'
      BY <2>2, <2>5 DEF Found
    <3> QED
      BY <3>1, <3>2 DEF Found
  <2> QED
    BY <2>2, <2>3, <2>6, <2>7
<1>2. ASSUME NEW p \in Ptr, Flush(p),
             users' = Append(users, [id |-> req[p].id, pw |-> req[p].pw]),
             lost' = lost \ {req[p].id}
      PROVE  RegistryInv'
  <2> DEFINE line == [id |-> req[p].id, pw |-> req[p].pw]
  <2>1. users \in Seq(Line) /\ line \in Line
    BY <1>2 DEF Flush, BaseInv, TypeOK, ReqInHand, Request, Line
  <2>2. users' = Append(users, line)
    BY <1>2
  <2>3. /\ Len(users) \in Nat /\ Len(users') = Len(users) + 1
        /\ DOMAIN users = 1 .. Len(users)
        /\ DOMAIN users' = 1 .. Len(users')
        /\ \A i \in 1 .. Len(users) : users'[i] = users[i]
        /\ users'[Len(users')] = line
    BY <2>1, <2>2
  <2>4. \A i \in DOMAIN users : users[i].id # line.id
    BY <1>2 DEF Flush, AppendIsNew, Found, Ids
  <2>5. UniqueIds'
    <3> SUFFICES ASSUME NEW i \in DOMAIN users', NEW j \in DOMAIN users',
                        users'[i].id = users'[j].id
                 PROVE  i = j
      BY DEF UniqueIds, DistinctIds
    <3> QED
      BY <2>3, <2>4 DEF UniqueIds, DistinctIds
  <2>6. Ids(users)' = Ids(users) \cup {req[p].id}
    <3>1. Ids(users) \subseteq Ids(users)'
      BY <2>3 DEF Ids
    <3>2. req[p].id \in Ids(users)'
      <4>1. Len(users') \in DOMAIN users' /\ users'[Len(users')].id = req[p].id
        BY <2>3
      <4> QED
        BY <4>1 DEF Ids
    <3>3. Ids(users)' \subseteq Ids(users) \cup {req[p].id}
      <4> SUFFICES ASSUME NEW i \in DOMAIN users'
                   PROVE  users'[i].id \in Ids(users) \cup {req[p].id}
        BY DEF Ids
      <4>1. CASE i \in 1 .. Len(users)
        BY <2>3, <4>1 DEF Ids
      <4>2. CASE i = Len(users')
        BY <2>3, <4>2
      <4> QED
        BY <2>3, <4>1, <4>2
    <3> QED
      BY <3>1, <3>2, <3>3
  <2>7. \A id : Found(id) \/ id \in lost => id \in Ids(users)' \cup lost'
    BY <1>2, <2>6 DEF Found
  <2>8. AckedSurvives'
    BY <1>2, <2>7 DEF AckedSurvives, Flush, Found
  <2>9. AppendIsNew'
    BY <1>2 DEF Flush, AppendIsNew, BaseInv, LockHeld, TypeOK, Goto
  <2>10. OkIsInFile'
    <3> SUFFICES ASSUME NEW q \in Ptr, pc'[q] = "reg_ok"
                 PROVE  req[q].id \in Ids(users)' \cup lost'
      BY <1>2 DEF OkIsInFile, Flush, Found
    <3>1. CASE q = p
      BY <2>6, <3>1
    <3>2. CASE q # p
      <4>1. Found(req[q].id) \/ req[q].id \in lost
        BY <1>2, <3>2 DEF OkIsInFile, Flush, Goto, BaseInv, TypeOK
      <4> QED
        BY <2>7, <4>1
    <3> QED
      BY <3>1, <3>2
  <2> QED
    BY <2>5, <2>8, <2>9, <2>10
<1>3. ASSUME NEW p \in Ptr, Flush(p), UNCHANGED users, lost' = lost \cup {req[p].id}
      PROVE  RegistryInv'
  <2>1. UniqueIds'
    BY <1>3 DEF UniqueIds, DistinctIds
  <2>2. AckedSurvives'
    BY <1>3 DEF AckedSurvives, Flush, Found, Ids
  <2>3. AppendIsNew'
    BY <1>3 DEF Flush, AppendIsNew, BaseInv, LockHeld, TypeOK, Goto
  <2>4. OkIsInFile'
    BY <1>3 DEF OkIsInFile, Flush, Found, Ids, Goto, BaseInv, TypeOK
  <2> QED
    BY <2>1, <2>2, <2>3, <2>4
<1>4. ASSUME NEW p \in Ptr, ReplyRegistered(p)
      PROVE  RegistryInv'
  <2>1. /\ UNCHANGED <<users, lost>> /\ acked' = acked \cup {req[p].id}
        /\ Found(req[p].id) \/ req[p].id \in lost
    BY <1>4 DEF ReplyRegistered, OkIsInFile
  <2>2. \A q \in Ptr : pc'[q] \in {"flush", "reg_ok"}
                        => pc'[q] = pc[q] /\ req'[q] = req[q]
    BY <1>4 DEF ReplyRegistered, Goto, Forget, AfterAuth, BaseInv, TypeOK
  <2>3. UniqueIds' /\ AckedSurvives'
    BY <2>1 DEF UniqueIds, DistinctIds, AckedSurvives, Found, Ids
  <2>4. AppendIsNew' /\ OkIsInFile'
    BY <2>1, <2>2 DEF AppendIsNew, OkIsInFile, Found, Ids
  <2> QED
    BY <2>3, <2>4
<1>5. CASE RegistryQuiet
  BY <1>5 DEF RegistryQuiet, fileVars,
     UniqueIds, AckedSurvives, AppendIsNew, OkIsInFile, Found, Ids, DistinctIds
<1>6. ASSUME NEW p \in Ptr, Flush(p)
      PROVE  RegistryInv'
  BY <1>2, <1>3, <1>6 DEF Flush
<1> QED
  BY <1>1, <1>4, <1>5, <1>6, RegistryQuietStep

\* The registry invariant holds in every state, across restarts.
THEOREM RegistryInvariant == Spec => []RegistryInv
<1>1. Init => RegistryInv
  BY ServerAssumption DEF Init, EachPtr, RegistryInv, UniqueIds, AckedSurvives,
     AppendIsNew, OkIsInFile
<1>2. BaseInv /\ BaseInv' /\ RegistryInv /\ [Next]_vars => RegistryInv'
  BY RegistryStep
<1> QED
  BY <1>1, <1>2, BaseInvariant, PTL DEF Spec

\* No id is registered twice, whatever the interleaving of registrations and
\* whichever call on users.txt fails.
THEOREM IdsAreUnique == Spec => []UniqueIds
  BY RegistryInvariant, PTL DEF RegistryInv

\* A registration answered with OK survives every restart and every other
\* registration; only a failed call on users.txt takes it.
THEOREM AckedIsDurable == Spec => []AckedSurvives
  BY RegistryInvariant, PTL DEF RegistryInv

-----------------------------------------------------------------------------
(* The list while clients leave from its end.                              *)

\* While only the last entry is ever removed, the shift moves nothing and the
\* decrement drops exactly the entry of the leaving client.
LEMMA ExactStep ==
  ASSUME BaseInv, BaseInv', ListExactWhileLifo, [Next]_vars
  PROVE  ListExactWhileLifo'
<1>1. CASE Restart
  BY <1>1 DEF Restart, EachPtr, ListExactWhileLifo, Entries, Registered
<1>2. ASSUME NEW p \in Ptr, Register(p), lifo
      PROVE  ListExactWhileLifo'
  <2>1. p \notin Registered /\ Registered' = Registered \cup {p}
    BY <1>2 DEF Register, Registered, Goto, BaseInv, TypeOK
  <2>2. clnt_cnt' = clnt_cnt + 1 /\ clnt_cnt \in 0 .. MAX_CLNT
    BY <1>2 DEF Register, BaseInv, TypeOK
  <2>3. \A i \in 0 .. clnt_cnt' - 1 :
          clnt_list'[i] = IF i = clnt_cnt THEN p ELSE clnt_list[i]
    BY <1>2, <2>2, ServerAssumption DEF Register, BaseInv, TypeOK
  <2>4. Entries' = Entries \cup {p}
    BY <2>2, <2>3 DEF Entries
  <2>5. \A i, j \in 0 .. clnt_cnt' - 1 : clnt_list'[i] = clnt_list'[j] => i = j
    BY <1>2, <2>1, <2>2, <2>3 DEF ListExactWhileLifo, Entries
  <2> QED
    BY <1>2, <2>1, <2>4, <2>5 DEF ListExactWhileLifo
<1>3. ASSUME NEW p \in Ptr, Disconnect(p), Hits(p) = {clnt_cnt - 1}, lifo
      PROVE  ListExactWhileLifo'
  <2>1. p \in Registered /\ Registered' = Registered \ {p}
    BY <1>3 DEF Disconnect, Registered, Goto, BaseInv, TypeOK
  <2>2. clnt_cnt' = clnt_cnt - 1 /\ clnt_cnt \in 1 .. MAX_CLNT
    BY <1>3, DisconnectEntries
  <2>3. clnt_list[clnt_cnt - 1] = p
    <3>1. PICK j \in 0 .. clnt_cnt - 1 : clnt_list[j] = p
      BY <1>3, <2>1 DEF ListExactWhileLifo, Entries
    <3>2. j \in Hits(p)
      BY <3>1 DEF Hits
    <3> QED
      BY <1>3, <3>1, <3>2
  <2>4. \A i \in 0 .. clnt_cnt - 2 : clnt_list'[i] = clnt_list[i]
    <3>1. FirstHit(p) = clnt_cnt - 1
      <4>1. \E i \in Hits(p) : \A j \in Hits(p) : i <= j
        BY <1>3, <2>2
      <4>2. FirstHit(p) \in Hits(p)
        BY <4>1 DEF FirstHit
      <4> QED
        BY <1>3, <4>2
    <3>2. clnt_list' = ShiftAfter(clnt_cnt - 1)
      BY <1>3, <3>1 DEF Disconnect
    <3> QED
      BY <2>2, <3>2, ServerAssumption DEF ShiftAfter
  <2>5. Entries' = Entries \ {p}
    <3>1. \A i \in 0 .. clnt_cnt - 2 : clnt_list[i] # p
      BY <1>3, <2>2, <2>3 DEF ListExactWhileLifo
    <3>2. Entries' = {clnt_list[i] : i \in 0 .. clnt_cnt - 2}
      BY <2>2, <2>4 DEF Entries
    <3>3. Entries = {clnt_list[i] : i \in 0 .. clnt_cnt - 2} \cup {p}
      BY <2>2, <2>3 DEF Entries
    <3> QED
      BY <3>1, <3>2, <3>3
  <2>6. \A i, j \in 0 .. clnt_cnt' - 1 : clnt_list'[i] = clnt_list'[j] => i = j
    BY <1>3, <2>2, <2>4 DEF ListExactWhileLifo
  <2> QED
    BY <1>3, <2>1, <2>5, <2>6 DEF ListExactWhileLifo
<1>4. CASE ListQuiet
  BY <1>4 DEF ListQuiet, listVars, ListExactWhileLifo, Entries
<1>5. ASSUME NEW p \in Ptr, Register(p), ~lifo
      PROVE  ListExactWhileLifo'
  BY <1>5 DEF Register, ListExactWhileLifo
<1>6. ASSUME NEW p \in Ptr, Disconnect(p), ~(lifo /\ Hits(p) = {clnt_cnt - 1})
      PROVE  ListExactWhileLifo'
  BY <1>6 DEF Disconnect, ListExactWhileLifo
<1> QED
  BY <1>1, <1>2, <1>3, <1>4, <1>5, <1>6, QuietStep

\* The list is exact until a client leaves from the middle of it.
THEOREM ListExact == Spec => []ListExactWhileLifo
<1>1. Init => ListExactWhileLifo
  BY DEF Init, EachPtr, ListExactWhileLifo, Entries, Registered
<1>2. BaseInv /\ BaseInv' /\ ListExactWhileLifo /\ [Next]_vars => ListExactWhileLifo'
  BY ExactStep
<1> QED
  BY <1>1, <1>2, BaseInvariant, PTL DEF Spec

-----------------------------------------------------------------------------
(* A broadcast reaches its room.                                           *)

\* Whoever is still owed the line is ahead of the cursor of the sender, which
\* holds mutx.
Ahead(q) ==
  /\ mutx \in Ptr /\ pc[mutx] = "sending"
  /\ Hears(q, mutx)
  /\ \E i \in cursor[mutx] .. clnt_cnt - 1 : clnt_list[i] = q

OwedAhead == lifo => \A q \in owed : Ahead(q)

\* What is owed is owed to connected clients, and only during a broadcast.
LEMMA OwedFacts ==
  ASSUME BaseInv, ListExactWhileLifo, OwedAhead, lifo
  PROVE  /\ owed \subseteq Registered
         /\ (\A p \in Ptr : pc[p] # "sending") => owed = {}
<1>1. owed \subseteq Entries
  BY ServerAssumption DEF OwedAhead, Ahead, Entries, BaseInv, TypeOK
<1> QED
  BY <1>1 DEF OwedAhead, Ahead, ListExactWhileLifo

\* A step that leaves the list, mutx and the sender alone, adds nobody to owed
\* and takes nobody who stays in it out of the room.
OwedQuiet ==
  /\ UNCHANGED <<clnt_cnt, clnt_list, lifo, mutx>>
  /\ owed' \subseteq owed
  /\ \A p \in Ptr : pc[p] = "sending" =>
       /\ pc'[p] = "sending" /\ cursor'[p] = cursor[p]
       /\ lifo => \A q \in owed' : Hears(q, p) => Hears(q, p)'

\* The cursor of send_msg never passes an entry that is still owed the line,
\* and the list does not move under it because mutx is held.
LEMMA OwedStep ==
  ASSUME BaseInv, BaseInv', ListExactWhileLifo, OwedAhead, [Next]_vars
  PROVE  OwedAhead'
<1> USE DEF BaseInv
<1>1. CASE Restart
  BY <1>1 DEF Restart, OwedAhead
<1>2. CASE ~lifo'
  BY <1>2 DEF OwedAhead
<1>3. CASE owed' = {}
  BY <1>3 DEF OwedAhead
<1>4. CASE OwedQuiet
  BY <1>4 DEF OwedQuiet, OwedAhead, Ahead
<1>5. ASSUME NEW p \in Ptr, Unlocked, UNCHANGED owed, lifo' => lifo
      PROVE  OwedAhead'
  <2>1. \A q \in Ptr : pc[q] # "sending"
    BY <1>5, ServerAssumption DEF Unlocked, LockHeld
  <2> QED
    BY <1>2, <1>3, <1>5, <2>1, OwedFacts
<1>6. ASSUME NEW p \in Ptr, NEW f \in Fd \cup {BadFd}, NEW bytes \in {NoName, Junk},
             Accept(p, f, bytes)
      PROVE  OwedAhead'
  <2>1. lifo => p \notin owed
    BY <1>6, OwedFacts DEF Accept, Registered
  <2>2. OwedQuiet
    BY <1>6, <2>1 DEF Accept, OwedQuiet, listVars, Goto, Hears, TypeOK
  <2> QED
    BY <1>4, <2>2
<1>7. ASSUME NEW p \in Ptr, Free(p)
      PROVE  OwedAhead'
  <2>1. lifo => p \notin owed
    BY <1>7, OwedFacts DEF Free, Registered
  <2>2. OwedQuiet
    BY <1>7, <2>1 DEF Free, OwedQuiet, listVars, Goto, Hears, TypeOK
  <2> QED
    BY <1>4, <2>2
<1>8. ASSUME NEW p \in Ptr, SendLock(p)
      PROVE  OwedAhead'
  <2> SUFFICES ASSUME lifo', NEW q \in owed' PROVE Ahead(q)'
    BY DEF OwedAhead
  <2>1. q \in Registered /\ Hears(q, p)
    BY <1>8 DEF SendLock
  <2>2. lifo /\ UNCHANGED <<clnt_cnt, clnt_list, name, room>>
    BY <1>8 DEF SendLock, listVars, recVars
  <2>3. PICK i \in 0 .. clnt_cnt - 1 : clnt_list[i] = q
    BY <2>1, <2>2 DEF ListExactWhileLifo, Entries
  <2>4. mutx' = p /\ pc'[p] = "sending" /\ cursor'[p] = 0
    BY <1>8 DEF SendLock, Goto, TypeOK
  <2> QED
    BY <2>1, <2>2, <2>3, <2>4 DEF Ahead, Hears
<1>9. ASSUME NEW p \in Ptr, SendWrite(p)
      PROVE  OwedAhead'
  <2> SUFFICES ASSUME lifo', NEW q \in owed' PROVE Ahead(q)'
    BY DEF OwedAhead
  <2>1. UNCHANGED <<clnt_cnt, clnt_list, lifo, name, room, mutx, pc>> /\ mutx = p
    BY <1>9 DEF SendWrite, listVars, recVars, LockHeld
  <2>2. q \in owed /\ (clnt_list[cursor[p]] = q => ~Hears(q, p))
    BY <1>9 DEF SendWrite
  <2>3. Ahead(q)
    BY <2>1, <2>2 DEF OwedAhead
  <2>4. PICK i \in cursor[p] .. clnt_cnt - 1 : clnt_list[i] = q
    BY <2>1, <2>3 DEF Ahead
  <2>5. Hears(q, p) /\ pc[p] = "sending"
    BY <2>1, <2>3 DEF Ahead
  <2>6. i # cursor[p] /\ cursor[p] \in Nat /\ clnt_cnt \in Nat
    BY <2>2, <2>4, <2>5, ServerAssumption DEF TypeOK
  <2>7. cursor'[p] = cursor[p] + 1
    BY <1>9 DEF SendWrite, TypeOK
  <2>8. i \in cursor'[p] .. clnt_cnt - 1
    BY <2>4, <2>6, <2>7
  <2> QED
    BY <2>1, <2>4, <2>5, <2>8 DEF Ahead, Hears
<1>10. ASSUME NEW p \in Ptr, SendUnlock(p)
      PROVE  OwedAhead'
  <2>1. lifo => owed = {}
    BY <1>10, ServerAssumption DEF SendUnlock, OwedAhead, Ahead, LockHeld, TypeOK
  <2> QED
    BY <1>2, <1>3, <1>10, <2>1 DEF SendUnlock, listVars
<1>11. ASSUME NEW p \in Ptr, Flush(p)
      PROVE  OwedAhead'
  <2>1. \A q \in Ptr : pc[q] # "sending"
    BY <1>11 DEF Flush, LockHeld
  <2> QED
    BY <1>2, <1>3, <1>11, <2>1, OwedFacts DEF Flush, listVars, sendVars
<1>12. ASSUME NEW p \in Ptr, Register(p) \/ RegisterUser(p) \/ Disconnect(p)
      PROVE  OwedAhead'
  <2>1. Unlocked /\ UNCHANGED owed /\ (lifo' => lifo)
    <3>1. CASE Register(p)
      BY <3>1 DEF Register, sendVars
    <3>2. CASE RegisterUser(p)
      BY <3>2 DEF RegisterUser, listVars, sendVars
    <3>3. CASE Disconnect(p)
      BY <3>3 DEF Disconnect, sendVars
    <3> QED
      BY <1>12, <3>1, <3>2, <3>3
  <2> QED
    BY <1>5, <2>1
<1>13. ASSUME NEW p \in Ptr, ReadAuthFails(p)
      PROVE  OwedQuiet
  BY <1>13, ServerAssumption DEF ReadAuthFails, OwedQuiet, listVars, recVars, sendVars, Goto, Hears, TypeOK
<1>14. ASSUME NEW p \in Ptr, \E r \in Request : ReadAuth(p, r)
      PROVE  OwedQuiet
  BY <1>14, ServerAssumption DEF ReadAuth, OwedQuiet, listVars, recVars, sendVars, Goto, Hears, TypeOK
<1>15. ASSUME NEW p \in Ptr, DupScan(p)
      PROVE  OwedQuiet
  BY <1>15, ServerAssumption DEF DupScan, OwedQuiet, listVars, recVars, sendVars, Goto, Hears, TypeOK
<1>16. ASSUME NEW p \in Ptr, Login(p)
      PROVE  OwedQuiet
  BY <1>16, ServerAssumption DEF Login, OwedQuiet, listVars, recVars, sendVars, Goto, Hears, TypeOK
<1>17. ASSUME NEW p \in Ptr, ReplyLoggedIn(p)
      PROVE  OwedQuiet
  BY <1>17, ServerAssumption DEF ReplyLoggedIn, OwedQuiet, listVars, recVars, sendVars, Goto, Hears, TypeOK, ReqInHand, Request
<1>18. ASSUME NEW p \in Ptr, ReplyRegistered(p)
      PROVE  OwedQuiet
  BY <1>18, ServerAssumption DEF ReplyRegistered, OwedQuiet, listVars, recVars, sendVars, Goto, Hears, TypeOK
<1>19. ASSUME NEW p \in Ptr, \E r \in Room : Join(p, r)
      PROVE  OwedQuiet
  BY <1>19, ServerAssumption DEF Join, OwedQuiet, listVars, recVars, sendVars, Goto, Hears, TypeOK
<1>20. ASSUME NEW p \in Ptr, ReadLine(p)
      PROVE  OwedQuiet
  BY <1>20, ServerAssumption DEF ReadLine, OwedQuiet, listVars, recVars, sendVars, Goto, Hears, TypeOK
<1>21. ASSUME NEW p \in Ptr, ReadError(p)
      PROVE  OwedQuiet
  BY <1>21, ServerAssumption DEF ReadError, OwedQuiet, listVars, recVars, sendVars, Goto, Hears, TypeOK
<1>22. ASSUME NEW p \in Ptr, ReadEof(p)
      PROVE  OwedQuiet
  BY <1>22, ServerAssumption DEF ReadEof, OwedQuiet, listVars, recVars, sendVars, Goto, Hears, TypeOK
<1>23. ASSUME NEW p \in Ptr, Close(p)
      PROVE  OwedQuiet
  BY <1>23, ServerAssumption DEF Close, OwedQuiet, listVars, recVars, sendVars, Goto, Hears, TypeOK
<1>24. ASSUME NEW f \in MayClog, ClientReads(f)
      PROVE  OwedQuiet
  BY <1>24 DEF ClientReads, OwedQuiet, listVars, recVars, Hears
<1>25. CASE UNCHANGED vars
  <2>1. UNCHANGED <<clnt_cnt, clnt_list, lifo, mutx, pc, cursor, name, room, owed>>
    BY <1>25 DEF vars
  <2>2. OwedQuiet
    BY <2>1 DEF OwedQuiet, Hears
  <2> QED
    BY <1>4, <2>2
<1> QED
  BY <1>1, <1>4, <1>6, <1>7, <1>8, <1>9, <1>10, <1>11, <1>12, <1>13, <1>14, <1>15, <1>16, <1>17, <1>18, <1>19, <1>20, <1>21, <1>22, <1>23, <1>24, <1>25 DEF Next, Handler

\* It holds in every state.
LEMMA OwedAlways == Spec => []OwedAhead
<1>1. Init => OwedAhead
  BY DEF Init, OwedAhead
<1>2. BaseInv /\ BaseInv' /\ ListExactWhileLifo /\ OwedAhead /\ [Next]_vars => OwedAhead'
  BY OwedStep
<1> QED
  BY <1>1, <1>2, BaseInvariant, ListExact, PTL DEF Spec

\* A broadcast leaves nobody of its room out, until a client has left from the
\* middle of the list.
THEOREM BroadcastReaches == Spec => []OwedPaid
<1>1. BaseInv /\ ListExactWhileLifo /\ OwedAhead => OwedPaid
  BY OwedFacts, ServerAssumption DEF OwedPaid, Unlocked, BaseInv, LockHeld
<1> QED
  BY <1>1, BaseInvariant, ListExact, OwedAlways, PTL

-----------------------------------------------------------------------------
(* All clients see one order of lines.                                     *)

\* No two handlers relay the same line.
MsgUnshared ==
  \A p, q \in Ptr : pc[p] \in {"send", "sending"} /\ pc[q] \in {"send", "sending"}
                       /\ msg[p] = msg[q] => p = q

\* What is on the wires was read, and not by a handler still before its loop.
WireWasSent ==
  \A f \in Fd : \A i \in DOMAIN wire[f] :
    /\ wire[f][i] \in 1 .. sent
    /\ \A p \in Ptr : pc[p] = "send" => wire[f][i] # msg[p]

\* On a wire nothing follows the line of the broadcast in progress.
SendingIsLast ==
  \A p \in Ptr : pc[p] = "sending" =>
    \A f \in Fd : \A i, j \in DOMAIN wire[f] :
      i < j /\ wire[f][i] = msg[p] => wire[f][j] = msg[p]

OrderInv == MsgUnshared /\ WireWasSent /\ SendingIsLast /\ AgreedOrder

OrderQuiet ==
  /\ UNCHANGED <<wire, sent>>
  /\ \A p \in Ptr : pc'[p] \in {"send", "sending"} => pc'[p] = pc[p] /\ msg'[p] = msg[p]

\* Which steps touch the wires or give a handler a line to relay.
LEMMA OrderQuietStep ==
  ASSUME BaseInv, [Next]_vars
  PROVE  \/ Restart
         \/ \E p \in Ptr :
              \/ \E f \in Fd \cup {BadFd}, bytes \in {NoName, Junk} : Accept(p, f, bytes)
              \/ ReadLine(p) \/ (ReadError(p) /\ Goto(p, "send"))
              \/ SendLock(p) \/ SendWrite(p)
         \/ OrderQuiet
<1> USE DEF BaseInv, TypeOK, Stage, Goto, OrderQuiet, sendVars
<1>1. ASSUME NEW p \in Ptr, Register(p)
      PROVE  OrderQuiet
  BY <1>1 DEF Register
<1>2. ASSUME NEW p \in Ptr, ReadAuthFails(p)
      PROVE  OrderQuiet
  BY <1>2 DEF ReadAuthFails, AfterAuth
<1>3. ASSUME NEW p \in Ptr, \E r \in Request : ReadAuth(p, r)
      PROVE  OrderQuiet
  BY <1>3 DEF ReadAuth
<1>4. ASSUME NEW p \in Ptr, DupScan(p)
      PROVE  OrderQuiet
  BY <1>4 DEF DupScan
<1>5. ASSUME NEW p \in Ptr, Login(p)
      PROVE  OrderQuiet
  BY <1>5 DEF Login
<1>6. ASSUME NEW p \in Ptr, ReplyLoggedIn(p)
      PROVE  OrderQuiet
  BY <1>6 DEF ReplyLoggedIn
<1>7. ASSUME NEW p \in Ptr, RegisterUser(p)
      PROVE  OrderQuiet
  BY <1>7 DEF RegisterUser
<1>8. ASSUME NEW p \in Ptr, Flush(p)
      PROVE  OrderQuiet
  BY <1>8 DEF Flush
<1>9. ASSUME NEW p \in Ptr, ReplyRegistered(p)
      PROVE  OrderQuiet
  BY <1>9 DEF ReplyRegistered, AfterAuth
<1>10. ASSUME NEW p \in Ptr, \E r \in Room : Join(p, r)
      PROVE  OrderQuiet
  BY <1>10 DEF Join
<1>11. ASSUME NEW p \in Ptr, ReadEof(p)
      PROVE  OrderQuiet
  BY <1>11 DEF ReadEof
<1>12. ASSUME NEW p \in Ptr, SendUnlock(p)
      PROVE  OrderQuiet
  BY <1>12 DEF SendUnlock
<1>13. ASSUME NEW p \in Ptr, Disconnect(p)
      PROVE  OrderQuiet
  BY <1>13 DEF Disconnect
<1>14. ASSUME NEW p \in Ptr, Close(p)
      PROVE  OrderQuiet
  BY <1>14 DEF Close
<1>15. ASSUME NEW p \in Ptr, Free(p)
      PROVE  OrderQuiet
  BY <1>15 DEF Free
<1>16. ASSUME NEW f \in MayClog, ClientReads(f)
      PROVE  OrderQuiet
  BY <1>16 DEF ClientReads
<1>17. ASSUME NEW p \in Ptr, ReadError(p)
      PROVE  OrderQuiet \/ (ReadError(p) /\ Goto(p, "send"))
  BY <1>17 DEF ReadError
<1>18. CASE UNCHANGED vars
  BY <1>18 DEF vars
<1> HIDE DEF BaseInv, TypeOK, Stage, Goto, OrderQuiet, sendVars
<1> QED
  BY <1>1, <1>2, <1>3, <1>4, <1>5, <1>6, <1>7, <1>8, <1>9, <1>10, <1>11, <1>12, <1>13, <1>14, <1>15, <1>16, <1>17, <1>18 DEF Next, Handler

\* A broadcast appends its line behind every line on each wire, and no second
\* broadcast runs meanwhile, whatever the entries of the list point to.
LEMMA OrderStep ==
  ASSUME BaseInv, BaseInv', OrderInv, [Next]_vars
  PROVE  OrderInv'
<1> USE DEF BaseInv, OrderInv
<1>1. CASE Restart
  BY <1>1 DEF Restart, EachPtr, MsgUnshared, WireWasSent, SendingIsLast, AgreedOrder, Carries
<1>2. ASSUME NEW p \in Ptr, NEW f \in Fd \cup {BadFd}, NEW bytes \in {NoName, Junk},
             Accept(p, f, bytes)
      PROVE  OrderInv'
  <2>1. \A g \in Fd : wire'[g] = wire[g] \/ wire'[g] = <<>>
    BY <1>2 DEF Accept, TypeOK
  <2>2. UNCHANGED <<msg, sent>> /\ \A q \in Ptr : q # p => pc'[q] = pc[q]
    BY <1>2 DEF Accept, Goto, TypeOK
  <2>3. pc'[p] = "fresh"
    BY <1>2 DEF Accept, Goto, TypeOK
  <2>4. MsgUnshared'
    BY <2>2, <2>3 DEF MsgUnshared
  <2>5. WireWasSent'
    BY <2>1, <2>2, <2>3 DEF WireWasSent
  <2>6. SendingIsLast'
    BY <2>1, <2>2, <2>3 DEF SendingIsLast
  <2>7. AgreedOrder'
    BY <2>1, <2>2 DEF AgreedOrder, Carries
  <2> QED
    BY <2>4, <2>5, <2>6, <2>7
<1>3. ASSUME NEW p \in Ptr, ReadLine(p) \/ (ReadError(p) /\ Goto(p, "send"))
      PROVE  OrderInv'
  <2>1. /\ UNCHANGED wire /\ sent' = sent + 1 /\ sent \in Nat
        /\ pc'[p] = "send" /\ msg'[p] = sent + 1
        /\ \A q \in Ptr : q # p => pc'[q] = pc[q] /\ msg'[q] = msg[q]
    <3>1. CASE ReadLine(p)
      BY <3>1, ServerAssumption DEF ReadLine, Goto, TypeOK
    <3>2. CASE ReadError(p) /\ Goto(p, "send")
      BY <3>2, ServerAssumption DEF ReadError, Goto, TypeOK
    <3> QED
      BY <1>3, <3>1, <3>2
  <2>2. \A q \in Ptr : q # p /\ pc'[q] \in {"send", "sending"} => msg'[q] \in 1 .. sent
    BY <2>1 DEF MsgInHand
  <2>3. MsgUnshared'
    BY <2>1, <2>2 DEF MsgUnshared
  <2>4. \A f \in Fd : \A i \in DOMAIN wire[f] : wire[f][i] \in 1 .. sent
    BY DEF WireWasSent
  <2>5. WireWasSent'
    BY <2>1, <2>4 DEF WireWasSent
  <2>6. SendingIsLast'
    BY <2>1 DEF SendingIsLast
  <2>7. AgreedOrder'
    <3> SUFFICES ASSUME NEW f \in Fd, NEW g \in Fd, NEW m, NEW n, m # n,
                        Carries(f, m, n), Carries(g, n, m)
                 PROVE  FALSE
      BY <2>1 DEF AgreedOrder, Carries
    <3>1. m \in 1 .. sent /\ n \in 1 .. sent
      BY <2>4 DEF Carries
    <3> QED
      BY <3>1 DEF AgreedOrder
  <2> QED
    BY <2>3, <2>5, <2>6, <2>7
<1>4. ASSUME NEW p \in Ptr, SendLock(p)
      PROVE  OrderInv'
  <2>1. /\ UNCHANGED <<wire, sent, msg>>
        /\ pc[p] = "send" /\ pc'[p] = "sending"
        /\ \A q \in Ptr : q # p => pc'[q] = pc[q]
    BY <1>4 DEF SendLock, Goto, TypeOK
  <2>2. MsgUnshared' /\ WireWasSent'
    BY <2>1 DEF MsgUnshared, WireWasSent
  <2>3. SendingIsLast'
    BY <2>1 DEF SendingIsLast, WireWasSent
  <2>4. AgreedOrder'
    BY <2>1 DEF AgreedOrder, Carries
  <2> QED
    BY <2>2, <2>3, <2>4
<1>5. ASSUME NEW p \in Ptr, SendWrite(p)
      PROVE  OrderInv'
  <2> DEFINE h == sock[clnt_list[cursor[p]]]
             m == msg[p]
  <2>1. UNCHANGED <<sent, msg, pc>> /\ pc[p] = "sending"
    BY <1>5 DEF SendWrite
  <2>2. m \in 1 .. sent /\ sent \in 0 .. MaxSent
    BY <2>1 DEF MsgInHand, TypeOK
  <2>3. wire' = wire \/ (h \in Fd /\ wire' = [wire EXCEPT ![h] = Append(@, m)])
    BY <1>5 DEF SendWrite
  <2>4. CASE wire' = wire
    BY <2>1, <2>4 DEF MsgUnshared, WireWasSent, SendingIsLast, AgreedOrder, Carries
  <2>5. CASE h \in Fd /\ wire' = [wire EXCEPT ![h] = Append(@, m)]
    <3> HIDE DEF h, m
    <3>1. wire[h] \in Seq(1 .. MaxSent) /\ m \in 1 .. MaxSent
      BY <2>2, <2>5 DEF TypeOK
    <3>2. /\ Len(wire[h]) \in Nat
          /\ DOMAIN wire[h] = 1 .. Len(wire[h])
          /\ DOMAIN wire'[h] = 1 .. Len(wire[h]) + 1
          /\ \A i \in 1 .. Len(wire[h]) : wire'[h][i] = wire[h][i]
          /\ wire'[h][Len(wire[h]) + 1] = m
      <4>1. wire'[h] = Append(wire[h], m)
        BY <2>5 DEF TypeOK
      <4> QED
        BY <3>1, <4>1
    <3>3. \A g \in Fd : g # h => wire'[g] = wire[g]
      BY <2>5 DEF TypeOK
    <3>4. MsgUnshared'
      BY <2>1 DEF MsgUnshared
    <3>5. WireWasSent'
      <4>1. \A q \in Ptr : pc[q] = "send" => m # msg[q]
        BY <2>1 DEF MsgUnshared, m
      <4> QED
        BY <2>1, <2>2, <2>5, <3>2, <3>3, <4>1 DEF WireWasSent
    <3>6. SendingIsLast'
      <4> SUFFICES ASSUME NEW q \in Ptr, pc[q] = "sending", NEW g \in Fd,
                          NEW i \in DOMAIN wire'[g], NEW j \in DOMAIN wire'[g],
                          i < j, wire'[g][i] = msg[q]
                   PROVE  wire'[g][j] = msg[q]
        BY <2>1 DEF SendingIsLast
      <4>1. q = p
        BY <2>1 DEF LockHeld
      <4>2. CASE g # h
        BY <2>1, <3>3, <4>1, <4>2 DEF SendingIsLast
      <4>3. CASE g = h /\ j = Len(wire[h]) + 1
        BY <3>2, <4>1, <4>3 DEF m
      <4>4. CASE g = h /\ j \in 1 .. Len(wire[h])
        <5>1. i \in DOMAIN wire[h] /\ j \in DOMAIN wire[h]
          BY <3>2, <4>4
        <5>2. wire[h][i] = msg[p]
          BY <3>2, <4>1, <4>4, <5>1
        <5>3. wire[h][j] = msg[p]
          BY <2>1, <2>5, <5>1, <5>2 DEF SendingIsLast
        <5> QED
          BY <3>2, <4>1, <4>4, <5>3
      <4> QED
        BY <3>2, <4>2, <4>3, <4>4
    <3>7. ASSUME NEW g \in Fd, NEW a, NEW b, a # b, Carries(g, a, b)'
          PROVE  Carries(g, a, b) \/ b = m
      <4>1. CASE g # h
        BY <3>3, <3>7, <4>1 DEF Carries
      <4>2. CASE g = h
        <5>1. PICK i \in DOMAIN wire'[h], j \in DOMAIN wire'[h] :
                i < j /\ wire'[h][i] = a /\ wire'[h][j] = b
          BY <3>7, <4>2 DEF Carries
        <5>2. i \in 1 .. Len(wire[h])
          BY <3>2, <5>1
        <5>3. CASE j = Len(wire[h]) + 1
          BY <3>2, <5>1, <5>3
        <5>4. CASE j \in 1 .. Len(wire[h])
          BY <3>2, <4>2, <5>1, <5>2, <5>4 DEF Carries
        <5> QED
          BY <3>2, <5>1, <5>3, <5>4
      <4> QED
        BY <4>1, <4>2
    <3>8. ASSUME NEW g \in Fd, NEW b, b # m
          PROVE  ~Carries(g, m, b)
      BY <2>1, <3>8 DEF SendingIsLast, Carries, m
    <3>9. AgreedOrder'
      BY <2>1, <3>7, <3>8 DEF AgreedOrder
    <3> QED
      BY <3>4, <3>5, <3>6, <3>9
  <2> QED
    BY <2>3, <2>4, <2>5
<1>6. CASE OrderQuiet
  BY <1>6 DEF OrderQuiet, MsgUnshared, WireWasSent, SendingIsLast, AgreedOrder, Carries
<1> QED
  BY <1>1, <1>2, <1>3, <1>4, <1>5, <1>6, OrderQuietStep

\* It holds in every state.
LEMMA OrderAlways == Spec => []OrderInv
<1>1. Init => OrderInv
  BY DEF Init, EachPtr, OrderInv, MsgUnshared, WireWasSent, SendingIsLast,
     AgreedOrder, Carries
<1>2. BaseInv /\ BaseInv' /\ OrderInv /\ [Next]_vars => OrderInv'
  BY OrderStep
<1> QED
  BY <1>1, <1>2, BaseInvariant, PTL DEF Spec

\* Any two clients see the lines they both get in the same order, even after
\* DISCONNECT has damaged the list.
THEOREM OneOrder == Spec => []AgreedOrder
  BY OrderAlways, PTL DEF OrderInv

=============================================================================
