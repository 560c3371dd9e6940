---------------------------- MODULE MsgQueueChat ----------------------------
(***************************************************************************)
(* lab2/messagequeue.c: two users chat over two POSIX message queues.  The *)
(* main process of a session sends what its user types, its child prints   *)
(* what arrives.  A queue outlives its name while somebody has it open; a  *)
(* user may come back in a new session.  Queue objects are named by the    *)
(* session that created them.                                              *)
(***************************************************************************)
EXTENDS Naturals, Sequences

CONSTANTS
  MaxMsg,     \* mq_maxmsg, 10 in the code
  Sessions    \* bound of the model: how often each user starts the program

User    == {1, 2}
Session == UNION {{u} \X (1 .. Sessions[u]) : u \in User}
NoQueue == <<0, 0>>

\* Each user starts the program so often.
SessionSizes == Sessions \in [User -> Nat]

VARIABLES
  name,     \* the queue each user's name stands for, NoQueue when unlinked
  box,      \* the messages in each queue: "line" or "empty"
  main,     \* each session: "none", "connect", "chat", "send", "cleanup", "gone"
  reader,   \* its child: "none", "receive", "gone"
  my, peer, \* the queues it opened
  sigint,   \* processes with a SIGINT pending
  overlap   \* ghost: sessions that began while the reader of the one before ran

files == <<name, box>>
vars  == <<files, main, reader, my, peer, sigint, overlap>>

Peer(s) == 3 - s[1]

Init ==
  /\ name = [u \in User |-> NoQueue] /\ box = [o \in Session |-> <<>>]
  /\ main = [s \in Session |-> "none"] /\ reader = [s \in Session |-> "none"]
  /\ my = [s \in Session |-> NoQueue] /\ peer = [s \in Session |-> NoQueue]
  /\ sigint = {} /\ overlap = {}

-----------------------------------------------------------------------------

\* mq_open with O_CREAT: the queue of that name, or a new one.  The prompt is
\* back when the main process of the session before has ended.
Start(s) ==
  /\ main[s] = "none"
  /\ s[2] > 1 => main[<<s[1], s[2] - 1>>] = "gone"
  /\ LET q == IF name[s[1]] = NoQueue THEN s ELSE name[s[1]] IN
       /\ name' = [name EXCEPT ![s[1]] = q]
       /\ my' = [my EXCEPT ![s] = q]
  /\ main' = [main EXCEPT ![s] = "connect"]
  /\ overlap' = overlap \cup {t \in {s} : \E k \in 1 .. s[2] - 1 : reader[<<s[1], k>>] = "receive"}
  /\ UNCHANGED <<box, reader, peer, sigint>>

\* The peer's name exists: the handler is installed and the child forked.
Connect(s) ==
  /\ main[s] = "connect" /\ name[Peer(s)] # NoQueue
  /\ peer' = [peer EXCEPT ![s] = name[Peer(s)]]
  /\ main' = [main EXCEPT ![s] = "chat"]
  /\ reader' = [reader EXCEPT ![s] = "receive"]
  /\ UNCHANGED <<files, my, sigint, overlap>>

TypeLine(s) ==
  /\ main[s] = "chat"
  /\ main' = [main EXCEPT ![s] = "send"]
  /\ UNCHANGED <<files, reader, my, peer, sigint, overlap>>

\* mq_send of the line, which may be empty, waits while the queue is full.
Send(s) ==
  /\ main[s] = "send" /\ Len(box[peer[s]]) < MaxMsg
  /\ \E m \in {"line", "empty"} : box' = [box EXCEPT ![peer[s]] = Append(@, m)]
  /\ main' = [main EXCEPT ![s] = "chat"]
  /\ UNCHANGED <<name, reader, my, peer, sigint, overlap>>

\* Mutant: an empty message is taken for the end.
ReceiveToEmpty(s) ==
  /\ reader[s] = "receive" /\ box[my[s]] # <<>>
  /\ box' = [box EXCEPT ![my[s]] = Tail(@)]
  /\ reader' = IF Head(box[my[s]]) = "empty" THEN [reader EXCEPT ![s] = "gone"] ELSE reader
  /\ UNCHANGED <<name, main, my, peer, sigint, overlap>>

\* An empty message is received and not printed.
Receive(s) ==
  /\ reader[s] = "receive" /\ box[my[s]] # <<>>
  /\ box' = [box EXCEPT ![my[s]] = Tail(@)]
  /\ UNCHANGED <<name, main, reader, my, peer, sigint, overlap>>

\* ^C reaches both processes; before signal() there is no handler.
Interrupt(s) ==
  /\ main[s] \in {"connect", "chat", "send"} /\ <<s, "main">> \notin sigint
  /\ IF main[s] = "connect"
     THEN /\ main' = [main EXCEPT ![s] = "gone"]
          /\ UNCHANGED sigint
     ELSE /\ sigint' = sigint \cup {<<s, "main">>, <<s, "reader">>}
          /\ UNCHANGED main
  /\ UNCHANGED <<files, reader, my, peer, overlap>>

\* fgets returns NULL: kill(pid, SIGINT), then cleanup(0).
EndInput(s) ==
  /\ main[s] = "chat"
  /\ sigint' = sigint \cup {<<s, "reader">>}
  /\ main' = [main EXCEPT ![s] = "cleanup"]
  /\ UNCHANGED <<files, reader, my, peer, overlap>>

\* Mutant: mq_unlink of the other name.
UnlinkPeer(s) == name' = [name EXCEPT ![Peer(s)] = NoQueue]
Unlink(s)     == name' = [name EXCEPT ![s[1]] = NoQueue]

\* cleanup, called or as the handler: both processes unlink the name.
CleanupMain(s) ==
  /\ main[s] = "cleanup" \/ (main[s] # "gone" /\ <<s, "main">> \in sigint)
  /\ Unlink(s)
  /\ main' = [main EXCEPT ![s] = "gone"]
  /\ UNCHANGED <<box, reader, my, peer, sigint, overlap>>

CleanupReader(s) ==
  /\ reader[s] = "receive" /\ <<s, "reader">> \in sigint
  /\ Unlink(s)
  /\ reader' = [reader EXCEPT ![s] = "gone"]
  /\ UNCHANGED <<box, main, my, peer, sigint, overlap>>

-----------------------------------------------------------------------------

MainStep(s)   == Connect(s) \/ Send(s) \/ CleanupMain(s)
ReaderStep(s) == Receive(s) \/ CleanupReader(s)
Typed(s)      == Start(s) \/ TypeLine(s) \/ EndInput(s) \/ Interrupt(s)

Next == \E s \in Session : MainStep(s) \/ ReaderStep(s) \/ Typed(s)

Spec == Init /\ [][Next]_vars

-----------------------------------------------------------------------------
(* Properties.                                                             *)

\* While a session runs its name stands for its queue, although every session
\* unlinks the name twice - unless a process of the session before was still to
\* unlink it when this one began: then nobody can find the new queue.
NameIsMine ==
  \A s \in Session :
    main[s] \in {"connect", "chat", "send"} /\ <<s, "main">> \notin sigint /\ s \notin overlap
      => name[s[1]] = my[s]

\* mq_send returns while the session that reads the queue goes on: two users with
\* full queues do not wait for each other, as each has a process that receives.
\* With a peer that left it may wait for ever.
SendReturns ==
  \A s \in Session :
    main[s] = "send" ~> \/ main[s] # "send"
                        \/ \A t \in Session : my[t] = peer[s] => main[t] \notin {"chat", "send"}
=============================================================================
