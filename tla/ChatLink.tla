------------------------------ MODULE ChatLink ------------------------------
(***************************************************************************)
(* A chat client (project2/gui_client.c) and the handler that serves its   *)
(* connection (handle_clnt in project2/gui_server.c).  The GTK thread runs *)
(* one callback at a time: it connects, writes and waits for the answer of *)
(* a login or a registration in the callback.  After a login a second      *)
(* thread reads, and hands what it read to the GTK thread by g_idle_add.   *)
(*                                                                         *)
(* The connection carries bytes: a read takes what has arrived, as much as *)
(* its buffer holds, 99 bytes of the answer and 1023 or 1024 later.  So it *)
(* may take several writes, and it may end inside one.  A write is one     *)
(* piece, or two when it is too long for a read or some read ends inside   *)
(* it; a piece is a record: what its text starts with, and a number: of a  *)
(* room, or, for what the server writes, a serial number.  The other       *)
(* clients are only seen by the lines they send.                           *)
(***************************************************************************)
EXTENDS Naturals, Sequences

CONSTANTS
  Button,    \* the rooms that have a button, 0 for the lobby
  Typed,     \* the texts the user types, and what is left of one behind a cut
  Capacity,  \* pieces that a direction of the connection can hold
  MaxTries,  \* bound of the model: logins and registrations
  MaxLines,  \* bound of the model: pieces of the client, and lines of other clients
  MaxLog     \* bound of the model: the server's pieces when its last write is cut

Text(k, n) == [k |-> k, n |-> n]

\* A text can start with anything: a /join with its number, another slash, the
\* header of a file, a number, or something else.
Texts == {Text(k, 0) : k \in {"slash", "file", "text"}}
         \cup {Text(k, n) : k \in {"join", "number"}, n \in Button}

ASSUME ButtonAssumption == Button \subseteq Nat /\ 0 \in Button
ASSUME TypedAssumption  == Typed \subseteq Texts
ASSUME BoundAssumption  ==
  /\ Capacity \in Nat \ {0} /\ MaxTries \in Nat
  /\ MaxLines \in Nat /\ MaxLog \in Nat

VARIABLES
  gtk,         \* what the GTK thread does: a window, a dialog or a read
  label, view, \* the room label and the text in the view
  idle,        \* updates handed to the GTK thread
  rcv,         \* the receiving thread
  link,        \* the connection: "none", "open", closed by the server: "eof", "reset"
  up, down,    \* the pieces in transit
  srv,         \* the handler
  dirty, named, room, \* its record: a name of stale bytes, a name of its own, the room
  tries, writes, others,
  log,         \* ghost: what was written to this client
  heard,       \* ghost: how much of it the login answer took
  plain        \* ghost: no read took two pieces, no /join was typed or cut

clientVars == <<gtk, label, view, idle, rcv>>
recordVars == <<dirty, named, room>>
ghostVars  == <<heard, plain>>
counters   == <<tries, writes, others>>
vars == <<clientVars, link, up, down, srv, recordVars, counters, log, ghostVars>>

Init ==
  /\ gtk = "login" /\ label = 0 /\ view = <<>> /\ idle = <<>> /\ rcv = "none"
  /\ link = "none" /\ up = <<>> /\ down = <<>>
  /\ srv = "none" /\ dirty = FALSE /\ named = FALSE /\ room = 0
  /\ tries = 0 /\ writes = 0 /\ others = 0
  /\ log = <<>> /\ heard = 0 /\ plain = TRUE

Waiting == gtk \in {"wait_login", "wait_signup"}
Chatting == gtk \in {"chat", "file"}

\* One read: what it takes, and what it leaves.
Chunks(stream) == {<<SubSeq(stream, 1, n), SubSeq(stream, n + 1, Len(stream))>> : n \in 1 .. Len(stream)}

-----------------------------------------------------------------------------
(* The login window and the registration dialog.                           *)

\* The button of the login window, and the closing of the dialog.
OpenSignup  == gtk = "login" /\ gtk' = "signup"
CloseSignup == gtk = "signup" /\ gtk' = "login"
Dialogs ==
  /\ OpenSignup \/ CloseSignup
  /\ UNCHANGED <<label, view, idle, rcv, link, up, down, srv, recordVars,
                 counters, log, ghostVars>>

\* Both entries are filled in.  connect_to_server: without a server connect
\* fails, and the socket is not closed.
Refused ==
  /\ gtk \in {"login", "signup"} /\ tries < MaxTries
  /\ tries' = tries + 1
  /\ gtk' = IF gtk = "login" THEN "alert_login" ELSE "alert_signup"
  /\ log' = <<>> /\ heard' = 0
  /\ UNCHANGED <<label, view, idle, rcv, link, up, down, srv, recordVars, writes, others, plain>>

\* The request is written; the callback goes on to read the answer.  main of the
\* server does not initialise the name of the record.
Connect ==
  /\ gtk \in {"login", "signup"} /\ tries < MaxTries
  /\ tries' = tries + 1
  /\ gtk' = IF gtk = "login" THEN "wait_login" ELSE "wait_signup"
  /\ link' = "open" /\ up' = <<Text("request", 0)>> /\ down' = <<>>
  /\ srv' = "auth" /\ dirty' \in BOOLEAN /\ named' = FALSE /\ room' = 0
  /\ log' = <<>> /\ heard' = 0
  /\ UNCHANGED <<label, view, idle, rcv, writes, others, plain>>

\* After OK the window changes: the label says lobby, every room has a button.
\* What the read took besides is not looked at.
OpenChat(chunk) ==
  /\ gtk' = "chat" /\ label' = 0 /\ rcv' = "running"
  /\ heard' = Len(chunk)
  /\ UNCHANGED <<link, srv, up>>

\* Mutant: the socket of a failed login is not closed.
DropOpen(next) ==
  /\ gtk' = next
  /\ UNCHANGED <<link, srv, up, label, rcv, heard>>

\* close(sock): what the handler still does is of no concern to the client.
Drop(next) ==
  /\ gtk' = next
  /\ link' = "none" /\ srv' = "none" /\ up' = <<>>
  /\ UNCHANGED <<label, rcv, heard>>

\* The answer starts with OK, or it does not.
Answered ==
  /\ Waiting
  /\ \E c \in Chunks(down) :
       /\ down' = c[2]
       /\ CASE gtk = "wait_login"  /\ c[1][1].k = "ok" -> OpenChat(c[1])
            [] gtk = "wait_login"  /\ c[1][1].k # "ok" -> Drop("alert_login")
            [] gtk = "wait_signup" /\ c[1][1].k = "ok" -> Drop("info")
            [] gtk = "wait_signup" /\ c[1][1].k # "ok" -> Drop("alert_signup")
  /\ UNCHANGED <<view, idle, recordVars, counters, log, plain>>

NoAnswer ==
  /\ Waiting /\ down = <<>> /\ link # "open"
  /\ Drop(IF gtk = "wait_login" THEN "alert_login" ELSE "alert_signup")
  /\ UNCHANGED <<view, idle, down, recordVars, counters, log, plain>>

\* OK in the message box.  After a registration the dialog goes too.
Dismiss ==
  /\ gtk \in {"alert_login", "alert_signup", "info"}
  /\ gtk' = IF gtk = "alert_signup" THEN "signup" ELSE "login"
  /\ UNCHANGED <<label, view, idle, rcv, link, up, down, srv, recordVars,
                 counters, log, ghostVars>>

-----------------------------------------------------------------------------
(* The chat window.                                                        *)

\* A write blocks while the connection is full.  After the end of the server
\* the first write is answered by a reset, and the next one kills the client.
Send(s) ==
  /\ writes + Len(s) + others <= MaxLines /\ writes' = writes + Len(s)
  /\ \/ link = "open" /\ Len(up) + Len(s) <= Capacity /\ up' = up \o s /\ UNCHANGED link
     \/ link = "eof" /\ link' = "reset" /\ UNCHANGED up

ClickRoom(r) ==
  /\ gtk = "chat"
  /\ Send(<<Text("join", r)>>) /\ label' = r
  /\ UNCHANGED <<gtk, view, idle, rcv, down, srv, recordVars, tries, others, log, ghostVars>>

\* A line can be longer than what the handler reads at once.
ClickSend(t) ==
  /\ gtk = "chat"
  /\ \E s \in {<<t>>} \cup {<<t, u>> : u \in Typed} :
       /\ Send(s)
       /\ plain' = (plain /\ \A i \in DOMAIN s : s[i].k # "join")
  /\ UNCHANGED <<clientVars, down, srv, recordVars, tries, others, log, heard>>

\* The dialog runs a main loop of its own: updates go on.
ClickFile ==
  /\ gtk = "chat" /\ gtk' = "file"
  /\ UNCHANGED <<label, view, idle, rcv, link, up, down, srv, recordVars,
                 counters, log, ghostVars>>

ChooseFile ==
  /\ gtk = "file" /\ gtk' = "chat"
  /\ \/ Send(<<Text("file", 0)>>) /\ idle' = Append(idle, <<>>)
     \/ UNCHANGED <<idle, writes, link, up>>
  /\ UNCHANGED <<label, view, rcv, down, srv, recordVars, tries, others, log, ghostVars>>

\* update_ui, when the main loop has nothing else to do.
Update ==
  /\ Chatting /\ idle # <<>>
  /\ view' = view \o Head(idle) /\ idle' = Tail(idle)
  /\ UNCHANGED <<gtk, label, rcv, link, up, down, srv, recordVars, counters, log, ghostVars>>

\* Mutant: the newest update first.
ShownFirst(chunk) == {<<chunk>> \o idle}

\* recv_msg.  A chunk that starts with [FILE] becomes an empty file and one line
\* that says so, whatever else it holds, or nothing when the file cannot be
\* opened.  Any other is shown as it is.
Shown(chunk) ==
  IF chunk[1].k = "file" THEN {Append(idle, <<chunk[1]>>), idle} ELSE {Append(idle, chunk)}

\* Mutant: the GTK thread reads, between two callbacks.
ReceiveInMainLoop ==
  /\ rcv = "running" /\ gtk = "chat"
  /\ \E c \in Chunks(down) : down' = c[2] /\ idle' \in Shown(c[1])
  /\ UNCHANGED <<gtk, label, view, rcv, link, up, srv, recordVars, counters, log, ghostVars>>

Receive ==
  /\ rcv = "running"
  /\ \E c \in Chunks(down) : down' = c[2] /\ idle' \in Shown(c[1])
  /\ UNCHANGED <<gtk, label, view, rcv, link, up, srv, recordVars, counters, log, ghostVars>>

\* The thread ends and nobody is told; the window stays as it is.
ReceiveEnds ==
  /\ rcv = "running" /\ down = <<>> /\ link \in {"eof", "reset"}
  /\ rcv' = "ended"
  /\ UNCHANGED <<gtk, label, view, idle, link, up, down, srv, recordVars,
                 counters, log, ghostVars>>

\* A window is closed, or a write after the reset raises SIGPIPE.
Quit ==
  /\ gtk \in {"login", "chat"} \/ (Chatting /\ link = "reset")
  /\ gtk' = "dead" /\ rcv' = "none" /\ link' = "none" /\ srv' = "none"
  /\ up' = <<>> /\ down' = <<>>
  /\ UNCHANGED <<label, view, idle, recordVars, counters, log, ghostVars>>

-----------------------------------------------------------------------------
(* The handler.                                                            *)

\* An answer is never cut: it is short, and only the client's first read gets it.
\* What follows a cut can start with [FILE].
Pieces(k) ==
  LET t == Text(k, Len(log) + 1) IN
  {<<t>>} \cup
  {<<t, Text(j, Len(log) + 2)>> : j \in IF k \in {"ok", "fail"} \/ Len(log) + 2 > MaxLog THEN {}
                                       ELSE {"text", "file"}}

Write(k) ==
  \E s \in Pieces(k) :
    Len(down) + Len(s) <= Capacity /\ down' = down \o s /\ log' = log \o s

\* Mutant: no answer to a request that fails.
AuthenticateSilent ==
  /\ srv = "auth" /\ up' = <<>>
  /\ \/ Write("ok") /\ srv' = "accepted"
     \/ srv' = "loop" /\ UNCHANGED <<down, log>>
  /\ UNCHANGED <<clientVars, link, recordVars, counters, ghostVars>>

\* The request is read and looked up: a failure for one of three reasons, or OK.
Authenticate ==
  /\ srv = "auth" /\ up' = <<>>
  /\ \/ Write("ok")   /\ srv' = "accepted"
     \/ Write("fail") /\ srv' = "closing"
  /\ UNCHANGED <<clientVars, link, recordVars, counters, ghostVars>>

\* A login gets its name; a registration ends here when the name is empty.
SetName ==
  /\ srv = "accepted"
  /\ named' = (gtk # "wait_signup")
  /\ srv' = IF named' THEN "welcome" ELSE IF dirty THEN "loop" ELSE "closing"
  /\ UNCHANGED <<clientVars, link, up, down, dirty, room, counters, log, ghostVars>>

Welcome ==
  /\ srv = "welcome" /\ srv' = "loop"
  /\ Write("text")
  /\ UNCHANGED <<clientVars, link, up, recordVars, counters, ghostVars>>

\* One read of the handler.  It can end inside a write that is not the first: what
\* is left of it then starts with anything.
Reads(stream) ==
  Chunks(stream) \cup
  UNION {{<<SubSeq(stream, 1, n), <<t>> \o SubSeq(stream, n + 1, Len(stream))>> : t \in Typed} :
           n \in 2 .. Len(stream)}

\* Mutant: one byte too far.
NumberLate(chunk) == 0

\* atoi(msg + 6), of all that the read took.
Number(chunk) ==
  IF Len(chunk) > 1 /\ chunk[2].k = "number" THEN 10 * chunk[1].n + chunk[2].n ELSE chunk[1].n

\* /join, another slash, or a line for the room, which has this client in it
\* unless another handler's exit took its entry out of the list.  What the chunk
\* starts with decides for all of it.
Handle ==
  /\ srv = "loop"
  /\ \E c \in Reads(up) :
       /\ up' = c[2]
       /\ plain' = (plain /\ Len(c[1]) = 1)
       /\ CASE c[1][1].k = "join"  -> /\ room' = Number(c[1])
                                      /\ Write("text")
            [] c[1][1].k = "slash" -> UNCHANGED <<room, down, log>>
            [] OTHER               -> /\ UNCHANGED room
                                      /\ \/ Write(IF c[1][1].k = "file" THEN "file" ELSE "text")
                                         \/ UNCHANGED <<down, log>>
  /\ UNCHANGED <<clientVars, link, srv, dirty, named, counters, heard>>

\* Mutant: the line is sent to records without a name, too.
Nameless == TRUE
HasName  == dirty \/ named

\* Another handler's send_msg: it looks for a name that is not empty.
OtherLine ==
  /\ link = "open" /\ HasName /\ writes + others < MaxLines
  /\ others' = others + 1
  /\ \E k \in {"text", "file"} : Write(k)
  /\ UNCHANGED <<clientVars, link, up, srv, recordVars, tries, writes, ghostVars>>

\* DISCONNECT, or the end of the server.  With writes not read it is a reset.
Close ==
  /\ link = "open" /\ link' = IF up = <<>> THEN "eof" ELSE "reset"
  /\ srv' = "none" /\ up' = <<>>
  /\ UNCHANGED <<clientVars, down, recordVars, counters, log, ghostVars>>

Disconnect == srv = "closing" /\ Close

-----------------------------------------------------------------------------

\* The threads of the client and the handler.
Gtk     == Answered \/ NoAnswer \/ Update
Handler == Authenticate \/ SetName \/ Welcome \/ Handle \/ Disconnect

User ==
  \/ Dialogs \/ Refused \/ Connect \/ Dismiss \/ ClickFile \/ ChooseFile
  \/ \E r \in Button : ClickRoom(r)
  \/ \E t \in Typed : ClickSend(t)

Next == Gtk \/ Receive \/ ReceiveEnds \/ Handler \/ User \/ OtherLine \/ Close \/ Quit

\* The threads are scheduled.  Nothing is assumed of the user, nor of the server
\* process but that it runs the handler while it lives.
Spec     == Init /\ [][Next]_vars
FairSpec == Spec /\ WF_vars(Gtk) /\ WF_vars(Receive \/ ReceiveEnds) /\ WF_vars(Handler)

-----------------------------------------------------------------------------
(* Properties.                                                             *)

Flat(chunks) ==
  LET upTo[i \in 0 .. Len(chunks)] == IF i = 0 THEN <<>> ELSE upTo[i - 1] \o chunks[i]
  IN  upTo[Len(chunks)]

\* Every variable keeps its type; the client has a connection exactly while a
\* callback waits for an answer or the chat window is open.
TypeOK ==
  /\ gtk \in {"login", "signup", "wait_login", "wait_signup", "alert_login",
             "alert_signup", "info", "chat", "file", "dead"}
  /\ label \in Button /\ rcv \in {"none", "running", "ended"}
  /\ link \in {"none", "open", "eof", "reset"}
  /\ srv \in {"none", "auth", "accepted", "closing", "welcome", "loop"}
  /\ dirty \in BOOLEAN /\ named \in BOOLEAN /\ room \in Nat
  /\ tries \in 0 .. MaxTries /\ writes \in 0 .. MaxLines /\ others \in 0 .. MaxLines
  /\ Len(up) <= Capacity /\ Len(down) <= Capacity /\ heard \in 0 .. Len(log)
  /\ plain \in BOOLEAN
  /\ (link # "none") <=> (Waiting \/ Chatting)
  /\ (rcv # "none") <=> Chatting
  /\ srv # "none" => link = "open"

\* The chat window opens for a login that the server accepted.  The client takes
\* an accepted request for a failure only when a line for the room came before
\* the answer, to a record whose name was never initialised.
LoginTruthful ==
  /\ Chatting => log # <<>> /\ log[1].k = "ok"
  /\ gtk \in {"alert_login", "alert_signup"} /\ (\E i \in DOMAIN log : log[i].k = "ok") => dirty

\* Once the handler has read everything, it has the client in the room that the
\* label names, unless two writes came in one read or the user typed a /join,
\* which can also be what follows when a read ends inside a long line.
LabelMatchesRoom ==
  gtk = "chat" /\ srv = "loop" /\ up = <<>> /\ plain => label = room

\* The view, the pending updates and the connection hold, in order, what was
\* written to the client after the answer to its login.  Missing are only what
\* came in the same read as the answer, the welcome say, and, from the header of a
\* file on, what came in one read with it: the header, too, when the file could
\* not be opened.
DisplayInOrder ==
  LET seen == view \o Flat(idle) \o down
      upTo(i) == IF i = 0 THEN heard ELSE seen[i].n
  IN  Chatting =>
        \A i \in 0 .. Len(seen) :
          LET after == IF i = Len(seen) THEN Len(log) + 1 ELSE seen[i + 1].n IN
          \/ after = upTo(i) + 1
          \/ after > upTo(i) /\ ((i > 0 /\ seen[i].k = "file") \/ log[upTo(i) + 1].k = "file")

\* The GTK thread gets its answer, or the news that there is none.
LoginReturns == Waiting ~> ~Waiting

\* A connection full of writes to the server does not stay full, though the
\* handler itself may be waiting for room to write to this client and the user
\* may leave a dialog open.
WriteGoesThrough == (Len(up) = Capacity) ~> (Len(up) < Capacity)
=============================================================================
