# A verification of the programs of OpenSourceProject

The repository holds the exercises of a systems-programming course: about fifty
small C programs, two Rust ones, and two larger projects, a shell (`project1`)
and a chat with a GTK client (`project2`). There is no common library; every
program is its own system. This directory models the ones with state that
several threads, processes or connections share, checks the models with TLC and
proves the main safety properties with TLAPS. Paths below are relative to `src/`.

## 1. Inventory

### Modelled

| System | State | Operations | What is hard | What makes it correct |
|---|---|---|---|---|
| Chat server, `project2/gui_server.c` | `clnt_list`, `clnt_cnt`, one `Client` record per connection, `mutx`, `users.txt` | accept and append, sign-up, login, `/join`, relay (`send_msg`), DISCONNECT | a thread per client; a record freed by its handler while the list still names it; checks made under `mutx` and used after it; death by SIGPIPE | one record per id in the file, no confirmed sign-up lost but to the file system, the count right, no unwritten entry followed, lines in one order, everybody in the room reached, disconnects completed |
| Bounded buffer, `lab3/3/boundedbuffer.c` (and `lab3/2`, the same with one thread a side) | the ring, its indices and count, one mutex, two condition variables | `insert_item`, `remove_item`, `producer`, `consumer` | one signal per change with several waiters, spurious wakeups, every pthread call may fail | a bounded queue; nobody stranded; items keep flowing |
| Counter in shared memory, `lab2/memorymapfile.c` | the mapped `int`, the lock of one open file, two processes | lock, store or load, unlock | the lock is shared through `fork` and excludes nothing | the child's output grows and both processes end |
| Web server, `lab3/7/cgiserver.c` | descriptors of every process, the CGI pipe, children, pending signals | accept and fork, answer, run a CGI program, reap | SIGCHLD does not queue, the handler is inherited by workers that also `wait`, forks fail, clients leave | connections closed everywhere, programs see the end of their input, zombies accounted for |
| Shell, jobs, `project1/myshell.c` | children, pipe ends, the wait in progress | pipeline, foreground, background, SIGINT/SIGQUIT, exit | `wait(NULL)` takes any child, forks are unchecked, signals interrupt waits | waits and children balance, pipe ends in their place, a pipeline returns |
| Shell, files, `project1/myshell.c:116-160` and `project1/commands.c` | the words of a line; names, links and inodes; two descriptors | the scan for `<` and `>`; `cp mv rm ln mkdir rmdir`; the redirected program | a scan that steps over the terminating NULL, two names of one file, failures between two calls, after the destination is cut too, other processes | a line means what it says, a copy is a copy, a failure harmless unless a program cannot be executed, no text lost that `-i` protects unless another process interferes |
| Chat client, `project2/gui_client.c` | two windows, the room label, the receiving thread, the queue of idle callbacks; the handler of its connection | login, registration, room buttons, text, files, receive | one read takes several writes, or ends inside one; a callback that blocks; two threads; a record whose name is not initialised | the answer is understood, label and room agree, text is shown in order, nobody waits for ever |
| Select chat, `lab3/6` | the descriptor set and its copy, one shared buffer, the connections | accept, read, relay, end of a connection; typing and leaving | a failing read taken for data, a loop over a set that changes, resets and SIGPIPE | lines go to all others, in order, complete, under the descriptor of who typed them, repeated no oftener than reads fail; everybody is served |
| Message-queue chat, `lab2/messagequeue.c` | two names, the queues, two processes a session, pending signals | open, connect, send, receive, SIGINT, end of input, unlink | a full queue, both processes unlink, a user starts again | a running session can be found; `mq_send` returns |
| Pipe programs, `lab2/selectpipe.c`, `lab2/pipe.c` | pipes and who has their ends; the shared standard input | fork, select, read, write, wait | the end is decided by `waitpid`, not by the pipes; `select` promises a line that the other process takes | every child is heard; both processes leave |

Interaction: the chat client talks to the chat server over TCP. `ChatServer` has
many clients, whose requests are enumerated; `ChatLink` has one client and its
handler, and knows the others by their lines. `test_add.c` is run by the web
server (an external program here). `commands.c` is called by the shell between two
forks: `ShellJobs` has the processes, `ShellFs` the files, and they share nothing but
the prompt. Nothing else interacts.

### Not modelled

| Part | Why |
|---|---|
| `cd ls pwd cat grep` of `commands.c` | they change no file; what they print is their only effect |
| `parse_args` of `myshell.c` | splitting a string into words, character by character; `ShellFs` starts from words |
| `lab3/2/boundedbuffer.c` | the code of `lab3/3` with one thread a side: the theorems about `BoundedBuffer` cover it |
| `lab3/4/hellothread.c`, `lab3/2/*thread*.c` | a turn under one condition variable is the monitor of `BoundedBuffer` with a flag for a buffer; the others share nothing |
| `lab2/ch8/sendsignal.c`, `alarmsignal.c` | what they do rests on `sleep` and `alarm` being slower than the next call; without real time a signal lost before `pause` is one more schedule |
| `lab2/pipetest.c`, `nonblockpipe.c` | three messages in order through one pipe; `selectpipe.c` with polling |
| `lab3/9/my_calc_gtk.c`, `lab3/8` | one thread of callbacks over one string: a sequential computation on text and doubles |
| `lab3/5` | one blocking request and answer |
| `lab2/notify_*.c` | stateless callbacks of sd-bus |
| `lab2/malloc`, `lab2/number` | sequential Rust: matrix addition, one map behind a menu |
| `lab2/ch7`, `mmapcopy.c`, `ls_R.c`, `typingtest.c`, most of `lab2/ch8`, `lab3/7/test_add.c`, `lab1` | sequential programs around single libc calls |

## 2. Modules

| Module | Content |
|---|---|
| `ChatServer` | server, handlers, file, restarts |
| `MCChatServer` | its instances for TLC |
| `ChatServerProofs` | its theorems |
| `BoundedFifo` | abstract: a bounded queue with one hand per thread |
| `BoundedBuffer` | the monitor; implements `BoundedFifo` |
| `MCBoundedBuffer`, `BoundedBufferProofs` | instances; theorems and the refinement proof |
| `MmapCounter` | parent and child |
| `CgiServer`, `CgiServerProofs` | main, workers, programs, signals; theorems |
| `ShellJobs`, `ShellJobsProofs` | the shell's children; theorems |
| `ShellFs`, `MCShellFs`, `ShellFsProofs` | lines and file commands; the instance with its lines; theorems |
| `ChatLink`, `MCChatLink`, `ChatLinkProofs` | a client and its handler; theorems |
| `SelectChat`, `MCSelectChat`, `SelectChatProofs` | the select server and its clients; theorems |
| `MsgQueueChat`, `SelectPipe`, `PipeChat` | one small program each |
| `Labs`, `MCLabs`, `LabsProofs` | compose the small programs (`prog` says which of them runs); theorems about the composition and the programs in it |

Operators defined before an action and commented `Mutant:` are the action with a
plausible bug. They are used by no specification; `PROJECT.json` names the
property that each of them breaks.

### ChatServer

A record is named by the address `malloc` returned (`Ptr`); its handler has the
same name, since exactly one handler owns an address between `malloc` and `free`.
`pc[p]` is the place in `handle_clnt`: `fresh` (main still has it), `auth_read`,
`dup_scan`, `login`/`register`, `flush`, `login_ok`/`reg_ok`, `loop`, `send`,
`sending`, `disconnect`, `closing`, `freeing`. A critical section that cannot block is
one action; `send_msg` (one action per `write`) and the sign-up (`RegisterUser`
buffers the record, `Flush` is `fclose`) hold `mutx` over several.

- `Disconnect` is the loop of lines 198-204 with its real shift: `i` is
  incremented before the shift starts, so the entry *after* the client's is
  overwritten, and the entry read last is one past the end. Freed records stay on
  the list; a later `malloc` may return the same address.
- `Free` leaves `Garbage` in the `sock` field, which is no open descriptor, and
  `Junk` in the name. `Accept` may find a zeroed chunk or a recycled one, so the
  name of an unauthenticated client may look set (line 180).
- `read` of -1 is not 0: `ReadError` takes the buffer for a line again. It is relayed (under a new
  number), or skipped when it begins with '/'.
- `Fopen` is `fopen(.., "r+")` and, when that fails, `fopen(.., "w+")`. For the code every failure of
  the first is a missing file; after any other (no descriptor left) the second empties
  `users.txt`. When both fail, `fscanf` gets NULL, the process dies: `Restart`.
- `Flush` is `fclose`, which puts the line into the file or fails (a full disk) and drops it; the
  result is not looked at, and OK is sent.
- `clogged` are the descriptors whose buffer is full because the client does not read. `SendWrite`
  to one of them waits, with `mutx` held; `ClientReads` is the client that stops or goes on reading.
- `Restart` is the death of the process at any moment (SIGPIPE included) and a
  new start with the same file.
- Ghosts: `acked` (ids told OK), `lifo` (every departure so far found its socket
  only at the end of the list), `owed` (who must get the broadcast in progress), `lost` (ids that a
  failed `fopen` or `fclose` kept out of the file).
- `Mishap` says which of three mishaps an instance has (a failed `accept`, a recycled chunk, a failed
  call on `users.txt`), `MayClog` whose clients may stop reading.

Abstractions: requests are the two kinds the GUI client sends, with ids that fit
their buffers and no separators; a line goes into `users.txt` whole or not at all (a
disk that fills up in the middle of a line is left out, as is a process killed in the middle of the
`write` of `fclose`); a chat line is its number; the short answers of the authentication fit the
socket's buffer; `pthread_create` succeeds; at most `MAX_CLNT` records (assumption
`ServerAssumption`; without it line 70 writes past the array).

### BoundedBuffer

Each thread is in `idle`, `lock`, `test`, `wait`, `woken`, `signal`, `unlock`, `bail`, `done`
or `stale`. `full` and `empty` are the sets of waiters of the two condition
variables. `MayFail` lets each pthread call fail where the code tests it
(`LockFails`, `WaitFails`, `SignalFails`), and the callers ignore the status, as the code
does: the item is lost, or the consumer goes on with a stale local.
`Spurious` allows wakeups without a signal. `lost` records that a signal failed.
`Items` contains `Zero`, the static initial content of the ring.

`BoundedFifo` has `queue`, what each producer is about to put in (`made`) and what
each consumer has taken out (`got`). The mapping takes the ring from `out` on
as the queue, and the hands from the program counters.

### MmapCounter, CgiServer, ShellJobs

`MmapCounter`: both processes use the open file description they share, so `flock`
is one variable and each call converts or drops it. `Top` is the last value.

`CgiServer`: a slot is a connection with its worker and its program. `conn`,
`writers` and `readers` record which process has each descriptor; a fork copies, an
exit closes. SIGCHLD is a flag per process (it does not queue); `merged` counts the
exits whose signal met a pending one. What is sent to a client is left out;
`CgiEnds` is external.

`ShellJobs`: `Inherit` gives a child every end that the shell has open. `WaitAny`
reaps any zombie and fails at once without children. `Signal` reaches the shell and all
children (there are no process groups); a blocked wait returns since `sa_flags` is 0.
Ghosts: `due`, children of the running command that no wait has paid for;
`extra`, the children left over from earlier commands. Built-ins, parsing and
redirections are in `ShellFs`; programs are external.

What the code's comments promise and these models do not have: `flock` in
`memorymapfile.c` excludes nothing, since the descriptors of parent and child are one
open file (lines 49 and 72 speak of serialising); and the handler of `cgiserver.c`
waits once, so that workers which end together leave zombies (line 27 speaks of
handling them; `LeakAccount` says how many stay).

### ShellFs

A line is a sequence of words in `temp_args`, followed by NULL and by what an
earlier line left there (`Stale`). `Scan` is the loop of lines 124-134 by index, the
step over the NULL included; `Command` is what the built-in takes from its arguments; the
built-ins that change no file (`Quiet`) ignore redirections as the others do.
`Commands` are the commands that the lines of `Lines` turn into and that may change a file.

`dir` leads from names to inodes, `node` says what an inode is; an inode that no name
and no descriptor leads to is freed (`Disk`). Each system call is one action: `Access`,
`Answer` (the question of `-i`), `OpenSrc`, `OpenDst` (with its truncation), `Copy` (a read
and a write of one block), `CopyEnds`, `Call` (`rename`, `unlink`, `link`, `symlink`, `mkdir`,
`rmdir`). `Other` is another process, once in a command. A program with redirections
runs as a filter that copies its input to its output. What can fail: `fork` (`ForkFails`, before
anything is opened), each `open`, a `read` (`ReadFails`: -1 ends the loop like 0, always for a
directory), a `write` (`Copy`: the block is gone), and `execvp` (`ExecFails`, after the redirections are
open and the destination is empty). Ghosts: `old`, the directory when
the command began, `Nil` once another process had a part in it; `late`, another process worked
here after `access` looked; `mishap`, what failed once the destination was open; `yes`.
`Hops` is one link of a path, `Follow` the walk along as many links as there are names.
`CommandAssumption` bounds the lines: a built-in that is one system call is given names
of the one directory; what `cp` and a redirection open may be any word the scan takes.
Left out: permissions, hard limits, a directory with something in it.

### ChatLink

`gtk` is what the GTK thread is in: a window, a message box, or the read of a login or
a registration; while it reads no callback runs. The connection carries bytes, and a read takes what
has arrived, up to 99 of them for the answer and 1023 or 1024 later. So a read may take several
writes, and may end inside one. `up` and `down` are the pieces in transit: a write is one piece, or two when it
is too long for a read or some read ends inside it (`Pieces`, `ClickSend`). The second piece of a text
can start with anything. `Chunks` is what a read takes and leaves; `Reads`, of the handler, can in addition
end inside a write behind the first it took. What a chunk starts with decides for all of
it (`Handle`, `Receive`, `Answered`), as `strncmp` on the buffer does. `Shown` shows a chunk with the header of
a file as one line, or not at all when `fopen` fails. `/join` with a
number behind it reads both (`Number` is `atoi`). `Capacity` pieces fill a direction, and a write then
blocks. `Handle` may send nothing back: this client's entry may have been shifted off the list.
`OtherLine` is `send_msg` of another handler: it looks for a name
that is not empty, and `dirty` is the case that `malloc` returned a chunk with something in it
(`gui_server.c:65` does not set the name). Ghosts: `log`, everything written to this
client; `heard`, the pieces that the answer's read took; `plain`, no read took two pieces
and neither did the user type a `/join` nor a read cut one out of a line. Left out: what `mutx`
adds, which is in `ChatServer`; an answer cut in two, which is a few bytes long and the first thing
that the client reads.

### SelectChat

`ready` is the part of `cpy_reads` that the loop has not come to; `InLoop` is its condition.
`conn` is the connection as the server's calls see it: after a close with something unread, or
a write to a closed client, it is `broken`; a read then fails once (`done`), and a later write is a
SIGPIPE, of which the server dies. `buf` is the one buffer: a failing read leaves in it what the last
client wrote, and `ReadFails` relays it. The name of a sender is its descriptor, which `accept` gives out again
(`fd` keeps a client's even after it left, to compare); `by` and `from` are ghosts. A read takes parts of lines:
a line is one, or two when some read ends inside it, and each read is relayed under one name. `ShowFails` is the
read of the client that fails, with what it showed last shown again (`again`). Left out: what
`buf[str_len] = 0` overwrites after a read of exactly 1024 bytes (one past the buffer) or of -1 (one
before it), and a client whose very first read fails, which shows a buffer that nothing was ever put in: all
of it is undefined, and taken to leave the text alone; and, in
`ShowFails`, that the buffer may hold the line the client itself typed last, which tells it nothing of the others.

### SelectPipe, PipeChat, MsgQueueChat

`SelectPipe`: `Holders` are the processes that have the write end of a pipe, the later
children included. A round reads one message of each ready pipe and asks `waitpid` once.

`PipeChat`: one `input`, read by both; at a terminal (`tty`) its end is read once. `Head(input)`
waits when the other process took the line.

`MsgQueueChat`: a queue object is named by the session that created it, `name` says which
object a user's name stands for. `main` and `reader` are the two processes of a
session; `sigint` the signals pending. Ghost: `overlap`, sessions that began while the reader
of the one before still ran.

## 3. Runs

| Run | Question | Bounds, and why they are enough |
|---|---|---|
| `chat_sessions` | Do `TypeOK`, `CountIsLive`, `NoNullEntry`, `ListExactWhileLifo`, `UniqueIds`, `AckedSurvives` hold while clients sign up, log in, fail and leave in any order and the server is killed? | 3 records: the shift needs an entry before and one after the leaving client's; 1 id, since a duplicate needs one only; no file at first; calls on the file may fail (`Mishap`) |
| `chat_broadcast` | Who gets two lines, and in which order (`AgreedOrder`, `OwedPaid`)? | 2 records, 2 rooms, 2 lines: an inversion needs two of each; a right and a wrong password |
| `chat_disconnects` | Does every departing client's record get freed (`DisconnectCompletes`)? | 2 records compete for `mutx`: one is passed over again and again, by registrations without number (their `fclose` fails, so the id stays free), and by a relay that waits with `mutx` for a client that stops and goes on reading (`MayClog`); 1 line |
| `chat_duplicate_login` | line 149 says a connected id cannot log in: violated | 2 records, 1 id |
| `chat_welcomed_lost` | line 160 welcomes a client to the lobby: it may not be on the list | 2 records, 2 ids |
| `buffer_monitor` | `NoStranded` (no consumer asleep with items there, no producer with slots free), and the refinement `ImplementsFifo` | the code's 2 producers and 2 consumers, capacity 2 (the indices wrap, full and empty differ from each other), 2 values, all failures and spurious wakeups |
| `cgi_requests` | `LeakAccount`, `ConnectionCloses` | 3 connections: two signals merge while a third worker runs |
| `shell_session` | `ChildAccount`, `PipeEnds`, `PipelineReturns` | 3 children: a pipeline and a background command that takes one of its waits; 2 pipes: one left over from an interrupted pipeline |
| `shell_files` | What does a line mean (`LineMeaning`), and what does it do to the files (`CopyOutcome`, `FailureHarmless`, `NoSilentLoss`)? | every directory of 3 names and 3 inodes, with hard and symbolic links, loops of links and texts of 1 and 2 blocks: source, destination and a third file; 22 lines with options and operators in every place, the trailing one included; any of the calls that can fail; one step of another process, anywhere |
| `chat_client` | `LoginTruthful`, `LabelMatchesRoom`, `DisplayInOrder`; `LoginReturns`, `WriteGoesThrough` | 2 logins or registrations (one that fails, one that does not), then 2 pieces from the client or lines of others (`MaxLines`), which merge, are cut or fill the connection; 2 rooms; a write of the server is cut as long as the log has no more than `MaxLog` = 4 pieces: answer, welcome, a line in two pieces |
| `select_chat` | `RelayedInOrder`, `Served` | 3 clients: the sender, a receiver and a third whose connection breaks, or who comes in the place of one that left; one types 2 parts (a line in two reads, or two lines), one 1, one only reads |
| `labs`, `SelectPipe` | `EachHeard`: of the child that `waitpid` returned k-th the parent printed at least N + 1 - k messages | the code's 3 children and 4 messages |
| `labs`, `MsgQueueChat` | `NameIsMine`, `SendReturns` | user 1 comes twice, user 2 once; a queue of 1 message is full after one |
| `labs`, `PipeChat` | `BothLeave` | 2 lines: one for each process, or both for one |
| `labs`, `MmapCounter` | `PrintsGrow`, `BothEnd` | 21 values instead of 51: the child may miss any number of them |
| `labs`, `BoundedBuffer` | `KeepsFlowing`: items keep being consumed | the same threads as `buffer_monitor`, without failures |

`labs` is one run: its initial states choose the program, the others stand still, and each
property is about one program (`prog` does not change).

`CHECK_DEADLOCK FALSE` is where the system may stop: in `buffer_monitor`, as a signal that
fails can really leave everybody asleep; in `chat_client`, `select_chat` and `labs`, as users
may do nothing more, servers die and programs end. Symmetry is used in `chat_sessions`,
`chat_broadcast`, `buffer_monitor` and `shell_files`, which check no liveness and
compare addresses, descriptors, threads and inodes for equality only. Bounds that are
no set sizes: `MaxSent` (broadcasts), `MaxTries`, `MaxLines`, `MaxLog`, `Capacity` (`ChatLink`),
`MaxLines` (`SelectChat`, `PipeChat`), `Sessions` and `MaxMsg` (`MsgQueueChat`).

What the violations show:

1. *Duplicate login.* The scan for the id and `strcpy` of the name (line 159, outside
   `mutx`) are two steps: two connections pass the scan one after the other.
2. *Welcomed, not listed.* The shift keeps the leaving client's entry and drops
   the next one's, which gets no more broadcasts.

Where the code does less than it seems to promise in a passing run, the property says
exactly how far the promise goes:

- `AckedSurvives`: a confirmed account is lost when its own `fclose` fails (`gui_server.c:105-107`), and
  all accounts when an `fopen` fails for another reason than a missing file (lines 88-89). Nobody
  is told: the code answers OK, or that the id does not exist.
- `DisconnectCompletes`: `send_msg` writes with `mutx` held (line 222). One client that never reads again keeps
  everybody waiting, for which reason the property assumes that every client reads again and again.
- `FailureHarmless`: `nosuch > b` prints an error and leaves `b` empty (`myshell.c:156-162`).
- `CopyOutcome`: `cp d b` of a directory empties `b` and says nothing, since -1 ends the loop like 0
  (`commands.c:173`); a copy onto itself is empty; what a failed `write` loses is not reported
  (line 174).
- `NoSilentLoss`: `-i` looks with `access` and then calls `rename` or `open` (lines 161 and 168, 209 and 213). A file
  that another process puts in the place in between goes without a question. The property says
  that no other file does.
- `LabelMatchesRoom` (unless two writes merge or a typed line is cut before `/join`), `LoginTruthful`
  (unless the name is a stale one), `DisplayInOrder` (without what came in one read with the answer or behind the
  header of a file), `RelayedInOrder` (but for names under which a read failed; a name is a descriptor,
  and another client may have it later), `EachHeard` (the
  last messages may be missed), `NameIsMine` (unless sessions overlap), `LineMeaning` (unless an operator is
  last).

### Fairness

- `ChatServer`: weak fairness for the steps of a handler that wait for nobody (`Goes`), strong fairness for
  those that take `mutx` on the way out or write to a client (`Waits`): a default pthread mutex is not first come first
  served, but the scheduler does not let one waiter lose for ever, and a blocked write goes on when
  the client reads. With weak fairness alone TLC finds a handler that never gets the mutex. Nothing is
  assumed of `Restart`; that every client reads again and again is the premise of the property, not
  of the specification.
- `BoundedBuffer`: weak fairness for each thread. Taking the mutex is disabled
  again and again, so this does *not* say that each thread gets it, and
  `KeepsFlowing` speaks of all consumers together for this reason.
- `MmapCounter`: both processes are scheduled.
- `ChatLink`: the GTK thread's own steps, the receiving thread and the handler are scheduled; the
  user may do nothing for ever, and the server may end.
- `SelectChat`: the server is scheduled. Nothing is assumed of the clients.
- `Labs`: weak fairness for each process or thread of the program that runs; a pending
  signal is delivered. Users do what they like.
- `CgiServer`: processes are scheduled, signals delivered; a client sends its
  request or goes away; a program ends once its input has ended.
- `ShellJobs`: the shell and children before `exec` are scheduled; foreground and left
  commands end; a right command ends once its input has. Nothing of background
  commands and of the user.

## 4. Proofs

Every theorem is about the specification without fairness, for all values of the
constants that satisfy the module's named assumptions.

**ChatServerProofs.** `BaseInv` is inductive: `TypeOK`, `CountIsLive`,
`NoNullEntry`, what a handler has in hand at each stage (`ReqInHand`, `MsgInHand`) and
`LockHeld` (`mutx` is held exactly at `flush` and `sending`). `CountIsLive` is what
bounds `clnt_cnt` by `MAX_CLNT`; `NoNullEntry` then survives `Disconnect`, because the
entry it reads past the end takes a place that the decrement removes.
`RegistryInv` adds that nobody but the holder of `mutx` is between search and
append, for `UniqueIds` and `AckedSurvives`; `FopenKeeps` says what an `fopen` that empties the
file leaves of them. `ListExactWhileLifo` is inductive
given `BaseInv`. `OwedAhead` (whoever is owed is at or after the cursor) gives `OwedPaid`.
`OrderInv` gives `AgreedOrder`, without any assumption on the list:
each line has one relaying handler (`MsgUnshared`), only
read lines are on the wire (`WireWasSent`), and the line being sent is the last
of every wire that has it (`SendingIsLast`).

**BoundedBufferProofs.** `BufferInv`: types, the mutex is held exactly at the stages
inside it, the waiters are the threads at `wait`, `in` is `totalitems` slots after
`out`, and a thread has an item where it needs one. `AwakeInv`
is `NoStranded`, inductive once `BufferInv` holds: a thread goes to sleep only after its test
under the mutex, and an item or a slot appears together with a signal still to come. `BufferIsFifo` is the
refinement: `InsertAppends` and `RemoveTakesHead` say what the ring operations
do to the mapped queue, `FifoStep` maps each action to one of `BoundedFifo` or a
stutter.

**CgiServerProofs.** `CgiInv`: types with descriptor ownership, the connection in
main's hand has no worker yet, and `LeakAccount`, which is inductive with these two.

**ShellJobsProofs.** `JobInv`: `TypeOK` (with the bound on `due` at each stage: never
more children than waits to come), `ChildAccount` and `PipeEnds`. The account
shows that a reaped older child exists when `due` is 0, so `extra` stays
natural; the bound on `due` gives 0 at the prompt.

**ChatLinkProofs.** `LinkInv`: until a login or a registration is answered, nothing of
what was written to the client is read and it has written nothing but the request
(`Unanswered`); before the server's answer only a record with a stale name gets anything
(`AuthFirst`), so without one OK comes first (`OkFirst`); the label names the room of the
last `/join` in transit or, if there is none, the room of the record (`RoomPending`), as long
as no read took two writes. `LabelMatchesRoom` speaks of an empty connection only, which
is why it needs `RoomPending`. `ChunkParts` and `ChunkFirst` say what a read takes and leaves,
`JoinLast` and `JoinRead` what a write and a read do to the last `/join`.

For `DisplayInOrder` there is a second invariant, `ShowInv`: the writes of the log are
numbered, and the view, the pending updates and what is in transit, put together (`Seen`), are
`Ordered`: numbers from the first after the answer to the last of the log, each the next
one, or a later one when a file's header stands before the gap or begins it. The property alone is not inductive: when a
file takes the place of a chunk, or a chunk goes altogether, the number after it must be known to be larger, and that
takes the order of any two pieces, not of neighbours. `FlatAppend`,
`FlatHead` and `FlatType` say what the idle queue does to the text it holds, by induction over its
length (`SetInduction`); `OrderedAppend` and `OrderedFile` say that a write at the
end and a file in the middle keep the order, `OrderedDrop` that a file which could not be opened does;
`ReadParts` and `TwoPieces` cover the reads that end inside a write.

**SelectChatProofs.** `ChatInv`: the parts of `TypeOK`; what every line on a
wire is (`Streams`, `Numbered`); what a client that joins has missed (`Joining`); what a
failing read leaves (`Failed`) and how often a line can be on a wire (`Repeats`); under which descriptor
a line went out, and in which order the holders of one descriptor follow each other (`Named`); what a
client's own failing read shows (`Again`); and, for each
pair of clients, that the receiver has got exactly the lines read since it joined, up to the
one that the loop is about to relay (`Relayed`). `RelayedInOrder` speaks of a
finished relay and of names; `Relayed` says how far the loop has come, for clients. `OwnName` and
`ChatInvRelayed` go from one to the other: two clients with one descriptor are told apart
by the order in which they had it.

**ShellFsProofs.** `ShellInv`: `TypeOK`; `old` is the disk as the command found it (`Before`); which
commands come to which place, and when with `-i` and without a y (`Stages`, `Unseen`); nothing has changed
before the first change and after a failure (`Waiting`); at each stage of `cp` what the
descriptors lead to (`Opened`), how much of the source the destination holds, according to what
has failed (`Copying`), the result (`Copied`), and what a program that could not be executed
leaves (`NotRun`). `NoLossStep` is one step of the command under this invariant, with other
processes or without, and gives `NoSilentLoss`.
The lemmas about paths are what the proofs keep needing: `FollowStays` and `LookupDirect` for a
path without links, `WriteKeepsPaths` (to write to a file moves no path), `CreateFound` (a new file
is found where its path ends). The walk along links is a recursive function: that it is one,
and what it ends in, is shown by `SetInduction`, from the well-foundedness of the
numbers. `CopyOutcome` and the others hold for every number of names, links and blocks.

`LineMeaning` relates two readings of a line: by the loop, which counts up and steps over
operands, and by the place of each word (`Operators`, `Words`). `ScanFunction` and `OperatorsAre` show
that both recursive functions exist; `ScanMeans` goes through the line from its end (`Scanned`: what
the loop finds from index i on, if no operand stands there) with a numbering of the words in
the order they stand (`Numbers`); `LeastAndGreatest` carries first, second and last argument over.
It holds for all words and lengths; more than 63 words do not fit `temp_args`, which is not
modelled.

**LabsProofs.** `LabsRuns` (a lemma): each program sees a behaviour of its own in the composition, so what
is proved of a program alone holds of `Labs` (and of `LabsSpec`, which adds fairness).

- `memorymapfile.c`. `Chain`: last printed <= value read <= counter <= loop variable, from
  which `PrintsGrow` follows whatever the lock does.
- `selectpipe.c`. `PipeInv`: of the child reaped k-th the parent has everything or has read a message
  in every round since (`Heard`); it can, because a child that has ended has written
  everything and `select` reports its pipe until it is read (`UnreadyRead`). `PipeSizes` is
  assumed: a message for every round at least.
- `messagequeue.c`. `ChatInv`: sessions of a user follow each other (`OneAfterAnother`), a reader that
  outlived its session is on record in every later one (`OverlapKnown`), a signal that a
  reader has met its parent too (`BothInterrupted`). Whoever unlinks a name therefore
  hits no running session but those on record (`UnlinkHarmless`). `SessionSizes` is assumed:
  so many sessions for each user.

Every safety property that a passing run checks is proved. Checked by TLC only are the liveness properties
(`DisconnectCompletes`, `KeepsFlowing`, `BothEnd`, `ConnectionCloses`, `PipelineReturns`,
`LoginReturns`, `WriteGoesThrough`, `Served`, `SendReturns`, `BothLeave`), which need fairness and
ENABLED, and the two violations of the chat server.

## 5. Plan

What is left, in order of weight.

1. `ChatServer`: a refinement to a registry of users, with sign-up and login as single steps.
2. `SelectChat`: an abstract relay, in which each line goes to all others at once, as a
   refinement of the runs without a failing read.
3. `parse_args` of `myshell.c` as a function on sequences, against a reference definition.
