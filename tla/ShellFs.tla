------------------------------ MODULE ShellFs -------------------------------
(***************************************************************************)
(* The file commands of the shell: the scan of a line for redirections     *)
(* (project1/myshell.c), the built-in cp, mv, rm, ln, mkdir and rmdir      *)
(* (project1/commands.c) and a filter run with redirections.  One          *)
(* directory; a name leads to an inode, an inode is a file, a directory or *)
(* a symbolic link.  Every system call is one step, so that another        *)
(* process can work on the same directory in between.                      *)
(***************************************************************************)
EXTENDS Naturals, Sequences, FiniteSets, FiniteSetsExt

CONSTANTS
  Name,    \* the names in the working directory
  Inode,
  Text,    \* contents a file can be created with: sequences of blocks
  Word,    \* what a line can be made of
  Lines,   \* the lines the user types: sequences of words
  Stale,   \* words an earlier line left behind in temp_args
  Nil      \* no inode, no word

ASSUME NameAssumption == IsFiniteSet(Name) /\ Nil \notin Name
ASSUME InodeAssumption == Nil \notin Inode
ASSUME TextAssumption == Text \subseteq Seq(Nat)
ASSUME LineAssumption == Nil \notin Word /\ Lines \subseteq Seq(Word) /\ Stale \subseteq Seq(Word)

VARIABLES
  dir, node,   \* the name space, and what every inode is
  pc, cmd,     \* where the shell is, and the command it runs
  sfd, dfd,    \* the inodes that a copy has open
  off,         \* the offset in the source
  out,         \* how the last command ended
  yes,         \* ghost: the user said y
  mishap,      \* ghost: what failed, of "read", "write" and "exec", once the
               \* destination was open
  late,        \* ghost: another process worked here after access looked
  old          \* ghost: dir and node when the command began, Nil once another
               \* process had a part in it

vars   == <<dir, node, pc, cmd, sfd, dfd, off, out, yes, mishap, late, old>>
disk   == <<dir, node>>
files  == <<sfd, dfd, off>>
ghosts == <<yes, mishap, late, old>>

File(text) == [kind |-> "file", text |-> text, to |-> Nil]
Dir        == [kind |-> "dir",  text |-> <<>>, to |-> Nil]
Link(n)    == [kind |-> "link", text |-> <<>>, to |-> n]
Free       == [kind |-> "free", text |-> <<>>, to |-> Nil]

-----------------------------------------------------------------------------
(* The line.                                                               *)

Redirect == {"<", ">"}

Nothing  == [args |-> <<>>, infile |-> Nil, outfile |-> Nil]

\* Mutant: the operand of a redirection stays an argument.
ScanKeeps(mem) ==
  LET from[i \in 1 .. Len(mem) + 2] ==
        IF i > Len(mem) \/ mem[i] = Nil THEN Nothing
        ELSE IF mem[i] \in Redirect THEN from[i + 1]
        ELSE [from[i + 1] EXCEPT !.args = <<mem[i]>> \o @]
  IN  from[1]

\* The loop over temp_args, index by index: the arguments, and the last operand
\* of each redirection.  After a trailing operator it steps over the NULL.
Scan(mem) ==
  LET from[i \in 1 .. Len(mem) + 2] ==
        IF i > Len(mem) \/ mem[i] = Nil THEN Nothing
        ELSE IF mem[i] = "<" THEN [from[i + 2] EXCEPT !.infile = IF @ = Nil THEN mem[i + 1] ELSE @]
        ELSE IF mem[i] = ">" THEN [from[i + 2] EXCEPT !.outfile = IF @ = Nil THEN mem[i + 1] ELSE @]
        ELSE [from[i + 1] EXCEPT !.args = <<mem[i]>> \o @]
  IN  from[1]

\* The built-ins modelled here, with their options.
Option == [cp |-> "-i", mv |-> "-i", rm |-> "-i", ln |-> "-s", mkdir |-> Nil, rmdir |-> Nil]

\* The option may stand anywhere among the arguments; the others are names.
Given(args, option) == \E i \in 2 .. Len(args) : args[i] = option
Names(args, option) == {i \in 2 .. Len(args) : args[i] # option}

First(args, K)  == IF K = {} THEN Nil ELSE args[Min(K)]
Second(args, K) == First(args, {i \in K : i > Min(K)})
Last(args, K)   == IF K = {} THEN Nil ELSE args[Max(K)]

\* The built-ins that change no file, and have no use for redirections either.
Quiet == {"cd", "ls", "pwd", "cat", "grep"}

\* A built-in has no use for redirections, everything else for nothing but
\* them.  rm takes its last argument, mkdir and rmdir the first.
Command(line, mem) ==
  LET scan  == Scan(mem)
      args  == scan.args
      op    == args[1]
      names == Names(args, Option[op])
  IN  IF op \in DOMAIN Option
      THEN [op |-> op, flag |-> Given(args, Option[op]), line |-> line,
            src |-> IF op = "rm" THEN Last(args, names) ELSE First(args, names),
            dst |-> IF op = "rm" THEN Nil ELSE Second(args, names)]
      ELSE [op |-> IF op \in Quiet THEN "quiet" ELSE "filter", flag |-> FALSE, line |-> line,
            src |-> scan.infile, dst |-> scan.outfile]

Memory(line) == {line \o <<Nil>> \o s \o <<Nil>> : s \in Stale}

\* What lines can turn into that may change a file.  Without its arguments a
\* built-in prints its usage.
Commands ==
  LET all == UNION {{Command(l, mem) : mem \in {m \in Memory(l) : Scan(m).args # <<>>}} : l \in Lines}
  IN  {c \in all : \/ c.op = "filter"
                   \/ c.op \in {"rm", "mkdir", "rmdir"} /\ c.src # Nil
                   \/ c.op \in {"cp", "mv", "ln"} /\ c.dst # Nil}

\* Bound of the model: a built-in that is one system call is given names of this
\* one directory.  What cp and a redirection open may be any word.
ASSUME CommandAssumption ==
  \A c \in Commands : /\ c.op \in {"mv", "ln", "rm", "mkdir", "rmdir"} => c.src \in Name
                      /\ c.op \in {"mv", "ln"} => c.dst \in Name

-----------------------------------------------------------------------------
(* The file system, as the calls use it.                                   *)

At(d, n) == IF n \in Name THEN d[n] ELSE Nil
IsLink(d, f, n) == At(d, n) # Nil /\ f[At(d, n)].kind = "link"

\* Where a name leads to: to itself, or to what the symbolic link says.
Hops(d, f) == [n \in Name |-> IF IsLink(d, f, n) THEN f[d[n]].to ELSE n]

\* Where a path leads through symbolic links; still a link: a loop.
Follow(hops, n) ==
  LET walk[k \in 0 .. Cardinality(Name)] ==
        IF k = 0 THEN n
        ELSE IF walk[k - 1] \in Name THEN hops[walk[k - 1]] ELSE walk[k - 1]
  IN  walk[Cardinality(Name)]

Resolve(d, f, n) == Follow(Hops(d, f), n)

\* The inode of a path, for open, access and truncation; Nil when there is none.
Lookup(d, f, n) ==
  LET m == Resolve(d, f, n) IN IF IsLink(d, f, m) THEN Nil ELSE At(d, m)

InUse(d, open) == ({d[n] : n \in Name} \cup open) \ {Nil}
Unused         == Inode \ InUse(dir, {sfd, dfd})
IsFile(i)      == i # Nil /\ node[i].kind = "file"

\* An inode that no name and no descriptor leads to any more is free.
Disk(d, f) ==
  /\ dir' = d
  /\ node' = [i \in Inode |-> IF i \in InUse(d, {sfd', dfd'}) THEN f[i] ELSE Free]

Bind(n, i) == [dir EXCEPT ![n] = i]

-----------------------------------------------------------------------------
(* The shell.                                                              *)

Init ==
  /\ dir \in [Name -> Inode \cup {Nil}]
  /\ node \in [Inode -> {File(t) : t \in Text} \cup {Link(n) : n \in Name} \cup {Dir, Free}]
  /\ \A i \in Inode : (node[i] = Free) <=> i \notin InUse(dir, {})
  /\ \A i \in Inode : node[i] = Dir => Cardinality({n \in Name : dir[n] = i}) = 1
  /\ pc = "prompt" /\ cmd \in {c \in Commands : c.op = "mkdir"}
  /\ sfd = Nil /\ dfd = Nil /\ off = 0
  /\ out = "none" /\ yes = FALSE /\ mishap = {} /\ late = FALSE /\ old = Nil

Goto(stage) == pc' = stage /\ UNCHANGED out
Return(how) == pc' = "prompt" /\ out' = how

\* The first call of a command, and the first after its question.
Work(op)  == IF op \in {"cp", "filter"} THEN "open_src" ELSE "call"
Begin(c)  == IF ~c.flag \/ c.op = "ln" THEN Work(c.op)
             ELSE IF c.op = "rm" THEN "ask" ELSE "access"

Type(c) ==
  /\ pc = "prompt"
  /\ pc' = Begin(c)
  /\ cmd' = c /\ out' = "none" /\ yes' = FALSE /\ mishap' = {} /\ late' = FALSE
  /\ old' = [dir |-> dir, node |-> node]
  /\ UNCHANGED <<disk, files>>

\* Mutant: the test is the wrong way round.  access(dest, F_OK) == 0.
NotThere == Lookup(dir, node, cmd.dst) = Nil
There    == Lookup(dir, node, cmd.dst) # Nil

Access ==
  /\ pc = "access"
  /\ Goto(IF There THEN "ask" ELSE Work(cmd.op))
  /\ late' = FALSE
  /\ UNCHANGED <<disk, cmd, files, yes, mishap, old>>

\* confirm_action: y or Y; any other character, or the end of the input.
Answer ==
  /\ pc = "ask"
  /\ \/ yes' = TRUE /\ Goto(Work(cmd.op))
     \/ yes' = FALSE /\ Return("refused")
  /\ UNCHANGED <<disk, cmd, files, mishap, late, old>>

-----------------------------------------------------------------------------
(* cp, and the redirections of a filter.                                   *)

\* Mutant: cp does not look at the result either.
OpenSrcUnchecked ==
  /\ pc = "open_src"
  /\ sfd' = Lookup(dir, node, cmd.src) /\ off' = 0
  /\ Goto("open_dst")
  /\ UNCHANGED <<disk, cmd, dfd, ghosts>>

\* cp gives up without its source; the child does not look at the result, and
\* the filter then reads the terminal, here at its end.
OpenSrc ==
  /\ pc = "open_src"
  /\ LET i == Lookup(dir, node, cmd.src) IN
       /\ IF i = Nil /\ cmd.op = "cp" THEN Return("failed") ELSE Goto("open_dst")
       /\ sfd' = i
  /\ off' = 0
  /\ UNCHANGED <<disk, cmd, dfd, ghosts>>

\* Without a child nothing is opened.
ForkFails ==
  /\ pc = "open_src" /\ cmd.op = "filter"
  /\ Return("failed")
  /\ UNCHANGED <<disk, cmd, files, ghosts>>

\* open for writing fails on a directory, in a loop of links, without a name, and
\* for want of an inode.
Fails(m) ==
  \/ m \notin Name
  \/ m \in Name /\ IF dir[m] = Nil THEN Unused = {} ELSE ~IsFile(dir[m])

\* Mutant: O_TRUNC is missing.
NotCut(text) == text
Cut(text)    == <<>>

\* open(dest, O_WRONLY | O_CREAT | O_TRUNC): through links, to a new file if
\* there is none.  When it fails, cp gives up with sfd = s.
OpenDstOr(s) ==
  /\ pc = "open_dst"
  /\ LET m == Resolve(dir, node, cmd.dst)
         i == At(dir, m)
     IN  \/ /\ Fails(m)
            /\ dfd' = Nil
            /\ IF cmd.op = "cp" THEN Return("failed") /\ sfd' = s
                                ELSE Goto("copy") /\ UNCHANGED sfd
            /\ Disk(dir, node)
         \/ /\ IsFile(i)
            /\ dfd' = i /\ UNCHANGED sfd /\ Goto("copy")
            /\ Disk(dir, [node EXCEPT ![i].text = Cut(@)])
         \/ /\ m \in Name /\ i = Nil
            /\ \E j \in Unused :
                 /\ dfd' = j /\ UNCHANGED sfd /\ Goto("copy")
                 /\ Disk(Bind(m, j), [node EXCEPT ![j] = File(<<>>)])
  /\ UNCHANGED <<cmd, off, ghosts>>

\* Mutant: the early return does not close the source.
OpenDstLeak == OpenDstOr(sfd)
OpenDst     == OpenDstOr(Nil)

\* What is left to read; of the terminal nothing.
Unread == IF IsFile(sfd) THEN SubSeq(node[sfd].text, off + 1, Len(node[sfd].text)) ELSE <<>>

\* read a block, write it; on a full disk the block is gone and nobody looks.
Copy ==
  /\ pc = "copy" /\ Unread # <<>>
  /\ off' = off + 1
  /\ UNCHANGED <<pc, cmd, sfd, dfd, out, yes, late, old>>
  /\ \/ /\ dfd # Nil
        /\ Disk(dir, [node EXCEPT ![dfd].text = Append(@, Head(Unread))])
        /\ UNCHANGED mishap
     \/ UNCHANGED disk /\ mishap' = IF dfd = Nil THEN mishap ELSE mishap \cup {"write"}

Stop(how) ==
  /\ sfd' = Nil /\ dfd' = Nil /\ off' = 0
  /\ Disk(dir, node)
  /\ Return(how)
  /\ UNCHANGED <<cmd, yes, late, old>>

\* The end of the source, which a directory does not have.
CopyEnds ==
  /\ pc = "copy" /\ Unread = <<>> /\ (sfd # Nil => IsFile(sfd))
  /\ Stop("done")
  /\ UNCHANGED mishap

\* read fails, of a directory always: the loop ends as if the source did.
ReadFails ==
  /\ pc = "copy" /\ sfd # Nil
  /\ Stop("done")
  /\ mishap' = mishap \cup {"read"}

\* execvp fails with the destination already cut.
ExecFails ==
  /\ pc = "copy" /\ cmd.op = "filter" /\ off = 0
  /\ Stop("failed")
  /\ mishap' = {"exec"}

-----------------------------------------------------------------------------
(* Commands of one call, as the sets of disks they can lead to; of none    *)
(* when they fail.  None of them follows a link in its last name, and link *)
(* makes a second name for the link itself.                                *)

Is(n, what) == At(dir, n) # Nil /\ (node[dir[n]] = Dir) = (what = "dir")
After(d, f) == {[dir |-> d, node |-> f]}

\* Two names of one inode stay as they are.
Rename(n, m) ==
  IF At(dir, n) = Nil \/ (dir[m] # Nil /\ Is(n, "dir") # Is(m, "dir")) THEN {}
  ELSE IF dir[n] = dir[m] THEN After(dir, node)
  ELSE After([dir EXCEPT ![n] = Nil, ![m] = dir[n]], node)

Remove(n, what) == IF Is(n, what) THEN After(Bind(n, Nil), node) ELSE {}

HardLink(n, m) ==
  IF Is(n, "other") /\ dir[m] = Nil THEN After(Bind(m, dir[n]), node) ELSE {}

Create(n, what) ==
  IF dir[n] # Nil THEN {}
  ELSE UNION {After(Bind(n, i), [node EXCEPT ![i] = what]) : i \in Unused}

Effects(c) ==
  CASE c.op = "mv"    -> Rename(c.src, c.dst)
    [] c.op = "rm"    -> Remove(c.src, "other")
    [] c.op = "rmdir" -> Remove(c.src, "dir")
    [] c.op = "mkdir" -> Create(c.src, Dir)
    [] c.op = "ln"    -> IF c.flag THEN Create(c.dst, Link(c.src))
                                   ELSE HardLink(c.src, c.dst)

Call ==
  /\ pc = "call"
  /\ UNCHANGED files
  /\ \/ \E e \in Effects(cmd) : Disk(e.dir, e.node) /\ Return("done")
     \/ Effects(cmd) = {} /\ UNCHANGED disk /\ Return("failed")
  /\ UNCHANGED <<cmd, ghosts>>

-----------------------------------------------------------------------------
(* Another process.  Bound of the model: one step of it in a command.      *)

Other ==
  /\ pc # "prompt" /\ old # Nil
  /\ UNCHANGED files
  /\ \E m, n \in Name :
       \E e \in Rename(m, n) \cup Remove(n, "other") \cup HardLink(m, n)
                 \cup Create(n, File(<<>>)) :
         Disk(e.dir, e.node)
  /\ old' = Nil /\ late' = TRUE
  /\ UNCHANGED <<pc, cmd, out, yes, mishap>>

-----------------------------------------------------------------------------

Step == \/ Access \/ Answer \/ OpenSrc \/ ForkFails \/ OpenDst
        \/ Copy \/ CopyEnds \/ ReadFails \/ ExecFails \/ Call
Next == Step \/ Other \/ \E c \in Commands : Type(c)

Spec == Init /\ [][Next]_vars

-----------------------------------------------------------------------------
(* Properties.                                                             *)

Calm  == old # Nil
Ended == pc = "prompt" /\ out # "none" /\ Calm
Src   == Lookup(old.dir, old.node, cmd.src)
Dst   == Lookup(old.dir, old.node, cmd.dst)

\* Every variable keeps its type, a name never leads to a free inode, and the
\* shell comes back to its prompt with no descriptor left open.
TypeOK ==
  /\ dir \in [Name -> Inode \cup {Nil}]
  /\ \A i \in Inode : /\ node[i].kind \in {"file", "dir", "link", "free"}
                      /\ (node[i] = Free) <=> i \notin InUse(dir, {sfd, dfd})
  /\ pc \in {"prompt", "access", "ask", "open_src", "open_dst", "copy", "call"}
  /\ cmd \in Commands
  /\ sfd \in Inode \cup {Nil} /\ dfd \in Inode \cup {Nil}
  /\ off \in Nat /\ yes \in BOOLEAN /\ late \in BOOLEAN
  /\ mishap \subseteq {"read", "write", "exec"}
  /\ out \in {"none", "done", "failed", "refused"}
  /\ pc \notin {"open_dst", "copy"} => sfd = Nil
  /\ pc # "copy" => dfd = Nil

\* Where the operators of a line stand: the word behind one is its operand,
\* whatever it is.
Operators(line) ==
  LET is[k \in 0 .. Len(line)] == k > 0 /\ line[k] \in Redirect /\ ~is[k - 1]
  IN  {k \in 1 .. Len(line) : is[k]}

\* The words that belong to no redirection; those behind the first of them.
Words(line) == {k \in DOMAIN line : k \notin Operators(line) /\ k - 1 \notin Operators(line)}
Behind(K)   == {k \in K : \E j \in K : j < k}

\* to is the operand of the last w, if there is a w.
LastOperand(line, w, to) ==
  \/ to = Nil /\ \A k \in Operators(line) : line[k] # w
  \/ \E k \in Operators(line) : /\ line[k] = w /\ line[k + 1] = to
                                /\ \A j \in Operators(line) : j > k => line[j] # w

\* The first of the words K, and the last.
FirstIn(line, K, w) == \E k \in K : w = line[k] /\ \A j \in K : k <= j
LastIn(line, K, w)  == \E k \in K : w = line[k] /\ \A j \in K : j <= k

\* A line that does not end in a redirection operator means what it says,
\* whatever an earlier line left in temp_args: its first word that belongs to no
\* redirection is the command; a built-in has the option if any later such word
\* is it, and the others are its names in the order they stand, of which rm takes
\* the last; a program gets the last operand of each operator.
LineMeaning ==
  LET line  == cmd.line
      args  == Behind(Words(line))
      names == {k \in args : line[k] # Option[cmd.op]}
  IN  Len(line) \notin Operators(line) =>
        IF cmd.op = "filter"
        THEN /\ \A w \in DOMAIN Option \cup Quiet : ~FirstIn(line, Words(line), w)
             /\ LastOperand(line, "<", cmd.src) /\ LastOperand(line, ">", cmd.dst)
        ELSE /\ FirstIn(line, Words(line), cmd.op)
             /\ cmd.flag = (names # args)
             /\ cmd.op = "rm" => LastIn(line, names, cmd.src)
             /\ cmd.op # "rm" => FirstIn(line, names, cmd.src)
             /\ cmd.op \in {"cp", "mv", "ln"} => FirstIn(line, Behind(names), cmd.dst)

\* What src led to when the command began; nothing when dest led to the same
\* file, which is cut before it is read.
Source == IF Src = Dst THEN <<>> ELSE old.node[Src].text

\* Nothing is different but the file d, which dest led to or which is new.
OnlyFile(d) ==
  /\ d = Dst \/ Dst = Nil
  /\ \A i \in Inode \ {d} : node[i] = old.node[i]
  /\ \A n \in Name : old.dir[n] # Nil => dir[n] = old.dir[n]

\* When nothing else works on the directory, a copy that comes to its end leaves
\* all of the source in the file that dest leads to, through whatever links; one
\* that a failed read ended, which looks the same to the user, a beginning of it,
\* and of a directory nothing.  What a failed write loses is not known.  Every
\* other file is as before in any case.  A filter fed with < and > does the same.
CopyOutcome ==
  LET d == Lookup(dir, node, cmd.dst) IN
    /\ Ended /\ out = "done" /\ cmd.op \in {"cp", "filter"} /\ Src # Nil
    /\ cmd.op = "cp" \/ (d # Nil /\ node[d] # Dir)
    => /\ mishap = {} => node[d] = File(Source)
       /\ mishap = {"read"} => \E k \in 0 .. Len(Source) : node[d] = File(SubSeq(Source, 1, k))
       /\ OnlyFile(d)

\* When nothing else works on the directory, a command that was refused, or says
\* that it failed, has changed nothing, and a cp without a source fails: the source
\* is opened before the destination is cut.  The exception is a program that cannot
\* be executed: what it was redirected to is cut by then, and empty, but nothing
\* else is different.
FailureHarmless ==
  LET d == Lookup(dir, node, cmd.dst) IN
    Ended /\ (out \in {"refused", "failed"} \/ (cmd.op = "cp" /\ Src = Nil)) =>
      \/ dir = old.dir /\ node = old.node
      \/ mishap = {"exec"} /\ d # Nil /\ node[d] = File(<<>>) /\ OnlyFile(d)

HasName(i) == \E n \in Name : dir[n] = i

\* With -i, and without a y from the user, no step of the command makes a file
\* shorter or takes its last name, whatever other processes do.  The exception is
\* the race of access with rename and open: when another process works on the
\* directory after access has looked, the file that dest leads to by then may go
\* without a question; that one and no other.
NoSilentLoss ==
  [][cmd.flag /\ ~yes /\ UNCHANGED old =>
       \A i \in Inode : IsFile(i) /\ HasName(i) =>
         \/ HasName(i)' /\ Len(node'[i].text) >= Len(node[i].text)
         \/ late /\ i = Lookup(dir, node, cmd.dst)]_vars
=============================================================================
