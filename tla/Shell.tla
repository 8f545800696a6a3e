-------------------------------- MODULE Shell --------------------------------
(***************************************************************************)
(* The shell at work (user/sh.c): main() reads a line and forks a child    *)
(* that parses it and runs the command; runcmd() forks, wires pipes, waits *)
(* and in the end executes programs.                                       *)
(*                                                                         *)
(* The system calls are external and do what the kernel does: fork copies  *)
(* the descriptors, dup takes the lowest free one, a pipe reports the end  *)
(* of the file when nobody can write to it and an error when nobody can    *)
(* read from it, wait returns at once without children, and the children   *)
(* of a process that exits go to init.  What a process does between two    *)
(* system calls that others can notice is one step.                        *)
(***************************************************************************)
EXTENDS ShGrammar

CONSTANTS Proc, Main,   \* Main \in Proc is the shell
          NoProc,       \* init, as a parent
          NOFILE,       \* descriptors of a process
          Pipes,        \* pipes of the system
          PIPESIZE, Sends, Missing,
          Scripts       \* <<limit, lines>>: processes that may exist, input

VARIABLES proc,         \* [Proc -> process or free]
          data,         \* [Pipes -> bytes in it]
          input,        \* lines not read yet
          limit

vars == <<proc, data, input, limit>>

Console == <<"console", 0>>
Closed == <<"closed", 0>>
Fds == 0..NOFILE-1

ReadEnd(i) == <<"read", i>>
WriteEnd(i) == <<"write", i>>

Free == [pc |-> "free", parent |-> NoProc, fd |-> [n \in Fds |-> Closed], cmd |-> P!Panic,
         line |-> <<>>, p |-> <<>>, std |-> <<>>, sent |-> 0]

(* main() has opened "console" until descriptors 0, 1 and 2 are in use.    *)
Init ==
    /\ \E s \in Scripts : limit = s[1] /\ input = s[2]
    /\ proc = [q \in Proc |->
                 IF q = Main
                 THEN [Free EXCEPT !.pc = "getcmd", !.std = <<Console, Console>>,
                                   !.fd = [n \in Fds |-> IF n <= 2 THEN Console ELSE Closed]]
                 ELSE Free]
    /\ data = [i \in Pipes |-> 0]

-----------------------------------------------------------------------------
(* System calls.                                                           *)

Children(q) == {c \in Proc : proc[c].pc # "free" /\ proc[c].parent = q}
Live == {q \in Proc : proc[q].pc \notin {"free", "zombie"}}

close(fd, n) == [fd EXCEPT ![n] = Closed]
Lowest(fd) == CHOOSE n \in Fds : fd[n] = Closed /\ \A m \in 0..n-1 : fd[m] # Closed
open(fd, f) == [fd EXCEPT ![Lowest(fd)] = f]
dup(fd, n) == open(fd, fd[n])

Open(ps, f) == \E q \in Proc, n \in Fds : ps[q].fd[n] = f

(* A pipe nobody has open any more loses its data.                         *)
Kept(ps, d) == [i \in Pipes |-> IF Open(ps, ReadEnd(i)) \/ Open(ps, WriteEnd(i)) THEN d[i] ELSE 0]

Becomes(ps, d) == \E s \in {ps} : proc' = s /\ data' = Kept(s, d)

Set(q, r) == [proc EXCEPT ![q] = r]

(* exit(): a zombie, unless init is the parent; init takes the children.   *)
Exited(q, ps) ==
    [c \in Proc |->
        IF c = q THEN IF ps[q].parent = NoProc THEN Free
                      ELSE [Free EXCEPT !.pc = "zombie", !.parent = ps[q].parent]
        ELSE IF ps[c].parent # q THEN ps[c]
        ELSE IF ps[c].pc = "zombie" THEN Free
        ELSE [ps[c] EXCEPT !.parent = NoProc]]

Exit(q) == Becomes(Exited(q, proc), data)

(* The table is not full.  The processes that are free are alike.          *)
CanFork == Cardinality({q \in Proc : proc[q].pc # "free"}) < limit
Child == CHOOSE c \in Proc : proc[c].pc = "free"

(* fork1(): the child is c and the parent goes on as r, or panics.         *)
Fork(q, r, c) ==
    \/ /\ CanFork
       /\ Becomes([Set(q, r) EXCEPT ![Child] = [c EXCEPT !.parent = q]], data)
    \/ ~CanFork /\ Exit(q)

(* wait(0), then on as r.                                                  *)
Wait(q, r) ==
    \/ \E c \in Children(q) : proc[c].pc = "zombie"
                              /\ Becomes([Set(q, r) EXCEPT ![c] = Free], data)
    \/ Children(q) = {} /\ Becomes(Set(q, r), data)

-----------------------------------------------------------------------------
(* The main loop.                                                          *)

IsCd(s) == Len(s) >= 3 /\ SubSeq(s, 1, 3) = <<"c", "d", P!Space>>

(* getcmd(), and cd, which the shell does itself.                          *)
getcmd ==
    /\ proc[Main].pc = "getcmd"
    /\ IF input = <<>> THEN Exit(Main) /\ UNCHANGED input
       ELSE /\ input' = Tail(input)
            /\ IF IsCd(Head(input)) THEN UNCHANGED <<proc, data>>
               ELSE Fork(Main, [proc[Main] EXCEPT !.pc = "mainwait"],
                         [proc[Main] EXCEPT !.pc = "parse", !.line = Head(input)])
    /\ UNCHANGED limit

MainWait ==
    /\ proc[Main].pc = "mainwait"
    /\ Wait(Main, [proc[Main] EXCEPT !.pc = "getcmd"])
    /\ UNCHANGED <<input, limit>>

Parse(q) ==
    /\ proc[q].pc = "parse"
    /\ \E cmd \in {P!parsecmd(proc[q].line)} :
          IF cmd = P!Panic THEN Exit(q)
          ELSE Becomes(Set(q, [proc[q] EXCEPT !.pc = "runcmd", !.cmd = cmd]), data)
    /\ UNCHANGED <<input, limit>>

-----------------------------------------------------------------------------
(* runcmd().                                                               *)

Runs(q, type) == proc[q].pc = "runcmd" /\ proc[q].cmd.type = type

As(q, cmd) == [proc[q] EXCEPT !.cmd = cmd, !.pc = "runcmd"]

(* A program starts, or there is no such program or no argument at all.    *)
RunExec(q) ==
    LET argv == proc[q].cmd.argv IN
    /\ Runs(q, "EXEC")
    /\ IF argv = <<>> \/ argv[1] \in Missing THEN Exit(q)
       ELSE Becomes(Set(q, [proc[q] EXCEPT !.pc = "program"]), data)
    /\ UNCHANGED <<input, limit>>

(* std is history: what the program's descriptors 0 and 1 shall be.        *)
RunRedir(q) ==
    LET c == proc[q].cmd
        f == <<"file", c.file>>
    IN /\ Runs(q, "REDIR")
       /\ IF c.file \in Missing THEN Exit(q)
          ELSE Becomes(Set(q, [As(q, c.cmd) EXCEPT !.fd = open(close(@, c.fd), f),
                                                   !.std[c.fd + 1] = f]), data)
       /\ UNCHANGED <<input, limit>>

RunList(q) ==
    /\ Runs(q, "LIST")
    /\ Fork(q, [proc[q] EXCEPT !.pc = "listwait"], As(q, proc[q].cmd.left))
    /\ UNCHANGED <<input, limit>>

ListWait(q) ==
    /\ proc[q].pc = "listwait"
    /\ Wait(q, As(q, proc[q].cmd.right))
    /\ UNCHANGED <<input, limit>>

RunBack(q) ==
    /\ Runs(q, "BACK")
    /\ \/ /\ CanFork
          /\ Becomes(Exited(q, [proc EXCEPT ![Child] = [As(q, proc[q].cmd.cmd) EXCEPT !.parent = q]]),
                     data)
       \/ ~CanFork /\ Exit(q)
    /\ UNCHANGED <<input, limit>>

(* A pipe nobody uses.                                                     *)
FreePipes == {i \in Pipes : ~Open(proc, ReadEnd(i)) /\ ~Open(proc, WriteEnd(i))}

(* pipe(p), or panic.                                                      *)
RunPipe(q) ==
    /\ Runs(q, "PIPE")
    /\ \/ FreePipes = {} /\ Exit(q)
       \/ /\ FreePipes # {}
          /\ LET i == CHOOSE x \in FreePipes : TRUE
                 fd1 == open(proc[q].fd, ReadEnd(i))
                 fd2 == open(fd1, WriteEnd(i))
             IN Becomes(Set(q, [proc[q] EXCEPT !.pc = "left", !.fd = fd2,
                                               !.p = <<Lowest(proc[q].fd), Lowest(fd1)>>]), data)
    /\ UNCHANGED <<input, limit>>

(* Variant: the standard descriptor is closed after the dup().             *)
Wired_late(fd, p, n, std) == close(close(close(dup(fd, p[n]), std), p[1]), p[2])

(* A child puts end n of the pipe in place of the descriptor std.          *)
Wired(fd, p, n, std) == close(close(dup(close(fd, std), p[n]), p[1]), p[2])

LeftChild(q) ==
    LET r == proc[q] IN
    [As(q, r.cmd.left) EXCEPT !.fd = Wired(@, r.p, 2, 1), !.std[2] = r.fd[r.p[2]], !.p = <<>>]
RightChild(q) ==
    LET r == proc[q] IN
    [As(q, r.cmd.right) EXCEPT !.fd = Wired(@, r.p, 1, 0), !.std[1] = r.fd[r.p[1]], !.p = <<>>]

ForkLeft(q) ==
    /\ proc[q].pc = "left"
    /\ Fork(q, [proc[q] EXCEPT !.pc = "right"], LeftChild(q))
    /\ UNCHANGED <<input, limit>>

ForkRight(q) ==
    /\ proc[q].pc = "right"
    /\ Fork(q, [proc[q] EXCEPT !.pc = "close"], RightChild(q))
    /\ UNCHANGED <<input, limit>>

(* Variant: the parent keeps the write end until it exits.                 *)
ClosePipe_keep(q) ==
    /\ proc[q].pc = "close"
    /\ Becomes(Set(q, [proc[q] EXCEPT !.pc = "wait1", !.p = <<>>,
                                      !.fd = close(@, proc[q].p[1])]), data)
    /\ UNCHANGED <<input, limit>>

ClosePipe(q) ==
    /\ proc[q].pc = "close"
    /\ Becomes(Set(q, [proc[q] EXCEPT !.pc = "wait1", !.p = <<>>,
                                      !.fd = close(close(@, proc[q].p[1]), proc[q].p[2])]), data)
    /\ UNCHANGED <<input, limit>>

PipeWait(q) ==
    /\ \/ proc[q].pc = "wait1" /\ Wait(q, [proc[q] EXCEPT !.pc = "wait2"])
       \/ proc[q].pc = "wait2" /\ Wait(q, [proc[q] EXCEPT !.pc = "exit"])
       \/ proc[q].pc = "exit" /\ Exit(q)
    /\ UNCHANGED <<input, limit>>

-----------------------------------------------------------------------------
(* Programs (external).  The first letter of the name says what one does:  *)
(* s sends some bytes, f copies its input to its output, others exit.      *)

IsPipe(f) == f \in {ReadEnd(i) : i \in Pipes} \cup {WriteEnd(i) : i \in Pipes}

(* write() of a byte to descriptor 1 from data d, then on as r.            *)
WriteByte(q, r, d) ==
    LET f == proc[q].fd[1] IN
    \/ ~IsPipe(f) /\ Becomes(Set(q, r), d)
    \/ IsPipe(f) /\ f[1] = "write" /\ ~Open(proc, ReadEnd(f[2])) /\ Exit(q)
    \/ /\ IsPipe(f) /\ f[1] = "write" /\ Open(proc, ReadEnd(f[2]))
       /\ d[f[2]] < PIPESIZE
       /\ Becomes(Set(q, r), [d EXCEPT ![f[2]] = @ + 1])

Program(q) ==
    LET kind == proc[q].cmd.argv[1][1]
        r == proc[q]
        f == r.fd[0]
    IN /\ r.pc = "program"
       /\ CASE kind = "s" -> IF r.sent = Sends THEN Exit(q)
                             ELSE WriteByte(q, [r EXCEPT !.sent = @ + 1], data)
            [] kind = "f" -> \/ r.sent = 1 /\ WriteByte(q, [r EXCEPT !.sent = 0], data)
                             \/ /\ r.sent = 0
                                /\ \/ ~IsPipe(f) /\ Exit(q)
                                   \/ /\ IsPipe(f) /\ data[f[2]] > 0
                                      /\ Becomes(Set(q, [r EXCEPT !.sent = 1]),
                                                 [data EXCEPT ![f[2]] = @ - 1])
                                   \/ /\ IsPipe(f) /\ data[f[2]] = 0
                                      /\ ~Open(proc, WriteEnd(f[2]))
                                      /\ Exit(q)
            [] OTHER -> Exit(q)
       /\ UNCHANGED <<input, limit>>

Step(q) == \/ Parse(q) \/ RunExec(q) \/ RunRedir(q) \/ RunList(q) \/ ListWait(q) \/ RunBack(q)
           \/ RunPipe(q) \/ ForkLeft(q) \/ ForkRight(q) \/ ClosePipe(q) \/ PipeWait(q) \/ Program(q)
           \/ q = Main /\ (getcmd \/ MainWait)

Next == \E q \in Proc : Step(q)

Spec == Init /\ [][Next]_vars /\ \A q \in Proc : WF_vars(Step(q))

-----------------------------------------------------------------------------
(* Properties.                                                             *)

(* The recursive descent accepts exactly the lines of the grammar and      *)
(* builds their one tree, and every string that nulterminate() has cut out *)
(* of the line is the word that stood there.                               *)
ParsesTheGrammar == \A q \in Proc : proc[q].pc = "parse" =>
    \E cmd \in {P!parsecmd(proc[q].line)} :
        Trees(proc[q].line) = IF cmd = P!Panic THEN {} ELSE {cmd}

(* A process that begins a command has descriptors 0, 1 and 2 and no other *)
(* open, so open() and dup() find the descriptor they want, no end of a    *)
(* pipe leaks into a program, and 0 and 1 are the pipe or file that the    *)
(* command asks for; and it has no children that a later wait(0) could     *)
(* mistake for its own.                                                    *)
CommandsStartClean == \A q \in Proc : proc[q].pc \in {"runcmd", "program"} =>
    /\ {n \in Fds : proc[q].fd[n] # Closed} = 0..2
    /\ proc[q].fd[0] = proc[q].std[1] /\ proc[q].fd[1] = proc[q].std[2]
    /\ Children(q) = {}

(* Every line is dealt with and all processes end: no process waits for a  *)
(* byte, for room in a pipe or for a child that will not come, also if the *)
(* process table was full half-way through a pipeline.                     *)
AllFinish == <>(Live = {})

=============================================================================
