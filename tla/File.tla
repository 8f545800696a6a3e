-------------------------------- MODULE File --------------------------------
(* Descriptors and the file table over pipes: kernel/file.c, the system    *)
(* calls of sysfile.c that take descriptors, and what fork() and exit() do *)
(* with the descriptors of a process (proc.c). Files here are pipe ends;   *)
(* inodes and devices behind a file are not part of this module.           *)
(*                                                                         *)
(* Each action is what is done under one acquire of ftable.lock or         *)
(* pi->lock, with the steps on p's own ofile that touch nothing shared.    *)
(* th[p].f is the list of files that p holds outside of its ofile: files   *)
(* just allocated, and files it still has to close.                        *)
EXTENDS Pipe

CONSTANTS Files, NOFILE

VARIABLES
    ref, type, writable, fpipe,     \* struct file: ref, type, writable, pipe
    ofile                           \* p->ofile

ftable == <<ref, type, writable, fpipe>>
vars == <<pipe, proc, ftable, ofile>>

FD == 0..NOFILE - 1

(* One process runs; a slot at "unused" has no process.                    *)
Init ==
    /\ PipeInit
    /\ \E p \in P : th = [q \in P |-> At(IF q = p THEN "user" ELSE "unused")]
    /\ ref = [f \in Files |-> 0]
    /\ type = [f \in Files |-> "NONE"]
    /\ writable = [f \in Files |-> FALSE]
    /\ fpipe = [f \in Files |-> Nil]
    /\ ofile = [p \in P |-> [fd \in FD |-> Nil]]

Starts(p) == Runs(p, "user") /\ ~killed[p]

FreeFiles == {f \in Files : ref[f] = 0}

FreeFds(p) == {fd \in FD : ofile[p][fd] = Nil}

(* The descriptor fdalloc() finds.                                         *)
Lowest(S) == CHOOSE fd \in S : \A e \in S : fd <= e

-----------------------------------------------------------------------------
(* close() and exit()                                                      *)

(* Variant: the type of a free file stays.                                 *)
FreeFile_keeps_type(f) == UNCHANGED type

FreeFile(f) == type' = [type EXCEPT ![f] = "NONE"]

(* What fileclose(f) does under ftable.lock, for p at thread t; the last   *)
(* close of a pipe end goes on with pipeclose().                           *)
fileclose(p, f, t) ==
    /\ ref' = [ref EXCEPT ![f] = @ - 1]
    /\ \/ ref[f] > 1 /\ th' = [th EXCEPT ![p] = Closed(t)] /\ UNCHANGED type
       \/ /\ ref[f] = 1
          /\ FreeFile(f)
          /\ th' = [th EXCEPT ![p] =
                      IF type[f] = "NONE" THEN Closed(t)
                      ELSE [t EXCEPT !.pc = "pipeclose", !.pi = fpipe[f], !.w = writable[f]]]
    /\ UNCHANGED <<pipe, asleep, killed, writable, fpipe>>

(* A pipe() that failed closes its files.                                  *)
fileclose_next(p) ==
    /\ Runs(p, "fileclose")
    /\ fileclose(p, Head(th[p].f), [th[p] EXCEPT !.f = Tail(@)])
    /\ UNCHANGED ofile

sys_close(p, fd) ==
    /\ Starts(p) /\ ofile[p][fd] # Nil
    /\ ofile' = [ofile EXCEPT ![p][fd] = Nil]
    /\ fileclose(p, ofile[p][fd], th[p])

(* exit(), called by p or because p is killed: close the next descriptor.  *)
exit(p) ==
    LET fd == Lowest(FD \ FreeFds(p)) IN
    /\ Runs(p, "user") \/ Runs(p, "exit")
    /\ FreeFds(p) # FD
    /\ fileclose(p, ofile[p][fd], [At("exit") EXCEPT !.exiting = TRUE])
    /\ ofile' = [ofile EXCEPT ![p][fd] = Nil]

(* The process is a ZOMBIE and its slot is freed at some time.             *)
exit_done(p) ==
    /\ Runs(p, "user") \/ Runs(p, "exit")
    /\ FreeFds(p) = FD
    /\ th' = [th EXCEPT ![p] = At("unused")]
    /\ killed' = [killed EXCEPT ![p] = FALSE]
    /\ UNCHANGED <<pipe, asleep, ftable, ofile>>

-----------------------------------------------------------------------------
(* dup() and fork()                                                        *)

filedup(f) == ref' = [ref EXCEPT ![f] = @ + 1]

sys_dup(p, fd) ==
    /\ Starts(p) /\ ofile[p][fd] # Nil /\ FreeFds(p) # {}
    /\ ofile' = [ofile EXCEPT ![p][Lowest(FreeFds(p))] = ofile[p][fd]]
    /\ filedup(ofile[p][fd])
    /\ UNCHANGED <<pipe, proc, type, writable, fpipe>>

(* fork(): np is a slot that allocproc() has found.                        *)
fork(p, np) ==
    /\ Starts(p) /\ th[np].pc = "unused"
    /\ th' = [th EXCEPT ![p].pc = "fork", ![p].np = np, ![np].pc = "forked"]
    /\ UNCHANGED <<pipe, asleep, killed, ftable, ofile>>

(* The descriptors that the loop of fork() has still to copy.              *)
Uncopied(p) == {fd \in FD \ FreeFds(p) : fd >= th[p].fd}

fork_dup(p) ==
    LET fd == Lowest(Uncopied(p)) IN
    /\ Runs(p, "fork") /\ Uncopied(p) # {}
    /\ filedup(ofile[p][fd])
    /\ ofile' = [ofile EXCEPT ![th[p].np][fd] = ofile[p][fd]]
    /\ th' = [th EXCEPT ![p].fd = fd + 1]
    /\ UNCHANGED <<pipe, asleep, killed, type, writable, fpipe>>

fork_done(p) ==
    /\ Runs(p, "fork") /\ Uncopied(p) = {}
    /\ th' = [th EXCEPT ![p] = At("user"), ![th[p].np] = At("user")]
    /\ UNCHANGED <<pipe, asleep, killed, ftable, ofile>>

-----------------------------------------------------------------------------
(* pipe(), read() and write()                                              *)

(* filealloc(), for the read end and then for the write end; without a     *)
(* free file, the one p has is closed again.                               *)
filealloc(p) ==
    /\ Starts(p) \/ (Runs(p, "pipe") /\ Len(th[p].f) < 2)
    /\ \/ \E f \in FreeFiles :
             /\ ref' = [ref EXCEPT ![f] = 1]
             /\ th' = [th EXCEPT ![p].pc = "pipe", ![p].f = Append(@, f)]
       \/ FreeFiles = {} /\ th[p].f # <<>> /\ Goto(p, "fileclose") /\ UNCHANGED ref
    /\ UNCHANGED <<pipe, asleep, killed, type, writable, fpipe, ofile>>

(* The rest of pipealloc(), with page pi.                                  *)
pipealloc(pi, rf, wf) ==
    /\ live' = live \cup {pi}
    /\ pipeinit(pi)
    /\ type' = [type EXCEPT ![rf] = "PIPE", ![wf] = "PIPE"]
    /\ writable' = [writable EXCEPT ![rf] = FALSE, ![wf] = TRUE]
    /\ fpipe' = [fpipe EXCEPT ![rf] = pi, ![wf] = pi]

(* The rest of sys_pipe(): the files are closed again if there is no page, *)
(* if p has not two descriptors, or if copyout() of their numbers fails.   *)
sys_pipe(p) ==
    LET rf == th[p].f[1]
        wf == th[p].f[2]
        fd0 == Lowest(FreeFds(p))
        fd1 == Lowest(FreeFds(p) \ {fd0})
    IN
    /\ Runs(p, "pipe") /\ Len(th[p].f) = 2
    /\ \/ /\ \E pi \in Pipes \ live : pipealloc(pi, rf, wf)
          /\ \/ /\ Cardinality(FreeFds(p)) >= 2
                /\ ofile' = [ofile EXCEPT ![p][fd0] = rf, ![p][fd1] = wf]
                /\ Return(p)
             \/ Goto(p, "fileclose") /\ UNCHANGED ofile
       \/ /\ Goto(p, "fileclose")
          /\ UNCHANGED <<live, ring, open, type, writable, fpipe, ofile>>
    /\ UNCHANGED <<plock, unseen, asleep, killed, ref>>

(* fileread() and filewrite() of a file that is open for it. A shorter     *)
(* call does what a longer one does whose copyin() or copyout() fails.     *)
sys_read(p, fd) ==
    LET f == ofile[p][fd] IN
    /\ Starts(p) /\ f # Nil /\ ~writable[f]
    /\ th' = [th EXCEPT ![p] = [@ EXCEPT !.pc = "read", !.pi = fpipe[f], !.n = MAXN]]
    /\ UNCHANGED <<pipe, asleep, killed, ftable, ofile>>

sys_write(p, fd) ==
    LET f == ofile[p][fd] IN
    /\ Starts(p) /\ f # Nil /\ writable[f]
    /\ th' = [th EXCEPT ![p] = [@ EXCEPT !.pc = "write", !.pi = fpipe[f], !.n = MAXN]]
    /\ UNCHANGED <<pipe, asleep, killed, ftable, ofile>>

(* kill(), by a process that this module does not follow.                  *)
kill(p) ==
    /\ th[p].pc # "unused" /\ ~killed[p]
    /\ killed' = [killed EXCEPT ![p] = TRUE]
    /\ asleep' = [asleep EXCEPT ![p] = Nil]
    /\ UNCHANGED <<pipe, th, ftable, ofile>>

FileStep(p) ==
    \/ fileclose_next(p) \/ exit(p) \/ exit_done(p) \/ fork_dup(p) \/ fork_done(p)
    \/ filealloc(p) \/ sys_pipe(p) \/ kill(p)
    \/ \E np \in P : fork(p, np)
    \/ \E fd \in FD : sys_close(p, fd) \/ sys_dup(p, fd) \/ sys_read(p, fd) \/ sys_write(p, fd)

Next == \E p \in P : FileStep(p) \/ (PipeStep(p) /\ UNCHANGED <<ftable, ofile>>)

Spec == Init /\ [][Next]_vars

-----------------------------------------------------------------------------
(* Properties.                                                             *)

(* Every variable has its type, and pi->lock is held by a process that is  *)
(* awake in the middle of a read or a write of that pipe.                  *)
TypeOK ==
    /\ live \subseteq Pipes /\ unseen \subseteq Pipes
    /\ data \in [Pipes -> [0..PIPESIZE - 1 -> Byte \cup {Nil}]]
    /\ nread \in [Pipes -> 0..UINT - 1] /\ nwrite \in [Pipes -> 0..UINT - 1]
    /\ readopen \in [Pipes -> BOOLEAN] /\ writeopen \in [Pipes -> BOOLEAN]
    /\ plock \in [Pipes -> P \cup {Nil}]
    /\ \A pi \in Pipes : plock[pi] # Nil =>
          /\ th[plock[pi]].pi = pi /\ asleep[plock[pi]] = Nil
          /\ th[plock[pi]].pc \in {"read", "copy", "read_sleep", "write", "write_sleep"}
    /\ asleep \in [P -> {Nil} \cup (Pipes \X {"nread", "nwrite"})]
    /\ killed \in [P -> BOOLEAN]
    /\ ref \in [Files -> 0..Cardinality(P) * NOFILE]
    /\ type \in [Files -> {"NONE", "PIPE"}]
    /\ ofile \in [P -> [FD -> Files \cup {Nil}]]

(* References to file f: descriptors, and files a call holds outside ofile. *)
Descriptors(f) == {r \in P \X FD : ofile[r[1]][r[2]] = f}

InHand(f) == {p \in P : \E k \in DOMAIN th[p].f : th[p].f[k] = f}

(* The count of a file is exactly the number of references to it, through  *)
(* every interleaving of dup, fork, close, exit and a pipe() that fails    *)
(* half way: the panics of filedup() and fileclose() are unreachable and   *)
(* no file is left behind.                                                 *)
FileRefsExact ==
    \A f \in Files : ref[f] = Cardinality(Descriptors(f)) + Cardinality(InHand(f))

(* Some process still has to close this end of pi.                         *)
Closing(pi, w) ==
    \E p \in P : th[p].pc = "pipeclose" /\ th[p].pi = pi /\ th[p].w = w

Referenced(pi, w) ==
    \E f \in Files : ref[f] > 0 /\ type[f] = "PIPE" /\ fpipe[f] = pi /\ writable[f] = w

(* An end of a pipe is open exactly as long as a file refers to it or its  *)
(* last close is under way: readers see the end of file once, and only     *)
(* once, all writers are gone, however often descriptors were copied.      *)
PipeEndsExact ==
    \A pi \in live :
       /\ writeopen[pi] <=> Referenced(pi, TRUE) \/ Closing(pi, TRUE)
       /\ readopen[pi] <=> Referenced(pi, FALSE) \/ Closing(pi, FALSE)

(* The page of a pipe is not given back while a process reads, writes,     *)
(* sleeps in or closes that pipe.                                          *)
PipeOutlivesUsers ==
    \A p \in P :
       th[p].pc \in {"read", "copy", "read_sleep", "write", "write_sleep", "pipeclose"} =>
          th[p].pi \in live

(* Files and pipes are given back exactly when their last user is gone.    *)
ReferencesExact == TypeOK /\ FileRefsExact /\ PipeEndsExact /\ PipeOutlivesUsers

(* No wakeup is lost. Whenever pi->lock is free, a writer sleeps only in a *)
(* full pipe with a reader, and a reader only in an empty pipe with a      *)
(* writer, but for one case: pipewrite() that fails half way (pipe.c:84)   *)
(* returns without a wakeup, and the bytes it wrote stay unseen.           *)
SleepersHaveReason ==
    \A p \in P, pi \in Pipes : plock[pi] = Nil =>
       /\ asleep[p] = NWRITE(pi) => Full(pi) /\ readopen[pi]
       /\ asleep[p] = NREAD(pi) => writeopen[pi] /\ (Empty(pi) \/ pi \in unseen)

(* The ring with its wrapping counters is a bounded queue of bytes with    *)
(* two ends (module ByteQueue).                                            *)
Contents(pi) ==
    [k \in 1..(nwrite[pi] - nread[pi]) % UINT |-> data[pi][(nread[pi] + k - 1) % PIPESIZE]]

Ends(pi) ==
    {end \in {"r", "w"} : pi \in live /\ (IF end = "r" THEN readopen[pi] ELSE writeopen[pi])}

BQ == INSTANCE ByteQueue WITH
         CAPACITY <- PIPESIZE,
         queue <- [pi \in Pipes |-> Contents(pi)],
         ends <- [pi \in Pipes |-> Ends(pi)]

(* Every step of the pipes is a step of the queues or leaves them alone.   *)
BytesInOrder == BQ!Spec
=============================================================================
