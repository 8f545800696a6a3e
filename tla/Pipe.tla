-------------------------------- MODULE Pipe --------------------------------
(* Pipes: kernel/pipe.c. A pipe is a page with a ring of PIPESIZE bytes,   *)
(* two free-running uint counters and two flags for its open ends, all     *)
(* under pi->lock. Processes are threads th[p] inside a system call; the   *)
(* calls themselves, with the descriptors and the file table that lead to  *)
(* a pipe, are in module File.                                             *)
(*                                                                         *)
(* Each action is one turn of a loop, or what is done from one acquire of  *)
(* pi->lock to its release; plock[pi] says who holds it between turns.     *)
(* The counters are taken modulo UINT, which stands for 2^32 and, like it, *)
(* is a multiple of PIPESIZE. sleep() and wakeup() are those of Proc:      *)
(* asleep[p] is the channel a process waits on.                            *)
EXTENDS Integers, Sequences, FiniteSets

CONSTANTS P, Pipes, Byte, PIPESIZE, UINT, MAXN, Nil

ASSUME PipeAssumption ==
    /\ PIPESIZE \in Nat \ {0}
    /\ UINT \in Nat /\ UINT > PIPESIZE /\ UINT % PIPESIZE = 0

VARIABLES
    live,                           \* pages that kalloc() has given to pipes
    data, nread, nwrite, readopen, writeopen, plock,
    unseen,                         \* pipes with bytes put there since the last
                                    \* wakeup(&pi->nread); only the properties read it
    th, asleep, killed

ring == <<data, nread, nwrite>>
open == <<readopen, writeopen>>
pipe == <<live, ring, open, plock, unseen>>
proc == <<th, asleep, killed>>

(* A thread at pc with no system call in progress.                         *)
At(pc) == [pc |-> pc, f |-> <<>>, fd |-> 0, pi |-> Nil, np |-> Nil, w |-> FALSE,
           i |-> 0, n |-> 0, exiting |-> FALSE]

(* Where thread t goes on when fileclose() returns: to the next file to    *)
(* close, to the next descriptor in exit(), or back to the user.           *)
Closed(t) ==
    IF t.f # <<>> THEN [t EXCEPT !.pc = "fileclose"]
    ELSE IF t.exiting THEN [At("exit") EXCEPT !.exiting = TRUE] ELSE At("user")

(* What kfree() and kalloc() leave in a page: the same junk everywhere,    *)
(* which is neither 0 nor a byte that was written.                         *)
Junk == [k \in 0..PIPESIZE - 1 |-> Nil]

PipeInit ==
    /\ live = {}
    /\ data = [pi \in Pipes |-> Junk]
    /\ nread = [pi \in Pipes |-> 1] /\ nwrite = [pi \in Pipes |-> 1]
    /\ readopen = [pi \in Pipes |-> TRUE] /\ writeopen = [pi \in Pipes |-> TRUE]
    /\ plock = [pi \in Pipes |-> Nil]
    /\ unseen = {}
    /\ asleep = [p \in P |-> Nil]
    /\ killed = [p \in P |-> FALSE]

(* Process p is at pc and not asleep.                                      *)
Runs(p, pc) == asleep[p] = Nil /\ th[p].pc = pc

Goto(p, pc) == th' = [th EXCEPT ![p].pc = pc]

Return(p) == th' = [th EXCEPT ![p] = At("user")]

(* p holds pi->lock, or gets it now.                                       *)
Holds(p, pi) == plock[pi] \in {Nil, p}

Hold(p, pi) == plock' = [plock EXCEPT ![pi] = p]

Release(pi) == plock' = [plock EXCEPT ![pi] = Nil]

NREAD(pi) == <<pi, "nread">>
NWRITE(pi) == <<pi, "nwrite">>

wakeup(ch) == asleep' = [p \in P |-> IF asleep[p] = ch THEN Nil ELSE asleep[p]]

(* Variant: one place is left for a byte that is not there.                *)
Full_offbyone(pi) == nwrite[pi] = (nread[pi] + PIPESIZE + 1) % UINT

Full(pi) == nwrite[pi] = (nread[pi] + PIPESIZE) % UINT

Empty(pi) == nread[pi] = nwrite[pi]

-----------------------------------------------------------------------------
(* pipewrite(): th[p].i of the th[p].n bytes are written.                  *)

(* The reader has gone, or p is killed: return -1, without a wakeup.       *)
pipewrite_fail(p) ==
    LET pi == th[p].pi IN
    /\ Runs(p, "write") /\ Holds(p, pi) /\ th[p].i < th[p].n
    /\ ~readopen[pi] \/ killed[p]
    /\ Release(pi)
    /\ Return(p)
    /\ UNCHANGED <<live, ring, open, unseen, asleep, killed>>

pipewrite_full(p) ==
    LET pi == th[p].pi IN
    /\ Runs(p, "write") /\ Holds(p, pi) /\ th[p].i < th[p].n
    /\ readopen[pi] /\ ~killed[p] /\ Full(pi)
    /\ Hold(p, pi)
    /\ wakeup(NREAD(pi)) /\ unseen' = unseen \ {pi}
    /\ Goto(p, "write_sleep")
    /\ UNCHANGED <<live, ring, open, killed>>

(* sleep(&pi->nwrite, &pi->lock); back from it, the loop goes on.          *)
pipewrite_sleep(p) ==
    LET pi == th[p].pi IN
    /\ Runs(p, "write_sleep")
    /\ Release(pi)
    /\ asleep' = [asleep EXCEPT ![p] = NWRITE(pi)]
    /\ Goto(p, "write")
    /\ UNCHANGED <<live, ring, open, unseen, killed>>

pipewrite_byte(p, ch) ==
    LET pi == th[p].pi IN
    /\ Runs(p, "write") /\ Holds(p, pi) /\ th[p].i < th[p].n
    /\ readopen[pi] /\ ~killed[p] /\ ~Full(pi)
    /\ Hold(p, pi)
    /\ data' = [data EXCEPT ![pi][nwrite[pi] % PIPESIZE] = ch]
    /\ nwrite' = [nwrite EXCEPT ![pi] = (@ + 1) % UINT]
    /\ unseen' = unseen \cup {pi}
    /\ th' = [th EXCEPT ![p].i = @ + 1]
    /\ UNCHANGED <<live, nread, open, asleep, killed>>

(* All bytes are written, or copyin() of the next one fails.               *)
pipewrite_end(p) ==
    LET pi == th[p].pi IN
    /\ Runs(p, "write") /\ Holds(p, pi)
    /\ th[p].i < th[p].n => readopen[pi] /\ ~killed[p] /\ ~Full(pi)
    /\ wakeup(NREAD(pi)) /\ unseen' = unseen \ {pi}
    /\ Release(pi)
    /\ Return(p)
    /\ UNCHANGED <<live, ring, open, killed>>

-----------------------------------------------------------------------------
(* piperead()                                                              *)

piperead_wait(p) ==
    LET pi == th[p].pi IN
    /\ Runs(p, "read") /\ Holds(p, pi) /\ Empty(pi) /\ writeopen[pi]
    /\ \/ killed[p] /\ Release(pi) /\ Return(p)
       \/ ~killed[p] /\ Hold(p, pi) /\ Goto(p, "read_sleep")
    /\ UNCHANGED <<live, ring, open, unseen, asleep, killed>>

(* sleep(&pi->nread, &pi->lock)                                            *)
piperead_sleep(p) ==
    LET pi == th[p].pi IN
    /\ Runs(p, "read_sleep")
    /\ Release(pi)
    /\ asleep' = [asleep EXCEPT ![p] = NREAD(pi)]
    /\ Goto(p, "read")
    /\ UNCHANGED <<live, ring, open, unseen, killed>>

(* One byte is taken; copyout() fails at once or the loop goes on.         *)
piperead_byte(p) ==
    LET pi == th[p].pi IN
    /\ Runs(p, "read") \/ Runs(p, "copy")
    /\ Holds(p, pi) /\ ~Empty(pi) /\ th[p].i < th[p].n
    /\ Hold(p, pi)
    /\ nread' = [nread EXCEPT ![pi] = (@ + 1) % UINT]
    /\ \/ th' = [th EXCEPT ![p].pc = "copy", ![p].i = @ + 1]
       \/ th' = [th EXCEPT ![p].pc = "copy", ![p].i = th[p].n]
    /\ UNCHANGED <<live, data, nwrite, open, unseen, asleep, killed>>

(* Variant: the writers are not woken up.                                  *)
WakeWriters_not(pi) == UNCHANGED asleep

WakeWriters(pi) == wakeup(NWRITE(pi))

piperead_end(p) ==
    LET pi == th[p].pi IN
    /\ Runs(p, "copy") \/ (Runs(p, "read") /\ ~(Empty(pi) /\ writeopen[pi]))
    /\ Holds(p, pi) /\ (Empty(pi) \/ th[p].i = th[p].n)
    /\ WakeWriters(pi)
    /\ Release(pi)
    /\ Return(p)
    /\ UNCHANGED <<live, ring, open, unseen, killed>>

-----------------------------------------------------------------------------
(* The page of a pipe in pipealloc(), and pipeclose(th[p].pi, th[p].w).    *)

pipeinit(pi) ==
    /\ readopen' = [readopen EXCEPT ![pi] = TRUE]
    /\ writeopen' = [writeopen EXCEPT ![pi] = TRUE]
    /\ nwrite' = [nwrite EXCEPT ![pi] = 0]
    /\ nread' = [nread EXCEPT ![pi] = 0]
    /\ UNCHANGED data

(* The other end is closed already.                                        *)
Unused(pi, w) == IF w THEN ~readopen[pi] ELSE ~writeopen[pi]

(* kfree() comes after pi->lock is released, when nobody has pi any more.  *)
pipeclose(p) ==
    LET pi == th[p].pi
        w == th[p].w
        last == Unused(pi, w)
    IN
    /\ Runs(p, "pipeclose") /\ Holds(p, pi)
    /\ writeopen' = [writeopen EXCEPT ![pi] = last \/ (@ /\ ~w)]
    /\ readopen' = [readopen EXCEPT ![pi] = last \/ (@ /\ w)]
    /\ wakeup(IF w THEN NREAD(pi) ELSE NWRITE(pi))
    /\ unseen' = IF w THEN unseen \ {pi} ELSE unseen
    /\ \/ ~last /\ UNCHANGED <<live, ring>>
       \/ /\ last
          /\ live' = live \ {pi}
          /\ data' = [data EXCEPT ![pi] = Junk]
          /\ nread' = [nread EXCEPT ![pi] = 1]
          /\ nwrite' = [nwrite EXCEPT ![pi] = 1]
    /\ th' = [th EXCEPT ![p] = Closed(@)]
    /\ UNCHANGED <<plock, killed>>

PipeStep(p) ==
    \/ pipewrite_fail(p) \/ pipewrite_full(p) \/ pipewrite_sleep(p) \/ pipewrite_end(p)
    \/ \E ch \in Byte : pipewrite_byte(p, ch)
    \/ piperead_wait(p) \/ piperead_sleep(p) \/ piperead_byte(p) \/ piperead_end(p)
    \/ pipeclose(p)
=============================================================================
