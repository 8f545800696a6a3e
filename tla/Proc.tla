-------------------------------- MODULE Proc --------------------------------
(***************************************************************************)
(* The process table of kernel/proc.c on several CPUs: allocproc, fork,    *)
(* exit, reparent, wait, kill, sleep, wakeup, yield, sched, the RR         *)
(* scheduler(), and the traps that enter them.                             *)
(*                                                                         *)
(* A CPU runs either its scheduler thread or the kernel thread of one      *)
(* process; p->lock is held by a CPU across swtch().  A step is a critical *)
(* section on one p->lock, or the part of a longer critical section        *)
(* between two such.  Loops over proc[] take one step per slot, except the *)
(* one of kill().                                                          *)
(*                                                                         *)
(* Files, memory and names of a process are not part of this module: that  *)
(* wait() panics over a child whose uvmcowpy() failed is in CowMemory.     *)
(***************************************************************************)
EXTENDS Integers, FiniteSets

CONSTANTS CPU,
          NPROC,      \* slots of proc[]; slot 1 is initproc
          MAXPID,     \* bound: pids handed out in a behaviour
          MAXKILL,    \* bound: calls of kill() that find their pid
          NoCPU

ASSUME ProcAssumption ==
    /\ NPROC \in Nat \ {0} /\ MAXPID \in Nat \ {0} /\ MAXKILL \in Nat
    /\ NoCPU \notin CPU

VARIABLES state, chan, killed, pid, parent,  \* fields of proc[p]
          plock,      \* plock[p]: the CPU that holds p->lock
          wait_lock,  \* the CPU that holds wait_lock
          nextpid,
          run,        \* run[c]: the process whose kernel thread c runs, 0: the scheduler
          cproc,      \* cpus[c].proc
          sch,        \* sch[c]: pc and loop variable of the scheduler thread
          th,         \* th[p]: pc and local variables of the kernel thread of p
          kills       \* calls of kill() that found their pid

table == <<state, chan, killed, pid, parent>>
locks == <<plock, wait_lock>>
cpus == <<run, cproc, sch>>
vars == <<table, locks, nextpid, cpus, th, kills>>

Slot == 1..NPROC
initproc == 1

States == {"UNUSED", "USED", "SLEEPING", "RUNNABLE", "RUNNING", "ZOMBIE"}

(* Thread of a process that next returns from sched() and goes on at pc.   *)
Switched(pc) ==
    [pc |-> "sched", res |-> pc, i |-> 1, j |-> 1, chan |-> 0, np |-> 0, kids |-> FALSE]

At(pc) == [Switched("user") EXCEPT !.pc = pc]

Init ==
    /\ state = [p \in Slot |-> IF p = initproc THEN "RUNNABLE" ELSE "UNUSED"]
    /\ chan = [p \in Slot |-> 0]
    /\ killed = [p \in Slot |-> FALSE]
    /\ pid = [p \in Slot |-> IF p = initproc THEN 1 ELSE 0]
    /\ parent = [p \in Slot |-> 0]
    /\ plock = [p \in Slot |-> NoCPU]
    /\ wait_lock = NoCPU
    /\ nextpid = 2
    /\ run = [c \in CPU |-> 0]
    /\ cproc = [c \in CPU |-> 0]
    /\ sch = [c \in CPU |-> [pc |-> "scan", p |-> 1]]
    /\ th = [p \in Slot |-> Switched("user")]
    /\ kills = 0

Free(p) == plock[p] = NoCPU

(* Process p runs on CPU c and its thread is at pc.                        *)
Runs(c, p, pc) == run[c] = p /\ th[p].pc = pc

Goto(p, pc) == th' = [th EXCEPT ![p].pc = pc]

(* A system call is over. "user" stands for the way back through usertrap()*)
(* as well: what comes next is a test of killed(p), there or on the next   *)
(* trap, or a timer interrupt, which may come between the test and yield().*)
Return(p) == th' = [th EXCEPT ![p] = At("user")]

-----------------------------------------------------------------------------
(* The RR scheduler and sched().                                           *)

(* Variant: the scan never gets past a slot.                               *)
NextSlot_stuck(p) == IF p = NPROC THEN 1 ELSE p

NextSlot(p) == IF p = NPROC THEN 1 ELSE p + 1

scheduler(c) ==
    LET p == sch[c].p IN
    /\ run[c] = 0 /\ sch[c].pc = "scan" /\ Free(p)
    /\ \/ /\ state[p] = "RUNNABLE"
          /\ state' = [state EXCEPT ![p] = "RUNNING"]
          /\ cproc' = [cproc EXCEPT ![c] = p]
          /\ run' = [run EXCEPT ![c] = p]
          /\ plock' = [plock EXCEPT ![p] = c]
          /\ sch' = [sch EXCEPT ![c].pc = "back"]
       \/ /\ state[p] # "RUNNABLE"
          /\ sch' = [sch EXCEPT ![c].p = NextSlot(p)]
          /\ UNCHANGED <<state, cproc, run, plock>>
    /\ UNCHANGED <<chan, killed, pid, parent, wait_lock, nextpid, th, kills>>

(* After swtch() has come back to the scheduler thread.                    *)
scheduler_back(c) ==
    /\ run[c] = 0 /\ sch[c].pc = "back"
    /\ cproc' = [cproc EXCEPT ![c] = 0]
    /\ plock' = [plock EXCEPT ![sch[c].p] = NoCPU]
    /\ sch' = [sch EXCEPT ![c] = [pc |-> "scan", p |-> NextSlot(sch[c].p)]]
    /\ UNCHANGED <<table, wait_lock, nextpid, run, th, kills>>

(* sched(): swtch() to the scheduler thread of the CPU.                    *)
sched(c, p) ==
    /\ Runs(c, p, "sched") /\ state[p] # "RUNNING"
    /\ run' = [run EXCEPT ![c] = 0]
    /\ UNCHANGED <<table, locks, nextpid, cproc, sch, th, kills>>

(* The return from sched() into yield(), sleep() or forkret(), all of      *)
(* which release p->lock; sleep() clears p->chan.                          *)
sched_return(c, p) ==
    /\ Runs(c, p, "sched") /\ state[p] = "RUNNING"
    /\ plock' = [plock EXCEPT ![p] = NoCPU]
    /\ chan' = [chan EXCEPT ![p] = 0]
    /\ th' = [th EXCEPT ![p].pc = th[p].res]
    /\ UNCHANGED <<state, killed, pid, parent, wait_lock, nextpid, cpus, kills>>

(* Points of the kernel thread at which it holds no lock, so that          *)
(* interrupts are on and a timer interrupt makes it yield(); panic() spins *)
(* with interrupts as they were.                                           *)
Interruptible == {"user", "fork", "fork_parent", "fork_run", "exit", "wait", "panic"}

yield(c, p) ==
    /\ run[c] = p /\ th[p].pc \in Interruptible /\ Free(p)
    /\ state' = [state EXCEPT ![p] = "RUNNABLE"]
    /\ plock' = [plock EXCEPT ![p] = c]
    /\ th' = [th EXCEPT ![p] = [@ EXCEPT !.res = th[p].pc, !.pc = "sched"]]
    /\ UNCHANGED <<chan, killed, pid, parent, wait_lock, nextpid, cpus, kills>>

-----------------------------------------------------------------------------
(* System calls: entry, and the test of killed(p) on the way in and out.   *)

syscall(c, p, call) ==
    /\ Runs(c, p, "user") /\ Free(p) /\ ~killed[p]
    /\ Goto(p, call)
    /\ UNCHANGED <<table, locks, nextpid, cpus, kills>>

usertrap_killed(c, p) ==
    /\ Runs(c, p, "user") /\ Free(p) /\ killed[p]
    /\ Goto(p, "exit")
    /\ UNCHANGED <<table, locks, nextpid, cpus, kills>>

-----------------------------------------------------------------------------
(* fork() *)

(* Variant: the slot found is not marked USED.                             *)
MarkUsed_not(q) == UNCHANGED state

MarkUsed(q) == state' = [state EXCEPT ![q] = "USED"]

(* One slot of the loop in allocproc(); the slot found stays locked.       *)
allocproc(c, p) ==
    LET q == th[p].i IN
    /\ Runs(c, p, "fork") /\ q \in Slot /\ Free(q)
    /\ \/ /\ state[q] = "UNUSED" /\ nextpid <= MAXPID
          /\ MarkUsed(q)
          /\ pid' = [pid EXCEPT ![q] = nextpid]
          /\ nextpid' = nextpid + 1
          /\ plock' = [plock EXCEPT ![q] = c]
          /\ th' = [th EXCEPT ![p] = [@ EXCEPT !.pc = "fork_copy", !.np = q], ![q] = Switched("user")]
       \/ /\ state[q] # "UNUSED"
          /\ th' = [th EXCEPT ![p].i = q + 1]
          /\ UNCHANGED <<state, pid, plock, nextpid>>
    /\ UNCHANGED <<chan, killed, parent, wait_lock, cpus, kills>>

allocproc_none(c, p) ==
    /\ Runs(c, p, "fork")
    /\ th[p].i > NPROC \/ nextpid > MAXPID
    /\ Return(p)
    /\ UNCHANGED <<table, locks, nextpid, cpus, kills>>

(* What freeproc(q) does to the table.                                     *)
freeproc(q) ==
    /\ state' = [state EXCEPT ![q] = "UNUSED"]
    /\ chan' = [chan EXCEPT ![q] = 0]
    /\ killed' = [killed EXCEPT ![q] = FALSE]
    /\ pid' = [pid EXCEPT ![q] = 0]
    /\ parent' = [parent EXCEPT ![q] = 0]

(* Memory for the child is not available in allocproc(); fork() does not   *)
(* notice that it is not in uvmcowpy().                                    *)
fork_fail(c, p) ==
    /\ Runs(c, p, "fork_copy")
    /\ freeproc(th[p].np)
    /\ plock' = [plock EXCEPT ![th[p].np] = NoCPU]
    /\ Return(p)
    /\ UNCHANGED <<wait_lock, nextpid, cpus, kills>>

fork_copied(c, p) ==
    /\ Runs(c, p, "fork_copy")
    /\ plock' = [plock EXCEPT ![th[p].np] = NoCPU]
    /\ Goto(p, "fork_parent")
    /\ UNCHANGED <<table, wait_lock, nextpid, cpus, kills>>

fork_parent(c, p) ==
    /\ Runs(c, p, "fork_parent") /\ wait_lock = NoCPU
    /\ parent' = [parent EXCEPT ![th[p].np] = p]
    /\ Goto(p, "fork_run")
    /\ UNCHANGED <<state, chan, killed, pid, locks, nextpid, cpus, kills>>

fork_run(c, p) ==
    /\ Runs(c, p, "fork_run") /\ Free(th[p].np)
    /\ state' = [state EXCEPT ![th[p].np] = "RUNNABLE"]
    /\ Return(p)
    /\ UNCHANGED <<chan, killed, pid, parent, locks, nextpid, cpus, kills>>

-----------------------------------------------------------------------------
(* exit(), with reparent() and wakeup() under wait_lock.                   *)

exit(c, p) ==
    /\ Runs(c, p, "exit") /\ p # initproc /\ wait_lock = NoCPU
    /\ wait_lock' = c
    /\ Goto(p, "reparent")
    /\ UNCHANGED <<table, plock, nextpid, cpus, kills>>

(* panic("init exiting"): init has called exit() or was killed.            *)
exit_init(c, p) ==
    /\ Runs(c, p, "exit") /\ p = initproc
    /\ Goto(p, "panic")
    /\ UNCHANGED <<table, locks, nextpid, cpus, kills>>

(* The children of p from its loop index on; p->parent only changes under  *)
(* wait_lock, which p holds, so that the slots between may be skipped.     *)
Children(p) == {q \in Slot : q >= th[p].i /\ parent[q] = p}

IsNextChild(p, q) == q \in Children(p) /\ \A r \in Children(p) : q <= r

HandOver(q) == parent' = [parent EXCEPT ![q] = initproc]

(* The loop of reparent(): a child handed over starts wakeup(initproc).    *)
reparent(c, p) ==
    /\ Runs(c, p, "reparent")
    /\ \E q \in Slot :
          /\ IsNextChild(p, q)
          /\ HandOver(q)
          /\ th' = [th EXCEPT ![p] = [@ EXCEPT !.pc = "wakeup", !.i = q + 1, !.j = 1,
                                               !.chan = initproc]]
    /\ UNCHANGED <<state, chan, killed, pid, locks, nextpid, cpus, kills>>

(* Variant: wakeup(p) instead of wakeup(p->parent).                        *)
ExitChan_self(p) == p

ExitChan(p) == parent[p]

(* reparent() is over: wakeup(p->parent).                                  *)
exit_wakeup(c, p) ==
    /\ Runs(c, p, "reparent") /\ Children(p) = {}
    /\ th' = [th EXCEPT ![p] = [@ EXCEPT !.pc = "wakeup", !.i = NPROC + 2, !.j = 1,
                                         !.chan = ExitChan(p)]]
    /\ UNCHANGED <<table, locks, nextpid, cpus, kills>>

(* One slot of wakeup(chan), which skips myproc(). After the last slot it  *)
(* returns into the loop of reparent(), or into exit().                    *)
wakeup(c, p) ==
    LET q == th[p].j IN
    /\ Runs(c, p, "wakeup")
    /\ q # p => Free(q)
    /\ state' = IF q # p /\ state[q] = "SLEEPING" /\ chan[q] = th[p].chan
                THEN [state EXCEPT ![q] = "RUNNABLE"] ELSE state
    /\ \/ q < NPROC /\ th' = [th EXCEPT ![p].j = q + 1]
       \/ q = NPROC /\ Goto(p, IF th[p].i = NPROC + 2 THEN "exit_zombie" ELSE "reparent")
    /\ UNCHANGED <<chan, killed, pid, parent, locks, nextpid, cpus, kills>>

exit_zombie(c, p) ==
    /\ Runs(c, p, "exit_zombie") /\ Free(p)
    /\ state' = [state EXCEPT ![p] = "ZOMBIE"]
    /\ plock' = [plock EXCEPT ![p] = c]
    /\ wait_lock' = NoCPU
    /\ th' = [th EXCEPT ![p] = Switched("dead")]
    /\ UNCHANGED <<chan, killed, pid, parent, nextpid, cpus, kills>>

-----------------------------------------------------------------------------
(* wait() and waitx(), which differ only in the times that waitx reports   *)
(* and in how they read p->killed.                                         *)

wait(c, p) ==
    /\ Runs(c, p, "wait") /\ wait_lock = NoCPU
    /\ wait_lock' = c
    /\ th' = [th EXCEPT ![p] = At("wait_scan")]
    /\ UNCHANGED <<table, plock, nextpid, cpus, kills>>

(* A child that has not exited.                                            *)
wait_scan(c, p) ==
    /\ Runs(c, p, "wait_scan")
    /\ \E q \in Slot :
          /\ IsNextChild(p, q) /\ Free(q) /\ state[q] # "ZOMBIE"
          /\ th' = [th EXCEPT ![p] = [@ EXCEPT !.i = q + 1, !.kids = TRUE]]
    /\ UNCHANGED <<table, locks, nextpid, cpus, kills>>

(* An exited child is found: it is freed, unless copyout() of its status   *)
(* fails; init passes no address (user/init.c:42).                         *)
wait_found(c, p) ==
    /\ Runs(c, p, "wait_scan")
    /\ \E q \in Slot :
          /\ IsNextChild(p, q) /\ Free(q) /\ state[q] = "ZOMBIE"
          /\ freeproc(q) \/ (p # initproc /\ UNCHANGED table)
    /\ wait_lock' = NoCPU
    /\ Return(p)
    /\ UNCHANGED <<plock, nextpid, cpus, kills>>

(* No exited child: return if there are no children or p is killed.        *)
wait_none(c, p) ==
    /\ Runs(c, p, "wait_scan") /\ Children(p) = {} /\ Free(p)
    /\ \/ /\ ~th[p].kids \/ killed[p]
          /\ wait_lock' = NoCPU
          /\ Return(p)
       \/ /\ th[p].kids /\ ~killed[p]
          /\ Goto(p, "sleep")
          /\ UNCHANGED wait_lock
    /\ UNCHANGED <<table, plock, nextpid, cpus, kills>>

(* Variant: sleep() keeps the lock it was given.                           *)
sleep_keeps_lk(c, p) ==
    /\ Runs(c, p, "sleep") /\ Free(p)
    /\ chan' = [chan EXCEPT ![p] = p]
    /\ state' = [state EXCEPT ![p] = "SLEEPING"]
    /\ plock' = [plock EXCEPT ![p] = c]
    /\ th' = [th EXCEPT ![p] = Switched("wait")]
    /\ UNCHANGED <<killed, pid, parent, wait_lock, nextpid, cpus, kills>>

(* sleep(p, &wait_lock)                                                    *)
sleep(c, p) ==
    /\ Runs(c, p, "sleep") /\ Free(p)
    /\ wait_lock' = NoCPU
    /\ chan' = [chan EXCEPT ![p] = p]
    /\ state' = [state EXCEPT ![p] = "SLEEPING"]
    /\ plock' = [plock EXCEPT ![p] = c]
    /\ th' = [th EXCEPT ![p] = Switched("wait")]
    /\ UNCHANGED <<killed, pid, parent, nextpid, cpus, kills>>

-----------------------------------------------------------------------------
(* kill(): any pid will do, that of init and 0, the pid of every UNUSED    *)
(* slot, included.  Its loop is one step, at the slot that has the pid     *)
(* when the loop gets there; if there is none kill() changes nothing.  The *)
(* caller may have been killed since its system call began.                *)

kill(c, p, target) ==
    /\ Runs(c, p, "user") /\ kills < MAXKILL
    /\ \E q \in Slot :
          /\ Free(q) /\ pid[q] = target
          /\ killed' = [killed EXCEPT ![q] = TRUE]
          /\ state' = IF state[q] = "SLEEPING" THEN [state EXCEPT ![q] = "RUNNABLE"] ELSE state
    /\ kills' = kills + 1
    /\ UNCHANGED <<chan, pid, parent, locks, nextpid, cpus, th>>

-----------------------------------------------------------------------------
(* Steps the kernel takes by itself, and the choices of user programs.     *)
Switch(c, p) == sched(c, p) \/ sched_return(c, p)

Work(c, p) ==
    \/ usertrap_killed(c, p)
    \/ allocproc(c, p) \/ allocproc_none(c, p) \/ fork_fail(c, p) \/ fork_copied(c, p)
    \/ fork_parent(c, p) \/ fork_run(c, p)
    \/ exit(c, p) \/ exit_init(c, p) \/ reparent(c, p) \/ exit_wakeup(c, p) \/ wakeup(c, p) \/ exit_zombie(c, p)
    \/ wait(c, p) \/ wait_scan(c, p) \/ wait_found(c, p) \/ wait_none(c, p) \/ sleep(c, p)

Program(c, p) ==
    \/ \E call \in {"fork", "exit", "wait"} : syscall(c, p, call)
    \/ \E target \in 0..MAXPID : kill(c, p, target)

Next ==
    \E c \in CPU :
       \/ scheduler(c) \/ scheduler_back(c)
       \/ \E p \in Slot : Switch(c, p) \/ Work(c, p) \/ yield(c, p) \/ Program(c, p)

Spec == Init /\ [][Next]_vars

(* A CPU keeps executing, a spinlock that is free again and again is       *)
(* acquired at last, timer interrupts do not stop but for a panic() that   *)
(* was entered without interrupts, and init calls wait() in a loop         *)
(* (user/init.c).                                                          *)
Fairness ==
    /\ \A c \in CPU : SF_vars(scheduler(c)) /\ WF_vars(scheduler_back(c))
    /\ \A p \in Slot :
          /\ SF_vars(\E c \in CPU : Switch(c, p))
          /\ SF_vars(\E c \in CPU : Work(c, p))
          /\ SF_vars(\E c \in CPU : yield(c, p) /\ th[p].pc # "panic")
    /\ SF_vars(\E c \in CPU : syscall(c, initproc, "wait"))

FairSpec == Spec /\ Fairness

-----------------------------------------------------------------------------
(* Properties.                                                             *)

Pcs == {"sched", "dead", "reparent", "wakeup", "exit_zombie", "fork_copy", "wait_scan", "sleep"}
       \cup Interruptible

ThreadType ==
    [pc : Pcs, res : {"dead"} \cup Interruptible, i : 1..NPROC + 2, j : Slot,
     chan : 0..NPROC, np : 0..NPROC, kids : BOOLEAN]

(* Every variable has its type.                                            *)
TypeOK ==
    /\ state \in [Slot -> States]
    /\ chan \in [Slot -> 0..NPROC]
    /\ killed \in [Slot -> BOOLEAN]
    /\ pid \in [Slot -> 0..MAXPID]
    /\ parent \in [Slot -> 0..NPROC]
    /\ plock \in [Slot -> CPU \cup {NoCPU}]
    /\ wait_lock \in CPU \cup {NoCPU}
    /\ nextpid \in 2..MAXPID + 1
    /\ run \in [CPU -> 0..NPROC]
    /\ cproc \in [CPU -> 0..NPROC]
    /\ sch \in [CPU -> [pc : {"scan", "back"}, p : Slot]]
    /\ th \in [Slot -> ThreadType]
    /\ kills \in 0..MAXKILL

(* No two CPUs ever execute on the kernel stack of one process, and a      *)
(* thread that executes without p->lock is RUNNING, so that no scheduler   *)
(* picks it and no wait() frees it ("make sure the child isn't still in    *)
(* exit() or swtch()", proc.c:435).                                        *)
OneCpuPerProcess ==
    /\ \A c \in CPU : run[c] # 0 =>
          /\ cproc[c] = run[c]
          /\ \A d \in CPU \ {c} : run[d] # run[c]
          /\ plock[run[c]] # c => state[run[c]] = "RUNNING"
    /\ \A p \in Slot : state[p] = "RUNNING" => \E c \in CPU : run[c] = p

(* The locks CPU c holds; 0 stands for wait_lock.                          *)
Held(c) == {p \in Slot : plock[p] = c} \cup (IF wait_lock = c THEN {0} ELSE {})

(* sched() "must hold only p->lock" (proc.c:615): its panics "sched        *)
(* p->lock" and "sched locks" are unreachable from yield, sleep and exit,  *)
(* and the lock is still held by the same CPU on the other side of swtch().*)
SchedHoldsOnlyOwnLock ==
    \A c \in CPU :
       /\ \A p \in Slot : Runs(c, p, "sched") => Held(c) = {p}
       /\ run[c] = 0 /\ sch[c].pc = "back" => Held(c) = {sch[c].p}

(* No exit is missed: once wait_lock is free again, a parent that sleeps   *)
(* in wait() has no exited child, although exit() and reparent() call      *)
(* wakeup() before the child is a ZOMBIE.                                  *)
NoLostExit ==
    wait_lock = NoCPU =>
       \A p, q \in Slot : state[p] = "SLEEPING" /\ parent[q] = p => state[q] # "ZOMBIE"

(* Every process but init has a parent that can still wait() for it:       *)
(* reparent() leaves no orphan, whatever forks, exits and reaps interleave.*)
ParentAlive ==
    wait_lock = NoCPU =>
       \A q \in Slot \ {initproc} :
          state[q] \notin {"UNUSED", "USED"} =>
             /\ parent[q] \in Slot
             /\ state[parent[q]] \notin {"UNUSED", "USED", "ZOMBIE"}

(* Where the thread of p is in its own code, parked or not.                *)
CurPc(p) == IF th[p].pc = "sched" THEN th[p].res ELSE th[p].pc

(* fork() of p has a slot that is not RUNNABLE yet.                        *)
ForkPc == {"fork_copy", "fork_parent", "fork_run"}

Forking(p) == CurPc(p) \in ForkPc

(* The slot that fork() filled stays its own until it is RUNNABLE, although*)
(* fork() releases np->lock twice on the way; two slots never have the     *)
(* same pid.                                                               *)
ForkedSlotReserved ==
    /\ \A p \in Slot :
          Forking(p) =>
             /\ state[th[p].np] = "USED"
             /\ \A q \in Slot \ {p} : th[q].np # th[p].np
    /\ \A p, q \in Slot : p # q /\ pid[p] = pid[q] => pid[p] = 0

(* Where a CPU holds p->lock: on both sides of swtch(), and in fork() for  *)
(* the slot that allocproc() returned.                                     *)
Owns(c, p) ==
    \/ Runs(c, p, "sched")
    \/ run[c] = 0 /\ sch[c].pc = "back" /\ sch[c].p = p
    \/ \E q \in Slot : Runs(c, q, "fork_copy") /\ th[q].np = p

UnderWaitLock == {"reparent", "wakeup", "exit_zombie", "wait_scan", "sleep"}

PLockOwned == \A c \in CPU, p \in Slot : plock[p] = c <=> Owns(c, p)

WaitLockOwned ==
    \A c \in CPU : wait_lock = c <=> \E p \in Slot : run[c] = p /\ th[p].pc \in UnderWaitLock

(* A thread runs on the one CPU whose scheduler waits for it, or is parked *)
(* in sched().                                                             *)
OnItsCpu ==
    \A c \in CPU :
       run[c] # 0 => cproc[c] = run[c] /\ sch[c].pc = "back" /\ sch[c].p = run[c]

OnOneCpu == \A c, d \in CPU : run[c] # 0 /\ run[c] = run[d] => c = d

RunningIsOn == \A p \in Slot : state[p] = "RUNNING" => \E c \in CPU : run[c] = p

OnIsRunning ==
    \A c \in CPU, p \in Slot :
       run[c] = p => /\ state[p] \notin {"UNUSED", "USED"}
                     /\ th[p].pc # "sched" => state[p] = "RUNNING"

OffIsInSched == \A p \in Slot : (\A c \in CPU : run[c] # p) => th[p].pc = "sched"

(* A slot that fork() is filling is nobody else's.                         *)
ForkSlotUsed == \A p \in Slot : Forking(p) => th[p].np \in Slot /\ state[th[p].np] = "USED"

ForkSlotOwn == \A p, q \in Slot : Forking(p) /\ Forking(q) /\ th[p].np = th[q].np => p = q

ThreadInv ==
    /\ OnItsCpu /\ OnOneCpu /\ RunningIsOn /\ OnIsRunning /\ OffIsInSched
    /\ ForkSlotUsed /\ ForkSlotOwn

(* The inductive form of SwitchesSafely.                                   *)
SwitchInv == TypeOK /\ PLockOwned /\ WaitLockOwned /\ ThreadInv

(* A switch between threads is safe on any CPU (sched(), scheduler()):     *)
(* never two CPUs in one process, never a lock too many or too few.        *)
SwitchesSafely == SwitchInv /\ OneCpuPerProcess /\ SchedHoldsOnlyOwnLock

(* Pids in use are below nextpid, and differ.                              *)
PidsFresh == \A p \in Slot : pid[p] < nextpid

PidsDiffer == \A p, q \in Slot : p # q /\ pid[p] = pid[q] => pid[p] = 0

Alive == {"SLEEPING", "RUNNABLE", "RUNNING"}

(* init has pid 1 and is never a ZOMBIE: killed, it stops in panic().      *)
InitStays == pid[initproc] = 1 /\ state[initproc] \in Alive

ParentsLive == \A q \in Slot : parent[q] # 0 => state[parent[q]] \in Alive

HasParent == \A q \in Slot \ {initproc} : state[q] \notin {"UNUSED", "USED"} => parent[q] # 0

(* fork(): the new slot is known there only, and has a parent in the end.  *)
ForkKnows(p) ==
    /\ ~Forking(p) => th[p].np = 0
    /\ CurPc(p) = "fork_run" => parent[th[p].np] # 0

(* exit(): init is not there, reparent() has seen every child below th[p].i*)
(* and the last wakeup() leaves the parent awake.                          *)
ExitKnows(p) ==
    /\ CurPc(p) \in {"reparent", "wakeup", "exit_zombie"} => p # initproc
    /\ CurPc(p) \in {"user", "exit"} => th[p].i = 1
    /\ th[p].pc \in {"reparent", "wakeup", "exit_zombie"} =>
          \A q \in Slot : parent[q] = p => q >= th[p].i
    /\ th[p].pc = "wakeup" /\ th[p].i = NPROC + 2 =>
          th[p].chan = parent[p] /\ (parent[p] < th[p].j => state[parent[p]] # "SLEEPING")
    /\ th[p].pc = "exit_zombie" => th[p].i = NPROC + 2 /\ state[parent[p]] # "SLEEPING"

(* wait(): no child below th[p].i has exited, and none when p goes to sleep*)
(* on the channel p.                                                       *)
WaitKnows(p) ==
    /\ th[p].pc \in {"wait_scan", "sleep"} =>
          \A q \in Slot : parent[q] = p /\ state[q] = "ZOMBIE" =>
             th[p].pc = "wait_scan" /\ q >= th[p].i
    /\ state[p] = "SLEEPING" => chan[p] = p

(* A sleeper that has an exited child is about to be woken up.             *)
WakeupPending ==
    \A p, q \in Slot :
       state[p] = "SLEEPING" /\ parent[q] = p /\ state[q] = "ZOMBIE" =>
          \E r \in Slot : th[r].pc = "wakeup" /\ th[r].chan = p /\ th[r].j <= p

(* The inductive form of FamilyConsistent and NoLostExit, given SwitchInv. *)
FamilyInv ==
    /\ PidsFresh /\ PidsDiffer /\ InitStays /\ ParentsLive /\ HasParent /\ WakeupPending
    /\ \A p \in Slot : ForkKnows(p) /\ ExitKnows(p) /\ WaitKnows(p)

(* Parents and children agree about each other through fork() and exit().  *)
FamilyConsistent == FamilyInv /\ ParentAlive /\ ForkedSlotReserved

(* Round robin starves nobody: a RUNNABLE process runs again.              *)
EventuallyRuns ==
    \A p \in Slot : state[p] = "RUNNABLE" ~> state[p] = "RUNNING"

(* An exited child of init is freed at last, unless init itself exits and  *)
(* panics: no wakeup of init is lost between exit() and wait().            *)
InitReaps ==
    \A q \in Slot :
       state[q] = "ZOMBIE" /\ parent[q] = initproc ~> state[q] = "UNUSED" \/ CurPc(initproc) = "panic"
=============================================================================
