-------------------------------- MODULE Pbs --------------------------------
(***************************************************************************)
(* The priority-based scheduler of kernel/proc.c (make SCHEDULER=PBS):     *)
(* the scan for the process with the lowest SP, its tie-break under two    *)
(* process locks, scheduleProcess(), the priority arithmetic, the tick     *)
(* accounting of clockintr(), and the setpriority system call.             *)
(*                                                                         *)
(* What processes do is reduced to what the scheduler sees of it: they are *)
(* created, sleep, are woken, yield, exit and are freed; init is the       *)
(* parent of all.  CPU 0 takes the clock interrupt, when it holds no lock. *)
(***************************************************************************)
EXTENDS Integers

CONSTANT Systems      \* the sizes and bounds a behaviour may have, see lim

ASSUME PbsAssumption ==
    \A l \in Systems : /\ l.ncpu \in Nat \ {0} /\ l.nproc \in Nat \ {0}
                       /\ l.priorities \subseteq 0..100
                       /\ l.ticks \in Nat /\ l.sched \in Nat /\ l.pids \in Nat \ {0}

VARIABLES state, pid,
          f,          \* f[p]: the scheduling fields of struct proc
          plock,      \* plock[p]: the CPU that holds p->lock, or None
          ticks,
          clk,        \* slot update_time() has come to on CPU 0, 0: no clock interrupt
          run,        \* run[c]: the process whose thread c runs, 0: the scheduler
          sc,         \* sc[c]: local variables of scheduler() and scheduleProcess()
          th,         \* th[p]: pc and local variables of the thread of p
          nextpid,
          lim         \* the member of Systems chosen for this behaviour

vars == <<state, pid, f, plock, ticks, clk, run, sc, th, nextpid, lim>>

NCPU == lim.ncpu                \* CPUs are 0..NCPU-1
NPROC == lim.nproc              \* slots of proc[]
Priorities == lim.priorities    \* arguments of setpriority
MAXTICKS == lim.ticks           \* bound: clock ticks in a behaviour
MAXSCHED == lim.sched           \* bound: times a process is dispatched
MAXPID == lim.pids              \* bound: pids handed out

CPU == 0..NCPU-1
Slot == 1..NPROC
initproc == 1
None == -1
Highest == 9999999        \* the initial value of lowestPriority

Fields ==
    [SP : 0..100, DP : 0..100, RBI : Nat, num : Nat, ctime : Nat, RTime : Nat, WTime : Nat,
     STime : Nat]

(* allocproc() on a slot with fields g; it leaves DP and RBI alone.        *)
Fresh(g) ==
    [g EXCEPT !.SP = 50, !.num = 0, !.ctime = ticks, !.RTime = 0, !.WTime = 0, !.STime = 0]

Scan == [pc |-> "scan", i |-> 1, low |-> Highest, sel |-> 0, start |-> 0, clean |-> TRUE]

Init ==
    /\ lim \in Systems
    /\ state = [p \in Slot |-> IF p = 1 THEN "RUNNABLE" ELSE "UNUSED"]
    /\ pid = [p \in Slot |-> IF p = 1 THEN 1 ELSE 0]
    /\ f = [p \in Slot |-> [SP |-> IF p = 1 THEN 50 ELSE 0, DP |-> 0, RBI |-> 0, num |-> 0,
                            ctime |-> 0, RTime |-> 0, WTime |-> 0, STime |-> 0]]
    /\ plock = [p \in Slot |-> None]
    /\ ticks = 0
    /\ clk = 0
    /\ run = [c \in CPU |-> 0]
    /\ sc = [c \in CPU |-> Scan]
    /\ th = [p \in Slot |-> [pc |-> "user", slot |-> 0, tgt |-> 0, new |-> 0]]
    /\ nextpid = 2

Free(p) == plock[p] = None

(* CPU c is not inside clockintr().                                        *)
Executes(c) == c # 0 \/ clk = 0

(* History: the table has changed under the scans that are under way.      *)
Disturbed == [d \in CPU |-> [sc[d] EXCEPT !.clean = FALSE]]

-----------------------------------------------------------------------------
(* Priority arithmetic.  The fields are uint and the quotient truncates    *)
(* towards zero; a negative quotient is replaced by 0 either way.          *)

calculate_rbi(R, W, S) ==
    LET rbi == ((3 * R - S - W) \div (R + W + S + 1)) * 50
    IN  IF rbi > 0 THEN rbi ELSE 0

update_dp(g) ==
    LET rbi == calculate_rbi(g.RTime, g.WTime, g.STime)
    IN  [g EXCEPT !.RBI = rbi, !.DP = IF g.SP + rbi < 100 THEN g.SP + rbi ELSE 100]

clampDP(dp) == IF dp > 100 THEN 100 ELSE IF dp < 0 THEN 0 ELSE dp

-----------------------------------------------------------------------------
(* scheduler(): the scan.                                                  *)

(* One slot, unless a tie has to be broken.                                *)
scan(c) ==
    LET p == sc[c].i
        runnable == state[p] = "RUNNABLE"
    IN  /\ Executes(c) /\ run[c] = 0 /\ sc[c].pc = "scan" /\ p \in Slot /\ Free(p)
        /\ \/ /\ ~runnable \/ f[p].SP > sc[c].low
              /\ sc' = [sc EXCEPT ![c].i = p + 1]
              /\ UNCHANGED plock
           \/ /\ runnable /\ f[p].SP < sc[c].low
              /\ sc' = [sc EXCEPT ![c].i = p + 1, ![c].low = f[p].SP, ![c].sel = p]
              /\ UNCHANGED plock
           \/ /\ runnable /\ f[p].SP = sc[c].low
              /\ sc' = [sc EXCEPT ![c].pc = "tie"]
              /\ plock' = [plock EXCEPT ![p] = c]
        /\ UNCHANGED <<state, pid, f, ticks, clk, run, th, nextpid>>

(* Variant: the number of times scheduled is not compared.                 *)
Preferred_first(q, p) == q

(* selectHigherPriorityProcess(&q, p): the process it leaves selected.     *)
Preferred(q, p) ==
    IF f[q].num = f[p].num THEN (IF f[q].ctime > f[p].ctime THEN p ELSE q)
    ELSE IF f[p].num < f[q].num THEN p ELSE q

(* It runs with p->lock held and acquires the lock of the selected one.    *)
selectHigherPriorityProcess(c) ==
    LET p == sc[c].i
        q == sc[c].sel
    IN  /\ Executes(c) /\ run[c] = 0 /\ sc[c].pc = "tie" /\ Free(q)
        /\ sc' = [sc EXCEPT ![c] = [@ EXCEPT !.pc = "scan", !.i = p + 1, !.sel = Preferred(q, p)]]
        /\ plock' = [plock EXCEPT ![p] = None]
        /\ UNCHANGED <<state, pid, f, ticks, clk, run, th, nextpid>>

scan_done(c) ==
    /\ Executes(c) /\ run[c] = 0 /\ sc[c].pc = "scan" /\ sc[c].i > NPROC
    /\ sc' = [sc EXCEPT ![c] = IF sc[c].sel = 0 THEN Scan ELSE [@ EXCEPT !.pc = "dispatch"]]
    /\ UNCHANGED <<state, pid, f, plock, ticks, clk, run, th, nextpid>>

-----------------------------------------------------------------------------
(* scheduleProcess()                                                       *)

(* Variant: the state is not tested again under the lock.                  *)
Dispatchable_always(p) == f[p].num < MAXSCHED

(* The test of the state under the lock, and the bound.                    *)
Dispatchable(p) == state[p] = "RUNNABLE" /\ f[p].num < MAXSCHED

scheduleProcess(c) ==
    LET p == sc[c].sel IN
    /\ Executes(c) /\ run[c] = 0 /\ sc[c].pc = "dispatch" /\ Free(p)
    /\ \/ /\ Dispatchable(p)
          /\ state' = [state EXCEPT ![p] = "RUNNING"]
          /\ f' = [f EXCEPT ![p] = [@ EXCEPT !.RTime = 0, !.STime = 0, !.num = f[p].num + 1]]
          /\ plock' = [plock EXCEPT ![p] = c]
          /\ run' = [run EXCEPT ![c] = p]
          /\ sc' = [Disturbed EXCEPT ![c] = [Scan EXCEPT !.pc = "back", !.sel = p, !.start = ticks]]
       \/ /\ state[p] # "RUNNABLE"
          /\ sc' = [sc EXCEPT ![c] = Scan]
          /\ UNCHANGED <<state, f, plock, run>>
    /\ UNCHANGED <<pid, ticks, clk, th, nextpid>>

(* After swtch() back, still under p->lock.                                *)
scheduleProcess_back(c) ==
    LET p == sc[c].sel
        g == update_dp([f[p] EXCEPT !.RTime = ticks - sc[c].start])
    IN  /\ Executes(c) /\ run[c] = 0 /\ sc[c].pc = "back"
        /\ f' = [f EXCEPT ![p] = [g EXCEPT !.SP = clampDP(g.DP)]]
        /\ sc' = [Disturbed EXCEPT ![c].pc = "release"]
        /\ UNCHANGED <<state, pid, plock, ticks, clk, run, th, nextpid>>

scheduleProcess_release(c) ==
    /\ Executes(c) /\ run[c] = 0 /\ sc[c].pc = "release"
    /\ plock' = [plock EXCEPT ![sc[c].sel] = None]
    /\ sc' = [sc EXCEPT ![c] = Scan]
    /\ UNCHANGED <<state, pid, f, ticks, clk, run, th, nextpid>>

-----------------------------------------------------------------------------
(* The thread of the process that CPU c runs.                              *)

(* The return from swtch(): the process releases its own lock.             *)
enter(c) ==
    /\ Executes(c) /\ run[c] # 0 /\ plock[run[c]] = c
    /\ plock' = [plock EXCEPT ![run[c]] = None]
    /\ UNCHANGED <<state, pid, f, ticks, clk, run, sc, th, nextpid>>

(* yield(), sleep() and exit(): p->state changes to s under p->lock, which *)
(* is still held when the scheduler thread goes on.                        *)
stop(c, s) ==
    LET p == run[c] IN
    /\ Executes(c) /\ p # 0 /\ Free(p)
    /\ s # "RUNNABLE" => th[p].pc = "user"
    /\ s = "ZOMBIE" => p # initproc
    /\ state' = [state EXCEPT ![p] = s]
    /\ plock' = [plock EXCEPT ![p] = c]
    /\ run' = [run EXCEPT ![c] = 0]
    /\ th' = [th EXCEPT ![p].pc = IF @ = "resched" THEN "user" ELSE @]
    /\ sc' = Disturbed
    /\ UNCHANGED <<pid, f, ticks, clk, nextpid>>

(* sys_setpriority(tgt, new): the search, which reads p->pid unlocked.     *)
setpriority_find(c, q, tgt, new) ==
    LET p == run[c] IN
    /\ Executes(c) /\ p # 0 /\ plock[p] # c /\ th[p].pc = "user"
    /\ pid[q] = tgt
    /\ th' = [th EXCEPT ![p] = [pc |-> "set", slot |-> q, tgt |-> tgt, new |-> new]]
    /\ UNCHANGED <<state, pid, f, plock, ticks, clk, run, sc, nextpid>>

(* No such process: old_priority stays 999999999, so the caller yields.    *)
setpriority_none(c, tgt) ==
    LET p == run[c] IN
    /\ Executes(c) /\ p # 0 /\ plock[p] # c /\ th[p].pc = "user"
    /\ \A q \in Slot : pid[q] # tgt
    /\ th' = [th EXCEPT ![p].pc = "resched"]
    /\ UNCHANGED <<state, pid, f, plock, ticks, clk, run, sc, nextpid>>

(* The update under the lock; yield() follows if the priority is raised.   *)
setpriority_apply(c) ==
    LET p == run[c]
        q == th[p].slot
        new == th[p].new
    IN  /\ Executes(c) /\ p # 0 /\ plock[p] # c /\ th[p].pc = "set" /\ Free(q)
        /\ f' = [f EXCEPT ![q] = update_dp([@ EXCEPT !.SP = new, !.RBI = 25])]
        /\ th' = [th EXCEPT ![p] = [@ EXCEPT !.pc = IF new < f[q].SP THEN "resched" ELSE "user",
                                             !.slot = 0, !.tgt = 0, !.new = 0]]
        /\ sc' = Disturbed
        /\ UNCHANGED <<state, pid, plock, ticks, clk, run, nextpid>>

-----------------------------------------------------------------------------
(* The other places that change what the scheduler reads.                  *)

wakeup(p) ==
    /\ state[p] = "SLEEPING" /\ Free(p)
    /\ state' = [state EXCEPT ![p] = "RUNNABLE"]
    /\ sc' = Disturbed
    /\ UNCHANGED <<pid, f, plock, ticks, clk, run, th, nextpid>>

(* The process on CPU c is init and is not inside setpriority.             *)
InitAt(c) == Executes(c) /\ run[c] = initproc /\ plock[initproc] # c /\ th[initproc].pc = "user"

(* fork() by init.                                                         *)
allocproc(c, p) ==
    /\ InitAt(c)
    /\ state[p] = "UNUSED" /\ Free(p) /\ nextpid <= MAXPID
    /\ state' = [state EXCEPT ![p] = "RUNNABLE"]
    /\ pid' = [pid EXCEPT ![p] = nextpid]
    /\ nextpid' = nextpid + 1
    /\ f' = [f EXCEPT ![p] = Fresh(@)]
    /\ sc' = Disturbed
    /\ UNCHANGED <<plock, ticks, clk, run, th>>

(* freeproc(), called by wait() of init; ctime stays.                      *)
freeproc(c, p) ==
    /\ InitAt(c)
    /\ state[p] = "ZOMBIE" /\ Free(p)
    /\ state' = [state EXCEPT ![p] = "UNUSED"]
    /\ pid' = [pid EXCEPT ![p] = 0]
    /\ f' = [f EXCEPT ![p] = [Fresh(@) EXCEPT !.ctime = f[p].ctime]]
    /\ UNCHANGED <<plock, ticks, clk, run, sc, th, nextpid>>

-----------------------------------------------------------------------------
(* clockintr() on CPU 0, and update_time() slot by slot.                   *)

(* Variant: the interrupt is taken while CPU 0 holds a process lock.       *)
clockintr_anytime ==
    /\ clk = 0 /\ ticks < MAXTICKS
    /\ ticks' = ticks + 1
    /\ clk' = 1
    /\ UNCHANGED <<state, pid, f, plock, run, sc, th, nextpid>>

clockintr ==
    /\ clk = 0 /\ ticks < MAXTICKS
    /\ \A p \in Slot : plock[p] # 0
    /\ ticks' = ticks + 1
    /\ clk' = 1
    /\ UNCHANGED <<state, pid, f, plock, run, sc, th, nextpid>>

update_time ==
    /\ clk # 0 /\ Free(clk)
    /\ f' = [f EXCEPT ![clk].RTime = IF state[clk] = "RUNNING" THEN @ + 1 ELSE @,
                      ![clk].WTime = IF state[clk] = "RUNNABLE" THEN @ + 1 ELSE @,
                      ![clk].STime = IF state[clk] = "SLEEPING" THEN @ + 1 ELSE @]
    /\ clk' = IF clk = NPROC THEN 0 ELSE clk + 1
    /\ UNCHANGED <<state, pid, plock, ticks, run, sc, th, nextpid>>

-----------------------------------------------------------------------------
Step ==
    \/ \E c \in CPU :
          \/ scan(c) \/ selectHigherPriorityProcess(c) \/ scan_done(c)
          \/ scheduleProcess(c) \/ scheduleProcess_back(c) \/ scheduleProcess_release(c)
          \/ enter(c)
          \/ \E s \in {"RUNNABLE", "SLEEPING", "ZOMBIE"} : stop(c, s)
          \/ \E tgt \in 1..MAXPID :
                \/ \E q \in Slot, new \in Priorities : setpriority_find(c, q, tgt, new)
                \/ setpriority_none(c, tgt)
          \/ setpriority_apply(c)
          \/ \E p \in Slot : allocproc(c, p) \/ freeproc(c, p)
    \/ \E p \in Slot : wakeup(p)
    \/ clockintr \/ update_time

Next == Step /\ UNCHANGED lim

Spec == Init /\ [][Next]_vars

-----------------------------------------------------------------------------
(* Properties.                                                             *)

Scans ==
    [pc : {"scan", "tie", "dispatch", "back", "release"}, i : 1..NPROC + 1, low : 0..Highest,
     sel : 0..NPROC, start : Nat, clean : BOOLEAN]

Threads == [pc : {"user", "set", "resched"}, slot : 0..NPROC, tgt : 0..MAXPID, new : 0..100]

(* Every variable has its type; in particular SP and DP stay within 0..100.*)
TypeOK ==
    /\ lim \in Systems
    /\ state \in [Slot -> {"UNUSED", "SLEEPING", "RUNNABLE", "RUNNING", "ZOMBIE"}]
    /\ pid \in [Slot -> 0..MAXPID]
    /\ f \in [Slot -> Fields]
    /\ plock \in [Slot -> CPU \cup {None}]
    /\ ticks \in 0..MAXTICKS /\ clk \in 0..NPROC
    /\ run \in [CPU -> 0..NPROC]
    /\ sc \in [CPU -> Scans]
    /\ th \in [Slot -> Threads]
    /\ nextpid \in 2..MAXPID + 1

(* Two CPUs whose scans select the same process never both run it, and     *)
(* only a RUNNING process runs: scheduleProcess() tests the state again.   *)
RunsOnce ==
    \A c \in CPU :
       run[c] # 0 => /\ state[run[c]] = "RUNNING"
                     /\ \A d \in CPU \ {c} : run[d] # run[c]

(* The slot whose lock CPU c is spinning for, or 0.                        *)
Spins(c) ==
    LET want == IF ~Executes(c) THEN clk
                ELSE IF run[c] # 0
                     THEN (IF th[run[c]].pc = "set" /\ plock[run[c]] # c THEN th[run[c]].slot ELSE 0)
                ELSE IF sc[c].pc = "scan" /\ sc[c].i \in Slot THEN sc[c].i
                ELSE IF sc[c].pc \in {"tie", "dispatch"} THEN sc[c].sel ELSE 0
    IN  IF want # 0 /\ ~Free(want) THEN want ELSE 0

(* No CPUs wait for each other's process locks, although the tie-break     *)
(* acquires a second one: no set of CPUs spins for locks held in the set.  *)
NoLockCycle ==
    \A S \in (SUBSET CPU) \ {{}} : \E c \in S : Spins(c) = 0 \/ plock[Spins(c)] \notin S

(* Lower SP, then dispatched less often, then created earlier, then lower  *)
(* slot.                                                                   *)
Before(p, q) ==
    \/ f[p].SP < f[q].SP
    \/ f[p].SP = f[q].SP /\ f[p].num < f[q].num
    \/ f[p].SP = f[q].SP /\ f[p].num = f[q].num /\ f[p].ctime < f[q].ctime
    \/ f[p].SP = f[q].SP /\ f[p].num = f[q].num /\ f[p].ctime = f[q].ctime /\ p < q

(* A scan that nothing disturbed selects the first process in the order of *)
(* SP, number of times scheduled and creation time.                        *)
SelectsBest ==
    \A c \in CPU :
       sc[c].pc = "dispatch" /\ sc[c].clean =>
          /\ state[sc[c].sel] = "RUNNABLE"
          /\ \A q \in Slot : state[q] = "RUNNABLE" /\ q # sc[c].sel => Before(sc[c].sel, q)

(* setpriority changes the process it was asked to change as long as that  *)
(* exists: the slot found without a lock keeps its pid until then.  Once   *)
(* it is gone the update hits a free slot or the process that has the slot *)
(* now, although p->pid may only be used with p->lock held (proc.h:88).    *)
SetsLiveTarget ==
    \A p \in Slot :
       th[p].pc = "set" => \/ pid[th[p].slot] = th[p].tgt
                          \/ \A q \in Slot : pid[q] # th[p].tgt

(* A pid belongs to one process, and setpriority looks for one that was    *)
(* handed out.                                                             *)
PidInv ==
    /\ \A p \in Slot : pid[p] < nextpid
    /\ \A p, q \in Slot : pid[p] = pid[q] /\ pid[p] # 0 => p = q
    /\ \A p \in Slot : th[p].pc = "set" => th[p].slot # 0 /\ th[p].tgt # 0 /\ th[p].tgt < nextpid

(* The scheduler of CPU c: it waits for the process that runs, it selects  *)
(* among the slots it has passed, and ties only with a selected one.       *)
ScanInv(c) ==
    LET r == sc[c] IN
    /\ run[c] # 0 => r.pc = "back" /\ r.sel = run[c]
    /\ r.start <= ticks
    /\ r.pc # "scan" => r.sel # 0
    /\ r.pc = "tie" => r.i <= NPROC
    /\ r.pc = "dispatch" => r.i = NPROC + 1
    /\ r.pc \in {"scan", "tie"} => r.sel < r.i /\ (r.sel = 0 => r.low = Highest)

(* Why CPU c holds the lock of p: the process is on its way to or from     *)
(* the CPU, or ties with the selected one.                                 *)
Holds(c, p) ==
    \/ run[c] = p
    \/ run[c] = 0 /\ sc[c].pc = "tie" /\ sc[c].i = p
    \/ run[c] = 0 /\ sc[c].pc \in {"back", "release"} /\ sc[c].sel = p

LockInv ==
    /\ \A p \in Slot : plock[p] # None => Holds(plock[p], p)
    /\ clk # 0 => \A p \in Slot : plock[p] # 0

(* What an undisturbed scan knows of the slots it has passed.              *)
ScanBest(c) ==
    LET r == sc[c] IN
    r.clean /\ r.pc \in {"scan", "tie", "dispatch"} =>
       /\ r.sel # 0 => state[r.sel] = "RUNNABLE" /\ r.low = f[r.sel].SP
       /\ r.pc = "tie" => state[r.i] = "RUNNABLE" /\ f[r.i].SP = r.low
       /\ \A q \in Slot : q < r.i /\ state[q] = "RUNNABLE" /\ q # r.sel => r.sel # 0 /\ Before(r.sel, q)

(* What the dispatcher and setpriority rely on without holding locks, in   *)
(* inductive form.                                                         *)
DispatchConsistent ==
    /\ TypeOK /\ RunsOnce /\ SetsLiveTarget /\ PidInv /\ LockInv
    /\ \A c \in CPU : ScanInv(c) /\ ScanBest(c)
=============================================================================
