----------------------------- MODULE ProcProofs -----------------------------
(***************************************************************************)
(* Theorems about Proc, for any number of CPUs and slots of proc[]: the    *)
(* locks and threads behind SwitchesSafely, then the parents, children and *)
(* sleepers behind FamilyConsistent and NoLostExit.  Before them, what a   *)
(* step leaves of a thread, the proof that every action of Proc preserves  *)
(* SwitchInv, and the proof that every action preserves FamilyInv: what    *)
(* fork(), exit(), wait() and kill() know of parents, children and         *)
(* sleepers while they run.                                                *)
(***************************************************************************)
EXTENDS Proc, TLAPS

-----------------------------------------------------------------------------
(* Threads and locks: SwitchInv.                                           *)

(* A slot whose lock is free runs only if it is RUNNING.                   *)
LEMMA FreeIsParked ==
    ASSUME SwitchInv, NEW q \in Slot, Free(q), state[q] # "RUNNING", NEW d \in CPU
    PROVE  run[d] # q
BY ProcAssumption DEF SwitchInv, PLockOwned, ThreadInv, OnIsRunning, Owns, Runs, Free

(* Steps of a thread that take and keep no p->lock, and what they may do   *)
(* to the state of other slots.                                            *)
LEMMA LocalStep ==
    ASSUME SwitchInv, NEW c \in CPU, NEW p \in Slot, run[c] = p,
           th[p].pc \notin {"sched", "fork_copy"},
           TypeOK', \A q \in Slot : q # p => th'[q] = th[q],
           th'[p].pc \notin {"sched", "fork_copy"},
           th'[p].pc \in ForkPc => th[p].pc \in ForkPc /\ th'[p].np = th[p].np,
           UNCHANGED <<plock, cpus>>,
           wait_lock' = c <=> th'[p].pc \in UnderWaitLock,
           wait_lock' # wait_lock => {wait_lock, wait_lock'} = {c, NoCPU},
           \A q \in Slot : state'[q] # state[q] =>
               /\ Free(q) /\ state[q] # "RUNNING" /\ state'[q] # "RUNNING"
               /\ state[q] = "USED" =>
                     th[p].pc = "fork_run" /\ th[p].np = q /\ th'[p].pc \notin ForkPc
    PROVE  SwitchInv'
<1> USE ProcAssumption
<1>1. \A q \in Slot : state'[q] # state[q] => \A d \in CPU : run[d] # q
  BY FreeIsParked, Zenon
<1>2. \A q \in Slot : q # p => th'[q] = th[q]
  BY Zenon
<1>3. \A q \in Slot : q # p => Forking(q)' = Forking(q)
  BY <1>2, Zenon DEF Forking, CurPc, ForkPc
<1>4. Forking(p)' => Forking(p) /\ th'[p].np = th[p].np
  BY <1>2, Zenon DEF Forking, CurPc, ForkPc
<1>5. PLockOwned' /\ WaitLockOwned'
  <2>1. \A d \in CPU, q \in Slot : Owns(d, q)' <=> Owns(d, q)
    BY <1>2 DEF Owns, Runs, cpus, ThreadType, SwitchInv, ThreadInv, OnOneCpu, Slot
  <2>2. PLockOwned'
    BY <2>1, Zenon DEF SwitchInv, PLockOwned
  <2>3. WaitLockOwned'
    <3> SUFFICES ASSUME NEW d \in CPU
                 PROVE  wait_lock' = d <=> \E q \in Slot : run'[d] = q /\ th'[q].pc \in UnderWaitLock
      BY Zenon DEF WaitLockOwned
    <3>1. CASE d = c
      BY <3>1, <1>2, Zenon DEF cpus
    <3>2. CASE d # c
      <4>1. run[d] # p
        BY <3>2 DEF SwitchInv, ThreadInv, OnOneCpu, Slot
      <4>2. wait_lock' = d <=> wait_lock = d
        BY <3>2, Zenon
      <4> QED BY <4>1, <4>2, <1>2, Zenon DEF cpus, SwitchInv, WaitLockOwned
    <3> QED BY <3>1, <3>2, Zenon
  <2> QED BY <2>2, <2>3, Zenon
<1>6. ThreadInv'
  <2>1. OnItsCpu'
    BY Zenon DEF SwitchInv, ThreadInv, OnItsCpu, cpus
  <2>2. OnOneCpu'
    BY Zenon DEF SwitchInv, ThreadInv, OnOneCpu, cpus
  <2>3. RunningIsOn'
    BY Zenon DEF SwitchInv, ThreadInv, RunningIsOn, cpus
  <2>4. OnIsRunning'
    BY <1>1, <1>2 DEF SwitchInv, ThreadInv, OnIsRunning, cpus
  <2>5. OffIsInSched'
    BY <1>2 DEF SwitchInv, ThreadInv, OffIsInSched, cpus
  <2>6. ForkSlotUsed'
    <3> SUFFICES ASSUME NEW q \in Slot, Forking(q)'
                 PROVE  th'[q].np \in Slot /\ state'[th'[q].np] = "USED"
      BY Zenon DEF ForkSlotUsed
    <3>1. Forking(q) /\ th'[q].np = th[q].np
      BY <1>2, <1>3, <1>4, Zenon
    <3>2. th[q].np \in Slot /\ state[th[q].np] = "USED"
      BY <3>1, Zenon DEF SwitchInv, ThreadInv, ForkSlotUsed
    <3>3. SUFFICES ASSUME state'[th[q].np] # state[th[q].np] PROVE FALSE
      BY <3>1, <3>2, Zenon
    <3>4. th[p].pc = "fork_run" /\ th[p].np = th[q].np /\ th'[p].pc \notin ForkPc
      BY <3>2, <3>3, Zenon
    <3>5. q = p
      BY <3>1, <3>4, Zenon DEF SwitchInv, ThreadInv, ForkSlotOwn, Forking, CurPc, ForkPc
    <3> QED BY <3>4, <3>5, <1>2, Zenon DEF Forking, CurPc, ForkPc
  <2>7. ForkSlotOwn'
    BY <1>2, <1>3, <1>4 DEF SwitchInv, ThreadInv, ForkSlotOwn
  <2> QED BY <2>1, <2>2, <2>3, <2>4, <2>5, <2>6, <2>7, Zenon DEF ThreadInv
<1> QED BY <1>5, <1>6, Zenon DEF SwitchInv

-----------------------------------------------------------------------------
(* Local actions: the thread that a step leaves behind.                    *)

(* A thread record keeps its type when its pc is set.                      *)
LEMMA ThreadTypes ==
    ASSUME NEW r \in ThreadType, NEW x \in Pcs
    PROVE  /\ [r EXCEPT !.pc = x] \in ThreadType
           /\ [r EXCEPT !.pc = x].pc = x
           /\ [r EXCEPT !.pc = x].res = r.res
           /\ [r EXCEPT !.pc = x].i = r.i
           /\ [r EXCEPT !.pc = x].j = r.j
           /\ [r EXCEPT !.pc = x].chan = r.chan
           /\ [r EXCEPT !.pc = x].np = r.np
BY Zenon DEF ThreadType

(* The thread that allocproc(), sleep() and exit() leave for scheduler().  *)
LEMMA SwitchedType ==
    ASSUME NEW x \in {"dead"} \cup Interruptible
    PROVE  /\ Switched(x) \in ThreadType
           /\ Switched(x).pc = "sched" /\ Switched(x).res = x
           /\ Switched(x).i = 1 /\ Switched(x).np = 0
BY ProcAssumption DEF Switched, ThreadType, Interruptible, Pcs, Slot

(* The thread that returns to a point of its own code.                     *)
LEMMA AtType ==
    ASSUME NEW x \in Pcs
    PROVE  At(x) \in ThreadType /\ At(x).pc = x /\ At(x).i = 1 /\ At(x).np = 0
<1>1. /\ Switched("user") \in ThreadType
      /\ Switched("user").i = 1 /\ Switched("user").np = 0
  BY SwitchedType, Zenon DEF Interruptible
<1> QED BY <1>1, ThreadTypes, Zenon DEF At

(* Goto(p, x) changes the pc of p and nothing else.                        *)
LEMMA SetPc ==
    ASSUME TypeOK, NEW p \in Slot, NEW x \in Pcs, th' = [th EXCEPT ![p].pc = x]
    PROVE  /\ th' \in [Slot -> ThreadType]
           /\ \A q \in Slot : q # p => th'[q] = th[q]
           /\ th'[p].pc = x /\ th'[p].res = th[p].res /\ th'[p].i = th[p].i
           /\ th'[p].j = th[p].j /\ th'[p].chan = th[p].chan /\ th'[p].np = th[p].np
BY ThreadTypes DEF TypeOK

(* Return(p), and the start of a scan, reset the locals of p alone.        *)
LEMMA SetAt ==
    ASSUME TypeOK, NEW p \in Slot, NEW x \in Pcs, th' = [th EXCEPT ![p] = At(x)]
    PROVE  /\ th' \in [Slot -> ThreadType]
           /\ \A q \in Slot : q # p => th'[q] = th[q]
           /\ th'[p].pc = x /\ th'[p].i = 1 /\ th'[p].np = 0
BY AtType, Zenon DEF TypeOK

(* A loop of p over proc[] goes on to another slot.                        *)
LEMMA SetI ==
    ASSUME TypeOK, NEW p \in Slot, NEW x \in 1..NPROC + 2, th' = [th EXCEPT ![p].i = x]
    PROVE  /\ th' \in [Slot -> ThreadType]
           /\ \A q \in Slot : q # p => th'[q] = th[q]
           /\ th'[p].pc = th[p].pc /\ th'[p].chan = th[p].chan /\ th'[p].np = th[p].np
<1>1. th[p] \in ThreadType
  BY Zenon DEF TypeOK
<1>2. /\ [th[p] EXCEPT !.i = x] \in ThreadType
      /\ [th[p] EXCEPT !.i = x].pc = th[p].pc
      /\ [th[p] EXCEPT !.i = x].chan = th[p].chan
      /\ [th[p] EXCEPT !.i = x].np = th[p].np
  BY <1>1, ProcAssumption, Zenon DEF ThreadType
<1> QED BY <1>2, Zenon DEF TypeOK

(* wakeup() goes on to another slot.                                       *)
LEMMA SetJ ==
    ASSUME TypeOK, NEW p \in Slot, NEW x \in Slot, th' = [th EXCEPT ![p].j = x]
    PROVE  /\ th' \in [Slot -> ThreadType]
           /\ \A q \in Slot : q # p => th'[q] = th[q]
           /\ th'[p].pc = th[p].pc /\ th'[p].i = th[p].i /\ th'[p].j = x
           /\ th'[p].chan = th[p].chan /\ th'[p].np = th[p].np
<1>1. th[p] \in ThreadType
  BY Zenon DEF TypeOK
<1>2. /\ [th[p] EXCEPT !.j = x] \in ThreadType
      /\ [th[p] EXCEPT !.j = x].pc = th[p].pc
      /\ [th[p] EXCEPT !.j = x].i = th[p].i
      /\ [th[p] EXCEPT !.j = x].j = x
      /\ [th[p] EXCEPT !.j = x].chan = th[p].chan
      /\ [th[p] EXCEPT !.j = x].np = th[p].np
  BY <1>1, ProcAssumption, Zenon DEF ThreadType
<1> QED BY <1>2, Zenon DEF TypeOK

(* The scan of wait() goes on, with a child seen.                          *)
LEMMA SetKids ==
    ASSUME TypeOK, NEW p \in Slot, NEW x \in 1..NPROC + 2,
           th' = [th EXCEPT ![p] = [@ EXCEPT !.i = x, !.kids = TRUE]]
    PROVE  /\ th' \in [Slot -> ThreadType]
           /\ \A q \in Slot : q # p => th'[q] = th[q]
           /\ th'[p].pc = th[p].pc /\ th'[p].i = x /\ th'[p].np = th[p].np
<1>1. th[p] \in ThreadType
  BY Zenon DEF TypeOK
<1>2. /\ [th[p] EXCEPT !.i = x, !.kids = TRUE] \in ThreadType
      /\ [th[p] EXCEPT !.i = x, !.kids = TRUE].pc = th[p].pc
      /\ [th[p] EXCEPT !.i = x, !.kids = TRUE].i = x
      /\ [th[p] EXCEPT !.i = x, !.kids = TRUE].np = th[p].np
  BY Zenon, <1>1 DEF ThreadType
<1> QED BY <1>2, Zenon DEF TypeOK

(* wakeup(y) starts at the first slot.                                     *)
LEMMA SetWakeup ==
    ASSUME TypeOK, NEW p \in Slot, NEW x \in 1..NPROC + 2, NEW y \in 0..NPROC,
           th' = [th EXCEPT ![p] = [@ EXCEPT !.pc = "wakeup", !.i = x, !.j = 1, !.chan = y]]
    PROVE  /\ th' \in [Slot -> ThreadType]
           /\ \A q \in Slot : q # p => th'[q] = th[q]
           /\ th'[p].pc = "wakeup" /\ th'[p].i = x /\ th'[p].j = 1
           /\ th'[p].chan = y /\ th'[p].np = th[p].np
<1> DEFINE r == [th[p] EXCEPT !.pc = "wakeup", !.i = x, !.j = 1, !.chan = y]
<1>1. th[p] \in ThreadType
  BY Zenon DEF TypeOK
<1>2. "wakeup" \in Pcs /\ 1 \in Slot /\ y \in 0..NPROC
  BY ProcAssumption DEF Pcs, Slot
<1>3. r \in ThreadType
  BY Zenon, <1>1, <1>2 DEF ThreadType
<1>4. r.pc = "wakeup" /\ r.i = x /\ r.j = 1 /\ r.chan = y /\ r.np = th[p].np
  BY Zenon, <1>1 DEF ThreadType
<1>5. th' = [th EXCEPT ![p] = r]
  BY Zenon
<1> HIDE DEF r
<1> QED BY <1>3, <1>4, <1>5 DEF TypeOK

(* The thread of p holds wait_lock at the points between exit(), wait()    *)
(* and their ends.                                                         *)
LEMMA OwnWaitLock ==
    ASSUME SwitchInv, NEW c \in CPU, NEW p \in Slot, run[c] = p
    PROVE  wait_lock = c <=> th[p].pc \in UnderWaitLock
BY Zenon DEF SwitchInv, WaitLockOwned

(* freeproc() leaves a well-typed table.                                   *)
LEMMA FreedTable ==
    ASSUME TypeOK, NEW q \in Slot, freeproc(q)
    PROVE  /\ state' \in [Slot -> States] /\ chan' \in [Slot -> 0..NPROC]
           /\ killed' \in [Slot -> BOOLEAN]
           /\ pid' \in [Slot -> 0..MAXPID] /\ parent' \in [Slot -> 0..NPROC]
<1>1. state' \in [Slot -> States]
  BY Zenon DEF TypeOK, freeproc, States
<1>2. killed' \in [Slot -> BOOLEAN]
  BY Zenon DEF TypeOK, freeproc
<1>3. chan' \in [Slot -> 0..NPROC] /\ parent' \in [Slot -> 0..NPROC]
  BY ProcAssumption DEF TypeOK, freeproc
<1>4. pid' \in [Slot -> 0..MAXPID]
  BY ProcAssumption DEF TypeOK, freeproc
<1> QED BY <1>1, <1>2, <1>3, <1>4, Zenon

-----------------------------------------------------------------------------
(* What a thread knows of parents, children and sleepers.                  *)

Knows(p) == ForkKnows(p) /\ ExitKnows(p) /\ WaitKnows(p)

(* A thread inside exit() or wait() runs, and has wait_lock to itself.     *)
LEMMA OnlyHolder ==
    ASSUME SwitchInv, NEW c \in CPU, NEW p \in Slot, run[c] = p, wait_lock \in {c, NoCPU},
           NEW q \in Slot, q # p
    PROVE  th[q].pc \notin UnderWaitLock
<1> SUFFICES ASSUME th[q].pc \in UnderWaitLock PROVE FALSE
  BY Zenon
<1>1. PICK d \in CPU : run[d] = q
  BY Zenon DEF SwitchInv, ThreadInv, OffIsInSched, UnderWaitLock
<1>2. wait_lock = d
  BY <1>1, Zenon DEF SwitchInv, WaitLockOwned
<1> QED BY <1>1, <1>2, ProcAssumption, Zenon

(* Nobody holds wait_lock when it is free.                                 *)
LEMMA NoHolder ==
    ASSUME SwitchInv, wait_lock = NoCPU, NEW q \in Slot
    PROVE  th[q].pc \notin UnderWaitLock
<1> SUFFICES ASSUME th[q].pc \in UnderWaitLock PROVE FALSE
  BY Zenon
<1>1. PICK d \in CPU : run[d] = q
  BY Zenon DEF SwitchInv, ThreadInv, OffIsInSched, UnderWaitLock
<1> QED BY <1>1, ProcAssumption, Zenon DEF SwitchInv, WaitLockOwned

(* A parent is a slot of the table.                                        *)
LEMMA ParentInTable ==
    ASSUME SwitchInv, NEW q \in Slot, parent[q] # 0
    PROVE  parent[q] \in Slot
<1>1. parent[q] \in 0..NPROC
  BY Zenon DEF SwitchInv, TypeOK
<1> QED BY <1>1, ProcAssumption DEF Slot

(* A thread inside exit() has a parent in the table.                       *)
LEMMA ExitHasParent ==
    ASSUME SwitchInv, FamilyInv, NEW p \in Slot, th[p].pc \in {"wakeup", "exit_zombie"}
    PROVE  p # initproc /\ parent[p] \in Slot
<1>1. PICK d \in CPU : run[d] = p
  BY Zenon DEF SwitchInv, ThreadInv, OffIsInSched
<1>2. state[p] = "RUNNING"
  BY <1>1, Zenon DEF SwitchInv, ThreadInv, OnIsRunning
<1>3. p # initproc
  BY Zenon DEF FamilyInv, ExitKnows, CurPc
<1>4. parent[p] # 0
  BY <1>2, <1>3, Zenon DEF FamilyInv, HasParent
<1> QED BY <1>3, <1>4, ParentInTable, Zenon

(* What a thread knows stays true while it does not move: if it is under   *)
(* wait_lock, nobody gets a parent, goes to sleep or exits.                *)
LEMMA StillKnows ==
    ASSUME SwitchInv, FamilyInv, NEW q \in Slot, th'[q] = th[q],
           th[q].pc \in UnderWaitLock =>
              /\ parent'[q] = parent[q]
              /\ \A r \in Slot : parent'[r] # 0 => parent'[r] = parent[r]
              /\ \A r \in Slot : state'[r] \in {"SLEEPING", "ZOMBIE"} => state'[r] = state[r],
           state'[q] = "SLEEPING" => state[q] = "SLEEPING" /\ chan'[q] = chan[q],
           CurPc(q) = "fork_run" /\ parent'[th[q].np] = 0 => parent[th[q].np] = 0
    PROVE  Knows(q)'
<1>1. CurPc(q)' = CurPc(q) /\ Forking(q)' = Forking(q)
  BY Zenon DEF CurPc, Forking
<1>2. ForkKnows(q)'
  BY <1>1, Zenon DEF FamilyInv, ForkKnows
<1>3. ExitKnows(q)'
  <2>1. th[q].pc \in {"wakeup", "exit_zombie"} => parent[q] \in Slot
    BY ExitHasParent, Zenon
  <2>2. \A r \in Slot : th[q].pc \in UnderWaitLock /\ parent'[r] = q => parent[r] = q
    BY ProcAssumption DEF Slot
  <2> QED BY <1>1, <2>1, <2>2 DEF FamilyInv, ExitKnows, UnderWaitLock
<1>4. WaitKnows(q)'
  <2>1. \A r \in Slot : th[q].pc \in UnderWaitLock /\ parent'[r] = q => parent[r] = q
    BY ProcAssumption DEF Slot
  <2> QED BY <2>1 DEF FamilyInv, WaitKnows, UnderWaitLock
<1> QED BY <1>2, <1>3, <1>4, Zenon DEF Knows

(* A step of p that changes no parent and no pid, and only moves processes *)
(* to RUNNABLE and RUNNING, each of them alive or with a parent.           *)
LEMMA QuietStep ==
    ASSUME SwitchInv, FamilyInv, NEW p \in Slot,
           \A q \in Slot : q # p => th'[q] = th[q],
           th'[p] # th[p] =>
              /\ Knows(p)'
              /\ th[p].pc = "wakeup" =>
                    \A q \in Slot : th[p].chan = q /\ th[p].j <= q /\ state'[q] = "SLEEPING" =>
                       th'[p].pc = "wakeup" /\ th'[p].chan = q /\ th'[p].j <= q,
           UNCHANGED <<parent, pid, nextpid>>,
           \A q \in Slot : state'[q] # state[q] =>
              /\ state[q] \in Alive \/ parent[q] # 0
              /\ state'[q] \in {"RUNNABLE", "RUNNING"},
           \A q \in Slot : state'[q] = "SLEEPING" => chan'[q] = chan[q]
    PROVE  FamilyInv'
<1> USE ProcAssumption
<1>1. \A q \in Slot : q # p => th'[q] = th[q]
  BY Zenon
<1>2. \A q \in Slot : Knows(q)'
  <2> SUFFICES ASSUME NEW q \in Slot, th'[q] = th[q] PROVE Knows(q)'
    BY <1>1, Zenon
  <2> QED BY StillKnows, Zenon DEF Alive
<1>3. PidsFresh' /\ PidsDiffer'
  BY Zenon DEF FamilyInv, PidsFresh, PidsDiffer
<1>4. InitStays'
  BY DEF FamilyInv, InitStays, Alive, Slot, initproc
<1>5. ParentsLive'
  BY ParentInTable, Zenon DEF FamilyInv, ParentsLive, Alive
<1>6. HasParent'
  BY Zenon DEF FamilyInv, HasParent, Alive
<1>7. WakeupPending'
  <2> SUFFICES ASSUME NEW s \in Slot, NEW q \in Slot,
                      state'[s] = "SLEEPING", parent'[q] = s, state'[q] = "ZOMBIE"
               PROVE  \E r \in Slot : th'[r].pc = "wakeup" /\ th'[r].chan = s /\ th'[r].j <= s
    BY Zenon DEF WakeupPending
  <2>1. PICK r \in Slot : th[r].pc = "wakeup" /\ th[r].chan = s /\ th[r].j <= s
    BY DEF FamilyInv, WakeupPending
  <2> QED BY <1>1, <2>1
<1> QED BY <1>2, <1>3, <1>4, <1>5, <1>6, <1>7, Zenon DEF FamilyInv, Knows

(* A step of p that leaves the table alone.                                *)
LEMMA LocalQuietStep ==
    ASSUME SwitchInv, FamilyInv, NEW p \in Slot, th[p].pc # "wakeup",
           \A q \in Slot : q # p => th'[q] = th[q],
           ForkKnows(p)', ExitKnows(p)',
           th'[p].pc \in {"wait_scan", "sleep"} => WaitKnows(p)',
           UNCHANGED <<table, nextpid>>
    PROVE  FamilyInv'
<1>1. WaitKnows(p)'
  BY Zenon DEF FamilyInv, WaitKnows, table
<1>2. UNCHANGED <<state, chan, killed, pid, parent>>
  BY Zenon DEF table
<1> QED BY <1>1, <1>2, QuietStep, Zenon DEF Knows

-----------------------------------------------------------------------------
(* The actions that keep every p->lock where it is preserve SwitchInv: system *)
(* calls between two switches, and the loops of fork(), exit(), wait() and *)
(* kill() over proc[].                                                     *)

(* Entry into fork(), exit() or wait().                                    *)
LEMMA syscall_safe ==
    ASSUME SwitchInv, NEW c \in CPU, NEW p \in Slot, NEW call \in {"fork", "exit", "wait"},
           syscall(c, p, call)
    PROVE  SwitchInv'
<1>1. run[c] = p /\ th[p].pc = "user" /\ TypeOK
  BY Zenon DEF syscall, Runs, SwitchInv
<1>2. /\ th' \in [Slot -> ThreadType]
      /\ \A q \in Slot : q # p => th'[q] = th[q]
      /\ th'[p].pc = call
  <2>1. call \in Pcs
    BY Zenon DEF Pcs, Interruptible
  <2>2. TypeOK /\ th' = [th EXCEPT ![p].pc = call]
    BY <1>1, Zenon DEF syscall, Goto
  <2> QED BY Zenon, <2>1, <2>2, SetPc
<1>3. TypeOK'
  BY <1>1, <1>2, ProcAssumption, Zenon DEF syscall, TypeOK, table, locks, cpus
<1>4. wait_lock' = wait_lock /\ (wait_lock = c <=> th'[p].pc \in UnderWaitLock)
  BY <1>1, <1>2, OwnWaitLock, Zenon DEF syscall, locks, UnderWaitLock
<1>5. UNCHANGED <<state, plock, cpus>>
  BY Zenon DEF syscall, table, locks
<1> QED BY <1>1, <1>2, <1>3, <1>4, <1>5, LocalStep, ProcAssumption, Zenon DEF ForkPc

(* usertrap() sends a killed process to exit().                            *)
LEMMA usertrap_killed_safe ==
    ASSUME SwitchInv, NEW c \in CPU, NEW p \in Slot, usertrap_killed(c, p)
    PROVE  SwitchInv'
<1>1. run[c] = p /\ th[p].pc = "user" /\ TypeOK
  BY Zenon DEF usertrap_killed, Runs, SwitchInv
<1>2. /\ th' \in [Slot -> ThreadType]
      /\ \A q \in Slot : q # p => th'[q] = th[q]
      /\ th'[p].pc = "exit"
  <2>1. "exit" \in Pcs
    BY Zenon DEF Pcs, Interruptible
  <2>2. TypeOK /\ th' = [th EXCEPT ![p].pc = "exit"]
    BY <1>1, Zenon DEF usertrap_killed, Goto
  <2> QED BY Zenon, <2>1, <2>2, SetPc
<1>3. TypeOK'
  BY <1>1, <1>2, ProcAssumption, Zenon DEF usertrap_killed, TypeOK, table, locks, cpus
<1>4. wait_lock' = wait_lock /\ (wait_lock = c <=> th'[p].pc \in UnderWaitLock)
  BY <1>1, <1>2, OwnWaitLock, Zenon DEF usertrap_killed, locks, UnderWaitLock
<1>5. UNCHANGED <<state, plock, cpus>>
  BY Zenon DEF usertrap_killed, table, locks
<1> QED BY <1>1, <1>2, <1>3, <1>4, <1>5, LocalStep, ProcAssumption, Zenon DEF ForkPc

(* init panics in exit().                                                  *)
LEMMA exit_init_safe ==
    ASSUME SwitchInv, NEW c \in CPU, NEW p \in Slot, exit_init(c, p)
    PROVE  SwitchInv'
<1>1. run[c] = p /\ th[p].pc = "exit" /\ TypeOK
  BY Zenon DEF exit_init, Runs, SwitchInv
<1>2. /\ th' \in [Slot -> ThreadType]
      /\ \A q \in Slot : q # p => th'[q] = th[q]
      /\ th'[p].pc = "panic"
  <2>1. "panic" \in Pcs
    BY Zenon DEF Pcs, Interruptible
  <2>2. TypeOK /\ th' = [th EXCEPT ![p].pc = "panic"]
    BY <1>1, Zenon DEF exit_init, Goto
  <2> QED BY Zenon, <2>1, <2>2, SetPc
<1>3. TypeOK'
  BY <1>1, <1>2, ProcAssumption, Zenon DEF exit_init, TypeOK, table, locks, cpus
<1>4. wait_lock' = wait_lock /\ (wait_lock = c <=> th'[p].pc \in UnderWaitLock)
  BY <1>1, <1>2, OwnWaitLock, Zenon DEF exit_init, locks, UnderWaitLock
<1>5. UNCHANGED <<state, plock, cpus>>
  BY Zenon DEF exit_init, table, locks
<1> QED BY <1>1, <1>2, <1>3, <1>4, <1>5, LocalStep, ProcAssumption, Zenon DEF ForkPc

(* allocproc() found no slot.                                              *)
LEMMA allocproc_none_safe ==
    ASSUME SwitchInv, NEW c \in CPU, NEW p \in Slot, allocproc_none(c, p)
    PROVE  SwitchInv'
<1>1. run[c] = p /\ th[p].pc = "fork" /\ TypeOK
  BY Zenon DEF allocproc_none, Runs, SwitchInv
<1>2. /\ th' \in [Slot -> ThreadType]
      /\ \A q \in Slot : q # p => th'[q] = th[q]
      /\ th'[p].pc = "user"
  <2>1. "user" \in Pcs
    BY Zenon DEF Pcs, Interruptible
  <2>2. TypeOK /\ th' = [th EXCEPT ![p] = At("user")]
    BY <1>1, Zenon DEF allocproc_none, Return
  <2> QED BY Zenon, <2>1, <2>2, SetAt
<1>3. TypeOK'
  BY <1>1, <1>2, ProcAssumption, Zenon DEF allocproc_none, TypeOK, table, locks, cpus
<1>4. wait_lock' = wait_lock /\ (wait_lock = c <=> th'[p].pc \in UnderWaitLock)
  BY <1>1, <1>2, OwnWaitLock, Zenon DEF allocproc_none, locks, UnderWaitLock
<1>5. UNCHANGED <<state, plock, cpus>>
  BY Zenon DEF allocproc_none, table, locks
<1> QED BY <1>1, <1>2, <1>3, <1>4, <1>5, LocalStep, ProcAssumption, Zenon DEF ForkPc

(* fork() sets np->parent under wait_lock.                                 *)
LEMMA fork_parent_safe ==
    ASSUME SwitchInv, NEW c \in CPU, NEW p \in Slot, fork_parent(c, p)
    PROVE  SwitchInv'
<1>1. run[c] = p /\ th[p].pc = "fork_parent" /\ TypeOK
  BY Zenon DEF fork_parent, Runs, SwitchInv
<1>2. /\ th' \in [Slot -> ThreadType]
      /\ \A q \in Slot : q # p => th'[q] = th[q]
      /\ th'[p].pc = "fork_run" /\ th'[p].np = th[p].np
  <2>1. "fork_run" \in Pcs
    BY Zenon DEF Pcs, Interruptible
  <2>2. TypeOK /\ th' = [th EXCEPT ![p].pc = "fork_run"]
    BY <1>1, Zenon DEF fork_parent, Goto
  <2> QED BY Zenon, <2>1, <2>2, SetPc
<1>3. TypeOK'
  <2>1. p \in 0..NPROC
    BY ProcAssumption DEF Slot
  <2>2. parent' \in [Slot -> 0..NPROC]
    BY Zenon, <1>1, <2>1 DEF fork_parent, TypeOK
  <2> QED BY <1>1, <1>2, <2>2, Zenon DEF fork_parent, TypeOK, locks, cpus
<1>4. wait_lock' = wait_lock /\ (wait_lock = c <=> th'[p].pc \in UnderWaitLock)
  BY <1>1, <1>2, OwnWaitLock, Zenon DEF fork_parent, locks, UnderWaitLock
<1>5. UNCHANGED <<state, plock, cpus>>
  BY Zenon DEF fork_parent, table, locks
<1> QED BY <1>1, <1>2, <1>3, <1>4, <1>5, LocalStep, ProcAssumption, Zenon DEF ForkPc

(* exit() takes wait_lock.                                                 *)
LEMMA exit_safe ==
    ASSUME SwitchInv, NEW c \in CPU, NEW p \in Slot, exit(c, p)
    PROVE  SwitchInv'
<1>1. run[c] = p /\ th[p].pc = "exit" /\ TypeOK
  BY Zenon DEF exit, Runs, SwitchInv
<1>2. "reparent" \in Pcs
  BY Zenon DEF Pcs
<1>3. /\ th' \in [Slot -> ThreadType]
      /\ \A q \in Slot : q # p => th'[q] = th[q]
      /\ th'[p].pc = "reparent"
  <2>1. TypeOK /\ th' = [th EXCEPT ![p].pc = "reparent"]
    BY <1>1, Zenon DEF exit, Goto
  <2> QED BY Zenon, <1>2, <2>1, SetPc
<1>4. TypeOK'
  BY <1>1, <1>3, ProcAssumption, Zenon DEF exit, TypeOK, table, locks, cpus
<1>5. wait_lock = NoCPU /\ wait_lock' = c /\ th'[p].pc \in UnderWaitLock
  BY <1>1, <1>3, Zenon DEF exit, UnderWaitLock
<1>6. UNCHANGED <<state, plock, cpus>>
  BY Zenon DEF exit, table, locks
<1> QED BY <1>1, <1>3, <1>4, <1>5, <1>6, LocalStep, ProcAssumption, Zenon DEF ForkPc

(* wait() takes wait_lock.                                                 *)
LEMMA wait_safe ==
    ASSUME SwitchInv, NEW c \in CPU, NEW p \in Slot, wait(c, p)
    PROVE  SwitchInv'
<1>1. run[c] = p /\ th[p].pc = "wait" /\ TypeOK
  BY Zenon DEF wait, Runs, SwitchInv
<1>2. /\ th' \in [Slot -> ThreadType]
      /\ \A q \in Slot : q # p => th'[q] = th[q]
      /\ th'[p].pc = "wait_scan"
  <2>1. "wait_scan" \in Pcs
    BY Zenon DEF Pcs, Interruptible
  <2>2. TypeOK /\ th' = [th EXCEPT ![p] = At("wait_scan")]
    BY <1>1, Zenon DEF wait
  <2> QED BY Zenon, <2>1, <2>2, SetAt
<1>3. TypeOK'
  BY <1>1, <1>2, ProcAssumption, Zenon DEF wait, TypeOK, table, locks, cpus
<1>4. wait_lock = NoCPU /\ wait_lock' = c /\ th'[p].pc \in UnderWaitLock
  BY <1>1, <1>2, Zenon DEF wait, UnderWaitLock
<1>5. UNCHANGED <<state, plock, cpus>>
  BY Zenon DEF wait, table, locks
<1> QED BY <1>1, <1>2, <1>3, <1>4, <1>5, LocalStep, ProcAssumption, Zenon DEF ForkPc

(* reparent() hands one child over.                                        *)
LEMMA reparent_safe ==
    ASSUME SwitchInv, NEW c \in CPU, NEW p \in Slot, reparent(c, p)
    PROVE  SwitchInv'
<1>1. run[c] = p /\ th[p].pc = "reparent" /\ TypeOK
  BY Zenon DEF reparent, Runs, SwitchInv
<1>2. PICK k \in Slot :
         /\ HandOver(k)
         /\ th' = [th EXCEPT ![p] = [@ EXCEPT !.pc = "wakeup", !.i = k + 1, !.j = 1,
                                              !.chan = initproc]]
  BY Zenon DEF reparent
<1>3. k + 1 \in 1..NPROC + 2 /\ initproc \in 0..NPROC
  BY ProcAssumption DEF Slot, initproc
<1>4. /\ th' \in [Slot -> ThreadType]
      /\ \A q \in Slot : q # p => th'[q] = th[q]
      /\ th'[p].pc = "wakeup"
  BY Zenon, <1>1, <1>2, <1>3, SetWakeup
<1>5. TypeOK'
  BY <1>1, <1>4, ProcAssumption, <1>2, <1>3, Zenon DEF reparent, TypeOK, table, locks, cpus, HandOver
<1>6. wait_lock' = wait_lock /\ (wait_lock = c <=> th'[p].pc \in UnderWaitLock)
  BY <1>1, <1>4, OwnWaitLock, Zenon DEF reparent, locks, UnderWaitLock
<1>7. UNCHANGED <<state, plock, cpus>>
  BY Zenon DEF reparent, table, locks
<1> QED BY <1>1, <1>4, <1>5, <1>6, <1>7, LocalStep, ProcAssumption, Zenon DEF ForkPc

(* exit() wakes the parent.                                                *)
LEMMA exit_wakeup_safe ==
    ASSUME SwitchInv, NEW c \in CPU, NEW p \in Slot, exit_wakeup(c, p)
    PROVE  SwitchInv'
<1>1. run[c] = p /\ th[p].pc = "reparent" /\ TypeOK
  BY Zenon DEF exit_wakeup, Runs, SwitchInv
<1>2. NPROC + 2 \in 1..NPROC + 2 /\ ExitChan(p) \in 0..NPROC
  BY <1>1, ProcAssumption DEF TypeOK, ExitChan
<1>3. /\ th' \in [Slot -> ThreadType]
      /\ \A q \in Slot : q # p => th'[q] = th[q]
      /\ th'[p].pc = "wakeup"
  <2> DEFINE x == NPROC + 2
             y == ExitChan(p)
  <2>1. x \in 1..NPROC + 2 /\ y \in 0..NPROC
    BY <1>2, Zenon
  <2>2. TypeOK /\ th' = [th EXCEPT ![p] = [@ EXCEPT !.pc = "wakeup", !.i = x, !.j = 1, !.chan = y]]
    BY <1>1, Zenon DEF exit_wakeup
  <2> HIDE DEF x, y
  <2> QED BY Zenon, <2>1, <2>2, SetWakeup
<1>4. TypeOK'
  BY <1>1, <1>3, ProcAssumption, Zenon DEF exit_wakeup, TypeOK, table, locks, cpus
<1>5. wait_lock' = wait_lock /\ (wait_lock = c <=> th'[p].pc \in UnderWaitLock)
  BY <1>1, <1>3, OwnWaitLock, Zenon DEF exit_wakeup, locks, UnderWaitLock
<1>6. UNCHANGED <<state, plock, cpus>>
  BY Zenon DEF exit_wakeup, table, locks
<1> QED BY <1>1, <1>3, <1>4, <1>5, <1>6, LocalStep, ProcAssumption, Zenon DEF ForkPc

(* wait() passes a child that has not exited.                              *)
LEMMA wait_scan_safe ==
    ASSUME SwitchInv, NEW c \in CPU, NEW p \in Slot, wait_scan(c, p)
    PROVE  SwitchInv'
<1>1. run[c] = p /\ th[p].pc = "wait_scan" /\ TypeOK
  BY Zenon DEF wait_scan, Runs, SwitchInv
<1>2. PICK k \in Slot : th' = [th EXCEPT ![p] = [@ EXCEPT !.i = k + 1, !.kids = TRUE]]
  BY Zenon DEF wait_scan
<1>3. k + 1 \in 1..NPROC + 2
  BY ProcAssumption DEF Slot
<1>4. /\ th' \in [Slot -> ThreadType]
      /\ \A q \in Slot : q # p => th'[q] = th[q]
      /\ th'[p].pc = "wait_scan"
  BY Zenon, <1>1, <1>2, <1>3, SetKids
<1>5. TypeOK'
  BY <1>1, <1>4, ProcAssumption, Zenon DEF wait_scan, TypeOK, table, locks, cpus
<1>6. wait_lock' = wait_lock /\ (wait_lock = c <=> th'[p].pc \in UnderWaitLock)
  BY <1>1, <1>4, OwnWaitLock, Zenon DEF wait_scan, locks, UnderWaitLock
<1>7. UNCHANGED <<state, plock, cpus>>
  BY Zenon DEF wait_scan, table, locks
<1> QED BY <1>1, <1>4, <1>5, <1>6, <1>7, LocalStep, ProcAssumption, Zenon DEF ForkPc

(* fork() makes the child RUNNABLE: no scheduler has seen it before.       *)
LEMMA fork_run_safe ==
    ASSUME SwitchInv, NEW c \in CPU, NEW p \in Slot, fork_run(c, p)
    PROVE  SwitchInv'
<1>1. run[c] = p /\ th[p].pc = "fork_run" /\ TypeOK
  BY Zenon DEF fork_run, Runs, SwitchInv
<1>2. /\ th' \in [Slot -> ThreadType]
      /\ \A q \in Slot : q # p => th'[q] = th[q]
      /\ th'[p].pc = "user"
  <2>1. "user" \in Pcs
    BY Zenon DEF Pcs, Interruptible
  <2>2. TypeOK /\ th' = [th EXCEPT ![p] = At("user")]
    BY <1>1, Zenon DEF fork_run, Return
  <2> QED BY Zenon, <2>1, <2>2, SetAt
<1>3. TypeOK'
  <2>1. state' \in [Slot -> States]
    BY Zenon, <1>1 DEF fork_run, TypeOK, States
  <2> QED BY <1>1, <1>2, <2>1, Zenon DEF fork_run, TypeOK, locks, cpus
<1>4. wait_lock' = wait_lock /\ (wait_lock = c <=> th'[p].pc \in UnderWaitLock)
  BY <1>1, <1>2, OwnWaitLock, Zenon DEF fork_run, locks, UnderWaitLock
<1>5. th[p].np \in Slot /\ state[th[p].np] = "USED" /\ Free(th[p].np)
  BY <1>1, Zenon DEF SwitchInv, ThreadInv, ForkSlotUsed, Forking, CurPc, ForkPc, fork_run
<1>6. \A q \in Slot : state'[q] # state[q] => q = th[p].np /\ state'[q] = "RUNNABLE"
  BY <1>1, <1>5, Zenon DEF fork_run, TypeOK
<1>7. UNCHANGED <<plock, cpus>>
  BY Zenon DEF fork_run, locks
<1> QED BY <1>1, <1>2, <1>3, <1>4, <1>5, <1>6, <1>7, LocalStep, ProcAssumption, Zenon DEF ForkPc

(* wakeup() makes a sleeper RUNNABLE: it is parked in sched().             *)
LEMMA wakeup_safe ==
    ASSUME SwitchInv, NEW c \in CPU, NEW p \in Slot, wakeup(c, p)
    PROVE  SwitchInv'
<1>1. run[c] = p /\ th[p].pc = "wakeup" /\ TypeOK
  BY Zenon DEF wakeup, Runs, SwitchInv
<1>2. th[p].j \in Slot /\ (th[p].j < NPROC => th[p].j + 1 \in Slot)
  <2>1. th[p] \in ThreadType
    BY <1>1, Zenon DEF TypeOK
  <2>2. th[p].j \in Slot
    BY <2>1, Zenon DEF ThreadType
  <2> QED BY <2>2, ProcAssumption DEF Slot
<1>3. "reparent" \in Pcs /\ "exit_zombie" \in Pcs
  BY Zenon DEF Pcs
<1>4. /\ th' \in [Slot -> ThreadType]
      /\ \A q \in Slot : q # p => th'[q] = th[q]
      /\ th'[p].pc \in {"wakeup", "reparent", "exit_zombie"}
  BY <1>1, <1>2, <1>3, SetPc, SetJ, ProcAssumption DEF wakeup, Goto, Return, Pcs, Interruptible
<1>5. TypeOK'
  BY <1>1, <1>4, ProcAssumption, <1>2, Zenon DEF wakeup, TypeOK, table, locks, cpus, States
<1>6. wait_lock' = wait_lock /\ (wait_lock = c <=> th'[p].pc \in UnderWaitLock)
  BY <1>1, <1>4, OwnWaitLock, Zenon DEF wakeup, locks, UnderWaitLock
<1>7. UNCHANGED <<plock, cpus>>
  BY Zenon DEF wakeup, locks
<1>8. \A q \in Slot :
         state'[q] # state[q] => Free(q) /\ state[q] = "SLEEPING" /\ state'[q] = "RUNNABLE"
  BY <1>1, <1>2, Zenon DEF wakeup, TypeOK
<1> QED BY <1>1, <1>4, <1>5, <1>6, <1>7, <1>8, LocalStep, ProcAssumption, Zenon DEF ForkPc

(* kill() makes a sleeper RUNNABLE: it is parked in sched().               *)
LEMMA kill_safe ==
    ASSUME SwitchInv, NEW c \in CPU, NEW p \in Slot, NEW target, kill(c, p, target)
    PROVE  SwitchInv'
<1>1. run[c] = p /\ th[p].pc = "user" /\ TypeOK /\ th' = th
  BY Zenon DEF kill, Runs, SwitchInv
<1>2. PICK n \in Slot :
         /\ Free(n) /\ killed' = [killed EXCEPT ![n] = TRUE]
         /\ state' = IF state[n] = "SLEEPING" THEN [state EXCEPT ![n] = "RUNNABLE"] ELSE state
  BY Zenon DEF kill
<1>3. UNCHANGED <<chan, pid, parent, plock, wait_lock, nextpid, run, cproc, sch>>
  BY Zenon DEF kill, locks, cpus
<1>4. TypeOK'
  <2>1. state' \in [Slot -> States]
    BY <1>1, <1>2 DEF TypeOK, States
  <2>2. killed' \in [Slot -> BOOLEAN]
    BY Zenon, <1>1, <1>2 DEF TypeOK
  <2>3. kills' \in 0..MAXKILL
    BY <1>1, ProcAssumption DEF kill, TypeOK
  <2> QED BY <1>1, <1>3, <2>1, <2>2, <2>3, Zenon DEF TypeOK
<1>5. wait_lock' = wait_lock /\ (wait_lock = c <=> th'[p].pc \in UnderWaitLock)
  BY <1>1, <1>3, OwnWaitLock, Zenon DEF UnderWaitLock
<1>6. UNCHANGED <<plock, cpus>>
  BY <1>3, Zenon DEF cpus
<1>7. \A q \in Slot :
         state'[q] # state[q] => Free(q) /\ state[q] = "SLEEPING" /\ state'[q] = "RUNNABLE"
  BY <1>1, <1>2, Zenon DEF TypeOK
<1> QED BY <1>1, <1>4, <1>5, <1>6, <1>7, LocalStep, ProcAssumption, Zenon DEF ForkPc

(* wait() frees a ZOMBIE: it is parked in sched() for good.                *)
LEMMA wait_found_safe ==
    ASSUME SwitchInv, NEW c \in CPU, NEW p \in Slot, wait_found(c, p)
    PROVE  SwitchInv'
<1>1. run[c] = p /\ th[p].pc = "wait_scan" /\ TypeOK
  BY Zenon DEF wait_found, Runs, SwitchInv
<1>2. PICK k \in Slot : Free(k) /\ state[k] = "ZOMBIE" /\ (freeproc(k) \/ UNCHANGED table)
  BY Zenon DEF wait_found
<1>3. /\ th' \in [Slot -> ThreadType]
      /\ \A q \in Slot : q # p => th'[q] = th[q]
      /\ th'[p].pc = "user"
  <2>1. "user" \in Pcs
    BY Zenon DEF Pcs, Interruptible
  <2>2. TypeOK /\ th' = [th EXCEPT ![p] = At("user")]
    BY <1>1, Zenon DEF wait_found, Return
  <2> QED BY Zenon, <2>1, <2>2, SetAt
<1>4. TypeOK'
  <2>1. CASE UNCHANGED table
    BY <1>1, <1>3, <2>1, Zenon DEF wait_found, TypeOK, table, cpus
  <2>2. CASE freeproc(k)
    <3>1. /\ state' \in [Slot -> States] /\ chan' \in [Slot -> 0..NPROC]
          /\ killed' \in [Slot -> BOOLEAN]
          /\ pid' \in [Slot -> 0..MAXPID] /\ parent' \in [Slot -> 0..NPROC]
      BY <1>1, <1>2, <2>2, FreedTable, Zenon
    <3> QED BY <1>1, <1>3, <3>1, Zenon DEF wait_found, TypeOK, cpus
  <2> QED BY <1>2, <2>1, <2>2, Zenon
<1>5. wait_lock = c /\ wait_lock' = NoCPU /\ th'[p].pc \notin UnderWaitLock
  BY <1>1, <1>3, OwnWaitLock, Zenon DEF wait_found, UnderWaitLock
<1>6. UNCHANGED <<plock, cpus>>
  BY Zenon DEF wait_found
<1>7. \A q \in Slot : state'[q] # state[q] => Free(q) /\ state[q] = "ZOMBIE" /\ state'[q] = "UNUSED"
  BY <1>1, <1>2, Zenon DEF freeproc, table, TypeOK
<1> QED BY <1>1, <1>3, <1>4, <1>5, <1>6, <1>7, LocalStep, ProcAssumption, Zenon DEF ForkPc

(* wait() returns, or goes on to sleep() with wait_lock held.              *)
LEMMA wait_none_safe ==
    ASSUME SwitchInv, NEW c \in CPU, NEW p \in Slot, wait_none(c, p)
    PROVE  SwitchInv'
<1>1. run[c] = p /\ th[p].pc = "wait_scan" /\ TypeOK /\ wait_lock = c
  BY OwnWaitLock, Zenon DEF wait_none, Runs, SwitchInv, UnderWaitLock
<1>2. /\ th' \in [Slot -> ThreadType]
      /\ \A q \in Slot : q # p => th'[q] = th[q]
      /\ \/ th'[p].pc = "user" /\ wait_lock' = NoCPU
         \/ th'[p].pc = "sleep" /\ wait_lock' = c
  <2>1. "user" \in Pcs /\ "sleep" \in Pcs
    BY Zenon DEF Pcs, Interruptible
  <2> QED BY <1>1, <2>1, SetAt, SetPc DEF wait_none, Return, Goto
<1>3. TypeOK'
  BY <1>1, <1>2, Zenon DEF wait_none, TypeOK, table, cpus
<1>4. UNCHANGED <<state, plock, cpus>>
  BY Zenon DEF wait_none, table
<1> QED BY <1>1, <1>2, <1>3, <1>4, LocalStep, ProcAssumption, Zenon DEF ForkPc, UnderWaitLock

-----------------------------------------------------------------------------
(* The scheduler thread.                                                   *)

(* The scan of scheduler() stays inside proc[].                            *)
LEMMA NextSlotIsSlot ==
    ASSUME NEW q \in Slot
    PROVE  NextSlot(q) \in Slot
BY ProcAssumption DEF NextSlot, Slot

(* The scheduler thread releases the lock of the process that came back.   *)
LEMMA scheduler_back_safe ==
    ASSUME SwitchInv, NEW c \in CPU, scheduler_back(c)
    PROVE  SwitchInv'
<1> USE ProcAssumption
<1> DEFINE n == sch[c].p
<1>1. run[c] = 0 /\ sch[c].pc = "back" /\ n \in Slot /\ TypeOK
  BY Zenon DEF scheduler_back, SwitchInv, TypeOK
<1>2. UNCHANGED <<state, th, wait_lock, run>>
  BY Zenon DEF scheduler_back, table
<1>3. sch'[c] = [pc |-> "scan", p |-> NextSlot(n)]
  BY <1>1, Zenon DEF scheduler_back, TypeOK
<1>4. \A d \in CPU : d # c => sch'[d] = sch[d] /\ cproc'[d] = cproc[d]
  BY <1>1, Zenon DEF scheduler_back, TypeOK
<1>5. plock'[n] = NoCPU /\ \A q \in Slot : q # n => plock'[q] = plock[q]
  BY <1>1, Zenon DEF scheduler_back, TypeOK
<1>6. TypeOK'
  <2>1. [pc |-> "scan", p |-> NextSlot(n)] \in [pc : {"scan", "back"}, p : Slot]
    BY <1>1, NextSlotIsSlot, Zenon
  <2>2. sch' = [sch EXCEPT ![c] = [pc |-> "scan", p |-> NextSlot(n)]]
    BY Zenon DEF scheduler_back
  <2>3. sch' \in [CPU -> [pc : {"scan", "back"}, p : Slot]]
    BY <1>1, <2>1, <2>2, Zenon DEF TypeOK
  <2> QED BY <1>1, <2>3 DEF scheduler_back, TypeOK, table
<1>7. PLockOwned' /\ WaitLockOwned'
  <2>1. \A d \in CPU, q \in Slot : d # c => (Owns(d, q)' <=> Owns(d, q))
    BY <1>2, <1>4, Zenon DEF Owns, Runs
  <2>2. \A q \in Slot : ~Owns(c, q)'
    BY <1>1, <1>2, <1>3 DEF Owns, Runs, Slot
  <2>3. \A q \in Slot : Owns(c, q) <=> q = n
    BY <1>1 DEF Owns, Runs, Slot
  <2>4. PLockOwned'
    BY <1>1, <1>5, <2>1, <2>2, <2>3 DEF SwitchInv, PLockOwned
  <2>5. WaitLockOwned'
    BY <1>2, Zenon DEF SwitchInv, WaitLockOwned
  <2> QED BY <2>4, <2>5, Zenon
<1>8. \A q \in Slot : Forking(q)' <=> Forking(q)
  BY <1>2, Zenon DEF Forking, CurPc, ForkPc
<1>9. ThreadInv'
  <2>1. OnItsCpu'
    BY <1>1, <1>2, <1>4, Zenon DEF SwitchInv, ThreadInv, OnItsCpu
  <2>2. OnOneCpu'
    BY <1>2, Zenon DEF SwitchInv, ThreadInv, OnOneCpu
  <2>3. RunningIsOn'
    BY <1>2, Zenon DEF SwitchInv, ThreadInv, RunningIsOn
  <2>4. OnIsRunning'
    BY <1>2, Zenon DEF SwitchInv, ThreadInv, OnIsRunning
  <2>5. OffIsInSched'
    BY <1>2, Zenon DEF SwitchInv, ThreadInv, OffIsInSched
  <2>6. ForkSlotUsed'
    BY <1>2, <1>8, Zenon DEF SwitchInv, ThreadInv, ForkSlotUsed
  <2>7. ForkSlotOwn'
    BY <1>2, <1>8, Zenon DEF SwitchInv, ThreadInv, ForkSlotOwn
  <2> QED BY <2>1, <2>2, <2>3, <2>4, <2>5, <2>6, <2>7, Zenon DEF ThreadInv
<1> QED BY <1>6, <1>7, <1>9, Zenon DEF SwitchInv

(* The scheduler picks a RUNNABLE slot, or goes on to the next.            *)
LEMMA scheduler_safe ==
    ASSUME SwitchInv, NEW c \in CPU, scheduler(c)
    PROVE  SwitchInv'
<1> USE ProcAssumption
<1> DEFINE n == sch[c].p
<1>1. run[c] = 0 /\ sch[c].pc = "scan" /\ n \in Slot /\ Free(n) /\ TypeOK
  BY Zenon DEF scheduler, SwitchInv, TypeOK
<1>2. UNCHANGED <<chan, killed, pid, parent, wait_lock, nextpid, th, kills>>
  BY Zenon DEF scheduler
<1>3. \A q \in Slot : ~Owns(c, q)
  BY <1>1 DEF Owns, Runs, Slot
<1>4. \A q \in Slot : Forking(q)' <=> Forking(q)
  BY <1>2, Zenon DEF Forking, CurPc, ForkPc
<1>5. CASE state[n] = "RUNNABLE"
  <2>1. /\ state' = [state EXCEPT ![n] = "RUNNING"] /\ cproc' = [cproc EXCEPT ![c] = n]
        /\ run' = [run EXCEPT ![c] = n] /\ plock' = [plock EXCEPT ![n] = c]
        /\ sch' = [sch EXCEPT ![c].pc = "back"]
    BY <1>5, Zenon DEF scheduler
  <2>2. /\ run'[c] = n /\ cproc'[c] = n /\ sch'[c].pc = "back" /\ sch'[c].p = n
        /\ \A d \in CPU : d # c => run'[d] = run[d] /\ cproc'[d] = cproc[d] /\ sch'[d] = sch[d]
    BY <1>1, <2>1 DEF TypeOK
  <2> HIDE DEF n
  <2>3. /\ state'[n] = "RUNNING" /\ plock'[n] = c
        /\ \A q \in Slot : q # n => state'[q] = state[q] /\ plock'[q] = plock[q]
    BY <1>1, <2>1, Zenon DEF TypeOK
  <2>4. (\A d \in CPU : run[d] # n) /\ th[n].pc = "sched"
    <3>1. \A d \in CPU : run[d] # n
      BY <1>1, <1>5, FreeIsParked, Zenon
    <3> QED BY <1>1, <3>1, Zenon DEF SwitchInv, ThreadInv, OffIsInSched
  <2>5. TypeOK'
    <3>1. state' \in [Slot -> States] /\ plock' \in [Slot -> CPU \cup {NoCPU}]
      BY <1>1, <2>1, Zenon DEF TypeOK, States
    <3>2. run' \in [CPU -> 0..NPROC] /\ cproc' \in [CPU -> 0..NPROC]
      <4>1. n \in 0..NPROC
        BY <1>1 DEF Slot
      <4> QED BY <1>1, <2>1, <4>1, Zenon DEF TypeOK
    <3>3. sch' \in [CPU -> [pc : {"scan", "back"}, p : Slot]]
      BY <1>1, <2>1 DEF TypeOK
    <3> QED BY <1>1, <1>2, <3>1, <3>2, <3>3, Zenon DEF TypeOK
  <2>6. PLockOwned' /\ WaitLockOwned'
    <3>1. \A d \in CPU, q \in Slot : d # c => (Owns(d, q)' <=> Owns(d, q))
      BY <1>2, <2>2 DEF Owns, Runs
    <3>2. \A q \in Slot : Owns(c, q)' <=> q = n
      BY <1>1, <1>2, <2>2, <2>4, Zenon DEF Owns, Runs, Slot
    <3>3. PLockOwned'
      BY <1>1, <1>3, <2>3, <3>1, <3>2 DEF SwitchInv, PLockOwned, Free
    <3>4. WaitLockOwned'
      BY <1>1, <1>2, <2>2, <2>4 DEF SwitchInv, WaitLockOwned, UnderWaitLock, Slot
    <3> QED BY <3>3, <3>4, Zenon
  <2>7. ThreadInv'
    <3>1. OnItsCpu'
      BY <1>1, <2>2, Zenon DEF SwitchInv, ThreadInv, OnItsCpu
    <3>2. OnOneCpu'
      BY <1>1, <2>2, <2>4 DEF SwitchInv, ThreadInv, OnOneCpu
    <3>3. RunningIsOn'
      <4> SUFFICES ASSUME NEW q \in Slot, state'[q] = "RUNNING"
                   PROVE  \E d \in CPU : run'[d] = q
        BY Zenon DEF RunningIsOn
      <4>1. CASE q = n
        BY <2>2, <4>1, Zenon
      <4>2. CASE q # n
        <5>1. PICK d \in CPU : run[d] = q
          BY <2>3, <4>2, Zenon DEF SwitchInv, ThreadInv, RunningIsOn
        <5>2. d # c
          BY <1>1, <5>1 DEF Slot
        <5> QED BY <2>2, <5>1, <5>2, Zenon
      <4> QED BY <4>1, <4>2, Zenon
    <3>4. OnIsRunning'
      BY <1>1, <1>2, <2>2, <2>3, <2>4 DEF SwitchInv, ThreadInv, OnIsRunning
    <3>5. OffIsInSched'
      BY <1>1, <1>2, <2>2, <2>4 DEF SwitchInv, ThreadInv, OffIsInSched, Slot
    <3>6. ForkSlotUsed'
      BY <1>2, <1>4, <1>5, <2>3, Zenon DEF SwitchInv, ThreadInv, ForkSlotUsed
    <3>7. ForkSlotOwn'
      BY <1>2, <1>4, Zenon DEF SwitchInv, ThreadInv, ForkSlotOwn
    <3> QED BY <3>1, <3>2, <3>3, <3>4, <3>5, <3>6, <3>7, Zenon DEF ThreadInv
  <2> QED BY <2>5, <2>6, <2>7, Zenon DEF SwitchInv
<1>6. CASE state[n] # "RUNNABLE"
  <2>1. UNCHANGED <<state, cproc, run, plock>> /\ sch' = [sch EXCEPT ![c].p = NextSlot(n)]
    BY <1>6, Zenon DEF scheduler
  <2>2. sch'[c].pc = "scan" /\ \A d \in CPU : d # c => sch'[d] = sch[d]
    BY <1>1, <2>1, Zenon DEF TypeOK
  <2>3. TypeOK'
    <3>1. sch' \in [CPU -> [pc : {"scan", "back"}, p : Slot]]
      BY <1>1, <2>1, NextSlotIsSlot DEF TypeOK
    <3> QED BY <1>1, <1>2, <2>1, <3>1, Zenon DEF TypeOK
  <2>4. PLockOwned' /\ WaitLockOwned'
    <3>1. \A d \in CPU, q \in Slot : Owns(d, q)' <=> Owns(d, q)
      BY <1>1, <1>2, <2>1, <2>2, Zenon DEF Owns, Runs, Slot
    <3> QED BY <1>2, <2>1, <3>1, Zenon DEF SwitchInv, PLockOwned, WaitLockOwned
  <2>5. ThreadInv'
    <3>1. OnItsCpu'
      BY <1>1, <2>1, <2>2, Zenon DEF SwitchInv, ThreadInv, OnItsCpu
    <3>2. OnOneCpu' /\ RunningIsOn'
      BY <2>1, Zenon DEF SwitchInv, ThreadInv, OnOneCpu, RunningIsOn
    <3>3. OnIsRunning' /\ OffIsInSched'
      BY <1>2, <2>1, Zenon DEF SwitchInv, ThreadInv, OnIsRunning, OffIsInSched
    <3>4. ForkSlotUsed' /\ ForkSlotOwn'
      BY <1>2, <1>4, <2>1, Zenon DEF SwitchInv, ThreadInv, ForkSlotUsed, ForkSlotOwn
    <3> QED BY <3>1, <3>2, <3>3, <3>4, Zenon DEF ThreadInv
  <2> QED BY <2>3, <2>4, <2>5, Zenon DEF SwitchInv
<1> QED BY <1>5, <1>6, Zenon

-----------------------------------------------------------------------------
(* The actions that take or release a p->lock preserve SwitchInv: yield(), *)
(* sleep(), exit(), both sides of sched() and scheduler(), and the lock of *)
(* the slot that fork() fills.                                             *)

(* yield(), sleep() and exit() take p->lock and change p->state before     *)
(* sched().                                                                *)
LEMMA ParkStep ==
    ASSUME SwitchInv, NEW c \in CPU, NEW p \in Slot, run[c] = p, Free(p),
           th[p].pc \notin {"sched", "fork_copy"},
           TypeOK', \A q \in Slot : q # p => th'[q] = th[q],
           th'[p].pc = "sched",
           Forking(p)' => Forking(p) /\ th'[p].np = th[p].np,
           NEW x \in {"RUNNABLE", "SLEEPING", "ZOMBIE"},
           state' = [state EXCEPT ![p] = x],
           plock' = [plock EXCEPT ![p] = c],
           UNCHANGED cpus,
           wait_lock' = IF wait_lock = c THEN NoCPU ELSE wait_lock
    PROVE  SwitchInv'
<1> USE ProcAssumption
<1>1. \A q \in Slot : q # p => th'[q] = th[q] /\ state'[q] = state[q] /\ plock'[q] = plock[q]
  BY DEF SwitchInv, TypeOK
<1>2. state[p] = "RUNNING" /\ state'[p] = x /\ plock'[p] = c
  BY Zenon DEF SwitchInv, ThreadInv, OnIsRunning, TypeOK
<1>3. \A d \in CPU : run[d] = p => d = c
  BY DEF SwitchInv, ThreadInv, OnOneCpu, Slot
<1>4. \A q \in Slot : Forking(q)' => Forking(q) /\ th'[q].np = th[q].np
  <2> TAKE q \in Slot
  <2>1. CASE q = p
    BY <2>1, Zenon
  <2>2. CASE q # p
    BY <2>2, <1>1, Zenon DEF Forking, CurPc, ForkPc
  <2> QED BY <2>1, <2>2, Zenon
<1>5. PLockOwned' /\ WaitLockOwned'
  <2>1. \A d \in CPU, q \in Slot : q # p => (Owns(d, q)' <=> Owns(d, q))
    BY <1>1, <1>3 DEF Owns, Runs, cpus
  <2>2. \A d \in CPU : Owns(d, p)' <=> d = c
    <3>1. \A d \in CPU : ~Owns(d, p)
      BY Zenon DEF Free, SwitchInv, PLockOwned
    <3>2. Owns(c, p)'
      BY Zenon DEF Owns, Runs, cpus
    <3>3. \A d \in CPU : d # c /\ Owns(d, p)' => Owns(d, p)
      BY <1>1, <1>3 DEF Owns, Runs, cpus
    <3> QED BY <3>1, <3>2, <3>3, Zenon
  <2>3. PLockOwned'
    BY <2>1, <2>2, <1>1, <1>2 DEF SwitchInv, PLockOwned
  <2>4. WaitLockOwned'
    <3> SUFFICES ASSUME NEW d \in CPU
                 PROVE  wait_lock' = d <=> \E q \in Slot : run'[d] = q /\ th'[q].pc \in UnderWaitLock
      BY Zenon DEF WaitLockOwned
    <3>1. CASE d = c
      BY <3>1, <1>1, Zenon DEF cpus, UnderWaitLock
    <3>2. CASE d # c
      BY <3>2, <1>1, <1>3 DEF cpus, SwitchInv, WaitLockOwned
    <3> QED BY <3>1, <3>2, Zenon
  <2> QED BY <2>3, <2>4, Zenon
<1>6. ThreadInv'
  <2>1. OnItsCpu'
    BY Zenon DEF SwitchInv, ThreadInv, OnItsCpu, cpus
  <2>2. OnOneCpu'
    BY Zenon DEF SwitchInv, ThreadInv, OnOneCpu, cpus
  <2>3. RunningIsOn'
    BY <1>1, <1>2 DEF SwitchInv, ThreadInv, RunningIsOn, cpus
  <2>4. OnIsRunning'
    BY <1>1, <1>2 DEF SwitchInv, ThreadInv, OnIsRunning, cpus
  <2>5. OffIsInSched'
    BY <1>1 DEF SwitchInv, ThreadInv, OffIsInSched, cpus
  <2>6. ForkSlotUsed'
    BY <1>1, <1>2, <1>4 DEF SwitchInv, ThreadInv, ForkSlotUsed
  <2>7. ForkSlotOwn'
    BY <1>4, Zenon DEF SwitchInv, ThreadInv, ForkSlotOwn
  <2> QED BY <2>1, <2>2, <2>3, <2>4, <2>5, <2>6, <2>7, Zenon DEF ThreadInv
<1> QED BY <1>5, <1>6, Zenon DEF SwitchInv

(* The thread of p is left in sched().                                     *)
LEMMA SetSwitched ==
    ASSUME TypeOK, NEW p \in Slot, NEW x \in {"dead"} \cup Interruptible,
           th' = [th EXCEPT ![p] = Switched(x)]
    PROVE  /\ th' \in [Slot -> ThreadType]
           /\ \A q \in Slot : q # p => th'[q] = th[q]
           /\ th'[p].pc = "sched" /\ th'[p].res = x
BY SwitchedType, Zenon DEF TypeOK

(* exit() becomes a ZOMBIE and drops wait_lock.                            *)
LEMMA exit_zombie_safe ==
    ASSUME SwitchInv, NEW c \in CPU, NEW p \in Slot, exit_zombie(c, p)
    PROVE  SwitchInv'
<1>1. run[c] = p /\ th[p].pc = "exit_zombie" /\ TypeOK /\ wait_lock = c
  BY OwnWaitLock, Zenon DEF exit_zombie, Runs, SwitchInv, UnderWaitLock
<1>2. /\ th' \in [Slot -> ThreadType]
      /\ \A q \in Slot : q # p => th'[q] = th[q]
      /\ th'[p].pc = "sched" /\ th'[p].res = "dead"
  BY Zenon, <1>1, SetSwitched DEF exit_zombie
<1>3. TypeOK'
  BY <1>1, <1>2, Zenon DEF exit_zombie, TypeOK, cpus, States
<1>4. ~Forking(p)'
  BY <1>2, Zenon DEF Forking, CurPc, ForkPc
<1> QED BY Zenon, <1>1, <1>2, <1>3, <1>4, ParkStep DEF exit_zombie

(* sleep() takes p->lock before it drops wait_lock.                        *)
LEMMA sleep_safe ==
    ASSUME SwitchInv, NEW c \in CPU, NEW p \in Slot, sleep(c, p)
    PROVE  SwitchInv'
<1>1. run[c] = p /\ th[p].pc = "sleep" /\ TypeOK /\ wait_lock = c
  BY OwnWaitLock, Zenon DEF sleep, Runs, SwitchInv, UnderWaitLock
<1>2. /\ th' \in [Slot -> ThreadType]
      /\ \A q \in Slot : q # p => th'[q] = th[q]
      /\ th'[p].pc = "sched" /\ th'[p].res = "wait"
  BY Zenon, <1>1, SetSwitched DEF sleep, Interruptible
<1>3. TypeOK'
  <2>1. p \in 0..NPROC
    BY ProcAssumption DEF Slot
  <2> QED BY <1>1, <1>2, <2>1, Zenon DEF sleep, TypeOK, cpus, States
<1>4. ~Forking(p)'
  BY <1>2, Zenon DEF Forking, CurPc, ForkPc
<1> QED BY Zenon, <1>1, <1>2, <1>3, <1>4, ParkStep DEF sleep

(* yield() on a timer interrupt.                                           *)
LEMMA yield_safe ==
    ASSUME SwitchInv, NEW c \in CPU, NEW p \in Slot, yield(c, p)
    PROVE  SwitchInv'
<1>1. run[c] = p /\ th[p].pc \in Interruptible /\ TypeOK /\ wait_lock # c
  BY OwnWaitLock, Zenon DEF yield, SwitchInv, UnderWaitLock, Interruptible
<1>2. /\ th' \in [Slot -> ThreadType]
      /\ \A q \in Slot : q # p => th'[q] = th[q]
      /\ th'[p].pc = "sched" /\ th'[p].res = th[p].pc /\ th'[p].np = th[p].np
  <2>1. th[p] \in ThreadType /\ "sched" \in Pcs /\ th[p].pc \in {"dead"} \cup Interruptible
    BY <1>1, Zenon DEF TypeOK, Pcs
  <2> DEFINE r == [th[p] EXCEPT !.res = th[p].pc, !.pc = "sched"]
  <2>2. r \in ThreadType /\ r.pc = "sched" /\ r.res = th[p].pc /\ r.np = th[p].np
    BY Zenon, <2>1 DEF ThreadType
  <2>3. th' = [th EXCEPT ![p] = r]
    BY Zenon DEF yield
  <2> HIDE DEF r
  <2> QED BY <1>1, <2>2, <2>3, Zenon DEF TypeOK
<1>3. TypeOK'
  BY <1>1, <1>2, Zenon DEF yield, TypeOK, cpus, States
<1>4. Forking(p)' => Forking(p)
  BY <1>1, <1>2, Zenon DEF Forking, CurPc, ForkPc, Interruptible
<1> QED BY Zenon, <1>1, <1>2, <1>3, <1>4, ParkStep DEF yield, Interruptible

(* fork() releases the lock of the slot it fills, and keeps or frees it.   *)
LEMMA ReleaseStep ==
    ASSUME SwitchInv, NEW c \in CPU, NEW p \in Slot, Runs(c, p, "fork_copy"),
           TypeOK', \A q \in Slot : q # p => th'[q] = th[q],
           th'[p].pc \notin {"sched", "fork_copy"} \cup UnderWaitLock,
           plock' = [plock EXCEPT ![th[p].np] = NoCPU],
           UNCHANGED <<wait_lock, cpus>>,
           \/ UNCHANGED state /\ th'[p].np = th[p].np
           \/ state' = [state EXCEPT ![th[p].np] = "UNUSED"] /\ th'[p].pc \notin ForkPc
    PROVE  SwitchInv'
<1> USE ProcAssumption
<1>1. Forking(p) /\ th[p].np \in Slot /\ state[th[p].np] = "USED" /\ plock[th[p].np] = c /\ run[c] = p
  <2>1. Forking(p)
    BY Zenon DEF Runs, Forking, CurPc, ForkPc
  <2>2. th[p].np \in Slot /\ state[th[p].np] = "USED"
    BY <2>1, Zenon DEF SwitchInv, ThreadInv, ForkSlotUsed
  <2>3. Owns(c, th[p].np)
    BY Zenon DEF Owns
  <2> QED BY <2>1, <2>2, <2>3, Zenon DEF SwitchInv, PLockOwned, Runs
<1>2. \A d \in CPU : run[d] # th[p].np /\ (run[d] = p => d = c)
  BY <1>1 DEF SwitchInv, ThreadInv, OnIsRunning, OnOneCpu, Slot
<1>3. \A q \in Slot : q # th[p].np => plock'[q] = plock[q] /\ state'[q] = state[q]
  BY <1>1, Zenon DEF SwitchInv, TypeOK
<1>4. plock'[th[p].np] = NoCPU /\ state'[th[p].np] \in {"USED", "UNUSED"}
  BY <1>1, Zenon DEF SwitchInv, TypeOK
<1>5. \A q \in Slot : Forking(q)' => Forking(q) /\ th'[q].np = th[q].np
  <2> TAKE q \in Slot
  <2>1. CASE q = p
    BY <2>1, <1>1, Zenon DEF Forking, CurPc, ForkPc
  <2>2. CASE q # p
    BY <2>2, Zenon DEF Forking, CurPc, ForkPc
  <2> QED BY <2>1, <2>2, Zenon
<1>6. PLockOwned' /\ WaitLockOwned'
  <2>1. \A d \in CPU, q \in Slot : Owns(d, q)' => Owns(d, q) /\ q # th[p].np
    <3> SUFFICES ASSUME NEW d \in CPU, NEW q \in Slot, Owns(d, q)'
                 PROVE  Owns(d, q) /\ q # th[p].np
      BY Zenon
    <3>1. Owns(d, q)
      BY <1>2, Zenon DEF Owns, Runs, cpus
    <3>2. CASE q = th[p].np
      <4>1. d = c
        BY <3>1, <3>2, <1>1, Zenon DEF SwitchInv, PLockOwned
      <4> QED BY <4>1, <3>2, <1>1 DEF Owns, Runs, cpus, Slot
    <3> QED BY <3>1, <3>2, Zenon
  <2>2. \A d \in CPU, q \in Slot : Owns(d, q) /\ q # th[p].np => Owns(d, q)'
    BY <1>1, <1>2, Zenon DEF Owns, Runs, cpus
  <2>3. PLockOwned'
    BY <2>1, <2>2, <1>3, <1>4 DEF SwitchInv, PLockOwned
  <2>4. WaitLockOwned'
    BY <1>1, <1>2, Zenon DEF SwitchInv, WaitLockOwned, cpus, Runs, UnderWaitLock
  <2> QED BY <2>3, <2>4, Zenon
<1>7. ThreadInv'
  <2>1. OnItsCpu'
    BY Zenon DEF SwitchInv, ThreadInv, OnItsCpu, cpus
  <2>2. OnOneCpu'
    BY Zenon DEF SwitchInv, ThreadInv, OnOneCpu, cpus
  <2>3. RunningIsOn'
    BY <1>3, <1>4 DEF SwitchInv, ThreadInv, RunningIsOn, cpus
  <2>4. OnIsRunning'
    BY <1>2, <1>3 DEF SwitchInv, ThreadInv, OnIsRunning, cpus, Runs
  <2>5. OffIsInSched'
    BY <1>1, Zenon DEF SwitchInv, ThreadInv, OffIsInSched, cpus
  <2>6. ForkSlotUsed'
    <3> SUFFICES ASSUME NEW q \in Slot, Forking(q)'
                 PROVE  th'[q].np \in Slot /\ state'[th'[q].np] = "USED"
      BY Zenon DEF ForkSlotUsed
    <3>1. Forking(q) /\ th'[q].np = th[q].np
      BY <1>5, Zenon
    <3>2. th[q].np \in Slot /\ state[th[q].np] = "USED"
      BY <3>1, Zenon DEF SwitchInv, ThreadInv, ForkSlotUsed
    <3>3. CASE q = p
      BY <3>3, <3>1, <3>2, Zenon DEF Forking, CurPc, ForkPc
    <3>4. CASE q # p
      <4>1. th[q].np # th[p].np
        BY <3>4, <3>1, <1>1, Zenon DEF SwitchInv, ThreadInv, ForkSlotOwn
      <4> QED BY <4>1, <3>1, <3>2, <1>3, Zenon
    <3> QED BY <3>3, <3>4, Zenon
  <2>7. ForkSlotOwn'
    BY <1>5, Zenon DEF SwitchInv, ThreadInv, ForkSlotOwn
  <2> QED BY <2>1, <2>2, <2>3, <2>4, <2>5, <2>6, <2>7, Zenon DEF ThreadInv
<1> QED BY <1>6, <1>7, Zenon DEF SwitchInv

(* fork() gives its slot back.                                             *)
LEMMA fork_fail_safe ==
    ASSUME SwitchInv, NEW c \in CPU, NEW p \in Slot, fork_fail(c, p)
    PROVE  SwitchInv'
<1>1. Runs(c, p, "fork_copy") /\ TypeOK
  BY Zenon DEF fork_fail, SwitchInv
<1>2. th[p].np \in Slot
  BY <1>1, Zenon DEF SwitchInv, ThreadInv, ForkSlotUsed, Runs, Forking, CurPc, ForkPc
<1>3. /\ th' \in [Slot -> ThreadType]
      /\ \A q \in Slot : q # p => th'[q] = th[q]
      /\ th'[p].pc = "user"
  <2>1. "user" \in Pcs
    BY Zenon DEF Pcs, Interruptible
  <2>2. TypeOK /\ th' = [th EXCEPT ![p] = At("user")]
    BY <1>1, Zenon DEF fork_fail, Return
  <2> QED BY Zenon, <2>1, <2>2, SetAt
<1>4. TypeOK'
  <2>1. /\ state' \in [Slot -> States] /\ chan' \in [Slot -> 0..NPROC]
        /\ killed' \in [Slot -> BOOLEAN]
        /\ pid' \in [Slot -> 0..MAXPID] /\ parent' \in [Slot -> 0..NPROC]
    BY <1>1, <1>2, FreedTable, Zenon DEF fork_fail
  <2> QED BY Zenon, <1>1, <1>3, <2>1 DEF fork_fail, TypeOK, cpus
<1> QED BY Zenon, <1>1, <1>3, <1>4, ReleaseStep DEF fork_fail, freeproc, UnderWaitLock, ForkPc

(* fork() has filled its slot.                                             *)
LEMMA fork_copied_safe ==
    ASSUME SwitchInv, NEW c \in CPU, NEW p \in Slot, fork_copied(c, p)
    PROVE  SwitchInv'
<1>1. Runs(c, p, "fork_copy") /\ TypeOK
  BY Zenon DEF fork_copied, SwitchInv
<1>2. /\ th' \in [Slot -> ThreadType]
      /\ \A q \in Slot : q # p => th'[q] = th[q]
      /\ th'[p].pc = "fork_parent" /\ th'[p].np = th[p].np
  <2>1. "fork_parent" \in Pcs
    BY Zenon DEF Pcs, Interruptible
  <2>2. TypeOK /\ th' = [th EXCEPT ![p].pc = "fork_parent"]
    BY <1>1, Zenon DEF fork_copied, Goto
  <2> QED BY Zenon, <2>1, <2>2, SetPc
<1>3. TypeOK'
  BY Zenon, <1>1, <1>2 DEF fork_copied, TypeOK, table, cpus
<1> QED BY Zenon, <1>1, <1>2, <1>3, ReleaseStep DEF fork_copied, table, UnderWaitLock, ForkPc

(* The slot that allocproc() finds is nobody else's.                       *)
LEMMA AllocStep ==
    ASSUME SwitchInv, NEW c \in CPU, NEW p \in Slot, Runs(c, p, "fork"),
           NEW n \in Slot, Free(n), state[n] = "UNUSED",
           TypeOK', \A q \in Slot : q \notin {p, n} => th'[q] = th[q],
           th'[p].pc = "fork_copy", th'[p].np = n,
           th'[n].pc = "sched", th'[n].res = "user",
           state' = [state EXCEPT ![n] = "USED"],
           plock' = [plock EXCEPT ![n] = c],
           UNCHANGED <<wait_lock, cpus>>
    PROVE  SwitchInv'
<1> USE ProcAssumption
<1>1. run[c] = p /\ th[p].pc = "fork" /\ state[p] = "RUNNING" /\ p # n
  BY Zenon DEF Runs, SwitchInv, ThreadInv, OnIsRunning
<1>2. \A d \in CPU : run[d] # n /\ (run[d] = p => d = c)
  BY <1>1, FreeIsParked DEF SwitchInv, ThreadInv, OnOneCpu, Slot
<1>3. \A q \in Slot : q # n => plock'[q] = plock[q] /\ state'[q] = state[q]
  BY DEF SwitchInv, TypeOK
<1>4. plock'[n] = c /\ state'[n] = "USED"
  BY Zenon DEF SwitchInv, TypeOK
<1>5. \A q \in Slot : Forking(q)' =>
        q = p \/ (q # n /\ Forking(q) /\ th'[q].np = th[q].np /\ th[q].np \in Slot \ {n})
  <2> SUFFICES ASSUME NEW q \in Slot, Forking(q)', q # p
               PROVE  q # n /\ Forking(q) /\ th'[q].np = th[q].np /\ th[q].np \in Slot \ {n}
    BY Zenon
  <2>1. q # n
    BY Zenon DEF Forking, CurPc, ForkPc
  <2>2. Forking(q) /\ th'[q].np = th[q].np
    BY <2>1, Zenon DEF Forking, CurPc, ForkPc
  <2> QED BY <2>1, <2>2, Zenon DEF SwitchInv, ThreadInv, ForkSlotUsed
<1>6. PLockOwned' /\ WaitLockOwned'
  <2>1. \A d \in CPU, q \in Slot : q # n => (Owns(d, q)' <=> Owns(d, q))
    BY <1>1, <1>2 DEF Owns, Runs, cpus
  <2>2. \A d \in CPU : Owns(d, n)' <=> d = c
    <3>1. \A d \in CPU : ~Owns(d, n)
      BY Zenon DEF Free, SwitchInv, PLockOwned
    <3>2. Owns(c, n)'
      BY <1>1, Zenon DEF Owns, Runs, cpus
    <3>3. \A d \in CPU : d # c /\ Owns(d, n)' => Owns(d, n)
      BY <1>1, <1>2 DEF Owns, Runs, cpus
    <3> QED BY <3>1, <3>2, <3>3, Zenon
  <2>3. PLockOwned'
    BY <2>1, <2>2, <1>3, <1>4 DEF SwitchInv, PLockOwned
  <2>4. WaitLockOwned'
    BY <1>1, <1>2 DEF SwitchInv, WaitLockOwned, cpus, UnderWaitLock
  <2> QED BY <2>3, <2>4, Zenon
<1>7. ThreadInv'
  <2>1. OnItsCpu'
    BY Zenon DEF SwitchInv, ThreadInv, OnItsCpu, cpus
  <2>2. OnOneCpu'
    BY Zenon DEF SwitchInv, ThreadInv, OnOneCpu, cpus
  <2>3. RunningIsOn'
    BY <1>3, <1>4 DEF SwitchInv, ThreadInv, RunningIsOn, cpus
  <2>4. OnIsRunning'
    BY <1>1, <1>2, <1>3 DEF SwitchInv, ThreadInv, OnIsRunning, cpus
  <2>5. OffIsInSched'
    BY <1>1 DEF SwitchInv, ThreadInv, OffIsInSched, cpus
  <2>6. ForkSlotUsed'
    BY <1>3, <1>4, <1>5 DEF SwitchInv, ThreadInv, ForkSlotUsed
  <2>7. ForkSlotOwn'
    BY <1>5 DEF SwitchInv, ThreadInv, ForkSlotOwn
  <2> QED BY <2>1, <2>2, <2>3, <2>4, <2>5, <2>6, <2>7, Zenon DEF ThreadInv
<1> QED BY <1>6, <1>7, Zenon DEF SwitchInv

(* One slot of the loop in allocproc().                                    *)
LEMMA allocproc_safe ==
    ASSUME SwitchInv, NEW c \in CPU, NEW p \in Slot, allocproc(c, p)
    PROVE  SwitchInv'
<1> DEFINE n == th[p].i
<1>1. /\ Runs(c, p, "fork") /\ run[c] = p /\ th[p].pc = "fork" /\ TypeOK
      /\ n \in Slot /\ Free(n) /\ UNCHANGED <<wait_lock, cpus>>
  BY Zenon DEF allocproc, SwitchInv, Runs
<1>2. CASE state[n] = "UNUSED" /\ nextpid <= MAXPID
  <2>1. p # n
    BY <1>1, <1>2, Zenon DEF SwitchInv, ThreadInv, OnIsRunning
  <2> DEFINE r == [th[p] EXCEPT !.pc = "fork_copy", !.np = n]
  <2>2. r \in ThreadType /\ r.pc = "fork_copy" /\ r.np = n
    <3>1. th[p] \in ThreadType
      BY <1>1, Zenon DEF TypeOK
    <3>2. n \in 0..NPROC
      <4>1. n \in Slot
        BY <1>1, Zenon
      <4> HIDE DEF n
      <4> QED BY <4>1, ProcAssumption DEF Slot
    <3>3. "fork_copy" \in Pcs
      BY Zenon DEF Pcs
    <3> QED BY Zenon, <3>1, <3>2, <3>3 DEF ThreadType
  <2>3. th' = [th EXCEPT ![p] = r, ![n] = Switched("user")]
    BY <1>2, Zenon DEF allocproc
  <2>4. /\ Switched("user") \in ThreadType
        /\ Switched("user").pc = "sched" /\ Switched("user").res = "user"
    BY SwitchedType, Zenon DEF Interruptible
  <2> HIDE DEF r, n
  <2>5. /\ th' \in [Slot -> ThreadType]
        /\ \A q \in Slot : q \notin {p, n} => th'[q] = th[q]
        /\ th'[p] = r /\ th'[n] = Switched("user")
    BY <1>1, <2>1, <2>2, <2>3, <2>4, Zenon DEF TypeOK
  <2>6. state' = [state EXCEPT ![n] = "USED"] /\ plock' = [plock EXCEPT ![n] = c]
    BY <1>2, Zenon DEF allocproc, MarkUsed, n
  <2>7. TypeOK'
    <3>1. nextpid' \in 2..MAXPID + 1 /\ pid' \in [Slot -> 0..MAXPID]
      BY <1>1, <1>2, ProcAssumption DEF allocproc, TypeOK, n
    <3>2. state' \in [Slot -> States] /\ plock' \in [Slot -> CPU \cup {NoCPU}]
      BY <1>1, <2>6, Zenon DEF TypeOK, States
    <3> QED BY <1>1, <2>5, <3>1, <3>2 DEF allocproc, TypeOK, cpus
  <2>8. /\ \A q \in Slot : q \notin {p, n} => th'[q] = th[q]
        /\ th'[p].pc = "fork_copy" /\ th'[p].np = n
        /\ th'[n].pc = "sched" /\ th'[n].res = "user"
    BY <2>2, <2>4, <2>5, Zenon
  <2>9. /\ Runs(c, p, "fork") /\ n \in Slot /\ Free(n) /\ state[n] = "UNUSED"
        /\ UNCHANGED <<wait_lock, cpus>>
    BY <1>1, <1>2, Zenon
  <2> QED BY Zenon, <2>6, <2>7, <2>8, <2>9, AllocStep
<1>3. CASE ~(state[n] = "UNUSED" /\ nextpid <= MAXPID)
  <2>1. th' = [th EXCEPT ![p].i = n + 1] /\ UNCHANGED <<state, pid, plock, nextpid>>
    BY <1>3, Zenon DEF allocproc
  <2>2. n + 1 \in 1..NPROC + 2
    BY <1>1, ProcAssumption DEF Slot
  <2> HIDE DEF n
  <2>3. /\ th' \in [Slot -> ThreadType]
        /\ \A q \in Slot : q # p => th'[q] = th[q]
        /\ th'[p].pc = "fork"
    <3>1. TypeOK /\ th' = [th EXCEPT ![p].i = n + 1]
      BY <1>1, <2>1, Zenon
    <3>2. th' \in [Slot -> ThreadType] /\ th'[p].pc = th[p].pc
      BY Zenon, <2>2, <3>1, SetI
    <3>3. \A q \in Slot : q # p => th'[q] = th[q]
      BY Zenon, <2>2, <3>1, SetI
    <3> QED BY <1>1, <3>2, <3>3, Zenon
  <2>4. TypeOK'
    BY <1>1, <2>1, <2>3 DEF allocproc, TypeOK, cpus
  <2>5. wait_lock = c <=> th'[p].pc \in UnderWaitLock
    BY <1>1, <2>3, OwnWaitLock, Zenon DEF UnderWaitLock
  <2> QED BY <1>1, <2>1, <2>3, <2>4, <2>5, LocalStep DEF ForkPc
<1> QED BY <1>2, <1>3, Zenon

(* Both sides of swtch().                                                  *)
LEMMA sched_safe ==
    ASSUME SwitchInv, NEW c \in CPU, NEW p \in Slot, sched(c, p)
    PROVE  SwitchInv'
<1> USE ProcAssumption
<1>1. /\ run[c] = p /\ th[p].pc = "sched" /\ state[p] # "RUNNING"
      /\ sch[c].pc = "back" /\ sch[c].p = p
  BY DEF sched, Runs, SwitchInv, ThreadInv, OnItsCpu, Slot
<1>2. UNCHANGED <<state, th, plock, wait_lock, cproc, sch>>
  BY Zenon DEF sched, table, locks
<1>3. run'[c] = 0 /\ \A d \in CPU : d # c => run'[d] = run[d]
  BY Zenon DEF sched, SwitchInv, TypeOK
<1>4. TypeOK'
  BY DEF sched, SwitchInv, TypeOK, table, locks
<1>5. PLockOwned' /\ WaitLockOwned'
  <2>1. \A d \in CPU, q \in Slot : d # c => (Owns(d, q)' <=> Owns(d, q))
    BY <1>2, <1>3, Zenon DEF Owns, Runs
  <2>2. \A q \in Slot : Owns(c, q)' <=> q = p
    BY <1>1, <1>2, <1>3 DEF Owns, Runs, Slot
  <2>3. \A q \in Slot : Owns(c, q) <=> q = p
    BY <1>1, Zenon DEF Owns, Runs, Slot
  <2>4. PLockOwned'
    BY <2>1, <2>2, <2>3, <1>2 DEF SwitchInv, PLockOwned
  <2>5. WaitLockOwned'
    BY <1>1, <1>2, <1>3 DEF SwitchInv, WaitLockOwned, UnderWaitLock, Slot
  <2> QED BY <2>4, <2>5, Zenon
<1>6. Forking(p)' = Forking(p) /\ \A q \in Slot : Forking(q)' = Forking(q)
  BY <1>2, Zenon DEF Forking, CurPc, ForkPc
<1>7. ThreadInv'
  <2>1. OnItsCpu'
    BY <1>2, <1>3, Zenon DEF SwitchInv, ThreadInv, OnItsCpu
  <2>2. OnOneCpu'
    BY <1>3, Zenon DEF SwitchInv, ThreadInv, OnOneCpu
  <2>3. RunningIsOn'
    BY <1>1, <1>2, <1>3 DEF SwitchInv, ThreadInv, RunningIsOn
  <2>4. OnIsRunning'
    BY <1>2, <1>3 DEF SwitchInv, ThreadInv, OnIsRunning, Slot
  <2>5. OffIsInSched'
    BY <1>1, <1>2, <1>3, Zenon DEF SwitchInv, ThreadInv, OffIsInSched
  <2>6. ForkSlotUsed'
    BY <1>2, <1>6, Zenon DEF SwitchInv, ThreadInv, ForkSlotUsed
  <2>7. ForkSlotOwn'
    BY <1>2, <1>6, Zenon DEF SwitchInv, ThreadInv, ForkSlotOwn
  <2> QED BY <2>1, <2>2, <2>3, <2>4, <2>5, <2>6, <2>7, Zenon DEF ThreadInv
<1> QED BY <1>4, <1>5, <1>7, Zenon DEF SwitchInv

(* The return from sched() releases p->lock.                               *)
LEMMA sched_return_safe ==
    ASSUME SwitchInv, NEW c \in CPU, NEW p \in Slot, sched_return(c, p)
    PROVE  SwitchInv'
<1> USE ProcAssumption
<1>1. run[c] = p /\ th[p].pc = "sched" /\ state[p] = "RUNNING" /\ TypeOK
  BY Zenon DEF sched_return, Runs, SwitchInv
<1>2. UNCHANGED <<state, wait_lock, run, cproc, sch>>
  BY Zenon DEF sched_return, cpus
<1>3. th[p].res \in {"dead"} \cup Interruptible /\ th[p].res \in Pcs
  <2>1. th[p] \in ThreadType
    BY <1>1, Zenon DEF TypeOK
  <2>2. th[p].res \in {"dead"} \cup Interruptible
    BY <2>1, Zenon DEF ThreadType
  <2> QED BY <2>2, Zenon DEF Pcs
<1>4. /\ th' \in [Slot -> ThreadType]
      /\ \A q \in Slot : q # p => th'[q] = th[q]
      /\ th'[p].pc = th[p].res /\ th'[p].np = th[p].np
  <2>1. TypeOK /\ th' = [th EXCEPT ![p].pc = th[p].res]
    BY <1>1, Zenon DEF sched_return
  <2> QED BY Zenon, <1>3, <2>1, SetPc
<1>5. th'[p].pc \notin {"sched", "fork_copy"} \cup UnderWaitLock
  BY <1>3, <1>4, Zenon DEF Interruptible, UnderWaitLock
<1>6. \A d \in CPU : run[d] = p => d = c
  BY <1>1 DEF SwitchInv, ThreadInv, OnOneCpu, Slot
<1>7. plock'[p] = NoCPU /\ \A q \in Slot : q # p => plock'[q] = plock[q]
  BY <1>1, Zenon DEF sched_return, TypeOK
<1>8. TypeOK'
  BY <1>1, <1>4 DEF sched_return, TypeOK, cpus
<1>9. \A q \in Slot : (Forking(q)' <=> Forking(q)) /\ th'[q].np = th[q].np
  BY <1>1, <1>4, <1>5, Zenon DEF Forking, CurPc, ForkPc
<1>10. PLockOwned' /\ WaitLockOwned'
  <2>1. \A d \in CPU, q \in Slot : q # p => (Owns(d, q)' <=> Owns(d, q))
    BY <1>1, <1>2, <1>4, <1>5 DEF Owns, Runs
  <2>2. \A d \in CPU : Owns(d, p) => d = c
    <3>1. Owns(c, p)
      BY <1>1, Zenon DEF Owns, Runs
    <3> QED BY <3>1 DEF SwitchInv, PLockOwned
  <2>3. \A d \in CPU : ~Owns(d, p)'
    <3>1. \A d \in CPU : Owns(d, p)' => Owns(d, p)
      BY <1>1, <1>2, <1>4, <1>5, Zenon DEF Owns, Runs
    <3>2. ~Owns(c, p)'
      BY <1>1, <1>2, <1>4, <1>5 DEF Owns, Runs, Slot
    <3> QED BY <2>2, <3>1, <3>2, Zenon
  <2>4. PLockOwned'
    BY <2>1, <2>3, <1>7 DEF SwitchInv, PLockOwned
  <2>5. WaitLockOwned'
    BY <1>1, <1>2, <1>4, <1>5, <1>6, Zenon DEF SwitchInv, WaitLockOwned, UnderWaitLock
  <2> QED BY <2>4, <2>5, Zenon
<1>11. ThreadInv'
  <2>1. OnItsCpu'
    BY <1>2, Zenon DEF SwitchInv, ThreadInv, OnItsCpu
  <2>2. OnOneCpu'
    BY <1>2, Zenon DEF SwitchInv, ThreadInv, OnOneCpu
  <2>3. RunningIsOn'
    BY <1>2, Zenon DEF SwitchInv, ThreadInv, RunningIsOn
  <2>4. OnIsRunning'
    BY <1>1, <1>2, <1>4, Zenon DEF SwitchInv, ThreadInv, OnIsRunning
  <2>5. OffIsInSched'
    BY <1>1, <1>2, <1>4 DEF SwitchInv, ThreadInv, OffIsInSched
  <2>6. ForkSlotUsed'
    BY <1>2, <1>9, Zenon DEF SwitchInv, ThreadInv, ForkSlotUsed
  <2>7. ForkSlotOwn'
    BY <1>9, Zenon DEF SwitchInv, ThreadInv, ForkSlotOwn
  <2> QED BY <2>1, <2>2, <2>3, <2>4, <2>5, <2>6, <2>7, Zenon DEF ThreadInv
<1> QED BY <1>8, <1>10, <1>11, Zenon DEF SwitchInv

-----------------------------------------------------------------------------
(* Steps that leave the table alone.                                       *)

(* Entry into fork(), exit() or wait().                                    *)
LEMMA syscall_keeps ==
    ASSUME SwitchInv, FamilyInv, NEW c \in CPU, NEW p \in Slot, NEW call \in {"fork", "exit", "wait"},
           syscall(c, p, call)
    PROVE  FamilyInv'
<1>1. TypeOK /\ th[p].pc = "user" /\ UNCHANGED <<table, nextpid>>
  BY Zenon DEF SwitchInv, syscall, Runs
<1>2. call \in Pcs
  BY Zenon DEF Pcs, Interruptible
<1>3. th' = [th EXCEPT ![p].pc = call]
  BY Zenon DEF syscall, Goto
<1>4. /\ \A q \in Slot : q # p => th'[q] = th[q]
      /\ th'[p].pc = call /\ th'[p].i = th[p].i /\ th'[p].np = th[p].np
  BY Zenon, <1>1, <1>2, <1>3, SetPc
<1>6. ForkKnows(p)'
  BY <1>1, <1>4, Zenon DEF FamilyInv, ForkKnows, Forking, CurPc, ForkPc, table
<1>7. ExitKnows(p)'
  BY <1>1, <1>4, Zenon DEF FamilyInv, ExitKnows, CurPc, table
<1>8. th'[p].pc \notin {"wait_scan", "sleep"}
  BY <1>4, Zenon DEF CurPc
<1> QED BY <1>1, <1>4, <1>6, <1>7, <1>8, LocalQuietStep, Zenon

(* usertrap() sends a killed process to exit().                            *)
LEMMA usertrap_killed_keeps ==
    ASSUME SwitchInv, FamilyInv, NEW c \in CPU, NEW p \in Slot, usertrap_killed(c, p)
    PROVE  FamilyInv'
<1>1. TypeOK /\ th[p].pc = "user" /\ UNCHANGED <<table, nextpid>>
  BY Zenon DEF SwitchInv, usertrap_killed, Runs
<1>2. "exit" \in Pcs
  BY Zenon DEF Pcs, Interruptible
<1>3. th' = [th EXCEPT ![p].pc = "exit"]
  BY Zenon DEF usertrap_killed, Goto
<1>4. /\ \A q \in Slot : q # p => th'[q] = th[q]
      /\ th'[p].pc = "exit" /\ th'[p].i = th[p].i /\ th'[p].np = th[p].np
  BY Zenon, <1>1, <1>2, <1>3, SetPc
<1>6. ForkKnows(p)'
  BY <1>1, <1>4, Zenon DEF FamilyInv, ForkKnows, Forking, CurPc, ForkPc, table
<1>7. ExitKnows(p)'
  BY <1>1, <1>4, Zenon DEF FamilyInv, ExitKnows, CurPc, table
<1>8. th'[p].pc \notin {"wait_scan", "sleep"}
  BY <1>4, Zenon DEF CurPc
<1> QED BY <1>1, <1>4, <1>6, <1>7, <1>8, LocalQuietStep, Zenon

(* init panics in exit().                                                  *)
LEMMA exit_init_keeps ==
    ASSUME SwitchInv, FamilyInv, NEW c \in CPU, NEW p \in Slot, exit_init(c, p)
    PROVE  FamilyInv'
<1>1. TypeOK /\ th[p].pc = "exit" /\ UNCHANGED <<table, nextpid>>
  BY Zenon DEF SwitchInv, exit_init, Runs
<1>2. "panic" \in Pcs
  BY Zenon DEF Pcs, Interruptible
<1>3. th' = [th EXCEPT ![p].pc = "panic"]
  BY Zenon DEF exit_init, Goto
<1>4. /\ \A q \in Slot : q # p => th'[q] = th[q]
      /\ th'[p].pc = "panic" /\ th'[p].i = th[p].i /\ th'[p].np = th[p].np
  BY Zenon, <1>1, <1>2, <1>3, SetPc
<1>6. ForkKnows(p)'
  BY <1>1, <1>4, Zenon DEF FamilyInv, ForkKnows, Forking, CurPc, ForkPc, table
<1>7. ExitKnows(p)'
  BY <1>1, <1>4, Zenon DEF FamilyInv, ExitKnows, CurPc, table
<1>8. th'[p].pc \notin {"wait_scan", "sleep"}
  BY <1>4, Zenon DEF CurPc
<1> QED BY <1>1, <1>4, <1>6, <1>7, <1>8, LocalQuietStep, Zenon

(* allocproc() found no slot.                                              *)
LEMMA allocproc_none_keeps ==
    ASSUME SwitchInv, FamilyInv, NEW c \in CPU, NEW p \in Slot, allocproc_none(c, p)
    PROVE  FamilyInv'
<1>1. TypeOK /\ th[p].pc = "fork" /\ UNCHANGED <<table, nextpid>>
  BY Zenon DEF SwitchInv, allocproc_none, Runs
<1>2. "user" \in Pcs
  BY Zenon DEF Pcs, Interruptible
<1>3. th' = [th EXCEPT ![p] = At("user")]
  BY Zenon DEF allocproc_none, Return
<1>4. /\ \A q \in Slot : q # p => th'[q] = th[q]
      /\ th'[p].pc = "user" /\ th'[p].i = 1 /\ th'[p].np = 0
  BY Zenon, <1>1, <1>2, <1>3, SetAt
<1>5. ForkKnows(p)'
  BY <1>1, <1>4, Zenon DEF FamilyInv, ForkKnows, Forking, CurPc, ForkPc, table
<1>6. ExitKnows(p)'
  BY <1>1, <1>4, Zenon DEF FamilyInv, ExitKnows, CurPc, table
<1>7. th'[p].pc \notin {"wait_scan", "sleep"}
  BY <1>4, Zenon DEF CurPc
<1> QED BY <1>1, <1>4, <1>5, <1>6, <1>7, LocalQuietStep, Zenon

(* fork() has filled its slot.                                             *)
LEMMA fork_copied_keeps ==
    ASSUME SwitchInv, FamilyInv, NEW c \in CPU, NEW p \in Slot, fork_copied(c, p)
    PROVE  FamilyInv'
<1>1. TypeOK /\ th[p].pc = "fork_copy" /\ UNCHANGED <<table, nextpid>>
  BY Zenon DEF SwitchInv, fork_copied, Runs
<1>2. "fork_parent" \in Pcs
  BY Zenon DEF Pcs, Interruptible
<1>3. th' = [th EXCEPT ![p].pc = "fork_parent"]
  BY Zenon DEF fork_copied, Goto
<1>4. /\ \A q \in Slot : q # p => th'[q] = th[q]
      /\ th'[p].pc = "fork_parent" /\ th'[p].i = th[p].i /\ th'[p].np = th[p].np
  BY Zenon, <1>1, <1>2, <1>3, SetPc
<1>5. ForkKnows(p)'
  BY <1>1, <1>4, Zenon DEF FamilyInv, ForkKnows, Forking, CurPc, ForkPc, table
<1>6. ExitKnows(p)'
  BY <1>1, <1>4, Zenon DEF FamilyInv, ExitKnows, CurPc, table
<1>7. th'[p].pc \notin {"wait_scan", "sleep"}
  BY <1>4, Zenon DEF CurPc
<1> QED BY <1>1, <1>4, <1>5, <1>6, <1>7, LocalQuietStep, Zenon

(* exit() takes wait_lock and starts with the first slot.                  *)
LEMMA exit_keeps ==
    ASSUME SwitchInv, FamilyInv, NEW c \in CPU, NEW p \in Slot, exit(c, p)
    PROVE  FamilyInv'
<1>1. TypeOK /\ th[p].pc = "exit" /\ UNCHANGED <<table, nextpid>>
  BY Zenon DEF SwitchInv, exit, Runs
<1>2. "reparent" \in Pcs
  BY Zenon DEF Pcs, Interruptible
<1>3. th' = [th EXCEPT ![p].pc = "reparent"]
  BY Zenon DEF exit, Goto
<1>4. /\ \A q \in Slot : q # p => th'[q] = th[q]
      /\ th'[p].pc = "reparent" /\ th'[p].i = th[p].i /\ th'[p].np = th[p].np
  BY Zenon, <1>1, <1>2, <1>3, SetPc
<1>5. p # initproc /\ \A q \in Slot : q >= th[p].i
  BY <1>1, ProcAssumption DEF exit, FamilyInv, ExitKnows, CurPc, Slot
<1>6. ForkKnows(p)'
  BY <1>1, <1>4, Zenon DEF FamilyInv, ForkKnows, Forking, CurPc, ForkPc, table
<1>7. ExitKnows(p)'
  BY <1>1, <1>4, <1>5, Zenon DEF FamilyInv, ExitKnows, CurPc, table
<1>8. th'[p].pc \notin {"wait_scan", "sleep"}
  BY <1>4, Zenon DEF CurPc
<1> QED BY <1>1, <1>4, <1>6, <1>7, <1>8, LocalQuietStep, Zenon

(* wait() takes wait_lock and starts with the first slot.                  *)
LEMMA wait_keeps ==
    ASSUME SwitchInv, FamilyInv, NEW c \in CPU, NEW p \in Slot, wait(c, p)
    PROVE  FamilyInv'
<1>1. TypeOK /\ th[p].pc = "wait" /\ UNCHANGED <<table, nextpid>>
  BY Zenon DEF SwitchInv, wait, Runs
<1>2. "wait_scan" \in Pcs
  BY Zenon DEF Pcs, Interruptible
<1>3. th' = [th EXCEPT ![p] = At("wait_scan")]
  BY Zenon DEF wait
<1>4. /\ \A q \in Slot : q # p => th'[q] = th[q]
      /\ th'[p].pc = "wait_scan" /\ th'[p].i = 1 /\ th'[p].np = 0
  BY Zenon, <1>1, <1>2, <1>3, SetAt
<1>5. ForkKnows(p)'
  BY <1>1, <1>4, Zenon DEF FamilyInv, ForkKnows, Forking, CurPc, ForkPc, table
<1>6. ExitKnows(p)'
  BY <1>1, <1>4, Zenon DEF FamilyInv, ExitKnows, CurPc, table
<1>8. WaitKnows(p)'
  BY <1>1, <1>4, ProcAssumption DEF FamilyInv, WaitKnows, table, Slot
<1> QED BY <1>1, <1>4, <1>5, <1>6, <1>8, LocalQuietStep, Zenon

(* exit() wakes its parent up when reparent() has seen every slot.         *)
LEMMA exit_wakeup_keeps ==
    ASSUME SwitchInv, FamilyInv, NEW c \in CPU, NEW p \in Slot, exit_wakeup(c, p)
    PROVE  FamilyInv'
<1>1. TypeOK /\ th[p].pc = "reparent" /\ UNCHANGED <<table, nextpid>>
  BY Zenon DEF SwitchInv, exit_wakeup, Runs
<1> DEFINE x == NPROC + 2
           y == ExitChan(p)
<1>2. x \in 1..NPROC + 2 /\ y \in 0..NPROC
  BY <1>1, ProcAssumption DEF TypeOK, ExitChan
<1>3. TypeOK /\ th' = [th EXCEPT ![p] = [@ EXCEPT !.pc = "wakeup", !.i = x, !.j = 1, !.chan = y]]
  BY <1>1, Zenon DEF exit_wakeup
<1>4. /\ th' \in [Slot -> ThreadType]
      /\ \A q \in Slot : q # p => th'[q] = th[q]
      /\ th'[p].pc = "wakeup" /\ th'[p].i = x /\ th'[p].j = 1
      /\ th'[p].chan = y /\ th'[p].np = th[p].np
  <2> HIDE DEF x, y
  <2> QED BY Zenon, <1>2, <1>3, SetWakeup
<1>5. ForkKnows(p)'
  BY <1>1, <1>4, Zenon DEF FamilyInv, ForkKnows, Forking, CurPc, ForkPc, table
<1>6. \A q \in Slot : parent[q] # p
  BY <1>1, Zenon DEF FamilyInv, ExitKnows, exit_wakeup, Children
<1>7. p # initproc
  BY <1>1, Zenon DEF FamilyInv, ExitKnows, CurPc
<1>8. parent[p] # 0
  <2>1. state[p] = "RUNNING"
    BY <1>1, Zenon DEF SwitchInv, ThreadInv, OnIsRunning, exit_wakeup, Runs
  <2> QED BY <1>7, <2>1, Zenon DEF FamilyInv, HasParent
<1>9. ExitKnows(p)'
  BY <1>1, <1>2, <1>4, <1>6, <1>7, <1>8 DEF ExitKnows, ExitChan, CurPc, table
<1>10. th'[p].pc \notin {"wait_scan", "sleep"}
  BY <1>4, Zenon DEF CurPc
<1> QED BY <1>1, <1>4, <1>5, <1>9, <1>10, LocalQuietStep, Zenon

(* wait() passes a child that has not exited.                              *)
LEMMA wait_scan_keeps ==
    ASSUME SwitchInv, FamilyInv, NEW c \in CPU, NEW p \in Slot, wait_scan(c, p)
    PROVE  FamilyInv'
<1>1. TypeOK /\ th[p].pc = "wait_scan" /\ UNCHANGED <<table, nextpid>>
  BY Zenon DEF SwitchInv, wait_scan, Runs
<1>2. PICK k \in Slot :
         /\ IsNextChild(p, k) /\ state[k] # "ZOMBIE"
         /\ th' = [th EXCEPT ![p] = [@ EXCEPT !.i = k + 1, !.kids = TRUE]]
  BY Zenon DEF wait_scan
<1>3. k + 1 \in 1..NPROC + 2
  BY ProcAssumption DEF Slot
<1>4. /\ \A q \in Slot : q # p => th'[q] = th[q]
      /\ th'[p].pc = "wait_scan" /\ th'[p].i = k + 1 /\ th'[p].np = th[p].np
  BY Zenon, <1>1, <1>2, <1>3, SetKids
<1>5. ForkKnows(p)'
  BY <1>1, <1>4, Zenon DEF FamilyInv, ForkKnows, Forking, CurPc, ForkPc, table
<1>6. ExitKnows(p)'
  BY <1>4, Zenon DEF ExitKnows, CurPc
<1>8. WaitKnows(p)'
  <2>1. \A q \in Slot : parent[q] = p /\ state[q] = "ZOMBIE" => q >= k + 1
    <3> SUFFICES ASSUME NEW q \in Slot, parent[q] = p, state[q] = "ZOMBIE" PROVE q >= k + 1
      BY Zenon
    <3>1. q >= th[p].i
      BY <1>1, Zenon DEF FamilyInv, WaitKnows
    <3>2. k <= q /\ k # q
      BY <1>2, <3>1, Zenon DEF IsNextChild, Children
    <3> QED BY <3>2, ProcAssumption DEF Slot
  <2> QED BY <1>1, <1>4, <2>1, Zenon DEF FamilyInv, WaitKnows, table
<1> QED BY <1>1, <1>4, <1>5, <1>6, <1>8, LocalQuietStep, Zenon

(* wait() returns, or goes on to sleep(): no child has exited.             *)
LEMMA wait_none_keeps ==
    ASSUME SwitchInv, FamilyInv, NEW c \in CPU, NEW p \in Slot, wait_none(c, p)
    PROVE  FamilyInv'
<1>1. TypeOK /\ th[p].pc = "wait_scan" /\ UNCHANGED <<table, nextpid>> /\ Children(p) = {}
  BY Zenon DEF SwitchInv, wait_none, Runs
<1>2. "user" \in Pcs /\ "sleep" \in Pcs
  BY Zenon DEF Pcs, Interruptible
<1>3. th[p].np = 0
  BY <1>1, Zenon DEF FamilyInv, ForkKnows, Forking, CurPc, ForkPc
<1>4. CASE th' = [th EXCEPT ![p] = At("user")]
  <2>1. /\ \A q \in Slot : q # p => th'[q] = th[q]
        /\ th'[p].pc = "user" /\ th'[p].i = 1 /\ th'[p].np = 0
    BY Zenon, <1>1, <1>2, <1>4, SetAt
  <2>2. ForkKnows(p)' /\ ExitKnows(p)'
    BY <2>1, Zenon DEF ForkKnows, ExitKnows, Forking, CurPc, ForkPc
  <2> QED BY <1>1, <2>1, <2>2, LocalQuietStep, Zenon
<1>5. CASE th' = [th EXCEPT ![p].pc = "sleep"]
  <2>1. /\ \A q \in Slot : q # p => th'[q] = th[q]
        /\ th'[p].pc = "sleep" /\ th'[p].np = th[p].np
    BY Zenon, <1>1, <1>2, <1>5, SetPc
  <2>2. ForkKnows(p)' /\ ExitKnows(p)'
    BY <1>3, <2>1, Zenon DEF ForkKnows, ExitKnows, Forking, CurPc, ForkPc
  <2>3. \A q \in Slot : parent[q] = p => state[q] # "ZOMBIE"
    BY <1>1, Zenon DEF FamilyInv, WaitKnows, Children
  <2>4. WaitKnows(p)'
    BY <1>1, <2>1, <2>3, Zenon DEF FamilyInv, WaitKnows, table
  <2> QED BY <1>1, <2>1, <2>2, <2>4, LocalQuietStep, Zenon
<1> QED BY <1>4, <1>5, Zenon DEF wait_none, Return, Goto

-----------------------------------------------------------------------------
(* Steps that wake processes up, and switches between them.                *)

(* swtch() to the scheduler thread, and back to it.                        *)
LEMMA sched_keeps ==
    ASSUME SwitchInv, FamilyInv, NEW c \in CPU, NEW p \in Slot, sched(c, p)
    PROVE  FamilyInv'
<1>1. th' = th /\ UNCHANGED <<state, chan, killed, pid, parent, nextpid>>
  BY Zenon DEF sched, table
<1> QED BY <1>1, QuietStep, Zenon

LEMMA scheduler_back_keeps ==
    ASSUME SwitchInv, FamilyInv, NEW c \in CPU, scheduler_back(c)
    PROVE  FamilyInv'
<1>1. th' = th /\ UNCHANGED <<state, chan, killed, pid, parent, nextpid>>
  BY Zenon DEF scheduler_back, table
<1>2. initproc \in Slot
  BY ProcAssumption DEF initproc, Slot
<1> QED BY <1>1, <1>2, QuietStep, Zenon

(* The scheduler runs a RUNNABLE process.                                  *)
LEMMA scheduler_keeps ==
    ASSUME SwitchInv, FamilyInv, NEW c \in CPU, scheduler(c)
    PROVE  FamilyInv'
<1>1. th' = th /\ UNCHANGED <<chan, killed, pid, parent, nextpid>>
  BY Zenon DEF scheduler
<1>2. initproc \in Slot
  BY ProcAssumption DEF initproc, Slot
<1>3. \A q \in Slot : state'[q] # state[q] => state[q] = "RUNNABLE" /\ state'[q] = "RUNNING"
  BY Zenon DEF scheduler, SwitchInv, TypeOK
<1>4. \A q \in Slot : state'[q] # state[q] =>
         state[q] \in Alive /\ state'[q] \in {"RUNNABLE", "RUNNING"}
  BY <1>3, Zenon DEF Alive
<1> QED BY <1>1, <1>2, <1>4, QuietStep, Zenon

(* yield() on a timer interrupt: the thread stays where it is.             *)
LEMMA yield_keeps ==
    ASSUME SwitchInv, FamilyInv, NEW c \in CPU, NEW p \in Slot, yield(c, p)
    PROVE  FamilyInv'
<1>1. /\ th[p].pc \in Interruptible /\ state[p] = "RUNNING"
      /\ UNCHANGED <<chan, killed, pid, parent, nextpid>>
  BY Zenon DEF yield, SwitchInv, ThreadInv, OnIsRunning, Interruptible
<1>2. /\ \A q \in Slot : q # p => th'[q] = th[q]
      /\ th'[p].pc = "sched" /\ th'[p].res = th[p].pc
      /\ th'[p].i = th[p].i /\ th'[p].chan = th[p].chan /\ th'[p].np = th[p].np
  BY DEF yield, SwitchInv, TypeOK, ThreadType
<1>3. \A q \in Slot : state'[q] # state[q] => q = p /\ state'[q] = "RUNNABLE"
  BY Zenon DEF yield, SwitchInv, TypeOK
<1>4. CurPc(p)' = CurPc(p) /\ CurPc(p) = th[p].pc
  BY <1>1, <1>2, Zenon DEF CurPc, Interruptible
<1>5. state'[p] # "SLEEPING"
  BY <1>1, <1>3, Zenon
<1>6. ForkKnows(p)'
  BY <1>1, <1>2, <1>4, Zenon DEF FamilyInv, ForkKnows, Forking
<1>7. ExitKnows(p)'
  BY <1>2, <1>4, Zenon DEF FamilyInv, ExitKnows
<1>8. WaitKnows(p)'
  BY <1>2, <1>5, Zenon DEF WaitKnows
<1>10. th[p].pc # "wakeup"
  BY <1>1, Zenon DEF Interruptible
<1>11. \A q \in Slot : state'[q] # state[q] =>
          state[q] \in Alive /\ state'[q] \in {"RUNNABLE", "RUNNING"}
  BY <1>1, <1>3, Zenon DEF Alive
<1> QED BY <1>1, <1>2, <1>6, <1>7, <1>8, <1>10, <1>11, QuietStep, Zenon DEF Knows

(* The return from sched() clears p->chan of a RUNNING process.            *)
LEMMA sched_return_keeps ==
    ASSUME SwitchInv, FamilyInv, NEW c \in CPU, NEW p \in Slot, sched_return(c, p)
    PROVE  FamilyInv'
<1>1. /\ TypeOK /\ th[p].pc = "sched" /\ state[p] = "RUNNING"
      /\ UNCHANGED <<state, killed, pid, parent, nextpid>>
  BY Zenon DEF sched_return, SwitchInv, Runs
<1>2. th[p].res \in {"dead"} \cup Interruptible /\ th[p].res \in Pcs
  <2>1. th[p] \in ThreadType
    BY <1>1, Zenon DEF TypeOK
  <2>2. th[p].res \in {"dead"} \cup Interruptible
    BY <2>1, Zenon DEF ThreadType
  <2> QED BY <2>2, Zenon DEF Pcs
<1>3. th' = [th EXCEPT ![p].pc = th[p].res]
  BY Zenon DEF sched_return
<1>4. /\ th' \in [Slot -> ThreadType]
      /\ \A q \in Slot : q # p => th'[q] = th[q]
      /\ th'[p].pc = th[p].res /\ th'[p].res = th[p].res /\ th'[p].i = th[p].i
      /\ th'[p].j = th[p].j /\ th'[p].chan = th[p].chan /\ th'[p].np = th[p].np
  BY Zenon, <1>1, <1>2, <1>3, SetPc
<1>5. CurPc(p)' = CurPc(p) /\ th'[p].pc \notin UnderWaitLock
  BY <1>1, <1>2, <1>4, Zenon DEF CurPc, Interruptible, UnderWaitLock
<1>6. ForkKnows(p)'
  BY <1>1, <1>4, <1>5, Zenon DEF FamilyInv, ForkKnows, Forking
<1>7. ExitKnows(p)'
  BY <1>4, <1>5, Zenon DEF FamilyInv, ExitKnows, UnderWaitLock
<1>8. WaitKnows(p)'
  BY <1>1, <1>5, Zenon DEF WaitKnows, UnderWaitLock
<1>11. \A q \in Slot : state'[q] = "SLEEPING" => chan'[q] = chan[q]
  BY <1>1, Zenon DEF sched_return, TypeOK
<1> QED BY <1>1, <1>4, <1>6, <1>7, <1>8, <1>11, QuietStep, Zenon DEF Knows

-----------------------------------------------------------------------------
(* Steps that wake somebody up.                                            *)

(* kill() marks a process, be it init or an UNUSED slot, and wakes it up.  *)
LEMMA kill_keeps ==
    ASSUME SwitchInv, FamilyInv, NEW c \in CPU, NEW p \in Slot, NEW target, kill(c, p, target)
    PROVE  FamilyInv'
<1>1. TypeOK /\ th' = th /\ UNCHANGED <<chan, pid, parent, nextpid>>
  BY Zenon DEF SwitchInv, kill
<1>2. PICK n \in Slot :
         state' = IF state[n] = "SLEEPING" THEN [state EXCEPT ![n] = "RUNNABLE"] ELSE state
  BY Zenon DEF kill
<1>3. \A q \in Slot : state'[q] # state[q] => state[q] = "SLEEPING" /\ state'[q] = "RUNNABLE"
  BY <1>1, <1>2, Zenon DEF TypeOK
<1>4. \A q \in Slot : state'[q] # state[q] =>
         state[q] \in Alive /\ state'[q] \in {"RUNNABLE", "RUNNING"}
  BY <1>3, Zenon DEF Alive
<1> QED BY <1>1, <1>4, QuietStep, Zenon

(* wakeup() moves past a slot only when nobody sleeps there on its channel.*)
LEMMA wakeup_keeps ==
    ASSUME SwitchInv, FamilyInv, NEW c \in CPU, NEW p \in Slot, wakeup(c, p)
    PROVE  FamilyInv'
<1> DEFINE n == th[p].j
<1>1. /\ TypeOK /\ th[p].pc = "wakeup" /\ state[p] = "RUNNING"
      /\ UNCHANGED <<chan, killed, pid, parent, nextpid>>
  BY Zenon DEF wakeup, SwitchInv, ThreadInv, OnIsRunning, Runs
<1>2. n \in Slot /\ th[p].i \in 1..NPROC + 2
  BY <1>1, Zenon DEF TypeOK, ThreadType
<1>3. \/ n < NPROC /\ th' = [th EXCEPT ![p].j = n + 1]
      \/ n = NPROC /\ th' = [th EXCEPT ![p].pc =
                                 IF th[p].i = NPROC + 2 THEN "exit_zombie" ELSE "reparent"]
  BY Zenon DEF wakeup, Goto
<1>4. state' = IF n # p /\ state[n] = "SLEEPING" /\ chan[n] = th[p].chan
              THEN [state EXCEPT ![n] = "RUNNABLE"] ELSE state
  BY Zenon DEF wakeup
<1> HIDE DEF n
<1>5. \A q \in Slot : state'[q] # state[q] => state[q] = "SLEEPING" /\ state'[q] = "RUNNABLE"
  BY <1>1, <1>4, Zenon DEF TypeOK
<1>6. \A q \in Slot : th[p].chan = q /\ state'[q] = "SLEEPING" => q # n
  <2> SUFFICES ASSUME th[p].chan = n, state'[n] = "SLEEPING" PROVE FALSE
    BY <1>2, Zenon
  <2>1. state[n] = "SLEEPING" /\ n # p
    BY <1>1, <1>2, <1>5, Zenon
  <2>2. chan[n] = n
    BY <1>2, <2>1, Zenon DEF FamilyInv, WaitKnows
  <2>3. state'[n] = "RUNNABLE"
    BY <1>1, <1>2, <1>4, <2>1, <2>2, Zenon DEF TypeOK
  <2> QED BY <2>3, Zenon
<1>7. /\ \A q \in Slot : q # p => th'[q] = th[q]
      /\ th'[p].i = th[p].i /\ th'[p].chan = th[p].chan /\ th'[p].np = th[p].np
      /\ \/ n < NPROC /\ th'[p].pc = "wakeup" /\ th'[p].j = n + 1
         \/ n = NPROC /\ th'[p].pc = IF th[p].i = NPROC + 2 THEN "exit_zombie" ELSE "reparent"
  <2>1. CASE n < NPROC
    <3>1. th' = [th EXCEPT ![p].j = n + 1] /\ n + 1 \in Slot
      BY <1>2, <1>3, <2>1, ProcAssumption DEF Slot
    <3>2. /\ th' \in [Slot -> ThreadType]
          /\ \A q \in Slot : q # p => th'[q] = th[q]
          /\ th'[p].pc = th[p].pc /\ th'[p].i = th[p].i /\ th'[p].j = n + 1
          /\ th'[p].chan = th[p].chan /\ th'[p].np = th[p].np
      BY Zenon, <1>1, <3>1, SetJ
    <3> QED BY <1>1, <2>1, <3>2, Zenon
  <2>2. CASE n = NPROC
    <3> DEFINE x == IF th[p].i = NPROC + 2 THEN "exit_zombie" ELSE "reparent"
    <3>1. x \in Pcs
      BY Zenon DEF Pcs
    <3>2. th' = [th EXCEPT ![p].pc = x]
      BY <1>3, <2>2, ProcAssumption
    <3> HIDE DEF x
    <3>3. /\ th' \in [Slot -> ThreadType]
          /\ \A q \in Slot : q # p => th'[q] = th[q]
          /\ th'[p].pc = x /\ th'[p].res = th[p].res /\ th'[p].i = th[p].i
          /\ th'[p].j = th[p].j /\ th'[p].chan = th[p].chan /\ th'[p].np = th[p].np
      BY Zenon, <1>1, <3>1, <3>2, SetPc
    <3> QED BY <2>2, <3>3, Zenon DEF x
  <2> QED BY <1>2, <2>1, <2>2, ProcAssumption DEF Slot
<1>8. \A q \in Slot : th[p].chan = q /\ th[p].j <= q /\ state'[q] = "SLEEPING" =>
         th'[p].pc = "wakeup" /\ th'[p].chan = q /\ th'[p].j <= q
  <2> SUFFICES ASSUME NEW q \in Slot, th[p].chan = q, n <= q, state'[q] = "SLEEPING"
               PROVE  th'[p].pc = "wakeup" /\ th'[p].j <= q
    BY <1>7, Zenon DEF n
  <2>1. q # n
    BY <1>6, Zenon
  <2>2. n < NPROC /\ n + 1 <= q
    BY <2>1, <1>2, ProcAssumption DEF Slot
  <2> QED BY <1>7, <2>2, ProcAssumption
<1>9. ForkKnows(p)'
  BY <1>1, <1>7, Zenon DEF FamilyInv, ForkKnows, Forking, CurPc, ForkPc
<1>10. ExitKnows(p)'
  <2>1. p # initproc /\ parent[p] \in Slot
    BY <1>1, ExitHasParent, Zenon
  <2>2. CurPc(p)' \notin {"user", "exit"}
    BY <1>7, Zenon DEF CurPc
  <2>3. \A q \in Slot : parent[q] = p => q >= th[p].i
    BY <1>1, Zenon DEF FamilyInv, ExitKnows
  <2>4. th[p].i = NPROC + 2 => th[p].chan = parent[p] /\ (state'[parent[p]] = "SLEEPING" => parent[p] > n)
    <3> SUFFICES ASSUME th[p].i = NPROC + 2, state'[parent[p]] = "SLEEPING"
                 PROVE  parent[p] > n
      BY <1>1, Zenon DEF FamilyInv, ExitKnows
    <3>1. /\ th[p].chan = parent[p]
          /\ parent[p] < n => state[parent[p]] # "SLEEPING"
      BY <1>1, Zenon DEF FamilyInv, ExitKnows, n
    <3>2. state[parent[p]] = "SLEEPING"
      BY <1>5, <2>1, Zenon
    <3>3. parent[p] # n
      BY <1>6, <2>1, <3>1, Zenon
    <3> QED BY <1>2, <2>1, <3>1, <3>2, <3>3, ProcAssumption DEF Slot
  <2>5. th'[p].pc = "wakeup" /\ th'[p].i = NPROC + 2 =>
           th'[p].chan = parent[p] /\ (parent[p] < th'[p].j => state'[parent[p]] # "SLEEPING")
    BY <1>2, <1>7, <2>1, <2>4, ProcAssumption, SMTT(30) DEF Slot
  <2>6. th'[p].pc = "exit_zombie" => th'[p].i = NPROC + 2 /\ state'[parent[p]] # "SLEEPING"
    BY <1>2, <1>7, <2>1, <2>4, ProcAssumption DEF Slot
  <2> QED BY <1>1, <1>7, <2>1, <2>2, <2>3, <2>5, <2>6, Zenon DEF ExitKnows
<1>11. WaitKnows(p)'
  BY <1>1, <1>5, <1>7, Zenon DEF WaitKnows
<1>12. \A q \in Slot : state'[q] # state[q] =>
         state[q] \in Alive /\ state'[q] \in {"RUNNABLE", "RUNNING"}
  BY <1>5, Zenon DEF Alive
<1> QED BY <1>1, <1>7, <1>8, <1>9, <1>10, <1>11, <1>12, QuietStep, Zenon DEF Knows

-----------------------------------------------------------------------------
(* The actions that make, free or reparent a process, or let it sleep or exit. *)

(* The slot that fork() fills is USED, so that it is neither init nor the  *)
(* parent of anybody nor the process that fills it.                        *)
LEMMA ForkedSlot ==
    ASSUME SwitchInv, FamilyInv, NEW c \in CPU, NEW p \in Slot, run[c] = p, th[p].pc \in ForkPc
    PROVE  /\ th[p].np \in Slot \ {p, initproc} /\ state[th[p].np] = "USED"
           /\ state[p] = "RUNNING"
           /\ \A q \in Slot : parent[q] # th[p].np
           /\ \A q \in Slot : Forking(q) /\ th[q].np = th[p].np => q = p
<1>1. Forking(p)
  BY Zenon DEF Forking, CurPc, ForkPc
<1>2. th[p].np \in Slot /\ state[th[p].np] = "USED"
  BY <1>1, Zenon DEF SwitchInv, ThreadInv, ForkSlotUsed
<1>3. state[p] = "RUNNING"
  BY Zenon DEF SwitchInv, ThreadInv, OnIsRunning, ForkPc
<1>4. th[p].np # initproc
  BY <1>2, Zenon DEF FamilyInv, InitStays, Alive
<1>5. \A q \in Slot : parent[q] # th[p].np
  BY <1>2, ProcAssumption DEF FamilyInv, ParentsLive, Alive, Slot
<1>6. \A q \in Slot : Forking(q) /\ th[q].np = th[p].np => q = p
  BY <1>1, Zenon DEF SwitchInv, ThreadInv, ForkSlotOwn
<1> QED BY <1>2, <1>3, <1>4, <1>5, <1>6, Zenon

-----------------------------------------------------------------------------
(* fork() *)

(* allocproc() takes an UNUSED slot, which is nobody's parent and whose    *)
(* thread does nothing, and gives it a new pid; or goes on.                *)
LEMMA allocproc_keeps ==
    ASSUME SwitchInv, FamilyInv, NEW c \in CPU, NEW p \in Slot, allocproc(c, p)
    PROVE  FamilyInv'
<1>a. PICK n \in Slot : n = th[p].i
  BY Zenon DEF allocproc
<1>1. /\ TypeOK /\ th[p].pc = "fork" /\ state[p] = "RUNNING" /\ Free(n)
      /\ UNCHANGED <<chan, killed, parent>>
  BY <1>a, Zenon DEF SwitchInv, ThreadInv, OnIsRunning, allocproc, Runs
<1>2. CASE state[n] = "UNUSED" /\ nextpid <= MAXPID
  <2>1. /\ state' = [state EXCEPT ![n] = "USED"]
        /\ pid' = [pid EXCEPT ![n] = nextpid] /\ nextpid' = nextpid + 1
        /\ th' = [th EXCEPT ![p] = [@ EXCEPT !.pc = "fork_copy", !.np = n],
                            ![n] = Switched("user")]
    BY <1>a, <1>2, Zenon DEF allocproc, MarkUsed
  <2>2. n # p /\ n # initproc
    BY <1>1, <1>2, Zenon DEF FamilyInv, InitStays, Alive
  <2>3. /\ \A q \in Slot : q \notin {p, n} => th'[q] = th[q]
        /\ th'[p].pc = "fork_copy" /\ th'[p].np = n /\ th'[n] = Switched("user")
    <3> DEFINE r == [th[p] EXCEPT !.pc = "fork_copy", !.np = n]
    <3>1. r.pc = "fork_copy" /\ r.np = n
      BY <1>1 DEF TypeOK, ThreadType
    <3>2. th' = [th EXCEPT ![p] = r, ![n] = Switched("user")]
      BY <2>1, Zenon
    <3> HIDE DEF r
    <3> QED BY <1>1, <2>2, <3>1, <3>2, Zenon DEF TypeOK
  <2>4. th'[n].pc = "sched" /\ th'[n].res = "user" /\ th'[n].i = 1 /\ th'[n].np = 0
    BY <2>3, SwitchedType DEF Interruptible
  <2>5. th[n].pc = "sched"
    BY <1>1, <1>2, FreeIsParked, Zenon DEF SwitchInv, ThreadInv, OffIsInSched
  <2>6. state'[n] = "USED" /\ \A q \in Slot : q # n => state'[q] = state[q]
    BY <1>1, <2>1, Zenon DEF TypeOK
  <2>7. pid'[n] = nextpid /\ \A q \in Slot : q # n => pid'[q] = pid[q]
    BY <1>1, <2>1, Zenon DEF TypeOK
  <2>8. \A q \in Slot : parent[q] # n
    BY <1>1, <1>2, ProcAssumption DEF FamilyInv, ParentsLive, Alive, Slot
  <2>9. Knows(p)'
    <3>1. ForkKnows(p)'
      BY <2>3, Zenon DEF ForkKnows, Forking, CurPc, ForkPc
    <3>2. ExitKnows(p)'
      BY <2>3, Zenon DEF ExitKnows, CurPc
    <3>3. WaitKnows(p)'
      BY <1>1, <2>2, <2>3, <2>6, Zenon DEF WaitKnows
    <3> QED BY <3>1, <3>2, <3>3, Zenon DEF Knows
  <2>10. Knows(n)'
    <3>1. ForkKnows(n)'
      BY <2>4, Zenon DEF ForkKnows, Forking, CurPc, ForkPc
    <3>2. ExitKnows(n)'
      BY <2>4, Zenon DEF ExitKnows, CurPc
    <3>3. WaitKnows(n)'
      BY <2>4, <2>6, Zenon DEF WaitKnows
    <3> QED BY <3>1, <3>2, <3>3, Zenon DEF Knows
  <2>11. \A q \in Slot : Knows(q)'
    <3> SUFFICES ASSUME NEW q \in Slot, q # p, q # n PROVE Knows(q)'
      BY <1>1, <2>9, <2>10, Zenon
    <3>1. \A r \in Slot : state'[r] \in {"SLEEPING", "ZOMBIE"} => state'[r] = state[r]
      BY <2>6, Zenon
    <3> QED BY <1>1, <2>3, <3>1, StillKnows, Zenon
  <2>12. PidsFresh' /\ PidsDiffer'
    <3>1. \A q \in Slot : pid[q] \in Nat /\ nextpid \in Nat
      BY <1>1, ProcAssumption DEF TypeOK
    <3>2. PidsFresh'
      BY <1>1, <2>1, <2>7, <3>1, SMTT(30) DEF FamilyInv, PidsFresh
    <3>3. PidsDiffer'
      BY <1>1, <2>7, <3>1, SMTT(30) DEF FamilyInv, PidsFresh, PidsDiffer
    <3> QED BY <3>2, <3>3, Zenon
  <2>13. InitStays'
    BY <1>1, <2>2, <2>6, <2>7, ProcAssumption, SMTT(30) DEF FamilyInv, InitStays, initproc, Slot
  <2>14. ParentsLive'
    BY <1>1, <2>6, <2>8, ParentInTable, Zenon DEF FamilyInv, ParentsLive
  <2>15. HasParent'
    BY <1>1, <2>6, Zenon DEF FamilyInv, HasParent
  <2>16. WakeupPending'
    <3> SUFFICES ASSUME NEW s \in Slot, NEW q \in Slot,
                        state'[s] = "SLEEPING", parent'[q] = s, state'[q] = "ZOMBIE"
                 PROVE  \E r \in Slot : th'[r].pc = "wakeup" /\ th'[r].chan = s /\ th'[r].j <= s
      BY Zenon DEF WakeupPending
    <3>1. PICK r \in Slot : th[r].pc = "wakeup" /\ th[r].chan = s /\ th[r].j <= s
      BY <1>1, <2>6 DEF FamilyInv, WakeupPending
    <3> QED BY <1>1, <2>3, <2>5, <3>1, Zenon
  <2> QED BY <2>11, <2>12, <2>13, <2>14, <2>15, <2>16, Zenon DEF FamilyInv, Knows
<1>3. CASE ~(state[n] = "UNUSED" /\ nextpid <= MAXPID)
  <2>1. th' = [th EXCEPT ![p].i = n + 1] /\ UNCHANGED <<table, nextpid>>
    BY <1>a, <1>1, <1>3, Zenon DEF allocproc, table
  <2>2. n + 1 \in 1..NPROC + 2
    BY <1>1, ProcAssumption DEF Slot
  <2>3. /\ th' \in [Slot -> ThreadType]
        /\ \A q \in Slot : q # p => th'[q] = th[q]
        /\ th'[p].pc = th[p].pc /\ th'[p].chan = th[p].chan /\ th'[p].np = th[p].np
    BY Zenon, <1>1, <2>1, <2>2, SetI
  <2>4. ForkKnows(p)'
    BY <1>1, <2>3, Zenon DEF FamilyInv, ForkKnows, Forking, CurPc, ForkPc
  <2>5. ExitKnows(p)'
    BY <1>1, <2>3, Zenon DEF ExitKnows, CurPc
  <2> QED BY <1>1, <2>1, <2>3, <2>4, <2>5, LocalQuietStep, Zenon
<1> QED BY <1>2, <1>3, Zenon

(* fork() fails: its slot, which it kept, is UNUSED again.                 *)
LEMMA fork_fail_keeps ==
    ASSUME SwitchInv, FamilyInv, NEW c \in CPU, NEW p \in Slot, fork_fail(c, p)
    PROVE  FamilyInv'
<1>a. PICK n \in Slot \ {p, initproc} : n = th[p].np
  BY ForkedSlot, Zenon DEF fork_fail, Runs, ForkPc
<1>1. /\ TypeOK /\ th[p].pc = "fork_copy" /\ state[n] = "USED" /\ state[p] = "RUNNING"
      /\ \A q \in Slot : parent[q] # n
      /\ \A q \in Slot : Forking(q) /\ th[q].np = n => q = p
      /\ freeproc(n) /\ nextpid' = nextpid
  BY <1>a, ForkedSlot DEF SwitchInv, fork_fail, Runs, ForkPc
<1>2. th' = [th EXCEPT ![p] = At("user")] /\ "user" \in Pcs
  BY Zenon DEF fork_fail, Return, Pcs, Interruptible
<1>3. /\ \A q \in Slot : q # p => th'[q] = th[q]
      /\ th'[p].pc = "user" /\ th'[p].i = 1 /\ th'[p].np = 0
  BY Zenon, <1>1, <1>2, SetAt
<1>4. \A q \in Slot : q # n =>
         /\ state'[q] = state[q] /\ chan'[q] = chan[q] /\ killed'[q] = killed[q]
         /\ pid'[q] = pid[q] /\ parent'[q] = parent[q]
  BY <1>1, Zenon DEF freeproc, TypeOK
<1>5. state'[n] = "UNUSED" /\ pid'[n] = 0 /\ parent'[n] = 0
  BY <1>1, Zenon DEF freeproc, TypeOK
<1>6. Knows(p)'
  <2>1. ForkKnows(p)'
    BY <1>3, Zenon DEF ForkKnows, Forking, CurPc, ForkPc
  <2>2. ExitKnows(p)'
    BY <1>3, Zenon DEF ExitKnows, CurPc
  <2>3. WaitKnows(p)'
    BY <1>1, <1>3, <1>4, Zenon DEF WaitKnows
  <2> QED BY <2>1, <2>2, <2>3, Zenon DEF Knows
<1>7. \A q \in Slot : Knows(q)'
  <2> SUFFICES ASSUME NEW q \in Slot, q # p PROVE Knows(q)'
    BY <1>6, Zenon
  <2>1. th[q].pc \in UnderWaitLock => q # n
    BY <1>1, Zenon DEF SwitchInv, ThreadInv, OffIsInSched, OnIsRunning, UnderWaitLock
  <2>2. \A r \in Slot : state'[r] \in {"SLEEPING", "ZOMBIE"} => state'[r] = state[r]
    BY <1>4, <1>5, Zenon
  <2>3. \A r \in Slot : parent'[r] # 0 => parent'[r] = parent[r]
    BY <1>4, <1>5, Zenon
  <2>4. state'[q] = "SLEEPING" => state[q] = "SLEEPING" /\ chan'[q] = chan[q]
    BY <1>4, <1>5, Zenon
  <2>5. CurPc(q) = "fork_run" => th[q].np \in Slot \ {n}
    BY <1>1, Zenon DEF Forking, ForkPc, SwitchInv, ThreadInv, ForkSlotUsed
  <2>6. th[q].pc \in UnderWaitLock => parent'[q] = parent[q]
    BY <1>4, <2>1, Zenon
  <2>7. CurPc(q) = "fork_run" /\ parent'[th[q].np] = 0 => parent[th[q].np] = 0
    BY <1>4, <2>5, ZenonT(30)
  <2> QED BY <1>3, <2>2, <2>3, <2>4, <2>6, <2>7, StillKnows, Zenon
<1>8. PidsFresh' /\ PidsDiffer'
  <2>1. nextpid > 0
    BY <1>1, ProcAssumption, SMTT(30) DEF TypeOK
  <2> QED BY <1>1, <1>4, <1>5, <2>1, SMTT(30) DEF FamilyInv, PidsFresh, PidsDiffer
<1>9. InitStays'
  BY <1>4, ProcAssumption DEF FamilyInv, InitStays, initproc, Slot
<1>10. ParentsLive'
  BY <1>1, <1>4, <1>5, ParentInTable DEF FamilyInv, ParentsLive
<1>11. HasParent'
  BY <1>4, <1>5, Zenon DEF FamilyInv, HasParent
<1>12. WakeupPending'
  <2> SUFFICES ASSUME NEW s \in Slot, NEW q \in Slot,
                      state'[s] = "SLEEPING", parent'[q] = s, state'[q] = "ZOMBIE"
               PROVE  \E r \in Slot : th'[r].pc = "wakeup" /\ th'[r].chan = s /\ th'[r].j <= s
    BY Zenon DEF WakeupPending
  <2>1. PICK r \in Slot : th[r].pc = "wakeup" /\ th[r].chan = s /\ th[r].j <= s
    BY <1>4, <1>5, SMTT(30) DEF FamilyInv, WakeupPending
  <2> QED BY <1>1, <1>3, <2>1, Zenon
<1> QED BY <1>7, <1>8, <1>9, <1>10, <1>11, <1>12, Zenon DEF FamilyInv, Knows

(* fork() sets the parent of its slot while nobody holds wait_lock.        *)
LEMMA fork_parent_keeps ==
    ASSUME SwitchInv, FamilyInv, NEW c \in CPU, NEW p \in Slot, fork_parent(c, p)
    PROVE  FamilyInv'
<1>a. PICK n \in Slot \ {p, initproc} : n = th[p].np
  BY ForkedSlot, Zenon DEF fork_parent, Runs, ForkPc
<1>1. /\ TypeOK /\ th[p].pc = "fork_parent" /\ state[n] = "USED" /\ state[p] = "RUNNING"
      /\ \A q \in Slot : Forking(q) /\ th[q].np = n => q = p
      /\ parent' = [parent EXCEPT ![n] = p]
      /\ UNCHANGED <<state, chan, killed, pid, nextpid>>
  BY <1>a, ForkedSlot, Zenon DEF SwitchInv, fork_parent, Runs, ForkPc
<1>2. \A q \in Slot : th[q].pc \notin UnderWaitLock
  BY NoHolder, Zenon DEF fork_parent
<1>3. th' = [th EXCEPT ![p].pc = "fork_run"] /\ "fork_run" \in Pcs
  BY Zenon DEF fork_parent, Goto, Pcs, Interruptible
<1>4. /\ th' \in [Slot -> ThreadType]
      /\ \A q \in Slot : q # p => th'[q] = th[q]
      /\ th'[p].pc = "fork_run" /\ th'[p].res = th[p].res /\ th'[p].i = th[p].i
      /\ th'[p].j = th[p].j /\ th'[p].chan = th[p].chan /\ th'[p].np = th[p].np
  BY Zenon, <1>1, <1>3, SetPc
<1>5. parent'[n] = p /\ p # 0 /\ \A q \in Slot : q # n => parent'[q] = parent[q]
  BY <1>1, ProcAssumption DEF TypeOK, Slot
<1>6. Knows(p)'
  <2>1. ForkKnows(p)'
    BY <1>a, <1>4, <1>5, Zenon DEF ForkKnows, Forking, CurPc, ForkPc
  <2>2. ExitKnows(p)'
    BY <1>4, Zenon DEF ExitKnows, CurPc
  <2>3. WaitKnows(p)'
    BY <1>1, <1>4, Zenon DEF WaitKnows
  <2> QED BY <2>1, <2>2, <2>3, Zenon DEF Knows
<1>7. \A q \in Slot : Knows(q)'
  <2> SUFFICES ASSUME NEW q \in Slot, q # p PROVE Knows(q)'
    BY <1>6, Zenon
  <2>1. CurPc(q) = "fork_run" => th[q].np \in Slot \ {n}
    BY <1>1, Zenon DEF Forking, ForkPc, SwitchInv, ThreadInv, ForkSlotUsed
  <2>2. CurPc(q) = "fork_run" /\ parent'[th[q].np] = 0 => parent[th[q].np] = 0
    BY <1>5, <2>1, Zenon
  <2> QED BY <1>1, <1>2, <1>4, <2>2, StillKnows, Zenon
<1>8. PidsFresh' /\ PidsDiffer'
  BY <1>1, Zenon DEF FamilyInv, PidsFresh, PidsDiffer
<1>9. InitStays'
  BY <1>1, Zenon DEF FamilyInv, InitStays
<1>10. ParentsLive'
  BY <1>1, <1>5, Zenon DEF FamilyInv, ParentsLive, Alive
<1>11. HasParent'
  BY <1>1, <1>5, Zenon DEF FamilyInv, HasParent
<1>12. WakeupPending'
  <2> SUFFICES ASSUME NEW s \in Slot, NEW q \in Slot,
                      state'[s] = "SLEEPING", parent'[q] = s, state'[q] = "ZOMBIE"
               PROVE  \E r \in Slot : th'[r].pc = "wakeup" /\ th'[r].chan = s /\ th'[r].j <= s
    BY Zenon DEF WakeupPending
  <2>1. \E r \in Slot : th[r].pc = "wakeup"
    BY <1>1, <1>5, Zenon DEF FamilyInv, WakeupPending
  <2> QED BY <1>2, <2>1, Zenon DEF UnderWaitLock
<1> QED BY <1>7, <1>8, <1>9, <1>10, <1>11, <1>12, Zenon DEF FamilyInv, Knows

(* fork() makes its child RUNNABLE, which has a parent by then.            *)
LEMMA fork_run_keeps ==
    ASSUME SwitchInv, FamilyInv, NEW c \in CPU, NEW p \in Slot, fork_run(c, p)
    PROVE  FamilyInv'
<1>a. PICK n \in Slot \ {p, initproc} : n = th[p].np
  BY ForkedSlot, Zenon DEF fork_run, Runs, ForkPc
<1>1. /\ TypeOK /\ th[p].pc = "fork_run" /\ state[p] = "RUNNING"
      /\ state' = [state EXCEPT ![n] = "RUNNABLE"]
      /\ UNCHANGED <<chan, killed, pid, parent, nextpid>>
  BY <1>a, ForkedSlot, Zenon DEF SwitchInv, fork_run, Runs, ForkPc
<1>2. th' = [th EXCEPT ![p] = At("user")] /\ "user" \in Pcs
  BY Zenon DEF fork_run, Return, Pcs, Interruptible
<1>3. /\ \A q \in Slot : q # p => th'[q] = th[q]
      /\ th'[p].pc = "user" /\ th'[p].i = 1 /\ th'[p].np = 0
  BY Zenon, <1>1, <1>2, SetAt
<1>4. parent[n] # 0
  BY <1>a, <1>1, Zenon DEF FamilyInv, ForkKnows, CurPc
<1>5. \A q \in Slot : state'[q] # state[q] => q = n /\ state'[q] = "RUNNABLE"
  BY <1>1, Zenon DEF TypeOK
<1>6. ForkKnows(p)'
  BY <1>3, Zenon DEF ForkKnows, Forking, CurPc, ForkPc
<1>7. ExitKnows(p)'
  BY <1>3, Zenon DEF ExitKnows, CurPc
<1>8. WaitKnows(p)'
  BY <1>1, <1>3, <1>5, Zenon DEF WaitKnows
<1> QED BY <1>1, <1>3, <1>4, <1>5, <1>6, <1>7, <1>8, QuietStep, Zenon DEF Knows

-----------------------------------------------------------------------------
(* exit() and wait() *)

(* reparent() hands a child to init, and has to wake init up if it is a    *)
(* ZOMBIE; the children it has not seen are above it.                      *)
LEMMA reparent_keeps ==
    ASSUME SwitchInv, FamilyInv, NEW c \in CPU, NEW p \in Slot, reparent(c, p)
    PROVE  FamilyInv'
<1>1. /\ TypeOK /\ run[c] = p /\ th[p].pc = "reparent" /\ state[p] = "RUNNING"
      /\ UNCHANGED <<state, chan, killed, pid, nextpid>>
  BY Zenon DEF SwitchInv, ThreadInv, OnIsRunning, reparent, Runs
<1>2. PICK n \in Slot :
        /\ IsNextChild(p, n) /\ parent' = [parent EXCEPT ![n] = initproc]
        /\ th' = [th EXCEPT ![p] = [@ EXCEPT !.pc = "wakeup", !.i = n + 1, !.j = 1,
                                             !.chan = initproc]]
  BY Zenon DEF reparent, HandOver
<1>3. n + 1 \in 1..NPROC + 2 /\ initproc \in 0..NPROC /\ initproc \in Slot
  BY ProcAssumption DEF Slot, initproc
<1>4. /\ th' \in [Slot -> ThreadType]
      /\ \A q \in Slot : q # p => th'[q] = th[q]
      /\ th'[p].pc = "wakeup" /\ th'[p].i = n + 1 /\ th'[p].j = 1
      /\ th'[p].chan = initproc /\ th'[p].np = th[p].np
  BY Zenon, <1>1, <1>2, <1>3, SetWakeup
<1>5. parent'[n] = initproc /\ \A q \in Slot : q # n => parent'[q] = parent[q]
  BY <1>1, <1>2, Zenon DEF TypeOK
<1>6. \A q \in Slot : q # p => th[q].pc \notin UnderWaitLock
  BY <1>1, OwnWaitLock, OnlyHolder, Zenon DEF UnderWaitLock
<1>7. p # initproc /\ initproc # 0
  BY <1>1 DEF FamilyInv, ExitKnows, CurPc, initproc
<1>8. Knows(p)'
  <2>1. ForkKnows(p)'
    BY <1>1, <1>4, Zenon DEF FamilyInv, ForkKnows, Forking, CurPc, ForkPc
  <2>2. \A q \in Slot : parent'[q] = p => q >= n + 1
    <3> SUFFICES ASSUME NEW q \in Slot, parent'[q] = p PROVE q >= n + 1
      BY Zenon
    <3>1. q # n /\ parent[q] = p
      BY <1>5, <1>7, Zenon
    <3>2. q \in Children(p)
      BY <1>1, <3>1, Zenon DEF FamilyInv, ExitKnows, Children
    <3>3. n <= q
      BY <1>2, <3>2, Zenon DEF IsNextChild
    <3> QED BY <3>1, <3>3, ProcAssumption DEF Slot
  <2>3. th'[p].i # NPROC + 2
    BY <1>4, ProcAssumption DEF Slot
  <2>4. ExitKnows(p)'
    BY <1>4, <1>7, <2>2, <2>3, Zenon DEF ExitKnows, CurPc
  <2>5. WaitKnows(p)'
    BY <1>1, <1>4, Zenon DEF WaitKnows
  <2> QED BY <2>1, <2>4, <2>5, Zenon DEF Knows
<1>9. \A q \in Slot : Knows(q)'
  <2> SUFFICES ASSUME NEW q \in Slot, q # p PROVE Knows(q)'
    BY <1>8, Zenon
  <2>1. CurPc(q) = "fork_run" => th[q].np \in Slot
    BY Zenon DEF Forking, ForkPc, SwitchInv, ThreadInv, ForkSlotUsed
  <2>2. CurPc(q) = "fork_run" /\ parent'[th[q].np] = 0 => parent[th[q].np] = 0
    BY <1>5, <1>7, <2>1, Zenon
  <2> QED BY <1>1, <1>4, <1>6, <2>2, StillKnows, Zenon
<1>10. PidsFresh' /\ PidsDiffer'
  BY <1>1, Zenon DEF FamilyInv, PidsFresh, PidsDiffer
<1>11. InitStays'
  BY <1>1, Zenon DEF FamilyInv, InitStays
<1>12. ParentsLive'
  BY <1>1, <1>5, Zenon DEF FamilyInv, ParentsLive, InitStays
<1>13. HasParent'
  BY <1>1, <1>5, <1>7, Zenon DEF FamilyInv, HasParent
<1>14. WakeupPending'
  <2> SUFFICES ASSUME NEW s \in Slot, NEW q \in Slot,
                      state'[s] = "SLEEPING", parent'[q] = s, state'[q] = "ZOMBIE"
               PROVE  \E r \in Slot : th'[r].pc = "wakeup" /\ th'[r].chan = s /\ th'[r].j <= s
    BY Zenon DEF WakeupPending
  <2>1. CASE q = n
    BY <1>4, <1>5, <2>1 DEF initproc
  <2>2. CASE q # n
    <3>1. PICK r \in Slot : th[r].pc = "wakeup" /\ th[r].chan = s /\ th[r].j <= s
      BY <1>1, <1>5, <2>2, Zenon DEF FamilyInv, WakeupPending
    <3> QED BY <1>1, <1>4, <3>1, Zenon
  <2> QED BY <2>1, <2>2, Zenon
<1> QED BY <1>9, <1>10, <1>11, <1>12, <1>13, <1>14, Zenon DEF FamilyInv, Knows

(* exit() makes p a ZOMBIE: it has no children left, and its parent is not *)
(* asleep.                                                                 *)
LEMMA exit_zombie_keeps ==
    ASSUME SwitchInv, FamilyInv, NEW c \in CPU, NEW p \in Slot, exit_zombie(c, p)
    PROVE  FamilyInv'
<1>1. /\ TypeOK /\ run[c] = p /\ th[p].pc = "exit_zombie" /\ state[p] = "RUNNING"
      /\ state' = [state EXCEPT ![p] = "ZOMBIE"] /\ th' = [th EXCEPT ![p] = Switched("dead")]
      /\ UNCHANGED <<chan, killed, pid, parent, nextpid>>
  BY Zenon DEF SwitchInv, ThreadInv, OnIsRunning, exit_zombie, Runs
<1>2. /\ \A q \in Slot : q # p => th'[q] = th[q] /\ state'[q] = state[q]
      /\ th'[p] = Switched("dead") /\ state'[p] = "ZOMBIE"
  BY <1>1, Zenon DEF TypeOK
<1>3. th'[p].pc = "sched" /\ th'[p].res = "dead" /\ th'[p].np = 0
  BY <1>2, SwitchedType
<1>4. \A q \in Slot : q # p => th[q].pc \notin UnderWaitLock
  BY <1>1, OwnWaitLock, OnlyHolder, Zenon DEF UnderWaitLock
<1>5. \A q \in Slot : parent[q] # p
  <2>1. \A q \in Slot : parent[q] = p => q >= NPROC + 2
    BY <1>1, Zenon DEF FamilyInv, ExitKnows
  <2> QED BY <2>1, ProcAssumption DEF Slot
<1>6. p # initproc /\ parent[p] \in Slot /\ state[parent[p]] # "SLEEPING"
  BY <1>1, ExitHasParent, Zenon DEF FamilyInv, ExitKnows
<1>7. Knows(p)'
  <2>1. ForkKnows(p)'
    BY <1>3, Zenon DEF ForkKnows, Forking, CurPc, ForkPc
  <2>2. ExitKnows(p)'
    BY <1>3, Zenon DEF ExitKnows, CurPc
  <2>3. WaitKnows(p)'
    BY <1>2, <1>3, Zenon DEF WaitKnows
  <2> QED BY <2>1, <2>2, <2>3, Zenon DEF Knows
<1>8. \A q \in Slot : Knows(q)'
  <2> SUFFICES ASSUME NEW q \in Slot, q # p PROVE Knows(q)'
    BY <1>7, Zenon
  <2> QED BY <1>1, <1>2, <1>4, StillKnows, Zenon
<1>9. PidsFresh' /\ PidsDiffer'
  BY <1>1, Zenon DEF FamilyInv, PidsFresh, PidsDiffer
<1>10. InitStays'
  BY <1>1, <1>2, <1>6, ProcAssumption DEF FamilyInv, InitStays, initproc, Slot
<1>11. ParentsLive'
  BY <1>1, <1>2, <1>5, ParentInTable DEF FamilyInv, ParentsLive
<1>12. HasParent'
  BY <1>1, <1>2, Zenon DEF FamilyInv, HasParent
<1>13. WakeupPending'
  <2> SUFFICES ASSUME NEW s \in Slot, NEW q \in Slot,
                      state'[s] = "SLEEPING", parent'[q] = s, state'[q] = "ZOMBIE"
               PROVE  \E r \in Slot : th'[r].pc = "wakeup" /\ th'[r].chan = s /\ th'[r].j <= s
    BY Zenon DEF WakeupPending
  <2>1. q # p /\ s # p
    BY <1>1, <1>2, <1>6, Zenon
  <2>2. PICK r \in Slot : th[r].pc = "wakeup" /\ th[r].chan = s /\ th[r].j <= s
    BY <1>1, <1>2, <2>1, SMTT(30) DEF FamilyInv, WakeupPending
  <2> QED BY <1>1, <1>2, <2>2, Zenon
<1> QED BY <1>8, <1>9, <1>10, <1>11, <1>12, <1>13, Zenon DEF FamilyInv, Knows

(* sleep() of wait(): no child has exited, and none can before p sleeps.   *)
LEMMA sleep_keeps ==
    ASSUME SwitchInv, FamilyInv, NEW c \in CPU, NEW p \in Slot, sleep(c, p)
    PROVE  FamilyInv'
<1>1. /\ TypeOK /\ run[c] = p /\ th[p].pc = "sleep" /\ state[p] = "RUNNING"
      /\ state' = [state EXCEPT ![p] = "SLEEPING"] /\ chan' = [chan EXCEPT ![p] = p]
      /\ th' = [th EXCEPT ![p] = Switched("wait")]
      /\ UNCHANGED <<killed, pid, parent, nextpid>>
  BY Zenon DEF SwitchInv, ThreadInv, OnIsRunning, sleep, Runs
<1>2. /\ \A q \in Slot : q # p => th'[q] = th[q] /\ state'[q] = state[q] /\ chan'[q] = chan[q]
      /\ th'[p] = Switched("wait") /\ state'[p] = "SLEEPING" /\ chan'[p] = p
  BY <1>1, Zenon DEF TypeOK
<1>3. th'[p].pc = "sched" /\ th'[p].res = "wait" /\ th'[p].np = 0
  BY <1>2, SwitchedType DEF Interruptible
<1>4. \A q \in Slot : q # p => th[q].pc \notin UnderWaitLock
  BY <1>1, OwnWaitLock, OnlyHolder, Zenon DEF UnderWaitLock
<1>5. \A q \in Slot : parent[q] = p => state[q] # "ZOMBIE"
  BY <1>1, Zenon DEF FamilyInv, WaitKnows
<1>6. Knows(p)'
  <2>1. ForkKnows(p)'
    BY <1>3, Zenon DEF ForkKnows, Forking, CurPc, ForkPc
  <2>2. ExitKnows(p)'
    BY <1>3, Zenon DEF ExitKnows, CurPc
  <2>3. WaitKnows(p)'
    BY <1>2, <1>3, Zenon DEF WaitKnows
  <2> QED BY <2>1, <2>2, <2>3, Zenon DEF Knows
<1>7. \A q \in Slot : Knows(q)'
  <2> SUFFICES ASSUME NEW q \in Slot, q # p PROVE Knows(q)'
    BY <1>6, Zenon
  <2> QED BY <1>1, <1>2, <1>4, StillKnows, Zenon
<1>8. PidsFresh' /\ PidsDiffer'
  BY <1>1, Zenon DEF FamilyInv, PidsFresh, PidsDiffer
<1>9. InitStays'
  <2>2. state'[initproc] \in Alive
    BY <1>2, ProcAssumption DEF FamilyInv, InitStays, Alive, initproc, Slot
  <2> QED BY <1>1, <2>2, Zenon DEF FamilyInv, InitStays
<1>10. ParentsLive'
  BY <1>1, <1>2, ParentInTable DEF FamilyInv, ParentsLive, Alive
<1>11. HasParent'
  BY <1>1, <1>2, Zenon DEF FamilyInv, HasParent
<1>12. WakeupPending'
  <2> SUFFICES ASSUME NEW s \in Slot, NEW q \in Slot,
                      state'[s] = "SLEEPING", parent'[q] = s, state'[q] = "ZOMBIE"
               PROVE  \E r \in Slot : th'[r].pc = "wakeup" /\ th'[r].chan = s /\ th'[r].j <= s
    BY Zenon DEF WakeupPending
  <2>1. q # p /\ s # p
    BY <1>1, <1>2, <1>5, Zenon
  <2>2. PICK r \in Slot : th[r].pc = "wakeup" /\ th[r].chan = s /\ th[r].j <= s
    BY <1>1, <1>2, <2>1 DEF FamilyInv, WakeupPending
  <2> QED BY <1>1, <1>2, <2>2
<1> QED BY <1>7, <1>8, <1>9, <1>10, <1>11, <1>12, Zenon DEF FamilyInv, Knows

(* wait() frees an exited child, which is nobody's parent, or leaves it.   *)
LEMMA wait_found_keeps ==
    ASSUME SwitchInv, FamilyInv, NEW c \in CPU, NEW p \in Slot, wait_found(c, p)
    PROVE  FamilyInv'
<1>1. /\ TypeOK /\ run[c] = p /\ th[p].pc = "wait_scan" /\ state[p] = "RUNNING"
      /\ nextpid' = nextpid
  BY Zenon DEF SwitchInv, ThreadInv, OnIsRunning, wait_found, Runs
<1>2. PICK n \in Slot : state[n] = "ZOMBIE" /\ (freeproc(n) \/ UNCHANGED table)
  BY Zenon DEF wait_found
<1>3. th' = [th EXCEPT ![p] = At("user")] /\ "user" \in Pcs
  BY Zenon DEF wait_found, Return, Pcs, Interruptible
<1>4. /\ \A q \in Slot : q # p => th'[q] = th[q]
      /\ th'[p].pc = "user" /\ th'[p].i = 1 /\ th'[p].np = 0
  BY Zenon, <1>1, <1>3, SetAt
<1>5. ForkKnows(p)'
  BY <1>4, Zenon DEF ForkKnows, Forking, CurPc, ForkPc
<1>6. ExitKnows(p)'
  BY <1>4, Zenon DEF ExitKnows, CurPc
<1>7. CASE UNCHANGED table
  BY <1>1, <1>4, <1>5, <1>6, <1>7, LocalQuietStep, Zenon
<1>8. CASE freeproc(n)
  <2>1. \A q \in Slot : q # n =>
           /\ state'[q] = state[q] /\ chan'[q] = chan[q] /\ killed'[q] = killed[q]
           /\ pid'[q] = pid[q] /\ parent'[q] = parent[q]
    BY <1>1, <1>8, Zenon DEF freeproc, TypeOK
  <2>2. state'[n] = "UNUSED" /\ pid'[n] = 0 /\ parent'[n] = 0
    BY <1>1, <1>8, Zenon DEF freeproc, TypeOK
  <2>3. n # p /\ n # initproc
    BY <1>1, <1>2, Zenon DEF FamilyInv, InitStays, Alive
  <2>4. \A q \in Slot : parent[q] # n
    BY <1>2, ProcAssumption DEF FamilyInv, ParentsLive, Alive, Slot
  <2>5. \A q \in Slot : q # p => th[q].pc \notin UnderWaitLock
    BY <1>1, OwnWaitLock, OnlyHolder, Zenon DEF UnderWaitLock
  <2>6. Knows(p)'
    <3>1. WaitKnows(p)'
      BY <1>1, <1>4, <2>1, <2>3, Zenon DEF WaitKnows
    <3> QED BY <1>5, <1>6, <3>1, Zenon DEF Knows
  <2>7. \A q \in Slot : Knows(q)'
    <3> SUFFICES ASSUME NEW q \in Slot, q # p PROVE Knows(q)'
      BY <2>6, Zenon
    <3>1. CurPc(q) = "fork_run" => th[q].np \in Slot \ {n}
      BY <1>2, Zenon DEF Forking, ForkPc, SwitchInv, ThreadInv, ForkSlotUsed
    <3>2. CurPc(q) = "fork_run" /\ parent'[th[q].np] = 0 => parent[th[q].np] = 0
      BY <2>1, <3>1, Zenon
    <3>3. state'[q] = "SLEEPING" => state[q] = "SLEEPING" /\ chan'[q] = chan[q]
      BY <2>1, <2>2, Zenon
    <3> QED BY <1>4, <2>5, <3>2, <3>3, StillKnows, Zenon
  <2>8. PidsFresh' /\ PidsDiffer'
    <3>1. nextpid > 0
      BY <1>1, ProcAssumption, SMTT(30) DEF TypeOK
    <3> QED BY <1>1, <2>1, <2>2, <3>1, SMTT(30) DEF FamilyInv, PidsFresh, PidsDiffer
  <2>9. InitStays'
    BY <2>1, <2>3, ProcAssumption, SMTT(30) DEF FamilyInv, InitStays, initproc, Slot
  <2>10. ParentsLive'
    BY <2>1, <2>2, <2>4, ParentInTable DEF FamilyInv, ParentsLive
  <2>11. HasParent'
    BY <2>1, <2>2, Zenon DEF FamilyInv, HasParent
  <2>12. WakeupPending'
    <3> SUFFICES ASSUME NEW s \in Slot, NEW q \in Slot,
                        state'[s] = "SLEEPING", parent'[q] = s, state'[q] = "ZOMBIE"
                 PROVE  \E r \in Slot : th'[r].pc = "wakeup" /\ th'[r].chan = s /\ th'[r].j <= s
      BY Zenon DEF WakeupPending
    <3>1. PICK r \in Slot : th[r].pc = "wakeup" /\ th[r].chan = s /\ th[r].j <= s
      BY <2>1, <2>2 DEF FamilyInv, WakeupPending
    <3> QED BY <1>1, <1>4, <3>1, Zenon
  <2> QED BY <2>7, <2>8, <2>9, <2>10, <2>11, <2>12, Zenon DEF FamilyInv, Knows
<1> QED BY <1>2, <1>7, <1>8, Zenon

-----------------------------------------------------------------------------
(* The locks and threads.                                                  *)

(* The table that userinit() leaves: one RUNNABLE process, no lock held.   *)
LEMMA InitSafe ==
    Init => SwitchInv
<1> SUFFICES ASSUME Init PROVE SwitchInv
  BY Zenon
<1> USE ProcAssumption
<1>1. /\ Switched("user") \in ThreadType
      /\ Switched("user").pc = "sched" /\ Switched("user").res = "user"
  BY SwitchedType, Zenon DEF Interruptible
<1>2. \A p \in Slot : th[p].pc = "sched" /\ th[p].res = "user"
  BY <1>1, Zenon DEF Init
<1>3. TypeOK
  <2>1. /\ state \in [Slot -> States] /\ killed \in [Slot -> BOOLEAN]
        /\ plock \in [Slot -> CPU \cup {NoCPU}] /\ wait_lock \in CPU \cup {NoCPU}
    BY Zenon DEF Init, States
  <2>2. /\ chan \in [Slot -> 0..NPROC] /\ parent \in [Slot -> 0..NPROC]
        /\ run \in [CPU -> 0..NPROC] /\ cproc \in [CPU -> 0..NPROC]
    BY DEF Init
  <2>3. pid \in [Slot -> 0..MAXPID] /\ nextpid \in 2..MAXPID + 1 /\ kills \in 0..MAXKILL
    BY DEF Init
  <2>4. sch \in [CPU -> [pc : {"scan", "back"}, p : Slot]]
    BY DEF Init, Slot
  <2>5. th \in [Slot -> ThreadType]
    BY <1>1, Zenon DEF Init
  <2> QED BY <2>1, <2>2, <2>3, <2>4, <2>5, Zenon DEF TypeOK
<1>4. PLockOwned /\ WaitLockOwned
  BY <1>2 DEF Init, PLockOwned, WaitLockOwned, Owns, Runs, Slot
<1>5. ThreadInv
  <2>1. \A p \in Slot : ~Forking(p) /\ state[p] # "RUNNING"
    BY <1>2, Zenon DEF Init, Forking, CurPc, ForkPc
  <2>2. \A c \in CPU : run[c] = 0
    BY Zenon DEF Init
  <2> QED BY <1>2, <2>1, <2>2 DEF ThreadInv, OnItsCpu, OnOneCpu, RunningIsOn, OnIsRunning,
     OffIsInSched, ForkSlotUsed, ForkSlotOwn, Slot
<1> QED BY <1>3, <1>4, <1>5, Zenon DEF SwitchInv

(* Every step of every CPU keeps SwitchInv.                                *)
LEMMA NextSafe ==
    SwitchInv /\ [Next]_vars => SwitchInv'
<1> SUFFICES ASSUME SwitchInv, [Next]_vars PROVE SwitchInv'
  BY Zenon
<1>1. ASSUME NEW c \in CPU, NEW p \in Slot, Switch(c, p) PROVE SwitchInv'
  BY <1>1, sched_safe, sched_return_safe, Zenon DEF Switch
<1>2. ASSUME NEW c \in CPU, NEW p \in Slot, Work(c, p) PROVE SwitchInv'
  BY <1>2, usertrap_killed_safe, allocproc_safe, allocproc_none_safe, fork_fail_safe,
     fork_copied_safe, fork_parent_safe, fork_run_safe, exit_safe, reparent_safe,
     exit_wakeup_safe, wakeup_safe, exit_zombie_safe, wait_safe, wait_scan_safe,
     wait_found_safe, wait_none_safe, sleep_safe, exit_init_safe, SMTT(30) DEF Work
<1>3. ASSUME NEW c \in CPU, NEW p \in Slot, Program(c, p) PROVE SwitchInv'
  BY <1>3, syscall_safe, kill_safe, Zenon DEF Program
<1>4. CASE Next
  BY <1>1, <1>2, <1>3, <1>4, scheduler_safe, scheduler_back_safe, yield_safe, Zenon DEF Next
<1>5. CASE UNCHANGED vars
  <2> USE <1>5 DEF vars, table, locks, cpus, SwitchInv
  <2>1. TypeOK'
    BY ZenonT(30) DEF TypeOK
  <2>2. PLockOwned' /\ WaitLockOwned'
    <3>1. run' = run /\ th' = th /\ sch' = sch /\ plock' = plock /\ wait_lock' = wait_lock
      OBVIOUS
    <3>2. \A c \in CPU, p \in Slot : Owns(c, p)' <=> Owns(c, p)
      BY ONLY <3>1, Zenon DEF Owns, Runs
    <3>3. PLockOwned /\ WaitLockOwned
      BY Zenon
    <3>4. PLockOwned'
      BY ONLY <3>1, <3>2, <3>3, Zenon DEF PLockOwned
    <3>5. WaitLockOwned'
      BY ONLY <3>1, <3>3, Zenon DEF WaitLockOwned
    <3> QED  BY <3>4, <3>5
  <2>3. OnItsCpu' /\ OnOneCpu' /\ RunningIsOn' /\ OnIsRunning' /\ OffIsInSched'
    BY DEF ThreadInv, OnItsCpu, OnOneCpu, RunningIsOn, OnIsRunning, OffIsInSched
  <2>4. ForkSlotUsed' /\ ForkSlotOwn'
    BY DEF ThreadInv, ForkSlotUsed, ForkSlotOwn, Forking, CurPc, ForkPc
  <2> QED BY <2>1, <2>2, <2>3, <2>4, Zenon DEF ThreadInv
<1> QED BY <1>4, <1>5, Zenon

(* What the invariant says of sched() and of two CPUs.                     *)
LEMMA InvSwitchesSafely ==
    SwitchInv => SwitchesSafely
<1> SUFFICES ASSUME SwitchInv PROVE OneCpuPerProcess /\ SchedHoldsOnlyOwnLock
  BY Zenon DEF SwitchesSafely
<1> USE ProcAssumption
<1>1. OneCpuPerProcess
  <2>1. \A c \in CPU : run[c] # 0 => run[c] \in Slot
    BY DEF SwitchInv, TypeOK, Slot
  <2>2. \A c \in CPU : run[c] # 0 => \A d \in CPU \ {c} : run[d] # run[c]
    BY Zenon DEF SwitchInv, ThreadInv, OnOneCpu
  <2>3. \A c \in CPU : run[c] # 0 /\ plock[run[c]] # c => state[run[c]] = "RUNNING"
    BY <2>1 DEF SwitchInv, ThreadInv, OnIsRunning, PLockOwned, Owns, Runs
  <2> QED BY <2>2, <2>3, Zenon DEF SwitchInv, ThreadInv, OnItsCpu, RunningIsOn, OneCpuPerProcess
<1>2. ASSUME NEW c \in CPU, NEW p \in Slot, Runs(c, p, "sched")
      PROVE  Held(c) = {p}
  <2>1. \A q \in Slot : plock[q] = c <=> q = p
    BY <1>2 DEF SwitchInv, PLockOwned, Owns, Runs, Slot
  <2>2. wait_lock # c
    BY <1>2, OwnWaitLock, Zenon DEF Runs, UnderWaitLock
  <2> QED BY <2>1, <2>2, Zenon DEF Held
<1>3. ASSUME NEW c \in CPU, run[c] = 0, sch[c].pc = "back"
      PROVE  Held(c) = {sch[c].p}
  <2>1. sch[c].p \in Slot
    BY Zenon DEF SwitchInv, TypeOK
  <2>2. \A q \in Slot : plock[q] = c <=> q = sch[c].p
    BY <1>3 DEF SwitchInv, PLockOwned, Owns, Runs, Slot
  <2>3. wait_lock # c
    BY <1>3 DEF SwitchInv, WaitLockOwned, Slot
  <2> QED BY <2>1, <2>2, <2>3, Zenon DEF Held
<1> QED BY <1>1, <1>2, <1>3, Zenon DEF SchedHoldsOnlyOwnLock

(* For any number of CPUs and of slots of proc[], whatever system calls,   *)
(* kills and timer interrupts interleave: no two CPUs execute in one       *)
(* process, a thread that executes is RUNNING or holds its p->lock, and    *)
(* sched() and scheduler() hold exactly the one p->lock across swtch().    *)
THEOREM SpecSwitchesSafely ==
    Spec => []SwitchesSafely
<1>1. Spec => []SwitchInv
  BY InitSafe, NextSafe, PTL DEF Spec
<1> QED BY <1>1, InvSwitchesSafely, PTL

-----------------------------------------------------------------------------
(* Parents, children and sleepers.                                         *)

(* userinit() makes init, with pid 1, and nobody else.                     *)
LEMMA InitKeeps ==
    Init => FamilyInv
<1> SUFFICES ASSUME Init PROVE FamilyInv
  BY Zenon
<1> USE ProcAssumption
<1>1. \A p \in Slot : th[p].pc = "sched" /\ th[p].res = "user" /\ th[p].i = 1 /\ th[p].np = 0
  BY SwitchedType, Zenon DEF Init, Interruptible
<1>2. \A p \in Slot : CurPc(p) = "user"
  BY <1>1, Zenon DEF CurPc
<1>3. \A p \in Slot : ForkKnows(p) /\ ExitKnows(p)
  BY <1>1, <1>2, Zenon DEF ForkKnows, ExitKnows, Forking, ForkPc
<1>4. \A p \in Slot : state[p] \notin {"SLEEPING", "ZOMBIE"} /\ parent[p] = 0
  BY Zenon DEF Init
<1>5. \A p \in Slot : WaitKnows(p)
  BY <1>1, <1>4, Zenon DEF WaitKnows
<1>6. PidsFresh /\ PidsDiffer
  BY DEF Init, PidsFresh, PidsDiffer, initproc
<1>7. InitStays
  BY <1>2 DEF Init, InitStays, Alive, initproc, Slot
<1>8. ParentsLive /\ HasParent /\ WakeupPending
  BY <1>4, Zenon DEF Init, ParentsLive, HasParent, WakeupPending
<1> QED BY <1>3, <1>5, <1>6, <1>7, <1>8, Zenon DEF FamilyInv

(* Every step of every CPU keeps FamilyInv.                                *)
LEMMA NextKeeps ==
    SwitchInv /\ FamilyInv /\ [Next]_vars => FamilyInv'
<1> SUFFICES ASSUME SwitchInv, FamilyInv, [Next]_vars PROVE FamilyInv'
  BY Zenon
<1>1. ASSUME NEW c \in CPU, NEW p \in Slot, Switch(c, p) PROVE FamilyInv'
  BY <1>1, sched_keeps, sched_return_keeps, Zenon DEF Switch
<1>2. ASSUME NEW c \in CPU, NEW p \in Slot, Work(c, p) PROVE FamilyInv'
  BY <1>2, usertrap_killed_keeps, allocproc_keeps, allocproc_none_keeps, fork_fail_keeps,
     fork_copied_keeps, fork_parent_keeps, fork_run_keeps, exit_keeps, reparent_keeps,
     exit_wakeup_keeps, wakeup_keeps, exit_zombie_keeps, wait_keeps, wait_scan_keeps,
     wait_found_keeps, wait_none_keeps, sleep_keeps, exit_init_keeps, SMTT(30) DEF Work
<1>3. ASSUME NEW c \in CPU, NEW p \in Slot, Program(c, p) PROVE FamilyInv'
  BY <1>3, syscall_keeps, kill_keeps, Zenon DEF Program
<1>4. CASE Next
  BY <1>1, <1>2, <1>3, <1>4, scheduler_keeps, scheduler_back_keeps, yield_keeps, Zenon DEF Next
<1>5. CASE UNCHANGED vars
  <2>1. th' = th /\ UNCHANGED <<state, chan, killed, pid, parent, nextpid>>
    BY <1>5, Zenon DEF vars, table
  <2>2. initproc \in Slot
    BY ProcAssumption DEF initproc, Slot
  <2> QED BY <2>1, <2>2, QuietStep, Zenon
<1> QED BY <1>4, <1>5, Zenon

(* What the invariants say of orphans, of the slot of a fork() and of pids.*)
LEMMA InvFamilyConsistent ==
    SwitchInv /\ FamilyInv => FamilyConsistent
<1> SUFFICES ASSUME SwitchInv, FamilyInv PROVE ParentAlive /\ ForkedSlotReserved
  BY Zenon DEF FamilyConsistent
<1>1. ParentAlive
  <2> SUFFICES ASSUME NEW q \in Slot \ {initproc}, state[q] \notin {"UNUSED", "USED"}
               PROVE  parent[q] \in Slot /\ state[parent[q]] \notin {"UNUSED", "USED", "ZOMBIE"}
    BY Zenon DEF ParentAlive
  <2>1. parent[q] # 0
    BY Zenon DEF FamilyInv, HasParent
  <2> QED BY <2>1, ParentInTable, Zenon DEF FamilyInv, ParentsLive, Alive
<1>2. ASSUME NEW p \in Slot, Forking(p), NEW q \in Slot \ {p}
      PROVE  state[th[p].np] = "USED" /\ th[q].np # th[p].np
  <2>1. th[p].np \in Slot /\ state[th[p].np] = "USED"
    BY <1>2, Zenon DEF SwitchInv, ThreadInv, ForkSlotUsed
  <2>2. CASE Forking(q)
    BY <1>2, <2>1, <2>2, Zenon DEF SwitchInv, ThreadInv, ForkSlotOwn
  <2>3. CASE ~Forking(q)
    BY <2>1, <2>3, ProcAssumption DEF FamilyInv, ForkKnows, Slot
  <2> QED BY <2>2, <2>3, Zenon
<1>3. \A p \in Slot : Forking(p) => state[th[p].np] = "USED"
  BY Zenon DEF SwitchInv, ThreadInv, ForkSlotUsed
<1>4. \A p \in Slot : Forking(p) => \A q \in Slot \ {p} : th[q].np # th[p].np
  BY <1>2, Zenon
<1> QED BY <1>1, <1>3, <1>4, Zenon DEF FamilyInv, PidsDiffer, ForkedSlotReserved

(* wakeup() runs under wait_lock: when that is free, nobody is about to be *)
(* woken up by exit(), so nobody sleeps beside an exited child.            *)
LEMMA InvNoLostExit ==
    SwitchInv /\ FamilyInv => NoLostExit
<1> SUFFICES ASSUME SwitchInv, FamilyInv, wait_lock = NoCPU, NEW p \in Slot, NEW q \in Slot,
                    state[p] = "SLEEPING", parent[q] = p, state[q] = "ZOMBIE"
             PROVE  FALSE
  BY Zenon DEF NoLostExit
<1>1. PICK r \in Slot : th[r].pc = "wakeup"
  BY Zenon DEF FamilyInv, WakeupPending
<1> QED BY <1>1, NoHolder, Zenon DEF UnderWaitLock

(* Both invariants hold in every reachable state.                          *)
LEMMA SpecInv ==
    Spec => [](SwitchInv /\ FamilyInv)
BY InitSafe, NextSafe, InitKeeps, NextKeeps, PTL DEF Spec

(* Whatever forks, exits, waits and kills interleave on however many CPUs: *)
(* every process but init has a parent that can still wait() for it, init  *)
(* is never a ZOMBIE even if it is killed, the slot that fork() fills      *)
(* stays its own until it is RUNNABLE, and no two processes have one pid.  *)
THEOREM SpecFamilyConsistent ==
    Spec => []FamilyConsistent
BY SpecInv, InvFamilyConsistent, PTL

(* No exit is lost: exit() and reparent() call wakeup() before the child   *)
(* is a ZOMBIE, yet once wait_lock is free nobody sleeps in wait() beside  *)
(* an exited child, for any number of CPUs and processes.                  *)
THEOREM SpecNoLostExit ==
    Spec => []NoLostExit
BY SpecInv, InvNoLostExit, PTL

=============================================================================
