----------------------------- MODULE PbsProofs -----------------------------
(***************************************************************************)
(* Proofs about the priority-based scheduler of kernel/proc.c for every    *)
(* number of CPUs, slots, ticks and pids.                                  *)
(***************************************************************************)
EXTENDS Pbs, WellFoundedInduction, TLAPS

(* The sizes of the chosen system are those that param.h can define.       *)
LEMMA Sizes ==
    ASSUME lim \in Systems
    PROVE  /\ NCPU \in Nat \ {0} /\ NPROC \in Nat \ {0} /\ MAXPID \in Nat \ {0}
           /\ MAXTICKS \in Nat /\ MAXSCHED \in Nat /\ Priorities \subseteq 0..100
    BY PbsAssumption, Zenon DEF NCPU, NPROC, MAXPID, MAXTICKS, MAXSCHED, Priorities

(* No step changes the sizes.                                              *)
LEMMA SameSizes ==
    ASSUME lim' = lim
    PROVE  /\ NPROC' = NPROC /\ MAXPID' = MAXPID /\ MAXTICKS' = MAXTICKS /\ MAXSCHED' = MAXSCHED
           /\ CPU' = CPU /\ Slot' = Slot /\ Scans' = Scans /\ Threads' = Threads
    BY Zenon DEF NCPU, NPROC, MAXPID, MAXTICKS, MAXSCHED, CPU, Slot, Scans, Threads

(* CPU numbers and None differ, and process 1 (init) is in the table.      *)
LEMMA Numbers ==
    ASSUME lim \in Systems
    PROVE  /\ None \notin CPU /\ CPU \subseteq Nat /\ 0 \in CPU
           /\ 1 \in Slot /\ 0 \notin Slot /\ Slot \subseteq 0..NPROC /\ Slot \subseteq Nat
           /\ \A x \in 0..NPROC : x # 0 => x \in Slot
           /\ \A x \in 1..NPROC + 1 : x <= NPROC => x \in Slot
           /\ \A x \in Slot : x + 1 \in 1..NPROC + 1
    BY Sizes DEF None, CPU, Slot

(* The initial value of lowestPriority is above every priority.            *)
LEMMA HighestIs == Highest \in Nat /\ Highest > 100 /\ Highest' = Highest
    BY SMT DEF Highest

-----------------------------------------------------------------------------
(* The priority arithmetic.                                                *)

(* calculate_rbi() is never negative.                                      *)
LEMMA RbiNat ==
    ASSUME NEW R \in Nat, NEW W \in Nat, NEW S \in Nat
    PROVE  calculate_rbi(R, W, S) \in Nat
<1> DEFINE a == 3 * R - S - W
           b == R + W + S + 1
           q == a \div b
<1>1. a \in Int /\ b \in Int /\ b > 0
  OBVIOUS
<1> HIDE DEF a, b
<1>2. q \in Int
  BY <1>1
<1>3. calculate_rbi(R, W, S) = IF q * 50 > 0 THEN q * 50 ELSE 0
  BY Zenon DEF calculate_rbi, a, b
<1> HIDE DEF q
<1>4. (IF q * 50 > 0 THEN q * 50 ELSE 0) \in Nat
  BY <1>2
<1> QED
  BY <1>3, <1>4, Zenon

(* The scheduling fields change one by one.                                *)
LEMMA FieldTypes ==
    ASSUME NEW g \in Fields, NEW n \in Nat
    PROVE  /\ [g EXCEPT !.num = n] \in Fields /\ [g EXCEPT !.ctime = n] \in Fields
           /\ [g EXCEPT !.RTime = n] \in Fields /\ [g EXCEPT !.WTime = n] \in Fields
           /\ [g EXCEPT !.STime = n] \in Fields
           /\ \A s \in 0..100 : [g EXCEPT !.SP = s] \in Fields
<1>1. [g EXCEPT !.num = n] \in Fields /\ [g EXCEPT !.ctime = n] \in Fields
  BY Zenon DEF Fields
<1>2. [g EXCEPT !.RTime = n] \in Fields /\ [g EXCEPT !.WTime = n] \in Fields
  BY Zenon DEF Fields
<1>3. [g EXCEPT !.STime = n] \in Fields /\ \A s \in 0..100 : [g EXCEPT !.SP = s] \in Fields
  BY Zenon DEF Fields
<1> QED
  BY <1>1, <1>2, <1>3, Zenon

(* The accounting fields are not those the scheduler orders by.            *)
LEMMA FieldsKept ==
    ASSUME NEW g \in Fields, NEW n
    PROVE  /\ LET e == [g EXCEPT !.RTime = n] IN e.SP = g.SP /\ e.num = g.num /\ e.ctime = g.ctime
           /\ LET e == [g EXCEPT !.WTime = n] IN e.SP = g.SP /\ e.num = g.num /\ e.ctime = g.ctime
           /\ LET e == [g EXCEPT !.STime = n] IN e.SP = g.SP /\ e.num = g.num /\ e.ctime = g.ctime
    BY Zenon DEF Fields

(* update_dp() changes RBI and DP and keeps DP within 0..100.              *)
LEMMA UpdateDp ==
    ASSUME NEW g \in Fields
    PROVE  /\ update_dp(g) \in Fields
           /\ update_dp(g).SP = g.SP
<1> DEFINE rbi == calculate_rbi(g.RTime, g.WTime, g.STime)
           dp == IF g.SP + rbi < 100 THEN g.SP + rbi ELSE 100
<1>1. g.SP \in 0..100 /\ g.RTime \in Nat /\ g.WTime \in Nat /\ g.STime \in Nat
  BY Zenon DEF Fields
<1>2. rbi \in Nat
  BY <1>1, RbiNat, Zenon
<1>3. update_dp(g) = [g EXCEPT !.RBI = rbi, !.DP = dp]
  BY Zenon DEF update_dp
<1> HIDE DEF rbi
<1>4. dp \in 0..100
  BY <1>1, <1>2, SMTT(30)
<1> HIDE DEF dp
<1> QED
  BY <1>2, <1>3, <1>4 DEF Fields

(* What is left of the fields when a scan is disturbed: all but clean.     *)
LEMMA DisturbedIs ==
    ASSUME sc \in [CPU -> Scans]
    PROVE  /\ Disturbed \in [CPU -> Scans]
           /\ \A d \in CPU : /\ Disturbed[d].pc = sc[d].pc /\ Disturbed[d].i = sc[d].i
                             /\ Disturbed[d].low = sc[d].low /\ Disturbed[d].sel = sc[d].sel
                             /\ Disturbed[d].start = sc[d].start /\ Disturbed[d].clean = FALSE
<1>1. \A r \in Scans : LET s == [r EXCEPT !.clean = FALSE] IN
        /\ s \in Scans /\ s.pc = r.pc /\ s.i = r.i /\ s.low = r.low /\ s.sel = r.sel
        /\ s.start = r.start /\ s.clean = FALSE
  BY Zenon DEF Scans
<1> QED
  BY <1>1, Zenon DEF Disturbed

-----------------------------------------------------------------------------
(* Every action keeps the types.                                           *)

(* The start of a scan, and the scheduler once the process runs.           *)
LEMMA ScanTypes ==
    ASSUME lim \in Systems
    PROVE  /\ Scan \in Scans
           /\ \A p \in Slot, t \in Nat : [Scan EXCEPT !.pc = "back", !.sel = p, !.start = t] \in Scans
<1>1. Highest \in 0..Highest /\ 1 \in 1..NPROC + 1 /\ 0 \in 0..NPROC /\ Slot \subseteq 0..NPROC
  BY Sizes, HighestIs DEF Slot
<1>2. Scan \in Scans
  BY <1>1 DEF Scan, Scans
<1>3. \A p \in Slot, t \in Nat : [Scan EXCEPT !.pc = "back", !.sel = p, !.start = t] \in Scans
  BY <1>1, <1>2, Zenon DEF Scans
<1> QED
  BY <1>2, <1>3, Zenon

(* Frame: the types of what a step leaves alone.                           *)
LEMMA TypeSame ==
    ASSUME TypeOK, lim' = lim
    PROVE  /\ lim' \in Systems
           /\ state' = state => state' \in [Slot' -> {"UNUSED", "SLEEPING", "RUNNABLE", "RUNNING", "ZOMBIE"}]
           /\ pid' = pid => pid' \in [Slot' -> 0..MAXPID']
           /\ f' = f => f' \in [Slot' -> Fields]
           /\ plock' = plock => plock' \in [Slot' -> CPU' \cup {None}]
           /\ ticks' = ticks => ticks' \in 0..MAXTICKS'
           /\ clk' = clk => clk' \in 0..NPROC'
           /\ run' = run => run' \in [CPU' -> 0..NPROC']
           /\ sc' = sc => sc' \in [CPU' -> Scans']
           /\ th' = th => th' \in [Slot' -> Threads']
           /\ nextpid' = nextpid => nextpid' \in 2..MAXPID' + 1
    BY SameSizes, Zenon DEF TypeOK

(* A step of the scheduler keeps the types: the scan and the tie-break.    *)
LEMMA scan_types ==
    ASSUME TypeOK, NEW c \in CPU, ScanInv(c), lim' = lim,
           scan(c) \/ selectHigherPriorityProcess(c) \/ scan_done(c) \/ scheduleProcess_release(c)
    PROVE  TypeOK'
<1> DEFINE r == sc[c]
<1>0. r \in Scans /\ plock \in [Slot -> CPU \cup {None}] /\ sc \in [CPU -> Scans] /\ lim \in Systems
      /\ f \in [Slot -> Fields]
  BY Zenon DEF TypeOK
<1>t. r.i \in 1..NPROC + 1 /\ r.sel \in 0..NPROC
  BY <1>0, Zenon DEF Scans
<1>s. Scan \in Scans
  BY <1>0, ScanTypes, Zenon
<1>1. /\ UNCHANGED <<state, pid, f, ticks, clk, run, th, nextpid>>
  BY Zenon DEF scan, selectHigherPriorityProcess, scan_done, scheduleProcess_release
<1>2. plock' \in [Slot -> CPU \cup {None}]
  BY <1>0, Zenon DEF scan, selectHigherPriorityProcess, scan_done, scheduleProcess_release
<1>3. sc' \in [CPU -> Scans]
  <2>1. CASE scan(c)
    <3>1. r.i + 1 \in 1..NPROC + 1 /\ r.i \in 0..NPROC /\ f[r.i].SP \in 0..Highest
      <4>1. r.i \in Slot
        BY <2>1, Zenon DEF scan
      <4>2. f[r.i].SP \in 0..100
        BY <4>1, <1>0, Zenon DEF Fields
      <4> HIDE DEF r
      <4> QED
        BY <4>1, <4>2, <1>0, Numbers, HighestIs
    <3>2. [r EXCEPT !.i = r.i + 1] \in Scans /\ [r EXCEPT !.pc = "tie"] \in Scans
          /\ [r EXCEPT !.i = r.i + 1, !.low = f[r.i].SP, !.sel = r.i] \in Scans
      BY <1>0, <3>1, Zenon DEF Scans
    <3>3. \/ sc' = [sc EXCEPT ![c] = [r EXCEPT !.i = r.i + 1]]
          \/ sc' = [sc EXCEPT ![c] = [r EXCEPT !.pc = "tie"]]
          \/ sc' = [sc EXCEPT ![c] = [r EXCEPT !.i = r.i + 1, !.low = f[r.i].SP, !.sel = r.i]]
      BY <1>0, <2>1, Zenon DEF scan
    <3> QED
      BY <1>0, <3>2, <3>3, Zenon
  <2>2. CASE selectHigherPriorityProcess(c)
    <3>1. r.pc = "tie" /\ sc' = [sc EXCEPT ![c] = [r EXCEPT !.pc = "scan", !.i = r.i + 1, !.sel = Preferred(r.sel, r.i)]]
      BY <1>0, <2>2, Zenon DEF selectHigherPriorityProcess
    <3>2. r.i \in Slot
      BY <1>0, <1>t, <3>1, Numbers, Zenon DEF ScanInv
    <3>3. r.i + 1 \in 1..NPROC + 1 /\ r.i \in 0..NPROC
      BY <1>0, <3>2, Numbers, Zenon
    <3>4. Preferred(r.sel, r.i) \in 0..NPROC
      BY <1>t, <3>3, Zenon DEF Preferred
    <3>5. [r EXCEPT !.pc = "scan", !.i = r.i + 1, !.sel = Preferred(r.sel, r.i)] \in Scans
      BY <1>0, <3>3, <3>4, Zenon DEF Scans
    <3> QED
      BY <1>0, <3>1, <3>5, Zenon
  <2>3. CASE scan_done(c)
    <3>1. [r EXCEPT !.pc = "dispatch"] \in Scans
      BY <1>0, Zenon DEF Scans
    <3> QED
      BY <1>0, <1>s, <2>3, <3>1, Zenon DEF scan_done
  <2>4. CASE scheduleProcess_release(c)
    BY <1>0, <1>s, <2>4, Zenon DEF scheduleProcess_release
  <2> QED
    BY <2>1, <2>2, <2>3, <2>4
<1> QED
  BY <1>1, <1>2, <1>3, TypeSame, SameSizes, Zenon DEF TypeOK

(* scheduleProcess() keeps the types: the run time it computes is not      *)
(* negative because the start lies before.                                 *)
LEMMA schedule_types ==
    ASSUME TypeOK, NEW c \in CPU, ScanInv(c), lim' = lim,
           scheduleProcess(c) \/ scheduleProcess_back(c)
    PROVE  TypeOK'
<1> DEFINE r == sc[c]
           p == r.sel
<1>0. /\ r \in Scans /\ plock \in [Slot -> CPU \cup {None}] /\ sc \in [CPU -> Scans]
      /\ lim \in Systems /\ f \in [Slot -> Fields] /\ run \in [CPU -> 0..NPROC] /\ ticks \in 0..MAXTICKS
      /\ state \in [Slot -> {"UNUSED", "SLEEPING", "RUNNABLE", "RUNNING", "ZOMBIE"}]
  BY Zenon DEF TypeOK
<1>1. p \in Slot /\ p \in 0..NPROC /\ f[p] \in Fields /\ ticks \in Nat
  <2>1. r.sel \in 0..NPROC /\ r.sel # 0
    <3>1. r.pc \in {"dispatch", "back"}
      BY Zenon DEF scheduleProcess, scheduleProcess_back
    <3>2. r.sel \in 0..NPROC
      BY <1>0, Zenon DEF Scans
    <3> QED
      BY <3>1, <3>2, Zenon DEF ScanInv
  <2>2. p \in Slot
    BY <1>0, <2>1, Numbers, Zenon
  <2>3. ticks \in Nat
    BY <1>0, Sizes
  <2> QED
    BY <1>0, <2>1, <2>2, <2>3, Zenon
<1>2. Scan \in Scans /\ [Scan EXCEPT !.pc = "back", !.sel = p, !.start = ticks] \in Scans
  BY <1>0, <1>1, ScanTypes, Zenon
<1>3. Disturbed \in [CPU -> Scans]
  BY <1>0, DisturbedIs, Zenon
<1>4. CASE scheduleProcess(c)
  <2>1. UNCHANGED <<pid, ticks, clk, th, nextpid>>
    BY <1>4, Zenon DEF scheduleProcess
  <2>2. sc' \in [CPU -> Scans]
    BY <1>0, <1>2, <1>3, <1>4, Zenon DEF scheduleProcess
  <2>3. run' \in [CPU -> 0..NPROC]
    BY <1>0, <1>1, <1>4, Zenon DEF scheduleProcess
  <2>4. plock' \in [Slot -> CPU \cup {None}]
    BY <1>0, <1>1, <1>4, Zenon DEF scheduleProcess
  <2>5. state' \in [Slot -> {"UNUSED", "SLEEPING", "RUNNABLE", "RUNNING", "ZOMBIE"}]
    BY <1>0, <1>1, <1>4, Zenon DEF scheduleProcess
  <2>6. f' \in [Slot -> Fields]
    <3>1. f[p].num + 1 \in Nat /\ 0 \in Nat
      <4>1. f[p].num \in Nat
        BY <1>1, Zenon DEF Fields
      <4> QED
        BY <4>1
    <3>2. [f[p] EXCEPT !.RTime = 0, !.STime = 0, !.num = f[p].num + 1] \in Fields
      BY <1>1, <3>1, Zenon DEF Fields
    <3> QED
      BY <1>0, <3>2, <1>4, Zenon DEF scheduleProcess
  <2> QED
    BY <2>1, <2>2, <2>3, <2>4, <2>5, <2>6, TypeSame, SameSizes, Zenon DEF TypeOK
<1>5. CASE scheduleProcess_back(c)
  <2> DEFINE h == [f[p] EXCEPT !.RTime = ticks - r.start]
             g == update_dp(h)
  <2>1. UNCHANGED <<state, pid, plock, ticks, clk, run, th, nextpid>>
    BY <1>5, Zenon DEF scheduleProcess_back
  <2>2. sc' \in [CPU -> Scans]
    <3>1. sc' = [Disturbed EXCEPT ![c] = [Disturbed[c] EXCEPT !.pc = "release"]]
      BY <1>5, Zenon DEF scheduleProcess_back
    <3>2. [Disturbed[c] EXCEPT !.pc = "release"] \in Scans
      BY <1>3, Zenon DEF Scans
    <3> QED
      BY <1>3, <3>1, <3>2, Zenon
  <2>3. f' \in [Slot -> Fields]
    <3>1. ticks - r.start \in Nat
      <4>1. r.start \in Nat /\ r.start <= ticks
        BY <1>0, Zenon DEF Scans, ScanInv
      <4> HIDE DEF r
      <4> QED
        BY <4>1, <1>1
    <3>2. h \in Fields
      BY <1>1, <3>1, Zenon DEF Fields
    <3> HIDE DEF h
    <3>3. g \in Fields
      BY <3>2, UpdateDp, Zenon
    <3>4. f' = [f EXCEPT ![p] = [g EXCEPT !.SP = clampDP(g.DP)]]
      BY <1>5, Zenon DEF scheduleProcess_back, h
    <3> HIDE DEF g
    <3>5. clampDP(g.DP) \in 0..100
      <4>1. g.DP \in 0..100
        BY <3>3, Zenon DEF Fields
      <4> QED
        BY <4>1 DEF clampDP
    <3>6. [g EXCEPT !.SP = clampDP(g.DP)] \in Fields
      BY <3>3, <3>5, Zenon DEF Fields
    <3> QED
      BY <1>0, <3>4, <3>6, Zenon
  <2> QED
    BY <2>1, <2>2, <2>3, TypeSame, SameSizes, Zenon DEF TypeOK
<1> QED
  BY <1>4, <1>5

(* The thread of a process keeps the types: enter, yield, sleep, exit and  *)
(* setpriority().                                                          *)
LEMMA thread_types ==
    ASSUME TypeOK, NEW c \in CPU, lim' = lim,
           \/ enter(c)
           \/ \E s \in {"RUNNABLE", "SLEEPING", "ZOMBIE"} : stop(c, s)
           \/ \E tgt \in 1..MAXPID :
                 \/ \E q \in Slot, new \in Priorities : setpriority_find(c, q, tgt, new)
                 \/ setpriority_none(c, tgt)
           \/ setpriority_apply(c),
           PidInv
    PROVE  TypeOK'
<1> DEFINE p == run[c]
<1>0. /\ plock \in [Slot -> CPU \cup {None}] /\ sc \in [CPU -> Scans] /\ th \in [Slot -> Threads]
      /\ lim \in Systems /\ f \in [Slot -> Fields] /\ run \in [CPU -> 0..NPROC]
      /\ state \in [Slot -> {"UNUSED", "SLEEPING", "RUNNABLE", "RUNNING", "ZOMBIE"}]
      /\ p \in 0..NPROC
  BY Zenon DEF TypeOK
<1>1. p # 0
  BY Zenon DEF enter, stop, setpriority_find, setpriority_none, setpriority_apply
<1>2. p \in Slot /\ 0 \in 0..NPROC /\ 0 \in 0..MAXPID /\ 0 \in 0..100
  <2>1. 0 \in 0..NPROC /\ 0 \in 0..MAXPID /\ 0 \in 0..100
    BY <1>0, Sizes
  <2> QED
    BY <1>0, <1>1, <2>1, Numbers, Zenon
<1>3. th[p] \in Threads
  BY <1>0, <1>2, Zenon
<1>4. CASE enter(c)
  BY <1>0, <1>4, TypeSame, SameSizes, Zenon DEF TypeOK, enter
<1>5. ASSUME NEW s \in {"RUNNABLE", "SLEEPING", "ZOMBIE"}, stop(c, s) PROVE TypeOK'
  <2>1. UNCHANGED <<pid, f, ticks, clk, nextpid>>
    BY <1>5, Zenon DEF stop
  <2>2. state' \in [Slot -> {"UNUSED", "SLEEPING", "RUNNABLE", "RUNNING", "ZOMBIE"}]
    BY <1>0, <1>2, <1>5, Zenon DEF stop
  <2>3. plock' \in [Slot -> CPU \cup {None}] /\ run' \in [CPU -> 0..NPROC]
    BY <1>0, <1>2, <1>5, Zenon DEF stop
  <2>4. sc' \in [CPU -> Scans]
    BY <1>0, <1>5, DisturbedIs, Zenon DEF stop
  <2>5. th' \in [Slot -> Threads]
    <3> DEFINE x == IF th[p].pc = "resched" THEN "user" ELSE th[p].pc
    <3>1. x \in {"user", "set", "resched"}
      BY <1>3, Zenon DEF Threads
    <3>2. th' = [th EXCEPT ![p] = [th[p] EXCEPT !.pc = x]]
      BY <1>5, Zenon DEF stop
    <3> HIDE DEF x
    <3>3. [th[p] EXCEPT !.pc = x] \in Threads
      BY <1>3, <3>1, Zenon DEF Threads
    <3> QED
      BY <1>0, <3>2, <3>3, Zenon
  <2> QED
    BY <2>1, <2>2, <2>3, <2>4, <2>5, TypeSame, SameSizes, Zenon DEF TypeOK
<1>6. ASSUME NEW tgt \in 1..MAXPID, NEW q \in Slot, NEW new \in Priorities, setpriority_find(c, q, tgt, new)
      PROVE  TypeOK'
  <2>1. tgt \in 0..MAXPID /\ q \in 0..NPROC /\ new \in 0..100
    <3>1. tgt \in 0..MAXPID
      BY <1>0, Sizes
    <3> QED
      BY <1>0, <3>1, Sizes, Numbers, Zenon
  <2>2. [pc |-> "set", slot |-> q, tgt |-> tgt, new |-> new] \in Threads
    BY <2>1, Zenon DEF Threads
  <2>3. th' \in [Slot -> Threads]
    BY <1>0, <1>6, <2>2, Zenon DEF setpriority_find
  <2> QED
    BY <1>6, <2>3, TypeSame, SameSizes, Zenon DEF TypeOK, setpriority_find
<1>7. ASSUME NEW tgt \in 1..MAXPID, setpriority_none(c, tgt) PROVE TypeOK'
  <2>1. [th[p] EXCEPT !.pc = "resched"] \in Threads
    BY <1>3, Zenon DEF Threads
  <2>2. th' \in [Slot -> Threads]
    BY <1>0, <1>7, <2>1, Zenon DEF setpriority_none
  <2> QED
    BY <1>7, <2>2, TypeSame, SameSizes, Zenon DEF TypeOK, setpriority_none
<1>8. CASE setpriority_apply(c)
  <2> DEFINE q == th[p].slot
             new == th[p].new
             x == IF new < f[q].SP THEN "resched" ELSE "user"
  <2>1. UNCHANGED <<state, pid, plock, ticks, clk, run, nextpid>>
    BY <1>8, Zenon DEF setpriority_apply
  <2>2. sc' \in [CPU -> Scans]
    BY <1>0, <1>8, DisturbedIs, Zenon DEF setpriority_apply
  <2>3. th' \in [Slot -> Threads]
    <3>1. th' = [th EXCEPT ![p] = [th[p] EXCEPT !.pc = x, !.slot = 0, !.tgt = 0, !.new = 0]]
      BY <1>8, Zenon DEF setpriority_apply
    <3>2. x \in {"user", "set", "resched"}
      BY Zenon
    <3> HIDE DEF x
    <3>3. [th[p] EXCEPT !.pc = x, !.slot = 0, !.tgt = 0, !.new = 0] \in Threads
      BY <1>2, <1>3, <3>2, Zenon DEF Threads
    <3> QED
      BY <1>0, <3>1, <3>3, Zenon
  <2>4. f' \in [Slot -> Fields]
    <3>1. f' = [f EXCEPT ![q] = update_dp([f[q] EXCEPT !.SP = new, !.RBI = 25])]
      BY <1>8, Zenon DEF setpriority_apply
    <3>2. q \in Slot /\ new \in 0..100
      <4>1. th[p].pc = "set"
        BY <1>8, Zenon DEF setpriority_apply
      <4>2. q # 0 /\ q \in 0..NPROC /\ new \in 0..100
        BY <1>2, <1>3, <4>1, Zenon DEF PidInv, Threads
      <4> QED
        BY <1>0, <4>2, Numbers, Zenon
    <3> HIDE DEF q, new
    <3>3. f[q] \in Fields
      BY <1>0, <3>2, Zenon
    <3>4. [f[q] EXCEPT !.SP = new, !.RBI = 25] \in Fields
      BY <3>2, <3>3 DEF Fields
    <3> QED
      BY <1>0, <3>1, <3>4, UpdateDp, Zenon
  <2> QED
    BY <2>1, <2>2, <2>3, <2>4, TypeSame, SameSizes, Zenon DEF TypeOK
<1> QED
  BY <1>4, <1>5, <1>6, <1>7, <1>8, Zenon

(* fork(), wait() and wakeup() keep the types.                             *)
LEMMA table_types ==
    ASSUME TypeOK, NEW p \in Slot, lim' = lim,
           wakeup(p) \/ \E c \in CPU : allocproc(c, p) \/ freeproc(c, p)
    PROVE  TypeOK'
<1>0. /\ sc \in [CPU -> Scans] /\ lim \in Systems /\ f \in [Slot -> Fields] /\ pid \in [Slot -> 0..MAXPID]
      /\ state \in [Slot -> {"UNUSED", "SLEEPING", "RUNNABLE", "RUNNING", "ZOMBIE"}]
      /\ nextpid \in 2..MAXPID + 1 /\ ticks \in 0..MAXTICKS /\ f[p] \in Fields
  BY Zenon DEF TypeOK
<1>1. MAXPID \in Nat \ {0} /\ ticks \in Nat /\ 0 \in 0..MAXPID
  BY <1>0, Sizes
<1>2. Fresh(f[p]) \in Fields
  <2>1. 50 \in 0..100 /\ 0 \in Nat
    OBVIOUS
  <2> DEFINE a == [f[p] EXCEPT !.SP = 50]
             b == [a EXCEPT !.num = 0]
             g == [b EXCEPT !.ctime = ticks]
             d == [g EXCEPT !.RTime = 0]
             e == [d EXCEPT !.WTime = 0]
  <2>2. a \in Fields
    BY <1>0, <2>1, FieldTypes, Zenon
  <2> HIDE DEF a
  <2>3. b \in Fields
    BY <2>1, <2>2, FieldTypes, Zenon
  <2> HIDE DEF b
  <2>4. g \in Fields
    BY <1>1, <2>3, FieldTypes, Zenon
  <2> HIDE DEF g
  <2>5. d \in Fields
    BY <2>1, <2>4, FieldTypes, Zenon
  <2> HIDE DEF d
  <2>6. e \in Fields
    BY <2>1, <2>5, FieldTypes, Zenon
  <2> HIDE DEF e
  <2>7. [e EXCEPT !.STime = 0] \in Fields
    BY <2>1, <2>6, FieldTypes, Zenon
  <2>8. Fresh(f[p]) = [e EXCEPT !.STime = 0]
    BY Zenon DEF Fresh, a, b, g, d, e
  <2> QED
    BY <2>7, <2>8, Zenon
<1>3. [Fresh(f[p]) EXCEPT !.ctime = f[p].ctime] \in Fields
  <2>1. f[p].ctime \in Nat
    BY <1>0, Zenon DEF Fields
  <2> QED
    BY <1>2, <2>1, Zenon DEF Fields
<1>4. Disturbed \in [CPU -> Scans]
  BY <1>0, DisturbedIs, Zenon
<1>5. CASE wakeup(p)
  <2>1. state' \in [Slot -> {"UNUSED", "SLEEPING", "RUNNABLE", "RUNNING", "ZOMBIE"}]
    BY <1>0, <1>5, Zenon DEF wakeup
  <2> QED
    BY <1>4, <1>5, <2>1, TypeSame, SameSizes, Zenon DEF TypeOK, wakeup
<1>6. ASSUME NEW c \in CPU, allocproc(c, p) PROVE TypeOK'
  <2>1. state' \in [Slot -> {"UNUSED", "SLEEPING", "RUNNABLE", "RUNNING", "ZOMBIE"}]
    BY <1>0, <1>6, Zenon DEF allocproc
  <2>2. nextpid <= MAXPID /\ nextpid' = nextpid + 1
    BY <1>6, Zenon DEF allocproc
  <2>3. nextpid' \in 2..MAXPID + 1 /\ nextpid \in 0..MAXPID
    BY <1>0, <1>1, <2>2
  <2>4. pid' \in [Slot -> 0..MAXPID]
    BY <1>0, <1>6, <2>3, Zenon DEF allocproc
  <2>5. f' \in [Slot -> Fields] /\ sc' \in [CPU -> Scans]
    BY <1>0, <1>2, <1>4, <1>6, Zenon DEF allocproc
  <2> QED
    BY <1>6, <2>1, <2>3, <2>4, <2>5, TypeSame, SameSizes, Zenon DEF TypeOK, allocproc
<1>7. ASSUME NEW c \in CPU, freeproc(c, p) PROVE TypeOK'
  <2>1. state' \in [Slot -> {"UNUSED", "SLEEPING", "RUNNABLE", "RUNNING", "ZOMBIE"}]
    BY <1>0, <1>7, Zenon DEF freeproc
  <2>2. pid' \in [Slot -> 0..MAXPID]
    BY <1>0, <1>1, <1>7, Zenon DEF freeproc
  <2>3. f' \in [Slot -> Fields]
    BY <1>0, <1>3, <1>7, Zenon DEF freeproc
  <2> QED
    BY <1>7, <2>1, <2>2, <2>3, TypeSame, SameSizes, Zenon DEF TypeOK, freeproc
<1> QED
  BY <1>5, <1>6, <1>7, Zenon

(* What update_time() does to the fields of one process: the scheduler     *)
(* orders by none of the three.                                            *)
LEMMA UpdateTime ==
    ASSUME TypeOK, update_time
    PROVE  /\ f' \in [Slot -> Fields]
           /\ \A q \in Slot : f'[q].SP = f[q].SP /\ f'[q].num = f[q].num /\ f'[q].ctime = f[q].ctime
<1>0. f \in [Slot -> Fields] /\ lim \in Systems /\ clk \in 0..NPROC
  BY Zenon DEF TypeOK
<1>1. clk \in Slot
  BY <1>0, Numbers, Zenon DEF update_time
<1>2. PICK R, W, S : /\ R \in Nat /\ W \in Nat /\ S \in Nat
                     /\ f' = [f EXCEPT ![clk] = [f[clk] EXCEPT !.RTime = R, !.WTime = W, !.STime = S]]
  <2> DEFINE R == IF state[clk] = "RUNNING" THEN f[clk].RTime + 1 ELSE f[clk].RTime
             W == IF state[clk] = "RUNNABLE" THEN f[clk].WTime + 1 ELSE f[clk].WTime
             S == IF state[clk] = "SLEEPING" THEN f[clk].STime + 1 ELSE f[clk].STime
  <2>1. f[clk].RTime \in Nat /\ f[clk].WTime \in Nat /\ f[clk].STime \in Nat
    BY <1>0, <1>1, Zenon DEF Fields
  <2>2. R \in Nat /\ W \in Nat /\ S \in Nat
    BY <2>1
  <2>3. f' = [f EXCEPT ![clk] = [f[clk] EXCEPT !.RTime = R, !.WTime = W, !.STime = S]]
    <3>1. f' = [f EXCEPT ![clk].RTime = IF state[clk] = "RUNNING" THEN @ + 1 ELSE @,
                         ![clk].WTime = IF state[clk] = "RUNNABLE" THEN @ + 1 ELSE @,
                         ![clk].STime = IF state[clk] = "SLEEPING" THEN @ + 1 ELSE @]
      BY Zenon DEF update_time
    <3> QED
      BY <1>0, <1>1, <3>1 DEF Fields
  <2> HIDE DEF R, W, S
  <2> QED
    BY <2>2, <2>3, Zenon
<1> DEFINE g == [f[clk] EXCEPT !.RTime = R, !.WTime = W, !.STime = S]
<1>3. g \in Fields /\ g.SP = f[clk].SP /\ g.num = f[clk].num /\ g.ctime = f[clk].ctime
  <2>1. f[clk] \in Fields
    BY <1>0, <1>1, Zenon
  <2> DEFINE a == [f[clk] EXCEPT !.RTime = R]
             b == [a EXCEPT !.WTime = W]
  <2>2. a \in Fields /\ a.SP = f[clk].SP /\ a.num = f[clk].num /\ a.ctime = f[clk].ctime
    <3>1. a \in Fields
      BY <1>2, <2>1, FieldTypes, Zenon
    <3> QED
      BY <3>1, <2>1, FieldsKept, Zenon
  <2> HIDE DEF a
  <2>3. b \in Fields /\ b.SP = a.SP /\ b.num = a.num /\ b.ctime = a.ctime
    <3>1. b \in Fields
      BY <1>2, <2>2, FieldTypes, Zenon
    <3> QED
      BY <3>1, <2>2, FieldsKept, Zenon
  <2> HIDE DEF b
  <2> DEFINE e == [b EXCEPT !.STime = S]
  <2>4. e \in Fields /\ e.SP = b.SP /\ e.num = b.num /\ e.ctime = b.ctime
    <3>1. e \in Fields
      BY <1>2, <2>3, FieldTypes, Zenon
    <3> QED
      BY <3>1, <2>3, FieldsKept, Zenon
  <2>5. g = e
    BY Zenon DEF a, b
  <2> HIDE DEF e, g
  <2> QED
    BY <2>2, <2>3, <2>4, <2>5, Zenon
<1> HIDE DEF g
<1>4. f' = [f EXCEPT ![clk] = g]
  BY <1>2, Zenon DEF g
<1> QED
  BY <1>0, <1>1, <1>3, <1>4, Zenon

(* The clock interrupt keeps the types.                                    *)
LEMMA clock_types ==
    ASSUME TypeOK, lim' = lim, clockintr \/ update_time
    PROVE  TypeOK'
<1>0. lim \in Systems /\ ticks \in 0..MAXTICKS /\ clk \in 0..NPROC
  BY Zenon DEF TypeOK
<1>s. NPROC \in Nat \ {0} /\ MAXTICKS \in Nat
  BY <1>0, Sizes, Zenon
<1>1. CASE clockintr
  <2>1. ticks < MAXTICKS /\ ticks' = ticks + 1 /\ clk' = 1
    BY <1>1, Zenon DEF clockintr
  <2>2. ticks' \in 0..MAXTICKS /\ clk' \in 0..NPROC
    BY <1>0, <1>s, <2>1
  <2> QED
    BY <1>1, <2>2, TypeSame, SameSizes, Zenon DEF TypeOK, clockintr
<1>2. CASE update_time
  <2>1. clk' = IF clk = NPROC THEN 0 ELSE clk + 1
    BY <1>2, Zenon DEF update_time
  <2>2. clk' \in 0..NPROC
    BY <1>0, <1>s, <2>1
  <2> QED
    BY <1>2, <2>2, UpdateTime, TypeSame, SameSizes, Zenon DEF TypeOK, update_time
<1> QED
  BY <1>1, <1>2

-----------------------------------------------------------------------------
(* A process runs on one CPU at most, and its state says so.               *)

(* No step but the dispatch and the return to the scheduler changes who    *)
(* runs, and the others leave RUNNING processes alone.                     *)
LEMMA RunsFrame ==
    ASSUME TypeOK, RunsOnce, lim' = lim, run' = run,
           \A p \in Slot : state[p] = "RUNNING" => state'[p] = "RUNNING"
    PROVE  RunsOnce'
<1>1. \A c \in CPU : run[c] # 0 => run[c] \in Slot
  BY Numbers, Zenon DEF TypeOK
<1> QED
  BY <1>1, SameSizes, Zenon DEF RunsOnce

(* Every step keeps RunsOnce: scheduleProcess() makes a RUNNABLE process   *)
(* RUNNING, which therefore runs nowhere else.                             *)
LEMMA RunsStep ==
    ASSUME TypeOK, RunsOnce, \A c \in CPU : ScanInv(c), Next
    PROVE  RunsOnce'
<1>0. /\ lim' = lim /\ lim \in Systems /\ run \in [CPU -> 0..NPROC] /\ sc \in [CPU -> Scans]
      /\ state \in [Slot -> {"UNUSED", "SLEEPING", "RUNNABLE", "RUNNING", "ZOMBIE"}]
  BY Zenon DEF TypeOK, Next
<1>z. \A c \in CPU : run[c] # 0 => run[c] \in Slot
  BY <1>0, Numbers, Zenon
<1>n. 0 \notin Slot
  BY <1>0, Numbers, Zenon
<1>1. ASSUME NEW c \in CPU, scheduleProcess(c) PROVE RunsOnce'
  <2> DEFINE p == sc[c].sel
  <2>1. CASE run' = run /\ state' = state
    BY <1>0, <2>1, RunsFrame, Zenon
  <2>2. CASE /\ state[p] = "RUNNABLE" /\ state' = [state EXCEPT ![p] = "RUNNING"]
             /\ run' = [run EXCEPT ![c] = p]
    <3>1. p \in Slot
      <4>1. p \in 0..NPROC /\ p # 0
        BY <1>0, <1>1, Zenon DEF ScanInv, Scans, scheduleProcess
      <4> QED
        BY <1>0, <4>1, Numbers, Zenon
    <3> HIDE DEF p
    <3>2. \A d \in CPU : run[d] # p
      BY <2>2, <1>n, <3>1, Zenon DEF RunsOnce
    <3>3. state'[p] = "RUNNING" /\ run'[c] = p /\ \A d \in CPU \ {c} : run'[d] = run[d]
      BY <1>0, <2>2, <3>1, Zenon
    <3>4. \A q \in Slot \ {p} : state'[q] = state[q]
      BY <1>0, <2>2, <3>1, Zenon
    <3>5. ASSUME NEW d \in CPU, run'[d] # 0
          PROVE  state'[run'[d]] = "RUNNING" /\ \A e \in CPU \ {d} : run'[e] # run'[d]
      <4>1. CASE d = c
        BY <3>2, <3>3, <4>1, Zenon
      <4>2. CASE d # c
        <5>1. run'[d] = run[d] /\ run[d] # p /\ run[d] # 0 /\ run[d] \in Slot
          BY <1>z, <3>2, <3>3, <3>5, <4>2, Zenon
        <5>2. state'[run[d]] = "RUNNING"
          BY <5>1, <3>4, Zenon DEF RunsOnce
        <5>3. \A e \in CPU \ {d} : run'[e] # run[d]
          BY <5>1, <3>3, Zenon DEF RunsOnce
        <5> QED
          BY <5>1, <5>2, <5>3, Zenon
      <4> QED
        BY <4>1, <4>2
    <3> QED
      BY <1>0, <3>5, SameSizes, Zenon DEF RunsOnce
  <2> QED
    BY <1>1, <2>1, <2>2, Zenon DEF scheduleProcess, Dispatchable
<1>2. ASSUME NEW c \in CPU, NEW s, stop(c, s) PROVE RunsOnce'
  <2> DEFINE p == run[c]
  <2>1. p # 0 /\ state' = [state EXCEPT ![p] = s] /\ run' = [run EXCEPT ![c] = 0] /\ p \in Slot
    BY <1>2, <1>z, Zenon DEF stop
  <2> HIDE DEF p
  <2>2. run'[c] = 0 /\ \A d \in CPU \ {c} : run'[d] = run[d]
    BY <1>0, <2>1, Zenon
  <2>3. \A q \in Slot \ {p} : state'[q] = state[q]
    BY <1>0, <2>1, Zenon
  <2>4. \A d \in CPU \ {c} : run[d] # p
    BY <2>1, Zenon DEF RunsOnce, p
  <2>5. ASSUME NEW d \in CPU, run'[d] # 0
        PROVE  state'[run'[d]] = "RUNNING" /\ \A e \in CPU \ {d} : run'[e] # run'[d]
    <3>1. d # c /\ run'[d] = run[d] /\ run[d] # p /\ run[d] \in Slot /\ run[d] # 0
      BY <1>z, <2>2, <2>4, <2>5, Zenon
    <3>2. state'[run[d]] = "RUNNING"
      BY <2>3, <3>1, Zenon DEF RunsOnce
    <3>3. \A e \in CPU \ {d} : run'[e] # run[d]
      BY <2>2, <3>1, Zenon DEF RunsOnce
    <3> QED
      BY <3>1, <3>2, <3>3, Zenon
  <2> QED
    BY <1>0, <2>5, SameSizes, Zenon DEF RunsOnce
<1>3. ASSUME NEW p \in Slot, wakeup(p) PROVE RunsOnce'
  <2>1. run' = run /\ \A q \in Slot : state[q] = "RUNNING" => state'[q] = "RUNNING"
    BY <1>0, <1>3, Zenon DEF wakeup
  <2> QED
    BY <1>0, <2>1, RunsFrame, Zenon
<1>4. ASSUME NEW c \in CPU, NEW p \in Slot, allocproc(c, p) \/ freeproc(c, p) PROVE RunsOnce'
  <2>1. run' = run /\ \A q \in Slot : state[q] = "RUNNING" => state'[q] = "RUNNING"
    BY <1>0, <1>4, Zenon DEF allocproc, freeproc
  <2> QED
    BY <1>0, <2>1, RunsFrame, Zenon
<1>5. CASE run' = run /\ state' = state
  BY <1>0, <1>5, RunsFrame, Zenon
<1>6. ASSUME NEW c \in CPU,
             \/ scan(c) \/ selectHigherPriorityProcess(c) \/ scan_done(c) \/ scheduleProcess_back(c)
             \/ scheduleProcess_release(c) \/ enter(c) \/ setpriority_apply(c)
      PROVE  run' = run /\ state' = state
  BY <1>6, Zenon DEF scan, selectHigherPriorityProcess, scan_done, scheduleProcess_back,
     scheduleProcess_release, enter, setpriority_apply
<1>7. ASSUME NEW c \in CPU, NEW tgt,
             setpriority_none(c, tgt) \/ \E q \in Slot, new \in Priorities : setpriority_find(c, q, tgt, new)
      PROVE  run' = run /\ state' = state
  BY <1>7, Zenon DEF setpriority_find, setpriority_none
<1>8. ASSUME clockintr \/ update_time PROVE run' = run /\ state' = state
  BY <1>8, Zenon DEF clockintr, update_time
<1> QED
  BY <1>1, <1>2, <1>3, <1>4, <1>5, <1>6, <1>7, <1>8, Zenon DEF Next, Step

-----------------------------------------------------------------------------
(* Pids, and what setpriority() remembers.                                 *)

(* A pid is handed out once, so the slot setpriority() found keeps the pid *)
(* it looked for as long as a process has it.                              *)
LEMMA PidStep ==
    ASSUME TypeOK, PidInv, SetsLiveTarget, Next
    PROVE  PidInv' /\ SetsLiveTarget'
<1>0. /\ lim' = lim /\ lim \in Systems /\ pid \in [Slot -> 0..MAXPID] /\ th \in [Slot -> Threads]
      /\ nextpid \in 2..MAXPID + 1 /\ run \in [CPU -> 0..NPROC]
  BY Zenon DEF TypeOK, Next
<1>n. 0 \notin Slot /\ Slot' = Slot
  BY <1>0, Numbers, SameSizes, Zenon
<1>z. \A c \in CPU : run[c] # 0 => run[c] \in Slot
  BY <1>0, Numbers, Zenon
<1>m. MAXPID \in Nat /\ nextpid \in Nat /\ nextpid > 0 /\ \A q \in Slot : pid[q] \in Nat
  <2>1. MAXPID \in Nat
    BY <1>0, Sizes, Zenon
  <2> QED
    BY <1>0, <2>1
<1>1. ASSUME UNCHANGED <<pid, nextpid>>,
             \A p \in Slot : th'[p].pc = "set" =>
                \/ th[p].pc = "set" /\ th'[p].slot = th[p].slot /\ th'[p].tgt = th[p].tgt
                \/ th'[p].slot \in Slot /\ th'[p].tgt \in 1..MAXPID /\ pid[th'[p].slot] = th'[p].tgt
      PROVE  PidInv' /\ SetsLiveTarget'
  <2>1. (\A p \in Slot : pid[p] < nextpid)' /\ (\A p, q \in Slot : pid[p] = pid[q] /\ pid[p] # 0 => p = q)'
    BY <1>n, <1>1, Zenon DEF PidInv
  <2>2. ASSUME NEW p \in Slot, th'[p].pc = "set"
        PROVE  /\ th'[p].slot # 0 /\ th'[p].tgt # 0 /\ th'[p].tgt < nextpid
               /\ \/ pid[th'[p].slot] = th'[p].tgt
                  \/ \A q \in Slot : pid[q] # th'[p].tgt
    <3>1. CASE th[p].pc = "set" /\ th'[p].slot = th[p].slot /\ th'[p].tgt = th[p].tgt
      BY <3>1, Zenon DEF PidInv, SetsLiveTarget
    <3>2. CASE th'[p].slot \in Slot /\ th'[p].tgt \in 1..MAXPID /\ pid[th'[p].slot] = th'[p].tgt
      <4>1. th'[p].slot # 0 /\ th'[p].tgt < nextpid
        BY <1>n, <3>2, Zenon DEF PidInv
      <4>2. th'[p].tgt # 0
        BY <3>2, <1>m
      <4> QED
        BY <3>2, <4>1, <4>2, Zenon
    <3> QED
      BY <1>1, <2>2, <3>1, <3>2, Zenon
  <2>3. PidInv'
    BY <1>n, <1>1, <2>1, <2>2, Zenon DEF PidInv
  <2>4. SetsLiveTarget'
    BY <1>n, <1>1, <2>2, Zenon DEF SetsLiveTarget
  <2> QED
    BY <2>3, <2>4
<1>2. CASE UNCHANGED <<pid, nextpid, th>>
  BY <1>1, <1>2, Zenon
<1>3. ASSUME NEW c \in CPU, NEW s, stop(c, s) PROVE PidInv' /\ SetsLiveTarget'
  <2> DEFINE x == IF th[run[c]].pc = "resched" THEN "user" ELSE th[run[c]].pc
  <2>1. UNCHANGED <<pid, nextpid>> /\ run[c] \in Slot /\ th' = [th EXCEPT ![run[c]].pc = x]
    BY <1>3, <1>z, Zenon DEF stop
  <2>2. x = "set" => th[run[c]].pc = "set"
    BY Zenon
  <2> HIDE DEF x
  <2>3. \A p \in Slot : th'[p].pc = "set" =>
           th[p].pc = "set" /\ th'[p].slot = th[p].slot /\ th'[p].tgt = th[p].tgt
    BY <1>0, <2>1, <2>2, Zenon DEF Threads
  <2> QED
    BY <1>1, <2>1, <2>3, Zenon
<1>4. ASSUME NEW c \in CPU, NEW tgt \in 1..MAXPID, NEW q \in Slot, NEW new, setpriority_find(c, q, tgt, new)
      PROVE  PidInv' /\ SetsLiveTarget'
  <2> DEFINE x == [pc |-> "set", slot |-> q, tgt |-> tgt, new |-> new]
  <2>1. UNCHANGED <<pid, nextpid>> /\ run[c] \in Slot /\ th' = [th EXCEPT ![run[c]] = x] /\ pid[q] = tgt
    BY <1>4, <1>z, Zenon DEF setpriority_find
  <2>2. x.slot = q /\ x.tgt = tgt
    OBVIOUS
  <2> HIDE DEF x
  <2>3. \A p \in Slot : th'[p].pc = "set" =>
           \/ th[p].pc = "set" /\ th'[p].slot = th[p].slot /\ th'[p].tgt = th[p].tgt
           \/ th'[p].slot \in Slot /\ th'[p].tgt \in 1..MAXPID /\ pid[th'[p].slot] = th'[p].tgt
    BY <1>0, <2>1, <2>2, Zenon
  <2> QED
    BY <1>1, <2>1, <2>3, Zenon
<1>5. ASSUME NEW c \in CPU, NEW tgt, setpriority_none(c, tgt) PROVE PidInv' /\ SetsLiveTarget'
  <2>1. UNCHANGED <<pid, nextpid>> /\ run[c] \in Slot /\ th' = [th EXCEPT ![run[c]].pc = "resched"]
    BY <1>5, <1>z, Zenon DEF setpriority_none
  <2>2. \A p \in Slot : th'[p].pc = "set" =>
           th[p].pc = "set" /\ th'[p].slot = th[p].slot /\ th'[p].tgt = th[p].tgt
    BY <1>0, <2>1, Zenon DEF Threads
  <2> QED
    BY <1>1, <2>1, <2>2, Zenon
<1>6. ASSUME NEW c \in CPU, setpriority_apply(c) PROVE PidInv' /\ SetsLiveTarget'
  <2> DEFINE p == run[c]
             x == IF th[p].new < f[th[p].slot].SP THEN "resched" ELSE "user"
             y == [th[p] EXCEPT !.pc = x, !.slot = 0, !.tgt = 0, !.new = 0]
  <2>1. UNCHANGED <<pid, nextpid>> /\ p \in Slot /\ th' = [th EXCEPT ![p] = y]
    BY <1>6, <1>z, Zenon DEF setpriority_apply
  <2>2. y.pc = x /\ x # "set"
    BY <1>0, <2>1, Zenon DEF Threads
  <2> HIDE DEF x, y
  <2>3. \A q \in Slot : th'[q].pc = "set" => th'[q] = th[q]
    BY <1>0, <2>1, <2>2, Zenon
  <2> QED
    BY <1>1, <2>1, <2>3, Zenon
<1>7. ASSUME NEW c \in CPU, NEW p \in Slot, allocproc(c, p) PROVE PidInv' /\ SetsLiveTarget'
  <2>1. pid' = [pid EXCEPT ![p] = nextpid] /\ nextpid' = nextpid + 1 /\ th' = th
    BY <1>7, Zenon DEF allocproc
  <2>2. pid'[p] = nextpid /\ \A q \in Slot \ {p} : pid'[q] = pid[q]
    BY <1>0, <2>1, Zenon
  <2>3. \A q \in Slot : pid[q] < nextpid
    BY Zenon DEF PidInv
  <2>4. \A q \in Slot \ {p} : pid'[q] # nextpid
    BY <1>m, <2>2, <2>3
  <2>5. (\A q \in Slot : pid[q] < nextpid)'
    BY <1>m, <1>n, <2>1, <2>2, <2>3
  <2>6. (\A r, q \in Slot : pid[r] = pid[q] /\ pid[r] # 0 => r = q)'
    <3>1. ASSUME NEW r \in Slot, NEW q \in Slot, pid'[r] = pid'[q], pid'[r] # 0 PROVE r = q
      <4>1. CASE r = p \/ q = p
        BY <2>2, <2>4, <3>1, <4>1, Zenon
      <4>2. CASE r # p /\ q # p
        BY <2>2, <3>1, <4>2, Zenon DEF PidInv
      <4> QED
        BY <4>1, <4>2
    <3> QED
      BY <1>n, <3>1, Zenon
  <2>7. \A t : t < nextpid /\ t \in Nat => t < nextpid + 1 /\ t # nextpid
    BY <1>m
  <2>8. \A q \in Slot : th[q].tgt \in Nat
    <3>1. \A q \in Slot : th[q].tgt \in 0..MAXPID
      BY <1>0, Zenon DEF Threads
    <3> QED
      BY <3>1, <1>m
  <2>9. ASSUME NEW q \in Slot, th[q].pc = "set"
        PROVE  /\ th[q].slot # 0 /\ th[q].tgt # 0 /\ th[q].tgt < nextpid'
               /\ \/ pid'[th[q].slot] = th[q].tgt
                  \/ \A r \in Slot : pid'[r] # th[q].tgt
    <3>1. th[q].slot # 0 /\ th[q].tgt # 0 /\ th[q].tgt < nextpid' /\ th[q].tgt # nextpid
      BY <2>1, <2>7, <2>8, <2>9, Zenon DEF PidInv
    <3>2. CASE \A r \in Slot : pid[r] # th[q].tgt
      BY <2>2, <3>1, <3>2, Zenon
    <3>3. CASE pid[th[q].slot] = th[q].tgt
      <4>1. CASE th[q].slot = p
        <5>1. \A r \in Slot \ {p} : pid[r] # th[q].tgt
          BY <3>1, <3>3, <4>1, Zenon DEF PidInv
        <5> QED
          BY <2>2, <3>1, <5>1, Zenon
      <4>2. CASE th[q].slot # p
        <5>1. th[q].slot \in Slot
          <6>1. th[q].slot \in 0..NPROC
            BY <1>0, Zenon DEF Threads
          <6> QED
            BY <1>0, <3>1, <6>1, Numbers, Zenon
        <5> QED
          BY <2>2, <3>1, <3>3, <4>2, <5>1, Zenon
      <4> QED
        BY <4>1, <4>2
    <3> QED
      BY <2>9, <3>2, <3>3, Zenon DEF SetsLiveTarget
  <2>10. PidInv'
    BY <1>n, <2>1, <2>5, <2>6, <2>9, Zenon DEF PidInv
  <2>11. SetsLiveTarget'
    BY <1>n, <2>1, <2>9, ZenonT(30) DEF SetsLiveTarget
  <2> QED
    BY <2>10, <2>11
<1>8. ASSUME NEW c \in CPU, NEW p \in Slot, freeproc(c, p) PROVE PidInv' /\ SetsLiveTarget'
  <2>1. pid' = [pid EXCEPT ![p] = 0] /\ nextpid' = nextpid /\ th' = th
    BY <1>8, Zenon DEF freeproc
  <2>2. pid'[p] = 0 /\ \A q \in Slot \ {p} : pid'[q] = pid[q]
    BY <1>0, <2>1, Zenon
  <2>3. 0 < nextpid
    BY <1>m
  <2>4. PidInv'
    <3>1. ASSUME NEW r \in Slot, NEW q \in Slot, pid'[r] = pid'[q], pid'[r] # 0 PROVE r = q
      <4>1. r # p /\ q # p
        BY <2>2, <3>1, Zenon
      <4> QED
        BY <2>2, <3>1, <4>1, Zenon DEF PidInv
    <3>2. \A q \in Slot : pid'[q] < nextpid
      BY <2>2, <2>3, Zenon DEF PidInv
    <3> QED
      BY <1>n, <2>1, <3>1, <3>2, Zenon DEF PidInv
  <2>5. ASSUME NEW q \in Slot, th[q].pc = "set"
        PROVE  \/ pid'[th[q].slot] = th[q].tgt
               \/ \A r \in Slot : pid'[r] # th[q].tgt
    <3>1. th[q].slot # 0 /\ th[q].tgt # 0
      BY <2>5, Zenon DEF PidInv
    <3>2. CASE \A r \in Slot : pid[r] # th[q].tgt
      BY <2>2, <3>1, <3>2, Zenon
    <3>3. CASE pid[th[q].slot] = th[q].tgt
      <4>1. CASE th[q].slot = p
        <5>1. \A r \in Slot \ {p} : pid[r] # th[q].tgt
          BY <3>1, <3>3, <4>1, Zenon DEF PidInv
        <5> QED
          BY <2>2, <3>1, <5>1, Zenon
      <4>2. CASE th[q].slot # p
        <5>1. th[q].slot \in Slot
          <6>1. th[q].slot \in 0..NPROC
            BY <1>0, Zenon DEF Threads
          <6> QED
            BY <1>0, <3>1, <6>1, Numbers, Zenon
        <5> QED
          BY <2>2, <3>3, <4>2, <5>1, Zenon
      <4> QED
        BY <4>1, <4>2
    <3> QED
      BY <2>5, <3>2, <3>3, Zenon DEF SetsLiveTarget
  <2>6. SetsLiveTarget'
    BY <1>n, <2>1, <2>5, ZenonT(30) DEF SetsLiveTarget
  <2> QED
    BY <2>4, <2>6
<1>9. \/ UNCHANGED <<pid, nextpid, th>>
      \/ \E c \in CPU : \/ \E s : stop(c, s)
                        \/ \E tgt \in 1..MAXPID :
                              \/ \E q \in Slot, new \in Priorities : setpriority_find(c, q, tgt, new)
                              \/ setpriority_none(c, tgt)
                        \/ setpriority_apply(c)
                        \/ \E p \in Slot : allocproc(c, p) \/ freeproc(c, p)
  BY Zenon DEF Next, Step, scan, selectHigherPriorityProcess, scan_done, scheduleProcess, scheduleProcess_back,
     scheduleProcess_release, enter, wakeup, clockintr, update_time
<1> QED
  BY <1>2, <1>3, <1>4, <1>5, <1>6, <1>7, <1>8, <1>9, Zenon

-----------------------------------------------------------------------------
(* What the steps of the scheduler do to its local variables.              *)

(* The scan of scheduler(): a slot is passed over, selected, or ties.      *)
LEMMA scan_effect ==
    ASSUME TypeOK, NEW c \in CPU, scan(c), NEW r, r = sc[c], NEW n, n = sc'[c]
    PROVE  /\ r.i \in Slot /\ r.pc = "scan" /\ run[c] = 0 /\ plock[r.i] = None
           /\ \A d \in CPU \ {c} : sc'[d] = sc[d]
           /\ n.start = r.start /\ n.clean = r.clean
           /\ \/ /\ state[r.i] # "RUNNABLE" \/ f[r.i].SP > r.low
                 /\ n.pc = "scan" /\ n.i = r.i + 1 /\ n.low = r.low /\ n.sel = r.sel
                 /\ plock' = plock
              \/ /\ state[r.i] = "RUNNABLE" /\ f[r.i].SP < r.low
                 /\ n.pc = "scan" /\ n.i = r.i + 1 /\ n.low = f[r.i].SP /\ n.sel = r.i
                 /\ plock' = plock
              \/ /\ state[r.i] = "RUNNABLE" /\ f[r.i].SP = r.low
                 /\ n.pc = "tie" /\ n.i = r.i /\ n.low = r.low /\ n.sel = r.sel
                 /\ plock' = [plock EXCEPT ![r.i] = c]
<1>0. r \in Scans /\ sc \in [CPU -> Scans]
  BY Zenon DEF TypeOK
<1>1. r.i \in Slot /\ r.pc = "scan" /\ run[c] = 0 /\ plock[r.i] = None /\ \A d \in CPU \ {c} : sc'[d] = sc[d]
  BY <1>0, Zenon DEF scan, Free
<1>2. \/ /\ state[r.i] # "RUNNABLE" \/ f[r.i].SP > r.low
         /\ n = [r EXCEPT !.i = r.i + 1] /\ plock' = plock
      \/ /\ state[r.i] = "RUNNABLE" /\ f[r.i].SP < r.low
         /\ n = [r EXCEPT !.i = r.i + 1, !.low = f[r.i].SP, !.sel = r.i] /\ plock' = plock
      \/ /\ state[r.i] = "RUNNABLE" /\ f[r.i].SP = r.low
         /\ n = [r EXCEPT !.pc = "tie"] /\ plock' = [plock EXCEPT ![r.i] = c]
  BY <1>0, Zenon DEF scan
<1>3. LET e == [r EXCEPT !.i = r.i + 1] IN
      /\ e.pc = r.pc /\ e.i = r.i + 1 /\ e.low = r.low /\ e.sel = r.sel
      /\ e.start = r.start /\ e.clean = r.clean
  BY <1>0, Zenon DEF Scans
<1>4. LET e == [r EXCEPT !.i = r.i + 1, !.low = f[r.i].SP, !.sel = r.i] IN
      /\ e.pc = r.pc /\ e.i = r.i + 1 /\ e.low = f[r.i].SP /\ e.sel = r.i
      /\ e.start = r.start /\ e.clean = r.clean
  BY <1>0, Zenon DEF Scans
<1>5. LET e == [r EXCEPT !.pc = "tie"] IN
      /\ e.pc = "tie" /\ e.i = r.i /\ e.low = r.low /\ e.sel = r.sel
      /\ e.start = r.start /\ e.clean = r.clean
  BY <1>0, Zenon DEF Scans
<1> QED
  BY <1>1, <1>2, <1>3, <1>4, <1>5, ZenonT(30)

(* The tie-break keeps one of the two processes.                           *)
LEMMA select_effect ==
    ASSUME TypeOK, NEW c \in CPU, selectHigherPriorityProcess(c), NEW r, r = sc[c], NEW n, n = sc'[c]
    PROVE  /\ r.pc = "tie" /\ run[c] = 0
           /\ \A d \in CPU \ {c} : sc'[d] = sc[d]
           /\ n.pc = "scan" /\ n.i = r.i + 1 /\ n.low = r.low /\ n.sel = Preferred(r.sel, r.i)
           /\ n.start = r.start /\ n.clean = r.clean
           /\ plock' = [plock EXCEPT ![r.i] = None]
<1>0. r \in Scans /\ sc \in [CPU -> Scans]
  BY Zenon DEF TypeOK
<1>1. /\ r.pc = "tie" /\ run[c] = 0 /\ plock' = [plock EXCEPT ![r.i] = None]
      /\ n = [r EXCEPT !.pc = "scan", !.i = r.i + 1, !.sel = Preferred(r.sel, r.i)]
      /\ \A d \in CPU \ {c} : sc'[d] = sc[d]
  BY <1>0, Zenon DEF selectHigherPriorityProcess
<1>2. LET e == [r EXCEPT !.pc = "scan", !.i = r.i + 1, !.sel = Preferred(r.sel, r.i)] IN
      /\ e.pc = "scan" /\ e.i = r.i + 1 /\ e.low = r.low /\ e.sel = Preferred(r.sel, r.i)
      /\ e.start = r.start /\ e.clean = r.clean
  BY <1>0, Zenon DEF Scans
<1> QED
  BY <1>1, <1>2, Zenon

(* The end of the scan: it starts again, or goes to scheduleProcess().     *)
LEMMA done_effect ==
    ASSUME TypeOK, NEW c \in CPU, scan_done(c), NEW r, r = sc[c], NEW n, n = sc'[c]
    PROVE  /\ r.pc = "scan" /\ run[c] = 0 /\ r.i > NPROC
           /\ \A d \in CPU \ {c} : sc'[d] = sc[d]
           /\ \/ n = Scan
              \/ /\ n.pc = "dispatch" /\ n.i = r.i /\ n.low = r.low /\ n.sel = r.sel /\ r.sel # 0
                 /\ n.start = r.start /\ n.clean = r.clean
<1>0. r \in Scans /\ sc \in [CPU -> Scans]
  BY Zenon DEF TypeOK
<1>1. /\ r.pc = "scan" /\ run[c] = 0 /\ r.i > NPROC /\ \A d \in CPU \ {c} : sc'[d] = sc[d]
      /\ n = IF r.sel = 0 THEN Scan ELSE [r EXCEPT !.pc = "dispatch"]
  BY <1>0, Zenon DEF scan_done
<1>2. LET e == [r EXCEPT !.pc = "dispatch"] IN
      /\ e.pc = "dispatch" /\ e.i = r.i /\ e.low = r.low /\ e.sel = r.sel
      /\ e.start = r.start /\ e.clean = r.clean
  BY <1>0, Zenon DEF Scans
<1> QED
  BY <1>1, <1>2, Zenon

(* scheduleProcess() runs the selected process or starts a new scan.       *)
LEMMA schedule_effect ==
    ASSUME TypeOK, NEW c \in CPU, scheduleProcess(c), NEW r, r = sc[c], NEW n, n = sc'[c]
    PROVE  /\ r.pc = "dispatch" /\ run[c] = 0 /\ plock[r.sel] = None
           /\ \/ /\ n = Scan /\ UNCHANGED <<state, f, plock, run>>
                 /\ \A d \in CPU \ {c} : sc'[d] = sc[d]
              \/ /\ n.pc = "back" /\ n.sel = r.sel /\ n.start = ticks
                 /\ \A d \in CPU \ {c} : sc'[d] = Disturbed[d]
                 /\ run' = [run EXCEPT ![c] = r.sel] /\ plock' = [plock EXCEPT ![r.sel] = c]
<1>0. sc \in [CPU -> Scans] /\ Disturbed \in [CPU -> Scans]
  BY DisturbedIs, Zenon DEF TypeOK
<1>1. /\ r.pc = "dispatch" /\ run[c] = 0 /\ plock[r.sel] = None
      /\ \/ /\ n = Scan /\ UNCHANGED <<state, f, plock, run>>
            /\ \A d \in CPU \ {c} : sc'[d] = sc[d]
         \/ /\ n = [Scan EXCEPT !.pc = "back", !.sel = r.sel, !.start = ticks]
            /\ \A d \in CPU \ {c} : sc'[d] = Disturbed[d]
            /\ run' = [run EXCEPT ![c] = r.sel] /\ plock' = [plock EXCEPT ![r.sel] = c]
  BY <1>0, Zenon DEF scheduleProcess, Free
<1>2. LET e == [Scan EXCEPT !.pc = "back", !.sel = r.sel, !.start = ticks] IN
      e.pc = "back" /\ e.sel = r.sel /\ e.start = ticks
  BY Zenon DEF Scan
<1> QED
  BY <1>1, <1>2, Zenon

(* Back in scheduleProcess(): the lock of the process is kept.             *)
LEMMA back_effect ==
    ASSUME TypeOK, NEW c \in CPU, scheduleProcess_back(c), NEW r, r = sc[c], NEW n, n = sc'[c]
    PROVE  /\ r.pc = "back" /\ run[c] = 0 /\ UNCHANGED <<state, plock, run, clk, ticks>>
           /\ n.pc = "release" /\ n.sel = r.sel /\ n.start = r.start
           /\ \A d \in CPU \ {c} : sc'[d] = Disturbed[d]
<1>0. sc \in [CPU -> Scans] /\ Disturbed \in [CPU -> Scans] /\ Disturbed[c].sel = r.sel
      /\ Disturbed[c].start = r.start
  BY DisturbedIs, Zenon DEF TypeOK
<1>1. /\ r.pc = "back" /\ run[c] = 0 /\ UNCHANGED <<state, plock, run, clk, ticks>>
      /\ sc' = [Disturbed EXCEPT ![c] = [Disturbed[c] EXCEPT !.pc = "release"]]
  BY Zenon DEF scheduleProcess_back
<1>2. n = [Disturbed[c] EXCEPT !.pc = "release"] /\ \A d \in CPU \ {c} : sc'[d] = Disturbed[d]
  BY <1>0, <1>1, Zenon
<1>3. \A x \in Scans : LET e == [x EXCEPT !.pc = "release"] IN
         e.pc = "release" /\ e.sel = x.sel /\ e.start = x.start
  BY Zenon DEF Scans
<1>4. Disturbed[c] \in Scans
  BY <1>0, Zenon
<1>5. n.pc = "release" /\ n.sel = Disturbed[c].sel /\ n.start = Disturbed[c].start
  BY <1>2, <1>3, <1>4, Zenon
<1> QED
  BY <1>0, <1>1, <1>2, <1>5, Zenon

-----------------------------------------------------------------------------
(* The scheduler of every CPU is where its variables say.                  *)

(* Frame: what a step of another CPU does to the variables of this one.    *)
LEMMA ScanFrame ==
    ASSUME NEW d \in CPU, TypeOK, ScanInv(d), lim' = lim, run'[d] = run[d] \/ run'[d] = 0,
           ticks' \in Nat, ticks <= ticks', NEW r, r = sc[d], NEW n, n = sc'[d],
           n.pc = r.pc, n.i = r.i, n.low = r.low, n.sel = r.sel, n.start = r.start
    PROVE  ScanInv(d)'
<1>0. lim \in Systems /\ r \in Scans /\ ticks \in 0..MAXTICKS /\ NPROC' = NPROC /\ Highest' = Highest
  BY SameSizes, HighestIs, Zenon DEF TypeOK
<1>1. r.start \in Nat /\ r.start <= ticks
  BY <1>0, Zenon DEF Scans, ScanInv
<1>2. MAXTICKS \in Nat
  BY <1>0, Sizes, Zenon
<1>3. n.start <= ticks'
  BY <1>0, <1>1, <1>2
<1> QED
  BY <1>0, <1>3, Zenon DEF ScanInv

(* A new scan selects nothing yet.                                         *)
LEMMA ScanFresh ==
    ASSUME NEW d \in CPU, run'[d] = 0, ticks' \in Nat, sc'[d] = Scan
    PROVE  ScanInv(d)'
<1>1. sc'[d].pc = "scan" /\ sc'[d].i = 1 /\ sc'[d].low = Highest /\ sc'[d].sel = 0 /\ sc'[d].start = 0
  BY DEF Scan
<1>2. 0 <= ticks' /\ 0 < 1 /\ Highest' = Highest
  BY HighestIs
<1> QED
  BY <1>1, <1>2, Zenon DEF ScanInv

(* Every step keeps ScanInv for the CPU that takes it.                     *)
LEMMA ScanSelf ==
    ASSUME TypeOK, NEW c \in CPU, ScanInv(c), lim' = lim, ticks' = ticks,
           \/ scan(c) \/ selectHigherPriorityProcess(c) \/ scan_done(c) \/ scheduleProcess(c)
           \/ scheduleProcess_back(c) \/ scheduleProcess_release(c)
    PROVE  ScanInv(c)'
<1>0. PICK r : r = sc[c]
  OBVIOUS
<1>1. PICK n : n = sc'[c]
  OBVIOUS
<1>2. /\ lim \in Systems /\ r \in Scans /\ ticks \in 0..MAXTICKS /\ NPROC' = NPROC /\ Highest' = Highest
      /\ run \in [CPU -> 0..NPROC] /\ sc \in [CPU -> Scans] /\ f \in [Slot -> Fields]
  BY <1>0, SameSizes, HighestIs, Zenon DEF TypeOK
<1>3. r.i \in 1..NPROC + 1 /\ r.sel \in 0..NPROC /\ r.start \in Nat /\ r.low \in 0..Highest
  BY <1>2, Zenon DEF Scans
<1>4. NPROC \in Nat \ {0} /\ ticks \in Nat /\ Highest \in Nat
  BY <1>2, Sizes, HighestIs
<1>5. /\ run[c] # 0 => r.pc = "back" /\ r.sel = run[c]
      /\ r.start <= ticks
      /\ r.pc # "scan" => r.sel # 0
      /\ r.pc = "tie" => r.i <= NPROC
      /\ r.pc = "dispatch" => r.i = NPROC + 1
      /\ r.pc \in {"scan", "tie"} => r.sel < r.i /\ (r.sel = 0 => r.low = Highest)
  BY <1>0, Zenon DEF ScanInv
<1>6. SUFFICES ASSUME sc'[c] # Scan \/ run'[c] # 0
               PROVE  /\ run'[c] # 0 => n.pc = "back" /\ n.sel = run'[c]
                      /\ n.start <= ticks
                      /\ n.pc # "scan" => n.sel # 0
                      /\ n.pc = "tie" => n.i <= NPROC
                      /\ n.pc = "dispatch" => n.i = NPROC + 1
                      /\ n.pc \in {"scan", "tie"} => n.sel < n.i /\ (n.sel = 0 => n.low = Highest)
  <2>1. ticks' \in Nat
    BY <1>4, Zenon
  <2> QED
    BY <1>1, <1>2, <2>1, ScanFresh, Zenon DEF ScanInv
<1>7. CASE scan(c)
  <2>1. /\ r.i \in Slot /\ r.pc = "scan" /\ run[c] = 0 /\ n.start = r.start
        /\ \/ n.pc = "scan" /\ n.i = r.i + 1 /\ n.low = r.low /\ n.sel = r.sel
           \/ n.pc = "scan" /\ n.i = r.i + 1 /\ n.sel = r.i
           \/ f[r.i].SP = r.low /\ n.pc = "tie" /\ n.i = r.i /\ n.low = r.low /\ n.sel = r.sel
    BY <1>0, <1>1, <1>7, scan_effect
  <2>2. run'[c] = 0
    BY <1>7, <2>1, Zenon DEF scan
  <2>3. f[r.i].SP \in 0..100
    BY <1>2, <2>1, Zenon DEF Fields
  <2>4. r.i <= NPROC
    BY <2>1, <1>4 DEF Slot
  <2>5. f[r.i].SP = r.low => r.sel # 0
    BY <2>1, <2>3, <1>5, HighestIs
  <2> QED
    BY <1>3, <1>4, <1>5, <2>1, <2>2, <2>4, <2>5
<1>8. CASE selectHigherPriorityProcess(c)
  <2>1. /\ r.pc = "tie" /\ n.pc = "scan" /\ n.i = r.i + 1 /\ n.sel = Preferred(r.sel, r.i)
        /\ n.start = r.start /\ run[c] = 0
    BY <1>0, <1>1, <1>8, select_effect, ZenonT(30)
  <2>2. run'[c] = 0 /\ (n.sel = r.sel \/ n.sel = r.i)
    BY <1>8, <2>1, Zenon DEF selectHigherPriorityProcess, Preferred
  <2> QED
    BY <1>3, <1>4, <1>5, <2>1, <2>2
<1>9. CASE scan_done(c)
  <2>1. /\ r.pc = "scan" /\ run[c] = 0 /\ r.i > NPROC
        /\ \/ n = Scan
           \/ n.pc = "dispatch" /\ n.i = r.i /\ n.sel = r.sel /\ r.sel # 0 /\ n.start = r.start
    BY <1>0, <1>1, <1>9, done_effect
  <2>2. run'[c] = 0
    BY <1>9, <2>1, Zenon DEF scan_done
  <2> QED
    BY <1>1, <1>3, <1>4, <1>5, <1>6, <2>1, <2>2
<1>10. CASE scheduleProcess(c)
  <2>1. /\ r.pc = "dispatch" /\ run[c] = 0
        /\ \/ n = Scan /\ run' = run
           \/ n.pc = "back" /\ n.sel = r.sel /\ n.start = ticks /\ run' = [run EXCEPT ![c] = r.sel]
    BY <1>0, <1>1, <1>10, schedule_effect
  <2>2. /\ n.pc = "back" /\ n.sel = r.sel /\ n.start = ticks /\ run'[c] = r.sel
    BY <1>1, <1>2, <1>6, <2>1, Zenon
  <2> QED
    BY <1>4, <1>5, <2>1, <2>2
<1>11. CASE scheduleProcess_back(c)
  <2>1. r.pc = "back" /\ run[c] = 0 /\ run' = run /\ n.pc = "release" /\ n.sel = r.sel /\ n.start = r.start
    BY <1>0, <1>1, <1>11, back_effect
  <2> QED
    BY <1>5, <2>1
<1>12. CASE scheduleProcess_release(c)
  <2>1. run'[c] = 0 /\ sc'[c] = Scan
    BY <1>2, <1>12, Zenon DEF scheduleProcess_release
  <2> QED
    BY <1>6, <2>1
<1> QED
  BY <1>7, <1>8, <1>9, <1>10, <1>11, <1>12

(* A step leaves the scheduler variables of a CPU that does not take it    *)
(* alone, but for the history variable.                                    *)
LEMMA OthersKept ==
    ASSUME TypeOK, NEW d \in CPU, sc'[d] = sc[d] \/ sc'[d] = Disturbed[d]
    PROVE  /\ sc'[d].pc = sc[d].pc /\ sc'[d].i = sc[d].i /\ sc'[d].low = sc[d].low
           /\ sc'[d].sel = sc[d].sel /\ sc'[d].start = sc[d].start
           /\ sc'[d] = sc[d] \/ sc'[d].clean = FALSE
<1>1. sc \in [CPU -> Scans]
  BY Zenon DEF TypeOK
<1>2. CASE sc'[d] = sc[d]
  BY <1>2
<1>3. CASE sc'[d] = Disturbed[d]
  BY <1>1, <1>3, DisturbedIs, Zenon
<1> QED
  BY <1>2, <1>3

(* The steps of scheduler() and scheduleProcess() on CPU c.                *)
Schedules(c) ==
    \/ scan(c) \/ selectHigherPriorityProcess(c) \/ scan_done(c) \/ scheduleProcess(c)
    \/ scheduleProcess_back(c) \/ scheduleProcess_release(c)

(* They leave the other CPUs and the clock alone.                          *)
LEMMA SchedulesOnly ==
    ASSUME TypeOK, NEW c \in CPU, Schedules(c)
    PROVE  /\ \A d \in CPU \ {c} : run'[d] = run[d] /\ (sc'[d] = sc[d] \/ sc'[d] = Disturbed[d])
           /\ UNCHANGED <<ticks, clk, pid, th, nextpid>>
           /\ run[c] = 0 /\ Executes(c)
<1>0. sc \in [CPU -> Scans] /\ run \in [CPU -> 0..NPROC] /\ Disturbed \in [CPU -> Scans]
  BY DisturbedIs, Zenon DEF TypeOK
<1>1. CASE scan(c)
  BY <1>0, <1>1, Zenon DEF scan
<1>2. CASE selectHigherPriorityProcess(c)
  BY <1>0, <1>2, Zenon DEF selectHigherPriorityProcess
<1>3. CASE scan_done(c)
  BY <1>0, <1>3, Zenon DEF scan_done
<1>4. CASE scheduleProcess(c)
  BY <1>0, <1>4, Zenon DEF scheduleProcess
<1>5. CASE scheduleProcess_back(c)
  BY <1>0, <1>5, Zenon DEF scheduleProcess_back
<1>6. CASE scheduleProcess_release(c)
  BY <1>0, <1>6, Zenon DEF scheduleProcess_release
<1> QED
  BY <1>1, <1>2, <1>3, <1>4, <1>5, <1>6, Zenon DEF Schedules

(* Every other step leaves all scheduler variables alone, and changes who  *)
(* runs only when a process gives the CPU up.                              *)
LEMMA OtherSteps ==
    ASSUME TypeOK, Next, ~\E c \in CPU : Schedules(c)
    PROVE  /\ \A d \in CPU : run'[d] = run[d] \/ run'[d] = 0
           /\ sc' = sc \/ sc' = Disturbed
           /\ ticks' = ticks \/ ticks' = ticks + 1
<1>0. run \in [CPU -> 0..NPROC]
  BY Zenon DEF TypeOK
<1>1. ASSUME NEW c \in CPU, enter(c) \/ setpriority_apply(c)
      PROVE  run' = run /\ (sc' = sc \/ sc' = Disturbed) /\ ticks' = ticks
  BY <1>1, Zenon DEF enter, setpriority_apply
<1>2. ASSUME NEW c \in CPU, NEW s, stop(c, s)
      PROVE  (\A d \in CPU : run'[d] = run[d] \/ run'[d] = 0) /\ sc' = Disturbed /\ ticks' = ticks
  BY <1>0, <1>2, Zenon DEF stop
<1>3. ASSUME NEW c \in CPU, NEW tgt,
             setpriority_none(c, tgt) \/ \E q \in Slot, new \in Priorities : setpriority_find(c, q, tgt, new)
      PROVE  run' = run /\ sc' = sc /\ ticks' = ticks
  BY <1>3, Zenon DEF setpriority_find, setpriority_none
<1>4. ASSUME NEW p \in Slot, wakeup(p) \/ \E c \in CPU : allocproc(c, p) \/ freeproc(c, p)
      PROVE  run' = run /\ (sc' = sc \/ sc' = Disturbed) /\ ticks' = ticks
  BY <1>4, Zenon DEF wakeup, allocproc, freeproc
<1>5. ASSUME clockintr \/ update_time
      PROVE  run' = run /\ sc' = sc /\ (ticks' = ticks \/ ticks' = ticks + 1)
  BY <1>5, Zenon DEF clockintr, update_time
<1>6. ASSUME NEW c \in CPU PROVE ~Schedules(c)
  BY Zenon
<1> QED
  BY <1>1, <1>2, <1>3, <1>4, <1>5, <1>6, Zenon DEF Next, Step, Schedules

(* Every step keeps ScanInv for every CPU.                                 *)
LEMMA ScanStep ==
    ASSUME TypeOK, \A c \in CPU : ScanInv(c), Next
    PROVE  (\A c \in CPU : ScanInv(c))'
<1>0. lim' = lim /\ lim \in Systems /\ ticks \in 0..MAXTICKS
  BY Zenon DEF Next, TypeOK
<1>t. ticks \in Nat
  BY <1>0, Sizes
<1>1. ASSUME NEW d \in CPU, run'[d] = run[d] \/ run'[d] = 0, sc'[d] = sc[d] \/ sc'[d] = Disturbed[d],
             ticks' = ticks \/ ticks' = ticks + 1
      PROVE  ScanInv(d)'
  <2>1. ticks' \in Nat /\ ticks <= ticks'
    BY <1>t, <1>1
  <2>2. /\ sc'[d].pc = sc[d].pc /\ sc'[d].i = sc[d].i /\ sc'[d].low = sc[d].low
        /\ sc'[d].sel = sc[d].sel /\ sc'[d].start = sc[d].start
    BY <1>1, OthersKept, Zenon
  <2>3. ScanInv(d)
    OBVIOUS
  <2> QED
    BY <1>0, <1>1, <2>1, <2>2, <2>3, ScanFrame
<1>2. ASSUME NEW c \in CPU, Schedules(c), NEW d \in CPU PROVE ScanInv(d)'
  <2>1. CASE d = c
    BY <1>0, <1>2, <2>1, SchedulesOnly, ScanSelf, Zenon DEF Schedules
  <2>2. CASE d # c
    BY <1>1, <1>2, <2>2, SchedulesOnly, Zenon
  <2> QED
    BY <2>1, <2>2
<1>3. ASSUME ~\E c \in CPU : Schedules(c), NEW d \in CPU PROVE ScanInv(d)'
  BY <1>1, <1>3, OtherSteps, Zenon
<1> QED
  BY <1>0, <1>2, <1>3, SameSizes, Zenon

-----------------------------------------------------------------------------
(* Who holds the process locks.                                            *)

(* A CPU that took no step holds what it held.                             *)
LEMMA HoldsKept ==
    ASSUME TypeOK, NEW d \in CPU, NEW p, Holds(d, p), run'[d] = run[d],
           sc'[d] = sc[d] \/ sc'[d] = Disturbed[d]
    PROVE  Holds(d, p)'
<1>1. sc'[d].pc = sc[d].pc /\ sc'[d].i = sc[d].i /\ sc'[d].sel = sc[d].sel
  BY OthersKept, Zenon
<1> QED
  BY <1>1, Zenon DEF Holds

(* What a CPU in the scheduler holds: nothing, the slot that ties, or the  *)
(* process that came back.                                                 *)
LEMMA HeldBy ==
    ASSUME TypeOK, LockInv, NEW c \in CPU, NEW p \in Slot, plock[p] = c
    PROVE  Holds(c, p) /\ p # 0
<1>1. None \notin CPU /\ 0 \notin Slot
  BY Numbers, Zenon DEF TypeOK
<1> QED
  BY <1>1, Zenon DEF LockInv

(* Every step of the scheduler keeps the reasons for holding locks.        *)
LEMMA SchedulesLocks ==
    ASSUME TypeOK, LockInv, NEW c \in CPU, ScanInv(c), Schedules(c),
           NEW p \in Slot, NEW d \in CPU, plock'[p] = d
    PROVE  Holds(d, p)'
<1>0. /\ plock \in [Slot -> CPU \cup {None}] /\ lim \in Systems /\ run[c] = 0 /\ None \notin CPU /\ 0 \notin Slot
      /\ run \in [CPU -> 0..NPROC] /\ sc \in [CPU -> Scans]
  BY SchedulesOnly, Numbers, Zenon DEF TypeOK
<1>r. PICK r : r = sc[c]
  OBVIOUS
<1>n. PICK n : n = sc'[c]
  OBVIOUS
<1>1. ASSUME plock[p] = d, d # c PROVE Holds(d, p)'
  <2>1. Holds(d, p)
    BY <1>1, HeldBy, Zenon
  <2>2. run'[d] = run[d] /\ (sc'[d] = sc[d] \/ sc'[d] = Disturbed[d])
    BY <1>1, SchedulesOnly, Zenon
  <2> QED
    BY <2>1, <2>2, HoldsKept, Zenon
<1>2. ASSUME plock[p] = c
      PROVE  \/ r.pc = "tie" /\ r.i = p
             \/ r.pc \in {"back", "release"} /\ r.sel = p
  BY <1>0, <1>r, <1>2, HeldBy, Zenon DEF Holds
<1>3. CASE scan(c)
  <2>1. /\ r.pc = "scan"
        /\ plock' = plock \/ (n.pc = "tie" /\ n.i = r.i /\ r.i \in Slot /\ plock' = [plock EXCEPT ![r.i] = c])
    BY <1>r, <1>n, <1>3, scan_effect
  <2>2. CASE plock[p] = d
    BY <1>1, <1>2, <2>1, <2>2, Zenon
  <2>3. CASE plock[p] # d
    <3>1. n.pc = "tie" /\ n.i = p /\ d = c
      BY <1>0, <2>1, <2>3, Zenon
    <3>2. run'[c] = 0
      BY <1>0, <1>3, Zenon DEF scan
    <3> QED
      BY <1>n, <3>1, <3>2, Zenon DEF Holds
  <2> QED
    BY <2>2, <2>3
<1>4. CASE selectHigherPriorityProcess(c)
  <2>1. r.pc = "tie" /\ plock' = [plock EXCEPT ![r.i] = None]
    BY <1>r, <1>n, <1>4, select_effect
  <2>2. p # r.i /\ plock[p] = d
    BY <1>0, <2>1, Zenon
  <2> QED
    BY <1>1, <1>2, <2>1, <2>2, Zenon
<1>5. CASE scan_done(c)
  <2>1. r.pc = "scan" /\ plock' = plock
    BY <1>r, <1>5, Zenon DEF scan_done
  <2> QED
    BY <1>1, <1>2, <2>1, Zenon
<1>6. CASE scheduleProcess(c)
  <2>1. /\ r.pc = "dispatch"
        /\ plock' = plock \/ (run' = [run EXCEPT ![c] = r.sel] /\ plock' = [plock EXCEPT ![r.sel] = c])
    BY <1>r, <1>n, <1>6, schedule_effect
  <2>2. CASE plock[p] = d
    BY <1>1, <1>2, <2>1, <2>2, Zenon
  <2>3. CASE plock[p] # d
    <3>1. r.sel = p /\ d = c /\ run'[c] = p
      BY <1>0, <2>1, <2>3, Zenon
    <3> QED
      BY <3>1, Zenon DEF Holds
  <2> QED
    BY <2>2, <2>3
<1>7. CASE scheduleProcess_back(c)
  <2>1. r.pc = "back" /\ plock' = plock /\ run' = run /\ n.pc = "release" /\ n.sel = r.sel
    BY <1>r, <1>n, <1>7, back_effect
  <2>2. CASE d # c
    BY <1>1, <2>1, <2>2, Zenon
  <2>3. CASE d = c
    <3>1. r.sel = p
      BY <1>2, <2>1, <2>3, Zenon
    <3> QED
      BY <1>0, <1>n, <2>1, <2>3, <3>1, Zenon DEF Holds
  <2> QED
    BY <2>2, <2>3
<1>8. CASE scheduleProcess_release(c)
  <2>1. r.pc = "release" /\ plock' = [plock EXCEPT ![r.sel] = None]
    BY <1>r, <1>8, Zenon DEF scheduleProcess_release
  <2>2. p # r.sel /\ plock[p] = d
    BY <1>0, <2>1, Zenon
  <2> QED
    BY <1>1, <1>2, <2>1, <2>2, Zenon
<1> QED
  BY <1>3, <1>4, <1>5, <1>6, <1>7, <1>8, Zenon DEF Schedules

(* A process gives the CPU up with its lock held, which its scheduler then *)
(* releases.                                                               *)
LEMMA StopLocks ==
    ASSUME TypeOK, LockInv, NEW c \in CPU, ScanInv(c), NEW s, stop(c, s),
           NEW p \in Slot, NEW d \in CPU, plock'[p] = d
    PROVE  Holds(d, p)'
<1>0. /\ plock \in [Slot -> CPU \cup {None}] /\ run \in [CPU -> 0..NPROC]
      /\ sc \in [CPU -> Scans] /\ lim \in Systems
  BY Zenon DEF TypeOK
<1>1. /\ run[c] # 0 /\ plock[run[c]] = None /\ plock' = [plock EXCEPT ![run[c]] = c]
      /\ run' = [run EXCEPT ![c] = 0] /\ sc' = Disturbed
  BY Zenon DEF stop, Free
<1>2. run[c] \in Slot /\ None \notin CPU
  BY <1>0, <1>1, Numbers, Zenon
<1>3. run'[c] = 0 /\ \A e \in CPU \ {c} : run'[e] = run[e]
  BY <1>0, <1>1, Zenon
<1>4. CASE d # c
  <2>1. plock[p] = d
    BY <1>0, <1>1, <1>4, Zenon
  <2>2. Holds(d, p)
    BY <2>1, HeldBy, Zenon
  <2>3. run'[d] = run[d] /\ sc'[d] = Disturbed[d]
    BY <1>1, <1>3, <1>4, Zenon
  <2> QED
    BY <2>2, <2>3, HoldsKept, Zenon
<1>5. CASE d = c
  <2>1. p = run[c]
    <3>1. CASE plock[p] = c
      <4>1. Holds(c, p)
        BY <3>1, HeldBy, Zenon
      <4> QED
        BY <1>1, <4>1, Zenon DEF Holds
    <3>2. CASE plock[p] # c
      BY <1>0, <1>1, <1>5, <3>2, Zenon
    <3> QED
      BY <3>1, <3>2
  <2>2. sc[c].pc = "back" /\ sc[c].sel = run[c]
    BY <1>1, Zenon DEF ScanInv
  <2>3. sc'[c].pc = "back" /\ sc'[c].sel = run[c]
    BY <1>1, <2>2, OthersKept, Zenon
  <2> QED
    BY <1>3, <1>5, <2>1, <2>3, Zenon DEF Holds
<1> QED
  BY <1>4, <1>5

(* A lock changes hands by a step of the CPU that takes or releases it,    *)
(* and that CPU is not in the clock interrupt.                             *)
LEMMA LockChanges ==
    ASSUME TypeOK, Next, NEW p \in Slot, NEW x, x # None, plock'[p] = x
    PROVE  plock[p] = x \/ (x \in CPU /\ Executes(x) /\ clk' = clk)
<1>0. plock \in [Slot -> CPU \cup {None}]
  BY Zenon DEF TypeOK
<1>1. ASSUME NEW c \in CPU, Schedules(c) PROVE plock[p] = x \/ (x = c /\ Executes(c) /\ clk' = clk)
  <2>1. \/ plock' = plock
        \/ \E q : plock' = [plock EXCEPT ![q] = c] \/ plock' = [plock EXCEPT ![q] = None]
    BY <1>1, Zenon DEF Schedules, scan, selectHigherPriorityProcess, scan_done, scheduleProcess,
       scheduleProcess_back, scheduleProcess_release
  <2>2. plock[p] = x \/ x = c
    BY <1>0, <2>1, Zenon
  <2> QED
    BY <1>1, <2>2, SchedulesOnly, Zenon
<1>2. ASSUME NEW c \in CPU, NEW s, stop(c, s) PROVE plock[p] = x \/ (x = c /\ Executes(c) /\ clk' = clk)
  BY <1>0, <1>2, Zenon DEF stop
<1>3. ASSUME NEW c \in CPU, enter(c) PROVE plock[p] = x
  BY <1>0, <1>3, Zenon DEF enter
<1>4. ASSUME plock' = plock PROVE plock[p] = x
  BY <1>4, Zenon
<1>5. ASSUME NEW c \in CPU, NEW tgt,
             setpriority_none(c, tgt) \/ \E q \in Slot, new \in Priorities : setpriority_find(c, q, tgt, new)
      PROVE  plock' = plock
  BY <1>5, Zenon DEF setpriority_find, setpriority_none
<1>6. ASSUME NEW q \in Slot, wakeup(q) \/ \E c \in CPU : allocproc(c, q) \/ freeproc(c, q)
      PROVE  plock' = plock
  BY <1>6, Zenon DEF wakeup, allocproc, freeproc
<1>7. ASSUME clockintr \/ update_time \/ \E c \in CPU : setpriority_apply(c) PROVE plock' = plock
  BY <1>7, Zenon DEF clockintr, update_time, setpriority_apply
<1> QED
  BY <1>1, <1>2, <1>3, <1>4, <1>5, <1>6, <1>7, Zenon DEF Next, Step, Schedules

(* Every step keeps LockInv.                                               *)
LEMMA LockStep ==
    ASSUME TypeOK, TypeOK', LockInv, \A c \in CPU : ScanInv(c), Next
    PROVE  LockInv'
<1>0. /\ plock \in [Slot -> CPU \cup {None}] /\ plock' \in [Slot -> CPU \cup {None}]
      /\ Slot' = Slot /\ lim \in Systems /\ None' = None /\ lim' = lim
      /\ run \in [CPU -> 0..NPROC]
  BY SameSizes, Zenon DEF TypeOK, Next, None
<1>1. ASSUME NEW p \in Slot, NEW d \in CPU, plock'[p] = d PROVE Holds(d, p)'
  <2>1. ASSUME NEW c \in CPU, Schedules(c) PROVE Holds(d, p)'
    BY <1>1, <2>1, SchedulesLocks, Zenon
  <2>2. ASSUME NEW c \in CPU, NEW s, stop(c, s) PROVE Holds(d, p)'
    BY <1>1, <2>2, StopLocks, Zenon
  <2>3. ASSUME ~\E c \in CPU : Schedules(c), ~\E c \in CPU : \E s : stop(c, s) PROVE Holds(d, p)'
    <3>1. sc' = sc \/ sc' = Disturbed
      BY <2>3, OtherSteps, Zenon
    <3>2. run' = run /\ (plock' = plock \/ \E c \in CPU : enter(c))
      <4>1. ASSUME NEW c \in CPU, NEW tgt,
                   setpriority_none(c, tgt) \/ \E q \in Slot, new \in Priorities : setpriority_find(c, q, tgt, new)
            PROVE  plock' = plock /\ run' = run
        BY <4>1, Zenon DEF setpriority_find, setpriority_none
      <4>2. ASSUME NEW q \in Slot, wakeup(q) \/ \E c \in CPU : allocproc(c, q) \/ freeproc(c, q)
            PROVE  plock' = plock /\ run' = run
        BY <4>2, Zenon DEF wakeup, allocproc, freeproc
      <4>3. ASSUME clockintr \/ update_time \/ \E c \in CPU : setpriority_apply(c)
            PROVE  plock' = plock /\ run' = run
        BY <4>3, Zenon DEF clockintr, update_time, setpriority_apply
      <4>4. ASSUME NEW c \in CPU, enter(c) PROVE run' = run
        BY <4>4, Zenon DEF enter
      <4>5. ASSUME NEW c \in CPU PROVE ~Schedules(c) /\ \A s : ~stop(c, s)
        BY <2>3, Zenon
      <4> QED
        BY <4>1, <4>2, <4>3, <4>4, <4>5, Zenon DEF Next, Step, Schedules
    <3>3. plock[p] = d
      <4>1. ASSUME NEW c \in CPU, enter(c) PROVE plock[p] = d
        <5>1. None \notin CPU
          BY <1>0, Numbers, Zenon
        <5> QED
          BY <1>0, <1>1, <4>1, <5>1, Zenon DEF enter
      <4> QED
        BY <1>1, <3>2, <4>1, Zenon
    <3>4. Holds(d, p)
      BY <3>3, HeldBy, Zenon
    <3> QED
      BY <3>1, <3>2, <3>4, HoldsKept, Zenon
  <2> QED
    BY <2>1, <2>2, <2>3, Zenon
<1>2. ASSUME NEW p \in Slot, plock'[p] # None PROVE Holds(plock[p], p)'
  <2>1. PICK d \in CPU : plock'[p] = d
    BY <1>0, <1>2, Zenon
  <2> QED
    BY <1>1, <2>1, Zenon DEF Holds
<1>3. ASSUME clk' # 0, NEW p \in Slot PROVE plock'[p] # 0
  <2>1. 0 # None
    BY DEF None
  <2>2. CASE clockintr
    BY <2>2, Zenon DEF clockintr
  <2>3. CASE clk # 0
    <3>1. plock[p] # 0 /\ ~Executes(0)
      BY <2>3, Zenon DEF LockInv, Executes
    <3> QED
      BY <2>1, <3>1, LockChanges, Zenon
  <2>4. CASE clk = 0 /\ ~clockintr
    <3>1. clk' = clk
      <4>1. ASSUME NEW c \in CPU, Schedules(c) PROVE clk' = clk
        BY <4>1, SchedulesOnly, Zenon
      <4>2. ASSUME NEW c \in CPU, NEW tgt,
                   setpriority_none(c, tgt) \/ \E q \in Slot, new \in Priorities : setpriority_find(c, q, tgt, new)
            PROVE  clk' = clk
        BY <4>2, Zenon DEF setpriority_find, setpriority_none
      <4>3. ASSUME NEW q \in Slot, wakeup(q) \/ \E c \in CPU : allocproc(c, q) \/ freeproc(c, q)
            PROVE  clk' = clk
        BY <4>3, Zenon DEF wakeup, allocproc, freeproc
      <4>4. ASSUME NEW c \in CPU, setpriority_apply(c) \/ enter(c) \/ \E s : stop(c, s) PROVE clk' = clk
        BY <4>4, Zenon DEF setpriority_apply, enter, stop
      <4>5. ~update_time
        BY <2>4, Zenon DEF update_time
      <4> QED
        BY <2>4, <4>1, <4>2, <4>3, <4>4, <4>5, Zenon DEF Next, Step, Schedules
    <3> QED
      BY <1>3, <2>4, <3>1, Zenon
  <2> QED
    BY <2>2, <2>3, <2>4
<1> QED
  BY <1>0, <1>2, <1>3, Zenon DEF LockInv

-----------------------------------------------------------------------------
(* What an undisturbed scan selects.                                       *)

(* The order of the scheduler is transitive.                               *)
LEMMA BeforeTransitive ==
    ASSUME TypeOK, NEW p \in Slot, NEW q \in Slot, NEW r \in Slot, Before(p, q), Before(q, r)
    PROVE  Before(p, r)
<1>0. f \in [Slot -> Fields] /\ lim \in Systems
  BY Zenon DEF TypeOK
<1>1. \A x \in Slot : f[x].SP \in 0..100 /\ f[x].num \in Nat /\ f[x].ctime \in Nat /\ x \in Nat
  BY <1>0, Numbers, Zenon DEF Fields
<1>2. /\ f[p].SP \in Int /\ f[p].num \in Int /\ f[p].ctime \in Int /\ p \in Int
      /\ f[q].SP \in Int /\ f[q].num \in Int /\ f[q].ctime \in Int /\ q \in Int
      /\ f[r].SP \in Int /\ f[r].num \in Int /\ f[r].ctime \in Int /\ r \in Int
  BY <1>1
<1> QED
  BY <1>2 DEF Before

(* The tie-break keeps the process that comes first in that order.         *)
LEMMA PreferredFirst ==
    ASSUME TypeOK, NEW p \in Slot, NEW q \in Slot, q < p, f[q].SP = f[p].SP
    PROVE  \/ Preferred(q, p) = q /\ Before(q, p)
           \/ Preferred(q, p) = p /\ Before(p, q)
<1>0. f \in [Slot -> Fields] /\ lim \in Systems
  BY Zenon DEF TypeOK
<1>1. \A x \in Slot : f[x].num \in Nat /\ f[x].ctime \in Nat
  BY <1>0, Zenon DEF Fields
<1>2. f[p].num \in Int /\ f[p].ctime \in Int /\ f[q].num \in Int /\ f[q].ctime \in Int
  BY <1>1
<1> QED
  BY <1>2 DEF Before, Preferred

(* A step that disturbs no scan keeps RUNNABLE processes and what orders   *)
(* them.                                                                   *)
LEMMA BestFrame ==
    ASSUME TypeOK, NEW d \in CPU, ScanInv(d), ScanBest(d), sc'[d] = sc[d], lim' = lim,
           \A q \in Slot : state'[q] = "RUNNABLE" <=> state[q] = "RUNNABLE",
           \A q \in Slot : state[q] = "RUNNABLE" =>
              f'[q].SP = f[q].SP /\ f'[q].num = f[q].num /\ f'[q].ctime = f[q].ctime
    PROVE  ScanBest(d)'
<1>0. PICK r : r = sc[d]
  OBVIOUS
<1>1. lim \in Systems /\ r \in Scans /\ Slot' = Slot
  BY <1>0, SameSizes, Zenon DEF TypeOK
<1>2. r.sel \in 0..NPROC /\ r.i \in 1..NPROC + 1
  BY <1>1, Zenon DEF Scans
<1>3. (r.sel # 0 => r.sel \in Slot) /\ (r.pc = "tie" => r.i \in Slot)
  BY <1>0, <1>1, <1>2, Numbers, Zenon DEF ScanInv
<1>4. SUFFICES ASSUME r.clean, r.pc \in {"scan", "tie", "dispatch"}
      PROVE  /\ r.sel # 0 => state'[r.sel] = "RUNNABLE" /\ r.low = f'[r.sel].SP
             /\ r.pc = "tie" => state'[r.i] = "RUNNABLE" /\ f'[r.i].SP = r.low
             /\ \A q \in Slot : q < r.i /\ state'[q] = "RUNNABLE" /\ q # r.sel =>
                   r.sel # 0 /\ Before(r.sel, q)'
  BY <1>0, <1>1, ZenonT(30) DEF ScanBest
<1>5. /\ r.sel # 0 => state[r.sel] = "RUNNABLE" /\ r.low = f[r.sel].SP
      /\ r.pc = "tie" => state[r.i] = "RUNNABLE" /\ f[r.i].SP = r.low
      /\ \A q \in Slot : q < r.i /\ state[q] = "RUNNABLE" /\ q # r.sel => r.sel # 0 /\ Before(r.sel, q)
  BY <1>0, <1>4, Zenon DEF ScanBest
<1>6. ASSUME NEW p \in Slot, NEW q \in Slot, state[p] = "RUNNABLE", state[q] = "RUNNABLE", Before(p, q)
      PROVE  Before(p, q)'
  <2>1. /\ f'[q].SP = f[q].SP /\ f'[q].num = f[q].num /\ f'[q].ctime = f[q].ctime
        /\ f'[p].SP = f[p].SP /\ f'[p].num = f[p].num /\ f'[p].ctime = f[p].ctime
    BY <1>6, Zenon
  <2> QED
    BY <1>6, <2>1, Zenon DEF Before
<1>7. ASSUME NEW q \in Slot, q < r.i, state'[q] = "RUNNABLE", q # r.sel
      PROVE  r.sel # 0 /\ Before(r.sel, q)'
  <2>1. state[q] = "RUNNABLE"
    BY <1>7, Zenon
  <2>2. r.sel # 0 /\ Before(r.sel, q)
    BY <1>5, <1>7, <2>1, Zenon
  <2> QED
    BY <1>3, <1>5, <1>6, <2>1, <2>2, Zenon
<1> QED
  BY <1>3, <1>5, <1>7, Zenon

(* A new scan knows nothing yet; a disturbed one claims nothing.           *)
LEMMA BestFresh ==
    ASSUME TypeOK, NEW d \in CPU, lim' = lim,
           sc'[d] = Scan \/ sc'[d].clean = FALSE \/ sc'[d].pc \notin {"scan", "tie", "dispatch"}
    PROVE  ScanBest(d)'
<1>1. CASE sc'[d] = Scan
  <2>1. sc'[d].pc = "scan" /\ sc'[d].i = 1 /\ sc'[d].sel = 0
    BY <1>1 DEF Scan
  <2>2. Slot' = Slot /\ lim \in Systems
    BY SameSizes, Zenon DEF TypeOK
  <2>3. \A q \in Slot : ~(q < 1)
    BY <2>2, Sizes DEF Slot
  <2> QED
    BY <2>1, <2>2, <2>3, Zenon DEF ScanBest
<1>2. CASE sc'[d].clean = FALSE
  BY <1>2, Zenon DEF ScanBest
<1>3. CASE sc'[d].pc \notin {"scan", "tie", "dispatch"}
  BY <1>3, Zenon DEF ScanBest
<1> QED
  BY <1>1, <1>2, <1>3, Zenon

(* The scan passes a slot over only if the selected process comes first,   *)
(* and selects it only if it comes before all the others.                  *)
LEMMA scan_best ==
    ASSUME TypeOK, NEW c \in CPU, ScanInv(c), ScanBest(c), scan(c), lim' = lim
    PROVE  ScanBest(c)'
<1>r. PICK r : r = sc[c]
  OBVIOUS
<1>n. PICK n : n = sc'[c]
  OBVIOUS
<1>0. /\ lim \in Systems /\ r \in Scans /\ f \in [Slot -> Fields] /\ Slot' = Slot
      /\ state' = state /\ f' = f
  <2>1. state' = state /\ f' = f
    BY Zenon DEF scan
  <2> QED
    BY <1>r, <2>1, SameSizes, Zenon DEF TypeOK
<1> DEFINE p == r.i
<1>1. /\ p \in Slot /\ r.pc = "scan" /\ n.clean = r.clean
      /\ \/ /\ state[p] # "RUNNABLE" \/ f[p].SP > r.low
            /\ n.pc = "scan" /\ n.i = p + 1 /\ n.low = r.low /\ n.sel = r.sel
         \/ /\ state[p] = "RUNNABLE" /\ f[p].SP < r.low
            /\ n.pc = "scan" /\ n.i = p + 1 /\ n.low = f[p].SP /\ n.sel = p
         \/ /\ state[p] = "RUNNABLE" /\ f[p].SP = r.low
            /\ n.pc = "tie" /\ n.i = p /\ n.low = r.low /\ n.sel = r.sel
  BY <1>r, <1>n, scan_effect
<1>2. r.sel < p /\ (r.sel = 0 => r.low = Highest) /\ r.sel \in 0..NPROC /\ r.low \in 0..Highest
  BY <1>r, <1>0, <1>1, Zenon DEF ScanInv, Scans
<1>3. SUFFICES ASSUME r.clean
      PROVE  /\ n.sel # 0 => state[n.sel] = "RUNNABLE" /\ n.low = f[n.sel].SP
             /\ n.pc = "tie" => state[n.i] = "RUNNABLE" /\ f[n.i].SP = n.low
             /\ \A q \in Slot : q < n.i /\ state[q] = "RUNNABLE" /\ q # n.sel => n.sel # 0 /\ Before(n.sel, q)
  <2>1. \A x, y : Before(x, y)' <=> Before(x, y)
    BY <1>0, ZenonT(30) DEF Before
  <2> QED
    BY <1>n, <1>0, <1>1, <2>1, Zenon DEF ScanBest
<1>4. /\ r.sel # 0 => state[r.sel] = "RUNNABLE" /\ r.low = f[r.sel].SP
      /\ \A q \in Slot : q < p /\ state[q] = "RUNNABLE" /\ q # r.sel => r.sel # 0 /\ Before(r.sel, q)
  BY <1>r, <1>1, <1>3, Zenon DEF ScanBest
<1>5. (r.sel # 0 => r.sel \in Slot) /\ 0 \notin Slot /\ NPROC \in Nat /\ Slot \subseteq Nat
  BY <1>0, <1>2, Numbers, Sizes, Zenon
<1>6. \A q \in Slot : f[q].SP \in 0..100
  BY <1>0, Zenon DEF Fields
<1> HIDE DEF p
<1>7. \A q \in Slot : q < p + 1 => q < p \/ q = p
  BY <1>1, <1>5
<1>8. CASE /\ state[p] # "RUNNABLE" \/ f[p].SP > r.low
           /\ n.pc = "scan" /\ n.i = p + 1 /\ n.low = r.low /\ n.sel = r.sel
  <2>1. ASSUME state[p] = "RUNNABLE" PROVE r.sel # 0 /\ Before(r.sel, p)
    <3>1. f[p].SP > r.low
      BY <1>8, <2>1, Zenon
    <3>2. r.sel # 0
      BY <1>1, <1>2, <1>6, <3>1, HighestIs
    <3>3. f[r.sel].SP < f[p].SP
      BY <1>1, <1>2, <1>4, <1>6, <3>1, <3>2, HighestIs
    <3> QED
      BY <3>2, <3>3, Zenon DEF Before
  <2>2. ASSUME NEW q \in Slot, q < n.i, state[q] = "RUNNABLE", q # n.sel PROVE n.sel # 0 /\ Before(n.sel, q)
    BY <1>4, <1>7, <1>8, <2>1, <2>2, Zenon
  <2> QED
    BY <1>4, <1>8, <2>2, Zenon
<1>9. CASE /\ state[p] = "RUNNABLE" /\ f[p].SP < r.low
           /\ n.pc = "scan" /\ n.i = p + 1 /\ n.low = f[p].SP /\ n.sel = p
  <2>1. ASSUME NEW q \in Slot, q < p, state[q] = "RUNNABLE" PROVE Before(p, q)
    <3>1. r.sel # 0
      BY <1>4, <1>5, <2>1, Zenon
    <3>2. r.low = f[r.sel].SP /\ r.sel \in Slot
      BY <1>4, <1>5, <3>1, Zenon
    <3>3. CASE q = r.sel
      BY <1>9, <3>2, <3>3, Zenon DEF Before
    <3>4. CASE q # r.sel
      <4>1. Before(r.sel, q)
        BY <1>4, <2>1, <3>4, Zenon
      <4>2. f[r.sel].SP < f[q].SP \/ f[r.sel].SP = f[q].SP
        BY <4>1, Zenon DEF Before
      <4>3. f[p].SP < f[q].SP
        <5>1. f[p].SP < f[r.sel].SP
          BY <1>9, <3>2, Zenon
        <5>2. f[p].SP \in 0..100 /\ f[q].SP \in 0..100 /\ f[r.sel].SP \in 0..100
          BY <1>1, <1>6, <3>2, Zenon DEF p
        <5>3. \A x, y, z \in 0..100 : x < y /\ (y < z \/ y = z) => x < z
          OBVIOUS
        <5> QED
          BY <5>1, <5>2, <5>3, <4>2, Zenon
      <4> QED
        BY <4>3, Zenon DEF Before
    <3> QED
      BY <3>3, <3>4
  <2>2. ASSUME NEW q \in Slot, q < n.i, state[q] = "RUNNABLE", q # n.sel PROVE n.sel # 0 /\ Before(n.sel, q)
    BY <1>1, <1>5, <1>7, <1>9, <2>1, <2>2, Zenon
  <2> QED
    BY <1>9, <2>2, Zenon
<1>10. CASE /\ state[p] = "RUNNABLE" /\ f[p].SP = r.low
            /\ n.pc = "tie" /\ n.i = p /\ n.low = r.low /\ n.sel = r.sel
  BY <1>4, <1>10, Zenon
<1> QED
  BY <1>1, <1>8, <1>9, <1>10, Zenon DEF p

(* After the tie-break the selected process comes before all those the     *)
(* scan has passed.                                                        *)
LEMMA select_best ==
    ASSUME TypeOK, NEW c \in CPU, ScanInv(c), ScanBest(c), selectHigherPriorityProcess(c), lim' = lim
    PROVE  ScanBest(c)'
<1>r. PICK r : r = sc[c]
  OBVIOUS
<1>n. PICK n : n = sc'[c]
  OBVIOUS
<1>0. /\ lim \in Systems /\ r \in Scans /\ f \in [Slot -> Fields] /\ Slot' = Slot
      /\ state' = state /\ f' = f
  BY <1>r, SameSizes, Zenon DEF TypeOK, selectHigherPriorityProcess
<1>p. PICK p : p = r.i
  OBVIOUS
<1>q. PICK s : s = r.sel
  OBVIOUS
<1>1. /\ r.pc = "tie" /\ n.pc = "scan" /\ n.i = p + 1 /\ n.low = r.low /\ n.sel = Preferred(s, p)
      /\ n.clean = r.clean
  BY <1>r, <1>n, <1>p, <1>q, select_effect
<1>2. s < p /\ s # 0 /\ p <= NPROC /\ s \in 0..NPROC /\ p \in 1..NPROC + 1
  BY <1>r, <1>p, <1>q, <1>0, <1>1, Zenon DEF ScanInv, Scans
<1>3. SUFFICES ASSUME r.clean
      PROVE  /\ n.sel # 0 => state[n.sel] = "RUNNABLE" /\ n.low = f[n.sel].SP
             /\ \A q \in Slot : q < n.i /\ state[q] = "RUNNABLE" /\ q # n.sel => n.sel # 0 /\ Before(n.sel, q)
  <2>1. \A x, y : Before(x, y)' <=> Before(x, y)
    BY <1>0, ZenonT(30) DEF Before
  <2> QED
    BY <1>n, <1>0, <1>1, <2>1, Zenon DEF ScanBest
<1>4. /\ state[s] = "RUNNABLE" /\ r.low = f[s].SP /\ state[p] = "RUNNABLE" /\ f[p].SP = r.low
      /\ \A q \in Slot : q < p /\ state[q] = "RUNNABLE" /\ q # s => Before(s, q)
  BY <1>r, <1>p, <1>q, <1>1, <1>2, <1>3, Zenon DEF ScanBest
<1>5. s \in Slot /\ p \in Slot /\ 0 \notin Slot /\ Slot \subseteq Nat
  BY <1>0, <1>2, Numbers, Zenon
<1>6. \A q \in Slot : q < p + 1 => q < p \/ q = p
  BY <1>5
<1>7. \/ Preferred(s, p) = s /\ Before(s, p)
      \/ Preferred(s, p) = p /\ Before(p, s)
  BY <1>2, <1>4, <1>5, PreferredFirst, Zenon
<1>8. ASSUME NEW q \in Slot, q < p + 1, state[q] = "RUNNABLE", q # n.sel PROVE Before(n.sel, q)
  <2>1. CASE n.sel = s /\ Before(s, p)
    BY <1>4, <1>6, <1>8, <2>1, Zenon
  <2>2. CASE n.sel = p /\ Before(p, s)
    <3>1. CASE q = s
      BY <2>2, <3>1, Zenon
    <3>2. CASE q # s
      <4>1. Before(s, q)
        BY <1>4, <1>6, <1>8, <2>2, <3>2, Zenon
      <4> QED
        BY <1>5, <2>2, <4>1, BeforeTransitive, Zenon
    <3> QED
      BY <3>1, <3>2
  <2> QED
    BY <1>1, <1>7, <2>1, <2>2, Zenon
<1> QED
  BY <1>1, <1>4, <1>5, <1>7, <1>8, Zenon

(* The end of the scan keeps what it found out.                            *)
LEMMA done_best ==
    ASSUME TypeOK, NEW c \in CPU, ScanBest(c), scan_done(c), lim' = lim
    PROVE  ScanBest(c)'
<1>r. PICK r : r = sc[c]
  OBVIOUS
<1>n. PICK n : n = sc'[c]
  OBVIOUS
<1>0. Slot' = Slot /\ state' = state /\ f' = f
  BY SameSizes, Zenon DEF scan_done
<1>1. CASE n = Scan
  BY <1>n, <1>1, BestFresh, Zenon
<1>2. CASE /\ r.pc = "scan" /\ n.pc = "dispatch" /\ n.i = r.i /\ n.low = r.low /\ n.sel = r.sel
           /\ n.clean = r.clean
  <2>1. \A x, y : Before(x, y)' <=> Before(x, y)
    BY <1>0, ZenonT(30) DEF Before
  <2> QED
    BY <1>r, <1>n, <1>0, <1>2, <2>1, Zenon DEF ScanBest
<1> QED
  BY <1>r, <1>n, <1>1, <1>2, done_effect

(* Every step keeps ScanBest for every CPU.                                *)
LEMMA BestStep ==
    ASSUME TypeOK, \A c \in CPU : ScanInv(c) /\ ScanBest(c), Next
    PROVE  (\A c \in CPU : ScanBest(c))'
<1>0. /\ lim' = lim /\ lim \in Systems /\ sc \in [CPU -> Scans] /\ f \in [Slot -> Fields]
      /\ state \in [Slot -> {"UNUSED", "SLEEPING", "RUNNABLE", "RUNNING", "ZOMBIE"}]
  BY Zenon DEF Next, TypeOK
<1>d. \A d \in CPU : Disturbed[d].clean = FALSE
  BY <1>0, DisturbedIs, Zenon
<1>1. ASSUME NEW d \in CPU, sc'[d] = Disturbed[d] PROVE ScanBest(d)'
  <2>1. sc'[d].clean = FALSE
    BY <1>1, <1>d, Zenon
  <2> QED
    BY <1>0, <2>1, BestFresh, Zenon
<1>2. ASSUME NEW d \in CPU, sc'[d] = sc[d], state' = state, f' = f PROVE ScanBest(d)'
  <2>1. ScanInv(d) /\ ScanBest(d)
    BY Zenon
  <2> QED
    BY <1>0, <1>2, <2>1, BestFrame, Zenon
<1>3. ASSUME NEW c \in CPU, Schedules(c), NEW d \in CPU PROVE ScanBest(d)'
  <2>i. ScanInv(c) /\ ScanBest(c)
    BY Zenon
  <2>r. PICK r : r = sc[c]
    OBVIOUS
  <2>n. PICK n : n = sc'[c]
    OBVIOUS
  <2>1. CASE scan(c)
    <3>1. CASE d = c
      BY <1>0, <2>i, <2>1, <3>1, scan_best, Zenon
    <3>2. CASE d # c
      <4>1. state' = state /\ f' = f /\ sc'[d] = sc[d]
        BY <1>0, <2>1, <3>2, Zenon DEF scan
      <4> QED
        BY <1>2, <4>1, Zenon
    <3> QED
      BY <3>1, <3>2
  <2>2. CASE selectHigherPriorityProcess(c)
    <3>1. CASE d = c
      BY <1>0, <2>i, <2>2, <3>1, select_best, Zenon
    <3>2. CASE d # c
      <4>1. state' = state /\ f' = f /\ sc'[d] = sc[d]
        BY <1>0, <2>2, <3>2, Zenon DEF selectHigherPriorityProcess
      <4> QED
        BY <1>2, <4>1, Zenon
    <3> QED
      BY <3>1, <3>2
  <2>3. CASE scan_done(c)
    <3>1. CASE d = c
      BY <1>0, <2>i, <2>3, <3>1, done_best, Zenon
    <3>2. CASE d # c
      <4>1. state' = state /\ f' = f /\ sc'[d] = sc[d]
        BY <1>0, <2>3, <3>2, Zenon DEF scan_done
      <4> QED
        BY <1>2, <4>1, Zenon
    <3> QED
      BY <3>1, <3>2
  <2>4. CASE scheduleProcess(c)
    <3>1. \/ n = Scan /\ state' = state /\ f' = f /\ \A e \in CPU \ {c} : sc'[e] = sc[e]
          \/ n.pc = "back" /\ \A e \in CPU \ {c} : sc'[e] = Disturbed[e]
      BY <2>r, <2>n, <2>4, schedule_effect
    <3>2. CASE d = c
      BY <1>0, <2>n, <3>1, <3>2, BestFresh, Zenon
    <3>3. CASE d # c
      BY <1>1, <1>2, <3>1, <3>3, Zenon
    <3> QED
      BY <3>2, <3>3
  <2>5. CASE scheduleProcess_back(c)
    <3>1. n.pc = "release" /\ \A e \in CPU \ {c} : sc'[e] = Disturbed[e]
      BY <2>r, <2>n, <2>5, back_effect
    <3>2. CASE d = c
      BY <1>0, <2>n, <3>1, <3>2, BestFresh, Zenon
    <3>3. CASE d # c
      BY <1>1, <3>1, <3>3, Zenon
    <3> QED
      BY <3>2, <3>3
  <2>6. CASE scheduleProcess_release(c)
    <3>1. state' = state /\ f' = f /\ sc'[c] = Scan /\ \A e \in CPU \ {c} : sc'[e] = sc[e]
      BY <1>0, <2>6, Zenon DEF scheduleProcess_release
    <3>2. CASE d = c
      BY <1>0, <3>1, <3>2, BestFresh, Zenon
    <3>3. CASE d # c
      BY <1>2, <3>1, <3>3, Zenon
    <3> QED
      BY <3>2, <3>3
  <2> QED
    BY <1>3, <2>1, <2>2, <2>3, <2>4, <2>5, <2>6, Zenon DEF Schedules
<1>4. ASSUME NEW c \in CPU, NEW p \in Slot, freeproc(c, p), NEW d \in CPU PROVE ScanBest(d)'
  <2>1. /\ sc' = sc /\ state' = [state EXCEPT ![p] = "UNUSED"] /\ state[p] = "ZOMBIE"
        /\ \E g : f' = [f EXCEPT ![p] = g]
    BY <1>4, Zenon DEF freeproc
  <2>2. \A q \in Slot : state'[q] = "RUNNABLE" <=> state[q] = "RUNNABLE"
    BY <1>0, <2>1, Zenon
  <2>3. \A q \in Slot : state[q] = "RUNNABLE" => f'[q] = f[q]
    BY <1>0, <2>1, Zenon
  <2>4. ScanInv(d) /\ ScanBest(d)
    BY Zenon
  <2> QED
    BY <1>0, <2>1, <2>2, <2>3, <2>4, BestFrame, Zenon
<1>5. ASSUME update_time, NEW d \in CPU PROVE ScanBest(d)'
  <2>1. sc' = sc /\ state' = state
    BY <1>5, Zenon DEF update_time
  <2>2. \A q \in Slot : f'[q].SP = f[q].SP /\ f'[q].num = f[q].num /\ f'[q].ctime = f[q].ctime
    BY <1>5, UpdateTime, Zenon
  <2>3. ScanInv(d) /\ ScanBest(d)
    BY Zenon
  <2> QED
    BY <1>0, <2>1, <2>2, <2>3, BestFrame, Zenon
<1>6. ASSUME clockintr \/ \E c \in CPU : enter(c)
      PROVE  sc' = sc /\ state' = state /\ f' = f
  BY <1>6, Zenon DEF clockintr, enter
<1>7. ASSUME NEW c \in CPU, NEW tgt,
             setpriority_none(c, tgt) \/ \E q \in Slot, new \in Priorities : setpriority_find(c, q, tgt, new)
      PROVE  sc' = sc /\ state' = state /\ f' = f
  BY <1>7, Zenon DEF setpriority_find, setpriority_none
<1>8. ASSUME NEW c \in CPU,
             setpriority_apply(c) \/ (\E s : stop(c, s)) \/ \E p \in Slot : wakeup(p) \/ allocproc(c, p)
      PROVE  sc' = Disturbed
  BY <1>8, Zenon DEF setpriority_apply, stop, wakeup, allocproc
<1>9. ASSUME NEW p \in Slot, wakeup(p) PROVE sc' = Disturbed
  BY <1>9, Zenon DEF wakeup
<1>10. \/ sc' = sc /\ state' = state /\ f' = f
       \/ sc' = Disturbed
       \/ update_time
       \/ \E c \in CPU : Schedules(c) \/ \E p \in Slot : freeproc(c, p)
  BY <1>6, <1>7, <1>8, <1>9, Zenon DEF Next, Step, Schedules
<1> QED
  BY <1>0, <1>1, <1>2, <1>3, <1>4, <1>5, <1>10, SameSizes, Zenon

-----------------------------------------------------------------------------
(* The invariant, and what follows from it.                                *)

(* The state main() leaves behind has the invariant.                       *)
LEMMA InitInv ==
    Init => DispatchConsistent
<1> SUFFICES ASSUME Init PROVE DispatchConsistent
  BY Zenon
<1>0. lim \in Systems /\ ticks = 0 /\ clk = 0 /\ nextpid = 2
  BY Zenon DEF Init
<1>s. NPROC \in Nat \ {0} /\ MAXPID \in Nat \ {0} /\ MAXTICKS \in Nat
  BY <1>0, Sizes, Zenon
<1>1. TypeOK
  <2>1. 0 \in 0..NPROC /\ 0 \in 0..MAXPID /\ 1 \in 0..MAXPID /\ 0 \in 0..100 /\ 50 \in 0..100 /\ 0 \in Nat
    BY <1>s
  <2>2. state \in [Slot -> {"UNUSED", "SLEEPING", "RUNNABLE", "RUNNING", "ZOMBIE"}]
    BY Zenon DEF Init
  <2>3. pid \in [Slot -> 0..MAXPID] /\ plock \in [Slot -> CPU \cup {None}] /\ run \in [CPU -> 0..NPROC]
    BY <2>1, Zenon DEF Init
  <2>4. \A x \in 0..100 : [SP |-> x, DP |-> 0, RBI |-> 0, num |-> 0, ctime |-> 0, RTime |-> 0,
                            WTime |-> 0, STime |-> 0] \in Fields
    BY <2>1, Zenon DEF Fields
  <2>5. f \in [Slot -> Fields]
    BY <2>1, <2>4, Zenon DEF Init
  <2>6. sc \in [CPU -> Scans]
    BY <1>0, ScanTypes, Zenon DEF Init
  <2>7. [pc |-> "user", slot |-> 0, tgt |-> 0, new |-> 0] \in Threads
    BY <2>1, Zenon DEF Threads
  <2>8. th \in [Slot -> Threads]
    BY <2>7, Zenon DEF Init
  <2>9. ticks \in 0..MAXTICKS /\ clk \in 0..NPROC /\ nextpid \in 2..MAXPID + 1
    BY <1>0, <1>s
  <2> QED
    BY <1>0, <2>2, <2>3, <2>5, <2>6, <2>8, <2>9, Zenon DEF TypeOK
<1>2. \A p \in Slot : th[p].pc # "set"
  BY DEF Init
<1>3. RunsOnce /\ SetsLiveTarget
  BY <1>2, Zenon DEF Init, RunsOnce, SetsLiveTarget
<1>4. PidInv
  <2>1. \A p \in Slot : (pid[p] = 1 /\ p = 1) \/ pid[p] = 0
    BY Zenon DEF Init
  <2>2. \A p \in Slot : pid[p] < nextpid
    BY <1>0, <2>1
  <2>3. \A p, q \in Slot : pid[p] = pid[q] /\ pid[p] # 0 => p = q
    BY <2>1, Zenon
  <2> QED
    BY <1>2, <2>2, <2>3, Zenon DEF PidInv
<1>5. LockInv
  BY <1>0, Zenon DEF Init, LockInv
<1>6. ASSUME NEW c \in CPU PROVE ScanInv(c) /\ ScanBest(c)
  <2>1. sc[c].pc = "scan" /\ sc[c].i = 1 /\ sc[c].low = Highest /\ sc[c].sel = 0 /\ sc[c].start = 0
    BY DEF Init, Scan
  <2>2. run[c] = 0
    BY Zenon DEF Init
  <2>3. 0 <= ticks /\ 0 < 1
    BY <1>0
  <2>4. \A q \in Slot : ~(q < 1)
    BY <1>s DEF Slot
  <2>5. ScanInv(c)
    BY <2>1, <2>2, <2>3, Zenon DEF ScanInv
  <2>6. ScanBest(c)
    BY <2>1, <2>4, Zenon DEF ScanBest
  <2> QED
    BY <2>5, <2>6
<1> QED
  BY <1>1, <1>3, <1>4, <1>5, <1>6, Zenon DEF DispatchConsistent

(* Every step keeps the types.                                             *)
LEMMA TypeStep ==
    ASSUME TypeOK, PidInv, \A c \in CPU : ScanInv(c), Next
    PROVE  TypeOK'
<1>0. lim' = lim
  BY Zenon DEF Next
<1>1. ASSUME NEW c \in CPU,
             scan(c) \/ selectHigherPriorityProcess(c) \/ scan_done(c) \/ scheduleProcess_release(c)
      PROVE  TypeOK'
  BY <1>0, <1>1, scan_types, Zenon
<1>2. ASSUME NEW c \in CPU, scheduleProcess(c) \/ scheduleProcess_back(c) PROVE TypeOK'
  BY <1>0, <1>2, schedule_types, Zenon
<1>3. ASSUME NEW c \in CPU,
             \/ enter(c)
             \/ \E s \in {"RUNNABLE", "SLEEPING", "ZOMBIE"} : stop(c, s)
             \/ \E tgt \in 1..MAXPID :
                   \/ \E q \in Slot, new \in Priorities : setpriority_find(c, q, tgt, new)
                   \/ setpriority_none(c, tgt)
             \/ setpriority_apply(c)
      PROVE  TypeOK'
  BY <1>0, <1>3, thread_types, Zenon
<1>4. ASSUME NEW p \in Slot, wakeup(p) \/ \E c \in CPU : allocproc(c, p) \/ freeproc(c, p) PROVE TypeOK'
  BY <1>0, <1>4, table_types, Zenon
<1>5. ASSUME clockintr \/ update_time PROVE TypeOK'
  BY <1>0, <1>5, clock_types, Zenon
<1> QED
  BY <1>1, <1>2, <1>3, <1>4, <1>5, Zenon DEF Next, Step

(* Every step keeps the invariant.                                         *)
LEMMA NextInv ==
    DispatchConsistent /\ [Next]_vars => DispatchConsistent'
<1> SUFFICES ASSUME DispatchConsistent, [Next]_vars PROVE DispatchConsistent'
  BY Zenon
<1>0. /\ TypeOK /\ RunsOnce /\ SetsLiveTarget /\ PidInv /\ LockInv
      /\ \A c \in CPU : ScanInv(c) /\ ScanBest(c)
  BY Zenon DEF DispatchConsistent
<1>c. \A c \in CPU : ScanInv(c)
  BY <1>0, Zenon
<1>1. CASE Next
  <2>1. TypeOK'
    BY <1>0, <1>c, <1>1, TypeStep, Zenon
  <2>2. RunsOnce'
    BY <1>0, <1>c, <1>1, RunsStep, Zenon
  <2>3. PidInv' /\ SetsLiveTarget'
    BY <1>0, <1>1, PidStep, Zenon
  <2>4. LockInv'
    BY <1>0, <1>c, <1>1, <2>1, LockStep, Zenon
  <2>5. (\A c \in CPU : ScanInv(c))'
    BY <1>0, <1>c, <1>1, ScanStep, Zenon
  <2>6. (\A c \in CPU : ScanBest(c))'
    BY <1>0, <1>1, BestStep, Zenon
  <2> QED
    BY <2>1, <2>2, <2>3, <2>4, <2>5, <2>6, Zenon DEF DispatchConsistent
<1>2. CASE UNCHANGED vars
  <2>0. /\ UNCHANGED <<state, pid, f, plock, ticks, clk, run, sc, th, nextpid>>
        /\ lim' = lim
    BY <1>2, Zenon DEF vars
  <2>s. CPU' = CPU /\ Slot' = Slot /\ NPROC' = NPROC /\ None' = None /\ Highest' = Highest
    BY <2>0, SameSizes, HighestIs, Zenon DEF None
  <2>1. TypeOK'
    BY <1>0, <2>0, TypeSame, Zenon DEF TypeOK
  <2>2. RunsOnce' /\ SetsLiveTarget' /\ PidInv'
    BY <1>0, <2>0, <2>s, Zenon DEF RunsOnce, SetsLiveTarget, PidInv
  <2>3. LockInv'
    BY <1>0, <2>0, <2>s, Zenon DEF LockInv, Holds
  <2>4. (\A c \in CPU : ScanInv(c))'
    BY <1>0, <2>0, <2>s, Zenon DEF ScanInv
  <2>5. (\A c \in CPU : ScanBest(c))'
    <3>1. ASSUME NEW c \in CPU PROVE ScanBest(c)'
      BY <1>0, <2>0, BestFrame, Zenon
    <3> QED
      BY <2>s, <3>1, Zenon
  <2> QED
    BY <2>1, <2>2, <2>3, <2>4, <2>5, Zenon DEF DispatchConsistent
<1> QED
  BY <1>1, <1>2, Zenon

(* Every non-empty set of natural numbers has a least element.             *)
LEMMA Least ==
    ASSUME NEW T \in SUBSET Nat, T # {}
    PROVE  \E x \in T : \A y \in T : ~(y < x)
<1> DEFINE R == {ss \in Nat \X Nat : ss[1] < ss[2]}
<1>1. IsWellFoundedOn(R, Nat)
  BY NatLessThanWellFounded, Zenon DEF OpToRel
<1> HIDE DEF R
<1>2. PICK x \in T : \A y \in T : ~(<<y, x>> \in R)
  BY <1>1, WFMin
<1>3. ASSUME NEW y \in T, y < x PROVE FALSE
  <2>1. <<y, x>> \in R
    BY <1>3 DEF R
  <2> QED
    BY <1>2, <2>1
<1> QED
  BY <1>3, Zenon

(* A CPU that spins for a lock while it holds that of slot x spins for a   *)
(* lower slot: only the tie-break holds one lock and waits for another,    *)
(* and the selected process comes before the one that ties.                *)
LEMMA SpinDescends ==
    ASSUME DispatchConsistent, NEW d \in CPU, NEW x \in Slot, plock[x] = d, Spins(d) # 0
    PROVE  Spins(d) < x
<1>0. TypeOK /\ LockInv /\ ScanInv(d) /\ lim \in Systems
  BY Zenon DEF DispatchConsistent, TypeOK
<1>1. Holds(d, x) /\ x # 0
  BY <1>0, HeldBy, Zenon
<1>2. Executes(d)
  BY <1>0, Zenon DEF LockInv, Executes
<1>3. CASE run[d] = x
  BY <1>1, <1>2, <1>3, Zenon DEF Spins
<1>4. CASE run[d] = 0 /\ sc[d].pc = "tie" /\ sc[d].i = x
  <2>1. Spins(d) = sc[d].sel
    BY <1>2, <1>4, Zenon DEF Spins
  <2>2. sc[d].sel < sc[d].i
    BY <1>0, <1>4, Zenon DEF ScanInv
  <2> QED
    BY <1>4, <2>1, <2>2, Zenon
<1>5. CASE run[d] = 0 /\ sc[d].pc \in {"back", "release"}
  BY <1>2, <1>5, Zenon DEF Spins
<1> QED
  BY <1>1, <1>3, <1>4, <1>5, Zenon DEF Holds

(* The slot a CPU spins for is one of the table.                           *)
LEMMA SpinsForSlot ==
    ASSUME DispatchConsistent, NEW c \in CPU, Spins(c) # 0
    PROVE  Spins(c) \in Slot
<1>0. /\ lim \in Systems /\ clk \in 0..NPROC /\ sc[c] \in Scans /\ run[c] \in 0..NPROC
      /\ th \in [Slot -> Threads]
  BY Zenon DEF DispatchConsistent, TypeOK
<1>1. sc[c].sel \in 0..NPROC
  BY <1>0, Zenon DEF Scans
<1>2. run[c] # 0 => th[run[c]].slot \in 0..NPROC
  <2>1. run[c] # 0 => run[c] \in Slot
    BY <1>0, Numbers, Zenon
  <2> QED
    BY <1>0, <2>1, Zenon DEF Threads
<1>3. \A x \in 0..NPROC : x # 0 => x \in Slot
  BY <1>0, Numbers, Zenon
<1> QED
  BY <1>0, <1>1, <1>2, <1>3, Zenon DEF Spins

(* So no set of CPUs spins for locks held in the set.                      *)
LEMMA InvNoLockCycle ==
    DispatchConsistent => NoLockCycle
<1> SUFFICES ASSUME DispatchConsistent, NEW S \in (SUBSET CPU) \ {{}},
                    \A c \in S : Spins(c) # 0 /\ plock[Spins(c)] \in S
             PROVE  FALSE
  BY Zenon DEF NoLockCycle
<1> DEFINE T == {Spins(c) : c \in S}
<1>0. lim \in Systems
  BY Zenon DEF DispatchConsistent, TypeOK
<1>1. T \in SUBSET Slot /\ T # {}
  <2>1. \A c \in S : c \in CPU /\ Spins(c) \in Slot
    BY SpinsForSlot, Zenon
  <2>2. \E c \in S : TRUE
    OBVIOUS
  <2> QED
    BY <2>1, <2>2, Zenon
<1>2. T \in SUBSET Nat
  BY <1>0, <1>1, Numbers, Zenon
<1>3. \E x \in T : \A y \in T : ~(y < x)
  <2> HIDE DEF T
  <2> QED
    BY <1>1, <1>2, Least, Zenon
<1>4. PICK c \in S : \A e \in S : ~(Spins(e) < Spins(c))
  BY <1>3, Zenon
<1>5. PICK d \in S : d = plock[Spins(c)]
  BY Zenon
<1>6. Spins(c) \in Slot /\ Spins(d) # 0
  BY SpinsForSlot, Zenon
<1>7. Spins(d) < Spins(c)
  BY <1>5, <1>6, SpinDescends, Zenon
<1> QED
  BY <1>4, <1>7, Zenon

(* A scan that has come to its end has passed every slot.                  *)
LEMMA InvSelectsBest ==
    DispatchConsistent => SelectsBest
<1> SUFFICES ASSUME DispatchConsistent, NEW c \in CPU, sc[c].pc = "dispatch", sc[c].clean
             PROVE  /\ state[sc[c].sel] = "RUNNABLE"
                    /\ \A q \in Slot : state[q] = "RUNNABLE" /\ q # sc[c].sel => Before(sc[c].sel, q)
  BY Zenon DEF SelectsBest
<1>1. ScanInv(c) /\ ScanBest(c) /\ lim \in Systems
  BY Zenon DEF DispatchConsistent, TypeOK
<1>2. sc[c].i = NPROC + 1 /\ sc[c].sel # 0
  BY <1>1, Zenon DEF ScanInv
<1>3. \A q \in Slot : q < NPROC + 1
  BY <1>1, Sizes DEF Slot
<1> QED
  BY <1>1, <1>2, <1>3, Zenon DEF ScanBest

(* Whatever the number of CPUs and processes: a process runs on one CPU at *)
(* most, whoever holds a process lock has a reason to, pids are unique,    *)
(* and setpriority() changes the process it was asked to change.           *)
THEOREM SpecDispatchConsistent ==
    Spec => []DispatchConsistent
<1> QED
  BY InitInv, NextInv, PTL DEF Spec

(* The tie-break of scheduler(), which acquires a second process lock, the *)
(* clock interrupt and setpriority() never wait for each other in a cycle. *)
THEOREM SpecNoLockCycle ==
    Spec => []NoLockCycle
<1> QED
  BY SpecDispatchConsistent, InvNoLockCycle, PTL

(* scheduler() hands scheduleProcess() the process that comes first by SP, *)
(* number of times scheduled and creation time, if nothing changed         *)
(* meanwhile.                                                              *)
THEOREM SpecSelectsBest ==
    Spec => []SelectsBest
<1> QED
  BY SpecDispatchConsistent, InvSelectsBest, PTL
=============================================================================
