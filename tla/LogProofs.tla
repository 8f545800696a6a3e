----------------------------- MODULE LogProofs -----------------------------
(***************************************************************************)
(* Proofs about Log: the inductive invariant LogInv, the safety properties *)
(* it implies, and that Log implements AtomicDisk.                         *)
(***************************************************************************)
EXTENDS Log, FiniteSetTheorems, TLAPS

(* Running when one process starts or ends an operation.                   *)
LEMMA RunningStarts ==
    ASSUME NEW p \in Proc, p \notin Running, Running' = Running \cup {p}
    PROVE  Cardinality(Running)' = Cardinality(Running) + 1
<1>1. IsFiniteSet(Running)
  <2>1. Running \subseteq Proc
    BY Zenon DEF Running
  <2> QED BY <2>1, FS_Subset, LogAssumption, Zenon
<1> QED BY <1>1, FS_AddElement, Zenon

LEMMA RunningEnds ==
    ASSUME NEW p \in Proc, p \in Running, Running' = Running \ {p}
    PROVE  Cardinality(Running)' = Cardinality(Running) - 1
<1>1. IsFiniteSet(Running)
  <2>1. Running \subseteq Proc
    BY Zenon DEF Running
  <2> QED BY <2>1, FS_Subset, LogAssumption, Zenon
<1> QED BY <1>1, FS_RemoveElement, Zenon

LEMMA NoneOf ==
    ASSUME NEW S, S \subseteq Proc
    PROVE  Cardinality(S) = 0 <=> S = {}
<1>1. IsFiniteSet(S)
  BY FS_Subset, LogAssumption, Zenon
<1> QED BY <1>1, FS_EmptySet, Zenon

LEMMA RunningNone == Cardinality(Running) = 0 <=> Running = {}
<1>1. Running \subseteq Proc
  BY Zenon DEF Running
<1> QED BY <1>1, NoneOf, Zenon

LEMMA EmptyLog == <<>> \in Seq(Block) /\ Len(<<>>) = 0
OBVIOUS

(* What the branches of an action change.                                  *)
LEMMA BeginEffect ==
    ASSUME NEW p \in Proc, begin_op(p), ~MustWait
    PROVE  /\ outstanding' = outstanding + 1
           /\ pc' = [pc EXCEPT ![p] = "run"] /\ wrote' = [wrote EXCEPT ![p] = 0]
           /\ UNCHANGED <<home, hdr, logd, cache, lh, committing, cpc, tail>>
BY Zenon DEF begin_op, disk

LEMMA WriteEffect ==
    ASSUME TypeOK, NEW p \in Proc, NEW b \in Block, NEW v \in Val, log_write(p, b, v)
    PROVE  /\ cache' = [cache EXCEPT ![b] = v]
           /\ lh' = lh \/ (~InLog(b) /\ lh' = Append(lh, b))
           /\ lh' \in Seq(Block) /\ Len(lh') <= NLOG - 1
           /\ cpc' = "panic" \/ (cpc' = cpc /\ \E i \in 1..Len(lh') : lh'[i] = b)
           /\ UNCHANGED <<home, hdr, logd, outstanding, committing, pc, tail>>
<1> USE LogAssumption
<1>0. cache' = [cache EXCEPT ![b] = v] /\ UNCHANGED <<home, hdr, logd, outstanding, committing, pc, tail>>
  BY Zenon DEF log_write, disk
<1>1. CASE LogFull
  BY <1>0, <1>1, Zenon DEF log_write, TypeOK
<1>2. CASE ~LogFull
  <2>1. lh' = Record(b) /\ cpc' = cpc
    BY <1>2, Zenon DEF log_write
  <2>2. lh \in Seq(Block) /\ Len(lh) < NLOG - 1
    BY <1>2 DEF TypeOK, LogFull
  <2>3. CASE InLog(b)
    BY <1>0, <2>1, <2>2, <2>3 DEF InLog, Record
  <2>4. CASE ~InLog(b)
    <3>1. lh' = Append(lh, b)
      BY <2>1, <2>4, Zenon DEF Record
    <3>2. lh' \in Seq(Block) /\ Len(lh') = Len(lh) + 1 /\ lh'[Len(lh')] = b
      BY <2>2, <3>1
    <3>3. Len(lh') \in 1..Len(lh') /\ Len(lh') <= NLOG - 1
      BY <2>2, <3>2
    <3> QED BY <1>0, <2>1, <2>4, <3>1, <3>2, <3>3, Zenon
  <2> QED BY <2>3, <2>4, Zenon
<1> QED BY <1>1, <1>2, Zenon

LEMMA InstallEffect ==
    ASSUME TypeOK, InstallBlock
    PROVE  /\ tail \in 1..Len(lh) /\ tail \in LogPos /\ lh[tail] \in Block /\ logd[tail] \in Val
           /\ home' = [home EXCEPT ![lh[tail]] = logd[tail]] /\ home' \in [Block -> Val]
           /\ cache' = [cache EXCEPT ![lh[tail]] = logd[tail]] /\ cache' \in [Block -> Val]
           /\ tail' = tail + 1 /\ tail' \in 1..NLOG
           /\ UNCHANGED <<lh, cpc>>
<1> USE LogAssumption
<1>1. tail \in 1..Len(lh) /\ tail \in LogPos /\ lh[tail] \in Block
  BY DEF TypeOK, InstallBlock, LogPos
<1>2. logd[tail] \in Val
  BY <1>1, Zenon DEF TypeOK
<1> QED BY <1>1, <1>2 DEF TypeOK, InstallBlock, LogPos

(* Type correctness, by action.                                            *)
LEMMA TypeInit == Init => TypeOK
<1> SUFFICES ASSUME Init PROVE TypeOK
  BY Zenon
<1>1. logd \in [LogPos -> Val]
  BY Zenon DEF Init
<1>2. hdr \in Seq(Block) /\ Len(hdr) <= NLOG - 1 /\ lh \in Seq(Block) /\ Len(lh) <= NLOG - 1
  BY EmptyLog, LogAssumption DEF Init
<1>3. wrote \in [Proc -> 0..OPBLOCKS] /\ tail \in 1..NLOG
  BY LogAssumption DEF Init
<1> QED BY <1>1, <1>2, <1>3, Zenon DEF Init, TypeOK, CommitPc, RecoverPc

LEMMA TypeStep == LogInv /\ [Next]_vars => TypeOK'
<1> SUFFICES ASSUME LogInv, [Next]_vars PROVE TypeOK'
  BY Zenon
<1> USE LogAssumption DEF CommitPc, RecoverPc
<1>a. TypeOK
  BY Zenon DEF LogInv
<1>b. Awakened \in [Proc -> {"idle", "begin", "asleep", "run", "commit"}]
  BY <1>a, Zenon DEF Awakened, TypeOK
<1>1. ASSUME NEW p \in Proc, call_begin_op(p) PROVE TypeOK'
  BY <1>a, <1>1, Zenon DEF TypeOK, call_begin_op, disk
<1>2. ASSUME NEW p \in Proc, begin_op(p) PROVE TypeOK'
  <2>1. CASE MustWait
    BY <1>a, <1>2, <2>1, Zenon DEF TypeOK, begin_op, disk
  <2>2. CASE ~MustWait
    <3>0. wrote' = [wrote EXCEPT ![p] = 0]
      BY <1>2, <2>2, BeginEffect, Zenon
    <3>1. wrote' \in [Proc -> 0..OPBLOCKS]
      BY <1>a, <3>0 DEF TypeOK
    <3>2. pc' \in [Proc -> {"idle", "begin", "asleep", "run", "commit"}]
      BY <1>a, <1>2, <2>2, BeginEffect, Zenon DEF TypeOK
    <3> QED BY <1>a, <1>2, <2>2, <3>1, <3>2, BeginEffect DEF TypeOK
  <2> QED BY <2>1, <2>2, Zenon
<1>3. ASSUME NEW p \in Proc, NEW b \in Block, NEW v \in Val, log_write(p, b, v) PROVE TypeOK'
  <2>1. wrote' = wrote \/ (wrote[p] < OPBLOCKS /\ wrote' = [wrote EXCEPT ![p] = @ + 1])
    BY <1>3, Zenon DEF log_write
  <2>2. wrote' \in [Proc -> 0..OPBLOCKS]
    <3>1. wrote \in [Proc -> 0..OPBLOCKS]
      BY <1>a, Zenon DEF TypeOK
    <3>2. wrote[p] < OPBLOCKS => wrote[p] + 1 \in 0..OPBLOCKS
      BY <3>1
    <3> QED BY <2>1, <3>1, <3>2, Zenon
  <2>3. cache' \in [Block -> Val] /\ lh' \in Seq(Block) /\ Len(lh') <= NLOG - 1
    BY <1>a, <1>3, WriteEffect DEF TypeOK
  <2>4. cpc' \in {"panic", cpc} /\ UNCHANGED <<home, hdr, logd, outstanding, committing, pc, tail>>
    BY <1>a, <1>3, WriteEffect, Zenon
  <2> QED BY <1>a, <2>2, <2>3, <2>4, Zenon DEF TypeOK
<1>4. ASSUME NEW b \in Block, evict(b) PROVE TypeOK'
  BY <1>a, <1>4, Zenon DEF TypeOK, evict, disk
<1>5. ASSUME NEW p \in Proc, end_op(p) PROVE TypeOK'
  <2>1. outstanding > 0
    <3>1. p \in Running
      BY <1>5, Zenon DEF end_op, Running
    <3> QED BY <3>1, <1>a, RunningNone DEF LogInv, CommitAlone, TypeOK
  <2>2. outstanding' \in Nat /\ cpc' \in CommitPc \cup RecoverPc \cup {"none", "panic"} /\ tail' \in 1..NLOG
    BY <1>a, <1>5, <2>1 DEF TypeOK, end_op, CommitStart
  <2>3. pc' \in [Proc -> {"idle", "begin", "asleep", "run", "commit"}] /\ committing' \in BOOLEAN
    BY <1>a, <1>b, <1>5, Zenon DEF TypeOK, end_op
  <2> QED BY <1>a, <1>5, <2>2, <2>3, Zenon DEF TypeOK, end_op, disk
<1>6. CASE write_log
  BY <1>a, <1>6, SMTT(30) DEF TypeOK, write_log, LogPos
<1>7. CASE write_head
  BY <1>a, <1>7 DEF TypeOK, write_head
<1>8. CASE install_trans
  <2>1. CASE InstallBlock
    BY <1>a, <1>8, <2>1, InstallEffect, Zenon DEF TypeOK, install_trans
  <2>2. CASE ~InstallBlock
    <3>1. /\ lh' = <<>> /\ tail' = 1 /\ cpc' \in {"clear", "rec_clear"}
          /\ UNCHANGED <<home, cache, hdr, logd, outstanding, committing, pc, wrote>>
      BY <1>8, <2>2, Zenon DEF install_trans
    <3>2. lh' \in Seq(Block) /\ Len(lh') <= NLOG - 1 /\ tail' \in 1..NLOG
      BY <3>1, EmptyLog
    <3> QED BY <1>a, <3>1, <3>2, Zenon DEF TypeOK
  <2> QED BY <2>1, <2>2, Zenon
<1>9. CASE clear_head
  BY <1>a, <1>9 DEF TypeOK, clear_head
<1>10. ASSUME NEW p \in Proc, end_op_done(p) PROVE TypeOK'
  BY <1>a, <1>b, <1>10, Zenon DEF TypeOK, end_op_done, disk
<1>11. CASE crash
  <2>1. lh' \in Seq(Block) /\ Len(lh') <= NLOG - 1
    BY <1>11, EmptyLog DEF crash
  <2>2. wrote' \in [Proc -> 0..OPBLOCKS] /\ tail' \in 1..NLOG
    BY <1>11 DEF crash
  <2> QED BY <1>a, <1>11, <2>1, <2>2, Zenon DEF TypeOK, crash, disk
<1>12. CASE read_head
  BY <1>a, <1>12 DEF TypeOK, read_head, disk
<1>13. CASE recover_install
  <2>1. CASE InstallBlock
    BY <1>a, <1>13, <2>1, InstallEffect, Zenon DEF TypeOK, recover_install
  <2>2. CASE ~InstallBlock
    <3>1. /\ lh' = <<>> /\ tail' = 1 /\ cpc' \in {"clear", "rec_clear"}
          /\ UNCHANGED <<home, cache, hdr, logd, outstanding, committing, pc, wrote>>
      BY <1>13, <2>2, Zenon DEF recover_install
    <3>2. lh' \in Seq(Block) /\ Len(lh') <= NLOG - 1 /\ tail' \in 1..NLOG
      BY <3>1, EmptyLog
    <3> QED BY <1>a, <3>1, <3>2, Zenon DEF TypeOK
  <2> QED BY <2>1, <2>2, Zenon
<1>14. CASE recover_clear
  BY <1>a, <1>14 DEF TypeOK, recover_clear
<1>15. CASE UNCHANGED vars
  BY <1>a, <1>15, Zenon DEF TypeOK, vars, disk
<1> QED
  BY <1>1, <1>2, <1>3, <1>4, <1>5, <1>6, <1>7, <1>8, <1>9, <1>10, <1>11, <1>12, <1>13, <1>14, <1>15, Zenon
  DEF Next, Commit, Recover

(* The count of operations in progress, by action.                         *)
LEMMA CountStep == LogInv /\ [Next]_vars => CommitAlone'
<1> SUFFICES ASSUME LogInv, [Next]_vars PROVE CommitAlone'
  BY Zenon
<1>a. TypeOK /\ CommitAlone /\ PcInv
  BY Zenon DEF LogInv
<1>b. pc \in [Proc -> {"idle", "begin", "asleep", "run", "commit"}]
  BY <1>a, Zenon DEF TypeOK
<1>same. ASSUME Running' = Running, outstanding' = outstanding, committing' => committing
         PROVE  CommitAlone'
  BY <1>a, <1>same, Zenon DEF CommitAlone
<1>c. ASSUME pc' = pc PROVE Running' = Running
  BY <1>c, Zenon DEF Running
<1>d. ASSUME NEW p \in Proc, pc' = [Awakened EXCEPT ![p] = "idle"]
      PROVE  Running' = Running \ {p}
  BY <1>b, <1>d, Zenon DEF Running, Awakened
<1>1. ASSUME NEW p \in Proc, call_begin_op(p) PROVE CommitAlone'
  <2>1. Running' = Running
    BY <1>b, <1>1, Zenon DEF call_begin_op, Running
  <2> QED BY <1>1, <2>1, <1>same, Zenon DEF call_begin_op
<1>2. ASSUME NEW p \in Proc, begin_op(p) PROVE CommitAlone'
  <2>1. CASE MustWait
    <3>1. Running' = Running
      BY <1>b, <1>2, <2>1, Zenon DEF begin_op, Running
    <3> QED BY <1>2, <2>1, <3>1, <1>same, Zenon DEF begin_op
  <2>2. CASE ~MustWait
    <3>1. p \notin Running /\ Running' = Running \cup {p}
      BY <1>b, <1>2, <2>2, Zenon DEF begin_op, Running
    <3>2. Cardinality(Running') = Cardinality(Running) + 1
      BY <3>1, RunningStarts, Zenon
    <3>3. outstanding' = outstanding + 1 /\ ~committing'
      BY <1>2, <2>2, Zenon DEF begin_op, MustWait
    <3> QED BY <1>a, <3>2, <3>3, Zenon DEF CommitAlone
  <2> QED BY <2>1, <2>2, Zenon
<1>3. ASSUME NEW p \in Proc, NEW b \in Block, NEW v \in Val, log_write(p, b, v) PROVE CommitAlone'
  BY <1>3, <1>c, <1>same, Zenon DEF log_write
<1>4. ASSUME NEW b \in Block, evict(b) PROVE CommitAlone'
  BY <1>4, <1>c, <1>same, Zenon DEF evict
<1>5. ASSUME NEW p \in Proc, end_op(p) PROVE CommitAlone'
  <2>1. p \in Running /\ Running' = Running \ {p}
    <3>1. p \in Running
      BY <1>5, Zenon DEF end_op, Running
    <3>2. CASE pc' = [pc EXCEPT ![p] = "commit"]
      BY <1>b, <3>1, <3>2, Zenon DEF Running
    <3> QED BY <1>5, <3>1, <3>2, <1>d, Zenon DEF end_op
  <2>2. Cardinality(Running') = Cardinality(Running) - 1
    BY <2>1, RunningEnds, Zenon
  <2>3. outstanding' = Cardinality(Running')
    BY <1>5, <1>a, <2>2, Zenon DEF CommitAlone, end_op
  <2>4. CASE outstanding' = 0
    <3>1. Running' = {}
      <4>1. Running' \subseteq Proc
        BY Zenon DEF Running
      <4> QED BY <2>3, <2>4, <4>1, NoneOf, Zenon
    <3> QED BY <2>3, <3>1, Zenon DEF CommitAlone
  <2>5. CASE outstanding' # 0
    <3>1. committing' = committing
      BY <1>5, <2>5, Zenon DEF end_op
    <3> QED BY <1>a, <2>1, <2>3, <3>1, Zenon DEF CommitAlone
  <2> QED BY <2>4, <2>5, Zenon
<1>6. CASE write_log
  BY <1>6, <1>c, <1>same, Zenon DEF write_log
<1>7. CASE write_head
  BY <1>7, <1>c, <1>same, Zenon DEF write_head
<1>8. CASE install_trans
  BY <1>8, <1>c, <1>same, Zenon DEF install_trans
<1>9. CASE clear_head
  BY <1>9, <1>c, <1>same, Zenon DEF clear_head
<1>10. ASSUME NEW p \in Proc, end_op_done(p) PROVE CommitAlone'
  <2>1. p \notin Running
    BY <1>10, Zenon DEF end_op_done, Running
  <2>2. Running' = Running
    BY <1>10, <2>1, <1>d, Zenon DEF end_op_done
  <2> QED BY <1>10, <2>2, <1>same, Zenon DEF end_op_done
<1>11. CASE crash
  <2>1. Running' = {} /\ outstanding' = 0
    BY <1>11, Zenon DEF crash, Running
  <2> QED BY <2>1, FS_EmptySet, Zenon DEF CommitAlone
<1>12. CASE read_head
  BY <1>12, <1>c, <1>same, Zenon DEF read_head
<1>13. CASE recover_install
  BY <1>13, <1>c, <1>same, Zenon DEF recover_install
<1>14. CASE recover_clear
  BY <1>14, <1>c, <1>same, Zenon DEF recover_clear
<1>15. CASE UNCHANGED vars
  BY <1>15, <1>c, <1>same, Zenon DEF vars
<1> QED
  BY <1>1, <1>2, <1>3, <1>4, <1>5, <1>6, <1>7, <1>8, <1>9, <1>10, <1>11, <1>12, <1>13, <1>14, <1>15, Zenon
  DEF Next, Commit, Recover

(* Every sleeper has a waker, by action.                                   *)
LEMMA SleepStep == LogInv /\ [Next]_vars => SleepersHaveWaker'
<1> SUFFICES ASSUME LogInv, [Next]_vars PROVE SleepersHaveWaker'
  BY Zenon
<1>a. TypeOK /\ SleepersHaveWaker /\ PcInv
  BY Zenon DEF LogInv
<1>b. pc \in [Proc -> {"idle", "begin", "asleep", "run", "commit"}]
  BY <1>a, Zenon DEF TypeOK
<1>same. ASSUME pc' = pc, outstanding' = outstanding, committing' = committing
         PROVE  SleepersHaveWaker'
  BY <1>a, <1>same, Zenon DEF SleepersHaveWaker
<1>wake. ASSUME NEW p \in Proc, pc' = [Awakened EXCEPT ![p] = "idle"]
         PROVE  SleepersHaveWaker'
  BY <1>b, <1>wake, Zenon DEF SleepersHaveWaker, Awakened
<1>1. ASSUME NEW p \in Proc, call_begin_op(p) PROVE SleepersHaveWaker'
  BY <1>a, <1>b, <1>1, Zenon DEF call_begin_op, SleepersHaveWaker
<1>2. ASSUME NEW p \in Proc, begin_op(p) PROVE SleepersHaveWaker'
  <2>1. CASE MustWait
    <3>1. committing \/ outstanding > 0
      <4>1. SUFFICES ASSUME ~committing, outstanding = 0 PROVE FALSE
        BY <1>a DEF TypeOK
      <4>2. cpc = "none"
        BY <1>a, <1>2, <4>1, Zenon DEF begin_op, Up, PcInv, TypeOK
      <4>3. Len(lh) = 0
        BY <1>a, <4>1, <4>2, EmptyLog, Zenon DEF PcInv
      <4> QED BY <2>1, <4>1, <4>3, LogAssumption DEF MustWait
    <3> QED BY <1>2, <2>1, <3>1, Zenon DEF begin_op, SleepersHaveWaker
  <2>2. CASE ~MustWait
    BY <1>a, <1>b, <1>2, <2>2 DEF begin_op, SleepersHaveWaker, TypeOK
  <2> QED BY <2>1, <2>2, Zenon
<1>3. ASSUME NEW p \in Proc, NEW b \in Block, NEW v \in Val, log_write(p, b, v)
      PROVE  SleepersHaveWaker'
  BY <1>3, <1>same, Zenon DEF log_write
<1>4. ASSUME NEW b \in Block, evict(b) PROVE SleepersHaveWaker'
  BY <1>4, <1>same, Zenon DEF evict
<1>5. ASSUME NEW p \in Proc, end_op(p) PROVE SleepersHaveWaker'
  BY <1>5, <1>wake, Zenon DEF end_op, SleepersHaveWaker
<1>6. CASE write_log
  BY <1>6, <1>same, Zenon DEF write_log
<1>7. CASE write_head
  BY <1>7, <1>same, Zenon DEF write_head
<1>8. CASE install_trans
  BY <1>8, <1>same, Zenon DEF install_trans
<1>9. CASE clear_head
  BY <1>9, <1>same, Zenon DEF clear_head
<1>10. ASSUME NEW p \in Proc, end_op_done(p) PROVE SleepersHaveWaker'
  BY <1>10, <1>wake, Zenon DEF end_op_done
<1>11. CASE crash
  BY <1>11, Zenon DEF crash, SleepersHaveWaker
<1>12. CASE read_head
  BY <1>12, <1>same, Zenon DEF read_head
<1>13. CASE recover_install
  BY <1>13, <1>same, Zenon DEF recover_install
<1>14. CASE recover_clear
  BY <1>14, <1>same, Zenon DEF recover_clear
<1>15. CASE UNCHANGED vars
  BY <1>15, <1>same, Zenon DEF vars
<1> QED
  BY <1>1, <1>2, <1>3, <1>4, <1>5, <1>6, <1>7, <1>8, <1>9, <1>10, <1>11, <1>12, <1>13, <1>14, <1>15, Zenon
  DEF Next, Commit, Recover

(* Which processes and steps a commit or a recovery excludes, by action.   *)
LEMMA PcStep == LogInv /\ [Next]_vars => PcInv'
<1> SUFFICES ASSUME LogInv, [Next]_vars PROVE PcInv'
  BY Zenon
<1>a. TypeOK /\ CommitAlone /\ PcInv
  BY Zenon DEF LogInv
<1>b. pc \in [Proc -> {"idle", "begin", "asleep", "run", "commit"}] /\ outstanding \in Nat
  BY <1>a, Zenon DEF TypeOK
<1> USE DEF CommitPc, RecoverPc
<1>1. ASSUME NEW p \in Proc, call_begin_op(p) PROVE PcInv'
  BY <1>a, <1>b, <1>1, Zenon DEF call_begin_op, PcInv
<1>2. ASSUME NEW p \in Proc, begin_op(p) PROVE PcInv'
  <2>1. CASE MustWait
    BY <1>a, <1>b, <1>2, <2>1, Zenon DEF begin_op, PcInv
  <2>2. CASE ~MustWait
    <3>1. ~committing /\ cpc \notin RecoverPc
      BY <1>2, <2>2, Zenon DEF begin_op, MustWait, Up
    <3> QED BY <1>a, <1>b, <1>2, <2>2, <3>1, BeginEffect DEF PcInv
  <2> QED BY <2>1, <2>2, Zenon
<1>3. ASSUME NEW p \in Proc, NEW b \in Block, NEW v \in Val, log_write(p, b, v) PROVE PcInv'
  <2>1. outstanding # 0
    <3>1. p \in Running
      BY <1>3, Zenon DEF log_write, Running
    <3> QED BY <3>1, <1>a, RunningNone, Zenon DEF CommitAlone
  <2>2. cpc = "none"
    BY <1>3, <1>a, <2>1, Zenon DEF PcInv, TypeOK, log_write, Up
  <2>3. UNCHANGED <<outstanding, committing, pc>> /\ cpc' \in {"none", "panic"}
    BY <1>3, <2>2, Zenon DEF log_write
  <2> QED BY <1>a, <2>1, <2>2, <2>3, Zenon DEF PcInv
<1>4. ASSUME NEW b \in Block, evict(b) PROVE PcInv'
  BY <1>a, <1>4, Zenon DEF evict, PcInv
<1>5. ASSUME NEW p \in Proc, end_op(p) PROVE PcInv'
  <2>1. outstanding # 0
    <3>1. p \in Running
      BY <1>5, Zenon DEF end_op, Running
    <3> QED BY <3>1, <1>a, RunningNone, Zenon DEF CommitAlone
  <2>2. cpc = "none" /\ ~committing
    BY <1>5, <1>a, <2>1, Zenon DEF PcInv, TypeOK, end_op, Up
  <2>3. \A q \in Proc : pc[q] # "commit"
    BY <1>a, <2>2, Zenon DEF PcInv
  <2>4. CASE outstanding' = 0
    BY <1>5, <1>b, <2>3, <2>4, Zenon DEF PcInv, end_op, CommitStart
  <2>5. CASE outstanding' # 0
    <3>1. pc' = [Awakened EXCEPT ![p] = "idle"] /\ UNCHANGED <<committing, cpc>>
      BY <1>5, <2>5, Zenon DEF end_op
    <3>2. \A q \in Proc : pc'[q] # "commit"
      BY <2>3, <3>1, Zenon DEF Awakened
    <3> QED BY <2>2, <2>5, <3>1, <3>2, Zenon DEF PcInv
  <2> QED BY <2>4, <2>5, Zenon
<1>6. CASE write_log
  BY <1>a, <1>6, Zenon DEF write_log, PcInv
<1>7. CASE write_head
  BY <1>a, <1>7, Zenon DEF write_head, PcInv
<1>8. CASE install_trans
  BY <1>a, <1>8, Zenon DEF install_trans, InstallBlock, PcInv
<1>9. CASE clear_head
  BY <1>a, <1>9, Zenon DEF clear_head, PcInv
<1>10. ASSUME NEW p \in Proc, end_op_done(p) PROVE PcInv'
  <2>1. lh = <<>>
    BY <1>10, Zenon DEF LogInv, DiskInv, end_op_done
  <2>2. \A q \in Proc : pc[q] = "commit" => q = p
    BY <1>a, <1>10, Zenon DEF PcInv, end_op_done
  <2>3. \A q \in Proc : pc'[q] # "commit"
    <3>1. pc' = [q \in Proc |-> IF q = p THEN "idle" ELSE Awakened[q]]
      BY <1>10, Zenon DEF end_op_done, Awakened
    <3>2. \A q \in Proc : Awakened[q] \in {"begin", pc[q]}
      BY Zenon DEF Awakened
    <3> QED BY <2>2, <3>1, <3>2, Zenon
  <2>4. lh' = <<>> /\ ~committing' /\ cpc' = "none"
    BY <1>10, <2>1, Zenon DEF end_op_done
  <2> QED BY <2>3, <2>4, Zenon DEF PcInv
<1>11. CASE crash
  BY <1>11, Zenon DEF crash, PcInv
<1>12. CASE read_head
  BY <1>a, <1>12, Zenon DEF read_head, PcInv
<1>13. CASE recover_install
  BY <1>a, <1>13, Zenon DEF recover_install, InstallBlock, PcInv
<1>14. CASE recover_clear
  <2>1. lh = <<>>
    BY <1>14, Zenon DEF LogInv, DiskInv, recover_clear
  <2> QED BY <1>a, <1>14, <2>1, Zenon DEF recover_clear, PcInv
<1>15. CASE UNCHANGED vars
  BY <1>a, <1>15, Zenon DEF vars, PcInv
<1> QED
  BY <1>1, <1>2, <1>3, <1>4, <1>5, <1>6, <1>7, <1>8, <1>9, <1>10, <1>11, <1>12, <1>13, <1>14, <1>15, Zenon
  DEF Next, Commit, Recover

(* The log, the header, the home locations and the cache, by action.       *)
LEMMA DiskStep == LogInv /\ [Next]_vars => DiskInv'
<1> SUFFICES ASSUME LogInv, [Next]_vars PROVE DiskInv'
  BY Zenon
<1>a. TypeOK /\ CommitAlone /\ PcInv /\ DiskInv
  BY Zenon DEF LogInv
<1> USE DEF CommitPc, RecoverPc
<1>same. ASSUME UNCHANGED <<home, hdr, logd, cache, lh, cpc, tail>> PROVE DiskInv'
  BY <1>a, <1>same DEF DiskInv, Injective, InLog, Copied, Installed
<1>0. Injective(<<>>)
  BY EmptyLog DEF Injective
<1>1. ASSUME NEW p \in Proc, call_begin_op(p) PROVE DiskInv'
  BY <1>1, <1>same, Zenon DEF call_begin_op, disk
<1>2. ASSUME NEW p \in Proc, begin_op(p) PROVE DiskInv'
  BY <1>2, <1>same, Zenon DEF begin_op, disk
<1>3. ASSUME NEW p \in Proc, NEW b \in Block, NEW v \in Val, log_write(p, b, v) PROVE DiskInv'
  <2>1. cpc = "none"
    <3>1. p \in Running
      BY <1>3, Zenon DEF log_write, Running
    <3>2. outstanding # 0
      BY <3>1, <1>a, RunningNone, Zenon DEF CommitAlone
    <3> QED BY <1>3, <1>a, <3>2, Zenon DEF PcInv, TypeOK, log_write, Up
  <2>2. Injective(lh')
    <3>1. CASE lh' = lh
      BY <1>a, <3>1, Zenon DEF DiskInv
    <3>2. CASE ~InLog(b) /\ lh' = Append(lh, b)
      BY <1>a, <3>2 DEF DiskInv, Injective, InLog, TypeOK
    <3> QED BY <1>3, <1>a, <3>1, <3>2, WriteEffect, Zenon
  <2>3. hdr = <<>> /\ hdr' = hdr
    BY <1>3, <1>a, <2>1, WriteEffect, Zenon DEF DiskInv
  <2>4. CASE cpc' = "panic"
    BY <1>0, <2>2, <2>3, <2>4, Zenon DEF DiskInv
  <2>5. CASE cpc' = cpc /\ \E i \in 1..Len(lh') : lh'[i] = b
    <3>1. ASSUME NEW c \in Block, \A i \in 1..Len(lh') : lh'[i] # c
          PROVE  cache'[c] = home'[c]
      <4>1. c # b
        BY <2>5, <3>1, Zenon
      <4>2. ~InLog(c)
        <5>1. CASE lh' = lh
          BY <3>1, <5>1, Zenon DEF InLog
        <5>2. CASE lh' = Append(lh, b)
          BY <1>a, <3>1, <5>2 DEF InLog, TypeOK
        <5> QED BY <1>3, <1>a, <5>1, <5>2, WriteEffect, Zenon
      <4>3. cache'[c] = cache[c] /\ home' = home
        BY <1>3, <1>a, <4>1, WriteEffect DEF TypeOK
      <4> QED BY <1>a, <2>1, <4>2, <4>3, Zenon DEF DiskInv
    <3> QED BY <1>0, <2>1, <2>2, <2>3, <2>5, <3>1, Zenon DEF DiskInv, InLog
  <2> QED BY <1>3, <1>a, <2>4, <2>5, WriteEffect, Zenon
<1>4. ASSUME NEW b \in Block, evict(b) PROVE DiskInv'
  <2>1. cache[b] = home[b]
    <3>1. CASE InLog(b)
      <4>1. PICK i \in 1..Len(lh) : lh[i] = b
        BY <3>1, Zenon DEF InLog
      <4>2. cpc = "install" /\ i < tail
        BY <1>4, <4>1, Zenon DEF evict, Pinned
      <4>3. i \in 1..tail - 1
        BY <1>a, <4>1, <4>2 DEF TypeOK
      <4> QED BY <1>a, <4>1, <4>2, <4>3, Zenon DEF DiskInv, Copied, Installed
    <3>2. CASE ~InLog(b)
      BY <1>a, <1>4, <3>2, Zenon DEF DiskInv, evict, Up
    <3> QED BY <3>1, <3>2, Zenon
  <2>2. cache' = cache
    BY <1>4, <1>a, <2>1, Zenon DEF evict, TypeOK
  <2> QED BY <1>4, <2>2, <1>same, Zenon DEF evict, disk
<1>5. ASSUME NEW p \in Proc, end_op(p) PROVE DiskInv'
  <2>1. cpc = "none"
    <3>1. p \in Running
      BY <1>5, Zenon DEF end_op, Running
    <3>2. outstanding # 0
      BY <3>1, <1>a, RunningNone, Zenon DEF CommitAlone
    <3> QED BY <1>5, <1>a, <3>2, Zenon DEF PcInv, TypeOK, end_op, Up
  <2>2. UNCHANGED <<home, hdr, logd, cache, lh>>
    BY <1>5, Zenon DEF end_op, disk
  <2>3. CASE outstanding' = 0
    <3>1. cpc' \in {"write_log", "finish"} /\ tail' = 1 /\ (cpc' = "finish" => lh = <<>>)
      BY <1>5, <2>3, Zenon DEF end_op, CommitStart
    <3>2. 1 <= Len(lh') + 1 /\ \A i \in 1..0 : logd'[i] = cache'[lh'[i]]
      BY <1>a, <2>2 DEF TypeOK
    <3> QED BY <1>a, <2>1, <2>2, <3>1, <3>2 DEF DiskInv, InLog, Injective, Copied
  <2>4. CASE outstanding' # 0
    BY <1>5, <2>2, <2>4, <1>same, Zenon DEF end_op
  <2> QED BY <2>3, <2>4, Zenon
<1>6. CASE write_log
  <2>0. UNCHANGED <<home, hdr, cache, lh>> /\ cpc = "write_log" /\ hdr = <<>>
    BY <1>6, <1>a, Zenon DEF write_log, DiskInv
  <2>a. tail \in 1..NLOG /\ Len(lh) \in Nat /\ Len(lh) <= NLOG - 1 /\ NLOG \in Nat
    BY <1>a, LogAssumption DEF TypeOK
  <2>1. CASE tail <= Len(lh)
    <3>1. logd' = [logd EXCEPT ![tail] = cache[lh[tail]]] /\ tail' = tail + 1 /\ cpc' = cpc
      BY <1>6, <2>1, <2>a DEF write_log
    <3>2. tail \in LogPos /\ tail' <= Len(lh') + 1
      BY <2>a, <2>0, <2>1, <3>1 DEF LogPos
    <3>3. ASSUME NEW i \in 1..tail' - 1 PROVE logd'[i] = cache'[lh'[i]]
      <4>1. CASE i = tail
        BY <1>a, <2>0, <3>1, <3>2, <4>1, Zenon DEF TypeOK
      <4>2. CASE i # tail
        <5>1. i \in 1..tail - 1
          BY <1>a, <3>1, <4>2 DEF TypeOK
        <5>2. logd'[i] = logd[i]
          BY <1>a, <2>1, <3>1, <4>2, <5>1 DEF TypeOK, LogPos
        <5> QED BY <1>a, <2>0, <5>1, <5>2, Zenon DEF DiskInv, Copied
      <4> QED BY <4>1, <4>2, Zenon
    <3> QED BY <1>a, <2>0, <3>1, <3>2, <3>3 DEF DiskInv, Copied, InLog, Injective
  <2>2. CASE tail > Len(lh)
    <3>1. logd' = logd /\ cpc' = "write_head"
      BY <1>6, <2>2, <2>a DEF write_log
    <3>2. tail - 1 = Len(lh)
      BY <1>a, <2>0, <2>2 DEF DiskInv, TypeOK
    <3> QED BY <1>a, <2>0, <3>1, <3>2 DEF DiskInv, Copied, InLog, Injective
  <2> QED BY <1>a, <2>1, <2>2 DEF TypeOK
<1>7. CASE write_head
  <2>0. /\ UNCHANGED <<home, logd, cache, lh>> /\ cpc = "write_head" /\ hdr' = lh
        /\ cpc' = "install" /\ tail' = 1
    BY <1>7, Zenon DEF write_head
  <2>1. 1 <= Len(lh') + 1 /\ \A i \in 1..0 : home'[lh'[i]] = logd'[i]
    BY <1>a, <2>0 DEF TypeOK
  <2> QED BY <1>a, <2>0, <2>1 DEF DiskInv, Copied, Installed, InLog, Injective
<1>8. CASE install_trans
  <2>0. UNCHANGED <<hdr, logd>> /\ cpc = "install" /\ hdr = lh
    BY <1>8, <1>a, Zenon DEF install_trans, DiskInv
  <2>1. CASE InstallBlock
    <3>1. /\ tail \in 1..Len(lh) /\ lh[tail] \in Block
          /\ home' = [home EXCEPT ![lh[tail]] = logd[tail]]
          /\ cache' = [cache EXCEPT ![lh[tail]] = logd[tail]]
          /\ tail' = tail + 1 /\ UNCHANGED <<lh, cpc>>
      BY <1>a, <2>1, InstallEffect, Zenon
    <3>2. cache' = cache
      <4>1. logd[tail] = cache[lh[tail]]
        BY <1>a, <2>0, <3>1, Zenon DEF DiskInv, Copied
      <4>2. cache \in [Block -> Val]
        BY <1>a, Zenon DEF TypeOK
      <4> QED BY <3>1, <4>1, <4>2, Zenon
    <3>3. ASSUME NEW b \in Block, ~InLog(b) PROVE home'[b] = home[b]
      <4>1. b # lh[tail]
        BY <3>1, <3>3, Zenon DEF InLog
      <4>2. home \in [Block -> Val]
        BY <1>a, Zenon DEF TypeOK
      <4> QED BY <3>1, <4>1, <4>2, Zenon
    <3>4. ASSUME NEW i \in 1..tail' - 1 PROVE home'[lh'[i]] = logd'[i]
      <4>1. CASE i = tail
        BY <1>a, <2>0, <3>1, <4>1, Zenon DEF TypeOK
      <4>2. CASE i # tail
        <5>1. i \in 1..tail - 1 /\ i \in 1..Len(lh)
          BY <1>a, <3>1, <4>2 DEF TypeOK
        <5>2. lh[i] # lh[tail]
          BY <1>a, <3>1, <4>2, <5>1, Zenon DEF DiskInv, Injective
        <5>3. lh[i] \in Block
          BY <1>a, <5>1 DEF TypeOK
        <5>4. home'[lh[i]] = home[lh[i]]
          BY <1>a, <3>1, <5>2, <5>3, Zenon DEF TypeOK
        <5> QED BY <1>a, <2>0, <3>1, <5>1, <5>4, Zenon DEF DiskInv, Installed
      <4> QED BY <4>1, <4>2, Zenon
    <3>5. tail' <= Len(lh') + 1
      BY <1>a, <3>1 DEF TypeOK
    <3> QED BY <1>a, <2>0, <3>1, <3>2, <3>3, <3>4, <3>5
            DEF DiskInv, Copied, Installed, InLog, Injective
  <2>2. CASE ~InstallBlock
    <3>1. lh' = <<>> /\ cpc' = "clear" /\ UNCHANGED <<home, cache>> /\ tail > Len(lh)
      BY <1>8, <2>2, Zenon DEF install_trans
    <3>2. tail - 1 = Len(lh)
      BY <1>a, <2>0, <3>1 DEF DiskInv, TypeOK
    <3>3. Installed(lh, Len(lh)) /\ Copied(lh, Len(lh))
      BY <1>a, <2>0, <3>2, Zenon DEF DiskInv
    <3>4. \A b \in Block : cache[b] = home[b]
      <4> SUFFICES ASSUME NEW b \in Block, InLog(b) PROVE cache[b] = home[b]
        BY <1>a, <2>0, Zenon DEF DiskInv
      <4> QED BY <3>3, Zenon DEF InLog, Installed, Copied
    <3>5. Installed(hdr, Len(hdr))'
      BY <2>0, <3>1, <3>3, Zenon DEF Installed
    <3> QED BY <1>0, <1>a, <2>0, <3>1, <3>4, <3>5, Zenon DEF DiskInv
  <2> QED BY <2>1, <2>2, Zenon
<1>9. CASE clear_head
  <2>0. /\ UNCHANGED <<home, logd, cache, lh>> /\ cpc = "clear" /\ hdr' = lh /\ cpc' = "finish"
        /\ lh = <<>>
    BY <1>9, <1>a, Zenon DEF clear_head, DiskInv
  <2> QED BY <1>0, <1>a, <2>0, Zenon DEF DiskInv, InLog
<1>10. ASSUME NEW p \in Proc, end_op_done(p) PROVE DiskInv'
  <2>0. UNCHANGED <<home, hdr, logd, cache, lh>> /\ cpc = "finish" /\ cpc' = "none"
    BY <1>10, Zenon DEF end_op_done, disk
  <2> QED BY <1>a, <2>0, Zenon DEF DiskInv, InLog
<1>11. CASE crash
  <2>0. UNCHANGED <<home, hdr, logd>> /\ cache' = home /\ lh' = <<>> /\ cpc' = "recover"
    BY <1>11, Zenon DEF crash, disk
  <2> QED BY <1>0, <1>a, <2>0, Zenon DEF DiskInv, InLog
<1>12. CASE read_head
  <2>0. /\ UNCHANGED <<home, hdr, logd, cache>> /\ cpc = "recover" /\ lh' = hdr
        /\ cpc' = "rec_install" /\ tail' = 1
    BY <1>12, Zenon DEF read_head, disk
  <2>1. 1 <= Len(lh') + 1 /\ \A i \in 1..0 : home'[lh'[i]] = logd'[i]
    BY <1>a, <2>0 DEF TypeOK
  <2>2. Installed(lh, tail - 1)'
    BY <2>0, <2>1 DEF Installed
  <2> QED BY <1>a, <2>0, <2>1, <2>2, Zenon DEF DiskInv, InLog
<1>13. CASE recover_install
  <2>0. UNCHANGED <<hdr, logd>> /\ cpc = "rec_install" /\ hdr = lh /\ cache = home
    BY <1>13, <1>a, Zenon DEF recover_install, DiskInv
  <2>1. CASE InstallBlock
    <3>1. /\ tail \in 1..Len(lh) /\ lh[tail] \in Block
          /\ home' = [home EXCEPT ![lh[tail]] = logd[tail]]
          /\ cache' = [cache EXCEPT ![lh[tail]] = logd[tail]]
          /\ tail' = tail + 1 /\ UNCHANGED <<lh, cpc>>
      BY <1>a, <2>1, InstallEffect, Zenon
    <3>2. cache' = home'
      BY <2>0, <3>1, Zenon
    <3>4. ASSUME NEW i \in 1..tail' - 1 PROVE home'[lh'[i]] = logd'[i]
      <4>1. CASE i = tail
        BY <1>a, <2>0, <3>1, <4>1, Zenon DEF TypeOK
      <4>2. CASE i # tail
        <5>1. i \in 1..tail - 1 /\ i \in 1..Len(lh)
          BY <1>a, <3>1, <4>2 DEF TypeOK
        <5>2. lh[i] # lh[tail]
          BY <1>a, <3>1, <4>2, <5>1, Zenon DEF DiskInv, Injective
        <5>3. lh[i] \in Block
          BY <1>a, <5>1 DEF TypeOK
        <5>4. home'[lh[i]] = home[lh[i]]
          BY <1>a, <3>1, <5>2, <5>3, Zenon DEF TypeOK
        <5> QED BY <1>a, <2>0, <3>1, <5>1, <5>4, SMTT(30) DEF DiskInv, Installed
      <4> QED BY <4>1, <4>2, Zenon
    <3>5. tail' <= Len(lh') + 1
      BY <1>a, <3>1 DEF TypeOK
    <3> QED BY <1>a, <2>0, <3>1, <3>2, <3>4, <3>5, Zenon DEF DiskInv, Installed
  <2>2. CASE ~InstallBlock
    <3>1. lh' = <<>> /\ cpc' = "rec_clear" /\ UNCHANGED <<home, cache>> /\ tail > Len(lh)
      BY <1>13, <2>2, Zenon DEF recover_install
    <3>2. tail - 1 = Len(lh)
      BY <1>a, <2>0, <3>1 DEF DiskInv, TypeOK
    <3>3. Installed(lh, Len(lh))
      BY <1>a, <2>0, <3>2, Zenon DEF DiskInv
    <3>5. Installed(hdr, Len(hdr))'
      BY <2>0, <3>1, <3>3, Zenon DEF Installed
    <3> QED BY <1>0, <1>a, <2>0, <3>1, <3>5, Zenon DEF DiskInv
  <2> QED BY <2>1, <2>2, Zenon
<1>14. CASE recover_clear
  <2>0. /\ UNCHANGED <<home, logd, cache, lh>> /\ cpc = "rec_clear" /\ hdr' = lh /\ cpc' = "none"
        /\ lh = <<>>
    BY <1>14, <1>a, Zenon DEF recover_clear, DiskInv
  <2> QED BY <1>0, <1>a, <2>0, Zenon DEF DiskInv, InLog
<1>15. CASE UNCHANGED vars
  BY <1>15, <1>same, Zenon DEF vars, disk
<1> QED
  BY <1>1, <1>2, <1>3, <1>4, <1>5, <1>6, <1>7, <1>8, <1>9, <1>10, <1>11, <1>12, <1>13, <1>14, <1>15, Zenon
  DEF Next, Commit, Recover

-----------------------------------------------------------------------------
(* Room in the log for the operations that begin_op() has admitted.        *)

(* Operations r that have made w[p] log_write()s each may make at most     *)
(* MAXOPBLOCKS more.                                                       *)
LEMMA ReservedBound ==
    ASSUME NEW r, r \subseteq Proc, NEW w, NEW S, S = {x \in r \X (1..MAXOPBLOCKS) : w[x[1]] < x[2]}
    PROVE  /\ IsFiniteSet(S) /\ Cardinality(S) \in Nat
           /\ Cardinality(S) <= Cardinality(r) * MAXOPBLOCKS
           /\ r = {} => Cardinality(S) = 0
<1>1. IsFiniteSet(r) /\ IsFiniteSet(1..MAXOPBLOCKS)
  BY FS_Subset, FS_Interval, LogAssumption
<1>2. Cardinality(1..MAXOPBLOCKS) = MAXOPBLOCKS
  BY FS_Interval, LogAssumption
<1>3. /\ IsFiniteSet(r \X (1..MAXOPBLOCKS))
      /\ Cardinality(r \X (1..MAXOPBLOCKS)) = Cardinality(r) * Cardinality(1..MAXOPBLOCKS)
  BY <1>1, FS_Product, Zenon
<1>4. S \subseteq r \X (1..MAXOPBLOCKS)
  BY Zenon
<1>5. IsFiniteSet(S) /\ Cardinality(S) <= Cardinality(r \X (1..MAXOPBLOCKS))
  BY <1>3, <1>4, FS_Subset, Zenon
<1>6. Cardinality(S) \in Nat
  BY <1>5, FS_CardinalityType, Zenon
<1>7. ASSUME r = {} PROVE Cardinality(S) = 0
  <2>1. S = {}
    BY <1>4, <1>7, Zenon
  <2> QED BY <2>1, FS_EmptySet, Zenon
<1> QED BY <1>2, <1>3, <1>5, <1>6, <1>7, Zenon

(* A step that reserves nothing and records nothing.                       *)
LEMMA RoomKept ==
    ASSUME LogInv, Reserved' \subseteq Reserved, lh' = lh \/ lh' = <<>>, Up' => Up
    PROVE  RoomLeft'
<1> SUFFICES ASSUME Up' PROVE Len(lh') + Cardinality(Reserved') <= LOGSIZE
  BY Zenon DEF RoomLeft
<1>1. Running \subseteq Proc /\ Running' \subseteq Proc
  BY Zenon DEF Running
<1>2. IsFiniteSet(Reserved) /\ Cardinality(Reserved) \in Nat /\ Cardinality(Reserved') \in Nat
  BY <1>1, ReservedBound, Zenon DEF Reserved
<1>3. Cardinality(Reserved') <= Cardinality(Reserved)
  BY <1>2, FS_Subset, Zenon
<1>4. Len(lh) \in Nat /\ Len(lh') \in Nat /\ Len(lh') <= Len(lh)
  BY EmptyLog DEF LogInv, TypeOK
<1>5. Len(lh) + Cardinality(Reserved) <= LOGSIZE
  BY Zenon DEF LogInv, RoomLeft
<1> QED BY <1>2, <1>3, <1>4, <1>5, LogAssumption

(* The reservations by action.  begin_op() reserves MAXOPBLOCKS for every  *)
(* operation in progress, log_write() uses up one reservation.             *)
LEMMA RoomStep == LogInv /\ [Next]_vars => RoomLeft'
<1> SUFFICES ASSUME LogInv, [Next]_vars PROVE RoomLeft'
  BY Zenon
<1>a. TypeOK /\ CommitAlone /\ PcInv /\ DiskInv /\ RoomLeft
  BY Zenon DEF LogInv
<1>b. pc \in [Proc -> {"idle", "begin", "asleep", "run", "commit"}]
  BY <1>a, Zenon DEF TypeOK
<1>c. ASSUME Running' \subseteq Running, wrote' = wrote PROVE Reserved' \subseteq Reserved
  BY <1>c, Zenon DEF Reserved
<1>d. ASSUME NEW p \in Proc, pc' = [Awakened EXCEPT ![p] = "idle"]
      PROVE  Running' \subseteq Running
  BY <1>b, <1>d, Zenon DEF Running, Awakened
<1>e. ASSUME pc' = pc PROVE Running' = Running
  BY <1>e, Zenon DEF Running
<1>same. ASSUME Running' \subseteq Running, wrote' = wrote, lh' = lh \/ lh' = <<>>, Up' => Up
         PROVE  RoomLeft'
  BY <1>same, <1>c, RoomKept, Zenon
<1>1. ASSUME NEW p \in Proc, call_begin_op(p) PROVE RoomLeft'
  <2>1. Running' \subseteq Running
    BY <1>b, <1>1, Zenon DEF call_begin_op, Running
  <2> QED BY <1>1, <2>1, <1>same, Zenon DEF call_begin_op, Up
<1>2. ASSUME NEW p \in Proc, begin_op(p) PROVE RoomLeft'
  <2>1. CASE MustWait
    <3>1. Running' \subseteq Running
      BY <1>b, <1>2, <2>1, Zenon DEF begin_op, Running
    <3> QED BY <1>2, <2>1, <3>1, <1>same, Zenon DEF begin_op, Up
  <2>2. CASE ~MustWait
    <3>1. p \notin Running /\ Running' = Running \cup {p}
      BY <1>b, <1>2, <2>2, Zenon DEF begin_op, Running
    <3>2. Cardinality(Running') = outstanding + 1
      BY <1>a, <3>1, RunningStarts, Zenon DEF CommitAlone
    <3>3. Running' \subseteq Proc
      BY Zenon DEF Running
    <3>4. /\ Cardinality(Reserved') \in Nat
          /\ Cardinality(Reserved') <= Cardinality(Running') * MAXOPBLOCKS
      BY <3>3, ReservedBound, Zenon DEF Reserved
    <3>5. lh' = lh /\ Len(lh) \in Nat /\ outstanding \in Nat
      <4>1. lh' = lh /\ lh \in Seq(Block) /\ outstanding \in Nat
        BY <1>2, <1>a, Zenon DEF begin_op, TypeOK
      <4> QED BY <4>1
    <3>6. Len(lh) + (outstanding + 1) * MAXOPBLOCKS <= LOGSIZE
      BY <2>2, <3>5, LogAssumption DEF MustWait
    <3>7. Len(lh') + Cardinality(Reserved') <= LOGSIZE
      BY <3>2, <3>4, <3>5, <3>6, LogAssumption
    <3> QED BY <3>7, Zenon DEF RoomLeft
  <2> QED BY <2>1, <2>2, Zenon
<1>3. ASSUME NEW p \in Proc, NEW b \in Block, NEW v \in Val, log_write(p, b, v) PROVE RoomLeft'
  <2>1. CASE LogFull
    <3>1. ~Up'
      BY <1>3, <2>1, Zenon DEF log_write, Up
    <3> QED BY <3>1, Zenon DEF RoomLeft
  <2>3. CASE ~LogFull /\ InLog(b)
    <3>1. Up /\ lh' = lh /\ wrote' = wrote /\ Running' = Running
      BY <1>3, <1>e, <2>3, Zenon DEF log_write, Record
    <3> QED BY <3>1, <1>same, Zenon
  <2>2. CASE ~LogFull /\ ~InLog(b)
    <3>1. /\ Up /\ p \in Running /\ wrote[p] < OPBLOCKS /\ lh' = Record(b)
          /\ wrote' = [wrote EXCEPT ![p] = @ + 1] /\ Running' = Running
      BY <1>3, <1>e, <2>2, Zenon DEF log_write, Running
    <3>2. Running \subseteq Proc /\ wrote \in [Proc -> 0..OPBLOCKS]
      BY <1>a, Zenon DEF Running, TypeOK
    <3>3. PICK n \in 0..OPBLOCKS : n = wrote[p] /\ n < OPBLOCKS /\ wrote'[p] = n + 1
      BY <3>1, <3>2, Zenon
    <3>4. <<p, n + 1>> \in Reserved
      <4>1. n + 1 \in 1..MAXOPBLOCKS /\ n < n + 1
        BY <3>3, LogAssumption
      <4> QED BY <3>1, <3>3, <4>1 DEF Reserved
    <3>5. Reserved' \subseteq Reserved \ {<<p, n + 1>>}
      <4> SUFFICES ASSUME NEW q \in Running, NEW i \in 1..MAXOPBLOCKS, wrote'[q] < i
                   PROVE  wrote[q] < i /\ <<q, i>> # <<p, n + 1>>
        BY <3>1 DEF Reserved
      <4>1. CASE q = p
        BY <3>3, <4>1, LogAssumption
      <4>2. CASE q # p
        BY <3>1, <3>2, <4>2, Zenon
      <4> QED BY <4>1, <4>2, Zenon
    <3>6. IsFiniteSet(Reserved) /\ Cardinality(Reserved) \in Nat /\ Cardinality(Reserved') \in Nat
      <4>1. Running' \subseteq Proc
        BY <3>1, <3>2, Zenon
      <4> QED BY <3>2, <4>1, ReservedBound, Zenon DEF Reserved
    <3>7. /\ IsFiniteSet(Reserved \ {<<p, n + 1>>})
          /\ Cardinality(Reserved \ {<<p, n + 1>>}) = Cardinality(Reserved) - 1
      BY <3>4, <3>6, FS_RemoveElement, Zenon
    <3>8. Cardinality(Reserved') <= Cardinality(Reserved) - 1
      <4>1. Cardinality(Reserved') <= Cardinality(Reserved \ {<<p, n + 1>>})
        BY <3>5, <3>7, FS_Subset, Zenon
      <4> QED BY <3>7, <4>1, Zenon
    <3>9. Len(lh') \in Nat /\ Len(lh) \in Nat /\ Len(lh') <= Len(lh) + 1
      <4>1. lh \in Seq(Block)
        BY <1>a, Zenon DEF TypeOK
      <4> QED BY <3>1, <4>1 DEF Record
    <3>10. Len(lh) + Cardinality(Reserved) <= LOGSIZE
      BY <1>a, <3>1, Zenon DEF RoomLeft
    <3>11. Len(lh') + Cardinality(Reserved') <= LOGSIZE
      BY <3>6, <3>8, <3>9, <3>10, LogAssumption
    <3> QED BY <3>11, Zenon DEF RoomLeft
  <2> QED BY <2>1, <2>2, <2>3, Zenon
<1>4. ASSUME NEW b \in Block, evict(b) PROVE RoomLeft'
  BY <1>4, <1>e, <1>same, Zenon DEF evict, Up
<1>5. ASSUME NEW p \in Proc, end_op(p) PROVE RoomLeft'
  <2>1. Running' \subseteq Running
    <3>1. CASE pc' = [pc EXCEPT ![p] = "commit"]
      BY <1>b, <3>1, Zenon DEF Running
    <3> QED BY <1>5, <3>1, <1>d, Zenon DEF end_op
  <2> QED BY <1>5, <2>1, <1>same, Zenon DEF end_op
<1>6. CASE write_log
  BY <1>6, <1>e, <1>same, Zenon DEF write_log, Up, RecoverPc
<1>7. CASE write_head
  BY <1>7, <1>e, <1>same, Zenon DEF write_head, Up, RecoverPc
<1>8. CASE install_trans
  BY <1>8, <1>e, <1>same, Zenon DEF install_trans, InstallBlock, Up, RecoverPc
<1>9. CASE clear_head
  BY <1>9, <1>e, <1>same, Zenon DEF clear_head, Up, RecoverPc
<1>10. ASSUME NEW p \in Proc, end_op_done(p) PROVE RoomLeft'
  BY <1>10, <1>d, <1>same, Zenon DEF end_op_done, Up, RecoverPc
<1>11. CASE crash
  BY <1>11, Zenon DEF crash, RoomLeft, Up, RecoverPc
<1>12. CASE read_head
  BY <1>12, Zenon DEF read_head, RoomLeft, Up, RecoverPc
<1>13. CASE recover_install
  BY <1>13, Zenon DEF recover_install, InstallBlock, RoomLeft, Up, RecoverPc
<1>14. CASE recover_clear
  <2>1. lh' = <<>> /\ outstanding = 0 /\ Running' = Running
    BY <1>14, <1>a, <1>e, Zenon DEF recover_clear, DiskInv, PcInv, RecoverPc
  <2>2. Running' = {} /\ Running' \subseteq Proc
    BY <1>a, <2>1, RunningNone, Zenon DEF CommitAlone
  <2>3. Cardinality(Reserved') = 0
    BY <2>2, ReservedBound, Zenon DEF Reserved
  <2>4. Len(lh') + Cardinality(Reserved') <= LOGSIZE
    BY <2>1, <2>3, EmptyLog, LogAssumption
  <2> QED BY <2>4, Zenon DEF RoomLeft
<1>15. CASE UNCHANGED vars
  BY <1>15, <1>e, <1>same, Zenon DEF vars, Up
<1> QED
  BY <1>1, <1>2, <1>3, <1>4, <1>5, <1>6, <1>7, <1>8, <1>9, <1>10, <1>11, <1>12, <1>13, <1>14, <1>15, Zenon
  DEF Next, Commit, Recover

(* Another operation than that of q leaves at least the last block of its  *)
(* share unused, if no operation needs it.                                 *)
LEMMA TwoShares ==
    ASSUME LogInv, Up, OPBLOCKS < MAXOPBLOCKS, NEW p \in Running, NEW q \in Running, p # q
    PROVE  Len(lh) + (MAXOPBLOCKS - wrote[q]) < LOGSIZE
<1>1. Running \subseteq Proc /\ wrote \in [Proc -> 0..OPBLOCKS] /\ lh \in Seq(Block)
  BY Zenon DEF Running, LogInv, TypeOK
<1>2. PICK n \in 0..OPBLOCKS : n = wrote[q]
  BY <1>1, Zenon
<1>3. PICK m \in 0..OPBLOCKS : m = wrote[p]
  BY <1>1, Zenon
<1>4. /\ IsFiniteSet(Reserved) /\ Cardinality(Reserved) \in Nat
      /\ Len(lh) + Cardinality(Reserved) <= LOGSIZE
  BY <1>1, ReservedBound, Zenon DEF Reserved, LogInv, RoomLeft
<1>d. PICK D : D = {q} \X ((n + 1)..MAXOPBLOCKS)
  BY Zenon
<1>5. IsFiniteSet(D) /\ Cardinality(D) = MAXOPBLOCKS - n
  <2>1. n + 1 \in Int /\ MAXOPBLOCKS \in Int /\ n + 1 <= MAXOPBLOCKS
    BY LogAssumption
  <2>2. /\ IsFiniteSet((n + 1)..MAXOPBLOCKS)
        /\ Cardinality((n + 1)..MAXOPBLOCKS) = MAXOPBLOCKS - (n + 1) + 1
    BY <2>1, FS_Interval
  <2>3. IsFiniteSet({q}) /\ Cardinality({q}) = 1
    BY FS_Singleton, Zenon
  <2>4. IsFiniteSet(D) /\ Cardinality(D) = Cardinality({q}) * Cardinality((n + 1)..MAXOPBLOCKS)
    BY <1>d, <2>2, <2>3, FS_Product, Zenon
  <2> QED BY <2>2, <2>3, <2>4, LogAssumption
<1>6. <<p, MAXOPBLOCKS>> \notin D
  BY <1>d, Zenon
<1>7. D \cup {<<p, MAXOPBLOCKS>>} \subseteq Reserved
  <2>1. ASSUME NEW i \in (n + 1)..MAXOPBLOCKS PROVE <<q, i>> \in Reserved
    <3>1. i \in 1..MAXOPBLOCKS /\ n < i
      BY LogAssumption
    <3> QED BY <1>2, <3>1 DEF Reserved
  <2>2. <<p, MAXOPBLOCKS>> \in Reserved
    <3>1. MAXOPBLOCKS \in 1..MAXOPBLOCKS /\ m < MAXOPBLOCKS
      BY LogAssumption
    <3> QED BY <1>3, <3>1 DEF Reserved
  <2>3. \A x \in D : \E i \in (n + 1)..MAXOPBLOCKS : x = <<q, i>>
    BY <1>d
  <2>4. D \subseteq Reserved
    BY <2>1, <2>3
  <2> QED BY <2>2, <2>4, Zenon
<1>8. Cardinality(D \cup {<<p, MAXOPBLOCKS>>}) = Cardinality(D) + 1
  BY <1>5, <1>6, FS_AddElement, Zenon
<1>9. Cardinality(D \cup {<<p, MAXOPBLOCKS>>}) <= Cardinality(Reserved)
  BY <1>4, <1>7, FS_Subset, Zenon
<1>10. Len(lh) \in Nat
  BY <1>1
<1> QED BY <1>2, <1>4, <1>5, <1>8, <1>9, <1>10, LogAssumption

(* The last operation in progress, by action.                              *)
LEMMA AloneStep == LogInv /\ [Next]_vars => RoomAlone'
<1> SUFFICES ASSUME LogInv, [Next]_vars PROVE RoomAlone'
  BY Zenon
<1>a. TypeOK /\ CommitAlone /\ PcInv /\ RoomAlone
  BY Zenon DEF LogInv
<1>b. /\ pc \in [Proc -> {"idle", "begin", "asleep", "run", "commit"}]
      /\ wrote \in [Proc -> 0..OPBLOCKS] /\ lh \in Seq(Block)
  BY <1>a, Zenon DEF TypeOK
<1>d. ASSUME NEW p \in Proc, pc' = [Awakened EXCEPT ![p] = "idle"]
      PROVE  Running' = Running \ {p}
  BY <1>b, <1>d, Zenon DEF Running, Awakened
<1>e. ASSUME pc' = pc PROVE Running' = Running
  BY <1>e, Zenon DEF Running
<1>same. ASSUME Running' = Running, wrote' = wrote, lh' = lh, Up' => Up
         PROVE  RoomAlone'
  BY <1>a, <1>same, Zenon DEF RoomAlone
<1>none. ASSUME Running' = {} PROVE RoomAlone'
  BY <1>none, Zenon DEF RoomAlone
<1>1. ASSUME NEW p \in Proc, call_begin_op(p) PROVE RoomAlone'
  <2>1. Running' = Running
    BY <1>b, <1>1, Zenon DEF call_begin_op, Running
  <2> QED BY <1>1, <2>1, <1>same, Zenon DEF call_begin_op, Up
<1>2. ASSUME NEW p \in Proc, begin_op(p) PROVE RoomAlone'
  <2>1. CASE MustWait
    <3>1. Running' = Running
      BY <1>b, <1>2, <2>1, Zenon DEF begin_op, Running
    <3> QED BY <1>2, <2>1, <3>1, <1>same, Zenon DEF begin_op, Up
  <2>2. CASE ~MustWait
    <3>1. p \notin Running /\ Running' = Running \cup {p} /\ lh' = lh /\ wrote'[p] = 0
      BY <1>b, <1>2, <2>2, Zenon DEF begin_op, Running
    <3> SUFFICES ASSUME NEW q \in Proc, Running' = {q} PROVE Len(lh') <= wrote'[q]
      BY Zenon DEF RoomAlone
    <3>2. q = p /\ Running = {}
      BY <3>1, Zenon
    <3>3. outstanding = 0 /\ cpc = "none"
      <4>1. outstanding = 0
        BY <1>a, <3>2, RunningNone, Zenon DEF CommitAlone
      <4>2. Up /\ ~committing
        BY <1>2, <2>2, Zenon DEF begin_op, MustWait
      <4> QED BY <1>a, <4>1, <4>2, Zenon DEF Up, PcInv, TypeOK
    <3>4. Len(lh') = 0
      BY <1>a, <3>1, <3>3, EmptyLog, Zenon DEF PcInv
    <3> QED BY <3>1, <3>2, <3>4
  <2> QED BY <2>1, <2>2, Zenon
<1>3. ASSUME NEW p \in Proc, NEW b \in Block, NEW v \in Val, log_write(p, b, v) PROVE RoomAlone'
  <2>1. CASE LogFull
    <3>1. ~Up'
      BY <1>3, <2>1, Zenon DEF log_write, Up
    <3> QED BY <3>1, Zenon DEF RoomAlone
  <2>2. CASE ~LogFull /\ InLog(b)
    <3>1. Up /\ lh' = lh /\ wrote' = wrote /\ Running' = Running
      BY <1>3, <1>e, <2>2, Zenon DEF log_write, Record
    <3> QED BY <3>1, <1>same, Zenon
  <2>3. CASE ~LogFull /\ ~InLog(b)
    <3>1. /\ Up /\ p \in Running /\ lh' = Append(lh, b)
          /\ wrote' = [wrote EXCEPT ![p] = @ + 1] /\ Running' = Running
      BY <1>3, <1>e, <2>3, Zenon DEF log_write, Running, Record
    <3> SUFFICES ASSUME NEW q \in Proc, Running' = {q}
                 PROVE  \/ OPBLOCKS < MAXOPBLOCKS => Len(lh') + (MAXOPBLOCKS - wrote'[q]) < LOGSIZE
                        \/ Len(lh') <= wrote'[q]
      BY Zenon DEF RoomAlone
    <3>2. q = p /\ Running = {p}
      BY <3>1, Zenon
    <3>3. PICK n \in 0..OPBLOCKS : n = wrote[p] /\ wrote'[p] = n + 1
      BY <1>b, <3>1, Zenon
    <3>4. \/ OPBLOCKS < MAXOPBLOCKS => Len(lh) + (MAXOPBLOCKS - n) < LOGSIZE
          \/ Len(lh) <= n
      BY <1>a, <3>1, <3>2, <3>3, Zenon DEF RoomAlone
    <3>5. Len(lh) \in Nat /\ Len(lh') = Len(lh) + 1
      BY <1>b, <3>1
    <3> QED BY <3>2, <3>3, <3>4, <3>5, LogAssumption
  <2> QED BY <2>1, <2>2, <2>3, Zenon
<1>4. ASSUME NEW b \in Block, evict(b) PROVE RoomAlone'
  BY <1>4, <1>e, <1>same, Zenon DEF evict, Up
<1>5. ASSUME NEW p \in Proc, end_op(p) PROVE RoomAlone'
  <2>1. Running' = Running \ {p} /\ p \in Running
    <3>1. CASE pc' = [pc EXCEPT ![p] = "commit"]
      BY <1>b, <1>5, <3>1, Zenon DEF Running, end_op
    <3>2. p \in Running
      BY <1>5, Zenon DEF end_op, Running
    <3> QED BY <1>5, <3>1, <3>2, <1>d, Zenon DEF end_op
  <2>2. lh' = lh /\ wrote' = wrote /\ Up
    BY <1>5, Zenon DEF end_op
  <2> SUFFICES ASSUME NEW q \in Proc, Running' = {q}, OPBLOCKS < MAXOPBLOCKS
               PROVE  Len(lh) + (MAXOPBLOCKS - wrote[q]) < LOGSIZE
    BY <2>2, Zenon DEF RoomAlone
  <2>3. q \in Running /\ p # q
    BY <2>1, Zenon
  <2> QED BY <2>1, <2>2, <2>3, TwoShares, Zenon
<1>6. ASSUME cpc \in CommitPc, pc' = pc PROVE RoomAlone'
  <2>1. Running' = {}
    BY <1>6, <1>a, <1>e, Zenon DEF PcInv, CommitAlone
  <2> QED BY <2>1, <1>none, Zenon
<1>7. CASE write_log \/ write_head \/ install_trans \/ clear_head
  <2>1. cpc \in CommitPc /\ pc' = pc
    BY <1>7, Zenon DEF write_log, write_head, install_trans, clear_head, CommitPc
  <2> QED BY <1>6, <2>1, Zenon
<1>10. ASSUME NEW p \in Proc, end_op_done(p) PROVE RoomAlone'
  <2>1. Running = {} /\ Running' = Running \ {p}
    BY <1>10, <1>a, <1>d, Zenon DEF end_op_done, PcInv, CommitAlone, CommitPc
  <2> QED BY <2>1, <1>none, Zenon
<1>11. CASE crash
  BY <1>11, Zenon DEF crash, RoomAlone, Up, RecoverPc
<1>12. CASE read_head
  BY <1>12, Zenon DEF read_head, RoomAlone, Up, RecoverPc
<1>13. CASE recover_install
  BY <1>13, Zenon DEF recover_install, InstallBlock, RoomAlone, Up, RecoverPc
<1>14. CASE recover_clear
  <2>1. outstanding = 0 /\ Running' = Running
    BY <1>14, <1>a, <1>e, Zenon DEF recover_clear, PcInv, RecoverPc
  <2>2. Running' = {}
    BY <1>a, <2>1, RunningNone, Zenon DEF CommitAlone
  <2> QED BY <2>2, <1>none, Zenon
<1>15. CASE UNCHANGED vars
  BY <1>15, <1>e, <1>same, Zenon DEF vars, Up
<1> QED
  BY <1>1, <1>2, <1>3, <1>4, <1>5, <1>7, <1>10, <1>11, <1>12, <1>13, <1>14, <1>15, Zenon
  DEF Next, Commit, Recover

-----------------------------------------------------------------------------
(* The first state satisfies the invariant.                                *)
LEMMA InitInv == Init => LogInv
<1> SUFFICES ASSUME Init PROVE LogInv
  BY Zenon
<1>1. TypeOK
  BY TypeInit, Zenon
<1>2. CommitAlone
  <2>1. Running = {}
    BY Zenon DEF Init, Running
  <2> QED BY <2>1, FS_EmptySet, Zenon DEF Init, CommitAlone
<1>3. SleepersHaveWaker /\ PcInv
  BY Zenon DEF Init, SleepersHaveWaker, PcInv, CommitPc, RecoverPc
<1>4. Injective(<<>>)
  BY EmptyLog DEF Injective
<1>5. DiskInv
  BY <1>4, Zenon DEF Init, DiskInv, InLog, CommitPc, RecoverPc
<1>6. RoomLeft
  <2>1. Running = {} /\ Running \subseteq Proc
    BY Zenon DEF Init, Running
  <2>2. Cardinality(Reserved) = 0
    BY <2>1, ReservedBound, Zenon DEF Reserved
  <2>3. lh = <<>>
    BY Zenon DEF Init
  <2> QED BY <2>2, <2>3, EmptyLog, LogAssumption DEF RoomLeft
<1>7. RoomAlone
  BY Zenon DEF Init, Running, RoomAlone
<1> QED BY <1>1, <1>2, <1>3, <1>5, <1>6, <1>7, Zenon DEF LogInv

(* LogInv holds in every reachable state: which parts of the log, of its   *)
(* header and of the home locations agree at each step of commit() and of  *)
(* recover_from_log(), wherever crashes fall.                              *)
THEOREM LogInvariant == Spec => []LogInv
<1>1. LogInv /\ [Next]_vars => LogInv'
  BY TypeStep, CountStep, SleepStep, PcStep, DiskStep, RoomStep, AloneStep, Zenon DEF LogInv
<1> QED BY <1>1, InitInv, PTL DEF Spec

(* The variables keep their types; in particular the header never counts   *)
(* more blocks than the on-disk log has (log_write's check suffices).      *)
THEOREM TypeCorrect == Spec => []TypeOK
<1>1. LogInv => TypeOK
  BY Zenon DEF LogInv
<1> QED BY <1>1, LogInvariant, PTL

(* commit() runs alone and outstanding is exact (begin_op, end_op).        *)
THEOREM CommitRunsAlone == Spec => []CommitAlone
<1>1. LogInv => CommitAlone
  BY Zenon DEF LogInv
<1> QED BY <1>1, LogInvariant, PTL

(* On the log that mkfs makes, which holds one block less than the LOGSIZE *)
(* that begin_op() counts with, log_write() never finds the log full, not  *)
(* even for a block that is in it, if every operation leaves one block of  *)
(* the MAXOPBLOCKS set aside for it unused (log.c:133, log.c:220).         *)
THEOREM LogNeverTooBig ==
    ASSUME OPBLOCKS < MAXOPBLOCKS, MAXOPBLOCKS < LOGSIZE, LOGSIZE <= NLOG
    PROVE  Spec => []NeverTooBig
<1>1. Init => NeverTooBig
  BY Zenon DEF Init, NeverTooBig
<1>2. LogInv /\ NeverTooBig /\ [Next]_vars => NeverTooBig'
  <2> SUFFICES ASSUME LogInv, NeverTooBig, [Next]_vars, cpc' = "panic" PROVE FALSE
    BY Zenon DEF NeverTooBig
  <2>1. PICK p \in Proc, b \in Block, v \in Val : log_write(p, b, v) /\ LogFull
    <3>1. \A p \in Proc : ~call_begin_op(p) /\ ~begin_op(p) /\ ~end_op(p) /\ ~end_op_done(p)
      BY Zenon DEF NeverTooBig, call_begin_op, begin_op, end_op, CommitStart, end_op_done
    <3>2. ~write_log /\ ~write_head /\ ~install_trans /\ ~clear_head
      BY Zenon DEF NeverTooBig, write_log, write_head, install_trans, InstallBlock, clear_head
    <3>3. ~Recover /\ ~crash /\ ~UNCHANGED vars /\ \A b \in Block : ~evict(b)
      BY Zenon DEF NeverTooBig, Recover, read_head, recover_install, InstallBlock, recover_clear, crash,
         vars, evict
    <3>4. PICK p \in Proc, b \in Block, v \in Val : log_write(p, b, v)
      BY <3>1, <3>2, <3>3, Zenon DEF Next, Commit
    <3> QED BY <3>4, Zenon DEF NeverTooBig, log_write
  <2>2. Up /\ p \in Running /\ lh \in Seq(Block) /\ wrote \in [Proc -> 0..OPBLOCKS]
    BY <2>1, Zenon DEF log_write, Running, LogInv, TypeOK
  <2>3. PICK n \in 0..OPBLOCKS : n = wrote[p]
    BY <2>2, Zenon
  <2>4. Len(lh) + (MAXOPBLOCKS - n) < LOGSIZE \/ Len(lh) <= n
    <3>1. CASE Running = {p}
      BY <2>2, <2>3, <3>1, Zenon DEF LogInv, RoomAlone
    <3>2. ASSUME NEW q \in Running, q # p PROVE Len(lh) + (MAXOPBLOCKS - n) < LOGSIZE
      BY <2>2, <2>3, <3>2, TwoShares, Zenon
    <3> QED BY <2>2, <3>1, <3>2, Zenon
  <2>5. Len(lh) \in Nat
    BY <2>2
  <2> QED BY <2>1, <2>3, <2>4, <2>5, LogAssumption DEF LogFull
<1> QED BY <1>1, <1>2, LogInvariant, PTL DEF Spec

(* No process sleeps in begin_op() with nobody left to wake it.            *)
THEOREM NoLostWakeup == Spec => []SleepersHaveWaker
<1>1. LogInv => SleepersHaveWaker
  BY Zenon DEF LogInv
<1> QED BY <1>1, LogInvariant, PTL

-----------------------------------------------------------------------------
(* Log implements AtomicDisk.                                              *)

(* When recovery yields g: g holds the log blocks at the blocks of the     *)
(* header, and the home locations elsewhere.                               *)
LEMMA RecoveredIs ==
    ASSUME NEW h, NEW s \in Seq(Block), NEW d, NEW g \in [Block -> Val], Injective(s),
           \A i \in 1..Len(s) : g[s[i]] = d[i],
           \A b \in Block : (\A i \in 1..Len(s) : s[i] # b) => g[b] = h[b]
    PROVE  Recovered(h, s, d) = g
<1>1. ASSUME NEW b \in Block PROVE Recovered(h, s, d)[b] = g[b]
  <2>1. CASE \E i \in 1..Len(s) : s[i] = b
    <3> DEFINE j == CHOOSE i \in 1..Len(s) : s[i] = b
    <3>1. j \in 1..Len(s) /\ s[j] = b
      BY <2>1, Zenon
    <3>2. Recovered(h, s, d)[b] = d[j]
      BY <2>1, Zenon DEF Recovered
    <3> QED BY <3>1, <3>2, Zenon
  <2>2. CASE ~ \E i \in 1..Len(s) : s[i] = b
    BY <2>2, Zenon DEF Recovered
  <2> QED BY <2>1, <2>2, Zenon
<1>2. Recovered(h, s, d) = [b \in Block |-> Recovered(h, s, d)[b]]
  BY Zenon DEF Recovered
<1>3. g = [b \in Block |-> g[b]]
  BY Zenon
<1> QED BY <1>1, <1>2, <1>3, Zenon

LEMMA RecoveredLogged ==
    ASSUME NEW h, NEW s \in Seq(Block), NEW d, Injective(s), NEW i \in 1..Len(s)
    PROVE  Recovered(h, s, d)[s[i]] = d[i]
<1>1. s[i] \in Block
  OBVIOUS
<1> DEFINE j == CHOOSE k \in 1..Len(s) : s[k] = s[i]
<1>2. j \in 1..Len(s) /\ s[j] = s[i]
  BY Zenon
<1>3. j = i
  BY <1>2, Zenon DEF Injective
<1>4. Recovered(h, s, d)[s[i]] = d[j]
  BY <1>1, Zenon DEF Recovered
<1> QED BY <1>3, <1>4, Zenon

LEMMA RecoveredHome ==
    ASSUME NEW h, NEW s, NEW d, NEW b \in Block, \A i \in 1..Len(s) : s[i] # b
    PROVE  Recovered(h, s, d)[b] = h[b]
BY Zenon DEF Recovered

LEMMA RecoveredEmpty ==
    ASSUME NEW h \in [Block -> Val], NEW d
    PROVE  Recovered(h, <<>>, d) = h
<1>1. Injective(<<>>)
  BY EmptyLog DEF Injective
<1>2. \A i \in 1..Len(<<>>) : h[<<>>[i]] = d[i]
  BY EmptyLog
<1> QED BY <1>1, <1>2, EmptyLog, RecoveredIs, Zenon

(* Copying one more log block home changes nothing that recovery yields.   *)
LEMMA InstallKeepsDurable ==
    ASSUME LogInv, InstallBlock, hdr = lh, UNCHANGED <<hdr, logd>>
    PROVE  Durable' = Durable
<1>a. TypeOK /\ Injective(hdr) /\ hdr \in Seq(Block)
  BY Zenon DEF LogInv, DiskInv, TypeOK
<1>1. Durable \in [Block -> Val]
  <2>1. \A i \in 1..Len(hdr) : logd[i] \in Val
    <3>1. Len(hdr) \in Nat /\ Len(hdr) <= NLOG - 1 /\ NLOG \in Nat /\ logd \in [1..NLOG - 1 -> Val]
      BY <1>a, LogAssumption DEF TypeOK, LogPos
    <3>2. \A i \in 1..Len(hdr) : i \in 1..NLOG - 1
      BY <3>1
    <3> QED BY <3>1, <3>2, Zenon
  <2>2. \A b \in Block : home[b] \in Val
    BY <1>a, Zenon DEF TypeOK
  <2> QED BY <2>1, <2>2, Zenon DEF Durable, Recovered
<1>2. \A i \in 1..Len(hdr) : Durable[hdr[i]] = logd[i]
  BY <1>a, RecoveredLogged DEF Durable
<1>3. ASSUME NEW b \in Block, \A i \in 1..Len(hdr) : hdr[i] # b PROVE Durable[b] = home'[b]
  <2>1. Durable[b] = home[b]
    BY <1>3, RecoveredHome DEF Durable
  <2>2. /\ tail \in 1..Len(lh) /\ lh[tail] \in Block
        /\ home' = [home EXCEPT ![lh[tail]] = logd[tail]]
    BY <1>a, InstallEffect, Zenon
  <2>3. b # lh[tail]
    BY <1>3, <2>2, Zenon
  <2>4. home \in [Block -> Val]
    BY <1>a, Zenon DEF TypeOK
  <2> QED BY <2>1, <2>2, <2>3, <2>4, Zenon
<1>4. Recovered(home', hdr, logd) = Durable
  BY <1>a, <1>1, <1>2, <1>3, RecoveredIs
<1> QED BY <1>4, Zenon DEF Durable

(* Once every log block is installed, recovery yields the home locations.  *)
LEMMA InstalledDurable ==
    ASSUME TypeOK, Injective(hdr), Installed(hdr, Len(hdr))
    PROVE  Durable = home
<1>1. hdr \in Seq(Block) /\ home \in [Block -> Val]
  BY Zenon DEF TypeOK
<1>2. \A i \in 1..Len(hdr) : home[hdr[i]] = logd[i]
  BY Zenon DEF Installed
<1> QED BY <1>1, <1>2, RecoveredIs, Zenon DEF Durable

LEMMA Refines == LogInv /\ [Next]_vars => [AD!Next]_<<Durable, Current, outstanding>>
<1> SUFFICES ASSUME LogInv, [Next]_vars
             PROVE  AD!Next \/ UNCHANGED <<Durable, Current, outstanding>>
  BY Zenon
<1>a. TypeOK /\ CommitAlone /\ PcInv /\ DiskInv
  BY Zenon DEF LogInv
<1> USE DEF CommitPc, RecoverPc
<1>d. ASSUME UNCHANGED <<home, hdr, logd>> PROVE Durable' = Durable
  BY <1>d, Zenon DEF Durable
<1>e. ASSUME Durable' = Durable, cache' = cache, cpc' \in RecoverPc <=> cpc \in RecoverPc
      PROVE  Current' = Current
  BY <1>e, Zenon DEF Current
<1>1. ASSUME NEW p \in Proc, call_begin_op(p)
      PROVE  UNCHANGED <<Durable, Current, outstanding>>
  BY <1>1, <1>d, <1>e, Zenon DEF call_begin_op, disk
<1>2. ASSUME NEW p \in Proc, begin_op(p)
      PROVE  AD!Next \/ UNCHANGED <<Durable, Current, outstanding>>
  <2>1. UNCHANGED <<Durable, Current>>
    BY <1>2, <1>d, <1>e, Zenon DEF begin_op, disk
  <2>2. outstanding' \in {outstanding, outstanding + 1}
    BY <1>2, Zenon DEF begin_op
  <2>3. CASE outstanding' = outstanding
    BY <2>1, <2>3, Zenon
  <2>4. CASE outstanding' = outstanding + 1
    BY <2>1, <2>4, Zenon DEF AD!Next, AD!Begin
  <2> QED BY <2>2, <2>3, <2>4, Zenon
<1>3. ASSUME NEW p \in Proc, NEW b \in Block, NEW v \in Val, log_write(p, b, v)
      PROVE  AD!Write(b, v)
  <2>1. outstanding > 0
    <3>1. p \in Running
      BY <1>3, Zenon DEF log_write, Running
    <3> QED BY <3>1, <1>a, RunningNone DEF CommitAlone, TypeOK
  <2>2. cpc \notin RecoverPc /\ cpc' \notin RecoverPc
    BY <1>3, Zenon DEF log_write, Up
  <2>3. Durable' = Durable
    BY <1>3, <1>d, Zenon DEF log_write, disk
  <2>4. Current' = [Current EXCEPT ![b] = v] /\ outstanding' = outstanding
    BY <1>3, <2>2, Zenon DEF log_write, Current
  <2> QED BY <2>1, <2>3, <2>4, Zenon DEF AD!Write
<1>4. ASSUME NEW b \in Block, evict(b) PROVE UNCHANGED <<Durable, Current, outstanding>>
  <2>1. cache[b] = home[b]
    <3>1. CASE InLog(b)
      <4>1. PICK i \in 1..Len(lh) : lh[i] = b
        BY <3>1, Zenon DEF InLog
      <4>2. cpc = "install" /\ i < tail
        BY <1>4, <4>1, Zenon DEF evict, Pinned
      <4>3. i \in 1..tail - 1
        BY <1>a, <4>1, <4>2 DEF TypeOK
      <4> QED BY <1>a, <4>1, <4>2, <4>3, Zenon DEF DiskInv, Copied, Installed
    <3>2. CASE ~InLog(b)
      BY <1>a, <1>4, <3>2, Zenon DEF DiskInv, evict, Up
    <3> QED BY <3>1, <3>2, Zenon
  <2>2. cache' = cache
    BY <1>4, <1>a, <2>1, Zenon DEF evict, TypeOK
  <2> QED BY <1>4, <2>2, <1>d, <1>e, SMTT(30) DEF evict, disk
<1>5. ASSUME NEW p \in Proc, end_op(p) PROVE AD!End
  <2>1. outstanding > 0
    <3>1. p \in Running
      BY <1>5, Zenon DEF end_op, Running
    <3> QED BY <3>1, <1>a, RunningNone DEF CommitAlone, TypeOK
  <2>2. cpc \notin RecoverPc /\ cpc' \notin RecoverPc
    BY <1>5, Zenon DEF end_op, Up, CommitStart
  <2>3. UNCHANGED <<Durable, Current>>
    BY <1>5, <2>2, <1>d, <1>e, Zenon DEF end_op, disk
  <2> QED BY <1>5, <2>1, <2>3, Zenon DEF AD!End, end_op
<1>6. CASE write_log
  <2>1. hdr = <<>> /\ hdr' = <<>> /\ home' = home /\ home \in [Block -> Val]
    BY <1>a, <1>6, Zenon DEF write_log, DiskInv, TypeOK
  <2>2. Durable' = Durable
    BY <2>1, RecoveredEmpty, Zenon DEF Durable
  <2> QED BY <1>6, <2>2, <1>e, Zenon DEF write_log
<1>7. CASE write_head
  <2>0. /\ UNCHANGED <<home, logd, cache, lh, outstanding>> /\ cpc = "write_head" /\ hdr' = lh
        /\ cpc' = "install"
    BY <1>7, Zenon DEF write_head
  <2>1. lh \in Seq(Block) /\ cache \in [Block -> Val] /\ Injective(lh)
    BY <1>a, Zenon DEF TypeOK, DiskInv
  <2>2. \A i \in 1..Len(lh) : cache[lh[i]] = logd[i]
    BY <1>a, <2>0, Zenon DEF DiskInv, Copied
  <2>3. \A b \in Block : (\A i \in 1..Len(lh) : lh[i] # b) => cache[b] = home[b]
    BY <1>a, <2>0, Zenon DEF DiskInv, InLog
  <2>4. Recovered(home, lh, logd) = cache
    BY <2>1, <2>2, <2>3, RecoveredIs, Z3T(30)
  <2>5. Durable' = cache /\ Current = cache /\ Current' = cache
    BY <2>0, <2>4, Zenon DEF Durable, Current
  <2>6. outstanding = 0
    BY <1>a, <2>0, Zenon DEF PcInv
  <2> QED BY <2>0, <2>5, <2>6, Zenon DEF AD!Next, AD!Commit
<1>8. CASE install_trans
  <2>0. UNCHANGED <<hdr, logd, outstanding>> /\ cpc = "install" /\ hdr = lh /\ cpc' \notin RecoverPc
    BY <1>8, <1>a, Zenon DEF install_trans, InstallBlock, DiskInv
  <2>1. CASE InstallBlock
    <3>1. /\ tail \in 1..Len(lh) /\ lh[tail] \in Block
          /\ cache' = [cache EXCEPT ![lh[tail]] = logd[tail]]
      BY <1>a, <2>1, InstallEffect, Zenon
    <3>2. logd[tail] = cache[lh[tail]] /\ cache \in [Block -> Val]
      BY <1>a, <2>0, <3>1, Zenon DEF DiskInv, Copied, TypeOK
    <3>3. cache' = cache
      BY <3>1, <3>2, Zenon
    <3> QED BY <2>0, <2>1, <3>3, <1>e, InstallKeepsDurable, Zenon
  <2>2. CASE ~InstallBlock
    BY <1>8, <2>0, <2>2, <1>d, <1>e, Zenon DEF install_trans
  <2> QED BY <2>1, <2>2, Zenon
<1>9. CASE clear_head
  <2>0. /\ UNCHANGED <<home, logd, cache, outstanding>> /\ cpc = "clear" /\ hdr' = <<>>
        /\ cpc' = "finish" /\ home \in [Block -> Val]
    BY <1>9, <1>a, Zenon DEF clear_head, DiskInv, TypeOK
  <2>1. Durable = home
    BY <1>a, <2>0, InstalledDurable, Zenon DEF DiskInv
  <2>2. Durable' = home
    BY <2>0, RecoveredEmpty, Zenon DEF Durable
  <2> QED BY <2>0, <2>1, <2>2, <1>e, Zenon
<1>10. ASSUME NEW p \in Proc, end_op_done(p)
       PROVE  UNCHANGED <<Durable, Current, outstanding>>
  BY <1>10, <1>d, <1>e, Zenon DEF end_op_done, disk
<1>11. CASE crash
  <2>1. Durable' = Durable
    BY <1>11, <1>d, Zenon DEF crash, disk
  <2>2. Current' = Durable /\ outstanding' = 0
    BY <1>11, <2>1, Zenon DEF crash, Current
  <2> QED BY <2>1, <2>2, Zenon DEF AD!Next, AD!Crash
<1>12. CASE read_head
  BY <1>12, <1>d, <1>e, Zenon DEF read_head, disk
<1>13. CASE recover_install
  <2>0. UNCHANGED <<hdr, logd, outstanding>> /\ cpc \in RecoverPc /\ hdr = lh /\ cpc' \in RecoverPc
    BY <1>13, <1>a, Zenon DEF recover_install, InstallBlock, DiskInv
  <2>1. Durable' = Durable
    <3>1. CASE InstallBlock
      BY <2>0, <3>1, InstallKeepsDurable, Zenon
    <3>2. CASE ~InstallBlock
      BY <1>13, <3>2, <1>d, Zenon DEF recover_install
    <3> QED BY <3>1, <3>2, Zenon
  <2> QED BY <2>0, <2>1, Zenon DEF Current
<1>14. CASE recover_clear
  <2>0. /\ UNCHANGED <<home, logd, cache, outstanding>> /\ cpc = "rec_clear" /\ hdr' = <<>>
        /\ cpc' = "none" /\ home \in [Block -> Val] /\ cache = home
    BY <1>14, <1>a, Zenon DEF recover_clear, DiskInv, TypeOK
  <2>1. Durable = home
    BY <1>a, <2>0, InstalledDurable, Zenon DEF DiskInv
  <2>2. Durable' = home
    BY <2>0, RecoveredEmpty, Zenon DEF Durable
  <2> QED BY <2>0, <2>1, <2>2, Zenon DEF Current
<1>15. CASE UNCHANGED vars
  BY <1>15, <1>d, <1>e, Zenon DEF vars, disk
<1> QED
  BY <1>1, <1>2, <1>3, <1>4, <1>5, <1>6, <1>7, <1>8, <1>9, <1>10, <1>11, <1>12, <1>13, <1>14, <1>15, Zenon
  DEF Next, Commit, Recover, AD!Next

(* Crash atomicity: the log with its commit and recovery steps, crashing   *)
(* anywhere, behaves as a disk on which overlapping operations take effect *)
(* together or not at all.                                                 *)
THEOREM LogIsAtomic == Spec => CrashAtomic
<1>1. Init => AD!Init
  <2> SUFFICES ASSUME Init PROVE AD!Init
    BY Zenon
  <2>1. Durable = home
    <3>1. hdr = <<>> /\ home \in [Block -> Val]
      BY Zenon DEF Init
    <3> QED BY <3>1, RecoveredEmpty, Zenon DEF Durable
  <2>2. Current = home
    BY Zenon DEF Init, Current, RecoverPc
  <2> QED BY <2>1, <2>2, Zenon DEF Init, AD!Init
<1> QED BY <1>1, Refines, LogInvariant, PTL DEF Spec, CrashAtomic, AD!Spec
=============================================================================
