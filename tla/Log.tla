-------------------------------- MODULE Log --------------------------------
(***************************************************************************)
(* The redo log of the file system (kernel/log.c) with crashes: begin_op,  *)
(* log_write, end_op, group commit and recovery.  Every bwrite() is a step *)
(* of its own, and a crash can come between any two; a write of one block  *)
(* is atomic.  The buffer cache is one value per block: what bread()       *)
(* returns; a block that is not pinned can be evicted and read again.      *)
(***************************************************************************)
EXTENDS Integers, Sequences, FiniteSets

CONSTANTS Proc,         \* processes that make file system calls
          Block, Val,   \* file system blocks and their contents
          LOGSIZE,
          MAXOPBLOCKS,  \* blocks that begin_op() sets aside for an operation
          OPBLOCKS,     \* blocks that an operation really adds to the log, at most
          NLOG          \* sb.nlog: blocks of the on-disk log, its header included

ASSUME LogAssumption ==
    /\ IsFiniteSet(Proc)
    /\ MAXOPBLOCKS \in Nat \ {0} /\ OPBLOCKS \in 0..MAXOPBLOCKS /\ NLOG \in Nat \ {0}
    /\ LOGSIZE \in Nat /\ LOGSIZE >= MAXOPBLOCKS    \* param.h:10, LOGSIZE is 3 * MAXOPBLOCKS

VARIABLES home,         \* disk: the home locations of blocks
          hdr,          \* disk: block numbers in the log header
          logd,         \* disk: the data blocks of the log
          cache,        \* what bread() returns
          lh,           \* log.lh.block[0..n-1]
          outstanding, committing,
          pc, wrote,    \* of each process, and the blocks its operation added to lh
          cpc, tail     \* of commit() or of recovery

disk == <<home, hdr, logd>>
vars == <<disk, cache, lh, outstanding, committing, pc, wrote, cpc, tail>>

LogPos == 1..NLOG - 1

CommitPc == {"write_log", "write_head", "install", "clear", "finish"}

RecoverPc == {"recover", "rec_install", "rec_clear"}

Init ==
    /\ home \in [Block -> Val]
    /\ hdr = <<>>
    /\ \E v \in Val : logd = [i \in LogPos |-> v]     \* mkfs fills the disk with zeroes
    /\ cache = home
    /\ lh = <<>>
    /\ outstanding = 0 /\ committing = FALSE
    /\ pc = [p \in Proc |-> "idle"]
    /\ wrote = [p \in Proc |-> 0]
    /\ cpc = "none" /\ tail = 1

(* The machine is up and has not panicked.                                 *)
Up == cpc \notin RecoverPc \cup {"panic"}

Awakened == [p \in Proc |-> IF pc[p] = "asleep" THEN "begin" ELSE pc[p]]

-----------------------------------------------------------------------------
(* begin_op()                                                              *)

call_begin_op(p) ==
    /\ Up /\ pc[p] = "idle"
    /\ pc' = [pc EXCEPT ![p] = "begin"]
    /\ UNCHANGED <<disk, cache, lh, outstanding, committing, wrote, cpc, tail>>

(* Variant of MustWait: the reservations of the operations in progress     *)
(* are not counted.                                                        *)
MustWait_noreserve == committing \/ Len(lh) + MAXOPBLOCKS > LOGSIZE

MustWait == committing \/ Len(lh) + (outstanding + 1) * MAXOPBLOCKS > LOGSIZE

(* One turn of the loop: sleep(&log, &log.lock), or go on.                 *)
begin_op(p) ==
    /\ Up /\ pc[p] = "begin"
    /\ \/ /\ MustWait
          /\ pc' = [pc EXCEPT ![p] = "asleep"]
          /\ UNCHANGED <<outstanding, wrote>>
       \/ /\ ~MustWait
          /\ outstanding' = outstanding + 1
          /\ pc' = [pc EXCEPT ![p] = "run"]
          /\ wrote' = [wrote EXCEPT ![p] = 0]
    /\ UNCHANGED <<disk, cache, lh, committing, cpc, tail>>

-----------------------------------------------------------------------------
(* A block is modified in the cache and passed to log_write().  An         *)
(* operation may pass it a block that is in the log as often as it likes.  *)

InLog(b) == \E i \in 1..Len(lh) : lh[i] = b

LogFull == Len(lh) >= LOGSIZE \/ Len(lh) >= NLOG - 1

(* Variant of Record: no absorption.                                       *)
Record_again(b) == Append(lh, b)

(* log absorption: a block is recorded once.                               *)
Record(b) == IF InLog(b) THEN lh ELSE Append(lh, b)

log_write(p, b, v) ==
    /\ Up /\ pc[p] = "run" /\ (InLog(b) \/ wrote[p] < OPBLOCKS)
    /\ cache' = [cache EXCEPT ![b] = v]
    /\ \/ /\ LogFull
          /\ cpc' = "panic"
          /\ UNCHANGED <<lh, wrote>>
       \/ /\ ~LogFull
          /\ lh' = Record(b)
          /\ wrote' = IF InLog(b) THEN wrote ELSE [wrote EXCEPT ![p] = @ + 1]
          /\ UNCHANGED cpc
    /\ UNCHANGED <<disk, outstanding, committing, pc, tail>>

(* bpin() in log_write(), bunpin() in install_trans().                     *)
Pinned(b) == \E i \in 1..Len(lh) : lh[i] = b /\ ~(cpc = "install" /\ i < tail)

(* The buffer cache reuses the buffer of a block that is not pinned.       *)
evict(b) ==
    /\ Up /\ ~Pinned(b)
    /\ cache' = [cache EXCEPT ![b] = home[b]]
    /\ UNCHANGED <<disk, lh, outstanding, committing, pc, wrote, cpc, tail>>

-----------------------------------------------------------------------------
(* end_op() and commit()                                                   *)

(* Variant of CommitStart: the header is written before the log blocks.    *)
CommitStart_headfirst == IF lh = <<>> THEN "finish" ELSE "write_head"

(* commit() does nothing if log.lh.n is 0.                                 *)
CommitStart == IF lh = <<>> THEN "finish" ELSE "write_log"

end_op(p) ==
    /\ Up /\ pc[p] = "run"
    /\ outstanding' = outstanding - 1
    /\ \/ /\ outstanding' = 0
          /\ committing' = TRUE
          /\ pc' = [pc EXCEPT ![p] = "commit"]
          /\ cpc' = CommitStart
          /\ tail' = 1
       \/ /\ outstanding' # 0
          /\ pc' = [Awakened EXCEPT ![p] = "idle"]
          /\ UNCHANGED <<committing, cpc, tail>>
    /\ UNCHANGED <<disk, cache, lh, wrote>>

write_log ==
    /\ cpc = "write_log"
    /\ \/ /\ tail <= Len(lh)
          /\ logd' = [logd EXCEPT ![tail] = cache[lh[tail]]]
          /\ tail' = tail + 1
          /\ UNCHANGED cpc
       \/ /\ tail > Len(lh)
          /\ cpc' = "write_head" /\ tail' = 1
          /\ UNCHANGED logd
    /\ UNCHANGED <<home, hdr, cache, lh, outstanding, committing, pc, wrote>>

(* "the true point at which the current transaction commits" (log.c:100)   *)
write_head ==
    /\ cpc = "write_head"
    /\ hdr' = lh
    /\ cpc' = "install" /\ tail' = 1
    /\ UNCHANGED <<home, logd, cache, lh, outstanding, committing, pc, wrote>>

(* install_trans(): one block copied to its home location.                 *)
InstallBlock ==
    /\ tail <= Len(lh)
    /\ home' = [home EXCEPT ![lh[tail]] = logd[tail]]
    /\ cache' = [cache EXCEPT ![lh[tail]] = logd[tail]]
    /\ tail' = tail + 1
    /\ UNCHANGED <<lh, cpc>>

install_trans ==
    /\ cpc = "install"
    /\ \/ InstallBlock
       \/ /\ tail > Len(lh)
          /\ lh' = <<>>
          /\ cpc' = "clear" /\ tail' = 1
          /\ UNCHANGED <<home, cache>>
    /\ UNCHANGED <<hdr, logd, outstanding, committing, pc, wrote>>

(* The second write_head(), with log.lh.n = 0.                             *)
clear_head ==
    /\ cpc = "clear"
    /\ hdr' = lh
    /\ cpc' = "finish" /\ tail' = 1
    /\ UNCHANGED <<home, logd, cache, lh, outstanding, committing, pc, wrote>>

(* Variant of end_op_done: sleepers are not woken after the commit.        *)
end_op_done_nowakeup(p) ==
    /\ cpc = "finish" /\ pc[p] = "commit"
    /\ committing' = FALSE
    /\ pc' = [pc EXCEPT ![p] = "idle"]
    /\ cpc' = "none"
    /\ UNCHANGED <<disk, cache, lh, outstanding, wrote, tail>>

(* end_op() after commit() has returned.                                   *)
end_op_done(p) ==
    /\ cpc = "finish" /\ pc[p] = "commit"
    /\ committing' = FALSE
    /\ pc' = [Awakened EXCEPT ![p] = "idle"]
    /\ cpc' = "none"
    /\ UNCHANGED <<disk, cache, lh, outstanding, wrote, tail>>

-----------------------------------------------------------------------------
(* Crash and recover_from_log()                                            *)

crash ==
    /\ cpc' = "recover" /\ tail' = 1
    /\ pc' = [p \in Proc |-> "idle"]
    /\ wrote' = [p \in Proc |-> 0]
    /\ outstanding' = 0 /\ committing' = FALSE
    /\ lh' = <<>>
    /\ cache' = home
    /\ UNCHANGED disk

read_head ==
    /\ cpc = "recover"
    /\ lh' = hdr
    /\ cpc' = "rec_install" /\ tail' = 1
    /\ UNCHANGED <<disk, cache, outstanding, committing, pc, wrote>>

recover_install ==
    /\ cpc = "rec_install"
    /\ \/ InstallBlock
       \/ /\ tail > Len(lh)
          /\ lh' = <<>>
          /\ cpc' = "rec_clear" /\ tail' = 1
          /\ UNCHANGED <<home, cache>>
    /\ UNCHANGED <<hdr, logd, outstanding, committing, pc, wrote>>

recover_clear ==
    /\ cpc = "rec_clear"
    /\ hdr' = lh
    /\ cpc' = "none" /\ tail' = 1
    /\ UNCHANGED <<home, logd, cache, lh, outstanding, committing, pc, wrote>>

-----------------------------------------------------------------------------
Commit == write_log \/ write_head \/ install_trans \/ clear_head \/ \E p \in Proc : end_op_done(p)

Recover == read_head \/ recover_install \/ recover_clear

Next ==
    \/ Commit \/ Recover \/ crash
    \/ \E p \in Proc :
          \/ call_begin_op(p) \/ begin_op(p) \/ end_op(p)
          \/ \E b \in Block, v \in Val : log_write(p, b, v)
    \/ \E b \in Block : evict(b)

Spec == Init /\ [][Next]_vars

(* The scheduler runs every runnable process again and again, the disk     *)
(* answers, and an operation that began reaches its end_op().              *)
Fairness ==
    /\ WF_vars(Commit) /\ WF_vars(Recover)
    /\ \A p \in Proc : WF_vars(begin_op(p)) /\ WF_vars(end_op(p))

FairSpec == Spec /\ Fairness

-----------------------------------------------------------------------------
(* Properties.                                                             *)

(* Every variable has its type.                                            *)
TypeOK ==
    /\ home \in [Block -> Val] /\ cache \in [Block -> Val] /\ logd \in [LogPos -> Val]
    /\ hdr \in Seq(Block) /\ Len(hdr) <= NLOG - 1
    /\ lh \in Seq(Block) /\ Len(lh) <= NLOG - 1
    /\ outstanding \in Nat /\ committing \in BOOLEAN
    /\ pc \in [Proc -> {"idle", "begin", "asleep", "run", "commit"}]
    /\ wrote \in [Proc -> 0..OPBLOCKS]
    /\ cpc \in CommitPc \cup RecoverPc \cup {"none", "panic"}
    /\ tail \in 1..NLOG

(* What recovery makes of home locations h, log header s and log blocks d. *)
Recovered(h, s, d) ==
    [b \in Block |-> IF \E i \in 1..Len(s) : s[i] = b
                     THEN d[CHOOSE i \in 1..Len(s) : s[i] = b]
                     ELSE h[b]]

Durable == Recovered(home, hdr, logd)

(* What reads return, after recovery if it is still to come.               *)
Current == IF cpc \in RecoverPc THEN Durable ELSE cache

AD == INSTANCE AtomicDisk WITH
        durable <- Durable,
        current <- Current,
        active <- outstanding

(* Crash atomicity: wherever a crash falls (in commit(), in install_trans, *)
(* in recovery itself), all writes of the operations that overlap are kept *)
(* or all are lost, and reads always return the latest write.              *)
CrashAtomic == AD!Spec

Running == {p \in Proc : pc[p] = "run"}

(* No commit runs while an operation is in progress, so it never writes an *)
(* uncommitted system call's updates (log.c:12); outstanding counts the    *)
(* operations in progress.                                                 *)
CommitAlone ==
    /\ committing => Running = {}
    /\ outstanding = Cardinality(Running)

(* begin_op() admits an operation only if the log has room for it ("this   *)
(* op might exhaust log space; wait for commit", log.c:134), so log_write, *)
(* which counts one block less than LOGSIZE on the disk that mkfs makes    *)
(* and looks at the room before it looks for the block, never panics.      *)
NeverTooBig == cpc # "panic"

(* A process sleeps in begin_op() only while a commit or an end_op() that  *)
(* will wake it is still to come.                                          *)
SleepersHaveWaker ==
    (\E p \in Proc : pc[p] = "asleep") => committing \/ outstanding > 0

(* A process that sleeps in begin_op() is woken (or the machine crashes).  *)
SleeperWoken == \A p \in Proc : pc[p] = "asleep" ~> pc[p] # "asleep"

(* The facts about lh, the header and the cache, at each step of commit()  *)
(* and of recovery, that make the properties above inductive.              *)
Injective(s) == \A i, j \in 1..Len(s) : s[i] = s[j] => i = j

(* Log block i is the cached value of the i-th block; the home location    *)
(* of the i-th block is log block i.                                       *)
Copied(s, n) == \A i \in 1..n : logd[i] = cache[s[i]]

Installed(s, n) == \A i \in 1..n : home[s[i]] = logd[i]

PcInv ==
    /\ committing <=> cpc \in CommitPc
    /\ committing => outstanding = 0
    /\ \A p \in Proc : pc[p] = "commit" => committing
    /\ \A p, q \in Proc : pc[p] = "commit" /\ pc[q] = "commit" => p = q
    /\ cpc \in RecoverPc => outstanding = 0
    /\ cpc = "none" /\ outstanding = 0 => lh = <<>>

DiskInv ==
    /\ Injective(lh) /\ Injective(hdr)
    /\ cpc # "panic" => \A b \in Block : ~InLog(b) => cache[b] = home[b]
    /\ cpc \in {"none", "panic", "write_log", "write_head", "finish"} => hdr = <<>>
    /\ cpc \in {"install", "rec_install"} => hdr = lh
    /\ cpc \in {"clear", "rec_clear", "recover", "finish"} => lh = <<>>
    /\ cpc \in {"write_log", "install", "rec_install"} => tail <= Len(lh) + 1
    /\ cpc = "write_log" => Copied(lh, tail - 1)
    /\ cpc \in {"write_head", "install"} => Copied(lh, Len(lh))
    /\ cpc \in {"install", "rec_install"} => Installed(lh, tail - 1)
    /\ cpc \in {"clear", "rec_clear"} => Installed(hdr, Len(hdr))
    /\ cpc \in RecoverPc => cache = home

(* What begin_op() set aside for the operations in progress and they have  *)
(* not used has room in the log, besides the blocks that are recorded.     *)
Reserved == {x \in Running \X (1..MAXOPBLOCKS) : wrote[x[1]] < x[2]}

RoomLeft == Up => Len(lh) + Cardinality(Reserved) <= LOGSIZE

(* The last operation in progress either ran with another one, which left  *)
(* a block of its share unused, or has added all that is recorded.         *)
RoomAlone ==
    Up => \A p \in Proc : Running = {p} =>
             \/ OPBLOCKS < MAXOPBLOCKS => Len(lh) + (MAXOPBLOCKS - wrote[p]) < LOGSIZE
             \/ Len(lh) <= wrote[p]

(* The inductive invariant: TypeOK, the count of operations in progress,   *)
(* a waker for every sleeper, room for what was reserved, and which parts  *)
(* of the log, the header and the home locations agree at each point of a  *)
(* commit or of a recovery.                                                *)
LogInv == TypeOK /\ CommitAlone /\ SleepersHaveWaker /\ PcInv /\ DiskInv /\ RoomLeft /\ RoomAlone
=============================================================================
