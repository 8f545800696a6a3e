------------------------------- MODULE Bcache -------------------------------
(***************************************************************************)
(* The buffer cache of kernel/bio.c, with the sleep locks of               *)
(* kernel/sleeplock.c, over the disk driver.                               *)
(*                                                                         *)
(* Each process repeatedly gets a block with bread(), may change it and    *)
(* write it with bwrite(), or change it and pin it as log_write() does, or *)
(* write a pinned block and unpin it as install_trans() does, and releases *)
(* it with brelse().  Sections under bcache.lock or lk->lk are one step.   *)
(***************************************************************************)
EXTENDS Virtio, SequencesExt

CONSTANTS NoProc,
          MAXPIN      \* bound: blocks the log pins

ASSUME BcacheAssumption == MAXPIN \in Nat

VARIABLES refcnt, valid,  \* of struct buf
          slock,          \* slock[b]: the process that holds b->lock, or NoProc
          lru,            \* the list of buffers, most recently used first
          pinned          \* blocks pinned by the log

cachevars == <<refcnt, valid, slock, lru, pinned>>
diskvars == <<NUM, head, bdisk, free, desc, info, status, avail, used, handler, due, irq, platter>>
vars == <<pc, my, op, blockno, data, diskvars, panic, cachevars>>

Init ==
    /\ VirtioInit
    /\ platter \in [Block -> Val]
    /\ pc = [p \in Proc |-> "idle"]
    /\ my = [p \in Proc |-> NoBuf]
    /\ op = [p \in Proc |-> "read"]
    /\ blockno = [b \in Buf |-> NoBlock]
    /\ \E v \in Val : data = [b \in Buf |-> v]
    /\ refcnt = [b \in Buf |-> 0]
    /\ valid = [b \in Buf |-> FALSE]
    /\ slock = [b \in Buf |-> NoProc]
    /\ lru = SetToSeq(Buf)
    /\ pinned = {}

-----------------------------------------------------------------------------
(* bget() and bread()                                                      *)

Cached(k) == {b \in Buf : blockno[b] = k}

Unused == {b \in Buf : refcnt[b] = 0}

(* The least recently used of the buffers in S.                            *)
Oldest(S) == lru[CHOOSE i \in DOMAIN lru : lru[i] \in S /\ \A j \in DOMAIN lru : lru[j] \in S => j <= i]

(* With all buffers in use it panics: the process does not go on.          *)
bget(p, k) ==
    /\ pc[p] = "idle"
    /\ IF Cached(k) # {}
       THEN LET b == CHOOSE b \in Cached(k) : TRUE
            IN  /\ refcnt' = [refcnt EXCEPT ![b] = @ + 1]
                /\ my' = [my EXCEPT ![p] = b]
                /\ pc' = [pc EXCEPT ![p] = "lock"]
                /\ UNCHANGED <<blockno, valid>>
       ELSE IF Unused # {}
       THEN LET b == Oldest(Unused)
            IN  /\ blockno' = [blockno EXCEPT ![b] = k]
                /\ valid' = [valid EXCEPT ![b] = FALSE]
                /\ refcnt' = [refcnt EXCEPT ![b] = 1]
                /\ my' = [my EXCEPT ![p] = b]
                /\ pc' = [pc EXCEPT ![p] = "lock"]
       ELSE pc' = [pc EXCEPT ![p] = "nobuffers"] /\ UNCHANGED <<refcnt, my, blockno, valid>>
    /\ UNCHANGED <<op, data, diskvars, panic, slock, lru, pinned>>

Unlocked(b) == slock[b] = NoProc

(* acquiresleep(), and the rest of bread() once the lock is held: a buffer *)
(* that is not valid is read from the disk.                                *)
acquiresleep(p) ==
    LET b == my[p] IN
    /\ pc[p] = "lock"
    /\ IF Unlocked(b)
       THEN /\ slock' = [slock EXCEPT ![b] = p]
            /\ pc' = [pc EXCEPT ![p] = IF valid[b] THEN "hold" ELSE "rw"]
       ELSE /\ pc' = [pc EXCEPT ![p] = "locksleep"]
            /\ UNCHANGED slock
    /\ UNCHANGED <<my, op, blockno, data, diskvars, panic, refcnt, valid, lru, pinned>>

(* virtio_disk_rw() returns to bread(), bwrite() or install_trans().       *)
io_ret(p) ==
    LET b == my[p] IN
    /\ pc[p] = "ret"
    /\ valid' = [valid EXCEPT ![b] = @ \/ op[p] = "read"]
    /\ refcnt' = [refcnt EXCEPT ![b] = IF op[p] = "install" THEN @ - 1 ELSE @]
    /\ pinned' = IF op[p] = "install" THEN pinned \ {blockno[b]} ELSE pinned
    /\ op' = [op EXCEPT ![p] = "read"]
    /\ pc' = [pc EXCEPT ![p] = "hold"]
    /\ UNCHANGED <<my, blockno, data, diskvars, panic, slock, lru>>

-----------------------------------------------------------------------------
(* What the holder of a buffer does with it.                               *)

holdingsleep(p) == slock[my[p]] = p

(* The buffer is changed and written; a pinned block is left to the log.   *)
bwrite(p, v) ==
    /\ pc[p] = "hold" /\ holdingsleep(p) /\ blockno[my[p]] \notin pinned
    /\ data' = [data EXCEPT ![my[p]] = v]
    /\ op' = [op EXCEPT ![p] = "write"]
    /\ pc' = [pc EXCEPT ![p] = "rw"]
    /\ UNCHANGED <<my, blockno, diskvars, panic, cachevars>>

(* Variant: the block logged is not pinned.                                *)
bpin_not(b) == UNCHANGED refcnt

bpin(b) == refcnt' = [refcnt EXCEPT ![b] = @ + 1]

(* log_write(): the buffer is changed in the cache only, and pinned.       *)
log_write(p, v) ==
    LET k == blockno[my[p]] IN
    /\ pc[p] = "hold" /\ holdingsleep(p)
    /\ \/ k \in pinned /\ UNCHANGED refcnt
       \/ k \notin pinned /\ Cardinality(pinned) < MAXPIN /\ bpin(my[p])
    /\ data' = [data EXCEPT ![my[p]] = v]
    /\ pinned' = pinned \cup {k}
    /\ UNCHANGED <<pc, my, op, blockno, diskvars, panic, valid, slock, lru>>

(* install_trans(): bwrite() of a pinned block, then bunpin().             *)
install(p) ==
    /\ pc[p] = "hold" /\ holdingsleep(p) /\ blockno[my[p]] \in pinned
    /\ op' = [op EXCEPT ![p] = "install"]
    /\ pc' = [pc EXCEPT ![p] = "rw"]
    /\ UNCHANGED <<my, blockno, data, diskvars, panic, cachevars>>

(* brelse(): releasesleep() wakes all that wait for the lock.              *)
releasesleep(p) ==
    LET b == my[p] IN
    /\ pc[p] = "hold"
    /\ IF holdingsleep(p)
       THEN slock' = [slock EXCEPT ![b] = NoProc] /\ UNCHANGED panic
       ELSE panic' = TRUE /\ UNCHANGED slock
    /\ pc' = [q \in Proc |-> IF q = p THEN "rel"
                             ELSE IF pc[q] = "locksleep" /\ my[q] = b THEN "lock" ELSE pc[q]]
    /\ UNCHANGED <<my, op, blockno, data, diskvars, refcnt, valid, lru, pinned>>

(* Variant: only the last reference is given up.                           *)
Dropped_kept(n) == IF n > 1 THEN n ELSE n - 1

Dropped(n) == n - 1

MoveToFront(b) == <<b>> \o SelectSeq(lru, LAMBDA x : x # b)

(* The rest of brelse(), under bcache.lock.                                *)
brelse(p) ==
    LET b == my[p] IN
    /\ pc[p] = "rel"
    /\ refcnt' = [refcnt EXCEPT ![b] = Dropped(@)]
    /\ lru' = IF refcnt'[b] = 0 THEN MoveToFront(b) ELSE lru
    /\ pc' = [pc EXCEPT ![p] = "idle"]
    /\ my' = [my EXCEPT ![p] = NoBuf]
    /\ UNCHANGED <<op, blockno, data, diskvars, panic, valid, slock, pinned>>

-----------------------------------------------------------------------------
Kernel(p) ==
    \/ acquiresleep(p) \/ io_ret(p) \/ brelse(p)
    \/ Driver(p) /\ UNCHANGED cachevars

Client(p) ==
    \/ install(p)
    \/ \E k \in Block : bget(p, k)
    \/ \E v \in Val : bwrite(p, v) \/ log_write(p, v)

Next ==
    \/ \E p \in Proc : Kernel(p) \/ Client(p) \/ releasesleep(p)
    \/ (Device \/ Intr) /\ UNCHANGED cachevars

Spec == Init /\ [][Next]_vars

-----------------------------------------------------------------------------
(* Properties.                                                             *)

(* Every variable that bio.c or the driver computes has its type.          *)
TypeOK ==
    /\ pc \in [Proc -> {"idle", "lock", "locksleep", "rw", "descwait", "diskwait",
                        "diskwoken", "ret", "hold", "rel", "nobuffers"}]
    /\ my \in [Proc -> Buf \cup {NoBuf}]
    /\ blockno \in [Buf -> Block \cup {NoBlock}] /\ data \in [Buf -> Val]
    /\ refcnt \in [Buf -> Nat] /\ valid \in [Buf -> BOOLEAN]
    /\ slock \in [Buf -> Proc \cup {NoProc}]
    /\ lru \in [1..Cardinality(Buf) -> Buf] /\ Cardinality(Range(lru)) = Cardinality(Buf)
    /\ free \subseteq Desc /\ avail \subseteq Desc
    /\ used \in Seq(Desc)
    /\ platter \in [Block -> Val]

(* "a synchronization point for disk blocks used by multiple processes"    *)
(* (bio.c:6): a block is never in two buffers.                             *)
OneBufferPerBlock ==
    \A b, c \in Buf : blockno[b] = blockno[c] /\ blockno[b] # NoBlock => b = c

(* refcnt counts the processes between bget() and brelse() and the pin of  *)
(* the log, so no buffer in use is recycled and none is lost to the cache. *)
RefcntExact ==
    \A b \in Buf :
       refcnt[b] = Cardinality({p \in Proc : my[p] = b}) + (IF blockno[b] \in pinned THEN 1 ELSE 0)

InFlight == {p \in Proc : pc[p] \in {"diskwait", "diskwoken"}}

(* Requests in flight own three descriptors each, no two share one, and    *)
(* all others are free: alloc3_desc() and free_chain() lose none.          *)
DescriptorsAccounted ==
    /\ \A p \in InFlight : Cardinality(Chain(head[p])) = 3 /\ Chain(head[p]) \cap free = {}
    /\ \A p, q \in InFlight : p # q => Chain(head[p]) \cap Chain(head[q]) = {}
    /\ Cardinality(free) + 3 * Cardinality(InFlight) = NUM

(* The other panics are not reached: a lock that is not held, a descriptor *)
(* freed twice, a completion without a request.                            *)
NoPanic == ~panic

(* A buffer that nobody is writing and the log has not pinned agrees with  *)
(* the disk: what bwrite() wrote has reached it when brelse() is called.   *)
CleanUnlessPinned ==
    \A b \in Buf :
       /\ valid[b] /\ blockno[b] \notin pinned
       /\ ~\E p \in Proc : my[p] = b /\ pc[p] \in {"rw", "descwait", "diskwait", "diskwoken"}
       => platter[blockno[b]] = data[b]

Content ==
    [k \in Block |-> IF \E b \in Buf : blockno[b] = k /\ valid[b]
                     THEN data[CHOOSE b \in Buf : blockno[b] = k /\ valid[b]]
                     ELSE platter[k]]

Holder ==
    [k \in Block |-> IF \E b \in Buf : blockno[b] = k THEN slock[CHOOSE b \in Buf : blockno[b] = k]
                     ELSE NoProc]

BS == INSTANCE BlockStore WITH content <- Content, holder <- Holder

(* "Only one process at a time can use a buffer" (bio.c:13), and what it   *)
(* reads is what was last written, whatever was recycled, pinned or in     *)
(* flight meanwhile.                                                       *)
Coherent == BS!Spec

(* A completion that the driver has not seen yet will be: the interrupt is *)
(* still to come, pending, or being handled (virtio_disk.c:301).           *)
CompletionNoticed == used # <<>> => due \/ irq \/ handler = "loop"

(* A process waits for descriptors only while a request is in flight whose *)
(* end frees some, and for a sleep lock only while somebody has it.        *)
SleepersHaveWaker ==
    \A p \in Proc :
       /\ pc[p] = "descwait" => InFlight # {}
       /\ pc[p] = "diskwait" => bdisk[my[p]]
       /\ pc[p] = "locksleep" => slock[my[p]] # NoProc

(* The cache of bio.c is consistent between any two of its steps.          *)
CacheConsistent == TypeOK /\ OneBufferPerBlock /\ RefcntExact /\ CleanUnlessPinned

(* The driver loses no descriptor, completion or sleeping process.         *)
DriverConsistent == DescriptorsAccounted /\ NoPanic /\ CompletionNoticed /\ SleepersHaveWaker
=============================================================================
