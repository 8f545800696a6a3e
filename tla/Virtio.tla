------------------------------- MODULE Virtio -------------------------------
(***************************************************************************)
(* The disk driver of kernel/virtio_disk.c and the device behind it.       *)
(*                                                                         *)
(* Processes submit requests with virtio_disk_rw(); the device serves the  *)
(* requests of the avail ring in any order through the descriptors and     *)
(* reports them in the used ring; virtio_disk_intr() wakes the processes.  *)
(* What runs under vdisk_lock without sleeping is one step; the interrupt  *)
(* handler holds the lock from its first step to its last, and the device  *)
(* works meanwhile.                                                        *)
(***************************************************************************)
EXTENDS Integers, FiniteSets, Sequences

CONSTANTS Proc, Buf, Block, Val,
          Sizes,          \* the values of NUM, the number of descriptors
          NoBuf, NoBlock

ASSUME VirtioAssumption == Sizes # {} /\ \A n \in Sizes : n \in Nat /\ n >= 3

VARIABLES NUM,            \* never changes
          pc,             \* pc[p]: where p is in bio.c or virtio_disk.c
          my,             \* my[p]: the buffer p works on
          op,             \* op[p]: why p does disk I/O
          head,           \* head[p]: idx[0] of virtio_disk_rw()
          blockno, data, bdisk,          \* of struct buf
          free, desc, info, status, \* of struct disk
          avail,          \* avail ring: heads the device has not served
          used,           \* used ring: heads the driver has not seen
          handler,        \* where virtio_disk_intr() is; it has vdisk_lock unless "off"
          due, irq,       \* device: interrupt still to raise, and raised
          platter,        \* the blocks on the disk
          panic

client == <<NUM, my, op, blockno>>
rings == <<avail, used>>
device == <<due, irq, platter>>
driver == <<head, free, desc, info, status, bdisk>>

Desc == UNION {0..n-1 : n \in Sizes}

(* A descriptor; the first of a chain has the request header disk.ops[].   *)
NoDesc == [addr |-> NoBuf, more |-> FALSE, next |-> 0, write |-> FALSE, sector |-> NoBlock]

VirtioInit ==
    /\ NUM \in Sizes
    /\ head = [p \in Proc |-> 0]
    /\ bdisk = [b \in Buf |-> FALSE]
    /\ free = 0..NUM-1
    /\ desc = [d \in Desc |-> NoDesc]
    /\ info = [d \in Desc |-> NoBuf]
    /\ status = [d \in Desc |-> 0]
    /\ avail = {} /\ used = <<>>
    /\ handler = "off"
    /\ due = FALSE /\ irq = FALSE
    /\ panic = FALSE

-----------------------------------------------------------------------------
(* virtio_disk_rw()                                                        *)

(* The processes that sleep on &disk.free[0] go back to their loop.        *)
FreeWoken == [p \in Proc |-> IF pc[p] = "descwait" THEN "rw" ELSE pc[p]]

Lowest(S) == CHOOSE d \in S : \A e \in S : d <= e

(* alloc3_desc() fails: what it had allocated is freed, which wakes others.*)
virtio_disk_rw_wait(p) ==
    /\ pc[p] = "rw" /\ handler = "off" /\ Cardinality(free) < 3
    /\ pc' = [(IF free = {} THEN pc ELSE FreeWoken) EXCEPT ![p] = "descwait"]
    /\ UNCHANGED <<client, rings, device, driver, data, handler, panic>>

(* The request is described in three descriptors and made available.       *)
virtio_disk_rw(p) ==
    LET d0 == Lowest(free)
        d1 == Lowest(free \ {d0})
        d2 == Lowest(free \ {d0, d1})
        b == my[p]
    IN  /\ pc[p] = "rw" /\ handler = "off" /\ Cardinality(free) >= 3
        /\ free' = free \ {d0, d1, d2}
        /\ desc' = [desc EXCEPT ![d0] = [@ EXCEPT !.more = TRUE, !.next = d1,
                                                  !.write = op[p] # "read", !.sector = blockno[b]],
                                ![d1] = [@ EXCEPT !.addr = b, !.more = TRUE, !.next = d2]]
        /\ status' = [status EXCEPT ![d0] = 255]
        /\ bdisk' = [bdisk EXCEPT ![b] = TRUE]
        /\ info' = [info EXCEPT ![d0] = b]
        /\ avail' = avail \cup {d0}
        /\ head' = [head EXCEPT ![p] = d0]
        /\ pc' = [pc EXCEPT ![p] = "diskwait"]
        /\ UNCHANGED <<client, data, used, device, handler, panic>>

(* The descriptors that free_chain(h) frees.                               *)
Chain(h) ==
    LET n == desc[h].next
    IN  {h} \cup (IF desc[h].more THEN {n} ELSE {})
            \cup (IF desc[h].more /\ desc[n].more THEN {desc[n].next} ELSE {})

(* After the wakeup: sleep again while b->disk, else free the chain.       *)
virtio_disk_rw_done(p) ==
    LET c == Chain(head[p]) IN
    /\ pc[p] = "diskwoken" /\ handler = "off"
    /\ IF bdisk[my[p]]
       THEN /\ pc' = [pc EXCEPT ![p] = "diskwait"]
            /\ UNCHANGED <<info, desc, free, panic>>
       ELSE /\ info' = [info EXCEPT ![head[p]] = NoBuf]
            /\ desc' = [d \in Desc |-> IF d \in c THEN NoDesc ELSE desc[d]]
            /\ free' = free \cup c
            /\ panic' = (panic \/ c \cap free # {})
            /\ pc' = [FreeWoken EXCEPT ![p] = "ret"]
    /\ head' = [head EXCEPT ![p] = IF bdisk[my[p]] THEN @ ELSE 0]
    /\ UNCHANGED <<client, rings, device, status, bdisk, data, handler>>

-----------------------------------------------------------------------------
(* The device.                                                             *)

(* Some request available is carried out and reported.                     *)
device_serve(h) ==
    LET b == desc[desc[h].next].addr
        s == desc[h].sector
    IN  /\ h \in avail
        /\ avail' = avail \ {h}
        /\ IF desc[h].write
           THEN platter' = [platter EXCEPT ![s] = data[b]] /\ UNCHANGED data
           ELSE data' = [data EXCEPT ![b] = platter[s]] /\ UNCHANGED platter
        /\ status' = [status EXCEPT ![h] = 0]
        /\ used' = Append(used, h)
        /\ due' = TRUE
        /\ UNCHANGED <<pc, client, head, free, desc, info, bdisk, irq, handler, panic>>

device_irq ==
    /\ due
    /\ irq' = TRUE /\ due' = FALSE
    /\ UNCHANGED <<pc, client, rings, driver, data, platter, handler, panic>>

-----------------------------------------------------------------------------
(* virtio_disk_intr()                                                      *)

(* The interrupt is acknowledged before the used ring is read.             *)
virtio_disk_intr ==
    /\ irq /\ handler = "off"
    /\ irq' = FALSE
    /\ handler' = "loop"
    /\ UNCHANGED <<pc, client, rings, driver, data, due, platter, panic>>

virtio_disk_intr_loop ==
    LET id == Head(used)
        b == info[id]
    IN  /\ handler = "loop" /\ used # <<>>
        /\ IF status[id] # 0 \/ b = NoBuf
           THEN panic' = TRUE /\ UNCHANGED <<bdisk, pc>>
           ELSE /\ bdisk' = [bdisk EXCEPT ![b] = FALSE]
                /\ pc' = [p \in Proc |-> IF pc[p] = "diskwait" /\ my[p] = b THEN "diskwoken"
                                         ELSE pc[p]]
                /\ UNCHANGED panic
        /\ used' = Tail(used)
        /\ UNCHANGED <<client, head, free, desc, info, status, data, avail, device, handler>>

virtio_disk_intr_done ==
    /\ handler = "loop" /\ used = <<>>
    /\ handler' = "release"
    /\ UNCHANGED <<pc, client, rings, driver, data, device, panic>>

(* Variant: the interrupt is acknowledged after the used ring is read.     *)
virtio_disk_intr_release_acks ==
    /\ handler = "release"
    /\ handler' = "off"
    /\ irq' = FALSE
    /\ UNCHANGED <<pc, client, rings, driver, data, due, platter, panic>>

virtio_disk_intr_release ==
    /\ handler = "release"
    /\ handler' = "off"
    /\ UNCHANGED <<pc, client, rings, driver, data, device, panic>>

Device == device_irq \/ \E h \in Desc : device_serve(h)

Intr == virtio_disk_intr \/ virtio_disk_intr_loop \/ virtio_disk_intr_done
        \/ virtio_disk_intr_release

Driver(p) == virtio_disk_rw(p) \/ virtio_disk_rw_wait(p) \/ virtio_disk_rw_done(p)
=============================================================================
