----------------------------- MODULE CowMemory -----------------------------
(***************************************************************************)
(* User memory with copy-on-write fork: the physical page allocator and    *)
(* its per-page reference counts (kernel/kalloc.c), user page tables       *)
(* (kernel/vm.c), and the kernel paths that change them: fork, exec, sbrk, *)
(* exit and wait, copyout, and the store page fault of usertrap().         *)
(*                                                                         *)
(* An address space stands for a user page table together with the kernel  *)
(* thread that works for it.  A kernel path is a sequence of steps, one    *)
(* per critical section on kmem.lock or pg_cowrefs[].lock and one per      *)
(* access to a page or page-table entry between them; the steps of         *)
(* different spaces interleave as on several CPUs.                         *)
(*                                                                         *)
(* Abstractions: a page holds one value; the free list is the set of its   *)
(* pages; pages the kernel keeps for itself (page-table pages, trapframes, *)
(* stacks, pipes) are not frames of the model, so mappages() may fail for  *)
(* lack of a page-table page at any time.                                  *)
(***************************************************************************)
EXTENDS Integers, FiniteSets, Sequences

CONSTANTS Space,      \* user page tables
          Frame,      \* physical pages given to user memory
          NPAGES,     \* pages of the user part of a space
          PGSIZE,     \* addresses per page
          Segments,   \* what exec() maps, in order; the last one is the stack
          Value,      \* contents programs store
          Zero,       \* a page filled with zeroes
          Img,        \* a page loaded from an executable
          Junk,       \* a page filled with junk by kalloc() or kfree()
          NoFrame, NoSpace, NoData

ASSUME CowAssumption ==
    /\ IsFiniteSet(Space)
    /\ NPAGES \in Nat \ {0} /\ PGSIZE \in Nat \ {0}
    /\ Segments \in Seq([n : Nat \ {0}, w : BOOLEAN, x : BOOLEAN]) /\ Segments # <<>>
    /\ Zero \in Value /\ Img \in Value
    /\ Junk \notin Value /\ NoData \notin Value \cup {Junk}
    /\ NoFrame \notin Frame /\ NoSpace \notin Space

VARIABLES freelist,   \* kmem.freelist
          count,      \* pg_cowrefs[f].count
          mem,        \* contents of physical pages
          pt,         \* pt[s][v]: entry of page v in the page table of s
          sz,         \* p->sz, in pages
          k           \* k[s]: pc and local variables of the kernel path of s

vars == <<freelist, count, mem, pt, sz, k>>

Page == 0..NPAGES-1

(* The lowest address of the region for which no page-table page exists;   *)
(* it stands for every address walk() finds no entry for, MAXVA included.  *)
Far == NPAGES * PGSIZE

Addr == 0..Far

PageOf(a) == a \div PGSIZE

(* A page-table entry; PTE_V is pa # NoFrame, PTE_R always accompanies it. *)
Pte == [pa : Frame \cup {NoFrame}, w : BOOLEAN, x : BOOLEAN, u : BOOLEAN, cow : BOOLEAN]

NoPte ==
    [pa |-> NoFrame, w |-> FALSE, x |-> FALSE, u |-> FALSE, cow |-> FALSE]

Valid(pte) == pte.pa # NoFrame

(* Registers of a space that is not in a kernel path.                      *)
Idle(pc) ==
    [pc |-> pc, op |-> "none", ra |-> "none", tgt |-> NoSpace, pg |-> 0, base |-> 0,
     end |-> 0, pa |-> NoFrame, addr |-> 0, val |-> Zero, ret |-> 0, seg |-> 0]

Init ==
    \E s \in Space, f \in Frame :
       /\ freelist = Frame \ {f}
       /\ count = [g \in Frame |-> 0]
       /\ mem = [g \in Frame |-> IF g = f THEN Img ELSE Junk]
       /\ pt = [t \in Space |-> [v \in Page |->
                  IF t = s /\ v = 0
                  THEN [pa |-> f, w |-> TRUE, x |-> TRUE, u |-> TRUE, cow |-> FALSE]
                  ELSE NoPte]]
       /\ sz = [t \in Space |-> IF t = s THEN 1 ELSE 0]
       /\ k = [t \in Space |-> Idle(IF t = s THEN "user" ELSE "none")]

-----------------------------------------------------------------------------
(* The page allocator.                                                     *)

(* kalloc() returning frame f, which the caller fills with x at once.      *)
kalloc(f, x) ==
    /\ f \in freelist
    /\ freelist' = freelist \ {f}
    /\ count' = [count EXCEPT ![f] = 0]
    /\ mem' = [mem EXCEPT ![f] = x]

(* The page has references besides the one kfree() gives up.               *)
Shared(f) == count[f] > 0

(* kfree(), the critical section on pg_cowrefs[].lock.                     *)
kfree(s) ==
    LET f == k[s].pa IN
    /\ k[s].pc = "kfree"
    /\ \/ /\ Shared(f)
          /\ count' = [count EXCEPT ![f] = @ - 1]
          /\ k' = [k EXCEPT ![s].pc = k[s].ra, ![s].pa = NoFrame]
       \/ /\ ~Shared(f)
          /\ k' = [k EXCEPT ![s].pc = "freepage"]
          /\ UNCHANGED count
    /\ UNCHANGED <<freelist, mem, pt, sz>>

(* The rest of kfree(), after the reference count lock is released.        *)
freepage(s) ==
    LET f == k[s].pa IN
    /\ k[s].pc = "freepage"
    /\ mem' = [mem EXCEPT ![f] = Junk]
    /\ freelist' = freelist \cup {f}
    /\ k' = [k EXCEPT ![s].pc = k[s].ra, ![s].pa = NoFrame]
    /\ UNCHANGED <<count, pt, sz>>

-----------------------------------------------------------------------------
(* User stores, the store page fault, and copyout().                       *)

(* The entry walk() finds for address a.                                   *)
PteAt(s, a) == IF a = Far THEN NoPte ELSE pt[s][PageOf(a)]

Writable(pte) == Valid(pte) /\ pte.u /\ pte.w

UserStore(s, a, x) ==
    /\ k[s].pc = "user"
    /\ Writable(PteAt(s, a))
    /\ mem' = [mem EXCEPT ![PteAt(s, a).pa] = x]
    /\ UNCHANGED <<freelist, count, pt, sz, k>>

(* usertrap() with scause 15 calls dup_pg(p->pagetable, r_stval()).        *)
usertrap(s, a) ==
    /\ k[s].pc = "user"
    /\ ~Writable(PteAt(s, a))
    /\ k' = [k EXCEPT ![s] = [@ EXCEPT !.pc = "dup_pg", !.op = "trap", !.addr = a]]
    /\ UNCHANGED <<freelist, count, mem, pt, sz>>

(* copyout() of x to the pages v..e-1; dup_pg() is called on va0.          *)
copyout(s, v, e, x) ==
    /\ k[s].pc = "user"
    /\ v < e
    /\ k' = [k EXCEPT ![s] = [@ EXCEPT !.pc = "dup_pg", !.op = "copyout",
                                       !.addr = v * PGSIZE, !.end = e, !.val = x]]
    /\ UNCHANGED <<freelist, count, mem, pt, sz>>

(* What dup_pg() returns before it allocates; 1 stands for going on.       *)
DupCheck(a, pte) ==
    IF a = Far \/ a = 0 THEN -1
    ELSE IF ~pte.cow THEN 0
    ELSE IF ~pte.u THEN -1
    ELSE IF ~Valid(pte) THEN -1
    ELSE 1

DupPte(s) == PteAt(s, k[s].addr)

dup_pg(s) ==
    LET check == DupCheck(k[s].addr, DupPte(s))
    IN  /\ k[s].pc = "dup_pg"
        /\ \/ /\ check # 1
              /\ k' = [k EXCEPT ![s].pc = "dup_ret", ![s].ret = check]
              /\ UNCHANGED <<freelist, count, mem>>
           \/ /\ check = 1 /\ freelist = {}
              /\ k' = [k EXCEPT ![s].pc = "dup_ret", ![s].ret = -2]
              /\ UNCHANGED <<freelist, count, mem>>
           \/ /\ check = 1
              /\ \E f \in freelist :
                    /\ kalloc(f, Junk)
                    /\ k' = [k EXCEPT ![s].pc = "memmove", ![s].pa = f]
        /\ UNCHANGED <<pt, sz>>

(* Variant: the new page is never filled.                                  *)
dup_memmove_nocopy(s) ==
    /\ k[s].pc = "memmove"
    /\ k' = [k EXCEPT ![s].pc = "setpte"]
    /\ UNCHANGED <<freelist, count, mem, pt, sz>>

dup_memmove(s) ==
    /\ k[s].pc = "memmove"
    /\ mem' = [mem EXCEPT ![k[s].pa] = mem[DupPte(s).pa]]
    /\ k' = [k EXCEPT ![s].pc = "setpte"]
    /\ UNCHANGED <<freelist, count, pt, sz>>

DupNewPte(s) ==
    [pa |-> k[s].pa, w |-> TRUE, x |-> TRUE, u |-> TRUE, cow |-> FALSE]

dup_setpte(s) ==
    /\ k[s].pc = "setpte"
    /\ pt' = [pt EXCEPT ![s][PageOf(k[s].addr)] = DupNewPte(s)]
    /\ k' = [k EXCEPT ![s].pc = "kfree", ![s].ra = "dup_ret",
                      ![s].pa = DupPte(s).pa, ![s].ret = 0]
    /\ UNCHANGED <<freelist, count, mem, sz>>

(* Back in usertrap(): -1 kills the process, anything else is "handled".   *)
trap_ret(s) ==
    /\ k[s].pc = "dup_ret" /\ k[s].op = "trap"
    /\ k' = [k EXCEPT ![s] = Idle(IF k[s].ret = -1 THEN "zombie" ELSE "user")]
    /\ UNCHANGED <<freelist, count, mem, pt, sz>>

(* Back in copyout(): walkaddr(), the copy, and the next page if any.      *)
copyout_ret(s) ==
    LET a == k[s].addr
        pte == DupPte(s)
    IN  /\ k[s].pc = "dup_ret" /\ k[s].op = "copyout"
        /\ \/ /\ k[s].ret < 0 \/ ~Valid(pte) \/ ~pte.u
              /\ k' = [k EXCEPT ![s] = Idle("user")]
              /\ UNCHANGED mem
           \/ /\ k[s].ret >= 0 /\ Valid(pte) /\ pte.u
              /\ mem' = [mem EXCEPT ![pte.pa] = k[s].val]
              /\ k' = [k EXCEPT ![s] =
                         IF PageOf(a) + 1 < k[s].end
                         THEN [@ EXCEPT !.pc = "dup_pg", !.ra = "none", !.addr = a + PGSIZE]
                         ELSE Idle("user")]
        /\ UNCHANGED <<freelist, count, pt, sz>>

-----------------------------------------------------------------------------
(* Loops over page tables.                                                 *)

(* Registers of s when it starts uvmunmap() on pages b..e-1 of tgt.        *)
StartUnmap(s, op, tgt, b, e) ==
    [k[s] EXCEPT !.pc = "uvmunmap", !.op = op, !.ra = "none", !.tgt = tgt,
                 !.base = b, !.pg = b, !.end = e]

uvmunmap(s) ==
    /\ k[s].pc = "uvmunmap"
    /\ k[s].pg < k[s].end
    /\ k' = [k EXCEPT ![s] = [@ EXCEPT !.pc = "kfree", !.ra = "clear",
                                       !.pa = pt[k[s].tgt][k[s].pg].pa]]
    /\ UNCHANGED <<freelist, count, mem, pt, sz>>

(* *pte = 0, after kfree() has returned.                                   *)
uvmunmap_clear(s) ==
    /\ k[s].pc = "clear"
    /\ pt' = [pt EXCEPT ![k[s].tgt][k[s].pg] = NoPte]
    /\ k' = [k EXCEPT ![s].pc = "uvmunmap", ![s].ra = "none", ![s].pg = @ + 1]
    /\ UNCHANGED <<freelist, count, mem, sz>>

UnmapDone(s, op) == k[s].pc = "uvmunmap" /\ k[s].pg >= k[s].end /\ k[s].op = op

(* What is left to do when uvmalloc() fails, after its uvmdealloc().        *)
FailOp(op) == IF op = "grow" THEN "grow_fail" ELSE "exec_fail"

(* uvmalloc(): one page allocated and cleared, or out of memory.           *)
uvmalloc(s) ==
    /\ k[s].pc = "uvmalloc"
    /\ k[s].pg < k[s].end
    /\ \/ \E f \in freelist :
             /\ kalloc(f, Zero)
             /\ k' = [k EXCEPT ![s].pc = "mappages", ![s].pa = f]
       \/ /\ freelist = {}
          /\ k' = [k EXCEPT ![s] = StartUnmap(s, FailOp(k[s].op), k[s].tgt, k[s].base, k[s].pg)]
          /\ UNCHANGED <<freelist, count, mem>>
    /\ UNCHANGED <<pt, sz>>

(* Permissions uvmalloc() maps with: PTE_W for sbrk, the segment's in exec.*)
Perm(s) ==
    IF k[s].op = "grow" THEN [w |-> TRUE, x |-> FALSE]
    ELSE [w |-> Segments[k[s].seg].w, x |-> Segments[k[s].seg].x]

(* mappages() failed: kfree(mem), then uvmdealloc().                       *)
MapFail(s) ==
    [StartUnmap(s, FailOp(k[s].op), k[s].tgt, k[s].base, k[s].pg)
       EXCEPT !.pc = "kfree", !.ra = "uvmunmap"]

uvmalloc_map(s) ==
    /\ k[s].pc = "mappages"
    /\ \/ /\ pt' = [pt EXCEPT ![k[s].tgt][k[s].pg] =
                      [pa |-> k[s].pa, w |-> Perm(s).w, x |-> Perm(s).x,
                       u |-> TRUE, cow |-> FALSE]]
          /\ k' = [k EXCEPT ![s].pc = "uvmalloc", ![s].pa = NoFrame, ![s].pg = @ + 1]
       \/ /\ k' = [k EXCEPT ![s] = MapFail(s)]
          /\ UNCHANGED pt
    /\ UNCHANGED <<freelist, count, mem, sz>>

AllocDone(s, op) == k[s].pc = "uvmalloc" /\ k[s].pg >= k[s].end /\ k[s].op = op

-----------------------------------------------------------------------------
(* fork(): allocproc() found the unused slot c; uvmcowpy() shares pages.   *)

fork(s, c) ==
    /\ k[s].pc = "user" /\ k[c].pc = "none"
    /\ k' = [k EXCEPT ![s] = [@ EXCEPT !.pc = "uvmcowpy", !.op = "fork", !.tgt = c],
                      ![c].pc = "setup"]
    /\ UNCHANGED <<freelist, count, mem, pt, sz>>

(* The entry parent and child have once the page is shared.                *)
SharePte(pte) == [pte EXCEPT !.w = FALSE, !.cow = TRUE]

(* Variant: the page that was not mapped is unmapped too.                  *)
CowpyErr_offbyone(s, v) == StartUnmap(s, "fork_fail", k[s].tgt, 0, v + 1)

(* err: in uvmcowpy(), unmaps the pages before v from the child.  The -1   *)
(* it then returns is a uint64, which fork() never finds negative.         *)
CowpyErr(s, v) == StartUnmap(s, "fork_fail", k[s].tgt, 0, v)

(* One iteration; cowmappage() counts the new reference when it maps it.   *)
uvmcowpy(s) ==
    LET v == k[s].pg
        c == k[s].tgt
        shared == SharePte(pt[s][v])
    IN  /\ k[s].pc = "uvmcowpy"
        /\ v < sz[s]
        /\ \/ /\ pt' = [pt EXCEPT ![s][v] = shared, ![c][v] = shared]
              /\ count' = [count EXCEPT ![shared.pa] = @ + 1]
              /\ k' = [k EXCEPT ![s].pg = @ + 1]
           \/ /\ pt' = [pt EXCEPT ![s][v] = shared]
              /\ k' = [k EXCEPT ![s] = CowpyErr(s, v)]
              /\ UNCHANGED count
        /\ UNCHANGED <<freelist, mem, sz>>

fork_done(s) ==
    LET c == k[s].tgt IN
    /\ k[s].pc = "uvmcowpy"
    /\ k[s].pg >= sz[s]
    /\ sz' = [sz EXCEPT ![c] = sz[s]]
    /\ k' = [k EXCEPT ![s] = Idle("user"), ![c] = Idle("user")]
    /\ UNCHANGED <<freelist, count, mem, pt>>

(* fork() goes on after a failed uvmcowpy(): a child whose p->sz counts    *)
(* pages it does not have becomes RUNNABLE, and the parent gets its pid.   *)
fork_lost(s) ==
    LET c == k[s].tgt IN
    /\ UnmapDone(s, "fork_fail")
    /\ sz' = [sz EXCEPT ![c] = sz[s]]
    /\ k' = [k EXCEPT ![s] = Idle("user"), ![c] = Idle("lost")]
    /\ UNCHANGED <<freelist, count, mem, pt>>

(* The child cannot even fetch an instruction: usertrap() gets an          *)
(* unexpected scause, marks it killed and calls exit(-1).                  *)
usertrap_lost(s) ==
    /\ k[s].pc = "lost"
    /\ k' = [k EXCEPT ![s] = Idle("lost_zombie")]
    /\ UNCHANGED <<freelist, count, mem, pt, sz>>

-----------------------------------------------------------------------------
(* sbrk(): growproc() to n pages.  A program keeps the page it runs in.    *)

growproc(s, n) ==
    /\ k[s].pc = "user"
    /\ n >= 1
    /\ \/ /\ n > sz[s]
          /\ k' = [k EXCEPT ![s] = [@ EXCEPT !.pc = "uvmalloc", !.op = "grow", !.tgt = s,
                                             !.base = sz[s], !.pg = sz[s], !.end = n]]
       \/ /\ n < sz[s]
          /\ k' = [k EXCEPT ![s] = StartUnmap(s, "shrink", s, n, sz[s])]
    /\ UNCHANGED <<freelist, count, mem, pt, sz>>

growproc_done(s) ==
    /\ \/ AllocDone(s, "grow") /\ sz' = [sz EXCEPT ![s] = k[s].end]
       \/ UnmapDone(s, "shrink") /\ sz' = [sz EXCEPT ![s] = k[s].base]
    /\ k' = [k EXCEPT ![s] = Idle("user")]
    /\ UNCHANGED <<freelist, count, mem, pt>>

growproc_fail(s) ==
    /\ UnmapDone(s, "grow_fail")
    /\ k' = [k EXCEPT ![s] = Idle("user")]
    /\ UNCHANGED <<freelist, count, mem, pt, sz>>

-----------------------------------------------------------------------------
(* exec(): a fresh page table c is filled segment by segment.              *)

exec(s, c) ==
    /\ k[s].pc = "user" /\ k[c].pc = "none"
    /\ k' = [k EXCEPT ![s] = [@ EXCEPT !.pc = "exec", !.op = "exec", !.tgt = c],
                      ![c].pc = "setup"]
    /\ UNCHANGED <<freelist, count, mem, pt, sz>>

(* uvmalloc() for the next segment.                                        *)
exec_segment(s) ==
    LET i == k[s].seg + 1
        b == sz[k[s].tgt]
    IN  /\ k[s].pc = "exec"
        /\ i <= Len(Segments)
        /\ b + Segments[i].n <= NPAGES
        /\ k' = [k EXCEPT ![s] = [@ EXCEPT !.pc = "uvmalloc", !.seg = i, !.base = b, !.pg = b,
                                           !.end = b + Segments[i].n]]
        /\ UNCHANGED <<freelist, count, mem, pt, sz>>

(* loadseg() for a program segment; uvmclear() of the guard page and       *)
(* copyout() of the arguments for the stack.                               *)
exec_loaded(s) ==
    LET c == k[s].tgt
        pages == k[s].base .. k[s].end - 1
        stack == k[s].seg = Len(Segments)
    IN  /\ AllocDone(s, "exec")
        /\ mem' = [f \in Frame |-> IF \E v \in pages : pt[c][v].pa = f THEN Img ELSE mem[f]]
        /\ pt' = IF stack THEN [pt EXCEPT ![c][k[s].base].u = FALSE] ELSE pt
        /\ sz' = [sz EXCEPT ![c] = k[s].end]
        /\ k' = [k EXCEPT ![s].pc = "exec"]
        /\ UNCHANGED <<freelist, count>>

(* goto bad, from a failed uvmalloc() or from any other check of exec().   *)
exec_bad(s) ==
    /\ UnmapDone(s, "exec_fail") \/ k[s].pc = "exec"
    /\ k' = [k EXCEPT ![s] = StartUnmap(s, "exec_bad", k[s].tgt, 0, sz[k[s].tgt])]
    /\ UNCHANGED <<freelist, count, mem, pt, sz>>

(* Commit: the process goes on in c, which frees the old page table.       *)
exec_commit(s) ==
    LET c == k[s].tgt IN
    /\ k[s].pc = "exec" /\ k[s].seg = Len(Segments)
    /\ k' = [k EXCEPT ![s] = Idle("dead"),
                      ![c] = [Idle("uvmunmap") EXCEPT !.op = "free", !.tgt = s, !.end = sz[s]]]
    /\ UNCHANGED <<freelist, count, mem, pt, sz>>

-----------------------------------------------------------------------------
(* exit() keeps the memory; freeproc(), called by wait(), releases it.     *)

exit(s) ==
    /\ k[s].pc = "user"
    /\ k' = [k EXCEPT ![s] = Idle("zombie")]
    /\ UNCHANGED <<freelist, count, mem, pt, sz>>

wait(s, c) ==
    /\ k[s].pc = "user" /\ k[c].pc = "zombie"
    /\ k' = [k EXCEPT ![s] = StartUnmap(s, "free", c, 0, sz[c]), ![c].pc = "dead"]
    /\ UNCHANGED <<freelist, count, mem, pt, sz>>

(* The same for the child of a failed fork(): the first page that          *)
(* uvmunmap() looks at is not mapped, which is a panic.                    *)
wait_lost(s, c) ==
    /\ k[s].pc = "user" /\ k[c].pc = "lost_zombie" /\ sz[c] > 0
    /\ k' = [k EXCEPT ![s].pc = "panic"]
    /\ UNCHANGED <<freelist, count, mem, pt, sz>>

(* uvmunmap() of a whole page table: by wait(), exec() or a failure.       *)
FreeOps == {"free", "fork_fail", "exec_bad"}

(* The page table of tgt is gone; that of a failed fork() stays in use.    *)
free_done(s) ==
    LET c == k[s].tgt IN
    /\ \E op \in FreeOps \ {"fork_fail"} : UnmapDone(s, op)
    /\ sz' = [sz EXCEPT ![c] = 0]
    /\ k' = [k EXCEPT ![s] = Idle("user"), ![c] = Idle("none")]
    /\ UNCHANGED <<freelist, count, mem, pt>>

-----------------------------------------------------------------------------
Kernel(s) ==
    \/ kfree(s) \/ freepage(s)
    \/ dup_pg(s) \/ dup_memmove(s) \/ dup_setpte(s) \/ trap_ret(s) \/ copyout_ret(s)
    \/ uvmunmap(s) \/ uvmunmap_clear(s) \/ uvmalloc(s) \/ uvmalloc_map(s)
    \/ uvmcowpy(s) \/ fork_done(s) \/ fork_lost(s) \/ usertrap_lost(s)
    \/ growproc_done(s) \/ growproc_fail(s)
    \/ exec_segment(s) \/ exec_loaded(s) \/ exec_bad(s) \/ exec_commit(s)
    \/ free_done(s)

User(s) ==
    \/ \E a \in Addr, x \in Value : UserStore(s, a, x)
    \/ \E a \in Addr : usertrap(s, a)
    \/ \E v \in Page, e \in 1..NPAGES, x \in Value : copyout(s, v, e, x)
    \/ \E n \in 1..NPAGES : growproc(s, n)
    \/ \E c \in Space \ {s} : fork(s, c) \/ exec(s, c) \/ wait(s, c) \/ wait_lost(s, c)
    \/ exit(s)

Next == \E s \in Space : Kernel(s) \/ User(s)

Spec == Init /\ [][Next]_vars

-----------------------------------------------------------------------------
(* Properties.                                                             *)

Content == Value \cup {Junk}

(* A child of a failed fork(): RUNNABLE, after exit().                     *)
LostPc == {"lost", "lost_zombie"}

Regs ==
    [pc : {"none", "setup", "dead", "zombie", "user", "kfree", "freepage", "dup_pg", "memmove",
           "setpte", "dup_ret", "uvmunmap", "clear", "uvmalloc", "mappages", "uvmcowpy", "exec",
           "lost", "lost_zombie", "panic"},
     op : {"none", "trap", "copyout", "fork", "grow", "shrink", "grow_fail", "exec",
           "exec_fail"} \cup FreeOps,
     ra : {"none", "dup_ret", "clear", "uvmunmap"},
     tgt : Space \cup {NoSpace}, pg : 0..NPAGES, base : 0..NPAGES, end : 0..NPAGES,
     pa : Frame \cup {NoFrame}, addr : Addr, val : Value, ret : {-2, -1, 0},
     seg : 0..Len(Segments)]

(* Every variable has its type.                                            *)
TypeOK ==
    /\ freelist \subseteq Frame
    /\ count \in [Frame -> Nat]
    /\ mem \in [Frame -> Content]
    /\ pt \in [Space -> [Page -> Pte]]
    /\ sz \in [Space -> 0..NPAGES]
    /\ k \in [Space -> Regs]

(* Where the kernel path of s goes on once a kfree() has returned.         *)
Pc(s) == IF k[s].pc \in {"kfree", "freepage"} THEN k[s].ra ELSE k[s].pc

(* The places that hold a reference to a physical page: a page-table       *)
(* entry, or (page -1) the local variable of a kernel path.  The entry     *)
(* that uvmunmap() is releasing has passed its reference to kfree().       *)
Loc == Space \X (Page \cup {-1})

Released(s, v) == \E r \in Space : k[r].ra = "clear" /\ k[r].tgt = s /\ k[r].pg = v

Ref(l) ==
    IF l[2] = -1 THEN k[l[1]].pa
    ELSE IF Released(l[1], l[2]) THEN NoFrame ELSE pt[l[1]][l[2]].pa

Refs(f) == {l \in Loc : Ref(l) = f}

(* pg_cowrefs[f].count is one less than the number of references to f for  *)
(* every page that is not free, and a free page has none: kfree() neither  *)
(* frees a page in use nor loses one, however fork(), faults, failed       *)
(* operations and exits interleave (comment at kalloc.c:28).               *)
RefCountExact ==
    \A f \in Frame : IF f \in freelist THEN Refs(f) = {}
                                       ELSE Cardinality(Refs(f)) = count[f] + 1

(* A page-table entry without PTE_COW is the only reference to its page,   *)
(* so what a program or copyout() writes through it nobody else sees; a    *)
(* shared entry is never writable.                                         *)
WritableExclusive ==
    \A s \in Space, v \in Page :
       Valid(pt[s][v]) /\ ~Released(s, v) =>
          /\ pt[s][v].cow => ~pt[s][v].w
          /\ ~pt[s][v].cow => Refs(pt[s][v].pa) = {<<s, v>>}

(* The panics of the page-table loops are unreachable, except that of      *)
(* wait_lost(): uvmcowpy() and uvmunmap() find every page mapped,          *)
(* mappages() finds it unmapped, and freewalk() finds no leaf left in a    *)
(* page table it frees.                                                    *)
NoPanic ==
    \A s \in Space :
       LET r == k[s] IN
       /\ r.pc = "uvmcowpy" /\ r.pg < sz[s] => Valid(pt[s][r.pg]) /\ ~Valid(pt[r.tgt][r.pg])
       /\ r.pc = "uvmunmap" /\ r.pg < r.end => Valid(pt[r.tgt][r.pg])
       /\ r.pc = "mappages" => ~Valid(pt[r.tgt][r.pg])
       /\ r.pc = "none" => \A v \in Page : ~Valid(pt[s][v])

NoPath == {"none", "setup", "dead", "zombie", "user", "lost", "lost_zombie", "panic"}
DupPc == {"dup_pg", "memmove", "setpte", "dup_ret"}
UnmapPc == {"uvmunmap", "clear"}
AllocPc == {"uvmalloc", "mappages"}

(* The registers a path uses at each of its points.                        *)
RegsInv(s) ==
    LET r == k[s] IN
    /\ r.pc \in {"kfree", "freepage"} => r.ra # "none"
    /\ r.ra = "clear" <=> Pc(s) = "clear"
    /\ r.pa # NoFrame <=> r.pc \in {"kfree", "freepage", "memmove", "setpte", "mappages"}
    /\ Pc(s) \in NoPath => r = Idle(r.pc)
    /\ Pc(s) \in DupPc => r.tgt = NoSpace /\ r.op \in {"trap", "copyout"}
    /\ Pc(s) \notin NoPath \cup DupPc => r.tgt \in Space

(* The operation a path works for, and the pages its loop is about.        *)
LoopInv(s) ==
    LET r == k[s] IN
    /\ r.op \in {"grow", "shrink", "grow_fail"} => r.tgt = s
    /\ r.op \in {"fork", "exec", "exec_fail"} \cup FreeOps => r.tgt # s
    /\ Pc(s) \in UnmapPc =>
          /\ r.op \in {"shrink", "grow_fail", "exec_fail"} \cup FreeOps
          /\ r.base <= r.pg /\ r.pg <= r.end
          /\ r.op \in FreeOps => r.base = 0
          /\ r.op \in {"grow_fail", "exec_fail"} => r.base = sz[r.tgt]
    /\ Pc(s) = "clear" => r.pg < r.end
    /\ Pc(s) \in AllocPc =>
          /\ r.op \in {"grow", "exec"}
          /\ r.base = sz[r.tgt] /\ r.base <= r.pg /\ r.pg <= r.end
    /\ Pc(s) = "mappages" => r.pg < r.end
    /\ Pc(s) = "uvmcowpy" => r.op = "fork" /\ r.pg <= sz[s]
    /\ Pc(s) = "exec" => r.op = "exec"
    /\ Pc(s) \in AllocPc /\ r.op = "exec" => r.seg # 0
    /\ Pc(s) = "none" => sz[s] = 0

(* A page table is changed by one path at a time: its own, or the one that *)
(* builds or frees it.                                                     *)
OneWorker ==
    \A r, s \in Space :
       /\ k[r].tgt = s /\ r # s => k[s].pc \in {"setup", "dead"}
       /\ k[r].tgt = k[s].tgt /\ k[r].tgt # NoSpace => r = s

(* The pages of the target that the path of s has mapped or left mapped.   *)
Built(s, v) ==
    LET r == k[s] IN
    IF Pc(s) \in UnmapPc THEN v < r.base \/ (r.pg <= v /\ v < r.end)
    ELSE IF Pc(s) = "exec" THEN v < sz[r.tgt]
    ELSE v < r.pg

(* A page table that no path builds or frees maps the pages below p->sz,   *)
(* or none if its fork() failed.                                           *)
PagesMapped ==
    \A s \in Space, v \in Page :
       /\ (\A r \in Space : k[r].tgt # s) =>
             (Valid(pt[s][v]) <=> v < sz[s] /\ k[s].pc \notin LostPc)
       /\ k[s].tgt # NoSpace => (Valid(pt[k[s].tgt][v]) <=> Built(s, v))

(* dup_pg() goes on only for a shared page.                                *)
DupInv(s) == k[s].pc \in {"memmove", "setpte"} => DupCheck(k[s].addr, DupPte(s)) = 1

PathInv(s) == RegsInv(s) /\ LoopInv(s) /\ DupInv(s)

(* The page at l has no other reference: the entry is not shared, or the   *)
(* page was just allocated or is about to be freed.                        *)
Own(l) ==
    IF l[2] = -1 THEN k[l[1]].pc \in {"memmove", "setpte", "mappages", "freepage"}
    ELSE ~pt[l[1]][l[2]].cow

Exclusive ==
    \A l, m \in Loc : Own(l) /\ Ref(l) # NoFrame /\ Ref(m) = Ref(l) => m = l

CowReadOnly == \A s \in Space, v \in Page : pt[s][v].cow => ~pt[s][v].w

(* The inductive form of MemoryConsistent.                                 *)
MemInv ==
    /\ TypeOK /\ RefCountExact /\ Exclusive /\ CowReadOnly /\ OneWorker /\ PagesMapped
    /\ \A s \in Space : PathInv(s)

(* What the pages hold that a program does not see yet: dup_pg() has       *)
(* copied the page, uvmalloc() adds zero pages, exec() has loaded the pages*)
(* below p->sz, and uvmcowpy() shares the pages of the parent.             *)
DataInv(s) ==
    LET r == k[s]
        c == r.tgt IN
    /\ r.pc = "setpte" => mem[r.pa] = mem[DupPte(s).pa]
    /\ Pc(s) = "dup_ret" /\ r.ret = 0 => ~DupPte(s).cow
    /\ r.pc = "mappages" => mem[r.pa] = Zero
    /\ Pc(s) \in AllocPc =>
          \A v \in Page : r.base <= v /\ v < r.pg => ~pt[c][v].cow /\ mem[pt[c][v].pa] = Zero
    /\ Pc(s) \in AllocPc \cup {"exec"} /\ r.op = "exec" =>
          \A v \in Page : v < sz[c] => ~pt[c][v].cow /\ mem[pt[c][v].pa] = Img
    /\ Pc(s) \in AllocPc /\ r.op = "exec" => r.end # 0
    /\ Pc(s) = "exec" /\ r.seg # 0 => sz[c] # 0
    /\ Pc(s) = "uvmcowpy" => \A v \in Page : v < r.pg => pt[c][v].pa = pt[s][v].pa
    /\ r.pc \notin {"none", "setup", "dead"} => sz[s] # 0
    /\ r.op = "shrink" => r.base # 0

DataInvs == \A s \in Space : DataInv(s)

(* The page tables, the reference counts, the contents of pages and the    *)
(* kernel paths agree.                                                     *)
MemoryConsistent == MemInv /\ DataInvs /\ WritableExclusive /\ NoPanic

(* Running out of memory in fork() never stops the kernel.  usertests.c    *)
(* (line 1956) says of its forktest "test that fork fails gracefully ...   *)
(* inside the bigger usertests binary, we run out of memory first", and    *)
(* uvmunmap() asks that "the mappings must exist" (vm.c:169).              *)
ForkFailsGracefully == \A s \in Space : k[s].pc # "panic"

(* What a program sees of its memory: nothing before fork() or exec() has  *)
(* completed it, after exit() or when its fork() failed, and no page that  *)
(* sbrk() is giving back.                                                  *)
ViewSize(s) ==
    IF k[s].pc \in {"none", "setup", "dead", "zombie", "lost", "lost_zombie"} THEN 0
    ELSE IF k[s].op = "shrink" THEN k[s].base ELSE sz[s]

Seen(s) == [v \in Page |-> IF v < ViewSize(s) THEN mem[pt[s][v].pa] ELSE NoData]

View == [s \in Space |-> Seen(s)]

PM == INSTANCE PrivateMemory WITH vm <- View

(* Copy-on-write is invisible: every behaviour of the page tables and the  *)
(* allocator is a behaviour of private memories, in which a store changes  *)
(* one page of one space and fork() duplicates the whole space.            *)
Isolation == PM!Spec

=============================================================================
