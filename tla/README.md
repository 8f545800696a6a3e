# Verification of Enhanced xv6

TLA+ models of the kernel under `src/initial-xv6/src/kernel` (xv6 for RISC-V with
copy-on-write fork, a priority-based scheduler and extra system calls), of its
shell and image builder, and of the cafe simulation under `src/concurrency`,
checked with TLC on small instances; the file system log, the process table and
copy-on-write memory are also proved with TLAPS for every value of their constants.

## 1. The system and its parts

| part | source | state | module |
|---|---|---|---|
| page allocator, copy-on-write counts | `kalloc.c` | `kmem.freelist`, `pg_cowrefs[]` | `CowMemory`, `CowProofs` |
| user address spaces | `vm.c`, `exec.c`, memory side of `fork`, `exit`, `wait`, `growproc` | page tables, `p->sz` | `CowMemory`, `PrivateMemory`, `CowProofs` |
| processes | `proc.c`, `trap.c` | `proc[]`, `p->lock`, `wait_lock`, `cpus[]` | `Proc`, `ProcProofs` |
| priority-based scheduler | `proc.c` (`PBS`), `sysproc.c`, `trap.c` | `SP`, `DP`, `RBI`, times, `ticks` | `Pbs` |
| file system log | `log.c` | `log`, log area and home blocks on disk | `Log`, `AtomicDisk`, `LogProofs` |
| buffer cache, sleep locks | `bio.c`, `sleeplock.c` | `bcache`, `struct buf` | `Bcache`, `BlockStore` |
| disk driver | `virtio_disk.c` | `disk`, the device | `Virtio` |
| pipes | `pipe.c` | ring buffer, open ends | `Pipe`, `ByteQueue` |
| file table and descriptors | `file.c`, `sysfile.c` | `ftable`, `p->ofile` | `File` (pipes), `FileSystem` (inodes, devices) |
| inodes, directories, paths | `fs.c`, `sysfile.c` | `itable`, inodes, bitmap | `InodeData`, `FileSystem`, `Files` |
| image builder | `mkfs/mkfs.c` | the first image | `InodeData`; its log size is a constant of `Log` |
| console and UART | `console.c`, `uart.c` | input line, transmit ring | `Console`, `Tty` |
| kernel `printf` | `printf.c` | `pr.lock` | in part in `Console`, as a writer to the UART |
| clock, `sleep` | `trap.c`, `sysproc.c` | `ticks` | in part in `Pbs` |
| spin locks | `spinlock.c` | `locked`, `noff`, `intena` | in part, as the locks of `Proc` and `Pbs` |
| shell | `user/sh.c` | the command tree, descriptors, children | `ShParse`, `ShGrammar`, `Shell` |
| cafe simulation | `src/concurrency/1.c` | semaphores, baristas, customers | `Cafe` |
| the rest | section 6 | | not modelled |

How they interact: system calls change processes (`Proc`), memory (`CowMemory`)
and files; files on disk are inodes (`FileSystem`), whose blocks go through the
log (`Log`), which goes through the buffer cache (`Bcache`), which goes through
the disk driver (`Virtio`). What a layer promises to the one above is an abstract
module (`PrivateMemory`, `AtomicDisk`, `BlockStore`, `ByteQueue`, `Files`, `Tty`)
that the layer is shown to implement. The shell uses the system calls as those
promises describe them. The scheduler (round
robin in `Proc`, or `Pbs`) interleaves all of them; `sleep` and `wakeup` join
them.

## 2. Modules

Every action stands for a section of the code that runs without a visible
interruption: up to the next lock, sleep, disk write or access to memory that
another process shares. The name of an action is the name of the C function,
with a suffix when a function is several steps. `PROJECT.json` gives the source
lines of every definition.

**CowMemory** – address spaces `Space`, frames `Frame`. `freelist`, `count` and
`mem` are `kmem.freelist`, `pg_cowrefs[].count` and the contents of frames (one
value per frame); `pt[s][v]` is the page-table entry of page `v` of space `s`,
`sz[s]` is `p->sz`. `k[s]` holds the program counter and local variables of the
kernel thread working for `s`, so that `kalloc`, `kfree`, `memmove` and the
page-table updates of different processes interleave step by step. Page-table
pages are not allocated; that their allocation may fail is a choice of
`uvmalloc_map` and `uvmcowpy`. **PrivateMemory** is what the whole promises:
each process has a private array of pages. A `fork` that runs out of memory
leaves a child of its own kind (`fork_lost`, `usertrap_lost`, `wait_lost`): it has
a size and no pages, see section 4. **CowProofs** has the theorems; the
lemmas they rest on are in **CowPaths** (reference counts, addresses, what a step
of one kernel path leaves of the others; the actions that start or end a path, and
`kfree`), **CowActions** (the page loops and `dup_pg`, and the actions that create,
replace and release a space) and **CowIsolation** (what each action changes of the
memory that programs see).

**Proc** – the process table with all locks: `plock[p]` and `wait_lock` have the
CPU that holds them. `run[c]` is the thread that CPU `c` executes, `th[p]` the
thread of a process (program counter, local variables, where it resumes after
`sched()`), `sch[c]` the scheduler thread. Preemption (`yield`) is possible
wherever interrupts are on. User programs call `fork`, `exit`, `wait` and `kill`
(of any pid, 0 and that of init included) in any order; an init that was killed
stops in `panic` (`exit_init`). **ProcProofs** has the proofs about threads and locks, those about
parents, children and sleepers (one lemma per action each), and the theorems.

**Pbs** – the second scheduler: the scan over the table and the tie-break under
two locks, `scheduleProcess`, `calculate_rbi`, `update_dp`, `clampDP`, the
`setpriority` system call, and `clockintr` with `update_time` walking the table.
`sc[c].clean` is a history variable: nothing has changed since the scan began.
**PbsProofs** has the proofs.

**Log** – `home`, `hdr`, `logd` are on disk (home blocks, header block, log
blocks); `cache`, `lh`, `outstanding`, `committing` are in memory. One block
write is one step and a crash may fall between any two, in recovery too.
`OPBLOCKS` bounds what an operation really adds to the log, `MAXOPBLOCKS` is what
`begin_op` sets aside for it.
**AtomicDisk** is what it promises: operations change the current contents, a
commit makes all of it durable at once, a crash returns to the durable contents.
**LogProofs** has the theorems.

**Bcache** over **Virtio** – buffers with `refcnt`, `valid`, sleep lock and the
LRU list; descriptors, chains, `info[]`, the two rings (as queues: at most
NUM/3 entries are ever in them, and NUM divides 2^16), the device and the
interrupt handler. **BlockStore** is what they promise: a block has one contents
and one holder at a time.

**File** over **Pipe** – `ref`, `type`, `writable` and `fpipe` are the fields of
`struct file`, `ofile[p]` the descriptors, `th[p]` the call in progress. A pipe
is its ring, its two counters modulo `UINT` (for 2^32), its two flags and its
lock; `asleep[p]` is the channel a process sleeps on. `unseen` is a history
variable: bytes were written since the last wakeup of the readers. `ofile` is
private to a process, so its changes are part of the step on the file table they
go with. **ByteQueue** is what pipes promise: bounded queues with two ends.

**FileSystem** over **InodeData** – `InodeData` has the data structures on the
disk as pure operators on a record of bitmap, blocks and inodes: `balloc`,
`bfree`, `bmap` with direct and indirect blocks, `itrunc`, `readi`, `writei`,
`dirlookup`, `dirlink`, and the image `mkfs` makes. Operators that change blocks
also return the set of blocks they log. A copy from user memory may fail after a
prefix (`CopyFails`): the prefix is in the buffer and not in the log, and `under`
keeps what the disk has of such a block until the block is logged, its buffer is
recycled (`Evict`) or the system restarts. `FileSystem` has the processes: `itable`
is the inode table (an entry for each inode number, so that it does not run out),
`dinode` and `disk` are on disk, `fd[p]` is one open file of each process, `cwd[p]`
its working directory, and `k[p]` the call in progress with its locked and counted
inodes. A section under inode locks is one step; each `ilock` that may wait, the
two halves of `iput` and each component of a path are steps of their own. A
restart drops everything in memory; since `Log` makes transactions atomic, it may
only fall between them. `stale` is a history variable: the `..` of a removed
directory was followed, or a removed directory was given an entry. **Files** is
what files promise: sequences of bytes, with reads and writes at offsets; only
bytes that a failing write left behind (`behind`) may vanish again.

**Console** – `cons` is the input ring with its three indices, `uart_tx_buf` the
output ring, both with indices modulo `UINT` (for 2^32 and 2^64). `th[x]` is the
thread of a writer, of `printf` and of the interrupt handler; testing LSR and
writing THR are two steps, because the three kinds of writers hold different
locks. `killed()` and `sleep()` of `consoleread` are two steps as well, since `kill`
takes neither `cons.lock` nor any other lock the reader holds between them. The UART with its FIFOs and interrupt is external. **Tty** is what the
console promises: a line that is edited and a queue of complete lines.

**ShParse**, **ShGrammar** and **Shell** – `ShParse` is the recursive descent of
`sh.c` over the characters of a line, with `nulterminate` and the strings it leaves;
`ShGrammar` is the reference: the set of trees the grammar gives a line. `Shell`
runs the trees: `main`, `fork1`, `runcmd`; processes with their descriptors, pipes
and programs that send, copy or exit are external.

**Cafe** – `sem[b]` is the semaphore of a barista, `t[c]` the thread of a customer,
`now` the time in seconds. A second passes when every thread sleeps or waits; once
in a behaviour (`late`) it passes although a thread could run. `wasted_coffee++`
and `average_wait_time +=` are a read and a write.

The modules `MC...` add symmetry sets and constants for TLC. Definitions marked
*Variant* are deliberately wrong forms of the definition that follows them; with
a variant in its place the named property fails, which shows that the property
depends on that piece of the code.

## 3. Runs

| run | question | instance |
|---|---|---|
| `cow` | do counts equal references, is no shared page writable, do the page loops undo exactly what they did when an allocation fails half way (`MemoryConsistent`), is memory private (`Isolation`)? | 2 spaces of 2 pages, 3 frames, 2 values, an image of a read-only and a writable segment |
| `cow_fork` | does a `fork` that runs out of memory fail (`ForkFailsGracefully`)? It does not: the run ends with the panic of section 4 | the same |
| `proc_smp` | one CPU per process and locks at `sched()` (`SwitchesSafely`), no lost exit, orphans reach init and a forked slot is reserved (`FamilyConsistent`) | 2 CPUs, 3 slots, 3 pids (a slot is reused), 1 kill of any pid |
| `proc_live` | does every runnable process run, are all children reaped? | 2 CPUs, 2 slots, 3 pids |
| `pbs` | is a process dispatched once and does `setpriority` hit its target (`DispatchConsistent`), is the first process in the order of the code chosen, do tie-break, clock and `setpriority` never deadlock? | three systems: 2 CPUs and 3 slots; 2 CPUs, 2 slots and a tick; 1 CPU, 3 slots and `setpriority` |
| `log_crash` | is a transaction atomic under crashes, do reservations suffice, are waiters woken? | 2 processes, 3 blocks, 2 values, a log of 4 blocks with its header, 2 reserved and 1 used by an operation |
| `bcache_disk` | do cache (`CacheConsistent`), driver and device (`DriverConsistent`) behave as one memory with exclusive holders (`Coherent`)? | 2 processes, 2 buffers, 3 blocks, 5 or 6 descriptors |
| `file_pipe` | are file counts and pipe ends exact and is a pipe freed only when unused (`ReferencesExact`), are sleepers woken, do bytes come out in order? | 2 processes, 2 descriptors each, 2 files, 1 pipe of 2 bytes, counters modulo 4 |
| `fs` | are references, links, bitmap and inodes exact at every step, does `iput` free what it should and never block, do files behave as byte sequences? | 2 processes, 4 inodes, 6 blocks of 2 entries, 2 direct blocks; five workloads |
| `cafe` | is a barista exclusive and do the sleeps add up (`ServiceConsistent`), how far off can the count be, does the shop close? | 3 customers, 1 or 2 baristas, 56 inputs |
| `console` | does the input ring implement the edited line, is output in order, is nobody left asleep, is everything sent? | 2 readers, 2 writers, rings of 3 and 2, indices modulo 6; four workloads |
| `shell` | are lines parsed as the grammar says, are descriptors as asked, do all processes end? | all short lines over 9 characters, 5 lines with two and three words where `argv[]` has room for two, 8 pipelines with tables of 3 to 7 processes, 2 pipes |

A property named in the middle column of several parts is their conjunction, in
the module beside them.

Why the bounds are enough: two address spaces share a page, and one of them can be
replaced by `exec` or reaped and forked again while the other faults; two pages on
three frames make a loop fail before the first, between and after its pages (the
proofs of section 5 are for any number); three slots
for parent, child and orphan; three pids so that a slot changes hands; two CPUs
for every race between two lock holders. Log: the size is that of `mkfs`
(`NLOG = LOGSIZE`), two operations make a commit of two blocks, and one that
begins after another has logged a block has to wait. Two descriptors
short of six force a wait after a partial allocation, six allow two requests
that complete in either order; three blocks on two buffers force recycling.
A pipe of two bytes can be empty, partly full and full at every position of the
ring, and counters modulo 4 wrap around; two descriptors and two files make each
step of `pipe()` fail; a process may hold both ends, so that two processes
suffice for a reader that outlives one writer but not the other.
Blocks of two entries make a directory grow into a second block, two direct
blocks and an indirect one make every branch of `bmap` and `itrunc` happen, and
six blocks and four inodes run out. The workloads of `fs` and `console` are the
calls that get in each other's way; each workload is a choice of the initial
state, and within it the calls come in every order, any number of times. Rings
of two and three slots are empty, partly full and full at every position, and
their indices wrap around. Lines of four characters have every pair of operators
in a row with words between or without; the longer ones add arguments up to the
panic of `parseexec` (`MAXARGS`), and programs that write more than a pipe holds or
stop reading early. Three customers at one barista are
one served, one waiting and one that times out.
`MAXPID`, `MAXKILL`, `MAXTICKS`, `MAXSCHED`, `MAXPIN`, `Sends` and the fields of
`left` bound counters; each is a guard of the action that counts.

Deadlock is checked except where a bound makes the system stop (`Pbs`, once
everybody has been dispatched `MAXSCHED` times; `CowMemory`, once all processes
have exited; `File`, where a process may read a pipe it alone can write;
`Console`, where a reader may wait for keys that nobody types; `Shell`, which
ends).

Fairness. `Proc`: each CPU goes on with what it executes (weak fairness of its
scheduler and of each step of the thread it runs; strong fairness where a step
waits for a spin lock that others take and release, since the hardware grants a
lock that is free again and again). User programs are not forced to call
anything, but they are preempted by the timer. `Log`: commit and recovery go on,
a process that has been woken runs, and an operation that began reaches
`end_op()`; the code has no path between them that waits for ever. `Console`: the
UART sends what it has, a pending interrupt is taken, and a thread that can run
does; nobody is forced to type, write or be killed. `Shell`: each process that can
go on does. `Cafe`: each thread that can go on does, and time passes.

## 4. What the runs show

One property is violated. `fork` tests `uvmcowpy(...) < 0` (`proc.c:317`), but
`uvmcowpy` returns `uint64` (`vm.c:350`), so that its -1 is never seen: when memory
runs out, the child becomes `RUNNABLE` with the size of its parent and without a
page. Its first instruction fetch kills it, and the `wait` that reaps it panics in
`uvmunmap`, of which `vm.c:169` says "The mappings must exist". `usertests.c:1956`
tests "that fork fails gracefully". `cow_fork` has the shortest such behaviour.
`MemoryConsistent` and `Isolation` hold beside it: no count is wrong, no frame is
lost, and no other program's memory changes.

The other properties hold. Some of them hold in the form given because the code
does not have the stronger one:

- `SetsLiveTarget`: `sys_setpriority` compares `p->pid` before it takes `p->lock`
  (`sysproc.c:125`; `proc.h:88` asks for the lock). The slot keeps the pid while
  the process exists, but once it is gone the new priority goes to a free slot or
  to the process that has the slot now.
- `NeverTooBig` needs `OPBLOCKS < MAXOPBLOCKS`. `begin_op` reserves up to `LOGSIZE`
  blocks ("max data blocks in on-disk log", `param.h:10`), but `mkfs` makes
  `log.size = LOGSIZE`, header included (`mkfs.c:25`), and `log_write` panics at
  `log.size - 1` blocks, before it looks for the block in the log (`log.c:220`). If
  three operations used all of their reservation the last of their blocks, or even
  a repeated write of one of them, would be one too many. None does: the calls of
  `sysfile.c` and the chunks of `filewrite` log at most 7 of the 10 blocks.
- `NoPanic` of `FileSystem` and `LinksExact` except `stale`: a process whose
  working directory was removed can still follow its `..`, which may be free or
  reused by then (`ilock: no type`, `fs.c:315`), and can create an entry in it.
- `LastPutFreesUnlessReused`: between the two halves of `iput` the inode is free on
  disk and still counted; if it is allocated again and its new last `iput` also
  comes before the second half, nobody frees it until `mkfs` is run again.
- `WastedBounds`: `wasted_coffee++` is not guarded, though the program declares a
  mutex; updates can be lost.
- `ShopCloses` except a `Stuck` customer, and `TimesAddUp` except `late`: if a
  second passes between the time-out and the reading of the clock,
  `sleep(tolerance - delay)` gets a negative number (`1.c:141`), so that this
  customer never leaves and `main` waits for ever. All other customers do leave.
- `SleepersHaveReason` of `Console` does not say that no killed reader sleeps: a
  `kill` between `killed()` and `sleep()` in `consoleread` (`console.c:92`) is noticed
  at the next line only.
- `FamilyConsistent` allows `init` to be killed: nothing in `kill` protects pid 1, and
  `exit` then panics (`proc.c:377`). `InitReaps` ends with that panic.
- `ImplementsFiles` allows the bytes of a write whose copy from user memory failed
  to be seen for a while and to vanish: `writei` leaves them in a buffer that it
  does not log (`fs.c:522`).

`SleepersHaveReason` of `File` is of the same kind. A `pipewrite` that is killed, or loses its reader, half way
returns without waking the readers (`pipe.c:84`); while another process keeps
the write end open, a reader may then sleep although there are bytes.

Other differences between documents and code met while modelling (the models
follow the code): a tie between equal dynamic priorities is what
`src/README.md:33` describes ("two processes have the same Dynamic Priority"), while the
scan compares static priorities (`SP`), to which `SelectsBest` refers; `dup_pg` returns 0, not -1, for an invalid page
(`kalloc.c:153`), so the faulting store is retried for ever; `uvmcowpy` marks
read-only pages copy-on-write and `dup_pg` makes the copy writable
(`kalloc.c:185`), so after a fork the text can be written, which
`usertests.c:2424` says it cannot; `calculate_rbi`
truncates before it multiplies by 50 (`src/README.md:45`); `setpriority` resets RBI
to 25 and recomputes it at once (`sysproc.c:131`); the average waiting time of the
cafe adds `delay - 1`, which is -1 when the barista becomes free within the same
second (`1.c:129`), where `src/README.md:391` speaks of the time until the barista was free;
a waiting customer waits for the first barista only, and looks at the others
when the tolerance is over (`1.c:124`); a second redirection of the same
descriptor is overridden by the first, which is innermost (`sh.c:381`).

## 5. Proofs

### The log

`LogProofs` proves, for any finite set of processes, any sets of blocks and
values and any log sizes with `LOGSIZE >= MAXOPBLOCKS` (`LogAssumption`):

- `LogInvariant`: `Spec => []LogInv`;
- `TypeCorrect`, `CommitRunsAlone`, `NoLostWakeup`: its conjuncts of interest;
- `LogNeverTooBig`: `Spec => []NeverTooBig` if `OPBLOCKS < MAXOPBLOCKS < LOGSIZE` and
  `LOGSIZE <= NLOG`, the log that `mkfs` makes (see section 4);
- `LogIsAtomic`: `Spec => CrashAtomic`, that is, `Log` implements `AtomicDisk`
  under the mapping `durable <- Durable` (what recovery would make of the disk),
  `current <- Current`, `active <- outstanding`.

None of the properties is inductive alone. `LogInv` adds to the types
(1) `PcInv`: which process is committing, and that `committing` says so;
(2) `DiskInv`: at each point of a commit, which prefix of the log blocks agrees
with the cache (`Copied`), that the header on disk is empty or equal to the one
in memory, which prefix has been installed (`Installed`), that blocks not in the
log agree with their home location, and that the header lists no block twice
(`Injective`, due to absorption in `log_write`);
(3) `RoomLeft`: the blocks that the operations in progress may still log, as a set of
pairs of operation and number (`Reserved`), fit into the log besides the ones that
are recorded. `begin_op` admits an operation by its worst case, `MAXOPBLOCKS` blocks
for each that runs; `log_write` uses up one element of `Reserved` at least when it
adds a block. As every operation leaves a block of its reservation unused, the log
has a spare block while several run, and `RoomAlone` says why the last of them still
has one: it ran with another, or has logged all blocks itself. `log_write` needs the
spare block also to absorb a write. `NeverTooBig` follows. With (1) and (2) each step of `Log` is a
step of `AtomicDisk` or a stutter: the only step that changes `Durable` during a
commit is `write_head`, the commit point. The proof has one lemma per action for
the invariant and one step per action for the refinement.

### The process table

`ProcProofs` proves, for any set of CPUs, any number of slots and any bounds on
pids and kills (`ProcAssumption`), the three safety properties of `proc_smp`:

- `SpecSwitchesSafely`: `Spec => []SwitchesSafely`;
- `SpecFamilyConsistent`: `Spec => []FamilyConsistent`;
- `SpecNoLostExit`: `Spec => []NoLostExit`.

The first rests on `SwitchInv`, which says who holds each lock in terms of where
the threads are: `p->lock` is held by the CPU that is on either side of `swtch()`
with `p`, or that fills slot `p` in `fork()` (`PLockOwned`); `wait_lock` by the
CPU whose thread is inside `exit()` or `wait()` (`WaitLockOwned`); a thread runs
on the one CPU whose scheduler waits for it, or is parked in `sched()`
(`ThreadInv`). `OneCpuPerProcess` alone is not inductive: that no other CPU
dispatches a process which has marked itself `RUNNABLE` and not yet left its
stack is exactly what `p->lock`, held across `swtch()`, is for.

The other two rest on `FamilyInv`, given `SwitchInv`. `NoLostExit` speaks of the
moments when `wait_lock` is free, but a `ZOMBIE` child is handed to a sleeping
`init` in the middle of `reparent()`, and a parent is woken before its child is a
`ZOMBIE`. `WakeupPending` bridges the first: a sleeper with an exited child is
ahead of some `wakeup()` on its channel. `ExitKnows` bridges the second: once
`wakeup(p->parent)` has passed the slot of the parent it does not sleep, and it
cannot go to sleep again without `wait_lock`. `WaitKnows` says the same of the
other side: when `wait()` goes to sleep no child is a `ZOMBIE`. `InitStays`
(init has pid 1 and never becomes a `ZOMBIE`, because `exit` panics first),
`ParentsLive` and `HasParent` give `ParentAlive`; `ForkKnows` gives
`ForkedSlotReserved`. The proof has one lemma per action and invariant. Actions
that change no parent and put nobody to sleep share one argument (`QuietStep`):
what a thread under `wait_lock` knows cannot be changed by others.

### The priority scheduler

`PbsProofs` proves the safety properties of `pbs` for all systems: any CPUs, any
number of slots, pids, ticks and dispatches (`PbsAssumption`):

- `SpecDispatchConsistent`: `Spec => []DispatchConsistent`;
- `SpecNoLockCycle`: `Spec => []NoLockCycle`;
- `SpecSelectsBest`: `Spec => []SelectsBest`.

`DispatchConsistent` is the inductive invariant. `RunsOnce` and `SetsLiveTarget`,
the parts that say something to a caller, rest on `LockInv` (a CPU that holds
`p->lock` does so because `p` runs on it, is on its way to or from it, or ties with
the selected process) and on `PidInv` (a pid is handed out once, so a slot that no
longer has the pid `setpriority` looked for has lost it for good).

`NoLockCycle` is about the scan, which compares a process with the selected one
while it holds both locks. A CPU that spins holds at most one lock, and only in the
tie-break does it hold one: then it spins for a slot below the one it holds, since
the selected process was found before (`ScanInv`). In a set of CPUs that wait for
each other, the one that waits for the lowest slot would wait for a CPU that waits
for a lower one still.

`SelectsBest` needs what a scan knows half way (`ScanBest`): if nothing has changed
since it began, the selected process is before every runnable process of the slots
passed. A step of the scan keeps it because `Before` (lower static priority, then
dispatched less often, then created earlier, then the lower slot) is transitive; a
step of another CPU that changes what the scan compares ends the assumption.

### Copy-on-write memory

`CowProofs` proves, for any finite set of address spaces, any set of physical
pages, any number and size of pages and any layout of segments (`CowAssumption`):

- `SpecMemoryConsistent`: `Spec => []MemoryConsistent`;
- `SpecIsolation`: `Spec => Isolation`, that is, `CowMemory` implements
  `PrivateMemory`.

`MemoryConsistent` says that the reference counts are exact (`RefCountExact`), that
an entry without `PTE_COW` is the only reference to its page (`WritableExclusive`)
and that the panics of the page loops are unreachable (`NoPanic`), but for the
reaping of the child of a `fork` that ran out of memory (`wait_lost`). Its inductive
form is `MemInv` (and `DataInvs`, below). A reference to a page is a place (`Loc`) that holds it: an entry
of a page table, or the local variable of a kernel path between `kalloc` and the
entry or between the entry and `kfree`; while `uvmunmap` waits for `kfree`, the
entry it will clear has handed its reference over (`Released`). `Exclusive` extends
`WritableExclusive` to the pages in local variables: a page just allocated, or
found unshared by `kfree`, has no other reference, although `freepage` runs after
the lock of the count is released. The panics are excluded by `PagesMapped`: a page
table that nobody works on maps exactly the pages below `p->sz` (that of the child of
such a `fork` maps none), and one that a
path works on maps the pages the loop has built or left (`Built`). That needs
`OneWorker`, a page table is changed by one path at a time, and `RegsInv`,
`LoopInv` and `DupInv`, what the local variables of a path are at each of its
points. `PagesMapped` gives exactness on the error paths: the pages that a failed
loop unmaps are those it mapped. The proof has one lemma per action.

The refinement maps each space to what its program sees (`View`): the contents of
the pages below `p->sz`, nothing while `fork` or `exec` still builds the space, after
`exit` or in the child of a failed `fork`, and only the pages that remain while `sbrk` gives pages back. The
abstract step of an operation is its last one: `fork_done`, `growproc_done` and
`exec_commit` show at once what many steps have prepared, and the store of
`copyout` follows its `dup_pg`. That these steps show the right contents is
`DataInv`, which TLC checks as a part of `MemoryConsistent`: the page that `dup_pg`
has filled equals the page it will replace, also if other owners of the page have
come and gone meanwhile; `uvmalloc` has mapped zero pages only; `exec` has loaded
every page below the size of the new space; `uvmcowpy` has mapped the frames of the
parent, which runs in the kernel and cannot replace one. All other steps leave
`View` as it is. For a step that writes to a page (`memmove`, the junk of `kfree`,
the zeros of `kalloc`, `loadseg`, a store) that is `Exclusive` again: no other place
refers to the page. `CowIsolation` and `CowProofs` have a lemma for each action,
named `_hidden` when it leaves `View` alone and `_maps` when it is an abstract step.

### Only model-checked

Liveness (`EventuallyRuns`, `InitReaps` and the other leads-to properties):
fairness is out of the prover's reach. The properties of the other modules.

## 6. Not modelled

- Boot, traps in assembly, PLIC set-up (`start.c`, `main.c`, `*.S`): hardware state
  without a protocol of its own. What `swtch` and interrupts do to the threads is
  in `Proc`, `Pbs`, `Virtio` and `Console`.
- `copyinstr` and the kernel page table (`vm.c`; a `copyin` that fails half way is
  in `InodeData`); `string.c`; the
  formatting of `printf.c`: no state that another step could see half done.
- `syscall.c` and the argument functions; `readCount`, an unlocked statistic.
- `sys_sleep`: the `sleep`/`wakeup` of `Proc` on another channel. `push_off` and
  `pop_off`: the locks of the models are held with interrupts off throughout.
- The freeze of the UART after `panic`; `filestat`; the full inode table, on
  which `iget` panics.
- `ramdisk.c`, which the Makefile does not build; the user programs other than
  the shell, and `ulib.c` and `umalloc.c`: sequential code. `concurrency/2.c` is
  empty, and the repository has no networking source.
