----------------------------- MODULE CowProofs ------------------------------
(***************************************************************************)
(* CowMemory implements PrivateMemory: what programs see of the steps that *)
(* complete sbrk(), fork(), exec() and wait(), as in CowIsolation for the  *)
(* other steps; then that the first state and every step of CowMemory are  *)
(* those of private memories.  The theorems about CowMemory, for any       *)
(* number of spaces, pages and frames.                                     *)
(***************************************************************************)
EXTENDS CowActions, CowIsolation, FiniteSetTheorems

(* sbrk() has grown the space, or given back what was not seen any more.   *)
LEMMA growproc_done_maps ==
    ASSUME MemInv, MemInv', DataInvs, NEW s \in Space, growproc_done(s)
    PROVE  DataInvs' /\ ((\E n \in 0 .. NPAGES : PM!Resize(s, n)) \/ View' = View)
<1>0. PICK r \in Regs : r = k[s]
  BY KTyped, Zenon
<1>1. /\ UNCHANGED <<mem, pt>> /\ k'[s] = Idle("user")
      /\ \A t \in Space \ {s} : k'[t] = k[t] /\ sz'[t] = sz[t]
  BY Zenon DEF growproc_done, MemInv, TypeOK
<1>2. k'[s].pc = "user" /\ k'[s].op = "none"
  BY <1>1, IdleIs, Zenon
<1>3. k'[s].pc \notin Absent \cup {"zombie", "lost", "lost_zombie"} /\ k'[s].pc \in NoPath
  BY <1>2, Zenon DEF Absent, NoPath
<1>4. ViewSize(s)' = sz'[s]
  BY <1>2, <1>3, ViewSizeIs, Zenon
<1>5. ASSUME sz'[s] # 0, r.pc \notin Absent
      PROVE  DataInvs' /\ \A t \in Space \ {s} : Seen(t)' = Seen(t)
  <2>1. DataInv(s)'
    BY <1>3, <1>5, AbsentData, Zenon
  <2> QED  BY <1>0, <1>1, <1>5, <2>1, PathStep, Zenon
<1>6. CASE AllocDone(s, "grow") /\ sz' = [sz EXCEPT ![s] = k[s].end]
  <2>1. r.pc = "uvmalloc" /\ r.pg >= r.end /\ r.op = "grow" /\ sz'[s] = r.end
    BY <1>0, <1>6, Zenon DEF AllocDone, MemInv, TypeOK
  <2>2. r.pc \notin Absent \cup {"zombie", "lost", "lost_zombie"} /\ Pc(s) \in AllocPc
    BY <1>0, <2>1, Zenon DEF Absent, Pc, AllocPc
  <2>3. r.tgt = s /\ r.base = sz[s] /\ r.base <= r.pg /\ r.pg <= r.end
    BY <1>0, <2>1, <2>2, KTyped, Zenon DEF PathInv, LoopInv
  <2>4. sz[s] # 0 /\ \A v \in Page : r.base <= v /\ v < r.pg => mem[pt[s][v].pa] = Zero
    <3>1. sz[s] # 0 /\ DataInv(s) /\ k[s] = r
      BY <1>0, <2>2, HasPages, Zenon
    <3>2. \A v \in Page : r.base <= v /\ v < r.pg => mem[pt[r.tgt][v].pa] = Zero
      BY <2>2, <3>1, Zenon DEF DataInv
    <3> QED  BY <2>3, <3>1, <3>2, Zenon
  <2>5. r.end \in 0 .. NPAGES /\ r.end \in Nat /\ r.end # 0 /\ sz[s] \in Nat /\ r.pg = r.end
    BY <2>1, <2>3, <2>4, SMTT(30) DEF Regs, MemInv, TypeOK
  <2>6. ViewSize(s) = sz[s] /\ ViewSize(s)' = r.end
    BY <1>0, <1>4, <2>1, <2>2, ViewSizeIs, Zenon
  <2>7. \A v \in Page : v < r.end => mem'[pt'[s][v].pa] = IF v < ViewSize(s) THEN mem[pt[s][v].pa] ELSE Zero
    <3> SUFFICES ASSUME NEW v \in Page, v < r.end, ~(v < ViewSize(s))
                 PROVE  mem[pt[s][v].pa] = Zero
      BY <1>1, Zenon
    <3>1. r.base <= v /\ v < r.pg
      BY <2>3, <2>5, <2>6 DEF Page
    <3> QED  BY <2>4, <3>1, Zenon
  <2>8. DataInvs' /\ \A t \in Space \ {s} : Seen(t)' = Seen(t)
    BY <1>5, <2>1, <2>2, <2>5, Zenon
  <2>9. PM!Resize(s, r.end)
    BY <2>4, <2>5, <2>6, <2>7, <2>8, ResizeSeen, Zenon
  <2> QED  BY <2>5, <2>8, <2>9, Zenon
<1>7. CASE UnmapDone(s, "shrink") /\ sz' = [sz EXCEPT ![s] = k[s].base]
  <2>1. r.pc = "uvmunmap" /\ r.op = "shrink" /\ sz'[s] = r.base
    BY <1>0, <1>7, Zenon DEF UnmapDone, MemInv, TypeOK
  <2>2. r.pc \notin Absent \cup {"zombie", "lost", "lost_zombie"}
    BY <2>1, Zenon DEF Absent
  <2>3. r.base # 0
    BY <1>0, <2>1, <2>2, HasPages, Zenon DEF DataInv
  <2>4. ViewSize(s)' = ViewSize(s)
    BY <1>0, <1>4, <2>1, <2>2, ViewSizeIs, Zenon
  <2>5. Seen(s)' = Seen(s)
    BY <1>1, <2>4, SeenSame, Zenon
  <2>6. DataInvs' /\ \A t \in Space \ {s} : Seen(t)' = Seen(t)
    BY <1>5, <2>1, <2>2, <2>3, Zenon
  <2> QED  BY <2>5, <2>6, Zenon DEF View
<1> QED  BY <1>6, <1>7, Zenon DEF growproc_done

(* The end of a path that worked on another space c.                       *)
LEMMA free_done_hidden ==
    ASSUME MemInv, MemInv', DataInvs, NEW s \in Space, free_done(s)
    PROVE  DataInvs' /\ View' = View
<1>0. PICK r \in Regs : r = k[s]
  BY KTyped, Zenon
<1>c. PICK c : c = r.tgt
  BY Zenon
<1>1. r.pc = "uvmunmap" /\ r.op \in FreeOps /\ UNCHANGED <<mem, pt>>
  BY <1>0, <1>c, Zenon DEF free_done, UnmapDone
<1>2. c \in Space /\ c # s
  BY <1>0, <1>c, <1>1, KTyped, Zenon DEF PathInv, RegsInv, LoopInv, Pc, NoPath, DupPc
<1>3. /\ k'[s] = Idle("user") /\ k'[c] = Idle("none")
      /\ \A t \in Space \ {s, c} : k'[t] = k[t]
      /\ \A t \in Space \ {c} : sz'[t] = sz[t]
  BY <1>0, <1>c, <1>2, Zenon DEF free_done, MemInv, TypeOK
<1>4. r.pc \notin Absent \cup {"zombie", "lost", "lost_zombie"} /\ r.op # "shrink"
  BY <1>1, Zenon DEF Absent, FreeOps
<1>5. DataInv(s)' /\ ViewSize(s)' = ViewSize(s)
  BY <1>0, <1>c, <1>2, <1>3, <1>4, EndData, Zenon
<1>6. Seen(s)' = Seen(s)
  BY <1>1, <1>5, SeenSame, Zenon
<1>7. Bystanders(s)
  BY <1>0, <1>c, <1>1, <1>2, <1>3, <1>4, Zenon DEF Bystanders, Bystander
<1>8. k'[c].pc \in Absent
  BY <1>3, IdleIs, Zenon DEF Absent
<1> QED  BY <1>0, <1>c, <1>5, <1>6, <1>7, <1>8, HiddenStep, Zenon

(* The space c of a path of s, after it is done: the others see no change. *)
LEMMA HandOver ==
    ASSUME MemInv, MemInv', DataInvs, NEW s \in Space, NEW c \in Space, c = k[s].tgt, c # s,
           k[s].pc \notin Absent, UNCHANGED <<mem, pt>>,
           \A t \in Space \ {s, c} : k'[t] = k[t] /\ sz'[t] = sz[t], DataInv(s)', DataInv(c)'
    PROVE  /\ DataInvs' /\ \A t \in Space \ {s, c} : Seen(t)' = Seen(t)
           /\ View[c] = [v \in Page |-> NoData]
<1>1. Bystanders(s)
  BY Zenon DEF Bystanders, Bystander
<1>2. \A t \in Space \ {s, c} : DataInv(t)' /\ Seen(t)' = Seen(t)
  BY <1>1, BystanderData, BystanderSeen, Zenon DEF Bystanders, DataInvs
<1>3. k[c].pc \in Absent
  BY Zenon DEF MemInv, OneWorker, Absent
<1>4. View[c] = [v \in Page |-> NoData]
  BY <1>3, AbsentSeen, Zenon DEF View
<1> QED  BY <1>2, <1>4, Zenon DEF DataInvs

(* fork() goes on after a failed uvmcowpy(): the child it makes has no     *)
(* page to see.                                                            *)
LEMMA fork_lost_hidden ==
    ASSUME MemInv, MemInv', DataInvs, NEW s \in Space, fork_lost(s)
    PROVE  DataInvs' /\ View' = View
<1>0. PICK r \in Regs : r = k[s]
  BY KTyped, Zenon
<1>c. PICK c : c = r.tgt
  BY Zenon
<1>1. r.pc = "uvmunmap" /\ r.op = "fork_fail" /\ UNCHANGED <<mem, pt>>
  BY <1>0, <1>c, Zenon DEF fork_lost, UnmapDone
<1>2. c \in Space /\ c # s
  BY <1>0, <1>c, <1>1, KTyped, Zenon DEF PathInv, RegsInv, LoopInv, Pc, NoPath, DupPc, FreeOps
<1>3. /\ k'[s] = Idle("user") /\ k'[c] = Idle("lost") /\ sz'[c] = sz[s] /\ sz'[s] = sz[s]
      /\ \A t \in Space \ {s, c} : k'[t] = k[t] /\ sz'[t] = sz[t]
  BY <1>0, <1>c, <1>2, Zenon DEF fork_lost, MemInv, TypeOK
<1>4. r.pc \notin Absent \cup {"zombie", "lost", "lost_zombie"} /\ r.op # "shrink"
  BY <1>1, Zenon DEF Absent
<1>5. DataInv(s)' /\ ViewSize(s)' = ViewSize(s)
  BY <1>0, <1>c, <1>2, <1>3, <1>4, EndData, Zenon
<1>6. Seen(s)' = Seen(s)
  BY <1>1, <1>5, SeenSame, Zenon
<1>7. k'[c].pc = "lost" /\ sz'[c] # 0
  BY <1>0, <1>3, <1>4, HasPages, IdleIs, Zenon
<1>8. DataInv(c)'
  BY <1>2, <1>7, AbsentData, Zenon DEF NoPath
<1>9. Seen(c)' = [v \in Page |-> NoData]
  BY <1>7, AbsentSeen, Zenon
<1>10. /\ DataInvs' /\ \A t \in Space \ {s, c} : Seen(t)' = Seen(t)
       /\ View[c] = [v \in Page |-> NoData]
  BY <1>0, <1>c, <1>1, <1>2, <1>3, <1>4, <1>5, <1>8, HandOver, Zenon
<1> QED  BY <1>2, <1>6, <1>9, <1>10, Zenon DEF View

(* The first trap of a child without pages, and its wait(), which panics:  *)
(* neither touches memory.                                                 *)
LEMMA lost_hidden ==
    ASSUME MemInv, MemInv', DataInvs, NEW s \in Space,
           usertrap_lost(s) \/ \E c \in Space \ {s} : wait_lost(s, c)
    PROVE  DataInvs' /\ View' = View
<1>1. CASE usertrap_lost(s)
  <2>1. /\ k[s].pc = "lost" /\ k'[s] = Idle("lost_zombie") /\ UNCHANGED <<mem, pt, sz>>
        /\ \A t \in Space \ {s} : k'[t] = k[t]
    BY <1>1, Zenon DEF usertrap_lost, MemInv, TypeOK
  <2>2. k[s].pc \notin Absent /\ k'[s].pc = "lost_zombie" /\ sz'[s] # 0
    BY <2>1, HasPages, IdleIs, Zenon DEF Absent
  <2>3. DataInv(s)' /\ ViewSize(s)' = ViewSize(s)
    BY <2>1, <2>2, AbsentData, AbsentSeen, Zenon DEF NoPath
  <2> QED  BY <2>1, <2>2, <2>3, RegsStep, Zenon
<1>2. ASSUME NEW c \in Space \ {s}, wait_lost(s, c)
      PROVE  DataInvs' /\ View' = View
  <2>1. /\ k[s].pc = "user" /\ k'[s].pc = "panic" /\ UNCHANGED <<mem, pt, sz>>
        /\ \A t \in Space \ {s} : k'[t] = k[t]
    BY <1>2, KTyped, SMTT(30) DEF wait_lost, MemInv, TypeOK, Regs
  <2>2. k[s].pc \notin Absent \cup {"zombie", "lost", "lost_zombie"} /\ sz'[s] # 0
    BY <2>1, HasPages, Zenon DEF Absent
  <2>3. k[s].op = "none" /\ k'[s].op = "none"
    <3>1. k[s].pc \in NoPath /\ Pc(s) = k[s].pc /\ k'[s].pc \in NoPath /\ Pc(s)' = k'[s].pc
      BY <2>1, Zenon DEF Pc, NoPath
    <3>2. k[s] = Idle(k[s].pc) /\ k'[s] = Idle(k'[s].pc)
      BY <3>1, Zenon DEF MemInv, PathInv, RegsInv
    <3> QED  BY <3>2, IdleIs, Zenon
  <2>4. DataInv(s)'
    BY <2>1, <2>2, AbsentData, Zenon DEF NoPath
  <2>5. ViewSize(s)' = ViewSize(s)
    BY <2>1, <2>2, <2>3, ViewSizeIs, Zenon DEF Absent
  <2> QED  BY <2>1, <2>2, <2>4, <2>5, RegsStep, Zenon
<1> QED  BY <1>1, <1>2, Zenon

(* fork() completes: the child sees at once what the parent sees.          *)
LEMMA fork_done_maps ==
    ASSUME MemInv, MemInv', DataInvs, NEW s \in Space, fork_done(s)
    PROVE  DataInvs' /\ \E c \in Space \ {s} : PM!Fork(s, c)
<1>0. PICK r \in Regs : r = k[s]
  BY KTyped, Zenon
<1>c. PICK c : c = r.tgt
  BY Zenon
<1>1. r.pc = "uvmcowpy" /\ r.pg >= sz[s] /\ UNCHANGED <<mem, pt>> /\ Pc(s) = "uvmcowpy"
  BY <1>0, <1>c, Zenon DEF fork_done, Pc
<1>2. c \in Space /\ c # s /\ r.op = "fork"
  BY <1>0, <1>c, <1>1, KTyped, Zenon DEF PathInv, RegsInv, LoopInv, NoPath, DupPc
<1>3. /\ k'[s] = Idle("user") /\ k'[c] = Idle("user") /\ sz'[c] = sz[s]
      /\ \A t \in Space \ {s, c} : k'[t] = k[t] /\ sz'[t] = sz[t]
      /\ sz'[s] = sz[s]
  BY <1>0, <1>c, <1>2, Zenon DEF fork_done, MemInv, TypeOK
<1>4. r.pc \notin Absent \cup {"zombie", "lost", "lost_zombie"}
  BY <1>1, Zenon DEF Absent
<1>5. sz[s] # 0 /\ sz[s] \in Nat /\ DataInv(s)
  BY <1>0, <1>c, <1>4, HasPages, SMTT(30) DEF MemInv, TypeOK
<1>6. DataInv(s)' /\ ViewSize(s)' = ViewSize(s) /\ ViewSize(s) = sz[s]
  BY <1>0, <1>c, <1>2, <1>3, <1>4, EndData, ViewSizeIs, Zenon
<1>7. Seen(s)' = Seen(s)
  BY <1>1, <1>6, SeenSame, Zenon
<1>8. DataInv(c)' /\ ViewSize(c)' = sz[s]
  <2>1. k'[c].pc = "user" /\ k'[c].op = "none"
    BY <1>3, IdleIs, Zenon
  <2>2. DataInv(c)'
    BY <1>2, <1>3, <1>5, <2>1, AbsentData, Zenon DEF NoPath
  <2>3. k'[c].pc \notin Absent \cup {"zombie", "lost", "lost_zombie"}
    BY <2>1, Zenon DEF Absent
  <2> QED  BY <1>3, <2>1, <2>2, <2>3, ViewSizeIs, Zenon
<1>9. \A v \in Page : v < sz[s] => pt[c][v].pa = pt[s][v].pa
  <2>1. \A v \in Page : v < r.pg => pt[c][v].pa = pt[s][v].pa
    BY <1>0, <1>c, <1>1, <1>5, Zenon DEF DataInv
  <2>2. \A v \in Page : v < sz[s] => v < r.pg
    BY <1>1, <1>5 DEF Page, Regs
  <2> QED  BY <2>1, <2>2, Zenon
<1>10. Seen(c)' = Seen(s)
  BY <1>1, <1>6, <1>8, <1>9, Zenon DEF Seen
<1>11. /\ DataInvs' /\ \A t \in Space \ {s, c} : Seen(t)' = Seen(t)
       /\ View[c] = [v \in Page |-> NoData]
  BY <1>0, <1>c, <1>1, <1>2, <1>3, <1>4, <1>6, <1>8, HandOver, Zenon
<1>12. View' = [View EXCEPT ![c] = View[s]]
  BY <1>2, <1>7, <1>10, <1>11, Zenon DEF View
<1>13. View[s] # [v \in Page |-> NoData]
  BY <1>5, <1>6, SeenNotEmpty, Zenon DEF View
<1>14. PM!Fork(s, c)
  BY <1>11, <1>12, <1>13, Zenon DEF PM!Fork, PM!Empty, PM!Page, Page
<1> QED  BY <1>2, <1>11, <1>14, Zenon

(* exec() commits: the program goes on in the new space, which shows the   *)
(* image and nothing else.                                                 *)
LEMMA exec_commit_maps ==
    ASSUME MemInv, MemInv', DataInvs, NEW s \in Space, exec_commit(s)
    PROVE  DataInvs' /\ \E c \in Space \ {s}, n \in 1 .. NPAGES : PM!Exec(s, c, n)
<1>0. PICK r \in Regs : r = k[s]
  BY KTyped, Zenon
<1>c. PICK c : c = r.tgt
  BY Zenon
<1>1. r.pc = "exec" /\ r.seg = Len(Segments) /\ UNCHANGED <<mem, pt, sz>> /\ Pc(s) = "exec"
  BY <1>0, <1>c, Zenon DEF exec_commit, Pc
<1>2. c \in Space /\ c # s /\ r.op = "exec"
  BY <1>0, <1>c, <1>1, KTyped, ZenonT(30) DEF PathInv, RegsInv, LoopInv, NoPath, DupPc
<1>3. /\ k'[s] = Idle("dead")
      /\ k'[c] = [Idle("uvmunmap") EXCEPT !.op = "free", !.tgt = s, !.end = sz[s]]
      /\ \A t \in Space \ {s, c} : k'[t] = k[t]
  BY <1>0, <1>c, <1>2, Zenon DEF exec_commit, MemInv, TypeOK
<1>4. r.pc \notin Absent \cup {"zombie", "lost", "lost_zombie"}
  BY <1>1, Zenon DEF Absent
<1>5. DataInv(s) /\ r.seg # 0
  <2>1. Len(Segments) # 0
    BY CowAssumption, SMTT(30)
  <2> QED  BY <1>0, <1>c, <1>1, <1>4, <2>1, HasPages, ZenonT(30)
<1>6. sz[c] \in 1 .. NPAGES /\ \A v \in Page : v < sz[c] => mem[pt[c][v].pa] = Img
  <2>1. sz[c] # 0 /\ \A v \in Page : v < sz[c] => mem[pt[c][v].pa] = Img
    BY <1>0, <1>c, <1>1, <1>2, <1>5, Zenon DEF DataInv
  <2> QED  BY <1>2, <2>1, CowAssumption, SMTT(30) DEF MemInv, TypeOK
<1>7. DataInv(s)' /\ Seen(s)' = [v \in Page |-> NoData]
  <2>1. k'[s].pc = "dead"
    BY <1>3, IdleIs, Zenon
  <2>2. k'[s].pc \in Absent /\ k'[s].pc \in NoPath
    BY <2>1, Zenon DEF Absent, NoPath
  <2> QED  BY <2>2, AbsentData, AbsentSeen, Zenon
<1>8. DataInv(c)' /\ ViewSize(c)' = sz[c]
  <2>1. k'[c].pc = "uvmunmap" /\ k'[c].op = "free"
    BY <1>3, Zenon DEF Idle
  <2>2. k'[c].pc \notin Absent \cup {"zombie", "lost", "lost_zombie"} /\ Pc(c)' \in UnmapPc
    BY <2>1, Zenon DEF Absent, Pc, UnmapPc
  <2>3. sz'[c] # 0
    BY <1>1, <1>6
  <2>4. DataInv(c)'
    BY <1>2, <2>1, <2>2, <2>3, UnmapData, Zenon
  <2> QED  BY <1>1, <2>1, <2>2, <2>4, ViewSizeIs, Zenon
<1>9. Seen(c)' = [v \in Page |-> IF v < sz[c] THEN Img ELSE NoData]
  BY <1>1, <1>6, <1>8, Zenon DEF Seen
<1>10. /\ DataInvs' /\ \A t \in Space \ {s, c} : Seen(t)' = Seen(t)
       /\ View[c] = [v \in Page |-> NoData]
  <2>1. \A t \in Space \ {s, c} : k'[t] = k[t] /\ sz'[t] = sz[t]
    BY <1>1, <1>3, Zenon
  <2>2. k[s].pc \notin Absent /\ c = k[s].tgt /\ UNCHANGED <<mem, pt>>
    BY <1>0, <1>c, <1>1, <1>4, Zenon
  <2> QED  BY <1>2, <1>7, <1>8, <2>1, <2>2, HandOver, Zenon
<1>11. View' = [View EXCEPT ![s] = [v \in Page |-> NoData],
                            ![c] = [v \in Page |-> IF v < sz[c] THEN Img ELSE NoData]]
  BY <1>2, <1>7, <1>9, <1>10, Zenon DEF View
<1>12. PM!Exec(s, c, sz[c])
  BY <1>10, <1>11, Zenon DEF PM!Exec, PM!Empty, PM!Page, Page
<1> QED  BY <1>2, <1>6, <1>10, <1>12, Zenon

(* The contents of memory once pages b .. e - 1 of c are loaded.           *)
Filled(c, b, e) == [f \in Frame |-> IF \E v \in b .. e - 1 : pt[c][v].pa = f THEN Img ELSE mem[f]]

(* A path that fills pages b .. e - 1 of c, which have no other reference: *)
(* the pages of the other places keep their contents.                      *)
LEMMA FillKept ==
    ASSUME MemInv, NEW c \in Space, NEW b \in 0 .. NPAGES, NEW e \in 0 .. NPAGES,
           \A v \in Page : b <= v /\ v < e =>
              pt[c][v].pa \in Frame /\ Ref(<<c, v>>) = pt[c][v].pa /\ ~pt[c][v].cow,
           mem' = Filled(c, b, e)
    PROVE  /\ \A v \in Page : b <= v /\ v < e => mem'[pt[c][v].pa] = Img
           /\ \A t \in Space, v \in Page \cup {-1} :
                 Ref(<<t, v>>) \in Frame /\ (t # c \/ ~(b <= v /\ v < e))
                 => mem'[Ref(<<t, v>>)] = mem[Ref(<<t, v>>)]
<1>1. \A v : v \in b .. e - 1 <=> v \in Page /\ b <= v /\ v < e
  BY CowAssumption DEF Page
<1>2. \A v \in Page : b <= v /\ v < e => mem'[pt[c][v].pa] = Img
  BY <1>1, Zenon DEF Filled
<1>3. ASSUME NEW t \in Space, NEW v \in Page \cup {-1}, Ref(<<t, v>>) \in Frame,
             t # c \/ ~(b <= v /\ v < e), NEW w \in b .. e - 1, pt[c][w].pa = Ref(<<t, v>>)
      PROVE  FALSE
  <2>1. w \in Page /\ Own(<<c, w>>) /\ Ref(<<c, w>>) = Ref(<<t, v>>) /\ <<t, v>> # <<c, w>>
    BY <1>1, <1>3, OwnIs, Zenon
  <2>2. <<t, v>> \in Loc /\ <<c, w>> \in Loc /\ Ref(<<t, v>>) # NoFrame
    BY <1>3, <2>1, LocIs, CowAssumption, Zenon
  <2> QED  BY <2>1, <2>2, Zenon DEF MemInv, Exclusive
<1>4. \A t \in Space, v \in Page \cup {-1} :
         Ref(<<t, v>>) \in Frame /\ (t # c \/ ~(b <= v /\ v < e))
         => mem'[Ref(<<t, v>>)] = mem[Ref(<<t, v>>)]
  <2> SUFFICES ASSUME NEW t \in Space, NEW v \in Page \cup {-1}, Ref(<<t, v>>) \in Frame,
                      t # c \/ ~(b <= v /\ v < e)
               PROVE  mem'[Ref(<<t, v>>)] = mem[Ref(<<t, v>>)]
    BY Zenon
  <2>1. ~\E w \in b .. e - 1 : pt[c][w].pa = Ref(<<t, v>>)
    BY <1>3, Zenon
  <2> QED  BY <2>1, Zenon DEF Filled
<1> QED  BY <1>2, <1>4, Zenon

(* exec() has loaded a segment: the pages have no other reference and      *)
(* belong to a space that is not seen yet.                                 *)
LEMMA exec_loaded_hidden ==
    ASSUME MemInv, MemInv', DataInvs, NEW s \in Space, exec_loaded(s)
    PROVE  DataInvs' /\ View' = View
<1>0. PICK r \in Regs : r = k[s]
  BY KTyped, Zenon
<1> DEFINE c == k[s].tgt  b == k[s].base  e == k[s].end
<1>1. /\ r.pc = "uvmalloc" /\ r.pg >= r.end /\ r.op = "exec" /\ c = r.tgt /\ b = r.base /\ e = r.end
      /\ pt' = pt \/ pt' = [pt EXCEPT ![c][b].u = FALSE]
      /\ sz' = [sz EXCEPT ![c] = e] /\ k' = [k EXCEPT ![s].pc = "exec"]
  BY <1>0, Zenon DEF exec_loaded, AllocDone
<1>a. mem' = Filled(c, b, e)
  BY Zenon DEF exec_loaded, Filled
<1>b. c = k[s].tgt
  BY Zenon
<1> HIDE DEF c, b, e
<1>2. /\ c \in Space /\ c # s /\ r.pg <= r.end /\ sz[c] = b /\ b <= r.pg
      /\ \A v \in Page : Built(s, v) <=> v < r.pg
  BY <1>0, <1>1, AllocRegs, Zenon DEF AllocPc
<1>3. r.pc \notin Absent \cup {"zombie", "lost", "lost_zombie"} /\ Pc(s) = "uvmalloc" /\ Pc(s) \in AllocPc /\ Pc(s) # "clear"
  BY <1>0, <1>1, Zenon DEF Absent, Pc, AllocPc
<1>4. b \in 0 .. NPAGES /\ e \in 0 .. NPAGES /\ r.pg = e
  BY <1>1, <1>2, CowAssumption, SMTT(30) DEF Regs
<1>5. sz[s] # 0 /\ DataInv(s)
  BY <1>0, <1>3, HasPages, Zenon
<1>6. \A v \in Page : v < e => pt[c][v].pa \in Frame /\ Ref(<<c, v>>) = pt[c][v].pa
  BY <1>0, <1>1, <1>2, <1>3, <1>4, BuiltRef, Zenon
<1>7. /\ e # 0 /\ \A v \in Page : b <= v /\ v < e => ~pt[c][v].cow
      /\ \A v \in Page : v < b => ~pt[c][v].cow /\ mem[pt[c][v].pa] = Img
  BY <1>0, <1>1, <1>2, <1>3, <1>4, <1>5, Zenon DEF DataInv
<1>8. \A v \in Page : b <= v /\ v < e =>
         pt[c][v].pa \in Frame /\ Ref(<<c, v>>) = pt[c][v].pa /\ ~pt[c][v].cow
  BY <1>6, <1>7, Zenon
<1>9. /\ \A v \in Page : b <= v /\ v < e => mem'[pt[c][v].pa] = Img
      /\ \A t \in Space, v \in Page \cup {-1} :
            Ref(<<t, v>>) \in Frame /\ (t # c \/ ~(b <= v /\ v < e))
            => mem'[Ref(<<t, v>>)] = mem[Ref(<<t, v>>)]
  BY <1>a, <1>2, <1>4, <1>8, FillKept, ZenonT(30)
<1>10. \A v \in Page : v < e => ~pt[c][v].cow /\ mem'[pt[c][v].pa] = Img
  <2> SUFFICES ASSUME NEW v \in Page, v < e PROVE ~pt[c][v].cow /\ mem'[pt[c][v].pa] = Img
    BY Zenon
  <2>1. b <= v \/ (v < b /\ ~(b <= v))
    BY <1>4, CowAssumption DEF Page
  <2>2. CASE b <= v
    BY <1>7, <1>9, <2>2, Zenon
  <2>3. CASE v < b /\ ~(b <= v)
    <3>1. pt[c][v].pa \in Frame /\ Ref(<<c, v>>) = pt[c][v].pa
      BY <1>6, Zenon
    <3>2. ~pt[c][v].cow /\ mem[pt[c][v].pa] = Img
      BY <1>7, <2>3, Zenon
    <3>3. mem'[Ref(<<c, v>>)] = mem[Ref(<<c, v>>)]
      BY <1>2, <1>9, <2>3, <3>1, Zenon
    <3> QED  BY <3>1, <3>2, <3>3, Zenon
  <2> QED  BY <2>1, <2>2, <2>3, Zenon
<1>11. /\ \A t \in Space : t # c => pt'[t] = pt[t]
       /\ \A v \in Page : pt'[c][v].pa = pt[c][v].pa /\ pt'[c][v].cow = pt[c][v].cow
  <2>1. CASE pt' = pt
    BY <2>1, Zenon
  <2>2. CASE pt' = [pt EXCEPT ![c][b].u = FALSE]
    <3>1. \A p \in Pte : [p EXCEPT !.u = FALSE].pa = p.pa /\ [p EXCEPT !.u = FALSE].cow = p.cow
      BY Zenon DEF Pte
    <3>2. PICK f : f = [pt[c] EXCEPT ![b].u = FALSE]
      BY Zenon
    <3>3. pt' = [pt EXCEPT ![c] = f] /\ pt[c] \in [Page -> Pte] /\ pt \in [Space -> [Page -> Pte]]
      BY <1>2, <2>2, <3>2, Zenon DEF MemInv, TypeOK
    <3>4. ASSUME NEW v \in Page PROVE f[v].pa = pt[c][v].pa /\ f[v].cow = pt[c][v].cow
      <4>1. f[v] = pt[c][v] \/ f[v] = [pt[c][v] EXCEPT !.u = FALSE]
        BY <3>2, <3>3, Zenon
      <4> QED  BY <3>1, <3>3, <4>1, Zenon
    <3> QED  BY <1>2, <3>3, <3>4, Zenon
  <2> QED  BY <1>1, <2>1, <2>2, Zenon
<1>12. /\ k'[s] = [r EXCEPT !.pc = "exec"] /\ \A t \in Space \ {s} : k'[t] = k[t]
       /\ sz'[c] = e /\ \A t \in Space : t # c => sz'[t] = sz[t]
  BY <1>0, <1>1, <1>2, ZenonT(30) DEF MemInv, TypeOK
<1>13. k'[s].pc = "exec" /\ k'[s].op = "exec" /\ k'[s].tgt = c /\ Pc(s)' = "exec"
  <2>1. k'[s].pc = "exec" /\ k'[s].op = "exec" /\ k'[s].tgt = c
    <3>1. r.op = "exec" /\ r.tgt = c /\ k'[s] = [r EXCEPT !.pc = "exec"]
      BY <1>1, <1>12, Zenon
    <3> QED  BY <3>1, ZenonT(30) DEF Regs
  <2> QED  BY <2>1, Zenon DEF Pc
<1>14. DataInv(s)'
  <2>1. sz'[s] # 0 /\ sz'[c] # 0
    BY <1>2, <1>5, <1>7, <1>12, Zenon
  <2>2. \A v \in Page : v < sz'[c] => ~pt'[c][v].cow /\ mem'[pt'[c][v].pa] = Img
    BY <1>10, <1>11, <1>12, Zenon
  <2> QED  BY <1>13, <2>1, <2>2, ZenonT(30) DEF DataInv, AllocPc
<1>15. Seen(s)' = Seen(s)
  <2>1. ViewSize(s)' = ViewSize(s)
    <3>1. k'[s].pc \notin Absent \cup {"zombie", "lost", "lost_zombie"}
      BY <1>13, Zenon DEF Absent
    <3> QED  BY <1>0, <1>1, <1>2, <1>3, <1>12, <1>13, <3>1, ViewSizeIs, SMTT(30)
  <2>2. \A v \in Page : v < ViewSize(s) => mem'[pt'[s][v].pa] = mem[pt[s][v].pa]
    <3>1. pt'[s] = pt[s]
      BY <1>2, <1>11, Zenon
    <3>2. \A v \in Page : Ref(<<s, v>>) \in Frame => mem'[Ref(<<s, v>>)] = mem[Ref(<<s, v>>)]
      BY <1>2, <1>9, Zenon
    <3> QED  BY <3>1, <3>2, SeenRef, Zenon
  <2> QED  BY <2>1, <2>2, SeenSame, ZenonT(30)
<1>16. \A t \in Space \ {s} : k'[t] = k[t] /\ (t # k[s].tgt => pt'[t] = pt[t] /\ sz'[t] = sz[t])
  BY <1>0, <1>1, <1>11, <1>12, Zenon
<1>17. \A t \in Space \ {s}, v \in Page \cup {-1} :
          Ref(<<t, v>>) \in Frame /\ t # k[s].tgt => mem'[Ref(<<t, v>>)] = mem[Ref(<<t, v>>)]
  BY <1>b, <1>9, Zenon
<1>18. k[s].pc \notin Absent
  BY <1>0, <1>3, Zenon
<1> QED  BY <1>14, <1>15, <1>16, <1>17, <1>18, PathStep, Zenon

-----------------------------------------------------------------------------
(* The refinement.                                                         *)

(* At the start one program sees one page of its image, the others none.   *)
LEMMA InitView ==
    ASSUME Init, MemInv
    PROVE  DataInvs /\ PM!Init
<1>1. PICK s \in Space, f \in Frame :
         /\ mem = [g \in Frame |-> IF g = f THEN Img ELSE Junk]
         /\ pt = [t \in Space |-> [v \in Page |->
                    IF t = s /\ v = 0
                    THEN [pa |-> f, w |-> TRUE, x |-> TRUE, u |-> TRUE, cow |-> FALSE]
                    ELSE NoPte]]
         /\ sz = [t \in Space |-> IF t = s THEN 1 ELSE 0]
         /\ k = [t \in Space |-> Idle(IF t = s THEN "user" ELSE "none")]
  BY Zenon DEF Init
<1>2. /\ k[s] = Idle("user") /\ sz[s] = 1
      /\ \A t \in Space \ {s} : k[t] = Idle("none") /\ sz[t] = 0
  BY <1>1, Zenon
<1>3. /\ k[s].pc = "user" /\ k[s].op = "none"
      /\ \A t \in Space \ {s} : k[t].pc = "none" /\ k[t].op = "none"
  BY <1>2, IdleIs, Zenon
<1>4. DataInvs
  <2>1. DataInv(s)
    <3>1. Pc(s) = "user"
      BY <1>3, Zenon DEF Pc
    <3>2. sz[s] # 0
      BY <1>2
    <3> QED  BY <1>3, <3>1, <3>2, Zenon DEF DataInv, AllocPc
  <2>2. ASSUME NEW t \in Space \ {s} PROVE DataInv(t)
    <3>1. k[t].pc = "none" /\ k[t].op = "none" /\ Pc(t) = "none"
      BY <1>3, Zenon DEF Pc
    <3> QED  BY <3>1, Zenon DEF DataInv, AllocPc
  <2> QED  BY <2>1, <2>2, Zenon DEF DataInvs
<1>5. \A t \in Space \ {s} : Seen(t) = [v \in Page |-> NoData]
  BY <1>3, AbsentSeen, Zenon DEF Absent
<1>6. Seen(s) = [v \in Page |-> IF v = 0 THEN Img ELSE NoData]
  <2>1. ViewSize(s) = 1
    BY <1>2, <1>3, Zenon DEF ViewSize
  <2>2. \A v \in Page : v < 1 <=> v = 0
    BY CowAssumption DEF Page
  <2>3. ASSUME 0 \in Page PROVE mem[pt[s][0].pa] = Img
    <3>1. pt[s][0] = [pa |-> f, w |-> TRUE, x |-> TRUE, u |-> TRUE, cow |-> FALSE]
      BY <1>1, <2>3, Zenon
    <3>2. pt[s][0].pa = f
      BY <3>1
    <3> QED  BY <1>1, <3>2, Zenon
  <2> QED  BY <2>1, <2>2, <2>3, Zenon DEF Seen
<1>7. View = [t \in Space |-> IF t = s THEN [v \in Page |-> IF v = 0 THEN Img ELSE NoData]
                                       ELSE [v \in Page |-> NoData]]
  BY <1>5, <1>6, Zenon DEF View
<1> QED  BY <1>4, <1>7, Zenon DEF PM!Init, PM!Empty, PM!Page, Page

(* Every step of the kernel and of the programs is a step of the private   *)
(* memories, or changes nothing that a program sees.                       *)
LEMMA NextView ==
    ASSUME MemInv, MemInv', DataInvs, [Next]_vars
    PROVE  DataInvs' /\ [PM!Next]_View
<1> DEFINE Maps(s) ==
       \/ \E v \in Page, x \in Value : PM!Store(s, v, x)
       \/ \E c \in Space \ {s} : PM!Fork(s, c)
       \/ \E n \in 0 .. NPAGES : PM!Resize(s, n)
       \/ PM!Exit(s)
       \/ \E c \in Space \ {s}, n \in 1 .. NPAGES : PM!Exec(s, c, n)
<1>1. ASSUME NEW s \in Space, Maps(s) PROVE [PM!Next]_View
  BY <1>1, Zenon DEF PM!Next, PM!Page, Page
<1> HIDE DEF Maps
<1>2. View' = View => [PM!Next]_View
  BY Zenon
<1>3. ASSUME NEW s \in Space, Kernel(s) PROVE DataInvs' /\ [PM!Next]_View
  <2>1. CASE \/ kfree(s) \/ freepage(s) \/ dup_pg(s) \/ dup_memmove(s) \/ dup_setpte(s)
             \/ uvmunmap(s) \/ uvmunmap_clear(s) \/ uvmalloc(s) \/ uvmalloc_map(s) \/ uvmcowpy(s)
             \/ growproc_fail(s) \/ exec_segment(s) \/ exec_loaded(s) \/ exec_bad(s) \/ free_done(s)
             \/ fork_lost(s) \/ usertrap_lost(s)
    <3>1. DataInvs' /\ View' = View
      BY <2>1, kfree_hidden, freepage_hidden, dup_pg_hidden, dup_memmove_hidden, dup_setpte_hidden,
         uvmunmap_hidden, uvmunmap_clear_hidden, uvmalloc_hidden, uvmalloc_map_hidden, uvmcowpy_hidden,
         growproc_fail_hidden, exec_segment_hidden, exec_loaded_hidden, exec_bad_hidden,
         free_done_hidden, fork_lost_hidden, lost_hidden, Zenon
    <3> QED  BY <1>2, <3>1, Zenon
  <2>2. CASE trap_ret(s)
    <3>1. DataInvs' /\ (Maps(s) \/ View' = View)
      BY <2>2, trap_ret_maps, Zenon DEF Maps
    <3> QED  BY <1>1, <1>2, <3>1, Zenon
  <2>3. CASE copyout_ret(s)
    <3>1. DataInvs' /\ (Maps(s) \/ View' = View)
      BY <2>3, copyout_ret_maps, Zenon DEF Maps
    <3> QED  BY <1>1, <1>2, <3>1, Zenon
  <2>4. CASE fork_done(s)
    <3>1. DataInvs' /\ Maps(s)
      BY <2>4, fork_done_maps, Zenon DEF Maps
    <3> QED  BY <1>1, <3>1, Zenon
  <2>5. CASE growproc_done(s)
    <3>1. DataInvs' /\ (Maps(s) \/ View' = View)
      BY <2>5, growproc_done_maps, ZenonT(30) DEF Maps
    <3> QED  BY <1>1, <1>2, <3>1, Zenon
  <2>6. CASE exec_commit(s)
    <3>1. DataInvs' /\ Maps(s)
      BY <2>6, exec_commit_maps, Zenon DEF Maps
    <3> QED  BY <1>1, <3>1, Zenon
  <2> QED  BY <1>3, <2>1, <2>2, <2>3, <2>4, <2>5, <2>6, Zenon DEF Kernel
<1>4. ASSUME NEW s \in Space, User(s) PROVE DataInvs' /\ [PM!Next]_View
  <2>1. ASSUME NEW a \in Addr, NEW x \in Value, UserStore(s, a, x) PROVE DataInvs' /\ [PM!Next]_View
    <3>1. DataInvs' /\ Maps(s)
      BY <2>1, UserStore_maps, Zenon DEF Maps
    <3> QED  BY <1>1, <3>1, Zenon
  <2>2. ASSUME NEW a \in Addr, usertrap(s, a) PROVE DataInvs' /\ [PM!Next]_View
    BY <1>2, <2>2, usertrap_hidden, Zenon
  <2>3. ASSUME NEW v \in Page, NEW e \in 1 .. NPAGES, NEW x \in Value, copyout(s, v, e, x)
        PROVE  DataInvs' /\ [PM!Next]_View
    BY <1>2, <2>3, copyout_hidden, Zenon
  <2>4. ASSUME NEW n \in 1 .. NPAGES, growproc(s, n) PROVE DataInvs' /\ [PM!Next]_View
    <3>1. n \in 0 .. NPAGES
      OBVIOUS
    <3>2. DataInvs' /\ (Maps(s) \/ View' = View)
      BY <2>4, <3>1, growproc_maps, Zenon DEF Maps
    <3> QED  BY <1>1, <1>2, <3>2, Zenon
  <2>5. ASSUME NEW c \in Space \ {s}, fork(s, c) \/ exec(s, c) PROVE DataInvs' /\ [PM!Next]_View
    BY <1>2, <2>5, fork_exec_hidden, Zenon
  <2>6. ASSUME NEW c \in Space \ {s}, wait(s, c) PROVE DataInvs' /\ [PM!Next]_View
    BY <1>2, <2>6, wait_hidden, Zenon
  <2>8. ASSUME NEW c \in Space \ {s}, wait_lost(s, c) PROVE DataInvs' /\ [PM!Next]_View
    BY <1>2, <2>8, lost_hidden, Zenon
  <2>7. CASE exit(s)
    <3>1. DataInvs' /\ Maps(s)
      BY <2>7, exit_maps, Zenon DEF Maps
    <3> QED  BY <1>1, <3>1, Zenon
  <2> QED  BY <1>4, <2>1, <2>2, <2>3, <2>4, <2>5, <2>6, <2>7, <2>8, Zenon DEF User
<1>5. CASE UNCHANGED vars
  <2>1. UNCHANGED <<mem, pt, sz, k>>
    BY <1>5, Zenon DEF vars
  <2>2. View' = View
    BY <2>1, Zenon DEF View, Seen, ViewSize
  <2>3. \A t \in Space : Pc(t)' = Pc(t) /\ DupPte(t)' = DupPte(t)
    BY <2>1, Zenon DEF Pc, DupPte, PteAt
  <2>4. DataInvs'
    BY <2>1, <2>3, ZenonT(30) DEF DataInvs, DataInv
  <2> QED  BY <1>2, <2>2, <2>4, Zenon
<1> QED  BY <1>3, <1>4, <1>5, Zenon DEF Next

-----------------------------------------------------------------------------
(* The theorems.                                                           *)

(* There are finitely many places for references, so they can be counted.  *)
LEMMA LocFinite == RefsCountable
<1>1. IsFiniteSet(Loc)
  <2>1. IsFiniteSet(Page) /\ IsFiniteSet({-1})
    <3>1. 0 \in Int /\ NPAGES - 1 \in Int
      BY CowAssumption, SMTT(30)
    <3>2. IsFiniteSet(0 .. NPAGES - 1)
      BY <3>1, FS_Interval, SMTT(30)
    <3> QED  BY <3>2, FS_Singleton, ZenonT(30) DEF Page
  <2>2. IsFiniteSet(Page \cup {-1})
    BY <2>1, FS_AddElement, SMTT(30)
  <2> QED  BY <2>2, CowAssumption, FS_Product, ZenonT(30) DEF Loc
<1> SUFFICES ASSUME NEW S \in SUBSET Loc
             PROVE  /\ Cardinality(S) \in Nat
                    /\ S = {} => Cardinality(S) = 0
                    /\ \A l \in Loc \ S : Cardinality(S \cup {l}) = Cardinality(S) + 1
  BY Zenon DEF RefsCountable
<1>2. IsFiniteSet(S)
  BY <1>1, FS_Subset, SMTT(30)
<1>3. Cardinality(S) \in Nat /\ (S = {} => Cardinality(S) = 0)
  BY <1>2, FS_CardinalityType, FS_EmptySet, SMTT(30)
<1>4. ASSUME NEW l \in Loc \ S
      PROVE  Cardinality(S \cup {l}) = Cardinality(S) + 1
  BY <1>2, FS_AddElement, ZenonT(30)
<1> QED  BY <1>3, <1>4, Zenon

(* Every step of every kernel path and program preserves the invariant.    *)
LEMMA NextMem ==
    ASSUME RefsCountable, MemInv, [Next]_vars
    PROVE  MemInv'
<1>1. ASSUME NEW s \in Space, Kernel(s)
      PROVE  MemInv'
  BY <1>1, kfree_keeps, freepage_keeps, dup_pg_keeps, dup_memmove_keeps, dup_setpte_keeps,
     trap_ret_keeps, copyout_ret_keeps, uvmunmap_keeps, uvmunmap_clear_keeps, uvmalloc_keeps,
     uvmalloc_map_keeps, uvmcowpy_keeps, fork_done_keeps, growproc_done_keeps, growproc_fail_keeps,
     exec_segment_keeps, exec_loaded_keeps, exec_bad_keeps, exec_commit_keeps, free_done_keeps,
     fork_lost_keeps, usertrap_lost_keeps, SMTT(30)
  DEF Kernel
<1>2. ASSUME NEW s \in Space, User(s)
      PROVE  MemInv'
  BY <1>2, UserStore_keeps, usertrap_keeps, copyout_keeps, growproc_keeps, fork_exec_keeps,
     wait_keeps, wait_lost_keeps, exit_keeps, SMTT(30)
  DEF User
<1>3. CASE UNCHANGED vars
  <2>1. \A t \in Space : Pc(t)' = Pc(t)
    BY <1>3, Zenon DEF vars, Pc
  <2>2. \A t, v : Released(t, v)' <=> Released(t, v)
    BY <1>3, ZenonT(30) DEF vars, Released
  <2>3. \A l : Ref(l)' = Ref(l) /\ (Own(l)' <=> Own(l))
    BY <1>3, <2>2, SMTT(30) DEF vars, Ref, Own
  <2>4. RefInv'
    BY <1>3, <2>3, RefSame, SMTT(30) DEF vars, MemInv, RefInv
  <2>5. \A t \in Space : PathInv(t)'
    <3>1. \A t \in Space : RegsInv(t)' /\ LoopInv(t)'
      BY <1>3, <2>1, SMTT(30) DEF vars, MemInv, PathInv, RegsInv, LoopInv
    <3>2. \A t \in Space : DupInv(t)'
      BY <1>3, SMTT(30) DEF vars, MemInv, PathInv, DupInv, DupPte, PteAt
    <3> QED  BY <3>1, <3>2, SMTT(30) DEF PathInv
  <2>6. PagesMapped'
    <3>1. \A t \in Space, v \in Page : Built(t, v)' <=> Built(t, v)
      BY <1>3, <2>1, SMTT(30) DEF vars, Built
    <3> QED  BY <1>3, <3>1, SMTT(30) DEF vars, MemInv, PagesMapped, Page
  <2>7. TypeOK' /\ OneWorker' /\ CowReadOnly'
    BY <1>3, SMTT(30) DEF vars, MemInv, TypeOK, OneWorker, CowReadOnly
  <2> QED  BY <2>4, <2>5, <2>6, <2>7, SMTT(30) DEF MemInv, RefInv
<1> QED  BY <1>1, <1>2, <1>3, Zenon DEF Next

(* For any number of spaces, pages and frames: through every interleaving  *)
(* of fork(), exec(), sbrk(), wait(), exit(), copyout() and store faults,  *)
(* the reference counts of kalloc.c are exact, a page that can be written  *)
(* through an entry has no other reference, page tables map the pages      *)
(* below p->sz, the pages of an operation under way hold what it will show *)
(* the program, and no kernel path panics (MemoryConsistent).              *)
THEOREM SpecMemoryConsistent == Spec => []MemoryConsistent
<1>1. Init => MemInv /\ DataInvs
  BY LocFinite, InitMem, InitView, SMTT(30)
<1>2. MemInv /\ DataInvs /\ [Next]_vars => MemInv' /\ DataInvs'
  BY LocFinite, NextMem, NextView, SMTT(30)
<1>3. MemInv /\ DataInvs => MemoryConsistent
  BY MemConsistent, ZenonT(30) DEF MemoryConsistent
<1> QED  BY <1>1, <1>2, <1>3, PTL DEF Spec

(* For any number of spaces, pages and frames: the page tables, the shared *)
(* pages and the copies made by store faults and copyout() implement       *)
(* private memories.  A store changes one page of one program, fork()      *)
(* gives the child all that the parent sees at once, sbrk() shows zero     *)
(* pages, exec() the image, and no other step of the kernel changes what a *)
(* program sees (Isolation).                                               *)
THEOREM SpecIsolation == Spec => Isolation
<1>1. Init => MemInv /\ DataInvs /\ PM!Init
  BY LocFinite, InitMem, InitView, SMTT(30)
<1>2. MemInv /\ DataInvs /\ [Next]_vars => MemInv' /\ DataInvs' /\ [PM!Next]_View
  BY LocFinite, NextMem, NextView, SMTT(30)
<1> QED  BY <1>1, <1>2, PTL DEF Spec, Isolation, PM!Spec

=============================================================================
