---------------------------- MODULE CowIsolation ----------------------------
(***************************************************************************)
(* What programs see of their memory (View) while kernel paths run.  Each  *)
(* action of CowMemory keeps DataInvs; one named _hidden leaves View as it *)
(* is, one named _maps is a step of PrivateMemory.  Here are the page      *)
(* loops, dup_pg() and copyout(), stores, exit(), and the steps that begin *)
(* sbrk(), fork(), exec() and wait(); CowRefine has those that end them.   *)
(***************************************************************************)
EXTENDS CowPaths

(* Where a space is not that of a program.                                 *)
Absent == {"none", "setup", "dead"}

(* A page that a program sees is mapped, and its entry refers to it.       *)
LEMMA SeenRef ==
    ASSUME MemInv, NEW t \in Space, NEW v \in Page, v < ViewSize(t)
    PROVE  pt[t][v].pa \in Frame /\ Ref(<<t, v>>) = pt[t][v].pa
<1>0. PICK r \in Regs : r = k[t]
  BY KTyped, Zenon
<1>1. /\ r.pc \notin {"none", "setup", "dead", "zombie", "lost", "lost_zombie"}
      /\ r.op = "shrink" => v < r.base
      /\ r.op # "shrink" => v < sz[t]
  BY <1>0, CowAssumption DEF ViewSize, Page
<1>2. PathInv(t) /\ \A u \in Space : k[u].tgt = t => u = t
  BY <1>0, <1>1, KTyped, Zenon DEF MemInv, OneWorker
<1>3. r.base \in Nat /\ r.pg \in Nat /\ r.end \in Nat /\ v \in Nat /\ sz[t] \in Nat
  BY <1>0 DEF Regs, Page, MemInv, TypeOK
<1>4. r.tgt = t => \/ r.op \in {"shrink", "grow_fail"} /\ Pc(t) \in UnmapPc
                   \/ r.op = "grow" /\ Pc(t) \in AllocPc
  <2>1. r.tgt = t => Pc(t) \notin NoPath \cup DupPc
    <3>1. t # NoSpace
      BY CowAssumption, Zenon
    <3>2. Pc(t) \in NoPath \cup DupPc => k[t].tgt = NoSpace
      BY <1>2, IdleIs, Zenon DEF PathInv, RegsInv
    <3> QED  BY <1>0, <3>1, <3>2, Zenon
  <2>2. Pc(t) \notin NoPath \cup DupPc => Pc(t) \in UnmapPc \cup AllocPc \cup {"uvmcowpy", "exec"}
    BY <1>0, <1>2, ZenonT(30) DEF PathInv, RegsInv, Pc, Regs, NoPath, DupPc, UnmapPc, AllocPc
  <2> QED  BY <1>0, <1>2, <2>1, <2>2, ZenonT(30) DEF PathInv, LoopInv, FreeOps
<1>5. Valid(pt[t][v])
  <2>1. CASE r.tgt = t
    <3>1. Built(t, v)
      <4>1. CASE Pc(t) \in UnmapPc
        <5>1. v < r.base
          BY <1>0, <1>1, <1>2, <1>4, <2>1, <4>1, ZenonT(30) DEF PathInv, LoopInv, UnmapPc, AllocPc
        <5> QED  BY <1>0, <4>1, <5>1, Zenon DEF Built
      <4>2. CASE Pc(t) \in AllocPc
        <5>1. v < sz[t] /\ sz[t] = r.base /\ r.base <= r.pg
          BY <1>0, <1>1, <1>2, <1>4, <2>1, <4>2, ZenonT(30) DEF PathInv, LoopInv, UnmapPc, AllocPc
        <5>2. v < r.pg
          BY <5>1, <1>3
        <5> QED  BY <1>0, <4>2, <5>2, Zenon DEF Built, AllocPc, UnmapPc
      <4> QED  BY <1>4, <2>1, <4>1, <4>2, Zenon
    <3>2. k[t].tgt = t /\ t # NoSpace
      BY <1>0, <2>1, CowAssumption, Zenon
    <3>3. Valid(pt[k[t].tgt][v])
      BY <3>1, <3>2, Zenon DEF MemInv, PagesMapped
    <3> QED  BY <3>2, <3>3, Zenon
  <2>2. CASE r.tgt # t
    <3>1. \A u \in Space : k[u].tgt # t
      BY <1>0, <1>2, <2>2, Zenon
    <3>2. r.op # "shrink"
      <4>1. r.op = "shrink" => Pc(t) \notin NoPath \cup DupPc
        BY <1>0, <1>2, IdleIs, Zenon DEF PathInv, RegsInv
      <4> QED  BY <1>0, <1>2, <2>2, <4>1, Zenon DEF PathInv, LoopInv
    <3> QED  BY <1>0, <1>1, <3>1, <3>2, Zenon DEF MemInv, PagesMapped, LostPc
  <2> QED  BY <2>1, <2>2, Zenon
<1>6. ~Released(t, v)
  <2> SUFFICES ASSUME Released(t, v) PROVE FALSE
    BY Zenon
  <2>1. r.ra = "clear" /\ r.tgt = t /\ r.pg = v
    BY <1>0, <1>2, Zenon DEF Released
  <2>2. Pc(t) = "clear" /\ Pc(t) \in UnmapPc /\ Pc(t) \notin AllocPc
    BY <1>0, <1>2, <2>1, Zenon DEF PathInv, RegsInv, UnmapPc, AllocPc
  <2>3. v < r.base /\ r.base <= r.pg
    BY <1>0, <1>1, <1>2, <1>4, <2>1, <2>2, ZenonT(30) DEF PathInv, LoopInv
  <2> QED  BY <1>3, <2>1, <2>3
<1>7. pt[t][v].pa \in Frame
  <2>1. pt[t][v] \in Pte
    BY Zenon DEF MemInv, TypeOK
  <2> QED  BY <1>5, <2>1, Zenon DEF Pte, Valid
<1> QED  BY <1>6, <1>7, RefIs, Zenon
(* So is a page of the table that a path builds, and the page that dup_pg()*)
(* copies or has copied.                                                   *)
LEMMA BuiltRef ==
    ASSUME MemInv, NEW t \in Space, k[t].tgt \in Space, Pc(t) # "clear",
           NEW v \in Page, Built(t, v)
    PROVE  pt[k[t].tgt][v].pa \in Frame /\ Ref(<<k[t].tgt, v>>) = pt[k[t].tgt][v].pa
<1>0. PICK c \in Space : c = k[t].tgt
  BY Zenon
<1>1. Valid(pt[c][v])
  BY <1>0, CowAssumption, Zenon DEF MemInv, PagesMapped
<1>2. pt[c][v].pa \in Frame
  <2>1. pt[c][v] \in Pte
    BY Zenon DEF MemInv, TypeOK
  <2> QED  BY <1>1, <2>1, Zenon DEF Pte, Valid
<1>3. ~Released(c, v)
  <2> SUFFICES ASSUME NEW u \in Space, k[u].ra = "clear", k[u].tgt = c PROVE FALSE
    BY Zenon DEF Released
  <2>1. u = t
    BY <1>0, CowAssumption, Zenon DEF MemInv, OneWorker
  <2> QED  BY <2>1, KTyped, Zenon DEF PathInv, RegsInv
<1> QED  BY <1>0, <1>2, <1>3, RefIs, Zenon

(* The page that dup_pg() looks at belongs to the space it runs for, and   *)
(* its entry refers to it.                                                 *)
LEMMA DupRef ==
    ASSUME MemInv, NEW t \in Space, Pc(t) \in DupPc, Valid(DupPte(t))
    PROVE  /\ PageOf(k[t].addr) \in Page /\ DupPte(t) = pt[t][PageOf(k[t].addr)]
           /\ DupPte(t).pa \in Frame /\ Ref(<<t, PageOf(k[t].addr)>>) = DupPte(t).pa
           /\ PageOf(k[t].addr) < ViewSize(t)
<1>1. PICK v \in Page : v = PageOf(k[t].addr) /\ DupPte(t) = pt[t][v] /\ DupPte(t).pa \in Frame
  BY DupPteIs, Zenon
<1>2. PathInv(t) /\ k[t].tgt = NoSpace /\ k[t].op \in {"trap", "copyout"}
  BY KTyped, Zenon DEF PathInv, RegsInv
<1>3. k[t].pc \notin NoPath
  BY Zenon DEF Pc, NoPath, DupPc
<1>4. \A u \in Space : k[u].tgt # t
  BY <1>2, <1>3, CowAssumption, Zenon DEF MemInv, OneWorker, NoPath
<1>5. v < sz[t]
  BY <1>1, <1>4, Zenon DEF MemInv, PagesMapped
<1>6. v < ViewSize(t)
  BY <1>2, <1>3, <1>5, Zenon DEF ViewSize, NoPath
<1>7. Ref(<<t, v>>) = pt[t][v].pa
  BY <1>6, SeenRef, Zenon
<1> QED  BY <1>1, <1>6, <1>7, Zenon

(* The step belongs to the path of s: it leaves the spaces other than s    *)
(* and the one s works on alone, and the pages they refer to.              *)
Bystander(s, t) ==
    /\ pt'[t] = pt[t] /\ sz'[t] = sz[t]
    /\ k'[t] = k[t] \/ (ViewSize(t) = 0 /\ k'[t].pc \in Absent)
    /\ \A v \in Page \cup {-1} : Ref(<<t, v>>) \in Frame => mem'[Ref(<<t, v>>)] = mem[Ref(<<t, v>>)]

Bystanders(s) ==
    /\ k[s].pc \notin Absent
    /\ \A t \in Space : t # s /\ t # k[s].tgt => Bystander(s, t)

(* A space that no program or path uses.                                   *)
LEMMA AbsentData ==
    ASSUME MemInv', NEW t \in Space, k'[t].pc \in NoPath, k'[t].pc \notin Absent => sz'[t] # 0
    PROVE  DataInv(t)'
<1>1. k'[t] = Idle(k'[t].pc) /\ Pc(t)' = k'[t].pc
  BY Zenon DEF MemInv, PathInv, RegsInv, Pc, NoPath
<1>2. k'[t].op = "none"
  BY <1>1, IdleIs, Zenon
<1> QED  BY <1>1, <1>2, Zenon DEF DataInv, Absent, NoPath, AllocPc

(* Of a space that is not that of a program, nothing is seen.              *)
LEMMA AbsentSeen ==
    /\ \A t : ViewSize(t) = 0 => Seen(t) = [v \in Page |-> NoData]
    /\ \A t : ViewSize(t)' = 0 => Seen(t)' = [v \in Page |-> NoData]
    /\ \A t : k[t].pc \in Absent \cup {"zombie", "lost", "lost_zombie"} => ViewSize(t) = 0
    /\ \A t : k'[t].pc \in Absent \cup {"zombie", "lost", "lost_zombie"} => ViewSize(t)' = 0
<1>1. \A v \in Page : ~(v < 0)
  BY CowAssumption DEF Page
<1> QED  BY <1>1, Zenon DEF Seen, ViewSize, Absent

(* A page table whose program sees the same before and after the step.     *)
LEMMA SeenSame ==
    ASSUME NEW t, ViewSize(t)' = ViewSize(t),
           \A v \in Page : v < ViewSize(t) => mem'[pt'[t][v].pa] = mem[pt[t][v].pa]
    PROVE  Seen(t)' = Seen(t)
  BY Zenon DEF Seen, Page

(* A space that the step leaves alone looks the same to its program.       *)
LEMMA BystanderSeen ==
    ASSUME MemInv, NEW s, NEW t \in Space, Bystander(s, t)
    PROVE  Seen(t)' = Seen(t)
<1>1. CASE k'[t] = k[t]
  <2>1. ViewSize(t)' = ViewSize(t)
    BY <1>1, Zenon DEF ViewSize, Bystander
  <2>2. \A v \in Page : v < ViewSize(t) => mem'[pt'[t][v].pa] = mem[pt[t][v].pa]
    BY SeenRef, Zenon DEF Bystander
  <2> QED  BY <2>1, <2>2, SeenSame, Zenon
<1>2. CASE ViewSize(t) = 0 /\ k'[t].pc \in Absent
  BY <1>2, AbsentSeen, Zenon
<1> QED  BY <1>1, <1>2, Zenon DEF Bystander

(* The path of a space that the step leaves alone finds its pages as it    *)
(* left them.                                                              *)
LEMMA BystanderData ==
    ASSUME MemInv, MemInv', NEW s \in Space, Bystanders(s),
           NEW t \in Space, t # s, t # k[s].tgt, DataInv(t)
    PROVE  DataInv(t)'
<1>0. Bystander(s, t)
  BY Zenon DEF Bystanders
<1>1. CASE k'[t].pc \in Absent
  BY <1>1, AbsentData, Zenon DEF Absent, NoPath
<1>2. CASE k'[t] = k[t]
  <2>0. PICK r \in Regs : r = k[t] /\ k'[t] = r /\ Pc(t)' = Pc(t)
    BY <1>2, KTyped, Zenon DEF Pc
  <2>1. sz'[t] = sz[t] /\ pt'[t] = pt[t] /\ DupPte(t)' = DupPte(t)
    BY <1>0, <2>0, Zenon DEF Bystander, DupPte, PteAt
  <2>2. ASSUME r.tgt \in Space
        PROVE  /\ sz'[r.tgt] = sz[r.tgt] /\ pt'[r.tgt] = pt[r.tgt]
               /\ \A v \in Page : Built(t, v) /\ Pc(t) # "clear" => mem'[pt[r.tgt][v].pa] = mem[pt[r.tgt][v].pa]
    <3>1. Bystander(s, r.tgt)
      BY <2>0, <2>2, CowAssumption, Zenon DEF Bystanders, MemInv, OneWorker, Absent
    <3>2. ASSUME NEW v \in Page, Built(t, v), Pc(t) # "clear"
          PROVE  mem'[pt[r.tgt][v].pa] = mem[pt[r.tgt][v].pa]
      <4>1. pt[r.tgt][v].pa \in Frame /\ Ref(<<r.tgt, v>>) = pt[r.tgt][v].pa
        BY <2>0, <2>2, <3>2, BuiltRef, Zenon
      <4> QED  BY <3>1, <4>1, Zenon DEF Bystander
    <3> QED  BY <3>1, <3>2, Zenon DEF Bystander
  <2>3. ASSUME r.pc \in {"setpte", "mappages"}
        PROVE  mem'[r.pa] = mem[r.pa]
    <3>1. r.pa \in Frame /\ Ref(<<t, -1>>) = r.pa
      BY <2>0, <2>3, KTyped, RefIs, ZenonT(30) DEF PathInv, RegsInv, Regs
    <3> QED  BY <1>0, <3>1, Zenon DEF Bystander
  <2>4. ASSUME r.pc = "setpte"
        PROVE  mem'[DupPte(t).pa] = mem[DupPte(t).pa]
    <3>1. Pc(t) \in DupPc /\ Valid(DupPte(t))
      BY <2>0, <2>4, KTyped, SMTT(30) DEF PathInv, DupInv, DupCheck, Pc, DupPc
    <3> QED  BY <1>0, <3>1, DupRef, Zenon DEF Bystander
  <2>5. /\ r.pc = "setpte" => mem'[r.pa] = mem'[DupPte(t)'.pa]
        /\ Pc(t) = "dup_ret" /\ r.ret = 0 => ~DupPte(t)'.cow
        /\ r.pc = "mappages" => mem'[r.pa] = Zero
        /\ r.pc \notin {"none", "setup", "dead"} => sz'[t] # 0
        /\ r.op = "shrink" => r.base # 0
    BY <2>0, <2>1, <2>3, <2>4, Zenon DEF DataInv
  <2>6. Pc(t) \in AllocPc \cup {"exec", "uvmcowpy"} => r.tgt \in Space /\ Pc(t) # "clear"
    BY <2>0, KTyped, Zenon DEF PathInv, RegsInv, NoPath, DupPc, AllocPc
  <2>7. /\ Pc(t) \in AllocPc =>
             \A v \in Page : r.base <= v /\ v < r.pg => ~pt'[r.tgt][v].cow /\ mem'[pt'[r.tgt][v].pa] = Zero
        /\ Pc(t) \in AllocPc \cup {"exec"} /\ r.op = "exec" =>
             \A v \in Page : v < sz'[r.tgt] => ~pt'[r.tgt][v].cow /\ mem'[pt'[r.tgt][v].pa] = Img
    <3>1. Pc(t) \in AllocPc => \A v \in Page : r.base <= v /\ v < r.pg => Built(t, v)
      BY <2>0, Zenon DEF Built, AllocPc, UnmapPc
    <3>2. Pc(t) \in AllocPc \cup {"exec"} => \A v \in Page : v < sz[r.tgt] => Built(t, v)
      <4>1. CASE Pc(t) = "exec"
        BY <2>0, <4>1, Zenon DEF Built, AllocPc, UnmapPc
      <4>2. CASE Pc(t) \in AllocPc
        <5>1. sz[r.tgt] = r.base /\ r.base <= r.pg
          BY <2>0, <4>2, KTyped, ZenonT(30) DEF PathInv, LoopInv
        <5>2. \A v \in Page : v < r.base => v < r.pg
          BY <5>1 DEF Regs, Page
        <5> QED  BY <2>0, <4>2, <5>1, <5>2, Zenon DEF Built, AllocPc, UnmapPc
      <4> QED  BY <4>1, <4>2, Zenon
    <3>3. /\ Pc(t) \in AllocPc =>
               \A v \in Page : r.base <= v /\ v < r.pg => ~pt[r.tgt][v].cow /\ mem[pt[r.tgt][v].pa] = Zero
          /\ Pc(t) \in AllocPc \cup {"exec"} /\ r.op = "exec" =>
               \A v \in Page : v < sz[r.tgt] => ~pt[r.tgt][v].cow /\ mem[pt[r.tgt][v].pa] = Img
      BY <2>0, Zenon DEF DataInv
    <3>4. CASE Pc(t) \in AllocPc
      BY <2>2, <2>6, <3>1, <3>2, <3>3, <3>4, Zenon
    <3>5. CASE Pc(t) = "exec"
      BY <2>2, <2>6, <3>2, <3>3, <3>5, Zenon DEF AllocPc
    <3> QED  BY <3>4, <3>5, Zenon
  <2>8. /\ Pc(t) = "exec" /\ r.seg # 0 => sz'[r.tgt] # 0
        /\ Pc(t) = "uvmcowpy" => \A v \in Page : v < r.pg => pt'[r.tgt][v].pa = pt'[t][v].pa
    BY <2>0, <2>1, <2>2, <2>6, Zenon DEF DataInv
  <2> QED  BY <2>0, <2>5, <2>7, <2>8, ZenonT(30) DEF DataInv
<1> QED  BY <1>0, <1>1, <1>2, Zenon DEF Bystander

(* A step of s, after which the space it works on is still hidden.         *)
LEMMA OthersHidden ==
    ASSUME MemInv, MemInv', DataInvs, NEW s \in Space, Bystanders(s), DataInv(s)',
           k[s].tgt \in Space \ {s} => k'[k[s].tgt].pc \in Absent
    PROVE  DataInvs' /\ \A t \in Space \ {s} : Seen(t)' = Seen(t)
<1>1. ASSUME NEW t \in Space, t # s, t = k[s].tgt
      PROVE  DataInv(t)' /\ Seen(t)' = Seen(t)
  <2>1. k'[t].pc \in Absent /\ k[t].pc \in Absent
    BY <1>1, Zenon DEF MemInv, OneWorker, Absent
  <2>2. k'[t].pc \in NoPath
    BY <2>1, Zenon DEF Absent, NoPath
  <2> QED  BY <2>1, <2>2, AbsentData, AbsentSeen, Zenon
<1>2. ASSUME NEW t \in Space, t # s, t # k[s].tgt
      PROVE  DataInv(t)' /\ Seen(t)' = Seen(t)
  BY <1>2, BystanderData, BystanderSeen, Zenon DEF Bystanders, DataInvs
<1> QED  BY <1>1, <1>2, Zenon DEF DataInvs

(* The step leaves memory as the programs see it.                          *)
LEMMA HiddenStep ==
    ASSUME MemInv, MemInv', DataInvs, NEW s \in Space, Bystanders(s), DataInv(s)',
           k[s].tgt \in Space \ {s} => k'[k[s].tgt].pc \in Absent, Seen(s)' = Seen(s)
    PROVE  DataInvs' /\ View' = View
<1>1. DataInvs' /\ \A t \in Space : Seen(t)' = Seen(t)
  BY OthersHidden, Zenon
<1> QED  BY <1>1, Zenon DEF View

(* The step changes only the registers of s.                               *)
LEMMA RegsStep ==
    ASSUME MemInv, MemInv', DataInvs, NEW s \in Space, UNCHANGED <<mem, pt, sz>>,
           k[s].pc \notin Absent, \A t \in Space \ {s} : k'[t] = k[t],
           DataInv(s)'
    PROVE  /\ DataInvs' /\ \A t \in Space \ {s} : Seen(t)' = Seen(t)
           /\ ViewSize(s)' = ViewSize(s) => View' = View
<1>1. Bystanders(s)
  BY Zenon DEF Bystanders, Bystander
<1>2. k[s].tgt \in Space \ {s} => k'[k[s].tgt].pc \in Absent
  BY Zenon DEF MemInv, OneWorker, Absent
<1>3. DataInvs' /\ \A t \in Space \ {s} : Seen(t)' = Seen(t)
  BY <1>1, <1>2, OthersHidden, Zenon
<1>4. ViewSize(s)' = ViewSize(s) => Seen(s)' = Seen(s)
  BY SeenSame, Zenon
<1> QED  BY <1>3, <1>4, Zenon DEF View

(* What DataInv says of a path in dup_pg(), and of one in uvmunmap().      *)
LEMMA DupData ==
    ASSUME MemInv', NEW s \in Space, Pc(s)' \in DupPc, sz'[s] # 0,
           k'[s].pc = "setpte" => mem'[k'[s].pa] = mem'[DupPte(s)'.pa],
           Pc(s)' = "dup_ret" /\ k'[s].ret = 0 => ~DupPte(s)'.cow
    PROVE  DataInv(s)'
<1>1. k'[s].op \in {"trap", "copyout"}
  BY Zenon DEF MemInv, PathInv, RegsInv
<1>2. k'[s].pc # "mappages"
  BY Zenon DEF Pc, DupPc
<1> QED  BY <1>1, <1>2, Zenon DEF DataInv, DupPc, AllocPc

(* A path in uvmunmap() needs no page to hold anything.                    *)
LEMMA UnmapData ==
    ASSUME NEW s \in Space, Pc(s)' \in UnmapPc, sz'[s] # 0, k'[s].op = "shrink" => k'[s].base # 0
    PROVE  DataInv(s)'
<1>1. k'[s].pc \notin {"mappages", "setpte"}
  BY Zenon DEF Pc, UnmapPc
<1> QED  BY <1>1, Zenon DEF DataInv, UnmapPc, AllocPc

(* The space of a path that can take a step has pages.                     *)
LEMMA HasPages ==
    ASSUME DataInvs, NEW s \in Space, k[s].pc \notin Absent
    PROVE  sz[s] # 0 /\ DataInv(s)
  BY Zenon DEF DataInvs, DataInv, Absent

(* What a program sees depends on where its path is.                       *)
LEMMA ViewSizeIs ==
    ASSUME NEW s
    PROVE  /\ k[s].pc \notin Absent \cup {"zombie", "lost", "lost_zombie"} =>
                ViewSize(s) = IF k[s].op = "shrink" THEN k[s].base ELSE sz[s]
           /\ k'[s].pc \notin Absent \cup {"zombie", "lost", "lost_zombie"} =>
                ViewSize(s)' = IF k'[s].op = "shrink" THEN k'[s].base ELSE sz'[s]
  BY Zenon DEF ViewSize, Absent

(* kfree() counts a reference less, or goes on to free the page: nothing   *)
(* that a program sees changes.                                            *)
LEMMA kfree_hidden ==
    ASSUME MemInv, MemInv', DataInvs, NEW s \in Space, kfree(s)
    PROVE  DataInvs' /\ View' = View
<1>0. PICK r \in Regs : r = k[s]
  BY KTyped, Zenon
<1>1. /\ r.pc = "kfree" /\ r.ra \in {"dup_ret", "clear", "uvmunmap"}
      /\ UNCHANGED <<mem, pt, sz>> /\ \A t \in Space \ {s} : k'[t] = k[t]
  <2>1. r.pc = "kfree" /\ UNCHANGED <<mem, pt, sz>> /\ \A t \in Space \ {s} : k'[t] = k[t]
    BY <1>0, Zenon DEF kfree, MemInv, TypeOK
  <2>2. r.ra # "none"
    BY <1>0, <2>1, KTyped, Zenon DEF PathInv, RegsInv
  <2> QED  BY <2>1, <2>2, Zenon DEF Regs
<1>2. \/ k'[s] = [r EXCEPT !.pc = r.ra, !.pa = NoFrame]
      \/ k'[s] = [r EXCEPT !.pc = "freepage"]
  BY <1>0, Zenon DEF kfree, MemInv, TypeOK
<1>3. /\ k'[s].op = r.op /\ k'[s].ra = r.ra /\ k'[s].base = r.base /\ k'[s].ret = r.ret
      /\ k'[s].addr = r.addr /\ k'[s].pc \in {r.ra, "freepage"}
  BY <1>2, ZenonT(30) DEF Regs
<1>4. Pc(s)' = r.ra /\ Pc(s) = r.ra
  BY <1>0, <1>1, <1>3, Zenon DEF Pc
<1>5. r.pc \notin Absent \cup {"zombie", "lost", "lost_zombie"} /\ k'[s].pc \notin Absent \cup {"zombie", "lost", "lost_zombie"}
  BY <1>1, <1>3, Zenon DEF Absent
<1>6. sz[s] # 0 /\ DataInv(s)
  BY <1>0, <1>5, HasPages, Zenon
<1>7. DupPte(s)' = DupPte(s)
  BY <1>0, <1>1, <1>3, Zenon DEF DupPte, PteAt
<1>8. DataInv(s)'
  <2>1. CASE r.ra = "dup_ret"
    <3>1. r.ret = 0 => ~DupPte(s)'.cow
      BY <1>0, <1>4, <1>6, <1>7, <2>1, Zenon DEF DataInv
    <3>2. k'[s].pc # "setpte"
      BY <1>3, <2>1, Zenon
    <3> QED  BY <1>1, <1>3, <1>4, <1>6, <2>1, <3>1, <3>2, DupData, Zenon DEF DupPc
  <2>2. CASE r.ra \in {"clear", "uvmunmap"}
    BY <1>0, <1>1, <1>3, <1>4, <1>6, <2>2, UnmapData, Zenon DEF UnmapPc, DataInv
  <2> QED  BY <1>1, <2>1, <2>2, Zenon
<1>9. ViewSize(s)' = ViewSize(s)
  BY <1>0, <1>1, <1>3, <1>5, ViewSizeIs
<1> QED  BY <1>0, <1>1, <1>5, <1>8, <1>9, RegsStep, Zenon

(* usertrap() and copyout() call dup_pg().                                 *)
LEMMA StartDup ==
    ASSUME MemInv, MemInv', DataInvs, NEW s \in Space, k[s].pc = "user",
           \A t \in Space \ {s} : k'[t] = k[t], k'[s].pc = "dup_pg", UNCHANGED <<mem, pt, sz>>
    PROVE  DataInvs' /\ View' = View
<1>1. k[s].op = "none"
  <2>1. k[s] = Idle("user")
    BY UserIdle, Zenon
  <2> QED  BY <2>1, IdleIs, Zenon
<1>2. Pc(s)' = "dup_pg" /\ Pc(s)' \in DupPc
  BY Zenon DEF Pc, DupPc
<1>3. k'[s].op \in {"trap", "copyout"}
  BY <1>2, Zenon DEF MemInv, PathInv, RegsInv
<1>4. k[s].pc \notin Absent \cup {"zombie", "lost", "lost_zombie"} /\ k'[s].pc \notin Absent \cup {"zombie", "lost", "lost_zombie"}
  BY Zenon DEF Absent
<1>5. sz'[s] # 0
  BY <1>4, HasPages, Zenon
<1>6. DataInv(s)'
  BY <1>2, <1>5, DupData, Zenon
<1>7. ViewSize(s)' = ViewSize(s)
  BY <1>1, <1>3, <1>4, ViewSizeIs, Zenon
<1> QED  BY <1>4, <1>6, <1>7, RegsStep, Zenon

(* A store fault: usertrap() calls dup_pg() before the program sees        *)
(* anything.                                                               *)
LEMMA usertrap_hidden ==
    ASSUME MemInv, MemInv', DataInvs, NEW s \in Space, NEW a \in Addr, usertrap(s, a)
    PROVE  DataInvs' /\ View' = View
<1>1. k[s].pc = "user" /\ UNCHANGED <<mem, pt, sz>> /\ \A t \in Space \ {s} : k'[t] = k[t]
  BY Zenon DEF usertrap, MemInv, TypeOK
<1>2. k'[s].pc = "dup_pg"
  BY KTyped DEF usertrap, Regs, MemInv, TypeOK
<1> QED  BY <1>1, <1>2, StartDup, Zenon

(* copyout() begins with a dup_pg() of the first page.                     *)
LEMMA copyout_hidden ==
    ASSUME MemInv, MemInv', DataInvs, NEW s \in Space,
           NEW v \in Page, NEW e \in 1 .. NPAGES, NEW x \in Value, copyout(s, v, e, x)
    PROVE  DataInvs' /\ View' = View
<1>1. k[s].pc = "user" /\ UNCHANGED <<mem, pt, sz>> /\ \A t \in Space \ {s} : k'[t] = k[t]
  BY Zenon DEF copyout, MemInv, TypeOK
<1>2. k'[s].pc = "dup_pg"
  BY KTyped DEF copyout, Regs, MemInv, TypeOK
<1> QED  BY <1>1, <1>2, StartDup, Zenon

(* A path that ends, with the size of the space as it was.                 *)
LEMMA EndData ==
    ASSUME MemInv, MemInv', DataInvs, NEW s \in Space, NEW p \in {"user", "zombie"}, k'[s] = Idle(p),
           k[s].pc \notin Absent \cup {"zombie", "lost", "lost_zombie"}, k[s].op # "shrink", sz'[s] = sz[s]
    PROVE  DataInv(s)' /\ (p = "user" => ViewSize(s)' = ViewSize(s))
<1>1. k'[s].pc = p /\ k'[s].op = "none"
  BY IdleIs, Zenon
<1>2. DataInv(s)'
  BY <1>1, HasPages, AbsentData, Zenon DEF NoPath, Absent
<1>3. p = "user" => ViewSize(s)' = ViewSize(s)
  BY <1>1, ViewSizeIs, Zenon DEF Absent
<1> QED  BY <1>2, <1>3, Zenon

(* exit(), by the program or because of a fault.                           *)
LEMMA ExitStep ==
    ASSUME MemInv, MemInv', DataInvs, NEW s \in Space, UNCHANGED <<mem, pt, sz>>,
           k' = [k EXCEPT ![s] = Idle("zombie")], k[s].pc \notin Absent \cup {"zombie", "lost", "lost_zombie"}, k[s].op # "shrink"
    PROVE  DataInvs' /\ PM!Exit(s)
<1>1. k'[s] = Idle("zombie") /\ \A t \in Space \ {s} : k'[t] = k[t]
  BY Zenon DEF MemInv, TypeOK
<1>2. DataInv(s)'
  BY <1>1, EndData, Zenon
<1>3. DataInvs' /\ \A t \in Space \ {s} : Seen(t)' = Seen(t)
  BY <1>1, <1>2, RegsStep, Zenon
<1>4. Seen(s)' = [v \in Page |-> NoData]
  BY <1>1, IdleIs, AbsentSeen, Zenon
<1>5. View' = [View EXCEPT ![s] = [v \in Page |-> NoData]]
  BY <1>3, <1>4, Zenon DEF View
<1> QED  BY <1>3, <1>5, Zenon DEF PM!Exit, PM!Empty, PM!Page, Page

(* exit() ends what the program sees at once.                              *)
LEMMA exit_maps ==
    ASSUME MemInv, MemInv', DataInvs, NEW s \in Space, exit(s)
    PROVE  DataInvs' /\ PM!Exit(s)
<1>1. k[s].pc = "user" /\ k[s].op = "none"
  BY UserIdle, IdleIs, Zenon DEF exit
<1> QED  BY <1>1, ExitStep, Zenon DEF exit, Absent

(* usertrap() returns to the program, whose memory looks the same, or      *)
(* kills it.                                                               *)
LEMMA trap_ret_maps ==
    ASSUME MemInv, MemInv', DataInvs, NEW s \in Space, trap_ret(s)
    PROVE  DataInvs' /\ (PM!Exit(s) \/ View' = View)
<1>1. k[s].pc = "dup_ret" /\ k[s].op = "trap" /\ UNCHANGED <<mem, pt, sz>>
  BY Zenon DEF trap_ret
<1>2. k[s].pc \notin Absent \cup {"zombie", "lost", "lost_zombie"}
  BY <1>1, Zenon DEF Absent
<1>3. CASE k' = [k EXCEPT ![s] = Idle("user")]
  <2>1. k'[s] = Idle("user") /\ \A t \in Space \ {s} : k'[t] = k[t]
    BY <1>3, Zenon DEF MemInv, TypeOK
  <2> QED  BY <1>1, <1>2, <2>1, EndData, RegsStep, Zenon
<1>4. CASE k' = [k EXCEPT ![s] = Idle("zombie")]
  BY <1>1, <1>2, <1>4, ExitStep, Zenon
<1> QED  BY <1>3, <1>4, Zenon DEF trap_ret

(* sbrk() fails: the pages it had added are gone, and were never seen.     *)
LEMMA growproc_fail_hidden ==
    ASSUME MemInv, MemInv', DataInvs, NEW s \in Space, growproc_fail(s)
    PROVE  DataInvs' /\ View' = View
<1>1. /\ k[s].pc = "uvmunmap" /\ k[s].op = "grow_fail" /\ UNCHANGED <<mem, pt, sz>>
      /\ k'[s] = Idle("user") /\ \A t \in Space \ {s} : k'[t] = k[t]
  BY Zenon DEF growproc_fail, UnmapDone, MemInv, TypeOK
<1>2. k[s].pc \notin Absent \cup {"zombie", "lost", "lost_zombie"}
  BY <1>1, Zenon DEF Absent
<1> QED  BY <1>1, <1>2, EndData, RegsStep, Zenon

(* uvmunmap() hands an entry to kfree().                                   *)
LEMMA uvmunmap_hidden ==
    ASSUME MemInv, MemInv', DataInvs, NEW s \in Space, uvmunmap(s)
    PROVE  DataInvs' /\ View' = View
<1>0. PICK r \in Regs : r = k[s]
  BY KTyped, Zenon
<1>1. r.pc = "uvmunmap" /\ UNCHANGED <<mem, pt, sz>> /\ \A t \in Space \ {s} : k'[t] = k[t]
  BY <1>0, Zenon DEF uvmunmap, MemInv, TypeOK
<1>2. k'[s] = [r EXCEPT !.pc = "kfree", !.ra = "clear", !.pa = pt[r.tgt][r.pg].pa]
  BY <1>0, Zenon DEF uvmunmap, MemInv, TypeOK
<1>3. k'[s].pc = "kfree" /\ k'[s].ra = "clear" /\ k'[s].op = r.op /\ k'[s].base = r.base
  BY <1>2, ZenonT(30) DEF Regs
<1>4. r.pc \notin Absent \cup {"zombie", "lost", "lost_zombie"} /\ k'[s].pc \notin Absent \cup {"zombie", "lost", "lost_zombie"}
  BY <1>1, <1>3, Zenon DEF Absent
<1>5. sz[s] # 0 /\ DataInv(s) /\ Pc(s)' \in UnmapPc
  BY <1>0, <1>3, <1>4, HasPages, Zenon DEF Pc, UnmapPc
<1>6. DataInv(s)'
  BY <1>0, <1>1, <1>3, <1>5, UnmapData, Zenon DEF DataInv
<1>7. ViewSize(s)' = ViewSize(s)
  BY <1>0, <1>1, <1>3, <1>4, ViewSizeIs
<1> QED  BY <1>0, <1>1, <1>4, <1>6, <1>7, RegsStep, Zenon

(* What programs see are contents of pages.                                *)
LEMMA SeenData ==
    ASSUME MemInv, NEW t \in Space, NEW v \in Page
    PROVE  /\ v < ViewSize(t) => Seen(t)[v] = mem[pt[t][v].pa] /\ Seen(t)[v] # NoData
           /\ ~(v < ViewSize(t)) => Seen(t)[v] = NoData
<1>1. v < ViewSize(t) => mem[pt[t][v].pa] \in Content
  BY SeenRef, Zenon DEF MemInv, TypeOK
<1>2. NoData \notin Content
  BY CowAssumption, Zenon DEF Content
<1> QED  BY <1>1, <1>2, Zenon DEF Seen

(* A program that sees a page does not see an empty memory.                *)
LEMMA SeenNotEmpty ==
    ASSUME MemInv, NEW t \in Space, ViewSize(t) \in Nat, ViewSize(t) # 0
    PROVE  Seen(t) # [v \in Page |-> NoData]
<1>1. 0 \in Page /\ 0 < ViewSize(t)
  BY CowAssumption DEF Page
<1> QED  BY <1>1, SeenData, Zenon

(* A change of the size of what the program of s sees is a step of sbrk(). *)
LEMMA ResizeSeen ==
    ASSUME MemInv, NEW s \in Space, ViewSize(s) \in Nat, ViewSize(s) # 0,
           \A t \in Space \ {s} : Seen(t)' = Seen(t), NEW n \in Nat, ViewSize(s)' = n,
           \A v \in Page : v < n => mem'[pt'[s][v].pa] = IF v < ViewSize(s) THEN mem[pt[s][v].pa] ELSE Zero
    PROVE  PM!Resize(s, n)
<1> DEFINE new == [v \in Page |-> IF v >= n THEN NoData
                                  ELSE IF View[s][v] = NoData THEN Zero ELSE View[s][v]]
<1>1. Seen(s)' = new
  <2>1. View[s] = Seen(s)
    BY Zenon DEF View
  <2> SUFFICES ASSUME NEW v \in Page
               PROVE  (IF v < n THEN mem'[pt'[s][v].pa] ELSE NoData)
                      = IF v >= n THEN NoData
                        ELSE IF Seen(s)[v] = NoData THEN Zero ELSE Seen(s)[v]
    BY <2>1, Zenon DEF Seen
  <2>2. CASE v < n
    <3>1. ~(v >= n)
      BY <2>2 DEF Page
    <3> QED  BY <2>2, <3>1, SeenData, Zenon
  <2>3. CASE ~(v < n)
    <3>1. v >= n
      BY <2>3 DEF Page
    <3> QED  BY <2>3, <3>1, Zenon
  <2> QED  BY <2>2, <2>3, Zenon
<1>2. View' = [View EXCEPT ![s] = new]
  BY <1>1, Zenon DEF View
<1>3. View[s] # [v \in Page |-> NoData]
  BY SeenNotEmpty, Zenon DEF View
<1> QED  BY <1>2, <1>3, Zenon DEF PM!Resize, PM!Empty, PM!Page, Page

(* The path of s starts uvmunmap(): not to shrink a space.                 *)
LEMMA StartUnmapHidden ==
    ASSUME MemInv, MemInv', DataInvs, NEW s \in Space, UNCHANGED <<mem, pt, sz>>,
           \A t \in Space \ {s} : k'[t] = k[t], k[s].pc \notin Absent \cup {"zombie", "lost", "lost_zombie"},
           k[s].op # "shrink", k'[s].op # "shrink",
           k'[s].pc = "uvmunmap" \/ (k'[s].pc = "kfree" /\ k'[s].ra = "uvmunmap")
    PROVE  DataInvs' /\ View' = View
<1>1. Pc(s)' \in UnmapPc /\ k'[s].pc \notin Absent \cup {"zombie", "lost", "lost_zombie"}
  BY Zenon DEF Pc, UnmapPc, Absent
<1>2. DataInv(s)'
  BY <1>1, HasPages, UnmapData, Zenon
<1>3. ViewSize(s)' = ViewSize(s)
  BY <1>1, ViewSizeIs, Zenon
<1> QED  BY <1>2, <1>3, RegsStep, Zenon

(* exec() fails: the space it was building is freed unseen.                *)
LEMMA exec_bad_hidden ==
    ASSUME MemInv, MemInv', DataInvs, NEW s \in Space, exec_bad(s)
    PROVE  DataInvs' /\ View' = View
<1>0. PICK r \in Regs : r = k[s]
  BY KTyped, Zenon
<1>1. /\ r.pc \in {"uvmunmap", "exec"} /\ r.op \in {"exec_fail", "exec"}
      /\ UNCHANGED <<mem, pt, sz>> /\ \A t \in Space \ {s} : k'[t] = k[t]
  <2>1. r.pc = "exec" => r.op = "exec"
    BY <1>0, KTyped, Zenon DEF PathInv, LoopInv, Pc
  <2> QED  BY <1>0, <2>1, Zenon DEF exec_bad, UnmapDone, MemInv, TypeOK
<1>2. k'[s] = [r EXCEPT !.pc = "uvmunmap", !.op = "exec_bad", !.ra = "none", !.tgt = r.tgt,
                        !.base = 0, !.pg = 0, !.end = sz[r.tgt]]
  BY <1>0, Zenon DEF exec_bad, StartUnmap, MemInv, TypeOK
<1>3. k'[s].pc = "uvmunmap" /\ k'[s].op = "exec_bad"
  BY <1>2, ZenonT(30) DEF Regs
<1>4. r.pc \notin Absent \cup {"zombie", "lost", "lost_zombie"}
  BY <1>1, Zenon DEF Absent
<1> QED  BY <1>0, <1>1, <1>3, <1>4, StartUnmapHidden, Zenon

(* exec() begins with a segment: the pages it will add are not seen.       *)
LEMMA exec_segment_hidden ==
    ASSUME MemInv, MemInv', DataInvs, NEW s \in Space, exec_segment(s)
    PROVE  DataInvs' /\ View' = View
<1>0. PICK r \in Regs : r = k[s]
  BY KTyped, Zenon
<1>1. r.pc = "exec" /\ UNCHANGED <<mem, pt, sz>> /\ \A t \in Space \ {s} : k'[t] = k[t]
  BY <1>0, Zenon DEF exec_segment, MemInv, TypeOK
<1>2. PICK i, b, e : /\ k'[s] = [r EXCEPT !.pc = "uvmalloc", !.seg = i, !.base = b, !.pg = b, !.end = e]
                     /\ b = sz[r.tgt] /\ i = r.seg + 1 /\ i <= Len(Segments) /\ e = b + Segments[i].n
  BY <1>0, Zenon DEF exec_segment, MemInv, TypeOK
<1>3. /\ k'[s].pc = "uvmalloc" /\ k'[s].op = r.op /\ k'[s].tgt = r.tgt
      /\ k'[s].base = b /\ k'[s].pg = b /\ k'[s].end = e
  BY <1>2, ZenonT(30) DEF Regs
<1>4. r.pc \notin Absent \cup {"zombie", "lost", "lost_zombie"} /\ k'[s].pc \notin Absent \cup {"zombie", "lost", "lost_zombie"}
  BY <1>1, <1>3, Zenon DEF Absent
<1>5. Pc(s) = "exec" /\ Pc(s)' = "uvmalloc" /\ r.op = "exec" /\ r.tgt \in Space
  BY <1>0, <1>1, <1>3, KTyped, Zenon DEF PathInv, RegsInv, LoopInv, Pc, NoPath, DupPc
<1>6. sz[s] # 0 /\ DataInv(s)
  BY <1>0, <1>4, HasPages, Zenon
<1>7. \A v \in Page : ~(b <= v /\ v < b)
  BY <1>2, <1>5, SMTT(30) DEF Page, MemInv, TypeOK
<1>8. \A v \in Page : v < sz[r.tgt] => ~pt[r.tgt][v].cow /\ mem[pt[r.tgt][v].pa] = Img
  BY <1>0, <1>5, <1>6, Zenon DEF DataInv
<1>a. e # 0
  <2>1. i \in 1 .. Len(Segments)
    BY <1>2 DEF Regs
  <2>2. Segments[i].n \in Nat \ {0}
    <3>1. PICK S : S = [n : Nat \ {0}, w : BOOLEAN, x : BOOLEAN]
      BY Zenon
    <3>2. Segments \in Seq(S)
      BY <3>1, CowAssumption, Zenon
    <3>3. Segments[i] \in S
      BY <2>1, <3>2, SMTT(30)
    <3> QED  BY <3>1, <3>3, Zenon
  <2>3. b \in Nat
    BY <1>2, <1>5, SMTT(30) DEF MemInv, TypeOK
  <2> QED  BY <1>2, <2>2, <2>3, SMTT(30)
<1>9. DataInv(s)'
  BY <1>1, <1>3, <1>5, <1>6, <1>7, <1>8, <1>a, Zenon DEF DataInv
<1>10. ViewSize(s)' = ViewSize(s)
  BY <1>0, <1>1, <1>3, <1>4, <1>5, ViewSizeIs, SMTT(30)
<1> QED  BY <1>0, <1>1, <1>4, <1>9, <1>10, RegsStep, Zenon

(* sbrk(): growth is seen when it is complete, a reduction at once.        *)
LEMMA growproc_maps ==
    ASSUME MemInv, MemInv', DataInvs, NEW s \in Space, NEW n \in 1 .. NPAGES, growproc(s, n)
    PROVE  DataInvs' /\ (PM!Resize(s, n) \/ View' = View)
<1>0. PICK r \in Regs : r = k[s]
  BY KTyped, Zenon
<1>1. /\ r.pc = "user" /\ r.op = "none" /\ UNCHANGED <<mem, pt, sz>>
      /\ \A t \in Space \ {s} : k'[t] = k[t]
  <2>1. r.pc = "user" /\ UNCHANGED <<mem, pt, sz>> /\ \A t \in Space \ {s} : k'[t] = k[t]
    BY <1>0, Zenon DEF growproc, MemInv, TypeOK
  <2>2. r = Idle("user")
    BY <1>0, <2>1, UserIdle, Zenon
  <2> QED  BY <2>1, <2>2, IdleIs, Zenon
<1>2. r.pc \notin Absent \cup {"zombie", "lost", "lost_zombie"}
  BY <1>1, Zenon DEF Absent
<1>3. sz[s] # 0 /\ DataInv(s) /\ sz[s] \in Nat /\ n \in Nat \ {0}
  BY <1>0, <1>2, HasPages, SMTT(30) DEF MemInv, TypeOK
<1>4. CASE /\ n > sz[s]
           /\ k' = [k EXCEPT ![s] = [@ EXCEPT !.pc = "uvmalloc", !.op = "grow", !.tgt = s,
                                              !.base = sz[s], !.pg = sz[s], !.end = n]]
  <2>1. k'[s] = [r EXCEPT !.pc = "uvmalloc", !.op = "grow", !.tgt = s,
                          !.base = sz[s], !.pg = sz[s], !.end = n]
    BY <1>0, <1>4, Zenon DEF MemInv, TypeOK
  <2>2. k'[s].pc = "uvmalloc" /\ k'[s].op = "grow" /\ k'[s].base = sz[s] /\ k'[s].pg = sz[s]
    BY <2>1, ZenonT(30) DEF Regs
  <2>3. \A v \in Page : ~(sz[s] <= v /\ v < sz[s])
    BY <1>3 DEF Page
  <2>4. Pc(s)' = "uvmalloc" /\ k'[s].pc \notin Absent \cup {"zombie", "lost", "lost_zombie"}
    BY <2>2, Zenon DEF Pc, Absent
  <2>5. DataInv(s)'
    BY <1>1, <1>3, <2>2, <2>3, <2>4, Zenon DEF DataInv
  <2>6. ViewSize(s)' = ViewSize(s)
    BY <1>0, <1>1, <1>2, <2>2, <2>4, ViewSizeIs, Zenon
  <2> QED  BY <1>0, <1>1, <1>2, <2>5, <2>6, RegsStep, Zenon
<1>5. CASE n < sz[s] /\ k' = [k EXCEPT ![s] = StartUnmap(s, "shrink", s, n, sz[s])]
  <2>1. k'[s] = StartUnmap(s, "shrink", s, n, sz[s])
    BY <1>5, Zenon DEF MemInv, TypeOK
  <2>2. k'[s].pc = "uvmunmap" /\ k'[s].op = "shrink" /\ k'[s].base = n
    <3>1. k'[s] = [r EXCEPT !.pc = "uvmunmap", !.op = "shrink", !.ra = "none", !.tgt = s,
                            !.base = n, !.pg = n, !.end = sz[s]]
      BY <1>0, <2>1, Zenon DEF StartUnmap
    <3> QED  BY <3>1, ZenonT(30) DEF Regs
  <2>3. Pc(s)' = "uvmunmap" /\ k'[s].pc \notin Absent \cup {"zombie", "lost", "lost_zombie"}
    BY <2>2, Zenon DEF Pc, Absent
  <2>4. DataInv(s)'
    BY <1>1, <1>3, <2>2, <2>3, UnmapData, Zenon DEF UnmapPc
  <2>5. DataInvs' /\ \A t \in Space \ {s} : Seen(t)' = Seen(t)
    BY <1>0, <1>1, <1>2, <2>4, RegsStep, Zenon
  <2>6. ViewSize(s) = sz[s] /\ ViewSize(s)' = n
    BY <1>0, <1>1, <1>2, <2>2, <2>3, ViewSizeIs, Zenon
  <2>7. \A v \in Page : v < n => v < sz[s]
    BY <1>3, <1>5 DEF Page
  <2>8. \A v \in Page : v < n => mem'[pt'[s][v].pa] = IF v < ViewSize(s) THEN mem[pt[s][v].pa] ELSE Zero
    BY <1>1, <2>6, <2>7, Zenon
  <2>9. PM!Resize(s, n)
    BY <1>3, <2>5, <2>6, <2>8, ResizeSeen, Zenon
  <2> QED  BY <2>5, <2>9, Zenon
<1> QED  BY <1>1, <1>4, <1>5, Zenon DEF growproc

(* A page that the step fills is free, or has one reference, at u, w: no   *)
(* other place sees the change.                                            *)
LEMMA FreeWrite ==
    ASSUME MemInv, NEW f \in freelist, NEW x, mem' = [mem EXCEPT ![f] = x]
    PROVE  \A t \in Space, v \in Page \cup {-1} :
              Ref(<<t, v>>) \in Frame => mem'[Ref(<<t, v>>)] = mem[Ref(<<t, v>>)]
<1> SUFFICES ASSUME NEW t \in Space, NEW v \in Page \cup {-1}, Ref(<<t, v>>) \in Frame
             PROVE  mem'[Ref(<<t, v>>)] = mem[Ref(<<t, v>>)]
  BY Zenon
<1>1. Ref(<<t, v>>) # f
  BY LocIs, RefNotFree, Zenon DEF MemInv
<1> QED  BY <1>1, Zenon DEF MemInv, TypeOK

(* The same for a page that only the place u, w refers to.                 *)
LEMMA OwnWrite ==
    ASSUME MemInv, NEW u \in Space, NEW w \in Page \cup {-1}, Own(<<u, w>>),
           NEW g \in Frame, Ref(<<u, w>>) = g, NEW x, mem' = [mem EXCEPT ![g] = x]
    PROVE  \A t \in Space, v \in Page \cup {-1} :
              Ref(<<t, v>>) \in Frame /\ (t # u \/ v # w) => mem'[Ref(<<t, v>>)] = mem[Ref(<<t, v>>)]
<1> SUFFICES ASSUME NEW t \in Space, NEW v \in Page \cup {-1}, Ref(<<t, v>>) \in Frame, t # u \/ v # w
             PROVE  mem'[Ref(<<t, v>>)] = mem[Ref(<<t, v>>)]
  BY Zenon
<1>1. <<t, v>> \in Loc /\ <<u, w>> \in Loc /\ <<t, v>> # <<u, w>> /\ g # NoFrame
  BY LocIs, CowAssumption, Zenon
<1>2. Ref(<<t, v>>) # g
  BY <1>1, Zenon DEF MemInv, Exclusive
<1> QED  BY <1>2, Zenon DEF MemInv, TypeOK

(* The program of s sees the same if its page table and the pages it       *)
(* refers to are the same.                                                 *)
LEMMA SeenKept ==
    ASSUME MemInv, NEW s \in Space, UNCHANGED pt, ViewSize(s)' = ViewSize(s),
           \A v \in Page : Ref(<<s, v>>) \in Frame => mem'[Ref(<<s, v>>)] = mem[Ref(<<s, v>>)]
    PROVE  Seen(s)' = Seen(s)
<1>1. \A v \in Page : v < ViewSize(s) => mem'[pt'[s][v].pa] = mem[pt[s][v].pa]
  BY SeenRef, Zenon
<1> QED  BY <1>1, SeenSame, Zenon

(* A step of the path of s.                                                *)
LEMMA PathStep ==
    ASSUME MemInv, MemInv', DataInvs, NEW s \in Space, k[s].pc \notin Absent, DataInv(s)',
           \A t \in Space \ {s} : k'[t] = k[t] /\ (t # k[s].tgt => pt'[t] = pt[t] /\ sz'[t] = sz[t]),
           \A t \in Space \ {s}, v \in Page \cup {-1} :
              Ref(<<t, v>>) \in Frame /\ t # k[s].tgt => mem'[Ref(<<t, v>>)] = mem[Ref(<<t, v>>)]
    PROVE  /\ DataInvs' /\ \A t \in Space \ {s} : Seen(t)' = Seen(t)
           /\ Seen(s)' = Seen(s) => View' = View
<1>1. Bystanders(s)
  BY Zenon DEF Bystanders, Bystander
<1>2. k[s].tgt \in Space \ {s} => k'[k[s].tgt].pc \in Absent
  BY ZenonT(30) DEF MemInv, OneWorker, Absent
<1>3. DataInvs' /\ \A t \in Space \ {s} : Seen(t)' = Seen(t)
  BY <1>1, <1>2, OthersHidden, Zenon
<1> QED  BY <1>3, Zenon DEF View

(* dup_pg() looks at the entry and takes a page for the copy: no program   *)
(* sees that page.                                                         *)
LEMMA dup_pg_hidden ==
    ASSUME MemInv, MemInv', DataInvs, NEW s \in Space, dup_pg(s)
    PROVE  DataInvs' /\ View' = View
<1>0. PICK r \in Regs : r = k[s]
  BY KTyped, Zenon
<1>1. /\ r.pc = "dup_pg" /\ r.op \in {"trap", "copyout"} /\ UNCHANGED <<pt, sz>>
      /\ \A t \in Space \ {s} : k'[t] = k[t]
  <2>1. r.pc = "dup_pg" /\ UNCHANGED <<pt, sz>> /\ \A t \in Space \ {s} : k'[t] = k[t]
    BY <1>0, Zenon DEF dup_pg, MemInv, TypeOK
  <2> QED  BY <1>0, <2>1, DupRegs, Zenon DEF DupPc
<1>2. r.pc \notin Absent \cup {"zombie", "lost", "lost_zombie"}
  BY <1>1, Zenon DEF Absent
<1>3. sz[s] # 0
  BY <1>0, <1>2, HasPages, Zenon
<1>4. ASSUME NEW c, c = 0 => ~DupPte(s).cow, mem' = mem,
             k' = [k EXCEPT ![s].pc = "dup_ret", ![s].ret = c]
      PROVE  DataInvs' /\ View' = View
  <2>1. k'[s] = [r EXCEPT !.pc = "dup_ret", !.ret = c]
    BY <1>0, <1>4, Zenon DEF MemInv, TypeOK
  <2>2. k'[s].pc = "dup_ret" /\ k'[s].ret = c /\ k'[s].addr = r.addr /\ k'[s].op = r.op
    BY <2>1, ZenonT(30) DEF Regs
  <2>3. DupPte(s)' = DupPte(s) /\ Pc(s)' = "dup_ret" /\ k'[s].pc \notin Absent \cup {"zombie", "lost", "lost_zombie"}
    BY <1>0, <1>1, <2>2, Zenon DEF DupPte, PteAt, Pc, Absent
  <2>4. DataInv(s)'
    BY <1>1, <1>3, <1>4, <2>2, <2>3, DupData, Zenon DEF DupPc
  <2>5. ViewSize(s)' = ViewSize(s)
    BY <1>0, <1>1, <1>2, <2>2, <2>3, ViewSizeIs, SMTT(30)
  <2> QED  BY <1>0, <1>1, <1>2, <1>4, <2>4, <2>5, RegsStep, Zenon
<1>5. ASSUME NEW f \in freelist, kalloc(f, Junk), k' = [k EXCEPT ![s].pc = "memmove", ![s].pa = f]
      PROVE  DataInvs' /\ View' = View
  <2>1. k'[s] = [r EXCEPT !.pc = "memmove", !.pa = f]
    BY <1>0, <1>5, Zenon DEF MemInv, TypeOK
  <2>2. k'[s].pc = "memmove" /\ k'[s].op = r.op
    BY <2>1, ZenonT(30) DEF Regs
  <2>3. Pc(s)' = "memmove" /\ k'[s].pc \notin Absent \cup {"zombie", "lost", "lost_zombie"}
    BY <2>2, Zenon DEF Pc, Absent
  <2>4. DataInv(s)'
    BY <1>1, <1>3, <2>2, <2>3, DupData, Zenon DEF DupPc
  <2>5. \A t \in Space, v \in Page \cup {-1} :
           Ref(<<t, v>>) \in Frame => mem'[Ref(<<t, v>>)] = mem[Ref(<<t, v>>)]
    BY <1>5, FreeWrite, Zenon DEF kalloc
  <2>6. ViewSize(s)' = ViewSize(s)
    BY <1>0, <1>1, <1>2, <2>2, <2>3, ViewSizeIs, Zenon
  <2>7. Seen(s)' = Seen(s)
    BY <1>1, <2>5, <2>6, SeenKept, Zenon
  <2> QED  BY <1>0, <1>1, <1>2, <2>4, <2>5, <2>7, PathStep, Zenon
<1>6. DupCheck(r.addr, DupPte(s)) = 0 => ~DupPte(s).cow
  BY DEF DupCheck
<1> QED  BY <1>0, <1>4, <1>5, <1>6 DEF dup_pg

(* dup_pg() fills the page, to which nothing else refers, with what the    *)
(* program sees.                                                           *)
LEMMA dup_memmove_hidden ==
    ASSUME MemInv, MemInv', DataInvs, NEW s \in Space, dup_memmove(s)
    PROVE  DataInvs' /\ View' = View
<1>0. PICK r \in Regs : r = k[s]
  BY KTyped, Zenon
<1>1. /\ r.pc = "memmove" /\ r.op \in {"trap", "copyout"} /\ UNCHANGED <<pt, sz>> /\ r.pa \in Frame
      /\ \A t \in Space \ {s} : k'[t] = k[t]
  <2>1. r.pc = "memmove" /\ UNCHANGED <<pt, sz>> /\ \A t \in Space \ {s} : k'[t] = k[t]
    BY <1>0, Zenon DEF dup_memmove, MemInv, TypeOK
  <2> QED  BY <1>0, <2>1, DupRegs, Zenon DEF DupPc
<1>2. r.pc \notin Absent \cup {"zombie", "lost", "lost_zombie"}
  BY <1>1, Zenon DEF Absent
<1>3. k'[s] = [r EXCEPT !.pc = "setpte"]
  BY <1>0, Zenon DEF dup_memmove, MemInv, TypeOK
<1>4. k'[s].pc = "setpte" /\ k'[s].op = r.op /\ k'[s].addr = r.addr /\ k'[s].pa = r.pa
  BY <1>3, ZenonT(30) DEF Regs
<1>5. DupPte(s)' = DupPte(s) /\ Pc(s)' = "setpte" /\ k'[s].pc \notin Absent \cup {"zombie", "lost", "lost_zombie"}
  BY <1>0, <1>1, <1>4, Zenon DEF DupPte, PteAt, Pc, Absent
<1>6. <<s, -1>> \in Loc /\ Own(<<s, -1>>) /\ Ref(<<s, -1>>) = r.pa
  BY <1>0, <1>1, LocIs, OwnIs, RefIs, Zenon DEF OwnPc
<1>7. mem' = [mem EXCEPT ![r.pa] = mem[DupPte(s).pa]]
  BY <1>0, Zenon DEF dup_memmove
<1>8. \A t \in Space, v \in Page \cup {-1} :
         Ref(<<t, v>>) \in Frame /\ (t # s \/ v # -1) => mem'[Ref(<<t, v>>)] = mem[Ref(<<t, v>>)]
  BY <1>1, <1>6, <1>7, OwnWrite, Zenon
<1>9. mem'[r.pa] = mem'[DupPte(s).pa]
  <2>1. Pc(s) \in DupPc /\ Valid(DupPte(s))
    BY <1>0, <1>1, KTyped, SMTT(30) DEF PathInv, DupInv, DupCheck, Pc, DupPc
  <2>2. PICK v \in Page : Ref(<<s, v>>) = DupPte(s).pa /\ DupPte(s).pa \in Frame
    BY <2>1, DupRef, Zenon
  <2>3. mem'[DupPte(s).pa] = mem[DupPte(s).pa]
    BY <1>8, <2>2, LocIs, ZenonT(30)
  <2>4. mem'[r.pa] = mem[DupPte(s).pa]
    BY <1>1, <1>7, Zenon DEF MemInv, TypeOK
  <2> QED  BY <2>3, <2>4, Zenon
<1>10. DataInv(s)'
  <2>1. sz'[s] # 0
    BY <1>0, <1>1, <1>2, HasPages, Zenon
  <2> QED  BY <2>1, <1>4, <1>5, <1>9, DupData, Zenon DEF DupPc
<1>11. ViewSize(s)' = ViewSize(s)
  BY <1>0, <1>1, <1>2, <1>4, <1>5, ViewSizeIs, SMTT(30)
<1>12. Seen(s)' = Seen(s)
  BY <1>1, <1>8, <1>11, LocIs, SeenKept, Zenon
<1> QED  BY <1>0, <1>1, <1>2, <1>8, <1>10, <1>12, PathStep, Zenon

(* The page that kfree() fills with junk and puts on the free list has no  *)
(* other reference: no program sees it.                                    *)
LEMMA freepage_hidden ==
    ASSUME MemInv, MemInv', DataInvs, NEW s \in Space, freepage(s)
    PROVE  DataInvs' /\ View' = View
<1>0. PICK r \in Regs : r = k[s]
  BY KTyped, Zenon
<1>1. /\ r.pc = "freepage" /\ r.ra \in {"dup_ret", "clear", "uvmunmap"} /\ r.pa \in Frame
      /\ UNCHANGED <<pt, sz>> /\ \A t \in Space \ {s} : k'[t] = k[t]
  <2>1. r.pc = "freepage" /\ UNCHANGED <<pt, sz>> /\ \A t \in Space \ {s} : k'[t] = k[t]
    BY <1>0, Zenon DEF freepage, MemInv, TypeOK
  <2>2. r.ra # "none" /\ r.pa # NoFrame
    BY <1>0, <2>1, KTyped, Zenon DEF PathInv, RegsInv
  <2> QED  BY <2>1, <2>2, Zenon DEF Regs
<1>2. k'[s] = [r EXCEPT !.pc = r.ra, !.pa = NoFrame]
  BY <1>0, Zenon DEF freepage, MemInv, TypeOK
<1>3. /\ k'[s].op = r.op /\ k'[s].ra = r.ra /\ k'[s].base = r.base /\ k'[s].ret = r.ret
      /\ k'[s].addr = r.addr /\ k'[s].pc = r.ra
  BY <1>2, ZenonT(30) DEF Regs
<1>4. Pc(s)' = r.ra /\ Pc(s) = r.ra
  BY <1>0, <1>1, <1>3, Zenon DEF Pc
<1>5. r.pc \notin Absent \cup {"zombie", "lost", "lost_zombie"} /\ k'[s].pc \notin Absent \cup {"zombie", "lost", "lost_zombie"}
  BY <1>1, <1>3, Zenon DEF Absent
<1>6. sz[s] # 0 /\ DataInv(s)
  BY <1>0, <1>5, HasPages, Zenon
<1>7. DupPte(s)' = DupPte(s)
  BY <1>0, <1>1, <1>3, Zenon DEF DupPte, PteAt
<1>8. DataInv(s)'
  <2>1. CASE r.ra = "dup_ret"
    <3>1. r.ret = 0 => ~DupPte(s)'.cow
      BY <1>0, <1>4, <1>6, <1>7, <2>1, Zenon DEF DataInv
    <3>2. k'[s].pc # "setpte"
      BY <1>3, <2>1, Zenon
    <3> QED  BY <1>1, <1>3, <1>4, <1>6, <2>1, <3>1, <3>2, DupData, Zenon DEF DupPc
  <2>2. CASE r.ra \in {"clear", "uvmunmap"}
    BY <1>0, <1>1, <1>3, <1>4, <1>6, <2>2, UnmapData, Zenon DEF UnmapPc, DataInv
  <2> QED  BY <1>1, <2>1, <2>2, Zenon
<1>9. \A t \in Space, v \in Page \cup {-1} :
         Ref(<<t, v>>) \in Frame /\ (t # s \/ v # -1) => mem'[Ref(<<t, v>>)] = mem[Ref(<<t, v>>)]
  <2>1. Own(<<s, -1>>) /\ Ref(<<s, -1>>) = r.pa /\ mem' = [mem EXCEPT ![r.pa] = Junk]
    BY <1>0, <1>1, OwnIs, RefIs, Zenon DEF OwnPc, freepage
  <2> QED  BY <1>1, <2>1, OwnWrite, Zenon
<1>10. ViewSize(s)' = ViewSize(s)
  BY <1>0, <1>1, <1>3, <1>5, ViewSizeIs, SMTT(30)
<1>11. Seen(s)' = Seen(s)
  BY <1>1, <1>9, <1>10, LocIs, SeenKept, Zenon
<1> QED  BY <1>0, <1>1, <1>5, <1>8, <1>9, <1>11, PathStep, Zenon

(* dup_pg() replaces the entry by one for the copy.                        *)
LEMMA dup_setpte_hidden ==
    ASSUME MemInv, MemInv', DataInvs, NEW s \in Space, dup_setpte(s)
    PROVE  DataInvs' /\ View' = View
<1>0. PICK r \in Regs : r = k[s]
  BY KTyped, Zenon
<1>1. /\ r.pc = "setpte" /\ r.op \in {"trap", "copyout"} /\ UNCHANGED <<mem, sz>> /\ r.pa \in Frame
      /\ \A t \in Space \ {s} : k'[t] = k[t] /\ pt'[t] = pt[t]
  <2>1. /\ r.pc = "setpte" /\ UNCHANGED <<mem, sz>>
        /\ \A t \in Space \ {s} : k'[t] = k[t] /\ pt'[t] = pt[t]
    BY <1>0, Zenon DEF dup_setpte, MemInv, TypeOK
  <2> QED  BY <1>0, <2>1, DupRegs, Zenon DEF DupPc
<1>2. r.pc \notin Absent \cup {"zombie", "lost", "lost_zombie"}
  BY <1>1, Zenon DEF Absent
<1>3. k'[s] = [r EXCEPT !.pc = "kfree", !.ra = "dup_ret", !.pa = DupPte(s).pa, !.ret = 0]
  BY <1>0, Zenon DEF dup_setpte, MemInv, TypeOK
<1>4. k'[s].pc = "kfree" /\ k'[s].ra = "dup_ret" /\ k'[s].op = r.op /\ k'[s].addr = r.addr
  BY <1>3, ZenonT(30) DEF Regs
<1>5. Pc(s)' = "dup_ret" /\ k'[s].pc \notin Absent \cup {"zombie", "lost", "lost_zombie"}
  BY <1>4, Zenon DEF Pc, Absent
<1>6. PICK w \in Page : /\ w = PageOf(r.addr) /\ r.addr # Far
                        /\ DupPte(s) = pt[s][w] /\ mem[r.pa] = mem[pt[s][w].pa]
  <2>1. Valid(DupPte(s))
    BY <1>0, <1>1, KTyped, SMTT(30) DEF PathInv, DupInv, DupCheck
  <2>2. mem[r.pa] = mem[DupPte(s).pa]
    BY <1>0, <1>1, Zenon DEF DataInvs, DataInv
  <2> QED  BY <1>0, <2>1, <2>2, DupPteIs, Zenon
<1>7. pt'[s] = [pt[s] EXCEPT ![w] = DupNewPte(s)]
  BY <1>0, <1>6, Zenon DEF dup_setpte, MemInv, TypeOK
<1>8. DupNewPte(s).pa = r.pa /\ DupNewPte(s).cow = FALSE
  BY <1>0, Zenon DEF DupNewPte
<1>9. pt'[s][w] = DupNewPte(s) /\ \A v \in Page \ {w} : pt'[s][v] = pt[s][v]
  BY <1>7, Zenon DEF MemInv, TypeOK
<1>10. DataInv(s)'
  <2>1. DupPte(s)' = DupNewPte(s)
    BY <1>0, <1>4, <1>6, <1>9, Zenon DEF DupPte, PteAt
  <2>2. sz'[s] # 0
    BY <1>0, <1>1, <1>2, HasPages, Zenon
  <2> QED  BY <1>4, <1>5, <1>8, <2>1, <2>2, DupData, Zenon DEF DupPc
<1>11. ViewSize(s)' = ViewSize(s)
  BY <1>0, <1>1, <1>2, <1>4, <1>5, ViewSizeIs, SMTT(30)
<1>12. Seen(s)' = Seen(s)
  <2>1. \A v \in Page : mem'[pt'[s][v].pa] = mem[pt[s][v].pa]
    <3>1. mem'[pt'[s][w].pa] = mem[pt[s][w].pa]
      BY <1>1, <1>6, <1>8, <1>9, Zenon
    <3> QED  BY <1>1, <1>9, <3>1, Zenon
  <2> QED  BY <1>11, <2>1, SeenSame, Zenon
<1> QED  BY <1>0, <1>1, <1>2, <1>10, <1>12, PathStep, Zenon

(* uvmunmap() clears an entry that no program sees.                        *)
LEMMA uvmunmap_clear_hidden ==
    ASSUME MemInv, MemInv', DataInvs, NEW s \in Space, uvmunmap_clear(s)
    PROVE  DataInvs' /\ View' = View
<1>0. PICK r \in Regs : r = k[s]
  BY KTyped, Zenon
<1>1. /\ r.pc = "clear" /\ UNCHANGED <<mem, sz>>
      /\ pt' = [pt EXCEPT ![r.tgt][r.pg] = NoPte] /\ \A t \in Space \ {s} : k'[t] = k[t]
  BY <1>0, Zenon DEF uvmunmap_clear, MemInv, TypeOK
<1>2. k'[s] = [r EXCEPT !.pc = "uvmunmap", !.ra = "none", !.pg = r.pg + 1]
  BY <1>0, Zenon DEF uvmunmap_clear, MemInv, TypeOK
<1>3. k'[s].pc = "uvmunmap" /\ k'[s].ra = "none" /\ k'[s].op = r.op /\ k'[s].base = r.base
  BY <1>2, ZenonT(30) DEF Regs
<1>4. /\ r.pc \notin Absent \cup {"zombie", "lost", "lost_zombie"} /\ k'[s].pc \notin Absent \cup {"zombie", "lost", "lost_zombie"}
      /\ Pc(s)' \in UnmapPc /\ Pc(s) \in UnmapPc
  BY <1>0, <1>1, <1>3, Zenon DEF Absent, Pc, UnmapPc
<1>5. sz[s] # 0 /\ DataInv(s)
  BY <1>0, <1>4, HasPages, Zenon
<1>6. DataInv(s)'
  BY <1>0, <1>1, <1>3, <1>4, <1>5, UnmapData, Zenon DEF DataInv
<1>7. ViewSize(s)' = ViewSize(s)
  BY <1>0, <1>1, <1>3, <1>4, ViewSizeIs, SMTT(30)
<1>8. \A t \in Space, v \in Page : t # r.tgt \/ v # r.pg => pt'[t][v] = pt[t][v]
  BY <1>1, Zenon DEF MemInv, TypeOK
<1>9. \A t \in Space : t # r.tgt => pt'[t] = pt[t]
  BY <1>1, Zenon DEF MemInv, TypeOK
<1>10. \A v \in Page : v < ViewSize(s) => s # r.tgt \/ v # r.pg
  <2> SUFFICES ASSUME r.tgt = s, r.pg < ViewSize(s), r.pg \in Page PROVE FALSE
    BY Zenon
  <2>1. r.op \in {"shrink", "grow_fail"} /\ r.base <= r.pg /\ (r.op = "grow_fail" => r.base = sz[s])
    BY <1>0, <1>4, KTyped, ZenonT(30) DEF PathInv, LoopInv, FreeOps
  <2>2. ViewSize(s) = r.base
    BY <1>0, <1>4, <2>1, ViewSizeIs, Zenon
  <2> QED  BY <2>1, <2>2 DEF Regs
<1>11. Seen(s)' = Seen(s)
  BY <1>1, <1>7, <1>8, <1>10, SeenSame, Zenon
<1> QED  BY <1>0, <1>1, <1>4, <1>6, <1>9, <1>11, PathStep, Zenon

(* The pages that uvmalloc() has mapped, or exec() filled, keep their data.*)
LEMMA BuiltKept ==
    ASSUME MemInv, NEW s \in Space, DataInv(s), Pc(s) \in AllocPc,
           \A t \in Space, v \in Page : Ref(<<t, v>>) \in Frame => mem'[Ref(<<t, v>>)] = mem[Ref(<<t, v>>)]
    PROVE  LET c == k[s].tgt
           IN  /\ c \in Space
               /\ \A v \in Page : k[s].base <= v /\ v < k[s].pg =>
                     ~pt[c][v].cow /\ mem'[pt[c][v].pa] = Zero
               /\ k[s].op = "exec" =>
                     \A v \in Page : v < sz[c] => ~pt[c][v].cow /\ mem'[pt[c][v].pa] = Img
<1>0. PICK r \in Regs : r = k[s]
  BY KTyped, Zenon
<1>1. r.tgt \in Space /\ Pc(s) # "clear" /\ sz[r.tgt] = r.base /\ r.base <= r.pg
  BY <1>0, KTyped, Zenon DEF PathInv, RegsInv, LoopInv, NoPath, DupPc, AllocPc
<1>2. PICK c \in Space : c = r.tgt
  BY <1>1, Zenon
<1>3. \A v \in Page : v < r.pg => mem'[pt[c][v].pa] = mem[pt[c][v].pa]
  <2> SUFFICES ASSUME NEW v \in Page, v < r.pg
               PROVE  mem'[pt[c][v].pa] = mem[pt[c][v].pa]
    BY Zenon
  <2>1. Built(s, v)
    BY <1>0, Zenon DEF Built, AllocPc, UnmapPc
  <2>2. pt[c][v].pa \in Frame /\ Ref(<<c, v>>) = pt[c][v].pa
    BY <1>0, <1>1, <1>2, <2>1, BuiltRef, Zenon
  <2>3. mem'[Ref(<<c, v>>)] = mem[Ref(<<c, v>>)]
    BY <2>2, Zenon
  <2> QED  BY <2>2, <2>3, Zenon
<1>4. \A v \in Page : v < sz[c] => v < r.pg
  BY <1>1, <1>2 DEF Regs, Page
<1>5. /\ \A v \in Page : r.base <= v /\ v < r.pg => ~pt[c][v].cow /\ mem[pt[c][v].pa] = Zero
      /\ r.op = "exec" => \A v \in Page : v < sz[c] => ~pt[c][v].cow /\ mem[pt[c][v].pa] = Img
  BY <1>0, <1>2, Zenon DEF DataInv
<1> QED  BY <1>0, <1>2, <1>3, <1>4, <1>5, Zenon

(* uvmalloc() takes a page and clears it, or gives up.                     *)
LEMMA uvmalloc_hidden ==
    ASSUME MemInv, MemInv', DataInvs, NEW s \in Space, uvmalloc(s)
    PROVE  DataInvs' /\ View' = View
<1>0. PICK r \in Regs : r = k[s]
  BY KTyped, Zenon
<1>1. r.pc = "uvmalloc" /\ UNCHANGED <<pt, sz>> /\ \A t \in Space \ {s} : k'[t] = k[t]
  BY <1>0, Zenon DEF uvmalloc, MemInv, TypeOK
<1>2. r.pc \notin Absent \cup {"zombie", "lost", "lost_zombie"} /\ Pc(s) \in AllocPc
  BY <1>0, <1>1, Zenon DEF Absent, Pc, AllocPc
<1>3. sz[s] # 0 /\ DataInv(s) /\ r.op \in {"grow", "exec"}
  BY <1>0, <1>2, KTyped, HasPages, Zenon DEF PathInv, LoopInv
<1>4. ASSUME NEW f \in freelist, kalloc(f, Zero), k' = [k EXCEPT ![s].pc = "mappages", ![s].pa = f]
      PROVE  DataInvs' /\ View' = View
  <2>1. k'[s] = [r EXCEPT !.pc = "mappages", !.pa = f]
    BY <1>0, <1>4, Zenon DEF MemInv, TypeOK
  <2>2. /\ k'[s].pc = "mappages" /\ k'[s].pa = f /\ k'[s].op = r.op /\ k'[s].tgt = r.tgt
        /\ k'[s].base = r.base /\ k'[s].pg = r.pg /\ k'[s].end = r.end
    BY <2>1, ZenonT(30) DEF Regs
  <2>a. r.op = "exec" => r.end # 0
    BY <1>0, <1>2, <1>3, Zenon DEF DataInv
  <2>3. /\ Pc(s)' = "mappages" /\ k'[s].pc \notin Absent \cup {"zombie", "lost", "lost_zombie"}
        /\ Pc(s)' \in AllocPc
    BY <2>2, Zenon DEF Pc, Absent, AllocPc
  <2>4. \A t \in Space, v \in Page \cup {-1} :
           Ref(<<t, v>>) \in Frame => mem'[Ref(<<t, v>>)] = mem[Ref(<<t, v>>)]
    BY <1>4, FreeWrite, Zenon DEF kalloc
  <2>5. mem'[f] = Zero
    BY <1>4, Zenon DEF kalloc, MemInv, TypeOK
  <2>6. /\ \A v \in Page : r.base <= v /\ v < r.pg =>
              ~pt'[r.tgt][v].cow /\ mem'[pt'[r.tgt][v].pa] = Zero
        /\ r.op = "exec" =>
              \A v \in Page : v < sz'[r.tgt] => ~pt'[r.tgt][v].cow /\ mem'[pt'[r.tgt][v].pa] = Img
    BY <1>0, <1>1, <1>2, <1>3, <2>4, BuiltKept, ZenonT(30)
  <2>7. DataInv(s)'
    BY <1>1, <1>3, <2>a, <2>2, <2>3, <2>5, <2>6, ZenonT(30) DEF DataInv
  <2>8. ViewSize(s)' = ViewSize(s)
    BY <1>0, <1>1, <1>2, <2>2, <2>3, ViewSizeIs, SMTT(30)
  <2>9. Seen(s)' = Seen(s)
    BY <1>1, <2>4, <2>8, SeenKept, Zenon
  <2> QED  BY <1>0, <1>1, <1>2, <2>4, <2>7, <2>9, PathStep, Zenon
<1>5. CASE /\ k' = [k EXCEPT ![s] = StartUnmap(s, FailOp(k[s].op), k[s].tgt, k[s].base, k[s].pg)]
           /\ UNCHANGED mem
  <2>1. k'[s] = [r EXCEPT !.pc = "uvmunmap", !.op = FailOp(r.op), !.ra = "none", !.tgt = r.tgt,
                          !.base = r.base, !.pg = r.base, !.end = r.pg]
    BY <1>0, <1>5, Zenon DEF StartUnmap, MemInv, TypeOK
  <2>2. k'[s].pc = "uvmunmap" /\ k'[s].op = FailOp(r.op)
    BY <2>1, ZenonT(30) DEF Regs
  <2>3. r.op # "shrink" /\ k'[s].op # "shrink"
    BY <1>3, <2>2, Zenon DEF FailOp
  <2> QED  BY <1>0, <1>1, <1>2, <1>5, <2>2, <2>3, StartUnmapHidden, Zenon
<1> QED  BY <1>4, <1>5, Zenon DEF uvmalloc

(* mappages() in uvmalloc(): the new page is not seen yet.                 *)
LEMMA uvmalloc_map_hidden ==
    ASSUME MemInv, MemInv', DataInvs, NEW s \in Space, uvmalloc_map(s)
    PROVE  DataInvs' /\ View' = View
<1>0. PICK r \in Regs : r = k[s]
  BY KTyped, Zenon
<1>1. r.pc = "mappages" /\ UNCHANGED <<mem, sz>> /\ \A t \in Space \ {s} : k'[t] = k[t]
  BY <1>0, Zenon DEF uvmalloc_map, MemInv, TypeOK
<1>2. r.pc \notin Absent \cup {"zombie", "lost", "lost_zombie"} /\ Pc(s) \in AllocPc /\ Pc(s) = "mappages"
  BY <1>0, <1>1, Zenon DEF Absent, Pc, AllocPc
<1>3. sz[s] # 0 /\ DataInv(s) /\ r.op \in {"grow", "exec"}
  BY <1>0, <1>2, KTyped, HasPages, Zenon DEF PathInv, LoopInv
<1>4. CASE /\ pt' = [pt EXCEPT ![k[s].tgt][k[s].pg] =
                      [pa |-> k[s].pa, w |-> Perm(s).w, x |-> Perm(s).x, u |-> TRUE, cow |-> FALSE]]
           /\ k' = [k EXCEPT ![s].pc = "uvmalloc", ![s].pa = NoFrame, ![s].pg = @ + 1]
  <2>1. k'[s] = [r EXCEPT !.pc = "uvmalloc", !.pa = NoFrame, !.pg = r.pg + 1]
    BY <1>0, <1>4, Zenon DEF MemInv, TypeOK
  <2>2. /\ k'[s].pc = "uvmalloc" /\ k'[s].op = r.op /\ k'[s].tgt = r.tgt
        /\ k'[s].base = r.base /\ k'[s].pg = r.pg + 1 /\ k'[s].end = r.end
    BY <2>1, ZenonT(30) DEF Regs
  <2>3. Pc(s)' = "uvmalloc" /\ k'[s].pc \notin Absent \cup {"zombie", "lost", "lost_zombie"} /\ Pc(s)' \in AllocPc
    BY <2>2, Zenon DEF Pc, Absent, AllocPc
  <2>4. /\ r.tgt \in Space /\ r.pg \in Page /\ sz[r.tgt] = r.base /\ r.base <= r.pg
        /\ r.op = "grow" => r.tgt = s
    <3>1. /\ r.tgt \in Space /\ sz[r.tgt] = r.base /\ r.base <= r.pg /\ r.pg < r.end
          /\ r.op = "grow" => r.tgt = s
      BY <1>0, <1>2, KTyped, Zenon DEF PathInv, RegsInv, LoopInv, NoPath, DupPc, AllocPc
    <3>2. r.pg \in Page
      BY <3>1, CowAssumption DEF Regs, Page
    <3> QED  BY <3>1, <3>2, Zenon
  <2>5. \A t \in Space : t # r.tgt => pt'[t] = pt[t]
    BY <1>0, <1>4, Zenon DEF MemInv, TypeOK
  <2>6. /\ \A v \in Page : v # r.pg => pt'[r.tgt][v] = pt[r.tgt][v]
        /\ pt'[r.tgt][r.pg].pa = r.pa /\ ~pt'[r.tgt][r.pg].cow
    <3>1. PICK q : q = [pa |-> r.pa, w |-> Perm(s).w, x |-> Perm(s).x, u |-> TRUE, cow |-> FALSE]
      BY Zenon
    <3>2. q.pa = r.pa /\ ~q.cow
      BY <3>1, Zenon
    <3>3. pt' = [pt EXCEPT ![r.tgt][r.pg] = q]
      BY <1>0, <1>4, <3>1, Zenon
    <3>4. pt'[r.tgt] = [pt[r.tgt] EXCEPT ![r.pg] = q] /\ pt[r.tgt] \in [Page -> Pte]
      BY <2>4, <3>3, Zenon DEF MemInv, TypeOK
    <3> QED  BY <2>4, <3>2, <3>4, Zenon
  <2>7. /\ \A v \in Page : r.base <= v /\ v < r.pg =>
              ~pt[r.tgt][v].cow /\ mem[pt[r.tgt][v].pa] = Zero
        /\ r.op = "exec" =>
              \A v \in Page : v < sz[r.tgt] => ~pt[r.tgt][v].cow /\ mem[pt[r.tgt][v].pa] = Img
        /\ mem[r.pa] = Zero /\ (r.op = "exec" => r.end # 0)
    BY <1>0, <1>1, <1>2, <1>3, Zenon DEF DataInv
  <2>8. \A v \in Page : v < r.pg + 1 => v < r.pg \/ v = r.pg
    BY DEF Page, Regs
  <2>9. \A v \in Page : v < sz[r.tgt] => v # r.pg
    BY <2>4 DEF Page, Regs
  <2>10. /\ \A v \in Page : r.base <= v /\ v < r.pg + 1 =>
              ~pt'[r.tgt][v].cow /\ mem'[pt'[r.tgt][v].pa] = Zero
         /\ r.op = "exec" =>
              \A v \in Page : v < sz'[r.tgt] => ~pt'[r.tgt][v].cow /\ mem'[pt'[r.tgt][v].pa] = Img
    <3>1. ~pt'[r.tgt][r.pg].cow /\ mem'[pt'[r.tgt][r.pg].pa] = Zero
      BY <1>1, <2>6, <2>7, Zenon
    <3>2. \A v \in Page : r.base <= v /\ v < r.pg /\ v # r.pg =>
              ~pt'[r.tgt][v].cow /\ mem'[pt'[r.tgt][v].pa] = Zero
      BY <1>1, <2>6, <2>7, Zenon
    <3>3. r.op = "exec" =>
              \A v \in Page : v < sz'[r.tgt] => ~pt'[r.tgt][v].cow /\ mem'[pt'[r.tgt][v].pa] = Img
      BY <1>1, <2>6, <2>7, <2>9, Zenon
    <3> QED  BY <2>8, <3>1, <3>2, <3>3, Zenon
  <2>11. DataInv(s)'
    BY <1>1, <1>3, <2>2, <2>3, <2>7, <2>10, ZenonT(30) DEF DataInv
  <2>12. ViewSize(s)' = ViewSize(s) /\ ViewSize(s) = sz[s]
    BY <1>0, <1>1, <1>2, <1>3, <2>2, <2>3, ViewSizeIs, SMTT(30)
  <2>13. \A v \in Page : v < ViewSize(s) => pt'[s][v] = pt[s][v]
    BY <2>5, <2>6, <2>9, <2>12, Zenon
  <2>14. Seen(s)' = Seen(s)
    BY <1>1, <2>12, <2>13, SeenSame, Zenon
  <2> QED  BY <1>0, <1>1, <1>2, <2>5, <2>11, <2>14, PathStep, Zenon
<1>5. CASE k' = [k EXCEPT ![s] = MapFail(s)] /\ UNCHANGED pt
  <2>1. k'[s] = [[r EXCEPT !.pc = "uvmunmap", !.op = FailOp(r.op), !.ra = "none", !.tgt = r.tgt,
                           !.base = r.base, !.pg = r.base, !.end = r.pg]
                   EXCEPT !.pc = "kfree", !.ra = "uvmunmap"]
    BY <1>0, <1>5, Zenon DEF MapFail, StartUnmap, MemInv, TypeOK
  <2>2. k'[s].pc = "kfree" /\ k'[s].ra = "uvmunmap" /\ k'[s].op = FailOp(r.op)
    BY <2>1, Zenon DEF Regs
  <2>3. r.op # "shrink" /\ k'[s].op # "shrink"
    BY <1>3, <2>2, Zenon DEF FailOp
  <2> QED  BY <1>0, <1>1, <1>2, <1>5, <2>2, <2>3, StartUnmapHidden, ZenonT(30)
<1> QED  BY <1>4, <1>5, Zenon DEF uvmalloc_map

(* uvmcowpy(): parent and child share a page, which the parent still sees. *)
LEMMA uvmcowpy_hidden ==
    ASSUME MemInv, MemInv', DataInvs, NEW s \in Space, uvmcowpy(s)
    PROVE  DataInvs' /\ View' = View
<1>0. PICK r \in Regs : r = k[s]
  BY KTyped, Zenon
<1>1. r.pc = "uvmcowpy" /\ r.pg < sz[s] /\ UNCHANGED <<mem, sz>> /\ \A t \in Space \ {s} : k'[t] = k[t]
  BY <1>0, Zenon DEF uvmcowpy, MemInv, TypeOK
<1>2. r.pc \notin Absent \cup {"zombie", "lost", "lost_zombie"} /\ Pc(s) = "uvmcowpy"
  BY <1>0, <1>1, Zenon DEF Absent, Pc
<1>3. sz[s] # 0 /\ DataInv(s) /\ r.op = "fork" /\ r.tgt \in Space /\ r.tgt # s
  BY <1>0, <1>2, KTyped, HasPages, ZenonT(30) DEF PathInv, LoopInv, RegsInv, NoPath, DupPc
<1>4. r.pg \in Page
  BY <1>1, CowAssumption, SMTT(30) DEF Regs, Page, MemInv, TypeOK
<1>5. PICK c \in Space : c = r.tgt /\ c # s
  BY <1>3, Zenon
<1>6. SharePte(pt[s][r.pg]).pa = pt[s][r.pg].pa
  <2>1. pt[s][r.pg] \in Pte
    BY <1>4, Zenon DEF MemInv, TypeOK
  <2> QED  BY <2>1, Zenon DEF SharePte, Pte
<1>7. ASSUME \/ pt' = [pt EXCEPT ![s][r.pg] = SharePte(pt[s][r.pg]), ![c][r.pg] = SharePte(pt[s][r.pg])]
             \/ pt' = [pt EXCEPT ![s][r.pg] = SharePte(pt[s][r.pg])],
             DataInv(s)', k'[s].op # "shrink", k'[s].pc \notin Absent \cup {"zombie", "lost", "lost_zombie"}
      PROVE  DataInvs' /\ View' = View
  <2>1. \A t \in Space : t # s /\ t # c => pt'[t] = pt[t]
    BY <1>7, Zenon DEF MemInv, TypeOK
  <2>2. pt'[s] = [pt[s] EXCEPT ![r.pg] = SharePte(pt[s][r.pg])]
    BY <1>5, <1>7, Zenon DEF MemInv, TypeOK
  <2>3. \A v \in Page : pt'[s][v].pa = pt[s][v].pa
    BY <1>4, <1>6, <2>2, Zenon DEF MemInv, TypeOK
  <2>4. ViewSize(s)' = ViewSize(s)
    BY <1>0, <1>1, <1>2, <1>3, <1>7, ViewSizeIs, Zenon
  <2>5. Seen(s)' = Seen(s)
    BY <1>1, <2>3, <2>4, SeenSame, Zenon
  <2> QED  BY <1>0, <1>1, <1>2, <1>5, <1>7, <2>1, <2>5, PathStep, Zenon
<1>8. CASE /\ pt' = [pt EXCEPT ![s][r.pg] = SharePte(pt[s][r.pg]), ![c][r.pg] = SharePte(pt[s][r.pg])]
           /\ k' = [k EXCEPT ![s].pg = @ + 1]
  <2>1. k'[s] = [r EXCEPT !.pg = r.pg + 1]
    BY <1>0, <1>8, Zenon DEF MemInv, TypeOK
  <2>2. k'[s].pc = "uvmcowpy" /\ k'[s].op = r.op /\ k'[s].tgt = c /\ k'[s].pg = r.pg + 1
    BY <1>1, <1>5, <2>1, ZenonT(30) DEF Regs
  <2>3. Pc(s)' = "uvmcowpy" /\ k'[s].pc \notin Absent \cup {"zombie", "lost", "lost_zombie"}
    BY <2>2, Zenon DEF Pc, Absent
  <2>4. \A v \in Page : v < r.pg + 1 => v < r.pg \/ v = r.pg
    BY DEF Page, Regs
  <2>5. \A v \in Page : v < r.pg => pt[c][v].pa = pt[s][v].pa
    BY <1>0, <1>2, <1>3, <1>5, Zenon DEF DataInv
  <2>6. /\ pt'[s][r.pg] = pt'[c][r.pg]
        /\ \A v \in Page : v # r.pg => pt'[s][v] = pt[s][v] /\ pt'[c][v] = pt[c][v]
    <3>0. PICK n \in Page : n = r.pg
      BY <1>4, Zenon
    <3>1. PICK e : pt' = [pt EXCEPT ![s][n] = e, ![c][n] = e]
      BY <1>8, <3>0, Zenon
    <3>2. pt'[s][n] = e /\ pt'[c][n] = e
      BY <1>5, <3>1, Zenon DEF MemInv, TypeOK
    <3>3. \A v \in Page : v # n => pt'[s][v] = pt[s][v] /\ pt'[c][v] = pt[c][v]
      BY <1>5, <3>1, Zenon DEF MemInv, TypeOK
    <3> QED  BY <3>0, <3>2, <3>3, Zenon
  <2>7. \A v \in Page : v < r.pg + 1 => pt'[c][v].pa = pt'[s][v].pa
    BY <2>4, <2>5, <2>6, Zenon
  <2>8. DataInv(s)'
    BY <1>1, <1>3, <2>2, <2>3, <2>7, ZenonT(30) DEF DataInv, AllocPc
  <2> QED  BY <1>3, <1>7, <1>8, <2>2, <2>3, <2>8, Zenon
<1>9. CASE pt' = [pt EXCEPT ![s][r.pg] = SharePte(pt[s][r.pg])] /\ k' = [k EXCEPT ![s] = CowpyErr(s, r.pg)]
  <2>1. k'[s] = [r EXCEPT !.pc = "uvmunmap", !.op = "fork_fail", !.ra = "none", !.tgt = r.tgt,
                          !.base = 0, !.pg = 0, !.end = r.pg]
    BY <1>0, <1>9, Zenon DEF CowpyErr, StartUnmap, MemInv, TypeOK
  <2>2. k'[s].pc = "uvmunmap" /\ k'[s].op = "fork_fail"
    BY <2>1, ZenonT(30) DEF Regs
  <2>3. Pc(s)' \in UnmapPc /\ k'[s].pc \notin Absent \cup {"zombie", "lost", "lost_zombie"}
    BY <2>2, Zenon DEF Pc, Absent, UnmapPc
  <2>4. DataInv(s)'
    BY <1>1, <1>3, <2>2, <2>3, UnmapData, Zenon
  <2> QED  BY <1>7, <1>9, <2>2, <2>3, <2>4, ZenonT(30)
<1> QED  BY <1>0, <1>5, <1>8, <1>9, Zenon DEF uvmcowpy

(* fork(), exec() and wait() take hold of a space that no program sees.    *)
LEMMA TakeSpace ==
    ASSUME MemInv, MemInv', DataInvs, NEW s \in Space, NEW c \in Space, c # s, k[s].pc = "user",
           UNCHANGED <<mem, pt, sz>>, ViewSize(c) = 0, k'[c].pc \in Absent,
           \A t \in Space \ {s, c} : k'[t] = k[t], DataInv(s)', ViewSize(s)' = sz[s]
    PROVE  DataInvs' /\ View' = View
<1>1. k[s].tgt = NoSpace /\ k[s].op = "none" /\ k[s].pc \notin Absent \cup {"zombie", "lost", "lost_zombie"}
  <2>1. k[s] = Idle("user")
    BY UserIdle, Zenon
  <2> QED  BY <2>1, IdleIs, ZenonT(30) DEF Absent
<1>2. Bystanders(s)
  BY <1>1, Zenon DEF Bystanders, Bystander
<1>3. k[s].tgt \notin Space
  BY <1>1, CowAssumption, Zenon
<1>4. ViewSize(s)' = ViewSize(s)
  BY <1>1, ViewSizeIs, Zenon
<1>5. Seen(s)' = Seen(s)
  BY <1>4, SeenSame, Zenon
<1> QED  BY <1>2, <1>3, <1>5, HiddenStep, Zenon

(* fork() and exec() begin: the space they build is not seen.              *)
LEMMA fork_exec_hidden ==
    ASSUME MemInv, MemInv', DataInvs, NEW s \in Space, NEW c \in Space \ {s}, fork(s, c) \/ exec(s, c)
    PROVE  DataInvs' /\ View' = View
<1>0. PICK r \in Regs : r = k[s]
  BY KTyped, Zenon
<1>1. /\ r.pc = "user" /\ k[c].pc = "none" /\ UNCHANGED <<mem, pt, sz>>
      /\ \A t \in Space \ {s, c} : k'[t] = k[t]
  BY <1>0, Zenon DEF fork, exec, MemInv, TypeOK
<1>2. PICK o \in {"fork", "exec"}, p \in {"uvmcowpy", "exec"} :
         /\ (o = "fork" <=> p = "uvmcowpy")
         /\ k' = [k EXCEPT ![s] = [@ EXCEPT !.pc = p, !.op = o, !.tgt = c], ![c].pc = "setup"]
  BY Zenon DEF fork, exec
<1>3. k'[s] = [r EXCEPT !.pc = p, !.op = o, !.tgt = c] /\ k'[c] = [k[c] EXCEPT !.pc = "setup"]
  BY <1>0, <1>2, Zenon DEF MemInv, TypeOK
<1>4. /\ k'[s].pc = p /\ k'[s].op = o /\ k'[s].tgt = c /\ k'[s].pg = r.pg /\ k'[s].seg = r.seg
      /\ k'[c].pc = "setup"
  BY <1>3, KTyped, ZenonT(30) DEF Regs
<1>5. r.op = "none" /\ r.pg = 0 /\ r.seg = 0
  <2>1. r = Idle("user")
    BY <1>0, <1>1, UserIdle, Zenon
  <2> QED  BY <2>1, Zenon DEF Idle
<1>6. Pc(s)' = p /\ k'[s].pc \notin Absent \cup {"zombie", "lost", "lost_zombie"} /\ k'[c].pc \in Absent /\ r.pc \notin Absent
  BY <1>1, <1>2, <1>4, Zenon DEF Pc, Absent
<1>7. sz[s] # 0
  BY <1>0, <1>6, HasPages, Zenon
<1>8. DataInv(s)'
  <2>1. \A v \in Page : ~(v < 0)
    BY DEF Page
  <2>2. p = "exec" => sz[c] = 0
    BY <1>1, KTyped, Zenon DEF PathInv, LoopInv, Pc
  <2> QED  BY <1>1, <1>2, <1>4, <1>5, <1>6, <1>7, <2>1, <2>2, ZenonT(30) DEF DataInv, AllocPc
<1>9. ViewSize(s)' = sz[s] /\ ViewSize(c) = 0
  BY <1>1, <1>2, <1>4, <1>6, ViewSizeIs, AbsentSeen, Zenon DEF Absent
<1> QED  BY <1>0, <1>1, <1>6, <1>8, <1>9, TakeSpace, Zenon

(* wait() begins to free the space of a zombie, which is not seen.         *)
LEMMA wait_hidden ==
    ASSUME MemInv, MemInv', DataInvs, NEW s \in Space, NEW c \in Space \ {s}, wait(s, c)
    PROVE  DataInvs' /\ View' = View
<1>0. PICK r \in Regs : r = k[s]
  BY KTyped, Zenon
<1>1. /\ r.pc = "user" /\ k[c].pc = "zombie" /\ UNCHANGED <<mem, pt, sz>>
      /\ \A t \in Space \ {s, c} : k'[t] = k[t]
  BY <1>0, Zenon DEF wait, MemInv, TypeOK
<1>2. /\ k'[s] = [r EXCEPT !.pc = "uvmunmap", !.op = "free", !.ra = "none", !.tgt = c,
                           !.base = 0, !.pg = 0, !.end = sz[c]]
      /\ k'[c] = [k[c] EXCEPT !.pc = "dead"]
  BY <1>0, Zenon DEF wait, StartUnmap, MemInv, TypeOK
<1>3. k'[s].pc = "uvmunmap" /\ k'[s].op = "free" /\ k'[c].pc = "dead"
  BY <1>2, KTyped, ZenonT(30) DEF Regs
<1>4. /\ Pc(s)' \in UnmapPc /\ k'[s].pc \notin Absent \cup {"zombie", "lost", "lost_zombie"}
      /\ k'[c].pc \in Absent /\ r.pc \notin Absent
  BY <1>1, <1>3, Zenon DEF Pc, Absent, UnmapPc
<1>5. DataInv(s)'
  BY <1>0, <1>1, <1>3, <1>4, HasPages, UnmapData, Zenon
<1>6. ViewSize(s)' = sz[s] /\ ViewSize(c) = 0
  BY <1>1, <1>3, <1>4, ViewSizeIs, AbsentSeen, Zenon
<1> QED  BY <1>0, <1>1, <1>4, <1>5, <1>6, TakeSpace, Zenon

(* A store that changes the page at s, w, which has no other reference.    *)
LEMMA StoreSeen ==
    ASSUME MemInv, NEW s \in Space, NEW w \in Page, w < ViewSize(s), ~pt[s][w].cow,
           NEW x, mem' = [mem EXCEPT ![pt[s][w].pa] = x], UNCHANGED pt, ViewSize(s)' = ViewSize(s)
    PROVE  /\ \A t \in Space \ {s}, v \in Page \cup {-1} :
                 Ref(<<t, v>>) \in Frame => mem'[Ref(<<t, v>>)] = mem[Ref(<<t, v>>)]
           /\ (\A t \in Space \ {s} : Seen(t)' = Seen(t)) => PM!Store(s, w, x)
<1>1. pt[s][w].pa \in Frame /\ Ref(<<s, w>>) = pt[s][w].pa /\ Own(<<s, w>>)
  BY SeenRef, OwnIs, Zenon
<1>2. \A t \in Space, v \in Page \cup {-1} :
         Ref(<<t, v>>) \in Frame /\ (t # s \/ v # w) => mem'[Ref(<<t, v>>)] = mem[Ref(<<t, v>>)]
  <2> SUFFICES ASSUME NEW t \in Space, NEW v \in Page \cup {-1}, Ref(<<t, v>>) \in Frame, t # s \/ v # w
               PROVE  mem'[Ref(<<t, v>>)] = mem[Ref(<<t, v>>)]
    BY Zenon
  <2>1. <<t, v>> \in Loc /\ <<s, w>> \in Loc /\ <<t, v>> # <<s, w>> /\ pt[s][w].pa # NoFrame
    BY <1>1, LocIs, CowAssumption, Zenon
  <2>2. Ref(<<t, v>>) # pt[s][w].pa
    BY <1>1, <2>1, Zenon DEF MemInv, Exclusive
  <2> QED  BY <2>2, Zenon DEF MemInv, TypeOK
<1>3. ASSUME \A t \in Space \ {s} : Seen(t)' = Seen(t)
      PROVE  PM!Store(s, w, x)
  <2>1. \A v \in Page : v < ViewSize(s) /\ v # w => mem'[pt'[s][v].pa] = mem[pt[s][v].pa]
    BY <1>2, SeenRef, Zenon
  <2>2. mem'[pt'[s][w].pa] = x
    BY <1>1, Zenon DEF MemInv, TypeOK
  <2>3. Seen(s)' = [Seen(s) EXCEPT ![w] = x]
    BY <2>1, <2>2, ZenonT(30) DEF Seen
  <2>4. View' = [View EXCEPT ![s][w] = x]
    BY <1>3, <2>3, Zenon DEF View
  <2>5. View[s][w] # NoData
    BY SeenData, Zenon DEF View
  <2> QED  BY <2>4, <2>5, Zenon DEF PM!Store
<1> QED  BY <1>2, <1>3, Zenon

(* A store by the program: the entry is writable, hence not shared, and    *)
(* only its own page changes.                                              *)
LEMMA UserStore_maps ==
    ASSUME MemInv, MemInv', DataInvs, NEW s \in Space, NEW a \in Addr, NEW x \in Value, UserStore(s, a, x)
    PROVE  DataInvs' /\ \E w \in Page : PM!Store(s, w, x)
<1>1. /\ k[s].pc = "user" /\ UNCHANGED <<freelist, count, pt, sz, k>> /\ Writable(PteAt(s, a))
      /\ mem' = [mem EXCEPT ![PteAt(s, a).pa] = x]
  BY Zenon DEF UserStore
<1>2. a # Far
  BY <1>1, Zenon DEF Writable, Valid, PteAt, NoPte
<1>3. PICK w \in Page : w = PageOf(a) /\ PteAt(s, a) = pt[s][w]
  BY <1>2, AddrPage, Zenon DEF PteAt
<1>4. Valid(pt[s][w]) /\ ~pt[s][w].cow
  BY <1>1, <1>3, Zenon DEF Writable, MemInv, CowReadOnly
<1>5. /\ k[s].op = "none" /\ k[s].pc \notin Absent \cup {"zombie", "lost", "lost_zombie"} /\ k[s].pc \in NoPath
      /\ w < sz[s]
  <2>1. k[s] = Idle("user") /\ w < sz[s]
    BY <1>1, <1>4, UserIdle, Zenon
  <2> QED  BY <1>1, <2>1, IdleIs, Zenon DEF Absent, NoPath
<1>6. ViewSize(s) = sz[s] /\ ViewSize(s)' = sz[s]
  BY <1>1, <1>5, ViewSizeIs, Zenon
<1>7. /\ \A t \in Space \ {s}, v \in Page \cup {-1} :
               Ref(<<t, v>>) \in Frame => mem'[Ref(<<t, v>>)] = mem[Ref(<<t, v>>)]
      /\ (\A t \in Space \ {s} : Seen(t)' = Seen(t)) => PM!Store(s, w, x)
  BY <1>1, <1>3, <1>4, <1>5, <1>6, StoreSeen, Zenon
<1>8. DataInv(s)'
  BY <1>1, <1>5, HasPages, AbsentData, Zenon
<1>9. DataInvs' /\ \A t \in Space \ {s} : Seen(t)' = Seen(t)
  BY <1>1, <1>5, <1>7, <1>8, PathStep, Zenon
<1> QED  BY <1>7, <1>9, Zenon

(* copyout() after dup_pg(): the page is not shared, and the copy changes  *)
(* what one program sees of one page; or it fails and changes nothing.     *)
LEMMA copyout_ret_maps ==
    ASSUME MemInv, MemInv', DataInvs, NEW s \in Space, copyout_ret(s)
    PROVE  DataInvs' /\ ((\E w \in Page, x \in Value : PM!Store(s, w, x)) \/ View' = View)
<1>0. PICK r \in Regs : r = k[s]
  BY KTyped, Zenon
<1>1. /\ r.pc = "dup_ret" /\ r.op = "copyout" /\ UNCHANGED <<pt, sz>> /\ r.val \in Value
      /\ \A t \in Space \ {s} : k'[t] = k[t]
  <2>1. r.val \in Value
    BY Zenon DEF Regs
  <2>2. \A t \in Space \ {s} : k'[t] = k[t]
    BY Zenon DEF copyout_ret, MemInv, TypeOK
  <2> QED  BY <1>0, <2>1, <2>2, Zenon DEF copyout_ret
<1>2. r.pc \notin Absent \cup {"zombie", "lost", "lost_zombie"} /\ Pc(s) = "dup_ret"
  BY <1>0, <1>1, Zenon DEF Absent, Pc
<1>3. CASE k' = [k EXCEPT ![s] = Idle("user")] /\ UNCHANGED mem
  <2>1. k'[s] = Idle("user")
    BY <1>3, Zenon DEF MemInv, TypeOK
  <2> QED  BY <1>0, <1>1, <1>2, <1>3, <2>1, EndData, RegsStep, ZenonT(30)
<1>4. CASE /\ r.ret >= 0 /\ Valid(DupPte(s)) /\ mem' = [mem EXCEPT ![DupPte(s).pa] = r.val]
           /\ \/ k' = [k EXCEPT ![s] = Idle("user")]
              \/ k' = [k EXCEPT ![s] = [@ EXCEPT !.pc = "dup_pg", !.ra = "none", !.addr = r.addr + PGSIZE]]
  <2>1. r.ret = 0
    BY <1>4 DEF Regs
  <2>2. ~DupPte(s).cow
    BY <1>0, <1>2, <2>1, HasPages, Zenon DEF DataInv
  <2>3. PICK w \in Page : w = PageOf(r.addr) /\ DupPte(s) = pt[s][w] /\ w < ViewSize(s)
    BY <1>0, <1>2, <1>4, DupRef, Zenon DEF DupPc
  <2>4. DataInv(s)' /\ ViewSize(s)' = ViewSize(s)
    <3>1. CASE k' = [k EXCEPT ![s] = Idle("user")]
      <4>1. k'[s] = Idle("user")
        BY <3>1, Zenon DEF MemInv, TypeOK
      <4> QED  BY <1>0, <1>1, <1>2, <4>1, EndData, Zenon
    <3>2. CASE k' = [k EXCEPT ![s] = [@ EXCEPT !.pc = "dup_pg", !.ra = "none", !.addr = r.addr + PGSIZE]]
      <4>1. k'[s] = [r EXCEPT !.pc = "dup_pg", !.ra = "none", !.addr = r.addr + PGSIZE]
        BY <1>0, <3>2, Zenon DEF MemInv, TypeOK
      <4>2. k'[s].pc = "dup_pg" /\ k'[s].op = r.op
        BY <4>1, ZenonT(30) DEF Regs
      <4>3. k'[s].pc \notin Absent \cup {"zombie", "lost", "lost_zombie"} /\ Pc(s)' = "dup_pg"
        BY <4>2, Zenon DEF Absent, Pc
      <4>4. DataInv(s)'
        BY <1>0, <1>1, <1>2, <4>2, <4>3, HasPages, DupData, Zenon DEF DupPc
      <4>5. ViewSize(s)' = ViewSize(s)
        BY <1>0, <1>1, <1>2, <4>2, <4>3, ViewSizeIs, Zenon
      <4> QED  BY <4>4, <4>5, Zenon
    <3> QED  BY <1>4, <3>1, <3>2, Zenon
  <2>5. /\ \A t \in Space \ {s}, v \in Page \cup {-1} :
               Ref(<<t, v>>) \in Frame => mem'[Ref(<<t, v>>)] = mem[Ref(<<t, v>>)]
        /\ (\A t \in Space \ {s} : Seen(t)' = Seen(t)) => PM!Store(s, w, r.val)
    BY <1>1, <1>4, <2>2, <2>3, <2>4, StoreSeen, Zenon
  <2>6. DataInvs' /\ \A t \in Space \ {s} : Seen(t)' = Seen(t)
    BY <1>0, <1>1, <1>2, <2>4, <2>5, PathStep, Zenon
  <2> QED  BY <1>1, <2>5, <2>6, Zenon
<1> QED  BY <1>0, <1>3, <1>4, Zenon DEF copyout_ret

=============================================================================
