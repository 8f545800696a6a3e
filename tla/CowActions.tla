----------------------------- MODULE CowActions -----------------------------
(***************************************************************************)
(* The actions of CowMemory preserve MemInv: those that move a page        *)
(* between the free list, a kernel path and a page table (dup_pg(),        *)
(* uvmalloc(), uvmunmap() and uvmcowpy()) and those that begin, complete   *)
(* or free an address space (sbrk(), exec(), fork() and wait()). The first *)
(* state satisfies MemInv, and MemInv implies WritableExclusive and        *)
(* NoPanic.                                                                *)
(***************************************************************************)
EXTENDS CowPaths

(* kalloc(): the path of s gets a page of its own.                         *)
LEMMA GainPath ==
    ASSUME RefsCountable, MemInv, NEW s \in Space, NEW f \in freelist, NEW x \in Content, kalloc(f, x),
           NEW q \in Regs, k' = [k EXCEPT ![s] = q], UNCHANGED <<pt, sz>>,
           k[s].pc \notin {"none", "setup", "dead", "lost", "lost_zombie"}, q.pc \notin {"none", "setup", "dead", "lost", "lost_zombie"},
           k[s].pa = NoFrame, q.pa = f, q.tgt = k[s].tgt, q.ra = k[s].ra, q.pg = k[s].pg,
           PathInv(s)', \A v \in Page : q.tgt # NoSpace => (Built(s, v)' <=> Built(s, v))
    PROVE  MemInv'
<1>1. k'[s] = q /\ (\A t \in Space \ {s} : k'[t] = k[t]) /\ f \in Frame
  BY Zenon DEF MemInv, TypeOK
<1>2. TypeOK'
  <2>1. freelist' \subseteq Frame /\ count' \in [Frame -> Nat] /\ mem' \in [Frame -> Content]
    BY <1>1, Zenon DEF kalloc, MemInv, TypeOK
  <2> QED  BY <2>1, Zenon DEF MemInv, TypeOK
<1>3. OneWorker' /\ PagesMapped' /\ \A t \in Space : PathInv(t)'
  <2>1. \A v \in Page : q.tgt # NoSpace => (Valid(pt[q.tgt][v]) <=> Built(s, v))
    BY Zenon DEF MemInv, PagesMapped
  <2> QED  BY <1>1, <2>1, OneStep, Zenon
<1>4. RefInv'
  <2>1. \A l \in Loc \ {<<s, -1>>} : Ref(l)' = Ref(l) /\ (Own(l)' => Own(l))
    BY <1>1, PathRefsOnly, Zenon DEF SameRelease
  <2>2. <<s, -1>> \in Loc /\ Ref(<<s, -1>>) = NoFrame /\ Ref(<<s, -1>>)' = f
    BY <1>1, LocIs, RefIs, Zenon
  <2> QED  BY <2>1, <2>2, RefGain, CowAssumption, Zenon DEF kalloc, MemInv, TypeOK, RefInv
<1>5. CowReadOnly'
  BY Zenon DEF MemInv, CowReadOnly
<1> QED  BY <1>2, <1>3, <1>4, <1>5, Zenon DEF MemInv, RefInv

(* dup_pg() returns early, or allocates the page of the copy.              *)
LEMMA dup_pg_keeps ==
    ASSUME RefsCountable, MemInv, NEW s \in Space, dup_pg(s)
    PROVE  MemInv'
<1>0. PICK r \in Regs : r = k[s]
  BY KTyped, Zenon
<1>1. /\ r.pc = "dup_pg" /\ r.pa = NoFrame /\ r.tgt = NoSpace /\ r.ra # "clear"
      /\ r.op \in {"trap", "copyout"} /\ UNCHANGED <<pt, sz>>
  BY <1>0, DupRegs, Zenon DEF dup_pg, DupPc
<1>2. ASSUME NEW x \in {-2, -1, 0}, k' = [k EXCEPT ![s].pc = "dup_ret", ![s].ret = x],
             UNCHANGED <<freelist, count, mem>>
      PROVE  MemInv'
  <2>1. PICK q : q = [r EXCEPT !.pc = "dup_ret", !.ret = x]
    BY Zenon
  <2>2. q \in Regs /\ q.pc = "dup_ret" /\ q.ra = r.ra /\ q.tgt = r.tgt /\ q.pa = r.pa /\ q.op = r.op
    BY <2>1, Zenon DEF Regs
  <2>3. k' = [k EXCEPT ![s] = q] /\ k'[s] = q
    BY <1>0, <1>2, <2>1, Zenon DEF MemInv, TypeOK
  <2>4. RegsInv(s)'
    BY <1>1, <2>2, <2>3, Zenon DEF RegsInv, Pc, NoPath, DupPc
  <2>5. LoopInv(s)' /\ DupInv(s)'
    BY <1>1, <2>2, <2>3, Zenon DEF LoopInv, DupInv, Pc, UnmapPc, AllocPc, FreeOps
  <2> QED  BY <1>0, <1>1, <1>2, <2>2, <2>3, <2>4, <2>5, QuietPath, Zenon
              DEF PathInv, OwnPc, SameRelease, MemInv, TypeOK
<1>3. ASSUME DupCheck(r.addr, DupPte(s)) = 1, NEW f \in freelist, kalloc(f, Junk),
             k' = [k EXCEPT ![s].pc = "memmove", ![s].pa = f]
      PROVE  MemInv'
  <2>1. PICK q : q = [r EXCEPT !.pc = "memmove", !.pa = f]
    BY Zenon
  <2>2. f \in Frame /\ Junk \in Content
    BY Zenon DEF MemInv, TypeOK, Content
  <2>3. /\ q \in Regs /\ q.pc = "memmove" /\ q.ra = r.ra /\ q.tgt = r.tgt /\ q.pa = f /\ q.op = r.op
        /\ q.addr = r.addr /\ q.pg = r.pg
    BY <2>1, <2>2, Zenon DEF Regs
  <2>4. k' = [k EXCEPT ![s] = q] /\ k'[s] = q
    BY <1>0, <1>3, <2>1, Zenon DEF MemInv, TypeOK
  <2>5. RegsInv(s)'
    BY <1>1, <2>2, <2>3, <2>4, CowAssumption, Zenon DEF RegsInv, Pc, NoPath, DupPc
  <2>6. LoopInv(s)'
    BY <1>1, <2>3, <2>4, Zenon DEF LoopInv, Pc, UnmapPc, AllocPc, FreeOps
  <2>7. DupInv(s)'
    BY <1>0, <1>1, <1>3, <2>3, <2>4 DEF DupInv, DupPte, PteAt
  <2> QED  BY <1>0, <1>1, <1>3, <2>2, <2>3, <2>4, <2>5, <2>6, <2>7, GainPath, Zenon DEF PathInv
<1> QED  BY <1>0, <1>2, <1>3, Zenon DEF dup_pg, DupCheck

(* A failing uvmalloc() starts to unmap what it has mapped.                *)
LEMMA AllocFails ==
    ASSUME RefsCountable, MemInv, NEW s \in Space, k[s].pc \in AllocPc,
           UNCHANGED <<freelist, count, mem, pt, sz>>,
           \/ /\ k[s].pc = "uvmalloc"
              /\ k' = [k EXCEPT ![s] = StartUnmap(s, FailOp(k[s].op), k[s].tgt, k[s].base, k[s].pg)]
           \/ k[s].pc = "mappages" /\ k' = [k EXCEPT ![s] = MapFail(s)]
    PROVE  MemInv'
<1>0. PICK r \in Regs : r = k[s]
  BY KTyped, Zenon
<1>1. /\ r.tgt \in Space /\ r.ra # "clear"
      /\ r.pc = "uvmalloc" => r.pa = NoFrame
      /\ r.pc = "mappages" => r.pa \in Frame
      /\ r.base = sz[r.tgt] /\ r.base <= r.pg /\ r.pg <= r.end
      /\ (r.op = "grow" /\ r.tgt = s) \/ (r.op = "exec" /\ r.tgt # s)
      /\ \A v \in Page : Valid(pt[r.tgt][v]) <=> v < r.pg
  BY <1>0, AllocRegs, Zenon
<1>10. PICK u : u = [r EXCEPT !.pc = "uvmunmap", !.op = FailOp(r.op), !.ra = "none", !.tgt = r.tgt,
                             !.base = r.base, !.pg = r.base, !.end = r.pg]
  BY Zenon
<1>2. PICK q : /\ k' = [k EXCEPT ![s] = q] /\ k'[s] = q
               /\ \/ r.pc = "uvmalloc" /\ q = u
                  \/ r.pc = "mappages" /\ q = [u EXCEPT !.pc = "kfree", !.ra = "uvmunmap"]
  BY <1>0, <1>10, Zenon DEF MemInv, TypeOK, StartUnmap, MapFail
<1>3. /\ q \in Regs /\ q.tgt = r.tgt /\ q.pa = r.pa /\ q.base = r.base /\ q.pg = r.base /\ q.end = r.pg
      /\ q.op = FailOp(r.op)
      /\ \/ r.pc = "uvmalloc" /\ q.pc = "uvmunmap" /\ q.ra = "none"
         \/ r.pc = "mappages" /\ q.pc = "kfree" /\ q.ra = "uvmunmap"
  <2>1. FailOp(r.op) \in {"grow_fail", "exec_fail"}
    BY Zenon DEF FailOp
  <2>4. /\ u \in Regs /\ u.tgt = r.tgt /\ u.pa = r.pa /\ u.base = r.base /\ u.pg = r.base /\ u.end = r.pg
        /\ u.op = FailOp(r.op) /\ u.pc = "uvmunmap" /\ u.ra = "none"
    BY <1>10, <2>1, Zenon DEF Regs
  <2>2. CASE r.pc = "uvmalloc"
    BY <1>2, <2>2, <2>4, Zenon
  <2>3. CASE r.pc = "mappages"
    <3>1. q = [u EXCEPT !.pc = "kfree", !.ra = "uvmunmap"]
      BY <1>2, <2>3, Zenon
    <3>2. /\ q \in Regs /\ q.tgt = u.tgt /\ q.pa = u.pa /\ q.base = u.base /\ q.pg = u.pg /\ q.end = u.end
          /\ q.op = u.op /\ q.pc = "kfree" /\ q.ra = "uvmunmap"
      BY <3>1, <2>4, Zenon DEF Regs
    <3> QED  BY <2>3, <2>4, <3>2, Zenon
  <2> QED  BY <1>0, <2>2, <2>3, Zenon DEF AllocPc
<1>4. r.base \in Nat /\ r.pg \in Nat
  BY DEF Regs
<1>5. /\ PathInv(s)'
      /\ \A v \in Page : Built(s, v)' <=> (v < r.base \/ (r.base <= v /\ v < r.pg))
  BY <1>1, <1>2, <1>3, <1>4, UnmapPath, CowAssumption, SMTT(30) DEF FailOp
<1>6. \A v \in Page : Valid(pt[q.tgt][v]) <=> Built(s, v)'
  BY <1>1, <1>3, <1>4, <1>5 DEF Page
<1>7. SameRelease(s)
  BY <1>0, <1>1, <1>2, <1>3, Zenon DEF SameRelease
<1>8. /\ k[s].pc \notin {"none", "setup", "dead", "lost", "lost_zombie"} /\ q.pc \notin {"none", "setup", "dead", "lost", "lost_zombie"} \cup OwnPc
      /\ q.pa = k[s].pa /\ q.tgt = k[s].tgt /\ q.tgt # NoSpace /\ mem' \in [Frame -> Content]
  BY <1>0, <1>1, <1>3, CowAssumption, Zenon DEF OwnPc, MemInv, TypeOK
<1> QED  BY <1>2, <1>3, <1>5, <1>6, <1>7, <1>8, QuietPath, Zenon

(* uvmalloc() allocates a page, or is out of memory and unmaps.            *)
LEMMA uvmalloc_keeps ==
    ASSUME RefsCountable, MemInv, NEW s \in Space, uvmalloc(s)
    PROVE  MemInv'
<1>0. PICK r \in Regs : r = k[s]
  BY KTyped, Zenon
<1>1. r.pc = "uvmalloc" /\ r.pg < r.end /\ UNCHANGED <<pt, sz>> /\ k[s].pc \in AllocPc
  BY <1>0, Zenon DEF uvmalloc, AllocPc
<1>2. ASSUME NEW f \in freelist, kalloc(f, Zero), k' = [k EXCEPT ![s].pc = "mappages", ![s].pa = f]
      PROVE  MemInv'
  <2>1. PICK q : q = [r EXCEPT !.pc = "mappages", !.pa = f]
    BY Zenon
  <2>2. f \in Frame /\ Zero \in Content
    BY CowAssumption, Zenon DEF MemInv, TypeOK, Content
  <2>3. /\ q \in Regs /\ q.pc = "mappages" /\ q.ra = r.ra /\ q.tgt = r.tgt /\ q.pa = f /\ q.op = r.op
        /\ q.pg = r.pg /\ q.base = r.base /\ q.end = r.end /\ q.seg = r.seg
    BY <2>1, <2>2, Zenon DEF Regs
  <2>4. k' = [k EXCEPT ![s] = q] /\ k'[s] = q
    BY <1>0, <1>2, <2>1, Zenon DEF MemInv, TypeOK
  <2>5. /\ r.tgt \in Space /\ r.ra # "clear" /\ r.pa = NoFrame
        /\ r.base = sz[r.tgt] /\ r.base <= r.pg /\ r.pg <= r.end
        /\ (r.op = "grow" /\ r.tgt = s) \/ (r.op = "exec" /\ r.tgt # s /\ r.seg # 0)
        /\ \A v \in Page : Built(s, v) <=> v < r.pg
    BY <1>0, <1>1, AllocRegs, Zenon
  <2>6. RegsInv(s)'
    BY <2>2, <2>3, <2>4, <2>5, CowAssumption, Zenon DEF RegsInv, Pc, NoPath, DupPc
  <2>7. LoopInv(s)' /\ DupInv(s)'
    BY <1>1, <2>3, <2>4, <2>5 DEF LoopInv, DupInv, Pc, UnmapPc, AllocPc, FreeOps
  <2>8. \A v \in Page : Built(s, v)' <=> Built(s, v)
    BY <2>3, <2>4, <2>5, Zenon DEF Built, Pc, UnmapPc
  <2> QED  BY <1>0, <1>1, <1>2, <2>2, <2>3, <2>4, <2>5, <2>6, <2>7, <2>8, GainPath, Zenon DEF PathInv
<1>3. CASE /\ k' = [k EXCEPT ![s] = StartUnmap(s, FailOp(k[s].op), k[s].tgt, k[s].base, k[s].pg)]
           /\ UNCHANGED <<freelist, count, mem>>
  BY <1>0, <1>1, <1>3, AllocFails, Zenon
<1> QED  BY <1>2, <1>3, Zenon DEF uvmalloc

(* Only the path that works for a space releases its entries.              *)
LEMMA NotReleased ==
    ASSUME MemInv, NEW s \in Space, NEW t \in Space, k[s].ra # "clear",
           k[s].tgt = t \/ (k[t].pc \notin {"setup", "dead"} /\ t = s)
    PROVE  \A v : ~Released(t, v)
  BY CowAssumption, Zenon DEF MemInv, OneWorker, Released

(* A step of path s that changes its registers and entry (t, v), and swaps *)
(* the references of the two.                                              *)
LEMMA SwapRefs ==
    ASSUME RefsCountable, MemInv, NEW s \in Space, NEW t \in Space, NEW v \in Page,
           \A u \in Space \ {s} : k'[u] = k[u],
           \A u \in Space, w \in Page : <<u, w>> # <<t, v>> => pt'[u][w] = pt[u][w]
                                                       /\ (Released(u, w)' <=> Released(u, w)),
           UNCHANGED <<freelist, count>>,
           k'[s].pa = Ref(<<t, v>>), Ref(<<t, v>>)' = k[s].pa, k'[s].pc \notin OwnPc,
           Ref(<<t, v>>)' # NoFrame => k[s].pc \in OwnPc
    PROVE  RefInv'
<1> DEFINE x == <<s, -1>>
           y == <<t, v>>
<1>1. /\ x \in Loc /\ y \in Loc /\ x # y /\ Ref(x)' = Ref(y) /\ Ref(y)' = Ref(x)
      /\ ~Own(x)' /\ (Ref(y)' # NoFrame => Own(x))
  BY LocIs, RefIs, OwnIs
<1>2. ASSUME NEW l \in Loc \ {x, y}
      PROVE  Ref(l)' = Ref(l) /\ (Own(l)' => Own(l))
  <2>1. CASE l[2] = -1
    BY <2>1, LocIs, RefIs, OwnIs, SMTT(30)
  <2>2. CASE l[2] # -1
    <3>1. PICK u \in Space, w \in Page : l = <<u, w>> /\ <<u, w>> # <<t, v>>
      BY <2>2, LocIs
    <3>2. pt'[u][w] = pt[u][w] /\ (Released(u, w)' <=> Released(u, w))
      BY <3>1, Zenon
    <3> QED  BY <3>1, <3>2, RefIs, OwnIs
  <2> QED  BY <2>1, <2>2, Zenon
<1> HIDE DEF x, y
<1> QED  BY <1>1, <1>2, RefSwap, Zenon DEF MemInv, RefInv

(* dup_pg() maps the copy; the old page is left for kfree().               *)
LEMMA dup_setpte_keeps ==
    ASSUME RefsCountable, MemInv, NEW s \in Space, dup_setpte(s)
    PROVE  MemInv'
<1>0. PICK r \in Regs : r = k[s]
  BY KTyped, Zenon
<1>1. /\ r.pc = "setpte" /\ r.pa \in Frame /\ r.tgt = NoSpace /\ r.ra # "clear" /\ PathInv(s)
      /\ r.op \in {"trap", "copyout"} /\ UNCHANGED <<freelist, count, mem, sz>>
  BY <1>0, DupRegs, Zenon DEF dup_setpte, DupPc
<1>2. Valid(DupPte(s))
  BY <1>0, <1>1 DEF PathInv, DupInv, DupCheck
<1>3. PICK v \in Page, f \in Frame : v = PageOf(r.addr) /\ f = pt[s][v].pa /\ DupPte(s).pa = f
  BY <1>0, <1>2, DupPteIs, Zenon
<1>4. PICK q : q = [r EXCEPT !.pc = "kfree", !.ra = "dup_ret", !.pa = f, !.ret = 0]
  BY Zenon
<1>5. q \in Regs /\ q.pc = "kfree" /\ q.ra = "dup_ret" /\ q.pa = f /\ q.tgt = r.tgt /\ q.op = r.op
  BY <1>4, Zenon DEF Regs
<1>6. k' = [k EXCEPT ![s] = q] /\ k'[s] = q /\ \A t \in Space \ {s} : k'[t] = k[t]
  BY <1>0, <1>3, <1>4, Zenon DEF dup_setpte, MemInv, TypeOK
<1>7. PICK e \in Pte : e.pa = r.pa /\ ~e.cow /\ pt' = [pt EXCEPT ![s][v] = e]
  <2>1. DupNewPte(s) \in Pte /\ DupNewPte(s).pa = r.pa /\ ~DupNewPte(s).cow
    BY <1>0, <1>1, Zenon DEF DupNewPte, Pte
  <2> QED  BY <1>0, <1>3, <2>1, Zenon DEF dup_setpte
<1>8. /\ pt' \in [Space -> [Page -> Pte]] /\ pt'[s][v] = e
      /\ \A t \in Space, w \in Page : <<t, w>> # <<s, v>> => pt'[t][w] = pt[t][w]
  BY <1>7, Zenon DEF MemInv, TypeOK
<1>9. TypeOK'
  BY <1>1, <1>5, <1>6, <1>8, Zenon DEF MemInv, TypeOK
<1>10. PathInv(s)'
  <2>1. RegsInv(s)'
    BY <1>1, <1>5, <1>6, CowAssumption, Zenon DEF RegsInv, Pc, NoPath, DupPc
  <2>2. LoopInv(s)' /\ DupInv(s)'
    BY <1>1, <1>5, <1>6, Zenon DEF LoopInv, DupInv, Pc, UnmapPc, AllocPc, FreeOps
  <2> QED  BY <2>1, <2>2, Zenon DEF PathInv
<1>11. OneWorker' /\ PagesMapped' /\ \A t \in Space : PathInv(t)'
  <2>1. \A t \in Space, w \in Page : Valid(pt'[t][w]) <=> Valid(pt[t][w])
    <3>1. Valid(pt'[s][v]) /\ Valid(pt[s][v])
      BY <1>1, <1>3, <1>7, <1>8, CowAssumption DEF Valid
    <3> QED  BY <1>8, <3>1, Zenon
  <2>2. \A t \in Space \ {s}, w \in Page : pt'[t][w] = pt[t][w]
    BY <1>8, Zenon
  <2> QED  BY <1>0, <1>1, <1>5, <1>6, <1>10, <2>1, <2>2, OneStep, SMTT(30)
<1>12. RefInv'
  <2>1. SameRelease(s)
    BY <1>0, <1>1, <1>5, <1>6, Zenon DEF SameRelease
  <2>2. \A t, w : Released(t, w)' <=> Released(t, w)
    BY <1>6, <2>1, PathRefs, Zenon
  <2>3. ~Released(s, v) /\ ~Released(s, v)'
    BY <1>0, <1>1, <2>2, NotReleased, Zenon
  <2>4. k'[s].pa = Ref(<<s, v>>) /\ Ref(<<s, v>>)' = k[s].pa
    BY <1>0, <1>3, <1>5, <1>6, <1>7, <1>8, <2>3, RefIs, SMTT(30)
  <2> QED  BY <1>0, <1>1, <1>5, <1>6, <1>8, <2>2, <2>4, SwapRefs, SMTT(30) DEF OwnPc
<1>13. CowReadOnly'
  BY <1>7, <1>8, Zenon DEF MemInv, CowReadOnly
<1> QED  BY <1>9, <1>11, <1>12, <1>13, Zenon DEF MemInv, RefInv

(* uvmunmap() passes the page of an entry to kfree() while the entry still *)
(* names it.                                                               *)
LEMMA uvmunmap_keeps ==
    ASSUME RefsCountable, MemInv, NEW s \in Space, uvmunmap(s)
    PROVE  MemInv'
<1>0. PICK r \in Regs : r = k[s]
  BY KTyped, Zenon
<1>1. /\ r.pc = "uvmunmap" /\ r.pg < r.end /\ UNCHANGED <<freelist, count, mem, pt, sz>>
      /\ k[s].pc \in UnmapPc
  BY <1>0, Zenon DEF uvmunmap, UnmapPc
<1>2. /\ r.tgt \in Space /\ r.pa = NoFrame /\ r.ra # "clear" /\ r.base <= r.pg
      /\ \/ r.op = "shrink" /\ r.tgt = s
         \/ r.op = "grow_fail" /\ r.tgt = s /\ r.base = sz[r.tgt]
         \/ r.op = "exec_fail" /\ r.tgt # s /\ r.base = sz[r.tgt]
         \/ r.op \in FreeOps /\ r.tgt # s /\ r.base = 0
      /\ \A v \in Page : Valid(pt[r.tgt][v]) <=> (v < r.base \/ (r.pg <= v /\ v < r.end))
  BY <1>0, <1>1, UnmapRegs, Zenon
<1>3. r.pg \in Page /\ r.base \in Nat /\ r.end \in Nat
  BY <1>1, CowAssumption DEF Regs, Page
<1>4. PICK v \in Page, f \in Frame : v = r.pg /\ f = pt[r.tgt][v].pa
  <2>1. Valid(pt[r.tgt][r.pg])
    BY <1>1, <1>2, <1>3 DEF Page
  <2>2. pt[r.tgt][r.pg] \in Pte
    BY <1>2, <1>3, Zenon DEF MemInv, TypeOK
  <2> QED  BY <1>3, <2>1, <2>2, Zenon DEF Pte, Valid
<1>5. PICK q : q = [r EXCEPT !.pc = "kfree", !.ra = "clear", !.pa = f]
  BY Zenon
<1>6. /\ q \in Regs /\ q.pc = "kfree" /\ q.ra = "clear" /\ q.pa = f /\ q.tgt = r.tgt /\ q.op = r.op
      /\ q.pg = r.pg /\ q.base = r.base /\ q.end = r.end
  BY <1>5, Zenon DEF Regs
<1>7. k' = [k EXCEPT ![s] = q] /\ k'[s] = q /\ \A t \in Space \ {s} : k'[t] = k[t]
  BY <1>0, <1>4, <1>5, Zenon DEF uvmunmap, MemInv, TypeOK
<1>8. TypeOK'
  BY <1>1, <1>6, <1>7, Zenon DEF MemInv, TypeOK
<1>9. Pc(s)' = "clear" /\ PathInv(s)'
  <2>1. Pc(s)' = "clear"
    BY <1>6, <1>7, Zenon DEF Pc
  <2>2. RegsInv(s)'
    BY <1>2, <1>6, <1>7, <2>1, CowAssumption, Zenon DEF RegsInv, NoPath, DupPc
  <2>3. r.pg <= r.end
    BY <1>1, <1>3 DEF Page
  <2>4. LoopInv(s)'
    BY <1>1, <1>2, <1>6, <1>7, <2>1, <2>3, ZenonT(30) DEF LoopInv, UnmapPc, AllocPc, FreeOps
  <2> QED  BY <1>6, <1>7, <2>1, <2>2, <2>4, Zenon DEF PathInv, DupInv
<1>10. OneWorker' /\ PagesMapped' /\ \A t \in Space : PathInv(t)'
  <2>1. \A w \in Page : Valid(pt'[q.tgt][w]) <=> Built(s, w)'
    BY <1>1, <1>2, <1>6, <1>7, <1>9, Zenon DEF Built, UnmapPc
  <2> QED  BY <1>0, <1>1, <1>2, <1>6, <1>7, <1>9, <2>1, OneStep, CowAssumption, SMTT(30)
<1>11. RefInv'
  <2>1. ~Released(r.tgt, v) /\ Released(r.tgt, v)'
    <3>1. Released(r.tgt, v)'
      BY <1>4, <1>6, <1>7, ZenonT(30) DEF Released
    <3> QED  BY <1>0, <1>2, <3>1, NotReleased, Zenon
  <2>2. \A u \in Space, w \in Page : <<u, w>> # <<r.tgt, v>> => (Released(u, w)' <=> Released(u, w))
    BY <1>0, <1>2, <1>4, <1>6, <1>7, SMTT(30) DEF Released
  <2>3. k'[s].pa = Ref(<<r.tgt, v>>) /\ Ref(<<r.tgt, v>>)' = k[s].pa /\ k[s].pa = NoFrame
    BY <1>0, <1>2, <1>4, <1>6, <1>7, <2>1, RefIs, SMTT(30)
  <2> QED  BY <1>1, <1>2, <1>6, <1>7, <2>2, <2>3, SwapRefs, SMTT(30) DEF OwnPc
<1>12. CowReadOnly'
  BY <1>1, Zenon DEF MemInv, CowReadOnly
<1> QED  BY <1>8, <1>10, <1>11, <1>12, Zenon DEF MemInv, RefInv

(* uvmunmap() clears the entry after kfree().                              *)
LEMMA uvmunmap_clear_keeps ==
    ASSUME RefsCountable, MemInv, NEW s \in Space, uvmunmap_clear(s)
    PROVE  MemInv'
<1>0. PICK r \in Regs : r = k[s]
  BY KTyped, Zenon
<1>1. /\ r.pc = "clear" /\ UNCHANGED <<freelist, count, mem, sz>> /\ k[s].pc \in UnmapPc
  BY <1>0, Zenon DEF uvmunmap_clear, UnmapPc
<1>2. /\ r.tgt \in Space /\ r.pa = NoFrame /\ r.ra = "clear" /\ r.base <= r.pg /\ r.pg < r.end
      /\ \/ r.op = "shrink" /\ r.tgt = s
         \/ r.op = "grow_fail" /\ r.tgt = s /\ r.base = sz[r.tgt]
         \/ r.op = "exec_fail" /\ r.tgt # s /\ r.base = sz[r.tgt]
         \/ r.op \in FreeOps /\ r.tgt # s /\ r.base = 0
      /\ \A v \in Page : Valid(pt[r.tgt][v]) <=> (v < r.base \/ (r.pg <= v /\ v < r.end))
  BY <1>0, <1>1, UnmapRegs, Zenon
<1>3. r.pg \in Page /\ r.base \in Nat /\ r.end \in Nat /\ r.pg + 1 \in 0 .. NPAGES /\ r.base <= r.pg + 1
      /\ r.pg + 1 <= r.end
  BY <1>2, CowAssumption DEF Regs, Page
<1>4. PICK v \in Page, n \in 0 .. NPAGES : v = r.pg /\ n = r.pg + 1
  BY <1>3, Zenon
<1>5. PICK q : q = [r EXCEPT !.pc = "uvmunmap", !.ra = "none", !.pg = n]
  BY Zenon
<1>6. /\ q \in Regs /\ q.pc = "uvmunmap" /\ q.ra = "none" /\ q.pa = r.pa /\ q.tgt = r.tgt /\ q.op = r.op
      /\ q.pg = n /\ q.base = r.base /\ q.end = r.end
  BY <1>5, Zenon DEF Regs
<1>7. k' = [k EXCEPT ![s] = q] /\ k'[s] = q /\ \A t \in Space \ {s} : k'[t] = k[t]
  BY <1>0, <1>4, <1>5, Zenon DEF uvmunmap_clear, MemInv, TypeOK
<1>8. /\ NoPte \in Pte /\ pt' \in [Space -> [Page -> Pte]] /\ pt'[r.tgt][v] = NoPte
      /\ \A t \in Space, w \in Page : <<t, w>> # <<r.tgt, v>> => pt'[t][w] = pt[t][w]
  <2>1. NoPte \in Pte
    BY Zenon DEF NoPte, Pte
  <2>2. pt' = [pt EXCEPT ![r.tgt][v] = NoPte]
    BY <1>0, <1>4, Zenon DEF uvmunmap_clear
  <2> QED  BY <1>2, <2>1, <2>2, Zenon DEF MemInv, TypeOK
<1>9. TypeOK'
  BY <1>1, <1>6, <1>7, <1>8, ZenonT(30) DEF MemInv, TypeOK
<1>10. PathInv(s)' /\ \A w \in Page : Built(s, w)' <=> (w < r.base \/ (n <= w /\ w < r.end))
  BY <1>1, <1>2, <1>3, <1>4, <1>6, <1>7, UnmapPath, SMTT(30)
<1>11. OneWorker' /\ PagesMapped' /\ \A t \in Space : PathInv(t)'
  <2>1. ~Valid(NoPte)
    BY Zenon DEF Valid, NoPte
  <2>2. ASSUME NEW w \in Page PROVE Valid(pt'[r.tgt][w]) <=> Built(s, w)'
    <3>1. CASE w = v
      BY <1>2, <1>3, <1>4, <1>8, <1>10, <2>1, <3>1, SMTT(30) DEF Page
    <3>2. CASE w # v
      BY <1>2, <1>3, <1>4, <1>8, <1>10, <3>2, SMTT(30) DEF Page
    <3> QED  BY <3>1, <3>2, Zenon
  <2>3. \A t \in Space, w \in Page : t # r.tgt => pt'[t][w] = pt[t][w]
    BY <1>8, Zenon
  <2> QED  BY <1>0, <1>1, <1>2, <1>6, <1>7, <1>10, <2>2, <2>3, OneStep, CowAssumption, SMTT(30)
<1>12. RefInv'
  <2>1. Released(r.tgt, v) /\ ~Released(r.tgt, v)'
    <3>1. Released(r.tgt, v)
      BY <1>0, <1>2, <1>4, Zenon DEF Released
    <3>2. \A t \in Space \ {s} : k[t].tgt # r.tgt
      BY <1>0, <1>2, CowAssumption, Zenon DEF MemInv, OneWorker
    <3> QED  BY <1>6, <1>7, <3>1, <3>2, Zenon DEF Released
  <2>2. \A u \in Space, w \in Page : <<u, w>> # <<r.tgt, v>> => (Released(u, w)' <=> Released(u, w))
    BY <1>0, <1>2, <1>4, <1>6, <1>7, SMTT(30) DEF Released
  <2>3. Ref(<<r.tgt, v>>) = NoFrame /\ Ref(<<r.tgt, v>>)' = NoFrame
    BY <1>2, <1>8, <2>1, RefIs DEF NoPte
  <2>4. k'[s].pa = NoFrame /\ k[s].pa = NoFrame /\ k'[s].pc \notin OwnPc
    BY <1>0, <1>2, <1>6, <1>7, Zenon DEF OwnPc
  <2> QED  BY <1>1, <1>2, <1>7, <1>8, <2>2, <2>3, <2>4, SwapRefs, SMTT(30)
<1>13. CowReadOnly'
  BY <1>8 DEF MemInv, CowReadOnly, NoPte
<1> QED  BY <1>9, <1>11, <1>12, <1>13, Zenon DEF MemInv, RefInv

(* mappages() maps the new page, or fails and the page is freed.           *)
LEMMA uvmalloc_map_keeps ==
    ASSUME RefsCountable, MemInv, NEW s \in Space, uvmalloc_map(s)
    PROVE  MemInv'
<1>0. PICK r \in Regs : r = k[s]
  BY KTyped, Zenon
<1>1. /\ r.pc = "mappages" /\ UNCHANGED <<freelist, count, mem, sz>> /\ k[s].pc \in AllocPc
  BY <1>0, Zenon DEF uvmalloc_map, AllocPc
<1>2. /\ r.tgt \in Space /\ r.ra # "clear" /\ r.pa \in Frame /\ r.pg < r.end
      /\ r.base = sz[r.tgt] /\ r.base <= r.pg /\ r.pg <= r.end
      /\ (r.op = "grow" /\ r.tgt = s) \/ (r.op = "exec" /\ r.tgt # s /\ r.seg # 0)
      /\ \A v \in Page : Valid(pt[r.tgt][v]) <=> v < r.pg
  BY <1>0, <1>1, AllocRegs, Zenon
<1>3. CASE k' = [k EXCEPT ![s] = MapFail(s)] /\ UNCHANGED pt
  BY <1>0, <1>1, <1>3, AllocFails, Zenon
<1>4. CASE /\ pt' = [pt EXCEPT ![k[s].tgt][k[s].pg] = [pa |-> k[s].pa, w |-> Perm(s).w, x |-> Perm(s).x,
                                                     u |-> TRUE, cow |-> FALSE]]
           /\ k' = [k EXCEPT ![s].pc = "uvmalloc", ![s].pa = NoFrame, ![s].pg = @ + 1]
  <2>1. r.pg \in Page /\ r.base \in Nat /\ r.end \in Nat /\ r.pg + 1 \in 0 .. NPAGES
        /\ r.base <= r.pg + 1 /\ r.pg + 1 <= r.end
    BY <1>2, CowAssumption DEF Regs, Page
  <2>2. PICK v \in Page, n \in 0 .. NPAGES : v = r.pg /\ n = r.pg + 1
    BY <2>1, Zenon
  <2>3. PICK q : q = [r EXCEPT !.pc = "uvmalloc", !.pa = NoFrame, !.pg = n]
    BY Zenon
  <2>4. /\ q \in Regs /\ q.pc = "uvmalloc" /\ q.ra = r.ra /\ q.pa = NoFrame /\ q.tgt = r.tgt /\ q.op = r.op
        /\ q.pg = n /\ q.base = r.base /\ q.end = r.end /\ q.seg = r.seg
    BY <2>3, Zenon DEF Regs
  <2>5. k' = [k EXCEPT ![s] = q] /\ k'[s] = q /\ \A t \in Space \ {s} : k'[t] = k[t]
    BY <1>0, <1>4, <2>2, <2>3, Zenon DEF MemInv, TypeOK
  <2>6. PICK e \in Pte : e.pa = r.pa /\ ~e.cow /\ pt' = [pt EXCEPT ![r.tgt][v] = e]
    <3>1. Perm(s).w \in BOOLEAN /\ Perm(s).x \in BOOLEAN
      <4>1. CASE k[s].op = "grow"
        BY <4>1, Zenon DEF Perm
      <4>2. CASE k[s].op # "grow"
        <5>1. k[s].seg \in 1 .. Len(Segments)
          BY <1>0, <1>2, <4>2, CowAssumption DEF Regs
        <5>2. PICK S : S = [n : Nat \ {0}, w : BOOLEAN, x : BOOLEAN]
          BY Zenon
        <5>3. Segments \in Seq(S)
          BY <5>2, CowAssumption, Zenon
        <5>4. Segments[k[s].seg] \in S
          BY <5>1, <5>3, SMTT(30)
        <5> QED  BY <4>2, <5>2, <5>4, Zenon DEF Perm
      <4> QED  BY <4>1, <4>2, Zenon
    <3>2. [pa |-> k[s].pa, w |-> Perm(s).w, x |-> Perm(s).x, u |-> TRUE, cow |-> FALSE] \in Pte
      BY <1>0, <1>2, <3>1, Zenon DEF Pte
    <3> QED  BY <1>0, <1>4, <2>2, <3>2, Zenon
  <2>7. /\ pt' \in [Space -> [Page -> Pte]] /\ pt'[r.tgt][v] = e
        /\ \A t \in Space, w \in Page : <<t, w>> # <<r.tgt, v>> => pt'[t][w] = pt[t][w]
    BY <1>2, <2>6, Zenon DEF MemInv, TypeOK
  <2>8. TypeOK'
    BY <1>1, <2>4, <2>5, <2>7, ZenonT(30) DEF MemInv, TypeOK
  <2>9. PathInv(s)' /\ \A w \in Page : Built(s, w)' <=> w < n
    BY <1>1, <1>2, <2>1, <2>2, <2>4, <2>5, AllocPath, SMTT(30)
  <2>10. OneWorker' /\ PagesMapped' /\ \A t \in Space : PathInv(t)'
    <3>1. Valid(e)
      BY <1>2, <2>6, CowAssumption, Zenon DEF Valid
    <3>2. ASSUME NEW w \in Page PROVE Valid(pt'[r.tgt][w]) <=> Built(s, w)'
      <4>1. CASE w = v
        BY <2>1, <2>2, <2>7, <2>9, <3>1, <4>1, SMTT(30) DEF Page
      <4>2. CASE w # v
        <5>1. pt'[r.tgt][w] = pt[r.tgt][w]
          BY <1>2, <2>7, <4>2, Zenon
        <5>2. w < v <=> w < n
          BY <2>1, <2>2, <4>2 DEF Page
        <5> QED  BY <1>2, <2>2, <2>9, <5>1, <5>2, Zenon
      <4> QED  BY <4>1, <4>2, Zenon
    <3>3. \A t \in Space, w \in Page : t # r.tgt => pt'[t][w] = pt[t][w]
      BY <2>7, Zenon
    <3> QED  BY <1>0, <1>1, <1>2, <2>4, <2>5, <2>9, <3>2, <3>3, OneStep, CowAssumption, SMTT(30)
  <2>11. RefInv'
    <3>1. SameRelease(s)
      BY <1>0, <1>2, <2>4, <2>5, Zenon DEF SameRelease
    <3>2. \A t, w : Released(t, w)' <=> Released(t, w)
      BY <2>5, <3>1, PathRefs, Zenon
    <3>3. ~Released(r.tgt, v) /\ ~Released(r.tgt, v)'
      BY <1>0, <1>2, <3>2, NotReleased, Zenon
    <3>4. pt[r.tgt][v].pa = NoFrame
      BY <1>2, <2>1, <2>2, SMTT(30) DEF Valid, Page
    <3>5. k'[s].pa = Ref(<<r.tgt, v>>) /\ Ref(<<r.tgt, v>>)' = k[s].pa
      BY <1>0, <1>2, <2>4, <2>5, <2>6, <2>7, <3>3, <3>4, RefIs, SMTT(30)
    <3> QED  BY <1>0, <1>1, <1>2, <2>4, <2>5, <2>7, <3>2, <3>5, SwapRefs, SMTT(30) DEF OwnPc
  <2>12. CowReadOnly'
    BY <2>6, <2>7, Zenon DEF MemInv, CowReadOnly
  <2> QED  BY <2>8, <2>10, <2>11, <2>12, Zenon DEF MemInv, RefInv
<1> QED  BY <1>3, <1>4, Zenon DEF uvmalloc_map

(* uvmcowpy() shares one more page with the child, or fails and unmaps.    *)
LEMMA uvmcowpy_keeps ==
    ASSUME RefsCountable, MemInv, NEW s \in Space, uvmcowpy(s)
    PROVE  MemInv'
<1>0. PICK r \in Regs : r = k[s]
  BY KTyped, Zenon
<1>1. PICK c \in Space, v \in Page :
         /\ r.pc = "uvmcowpy" /\ c = r.tgt /\ v = r.pg /\ v < sz[s] /\ UNCHANGED <<freelist, mem, sz>>
  <2>1. r.pg \in 0 .. NPAGES /\ sz[s] \in 0 .. NPAGES /\ r.pg < sz[s] /\ r.pc = "uvmcowpy"
    BY <1>0, Zenon DEF uvmcowpy, MemInv, TypeOK, Regs
  <2>2. r.pg \in Page
    BY <2>1, CowAssumption DEF Page
  <2> QED  BY <1>0, <2>1, <2>2, CowpyRegs, ZenonT(30) DEF uvmcowpy
<1>2. /\ c # s /\ r.ra # "clear" /\ r.pa = NoFrame /\ r.op = "fork" /\ sz[s] \in 0 .. NPAGES
      /\ \A t \in Space : k[t].tgt # s /\ (k[t].tgt = c => t = s)
      /\ \A w \in Page : Valid(pt[s][w]) <=> w < sz[s]
      /\ \A w \in Page : Valid(pt[c][w]) <=> w < v
  <2>0. c = k[s].tgt /\ v = k[s].pg /\ k[s].pc = "uvmcowpy"
    BY <1>0, <1>1, Zenon
  <2>1. c # s /\ r.ra # "clear" /\ r.pa = NoFrame /\ r.op = "fork" /\ sz[s] \in 0 .. NPAGES
    BY <1>0, <1>1, CowpyRegs, Zenon
  <2>2. \A t \in Space : k[t].tgt # s /\ (k[t].tgt = c => t = s)
    BY <1>0, <1>1, CowpyRegs, Zenon
  <2>3. \A w \in Page : Valid(pt[s][w]) <=> w < sz[s]
    BY <2>0, CowpyRegs, Zenon
  <2>4. \A w \in Page : Valid(pt[c][w]) <=> w < v
    BY <2>0, CowpyRegs, Zenon
  <2> QED  BY <2>1, <2>2, <2>3, <2>4, Zenon
<1>3. PICK f \in Frame, e \in Pte :
         /\ f = pt[s][v].pa /\ e = SharePte(pt[s][v]) /\ e.pa = f /\ e.cow /\ ~e.w
  <2>1. PICK p \in Pte : p = pt[s][v] /\ Valid(p)
    BY <1>1, <1>2, Zenon DEF MemInv, TypeOK
  <2>2. p.pa \in Frame /\ SharePte(p) \in Pte /\ SharePte(p).pa = p.pa
    BY <2>1, Zenon DEF SharePte, Pte, Valid
  <2>3. SharePte(p).cow /\ ~SharePte(p).w
    BY Zenon DEF SharePte, Pte
  <2> QED  BY <2>1, <2>2, <2>3, Zenon
<1>4. pt[c][v].pa = NoFrame
  BY <1>2 DEF Valid, Page
<1>5. ~Released(s, v) /\ ~Released(c, v)
  BY <1>0, <1>1, <1>2, NotReleased, Zenon
<1>6. CASE /\ pt' = [pt EXCEPT ![s][v] = e, ![c][v] = e]
           /\ count' = [count EXCEPT ![f] = @ + 1]
           /\ k' = [k EXCEPT ![s].pg = @ + 1]
  <2>1. PICK n \in 0 .. NPAGES : n = v + 1 /\ n <= sz[s] /\ \A w \in Page : w < n <=> (w < v \/ w = v)
    <3>1. v + 1 \in 0 .. NPAGES /\ v + 1 <= sz[s] /\ v \in Int
      BY <1>1, <1>2, CowAssumption DEF Page
    <3>2. \A w \in Page : w < v + 1 <=> (w < v \/ w = v)
      BY <3>1 DEF Page
    <3> QED  BY <3>1, <3>2, Zenon
  <2>2. PICK q : q = [r EXCEPT !.pg = n]
    BY Zenon
  <2>3. /\ q \in Regs /\ q.pc = "uvmcowpy" /\ q.ra = r.ra /\ q.pa = NoFrame /\ q.tgt = c /\ q.op = "fork"
        /\ q.pg = n
    BY <1>1, <1>2, <2>2, SMTT(30) DEF Regs
  <2>4. k' = [k EXCEPT ![s] = q] /\ k'[s] = q /\ \A t \in Space \ {s} : k'[t] = k[t]
    BY <1>0, <1>1, <1>6, <2>1, <2>2, Zenon DEF MemInv, TypeOK
  <2>5. /\ pt' \in [Space -> [Page -> Pte]] /\ pt'[s][v] = e /\ pt'[c][v] = e
        /\ \A t \in Space, w \in Page : <<t, w>> \notin {<<s, v>>, <<c, v>>} => pt'[t][w] = pt[t][w]
    BY <1>2, <1>6, Zenon DEF MemInv, TypeOK
  <2>6. TypeOK'
    <3>1. count' \in [Frame -> Nat]
      BY <1>6 DEF MemInv, TypeOK
    <3> QED  BY <1>1, <2>3, <2>4, <2>5, <3>1, Zenon DEF MemInv, TypeOK
  <2>7. Pc(s)' = "uvmcowpy" /\ PathInv(s)'
    <3>1. Pc(s)' = "uvmcowpy"
      BY <2>3, <2>4, Zenon DEF Pc
    <3>2. RegsInv(s)'
      BY <1>2, <2>3, <2>4, <3>1, Zenon DEF RegsInv, NoPath, DupPc
    <3>3. LoopInv(s)' /\ DupInv(s)'
      BY <1>1, <1>2, <2>1, <2>3, <2>4, <3>1, SMTT(30) DEF LoopInv, DupInv, UnmapPc, AllocPc, FreeOps
    <3> QED  BY <3>1, <3>2, <3>3, Zenon DEF PathInv
  <2>8. OneWorker' /\ PagesMapped' /\ \A t \in Space : PathInv(t)'
    <3>1. Valid(e) /\ Valid(pt[s][v])
      BY <1>3, CowAssumption, Zenon DEF Valid
    <3>2. \A w \in Page : Valid(pt'[c][w]) <=> w < n
      BY <1>2, <2>1, <2>5, <3>1, ZenonT(30)
    <3>3. \A w \in Page : Built(s, w)' <=> w < n
      BY <2>3, <2>4, <2>7, Zenon DEF Built, UnmapPc
    <3>4. \A t \in Space, w \in Page : t # c => /\ Valid(pt'[t][w]) <=> Valid(pt[t][w])
                                                /\ t # s => pt'[t][w] = pt[t][w]
      BY <2>5, <3>1, Zenon
    <3>5. /\ k[s].pc = "uvmcowpy" /\ k'[s].pc = "uvmcowpy" /\ k[s].tgt = c /\ k'[s].tgt = c
          /\ c # NoSpace /\ sz' = sz
      BY <1>0, <1>1, <2>3, <2>4, CowAssumption
    <3>6. \A w \in Page : Valid(pt'[c][w]) <=> Built(s, w)'
      BY <3>2, <3>3, Zenon
    <3>7. \A t \in Space, w \in Page :
             t # k[s].tgt => /\ Valid(pt'[t][w]) <=> Valid(pt[t][w])
                             /\ t # s => pt'[t][w] = pt[t][w]
      <4> SUFFICES ASSUME NEW t \in Space, NEW w \in Page, t # k[s].tgt
                   PROVE  (Valid(pt'[t][w]) <=> Valid(pt[t][w])) /\ (t # s => pt'[t][w] = pt[t][w])
        BY Zenon
      <4>1. t # c
        BY <3>5, Zenon
      <4> QED  BY <3>4, <4>1, Zenon
    <3>9. \A w \in Page : k'[s].tgt # NoSpace => (Valid(pt'[k'[s].tgt][w]) <=> Built(s, w)')
      BY <3>5, <3>6, Zenon
    <3>8. /\ k[s].pc \notin {"none", "setup", "dead", "lost", "lost_zombie"} /\ k'[s].pc \notin {"none", "setup", "dead", "lost", "lost_zombie"}
          /\ k'[s].tgt = k[s].tgt /\ k'[s].tgt # NoSpace
          /\ \A t \in Space : t # k[s].tgt => sz'[t] = sz[t]
      BY <3>5, Zenon
    <3> QED  BY <2>4, <2>7, <3>7, <3>8, <3>9, OneStep, ZenonT(30)
  <2>9. RefInv'
    <3>1. SameRelease(s)
      BY <1>0, <1>2, <2>3, <2>4, Zenon DEF SameRelease
    <3>2. \A t, w : Released(t, w)' <=> Released(t, w)
      BY <2>4, <3>1, PathRefs, Zenon
    <3>3. /\ <<c, v>> \in Loc /\ <<s, v>> \in Loc /\ <<c, v>> # <<s, v>>
          /\ Ref(<<c, v>>) = NoFrame /\ Ref(<<c, v>>)' = f /\ ~Own(<<c, v>>)'
          /\ Ref(<<s, v>>) = f /\ Ref(<<s, v>>)' = f /\ ~Own(<<s, v>>)'
      BY <1>2, <1>3, <1>4, <1>5, <2>5, <3>2, LocIs, RefIs, OwnIs, SMTT(30)
    <3>4. ASSUME NEW l \in Loc \ {<<c, v>>}
          PROVE  Ref(l)' = Ref(l) /\ (Own(l)' => Own(l))
      <4>1. CASE l = <<s, v>>
        BY <3>3, <4>1, Zenon
      <4>2. CASE l[2] = -1
        BY <1>0, <1>2, <2>3, <2>4, <4>2, LocIs, RefIs, OwnIs, SMTT(30) DEF OwnPc
      <4>3. CASE l[2] # -1 /\ l # <<s, v>>
        <5>1. PICK t \in Space, w \in Page : l = <<t, w>> /\ <<t, w>> \notin {<<s, v>>, <<c, v>>}
          BY <4>3, LocIs
        <5>2. pt'[t][w] = pt[t][w]
          BY <2>5, <5>1, Zenon
        <5>3. Ref(<<t, w>>)' = Ref(<<t, w>>) /\ (Own(<<t, w>>)' => Own(<<t, w>>))
          BY <2>4, <3>1, <5>2, PathRefs, ZenonT(30)
        <5> QED  BY <5>1, <5>3, Zenon
      <4> QED  BY <4>1, <4>2, <4>3, Zenon
    <3> QED  BY <1>1, <1>6, <3>3, <3>4, RefShare, CowAssumption, Zenon DEF MemInv, TypeOK, RefInv
  <2>10. CowReadOnly'
    BY <1>3, <2>5 DEF MemInv, CowReadOnly
  <2> QED  BY <2>6, <2>8, <2>9, <2>10, Zenon DEF MemInv, RefInv
<1>7. CASE pt' = [pt EXCEPT ![s][v] = e] /\ k' = [k EXCEPT ![s] = CowpyErr(s, v)] /\ count' = count
  <2>1. v \in 0 .. NPAGES /\ 0 \in 0 .. NPAGES /\ 0 <= v /\ \A w \in Page : w < v <=> (w < 0 \/ (0 <= w /\ w < v))
    BY CowAssumption DEF Page
  <2>2. PICK q : q = StartUnmap(s, "fork_fail", c, 0, v)
    BY Zenon
  <2>3. /\ q \in Regs /\ q.pc = "uvmunmap" /\ q.ra = "none" /\ q.pa = NoFrame /\ q.tgt = c
        /\ q.op = "fork_fail" /\ q.base = 0 /\ q.pg = 0 /\ q.end = v
    BY <1>0, <1>1, <1>2, <2>1, <2>2, UnmapRecord, SMTT(30)
  <2>4. k' = [k EXCEPT ![s] = q] /\ k'[s] = q /\ \A t \in Space \ {s} : k'[t] = k[t]
    BY <1>0, <1>1, <1>7, <2>2, Zenon DEF MemInv, TypeOK, CowpyErr
  <2>5. /\ pt' \in [Space -> [Page -> Pte]] /\ pt'[s][v] = e
        /\ \A t \in Space, w \in Page : <<t, w>> # <<s, v>> => pt'[t][w] = pt[t][w]
    BY <1>7, Zenon DEF MemInv, TypeOK
  <2>6. TypeOK'
    BY <1>1, <1>7, <2>3, <2>4, <2>5, SMTT(30) DEF MemInv, TypeOK
  <2>7. PathInv(s)' /\ \A w \in Page : Built(s, w)' <=> (w < 0 \/ (0 <= w /\ w < v))
    <3>1. /\ k'[s].pc = "uvmunmap" /\ k'[s].ra # "clear" /\ k'[s].pa = NoFrame /\ k'[s].tgt \in Space
          /\ k'[s].base <= k'[s].pg /\ k'[s].pg <= k'[s].end
          /\ k'[s].op \in FreeOps /\ k'[s].tgt # s /\ k'[s].base = 0
      BY <1>2, <2>1, <2>3, <2>4, SMTT(30) DEF FreeOps
    <3>2. /\ PathInv(s)'
          /\ \A w \in Page : Built(s, w)' <=> (w < k'[s].base \/ (k'[s].pg <= w /\ w < k'[s].end))
      BY <3>1, UnmapPath, Zenon
    <3>3. k'[s].base = 0 /\ k'[s].pg = 0 /\ k'[s].end = v
      BY <2>3, <2>4, Zenon
    <3> QED  BY <3>2, <3>3, ZenonT(30)
  <2>8. OneWorker' /\ PagesMapped' /\ \A t \in Space : PathInv(t)'
    <3>1. Valid(e) /\ Valid(pt[s][v])
      BY <1>3, CowAssumption, Zenon DEF Valid
    <3>2. \A w \in Page : pt'[c][w] = pt[c][w]
      BY <1>2, <2>5, Zenon
    <3>4. \A t \in Space, w \in Page : t # c => /\ Valid(pt'[t][w]) <=> Valid(pt[t][w])
                                                /\ t # s => pt'[t][w] = pt[t][w]
      BY <2>5, <3>1, Zenon
    <3>5. /\ k[s].pc = "uvmcowpy" /\ k'[s].pc = "uvmunmap" /\ k[s].tgt = c /\ k'[s].tgt = c
          /\ c # NoSpace /\ sz' = sz
      BY <1>0, <1>1, <2>3, <2>4, CowAssumption, Zenon
    <3>6. \A w \in Page : Valid(pt'[c][w]) <=> Built(s, w)'
      BY <1>2, <2>1, <2>7, <3>2, ZenonT(30)
    <3>7. \A t \in Space, w \in Page :
             t # k[s].tgt => /\ Valid(pt'[t][w]) <=> Valid(pt[t][w])
                             /\ t # s => pt'[t][w] = pt[t][w]
      <4> SUFFICES ASSUME NEW t \in Space, NEW w \in Page, t # k[s].tgt
                   PROVE  (Valid(pt'[t][w]) <=> Valid(pt[t][w])) /\ (t # s => pt'[t][w] = pt[t][w])
        BY Zenon
      <4>1. t # c
        BY <3>5, Zenon
      <4> QED  BY <3>4, <4>1, Zenon
    <3>9. \A w \in Page : k'[s].tgt # NoSpace => (Valid(pt'[k'[s].tgt][w]) <=> Built(s, w)')
      BY <3>5, <3>6, Zenon
    <3>8. /\ k[s].pc \notin {"none", "setup", "dead", "lost", "lost_zombie"} /\ k'[s].pc \notin {"none", "setup", "dead", "lost", "lost_zombie"}
          /\ k'[s].tgt = k[s].tgt /\ k'[s].tgt # NoSpace
          /\ \A t \in Space : t # k[s].tgt => sz'[t] = sz[t]
      BY <3>5, Zenon
    <3> QED  BY <2>4, <2>7, <3>7, <3>8, <3>9, OneStep, Zenon
  <2>9. RefInv'
    <3>1. SameRelease(s)
      BY <1>0, <1>2, <2>3, <2>4, Zenon DEF SameRelease
    <3>2. \A t, w : Released(t, w)' <=> Released(t, w)
      BY <2>4, <3>1, PathRefs, Zenon
    <3>4. ASSUME NEW l \in Loc
          PROVE  Ref(l)' = Ref(l) /\ (Own(l)' => Own(l))
      <4>1. CASE l = <<s, v>>
        <5>1. pt'[s][v].pa = pt[s][v].pa /\ pt'[s][v].cow
          BY <1>3, <2>5, Zenon
        <5>2. Ref(<<s, v>>) = pt[s][v].pa /\ Ref(<<s, v>>)' = pt'[s][v].pa
          BY <1>5, <3>2, RefIs, Zenon
        <5>3. ~Own(<<s, v>>)'
          BY <5>1, OwnIs, Zenon
        <5> QED  BY <4>1, <5>1, <5>2, <5>3, Zenon
      <4>2. CASE l[2] = -1
        BY <1>0, <1>2, <2>3, <2>4, <4>2, LocIs, RefIs, OwnIs, SMTT(30) DEF OwnPc
      <4>3. CASE l[2] # -1 /\ l # <<s, v>>
        <5>1. PICK t \in Space, w \in Page : l = <<t, w>> /\ <<t, w>> # <<s, v>>
          BY <4>3, LocIs
        <5>2. pt'[t][w] = pt[t][w]
          BY <2>5, <5>1, Zenon
        <5>3. Ref(<<t, w>>)' = Ref(<<t, w>>) /\ (Own(<<t, w>>)' => Own(<<t, w>>))
          BY <2>4, <3>1, <5>2, PathRefs, Zenon
        <5> QED  BY <5>1, <5>3, Zenon
      <4> QED  BY <4>1, <4>2, <4>3, Zenon
    <3> QED  BY <1>1, <1>7, <3>4, RefSame, Zenon DEF MemInv, RefInv
  <2>10. CowReadOnly'
    BY <1>3, <2>5 DEF MemInv, CowReadOnly
  <2> QED  BY <2>6, <2>8, <2>9, <2>10, Zenon DEF MemInv, RefInv
<1> QED  BY <1>0, <1>1, <1>3, <1>6, <1>7, Zenon DEF uvmcowpy


-----------------------------------------------------------------------------
(* The address spaces.                                                     *)

(* A loop of s over its own page table is done, and p->sz follows.         *)
LEMMA SizePath ==
    ASSUME RefsCountable, MemInv, NEW s \in Space, NEW n \in 0 .. NPAGES,
           k' = [k EXCEPT ![s] = Idle("user")], sz' = [sz EXCEPT ![s] = n],
           UNCHANGED <<freelist, count, mem, pt>>,
           k[s].pc \notin {"none", "setup", "dead", "lost", "lost_zombie"}, k[s].pa = NoFrame, k[s].ra # "clear", k[s].tgt = s,
           \A v \in Page : Valid(pt[s][v]) <=> v < n
    PROVE  MemInv'
<1>1. /\ k'[s] = Idle("user") /\ \A t \in Space \ {s} : k'[t] = k[t]
      /\ sz'[s] = n /\ \A t \in Space \ {s} : sz'[t] = sz[t]
  BY Zenon DEF MemInv, TypeOK
<1>2. /\ PathInv(s)' /\ Idle("user") \in Regs /\ k'[s].pc = "user" /\ k'[s].pa = NoFrame
      /\ k'[s].tgt = NoSpace /\ k'[s].ra = "none"
  BY <1>1, IdlePath, Zenon DEF NoPath
<1>3. TypeOK'
  BY <1>2, Zenon DEF MemInv, TypeOK
<1>4. \A v \in Page : Valid(pt'[s][v]) <=> v < sz'[s]
  BY <1>1, Zenon
<1>5. OneWorker' /\ PagesMapped' /\ \A t \in Space : PathInv(t)'
  BY <1>1, <1>2, <1>4, OneStep, Zenon
<1>6. RefInv'
  <2>1. \A t \in Space : SameRelease(t) /\ k'[t].pa = k[t].pa
    BY <1>1, <1>2, Zenon DEF SameRelease
  <2> QED  BY <1>1, <1>2, <2>1, RegsOnlyRefs, Zenon DEF OwnPc, MemInv, RefInv
<1> QED  BY <1>3, <1>5, <1>6, Zenon DEF MemInv, RefInv, CowReadOnly

(* sbrk() sets p->sz when its loop is done.                                *)
LEMMA growproc_done_keeps ==
    ASSUME RefsCountable, MemInv, NEW s \in Space, growproc_done(s)
    PROVE  MemInv'
<1>0. PICK r \in Regs : r = k[s]
  BY KTyped, Zenon
<1>1. r.base \in 0 .. NPAGES /\ r.pg \in 0 .. NPAGES /\ r.end \in 0 .. NPAGES /\ NPAGES \in Nat
  BY CowAssumption, Zenon DEF Regs
<1>2. CASE AllocDone(s, "grow") /\ sz' = [sz EXCEPT ![s] = k[s].end]
  <2>1. r.pc = "uvmalloc" /\ r.pg >= r.end /\ r.op = "grow"
    BY <1>0, <1>2, Zenon DEF AllocDone
  <2>2. r.pa = NoFrame /\ r.ra # "clear" /\ r.tgt = s /\ r.pg <= r.end
    BY <1>0, <2>1, AllocRegs, Zenon DEF AllocPc
  <2>3. \A v \in Page : Valid(pt[k[s].tgt][v]) <=> v < k[s].pg
    BY <1>0, <2>1, AllocRegs, Zenon DEF AllocPc
  <2>4. r.pg = r.end
    BY <1>1, <2>1, <2>2
  <2>5. \A v \in Page : Valid(pt[s][v]) <=> v < r.end
    BY <1>0, <2>2, <2>3, <2>4, Zenon
  <2> QED  BY <1>0, <1>1, <1>2, <2>1, <2>2, <2>5, SizePath, Zenon DEF growproc_done
<1>3. CASE UnmapDone(s, "shrink") /\ sz' = [sz EXCEPT ![s] = k[s].base]
  <2>1. r.pc = "uvmunmap" /\ r.pg >= r.end /\ r.op = "shrink"
    BY <1>0, <1>3, Zenon DEF UnmapDone
  <2>2. r.pa = NoFrame /\ r.ra # "clear" /\ r.tgt = s /\ r.pg <= r.end
    BY <1>0, <2>1, UnmapRegs, Zenon DEF UnmapPc, FreeOps
  <2>3. \A v \in Page : /\ Built(s, v) <=> (v < k[s].base \/ (k[s].pg <= v /\ v < k[s].end))
                        /\ Valid(pt[k[s].tgt][v]) <=> Built(s, v)
    BY <1>0, <2>1, UnmapRegs, Zenon DEF UnmapPc
  <2>4. \A v \in Page : ~(r.pg <= v /\ v < r.end)
    BY <1>1, <2>1 DEF Page
  <2>5. \A v \in Page : Valid(pt[s][v]) <=> v < r.base
    BY <1>0, <2>2, <2>3, <2>4, Zenon
  <2> QED  BY <1>0, <1>1, <1>3, <2>1, <2>2, <2>5, SizePath, Zenon DEF growproc_done
<1> QED  BY <1>2, <1>3, Zenon DEF growproc_done

(* The registers of s in exec(), between two segments.                     *)
LEMMA ExecRegs ==
    ASSUME MemInv, NEW s \in Space, k[s].pc = "exec"
    PROVE  /\ k[s].tgt \in Space /\ k[s].tgt # s /\ k[s].ra # "clear" /\ k[s].pa = NoFrame
           /\ k[s].op = "exec"
           /\ \A v \in Page : Valid(pt[k[s].tgt][v]) <=> v < sz[k[s].tgt]
<1>1. PathInv(s) /\ Pc(s) = "exec"
  BY KTyped, Zenon DEF Pc
<1>2. k[s].tgt \in Space /\ k[s].tgt # s /\ k[s].ra # "clear" /\ k[s].pa = NoFrame /\ k[s].op = "exec"
  BY <1>1, Zenon DEF PathInv, RegsInv, LoopInv, NoPath, DupPc
<1>3. \A v \in Page : Built(s, v) <=> v < sz[k[s].tgt]
  BY <1>1, Zenon DEF Built, UnmapPc
<1>4. \A v \in Page : Valid(pt[k[s].tgt][v]) <=> Built(s, v)
  BY <1>2, CowAssumption, Zenon DEF MemInv, PagesMapped
<1> QED  BY <1>2, <1>3, <1>4, Zenon

(* exec() starts uvmalloc() for the next segment.                          *)
LEMMA exec_segment_keeps ==
    ASSUME RefsCountable, MemInv, NEW s \in Space, exec_segment(s)
    PROVE  MemInv'
<1>0. PICK r \in Regs : r = k[s]
  BY KTyped, Zenon
<1>1. PICK i, b, e : /\ i = r.seg + 1 /\ b = sz[r.tgt] /\ e = b + Segments[i].n /\ i <= Len(Segments)
                     /\ r.pc = "exec" /\ e <= NPAGES
                     /\ k' = [k EXCEPT ![s] = [@ EXCEPT !.pc = "uvmalloc", !.seg = i, !.base = b, !.pg = b,
                                                        !.end = e]]
  BY <1>0, Zenon DEF exec_segment
<1>2. /\ r.tgt \in Space /\ r.tgt # s /\ r.ra # "clear" /\ r.pa = NoFrame /\ r.op = "exec"
      /\ \A v \in Page : Valid(pt[r.tgt][v]) <=> v < b
  BY <1>0, <1>1, ExecRegs, Zenon
<1>3. i \in 0 .. Len(Segments) /\ i # 0 /\ Segments[i].n \in Nat
  <2>1. Len(Segments) \in Nat /\ r.seg \in 0 .. Len(Segments)
    BY CowAssumption DEF Regs
  <2>2. i \in 1 .. Len(Segments)
    BY <1>1, <2>1
  <2>3. PICK S : S = [n : Nat \ {0}, w : BOOLEAN, x : BOOLEAN]
    BY Zenon
  <2>4. Segments \in Seq(S)
    BY <2>3, CowAssumption, Zenon
  <2>5. Segments[i] \in S
    BY <2>2, <2>4
  <2> QED  BY <2>1, <2>2, <2>3, <2>5
<1>4. b \in 0 .. NPAGES /\ e \in 0 .. NPAGES /\ b <= e /\ b <= b
  <2>1. b \in 0 .. NPAGES
    BY <1>1, <1>2, Zenon DEF MemInv, TypeOK
  <2>2. PICK n \in Nat : n = Segments[i].n
    BY <1>3, Zenon
  <2>3. e = b + n /\ e <= NPAGES /\ NPAGES \in Nat
    BY <1>1, <2>2, CowAssumption, Zenon
  <2> QED  BY <2>1, <2>3
<1>5. PICK q : q = [r EXCEPT !.pc = "uvmalloc", !.seg = i, !.base = b, !.pg = b, !.end = e]
  BY Zenon
<1>6. /\ q \in Regs /\ q.pc = "uvmalloc" /\ q.seg = i /\ q.base = b /\ q.pg = b /\ q.end = e
      /\ q.tgt = r.tgt /\ q.ra = r.ra /\ q.pa = NoFrame /\ q.op = "exec"
  BY <1>2, <1>3, <1>4, <1>5, ZenonT(30) DEF Regs
<1>7. k' = [k EXCEPT ![s] = q] /\ k'[s] = q
  BY <1>0, <1>1, <1>5, Zenon DEF MemInv, TypeOK
<1>8. UNCHANGED <<freelist, count, mem, pt, sz>>
  BY Zenon DEF exec_segment
<1>9. PathInv(s)' /\ \A v \in Page : Built(s, v)' <=> v < b
  BY <1>1, <1>2, <1>3, <1>4, <1>6, <1>7, <1>8, AllocPath, ZenonT(30)
<1>10. \A v \in Page : Valid(pt[q.tgt][v]) <=> Built(s, v)'
  BY <1>2, <1>6, <1>9, Zenon
<1>11. SameRelease(s)
  BY <1>0, <1>2, <1>6, <1>7, Zenon DEF SameRelease
<1>12. /\ k[s].pc \notin {"none", "setup", "dead", "lost", "lost_zombie"} /\ q.pc \notin {"none", "setup", "dead", "lost", "lost_zombie"} \cup OwnPc
       /\ q.pa = k[s].pa /\ q.tgt = k[s].tgt /\ q.tgt # NoSpace /\ mem' \in [Frame -> Content]
  BY <1>0, <1>1, <1>2, <1>6, <1>8, CowAssumption, Zenon DEF OwnPc, MemInv, TypeOK
<1> QED  BY <1>6, <1>7, <1>8, <1>9, <1>10, <1>11, <1>12, QuietPath, Zenon

(* exec() has filled a segment; the stack guard loses PTE_U.               *)
LEMMA exec_loaded_keeps ==
    ASSUME RefsCountable, MemInv, NEW s \in Space, exec_loaded(s)
    PROVE  MemInv'
<1>0. PICK r \in Regs : r = k[s]
  BY KTyped, Zenon
<1>1. PICK c, e : /\ c = r.tgt /\ e = r.end
                  /\ r.pc = "uvmalloc" /\ r.pg >= r.end /\ r.op = "exec"
                  /\ pt' = pt \/ pt' = [pt EXCEPT ![c][r.base].u = FALSE]
                  /\ sz' = [sz EXCEPT ![c] = e] /\ k' = [k EXCEPT ![s].pc = "exec"]
                  /\ UNCHANGED <<freelist, count>>
  BY <1>0, Zenon DEF exec_loaded, AllocDone
<1>2. c \in Space /\ c # s /\ r.pa = NoFrame /\ r.ra # "clear" /\ r.pg <= r.end
  BY <1>0, <1>1, AllocRegs, Zenon DEF AllocPc
<1>3. \A v \in Page : Valid(pt[c][v]) <=> v < e
  <2>1. r.pg = e /\ e \in 0 .. NPAGES
    BY <1>1, <1>2, CowAssumption DEF Regs
  <2>2. \A v \in Page : Valid(pt[k[s].tgt][v]) <=> v < k[s].pg
    BY <1>0, <1>1, AllocRegs, Zenon DEF AllocPc
  <2> QED  BY <1>0, <1>1, <2>1, <2>2, Zenon
<1>4. PICK q : q = [r EXCEPT !.pc = "exec"]
  BY Zenon
<1>5. q \in Regs /\ q.pc = "exec" /\ q.tgt = c /\ q.pa = NoFrame /\ q.ra = r.ra /\ q.op = "exec"
  BY <1>1, <1>2, <1>4 DEF Regs
<1>6. /\ k' = [k EXCEPT ![s] = q] /\ k'[s] = q /\ \A t \in Space \ {s} : k'[t] = k[t]
      /\ sz'[c] = e /\ \A t \in Space \ {c} : sz'[t] = sz[t]
  BY <1>0, <1>1, <1>2, <1>4 DEF MemInv, TypeOK
<1>7. /\ pt' \in [Space -> [Page -> Pte]]
      /\ \A t \in Space, v \in Page : /\ t # c => pt'[t][v] = pt[t][v]
                                      /\ pt'[t][v].pa = pt[t][v].pa
                                      /\ pt'[t][v].cow = pt[t][v].cow
                                      /\ pt'[t][v].w = pt[t][v].w
  <2>1. CASE pt' = pt
    BY <2>1, Zenon DEF MemInv, TypeOK
  <2>2. CASE pt' = [pt EXCEPT ![c][r.base].u = FALSE]
    <3>1. \A p \in Pte : /\ [p EXCEPT !.u = FALSE] \in Pte /\ [p EXCEPT !.u = FALSE].pa = p.pa
                         /\ [p EXCEPT !.u = FALSE].cow = p.cow /\ [p EXCEPT !.u = FALSE].w = p.w
      BY Zenon DEF Pte
    <3>2. PICK f : f = [pt[c] EXCEPT ![r.base].u = FALSE]
      BY Zenon
    <3>3. pt' = [pt EXCEPT ![c] = f] /\ pt[c] \in [Page -> Pte]
      BY <1>2, <2>2, <3>2, Zenon DEF MemInv, TypeOK
    <3>4. ASSUME NEW v \in Page
          PROVE  f[v] \in Pte /\ f[v].pa = pt[c][v].pa /\ f[v].cow = pt[c][v].cow /\ f[v].w = pt[c][v].w
      <4>1. f[v] = pt[c][v] \/ f[v] = [pt[c][v] EXCEPT !.u = FALSE]
        BY <3>2, <3>3, Zenon
      <4> QED  BY <3>1, <3>3, <4>1, Zenon
    <3>5. f \in [Page -> Pte]
      <4>1. DOMAIN f = Page /\ f = [v \in DOMAIN f |-> f[v]]
        BY <3>2, <3>3, Zenon
      <4> QED  BY <3>4, <4>1, Zenon
    <3>6. pt' \in [Space -> [Page -> Pte]] /\ pt'[c] = f /\ \A t \in Space : t # c => pt'[t] = pt[t]
      BY <1>2, <3>3, <3>5, Zenon DEF MemInv, TypeOK
    <3> QED  BY <3>4, <3>6, Zenon
  <2> QED  BY <1>1, <2>1, <2>2, Zenon
<1>8. TypeOK'
  <2>1. e \in 0 .. NPAGES
    BY <1>1, Zenon DEF Regs
  <2>2. mem' \in [Frame -> Content]
    BY CowAssumption, Zenon DEF exec_loaded, MemInv, TypeOK, Content
  <2> QED  BY <1>1, <1>5, <1>6, <1>7, <2>1, <2>2, Zenon DEF MemInv, TypeOK
<1>9. PathInv(s)' /\ Pc(s)' = "exec"
  <2>1. Pc(s)' = "exec"
    BY <1>5, <1>6, Zenon DEF Pc
  <2>2. RegsInv(s)'
    BY <1>2, <1>5, <1>6, <2>1, Zenon DEF RegsInv, NoPath, DupPc
  <2>3. LoopInv(s)' /\ DupInv(s)'
    BY <1>2, <1>5, <1>6, <2>1, Zenon DEF LoopInv, DupInv, UnmapPc, AllocPc, FreeOps
  <2> QED  BY <2>1, <2>2, <2>3, Zenon DEF PathInv
<1>10. OneWorker' /\ PagesMapped' /\ \A t \in Space : PathInv(t)'
  <2>1. \A v \in Page : Built(s, v)' <=> v < e
    BY <1>5, <1>6, <1>9, Zenon DEF Built, UnmapPc
  <2>2. \A t \in Space, v \in Page : Valid(pt'[t][v]) <=> Valid(pt[t][v])
    BY <1>7, Zenon DEF Valid
  <2>3. \A v \in Page : Valid(pt'[c][v]) <=> Built(s, v)'
    BY <1>2, <1>3, <2>1, <2>2, Zenon
  <2>4. \A t \in Space, v \in Page : t # c => pt'[t][v] = pt[t][v]
    BY <1>7, Zenon
  <2>5. k[s].pc = "uvmalloc" /\ k[s].tgt = c /\ k'[s].tgt = c /\ k'[s].pc = "exec" /\ c # NoSpace
    BY <1>0, <1>1, <1>2, <1>5, <1>6, CowAssumption, Zenon
  <2> QED  BY <1>6, <1>9, <2>2, <2>3, <2>4, <2>5, OneStep, Zenon
<1>11. RefInv'
  <2>1. SameRelease(s)
    BY <1>0, <1>2, <1>5, <1>6, Zenon DEF SameRelease
  <2>2. \A t, v : Released(t, v)' <=> Released(t, v)
    BY <1>6, <2>1, PathRefs, Zenon
  <2>3. \A t \in Space : k'[t].pa = k[t].pa /\ (k'[t].pc \in OwnPc => k[t].pc \in OwnPc)
    BY <1>0, <1>2, <1>5, <1>6, Zenon DEF OwnPc
  <2>4. \A l \in Loc : Ref(l)' = Ref(l) /\ (Own(l)' => Own(l))
    <3> SUFFICES ASSUME NEW l \in Loc
                 PROVE  Ref(l)' = Ref(l) /\ (Own(l)' => Own(l))
      BY Zenon
    <3>1. CASE l[2] = -1
      BY <2>3, <3>1, LocIs, RefIs, OwnIs, SMTT(30)
    <3>2. CASE l[2] # -1
      <4>1. PICK t \in Space, v \in Page : l = <<t, v>>
        BY <3>2, LocIs, Zenon
      <4>2. pt'[t][v].pa = pt[t][v].pa /\ pt'[t][v].cow = pt[t][v].cow
        BY <1>7, Zenon
      <4> QED  BY <2>2, <4>1, <4>2, RefIs, OwnIs
    <3> QED  BY <3>1, <3>2, Zenon
  <2> QED  BY <1>1, <2>4, RefSame, Zenon DEF MemInv, RefInv
<1>12. CowReadOnly'
  BY <1>7 DEF MemInv, CowReadOnly
<1> QED  BY <1>8, <1>10, <1>11, <1>12, Zenon DEF MemInv, RefInv

(* exec() fails and frees the new page table.                              *)
LEMMA exec_bad_keeps ==
    ASSUME RefsCountable, MemInv, NEW s \in Space, exec_bad(s)
    PROVE  MemInv'
<1>0. PICK r \in Regs : r = k[s]
  BY KTyped, Zenon
<1>1. PICK c, n : c = r.tgt /\ n = sz[c]
  BY Zenon
<1>2. /\ r.pc \in {"uvmunmap", "exec"} /\ c \in Space /\ c # s /\ r.pa = NoFrame /\ r.ra # "clear"
      /\ \A v \in Page : Valid(pt[c][v]) <=> v < n
  <2>1. CASE r.pc = "exec"
    BY <1>0, <1>1, <2>1, ExecRegs, Zenon
  <2>2. CASE UnmapDone(s, "exec_fail")
    <3>1. r.pc = "uvmunmap" /\ r.pg >= r.end /\ r.op = "exec_fail"
      BY <1>0, <2>2, Zenon DEF UnmapDone
    <3>2. r.pa = NoFrame /\ r.ra # "clear" /\ c \in Space /\ c # s /\ r.base = n /\ r.pg <= r.end
      BY <1>0, <1>1, <3>1, UnmapRegs, Zenon DEF UnmapPc, FreeOps
    <3>3. \A v \in Page : /\ Built(s, v) <=> (v < k[s].base \/ (k[s].pg <= v /\ v < k[s].end))
                          /\ Valid(pt[k[s].tgt][v]) <=> Built(s, v)
      BY <1>0, <3>1, UnmapRegs, Zenon DEF UnmapPc
    <3>4. \A v \in Page : ~(r.pg <= v /\ v < r.end)
      <4>1. r.pg \in Nat /\ r.end \in Nat
        BY DEF Regs
      <4> QED  BY <3>1, <4>1 DEF Page
    <3>5. \A v \in Page : Valid(pt[c][v]) <=> v < n
      BY <1>0, <1>1, <3>2, <3>3, <3>4, Zenon
    <3> QED  BY <3>1, <3>2, <3>5, Zenon
  <2> QED  BY <1>0, <2>1, <2>2, Zenon DEF exec_bad
<1>3. n \in 0 .. NPAGES /\ 0 \in 0 .. NPAGES /\ 0 <= n /\ \A v \in Page : v < n <=> (v < 0 \/ (0 <= v /\ v < n))
  <2>1. n \in 0 .. NPAGES
    BY <1>1, <1>2, Zenon DEF MemInv, TypeOK
  <2> QED  BY <2>1, CowAssumption DEF Page
<1>4. PICK q : q = StartUnmap(s, "exec_bad", c, 0, n)
  BY Zenon
<1>5. /\ q \in Regs /\ q.pc = "uvmunmap" /\ q.ra = "none" /\ q.pa = NoFrame /\ q.tgt = c
      /\ q.op = "exec_bad" /\ q.base = 0 /\ q.pg = 0 /\ q.end = n
  BY <1>0, <1>1, <1>2, <1>3, <1>4, UnmapRecord, SMTT(30)
<1>6. k' = [k EXCEPT ![s] = q] /\ k'[s] = q
  BY <1>0, <1>1, <1>4, Zenon DEF MemInv, TypeOK, exec_bad
<1>7. UNCHANGED <<freelist, count, mem, pt, sz>>
  BY Zenon DEF exec_bad
<1>8. PathInv(s)' /\ \A v \in Page : Built(s, v)' <=> (v < 0 \/ (0 <= v /\ v < n))
  <2>1. /\ k'[s].pc = "uvmunmap" /\ k'[s].ra # "clear" /\ k'[s].pa = NoFrame /\ k'[s].tgt \in Space
        /\ k'[s].base <= k'[s].pg /\ k'[s].pg <= k'[s].end
        /\ k'[s].op \in FreeOps /\ k'[s].tgt # s /\ k'[s].base = 0
    BY <1>2, <1>3, <1>5, <1>6 DEF FreeOps
  <2>2. /\ PathInv(s)'
        /\ \A v \in Page : Built(s, v)' <=> (v < k'[s].base \/ (k'[s].pg <= v /\ v < k'[s].end))
    BY <2>1, UnmapPath, Zenon
  <2>3. k'[s].base = 0 /\ k'[s].pg = 0 /\ k'[s].end = n
    BY <1>5, <1>6, Zenon
  <2> QED  BY <2>2, <2>3, Zenon
<1>9. \A v \in Page : Valid(pt[q.tgt][v]) <=> Built(s, v)'
  BY <1>2, <1>3, <1>5, <1>8, Zenon
<1>10. SameRelease(s)
  BY <1>0, <1>2, <1>5, <1>6, Zenon DEF SameRelease
<1>11. /\ k[s].pc \notin {"none", "setup", "dead", "lost", "lost_zombie"} /\ q.pc \notin {"none", "setup", "dead", "lost", "lost_zombie"} \cup OwnPc
       /\ q.pa = k[s].pa /\ q.tgt = k[s].tgt /\ q.tgt # NoSpace /\ mem' \in [Frame -> Content]
  BY <1>0, <1>1, <1>2, <1>5, <1>7, CowAssumption, SMTT(30) DEF OwnPc, MemInv, TypeOK
<1> QED  BY <1>5, <1>6, <1>7, <1>8, <1>9, <1>10, <1>11, QuietPath, Zenon

(* A store to a writable page.                                             *)
LEMMA UserStore_keeps ==
    ASSUME RefsCountable, MemInv, NEW s \in Space, NEW a \in Addr, NEW x \in Value, UserStore(s, a, x)
    PROVE  MemInv'
<1>1. k[s].pc = "user" /\ k[s] = Idle("user")
  BY UserIdle, Zenon DEF UserStore
<1>2. k[s].pa = NoFrame /\ k[s].ra # "clear" /\ k[s].tgt = NoSpace
  BY <1>1, IdleIs, Zenon
<1>3. k' = [k EXCEPT ![s] = Idle("user")] /\ mem' \in [Frame -> Content]
  BY <1>1, ZenonT(30) DEF UserStore, MemInv, TypeOK, Content
<1> QED  BY <1>1, <1>2, <1>3, EndPath, ZenonT(30) DEF UserStore

-----------------------------------------------------------------------------
(* A step that hands a page table from one path to another.                *)
LEMMA PairStep ==
    ASSUME RefsCountable, MemInv, NEW s \in Space, NEW c \in Space, s # c,
           k' \in [Space -> Regs], \A t \in Space \ {s, c} : k'[t] = k[t],
           UNCHANGED <<freelist, count, mem, pt>>, sz' \in [Space -> 0 .. NPAGES],
           \A t \in Space \ {c} : sz'[t] = sz[t],
           k[s].pa = NoFrame, k[c].pa = NoFrame, k'[s].pa = NoFrame, k'[c].pa = NoFrame,
           k[s].ra # "clear", k[c].ra # "clear", k'[s].ra # "clear", k'[c].ra # "clear",
           k'[s].pc \notin OwnPc, k'[c].pc \notin OwnPc,
           \A t \in Space \ {s, c} : k[t].tgt \notin {s, c},
           k[s].tgt \in {NoSpace, c}, k[c].tgt \in {NoSpace, s},
           k'[s].tgt \in {NoSpace, c}, k'[c].tgt \in {NoSpace, s},
           k'[s].tgt = c => k'[c].pc \in {"setup", "dead"} /\ k'[c].tgt = NoSpace,
           k'[c].tgt = s => k'[s].pc \in {"setup", "dead"} /\ k'[s].tgt = NoSpace,
           PathInv(s)', PathInv(c)',
           k'[s].pc \notin LostPc,
           \A v \in Page : Valid(pt[c][v]) <=> IF k'[s].tgt = c THEN Built(s, v)'
                                               ELSE v < sz'[c] /\ k'[c].pc \notin LostPc,
           \A v \in Page : Valid(pt[s][v]) <=> IF k'[c].tgt = s THEN Built(c, v)' ELSE v < sz'[s]
    PROVE  MemInv'
<1>2. TypeOK'
  BY Zenon DEF MemInv, TypeOK
<1>3. \A t \in Space \ {s, c} : k'[t] = k[t] /\ k[t].tgt \notin {s, c}
  BY Zenon
<1>4. \A v \in Page :
         /\ Valid(pt[c][v]) <=> IF k'[s].tgt = c THEN Built(s, v)'
                                ELSE v < sz'[c] /\ k'[c].pc \notin LostPc
         /\ Valid(pt[s][v]) <=> IF k'[c].tgt = s THEN Built(c, v)'
                                ELSE v < sz'[s] /\ k'[s].pc \notin LostPc
  BY Zenon
<1>5. OneWorker' /\ PagesMapped' /\ \A t \in Space : PathInv(t)'
  BY <1>3, <1>4, TwoStep, Zenon
<1>6. RefInv'
  <2>1. \A t \in Space : SameRelease(t) /\ k'[t].pa = k[t].pa
    BY Zenon DEF SameRelease
  <2>2. \A t \in Space : k'[t].pc \in OwnPc => k[t].pc \in OwnPc
    BY Zenon
  <2> QED  BY <2>1, <2>2, RegsOnlyRefs, Zenon DEF MemInv, RefInv
<1> QED  BY <1>2, <1>5, <1>6, Zenon DEF MemInv, RefInv, CowReadOnly

(* Two page tables that no third path works on.                            *)
LEMMA FreePair ==
    ASSUME MemInv, NEW s \in Space, NEW c \in Space, s # c, k[s].pc = "user",
           k[c].pc \in {"none", "zombie"}
    PROVE  /\ k[s] = Idle("user") /\ Idle("user") \in Regs
           /\ k[s].pa = NoFrame /\ k[s].ra = "none" /\ k[s].tgt = NoSpace
           /\ k[c] = Idle(k[c].pc) /\ k[c].pa = NoFrame /\ k[c].ra = "none" /\ k[c].tgt = NoSpace
           /\ \A t \in Space \ {s, c} : k[t].tgt \notin {s, c}
           /\ \A v \in Page : Valid(pt[s][v]) <=> v < sz[s]
           /\ \A v \in Page : Valid(pt[c][v]) <=> v < sz[c]
           /\ sz[s] \in 0 .. NPAGES /\ sz[c] \in 0 .. NPAGES
           /\ k[c].pc = "none" => sz[c] = 0
<1>1. /\ k[s] = Idle("user") /\ Idle("user") \in Regs /\ \A t \in Space : k[t].tgt # s
      /\ \A v \in Page : Valid(pt[s][v]) <=> v < sz[s]
  BY UserIdle, Zenon
<1>2. /\ k[c] = Idle(k[c].pc) /\ \A t \in Space : k[t].tgt # c
      /\ \A v \in Page : Valid(pt[c][v]) <=> v < sz[c]
  BY NotUnderWay, Zenon DEF NoPath, LostPc
<1>3. k[s].pa = NoFrame /\ k[s].ra = "none" /\ k[s].tgt = NoSpace
  BY <1>1, IdleIs
<1>4. k[c].pa = NoFrame /\ k[c].ra = "none" /\ k[c].tgt = NoSpace
  BY <1>2, IdleIs, SMTT(30)
<1>5. k[c].pc = "none" => sz[c] = 0
  BY KTyped, Zenon DEF PathInv, LoopInv, Pc
<1>6. sz[s] \in 0 .. NPAGES /\ sz[c] \in 0 .. NPAGES
  BY Zenon DEF MemInv, TypeOK
<1> QED  BY <1>1, <1>2, <1>3, <1>4, <1>5, <1>6, Zenon

(* fork() finds a slot for the child, exec() makes a second page table.    *)
LEMMA fork_exec_keeps ==
    ASSUME RefsCountable, MemInv, NEW s \in Space, NEW c \in Space \ {s}, fork(s, c) \/ exec(s, c)
    PROVE  MemInv'
<1>1. k[s].pc = "user" /\ k[c].pc = "none" /\ UNCHANGED <<freelist, count, mem, pt, sz>> /\ c \in Space /\ s # c
  BY Zenon DEF fork, exec
<1>2. /\ k[s] = Idle("user") /\ Idle("user") \in Regs
      /\ k[s].pa = NoFrame /\ k[s].ra = "none" /\ k[s].tgt = NoSpace
      /\ k[c] = Idle("none") /\ k[c].pa = NoFrame /\ k[c].ra = "none" /\ k[c].tgt = NoSpace
      /\ \A t \in Space \ {s, c} : k[t].tgt \notin {s, c}
      /\ \A v \in Page : Valid(pt[s][v]) <=> v < sz[s]
      /\ \A v \in Page : Valid(pt[c][v]) <=> v < sz[c]
      /\ sz[s] \in 0 .. NPAGES /\ sz[c] = 0
  BY <1>1, FreePair
<1>3. PICK p \in {"uvmcowpy", "exec"}, o \in {"fork", "exec"} :
         /\ p = "uvmcowpy" <=> o = "fork"
         /\ k' = [k EXCEPT ![s] = [@ EXCEPT !.pc = p, !.op = o, !.tgt = c], ![c].pc = "setup"]
  BY Zenon DEF fork, exec
<1>4. PICK q : q = [Idle("user") EXCEPT !.pc = p, !.op = o, !.tgt = c]
  BY Zenon
<1>5. q \in Regs /\ q.pc = p /\ q.op = o /\ q.tgt = c /\ q.ra = "none" /\ q.pa = NoFrame /\ q.pg = 0
  <2>1. PICK u \in Regs : u = Idle("user") /\ u.ra = "none" /\ u.pa = NoFrame /\ u.pg = 0
    BY <1>2, IdleIs, Zenon
  <2>2. q = [u EXCEPT !.pc = p, !.op = o, !.tgt = c] /\ c \in Space
    BY <1>1, <1>4, <2>1, Zenon
  <2>3. CASE p = "uvmcowpy" /\ o = "fork"
    <3>1. q = [u EXCEPT !.pc = "uvmcowpy", !.op = "fork", !.tgt = c]
      BY <2>2, <2>3, Zenon
    <3>2. q \in Regs
      BY <2>2, <3>1, ZenonT(30) DEF Regs, FreeOps
    <3> QED  BY <2>1, <2>3, <3>1, <3>2, SMTT(30) DEF Regs
  <2>4. CASE p = "exec" /\ o = "exec"
    <3>1. q = [u EXCEPT !.pc = "exec", !.op = "exec", !.tgt = c]
      BY <2>2, <2>4, Zenon
    <3>2. q \in Regs
      BY <2>2, <3>1, ZenonT(30) DEF Regs, FreeOps
    <3> QED  BY <2>1, <2>4, <3>1, <3>2 DEF Regs
  <2> QED  BY <1>3, <2>3, <2>4, Zenon
<1>6. [Idle("none") EXCEPT !.pc = "setup"] = Idle("setup")
  BY DEF Idle
<1>7. k'[s] = q /\ k'[c] = Idle("setup") /\ k' = [k EXCEPT ![s] = q, ![c] = Idle("setup")]
  BY <1>1, <1>2, <1>3, <1>4, <1>6, Zenon DEF MemInv, TypeOK
<1>8. /\ PathInv(c)' /\ Idle("setup") \in Regs /\ Idle("setup").pc = "setup" /\ Idle("setup").pa = NoFrame
      /\ Idle("setup").tgt = NoSpace /\ Idle("setup").ra = "none"
  BY <1>1, <1>7, IdlePath, ZenonT(30) DEF NoPath
<1>9. Pc(s)' = p
  BY <1>5, <1>7, Zenon DEF Pc
<1>10. PathInv(s)'
  <2>1. RegsInv(s)'
    BY <1>1, <1>5, <1>7, <1>9, Zenon DEF RegsInv, NoPath, DupPc
  <2>2. LoopInv(s)' /\ DupInv(s)'
    BY <1>1, <1>2, <1>3, <1>5, <1>7, <1>9, SMTT(30) DEF LoopInv, DupInv, UnmapPc, AllocPc, FreeOps
  <2> QED  BY <2>1, <2>2, Zenon DEF PathInv
<1>11. \A v \in Page : Built(s, v)' <=> v < 0
  BY <1>1, <1>2, <1>5, <1>7, <1>9, Zenon DEF Built, UnmapPc
<1>12. \A v \in Page : Valid(pt[c][v]) <=> Built(s, v)'
  BY <1>2, <1>11, Zenon
<1>13. /\ k' \in [Space -> Regs] /\ \A t \in Space \ {s, c} : k'[t] = k[t]
       /\ sz' = sz /\ sz' \in [Space -> 0 .. NPAGES]
  BY <1>1, <1>5, <1>7, <1>8, SMTT(30) DEF MemInv, TypeOK
<1>14. /\ k'[s].pc \notin OwnPc /\ k'[s].pa = NoFrame /\ k'[s].ra # "clear" /\ k'[s].tgt = c
       /\ k'[c].pc = "setup" /\ k'[c].pa = NoFrame /\ k'[c].ra # "clear" /\ k'[c].tgt = NoSpace
       /\ k'[c].pc \notin OwnPc /\ c # NoSpace /\ s # NoSpace /\ k'[s].pc \notin LostPc
  BY <1>1, <1>5, <1>7, <1>8, CowAssumption, Zenon DEF OwnPc, LostPc
<1> QED  BY <1>1, <1>2, <1>8, <1>10, <1>12, <1>13, <1>14, PairStep, SMTT(30)

(* wait() frees the page table of a zombie.                                *)
LEMMA wait_keeps ==
    ASSUME RefsCountable, MemInv, NEW s \in Space, NEW c \in Space \ {s}, wait(s, c)
    PROVE  MemInv'
<1>1. k[s].pc = "user" /\ k[c].pc = "zombie" /\ UNCHANGED <<freelist, count, mem, pt, sz>> /\ c \in Space /\ s # c
  BY Zenon DEF wait
<1>2. /\ k[s] = Idle("user") /\ Idle("user") \in Regs
      /\ k[s].pa = NoFrame /\ k[s].ra = "none" /\ k[s].tgt = NoSpace
      /\ k[c] = Idle("zombie") /\ k[c].pa = NoFrame /\ k[c].ra = "none" /\ k[c].tgt = NoSpace
      /\ \A t \in Space \ {s, c} : k[t].tgt \notin {s, c}
      /\ \A v \in Page : Valid(pt[s][v]) <=> v < sz[s]
      /\ \A v \in Page : Valid(pt[c][v]) <=> v < sz[c]
      /\ sz[c] \in 0 .. NPAGES
  BY <1>1, FreePair
<1>3. PICK n \in 0 .. NPAGES : n = sz[c]
  BY <1>2, Zenon
<1>4. 0 \in 0 .. NPAGES /\ 0 <= n /\ \A v \in Page : v < n <=> (v < 0 \/ (0 <= v /\ v < n))
  BY CowAssumption DEF Page
<1>5. PICK q : q = StartUnmap(s, "free", c, 0, n)
  BY Zenon
<1>6. /\ q \in Regs /\ q.pc = "uvmunmap" /\ q.ra = "none" /\ q.pa = NoFrame /\ q.tgt = c
      /\ q.op = "free" /\ q.base = 0 /\ q.pg = 0 /\ q.end = n
  BY <1>1, <1>2, <1>4, <1>5, UnmapRecord, SMTT(30)
<1>7. [Idle("zombie") EXCEPT !.pc = "dead"] = Idle("dead")
  BY DEF Idle
<1>8. k' = [k EXCEPT ![s] = q, ![c] = Idle("dead")] /\ k'[s] = q /\ k'[c] = Idle("dead")
  <2>1. StartUnmap(s, "free", c, 0, sz[c]) = q
    BY <1>3, <1>5, Zenon
  <2> QED  BY <1>1, <1>2, <1>7, <2>1, Zenon DEF MemInv, TypeOK, wait
<1>9. /\ PathInv(c)' /\ Idle("dead") \in Regs /\ Idle("dead").pc = "dead" /\ Idle("dead").pa = NoFrame
      /\ Idle("dead").tgt = NoSpace /\ Idle("dead").ra = "none"
  BY <1>1, <1>8, IdlePath, Zenon DEF NoPath
<1>10. PathInv(s)' /\ \A v \in Page : Built(s, v)' <=> (v < 0 \/ (0 <= v /\ v < n))
  <2>1. /\ k'[s].pc = "uvmunmap" /\ k'[s].ra # "clear" /\ k'[s].pa = NoFrame /\ k'[s].tgt \in Space
        /\ k'[s].base <= k'[s].pg /\ k'[s].pg <= k'[s].end
        /\ k'[s].op \in FreeOps /\ k'[s].tgt # s /\ k'[s].base = 0
    BY <1>1, <1>4, <1>6, <1>8, SMTT(30) DEF FreeOps
  <2>2. /\ PathInv(s)'
        /\ \A v \in Page : Built(s, v)' <=> (v < k'[s].base \/ (k'[s].pg <= v /\ v < k'[s].end))
    BY <2>1, UnmapPath, Zenon
  <2>3. k'[s].base = 0 /\ k'[s].pg = 0 /\ k'[s].end = n
    BY <1>6, <1>8, Zenon
  <2> QED  BY <2>2, <2>3, Zenon
<1>11. \A v \in Page : Valid(pt[c][v]) <=> Built(s, v)'
  BY <1>2, <1>3, <1>4, <1>10, Zenon
<1>12. /\ k' \in [Space -> Regs] /\ \A t \in Space \ {s, c} : k'[t] = k[t]
       /\ sz' = sz /\ sz' \in [Space -> 0 .. NPAGES]
  BY <1>1, <1>6, <1>8, <1>9, SMTT(30) DEF MemInv, TypeOK
<1>13. /\ k'[s].pc \notin OwnPc /\ k'[s].pa = NoFrame /\ k'[s].ra # "clear" /\ k'[s].tgt = c
       /\ k'[c].pc = "dead" /\ k'[c].pa = NoFrame /\ k'[c].ra # "clear" /\ k'[c].tgt = NoSpace
       /\ k'[c].pc \notin OwnPc /\ c # NoSpace /\ s # NoSpace /\ k'[s].pc \notin LostPc
  BY <1>1, <1>6, <1>8, <1>9, CowAssumption, Zenon DEF OwnPc, LostPc
<1> QED  BY <1>1, <1>2, <1>9, <1>10, <1>11, <1>12, <1>13, PairStep, ZenonT(30)

(* A path that builds or frees another page table.                         *)
LEMMA BuildPair ==
    ASSUME MemInv, NEW s \in Space, NEW c \in Space, s # c, k[s].tgt = c,
           k[s].pc \notin {"none", "setup", "dead", "lost", "lost_zombie"}
    PROVE  /\ k[c].pa = NoFrame /\ k[c].ra = "none" /\ k[c].tgt = NoSpace
           /\ \A t \in Space \ {s, c} : k[t].tgt \notin {s, c}
           /\ \A v \in Page : Valid(pt[s][v]) <=> v < sz[s]
           /\ sz[s] \in 0 .. NPAGES /\ c # NoSpace /\ s # NoSpace
<1>1. k[c].pc \in {"setup", "dead"}
  BY Zenon DEF MemInv, OneWorker
<1>2. k[c] = Idle(k[c].pc)
  BY <1>1, NotUnderWay, Zenon DEF NoPath
<1>3. k[c].pa = NoFrame /\ k[c].ra = "none" /\ k[c].tgt = NoSpace
  BY <1>2, IdleIs
<1>4. \A t \in Space : k[t].tgt # s /\ (k[t].tgt = c => t = s)
  BY CowAssumption, Zenon DEF MemInv, OneWorker
<1>5. \A v \in Page : Valid(pt[s][v]) <=> v < sz[s]
  BY <1>4, Zenon DEF MemInv, PagesMapped, LostPc
<1> QED  BY <1>3, <1>4, <1>5, CowAssumption, SMTT(30) DEF MemInv, TypeOK

(* The page table that s has built or freed is complete: both go on in     *)
(* their own.                                                              *)
LEMMA PairDone ==
    ASSUME RefsCountable, MemInv, NEW s \in Space, NEW c \in Space, s # c, k[s].tgt = c,
           k[s].pc \notin {"none", "setup", "dead", "lost", "lost_zombie"}, k[s].pa = NoFrame, k[s].ra # "clear",
           NEW p \in {"user", "none", "lost"}, NEW n \in 0 .. NPAGES, p = "none" => n = 0,
           k' = [k EXCEPT ![s] = Idle("user"), ![c] = Idle(p)], sz' = [sz EXCEPT ![c] = n],
           UNCHANGED <<freelist, count, mem, pt>>,
           \A v \in Page : Valid(pt[c][v]) <=> v < n /\ p # "lost"
    PROVE  MemInv'
<1>1. /\ k[c].pa = NoFrame /\ k[c].ra # "clear" /\ k[c].tgt = NoSpace
      /\ \A t \in Space \ {s, c} : k[t].tgt \notin {s, c}
      /\ c # NoSpace /\ s # NoSpace
  BY BuildPair, Zenon
<1>2. \A v \in Page : Valid(pt[s][v]) <=> v < sz[s]
  BY BuildPair, Zenon
<1>3. k'[s] = Idle("user") /\ k'[c] = Idle(p)
  BY Zenon DEF MemInv, TypeOK
<1>4. sz'[c] = n /\ (\A t \in Space \ {c} : sz'[t] = sz[t]) /\ sz' \in [Space -> 0 .. NPAGES]
  BY Zenon DEF MemInv, TypeOK
<1>5. /\ PathInv(s)' /\ Idle("user") \in Regs /\ Idle("user").pc = "user" /\ Idle("user").pa = NoFrame
      /\ Idle("user").tgt = NoSpace /\ Idle("user").ra = "none"
  <2>1. PathInv(s)' /\ Idle("user") \in Regs
    BY <1>3, IdlePath, IdleRegs, ZenonT(30) DEF NoPath
  <2> QED  BY <2>1, IdleIs, Zenon
<1>6. /\ PathInv(c)' /\ Idle(p) \in Regs /\ Idle(p).pc = p /\ Idle(p).pa = NoFrame
      /\ Idle(p).tgt = NoSpace /\ Idle(p).ra = "none"
  <2>1. p \in NoPath /\ (p = "none" => sz'[c] = 0)
    BY <1>4, Zenon DEF NoPath
  <2>2. PathInv(c)' /\ Idle(p) \in Regs
    BY <1>3, <2>1, IdlePath, IdleRegs, ZenonT(30)
  <2> QED  BY <2>2, IdleIs, Zenon
<1>7. k' \in [Space -> Regs] /\ \A t \in Space \ {s, c} : k'[t] = k[t]
  BY <1>5, <1>6, Zenon DEF MemInv, TypeOK
<1>8. /\ k'[s].pc \notin OwnPc /\ k'[s].pa = NoFrame /\ k'[s].ra # "clear" /\ k'[s].tgt = NoSpace
      /\ k'[c].pc \notin OwnPc /\ k'[c].pa = NoFrame /\ k'[c].ra # "clear" /\ k'[c].tgt = NoSpace
      /\ k'[s].pc \notin LostPc /\ (k'[c].pc \notin LostPc <=> p # "lost")
  BY <1>3, <1>5, <1>6, Zenon DEF OwnPc, LostPc
<1>9. \A v \in Page : Valid(pt[c][v]) <=> IF k'[s].tgt = c THEN Built(s, v)'
                                          ELSE v < sz'[c] /\ k'[c].pc \notin LostPc
  BY <1>1, <1>4, <1>8, Zenon
<1>10. \A v \in Page : Valid(pt[s][v]) <=> IF k'[c].tgt = s THEN Built(c, v)' ELSE v < sz'[s]
  BY <1>1, <1>2, <1>4, <1>8, Zenon
<1> QED  BY <1>1, <1>4, <1>5, <1>6, <1>7, <1>8, <1>9, <1>10, PairStep, Zenon

(* fork() has shared all pages and the child may run.                      *)
LEMMA fork_done_keeps ==
    ASSUME RefsCountable, MemInv, NEW s \in Space, fork_done(s)
    PROVE  MemInv'
<1>0. PICK r \in Regs : r = k[s]
  BY KTyped, Zenon
<1>1. PICK c \in Space : /\ c = r.tgt /\ r.pc = "uvmcowpy" /\ r.pg >= sz[s] /\ sz' = [sz EXCEPT ![c] = sz[s]]
                         /\ k' = [k EXCEPT ![s] = Idle("user"), ![c] = Idle("user")]
                         /\ UNCHANGED <<freelist, count, mem, pt>>
  BY <1>0, CowpyRegs, Zenon DEF fork_done
<1>2. r.tgt # s /\ r.ra # "clear" /\ r.pa = NoFrame /\ r.pg <= sz[s] /\ sz[s] \in 0 .. NPAGES
  BY <1>0, <1>1, CowpyRegs, Zenon
<1>3. r.pg = sz[s]
  BY <1>1, <1>2 DEF Regs
<1>4. \A v \in Page : Valid(pt[k[s].tgt][v]) <=> v < k[s].pg
  BY <1>0, <1>1, CowpyRegs, Zenon
<1>5. \A v \in Page : Valid(pt[c][v]) <=> v < sz[s]
  BY <1>0, <1>1, <1>3, <1>4, Zenon
<1>6. \A v \in Page : Valid(pt[c][v]) <=> v < sz[s] /\ "user" # "lost"
  BY <1>5, Zenon
<1> QED  BY <1>0, <1>1, <1>2, <1>6, PairDone, Zenon

(* fork() goes on after uvmcowpy() has failed and unmapped the child again.*)
LEMMA fork_lost_keeps ==
    ASSUME RefsCountable, MemInv, NEW s \in Space, fork_lost(s)
    PROVE  MemInv'
<1>0. PICK r \in Regs : r = k[s]
  BY KTyped, Zenon
<1>1. PICK c : /\ c = r.tgt /\ r.pc = "uvmunmap" /\ r.pg >= r.end /\ r.op = "fork_fail"
               /\ sz' = [sz EXCEPT ![c] = sz[s]]
               /\ k' = [k EXCEPT ![s] = Idle("user"), ![c] = Idle("lost")]
               /\ UNCHANGED <<freelist, count, mem, pt>>
  BY <1>0, Zenon DEF fork_lost, UnmapDone
<1>2. c \in Space /\ c # s /\ r.ra # "clear" /\ r.pa = NoFrame /\ r.base = 0
  BY <1>0, <1>1, UnmapRegs, Zenon DEF UnmapPc, FreeOps
<1>3. \A v \in Page : /\ Built(s, v) <=> (v < k[s].base \/ (k[s].pg <= v /\ v < k[s].end))
                      /\ Valid(pt[k[s].tgt][v]) <=> Built(s, v)
  BY <1>0, <1>1, UnmapRegs, Zenon DEF UnmapPc
<1>4. \A v \in Page : ~(r.pg <= v /\ v < r.end) /\ ~(v < 0)
  <2>1. r.pg \in Nat /\ r.end \in Nat
    BY DEF Regs
  <2> QED  BY <1>1, <2>1 DEF Page
<1>5. \A v \in Page : Valid(pt[c][v]) <=> v < sz[s] /\ "lost" # "lost"
  BY <1>0, <1>1, <1>2, <1>3, <1>4, Zenon
<1>6. sz[s] \in 0 .. NPAGES
  BY Zenon DEF MemInv, TypeOK
<1> QED  BY <1>0, <1>1, <1>2, <1>5, <1>6, PairDone, ZenonT(30)

(* proc_freepagetable() is done.                                           *)
LEMMA free_done_keeps ==
    ASSUME RefsCountable, MemInv, NEW s \in Space, free_done(s)
    PROVE  MemInv'
<1>0. PICK r \in Regs : r = k[s]
  BY KTyped, Zenon
<1>1. PICK c : /\ c = r.tgt /\ r.pc = "uvmunmap" /\ r.pg >= r.end /\ r.op \in FreeOps
               /\ sz' = [sz EXCEPT ![c] = 0]
               /\ k' = [k EXCEPT ![s] = Idle("user"), ![c] = Idle("none")]
               /\ UNCHANGED <<freelist, count, mem, pt>>
  BY <1>0, Zenon DEF free_done, UnmapDone
<1>2. c \in Space /\ c # s /\ r.ra # "clear" /\ r.pa = NoFrame /\ r.base = 0
  BY <1>0, <1>1, UnmapRegs, Zenon DEF UnmapPc, FreeOps
<1>3. \A v \in Page : /\ Built(s, v) <=> (v < k[s].base \/ (k[s].pg <= v /\ v < k[s].end))
                      /\ Valid(pt[k[s].tgt][v]) <=> Built(s, v)
  BY <1>0, <1>1, UnmapRegs, Zenon DEF UnmapPc
<1>4. \A v \in Page : ~(r.pg <= v /\ v < r.end)
  <2>1. r.pg \in Nat /\ r.end \in Nat
    BY DEF Regs
  <2> QED  BY <1>1, <2>1 DEF Page
<1>5. \A v \in Page : Valid(pt[c][v]) <=> v < 0 /\ "none" # "lost"
  BY <1>0, <1>1, <1>2, <1>3, <1>4, Zenon
<1>6. 0 \in 0 .. NPAGES
  BY CowAssumption
<1> QED  BY <1>0, <1>1, <1>2, <1>5, <1>6, PairDone, ZenonT(30)

(* exec() installs the new page table and frees the old one.               *)
LEMMA exec_commit_keeps ==
    ASSUME RefsCountable, MemInv, NEW s \in Space, exec_commit(s)
    PROVE  MemInv'
<1>0. PICK r \in Regs : r = k[s]
  BY KTyped, Zenon
<1>1. PICK c, n : /\ c = r.tgt /\ r.pc = "exec" /\ n = sz[s]
                  /\ k' = [k EXCEPT ![s] = Idle("dead"),
                                    ![c] = [Idle("uvmunmap") EXCEPT !.op = "free", !.tgt = s, !.end = n]]
                  /\ UNCHANGED <<freelist, count, mem, pt, sz>>
  BY <1>0, Zenon DEF exec_commit
<1>2. c \in Space /\ c # s /\ r.ra # "clear" /\ r.pa = NoFrame
  BY <1>0, <1>1, ExecRegs, Zenon
<1>3. /\ k[c].pa = NoFrame /\ k[c].ra = "none" /\ k[c].tgt = NoSpace
      /\ \A t \in Space \ {s, c} : k[t].tgt \notin {s, c}
      /\ \A v \in Page : Valid(pt[s][v]) <=> v < n
      /\ n \in 0 .. NPAGES /\ c # NoSpace /\ s # NoSpace
  BY <1>0, <1>1, <1>2, BuildPair, SMTT(30)
<1>4. 0 \in 0 .. NPAGES /\ 0 <= n /\ \A v \in Page : v < n <=> (v < 0 \/ (0 <= v /\ v < n))
  BY <1>3, CowAssumption DEF Page
<1>5. PICK q : q = [Idle("uvmunmap") EXCEPT !.op = "free", !.tgt = s, !.end = n]
  BY Zenon
<1>6. k'[s] = Idle("dead") /\ k'[c] = q /\ k' = [k EXCEPT ![s] = Idle("dead"), ![c] = q]
  BY <1>1, <1>2, <1>5, Zenon DEF MemInv, TypeOK
<1>7. /\ PathInv(s)' /\ Idle("dead") \in Regs /\ Idle("dead").pc = "dead" /\ Idle("dead").pa = NoFrame
      /\ Idle("dead").tgt = NoSpace /\ Idle("dead").ra = "none"
  BY <1>6, IdlePath, Zenon DEF NoPath
<1>8. /\ q \in Regs /\ q.pc = "uvmunmap" /\ q.ra = "none" /\ q.pa = NoFrame /\ q.tgt = s
      /\ q.op = "free" /\ q.base = 0 /\ q.pg = 0 /\ q.end = n
  <2>4. PICK w \in Regs : /\ w = Idle("uvmunmap") /\ w.pc = "uvmunmap" /\ w.ra = "none" /\ w.pa = NoFrame
                          /\ w.base = 0 /\ w.pg = 0
    BY IdleRegs, IdleIs, Zenon
  <2>5. q = [w EXCEPT !.op = "free", !.tgt = s, !.end = n]
    BY <1>5, <2>4, Zenon
  <2>6. n \in 0 .. NPAGES
    BY <1>3, Zenon
  <2>7. q \in Regs
    <3>1. s \in Space \cup {NoSpace} /\ w \in Regs
      BY <2>4, Zenon
    <3> QED  BY <2>5, <2>6, <3>1, ZenonT(30) DEF Regs, FreeOps
  <2> QED  BY <2>4, <2>5, <2>7 DEF Regs
<1>10. PathInv(c)' /\ \A v \in Page : Built(c, v)' <=> (v < 0 \/ (0 <= v /\ v < n))
  <2>1. /\ k'[c].pc = "uvmunmap" /\ k'[c].ra # "clear" /\ k'[c].pa = NoFrame /\ k'[c].tgt \in Space
        /\ k'[c].base <= k'[c].pg /\ k'[c].pg <= k'[c].end
        /\ k'[c].op \in FreeOps /\ k'[c].tgt # c /\ k'[c].base = 0
    BY <1>2, <1>4, <1>6, <1>8, SMTT(30) DEF FreeOps
  <2>2. /\ PathInv(c)'
        /\ \A v \in Page : Built(c, v)' <=> (v < k'[c].base \/ (k'[c].pg <= v /\ v < k'[c].end))
    BY <1>2, <2>1, UnmapPath, Zenon
  <2>3. k'[c].base = 0 /\ k'[c].pg = 0 /\ k'[c].end = n
    BY <1>6, <1>8, Zenon
  <2> QED  BY <2>2, <2>3, Zenon
<1>11. \A v \in Page : Valid(pt[s][v]) <=> Built(c, v)'
  BY <1>3, <1>4, <1>10, Zenon
<1>12. \A v \in Page : Valid(pt[c][v]) <=> v < sz[c]
  BY <1>0, <1>1, ExecRegs, Zenon
<1>13. q.pc \notin OwnPc /\ sz' \in [Space -> 0 .. NPAGES] /\ sz' = sz
  BY <1>1, <1>8, Zenon DEF OwnPc, MemInv, TypeOK
<1>14. k' \in [Space -> Regs] /\ \A t \in Space \ {s, c} : k'[t] = k[t]
  BY <1>6, <1>7, <1>8, ZenonT(30) DEF MemInv, TypeOK
<1>15. /\ k'[s].pc = "dead" /\ k'[s].pa = NoFrame /\ k'[s].ra # "clear" /\ k'[s].tgt = NoSpace
       /\ k'[c].pc \notin OwnPc /\ k'[c].pa = NoFrame /\ k'[c].ra # "clear" /\ k'[c].tgt = s
       /\ k'[s].pc \notin OwnPc /\ k'[s].pc \notin LostPc /\ k'[c].pc \notin LostPc
  BY <1>6, <1>7, <1>8, Zenon DEF OwnPc, LostPc
<1>16. /\ \A v \in Page : Valid(pt[c][v]) <=> IF k'[s].tgt = c THEN Built(s, v)'
                                              ELSE v < sz'[c] /\ k'[c].pc \notin LostPc
       /\ \A v \in Page : Valid(pt[s][v]) <=> IF k'[c].tgt = s THEN Built(c, v)' ELSE v < sz'[s]
  BY <1>3, <1>11, <1>12, <1>13, <1>15, Zenon
<1>17. k[s].pa = NoFrame /\ k[s].ra # "clear" /\ k[s].tgt = c
  BY <1>0, <1>1, <1>2, Zenon
<1> QED  BY <1>1, <1>2, <1>3, <1>7, <1>10, <1>13, <1>14, <1>15, <1>16, <1>17, PairStep, Zenon

-----------------------------------------------------------------------------
(* The first process: one page, everything else free.                      *)
LEMMA InitMem ==
    ASSUME RefsCountable, Init
    PROVE  MemInv
<1>0. 0 \in Page /\ 0 \in 0 .. NPAGES /\ 1 \in 0 .. NPAGES /\ 0 \in Addr /\ 0 \in 0 .. Len(Segments)
  <2>1. NPAGES * PGSIZE \in Nat /\ NPAGES \in Nat \ {0} /\ Len(Segments) \in Nat
    BY CowAssumption
  <2> QED  BY <2>1 DEF Page, Addr, Far
<1>1. PICK s \in Space, f \in Frame :
         /\ freelist = Frame \ {f}
         /\ count = [g \in Frame |-> 0]
         /\ mem = [g \in Frame |-> IF g = f THEN Img ELSE Junk]
         /\ pt = [t \in Space |-> [v \in Page |->
                    IF t = s /\ v = 0
                    THEN [pa |-> f, w |-> TRUE, x |-> TRUE, u |-> TRUE, cow |-> FALSE]
                    ELSE NoPte]]
         /\ sz = [t \in Space |-> IF t = s THEN 1 ELSE 0]
         /\ k = [t \in Space |-> Idle(IF t = s THEN "user" ELSE "none")]
  BY ZenonT(30) DEF Init
<1>2. \A t \in Space : /\ k[t] = Idle(k[t].pc) /\ k[t] \in Regs /\ k[t].pc = (IF t = s THEN "user" ELSE "none")
                       /\ k[t].pa = NoFrame /\ k[t].tgt = NoSpace /\ k[t].ra = "none" /\ k[t].op = "none"
  BY <1>0, <1>1, CowAssumption, Zenon DEF Idle, Regs
<1>3. \A t \in Space, v \in Page : /\ pt[t][v] \in Pte /\ ~pt[t][v].cow
                                   /\ pt[t][v].pa = IF t = s /\ v = 0 THEN f ELSE NoFrame
  BY <1>1, Zenon DEF NoPte, Pte
<1>4. TypeOK
  <2>1. mem \in [Frame -> Content]
    BY <1>1, CowAssumption, Zenon DEF Content
  <2>2. sz \in [Space -> 0 .. NPAGES] /\ count \in [Frame -> Nat]
    BY <1>0, <1>1, Zenon
  <2>3. k \in [Space -> Regs]
    BY <1>1, <1>2, Zenon
  <2>4. pt \in [Space -> [Page -> Pte]]
    <3>1. \A t \in Space : pt[t] \in [Page -> Pte]
      BY <1>1, <1>3, Zenon
    <3> QED  BY <1>1, <3>1, Zenon
  <2> QED  BY <1>1, <2>1, <2>2, <2>3, <2>4, ZenonT(30) DEF TypeOK
<1>5. \A t \in Space : PathInv(t)
  <2> SUFFICES ASSUME NEW t \in Space PROVE PathInv(t)
    BY Zenon
  <2>1. Pc(t) \in {"user", "none"} /\ k[t].pc = Pc(t)
    BY <1>2, Zenon DEF Pc
  <2>2. RegsInv(t)
    BY <1>2, <2>1, Zenon DEF RegsInv, NoPath, DupPc
  <2>3. Pc(t) = "none" => sz[t] = 0
    BY <1>1, <1>2, <2>1, Zenon
  <2>4. LoopInv(t) /\ DupInv(t)
    BY <1>2, <2>1, <2>3, Zenon DEF LoopInv, DupInv, UnmapPc, AllocPc, FreeOps
  <2> QED  BY <2>2, <2>4, Zenon DEF PathInv
<1>6. OneWorker /\ PagesMapped /\ CowReadOnly
  <2>1. \A t \in Space, v \in Page : Valid(pt[t][v]) <=> t = s /\ v = 0
    BY <1>1, <1>3, CowAssumption, Zenon DEF Valid
  <2>2. \A t \in Space, v \in Page : v < sz[t] <=> t = s /\ v = 0
    BY <1>1 DEF Page
  <2>3. \A t \in Space, v \in Page : Valid(pt[t][v]) <=> v < sz[t]
    BY <2>1, <2>2, Zenon
  <2>4. \A t \in Space : k[t].pc \notin LostPc
    BY <1>2, Zenon DEF LostPc
  <2> QED  BY <1>2, <1>3, <2>3, <2>4, CowAssumption, Zenon DEF OneWorker, PagesMapped, CowReadOnly
<1>7. \A l \in Loc : Ref(l) = IF l = <<s, 0>> THEN f ELSE NoFrame
  <2> SUFFICES ASSUME NEW l \in Loc
               PROVE  Ref(l) = IF l = <<s, 0>> THEN f ELSE NoFrame
    BY Zenon
  <2>1. CASE l[2] = -1
    BY <1>0, <1>2, <2>1, LocIs, RefIs, SMTT(30)
  <2>2. CASE l[2] # -1
    <3>1. PICK t \in Space, v \in Page : l = <<t, v>>
      BY <2>2, LocIs, Zenon
    <3>2. ~Released(t, v)
      BY <1>2, Zenon DEF Released
    <3> QED  BY <1>3, <3>1, <3>2, RefIs, SMTT(30)
  <2> QED  BY <2>1, <2>2, Zenon
<1>8. Exclusive
  BY <1>7, Zenon DEF Exclusive, Loc, Page
<1>9. RefCountExact
  <2> SUFFICES ASSUME NEW g \in Frame
               PROVE  IF g \in freelist THEN Refs(g) = {} ELSE Cardinality(Refs(g)) = count[g] + 1
    BY Zenon DEF RefCountExact
  <2>0. <<s, 0>> \in Loc
    BY <1>0, LocIs, Zenon
  <2>1. CASE g = f
    <3>1. Refs(g) = {} \cup {<<s, 0>>}
      BY <1>7, <2>0, <2>1, RefsIn, CowAssumption, Zenon
    <3>2. Cardinality({}) = 0 /\ Cardinality({} \cup {<<s, 0>>}) = Cardinality({}) + 1
      BY <2>0, Zenon DEF RefsCountable
    <3> QED  BY <1>1, <2>1, <3>1, <3>2, Zenon
  <2>2. CASE g # f
    <3>1. Refs(g) = {}
      BY <1>7, <2>2, RefsIn, CowAssumption, SMTT(30)
    <3> QED  BY <1>1, <2>2, <3>1, Zenon
  <2> QED  BY <2>1, <2>2, Zenon
<1> QED  BY <1>4, <1>5, <1>6, <1>8, <1>9, SMTT(30) DEF MemInv

(* The inductive invariant implies what the runs check: an entry that is   *)
(* not copy-on-write has the only reference to its page, one that is       *)
(* cannot be written, and no kernel path panics.                           *)
LEMMA MemConsistent ==
    ASSUME MemInv
    PROVE  WritableExclusive /\ NoPanic
<1>1. WritableExclusive
  <2> SUFFICES ASSUME NEW s \in Space, NEW v \in Page, Valid(pt[s][v]), ~Released(s, v)
               PROVE  /\ pt[s][v].cow => ~pt[s][v].w
                      /\ ~pt[s][v].cow => Refs(pt[s][v].pa) = {<<s, v>>}
    BY Zenon DEF WritableExclusive
  <2>1. <<s, v>> \in Loc /\ Ref(<<s, v>>) = pt[s][v].pa /\ pt[s][v].pa # NoFrame
    BY LocIs, RefIs, Zenon DEF Valid
  <2>2. ASSUME ~pt[s][v].cow
        PROVE  Refs(pt[s][v].pa) = {<<s, v>>}
    <3>1. \A l \in Loc : Ref(l) = pt[s][v].pa <=> l = <<s, v>>
      BY <2>1, <2>2, OwnIs, Zenon DEF MemInv, Exclusive
    <3>2. \A l : l \in Refs(pt[s][v].pa) <=> l = <<s, v>>
      BY <2>1, <3>1, RefsIn, Zenon
    <3> QED  BY <3>2, Zenon
  <2> QED  BY <2>2, Zenon DEF MemInv, CowReadOnly
<1>2. NoPanic
  <2> SUFFICES ASSUME NEW s \in Space
               PROVE  /\ k[s].pc = "uvmcowpy" /\ k[s].pg < sz[s] =>
                            Valid(pt[s][k[s].pg]) /\ ~Valid(pt[k[s].tgt][k[s].pg])
                      /\ k[s].pc = "uvmunmap" /\ k[s].pg < k[s].end => Valid(pt[k[s].tgt][k[s].pg])
                      /\ k[s].pc = "mappages" => ~Valid(pt[k[s].tgt][k[s].pg])
                      /\ k[s].pc = "none" => \A v \in Page : ~Valid(pt[s][v])
    BY Zenon DEF NoPanic
  <2>0. k[s].pg \in 0 .. NPAGES /\ k[s].end \in 0 .. NPAGES /\ sz[s] \in 0 .. NPAGES /\ NPAGES \in Nat
    BY KTyped, CowAssumption, Zenon DEF Regs, MemInv, TypeOK
  <2>1. ASSUME k[s].pc = "uvmcowpy", k[s].pg < sz[s]
        PROVE  Valid(pt[s][k[s].pg]) /\ ~Valid(pt[k[s].tgt][k[s].pg])
    <3>1. k[s].pg \in Page /\ ~(k[s].pg < k[s].pg)
      BY <2>0, <2>1, SMTT(30) DEF Page
    <3> QED  BY <2>1, <3>1, CowpyRegs, Zenon
  <2>2. ASSUME k[s].pc = "uvmunmap", k[s].pg < k[s].end
        PROVE  Valid(pt[k[s].tgt][k[s].pg])
    <3>1. k[s].pg \in Page /\ k[s].pg <= k[s].pg
      BY <2>0, <2>2 DEF Page
    <3> QED  BY <2>2, <3>1, UnmapRegs, Zenon DEF UnmapPc
  <2>3. ASSUME k[s].pc = "mappages"
        PROVE  ~Valid(pt[k[s].tgt][k[s].pg])
    <3>1. k[s].pg < k[s].end /\ \A v \in Page : Valid(pt[k[s].tgt][v]) <=> v < k[s].pg
      BY <2>3, AllocRegs, Zenon DEF AllocPc
    <3>2. k[s].pg \in Page /\ ~(k[s].pg < k[s].pg)
      BY <2>0, <3>1 DEF Page
    <3> QED  BY <3>1, <3>2, Zenon
  <2>4. ASSUME k[s].pc = "none", NEW v \in Page
        PROVE  ~Valid(pt[s][v])
    <3>1. sz[s] = 0
      BY <2>4, KTyped, Zenon DEF PathInv, LoopInv, Pc
    <3>2. Valid(pt[s][v]) <=> v < sz[s]
      BY <2>4, NotUnderWay, Zenon DEF NoPath, LostPc
    <3> QED  BY <3>1, <3>2 DEF Page
  <2> QED  BY <2>1, <2>2, <2>3, <2>4, Zenon
<1> QED  BY <1>1, <1>2, Zenon

=============================================================================
