------------------------------ MODULE CowPaths ------------------------------
(***************************************************************************)
(* Facts about CowMemory on which the proofs of its actions rest: the      *)
(* references to a page and its count, addresses and pages, and what a     *)
(* step of one kernel path leaves of the others. Then the actions that     *)
(* start or end a kernel path, and kfree().                                *)
(***************************************************************************)
EXTENDS CowMemory, TLAPS

(* What the proofs need to know of the size of a set of references.        *)
RefsCountable ==
    \A S \in SUBSET Loc :
       /\ Cardinality(S) \in Nat
       /\ S = {} => Cardinality(S) = 0
       /\ \A l \in Loc \ S : Cardinality(S \cup {l}) = Cardinality(S) + 1

RefInv == RefCountExact /\ Exclusive

(* A set of references that loses one is smaller by one.                   *)
LEMMA CardRemove ==
    ASSUME RefsCountable, NEW S \in SUBSET Loc, NEW l \in S
    PROVE  Cardinality(S \ {l}) = Cardinality(S) - 1 /\ Cardinality(S) # 0
<1> DEFINE T == S \ {l}
<1>1. T \in SUBSET Loc /\ l \in Loc \ T /\ S = T \cup {l}
  BY Zenon
<1>2. Cardinality(T) \in Nat /\ Cardinality(T \cup {l}) = Cardinality(T) + 1
  BY <1>1, Zenon DEF RefsCountable
<1>3. Cardinality(S) = Cardinality(T) + 1
  BY <1>1, <1>2, Zenon
<1> QED  BY <1>2, <1>3

(* The references to a page, before and after a step, are the places that  *)
(* hold it.                                                                *)
LEMMA RefsIn ==
    /\ \A f : Refs(f) \in SUBSET Loc /\ \A l \in Loc : l \in Refs(f) <=> Ref(l) = f
    /\ \A f : Refs(f)' \in SUBSET Loc /\ \A l \in Loc : l \in Refs(f)' <=> Ref(l)' = f
  BY Zenon DEF Refs, Loc, Page

(* How to compute the references to a page after a step.                   *)
LEMMA RefsAre ==
    ASSUME NEW f, NEW S \in SUBSET Loc, \A l \in Loc : Ref(l)' = f <=> l \in S
    PROVE  Refs(f)' = S
<1>1. \A l : l \in Refs(f)' <=> l \in S
  BY RefsIn, Zenon
<1> QED  BY <1>1, Zenon

(* A page whose count is zero has only one reference.                      *)
LEMMA SoleRef ==
    ASSUME RefsCountable, RefCountExact, NEW l \in Loc, NEW m \in Loc,
           Ref(l) \in Frame, count[Ref(l)] = 0, Ref(m) = Ref(l)
    PROVE  m = l
<1> DEFINE f == Ref(l)
<1> HIDE DEF f
<1>1. l \in Refs(f) /\ m \in Refs(f) /\ Refs(f) \in SUBSET Loc /\ f \in Frame /\ count[f] = 0
  BY RefsIn, Zenon DEF f
<1>2. Cardinality(Refs(f)) = 1
  BY <1>1 DEF RefCountExact
<1>3. Cardinality(Refs(f) \ {l}) = 0
  BY <1>1, <1>2, CardRemove
<1>4. SUFFICES ASSUME m # l PROVE FALSE
  BY Zenon
<1>5. m \in Refs(f) \ {l} /\ Refs(f) \ {l} \in SUBSET Loc
  BY <1>1, <1>4, Zenon
<1> QED  BY <1>3, <1>5, CardRemove, Zenon

(* Only pages that are not free are referenced.                            *)
LEMMA RefNotFree ==
    ASSUME RefCountExact, NEW l \in Loc, NEW f \in Frame, Ref(l) = f
    PROVE  f \notin freelist
  BY RefsIn, Zenon DEF RefCountExact

(* A step that moves no reference, and makes no reference exclusive but a  *)
(* sole one, keeps the counts exact: most steps of a kernel path.          *)
LEMMA RefSame ==
    ASSUME RefsCountable, RefInv, UNCHANGED <<freelist, count>>,
           \A l \in Loc : Ref(l)' = Ref(l),
           \A l \in Loc : Own(l)' /\ Ref(l) # NoFrame => Own(l) \/ Refs(Ref(l)) = {l}
    PROVE  RefInv'
<1>1. \A f : Refs(f)' = Refs(f)
  BY RefsIn
<1>2. RefCountExact'
  BY <1>1, Zenon DEF RefInv, RefCountExact
<1>3. Exclusive'
  BY RefsIn DEF RefInv, Exclusive, Loc, Page
<1> QED  BY <1>2, <1>3, Zenon DEF RefInv

(* kalloc(): the page leaves the free list with count 0 and gets its first *)
(* reference, held by the caller.                                          *)
LEMMA RefGain ==
    ASSUME RefsCountable, RefInv, NEW x \in Loc, NEW f \in freelist, freelist \subseteq Frame,
           count \in [Frame -> Nat], NoFrame \notin Frame,
           freelist' = freelist \ {f}, count' = [count EXCEPT ![f] = 0],
           Ref(x) = NoFrame, Ref(x)' = f,
           \A l \in Loc \ {x} : Ref(l)' = Ref(l) /\ (Own(l)' /\ Ref(l)' # NoFrame => Own(l))
    PROVE  RefInv'
<1>1. Refs(f) = {}
  BY Zenon DEF RefInv, RefCountExact
<1>2. Refs(f)' = Refs(f) \cup {x}
  BY <1>1, RefsIn
<1>3. ASSUME NEW g \in Frame \ {f} PROVE Refs(g)' = Refs(g)
  <2>1. \A l \in Loc : Ref(l)' = g <=> l \in Refs(g)
    BY RefsIn, Zenon
  <2> QED  BY <2>1, RefsIn, RefsAre, Zenon
<1>4. Cardinality(Refs(f)') = 1
  <2>1. Refs(f) \in SUBSET Loc /\ x \in Loc \ Refs(f) /\ Cardinality(Refs(f)) = 0
    BY <1>1, Zenon DEF RefsCountable
  <2> QED  BY <1>2, <2>1 DEF RefsCountable
<1>5. RefCountExact'
  <2> SUFFICES ASSUME NEW g \in Frame
               PROVE  IF g \in freelist' THEN Refs(g)' = {}
                                         ELSE Cardinality(Refs(g)') = count'[g] + 1
    BY Zenon DEF RefCountExact
  <2>1. CASE g = f
    BY <2>1, <1>4
  <2>2. CASE g # f
    BY <2>2, <1>3, Zenon DEF RefInv, RefCountExact
  <2> QED  BY <2>1, <2>2, Zenon
<1>6. \A l \in Loc : Ref(l) # f
  BY <1>1, RefsIn, Zenon
<1>7. Exclusive'
  BY <1>6 DEF RefInv, Exclusive, Loc, Page
<1> QED  BY <1>5, <1>7, Zenon DEF RefInv

(* cowmappage() in uvmcowpy(): a second entry for a page, counted, both    *)
(* entries marked copy-on-write.                                           *)
LEMMA RefShare ==
    ASSUME RefsCountable, RefInv, NEW x \in Loc, NEW y \in Loc, x # y,
           count \in [Frame -> Nat], NoFrame \notin Frame,
           Ref(y) \in Frame, Ref(x) = NoFrame, Ref(x)' = Ref(y),
           UNCHANGED freelist, count' = [count EXCEPT ![Ref(y)] = @ + 1],
           \A l \in Loc \ {x} : Ref(l)' = Ref(l) /\ (Own(l)' /\ Ref(l)' # NoFrame => Own(l)),
           ~Own(x)', ~Own(y)'
    PROVE  RefInv'
<1> DEFINE f == Ref(y)
<1>0. f \in Frame /\ f \notin freelist /\ f # NoFrame
  BY RefNotFree, Zenon DEF RefInv
<1>1. x \notin Refs(f) /\ Refs(f) \in SUBSET Loc
  BY RefsIn, <1>0, Zenon
<1>2. Refs(f)' = Refs(f) \cup {x}
  <2> HIDE DEF f
  <2> QED  BY RefsIn DEF f
<1>3. ASSUME NEW g \in Frame \ {f} PROVE Refs(g)' = Refs(g)
  <2>1. \A l \in Loc : Ref(l)' = g <=> l \in Refs(g)
    BY RefsIn, <1>0
  <2> QED  BY <2>1, RefsIn, RefsAre, Zenon
<1> HIDE DEF f
<1>4. Cardinality(Refs(f)') = Cardinality(Refs(f)) + 1
  BY <1>1, <1>2, Zenon DEF RefsCountable
<1>5. RefCountExact'
  BY <1>0, <1>3, <1>4 DEF RefInv, RefCountExact, f
<1>6. Exclusive'
  <2> SUFFICES ASSUME NEW l \in Loc, NEW m \in Loc,
                      Own(l)', Ref(l)' # NoFrame, Ref(m)' = Ref(l)'
               PROVE  m = l
    BY Zenon DEF Exclusive, Loc, Page
  <2>1. l # x /\ l # y /\ Own(l) /\ Ref(l)' = Ref(l)
    BY Zenon
  <2>2. CASE m = x
    BY <2>1, <2>2, Zenon DEF RefInv, Exclusive
  <2>3. CASE m # x
    BY <2>1, <2>3, Zenon DEF RefInv, Exclusive
  <2> QED  BY <2>2, <2>3, Zenon
<1> QED  BY <1>5, <1>6, Zenon DEF RefInv

(* What is left when location x gives up its reference.                    *)
LEMMA RefLess ==
    ASSUME RefsCountable, RefInv, NEW x \in Loc, NEW f \in Frame, NoFrame \notin Frame,
           count \in [Frame -> Nat], Ref(x) = f, Ref(x)' = NoFrame,
           \A l \in Loc \ {x} : Ref(l)' = Ref(l) /\ (Own(l)' /\ Ref(l)' # NoFrame => Own(l))
    PROVE  /\ Exclusive'
           /\ Cardinality(Refs(f)') = count[f] /\ f \notin freelist
           /\ Refs(f)' = Refs(f) \ {x}
           /\ \A g \in Frame \ {f} : Refs(g)' = Refs(g)
<1>1. x \in Refs(f) /\ Refs(f) \in SUBSET Loc /\ f \notin freelist
  BY RefsIn, RefNotFree, Zenon DEF RefInv
<1>2. Cardinality(Refs(f)) = count[f] + 1 /\ Cardinality(Refs(f) \ {x}) = Cardinality(Refs(f)) - 1
  BY <1>1, CardRemove, Zenon DEF RefInv, RefCountExact
<1>3. Refs(f)' = Refs(f) \ {x}
  BY <1>1, RefsIn, RefsAre
<1>4. ASSUME NEW g \in Frame \ {f} PROVE Refs(g)' = Refs(g)
  <2>1. \A l \in Loc : Ref(l)' = g <=> l \in Refs(g)
    BY RefsIn, Zenon
  <2> QED  BY <2>1, RefsIn, RefsAre, Zenon
<1>5. Exclusive'
  BY DEF RefInv, Exclusive, Loc, Page
<1>6. Cardinality(Refs(f)) \in Nat
  BY <1>1, Zenon DEF RefsCountable
<1>7. Cardinality(Refs(f)') = count[f]
  BY <1>2, <1>3, <1>6
<1> QED  BY <1>1, <1>3, <1>4, <1>5, <1>7, Zenon

(* kfree() of a page that has other references: one reference and one      *)
(* count less.                                                             *)
LEMMA RefDrop ==
    ASSUME RefsCountable, RefInv, NEW x \in Loc, NEW f \in Frame, NoFrame \notin Frame,
           count \in [Frame -> Nat], Ref(x) = f, Ref(x)' = NoFrame,
           \A l \in Loc \ {x} : Ref(l)' = Ref(l) /\ (Own(l)' /\ Ref(l)' # NoFrame => Own(l)),
           UNCHANGED freelist, count' = [count EXCEPT ![f] = @ - 1]
    PROVE  RefInv'
<1>1. /\ Exclusive'
      /\ Cardinality(Refs(f)') = count[f] /\ f \notin freelist
      /\ \A g \in Frame \ {f} : Refs(g)' = Refs(g)
  BY RefLess, Zenon
<1>2. RefCountExact'
  <2> SUFFICES ASSUME NEW g \in Frame
               PROVE  IF g \in freelist' THEN Refs(g)' = {}
                                         ELSE Cardinality(Refs(g)') = count'[g] + 1
    BY Zenon DEF RefCountExact
  <2>1. CASE g = f
    BY <2>1, <1>1
  <2>2. CASE g # f
    BY <2>2, <1>1, Zenon DEF RefInv, RefCountExact
  <2> QED  BY <2>1, <2>2, Zenon
<1> QED  BY <1>1, <1>2, Zenon DEF RefInv

(* kfree() of a page that has no other reference: the page goes to the     *)
(* free list.                                                              *)
LEMMA RefFree ==
    ASSUME RefsCountable, RefInv, NEW x \in Loc, NEW f \in Frame, NoFrame \notin Frame,
           count \in [Frame -> Nat], Own(x), Ref(x) = f, Ref(x)' = NoFrame,
           \A l \in Loc \ {x} : Ref(l)' = Ref(l) /\ (Own(l)' /\ Ref(l)' # NoFrame => Own(l)),
           freelist' = freelist \cup {f}, UNCHANGED count
    PROVE  RefInv'
<1>1. /\ Exclusive'
      /\ Refs(f)' = Refs(f) \ {x}
      /\ \A g \in Frame \ {f} : Refs(g)' = Refs(g)
  BY RefLess, Zenon
<1>2. \A l \in Refs(f) : l = x
  BY RefsIn, Zenon DEF RefInv, Exclusive
<1>3. RefCountExact'
  <2> SUFFICES ASSUME NEW g \in Frame
               PROVE  IF g \in freelist' THEN Refs(g)' = {}
                                         ELSE Cardinality(Refs(g)') = count'[g] + 1
    BY Zenon DEF RefCountExact
  <2>1. CASE g = f
    BY <2>1, <1>1, <1>2, Zenon
  <2>2. CASE g # f
    BY <2>2, <1>1, Zenon DEF RefInv, RefCountExact
  <2> QED  BY <2>1, <2>2, Zenon
<1> QED  BY <1>1, <1>3, Zenon DEF RefInv

(* A page changes hands between a kernel path and a page-table entry:      *)
(* dup_pg() and uvmalloc() map a page, uvmunmap() takes one out.           *)
LEMMA RefSwap ==
    ASSUME RefsCountable, RefInv, NEW x \in Loc, NEW y \in Loc, x # y,
           Ref(x)' = Ref(y), Ref(y)' = Ref(x),
           Own(x)' /\ Ref(x)' # NoFrame => Own(y), Own(y)' /\ Ref(y)' # NoFrame => Own(x),
           \A l \in Loc \ {x, y} : Ref(l)' = Ref(l) /\ (Own(l)' /\ Ref(l)' # NoFrame => Own(l)),
           UNCHANGED <<freelist, count>>
    PROVE  RefInv'
<1>1. ASSUME NEW f \in Frame, NEW a \in {x, y}, NEW b \in {x, y}, Ref(a) = f, Ref(b) # f
      PROVE  Refs(f)' = (Refs(f) \ {a}) \cup {b} /\ Cardinality(Refs(f)') = Cardinality(Refs(f))
  <2>1. a # b /\ a \in Refs(f) /\ b \notin Refs(f) /\ Refs(f) \in SUBSET Loc
    BY <1>1, RefsIn
  <2> DEFINE U == (Refs(f) \ {a}) \cup {b}
  <2>2. \A l \in Loc : Ref(l)' = f <=> l \in U
    BY <1>1, <2>1, RefsIn, Zenon
  <2>3. U \in SUBSET Loc
    BY <2>1, Zenon
  <2> HIDE DEF U
  <2>8. Refs(f)' = U
    BY <2>2, <2>3, RefsAre, Zenon
  <2> DEFINE T == Refs(f) \ {a}
  <2>4. T \in SUBSET Loc /\ b \in Loc \ T
    BY <2>1, Zenon
  <2>5. Cardinality(T) = Cardinality(Refs(f)) - 1 /\ Cardinality(Refs(f)) \in Nat
    BY <2>1, CardRemove, Zenon DEF RefsCountable
  <2>6. Cardinality(T \cup {b}) = Cardinality(T) + 1
    BY <2>4, Zenon DEF RefsCountable
  <2> HIDE DEF T
  <2>7. Cardinality(T \cup {b}) = Cardinality(Refs(f))
    BY <2>5, <2>6
  <2> QED  BY <2>7, <2>8, Zenon DEF T, U
<1>2. ASSUME NEW f \in Frame, (Ref(x) = f) <=> (Ref(y) = f)
      PROVE  Refs(f)' = Refs(f)
  <2>1. \A l \in Loc : Ref(l)' = f <=> l \in Refs(f)
    BY <1>2, RefsIn, Zenon
  <2> QED  BY <2>1, RefsIn, RefsAre, Zenon
<1>3. RefCountExact'
  <2> SUFFICES ASSUME NEW g \in Frame
               PROVE  IF g \in freelist' THEN Refs(g)' = {}
                                         ELSE Cardinality(Refs(g)') = count'[g] + 1
    BY Zenon DEF RefCountExact
  <2>1. CASE Ref(x) = g /\ Ref(y) # g
    BY <2>1, <1>1, RefNotFree, Zenon DEF RefInv, RefCountExact
  <2>2. CASE Ref(y) = g /\ Ref(x) # g
    BY <2>2, <1>1, RefNotFree, Zenon DEF RefInv, RefCountExact
  <2>3. CASE (Ref(x) = g) <=> (Ref(y) = g)
    BY <2>3, <1>2, Zenon DEF RefInv, RefCountExact
  <2> QED  BY <2>1, <2>2, <2>3, Zenon
<1>4. Exclusive'
  <2> SUFFICES ASSUME NEW l \in Loc, NEW m \in Loc,
                      Own(l)', Ref(l)' # NoFrame, Ref(m)' = Ref(l)'
               PROVE  m = l
    BY Zenon DEF Exclusive, Loc, Page
  <2> DEFINE to(a) == IF a = x THEN y ELSE IF a = y THEN x ELSE a
  <2>1. \A a \in Loc : to(a) \in Loc /\ Ref(a)' = Ref(to(a)) /\ (Own(a)' /\ Ref(a)' # NoFrame => Own(to(a)))
    BY Zenon
  <2> HIDE DEF to
  <2>2. to(m) = to(l)
    BY <2>1 DEF RefInv, Exclusive
  <2> QED  BY <2>2, Zenon DEF to
<1> QED  BY <1>3, <1>4, Zenon DEF RefInv

-----------------------------------------------------------------------------
(* Addresses and pages.                                                    *)

(* PGROUNDDOWN() of an address below the end of user memory is a page.     *)
LEMMA AddrPage ==
    ASSUME NEW a \in Addr, a # Far
    PROVE  PageOf(a) \in Page
<1>1. PGSIZE \in Nat /\ PGSIZE > 0 /\ NPAGES \in Nat /\ a \in Nat /\ a < NPAGES * PGSIZE
  BY CowAssumption DEF Addr, Far
<1>2. a \div PGSIZE \in Nat /\ a = PGSIZE * (a \div PGSIZE) + (a % PGSIZE) /\ a % PGSIZE >= 0
  BY <1>1
<1>3. a \div PGSIZE < NPAGES
  BY <1>1, <1>2
<1> QED  BY <1>1, <1>2, <1>3 DEF PageOf, Page

(* A page begins at an address of user memory.                             *)
LEMMA PageAddr ==
    ASSUME NEW v \in Page
    PROVE  v * PGSIZE \in Addr
<1>1. PGSIZE \in Nat /\ PGSIZE > 0 /\ NPAGES \in Nat /\ v \in Nat /\ v < NPAGES
  BY CowAssumption DEF Page
<1>2. v * PGSIZE \in Nat /\ NPAGES * PGSIZE \in Nat /\ v * PGSIZE <= NPAGES * PGSIZE
  BY <1>1
<1> QED  BY <1>2 DEF Addr, Far

(* copyout() goes on to an address of user memory.                         *)
LEMMA NextAddr ==
    ASSUME NEW a \in Addr, NEW e \in 0 .. NPAGES, PageOf(a) + 1 < e
    PROVE  a + PGSIZE \in Addr
<1>1. PGSIZE \in Nat /\ PGSIZE > 0 /\ NPAGES \in Nat /\ a \in Nat
  BY CowAssumption DEF Addr, Far
<1>2. a \div PGSIZE \in Nat /\ a = PGSIZE * (a \div PGSIZE) + (a % PGSIZE)
      /\ a % PGSIZE < PGSIZE /\ a % PGSIZE \in Nat
  BY <1>1
<1>3. (a \div PGSIZE) + 2 <= NPAGES
  BY <1>1, <1>2 DEF PageOf
<1>4. PICK q \in Nat : q = a \div PGSIZE
  BY <1>2, Zenon
<1>5. PGSIZE * (q + 2) <= PGSIZE * NPAGES
  BY <1>1, <1>3, <1>4
<1>6. a + PGSIZE <= NPAGES * PGSIZE
  BY <1>1, <1>2, <1>4, <1>5
<1> QED  BY <1>1, <1>6 DEF Addr, Far

-----------------------------------------------------------------------------
(* References and steps.                                                   *)

(* A place for a reference is a path's register or a page-table entry.     *)
LEMMA LocIs ==
    /\ \A s \in Space : <<s, -1>> \in Loc
    /\ \A s \in Space, v \in Page : <<s, v>> \in Loc /\ v # -1
    /\ \A l \in Loc : (l[1] \in Space /\ l[2] = -1 /\ l = <<l[1], -1>>)
                      \/ (l[1] \in Space /\ l[2] \in Page /\ l[2] # -1 /\ l = <<l[1], l[2]>>)
<1>1. \A v \in Page : v # -1
  BY CowAssumption DEF Page
<1> QED  BY <1>1 DEF Loc

(* What each of the two kinds of places refers to.                         *)
LEMMA RefIs ==
    /\ \A s \in Space : Ref(<<s, -1>>) = k[s].pa /\ Ref(<<s, -1>>)' = k'[s].pa
    /\ \A s \in Space, v \in Page :
          /\ Ref(<<s, v>>) = IF Released(s, v) THEN NoFrame ELSE pt[s][v].pa
          /\ Ref(<<s, v>>)' = IF Released(s, v)' THEN NoFrame ELSE pt'[s][v].pa
  BY LocIs, Zenon DEF Ref

(* Where a kernel path holds a page that nobody else refers to.            *)
OwnPc == {"memmove", "setpte", "mappages", "freepage"}

(* Which of the two kinds of places are exclusive.                         *)
LEMMA OwnIs ==
    /\ \A s \in Space : (Own(<<s, -1>>) <=> k[s].pc \in OwnPc)
                        /\ (Own(<<s, -1>>)' <=> k'[s].pc \in OwnPc)
    /\ \A s \in Space, v \in Page : (Own(<<s, v>>) <=> ~pt[s][v].cow)
                                    /\ (Own(<<s, v>>)' <=> ~pt'[s][v].cow)
  BY LocIs, Zenon DEF Own, OwnPc

(* The step leaves the entry that the path of s is releasing as it is.     *)
SameRelease(s) ==
    /\ k'[s].ra = "clear" <=> k[s].ra = "clear"
    /\ k[s].ra = "clear" => k'[s].tgt = k[s].tgt /\ k'[s].pg = k[s].pg

(* Then every entry is released exactly if it was.                         *)
LEMMA ReleasedSame ==
    ASSUME \A s \in Space : SameRelease(s)
    PROVE  \A s, v : Released(s, v)' <=> Released(s, v)
  BY Zenon DEF Released, SameRelease

(* A step that changes only registers of the paths, and gives no path a    *)
(* page of its own.                                                        *)
LEMMA RegsOnlyRefs ==
    ASSUME RefsCountable, RefInv, UNCHANGED <<freelist, count, pt>>,
           \A t \in Space : SameRelease(t) /\ k'[t].pa = k[t].pa
                            /\ (k'[t].pc \in OwnPc => k[t].pc \in OwnPc)
    PROVE  RefInv'
<1>1. \A s, v : Released(s, v)' <=> Released(s, v)
  BY ReleasedSame, Zenon
<1>2. \A l \in Loc : Ref(l)' = Ref(l) /\ (Own(l)' => Own(l))
  BY <1>1, LocIs, RefIs, OwnIs
<1> QED  BY <1>2, RefSame, Zenon

(* A step of path s leaves the other paths' references alone, and those    *)
(* of the page-table entries it does not change.                           *)
LEMMA PathRefs ==
    ASSUME NEW s \in Space, \A t \in Space \ {s} : k'[t] = k[t], SameRelease(s)
    PROVE  /\ \A t, v : Released(t, v)' <=> Released(t, v)
           /\ \A t \in Space \ {s} : LET l == <<t, -1>>
                                     IN  Ref(l)' = Ref(l) /\ (Own(l)' => Own(l))
           /\ \A t \in Space, v \in Page :
                 pt'[t][v] = pt[t][v] => LET l == <<t, v>>
                                         IN  Ref(l)' = Ref(l) /\ (Own(l)' => Own(l))
<1>1. \A t \in Space : SameRelease(t)
  BY Zenon DEF SameRelease
<1>2. \A t, v : Released(t, v)' <=> Released(t, v)
  BY <1>1, ReleasedSame, Zenon
<1> QED  BY <1>2, LocIs, RefIs, OwnIs

(* A step of path s that leaves the page tables alone moves no reference   *)
(* but the one in the registers of s.                                      *)
LEMMA PathRefsOnly ==
    ASSUME NEW s \in Space, \A t \in Space \ {s} : k'[t] = k[t], SameRelease(s), UNCHANGED pt
    PROVE  \A l \in Loc \ {<<s, -1>>} : Ref(l)' = Ref(l) /\ (Own(l)' => Own(l))
<1> SUFFICES ASSUME NEW l \in Loc \ {<<s, -1>>}
             PROVE  Ref(l)' = Ref(l) /\ (Own(l)' => Own(l))
  BY Zenon
<1>1. CASE l[2] = -1
  BY <1>1, LocIs, PathRefs
<1>2. CASE l[2] # -1
  BY <1>2, LocIs, PathRefs
<1> QED  BY <1>1, <1>2, Zenon

-----------------------------------------------------------------------------
(* The registers of a space that is not in a kernel path.                  *)
LEMMA IdleIs ==
    \A p : /\ Idle(p).pc = p /\ Idle(p).op = "none" /\ Idle(p).ra = "none" /\ Idle(p).tgt = NoSpace
           /\ Idle(p).pa = NoFrame /\ Idle(p).pg = 0 /\ Idle(p).base = 0
  BY Zenon DEF Idle

(* They are of the type of a path's registers.                             *)
LEMMA IdleRegs ==
    ASSUME NEW p \in NoPath \cup {"uvmunmap"}
    PROVE  Idle(p) \in Regs
<1>1. NPAGES * PGSIZE \in Nat /\ NPAGES \in Nat /\ Len(Segments) \in Nat
  BY CowAssumption
<1>2. 0 \in 0 .. NPAGES /\ 0 \in Addr /\ 0 \in 0 .. Len(Segments)
  BY <1>1 DEF Addr, Far
<1> QED  BY <1>2, CowAssumption, Zenon DEF Idle, Regs, NoPath

(* The registers with which uvmunmap() starts on pages b..e-1 of c.        *)
LEMMA UnmapRecord ==
    ASSUME NEW s \in Space, k[s] \in Regs, NEW c \in Space, NEW b \in 0 .. NPAGES, NEW e \in 0 .. NPAGES,
           NEW o \in {"shrink", "free", "fork_fail", "exec_bad"}
    PROVE  /\ StartUnmap(s, o, c, b, e) \in Regs
           /\ StartUnmap(s, o, c, b, e).pc = "uvmunmap" /\ StartUnmap(s, o, c, b, e).ra = "none"
           /\ StartUnmap(s, o, c, b, e).op = o /\ StartUnmap(s, o, c, b, e).tgt = c
           /\ StartUnmap(s, o, c, b, e).base = b /\ StartUnmap(s, o, c, b, e).pg = b
           /\ StartUnmap(s, o, c, b, e).end = e /\ StartUnmap(s, o, c, b, e).pa = k[s].pa
<1>1. PICK r \in Regs : r = k[s]
  BY Zenon
<1>2. PICK q : q = [r EXCEPT !.pc = "uvmunmap", !.op = o, !.ra = "none", !.tgt = c,
                            !.base = b, !.pg = b, !.end = e]
  BY Zenon
<1>3. StartUnmap(s, o, c, b, e) = q
  BY <1>1, <1>2, Zenon DEF StartUnmap
<1>4. /\ q.pc = "uvmunmap" /\ q.op = o /\ q.ra = "none" /\ q.tgt = c
      /\ q.base = b /\ q.pg = b /\ q.end = e /\ q.pa = r.pa
  BY <1>2, Zenon DEF Regs
<1>5. q \in Regs
  <2>1. o \in {"none", "trap", "copyout", "fork", "grow", "shrink", "grow_fail", "exec",
               "exec_fail"} \cup FreeOps
    BY Zenon DEF FreeOps
  <2> QED  BY <1>2, <2>1, ZenonT(30) DEF Regs
<1> QED  BY <1>1, <1>3, <1>4, <1>5, Zenon

(* A path that takes no step, on a page table whose size is unchanged.     *)
LEMMA LoopSame ==
    ASSUME NEW t \in Space, k'[t] = k[t], LoopInv(t),
           Pc(t) \notin NoPath \cup DupPc => sz'[k[t].tgt] = sz[k[t].tgt],
           Pc(t) \notin {"setup", "dead"} => sz'[t] = sz[t]
    PROVE  LoopInv(t)'
<1>1. Pc(t)' = Pc(t)
  BY Zenon DEF Pc
<1> QED  BY <1>1, Zenon DEF LoopInv, NoPath, DupPc, UnmapPc, AllocPc

(* A step of one path: what it has to establish for the whole invariant.   *)
LEMMA OneStep ==
    ASSUME MemInv, NEW s \in Space,
           \A t \in Space \ {s} : k'[t] = k[t],
           k[s].pc \notin {"none", "setup", "dead", "lost", "lost_zombie"},
           k'[s].pc \notin {"none", "setup", "dead", "lost", "lost_zombie"},
           \A t \in Space, v \in Page :
              t # k[s].tgt => /\ Valid(pt'[t][v]) <=> Valid(pt[t][v])
                              /\ t # s => pt'[t][v] = pt[t][v],
           \A t \in Space : t # k[s].tgt => sz'[t] = sz[t],
           \/ k'[s].tgt = k[s].tgt
           \/ k[s].tgt \in {s, NoSpace} /\ k'[s].tgt \in {s, NoSpace},
           PathInv(s)',
           \A v \in Page : k'[s].tgt # NoSpace => (Valid(pt'[k'[s].tgt][v]) <=> Built(s, v)'),
           \A v \in Page : k[s].tgt # NoSpace /\ k'[s].tgt = NoSpace =>
                             (Valid(pt'[s][v]) <=> v < sz'[s])
    PROVE  OneWorker' /\ PagesMapped' /\ \A t \in Space : PathInv(t)'
<1>1. OneWorker'
  BY CowAssumption, SMTT(30) DEF OneWorker, MemInv
<1>2. ASSUME NEW t \in Space, t # s
      PROVE  /\ PathInv(t)'
             /\ k[t].tgt # NoSpace => k[t].tgt # k[s].tgt
             /\ \A v \in Page : k[t].tgt # NoSpace => (Valid(pt'[k[t].tgt][v]) <=> Built(t, v)')
  <2>1. k'[t] = k[t] /\ Pc(t)' = Pc(t) /\ k[t] \in Regs /\ PathInv(t)
    BY <1>2, Zenon DEF Pc, MemInv, TypeOK
  <2>2. k[t].tgt # NoSpace => k[t].tgt \in Space /\ k[t].tgt # k[s].tgt /\ sz'[k[t].tgt] = sz[k[t].tgt]
    BY <1>2, <2>1, Zenon DEF MemInv, OneWorker, Regs
  <2>3. t = k[s].tgt => k[t].pc \in {"setup", "dead"}
    BY <1>2, Zenon DEF MemInv, OneWorker
  <2>4. RegsInv(t)'
    BY <2>1, ZenonT(30) DEF PathInv, RegsInv
  <2>5. LoopInv(t)'
    <3>0. LoopInv(t) /\ (Pc(t) \notin NoPath \cup DupPc => k[t].tgt \in Space)
      BY <2>1, Zenon DEF PathInv, RegsInv
    <3>1. Pc(t) \notin NoPath \cup DupPc => sz'[k[t].tgt] = sz[k[t].tgt]
      BY <2>2, <3>0, CowAssumption, Zenon
    <3>2. Pc(t) \notin {"setup", "dead"} => sz'[t] = sz[t]
      BY <2>3, Zenon DEF Pc
    <3> QED  BY <2>1, <3>0, <3>1, <3>2, LoopSame, Zenon
  <2>6. DupInv(t)'
    <3>1. t # k[s].tgt => PteAt(t, k[t].addr)' = PteAt(t, k[t].addr)
      BY <1>2, <2>1, AddrPage DEF PteAt, Regs
    <3> QED  BY <2>1, <2>3, <3>1, Zenon DEF PathInv, DupInv, DupPte
  <2>7. \A v \in Page : k[t].tgt # NoSpace => (Built(t, v)' <=> Built(t, v))
    BY <2>1, <2>2, Zenon DEF Built
  <2>8. \A v \in Page : k[t].tgt # NoSpace => (Valid(pt'[k[t].tgt][v]) <=> Valid(pt[k[t].tgt][v]))
    BY <2>2, Zenon
  <2> QED  BY <2>2, <2>4, <2>5, <2>6, <2>7, <2>8, Zenon DEF PathInv, MemInv, PagesMapped
<1>3. PagesMapped'
  <2> SUFFICES ASSUME NEW t \in Space, NEW v \in Page
               PROVE  /\ (\A r \in Space : k'[r].tgt # t) =>
                            (Valid(pt'[t][v]) <=> v < sz'[t] /\ k'[t].pc \notin LostPc)
                      /\ k'[t].tgt # NoSpace => (Valid(pt'[k'[t].tgt][v]) <=> Built(t, v)')
    BY Zenon DEF PagesMapped, Page
  <2>1. k'[t].tgt # NoSpace => (Valid(pt'[k'[t].tgt][v]) <=> Built(t, v)')
    BY <1>2
  <2>2. ASSUME \A r \in Space : k'[r].tgt # t
        PROVE  Valid(pt'[t][v]) <=> v < sz'[t] /\ k'[t].pc \notin LostPc
    <3>1. CASE t = k[s].tgt
      BY <2>2, <3>1, CowAssumption, Zenon DEF LostPc
    <3>2. CASE t # k[s].tgt
      <4>1. \A r \in Space : k[r].tgt # t
        BY <2>2, <3>2, Zenon
      <4>2. Valid(pt[t][v]) <=> v < sz[t] /\ k[t].pc \notin LostPc
        BY <4>1, Zenon DEF MemInv, PagesMapped
      <4>3. k'[t].pc \notin LostPc <=> k[t].pc \notin LostPc
        BY <3>2, Zenon DEF LostPc
      <4> QED  BY <3>2, <4>2, <4>3, Zenon
    <3> QED  BY <3>1, <3>2, Zenon
  <2> QED  BY <2>1, <2>2, Zenon
<1> QED  BY <1>1, <1>2, <1>3, Zenon

(* A step of path s that starts, hands over or ends its work on space c.   *)
LEMMA TwoStep ==
    ASSUME MemInv, NEW s \in Space, NEW c \in Space, s # c, pt' = pt,
           \A t \in Space \ {s, c} : k'[t] = k[t] /\ k[t].tgt \notin {s, c},
           \A t \in Space \ {c} : sz'[t] = sz[t],
           k[s].tgt \in {NoSpace, c}, k[c].tgt \in {NoSpace, s},
           k'[s].tgt \in {NoSpace, c}, k'[c].tgt \in {NoSpace, s},
           k'[s].tgt = c => k'[c].pc \in {"setup", "dead"} /\ k'[c].tgt = NoSpace,
           k'[c].tgt = s => k'[s].pc \in {"setup", "dead"} /\ k'[s].tgt = NoSpace,
           PathInv(s)', PathInv(c)',
           \A v \in Page :
              /\ Valid(pt[c][v]) <=> IF k'[s].tgt = c THEN Built(s, v)' ELSE v < sz'[c] /\ k'[c].pc \notin LostPc
              /\ Valid(pt[s][v]) <=> IF k'[c].tgt = s THEN Built(c, v)' ELSE v < sz'[s] /\ k'[s].pc \notin LostPc
    PROVE  OneWorker' /\ PagesMapped' /\ \A t \in Space : PathInv(t)'
<1> USE CowAssumption
<1>1. OneWorker'
  <2> SUFFICES ASSUME NEW r \in Space, NEW t \in Space
               PROVE  /\ k'[r].tgt = t /\ r # t => k'[t].pc \in {"setup", "dead"}
                      /\ k'[r].tgt = k'[t].tgt /\ k'[r].tgt # NoSpace => r = t
    BY Zenon DEF OneWorker
  <2>1. \A q \in Space \ {s, c} : k'[q].tgt \notin {s, c}
    BY Zenon
  <2>2. CASE r \in {s, c}
    BY <2>1, <2>2, Zenon
  <2>3. CASE r \notin {s, c}
    BY <2>1, <2>3 DEF MemInv, OneWorker
  <2> QED  BY <2>2, <2>3, Zenon
<1>2. ASSUME NEW t \in Space \ {s, c}
      PROVE  /\ PathInv(t)'
             /\ \A v \in Page : k[t].tgt # NoSpace => (Valid(pt'[k[t].tgt][v]) <=> Built(t, v)')
  <2>1. k'[t] = k[t] /\ Pc(t)' = Pc(t) /\ k[t] \in Regs /\ PathInv(t) /\ sz'[t] = sz[t]
    BY Zenon DEF Pc, MemInv, TypeOK
  <2>2. k[t].tgt # NoSpace => k[t].tgt \in Space /\ sz'[k[t].tgt] = sz[k[t].tgt]
    BY <2>1, Zenon DEF Regs
  <2>3. RegsInv(t)'
    BY <2>1, ZenonT(30) DEF PathInv, RegsInv
  <2>4. LoopInv(t)'
    <3>0. LoopInv(t) /\ (Pc(t) \notin NoPath \cup DupPc => k[t].tgt \in Space)
      BY <2>1, Zenon DEF PathInv, RegsInv
    <3>1. Pc(t) \notin NoPath \cup DupPc => sz'[k[t].tgt] = sz[k[t].tgt]
      BY <2>2, <3>0, Zenon
    <3> QED  BY <2>1, <3>0, <3>1, LoopSame, Zenon
  <2>5. DupInv(t)'
    BY <2>1, ZenonT(30) DEF PathInv, DupInv, DupPte, PteAt
  <2>6. \A v \in Page : k[t].tgt # NoSpace => (Built(t, v)' <=> Built(t, v))
    BY <2>1, <2>2, Zenon DEF Built
  <2> QED  BY <2>3, <2>4, <2>5, <2>6, Zenon DEF PathInv, MemInv, PagesMapped
<1>3. PagesMapped'
  <2> SUFFICES ASSUME NEW t \in Space, NEW v \in Page
               PROVE  /\ (\A r \in Space : k'[r].tgt # t) =>
                            (Valid(pt'[t][v]) <=> v < sz'[t] /\ k'[t].pc \notin LostPc)
                      /\ k'[t].tgt # NoSpace => (Valid(pt'[k'[t].tgt][v]) <=> Built(t, v)')
    BY Zenon DEF PagesMapped, Page
  <2>1. k'[t].tgt # NoSpace => (Valid(pt'[k'[t].tgt][v]) <=> Built(t, v)')
    BY <1>2
  <2>2. ASSUME \A r \in Space : k'[r].tgt # t
        PROVE  Valid(pt'[t][v]) <=> v < sz'[t] /\ k'[t].pc \notin LostPc
    <3>1. CASE t \in {s, c}
      BY <2>2, <3>1, Zenon
    <3>2. CASE t \notin {s, c}
      <4>1. \A r \in Space : k[r].tgt # t
        BY <2>2, <3>2
      <4>2. Valid(pt[t][v]) <=> v < sz[t] /\ k[t].pc \notin LostPc
        BY <4>1, Zenon DEF MemInv, PagesMapped
      <4>3. k'[t].pc \notin LostPc <=> k[t].pc \notin LostPc
        BY <3>2, Zenon DEF LostPc
      <4> QED  BY <3>2, <4>2, <4>3, Zenon
    <3> QED  BY <3>1, <3>2, Zenon
  <2> QED  BY <2>1, <2>2, Zenon
<1> QED  BY <1>1, <1>2, <1>3, Zenon

-----------------------------------------------------------------------------
(* The actions.                                                            *)

(* The registers of a path have their type.                                *)
LEMMA KTyped ==
    ASSUME MemInv, NEW s \in Space
    PROVE  k[s] \in Regs /\ PathInv(s)
  BY Zenon DEF MemInv, TypeOK

(* A step of path s that changes nothing but its registers, to q, and the  *)
(* contents of pages.                                                      *)
LEMMA QuietPath ==
    ASSUME RefsCountable, MemInv, NEW s \in Space, NEW q \in Regs, k' = [k EXCEPT ![s] = q],
           UNCHANGED <<freelist, count, pt, sz>>, mem' \in [Frame -> Content],
           k[s].pc \notin {"none", "setup", "dead", "lost", "lost_zombie"}, q.pc \notin {"none", "setup", "dead", "lost", "lost_zombie"},
           q.pa = k[s].pa, q.pc \in OwnPc => k[s].pc \in OwnPc, SameRelease(s),
           \/ q.tgt = k[s].tgt
           \/ k[s].tgt \in {s, NoSpace} /\ q.tgt \in {s, NoSpace},
           PathInv(s)',
           \A v \in Page : q.tgt # NoSpace => (Valid(pt[q.tgt][v]) <=> Built(s, v)'),
           \A v \in Page : k[s].tgt # NoSpace /\ q.tgt = NoSpace => (Valid(pt[s][v]) <=> v < sz[s])
    PROVE  MemInv'
<1>1. k'[s] = q /\ \A t \in Space \ {s} : k'[t] = k[t]
  BY Zenon DEF MemInv, TypeOK
<1>2. TypeOK'
  BY Zenon DEF MemInv, TypeOK
<1>3. OneWorker' /\ PagesMapped' /\ \A t \in Space : PathInv(t)'
  BY <1>1, OneStep, Zenon
<1>4. RefInv'
  <2>1. \A t \in Space : SameRelease(t) /\ k'[t].pa = k[t].pa
                         /\ (k'[t].pc \in OwnPc => k[t].pc \in OwnPc)
    BY <1>1, Zenon DEF SameRelease
  <2> QED  BY <2>1, RegsOnlyRefs, Zenon DEF MemInv, RefInv
<1>5. CowReadOnly'
  BY Zenon DEF MemInv, CowReadOnly
<1> QED  BY <1>2, <1>3, <1>4, <1>5, Zenon DEF MemInv, RefInv

(* The registers of a path that is not under way, and its page table.      *)
LEMMA NotUnderWay ==
    ASSUME MemInv, NEW s \in Space, k[s].pc \in NoPath
    PROVE  /\ k[s] = Idle(k[s].pc)
           /\ k[s].pc \notin {"setup", "dead"} =>
                 /\ \A t \in Space : k[t].tgt # s
                 /\ \A v \in Page : Valid(pt[s][v]) <=> v < sz[s] /\ k[s].pc \notin LostPc
<1>1. k[s] = Idle(k[s].pc)
  BY Zenon DEF MemInv, PathInv, RegsInv, Pc, NoPath
<1>2. k[s].tgt = NoSpace
  BY <1>1, IdleIs, Zenon
<1>3. k[s].pc \notin {"setup", "dead"} => \A t \in Space : k[t].tgt # s
  BY <1>2, CowAssumption, Zenon DEF MemInv, OneWorker
<1> QED  BY <1>1, <1>3, Zenon DEF MemInv, PagesMapped

(* A space in user mode: nobody works on its page table, which maps the    *)
(* pages below p->sz and no other.                                         *)
LEMMA UserIdle ==
    ASSUME MemInv, NEW s \in Space, k[s].pc = "user"
    PROVE  /\ k[s] = Idle("user") /\ Idle("user") \in Regs
           /\ \A t \in Space : k[t].tgt # s
           /\ \A v \in Page : Valid(pt[s][v]) <=> v < sz[s]
           /\ sz[s] \in 0 .. NPAGES
  BY NotUnderWay, KTyped DEF NoPath, LostPc, MemInv, TypeOK

(* The path of s is at the head of the loop of uvmalloc(), or of uvmunmap().*)
LEMMA AllocPath ==
    ASSUME NEW s \in Space, k'[s].pc = "uvmalloc", k'[s].ra # "clear", k'[s].pa = NoFrame,
           k'[s].tgt \in Space, k'[s].base = sz'[k'[s].tgt],
           k'[s].base <= k'[s].pg, k'[s].pg <= k'[s].end,
           \/ k'[s].op = "grow" /\ k'[s].tgt = s
           \/ k'[s].op = "exec" /\ k'[s].tgt # s /\ k'[s].seg # 0
    PROVE  PathInv(s)' /\ \A v \in Page : Built(s, v)' <=> v < k'[s].pg
<1>1. Pc(s)' = "uvmalloc"
  BY Zenon DEF Pc
<1>2. RegsInv(s)'
  BY <1>1, Zenon DEF RegsInv, NoPath, DupPc
<1>3. LoopInv(s)'
  BY <1>1, Zenon DEF LoopInv, UnmapPc, AllocPc, FreeOps
<1> QED  BY <1>1, <1>2, <1>3, Zenon DEF PathInv, DupInv, Built, UnmapPc

(* The same for uvmunmap() on behalf of sbrk(), exec(), fork() and wait(). *)
LEMMA UnmapPath ==
    ASSUME NEW s \in Space,
           \/ k'[s].pc = "uvmunmap" /\ k'[s].ra # "clear" /\ k'[s].pa = NoFrame
           \/ k'[s].pc = "kfree" /\ k'[s].ra = "uvmunmap" /\ k'[s].pa # NoFrame,
           k'[s].tgt \in Space, k'[s].base <= k'[s].pg, k'[s].pg <= k'[s].end,
           \/ k'[s].op = "shrink" /\ k'[s].tgt = s
           \/ k'[s].op = "grow_fail" /\ k'[s].tgt = s /\ k'[s].base = sz'[k'[s].tgt]
           \/ k'[s].op = "exec_fail" /\ k'[s].tgt # s /\ k'[s].base = sz'[k'[s].tgt]
           \/ k'[s].op \in FreeOps /\ k'[s].tgt # s /\ k'[s].base = 0
    PROVE  /\ PathInv(s)'
           /\ \A v \in Page : Built(s, v)' <=> (v < k'[s].base \/ (k'[s].pg <= v /\ v < k'[s].end))
<1>1. Pc(s)' = "uvmunmap"
  BY Zenon DEF Pc
<1>2. RegsInv(s)'
  BY <1>1, Zenon DEF RegsInv, NoPath, DupPc
<1>3. LoopInv(s)'
  BY <1>1, Zenon DEF LoopInv, UnmapPc, AllocPc, FreeOps
<1> QED  BY <1>1, <1>2, <1>3, Zenon DEF PathInv, DupInv, Built, UnmapPc

(* A program enters the kernel.                                            *)
LEMMA StartPath ==
    ASSUME RefsCountable, MemInv, NEW s \in Space, k[s].pc = "user",
           NEW q \in Regs, k' = [k EXCEPT ![s] = q], UNCHANGED <<freelist, count, mem, pt, sz>>,
           q.pc \notin {"none", "setup", "dead", "lost", "lost_zombie"} \cup OwnPc,
           q.pa = NoFrame, q.ra = "none", q.tgt \in {s, NoSpace}, PathInv(s)',
           q.tgt = s => \A v \in Page : v < sz[s] <=> Built(s, v)'
    PROVE  MemInv'
<1>1. k[s].pa = NoFrame /\ k[s].tgt = NoSpace /\ k[s].ra = "none"
  <2>1. k[s] = Idle("user")
    BY UserIdle, Zenon
  <2> QED  BY <2>1, IdleIs
<1>2. k'[s] = q /\ \A v \in Page : Valid(pt[s][v]) <=> v < sz[s]
  BY UserIdle, Zenon DEF MemInv, TypeOK
<1>3. \A v \in Page : q.tgt # NoSpace => (Valid(pt[q.tgt][v]) <=> Built(s, v)')
  BY <1>2, Zenon
<1> QED  BY <1>1, <1>2, <1>3, QuietPath, Zenon DEF SameRelease, MemInv, TypeOK

(* A store fault enters dup_pg().                                          *)
LEMMA usertrap_keeps ==
    ASSUME RefsCountable, MemInv, NEW s \in Space, NEW a \in Addr, usertrap(s, a)
    PROVE  MemInv'
<1>1. k[s].pc = "user" /\ k[s] = Idle("user") /\ Idle("user") \in Regs
  BY UserIdle, Zenon DEF usertrap
<1>2. PICK q : q = [Idle("user") EXCEPT !.pc = "dup_pg", !.op = "trap", !.addr = a]
  BY Zenon
<1>3. /\ q.pc = "dup_pg" /\ q.op = "trap" /\ q.ra = "none" /\ q.tgt = NoSpace /\ q.pa = NoFrame
      /\ q \in Regs
  <2>1. PICK u \in Regs : u = Idle("user") /\ u.ra = "none" /\ u.tgt = NoSpace /\ u.pa = NoFrame
    BY <1>1, IdleIs, Zenon
  <2>2. q = [u EXCEPT !.pc = "dup_pg", !.op = "trap", !.addr = a]
    BY <1>2, <2>1, Zenon
  <2>3. q.pc = "dup_pg" /\ q.op = "trap" /\ q.ra = "none" /\ q.tgt = NoSpace /\ q.pa = NoFrame
    BY <2>1, <2>2 DEF Regs
  <2>4. q \in Regs
    BY <2>2, ZenonT(30) DEF Regs
  <2> QED  BY <2>3, <2>4, Zenon
<1>4. k' = [k EXCEPT ![s] = q] /\ k'[s] = q
  BY <1>1, <1>2, Zenon DEF usertrap, MemInv, TypeOK
<1>5. PathInv(s)'
  BY <1>3, <1>4, Zenon DEF PathInv, RegsInv, LoopInv, DupInv, Pc, NoPath, DupPc, UnmapPc, AllocPc, FreeOps
<1> QED  BY <1>1, <1>3, <1>4, <1>5, StartPath, CowAssumption, Zenon DEF OwnPc, usertrap

(* copyout() enters dup_pg() for its first page.                           *)
LEMMA copyout_keeps ==
    ASSUME RefsCountable, MemInv, NEW s \in Space,
           NEW v \in Page, NEW e \in 1 .. NPAGES, NEW x \in Value, copyout(s, v, e, x)
    PROVE  MemInv'
<1>1. k[s].pc = "user" /\ k[s] = Idle("user") /\ Idle("user") \in Regs
  BY UserIdle, Zenon DEF copyout
<1>2. PICK q : q = [Idle("user") EXCEPT !.pc = "dup_pg", !.op = "copyout",
                                        !.addr = v * PGSIZE, !.end = e, !.val = x]
  BY Zenon
<1>3. /\ q.pc = "dup_pg" /\ q.op = "copyout" /\ q.ra = "none" /\ q.tgt = NoSpace /\ q.pa = NoFrame
      /\ q \in Regs
  <2>1. v * PGSIZE \in Addr /\ e \in 0 .. NPAGES
    BY PageAddr
  <2> QED  BY <1>1, <1>2, <2>1, ZenonT(30) DEF Idle, Regs
<1>4. k' = [k EXCEPT ![s] = q] /\ k'[s] = q
  BY <1>1, <1>2, Zenon DEF copyout, MemInv, TypeOK
<1>5. PathInv(s)'
  BY <1>3, <1>4, Zenon DEF PathInv, RegsInv, LoopInv, DupInv, Pc, NoPath, DupPc, UnmapPc, AllocPc, FreeOps
<1> QED  BY <1>1, <1>3, <1>4, <1>5, StartPath, CowAssumption, Zenon DEF OwnPc, copyout

(* sbrk() enters uvmalloc() or uvmdealloc().                               *)
LEMMA growproc_keeps ==
    ASSUME RefsCountable, MemInv, NEW s \in Space, NEW n \in 1 .. NPAGES, growproc(s, n)
    PROVE  MemInv'
<1>1. /\ k[s].pc = "user" /\ k[s] = Idle("user") /\ Idle("user") \in Regs /\ n \in 0 .. NPAGES
      /\ UNCHANGED <<freelist, count, mem, pt, sz>>
  BY UserIdle, CowAssumption DEF growproc
<1>2. PICK m \in 0 .. NPAGES : m = sz[s] /\ sz'[s] = m
  BY <1>1, UserIdle, Zenon
<1>3. CASE /\ n > m
           /\ k' = [k EXCEPT ![s] = [@ EXCEPT !.pc = "uvmalloc", !.op = "grow", !.tgt = s,
                                              !.base = sz[s], !.pg = sz[s], !.end = n]]
  <2>1. PICK q : q = [Idle("user") EXCEPT !.pc = "uvmalloc", !.op = "grow", !.tgt = s,
                                          !.base = m, !.pg = m, !.end = n]
    BY Zenon
  <2>2. q \in Regs
    BY <1>1, <2>1, ZenonT(30) DEF Idle, Regs
  <2>3. /\ q.pc = "uvmalloc" /\ q.op = "grow" /\ q.ra = "none" /\ q.tgt = s /\ q.pa = NoFrame
        /\ q.base = m /\ q.pg = m /\ q.end = n
    BY <2>1, Zenon DEF Idle
  <2>4. k' = [k EXCEPT ![s] = q] /\ k'[s] = q
    BY <1>1, <1>2, <1>3, <2>1, Zenon DEF MemInv, TypeOK
  <2>5. m <= m /\ m <= n
    BY <1>3
  <2>6. PathInv(s)' /\ \A v \in Page : Built(s, v)' <=> v < m
    BY <1>2, <2>3, <2>4, <2>5, AllocPath, Zenon
  <2> QED  BY <1>1, <1>2, <2>2, <2>3, <2>4, <2>6, StartPath, Zenon DEF OwnPc
<1>4. CASE n < m /\ k' = [k EXCEPT ![s] = StartUnmap(s, "shrink", s, n, sz[s])]
  <2>1. k[s] \in Regs /\ k[s].pa = NoFrame
    BY <1>1, IdleIs, Zenon
  <2>2. PICK q : q = StartUnmap(s, "shrink", s, n, m)
    BY Zenon
  <2>3. /\ q \in Regs /\ q.pc = "uvmunmap" /\ q.op = "shrink" /\ q.ra = "none" /\ q.tgt = s
        /\ q.base = n /\ q.pg = n /\ q.end = m /\ q.pa = NoFrame
    BY <1>1, <2>1, <2>2, UnmapRecord
  <2>4. k' = [k EXCEPT ![s] = q] /\ k'[s] = q
    BY <1>2, <1>4, <2>2, Zenon DEF MemInv, TypeOK
  <2>5. PathInv(s)' /\ \A v \in Page : Built(s, v)' <=> (v < n \/ (n <= v /\ v < m))
    BY <1>2, <1>4, <2>3, <2>4, UnmapPath, SMTT(30)
  <2>6. \A v \in Page : v < sz[s] <=> Built(s, v)'
    BY <1>2, <1>4, <2>5, SMTT(30) DEF Page
  <2> QED  BY <1>1, <2>3, <2>4, <2>5, <2>6, StartPath, Zenon DEF OwnPc
<1> QED  BY <1>2, <1>3, <1>4, Zenon DEF growproc

(* A path that ends.                                                       *)
LEMMA IdlePath ==
    ASSUME NEW s \in Space, NEW p \in NoPath, k'[s] = Idle(p),
           p = "none" => sz'[s] = 0
    PROVE  PathInv(s)' /\ Idle(p) \in Regs /\ k'[s].pc = p /\ k'[s].pa = NoFrame
           /\ k'[s].tgt = NoSpace /\ k'[s].ra = "none"
<1>1. Idle(p) \in Regs
  BY IdleRegs, Zenon
<1>2. /\ k'[s].pc = p /\ k'[s].op = "none" /\ k'[s].ra = "none" /\ k'[s].tgt = NoSpace
      /\ k'[s].pa = NoFrame
  BY IdleIs, Zenon
<1>3. RegsInv(s)'
  BY <1>2, Zenon DEF RegsInv, Pc, NoPath, DupPc
<1>4. LoopInv(s)' /\ DupInv(s)'
  BY <1>2, Zenon DEF LoopInv, DupInv, Pc, NoPath, UnmapPc, AllocPc, FreeOps
<1> QED  BY <1>1, <1>2, <1>3, <1>4, Zenon DEF PathInv

(* Back to user mode, or exit(), from a path that holds no page.           *)
LEMMA EndPath ==
    ASSUME RefsCountable, MemInv, NEW s \in Space, NEW p \in {"user", "zombie", "panic"},
           k' = [k EXCEPT ![s] = Idle(p)],
           UNCHANGED <<freelist, count, pt, sz>>, mem' \in [Frame -> Content],
           k[s].pc \notin {"none", "setup", "dead", "lost", "lost_zombie"}, k[s].pa = NoFrame, k[s].ra # "clear",
           \/ k[s].tgt = NoSpace
           \/ k[s].tgt = s /\ \A v \in Page : Valid(pt[s][v]) <=> v < sz[s]
    PROVE  MemInv'
<1>1. k'[s] = Idle(p)
  BY Zenon DEF MemInv, TypeOK
<1>2. /\ PathInv(s)' /\ Idle(p) \in Regs /\ Idle(p).pc = p /\ Idle(p).pa = NoFrame
      /\ Idle(p).tgt = NoSpace /\ Idle(p).ra = "none"
  BY <1>1, IdlePath, ZenonT(30) DEF NoPath
<1> QED  BY <1>1, <1>2, QuietPath, Zenon DEF OwnPc, SameRelease

(* exit() makes the process a zombie that keeps its memory.                *)
LEMMA exit_keeps ==
    ASSUME RefsCountable, MemInv, NEW s \in Space, exit(s)
    PROVE  MemInv'
<1>1. k[s].pc = "user" /\ k[s].pa = NoFrame /\ k[s].tgt = NoSpace /\ k[s].ra = "none"
  BY UserIdle, IdleIs, SMTT(30) DEF exit
<1> QED  BY <1>1, EndPath, ZenonT(30) DEF exit, MemInv, TypeOK

(* wait() for the child of a failed fork() panics.                         *)
LEMMA wait_lost_keeps ==
    ASSUME RefsCountable, MemInv, NEW s \in Space, NEW c \in Space \ {s}, wait_lost(s, c)
    PROVE  MemInv'
<1>1. /\ k[s].pc = "user" /\ k[s].pa = NoFrame /\ k[s].tgt = NoSpace /\ k[s].ra = "none"
      /\ k[s] = Idle("user")
  BY UserIdle, IdleIs, SMTT(30) DEF wait_lost
<1>2. [Idle("user") EXCEPT !.pc = "panic"] = Idle("panic")
  BY DEF Idle
<1>3. k' = [k EXCEPT ![s] = Idle("panic")]
  BY <1>1, <1>2, Zenon DEF wait_lost
<1> QED  BY <1>1, <1>3, EndPath, ZenonT(30) DEF wait_lost, MemInv, TypeOK

(* The child of a failed fork() exits.                                     *)
LEMMA usertrap_lost_keeps ==
    ASSUME RefsCountable, MemInv, NEW s \in Space, usertrap_lost(s)
    PROVE  MemInv'
<1>1. k[s].pc = "lost" /\ k' = [k EXCEPT ![s] = Idle("lost_zombie")]
      /\ UNCHANGED <<freelist, count, mem, pt, sz>>
  BY Zenon DEF usertrap_lost
<1>2. k[s].pa = NoFrame /\ k[s].tgt = NoSpace /\ k[s].ra = "none" /\ \A t \in Space : k[t].tgt # s
  BY <1>1, NotUnderWay, IdleIs, SMTT(30) DEF NoPath
<1>3. k'[s] = Idle("lost_zombie") /\ \A t \in Space \ {s} : k'[t] = k[t]
  BY <1>1, Zenon DEF MemInv, TypeOK
<1>4. /\ PathInv(s)' /\ Idle("lost_zombie") \in Regs /\ k'[s].pc = "lost_zombie"
      /\ k'[s].pa = NoFrame /\ k'[s].tgt = NoSpace /\ k'[s].ra = "none"
  BY <1>3, IdlePath, ZenonT(30) DEF NoPath
<1>5. TypeOK'
  BY <1>1, <1>4, Zenon DEF MemInv, TypeOK
<1>6. RefInv'
  <2>1. \A t \in Space : SameRelease(t) /\ k'[t].pa = k[t].pa
                         /\ (k'[t].pc \in OwnPc => k[t].pc \in OwnPc)
    BY <1>2, <1>3, <1>4, Zenon DEF SameRelease, OwnPc
  <2> QED  BY <1>1, <2>1, RegsOnlyRefs, Zenon DEF MemInv, RefInv
<1>7. OneWorker'
  BY <1>2, <1>3, <1>4, CowAssumption, SMTT(30) DEF OneWorker, MemInv
<1>8. ASSUME NEW t \in Space, t # s
      PROVE  PathInv(t)' /\ \A v \in Page : Built(t, v)' <=> Built(t, v)
  <2>0. k'[t] = k[t] /\ PathInv(t)
    BY <1>3, <1>8, Zenon DEF MemInv
  <2>1. k'[t] = k[t] /\ Pc(t)' = Pc(t) /\ PathInv(t) /\ sz' = sz /\ pt' = pt
    BY <1>1, <2>0 DEF Pc
  <2>2. RegsInv(t)' /\ DupInv(t)'
    BY <2>1, ZenonT(30) DEF PathInv, RegsInv, DupInv, DupPte, PteAt
  <2>3. LoopInv(t)'
    BY <2>1, LoopSame, Zenon DEF PathInv
  <2> QED  BY <2>1, <2>2, <2>3, Zenon DEF PathInv, Built
<1>9. PagesMapped'
  <2> SUFFICES ASSUME NEW t \in Space, NEW v \in Page
               PROVE  /\ (\A r \in Space : k'[r].tgt # t) =>
                            (Valid(pt'[t][v]) <=> v < sz'[t] /\ k'[t].pc \notin LostPc)
                      /\ k'[t].tgt # NoSpace => (Valid(pt'[k'[t].tgt][v]) <=> Built(t, v)')
    BY Zenon DEF PagesMapped, Page
  <2>1. \A r \in Space : k'[r].tgt = k[r].tgt
    BY <1>2, <1>3, <1>4, Zenon
  <2>2. k'[t].pc \notin LostPc <=> k[t].pc \notin LostPc
    BY <1>1, <1>3, <1>4, Zenon DEF LostPc
  <2>3. k'[t].tgt # NoSpace => (Built(t, v)' <=> Built(t, v))
    BY <1>4, <1>8, Zenon
  <2>4. /\ (\A r \in Space : k[r].tgt # t) => (Valid(pt[t][v]) <=> v < sz[t] /\ k[t].pc \notin LostPc)
        /\ k[t].tgt # NoSpace => (Valid(pt[k[t].tgt][v]) <=> Built(t, v))
    BY Zenon DEF MemInv, PagesMapped
  <2> QED  BY <1>1, <2>1, <2>2, <2>3, <2>4, Zenon
<1> QED  BY <1>1, <1>4, <1>5, <1>6, <1>7, <1>8, <1>9, Zenon DEF MemInv, RefInv, CowReadOnly

(* The registers of a path in dup_pg().                                    *)
LEMMA DupRegs ==
    ASSUME MemInv, NEW s \in Space, k[s].pc \in DupPc
    PROVE  /\ k[s] \in Regs /\ PathInv(s)
           /\ k[s].tgt = NoSpace /\ k[s].op \in {"trap", "copyout"} /\ k[s].ra # "clear"
           /\ k[s].pc \in {"dup_pg", "dup_ret"} => k[s].pa = NoFrame
           /\ k[s].pc \in {"memmove", "setpte"} => k[s].pa \in Frame
  BY KTyped, ZenonT(30) DEF PathInv, RegsInv, Regs, Pc, DupPc

(* The entry dup_pg() looks at.                                            *)
LEMMA DupPteIs ==
    ASSUME MemInv, NEW s \in Space, Valid(DupPte(s))
    PROVE  LET v == PageOf(k[s].addr)
           IN  k[s].addr # Far /\ v \in Page /\ DupPte(s) = pt[s][v] /\ DupPte(s).pa \in Frame
<1>1. k[s].addr \in Addr
  BY KTyped, Zenon DEF Regs
<1>2. k[s].addr # Far
  BY Zenon DEF DupPte, PteAt, NoPte, Valid
<1>3. PageOf(k[s].addr) \in Page
  BY <1>1, <1>2, AddrPage, Zenon
<1>4. DupPte(s) = pt[s][PageOf(k[s].addr)]
  BY <1>2, Zenon DEF DupPte, PteAt
<1>5. pt[s][PageOf(k[s].addr)] \in Pte
  BY <1>3, Zenon DEF MemInv, TypeOK
<1> QED  BY <1>2, <1>3, <1>4, <1>5, Zenon DEF Pte, Valid

(* usertrap() returns, or kills the process, after dup_pg().               *)
LEMMA trap_ret_keeps ==
    ASSUME RefsCountable, MemInv, NEW s \in Space, trap_ret(s)
    PROVE  MemInv'
<1>1. k[s].pc = "dup_ret" /\ k[s].pa = NoFrame /\ k[s].tgt = NoSpace /\ k[s].ra # "clear"
  BY DupRegs, Zenon DEF trap_ret, DupPc
<1>2. PICK p \in {"user", "zombie"} : k' = [k EXCEPT ![s] = Idle(p)]
  BY Zenon DEF trap_ret
<1> QED  BY <1>1, <1>2, EndPath, Zenon DEF trap_ret, MemInv, TypeOK

(* dup_pg() copies the shared page.                                        *)
LEMMA dup_memmove_keeps ==
    ASSUME RefsCountable, MemInv, NEW s \in Space, dup_memmove(s)
    PROVE  MemInv'
<1>0. PICK r \in Regs : r = k[s]
  BY KTyped, Zenon
<1>1. /\ r.pc = "memmove" /\ PathInv(s) /\ r.pa \in Frame /\ r.tgt = NoSpace /\ r.ra # "clear"
      /\ r.op \in {"trap", "copyout"} /\ UNCHANGED <<freelist, count, pt, sz>>
  BY <1>0, DupRegs, Zenon DEF dup_memmove, DupPc
<1>2. PICK q : q = [r EXCEPT !.pc = "setpte"]
  BY Zenon
<1>3. q \in Regs
  BY <1>2 DEF Regs
<1>4. /\ q.pc = "setpte" /\ q.op = r.op /\ q.ra = r.ra /\ q.tgt = r.tgt /\ q.pa = r.pa /\ q.addr = r.addr
  BY <1>2, Zenon DEF Regs
<1>5. k' = [k EXCEPT ![s] = q] /\ k'[s] = q
  BY <1>0, <1>2, Zenon DEF dup_memmove, MemInv, TypeOK
<1>6. DupInv(s)'
  BY <1>0, <1>1, <1>4, <1>5, SMTT(30) DEF PathInv, DupInv, DupPte, PteAt
<1>7. RegsInv(s)'
  BY <1>1, <1>4, <1>5, CowAssumption, Zenon DEF RegsInv, Pc, NoPath, DupPc
<1>8. LoopInv(s)'
  BY <1>1, <1>4, <1>5, Zenon DEF LoopInv, Pc, UnmapPc, AllocPc, FreeOps
<1>9. mem' \in [Frame -> Content]
  <2>1. Valid(DupPte(s))
    BY <1>0, <1>1 DEF PathInv, DupInv, DupCheck
  <2> QED  BY <2>1, DupPteIs, ZenonT(30) DEF dup_memmove, MemInv, TypeOK
<1> QED  BY <1>0, <1>1, <1>3, <1>4, <1>5, <1>6, <1>7, <1>8, <1>9, QuietPath, Zenon DEF PathInv, OwnPc, SameRelease

(* copyout() writes the page that dup_pg() made private, and goes on.      *)
LEMMA copyout_ret_keeps ==
    ASSUME RefsCountable, MemInv, NEW s \in Space, copyout_ret(s)
    PROVE  MemInv'
<1>0. PICK r \in Regs : r = k[s]
  BY KTyped, Zenon
<1>1. /\ r.pc = "dup_ret" /\ r.pa = NoFrame /\ r.tgt = NoSpace /\ r.ra # "clear" /\ r.op = "copyout"
      /\ UNCHANGED <<freelist, count, pt, sz>>
  BY <1>0, DupRegs, Zenon DEF copyout_ret, DupPc
<1>2. mem' \in [Frame -> Content]
  <2>1. Valid(DupPte(s)) => DupPte(s).pa \in Frame
    BY DupPteIs, Zenon
  <2>2. k[s].val \in Value
    BY KTyped, Zenon DEF Regs
  <2> QED  BY <2>1, <2>2, Zenon DEF copyout_ret, MemInv, TypeOK, Content
<1>3. CASE k' = [k EXCEPT ![s] = Idle("user")]
  BY <1>0, <1>1, <1>2, <1>3, EndPath, Zenon
<1>4. CASE /\ PageOf(r.addr) + 1 < r.end
           /\ k' = [k EXCEPT ![s] = [@ EXCEPT !.pc = "dup_pg", !.ra = "none", !.addr = r.addr + PGSIZE]]
  <2>1. PICK a : a = r.addr + PGSIZE
    BY Zenon
  <2>2. a \in Addr
    BY <1>4, <2>1, NextAddr, Zenon DEF Regs
  <2>3. PICK q : q = [r EXCEPT !.pc = "dup_pg", !.ra = "none", !.addr = a]
    BY Zenon
  <2>4. q \in Regs /\ q.pc = "dup_pg" /\ q.ra = "none" /\ q.tgt = r.tgt /\ q.pa = r.pa /\ q.op = r.op
    BY <2>2, <2>3, ZenonT(30) DEF Regs
  <2>5. k' = [k EXCEPT ![s] = q] /\ k'[s] = q
    BY <1>0, <1>4, <2>1, <2>3, Zenon DEF MemInv, TypeOK
  <2>6. RegsInv(s)'
    BY <1>1, <2>4, <2>5, Zenon DEF RegsInv, Pc, NoPath, DupPc
  <2>7. LoopInv(s)' /\ DupInv(s)'
    BY <1>1, <2>4, <2>5, Zenon DEF LoopInv, DupInv, Pc, UnmapPc, AllocPc, FreeOps
  <2> QED  BY <1>0, <1>1, <1>2, <2>4, <2>5, <2>6, <2>7, QuietPath, Zenon DEF PathInv, OwnPc, SameRelease
<1> QED  BY <1>0, <1>3, <1>4, Zenon DEF copyout_ret

(* sbrk() fails after uvmdealloc() has given the new pages back.           *)
LEMMA growproc_fail_keeps ==
    ASSUME RefsCountable, MemInv, NEW s \in Space, growproc_fail(s)
    PROVE  MemInv'
<1>0. PICK r \in Regs : r = k[s]
  BY KTyped, Zenon
<1>1. r.pc = "uvmunmap" /\ r.pg >= r.end /\ r.op = "grow_fail" /\ PathInv(s) /\ Pc(s) = "uvmunmap"
  BY <1>0, KTyped, Zenon DEF growproc_fail, UnmapDone, Pc
<1>2. r.pa = NoFrame /\ r.ra # "clear" /\ r.tgt = s
  BY <1>0, <1>1, Zenon DEF PathInv, RegsInv, LoopInv, NoPath, DupPc
<1>3. r.base = sz[s] /\ r.base <= r.pg /\ r.pg <= r.end
  BY <1>0, <1>1, <1>2, Zenon DEF PathInv, LoopInv, UnmapPc
<1>4. r.base \in Nat /\ r.pg \in Nat /\ r.end \in Nat
  BY DEF Regs
<1>5. \A v \in Page : Valid(pt[s][v]) <=> v < sz[s]
  <2>1. \A v \in Page : Valid(pt[s][v]) <=> Built(s, v)
    BY <1>0, <1>2, CowAssumption, Zenon DEF MemInv, PagesMapped
  <2>2. \A v \in Page : Built(s, v) <=> v < sz[s]
    BY <1>0, <1>1, <1>3, <1>4 DEF Built, UnmapPc, Page
  <2> QED  BY <2>1, <2>2, Zenon
<1> QED  BY <1>0, <1>1, <1>2, <1>5, EndPath, Zenon DEF growproc_fail, MemInv, TypeOK

(* kfree() tests and decrements the count under its lock.                  *)
LEMMA kfree_keeps ==
    ASSUME RefsCountable, MemInv, NEW s \in Space, kfree(s)
    PROVE  MemInv'
<1>0. PICK r \in Regs : r = k[s]
  BY KTyped, Zenon
<1>1. /\ PathInv(s) /\ r.pc = "kfree" /\ r.ra # "none" /\ r.pa \in Frame
      /\ r.tgt \in Space \cup {NoSpace}
  BY <1>0, KTyped, Zenon DEF kfree, PathInv, RegsInv, Regs
<1>2. UNCHANGED <<freelist, mem, pt, sz>> /\ \A t \in Space \ {s} : k'[t] = k[t]
  BY Zenon DEF kfree, MemInv, TypeOK
<1>3. \/ /\ Shared(r.pa) /\ count' = [count EXCEPT ![r.pa] = @ - 1]
         /\ k'[s] = [r EXCEPT !.pc = r.ra, !.pa = NoFrame]
      \/ ~Shared(r.pa) /\ count' = count /\ k'[s] = [r EXCEPT !.pc = "freepage"]
  BY <1>0, Zenon DEF kfree, MemInv, TypeOK
<1>4. TypeOK'
  <2>1. [r EXCEPT !.pc = r.ra, !.pa = NoFrame] \in Regs /\ [r EXCEPT !.pc = "freepage"] \in Regs
    BY <1>1, ZenonT(30) DEF Regs
  <2>2. k' \in [Space -> Regs]
    BY <1>2, <1>3, <2>1, Zenon DEF kfree, MemInv, TypeOK
  <2>3. count' \in [Frame -> Nat]
    BY <1>1, <1>3 DEF MemInv, TypeOK, Shared
  <2> QED  BY <1>2, <2>2, <2>3, Zenon DEF MemInv, TypeOK
<1>5. /\ k'[s].op = r.op /\ k'[s].ra = r.ra /\ k'[s].tgt = r.tgt /\ k'[s].pg = r.pg
      /\ k'[s].base = r.base /\ k'[s].end = r.end /\ k'[s].seg = r.seg /\ k'[s].ret = r.ret
      /\ (k'[s].pc = r.ra /\ k'[s].pa = NoFrame) \/ (k'[s].pc = "freepage" /\ k'[s].pa = r.pa)
  BY <1>3, ZenonT(30) DEF Regs
<1>6. Pc(s)' = Pc(s) /\ r.ra \in {"dup_ret", "clear", "uvmunmap"} /\ Pc(s) = r.ra
  BY <1>0, <1>1, <1>5, Zenon DEF Pc, Regs
<1>7. PathInv(s)'
  <2>1. RegsInv(s)'
    BY <1>0, <1>1, <1>5, <1>6, Zenon DEF PathInv, RegsInv, NoPath
  <2>2. LoopInv(s)'
    BY <1>0, <1>1, <1>2, <1>5, <1>6, ZenonT(30) DEF PathInv, LoopInv
  <2>3. DupInv(s)'
    BY <1>5, <1>6, Zenon DEF DupInv
  <2> QED  BY <2>1, <2>2, <2>3, Zenon DEF PathInv
<1>8. OneWorker' /\ PagesMapped' /\ \A t \in Space : PathInv(t)'
  <2>1. \A v \in Page : Built(s, v)' <=> Built(s, v)
    BY <1>0, <1>2, <1>5, <1>6, Zenon DEF Built
  <2>2. \A v \in Page : r.tgt # NoSpace => (Valid(pt[r.tgt][v]) <=> Built(s, v))
    BY <1>0, Zenon DEF MemInv, PagesMapped
  <2> QED  BY <1>0, <1>1, <1>2, <1>5, <1>6, <1>7, <2>1, <2>2, OneStep, Zenon
<1>9. RefInv'
  <2>1. \A l \in Loc \ {<<s, -1>>} : Ref(l)' = Ref(l) /\ (Own(l)' => Own(l))
    BY <1>0, <1>2, <1>5, PathRefsOnly, Zenon DEF SameRelease
  <2>2. CASE Shared(r.pa)
    <3>1. count' = [count EXCEPT ![r.pa] = @ - 1] /\ k'[s].pa = NoFrame
      BY <1>1, <1>3, <2>2, ZenonT(30) DEF Regs
    <3> QED  BY <1>0, <1>1, <1>2, <2>1, <3>1, LocIs, RefIs, RefDrop, CowAssumption, Zenon DEF MemInv, TypeOK, RefInv
  <2>3. CASE ~Shared(r.pa)
    <3>1. count' = count /\ k'[s].pa = r.pa /\ count[r.pa] = 0
      BY <1>1, <1>3, <2>3, SMTT(30) DEF Regs, Shared, MemInv, TypeOK
    <3>2. <<s, -1>> \in Loc /\ Ref(<<s, -1>>) = r.pa /\ Ref(<<s, -1>>)' = r.pa
      BY <1>0, <3>1, LocIs, RefIs, Zenon
    <3>3. Refs(r.pa) = {<<s, -1>>}
      BY <1>1, <3>1, <3>2, SoleRef, RefsIn DEF MemInv
    <3> QED  BY <1>2, <2>1, <3>1, <3>2, <3>3, RefSame, Zenon DEF MemInv, RefInv
  <2> QED  BY <2>2, <2>3, Zenon
<1>10. CowReadOnly'
  BY <1>2, Zenon DEF MemInv, CowReadOnly
<1> QED  BY <1>4, <1>8, <1>9, <1>10, Zenon DEF MemInv, RefInv

(* kfree() puts the page on the free list after that lock is released.     *)
LEMMA freepage_keeps ==
    ASSUME RefsCountable, MemInv, NEW s \in Space, freepage(s)
    PROVE  MemInv'
<1>0. PICK r \in Regs : r = k[s]
  BY KTyped, Zenon
<1>1. /\ PathInv(s) /\ r.pc = "freepage" /\ r.ra # "none" /\ r.pa \in Frame
      /\ r.tgt \in Space \cup {NoSpace}
  BY <1>0, KTyped, Zenon DEF freepage, PathInv, RegsInv, Regs
<1>2. UNCHANGED <<count, pt, sz>> /\ \A t \in Space \ {s} : k'[t] = k[t]
  BY Zenon DEF freepage, MemInv, TypeOK
<1>3. k'[s] = [r EXCEPT !.pc = r.ra, !.pa = NoFrame]
  BY <1>0, Zenon DEF freepage, MemInv, TypeOK
<1>4. TypeOK'
  <2>1. k'[s] \in Regs
    BY <1>1, <1>3, Zenon DEF Regs
  <2>2. k' \in [Space -> Regs]
    BY <1>2, <2>1, Zenon DEF freepage, MemInv, TypeOK
  <2>3. mem' \in [Frame -> Content] /\ freelist' \subseteq Frame
    BY <1>0, <1>1, Zenon DEF freepage, MemInv, TypeOK, Content
  <2> QED  BY <1>2, <2>2, <2>3, Zenon DEF MemInv, TypeOK
<1>5. /\ k'[s].op = r.op /\ k'[s].ra = r.ra /\ k'[s].tgt = r.tgt /\ k'[s].pg = r.pg
      /\ k'[s].base = r.base /\ k'[s].end = r.end /\ k'[s].seg = r.seg /\ k'[s].ret = r.ret
      /\ k'[s].pc = r.ra /\ k'[s].pa = NoFrame
  BY <1>3, Zenon DEF Regs
<1>6. Pc(s)' = Pc(s) /\ r.ra \in {"dup_ret", "clear", "uvmunmap"} /\ Pc(s) = r.ra
  BY <1>0, <1>1, <1>5, SMTT(30) DEF Pc, Regs
<1>7. PathInv(s)'
  <2>1. RegsInv(s)'
    BY <1>0, <1>1, <1>5, <1>6, Zenon DEF PathInv, RegsInv, NoPath
  <2>2. LoopInv(s)'
    BY <1>0, <1>1, <1>2, <1>5, <1>6, ZenonT(30) DEF PathInv, LoopInv
  <2>3. DupInv(s)'
    BY <1>5, <1>6, Zenon DEF DupInv
  <2> QED  BY <2>1, <2>2, <2>3, Zenon DEF PathInv
<1>8. OneWorker' /\ PagesMapped' /\ \A t \in Space : PathInv(t)'
  <2>1. \A v \in Page : Built(s, v)' <=> Built(s, v)
    BY <1>0, <1>2, <1>5, <1>6, Zenon DEF Built
  <2>2. \A v \in Page : r.tgt # NoSpace => (Valid(pt[r.tgt][v]) <=> Built(s, v))
    BY <1>0, Zenon DEF MemInv, PagesMapped
  <2> QED  BY <1>0, <1>1, <1>2, <1>5, <1>6, <1>7, <2>1, <2>2, OneStep, ZenonT(30)
<1>9. RefInv'
  <2>1. \A l \in Loc \ {<<s, -1>>} : Ref(l)' = Ref(l) /\ (Own(l)' => Own(l))
    BY <1>0, <1>2, <1>5, PathRefsOnly, Zenon DEF SameRelease
  <2>2. /\ <<s, -1>> \in Loc /\ Own(<<s, -1>>) /\ Ref(<<s, -1>>) = r.pa /\ Ref(<<s, -1>>)' = NoFrame
        /\ freelist' = freelist \cup {r.pa}
    BY <1>0, <1>1, <1>5, LocIs, RefIs, OwnIs, ZenonT(30) DEF OwnPc, freepage
  <2> QED  BY <1>1, <1>2, <2>1, <2>2, RefFree, CowAssumption, Zenon DEF MemInv, TypeOK, RefInv
<1>10. CowReadOnly'
  BY <1>2, Zenon DEF MemInv, CowReadOnly
<1> QED  BY <1>4, <1>8, <1>9, <1>10, Zenon DEF MemInv, RefInv

(* The registers of a path in uvmalloc().                                  *)
LEMMA AllocRegs ==
    ASSUME MemInv, NEW s \in Space, k[s].pc \in AllocPc
    PROVE  /\ k[s] \in Regs /\ k[s].tgt \in Space /\ k[s].ra # "clear"
           /\ k[s].pc = "uvmalloc" => k[s].pa = NoFrame
           /\ k[s].pc = "mappages" => k[s].pa \in Frame /\ k[s].pg < k[s].end
           /\ k[s].base = sz[k[s].tgt] /\ k[s].base <= k[s].pg /\ k[s].pg <= k[s].end
           /\ \/ k[s].op = "grow" /\ k[s].tgt = s
              \/ k[s].op = "exec" /\ k[s].tgt # s /\ k[s].seg # 0
           /\ \A v \in Page : Built(s, v) <=> v < k[s].pg
           /\ \A v \in Page : Valid(pt[k[s].tgt][v]) <=> v < k[s].pg
<1>1. k[s] \in Regs /\ PathInv(s) /\ Pc(s) = k[s].pc
  BY KTyped, ZenonT(30) DEF AllocPc, Pc
<1>2. /\ k[s].tgt \in Space /\ k[s].ra # "clear"
      /\ k[s].pc = "uvmalloc" => k[s].pa = NoFrame
      /\ k[s].pc = "mappages" => k[s].pa \in Frame
  BY <1>1, Zenon DEF PathInv, RegsInv, Regs, AllocPc, NoPath, DupPc
<1>3. /\ k[s].pc = "mappages" => k[s].pg < k[s].end
      /\ k[s].base = sz[k[s].tgt] /\ k[s].base <= k[s].pg /\ k[s].pg <= k[s].end
      /\ \/ k[s].op = "grow" /\ k[s].tgt = s
         \/ k[s].op = "exec" /\ k[s].tgt # s /\ k[s].seg # 0
  BY <1>1, ZenonT(30) DEF PathInv, LoopInv, AllocPc
<1>4. \A v \in Page : Built(s, v) <=> v < k[s].pg
  BY <1>1, Zenon DEF Built, AllocPc, UnmapPc
<1>5. \A v \in Page : Valid(pt[k[s].tgt][v]) <=> Built(s, v)
  BY <1>2, CowAssumption, Zenon DEF MemInv, PagesMapped
<1> QED  BY <1>1, <1>2, <1>3, <1>4, <1>5, Zenon

(* The registers of a path in uvmunmap().                                  *)
LEMMA UnmapRegs ==
    ASSUME MemInv, NEW s \in Space, k[s].pc \in UnmapPc
    PROVE  /\ k[s] \in Regs /\ k[s].tgt \in Space /\ k[s].pa = NoFrame
           /\ k[s].ra = "clear" <=> k[s].pc = "clear"
           /\ k[s].pc = "clear" => k[s].pg < k[s].end
           /\ k[s].base <= k[s].pg /\ k[s].pg <= k[s].end
           /\ \/ k[s].op = "shrink" /\ k[s].tgt = s
              \/ k[s].op = "grow_fail" /\ k[s].tgt = s /\ k[s].base = sz[k[s].tgt]
              \/ k[s].op = "exec_fail" /\ k[s].tgt # s /\ k[s].base = sz[k[s].tgt]
              \/ k[s].op \in FreeOps /\ k[s].tgt # s /\ k[s].base = 0
           /\ \A v \in Page :
                 /\ Built(s, v) <=> (v < k[s].base \/ (k[s].pg <= v /\ v < k[s].end))
                 /\ Valid(pt[k[s].tgt][v]) <=> Built(s, v)
<1>1. k[s] \in Regs /\ PathInv(s) /\ Pc(s) = k[s].pc
  BY KTyped, ZenonT(30) DEF UnmapPc, Pc
<1>2. k[s].tgt \in Space /\ k[s].pa = NoFrame /\ (k[s].ra = "clear" <=> k[s].pc = "clear")
  BY <1>1, Zenon DEF PathInv, RegsInv, Regs, UnmapPc, NoPath, DupPc
<1>3. /\ k[s].pc = "clear" => k[s].pg < k[s].end
      /\ k[s].base <= k[s].pg /\ k[s].pg <= k[s].end
      /\ \/ k[s].op = "shrink" /\ k[s].tgt = s
         \/ k[s].op = "grow_fail" /\ k[s].tgt = s /\ k[s].base = sz[k[s].tgt]
         \/ k[s].op = "exec_fail" /\ k[s].tgt # s /\ k[s].base = sz[k[s].tgt]
         \/ k[s].op \in FreeOps /\ k[s].tgt # s /\ k[s].base = 0
  BY <1>1, Zenon DEF PathInv, LoopInv
<1>4. \A v \in Page : Built(s, v) <=> (v < k[s].base \/ (k[s].pg <= v /\ v < k[s].end))
  BY <1>1, Zenon DEF Built
<1>5. \A v \in Page : Valid(pt[k[s].tgt][v]) <=> Built(s, v)
  BY <1>2, CowAssumption, Zenon DEF MemInv, PagesMapped
<1> QED  BY <1>1, <1>2, <1>3, <1>4, <1>5, Zenon

(* The registers of a path in uvmcowpy(): the parent's page table is whole, *)
(* the child's is built up to pg.                                          *)
LEMMA CowpyRegs ==
    ASSUME MemInv, NEW s \in Space, k[s].pc = "uvmcowpy"
    PROVE  /\ k[s].tgt \in Space /\ k[s].tgt # s /\ k[s].ra # "clear" /\ k[s].pa = NoFrame
           /\ k[s].op = "fork" /\ k[s].pg <= sz[s] /\ sz[s] \in 0 .. NPAGES
           /\ \A t \in Space : k[t].tgt # s /\ (k[t].tgt = k[s].tgt => t = s)
           /\ \A v \in Page : Valid(pt[s][v]) <=> v < sz[s]
           /\ \A v \in Page : Valid(pt[k[s].tgt][v]) <=> v < k[s].pg
<1>1. PathInv(s) /\ Pc(s) = "uvmcowpy"
  BY KTyped, Zenon DEF Pc
<1>2. /\ k[s].tgt \in Space /\ k[s].tgt # s /\ k[s].ra # "clear" /\ k[s].pa = NoFrame
      /\ k[s].op = "fork" /\ k[s].pg <= sz[s] /\ sz[s] \in 0 .. NPAGES
  BY <1>1, Zenon DEF PathInv, RegsInv, LoopInv, NoPath, DupPc, MemInv, TypeOK
<1>3. \A t \in Space : k[t].tgt # s /\ (k[t].tgt = k[s].tgt => t = s)
  BY <1>2, CowAssumption, Zenon DEF MemInv, OneWorker
<1>4. \A v \in Page : Built(s, v) <=> v < k[s].pg
  BY <1>1, Zenon DEF Built, UnmapPc
<1>5. \A v \in Page : Valid(pt[s][v]) <=> v < sz[s]
  BY <1>3, Zenon DEF MemInv, PagesMapped, LostPc
<1>6. \A v \in Page : Valid(pt[k[s].tgt][v]) <=> Built(s, v)
  BY <1>2, CowAssumption, Zenon DEF MemInv, PagesMapped
<1>7. \A v \in Page : Valid(pt[k[s].tgt][v]) <=> v < k[s].pg
  BY <1>4, <1>6, Zenon
<1> QED  BY <1>2, <1>3, <1>5, <1>7, Zenon

=============================================================================
