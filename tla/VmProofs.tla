------------------------------ MODULE VmProofs ------------------------------
(***************************************************************************)
(* Virtual memory, for any segments and objects of the boot, any archive,  *)
(* and any number of pages and processes.  The invariant is one of memory  *)
(* records, so that what a call does to the memory half way through a page *)
(* fault is covered by a lemma of its own.                                 *)
(***************************************************************************)
EXTENDS Vm, WellFoundedInduction, TLAPS

-----------------------------------------------------------------------------
\* The inductive invariant

KernelObjects == {KasSegs[b].dirty : b \in DOMAIN KasSegs}

IsMemory(m) ==
  m = [pt |-> m.pt, phys |-> m.phys, objs |-> m.objs, vm |-> m.vm, cache |-> m.cache, next |-> m.next]

\* Pages are numbered from 0; the boot owns those below FirstFree
Typed(m) ==
  /\ m.next \in Nat /\ FirstFree <= m.next /\ DOMAIN m.phys = 0..m.next - 1
  /\ \A v \in DOMAIN m.pt : m.pt[v] \in [page : 0..m.next - 1, rw : BOOLEAN, user : BOOLEAN]
  /\ DOMAIN m.vm \subseteq 0..m.next - 1
  /\ \A c \in DOMAIN m.cache : m.cache[c] \in FirstFree..m.next - 1
  /\ Len(m.objs) \in Nat /\ DOMAIN m.objs = 1..Len(m.objs)

Mappings == ({Kas} \cup Nat) \X Int

\* A mapping is on its page's record, and every recorded page is dirty
Recorded(t, vm) ==
  /\ \A g \in DOMAIN vm : vm[g] \in [maps : Seq(Mappings), dirty : {TRUE}]
  /\ \A v \in DOMAIN t :
       /\ t[v].page \in DOMAIN vm
       /\ \E n \in DOMAIN vm[t[v].page].maps : vm[t[v].page].maps[n][2] = v

Anon(os, i) == i \in DOMAIN os /\ os[i].type = "anon"

\* The pages of anonymous objects come from page_alloc, and are not in the cache
PagesOwned(os, cached, next) ==
  \A i \in DOMAIN os : Anon(os, i) =>
    /\ os[i] = [type |-> "anon", pages |-> os[i].pages, clean |-> os[i].clean]
    /\ \A n \in DOMAIN os[i].pages :
         /\ os[i].pages[n] \in FirstFree..next - 1
         /\ \A c \in DOMAIN cached : cached[c] # os[i].pages[n]

\* The objects of the kernel stay what they are, and share no page, with another object
\* or within themselves
KernelOwned(os) ==
  \A o \in KernelObjects :
    /\ o \in DOMAIN os
    /\ IF Objects[o].type = "anon" THEN os[o].type = "anon" /\ os[o].clean = 0
       ELSE os[o] = Objects[o]
    /\ Anon(os, o) => \A n \in DOMAIN os[o].pages : \A i \in DOMAIN os : Anon(os, i) =>
         \A k \in DOMAIN os[i].pages : os[i].pages[k] = os[o].pages[n] => i = o /\ k = n

\* The page that object x has at an offset in pages
HasPage(x, n, g) == IF x.type = "anon" THEN n \in DOMAIN x.pages /\ g = x.pages[n] ELSE g = x.base + n

\* What is mapped in a segment of the kernel is the page of its object
KernelMapped(os, t) ==
  \A b \in DOMAIN KasSegs : \A p \in b..b + KasSegs[b].size - 1 :
    VPage(p) \in DOMAIN t => HasPage(os[KasSegs[b].dirty], VPage(p - b), t[VPage(p)].page)

Sound(m) ==
  /\ IsMemory(m) /\ Typed(m) /\ Recorded(m.pt, m.vm)
  /\ PagesOwned(m.objs, m.cache, m.next) /\ KernelOwned(m.objs) /\ KernelMapped(m.objs, m.pt)

\* Segments with anonymous objects that are not the kernel's
Private(os, s) ==
  /\ IsFiniteSet(DOMAIN s)
  /\ \A b \in DOMAIN s : /\ b \in Nat /\ "dirty" \in DOMAIN s[b]
                         /\ s[b].dirty \in DOMAIN os \ KernelObjects /\ os[s[b].dirty].type = "anon"

\* The kernel's segments are those of the boot, and processes are numbered
Spaces ==
  /\ segs[Kas] = KasSegs
  /\ \E n \in Nat \ {0} : DOMAIN segs = {Kas} \cup 1..n
  /\ \A as \in Procs : Private(objs, segs[as])

VmInv == Sound(Memory) /\ Spaces /\ written \subseteq DOMAIN vmpages

-----------------------------------------------------------------------------
\* Functions, naturals and pages

LEMMA ExtendedIs ==
  ASSUME NEW f, NEW x, NEW v
  PROVE  /\ DOMAIN Extended(f, x, v) = DOMAIN f \cup {x} /\ Extended(f, x, v)[x] = v
         /\ \A y \in DOMAIN f : y # x => Extended(f, x, v)[y] = f[y]
BY DEF Extended

LEMMA RestrictedIs ==
  ASSUME NEW f, NEW X
  PROVE  DOMAIN Restricted(f, X) = DOMAIN f \cap X /\ \A y \in DOMAIN f \cap X : Restricted(f, X)[y] = f[y]
BY DEF Restricted

LEMMA PutIs ==
  ASSUME NEW s, Len(s) \in Nat, DOMAIN s = 1..Len(s), NEW o \in DOMAIN s, NEW x,
         s[o] = [type |-> s[o].type, pages |-> s[o].pages, clean |-> s[o].clean]
  PROVE  /\ DOMAIN Put(s, o, x) = DOMAIN s /\ Len(Put(s, o, x)) = Len(s)
         /\ Put(s, o, x)[o] = [type |-> s[o].type, pages |-> x, clean |-> s[o].clean]
         /\ \A i \in DOMAIN s : i # o => Put(s, o, x)[i] = s[i]
<1> DEFINE r == Put(s, o, x)
<1>1. /\ DOMAIN r = DOMAIN s /\ r[o] = [s[o] EXCEPT !.pages = x]
      /\ \A i \in DOMAIN s : i # o => r[i] = s[i]
      /\ r = [i \in 1..Len(s) |-> IF i = o THEN [s[o] EXCEPT !.pages = x] ELSE s[i]]
  BY Zenon DEF Put
<1>2. r[o] = [type |-> s[o].type, pages |-> x, clean |-> s[o].clean]
  BY <1>1
<1> HIDE DEF r
<1>3. r \in [1..Len(s) -> {r[i] : i \in 1..Len(s)}]
  BY <1>1
<1>4. Len(r) = Len(s)
  BY <1>3
<1> QED
  BY <1>1, <1>2, <1>4 DEF r

LEMMA PageIs ==
  ASSUME NEW p \in Int
  PROVE  /\ VPage(p) \in Int
         /\ \A q \in Int : p <= q => VPage(p) <= VPage(q)
         /\ p >= 0 => VPage(p) \in Nat
<1> DEFINE P == PerPage
<1>1. P \in Nat \ {0}
  BY VmAssumption
<1> HIDE DEF P
<1>2. p \div P \in Int /\ (p >= 0 => p \div P >= 0)
  BY <1>1
<1>3. ASSUME NEW q \in Int, p <= q PROVE p \div P <= q \div P
  <2> DEFINE x == p \div P
             y == q \div P
  <2>1. x \in Int /\ y \in Int /\ x * P <= p /\ q < y * P + P
    BY <1>1
  <2> HIDE DEF x, y
  <2>2. x * P < (y + 1) * P
    BY <1>1, <1>3, <2>1
  <2>3. x < y + 1
    BY <1>1, <2>1, <2>2
  <2> QED
    BY <2>1, <2>3 DEF x, y
<1> QED
  BY <1>2, <1>3 DEF VPage, P
LEMMA ShiftedQuotient ==
  ASSUME NEW k \in Int, NEW P \in Nat \ {0}, NEW p \in Int
  PROVE  (p - k * P) \div P = (p \div P) - k
OBVIOUS

\* Segments of the kernel begin at a page
LEMMA PageInSegment ==
  ASSUME NEW b \in DOMAIN KasSegs
  PROVE  /\ b \in Nat /\ KasSegs[b].size \in Nat
         /\ \A p \in Int : VPage(p - b) = VPage(p) - VPage(b)
         /\ \A p \in Int : p < b => VPage(p) < VPage(b)
<1> DEFINE P == PerPage
           k == b \div P
<1>1. P \in Nat \ {0} /\ b \in Nat /\ b % P = 0 /\ KasSegs[b].size \in Nat
  BY VmAssumption
<1> HIDE DEF P
<1>2. k \in Int /\ b = k * P
  BY <1>1
<1> HIDE DEF k
<1>3. ASSUME NEW p \in Int PROVE (p - b) \div P = (p \div P) - k
  <2>1. (p - k * P) \div P = (p \div P) - k
    BY <1>1, <1>2, ShiftedQuotient, Zenon
  <2> QED
    BY <1>2, <2>1, Zenon
<1>4. \A p \in Int : p < b => p \div P < k
  <2> TAKE p \in Int
  <2> HAVE p < b
  <2> DEFINE x == p \div P
  <2>1. x \in Int /\ x * P <= p
    BY <1>1
  <2> HIDE DEF x
  <2>2. x * P < k * P
    BY <1>1, <1>2, <2>1
  <2>3. x < k
    BY <1>1, <1>2, <2>1, <2>2
  <2> QED
    BY <2>3 DEF x
<1> QED
  BY <1>1, <1>3, <1>4 DEF VPage, P, k

LEMMA OneSegment ==
  ASSUME NEW b \in DOMAIN KasSegs, NEW c \in DOMAIN KasSegs,
         NEW p \in b..b + KasSegs[b].size - 1, NEW q \in c..c + KasSegs[c].size - 1, VPage(p) = VPage(q)
  PROVE  b = c
<1>1. b \in Nat /\ c \in Nat /\ KasSegs[b].size \in Nat /\ KasSegs[c].size \in Nat /\ p \in Int /\ q \in Int
  BY PageInSegment
<1>2. /\ b < c => VPage(b + KasSegs[b].size - 1) < VPage(c)
      /\ c < b => VPage(c + KasSegs[c].size - 1) < VPage(b)
  BY VmAssumption, Zenon DEF VPage, Apart
<1>3. VPage(b) <= VPage(p) /\ VPage(p) <= VPage(b + KasSegs[b].size - 1)
  BY <1>1, PageIs
<1>4. VPage(c) <= VPage(q) /\ VPage(q) <= VPage(c + KasSegs[c].size - 1)
  BY <1>1, PageIs
<1>5. VPage(p) \in Int /\ VPage(b) \in Int /\ VPage(c) \in Int
      /\ VPage(b + KasSegs[b].size - 1) \in Int /\ VPage(c + KasSegs[c].size - 1) \in Int
  BY <1>1, PageIs
<1> QED
  BY <1>1, <1>2, <1>3, <1>4, <1>5

\* A set of naturals that is not empty has a least element.
LEMMA LeastNatural ==
  ASSUME NEW T \in SUBSET Nat, T # {}
  PROVE  \E n \in T : \A m \in T : n <= m
<1> DEFINE R == {p \in Nat \X Nat : p[1] < p[2]}
<1>1. IsWellFoundedOn(R, Nat)
  BY NatLessThanWellFounded DEF OpToRel
<1>2. PICK n \in T : \A m \in T : <<m, n>> \notin R
  BY <1>1, WFMin, Zenon
<1>3. ASSUME NEW m \in T PROVE n <= m
  <2>1. <<m, n>> \in Nat \X Nat /\ ~(<<m, n>>[1] < <<m, n>>[2])
    BY <1>2
  <2> QED
    BY <2>1
<1> QED
  BY <1>3

\* vm_get_segment finds a segment whenever there is one below the address.
LEMMA SegmentFound ==
  ASSUME NEW S, \A b \in S : b \in Nat, NEW p \in Int, NEW a \in S, a <= p
  PROVE  \E b \in S : b <= p /\ \A c \in S : c <= p => c <= b
<1> DEFINE T == {n \in Nat : p - n \in S}
<1>1. p \in Nat /\ p - a \in T
  OBVIOUS
<1>2. PICK n \in T : \A m \in T : n <= m
  <2> HIDE DEF T
  <2>1. T \in SUBSET Nat
    BY DEF T
  <2> QED
    BY <1>1, <2>1, LeastNatural
<1>3. p - n \in S /\ p - n <= p
  BY <1>1
<1>4. ASSUME NEW c \in S, c <= p PROVE c <= p - n
  <2>1. p - c \in Nat /\ p - (p - c) = c
    BY <1>1, <1>4
  <2>2. n <= p - c
    BY <1>2, <1>4, <2>1
  <2> QED
    BY <1>1, <1>4, <2>1, <2>2
<1> QED
  BY <1>3, <1>4

\* vm_resolve_address gives a segment that begins at or below the address: of the kernel,
\* or of the process when no segment of the kernel begins there, and then no segment of
\* the kernel has a part of that page.
LEMMA Resolved ==
  ASSUME Spaces, NEW as \in DOMAIN segs, NEW p \in Int, NEW at \in vm_resolve_address(as, p)
  PROVE  /\ at[1] \in DOMAIN segs /\ at[2] \in DOMAIN segs[at[1]] /\ at[2] \in Nat /\ at[2] <= p
         /\ at[1] # Kas => \A b \in DOMAIN KasSegs : \A q \in b..b + KasSegs[b].size - 1 : VPage(q) # VPage(p)
<1>0. Kas \in DOMAIN segs /\ segs[Kas] = KasSegs /\ \A b \in DOMAIN KasSegs : b \in Nat
  BY PageInSegment DEF Spaces
<1>1. CASE vm_get_segment(Kas, p) # {}
  <2>1. PICK b \in vm_get_segment(Kas, p) : at = <<Kas, b>>
    BY <1>1 DEF vm_resolve_address
  <2>2. b \in DOMAIN KasSegs /\ b <= p
    BY <1>0 DEF vm_get_segment
  <2> QED
    BY <1>0, <2>1, <2>2
<1>2. CASE vm_get_segment(Kas, p) = {}
  <2>1. as # Kas /\ \E b \in vm_get_segment(as, p) : at = <<as, b>>
    BY <1>2, Zenon DEF vm_resolve_address
  <2>2. PICK b \in DOMAIN segs[as] : at = <<as, b>> /\ b <= p
    BY <2>1, Zenon DEF vm_get_segment
  <2>3. b \in Nat
    BY <2>1, <2>2, Zenon DEF Spaces, Procs, Private
  <2>4. ASSUME NEW c \in DOMAIN KasSegs, NEW q \in c..c + KasSegs[c].size - 1 PROVE VPage(q) # VPage(p)
    <3>1. ~(c <= p)
      <4>1. SUFFICES ASSUME c <= p PROVE FALSE
        OBVIOUS
      <4>2. \E d \in DOMAIN KasSegs : d <= p /\ \A e \in DOMAIN KasSegs : e <= p => e <= d
        <5> DEFINE S == DOMAIN KasSegs
        <5>1. (\A d \in S : d \in Nat) /\ c \in S
          BY <1>0
        <5> HIDE DEF S
        <5>2. \E d \in S : d <= p /\ \A e \in S : e <= p => e <= d
          BY <4>1, <5>1, SegmentFound
        <5> QED
          BY <5>2 DEF S
      <4> QED
        BY <1>0, <1>2, <4>2 DEF vm_get_segment
    <3>2. c \in Nat /\ KasSegs[c].size \in Nat /\ q \in Int /\ c <= q /\ VPage(p) < VPage(c)
      BY <3>1, PageInSegment
    <3>3. VPage(c) <= VPage(q) /\ VPage(p) \in Int /\ VPage(c) \in Int /\ VPage(q) \in Int
      BY <3>2, PageIs
    <3> QED
      BY <3>2, <3>3
  <2> QED
    BY <2>1, <2>2, <2>3, <2>4, Zenon
<1> QED
  BY <1>1, <1>2

-----------------------------------------------------------------------------
\* The reverse map

\* The mappings of page g, with the one of v in address space as
MapsWith(vm, g, as, v) ==
  /\ g \in DOMAIN vm /\ vm[g] \in [maps : Seq(Mappings), dirty : {TRUE}]
  /\ \E n \in DOMAIN vm[g].maps : vm[g].maps[n] = <<as, v>>

\* r is vm with that mapping, and all others
Remapped(r, vm, page, as, v) ==
  /\ DOMAIN r = DOMAIN vm \cup {page} /\ MapsWith(r, page, as, v)
  /\ \A g \in DOMAIN r : r[g] \in [maps : Seq(Mappings), dirty : {TRUE}]
  /\ \A g \in DOMAIN vm : \A n \in DOMAIN vm[g].maps :
       n \in DOMAIN r[g].maps /\ r[g].maps[n] = vm[g].maps[n]

\* What vm_vmpage_map and vm_vmpage_setflags leave: the mapping is on the record of the
\* page, which is dirty, and no mapping is lost.
LEMMA MapRecorded ==
  ASSUME NEW vm, \A g \in DOMAIN vm : vm[g] \in [maps : Seq(Mappings), dirty : {TRUE}],
         NEW page, NEW as \in {Kas} \cup Nat, NEW v \in Int, NEW write
  PROVE  Remapped(vm_vmpage_setflags(vm_vmpage_map(vm, page, as, v), page, DirtyAfter(write)), vm, page, as, v)
<1> DEFINE old == VmPage(vm, page)
           x == <<as, v>>
           u == vm_vmpage_map(vm, page, as, v)
           r == vm_vmpage_setflags(u, page, DirtyAfter(write))
<1>1. x \in Mappings
  BY Zenon DEF Mappings
<1>2. old \in [maps : Seq(Mappings), dirty : BOOLEAN] /\ (page \in DOMAIN vm => old = vm[page])
      /\ (page \notin DOMAIN vm => old.maps = <<>>)
  <2>1. CASE page \in DOMAIN vm
    BY <2>1, Zenon DEF VmPage
  <2>2. CASE page \notin DOMAIN vm
    <3>1. old = [maps |-> <<>>, dirty |-> FALSE]
      BY <2>2 DEF VmPage
    <3> QED
      BY <2>2, <3>1
  <2> QED
    BY <2>1, <2>2
<1> HIDE DEF x, old
<1>3. CASE \E n \in DOMAIN old.maps : old.maps[n] = x
  <2>1. u = vm
    BY <1>3, Zenon DEF vm_vmpage_map, x, old
  <2>2. page \in DOMAIN vm
    BY <1>2, <1>3
  <2>3. DOMAIN r = DOMAIN vm /\ \A g \in DOMAIN vm : g # page => r[g] = vm[g]
    BY <2>1, <2>2 DEF vm_vmpage_setflags
  <2>4. r[page] = [vm[page] EXCEPT !.dirty = @ \/ TRUE]
    BY <2>1, <2>2 DEF vm_vmpage_setflags, DirtyAfter
  <2>5. r[page] \in [maps : Seq(Mappings), dirty : {TRUE}] /\ r[page].maps = vm[page].maps
    BY <2>2, <2>4, Zenon
  <2> HIDE DEF r, u
  <2>6. \A g \in DOMAIN vm : r[g] \in [maps : Seq(Mappings), dirty : {TRUE}] /\ r[g].maps = vm[g].maps
    BY <2>3, <2>5, Zenon
  <2>7. MapsWith(r, page, as, v)
    BY <1>2, <1>3, <2>2, <2>3, <2>6, Zenon DEF MapsWith, x
  <2> QED
    BY <2>2, <2>3, <2>6, <2>7, Zenon DEF r, u, Remapped
<1>4. CASE ~\E n \in DOMAIN old.maps : old.maps[n] = x
  <2> DEFINE new == [old EXCEPT !.maps = Append(@, x)]
  <2>1. u = Extended(vm, page, new)
    BY <1>4, Zenon DEF vm_vmpage_map, x, old
  <2>2. /\ new \in [maps : Seq(Mappings), dirty : BOOLEAN]
        /\ \A n \in DOMAIN old.maps : n \in DOMAIN new.maps /\ new.maps[n] = old.maps[n]
        /\ \E n \in DOMAIN new.maps : new.maps[n] = x
    <3>1. new.maps = Append(old.maps, x) /\ new \in [maps : Seq(Mappings), dirty : BOOLEAN]
      BY <1>1, <1>2
    <3>2. Len(old.maps) + 1 \in DOMAIN new.maps /\ new.maps[Len(old.maps) + 1] = x
      BY <1>1, <1>2, <3>1
    <3>3. \A n \in DOMAIN old.maps : n \in DOMAIN new.maps /\ new.maps[n] = old.maps[n]
      BY <1>1, <1>2, <3>1
    <3> QED
      BY <3>1, <3>2, <3>3
  <2> HIDE DEF new
  <2>3. DOMAIN u = DOMAIN vm \cup {page} /\ u[page] = new /\ \A g \in DOMAIN vm : g # page => u[g] = vm[g]
    BY <2>1 DEF Extended
  <2> HIDE DEF u
  <2>4. DOMAIN r = DOMAIN vm \cup {page} /\ \A g \in DOMAIN vm : g # page => r[g] = vm[g]
    BY <2>3 DEF vm_vmpage_setflags
  <2>5. r[page] = [new EXCEPT !.dirty = @ \/ TRUE]
    BY <2>3 DEF vm_vmpage_setflags, DirtyAfter
  <2>6. r[page] \in [maps : Seq(Mappings), dirty : {TRUE}] /\ r[page].maps = new.maps
    BY <2>2, <2>5, Zenon
  <2> HIDE DEF r
  <2>7. \A g \in DOMAIN r : r[g] \in [maps : Seq(Mappings), dirty : {TRUE}]
    BY <2>4, <2>6, Zenon
  <2>8. MapsWith(r, page, as, v)
    BY <2>2, <2>4, <2>6, Zenon DEF MapsWith, x
  <2>9. \A g \in DOMAIN vm : \A n \in DOMAIN vm[g].maps : n \in DOMAIN r[g].maps /\ r[g].maps[n] = vm[g].maps[n]
    BY <1>2, <2>2, <2>4, <2>6
  <2> QED
    BY <2>4, <2>7, <2>8, <2>9, Zenon DEF r, u, Remapped
<1> QED
  BY <1>3, <1>4, Zenon

\* r is vm with all mappings other than that of v
Unmapped(r, vm, as, v) ==
  /\ DOMAIN r = DOMAIN vm
  /\ \A g \in DOMAIN r : r[g] \in [maps : Seq(Mappings), dirty : {TRUE}]
  /\ \A g \in DOMAIN vm : \A n \in DOMAIN vm[g].maps : vm[g].maps[n] # <<as, v>> =>
       \E k \in DOMAIN r[g].maps : r[g].maps[k] = vm[g].maps[n]

\* vm_vmpage_unmap removes one mapping, and moves the last one to its place.
LEMMA UnmapRecorded ==
  ASSUME NEW vm, \A g \in DOMAIN vm : vm[g] \in [maps : Seq(Mappings), dirty : {TRUE}],
         NEW page \in DOMAIN vm, NEW as, NEW v
  PROVE  Unmapped(vm_vmpage_unmap(vm, page, as, v), vm, as, v)
<1> DEFINE old == vm[page].maps
           x == <<as, v>>
           at == {n \in DOMAIN old : old[n] = x}
           r == vm_vmpage_unmap(vm, page, as, v)
<1>0. VmPage(vm, page) = vm[page]
  BY DEF VmPage
<1>1. old \in Seq(Mappings) /\ DOMAIN old = 1..Len(old) /\ Len(old) \in Nat
  <2>1. old \in Seq(Mappings)
    BY Zenon
  <2> HIDE DEF old
  <2> QED
    BY <2>1
<1>2. CASE at = {}
  <2>1. r = vm
    BY <1>0, <1>2, Zenon DEF vm_vmpage_unmap
  <2> HIDE DEF r
  <2> QED
    BY <2>1, Zenon DEF Unmapped, r
<1>3. CASE at # {}
  <2> DEFINE f == Min(at)
             y == [old EXCEPT ![f] = old[Len(old)]]
             z == SubSeq(y, 1, Len(old) - 1)
  <2>1. f \in at
    <3>1. \E n \in at : \A m \in at : n <= m
      <4>0. DOMAIN old \subseteq Nat
        <5> HIDE DEF old
        <5> QED
          BY <1>1
      <4>1. at \in SUBSET Nat
        BY <4>0, Zenon
      <4> HIDE DEF at
      <4> QED
        BY <1>3, <4>1, LeastNatural
    <3> QED
      BY <3>1, Zenon DEF Min
  <2>2. f \in 1..Len(old) /\ old[f] = x
    BY <1>1, <2>1, Zenon
  <2>3. r = [vm EXCEPT ![page].maps = z]
    BY <1>0, <1>3, Zenon DEF vm_vmpage_unmap
  <2> HIDE DEF f, at, x, old
  <2>4. y \in Seq(Mappings) /\ Len(y) = Len(old) /\ y[f] = old[Len(old)] /\ \A n \in 1..Len(old) : n # f => y[n] = old[n]
    BY <1>1, <2>2
  <2> HIDE DEF y
  <2>5. z \in Seq(Mappings) /\ Len(z) = Len(old) - 1 /\ DOMAIN z = 1..Len(old) - 1
        /\ \A n \in 1..Len(old) - 1 : z[n] = y[n]
    BY <1>1, <2>2, <2>4
  <2> HIDE DEF z
  <2>6. ASSUME NEW n \in DOMAIN old, old[n] # x PROVE \E k \in DOMAIN z : z[k] = old[n]
    <3>1. n # f /\ n \in 1..Len(old)
      BY <1>1, <2>2, <2>6
    <3>2. CASE n = Len(old)
      <4>1. f \in 1..Len(old) - 1
        <5> DEFINE N == Len(old)
        <5>1. N \in Nat /\ f \in 1..N /\ n = N /\ n # f
          BY <1>1, <2>2, <3>1, <3>2, Zenon
        <5> HIDE DEF N
        <5>2. f \in 1..N - 1
          BY <5>1
        <5> QED
          BY <5>2 DEF N
      <4>2. z[f] = old[n] /\ f \in DOMAIN z
        BY <2>4, <2>5, <3>2, <4>1
      <4> QED
        BY <4>2
    <3>3. CASE n # Len(old)
      BY <1>1, <2>4, <2>5, <3>1, <3>3
    <3> QED
      BY <3>2, <3>3
  <2>7. DOMAIN r = DOMAIN vm /\ r[page] = [vm[page] EXCEPT !.maps = z] /\ \A g \in DOMAIN vm : g # page => r[g] = vm[g]
    BY <2>3
  <2>8. r[page] \in [maps : Seq(Mappings), dirty : {TRUE}] /\ r[page].maps = z
    BY <2>5, <2>7, Zenon
  <2> HIDE DEF r
  <2>9. \A g \in DOMAIN vm : \A n \in DOMAIN vm[g].maps : vm[g].maps[n] # x =>
          \E k \in DOMAIN r[g].maps : r[g].maps[k] = vm[g].maps[n]
    BY <2>6, <2>7, <2>8 DEF old
  <2>10. \A g \in DOMAIN r : r[g] \in [maps : Seq(Mappings), dirty : {TRUE}]
    BY <2>7, <2>8, Zenon
  <2> QED
    BY <2>7, <2>9, <2>10, Zenon DEF r, x, Unmapped
<1> QED
  BY <1>2, <1>3, Zenon

-----------------------------------------------------------------------------
\* What the steps of a fault do to the memory

\* r is a sound memory with the objects of m and the recorded pages of m
Later(m, r) ==
  /\ Sound(r) /\ Len(r.objs) = Len(m.objs) /\ DOMAIN r.objs = DOMAIN m.objs
  /\ \A i \in DOMAIN m.objs : r.objs[i].type = m.objs[i].type
  /\ DOMAIN m.vm \subseteq DOMAIN r.vm

\* page_alloc for an anonymous object
LEMMA FreshSound ==
  ASSUME NEW m, Sound(m), NEW o, Anon(m.objs, o), NEW n, n \notin DOMAIN m.objs[o].pages
  PROVE  LET got == Fresh(m, o, n)
         IN  /\ Later(m, got.m) /\ got.page \in 0..got.m.next - 1 /\ HasPage(got.m.objs[o], n, got.page)
             /\ got.m.pt = m.pt
<1> DEFINE got == Fresh(m, o, n)
           r == got.m
           x == m.objs[o]
           new == Extended(x.pages, n, m.next)
<1>0. IsMemory(m) /\ Typed(m) /\ Recorded(m.pt, m.vm) /\ PagesOwned(m.objs, m.cache, m.next) /\ KernelOwned(m.objs) /\ KernelMapped(m.objs, m.pt)
  BY DEF Sound
<1>1. /\ got.page = m.next
      /\ r = [pt |-> m.pt, phys |-> Extended(m.phys, m.next, [b \in 0..PerPage - 1 |-> Junk]), objs |-> Put(m.objs, o, new),
              vm |-> m.vm, cache |-> m.cache, next |-> m.next + 1]
  BY <1>0, Zenon DEF Fresh, IsMemory
<1>2. /\ r.pt = m.pt /\ DOMAIN r.phys = DOMAIN m.phys \cup {m.next} /\ r.vm = m.vm /\ r.cache = m.cache
      /\ r.next = m.next + 1 /\ r.objs = Put(m.objs, o, new) /\ IsMemory(r)
  <2> DEFINE c == [b \in 0..PerPage - 1 |-> Junk]
             f == Extended(m.phys, m.next, c)
             y == Put(m.objs, o, new)
  <2>1. DOMAIN f = DOMAIN m.phys \cup {m.next}
    <3> HIDE DEF c
    <3> QED
      BY DEF Extended
  <2>2. r = [pt |-> m.pt, phys |-> f, objs |-> y, vm |-> m.vm, cache |-> m.cache, next |-> m.next + 1]
    BY <1>1
  <2> HIDE DEF f, y, got
  <2>3. r.pt = m.pt /\ r.phys = f /\ r.vm = m.vm /\ r.cache = m.cache /\ r.next = m.next + 1 /\ r.objs = y /\ IsMemory(r)
    BY <2>2 DEF IsMemory
  <2> QED
    BY <2>1, <2>3 DEF y
<1>3. o \in DOMAIN m.objs /\ x.type = "anon" /\ x = [type |-> "anon", pages |-> x.pages, clean |-> x.clean]
      /\ Len(m.objs) \in Nat /\ DOMAIN m.objs = 1..Len(m.objs) /\ m.next \in Nat /\ FirstFree \in Nat /\ FirstFree <= m.next
  BY <1>0, VmAssumption DEF Anon, PagesOwned, Typed
<1>4. /\ DOMAIN r.objs = DOMAIN m.objs /\ Len(r.objs) = Len(m.objs)
      /\ r.objs[o] = [type |-> x.type, pages |-> new, clean |-> x.clean]
      /\ \A i \in DOMAIN m.objs : i # o => r.objs[i] = m.objs[i]
  BY <1>2, <1>3, PutIs
<1>5. DOMAIN new = DOMAIN x.pages \cup {n} /\ new[n] = m.next /\ \A k \in DOMAIN x.pages : k # n /\ new[k] = x.pages[k]
  BY DEF Extended
<1> HIDE DEF got, x, new
<1>6. \A i \in DOMAIN m.objs : r.objs[i].type = m.objs[i].type
  BY <1>3, <1>4 DEF x
<1>7. Typed(r)
  <2>1. 0..r.next - 1 = (0..m.next - 1) \cup {m.next}
    BY <1>2, <1>3
  <2>2. \A v \in DOMAIN r.pt : r.pt[v] \in [page : 0..r.next - 1, rw : BOOLEAN, user : BOOLEAN]
    BY <1>0, <1>2, <2>1 DEF Typed
  <2>3. \A c \in DOMAIN r.cache : r.cache[c] \in FirstFree..r.next - 1
    BY <1>0, <1>2, <1>3 DEF Typed
  <2> QED
    BY <1>0, <1>2, <1>3, <1>4, <2>1, <2>2, <2>3 DEF Typed
<1>8. Recorded(r.pt, r.vm)
  BY <1>0, <1>2, Zenon
<1>9. \A i \in DOMAIN m.objs : Anon(m.objs, i) =>
        \A k \in DOMAIN r.objs[i].pages :
          \/ i = o /\ k = n /\ r.objs[i].pages[k] = m.next
          \/ k \in DOMAIN m.objs[i].pages /\ r.objs[i].pages[k] = m.objs[i].pages[k]
  BY <1>4, <1>5 DEF x
<1>10. \A i \in DOMAIN m.objs : Anon(m.objs, i) => \A k \in DOMAIN m.objs[i].pages :
         m.objs[i].pages[k] \in FirstFree..m.next - 1 /\ m.objs[i].pages[k] # m.next
  <2>1. \A g \in FirstFree..m.next - 1 : g # m.next
    BY <1>3
  <2> QED
    BY <1>0, <2>1, Zenon DEF PagesOwned
<1>11. \A i \in DOMAIN m.objs : Anon(r.objs, i) <=> Anon(m.objs, i)
  BY <1>4, <1>6 DEF Anon
<1>12. PagesOwned(r.objs, r.cache, r.next)
  <2> SUFFICES ASSUME NEW i \in DOMAIN m.objs, Anon(m.objs, i)
               PROVE  /\ r.objs[i] = [type |-> "anon", pages |-> r.objs[i].pages, clean |-> r.objs[i].clean]
                      /\ \A k \in DOMAIN r.objs[i].pages :
                           /\ r.objs[i].pages[k] \in FirstFree..r.next - 1
                           /\ \A c \in DOMAIN r.cache : r.cache[c] # r.objs[i].pages[k]
    BY <1>4, <1>11 DEF PagesOwned
  <2>1. r.objs[i] = [type |-> "anon", pages |-> r.objs[i].pages, clean |-> r.objs[i].clean]
    BY <1>0, <1>3, <1>4 DEF PagesOwned
  <2>2. ASSUME NEW k \in DOMAIN r.objs[i].pages
        PROVE  /\ r.objs[i].pages[k] \in FirstFree..r.next - 1
               /\ \A c \in DOMAIN r.cache : r.cache[c] # r.objs[i].pages[k]
    <3>1. CASE r.objs[i].pages[k] = m.next
      BY <1>0, <1>2, <1>3, <3>1 DEF Typed
    <3>2. CASE k \in DOMAIN m.objs[i].pages /\ r.objs[i].pages[k] = m.objs[i].pages[k]
      <4>1. m.objs[i].pages[k] \in FirstFree..m.next - 1 /\ \A c \in DOMAIN m.cache : m.cache[c] # m.objs[i].pages[k]
        BY <1>0, <3>2, Zenon DEF PagesOwned
      <4> QED
        BY <1>2, <1>3, <3>2, <4>1
    <3> QED
      BY <1>9, <3>1, <3>2
  <2> QED
    BY <2>1, <2>2
<1>13. KernelOwned(r.objs)
  <2> SUFFICES ASSUME NEW q \in KernelObjects
               PROVE  /\ q \in DOMAIN r.objs
                      /\ IF Objects[q].type = "anon" THEN r.objs[q].type = "anon" /\ r.objs[q].clean = 0
                         ELSE r.objs[q] = Objects[q]
                      /\ Anon(r.objs, q) => \A k \in DOMAIN r.objs[q].pages : \A i \in DOMAIN r.objs : Anon(r.objs, i) =>
                           \A l \in DOMAIN r.objs[i].pages : r.objs[i].pages[l] = r.objs[q].pages[k] => i = q /\ l = k
    BY DEF KernelOwned
  <2>1. q \in DOMAIN m.objs
        /\ IF Objects[q].type = "anon" THEN m.objs[q].type = "anon" /\ m.objs[q].clean = 0 ELSE m.objs[q] = Objects[q]
    BY <1>0 DEF KernelOwned
  <2>2. IF Objects[q].type = "anon" THEN r.objs[q].type = "anon" /\ r.objs[q].clean = 0 ELSE r.objs[q] = Objects[q]
    BY <1>3, <1>4, <2>1 DEF x
  <2>3. ASSUME Anon(m.objs, q), NEW k \in DOMAIN r.objs[q].pages, NEW i \in DOMAIN m.objs, Anon(m.objs, i),
               NEW l \in DOMAIN r.objs[i].pages, r.objs[i].pages[l] = r.objs[q].pages[k]
        PROVE  i = q /\ l = k
    <3>1. \/ q = o /\ k = n /\ r.objs[q].pages[k] = m.next
          \/ k \in DOMAIN m.objs[q].pages /\ r.objs[q].pages[k] = m.objs[q].pages[k]
      BY <1>9, <2>1, <2>3
    <3>2. \/ i = o /\ l = n /\ r.objs[i].pages[l] = m.next
          \/ l \in DOMAIN m.objs[i].pages /\ r.objs[i].pages[l] = m.objs[i].pages[l]
      BY <1>9, <2>3
    <3>3. CASE k \in DOMAIN m.objs[q].pages /\ r.objs[q].pages[k] = m.objs[q].pages[k]
               /\ l \in DOMAIN m.objs[i].pages /\ r.objs[i].pages[l] = m.objs[i].pages[l]
      BY <1>0, <2>3, <3>3 DEF KernelOwned
    <3> QED
      BY <1>10, <2>1, <2>3, <3>1, <3>2, <3>3
  <2> QED
    BY <1>4, <1>11, <2>1, <2>2, <2>3
<1>14. KernelMapped(r.objs, r.pt)
  <2> SUFFICES ASSUME NEW b \in DOMAIN KasSegs, NEW p \in b..b + KasSegs[b].size - 1, VPage(p) \in DOMAIN m.pt
               PROVE  HasPage(r.objs[KasSegs[b].dirty], VPage(p - b), m.pt[VPage(p)].page)
    BY <1>2 DEF KernelMapped
  <2>1. HasPage(m.objs[KasSegs[b].dirty], VPage(p - b), m.pt[VPage(p)].page)
    BY <1>0 DEF KernelMapped
  <2>2. KasSegs[b].dirty \in DOMAIN m.objs
    BY <1>0 DEF KernelOwned, KernelObjects
  <2> DEFINE d == KasSegs[b].dirty
             k == VPage(p - b)
             g == m.pt[VPage(p)].page
  <2>3. d \in DOMAIN m.objs /\ HasPage(m.objs[d], k, g)
    BY <2>1, <2>2
  <2> HIDE DEF d, k, g
  <2>4. d # o => HasPage(r.objs[d], k, g)
    BY <1>4, <2>3, Zenon
  <2>5. ASSUME d = o PROVE HasPage(r.objs[d], k, g)
    <3>1. k \in DOMAIN x.pages /\ g = x.pages[k]
      BY <1>3, <2>3, <2>5, Zenon DEF HasPage, x
    <3>2. r.objs[d].type = "anon" /\ r.objs[d].pages = new
      BY <1>3, <1>4, <2>5
    <3> QED
      BY <1>5, <3>1, <3>2, Zenon DEF HasPage
  <2> QED
    BY <2>4, <2>5, Zenon DEF d, k, g
<1>15. got.page \in 0..r.next - 1 /\ HasPage(r.objs[o], n, got.page)
  BY <1>1, <1>2, <1>3, <1>4, <1>5 DEF HasPage
<1>16. Later(m, r)
  BY <1>2, <1>4, <1>6, <1>7, <1>8, <1>12, <1>13, <1>14 DEF Later, Sound
<1> QED
  BY <1>2, <1>15, <1>16 DEF got

\* A page got for a fault is mapped.  In a segment of the kernel it is the page that the
\* object of the segment has there.
LEMMA MappedSound ==
  ASSUME NEW got, Sound(got.m), got.page \in 0..got.m.next - 1,
         NEW as \in {Kas} \cup Nat, NEW seg, NEW p \in Int, NEW write \in BOOLEAN,
         \A b \in DOMAIN KasSegs : \A q \in b..b + KasSegs[b].size - 1 :
           VPage(q) = VPage(p) => HasPage(got.m.objs[KasSegs[b].dirty], VPage(q - b), got.page)
  PROVE  LET r == MappedIn(got, as, seg, p, write)
         IN  /\ Later(got.m, r) /\ r.objs = got.m.objs
             /\ VPage(p) \in DOMAIN r.pt /\ r.pt[VPage(p)].page = got.page
<1> DEFINE m == got.m
           v == VPage(p)
           e == [page |-> got.page, rw |-> write /\ "W" \in seg.perms, user |-> "U" \in seg.perms]
           r == MappedIn(got, as, seg, p, write)
           t == Extended(m.pt, v, e)
           u == vm_vmpage_setflags(vm_vmpage_map(m.vm, got.page, as, v), got.page, DirtyAfter(write))
<1>0. IsMemory(m) /\ Typed(m) /\ Recorded(m.pt, m.vm) /\ PagesOwned(m.objs, m.cache, m.next) /\ KernelOwned(m.objs) /\ KernelMapped(m.objs, m.pt)
  BY DEF Sound
<1>1. r = [pt |-> t, phys |-> m.phys, objs |-> m.objs, vm |-> u, cache |-> m.cache, next |-> m.next]
  <2>1. r = [m EXCEPT !.pt = t, !.vm = u]
    BY Zenon DEF MappedIn, vmap_map
  <2> HIDE DEF m, r, t, u
  <2> QED
    BY <1>0, <2>1, Zenon DEF IsMemory
<1>2. v \in Int /\ e \in [page : 0..m.next - 1, rw : BOOLEAN, user : BOOLEAN] /\ e.page = got.page
  BY PageIs
<1> HIDE DEF e
<1>3. DOMAIN t = DOMAIN m.pt \cup {v} /\ t[v] = e /\ \A w \in DOMAIN m.pt : w # v => t[w] = m.pt[w]
  BY DEF Extended
<1>4. \A g \in DOMAIN m.vm : m.vm[g] \in [maps : Seq(Mappings), dirty : {TRUE}]
  BY <1>0, Zenon DEF Recorded
<1>5. /\ DOMAIN u = DOMAIN m.vm \cup {got.page} /\ MapsWith(u, got.page, as, v)
      /\ \A g \in DOMAIN u : u[g] \in [maps : Seq(Mappings), dirty : {TRUE}]
      /\ \A g \in DOMAIN m.vm : \A n \in DOMAIN m.vm[g].maps :
           n \in DOMAIN u[g].maps /\ u[g].maps[n] = m.vm[g].maps[n]
  <2> DEFINE vm == m.vm
             page == got.page
  <2> HIDE DEF vm, page, v
  <2>1. v \in Int /\ \A g \in DOMAIN vm : vm[g] \in [maps : Seq(Mappings), dirty : {TRUE}]
    BY <1>2, <1>4, Zenon DEF vm
  <2>2. Remapped(vm_vmpage_setflags(vm_vmpage_map(vm, page, as, v), page, DirtyAfter(write)), vm, page, as, v)
    BY <2>1, MapRecorded, Zenon
  <2> QED
    BY <2>2, Zenon DEF vm, page, Remapped
<1> HIDE DEF t, u, r, v
<1>6. r.pt = t /\ r.phys = m.phys /\ r.objs = m.objs /\ r.vm = u /\ r.cache = m.cache /\ r.next = m.next /\ IsMemory(r)
  BY <1>1 DEF IsMemory
<1>7. Recorded(t, u)
  <2>1. ASSUME NEW w \in DOMAIN t
        PROVE  t[w].page \in DOMAIN u /\ \E n \in DOMAIN u[t[w].page].maps : u[t[w].page].maps[n][2] = w
    <3>1. CASE w = v
      BY <1>2, <1>3, <1>5, <3>1 DEF MapsWith
    <3>2. CASE w # v
      <4>1. w \in DOMAIN m.pt /\ t[w] = m.pt[w]
        BY <1>3, <3>2
      <4>2. PICK n \in DOMAIN m.vm[m.pt[w].page].maps : m.vm[m.pt[w].page].maps[n][2] = w
        BY <1>0, <4>1, Zenon DEF Recorded
      <4>3. m.pt[w].page \in DOMAIN m.vm
        BY <1>0, <4>1, Zenon DEF Recorded
      <4> QED
        BY <1>5, <4>1, <4>2, <4>3, Zenon
    <3> QED
      BY <3>1, <3>2
  <2> QED
    BY <1>5, <2>1, Zenon DEF Recorded
<1>8. Typed(r)
  <2>1. \A w \in DOMAIN t : t[w] \in [page : 0..m.next - 1, rw : BOOLEAN, user : BOOLEAN]
    BY <1>0, <1>2, <1>3 DEF Typed
  <2>2. DOMAIN u \subseteq 0..m.next - 1
    BY <1>0, <1>5, Zenon DEF Typed
  <2> QED
    BY <1>0, <1>6, <2>1, <2>2, Zenon DEF Typed
<1>9. PagesOwned(r.objs, r.cache, r.next) /\ KernelOwned(r.objs)
  BY <1>0, <1>6, Zenon
<1>10. KernelMapped(r.objs, r.pt)
  <2> SUFFICES ASSUME NEW b \in DOMAIN KasSegs, NEW q \in b..b + KasSegs[b].size - 1, VPage(q) \in DOMAIN t
               PROVE  HasPage(m.objs[KasSegs[b].dirty], VPage(q - b), t[VPage(q)].page)
    BY <1>6 DEF KernelMapped
  <2>1. CASE VPage(q) = v
    BY <1>2, <1>3, <2>1, Zenon DEF v
  <2>2. CASE VPage(q) # v
    BY <1>0, <1>3, <2>2, Zenon DEF KernelMapped
  <2> QED
    BY <2>1, <2>2
<1>11. Later(m, r)
  BY <1>5, <1>6, <1>7, <1>8, <1>9, <1>10 DEF Later, Sound
<1> QED
  BY <1>2, <1>3, <1>6, <1>11 DEF r, v

\* No anonymous object has page g
Nowhere(os, g) == \A i \in DOMAIN os : Anon(os, i) => \A n \in DOMAIN os[i].pages : os[i].pages[n] # g

\* vm_page_steal takes the page from the only object that has it.
LEMMA StealSound ==
  ASSUME NEW m, Sound(m), segs[Kas] = KasSegs, VPage(Arena) \in DOMAIN m.pt
  PROVE  LET r == vm_page_steal(m, Arena)
             g == m.pt[VPage(Arena)].page
         IN  /\ Later(m, r) /\ r.cache = m.cache /\ r.next = m.next
             /\ g \in FirstFree..r.next - 1 /\ Nowhere(r.objs, g)
<1> DEFINE v == VPage(Arena)
           g == m.pt[v].page
           o == KasSegs[Arena].dirty
           x == m.objs[o]
           new == Restricted(x.pages, DOMAIN x.pages \ {0})
           t == Restricted(m.pt, DOMAIN m.pt \ {v})
           u == vm_vmpage_unmap(m.vm, g, Kas, v)
           y == Put(m.objs, o, new)
           r == vm_page_steal(m, Arena)
<1>0. /\ IsMemory(m) /\ Typed(m) /\ Recorded(m.pt, m.vm) /\ PagesOwned(m.objs, m.cache, m.next)
      /\ KernelOwned(m.objs) /\ KernelMapped(m.objs, m.pt)
  BY DEF Sound
<1>1. Arena \in DOMAIN KasSegs /\ Arena \in Nat /\ KasSegs[Arena].size \in Nat \ {0} /\ Objects[o].type = "anon"
  BY VmAssumption
<1>2. VPage(Arena - Arena) = 0 /\ v \in Int
  <2>1. VPage(Arena) \in Int /\ VPage(Arena - Arena) = VPage(Arena) - VPage(Arena)
    BY <1>1, PageInSegment, PageIs
  <2> QED
    BY <2>1
<1>3. o \in KernelObjects /\ o \in DOMAIN m.objs /\ x.type = "anon" /\ Anon(m.objs, o)
      /\ x = [type |-> "anon", pages |-> x.pages, clean |-> x.clean]
  BY <1>0, <1>1 DEF KernelObjects, KernelOwned, PagesOwned, Anon
<1>4. 0 \in DOMAIN x.pages /\ x.pages[0] = g
  <2>1. Arena \in Arena..Arena + KasSegs[Arena].size - 1
    BY <1>1
  <2>2. HasPage(x, VPage(Arena - Arena), g)
    BY <1>0, <1>1, <2>1, Zenon DEF KernelMapped
  <2> QED
    BY <1>2, <1>3, <2>2 DEF HasPage
<1>5. r = [pt |-> t, phys |-> m.phys, objs |-> y, vm |-> u, cache |-> m.cache, next |-> m.next]
  <2>1. r = [m EXCEPT !.objs = y, !.vm = u, !.pt = t]
    BY <1>2, Zenon DEF vm_page_steal, vmap_unmap
  <2> HIDE DEF r, t, u, y
  <2> QED
    BY <1>0, <2>1, Zenon DEF IsMemory
<1>6. DOMAIN t = DOMAIN m.pt \ {v} /\ \A w \in DOMAIN t : t[w] = m.pt[w]
  BY DEF Restricted
<1>7. DOMAIN new = DOMAIN x.pages \ {0} /\ \A n \in DOMAIN new : new[n] = x.pages[n]
  BY Zenon DEF Restricted
<1>8. Unmapped(u, m.vm, Kas, v)
  <2> DEFINE vm == m.vm
  <2> HIDE DEF vm, v, g
  <2>1. g \in DOMAIN vm /\ \A h \in DOMAIN vm : vm[h] \in [maps : Seq(Mappings), dirty : {TRUE}]
    BY <1>0, Zenon DEF Recorded, vm, g, v
  <2>2. Unmapped(vm_vmpage_unmap(vm, g, Kas, v), vm, Kas, v)
    BY <2>1, UnmapRecorded, Zenon
  <2> QED
    BY <2>2, Zenon DEF vm
<1>9. Len(m.objs) \in Nat /\ DOMAIN m.objs = 1..Len(m.objs)
  BY <1>0 DEF Typed
<1>10. /\ DOMAIN y = DOMAIN m.objs /\ Len(y) = Len(m.objs)
       /\ y[o] = [type |-> x.type, pages |-> new, clean |-> x.clean]
       /\ \A i \in DOMAIN m.objs : i # o => y[i] = m.objs[i]
  <2> DEFINE s == m.objs
  <2> HIDE DEF s, o, new
  <2>1. Len(s) \in Nat /\ DOMAIN s = 1..Len(s) /\ o \in DOMAIN s
        /\ s[o] = [type |-> s[o].type, pages |-> s[o].pages, clean |-> s[o].clean]
    BY <1>3, <1>9 DEF s
  <2> QED
    BY <2>1, PutIs DEF s, x
<1> HIDE DEF r, t, u, y, new, x, o, v, g
<1>11. r.pt = t /\ r.phys = m.phys /\ r.objs = y /\ r.vm = u /\ r.cache = m.cache /\ r.next = m.next /\ IsMemory(r)
  BY <1>5 DEF IsMemory
<1>12. \A i \in DOMAIN m.objs : /\ y[i].type = m.objs[i].type /\ (Anon(y, i) <=> Anon(m.objs, i))
                                /\ \A n \in DOMAIN y[i].pages : Anon(y, i) =>
                                     n \in DOMAIN m.objs[i].pages /\ y[i].pages[n] = m.objs[i].pages[n]
  BY <1>3, <1>7, <1>10 DEF x, Anon
<1>13. Recorded(t, u)
  <2>1. ASSUME NEW w \in DOMAIN t
        PROVE  t[w].page \in DOMAIN u /\ \E n \in DOMAIN u[t[w].page].maps : u[t[w].page].maps[n][2] = w
    <3>1. w \in DOMAIN m.pt /\ w # v /\ t[w] = m.pt[w]
      BY <1>6
    <3>2. m.pt[w].page \in DOMAIN m.vm
      BY <1>0, <3>1, Zenon DEF Recorded
    <3>3. PICK n \in DOMAIN m.vm[m.pt[w].page].maps : m.vm[m.pt[w].page].maps[n][2] = w
      BY <1>0, <3>1, Zenon DEF Recorded
    <3>4. m.vm[m.pt[w].page].maps[n] # <<Kas, v>>
      <4>1. \A z : z[2] = w => z # <<Kas, v>>
        BY <3>1
      <4> QED
        BY <3>3, <4>1, Zenon
    <3>5. PICK k \in DOMAIN u[m.pt[w].page].maps : u[m.pt[w].page].maps[k] = m.vm[m.pt[w].page].maps[n]
      BY <1>8, <3>2, <3>4, Zenon DEF Unmapped
    <3> QED
      <4> DEFINE h == m.pt[w].page
      <4>1. u[h].maps[k][2] = w /\ t[w].page = h
        BY <3>1, <3>3, <3>5, Zenon
      <4>2. h \in DOMAIN u
        BY <1>8, <3>2, Zenon DEF Unmapped
      <4> QED
        BY <3>5, <4>1, <4>2, Zenon
  <2> QED
    BY <1>8, <2>1, Zenon DEF Recorded, Unmapped
<1>14. Typed(r)
  BY <1>0, <1>6, <1>8, <1>9, <1>10, <1>11 DEF Typed, Unmapped
<1>15. PagesOwned(y, m.cache, m.next)
  <2> SUFFICES ASSUME NEW i \in DOMAIN m.objs, Anon(y, i)
               PROVE  /\ y[i] = [type |-> "anon", pages |-> y[i].pages, clean |-> y[i].clean]
                      /\ \A k \in DOMAIN y[i].pages :
                           /\ y[i].pages[k] \in FirstFree..m.next - 1
                           /\ \A c \in DOMAIN m.cache : m.cache[c] # y[i].pages[k]
    BY <1>10, Zenon DEF PagesOwned
  <2>1. y[i] = [type |-> "anon", pages |-> y[i].pages, clean |-> y[i].clean]
    <3>1. CASE i = o
      BY <1>3, <1>10, <3>1
    <3>2. CASE i # o
      BY <1>0, <1>10, <1>12, <3>2, Zenon DEF PagesOwned
    <3> QED
      BY <3>1, <3>2
  <2>2. ASSUME NEW k \in DOMAIN y[i].pages
        PROVE  y[i].pages[k] \in FirstFree..m.next - 1 /\ \A c \in DOMAIN m.cache : m.cache[c] # y[i].pages[k]
    <3>1. Anon(m.objs, i) /\ k \in DOMAIN m.objs[i].pages /\ y[i].pages[k] = m.objs[i].pages[k]
      BY <1>12
    <3>2. m.objs[i].pages[k] \in FirstFree..m.next - 1 /\ \A c \in DOMAIN m.cache : m.cache[c] # m.objs[i].pages[k]
      BY <1>0, <3>1, Zenon DEF PagesOwned
    <3> QED
      BY <3>1, <3>2
  <2> QED
    BY <2>1, <2>2, Zenon
<1>16. KernelOwned(y)
  <2> SUFFICES ASSUME NEW q \in KernelObjects
               PROVE  /\ q \in DOMAIN y
                      /\ IF Objects[q].type = "anon" THEN y[q].type = "anon" /\ y[q].clean = 0 ELSE y[q] = Objects[q]
                      /\ Anon(y, q) => \A k \in DOMAIN y[q].pages : \A i \in DOMAIN y : Anon(y, i) =>
                           \A l \in DOMAIN y[i].pages : y[i].pages[l] = y[q].pages[k] => i = q /\ l = k
    BY Zenon DEF KernelOwned
  <2>1. q \in DOMAIN m.objs
        /\ IF Objects[q].type = "anon" THEN m.objs[q].type = "anon" /\ m.objs[q].clean = 0 ELSE m.objs[q] = Objects[q]
    BY <1>0 DEF KernelOwned
  <2>2. IF Objects[q].type = "anon" THEN y[q].type = "anon" /\ y[q].clean = 0 ELSE y[q] = Objects[q]
    BY <1>1, <1>3, <1>10, <2>1 DEF x, o
  <2>3. ASSUME Anon(y, q), NEW k \in DOMAIN y[q].pages, NEW i \in DOMAIN m.objs, Anon(y, i),
               NEW l \in DOMAIN y[i].pages, y[i].pages[l] = y[q].pages[k]
        PROVE  i = q /\ l = k
    <3>1. Anon(m.objs, q) /\ k \in DOMAIN m.objs[q].pages /\ y[q].pages[k] = m.objs[q].pages[k]
      BY <1>12, <2>1, <2>3, Zenon
    <3>2. Anon(m.objs, i) /\ l \in DOMAIN m.objs[i].pages /\ y[i].pages[l] = m.objs[i].pages[l]
      BY <1>12, <2>3, Zenon
    <3>3. \A n1 \in DOMAIN m.objs[q].pages : \A i1 \in DOMAIN m.objs : Anon(m.objs, i1) =>
            \A k1 \in DOMAIN m.objs[i1].pages : m.objs[i1].pages[k1] = m.objs[q].pages[n1] => i1 = q /\ k1 = n1
      BY <1>0, <3>1, Zenon DEF KernelOwned
    <3> QED
      BY <2>3, <3>1, <3>2, <3>3, Zenon
  <2> QED
    BY <1>10, <2>1, <2>2, <2>3
<1>17. KernelMapped(y, t)
  <2> SUFFICES ASSUME NEW b \in DOMAIN KasSegs, NEW p \in b..b + KasSegs[b].size - 1, VPage(p) \in DOMAIN t
               PROVE  HasPage(y[KasSegs[b].dirty], VPage(p - b), t[VPage(p)].page)
    BY DEF KernelMapped
  <2>1. HasPage(m.objs[KasSegs[b].dirty], VPage(p - b), t[VPage(p)].page)
    BY <1>0, <1>6 DEF KernelMapped
  <2>2. KasSegs[b].dirty \in DOMAIN m.objs
    BY <1>0 DEF KernelOwned, KernelObjects
  <2>3. CASE KasSegs[b].dirty # o
    BY <1>10, <2>1, <2>2, <2>3
  <2>4. CASE KasSegs[b].dirty = o
    <3>1. b = Arena
      <4>1. /\ b < Arena => KasSegs[b].dirty # KasSegs[Arena].dirty
            /\ Arena < b => KasSegs[Arena].dirty # KasSegs[b].dirty
        BY <1>1, VmAssumption, Zenon DEF Apart
      <4>2. b \in Nat
        BY PageInSegment
      <4> QED
        BY <1>1, <2>4, <4>1, <4>2 DEF o
    <3>2. VPage(p - b) # 0
      <4>1. p \in Int /\ VPage(p - b) = VPage(p) - v /\ VPage(p) # v /\ VPage(p) \in Int
        BY <1>1, <1>6, <3>1, PageInSegment, PageIs DEF v
      <4> QED
        BY <1>2, <4>1
    <3> QED
      BY <1>3, <1>7, <1>10, <2>1, <2>4, <3>2 DEF HasPage, x
  <2> QED
    BY <2>3, <2>4
<1>18. Nowhere(y, g)
  <2> SUFFICES ASSUME NEW i \in DOMAIN m.objs, Anon(y, i), NEW n \in DOMAIN y[i].pages, y[i].pages[n] = g
               PROVE  FALSE
    BY <1>10, Zenon DEF Nowhere
  <2>1. Anon(m.objs, i) /\ n \in DOMAIN m.objs[i].pages /\ m.objs[i].pages[n] = x.pages[0]
    BY <1>4, <1>12
  <2>2. i = o /\ n = 0
    BY <1>0, <1>3, <1>4, <2>1, Zenon DEF KernelOwned, x
  <2> QED
    BY <1>7, <1>10, <2>2
<1>19. g \in FirstFree..m.next - 1
  BY <1>0, <1>3, <1>4 DEF PagesOwned, x
<1>20. Later(m, r)
  BY <1>8, <1>10, <1>11, <1>12, <1>13, <1>14, <1>15, <1>16, <1>17 DEF Later, Sound, Unmapped
<1> QED
  BY <1>11, <1>18, <1>19, <1>20 DEF r, g, v

LEMMA LaterTrans ==
  ASSUME NEW m, NEW r, NEW s, Later(m, r), Later(r, s)
  PROVE  Later(m, s)
BY Zenon DEF Later

LEMMA LaterSame ==
  ASSUME NEW m, Sound(m)
  PROVE  Later(m, m)
BY Zenon DEF Later

\* What is in the pages does not matter here.
LEMMA BlocksSound ==
  ASSUME NEW m, Sound(m), NEW g, NEW x
  PROVE  LET r == [m EXCEPT !.phys[g] = x] IN Later(m, r) /\ r.pt = m.pt
<1> DEFINE f == [m.phys EXCEPT ![g] = x]
           r == [m EXCEPT !.phys[g] = x]
<1>1. DOMAIN f = DOMAIN m.phys
  OBVIOUS
<1>2. r = [pt |-> m.pt, phys |-> f, objs |-> m.objs, vm |-> m.vm, cache |-> m.cache, next |-> m.next]
  <2>1. r = [m EXCEPT !.phys = f]
    BY Zenon
  <2> HIDE DEF r, f
  <2> QED
    BY <2>1 DEF Sound, IsMemory
<1> HIDE DEF r, f
<1>3. r.pt = m.pt /\ r.phys = f /\ r.objs = m.objs /\ r.vm = m.vm /\ r.cache = m.cache /\ r.next = m.next /\ IsMemory(r)
  BY <1>2 DEF IsMemory
<1>4. Typed(r)
  BY <1>1, <1>3, Zenon DEF Sound, Typed
<1> QED
  BY <1>3, <1>4, Zenon DEF Later, Sound, r

\* tarfs_get_page: the page it returns is in no object.
LEMMA ReadSound ==
  ASSUME NEW m, Sound(m), segs[Kas] = KasSegs, NEW off
  PROVE  LET got == tarfs_get_page(m, off)
         IN  /\ Later(m, got.m) /\ got.page \in FirstFree..got.m.next - 1 /\ Nowhere(got.m.objs, got.page)
<1> DEFINE seg == KasSegs[Arena]
           o == seg.dirty
           v == VPage(Arena)
           had == [page |-> m.objs[o].pages[0], m |-> m]
           got == IF 0 \in DOMAIN m.objs[o].pages THEN had ELSE Fresh(m, o, 0)
           m1 == IF v \in DOMAIN m.pt THEN m ELSE MappedIn(got, Kas, seg, Arena, TRUE)
           m2 == [m1 EXCEPT !.phys[m1.pt[v].page] = PageOf(off)]
<1>1. /\ tarfs_get_page(m, off).page = m1.pt[v].page
      /\ tarfs_get_page(m, off).m = vm_page_steal(m2, Arena)
  BY DEF tarfs_get_page
<1>2. Arena \in DOMAIN KasSegs /\ Arena \in Nat /\ KasSegs[Arena].size \in Nat \ {0} /\ Objects[o].type = "anon"
  BY VmAssumption
<1>3. VPage(Arena - Arena) = 0
  <2>1. VPage(Arena) \in Int /\ VPage(Arena - Arena) = VPage(Arena) - VPage(Arena)
    BY <1>2, PageInSegment, PageIs
  <2> QED
    BY <2>1
<1>4. Anon(m.objs, o)
  BY <1>2 DEF Sound, KernelOwned, KernelObjects, Anon
<1>5. Later(m, got.m) /\ got.page \in 0..got.m.next - 1 /\ HasPage(got.m.objs[o], 0, got.page)
  <2>1. CASE 0 \in DOMAIN m.objs[o].pages
    <3>1. got.m = m /\ got.page = m.objs[o].pages[0]
      BY <2>1
    <3>2. m.objs[o].pages[0] \in FirstFree..m.next - 1 /\ FirstFree \in Nat
      BY <1>4, <2>1, VmAssumption, Zenon DEF Sound, PagesOwned, Anon
    <3>3. m.objs[o].pages[0] \in 0..m.next - 1
      BY <3>2
    <3> HIDE DEF got, had
    <3> QED
      BY <1>4, <2>1, <3>1, <3>3, LaterSame DEF HasPage, Anon
  <2>2. CASE 0 \notin DOMAIN m.objs[o].pages
    <3>1. got = Fresh(m, o, 0)
      BY <2>2
    <3> HIDE DEF o, got, had
    <3> QED
      BY <1>4, <2>2, <3>1, FreshSound
  <2> QED
    BY <2>1, <2>2, Zenon
<1> HIDE DEF got, had
<1>6. Later(m, m1) /\ v \in DOMAIN m1.pt
  <2>1. CASE v \in DOMAIN m.pt
    BY <2>1, LaterSame
  <2>2. CASE v \notin DOMAIN m.pt
    <3> DEFINE r == MappedIn(got, Kas, seg, Arena, TRUE)
    <3>1. ASSUME NEW b \in DOMAIN KasSegs, NEW q \in b..b + KasSegs[b].size - 1, VPage(q) = VPage(Arena)
          PROVE  HasPage(got.m.objs[KasSegs[b].dirty], VPage(q - b), got.page)
      <4>1. Arena \in Arena..Arena + KasSegs[Arena].size - 1 /\ Arena \in Int /\ q \in Int
        BY <1>2
      <4>2. b = Arena
        BY <1>2, <3>1, <4>1, OneSegment, Zenon
      <4>3. VPage(q - b) = VPage(q) - VPage(b) /\ VPage(Arena - b) = VPage(Arena) - VPage(b)
        BY <4>1, PageInSegment, Zenon
      <4> QED
        BY <1>3, <1>5, <3>1, <4>2, <4>3, Zenon
    <3>2. Sound(got.m) /\ Arena \in Int
      BY <1>2, <1>5 DEF Later
    <3>3. Later(got.m, r) /\ v \in DOMAIN r.pt
      <4> HIDE DEF seg
      <4> QED
        BY <1>5, <3>1, <3>2, MappedSound, Zenon
    <3>4. m1 = r
      BY <2>2
    <3> HIDE DEF r, m1
    <3> QED
      BY <1>5, <3>3, <3>4, LaterTrans, Zenon
  <2> QED
    BY <2>1, <2>2, Zenon
<1> HIDE DEF m1
<1>7. Later(m1, m2) /\ m2.pt = m1.pt
  <2> DEFINE g == m1.pt[v].page
             x == PageOf(off)
  <2>1. Sound(m1)
    BY <1>6 DEF Later
  <2> HIDE DEF g, x
  <2>2. LET r == [m1 EXCEPT !.phys[g] = x] IN Later(m1, r) /\ r.pt = m1.pt
    BY <2>1, BlocksSound
  <2> QED
    BY <2>2, Zenon DEF g, x
<1> HIDE DEF m2
<1>8. LET r == vm_page_steal(m2, Arena)
          g == m2.pt[VPage(Arena)].page
      IN  /\ Later(m2, r) /\ r.cache = m2.cache /\ r.next = m2.next
          /\ g \in FirstFree..r.next - 1 /\ Nowhere(r.objs, g)
  <2>1. Sound(m2) /\ VPage(Arena) \in DOMAIN m2.pt
    BY <1>6, <1>7 DEF Later
  <2> QED
    BY <2>1, StealSound
<1>9. Later(m, vm_page_steal(m2, Arena))
  BY <1>6, <1>7, <1>8, LaterTrans, Zenon
<1> QED
  BY <1>1, <1>7, <1>8, <1>9, Zenon

\* vnode_get_page: a page that was read goes to the cache.
LEMMA VnodeSound ==
  ASSUME NEW m, Sound(m), segs[Kas] = KasSegs, NEW off
  PROVE  LET got == vnode_get_page(m, off) IN Later(m, got.m) /\ got.page \in 0..got.m.next - 1
<1> DEFINE got == vnode_get_page(m, off)
<1>0. FirstFree \in Nat
  BY VmAssumption
<1>1. CASE Cached(m, off) # {}
  <2> DEFINE g == CHOOSE g \in Cached(m, off) : TRUE
  <2>1. got.page = g /\ got.m = m
    BY <1>1 DEF vnode_get_page
  <2>2. g \in Cached(m, off)
    BY <1>1
  <2> HIDE DEF g, got
  <2>3. g \in FirstFree..m.next - 1
    BY <2>2 DEF Cached, Sound, Typed
  <2>4. g \in 0..m.next - 1
    BY <1>0, <2>3
  <2> QED
    BY <2>1, <2>4, LaterSame DEF got
<1>2. CASE Cached(m, off) = {}
  <2> DEFINE red == tarfs_get_page(m, off)
             r == red.m
             c == Extended(r.cache, off, red.page)
             s == got.m
  <2>1. Later(m, r) /\ red.page \in FirstFree..r.next - 1 /\ Nowhere(r.objs, red.page)
    BY ReadSound
  <2>2. got = [red EXCEPT !.m.cache = c]
    BY <1>2, Zenon DEF vnode_get_page
  <2>3. red = [page |-> red.page, m |-> red.m]
    BY Zenon DEF tarfs_get_page
  <2>4. DOMAIN c = DOMAIN r.cache \cup {off} /\ c[off] = red.page /\ \A n \in DOMAIN r.cache : n # off => c[n] = r.cache[n]
    BY DEF Extended
  <2> HIDE DEF red, c, got
  <2>5. got.page = red.page /\ s = [r EXCEPT !.cache = c]
    BY <2>2, <2>3
  <2> HIDE DEF r, s
  <2>6. s = [pt |-> r.pt, phys |-> r.phys, objs |-> r.objs, vm |-> r.vm, cache |-> c, next |-> r.next]
    BY <2>1, <2>5 DEF Later, Sound, IsMemory
  <2>7. s.pt = r.pt /\ s.phys = r.phys /\ s.objs = r.objs /\ s.vm = r.vm /\ s.cache = c /\ s.next = r.next /\ IsMemory(s)
    BY <2>6 DEF IsMemory
  <2>8. Sound(r) /\ Typed(r) /\ Recorded(r.pt, r.vm) /\ PagesOwned(r.objs, r.cache, r.next) /\ KernelOwned(r.objs)
        /\ KernelMapped(r.objs, r.pt)
    BY <2>1 DEF Later, Sound
  <2>9. Typed(s)
    <3>1. \A n \in DOMAIN c : c[n] \in FirstFree..r.next - 1
      BY <2>1, <2>4, <2>8 DEF Typed
    <3> QED
      BY <2>7, <2>8, <3>1, Zenon DEF Typed
  <2>10. PagesOwned(r.objs, c, r.next)
    <3> SUFFICES ASSUME NEW i \in DOMAIN r.objs, Anon(r.objs, i), NEW k \in DOMAIN r.objs[i].pages, NEW n \in DOMAIN c
                 PROVE  c[n] # r.objs[i].pages[k]
      BY <2>8, Zenon DEF PagesOwned
    <3>1. CASE n = off
      BY <2>1, <2>4, <3>1, Zenon DEF Nowhere
    <3>2. CASE n # off
      <4>1. n \in DOMAIN r.cache /\ c[n] = r.cache[n]
        BY <2>4, <3>2
      <4> QED
        BY <2>8, <4>1, Zenon DEF PagesOwned
    <3> QED
      BY <3>1, <3>2
  <2>11. Later(r, s)
    BY <2>7, <2>8, <2>9, <2>10, Zenon DEF Later, Sound
  <2>12. r.next \in Nat /\ red.page \in 0..r.next - 1
    BY <1>0, <2>1, <2>8 DEF Typed
  <2> QED
    BY <2>1, <2>5, <2>7, <2>11, <2>12, LaterTrans, Zenon DEF got, s
<1> QED
  BY <1>1, <1>2

\* get_page of the object of a segment; in one of the kernel, it is the page that the
\* object has there from now on.
LEMMA GetSound ==
  ASSUME Sound(Memory), Spaces, NEW as \in DOMAIN segs, NEW b \in DOMAIN segs[as],
         NEW p \in Int, b \in Nat, b <= p, as = Kas => p \in b..b + segs[as][b].size - 1
  PROVE  LET o == segs[as][b].dirty
             got == get_page(Memory, o, p - b)
         IN  /\ Later(Memory, got.m) /\ got.page \in 0..got.m.next - 1
             /\ as = Kas => HasPage(got.m.objs[o], VPage(p - b), got.page)
<1> DEFINE o == segs[as][b].dirty
           off == p - b
           got == get_page(Memory, o, off)
<1>0. FirstFree \in Nat /\ segs[Kas] = KasSegs /\ Memory.objs = objs /\ Memory.next = nextpage
      /\ nextpage \in Nat /\ FirstFree <= nextpage
  BY VmAssumption, Zenon DEF Spaces, Memory, Sound, Typed
<1>1. as = Kas => b \in DOMAIN KasSegs /\ o \in KernelObjects /\ (objs[o].type = "anon" => objs[o].clean = 0)
  BY <1>0, Zenon DEF KernelObjects, Sound, KernelOwned
<1>2. as # Kas => o \in DOMAIN objs /\ objs[o].type = "anon"
  BY Zenon DEF Spaces, Procs, Private
<1>3. CASE objs[o].type = "anon"
  <2>1. got = vm_anon_get_page(Memory, o, off) /\ o \in DOMAIN objs
    BY <1>0, <1>1, <1>2, <1>3, Zenon DEF get_page, Sound, KernelOwned
  <2> HIDE DEF o, off, got
  <2>2. CASE VPage(off) \in DOMAIN objs[o].pages
    <3>1. got.page = objs[o].pages[VPage(off)] /\ got.m = Memory
      BY <2>1, <2>2 DEF vm_anon_get_page
    <3>2. objs[o].pages[VPage(off)] \in FirstFree..nextpage - 1
      BY <1>0, <1>3, <2>1, <2>2, Zenon DEF Sound, PagesOwned, Anon
    <3>3. objs[o].pages[VPage(off)] \in 0..nextpage - 1
      BY <1>0, <3>2
    <3> QED
      BY <1>0, <1>3, <2>2, <3>1, <3>3, LaterSame, Zenon DEF HasPage, o, off, got
  <2>3. CASE VPage(off) \notin DOMAIN objs[o].pages /\ objs[o].clean # 0
    <3>1. got = vnode_get_page(Memory, off) /\ as # Kas
      BY <1>1, <1>3, <2>1, <2>3, Zenon DEF vm_anon_get_page, o
    <3>2. Later(Memory, got.m) /\ got.page \in 0..got.m.next - 1
      BY <1>0, <3>1, VnodeSound
    <3> QED
      BY <3>1, <3>2, Zenon DEF o, off, got
  <2>4. CASE VPage(off) \notin DOMAIN objs[o].pages /\ objs[o].clean = 0
    <3>1. got = Fresh(Memory, o, VPage(off))
      BY <2>1, <2>4 DEF vm_anon_get_page
    <3>2. Anon(Memory.objs, o) /\ VPage(off) \notin DOMAIN Memory.objs[o].pages
      BY <1>0, <1>3, <2>1, <2>4 DEF Anon
    <3>3. Later(Memory, got.m) /\ got.page \in 0..got.m.next - 1 /\ HasPage(got.m.objs[o], VPage(off), got.page)
      BY <3>1, <3>2, FreshSound, Zenon
    <3> QED
      BY <3>3, Zenon DEF o, off, got
  <2> QED
    BY <2>2, <2>3, <2>4, Zenon
<1>4. CASE objs[o].type # "anon"
  <2>1. as = Kas /\ b \in DOMAIN KasSegs /\ o = KasSegs[b].dirty /\ o \in DOMAIN Objects
    BY <1>0, <1>1, <1>2, <1>4, VmAssumption, Zenon
  <2>2. objs[o] = Objects[o]
    BY <1>0, <1>1, <1>4, <2>1, Zenon DEF Sound, KernelOwned
  <2>3. Objects[o].type = "direct"
    BY <1>4, <2>1, <2>2, VmAssumption, Zenon
  <2>4. /\ Objects[o].base \in Nat /\ Objects[o].size = KasSegs[b].size /\ KasSegs[b].size \in Nat
        /\ Objects[o].base + VPage(KasSegs[b].size - 1) < FirstFree
    BY <2>1, <2>3, VmAssumption, Zenon DEF VPage
  <2>5. off \in Nat /\ off < KasSegs[b].size
    BY <1>0, <2>1, <2>4
  <2>6. got.m = Memory /\ got.page = Objects[o].base + VPage(off)
    BY <2>2, <2>3, <2>4, <2>5, Zenon DEF get_page, vm_direct_get_page
  <2>7. VPage(off) \in Nat /\ VPage(KasSegs[b].size - 1) \in Int /\ VPage(off) <= VPage(KasSegs[b].size - 1)
    BY <2>4, <2>5, PageIs
  <2> HIDE DEF got, off, o
  <2>8. got.page \in 0..nextpage - 1
    BY <1>0, <2>4, <2>6, <2>7
  <2> QED
    BY <1>0, <1>4, <2>2, <2>6, <2>8, LaterSame, Zenon DEF HasPage, got, off, o
<1> QED
  BY <1>3, <1>4, Zenon

-----------------------------------------------------------------------------
\* Steps that leave the objects and the segments

LEMMA PrivateKept ==
  ASSUME NEW os, NEW new, NEW s, Private(os, s),
         DOMAIN os \subseteq DOMAIN new, \A i \in DOMAIN os : new[i].type = os[i].type
  PROVE  Private(new, s)
<1>1. ASSUME NEW b \in DOMAIN s
      PROVE  /\ b \in Nat /\ "dirty" \in DOMAIN s[b]
             /\ s[b].dirty \in DOMAIN new \ KernelObjects /\ new[s[b].dirty].type = "anon"
  BY DEF Private
<1> QED
  BY <1>1, Zenon DEF Private

LEMMA BecomesInv ==
  ASSUME VmInv, NEW r, Later(Memory, r), Becomes(r), segs' = segs, written' \subseteq DOMAIN r.vm
  PROVE  VmInv'
<1>1. Memory' = r
  <2>1. IsMemory(r)
    BY DEF Later, Sound
  <2> QED
    BY <2>1 DEF Becomes, Memory, IsMemory
<1>2. Sound(Memory')
  BY <1>1, Zenon DEF Later
<1>3. Sound(Memory)'
  BY <1>2
<1>4. DOMAIN objs' = DOMAIN objs /\ \A i \in DOMAIN objs : objs'[i].type = objs[i].type
  BY DEF Later, Becomes, Memory
<1>5. Spaces'
  <2>1. ASSUME NEW as \in Procs PROVE Private(objs', segs[as])
    <3>1. Private(objs, segs[as])
      BY Zenon DEF VmInv, Spaces
    <3> QED
      BY <1>4, <3>1, PrivateKept, Zenon
  <2> QED
    BY <2>1, Zenon DEF VmInv, Spaces, Procs
<1> QED
  BY <1>3, <1>5 DEF VmInv, Becomes

\* vm_page_fault, for the kernel and for a process
LEMMA FaultStep ==
  ASSUME VmInv, NEW as \in DOMAIN segs, NEW p \in Int, NEW write \in BOOLEAN, NEW user,
         vm_page_fault(as, p, write, user)
  PROVE  VmInv'
<1>0. Sound(Memory) /\ Spaces /\ written \subseteq DOMAIN vmpages /\ segs' = segs /\ written' = written
      /\ Memory.vm = vmpages /\ Memory.pt = pt /\ Memory.objs = objs /\ Memory.next = nextpage
  BY DEF VmInv, vm_page_fault, Memory
<1>1. CASE Becomes(Memory)
  <2> DEFINE m == Memory
  <2>1. Later(m, m) /\ m.vm = vmpages
    BY <1>0, LaterSame
  <2> QED
    BY <1>0, <1>1, <2>1, BecomesInv
<1>2. ASSUME NEW at \in vm_resolve_address(as, p), p - at[2] < segs[at[1]][at[2]].size
      PROVE  /\ at[1] \in {Kas} \cup Nat /\ at[1] \in DOMAIN segs /\ at[2] \in DOMAIN segs[at[1]]
             /\ at[2] \in Nat /\ at[2] <= p
             /\ at[1] = Kas => at[2] \in DOMAIN KasSegs /\ p \in at[2]..at[2] + KasSegs[at[2]].size - 1
             /\ at[1] # Kas => \A b \in DOMAIN KasSegs : \A q \in b..b + KasSegs[b].size - 1 : VPage(q) # VPage(p)
  <2>1. /\ at[1] \in DOMAIN segs /\ at[2] \in DOMAIN segs[at[1]] /\ at[2] \in Nat /\ at[2] <= p
        /\ at[1] # Kas => \A b \in DOMAIN KasSegs : \A q \in b..b + KasSegs[b].size - 1 : VPage(q) # VPage(p)
    BY <1>0, Resolved, Zenon
  <2>2. at[1] \in {Kas} \cup Nat
    BY <1>0, <2>1 DEF Spaces
  <2>3. ASSUME at[1] = Kas PROVE at[2] \in DOMAIN KasSegs /\ p \in at[2]..at[2] + KasSegs[at[2]].size - 1
    <3>1. at[2] \in DOMAIN KasSegs /\ segs[at[1]][at[2]] = KasSegs[at[2]]
      BY <1>0, <2>1, <2>3 DEF Spaces
    <3>2. KasSegs[at[2]].size \in Nat
      BY <3>1, PageInSegment
    <3> QED
      BY <1>2, <2>1, <3>1, <3>2
  <2> QED
    BY <2>1, <2>2, <2>3
<1>3. ASSUME NEW at \in vm_resolve_address(as, p), p - at[2] < segs[at[1]][at[2]].size, FaultIn(at, p, write)
      PROVE  VmInv'
  <2> DEFINE seg == segs[at[1]][at[2]]
             got == get_page(Memory, seg.dirty, p - at[2])
             r == MappedIn(got, at[1], seg, p, write)
             c == at[1]
             d == at[2]
  <2>1. /\ c \in {Kas} \cup Nat /\ c \in DOMAIN segs /\ d \in DOMAIN segs[c] /\ d \in Nat /\ d <= p
        /\ c = Kas => d \in DOMAIN KasSegs /\ p \in d..d + KasSegs[d].size - 1 /\ segs[c][d] = KasSegs[d]
        /\ c # Kas => \A b \in DOMAIN KasSegs : \A q \in b..b + KasSegs[b].size - 1 : VPage(q) # VPage(p)
    BY <1>0, <1>2, <1>3, Zenon DEF Spaces
  <2>2. /\ Later(Memory, got.m) /\ got.page \in 0..got.m.next - 1
        /\ c = Kas => HasPage(got.m.objs[seg.dirty], VPage(p - d), got.page)
    <3> HIDE DEF c, d
    <3>1. LET o == segs[c][d].dirty
              g == get_page(Memory, o, p - d)
          IN  /\ Later(Memory, g.m) /\ g.page \in 0..g.m.next - 1
              /\ c = Kas => HasPage(g.m.objs[o], VPage(p - d), g.page)
      BY <1>0, <2>1, GetSound, Zenon
    <3> QED
      BY <3>1, Zenon DEF c, d
  <2> HIDE DEF got, c, d
  <2>3. ASSUME NEW b \in DOMAIN KasSegs, NEW q \in b..b + KasSegs[b].size - 1, VPage(q) = VPage(p)
        PROVE  HasPage(got.m.objs[KasSegs[b].dirty], VPage(q - b), got.page)
    <3>1. c = Kas /\ d = b
      BY <2>1, <2>3, OneSegment, Zenon
    <3>2. VPage(q - b) = VPage(q) - VPage(b) /\ VPage(p - b) = VPage(p) - VPage(b)
      BY PageInSegment
    <3>3. seg = KasSegs[b]
      BY <2>1, <3>1 DEF c, d
    <3> QED
      BY <2>2, <2>3, <3>1, <3>2, <3>3, Zenon
  <2>4. Sound(got.m)
    BY <2>2 DEF Later
  <2> HIDE DEF seg
  <2>5. Later(got.m, MappedIn(got, c, seg, p, write))
    BY <2>1, <2>2, <2>3, <2>4, MappedSound
  <2>6. Later(Memory, r)
    BY <2>2, <2>5, LaterTrans, Zenon DEF c
  <2>7. Becomes(r)
    BY <1>3, Zenon DEF FaultIn, got, seg
  <2> HIDE DEF r
  <2>8. written' \subseteq DOMAIN r.vm
    BY <1>0, <2>6 DEF Later
  <2> QED
    BY <1>0, <2>6, <2>7, <2>8, BecomesInv
<1>4. ASSUME NEW at \in vm_resolve_address(as, p), p - at[2] < segs[at[1]][at[2]].size,
             VPage(p) \in DOMAIN pt, FaultWrite(at, p)
      PROVE  VmInv'
  <2> DEFINE seg == segs[at[1]][at[2]]
             got == [page |-> pt[VPage(p)].page, m |-> Memory]
             c == at[1]
             r == MappedIn(got, c, seg, p, TRUE)
  <2>1. c \in {Kas} \cup Nat
    BY <1>2, <1>4, Zenon
  <2>2. got.m = Memory /\ got.page = pt[VPage(p)].page
    OBVIOUS
  <2>3. Becomes(r)
    BY <1>4, Zenon DEF FaultWrite
  <2> HIDE DEF got, c, seg
  <2>4. got.page \in 0..got.m.next - 1 /\ Sound(got.m)
    BY <1>0, <1>4, <2>2 DEF Sound, Typed
  <2>5. ASSUME NEW b \in DOMAIN KasSegs, NEW q \in b..b + KasSegs[b].size - 1, VPage(q) = VPage(p)
        PROVE  HasPage(got.m.objs[KasSegs[b].dirty], VPage(q - b), got.page)
    BY <1>0, <1>4, <2>2, <2>5, Zenon DEF Sound, KernelMapped
  <2>6. Later(got.m, r)
    BY <2>1, <2>4, <2>5, MappedSound, Zenon
  <2> HIDE DEF r
  <2>7. Later(Memory, r)
    BY <2>2, <2>6, Zenon
  <2>8. written' \subseteq DOMAIN r.vm
    BY <1>0, <2>7 DEF Later
  <2> QED
    BY <1>0, <2>3, <2>7, <2>8, BecomesInv
<1> QED
  BY <1>1, <1>3, <1>4, Zenon DEF vm_page_fault

\* A program writes to a page that is mapped: it has a record, which is dirty.
LEMMA StoreStep ==
  ASSUME VmInv, NEW as, NEW p, NEW v, NEW user, Store(as, p, v, user)
  PROVE  VmInv'
<1> DEFINE g == pt[VPage(p)].page
           x == [phys[g] EXCEPT ![p % PerPage] = v]
           r == [Memory EXCEPT !.phys[g] = x]
<1>1. VPage(p) \in DOMAIN pt /\ phys' = [phys EXCEPT ![g] = x] /\ written' = written \cup {g}
      /\ UNCHANGED <<pt, objs, segs, vmpages, cache, nextpage>>
  BY DEF Store, Permits
<1>2. g \in DOMAIN vmpages /\ written \subseteq DOMAIN vmpages
  BY <1>1 DEF VmInv, Sound, Recorded, Memory
<1>3. r = [pt |-> pt, phys |-> [phys EXCEPT ![g] = x], objs |-> objs, vm |-> vmpages, cache |-> cache, next |-> nextpage]
  <2> HIDE DEF x, g
  <2> QED
    BY DEF Memory
<1> HIDE DEF x, g
<1>4. Later(Memory, r)
  BY BlocksSound DEF VmInv
<1> HIDE DEF r
<1>5. Becomes(r) /\ written' \subseteq DOMAIN r.vm
  BY <1>1, <1>2, <1>3 DEF Becomes
<1> QED
  BY <1>1, <1>4, <1>5, BecomesInv

\* vm_vmpage_trapaccess only removes mappings.
LEMMA TrapStep ==
  ASSUME VmInv, NEW page, vm_vmpage_trapaccess(page)
  PROVE  VmInv'
<1> DEFINE V == {vmpages[page].maps[n][2] : n \in DOMAIN vmpages[page].maps}
           t == Restricted(pt, DOMAIN pt \ V)
           r == [pt |-> t, phys |-> phys, objs |-> objs, vm |-> vmpages, cache |-> cache, next |-> nextpage]
<1>0. /\ IsMemory(Memory) /\ Typed(Memory) /\ Recorded(pt, vmpages) /\ PagesOwned(objs, cache, nextpage)
      /\ KernelOwned(objs) /\ KernelMapped(objs, pt)
  BY DEF VmInv, Sound, Memory
<1>1. pt' = t /\ UNCHANGED <<phys, objs, segs, vmpages, cache, nextpage, written>>
  BY DEF vm_vmpage_trapaccess, vmap_unmap
<1> HIDE DEF V
<1>2. DOMAIN t \subseteq DOMAIN pt /\ \A v \in DOMAIN t : t[v] = pt[v]
  BY DEF Restricted
<1> HIDE DEF t
<1>3. IsMemory(r)
  BY DEF IsMemory
<1>4. Typed(r)
  BY <1>0, <1>2 DEF Typed, Memory
<1>5. Recorded(t, vmpages)
  BY <1>0, <1>2, Zenon DEF Recorded
<1>6. KernelMapped(objs, t)
  BY <1>0, <1>2, Zenon DEF KernelMapped
<1>7. Later(Memory, r)
  BY <1>0, <1>3, <1>4, <1>5, <1>6 DEF Later, Sound, Memory
<1>8. Becomes(r) /\ written' \subseteq DOMAIN r.vm
  BY <1>1 DEF Becomes, VmInv
<1> HIDE DEF r
<1> QED
  BY <1>1, <1>7, <1>8, BecomesInv

-----------------------------------------------------------------------------
\* Steps that make objects

\* An anonymous object without pages, or with those of an object that is not the kernel's
Copied(os, x) ==
  /\ x = [type |-> "anon", pages |-> x.pages, clean |-> x.clean] /\ x.type = "anon"
  /\ DOMAIN x.pages # {} => \E j \in DOMAIN os \ KernelObjects :
       /\ os[j].type = "anon"
       /\ \A n \in DOMAIN x.pages : n \in DOMAIN os[j].pages /\ x.pages[n] = os[j].pages[n]

Grown(os, new) ==
  /\ Len(new) \in Nat /\ DOMAIN new = 1..Len(new) /\ Len(os) <= Len(new)
  /\ \A i \in DOMAIN os : new[i] = os[i]
  /\ \A i \in DOMAIN new \ DOMAIN os : new[i].type = "anon" => Copied(os, new[i])

LEMMA GrownSound ==
  ASSUME VmInv, Grown(objs, objs'), UNCHANGED <<pt, phys, vmpages, cache, nextpage>>
  PROVE  Sound(Memory)' /\ DOMAIN objs \subseteq DOMAIN objs'
<1> DEFINE new == objs'
           r == [pt |-> pt, phys |-> phys, objs |-> new, vm |-> vmpages, cache |-> cache, next |-> nextpage]
<1>0. /\ IsMemory(Memory) /\ Typed(Memory) /\ Recorded(pt, vmpages) /\ PagesOwned(objs, cache, nextpage)
      /\ KernelOwned(objs) /\ KernelMapped(objs, pt)
  BY DEF VmInv, Sound, Memory
<1>1. Memory' = r
  BY DEF Memory
<1>2. IsMemory(r)
  BY DEF IsMemory
<1>3. Len(objs) \in Nat /\ DOMAIN objs = 1..Len(objs)
  BY <1>0 DEF Typed, Memory
<1>4. DOMAIN objs \subseteq DOMAIN new /\ \A i \in DOMAIN objs : new[i] = objs[i]
  BY <1>3 DEF Grown
<1>5. Typed(r)
  BY <1>0 DEF Typed, Memory, Grown
<1>6. ASSUME NEW i \in DOMAIN new, Anon(new, i)
      PROVE  /\ new[i] = [type |-> "anon", pages |-> new[i].pages, clean |-> new[i].clean]
             /\ \A n \in DOMAIN new[i].pages : \E j \in DOMAIN objs :
                  /\ Anon(objs, j) /\ n \in DOMAIN objs[j].pages /\ new[i].pages[n] = objs[j].pages[n]
                  /\ j = i \/ j \notin KernelObjects
  <2>1. CASE i \in DOMAIN objs
    BY <1>0, <1>4, <1>6, <2>1 DEF PagesOwned, Anon
  <2>2. CASE i \notin DOMAIN objs
    BY <1>6, <2>2, Zenon DEF Grown, Anon, Copied
  <2> QED
    BY <2>1, <2>2
<1>7. PagesOwned(new, cache, nextpage)
  <2> SUFFICES ASSUME NEW i \in DOMAIN new, Anon(new, i), NEW n \in DOMAIN new[i].pages
               PROVE  new[i].pages[n] \in FirstFree..nextpage - 1 /\ \A c \in DOMAIN cache : cache[c] # new[i].pages[n]
    BY <1>6, Zenon DEF PagesOwned
  <2>1. PICK j \in DOMAIN objs : /\ Anon(objs, j) /\ n \in DOMAIN objs[j].pages /\ new[i].pages[n] = objs[j].pages[n]
                                 /\ j = i \/ j \notin KernelObjects
    BY <1>6, Zenon
  <2>2. objs[j].pages[n] \in FirstFree..nextpage - 1 /\ \A c \in DOMAIN cache : cache[c] # objs[j].pages[n]
    BY <1>0, <2>1, Zenon DEF PagesOwned
  <2> QED
    BY <2>1, <2>2
<1>8. KernelOwned(new)
  <2> SUFFICES ASSUME NEW o \in KernelObjects
               PROVE  /\ o \in DOMAIN new
                      /\ IF Objects[o].type = "anon" THEN new[o].type = "anon" /\ new[o].clean = 0 ELSE new[o] = Objects[o]
                      /\ Anon(new, o) => \A k \in DOMAIN new[o].pages : \A i \in DOMAIN new : Anon(new, i) =>
                           \A l \in DOMAIN new[i].pages : new[i].pages[l] = new[o].pages[k] => i = o /\ l = k
    BY Zenon DEF KernelOwned
  <2>1. o \in DOMAIN objs /\ new[o] = objs[o] /\ o \in DOMAIN new
        /\ IF Objects[o].type = "anon" THEN objs[o].type = "anon" /\ objs[o].clean = 0 ELSE objs[o] = Objects[o]
    BY <1>0, <1>4 DEF KernelOwned
  <2>2. ASSUME Anon(new, o), NEW k \in DOMAIN new[o].pages, NEW i \in DOMAIN new, Anon(new, i),
               NEW l \in DOMAIN new[i].pages, new[i].pages[l] = new[o].pages[k]
        PROVE  i = o /\ l = k
    <3>1. PICK j \in DOMAIN objs : /\ Anon(objs, j) /\ l \in DOMAIN objs[j].pages /\ new[i].pages[l] = objs[j].pages[l]
                                   /\ j = i \/ j \notin KernelObjects
      BY <1>6, <2>2, Zenon
    <3>2. Anon(objs, o) /\ k \in DOMAIN objs[o].pages /\ objs[j].pages[l] = objs[o].pages[k]
      BY <2>1, <2>2, <3>1 DEF Anon
    <3>3. j = o /\ l = k
      BY <1>0, <3>1, <3>2, Zenon DEF KernelOwned
    <3> QED
      BY <3>1, <3>3
  <2> QED
    BY <2>1, <2>2, Zenon
<1>9. KernelMapped(new, pt)
  <2>1. \A b \in DOMAIN KasSegs : new[KasSegs[b].dirty] = objs[KasSegs[b].dirty]
    BY <1>0, <1>4 DEF KernelOwned, KernelObjects
  <2> QED
    BY <1>0, <2>1, Zenon DEF KernelMapped
<1>10. Sound(r)
  BY <1>0, <1>2, <1>5, <1>7, <1>8, <1>9 DEF Sound
<1>11. Sound(Memory')
  BY <1>1, <1>10, Zenon
<1> QED
  BY <1>4, <1>11

LEMMA InitVm ==
  ASSUME Init
  PROVE  VmInv
<1>1. /\ pt = <<>> /\ vmpages = <<>> /\ cache = <<>> /\ DOMAIN phys = 0..FirstFree - 1 /\ objs = Objects
      /\ nextpage = FirstFree /\ written = {} /\ DOMAIN segs = {Kas, 1} /\ segs[Kas] = KasSegs /\ (1 # Kas => segs[1] = UserSegs)
  BY DEF Init, NONE
<1>2. /\ FirstFree \in Nat /\ Kas \notin Nat \ {0} /\ Objects \in Seq({Objects[o] : o \in DOMAIN Objects})
      /\ \A o \in DOMAIN Objects : \/ Objects[o] = [type |-> "anon", pages |-> <<>>, clean |-> 0]
                                   \/ Objects[o].type = "direct"
      /\ KernelObjects \subseteq DOMAIN Objects
  BY VmAssumption DEF KernelObjects
<1>3. Len(Objects) \in Nat /\ DOMAIN Objects = 1..Len(Objects)
  BY <1>2
<1>4. IsMemory(Memory)
  BY DEF IsMemory, Memory
<1>5. DOMAIN pt = {} /\ DOMAIN vmpages = {} /\ DOMAIN cache = {}
  BY <1>1
<1>6. Typed(Memory)
  BY <1>1, <1>2, <1>3, <1>5 DEF Typed, Memory
<1>7. Recorded(pt, vmpages) /\ KernelMapped(objs, pt)
  BY <1>5 DEF Recorded, KernelMapped
<1>8. \A i \in DOMAIN Objects : Anon(Objects, i) =>
        /\ Objects[i] = [type |-> "anon", pages |-> Objects[i].pages, clean |-> Objects[i].clean]
        /\ DOMAIN Objects[i].pages = {} /\ Objects[i].clean = 0
  BY <1>2 DEF Anon
<1>9. PagesOwned(objs, cache, nextpage)
  BY <1>1, <1>8, Zenon DEF PagesOwned
<1>10. KernelOwned(objs)
  BY <1>1, <1>2, <1>8 DEF KernelOwned, Anon
<1>11. Private(Objects, UserSegs)
  <2>1. IsFiniteSet(DOMAIN UserSegs)
    BY VmAssumption
  <2>2. ASSUME NEW b \in DOMAIN UserSegs
        PROVE  /\ b \in Nat /\ "dirty" \in DOMAIN UserSegs[b]
               /\ UserSegs[b].dirty \in DOMAIN Objects \ KernelObjects /\ Objects[UserSegs[b].dirty].type = "anon"
    BY VmAssumption DEF KernelObjects
  <2> QED
    BY <2>1, <2>2, Zenon DEF Private
<1>12. Spaces
  <2>1. 1 \in Nat \ {0} /\ 1..1 = {1} /\ Kas # 1
    BY <1>2
  <2>2. DOMAIN segs = {Kas} \cup 1..1 /\ Procs = {1}
    BY <1>1, <2>1 DEF Procs
  <2> QED
    BY <1>1, <1>11, <2>1, <2>2, Zenon DEF Spaces
<1> QED
  BY <1>1, <1>4, <1>6, <1>7, <1>9, <1>10, <1>12 DEF VmInv, Sound, Memory

\* What a fault in a segment of the kernel has mapped: a page of page_alloc when the
\* object is anonymous, memory of the device below them all when it is not.
LEMMA KernelPage ==
  ASSUME VmInv, NEW b \in DOMAIN KasSegs, NEW p \in b..b + KasSegs[b].size - 1, VPage(p) \in DOMAIN pt
  PROVE  LET o == KasSegs[b].dirty
             g == pt[VPage(p)].page
             n == VPage(p - b)
         IN  \/ Anon(objs, o) /\ n \in DOMAIN objs[o].pages /\ g = objs[o].pages[n] /\ g >= FirstFree /\ g \in Nat
             \/ Objects[o].type = "direct" /\ objs[o] = Objects[o] /\ g = Objects[o].base + n /\ g < FirstFree
                /\ Objects[o].base \in Nat /\ g \in Nat
<1> DEFINE o == KasSegs[b].dirty
           g == pt[VPage(p)].page
           n == VPage(p - b)
<1>0. PagesOwned(objs, cache, nextpage) /\ KernelOwned(objs) /\ KernelMapped(objs, pt) /\ FirstFree \in Nat
  BY VmAssumption DEF VmInv, Sound, Memory
<1>1. HasPage(objs[o], n, g)
  BY <1>0 DEF KernelMapped
<1>2. o \in KernelObjects /\ o \in DOMAIN objs /\ o \in DOMAIN Objects
  <2>1. o \in KernelObjects
    BY Zenon DEF KernelObjects
  <2>2. o \in DOMAIN Objects
    BY VmAssumption, Zenon
  <2> QED
    BY <1>0, <2>1, <2>2, Zenon DEF KernelOwned
<1>3. CASE objs[o].type = "anon"
  <2>1. n \in DOMAIN objs[o].pages /\ g = objs[o].pages[n]
    BY <1>1, <1>3 DEF HasPage
  <2>2. objs[o].pages[n] \in FirstFree..nextpage - 1
    BY <1>0, <1>2, <1>3, <2>1, Zenon DEF PagesOwned, Anon
  <2> HIDE DEF g, n, o
  <2>3. g >= FirstFree /\ g \in Nat
    BY <1>0, <2>1, <2>2
  <2> QED
    BY <1>2, <1>3, <2>1, <2>3 DEF Anon, g, n, o
<1>4. CASE objs[o].type # "anon"
  <2>1. objs[o] = Objects[o]
    BY <1>0, <1>2, <1>4, Zenon DEF KernelOwned
  <2>2. Objects[o].type = "direct"
    BY <1>2, <1>4, <2>1, VmAssumption
  <2>3. /\ Objects[o].base \in Nat /\ KasSegs[b].size \in Nat /\ b \in Nat
        /\ Objects[o].base + VPage(KasSegs[b].size - 1) < FirstFree
    BY <2>2, VmAssumption, Zenon DEF VPage
  <2>4. g = Objects[o].base + n
    BY <1>1, <1>4, <2>1, Zenon DEF HasPage
  <2>5. p - b \in Nat /\ p - b <= KasSegs[b].size - 1
    BY <2>3
  <2>6. n \in Nat /\ n <= VPage(KasSegs[b].size - 1) /\ VPage(KasSegs[b].size - 1) \in Int
    BY <2>3, <2>5, PageIs
  <2> HIDE DEF g, n, o
  <2>7. g < FirstFree /\ g \in Nat
    BY <1>0, <2>3, <2>4, <2>6
  <2> QED
    BY <2>1, <2>2, <2>3, <2>4, <2>7 DEF g, n, o
<1> QED
  BY <1>3, <1>4, Zenon

-----------------------------------------------------------------------------
\* Steps that make objects and segments

INSTANCE FiniteSetTheorems

\* vfs_test: a private mapping of a file
LEMMA MapStep ==
  ASSUME VmInv, vfs_test
  PROVE  VmInv'
<1> DEFINE N == Len(objs)
           a == vm_object_anon(N + 1)
           seg == vm_segment_vnode(Tnode.size, {"U", "P"}, N + 1, N + 2)
<1>1. objs' = objs \o <<vm_object_vnode, a>> /\ segs' = [segs EXCEPT ![1] = Extended(@, MapAt, seg)]
      /\ UNCHANGED <<pt, phys, vmpages, cache, nextpage, written>>
  BY DEF vfs_test
<1>2. a = [type |-> "anon", pages |-> <<>>, clean |-> N + 1] /\ a.type = "anon" /\ DOMAIN a.pages = {}
      /\ a.pages = <<>> /\ a.clean = N + 1
  BY DEF vm_object_anon, NONE
<1>3. seg.dirty = N + 2 /\ "dirty" \in DOMAIN seg
  BY DEF vm_segment_vnode, vm_segment_base
<1>4. N \in Nat /\ DOMAIN objs = 1..N /\ vm_object_vnode.type = "vnode"
  BY DEF VmInv, Sound, Typed, Memory, vm_object_vnode
<1> HIDE DEF a, seg
<1>5. /\ Len(objs') = N + 2 /\ DOMAIN objs' = 1..N + 2 /\ objs'[N + 1] = vm_object_vnode /\ objs'[N + 2] = a
      /\ \A i \in DOMAIN objs : objs'[i] = objs[i]
  BY <1>1, <1>4
<1> HIDE DEF N
<1>6. Grown(objs, objs')
  <2>1. \A i \in DOMAIN objs' \ DOMAIN objs : i = N + 1 \/ i = N + 2
    BY <1>4, <1>5
  <2>2. ASSUME NEW i \in DOMAIN objs' \ DOMAIN objs, objs'[i].type = "anon"
        PROVE  Copied(objs, objs'[i])
    <3>1. objs'[i] = a
      BY <1>4, <1>5, <2>1, <2>2
    <3>2. Copied(objs, a)
      BY <1>2 DEF Copied
    <3> QED
      BY <3>1, <3>2
  <2> QED
    BY <1>4, <1>5, <2>2 DEF Grown, N
<1>7. Sound(Memory)' /\ DOMAIN objs \subseteq DOMAIN objs'
  BY <1>1, <1>6, GrownSound
<1>8. PICK n \in Nat \ {0} : DOMAIN segs = {Kas} \cup 1..n
  BY DEF VmInv, Spaces
<1>9. 1 \in DOMAIN segs /\ 1 # Kas /\ Procs' = Procs
  BY <1>1, <1>8, VmAssumption DEF Procs
<1>10. \A as \in Procs : Private(objs, segs[as])
  BY Zenon DEF VmInv, Spaces
<1>11. KernelObjects \subseteq DOMAIN objs
  BY DEF VmInv, Sound, KernelOwned, Memory
<1>12. ASSUME NEW as \in Procs PROVE Private(objs', segs'[as])
  <2>1. CASE as # 1
    <3>1. segs'[as] = segs[as]
      BY <1>1, <2>1
    <3> QED
      BY <1>5, <1>7, <1>10, <3>1, PrivateKept, Zenon
  <2>2. CASE as = 1
    <3> DEFINE s == segs[1]
               t == Extended(s, MapAt, seg)
    <3>1. segs'[as] = t /\ Private(objs, s)
      BY <1>1, <1>9, <1>10, <2>2
    <3>2. DOMAIN t = DOMAIN s \cup {MapAt} /\ t[MapAt] = seg /\ \A b \in DOMAIN s : b # MapAt => t[b] = s[b]
      BY DEF Extended
    <3> HIDE DEF s, t
    <3>3. IsFiniteSet(DOMAIN t)
      <4> DEFINE D == DOMAIN s
      <4>1. IsFiniteSet(D)
        BY <3>1, Zenon DEF Private
      <4> HIDE DEF D
      <4>2. IsFiniteSet(D \cup {MapAt})
        BY <4>1, FS_AddElement
      <4> QED
        BY <3>2, <4>2, Zenon DEF D
    <3>4. MapAt \in Nat
      BY VmAssumption
    <3>5. N + 2 \in DOMAIN objs' /\ N + 2 \notin KernelObjects /\ objs'[N + 2].type = "anon"
      BY <1>2, <1>4, <1>5, <1>11
    <3>6. ASSUME NEW b \in DOMAIN t
          PROVE  /\ b \in Nat /\ "dirty" \in DOMAIN t[b]
                 /\ t[b].dirty \in DOMAIN objs' \ KernelObjects /\ objs'[t[b].dirty].type = "anon"
      <4>1. CASE b = MapAt
        BY <1>3, <3>2, <3>4, <3>5, <4>1
      <4>2. CASE b # MapAt
        BY <1>5, <1>7, <3>1, <3>2, <4>2 DEF Private
      <4> QED
        BY <4>1, <4>2
    <3> QED
      BY <3>1, <3>3, <3>6 DEF Private
  <2> QED
    BY <2>1, <2>2, Zenon
<1>13. segs'[Kas] = KasSegs /\ DOMAIN segs' = DOMAIN segs
  BY <1>1, <1>9 DEF VmInv, Spaces
<1>14. Spaces'
  BY <1>8, <1>9, <1>12, <1>13 DEF Spaces
<1> QED
  BY <1>1, <1>7, <1>14 DEF VmInv

\* Counting the elements of a finite set of naturals up to each of them numbers the set.
LEMMA Ranked ==
  ASSUME NEW S \in SUBSET Nat, IsFiniteSet(S)
  PROVE  /\ Cardinality(S) \in Nat
         /\ \A b \in S : Cardinality({c \in S : c <= b}) \in 1..Cardinality(S)
         /\ \A k \in 1..Cardinality(S) : \E b \in S : Cardinality({c \in S : c <= b}) = k
<1> DEFINE N == Cardinality(S)
           To(b) == {c \in S : c <= b}
           f == [b \in S |-> Cardinality(To(b))]
<1>1. N \in Nat
  BY FS_CardinalityType
<1>2. ASSUME NEW b \in S
      PROVE  To(b) \in SUBSET S /\ IsFiniteSet(To(b)) /\ Cardinality(To(b)) \in 1..N
  <2> DEFINE T == To(b)
  <2>1. T \in SUBSET S /\ b \in T
    OBVIOUS
  <2> HIDE DEF T
  <2>2. IsFiniteSet(T) /\ Cardinality(T) <= N
    BY <2>1, FS_Subset, Zenon
  <2>3. Cardinality(T) \in Nat /\ Cardinality(T) # 0
    BY <2>1, <2>2, FS_CardinalityType, FS_EmptySet
  <2>4. Cardinality(T) \in 1..N
    BY <1>1, <2>2, <2>3
  <2> QED
    BY <2>1, <2>2, <2>4 DEF T
<1>3. ASSUME NEW b \in S, NEW c \in S, b < c PROVE Cardinality(To(b)) # Cardinality(To(c))
  <2> DEFINE T == To(b)
             U == To(c)
  <2>1. T \in SUBSET U /\ c \in U /\ c \notin T
    <3>1. (\A x \in S : x <= b => x <= c) /\ c <= c /\ ~(c <= b)
      BY <1>3
    <3> QED
      BY <3>1, Zenon
  <2>2. IsFiniteSet(U)
    BY <1>2
  <2> HIDE DEF T, U
  <2>3. Cardinality(U) = Cardinality(T) => U = T
    BY <2>1, <2>2, FS_Subset, Zenon
  <2>4. Cardinality(T) # Cardinality(U)
    BY <2>1, <2>3
  <2> QED
    BY <2>4 DEF T, U
<1> HIDE DEF N, To
<1>4. f \in [S -> 1..N] /\ \A b \in S : f[b] = Cardinality(To(b))
  BY <1>2
<1> HIDE DEF f
<1>5. f \in Injection(S, 1..N)
  <2>1. ASSUME NEW b \in S, NEW c \in S, f[b] = f[c] PROVE b = c
    <3>1. ~(b < c) /\ ~(c < b)
      BY <1>3, <1>4, <2>1
    <3> QED
      BY <3>1
  <2> QED
    BY <1>4, <2>1 DEF Injection, IsInjective
<1>6. IsFiniteSet(1..N) /\ Cardinality(1..N) = N
  BY <1>1, FS_Interval
<1>7. f \in Surjection(S, 1..N)
  <2> DEFINE T == 1..N
  <2>1. IsFiniteSet(T) /\ Cardinality(S) = Cardinality(T) /\ f \in Injection(S, T)
    BY <1>5, <1>6 DEF N
  <2> HIDE DEF T
  <2>2. f \in Surjection(S, T)
    BY <2>1, FS_Injection
  <2> QED
    BY <2>2 DEF T
<1>8. \A k \in 1..N : \E b \in S : f[b] = k
  BY <1>7 DEF Surjection
<1> QED
  BY <1>1, <1>2, <1>4, <1>8 DEF N, To

\* process_fork: the copies of the objects are anonymous, with the pages of the parent's
LEMMA ForkStep ==
  ASSUME VmInv, NEW parent \in Procs, process_fork(parent)
  PROVE  VmInv'
<1> DEFINE s == segs[parent]
           bases == DOMAIN s
           N == Len(objs)
           C == Cardinality(bases)
           rank(b) == Cardinality({c \in bases : c <= b})
           child == Cardinality(Procs) + 1
           base(o) == CHOOSE b \in bases : N + rank(b) = o
           t == process_duplicate_as(parent)
<1>1. /\ objs' = [o \in 1..N + C |-> IF o <= N THEN objs[o] ELSE vm_segment_copy(s[base(o)])]
      /\ segs' = Extended(segs, child, t)
      /\ UNCHANGED <<pt, phys, vmpages, cache, nextpage, written>>
  BY Zenon DEF process_fork, NewObject
<1>2. N \in Nat /\ DOMAIN objs = 1..N
  BY DEF VmInv, Sound, Typed, Memory
<1>3. Private(objs, s)
  BY DEF VmInv, Spaces
<1>4. /\ C \in Nat /\ \A b \in bases : rank(b) \in 1..C
      /\ \A k \in 1..C : \E b \in bases : rank(b) = k
  <2> DEFINE D == bases
  <2> HIDE DEF D
  <2>1. D \in SUBSET Nat /\ IsFiniteSet(D)
    BY <1>3 DEF Private, D
  <2>2. /\ Cardinality(D) \in Nat /\ \A b \in D : Cardinality({c \in D : c <= b}) \in 1..Cardinality(D)
        /\ \A k \in 1..Cardinality(D) : \E b \in D : Cardinality({c \in D : c <= b}) = k
    BY <2>1, Ranked, Zenon
  <2> QED
    BY <2>2, Zenon DEF D
<1>5. DOMAIN t = bases /\ \A b \in bases : "dirty" \in DOMAIN t[b] /\ t[b].dirty = N + rank(b)
  <2>1. t = [b \in bases |-> [s[b] EXCEPT !.dirty = N + rank(b), !.perms = @ \cup {"P"}]]
    BY Zenon DEF process_duplicate_as, NewObject
  <2>2. \A b \in bases : "dirty" \in DOMAIN s[b]
    BY <1>3 DEF Private
  <2> HIDE DEF t, rank, N, bases, s
  <2> QED
    BY <2>1, <2>2, Zenon
<1> HIDE DEF t, rank, N, C
<1>6. ASSUME NEW o \in N + 1..N + C PROVE base(o) \in bases
  <2>1. o - N \in 1..C /\ N + (o - N) = o
    BY <1>2, <1>4
  <2>2. \E b \in bases : N + rank(b) = o
    BY <1>4, <2>1
  <2> HIDE DEF bases
  <2> QED
    BY <2>2, Zenon
<1> HIDE DEF base
<1>7. ASSUME NEW b \in bases
      PROVE  Copied(objs, vm_segment_copy(s[b]))
  <2> DEFINE d == s[b].dirty
             x == vm_segment_copy(s[b])
  <2>1. d \in DOMAIN objs \ KernelObjects /\ objs[d].type = "anon"
    BY <1>3 DEF Private
  <2>2. objs[d] = [type |-> "anon", pages |-> objs[d].pages, clean |-> objs[d].clean]
    BY <2>1 DEF VmInv, Sound, PagesOwned, Anon, Memory
  <2>3. CASE s[b].clean # d
    <3>1. x = objs[d]
      BY <2>3 DEF vm_segment_copy, vm_object_anon_copy
    <3> HIDE DEF x, d
    <3> QED
      BY <2>1, <2>2, <3>1 DEF x, Copied
  <2>4. CASE s[b].clean = d
    <3>1. x = [type |-> "anon", pages |-> <<>>, clean |-> d]
      BY <2>4 DEF vm_segment_copy, vm_object_anon, NONE
    <3> HIDE DEF x, d
    <3> QED
      BY <3>1 DEF x, Copied
  <2> QED
    BY <2>3, <2>4
<1>8. /\ DOMAIN objs' = 1..N + C /\ \A o \in 1..N : objs'[o] = objs[o]
      /\ \A o \in N + 1..N + C : objs'[o] = vm_segment_copy(s[base(o)])
  BY <1>1, <1>2, <1>4
<1>9. Len(objs') = N + C
  <2>1. objs' \in [1..N + C -> {objs'[o] : o \in 1..N + C}] /\ N + C \in Nat
    BY <1>1, <1>2, <1>4
  <2> QED
    BY <2>1
<1>10. Grown(objs, objs')
  <2>1. DOMAIN objs' \ DOMAIN objs = N + 1..N + C
    BY <1>2, <1>4, <1>8
  <2>2. \A i \in N + 1..N + C : Copied(objs, objs'[i])
    BY <1>6, <1>7, <1>8, Zenon
  <2>3. N <= N + C /\ N + C \in Nat
    BY <1>2, <1>4
  <2> QED
    BY <1>2, <1>8, <1>9, <2>1, <2>2, <2>3 DEF Grown, N
<1>11. Sound(Memory)' /\ DOMAIN objs \subseteq DOMAIN objs'
  BY <1>1, <1>10, GrownSound
<1>12. PICK n \in Nat \ {0} : DOMAIN segs = {Kas} \cup 1..n
  BY DEF VmInv, Spaces
<1>13. Procs = 1..n /\ child = n + 1 /\ Kas # n + 1
  <2>0. Kas \notin Nat \ {0}
    BY VmAssumption, Zenon
  <2>1. Procs = 1..n /\ Kas # n + 1
    BY <1>12, <2>0 DEF Procs
  <2>2. Cardinality(1..n) = n
    BY <1>12, FS_Interval
  <2> QED
    BY <2>1, <2>2
<1> HIDE DEF child
<1>14. DOMAIN segs' = {Kas} \cup 1..n + 1 /\ segs'[child] = t /\ \A as \in DOMAIN segs : segs'[as] = segs[as]
  <2>1. DOMAIN segs' = DOMAIN segs \cup {child} /\ segs'[child] = t /\ \A as \in DOMAIN segs : as # child => segs'[as] = segs[as]
    BY <1>1 DEF Extended
  <2>2. child \notin DOMAIN segs /\ {Kas} \cup 1..n + 1 = DOMAIN segs \cup {child}
    BY <1>12, <1>13
  <2> QED
    BY <2>1, <2>2
<1>15. Procs' = 1..n + 1
  BY <1>14, VmAssumption DEF Procs
<1>16. KernelObjects \subseteq DOMAIN objs
  BY DEF VmInv, Sound, KernelOwned, Memory
<1>17. Private(objs', t)
  <2>1. ASSUME NEW b \in bases
        PROVE  /\ b \in Nat /\ "dirty" \in DOMAIN t[b]
               /\ t[b].dirty \in DOMAIN objs' \ KernelObjects /\ objs'[t[b].dirty].type = "anon"
    <3>1. t[b].dirty \in N + 1..N + C
      BY <1>2, <1>4, <1>5
    <3>2. t[b].dirty \in DOMAIN objs' \ KernelObjects
      BY <1>2, <1>4, <1>8, <1>16, <3>1
    <3>3. objs'[t[b].dirty].type = "anon"
      <4>1. Copied(objs, objs'[t[b].dirty])
        BY <1>6, <1>7, <1>8, <3>1, Zenon
      <4> QED
        BY <4>1 DEF Copied
    <3> QED
      BY <1>3, <1>5, <3>2, <3>3 DEF Private
  <2> QED
    BY <1>3, <1>5, <2>1 DEF Private
<1>18. \A as \in Procs : Private(objs, segs[as])
  BY Zenon DEF VmInv, Spaces
<1>19. ASSUME NEW as \in Procs' PROVE Private(objs', segs'[as])
  <2>1. CASE as = child
    BY <1>14, <1>17, <2>1
  <2>2. CASE as # child
    <3>1. as \in Procs
      <4>1. as \in 1..n + 1 /\ as # n + 1
        BY <1>13, <1>15, <2>2, Zenon
      <4>2. as \in 1..n
        <5>1. \A x \in 1..n + 1 : x # n + 1 => x \in 1..n
          OBVIOUS
        <5> QED
          BY <4>1, <5>1, Zenon
      <4> QED
        BY <1>13, <4>2, Zenon
    <3>2. segs'[as] = segs[as] /\ Private(objs, segs[as])
      BY <1>14, <1>18, <3>1, Zenon DEF Procs
    <3>3. \A i \in DOMAIN objs : objs'[i] = objs[i]
      BY <1>2, <1>8
    <3> QED
      BY <1>11, <3>2, <3>3, PrivateKept, Zenon
  <2> QED
    BY <2>1, <2>2, Zenon
<1>20. segs'[Kas] = KasSegs
  BY <1>12, <1>14 DEF VmInv, Spaces
<1>21. n + 1 \in Nat \ {0}
  BY <1>12
<1>22. Spaces'
  BY <1>14, <1>19, <1>20, <1>21 DEF Spaces
<1> QED
  BY <1>1, <1>11, <1>22 DEF VmInv

-----------------------------------------------------------------------------
\* The invariant

LEMMA VmStep ==
  ASSUME VmInv, [Next]_vars
  PROVE  VmInv'
<1>1. ASSUME UNCHANGED vmVars PROVE VmInv'
  <2>1. UNCHANGED <<pt, phys, objs, segs, vmpages, cache, nextpage, written>>
    BY <1>1 DEF vmVars
  <2>2. Memory' = Memory
    BY <2>1 DEF Memory
  <2>3. Sound(Memory')
    BY <2>2, Zenon DEF VmInv
  <2>4. Spaces'
    BY <2>1, Zenon DEF VmInv, Spaces, Procs
  <2> QED
    BY <2>1, <2>3, <2>4 DEF VmInv
<1>2. ASSUME Memories PROVE VmInv'
  <2>1. ASSUME NEW as \in DOMAIN segs, NEW p \in Addresses(as), NEW user \in {FALSE, as # Kas},
               \/ nextpage <= MaxPage /\ \E write \in BOOLEAN : vm_page_fault(as, p, write, user)
               \/ \E v \in Values : /\ user \/ "W" \in segs[as][CHOOSE b \in vm_get_segment(as, p) : TRUE].perms
                                    /\ Store(as, p, v, user)
        PROVE  VmInv'
    <3>1. p \in Int
      <4>1. PICK b \in DOMAIN segs[as] : p \in b..b + segs[as][b].size - 1
        BY Zenon DEF Addresses
      <4> QED
        BY <4>1
    <3> QED
      BY <2>1, <3>1, FaultStep, StoreStep, Zenon
  <2>2. ASSUME NEW page \in DOMAIN vmpages, vm_vmpage_trapaccess(page) PROVE VmInv'
    BY <2>2, TrapStep
  <2>3. ASSUME NEW as \in Procs, process_fork(as) PROVE VmInv'
    BY <2>3, ForkStep, Zenon
  <2> QED
    BY <1>2, <2>1, <2>2, <2>3, Zenon DEF Memories
<1> QED
  BY <1>1, <1>2, MapStep, Zenon DEF Next, vars

\* Every state has the records, objects and mappings that VmInv says.
THEOREM VmInvariance == Spec => []VmInv
<1>1. Init => VmInv
  BY InitVm
<1>2. VmInv /\ [Next]_vars => VmInv'
  BY VmStep
<1> QED
  BY <1>1, <1>2, PTL DEF Spec

\* However many pages, processes and objects there are, vm_vmpage_trapaccess finds every
\* mapping of a page on its record: vm_page_fault enters each one, vm_page_steal takes out
\* only the one it unmaps, and process_fork makes none.
THEOREM RecordedMappingsCorrect == Spec => []RecordedMappings
<1>1. ASSUME VmInv PROVE RecordedMappings
  <2>1. /\ nextpage \in Nat /\ DOMAIN phys = 0..nextpage - 1
        /\ \A v \in DOMAIN pt : pt[v] \in [page : 0..nextpage - 1, rw : BOOLEAN, user : BOOLEAN]
        /\ DOMAIN vmpages \subseteq 0..nextpage - 1
        /\ \A c \in DOMAIN cache : cache[c] \in FirstFree..nextpage - 1
    BY <1>1, Zenon DEF VmInv, Sound, Typed, Memory
  <2>2. Cardinality(0..nextpage - 1) = nextpage
    BY <2>1, FS_Interval
  <2>3. FirstFree \in Nat
    BY VmAssumption
  <2>4. \A c \in DOMAIN cache : cache[c] \in DOMAIN phys
    BY <2>1, <2>3
  <2>5. ASSUME NEW as \in DOMAIN segs, NEW b \in DOMAIN segs[as] PROVE segs[as][b].dirty \in DOMAIN objs
    <3>1. CASE as = Kas
      <4>1. segs[as] = KasSegs /\ KernelOwned(objs)
        BY <1>1, <3>1, Zenon DEF VmInv, Spaces, Sound, Memory
      <4> QED
        BY <4>1 DEF KernelOwned, KernelObjects
    <3>2. CASE as # Kas
      BY <1>1, <3>2, Zenon DEF VmInv, Spaces, Procs, Private
    <3> QED
      BY <3>1, <3>2, Zenon
  <2>6. TypeOK
    BY <2>1, <2>2, <2>4, <2>5 DEF TypeOK
  <2> QED
    BY <1>1, <2>6, Zenon DEF RecordedMappings, VmInv, Sound, Recorded, Memory
<1> QED
  BY <1>1, VmInvariance, PTL

\* A page that a program has written has a record that says it is dirty, since a fault
\* marks what it maps as dirty, also for a read.
THEOREM WrittenIsDirtyCorrect == Spec => []WrittenIsDirty
<1>1. ASSUME VmInv PROVE WrittenIsDirty
  BY <1>1, Zenon DEF WrittenIsDirty, VmInv, Sound, Recorded, Memory
<1> QED
  BY <1>1, VmInvariance, PTL

\* The kernel maps no page twice, and no page of the page cache: objects of the kernel
\* share no page, vm_page_steal takes the page that tarfs_get_page read into out of the
\* arena, and what it was mapped at, before the page enters the cache.
THEOREM OnePlaceCorrect == Spec => []OnePlace
<1>1. ASSUME VmInv, NEW v \in DOMAIN pt, v \in {VPage(p) : p \in Addresses(Kas)}
      PROVE  \E b \in DOMAIN KasSegs : \E p \in b..b + KasSegs[b].size - 1 : v = VPage(p)
  <2>1. segs[Kas] = KasSegs
    BY <1>1 DEF VmInv, Spaces
  <2>2. PICK p \in Addresses(Kas) : v = VPage(p)
    BY <1>1
  <2> QED
    BY <2>1, <2>2, Zenon DEF Addresses
<1>2. ASSUME VmInv, NEW v \in DOMAIN pt, NEW w \in DOMAIN pt, v \in {VPage(p) : p \in Addresses(Kas)},
             w \in {VPage(p) : p \in Addresses(Kas)}, v # w, pt[v].page = pt[w].page
      PROVE  FALSE
  <2>1. PICK b \in DOMAIN KasSegs : \E p \in b..b + KasSegs[b].size - 1 : v = VPage(p)
    BY <1>1, <1>2, Zenon
  <2>2. PICK p \in b..b + KasSegs[b].size - 1 : v = VPage(p)
    BY <2>1, Zenon
  <2>3. PICK c \in DOMAIN KasSegs : \E q \in c..c + KasSegs[c].size - 1 : w = VPage(q)
    BY <1>1, <1>2, Zenon
  <2>4. PICK q \in c..c + KasSegs[c].size - 1 : w = VPage(q)
    BY <2>3, Zenon
  <2> DEFINE o == KasSegs[b].dirty
             u == KasSegs[c].dirty
             n == VPage(p - b)
             k == VPage(q - c)
             g == pt[v].page
  <2>5. /\ b \in Nat /\ c \in Nat /\ KasSegs[b].size \in Nat /\ KasSegs[c].size \in Nat /\ p \in Int /\ q \in Int
        /\ n = v - VPage(b) /\ k = w - VPage(c) /\ v \in Int /\ w \in Int /\ VPage(b) \in Int
    BY <2>2, <2>4, PageInSegment, PageIs
  <2>6. (b < c => Apart(b, c)) /\ (c < b => Apart(c, b))
    BY VmAssumption, Zenon
  <2>7. b = c => n # k
    BY <1>2, <2>5
  <2>8. b # c => o # u
    <3>1. (b < c => o # u) /\ (c < b => u # o)
      BY <2>6, Zenon DEF Apart
    <3> QED
      BY <2>5, <3>1
  <2>9. \/ Anon(objs, o) /\ n \in DOMAIN objs[o].pages /\ g = objs[o].pages[n] /\ g >= FirstFree /\ g \in Nat
        \/ Objects[o].type = "direct" /\ objs[o] = Objects[o] /\ g = Objects[o].base + n /\ g < FirstFree
           /\ Objects[o].base \in Nat /\ g \in Nat
    BY <1>2, <2>2, KernelPage
  <2>10. \/ Anon(objs, u) /\ k \in DOMAIN objs[u].pages /\ g = objs[u].pages[k] /\ g >= FirstFree /\ g \in Nat
         \/ Objects[u].type = "direct" /\ objs[u] = Objects[u] /\ g = Objects[u].base + k /\ g < FirstFree
            /\ Objects[u].base \in Nat /\ g \in Nat
    <3>1. VPage(q) \in DOMAIN pt /\ g = pt[VPage(q)].page
      BY <1>2, <2>4, Zenon
    <3> HIDE DEF g
    <3> QED
      BY <1>2, <2>4, <3>1, KernelPage, Zenon
  <2>11. b # c /\ Objects[o].type = "direct" /\ Objects[u].type = "direct" => Objects[o].base + n # Objects[u].base + k
    <3>1. p - b \in 0..KasSegs[b].size - 1 /\ q - c \in 0..KasSegs[c].size - 1
      BY <2>5
    <3>2. /\ b < c /\ Objects[o].type = "direct" /\ Objects[u].type = "direct" => Objects[o].base + n # Objects[u].base + k
          /\ c < b /\ Objects[u].type = "direct" /\ Objects[o].type = "direct" => Objects[u].base + k # Objects[o].base + n
      BY <2>6, <3>1, Zenon DEF Apart, VPage
    <3> QED
      BY <2>5, <3>2
  <2>12. o \in KernelObjects /\ KernelOwned(objs) /\ FirstFree \in Nat
    BY <1>2, VmAssumption, Zenon DEF KernelObjects, VmInv, Sound, Memory
  <2>13. CASE Anon(objs, o) /\ n \in DOMAIN objs[o].pages /\ g = objs[o].pages[n]
              /\ Anon(objs, u) /\ k \in DOMAIN objs[u].pages /\ g = objs[u].pages[k]
    <3>0. u \in DOMAIN objs /\ objs[u].pages[k] = objs[o].pages[n]
      BY <2>13 DEF Anon
    <3> HIDE DEF o, u, n, k
    <3>1. u = o /\ k = n
      BY <2>12, <2>13, <3>0, Zenon DEF KernelOwned
    <3> QED
      BY <2>7, <2>8, <3>1
  <2>14. CASE Objects[o].type = "direct" /\ Objects[u].type = "direct" /\ g = Objects[o].base + n /\ g = Objects[u].base + k
    <3>1. CASE b = c
      <4>0. Objects[o].base \in Nat
        BY <2>14, VmAssumption, Zenon
      <4>1. Objects[o].base \in Nat /\ n \in Int /\ k \in Int /\ u = o
        BY <2>5, <3>1, <4>0
      <4> HIDE DEF o, n, k, g, u
      <4> QED
        BY <2>7, <2>14, <3>1, <4>1
    <3>2. CASE b # c
      BY <2>11, <2>14, <3>2
    <3> QED
      BY <3>1, <3>2
  <2> HIDE DEF o, u, n, k, g
  <2>15. g \in Nat /\ ~(g < FirstFree /\ g >= FirstFree)
    BY <2>9, <2>12
  <2> QED
    BY <2>9, <2>10, <2>13, <2>14, <2>15, Zenon
<1>3. ASSUME VmInv, NEW c \in DOMAIN cache, NEW v \in DOMAIN pt, v \in {VPage(p) : p \in Addresses(Kas)},
             pt[v].page = cache[c]
      PROVE  FALSE
  <2>0. PICK b \in DOMAIN KasSegs : \E p \in b..b + KasSegs[b].size - 1 : v = VPage(p)
    BY <1>1, <1>3, Zenon
  <2>1. PICK p \in b..b + KasSegs[b].size - 1 : v = VPage(p)
    BY <2>0, Zenon
  <2>2. cache[c] \in FirstFree..nextpage - 1 /\ PagesOwned(objs, cache, nextpage) /\ FirstFree \in Nat
    BY <1>3, VmAssumption, Zenon DEF VmInv, Sound, Typed, Memory
  <2> DEFINE o == KasSegs[b].dirty
             n == VPage(p - b)
             g == pt[v].page
  <2>3. \/ Anon(objs, o) /\ n \in DOMAIN objs[o].pages /\ g = objs[o].pages[n] /\ g >= FirstFree /\ g \in Nat
        \/ Objects[o].type = "direct" /\ objs[o] = Objects[o] /\ g = Objects[o].base + n /\ g < FirstFree
           /\ Objects[o].base \in Nat /\ g \in Nat
    BY <1>3, <2>1, KernelPage, Zenon
  <2> HIDE DEF o, n
  <2>4. CASE Anon(objs, o) /\ n \in DOMAIN objs[o].pages /\ g = objs[o].pages[n]
    <3>1. objs[o].pages[n] # cache[c]
      BY <1>3, <2>2, <2>4, Zenon DEF PagesOwned, Anon
    <3> QED
      BY <1>3, <2>4, <3>1, Zenon
  <2>5. CASE g < FirstFree /\ g \in Nat
    BY <1>3, <2>2, <2>5
  <2> QED
    BY <2>3, <2>4, <2>5, Zenon
<1>4. ASSUME VmInv PROVE OnePlace
  <2>1. \A c \in DOMAIN cache : \A i \in DOMAIN objs : objs[i].type = "anon" =>
          \A n \in DOMAIN objs[i].pages : objs[i].pages[n] # cache[c]
    BY <1>4, Zenon DEF VmInv, Sound, PagesOwned, Anon, Memory
  <2> QED
    BY <1>2, <1>3, <1>4, <2>1, Zenon DEF OnePlace
<1> QED
  BY <1>4, VmInvariance, PTL

\* The file system works as by itself: nothing but tarfs_scan changes it, so that what
\* holds of every scan holds of the one in the kernel.
THEOREM ScanOnly == Spec => TarSpec
<1>1. Init => InitTar
  BY Zenon DEF Init
<1>2. [Next]_vars => [tarfs_scan]_tarVars
  BY Zenon DEF Next, vars
<1> QED
  BY <1>1, <1>2, PTL DEF Spec, TarSpec
=============================================================================
