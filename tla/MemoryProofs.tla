---------------------------- MODULE MemoryProofs -----------------------------
(***************************************************************************)
(* Physical pages, for any memory map whose ranges do not overlap, and any *)
(* place and size of the kernel.  PagesInv is the inductive invariant of   *)
(* the boot and of the heap; the operations of Pages preserve it, whoever  *)
(* calls them.  Then the slabs in the pages of the heap, for any sizes of  *)
(* their elements: their layout, SlabInv, the inductive invariant of the   *)
(* allocator, and what slab_alloc does to it with a new slab.              *)
(***************************************************************************)
EXTENDS Slab, FiniteSetTheorems, SequenceTheorems, TLAPS

-----------------------------------------------------------------------------
\* Naturals and finite sets of them

\* A set of naturals that is not empty has a least element: initial segments are well
\* founded by inclusion.
LEMMA LeastNatural ==
  ASSUME NEW T \in SUBSET Nat, T # {}
  PROVE  \E n \in T : \A m \in T : n <= m
<1> DEFINE F == {0..n : n \in T}
<1>0. \A n \in T : 0..n \in FiniteSubsetsOf(Nat)
  BY FS_Interval DEF FiniteSubsetsOf
<1>1. F # {} /\ F \subseteq FiniteSubsetsOf(Nat)
  BY <1>0, Zenon
<1>2. \E x \in F : \A y \in F : <<y, x>> \notin StrictSubsetOrdering(Nat)
  <2> HIDE DEF F
  <2> QED
    BY <1>1, FS_StrictSubsetOrderingWellFounded, WFMin, Zenon
<1>3. PICK n \in T : \A m \in T : <<0..m, 0..n>> \notin StrictSubsetOrdering(Nat)
  BY <1>2, Zenon
<1>4. \A X, Y \in SUBSET Nat : X \subseteq Y /\ X # Y => <<X, Y>> \in StrictSubsetOrdering(Nat)
  BY Zenon DEF StrictSubsetOrdering
<1>5. ASSUME NEW m \in T, m < n PROVE FALSE
  <2>1. 0..m \subseteq 0..n /\ n \in 0..n /\ n \notin 0..m
    BY <1>5
  <2>2. 0..m \in SUBSET Nat /\ 0..n \in SUBSET Nat
    OBVIOUS
  <2> QED
    BY <2>1, <2>2, <1>3, <1>4, Zenon
<1> QED
  BY <1>3, <1>5

\* Min and Max of the community modules return what they say.
LEMMA MinOf ==
  ASSUME NEW S \in SUBSET Nat, S # {}
  PROVE  Min(S) \in S /\ \A y \in S : Min(S) <= y
<1>1. \E x \in S : \A y \in S : x <= y
  BY LeastNatural
<1> QED
  BY <1>1, Zenon DEF Min

LEMMA MaxOf ==
  ASSUME NEW n \in Nat, NEW S \in SUBSET (0..n), S # {}
  PROVE  Max(S) \in S /\ \A y \in S : y <= Max(S)
<1> DEFINE T == {k \in 0..n : n - k \in S}
<1>1. PICK k \in T : \A m \in T : k <= m
  <2>1. PICK x \in S : TRUE
    BY Zenon
  <2>2. n - x \in 0..n /\ n - (n - x) = x
    OBVIOUS
  <2>3. n - x \in T
    BY <2>2
  <2>4. T \in SUBSET Nat
    OBVIOUS
  <2> HIDE DEF T
  <2> QED
    BY <2>3, <2>4, LeastNatural
<1>4. \A y \in S : n - k >= y
  <2> TAKE y \in S
  <2>1. n - y \in T
    OBVIOUS
  <2> QED
    BY <1>1, <2>1
<1>5. \E z \in S : \A y \in S : z >= y
  BY <1>1, <1>4
<1> QED
  BY <1>5, Zenon DEF Max

-----------------------------------------------------------------------------
\* The inductive invariant

PageRange == [base : Nat, count : Nat, free : Nat, available : UNION {[0..n - 1 -> BOOLEAN] : n \in Nat}]

PageBits(m) == {p \in DOMAIN mmap[m].available : mmap[m].available[p]}

RangesTyped ==
  /\ mmap \in Seq(PageRange)
  /\ \A m \in DOMAIN mmap : mmap[m].available \in [0..mmap[m].count - 1 -> BOOLEAN]

PagesTyped ==
  /\ nextalloc \in Nat
  /\ boot \in [phase : {"add", "free", "done"}, entry : Nat \ {0}, page : Nat]
  /\ heap_pages \in 0..MaxHeap /\ kas \in Seq(Nat) /\ Len(kas) = heap_pages
  /\ ~Booted => heap_pages = 0

\* A range is an entry of the memory map, which the first pass has been at
RangesFromMap ==
  \A m \in DOMAIN mmap : \E k \in DOMAIN MemoryMap :
    /\ MemoryMap[k].available
    /\ mmap[m].base = MemoryMap[k].base /\ mmap[m].count = MemoryMap[k].count
    /\ boot.phase = "add" => k < boot.entry

RangesDisjoint ==
  \A m, n \in DOMAIN mmap :
    m # n => \/ mmap[m].base + mmap[m].count <= mmap[n].base
             \/ mmap[n].base + mmap[n].count <= mmap[m].base

\* The second pass has been at a page
Passed(g) ==
  \E k \in DOMAIN MemoryMap :
    /\ MemoryMap[k].available
    /\ MemoryMap[k].base <= g /\ g < MemoryMap[k].base + MemoryMap[k].count
    /\ k < boot.entry \/ (k = boot.entry /\ g < MemoryMap[k].base + boot.page)

FreePassed ==
  /\ boot.phase = "add" => FreePages = {}
  /\ boot.phase = "free" => \A g \in FreePages : Passed(g)

\* Until bootstrap_finish the page that the kernel ends in is its own as well
KernelApart == ~Booted => \A g \in FreePages : g < KernelStart \/ g > pend

PagesInv ==
  /\ RangesTyped /\ PagesTyped /\ RangesFromMap /\ RangesDisjoint /\ CountsBits
  /\ FreePassed /\ KernelApart /\ KernelKept /\ HeapPagesDistinct

-----------------------------------------------------------------------------
\* A function on 1..n is a sequence
LEMMA SeqOf ==
  ASSUME NEW S, NEW n \in Nat, NEW s \in [1..n -> S]
  PROVE  s \in Seq(S) /\ Len(s) = n
<1>1. s \in Seq(S)
  <2>1. s \in UNION {[1..k -> S] : k \in Nat}
    BY Zenon
  <2> QED
    BY <2>1, SeqDef, Zenon
<1>2. DOMAIN s = 1..Len(s) /\ DOMAIN s = 1..n /\ Len(s) \in Nat
  BY <1>1, LenProperties
<1> QED
  BY <1>1, <1>2

LEMMA FiniteTo ==
  ASSUME NEW n \in Nat
  PROVE  IsFiniteSet(0..n - 1)
<1>1. n - 1 \in Int /\ 0 \in Int
  OBVIOUS
<1> QED
  BY <1>1, FS_Interval, Zenon

LEMMA RangeTyped ==
  ASSUME RangesTyped, NEW m \in DOMAIN mmap
  PROVE  /\ mmap[m] \in PageRange
         /\ mmap[m].base \in Nat /\ mmap[m].count \in Nat /\ mmap[m].free \in Nat
         /\ mmap[m].available \in [0..mmap[m].count - 1 -> BOOLEAN]
<1>1. mmap[m] \in PageRange /\ mmap[m].available \in [0..mmap[m].count - 1 -> BOOLEAN]
  BY ElementOfSeq DEF RangesTyped
<1> QED
  BY <1>1 DEF PageRange

\* A page is free when its bit is set
FreeBit(g) ==
  \E m \in DOMAIN mmap : \E q \in 0..mmap[m].count - 1 : mmap[m].available[q] /\ g = mmap[m].base + q

LEMMA FreeIs == RangesTyped => \A g : g \in FreePages <=> FreeBit(g)
<1> SUFFICES ASSUME RangesTyped, NEW g PROVE g \in FreePages <=> FreeBit(g)
  OBVIOUS
<1>1. \A m \in DOMAIN mmap : DOMAIN mmap[m].available = 0..mmap[m].count - 1
  BY RangeTyped
<1>2. g \in FreePages <=> \E m \in DOMAIN mmap : g \in {mmap[m].base + p : p \in PageBits(m)}
  BY Zenon DEF FreePages, PageBits
<1>3. ASSUME NEW m \in DOMAIN mmap
      PROVE  g \in {mmap[m].base + p : p \in PageBits(m)}
               <=> \E q \in 0..mmap[m].count - 1 : mmap[m].available[q] /\ g = mmap[m].base + q
  BY <1>1, Zenon DEF PageBits
<1> QED
  BY <1>2, <1>3, Zenon DEF FreeBit

LEMMA FreeIsNext == (RangesTyped => \A g : g \in FreePages <=> FreeBit(g))'
BY FreeIs, PTL

\* The bits of a range are a finite set, and its count is their number
LEMMA BitsFinite ==
  ASSUME RangesTyped, NEW m \in DOMAIN mmap
  PROVE  IsFiniteSet(PageBits(m)) /\ PageBits(m) \in SUBSET (0..mmap[m].count - 1)
<1>1. mmap[m].count \in Nat /\ mmap[m].available \in [0..mmap[m].count - 1 -> BOOLEAN]
  BY RangeTyped
<1>2. PageBits(m) \in SUBSET (0..mmap[m].count - 1)
  BY <1>1 DEF PageBits
<1>3. IsFiniteSet(0..mmap[m].count - 1)
  BY <1>1, FiniteTo
<1> QED
  BY <1>2, <1>3, FS_Subset, Zenon

SameRanges ==
  /\ DOMAIN mmap' = DOMAIN mmap
  /\ \A n \in DOMAIN mmap : mmap'[n].base = mmap[n].base /\ mmap'[n].count = mmap[n].count

\* A bit that changes, with its count: the counts stay those of the bits, and one page
\* becomes free or is taken
LEMMA BitChanged ==
  ASSUME RangesTyped, CountsBits, RangesDisjoint,
         NEW m \in DOMAIN mmap, NEW q \in 0..mmap[m].count - 1, NEW b \in BOOLEAN,
         mmap[m].available[q] = ~b,
         mmap' = IF b THEN Freed(m, q) ELSE Taken(m, q)
  PROVE  /\ RangesTyped' /\ CountsBits' /\ RangesDisjoint' /\ SameRanges
         /\ \A g : g \in FreePages' <=> IF g = mmap[m].base + q THEN b ELSE g \in FreePages
<1> DEFINE B == IF b THEN PageBits(m) \cup {q} ELSE PageBits(m) \ {q}
           f == IF b THEN mmap[m].free + 1 ELSE mmap[m].free - 1
<1>0. f = Cardinality(B) /\ f \in Nat
  <2>1. IsFiniteSet(PageBits(m)) /\ mmap[m].free = Cardinality(PageBits(m))
    BY BitsFinite DEF CountsBits, PageBits
  <2>2. q \in PageBits(m) <=> ~b
    BY RangeTyped DEF PageBits
  <2>3. CASE b
    <3>1. /\ IsFiniteSet(PageBits(m) \cup {q})
          /\ Cardinality(PageBits(m) \cup {q}) = Cardinality(PageBits(m)) + 1
      BY <2>1, <2>2, <2>3, FS_AddElement, Zenon
    <3>2. Cardinality(PageBits(m) \cup {q}) \in Nat
      BY <3>1, FS_CardinalityType, Zenon
    <3> QED
      BY <2>1, <2>3, <3>1, <3>2
  <2>4. CASE ~b
    <3>1. /\ IsFiniteSet(PageBits(m) \ {q})
          /\ Cardinality(PageBits(m) \ {q}) = Cardinality(PageBits(m)) - 1
      BY <2>1, <2>2, <2>4, FS_RemoveElement, Zenon
    <3>2. Cardinality(PageBits(m) \ {q}) \in Nat
      BY <3>1, FS_CardinalityType, Zenon
    <3> QED
      BY <2>1, <2>4, <3>1, <3>2
  <2> QED
    BY <2>3, <2>4
<1>1. /\ mmap' \in Seq(PageRange) /\ SameRanges
      /\ \A n \in DOMAIN mmap : n # m => mmap'[n] = mmap[n]
      /\ mmap'[m].available = [mmap[m].available EXCEPT ![q] = b]
      /\ mmap'[m].free = f
  <2>1. /\ mmap \in Seq(PageRange) /\ mmap[m] \in PageRange /\ mmap[m].count \in Nat
        /\ mmap[m].available \in [0..mmap[m].count - 1 -> BOOLEAN]
    BY RangeTyped DEF RangesTyped
  <2>2. DOMAIN mmap' = DOMAIN mmap /\ \A n \in DOMAIN mmap : n # m => mmap'[n] = mmap[n]
    BY <2>1 DEF Freed, Taken
  <2>3. mmap'[m] = [mmap[m] EXCEPT !.available[q] = b, !.free = f]
    BY <2>1, Zenon DEF Freed, Taken
  <2>4. /\ mmap'[m].base = mmap[m].base /\ mmap'[m].count = mmap[m].count /\ mmap'[m].free = f
        /\ mmap'[m].available = [mmap[m].available EXCEPT ![q] = b]
    BY <2>1, <2>3, Zenon DEF PageRange
  <2>5. [mmap[m].available EXCEPT ![q] = b] \in [0..mmap[m].count - 1 -> BOOLEAN]
    BY <2>1
  <2>6. mmap'[m] \in PageRange
    <3>1. [mmap[m].available EXCEPT ![q] = b] \in UNION {[0..n - 1 -> BOOLEAN] : n \in Nat}
      BY <2>1, <2>5, Zenon
    <3> DEFINE U == UNION {[0..n - 1 -> BOOLEAN] : n \in Nat}
    <3>2. mmap[m] \in [base : Nat, count : Nat, free : Nat, available : U]
      BY <2>1 DEF PageRange
    <3>3. [mmap[m].available EXCEPT ![q] = b] \in U
      BY <3>1
    <3> HIDE DEF U
    <3>4. [mmap[m] EXCEPT !.available[q] = b, !.free = f] \in [base : Nat, count : Nat, free : Nat, available : U]
      BY <1>0, <3>2, <3>3, Zenon
    <3> QED
      BY <2>3, <3>4, Zenon DEF PageRange, U
  <2>7. mmap' \in Seq(PageRange)
    <3>1. mmap \in [1..Len(mmap) -> PageRange] /\ Len(mmap) \in Nat
      BY <2>1, LenProperties
    <3>2. mmap' \in [1..Len(mmap) -> PageRange]
      <4> DEFINE v == [mmap[m] EXCEPT !.available[q] = b, !.free = f]
      <4>1. mmap' = [mmap EXCEPT ![m] = v]
        BY <3>1, Zenon DEF Freed, Taken
      <4>2. v \in PageRange
        BY <2>3, <2>6
      <4> HIDE DEF v
      <4> QED
        BY <3>1, <4>1, <4>2
    <3> QED
      BY <3>1, <3>2, SeqOf
  <2> QED
    BY <2>2, <2>4, <2>7 DEF SameRanges
<1>2. \A n \in DOMAIN mmap : /\ mmap[n].base \in Nat /\ mmap[n].count \in Nat /\ mmap[n].free \in Nat
                             /\ mmap[n].available \in [0..mmap[n].count - 1 -> BOOLEAN]
  BY RangeTyped
<1>3. RangesTyped'
  <2>1. \A n \in DOMAIN mmap : mmap'[n].available \in [0..mmap'[n].count - 1 -> BOOLEAN]
    <3> TAKE n \in DOMAIN mmap
    <3>1. mmap'[n].count = mmap[n].count /\ mmap[n].available \in [0..mmap[n].count - 1 -> BOOLEAN]
      BY <1>1, <1>2 DEF SameRanges
    <3>2. mmap'[n].available = mmap[n].available \/ mmap'[n].available = [mmap[n].available EXCEPT ![q] = b]
      BY <1>1
    <3> QED
      BY <3>1, <3>2, Zenon
  <2> QED
    BY <1>1, <2>1 DEF RangesTyped, SameRanges
<1>4. CountsBits'
  <2> SUFFICES ASSUME NEW n \in DOMAIN mmap
               PROVE  mmap'[n].free = Cardinality(PageBits(n)')
    BY <1>1 DEF CountsBits, PageBits, SameRanges
  <2>1. CASE n # m
    BY <1>1, <2>1 DEF PageBits, CountsBits
  <2>2. CASE n = m
    <3>1. PageBits(m)' = B
      BY <1>1, <1>2 DEF PageBits
    <3> QED
      BY <1>0, <1>1, <2>2, <3>1
  <2> QED
    BY <2>1, <2>2
<1>5. RangesDisjoint'
  BY <1>1 DEF RangesDisjoint, SameRanges
<1>6. ASSUME NEW g
      PROVE  g \in FreePages' <=> IF g = mmap[m].base + q THEN b ELSE g \in FreePages
  <2>1. g \in FreePages <=> \E n \in DOMAIN mmap : \E p \in 0..mmap[n].count - 1 :
                              mmap[n].available[p] /\ g = mmap[n].base + p
    BY FreeIs DEF FreeBit
  <2>2. g \in FreePages' <=> \E n \in DOMAIN mmap' : \E p \in 0..mmap'[n].count - 1 :
                               mmap'[n].available[p] /\ g = mmap'[n].base + p
    BY <1>3, FreeIsNext DEF FreeBit
  <2>3. g \in FreePages' <=> \E n \in DOMAIN mmap : \E p \in 0..mmap[n].count - 1 :
                               mmap'[n].available[p] /\ g = mmap[n].base + p
    BY <1>1, <2>2 DEF SameRanges
  <2>4. \A n \in DOMAIN mmap : \A p \in 0..mmap[n].count - 1 :
          /\ mmap'[n].available[p] = IF n = m /\ p = q THEN b ELSE mmap[n].available[p]
          /\ mmap[n].base + p = mmap[m].base + q <=> n = m /\ p = q
    <3> TAKE n \in DOMAIN mmap
    <3> TAKE p \in 0..mmap[n].count - 1
    <3>1. mmap'[n].available[p] = IF n = m /\ p = q THEN b ELSE mmap[n].available[p]
      <4>1. mmap[n].available \in [0..mmap[n].count - 1 -> BOOLEAN]
        BY <1>2
      <4>2. CASE n = m
        <5>1. mmap'[n].available = [mmap[n].available EXCEPT ![q] = b]
          BY <1>1, <4>2, Zenon
        <5> QED
          BY <4>1, <4>2, <5>1
      <4>3. CASE n # m
        BY <1>1, <4>3, Zenon
      <4> QED
        BY <4>2, <4>3, Zenon
    <3>2. mmap[n].base + p = mmap[m].base + q <=> n = m /\ p = q
      <4>1. CASE n = m
        BY <1>2, <4>1
      <4>2. CASE n # m
        <5>1. \/ mmap[m].base + mmap[m].count <= mmap[n].base
              \/ mmap[n].base + mmap[n].count <= mmap[m].base
          BY <4>2 DEF RangesDisjoint
        <5>2. /\ mmap[n].base \in Nat /\ mmap[n].count \in Nat /\ p \in Int /\ 0 <= p /\ p < mmap[n].count
              /\ mmap[m].base \in Nat /\ mmap[m].count \in Nat /\ q \in Int /\ 0 <= q /\ q < mmap[m].count
          BY <1>2
        <5> QED
          BY <4>2, <5>1, <5>2
      <4> QED
        BY <4>1, <4>2
    <3> QED
      BY <3>1, <3>2
  <2>5. CASE g = mmap[m].base + q
    BY <2>3, <2>4, <2>5
  <2>6. CASE g # mmap[m].base + q
    BY <2>1, <2>3, <2>4, <2>6
  <2> QED
    BY <2>5, <2>6
<1> QED
  BY <1>1, <1>3, <1>4, <1>5, <1>6

LEMMA RangesKept ==
  ASSUME mmap' = mmap
  PROVE  /\ RangesTyped => RangesTyped'
         /\ CountsBits => CountsBits'
         /\ RangesDisjoint => RangesDisjoint'
         /\ SameRanges /\ FreePages' = FreePages
<1>1. RangesTyped => RangesTyped'
  BY DEF RangesTyped
<1>2. CountsBits => CountsBits'
  BY DEF CountsBits
<1>3. RangesDisjoint => RangesDisjoint'
  BY DEF RangesDisjoint
<1>4. SameRanges
  BY DEF SameRanges
<1>5. FreePages' = FreePages
  BY DEF FreePages
<1> QED
  BY <1>1, <1>2, <1>3, <1>4, <1>5

\* page_free of a page that is not free: it becomes free, or stays lost when it is the
\* first of its range or in none
LEMMA PageFreed ==
  ASSUME RangesTyped, CountsBits, RangesDisjoint,
         NEW page \in Nat, page \notin FreePages, page_free(page)
  PROVE  /\ RangesTyped' /\ CountsBits' /\ RangesDisjoint' /\ SameRanges
         /\ \A g \in FreePages' : g \in FreePages \/ g = page
<1>1. CASE RangesOf(page) = {}
  <2>1. mmap' = mmap
    BY <1>1 DEF page_free
  <2> QED
    BY <2>1, RangesKept
<1>2. CASE RangesOf(page) # {}
  <2> DEFINE m == Min(RangesOf(page))
             q == page - mmap[m].base
  <2>1. RangesOf(page) \in SUBSET DOMAIN mmap /\ DOMAIN mmap \in SUBSET Nat
    BY DEF RangesOf, RangesTyped
  <2>2. m \in RangesOf(page)
    BY <1>2, <2>1, MinOf
  <2>3. m \in DOMAIN mmap /\ page - mmap[m].base > 0 /\ page - mmap[m].base < mmap[m].count
    BY <2>2 DEF RangesOf
  <2>4. mmap' = Freed(m, q)
    BY <1>2 DEF page_free
  <2> HIDE DEF m
  <2>5. /\ mmap[m].base \in Nat /\ mmap[m].count \in Nat
        /\ mmap[m].available \in [0..mmap[m].count - 1 -> BOOLEAN]
    BY <2>3, RangeTyped
  <2>6. q \in 0..mmap[m].count - 1 /\ mmap[m].base + q = page
    BY <2>3, <2>5
  <2>7. ~mmap[m].available[q]
    BY <2>3, <2>6, FreeIs DEF FreeBit
  <2>8. mmap[m].available[q] = ~TRUE
    BY <2>5, <2>6, <2>7
  <2> HIDE DEF q
  <2>9. /\ RangesTyped' /\ CountsBits' /\ RangesDisjoint' /\ SameRanges
        /\ \A g : g \in FreePages' <=> IF g = mmap[m].base + q THEN TRUE ELSE g \in FreePages
    <3>1. mmap' = IF TRUE THEN Freed(m, q) ELSE Taken(m, q)
      BY <2>4
    <3> QED
      BY <2>3, <2>6, <2>8, <3>1, BitChanged, Zenon
  <2> QED
    BY <2>6, <2>9
<1> QED
  BY <1>1, <1>2

\* page_alloc when there is a free page takes one; otherwise no page is free
LEMMA PageAllocated ==
  ASSUME RangesTyped, CountsBits, RangesDisjoint, PageTaken
  PROVE  /\ RangesTyped' /\ CountsBits' /\ RangesDisjoint' /\ SameRanges
         /\ page_alloc \in Nat
         /\ \/ page_alloc \in FreePages /\ FreePages' = FreePages \ {page_alloc}
            \/ page_alloc = 0 /\ FreePages = {} /\ FreePages' = {}
<1>0. \A m \in DOMAIN mmap : /\ mmap[m].base \in Nat /\ mmap[m].count \in Nat
                             /\ mmap[m].available \in [0..mmap[m].count - 1 -> BOOLEAN]
  BY RangeTyped
<1>1. CASE RangesWithFree = {}
  <2>1. mmap' = mmap /\ page_alloc = 0
    BY <1>1 DEF PageTaken, page_alloc
  <2>2. ASSUME NEW g \in FreePages PROVE FALSE
    <3>1. PICK m \in DOMAIN mmap : \E q \in 0..mmap[m].count - 1 : mmap[m].available[q]
      BY FreeIs DEF FreeBit
    <3>2. PICK q \in DOMAIN mmap[m].available : mmap[m].available[q]
      BY <1>0, <3>1
    <3>3. q \in PageBits(m) /\ IsFiniteSet(PageBits(m)) /\ mmap[m].free = Cardinality(PageBits(m))
      BY <3>2, BitsFinite DEF PageBits, CountsBits
    <3>4. mmap[m].free # 0 /\ mmap[m].free \in Nat
      <4>1. PageBits(m) # {}
        BY <3>3
      <4> QED
        BY <3>3, <4>1, FS_EmptySet, FS_CardinalityType, Zenon
    <3>5. mmap[m].available[q] = TRUE
      BY <1>0, <3>2
    <3>6. TRUE \in {mmap[m].available[p] : p \in DOMAIN mmap[m].available}
      BY <3>5, Zenon
    <3>7. mmap[m].free > 0
      BY <3>4
    <3>8. m \in RangesWithFree
      BY <3>6, <3>7, Zenon DEF RangesWithFree
    <3> QED
      BY <1>1, <3>8
  <2>3. FreePages = {} /\ FreePages' = {}
    BY <2>1, <2>2, RangesKept
  <2> QED
    BY <2>1, <2>3, RangesKept
<1>2. CASE RangesWithFree # {}
  <2> DEFINE m == Max(RangesWithFree)
             q == FirstBit(m)
  <2>1. RangesWithFree \in SUBSET (0..Len(mmap)) /\ Len(mmap) \in Nat
    <3>1. DOMAIN mmap = 1..Len(mmap) /\ Len(mmap) \in Nat
      BY LenProperties DEF RangesTyped
    <3>2. RangesWithFree \subseteq DOMAIN mmap
      BY Zenon DEF RangesWithFree
    <3> QED
      BY <3>1, <3>2
  <2>2. m \in RangesWithFree
    BY <1>2, <2>1, MaxOf, Zenon
  <2>3. m \in DOMAIN mmap /\ PageBits(m) # {}
    BY <2>2, Zenon DEF RangesWithFree, PageBits
  <2>4. mmap' = Taken(m, q) /\ page_alloc = mmap[m].base + q
    BY <1>2 DEF PageTaken, page_alloc
  <2> HIDE DEF m
  <2>5. PageBits(m) \in SUBSET (0..mmap[m].count - 1)
    BY <2>3, BitsFinite
  <2>6. q \in PageBits(m)
    <3>1. PageBits(m) \in SUBSET Nat
      BY <2>5
    <3> QED
      BY <2>3, <3>1, MinOf DEF FirstBit, PageBits
  <2> HIDE DEF q
  <2>7. q \in 0..mmap[m].count - 1 /\ mmap[m].available[q] = ~FALSE
    <3>1. mmap[m].available \in [0..mmap[m].count - 1 -> BOOLEAN]
      BY <1>0, <2>3
    <3>2. q \in 0..mmap[m].count - 1 /\ mmap[m].available[q]
      BY <2>5, <2>6 DEF PageBits
    <3> QED
      BY <3>1, <3>2, Zenon
  <2>8. /\ RangesTyped' /\ CountsBits' /\ RangesDisjoint' /\ SameRanges
        /\ \A g : g \in FreePages' <=> IF g = mmap[m].base + q THEN FALSE ELSE g \in FreePages
    <3>1. mmap' = IF FALSE THEN Freed(m, q) ELSE Taken(m, q)
      BY <2>4
    <3> QED
      BY <2>3, <2>7, <3>1, BitChanged, Zenon
  <2>9. page_alloc \in FreePages
    BY <2>3, <2>4, <2>7, FreeIs, Zenon DEF FreeBit
  <2>10. page_alloc \in Nat
    BY <1>0, <2>3, <2>4, <2>7
  <2> QED
    BY <2>4, <2>8, <2>9, <2>10
<1> QED
  BY <1>1, <1>2

\* page_add_range: a range of pages that are not free
LEMMA RangeAdded ==
  ASSUME RangesTyped, CountsBits, NEW base \in Nat, NEW count \in Nat, page_add_range(base, count)
  PROVE  /\ RangesTyped' /\ CountsBits' /\ FreePages' = FreePages
         /\ DOMAIN mmap' = DOMAIN mmap \cup {Len(mmap) + 1} /\ Len(mmap) + 1 \notin DOMAIN mmap
         /\ \A m \in DOMAIN mmap : mmap'[m] = mmap[m]
         /\ mmap'[Len(mmap) + 1].base = base /\ mmap'[Len(mmap) + 1].count = count
<1> DEFINE r == [base |-> base, count |-> count, free |-> 0, available |-> [p \in 0..count - 1 |-> FALSE]]
           n == Len(mmap) + 1
<1>1. r.available \in [0..count - 1 -> BOOLEAN]
  OBVIOUS
<1>2. r \in PageRange
  <2>1. [p \in 0..count - 1 |-> FALSE] \in UNION {[0..k - 1 -> BOOLEAN] : k \in Nat}
    BY <1>1, Zenon
  <2> QED
    BY <2>1 DEF PageRange
<1>3. mmap' = Append(mmap, r)
  BY DEF page_add_range
<1>4. /\ r.base = base /\ r.count = count /\ r.free = 0
      /\ \A p \in 0..count - 1 : ~r.available[p]
      /\ DOMAIN r.available = 0..count - 1
  OBVIOUS
<1> HIDE DEF r
<1>5. mmap \in Seq(PageRange) /\ DOMAIN mmap = 1..Len(mmap) /\ Len(mmap) \in Nat
  BY LenProperties DEF RangesTyped
<1>6. /\ mmap' \in Seq(PageRange)
      /\ DOMAIN mmap' = DOMAIN mmap \cup {n} /\ n \notin DOMAIN mmap
      /\ \A m \in DOMAIN mmap : mmap'[m] = mmap[m]
      /\ mmap'[n] = r
  BY <1>2, <1>3, <1>5
<1> HIDE DEF n
<1>7. RangesTyped'
  BY <1>1, <1>4, <1>6 DEF RangesTyped
<1>8. CountsBits'
  <2>1. {p \in DOMAIN mmap'[n].available : mmap'[n].available[p]} = {}
    BY <1>4, <1>6
  <2> SUFFICES ASSUME NEW m \in DOMAIN mmap'
               PROVE  mmap'[m].free = Cardinality({p \in DOMAIN mmap'[m].available : mmap'[m].available[p]})
    BY DEF CountsBits
  <2>2. CASE m = n
    BY <1>4, <1>6, <2>1, <2>2, FS_EmptySet, Zenon
  <2>3. CASE m \in DOMAIN mmap
    BY <1>6, <2>3 DEF CountsBits
  <2> QED
    BY <1>6, <2>2, <2>3
<1>9. FreePages' = FreePages
  <2>1. \A g : FreeBit(g)' <=> FreeBit(g)
    BY <1>4, <1>6 DEF FreeBit
  <2> QED
    BY <1>7, <2>1, FreeIs, FreeIsNext
<1> QED
  BY <1>4, <1>6, <1>7, <1>8, <1>9 DEF n

-----------------------------------------------------------------------------
\* The invariant holds when the kernel is entered
LEMMA PagesInit == InitPages => PagesInv
<1> SUFFICES ASSUME InitPages PROVE PagesInv
  OBVIOUS
<1>1. mmap = <<>> /\ DOMAIN mmap = {}
  BY DEF InitPages
<1>2. RangesTyped /\ RangesFromMap /\ RangesDisjoint /\ CountsBits /\ FreePages = {}
  BY <1>1, EmptySeq DEF RangesTyped, RangesFromMap, RangesDisjoint, CountsBits, FreePages
<1>3. PagesTyped
  BY PagesAssumption, EmptySeq DEF InitPages, PagesTyped, Booted
<1>4. FreePassed /\ KernelApart
  BY <1>2 DEF FreePassed, KernelApart
<1>5. KernelKept /\ HeapPagesDistinct
  BY <1>2 DEF InitPages, KernelKept, HeapPagesDistinct
<1> QED
  BY <1>2, <1>3, <1>4, <1>5 DEF PagesInv

LEMMA MapEntry ==
  ASSUME NEW k \in Nat \ {0}, ~(k > Len(MemoryMap))
  PROVE  /\ k \in DOMAIN MemoryMap /\ MemoryMap[k].available \in BOOLEAN
         /\ MemoryMap[k].base \in Nat /\ MemoryMap[k].count \in Nat
<1> DEFINE Entry == [base : Nat, count : Nat, available : BOOLEAN]
<1>1. MemoryMap \in Seq(Entry) /\ k \in 1..Len(MemoryMap)
  BY PagesAssumption
<1>2. MemoryMap[k] \in Entry
  BY <1>1, ElementOfSeq, Zenon
<1> QED
  BY <1>1, <1>2

\* What the rest of the invariant says of the heap, when only the map changes during boot
LEMMA HeapKept ==
  ASSUME PagesInv, ~Booted, UNCHANGED <<heap_cache, heap_pages, kas>>, nextalloc' \in Nat,
         boot' \in [phase : {"add", "free", "done"}, entry : Nat \ {0}, page : Nat],
         \A g \in FreePages' : g < KernelStart \/ g * UnitsPerPage >= nextalloc'
  PROVE  PagesTyped' /\ KernelKept' /\ HeapPagesDistinct'
<1>1. PagesTyped /\ heap_pages = 0 /\ heap_pages' = 0 /\ kas' = kas /\ Len(kas) = 0 /\ kas \in Seq(Nat)
  BY DEF PagesInv, PagesTyped
<1>2. PagesTyped'
  BY <1>1, PagesAssumption DEF PagesTyped
<1>3. DOMAIN kas' = {}
  BY <1>1
<1>4. KernelKept'
  BY <1>3 DEF KernelKept
<1>5. HeapPagesDistinct'
  BY <1>1 DEF HeapPagesDistinct
<1> QED
  BY <1>2, <1>4, <1>5

\* The first pass over the memory map
LEMMA AddPass == PagesInv /\ arch_init_add => PagesInv'
<1> SUFFICES ASSUME PagesInv, arch_init_add PROVE PagesInv'
  OBVIOUS
<1>1. /\ RangesTyped /\ PagesTyped /\ RangesFromMap /\ RangesDisjoint /\ CountsBits
      /\ FreePages = {} /\ boot.phase = "add" /\ ~Booted
  BY DEF PagesInv, FreePassed, arch_init_add, Booted
<1>2. boot \in [phase : {"add", "free", "done"}, entry : Nat \ {0}, page : Nat] /\ nextalloc \in Nat
  BY <1>1 DEF PagesTyped
<1>3. CASE boot.entry > Len(MemoryMap)
  <2>1. /\ boot' = [phase |-> "free", entry |-> 1, page |-> 0] /\ mmap' = mmap /\ nextalloc' = nextalloc
        /\ UNCHANGED <<heap_cache, heap_pages, kas>>
    BY <1>3 DEF arch_init_add
  <2>2. RangesTyped' /\ RangesDisjoint' /\ CountsBits' /\ FreePages' = {}
    BY <1>1, <2>1, RangesKept
  <2>3. RangesFromMap'
    BY <1>1, <2>1 DEF RangesFromMap
  <2>4. PagesTyped' /\ KernelKept' /\ HeapPagesDistinct'
    <3>1. boot' \in [phase : {"add", "free", "done"}, entry : Nat \ {0}, page : Nat]
      BY <2>1
    <3> QED
      BY <1>1, <1>2, <2>1, <2>2, <3>1, HeapKept
  <2>5. FreePassed' /\ KernelApart'
    BY <2>2 DEF FreePassed, KernelApart
  <2> QED
    BY <2>2, <2>3, <2>4, <2>5 DEF PagesInv
<1>4. CASE ~(boot.entry > Len(MemoryMap))
  <2> DEFINE e == MemoryMap[boot.entry]
  <2>0. /\ boot.entry \in DOMAIN MemoryMap /\ boot.entry \in Nat /\ e.available \in BOOLEAN
        /\ e.base \in Nat /\ e.count \in Nat
    BY <1>2, <1>4, MapEntry
  <2>1. boot' = [boot EXCEPT !.entry = @ + 1] /\ UNCHANGED <<heap_cache, heap_pages, kas>>
    BY <1>4 DEF arch_init_add
  <2>2. /\ boot' \in [phase : {"add", "free", "done"}, entry : Nat \ {0}, page : Nat]
        /\ boot'.phase = "add" /\ boot'.entry = boot.entry + 1
    BY <1>1, <1>2, <2>1
  <2>3. CASE ~e.available
    <3>1. mmap' = mmap /\ nextalloc' = nextalloc
      BY <1>4, <2>3 DEF arch_init_add
    <3>2. RangesTyped' /\ RangesDisjoint' /\ CountsBits' /\ FreePages' = {}
      BY <1>1, <3>1, RangesKept
    <3>3. RangesFromMap'
      BY <1>1, <1>2, <2>2, <3>1, PagesAssumption DEF RangesFromMap
    <3>4. PagesTyped' /\ KernelKept' /\ HeapPagesDistinct'
      BY <1>1, <1>2, <2>1, <2>2, <3>1, <3>2, HeapKept
    <3>5. FreePassed' /\ KernelApart'
      BY <3>2 DEF FreePassed, KernelApart
    <3> QED
      BY <3>2, <3>3, <3>4, <3>5 DEF PagesInv
  <2>4. CASE e.available
    <3> DEFINE n == Len(mmap) + 1
    <3>1. page_add_range(e.base, e.count) /\ nextalloc' = nextalloc + 1
      BY <1>4, <2>4 DEF arch_init_add, page_add_range, bootstrap_alloc
    <3>2. /\ RangesTyped' /\ CountsBits' /\ FreePages' = {}
          /\ DOMAIN mmap' = DOMAIN mmap \cup {n} /\ n \notin DOMAIN mmap
          /\ \A m \in DOMAIN mmap : mmap'[m] = mmap[m]
          /\ mmap'[n].base = e.base /\ mmap'[n].count = e.count
      <4> HIDE DEF e
      <4> QED
        BY <1>1, <2>0, <3>1, RangeAdded, Zenon
    <3> HIDE DEF n
    <3>3. RangesFromMap'
      <4> SUFFICES ASSUME NEW m \in DOMAIN mmap'
                   PROVE  \E k \in DOMAIN MemoryMap :
                            /\ MemoryMap[k].available
                            /\ mmap'[m].base = MemoryMap[k].base /\ mmap'[m].count = MemoryMap[k].count
                            /\ boot'.phase = "add" => k < boot'.entry
        BY DEF RangesFromMap
      <4>1. CASE m = n
        BY <2>0, <2>2, <2>4, <3>2, <4>1
      <4>2. CASE m \in DOMAIN mmap
        <5>1. PICK k \in DOMAIN MemoryMap :
                /\ MemoryMap[k].available
                /\ mmap[m].base = MemoryMap[k].base /\ mmap[m].count = MemoryMap[k].count
                /\ k < boot.entry
          BY <1>1, <4>2 DEF RangesFromMap
        <5>2. k \in Nat
          BY PagesAssumption
        <5> QED
          BY <2>0, <2>2, <3>2, <4>2, <5>1, <5>2
      <4> QED
        BY <3>2, <4>1, <4>2
    <3>4. RangesDisjoint'
      <4>1. ASSUME NEW m \in DOMAIN mmap
            PROVE  mmap[m].base + mmap[m].count <= e.base \/ e.base + e.count <= mmap[m].base
        <5>1. PICK k \in DOMAIN MemoryMap :
                /\ MemoryMap[k].available
                /\ mmap[m].base = MemoryMap[k].base /\ mmap[m].count = MemoryMap[k].count
                /\ k < boot.entry
          BY <1>1 DEF RangesFromMap
        <5>2. k # boot.entry
          BY <2>0, <5>1
        <5> QED
          BY <2>0, <2>4, <5>1, <5>2, PagesAssumption, Zenon
      <4> QED
        BY <1>1, <3>2, <4>1 DEF RangesDisjoint
    <3>5. PagesTyped' /\ KernelKept' /\ HeapPagesDistinct'
      <4>1. nextalloc' \in Nat
        BY <1>2, <3>1
      <4> QED
        BY <1>1, <2>1, <2>2, <3>2, <4>1, HeapKept
    <3>6. FreePassed' /\ KernelApart'
      BY <3>2 DEF FreePassed, KernelApart
    <3> QED
      BY <3>2, <3>3, <3>4, <3>5, <3>6 DEF PagesInv
  <2> QED
    BY <2>3, <2>4
<1> QED
  BY <1>3, <1>4

\* A page above pend, the page the kernel ends in, begins above the end of the kernel
LEMMA AbovePend ==
  ASSUME NEW n \in Nat, NEW u \in Nat \ {0}, NEW g \in Nat, g > n \div u
  PROVE  g * u >= (n \div u + 1) * u /\ (n \div u + 1) * u >= n /\ (n \div u + 1) * u \in Nat
<1>1. n \div u \in Nat /\ n < (n \div u) * u + u
  BY SMT
<1> DEFINE d == n \div u
<1>2. d \in Nat /\ n < d * u + u /\ g > d
  BY <1>1
<1> HIDE DEF d
<1>3. g - (d + 1) \in Nat
  BY <1>2
<1>4. (g - (d + 1)) * u \in Nat /\ (g - (d + 1)) * u = g * u - (d + 1) * u
  BY <1>2, <1>3
<1>5. (d + 1) * u = d * u + u /\ d * u \in Nat /\ g * u \in Nat
  BY <1>2
<1> QED
  BY <1>2, <1>4, <1>5 DEF d

\* The second pass over the memory map: it frees a page once, and none of the kernel's
LEMMA FreePass == PagesInv /\ arch_init_free => PagesInv'
<1> SUFFICES ASSUME PagesInv, arch_init_free PROVE PagesInv'
  OBVIOUS
<1>1. /\ RangesTyped /\ PagesTyped /\ RangesFromMap /\ RangesDisjoint /\ CountsBits
      /\ boot.phase = "free" /\ ~Booted
      /\ \A g \in FreePages : Passed(g) /\ (g < KernelStart \/ g > pend)
      /\ UNCHANGED <<heap_cache, heap_pages, kas>>
  BY DEF PagesInv, FreePassed, KernelApart, arch_init_free, Booted
<1>2. /\ boot \in [phase : {"add", "free", "done"}, entry : Nat \ {0}, page : Nat] /\ nextalloc \in Nat
      /\ KernelStart \in Nat /\ UnitsPerPage \in Nat \ {0}
  BY <1>1, PagesAssumption DEF PagesTyped
<1>3. FreePages \in SUBSET Nat
  <2>1. \A m \in DOMAIN mmap : mmap[m].base \in Nat /\ mmap[m].count \in Nat
    BY <1>1, RangeTyped
  <2> QED
    BY <1>1, <2>1, FreeIs DEF FreeBit
<1>4. \A g \in Nat : g > pend => /\ g * UnitsPerPage >= nextalloc
                                /\ g * UnitsPerPage >= (nextalloc \div UnitsPerPage + 1) * UnitsPerPage
                                /\ (nextalloc \div UnitsPerPage + 1) * UnitsPerPage \in Nat
  <2> SUFFICES ASSUME NEW g \in Nat, g > pend
               PROVE  /\ g * UnitsPerPage >= nextalloc
                      /\ g * UnitsPerPage >= (nextalloc \div UnitsPerPage + 1) * UnitsPerPage
                      /\ (nextalloc \div UnitsPerPage + 1) * UnitsPerPage \in Nat
    OBVIOUS
  <2> DEFINE x == (nextalloc \div UnitsPerPage + 1) * UnitsPerPage
             y == g * UnitsPerPage
  <2>1. y >= x /\ x >= nextalloc /\ x \in Nat
    BY <1>2, AbovePend, Zenon DEF pend
  <2>2. y \in Nat
    BY <1>2
  <2> HIDE DEF x, y
  <2>3. y >= nextalloc
    BY <1>2, <2>1, <2>2
  <2> QED
    BY <2>1, <2>3 DEF x, y
<1>5. CASE boot.entry > Len(MemoryMap)
  <2>1. /\ boot' = [boot EXCEPT !.phase = "done"] /\ mmap' = mmap
        /\ nextalloc' = (nextalloc \div UnitsPerPage + 1) * UnitsPerPage
    BY <1>5 DEF arch_init_free
  <2>2. /\ boot' \in [phase : {"add", "free", "done"}, entry : Nat \ {0}, page : Nat]
        /\ boot'.phase = "done"
    BY <1>2, <2>1
  <2>3. RangesTyped' /\ RangesDisjoint' /\ CountsBits' /\ FreePages' = FreePages
    BY <1>1, <2>1, RangesKept
  <2>4. RangesFromMap'
    BY <1>1, <2>1, <2>2 DEF RangesFromMap
  <2>5. nextalloc' \in Nat
    <3>1. pend \in Nat
      BY <1>2 DEF pend
    <3>2. pend + 1 \in Nat /\ pend + 1 > pend
      BY <3>1
    <3> QED
      BY <1>4, <2>1, <3>2
  <2>6. \A g \in FreePages' : g < KernelStart \/ g * UnitsPerPage >= nextalloc'
    BY <1>1, <1>3, <1>4, <2>1, <2>3
  <2>7. PagesTyped' /\ KernelKept' /\ HeapPagesDistinct'
    BY <1>1, <2>2, <2>5, <2>6, HeapKept
  <2>8. FreePassed' /\ KernelApart'
    BY <2>2 DEF FreePassed, KernelApart, Booted
  <2> QED
    BY <2>3, <2>4, <2>7, <2>8 DEF PagesInv
<1>6. CASE ~(boot.entry > Len(MemoryMap))
  <2> DEFINE e == MemoryMap[boot.entry]
             page == e.base + boot.page
  <2>0. /\ boot.entry \in DOMAIN MemoryMap /\ boot.entry \in Nat /\ e.available \in BOOLEAN
        /\ e.base \in Nat /\ e.count \in Nat /\ boot.page \in Nat
    BY <1>2, <1>6, MapEntry
  <2>1. nextalloc' = nextalloc /\ pend' = pend
    BY <1>6 DEF arch_init_free, pend
  <2>2. \* What either step has to establish
        ASSUME RangesTyped', CountsBits', RangesDisjoint', SameRanges,
               boot' \in [phase : {"add", "free", "done"}, entry : Nat \ {0}, page : Nat],
               boot'.phase = "free",
               \A g \in FreePages' : Passed(g)' /\ (g < KernelStart \/ g > pend)
        PROVE  PagesInv'
    <3>1. RangesFromMap'
      BY <1>1, <2>2 DEF RangesFromMap, SameRanges
    <3>2. FreePages' \in SUBSET Nat
      <4>1. \A m \in DOMAIN mmap' : mmap'[m].base \in Nat /\ mmap'[m].count \in Nat
        BY <1>1, <2>2, RangeTyped DEF SameRanges
      <4> QED
        BY <2>2, <4>1, FreeIsNext DEF FreeBit
    <3>3. PagesTyped' /\ KernelKept' /\ HeapPagesDistinct'
      BY <1>1, <1>2, <1>4, <2>1, <2>2, <3>2, HeapKept
    <3>4. FreePassed' /\ KernelApart'
      BY <2>1, <2>2 DEF FreePassed, KernelApart
    <3> QED
      BY <2>2, <3>1, <3>3, <3>4 DEF PagesInv
  <2>3. CASE e.available /\ boot.page < e.count
    <3>1. boot' = [boot EXCEPT !.page = @ + 1]
      BY <1>6, <2>3 DEF arch_init_free
    <3>2. /\ boot' \in [phase : {"add", "free", "done"}, entry : Nat \ {0}, page : Nat]
          /\ boot'.phase = "free" /\ boot'.entry = boot.entry /\ boot'.page = boot.page + 1
      BY <1>1, <1>2, <3>1
    <3>3. \A g \in FreePages : Passed(g)'
      <4> SUFFICES ASSUME NEW g \in FreePages
                   PROVE  Passed(g)'
        OBVIOUS
      <4>1. PICK k \in DOMAIN MemoryMap :
              /\ MemoryMap[k].available
              /\ MemoryMap[k].base <= g /\ g < MemoryMap[k].base + MemoryMap[k].count
              /\ k < boot.entry \/ (k = boot.entry /\ g < MemoryMap[k].base + boot.page)
        BY <1>1 DEF Passed
      <4>2. k = boot.entry => (g < MemoryMap[k].base + boot.page => g < MemoryMap[k].base + (boot.page + 1))
        BY <1>3, <2>0
      <4> QED
        BY <3>2, <4>1, <4>2 DEF Passed
    <3>4. CASE page < KernelStart \/ page > pend
      <4>1. page_free(page)
        BY <1>6, <2>3, <3>4 DEF arch_init_free
      <4>2. page \in Nat /\ page \notin FreePages
        <5> SUFFICES ASSUME page \in FreePages PROVE FALSE
          BY <2>0
        <5>1. PICK k \in DOMAIN MemoryMap :
                /\ MemoryMap[k].available
                /\ MemoryMap[k].base <= page /\ page < MemoryMap[k].base + MemoryMap[k].count
                /\ k < boot.entry \/ (k = boot.entry /\ page < MemoryMap[k].base + boot.page)
          BY <1>1 DEF Passed
        <5>2. k \in Nat /\ MemoryMap[k].base \in Nat /\ MemoryMap[k].count \in Nat
          <6>1. k \in Nat \ {0} /\ ~(k > Len(MemoryMap))
            BY PagesAssumption
          <6> QED
            BY <6>1, MapEntry
        <5>3. k # boot.entry
          BY <2>0, <5>1
        <5>4. MemoryMap[k].base + MemoryMap[k].count <= e.base \/ e.base + e.count <= MemoryMap[k].base
          BY <2>0, <2>3, <5>1, <5>3, PagesAssumption, Zenon
        <5> HIDE DEF e
        <5> QED
          BY <2>0, <2>3, <5>1, <5>2, <5>4
      <4> HIDE DEF page
      <4>3. /\ RangesTyped' /\ CountsBits' /\ RangesDisjoint' /\ SameRanges
            /\ \A g \in FreePages' : g \in FreePages \/ g = page
        BY <1>1, <4>1, <4>2, PageFreed
      <4>4. ASSUME NEW g, g = page PROVE Passed(g)'
        <5>1. e.base <= page /\ page < e.base + e.count /\ page < e.base + (boot.page + 1)
          BY <2>0, <2>3 DEF page
        <5> QED
          BY <2>0, <2>3, <3>2, <4>4, <5>1 DEF Passed
      <4>5. \A g \in FreePages' : Passed(g)' /\ (g < KernelStart \/ g > pend)
        BY <1>1, <3>3, <3>4, <4>3, <4>4
      <4> QED
        BY <2>2, <3>2, <4>3, <4>5
    <3>5. CASE ~(page < KernelStart \/ page > pend)
      <4>1. mmap' = mmap
        BY <1>6, <2>3, <3>5 DEF arch_init_free
      <4> QED
        BY <1>1, <2>2, <3>2, <3>3, <4>1, RangesKept
    <3> QED
      BY <3>4, <3>5
  <2>4. CASE ~(e.available /\ boot.page < e.count)
    <3>1. boot' = [boot EXCEPT !.entry = @ + 1, !.page = 0] /\ mmap' = mmap
      BY <1>6, <2>4 DEF arch_init_free
    <3>2. /\ boot' \in [phase : {"add", "free", "done"}, entry : Nat \ {0}, page : Nat]
          /\ boot'.phase = "free" /\ boot'.entry = boot.entry + 1
      <4>1. boot.entry + 1 \in Nat \ {0}
        BY <2>0
      <4>2. boot' = [phase |-> "free", entry |-> boot.entry + 1, page |-> 0]
        BY <1>1, <1>2, <3>1, Zenon
      <4> QED
        BY <4>1, <4>2
    <3>3. \A g \in FreePages : Passed(g)'
      <4>1. \A k \in DOMAIN MemoryMap : (k < boot.entry \/ k = boot.entry) => k < boot.entry + 1
        <5>1. \A k \in DOMAIN MemoryMap : k \in Nat
          BY PagesAssumption
        <5>2. \A k \in Nat : (k < boot.entry \/ k = boot.entry) => k < boot.entry + 1
          BY <2>0
        <5> QED
          BY <5>1, <5>2, Zenon
      <4> QED
        BY <1>1, <3>2, <4>1 DEF Passed
    <3> QED
      BY <1>1, <2>2, <3>1, <3>2, <3>3, RangesKept
  <2> QED
    BY <2>3, <2>4
<1> QED
  BY <1>5, <1>6

\* page_heap_alloc, once the kernel runs: a new heap page is memory no other has
LEMMA HeapAlloc ==
  ASSUME PagesInv, Booted, page_heap_alloc, UNCHANGED <<nextalloc, boot>>
  PROVE  PagesInv'
<1>1. /\ RangesTyped /\ PagesTyped /\ RangesFromMap /\ RangesDisjoint /\ CountsBits
      /\ KernelKept /\ HeapPagesDistinct /\ boot.phase = "done"
      /\ heap_pages \in 0..MaxHeap /\ kas \in Seq(Nat) /\ Len(kas) = heap_pages
  BY DEF PagesInv, PagesTyped, Booted
<1>2. FreePassed' /\ KernelApart'
  BY <1>1 DEF FreePassed, KernelApart, Booted
<1>3. CASE heap_cache # <<>>
  <2>1. mmap' = mmap /\ heap_pages' = heap_pages /\ kas' = kas
    BY <1>3 DEF page_heap_alloc
  <2>2. RangesTyped' /\ RangesDisjoint' /\ CountsBits' /\ FreePages' = FreePages
    BY <1>1, <2>1, RangesKept
  <2>3. PagesTyped'
    BY <1>1, <2>1 DEF PagesTyped, Booted
  <2>4. RangesFromMap'
    BY <1>1, <2>1 DEF RangesFromMap
  <2>5. KernelKept' /\ HeapPagesDistinct'
    BY <1>1, <2>1, <2>2 DEF KernelKept, HeapPagesDistinct
  <2> QED
    BY <1>2, <2>2, <2>3, <2>4, <2>5 DEF PagesInv
<1>4. CASE heap_cache = <<>>
  <2>1. PageTaken /\ heap_pages < MaxHeap /\ heap_pages' = heap_pages + 1 /\ kas' = Append(kas, page_alloc)
    BY <1>4 DEF page_heap_alloc
  <2>2. /\ RangesTyped' /\ CountsBits' /\ RangesDisjoint' /\ SameRanges
        /\ page_alloc \in Nat
        /\ \/ page_alloc \in FreePages /\ FreePages' = FreePages \ {page_alloc}
           \/ page_alloc = 0 /\ FreePages = {} /\ FreePages' = {}
    BY <1>1, <2>1, PageAllocated
  <2>3. /\ kas' \in Seq(Nat) /\ Len(kas') = heap_pages' /\ heap_pages' \in 0..MaxHeap
        /\ \A i \in 1..heap_pages : kas'[i] = kas[i]
        /\ kas'[heap_pages + 1] = page_alloc
    <3>1. heap_pages' \in 0..MaxHeap
      BY <1>1, <2>1, PagesAssumption
    <3> HIDE DEF page_alloc
    <3>2. /\ Append(kas, page_alloc) \in Seq(Nat)
          /\ Len(Append(kas, page_alloc)) = Len(kas) + 1
          /\ \A i \in 1..Len(kas) : Append(kas, page_alloc)[i] = kas[i]
          /\ Append(kas, page_alloc)[Len(kas) + 1] = page_alloc
      BY <1>1, <2>2, AppendProperties
    <3> QED
      BY <1>1, <2>1, <3>1, <3>2
  <2>4. PagesTyped'
    BY <1>1, <2>3 DEF PagesTyped, Booted
  <2>5. RangesFromMap'
    BY <1>1, <2>2 DEF RangesFromMap, SameRanges
  <2>6. \A i \in 1..heap_pages' : (i \in 1..heap_pages /\ kas'[i] = kas[i])
                                 \/ (i = heap_pages + 1 /\ kas'[i] = page_alloc)
    BY <1>1, <2>1, <2>3
  <2>7. DOMAIN kas = 1..heap_pages /\ DOMAIN kas' = 1..heap_pages'
    BY <1>1, <2>3
  <2>8. KernelKept'
    BY <1>1, <2>2, <2>6, <2>7, Zenon DEF KernelKept
  <2>9. HeapPagesDistinct'
    <3>1. \A i \in 1..heap_pages' : kas'[i] \notin FreePages'
      BY <1>1, <2>2, <2>6 DEF HeapPagesDistinct
    <3>2. \A i, j \in 1..heap_pages' : i # j /\ kas'[i] # 0 => kas'[i] # kas'[j]
      BY <1>1, <2>2, <2>6 DEF HeapPagesDistinct
    <3> QED
      BY <3>1, <3>2 DEF HeapPagesDistinct
  <2> QED
    BY <1>2, <2>2, <2>4, <2>5, <2>8, <2>9 DEF PagesInv
<1> QED
  BY <1>3, <1>4

LEMMA PagesKept ==
  ASSUME PagesInv, UNCHANGED <<mmap, nextalloc, boot, heap_pages, kas>>
  PROVE  PagesInv'
<1>1. RangesTyped' /\ CountsBits' /\ RangesDisjoint' /\ FreePages' = FreePages
  BY RangesKept DEF PagesInv
<1>2. PagesTyped'
  BY DEF PagesTyped, PagesInv, Booted
<1>3. RangesFromMap'
  BY DEF RangesFromMap, PagesInv
<1>4. FreePassed'
  BY <1>1 DEF FreePassed, PagesInv, Passed
<1>5. KernelApart'
  BY <1>1 DEF KernelApart, PagesInv, Booted, pend
<1>6. KernelKept' /\ HeapPagesDistinct'
  BY <1>1 DEF PagesInv, KernelKept, HeapPagesDistinct
<1> QED
  BY <1>1, <1>2, <1>3, <1>4, <1>5, <1>6 DEF PagesInv

-----------------------------------------------------------------------------
\* The layout of a slab, for every size of its elements

\* The quotient of two naturals is the largest natural that fits
LEMMA Quotient ==
  ASSUME NEW a \in Nat, NEW b \in Nat \ {0}
  PROVE  /\ a \div b \in Nat
         /\ (a \div b) * b <= a
         /\ a < (a \div b) * b + b
BY SMT

\* A number between the multiples i and i + 1 of b has the quotient i
LEMMA QuotientOf ==
  ASSUME NEW b \in Nat \ {0}, NEW i \in Nat, NEW k \in Nat, k < b
  PROVE  (b * i + k) \div b = i
BY SMT

\* slab_new gives a slab as many slots as fit: with the header and both bitmaps
\* they fill the page at most.
THEOREM SlotsFit ==
  ASSUME NEW esize \in Nat \ {0}
  PROVE  /\ SlotCount(esize) \in Nat
         /\ DataOffset(SlotCount(esize)) + SlotCount(esize) * esize <= ARCH_PAGE_SIZE
<1> DEFINE c == SlotCount(esize)
           w == BitmapWords(c)
<1>1. 8 * esize + 2 \in Nat \ {0}
  OBVIOUS
<1>2. c \in Nat /\ c * (8 * esize + 2) <= 32480
  <2>1. c = 32480 \div (8 * esize + 2)
    BY DEF SlotCount, ARCH_PAGE_SIZE, sizeof_slab_t
  <2> QED
    BY <1>1, <2>1, Quotient
<1>3. w \in Nat /\ w * 32 <= c + 32
  <2>1. w = (c + 32) \div 32 /\ c + 32 \in Nat
    BY <1>2 DEF BitmapWords
  <2> QED
    BY <2>1, Quotient
<1>4. c * (8 * esize + 2) = 8 * (c * esize) + 2 * c /\ c * esize \in Nat
  BY <1>2
<1>5. DataOffset(c) = 28 + 8 * w
  BY <1>3 DEF DataOffset, sizeof_slab_t
<1>6. DataOffset(c) + c * esize <= 4096
  <2> HIDE DEF c, w
  <2> QED
    BY <1>2, <1>3, <1>4, <1>5
<1> QED
  BY <1>2, <1>6 DEF ARCH_PAGE_SIZE

\* The slots of a slab lie one behind the other between its bitmaps and the end of
\* the page, and slab_gc_mark and slab_free take any pointer into a slot for that
\* slot: two objects never share a byte or a bit.
THEOREM SlotOfPointer ==
  ASSUME NEW esize \in Nat \ {0},
         NEW i \in 0..SlotCount(esize) - 1,
         NEW k \in 0..esize - 1
  PROVE  /\ SlotOffset(esize, i) + k < ARCH_PAGE_SIZE
         /\ SlotAt(esize, SlotOffset(esize, i) + k) = i
<1> DEFINE c == SlotCount(esize)
           d == DataOffset(c)
<1>1. c \in Nat /\ d + c * esize <= 4096
  BY SlotsFit DEF ARCH_PAGE_SIZE
<1>2. d \in Nat
  <2>1. BitmapWords(c) \in Nat
    BY <1>1, Quotient DEF BitmapWords
  <2> QED
    BY <2>1 DEF DataOffset, sizeof_slab_t
<1>3. SlotOffset(esize, i) = d + esize * i
  BY DEF SlotOffset
<1> HIDE DEF d
<1>4. i \in Nat /\ i + 1 <= c
  BY <1>1
<1>5. esize * i + esize <= c * esize
  <2> HIDE DEF c
  <2>1. c - (i + 1) \in Nat
    BY <1>1, <1>4
  <2>2. (c - (i + 1)) * esize \in Nat
    BY <2>1
  <2>3. (c - (i + 1)) * esize = c * esize - (esize * i + esize)
    BY <1>1, <1>4
  <2> QED
    BY <2>2, <2>3, <1>1, <1>4
<1>6. SlotOffset(esize, i) + k < ARCH_PAGE_SIZE
  <2>1. esize * i \in Nat /\ c * esize \in Nat
    BY <1>1, <1>4
  <2> HIDE DEF c
  <2> QED
    BY <1>1, <1>2, <1>3, <1>5, <2>1 DEF ARCH_PAGE_SIZE
<1>7. SlotAt(esize, SlotOffset(esize, i) + k) = i
  <2>1. (d + esize * i + k) - d = esize * i + k
    BY <1>2, <1>4
  <2>2. SlotAt(esize, SlotOffset(esize, i) + k) = (esize * i + k) \div esize
    BY <1>3, <2>1 DEF SlotAt, d
  <2> QED
    BY <1>4, <2>2, QuotientOf
<1> QED
  BY <1>6, <1>7

\* malloc takes a pool whose elements are larger than the size asked for.  Below
\* the last pool its slabs have a slot at least; the last pool's have none, so
\* that slab_alloc adds slabs for ever: it must not be asked for 2044 bytes or more.
THEOREM MallocFits ==
  ASSUME NEW size \in Nat, size < 2044
  PROVE  /\ malloc(size) \in 1..17
         /\ Pools[malloc(size)] > size
         /\ SlotCount(Pools[malloc(size)]) > 0
<1> DEFINE L == Larger(size)
<1>1. Pools[17] = 2044
  BY DEF Pools, ARCH_PAGE_SIZE
<1>2. 17 \in L /\ L \subseteq 1..18
  BY <1>1 DEF Larger
<1>3. \E i \in L : \A j \in L : i <= j
  <2> DEFINE F(n) == \A m \in 1..n : m \notin L
  <2> SUFFICES ASSUME \A i \in L : \E j \in L : j < i
               PROVE  FALSE
    BY <1>2
  <2>1. F(17)
    BY <1>2
  <2> QED
    BY <1>2, <2>1
<1>4. malloc(size) \in L /\ \A j \in L : malloc(size) <= j
  BY <1>3 DEF malloc
<1>5. malloc(size) \in 1..17
  BY <1>2, <1>4
<1>6. SlotCount(Pools[malloc(size)]) > 0
  BY <1>5 DEF SlotCount, Pools, ARCH_PAGE_SIZE, sizeof_slab_t
<1> QED
  BY <1>4, <1>5, <1>6 DEF Larger

-----------------------------------------------------------------------------
\* Lists, slabs and slots

\* LIST_PREPEND adds a member to a list
LEMMA Prepended ==
  ASSUME NEW S, NEW q \in Seq(S), NEW p \in S
  PROVE  /\ PrependTo(q, p) \in Seq(S)
         /\ Range(PrependTo(q, p)) = Range(q) \cup {p}
         /\ (p \notin Range(q) /\ \A m, n \in DOMAIN q : q[m] = q[n] => m = n)
              => \A m, n \in DOMAIN PrependTo(q, p) : PrependTo(q, p)[m] = PrependTo(q, p)[n] => m = n
<1>1. CASE q = <<>>
  BY <1>1 DEF PrependTo, Range
<1>2. CASE q # <<>>
  <2> DEFINE r == <<p>> \o Append(Tail(q), Head(q))
             l == Len(q)
  <2>1. l \in Nat \ {0} /\ DOMAIN q = 1..l
    BY <1>2, EmptySeq, LenProperties
  <2>2. /\ Tail(q) \in Seq(S) /\ Len(Tail(q)) = l - 1 /\ \A i \in 1..l - 1 : Tail(q)[i] = q[i + 1]
        /\ Head(q) = q[1] /\ Head(q) \in S
    BY <1>2, <2>1, HeadTailProperties
  <2>3. /\ Append(Tail(q), Head(q)) \in Seq(S) /\ Len(Append(Tail(q), Head(q))) = l
        /\ \A i \in 1..l : Append(Tail(q), Head(q))[i] = IF i = l THEN q[1] ELSE q[i + 1]
    <3> DEFINE b == Tail(q)
               h == Head(q)
    <3>1. b \in Seq(S) /\ Len(b) = l - 1 /\ (\A i \in 1..l - 1 : b[i] = q[i + 1]) /\ h \in S /\ h = q[1]
      BY <2>2
    <3> HIDE DEF b, h, l
    <3>2. /\ Append(b, h) \in Seq(S) /\ Len(Append(b, h)) = Len(b) + 1
          /\ (\A i \in 1..Len(b) : Append(b, h)[i] = b[i]) /\ Append(b, h)[Len(b) + 1] = h
      BY <3>1, AppendProperties
    <3>3. /\ Append(b, h) \in Seq(S) /\ Len(Append(b, h)) = l
          /\ \A i \in 1..l : Append(b, h)[i] = IF i = l THEN q[1] ELSE q[i + 1]
      BY <2>1, <3>1, <3>2
    <3> QED
      BY <3>3 DEF b, h
  <2>4. /\ r \in Seq(S) /\ Len(r) = l + 1 /\ DOMAIN r = 1..l + 1
        /\ r[1] = p /\ r[l + 1] = q[1] /\ \A i \in 2..l : r[i] = q[i]
    <3> DEFINE a == Append(Tail(q), Head(q))
    <3>1. a \in Seq(S) /\ Len(a) = l /\ \A i \in 1..l : a[i] = IF i = l THEN q[1] ELSE q[i + 1]
      BY <2>3, Zenon
    <3> HIDE DEF a
    <3>2. /\ <<p>> \o a \in Seq(S) /\ Len(<<p>> \o a) = l + 1 /\ DOMAIN (<<p>> \o a) = 1..l + 1
          /\ (<<p>> \o a)[1] = p /\ \A i \in 2..l + 1 : (<<p>> \o a)[i] = a[i - 1]
      <4> DEFINE o == <<p>>
      <4>1. o \in Seq(S) /\ Len(o) = 1 /\ o[1] = p
        OBVIOUS
      <4> HIDE DEF o, l
      <4>2. /\ o \o a \in Seq(S) /\ Len(o \o a) = Len(o) + Len(a)
            /\ \A i \in 1..Len(o) + Len(a) : (o \o a)[i] = IF i <= Len(o) THEN o[i] ELSE a[i - Len(o)]
        BY <3>1, <4>1, ConcatProperties, Zenon
      <4>3. DOMAIN (o \o a) = 1..l + 1
        BY <2>1, <3>1, <4>1, <4>2, LenProperties
      <4>4. (o \o a)[1] = p /\ \A i \in 2..l + 1 : (o \o a)[i] = a[i - 1]
        BY <2>1, <3>1, <4>1, <4>2
      <4> QED
        BY <2>1, <3>1, <4>1, <4>2, <4>3, <4>4 DEF o
    <3>3. \A i \in 2..l + 1 : a[i - 1] = IF i = l + 1 THEN q[1] ELSE q[i]
      <4> TAKE i \in 2..l + 1
      <4> HIDE DEF l
      <4>1. i - 1 \in 1..l /\ (i - 1) + 1 = i /\ (i - 1 = l <=> i = l + 1)
        BY <2>1
      <4> QED
        BY <3>1, <4>1
    <3>4. (<<p>> \o a)[l + 1] = q[1] /\ \A i \in 2..l : (<<p>> \o a)[i] = q[i]
      BY <2>1, <3>2, <3>3
    <3> QED
      BY <3>2, <3>4 DEF a
  <2>5. PrependTo(q, p) = r
    BY <1>2 DEF PrependTo
  <2> HIDE DEF r, l
  <2>6. \A i \in 1..l + 1 : i = 1 \/ i = l + 1 \/ i \in 2..l
    BY <2>1
  <2>7. Range(r) = Range(q) \cup {p}
    <3>1. \A i \in 1..l + 1 : r[i] = p \/ \E j \in 1..l : r[i] = q[j]
      BY <2>1, <2>4, <2>6
    <3>2. \A j \in 1..l : \E i \in 1..l + 1 : r[i] = q[j]
      <4> TAKE j \in 1..l
      <4>1. CASE j = 1
        BY <2>1, <2>4, <4>1
      <4>2. CASE j # 1
        BY <2>1, <2>4, <4>2
      <4> QED
        BY <4>1, <4>2
    <3>3. p \in Range(r) /\ DOMAIN r = 1..l + 1 /\ DOMAIN q = 1..l
      BY <2>1, <2>4 DEF Range
    <3>4. ASSUME NEW x \in Range(r) PROVE x \in Range(q) \cup {p}
      <4>1. PICK i \in 1..l + 1 : x = r[i]
        BY <3>3 DEF Range
      <4> QED
        BY <3>1, <3>3, <4>1 DEF Range
    <3>5. ASSUME NEW x \in Range(q) PROVE x \in Range(r)
      <4>1. PICK j \in 1..l : x = q[j]
        BY <3>3 DEF Range
      <4> QED
        BY <3>2, <3>3, <4>1 DEF Range
    <3> QED
      BY <3>3, <3>4, <3>5
  <2>8. ASSUME p \notin Range(q), \A m, n \in DOMAIN q : q[m] = q[n] => m = n,
               NEW m \in DOMAIN r, NEW n \in DOMAIN r, r[m] = r[n]
        PROVE  m = n
    <3>1. \A i \in 1..l : q[i] # p
      BY <2>1, <2>8 DEF Range
    <3> QED
      BY <2>1, <2>4, <2>6, <2>8, <3>1
  <2> QED
    BY <2>4, <2>5, <2>7, <2>8
<1> QED
  BY <1>1, <1>2

LEMMA SlotsTyped ==
  ASSUME NEW t \in Types
  PROVE  SlotCount(Esize[t]) \in Nat \ {0} /\ 0 \in SlotsOf(t) /\ SlotsOf(t) \in SUBSET Nat
<1>1. SlotCount(Esize[t]) > 0
  BY SlabAssumption, Zenon
<1>2. SlotCount(Esize[t]) \in Nat
  <2>1. Esize[t] \in 1..ARCH_PAGE_SIZE
    BY SlabAssumption
  <2>2. \A e \in 1..ARCH_PAGE_SIZE : e \in Nat \ {0}
    BY DEF ARCH_PAGE_SIZE
  <2> QED
    BY <2>1, <2>2, SlotsFit, Zenon
<1> QED
  BY <1>1, <1>2 DEF SlotsOf

\* Two sequences of different elements that share none make one
LEMMA Concatenated ==
  ASSUME NEW S, NEW g \in Seq(S), NEW c \in Seq(S),
         \A m, n \in DOMAIN g : g[m] = g[n] => m = n,
         \A m, n \in DOMAIN c : c[m] = c[n] => m = n,
         \A m \in DOMAIN g : \A n \in DOMAIN c : g[m] # c[n]
  PROVE  /\ g \o c \in Seq(S)
         /\ \A m, n \in DOMAIN (g \o c) : (g \o c)[m] = (g \o c)[n] => m = n
         /\ \A n \in DOMAIN (g \o c) : \/ \E m \in DOMAIN g : (g \o c)[n] = g[m]
                                       \/ \E m \in DOMAIN c : (g \o c)[n] = c[m]
<1> DEFINE h == g \o c
<1>1. /\ h \in Seq(S) /\ Len(h) = Len(g) + Len(c)
      /\ \A i \in 1..Len(g) + Len(c) : h[i] = IF i <= Len(g) THEN g[i] ELSE c[i - Len(g)]
  BY ConcatProperties
<1>2. /\ DOMAIN h = 1..Len(g) + Len(c) /\ DOMAIN g = 1..Len(g) /\ DOMAIN c = 1..Len(c)
      /\ Len(g) \in Nat /\ Len(c) \in Nat
  BY <1>1, LenProperties
<1> HIDE DEF h
<1>3. \A i \in DOMAIN h : \/ i \in DOMAIN g /\ h[i] = g[i]
                          \/ i - Len(g) \in DOMAIN c /\ h[i] = c[i - Len(g)] /\ i \notin DOMAIN g
  BY <1>1, <1>2
<1>4. ASSUME NEW m \in DOMAIN h, NEW n \in DOMAIN h, h[m] = h[n]
      PROVE  m = n
  <2>1. CASE m \in DOMAIN g /\ n \in DOMAIN g
    BY <1>3, <1>4, <2>1
  <2>2. CASE m \notin DOMAIN g /\ n \notin DOMAIN g
    <3>1. m - Len(g) = n - Len(g)
      BY <1>3, <1>4, <2>2
    <3> QED
      BY <1>2, <3>1
  <2> QED
    BY <1>3, <1>4, <2>1, <2>2
<1> QED
  BY <1>1, <1>3, <1>4 DEF h

-----------------------------------------------------------------------------
\* The inductive invariant of the slab allocator

\* The slabs are those of the lists of the two types, each in one list and once
SlabsListed ==
  /\ first \in [Types -> Seq(1..heap_pages)]
  /\ \A t \in Types : \A m, n \in DOMAIN first[t] : first[t][m] = first[t][n] => m = n
  /\ SlabsOf(Threads) \cap SlabsOf(Nodes) = {}
  /\ DOMAIN available = SlabsOf(Threads) \cup SlabsOf(Nodes)

BitmapsTyped(bits) ==
  /\ DOMAIN bits = DOMAIN available
  /\ \A t \in Types : \A s \in SlabsOf(t) : bits[s] \in [SlotsOf(t) -> BOOLEAN]

\* A bitmap with a bit for every object that is not live
BitmapOfLive(bits) == \A s \in DOMAIN bits : \A i \in DOMAIN bits[s] : <<s, i>> \in live <=> ~bits[s][i]

\* During a collection finalize is the bitmap of the allocation, and available that of
\* the marks
Bitmaps ==
  /\ BitmapsTyped(available)
  /\ gc \in {"off", "begun", "marked"}
  /\ gc = "off" => BitmapOfLive(available)
  /\ gc # "off" => BitmapsTyped(finalize) /\ BitmapOfLive(finalize) /\ ~Forking
  /\ gc = "begun" => \A s \in DOMAIN available : \A i \in DOMAIN available[s] : available[s][i]
  /\ gc = "marked" => \A s \in DOMAIN available : \A i \in DOMAIN available[s] :
                        available[s][i] <=> <<s, i>> \notin Reached(roots)

\* What the program holds, and what objects point to, is live
PointersLive ==
  /\ live \subseteq Objects
  /\ roots \subseteq live /\ DOMAIN refs \subseteq live
  /\ \A x \in DOMAIN refs : refs[x] \in live

\* Stacks are those of threads; the cache, the slabs and the stacks share no heap page
PagesApart ==
  /\ heap_cache \in Seq(1..heap_pages)
  /\ \A m, n \in DOMAIN heap_cache : heap_cache[m] = heap_cache[n] => m = n
  /\ \A n \in DOMAIN heap_cache : heap_cache[n] \notin DOMAIN available
  /\ \A x \in DOMAIN stack : /\ x \in Objects /\ x[1] \in SlabsOf(Threads)
                             /\ stack[x] \in 1..heap_pages \cup {NULL}
  /\ DOMAIN stack # {} => Booted
  /\ \A x \in live \cap DOMAIN stack : stack[x] # NULL =>
       /\ stack[x] \notin DOMAIN available
       /\ \A n \in DOMAIN heap_cache : heap_cache[n] # stack[x]
       /\ \A y \in live \cap DOMAIN stack : stack[y] = stack[x] => y = x

SlabInv == PagesInv /\ SlabsListed /\ Bitmaps /\ PointersLive /\ PagesApart /\ faults = {}

-----------------------------------------------------------------------------
\* Slabs and slots

LEMMA TypeOfSlab ==
  ASSUME SlabsListed, NEW t \in Types, NEW s \in SlabsOf(t)
  PROVE  TypeOf(s) = t /\ s \in DOMAIN available
BY DEF SlabsListed, TypeOf, Types

LEMMA SlabType ==
  ASSUME SlabsListed, NEW s \in DOMAIN available
  PROVE  TypeOf(s) \in Types /\ s \in SlabsOf(TypeOf(s))
<1>1. \E t \in Types : s \in SlabsOf(t)
  BY DEF SlabsListed, Types
<1> QED
  BY <1>1 DEF TypeOf

\* page_heap_alloc gives a page that is in no use
LEMMA HeapPageFresh ==
  ASSUME PagesTyped, SlabsListed, PagesApart, page_heap_alloc
  PROVE  /\ heap_pages \in Nat /\ heap_pages' \in Nat /\ heap_pages <= heap_pages'
         /\ HeapPage \in 1..heap_pages' /\ HeapPage # NULL
         /\ heap_cache' \in Seq(1..heap_pages')
         /\ \A m, n \in DOMAIN heap_cache' : heap_cache'[m] = heap_cache'[n] => m = n
         /\ \A n \in DOMAIN heap_cache' : heap_cache'[n] # HeapPage /\ \E m \in DOMAIN heap_cache : heap_cache'[n] = heap_cache[m]
         /\ HeapPage \notin DOMAIN available
         /\ \A x \in live \cap DOMAIN stack : stack[x] # NULL => stack[x] # HeapPage
<1>0. /\ heap_pages \in 0..MaxHeap /\ MaxHeap \in Nat
      /\ heap_cache \in Seq(1..heap_pages)
      /\ \A m, n \in DOMAIN heap_cache : heap_cache[m] = heap_cache[n] => m = n
      /\ NULL \notin 1..MaxHeap
  BY PagesAssumption, SlabAssumption DEF PagesTyped, PagesApart
<1>1. CASE heap_cache # <<>>
  <2> DEFINE c == heap_cache
  <2>1. heap_cache' = Tail(c) /\ heap_pages' = heap_pages /\ HeapPage = Head(c)
    BY <1>1 DEF page_heap_alloc, HeapPage
  <2>2. /\ c \in Seq(1..heap_pages) /\ Len(c) \in Nat \ {0} /\ DOMAIN c = 1..Len(c)
        /\ Tail(c) \in Seq(1..heap_pages) /\ DOMAIN Tail(c) = 1..Len(c) - 1
        /\ \A n \in 1..Len(c) - 1 : Tail(c)[n] = c[n + 1]
        /\ Head(c) = c[1] /\ Head(c) \in 1..heap_pages
    BY <1>0, <1>1, HeadTailProperties, LenProperties, EmptySeq
  <2>3. \A n \in 1..Len(c) - 1 : n + 1 \in 1..Len(c) /\ n + 1 # 1
    BY <2>2
  <2>4. \A m, n \in DOMAIN heap_cache' : heap_cache'[m] = heap_cache'[n] => m = n
    <3> SUFFICES ASSUME NEW m \in 1..Len(c) - 1, NEW n \in 1..Len(c) - 1, c[m + 1] = c[n + 1]
                 PROVE  m = n
      BY <2>1, <2>2
    <3>1. m + 1 = n + 1
      BY <1>0, <2>2, <2>3
    <3> QED
      BY <2>2, <3>1
  <2>5. \A n \in DOMAIN heap_cache' : heap_cache'[n] # HeapPage /\ \E m \in DOMAIN heap_cache : heap_cache'[n] = heap_cache[m]
    <3> TAKE n \in DOMAIN heap_cache'
    <3>1. n + 1 \in DOMAIN c /\ 1 \in DOMAIN c /\ n + 1 # 1 /\ heap_cache'[n] = c[n + 1] /\ HeapPage = c[1]
      BY <2>1, <2>2, <2>3
    <3> QED
      BY <1>0, <3>1
  <2>6. 1 \in DOMAIN heap_cache /\ HeapPage = heap_cache[1]
    BY <2>1, <2>2
  <2>7. HeapPage \notin DOMAIN available
    BY <2>6, Zenon DEF PagesApart
  <2>8. \A x \in live \cap DOMAIN stack : stack[x] # NULL => stack[x] # HeapPage
    BY <2>6, Zenon DEF PagesApart
  <2>9. /\ heap_pages \in Nat /\ heap_pages' \in Nat /\ heap_pages <= heap_pages'
        /\ HeapPage \in 1..heap_pages' /\ HeapPage # NULL
    BY <1>0, <2>1, <2>2
  <2> QED
    BY <2>1, <2>2, <2>4, <2>5, <2>7, <2>8, <2>9
<1>2. CASE heap_cache = <<>>
  <2>1. /\ heap_cache' = <<>> /\ heap_pages' = heap_pages + 1 /\ heap_pages < MaxHeap
        /\ HeapPage = heap_pages + 1
    BY <1>2 DEF page_heap_alloc, HeapPage
  <2>2. HeapPage \notin 1..heap_pages /\ HeapPage \in 1..heap_pages' /\ HeapPage # NULL
    BY <1>0, <2>1
  <2>3. HeapPage \notin DOMAIN available
    <3>1. \A t \in Types : SlabsOf(t) \subseteq 1..heap_pages
      <4> TAKE t \in Types
      <4>1. first[t] \in Seq(1..heap_pages)
        BY DEF SlabsListed
      <4> QED
        BY <4>1, ElementOfSeq, LenProperties, Zenon DEF SlabsOf, Range
    <3> QED
      BY <2>2, <3>1 DEF SlabsListed, Types
  <2>4. \A x \in live \cap DOMAIN stack : stack[x] # NULL => stack[x] # HeapPage
    BY <2>2 DEF PagesApart
  <2>5. heap_cache' \in Seq(1..heap_pages') /\ DOMAIN heap_cache' = {}
    BY <2>1
  <2>6. heap_pages \in Nat /\ heap_pages' \in Nat /\ heap_pages <= heap_pages'
    BY <1>0, <2>1
  <2> QED
    BY <2>2, <2>3, <2>4, <2>5, <2>6
<1> QED
  BY <1>1, <1>2

LEMMA ObjectIs == \A x : x \in Objects <=> \E s \in DOMAIN available : \E i \in DOMAIN available[s] : x = <<s, i>>
<1> TAKE x
<1>1. x \in Objects <=> \E s \in DOMAIN available : x \in {<<s, i>> : i \in DOMAIN available[s]}
  BY Zenon DEF Objects
<1> QED
  BY <1>1, Zenon

LEMMA ObjectIsNext ==
  (\A x : x \in Objects <=> \E s \in DOMAIN available : \E i \in DOMAIN available[s] : x = <<s, i>>)'
BY ObjectIs, PTL

-----------------------------------------------------------------------------
\* What slab_alloc does

\* Whatever its use, the step leaves the cache, the slabs and the stacks apart
Apart(st, lv) ==
  /\ heap_cache' \in Seq(1..heap_pages')
  /\ \A m, n \in DOMAIN heap_cache' : heap_cache'[m] = heap_cache'[n] => m = n
  /\ \A n \in DOMAIN heap_cache' : heap_cache'[n] \notin DOMAIN available'
  /\ \A x \in lv \cap DOMAIN st : st[x] # NULL =>
       /\ st[x] \notin DOMAIN available'
       /\ \A n \in DOMAIN heap_cache' : heap_cache'[n] # st[x]

\* What slab_alloc does, from a new slab or not: a slot that was no object's is allocated
Allocated(t) ==
  /\ PagesInv' /\ SlabsListed' /\ BitmapsTyped(available)'
  /\ Slot(t) \notin live /\ Slot(t) \in Objects' /\ Slot(t)[1] \in SlabsOf(t)'
  /\ Objects \subseteq Objects' /\ \A u \in Types : SlabsOf(u) \subseteq SlabsOf(u)'
  /\ \A s \in DOMAIN available' : \A i \in DOMAIN available'[s] :
       ~available'[s][i] <=> <<s, i>> \in live \cup {Slot(t)}
  /\ heap_pages \in Nat /\ heap_pages' \in Nat /\ heap_pages <= heap_pages'
  /\ Apart(stack, live)

LEMMA AllocNew ==
  ASSUME SlabInv, Running, NEW t \in Types, Found(t) = {}, slab_new(t), UNCHANGED <<nextalloc, boot>>
  PROVE  Allocated(t)
<1> DEFINE p == HeapPage
           b == [Bits(t, TRUE) EXCEPT ![0] = FALSE]
<1>0. /\ PagesInv /\ PagesTyped /\ SlabsListed /\ Bitmaps /\ PointersLive /\ PagesApart /\ Booted /\ gc = "off"
      /\ page_heap_alloc
  BY DEF SlabInv, PagesInv, Running, slab_new
<1>1. PagesInv'
  BY <1>0, HeapAlloc
<1>2. /\ heap_pages \in Nat /\ heap_pages' \in Nat /\ heap_pages <= heap_pages'
      /\ p \in 1..heap_pages' /\ p # NULL
      /\ heap_cache' \in Seq(1..heap_pages')
      /\ \A m, n \in DOMAIN heap_cache' : heap_cache'[m] = heap_cache'[n] => m = n
      /\ \A n \in DOMAIN heap_cache' : heap_cache'[n] # p /\ \E m \in DOMAIN heap_cache : heap_cache'[n] = heap_cache[m]
      /\ p \notin DOMAIN available
      /\ \A x \in live \cap DOMAIN stack : stack[x] # NULL => stack[x] # p
  BY <1>0, HeapPageFresh
<1>3. /\ first' = [first EXCEPT ![t] = PrependTo(first[t], p)]
      /\ available' = With(available, p, b)
      /\ Slot(t) = <<p, 0>>
  BY DEF slab_new, Slot
<1> HIDE DEF p
<1>4. b \in [SlotsOf(t) -> BOOLEAN] /\ 0 \in SlotsOf(t) /\ \A i \in SlotsOf(t) : ~b[i] <=> i = 0
  BY SlotsTyped, Zenon DEF Bits
<1> HIDE DEF b
<1>5. /\ DOMAIN available' = DOMAIN available \cup {p} /\ available'[p] = b
      /\ \A s \in DOMAIN available : available'[s] = available[s] /\ s # p
  BY <1>2, <1>3 DEF With
<1>6. first \in [Types -> Seq(1..heap_pages)] /\ first[t] \in Seq(1..heap_pages')
      /\ first \in [Types -> Seq(1..heap_pages')]
  <2>1. first \in [Types -> Seq(1..heap_pages)] /\ 1..heap_pages \subseteq 1..heap_pages'
    BY <1>0, <1>2 DEF SlabsListed
  <2>2. \A u \in Types : first[u] \in Seq(1..heap_pages')
    BY <2>1, SeqMonotonic, Zenon
  <2> QED
    BY <2>1, <2>2
<1>7. p \notin Range(first[t])
  BY <1>0, <1>2 DEF SlabsListed, SlabsOf, Types
<1>8. /\ PrependTo(first[t], p) \in Seq(1..heap_pages')
      /\ Range(PrependTo(first[t], p)) = Range(first[t]) \cup {p}
      /\ \A m, n \in DOMAIN PrependTo(first[t], p) : PrependTo(first[t], p)[m] = PrependTo(first[t], p)[n] => m = n
  <2> DEFINE q == first[t]
             S == 1..heap_pages'
  <2>1. q \in Seq(S) /\ p \in S /\ p \notin Range(q) /\ \A m, n \in DOMAIN q : q[m] = q[n] => m = n
    BY <1>0, <1>2, <1>6, <1>7 DEF SlabsListed
  <2> HIDE DEF q, S
  <2>2. /\ PrependTo(q, p) \in Seq(S)
        /\ Range(PrependTo(q, p)) = Range(q) \cup {p}
        /\ \A m, n \in DOMAIN PrependTo(q, p) : PrependTo(q, p)[m] = PrependTo(q, p)[n] => m = n
    BY <2>1, Prepended, Zenon
  <2> QED
    BY <2>2 DEF q, S
<1>9. /\ first' \in [Types -> Seq(1..heap_pages')]
      /\ first'[t] = PrependTo(first[t], p) /\ \A u \in Types : u # t => first'[u] = first[u]
  BY <1>3, <1>6, <1>8
<1>10. \A u \in Types : SlabsOf(u)' = IF u = t THEN SlabsOf(t) \cup {p} ELSE SlabsOf(u)
  BY <1>8, <1>9 DEF SlabsOf
<1>11. SlabsListed'
  <2>1. \A u \in Types : \A m, n \in DOMAIN first'[u] : first'[u][m] = first'[u][n] => m = n
    BY <1>0, <1>8, <1>9, Zenon DEF SlabsListed
  <2>2. /\ SlabsOf(Threads) \cap SlabsOf(Nodes) = {} /\ p \notin SlabsOf(Threads) /\ p \notin SlabsOf(Nodes)
        /\ DOMAIN available = SlabsOf(Threads) \cup SlabsOf(Nodes)
    BY <1>0, <1>2 DEF SlabsListed
  <2>3. t = Threads \/ t = Nodes
    BY DEF Types
  <2>4. /\ SlabsOf(Threads)' \cap SlabsOf(Nodes)' = {}
        /\ DOMAIN available' = SlabsOf(Threads)' \cup SlabsOf(Nodes)'
    <3>1. CASE t = Threads
      <4>1. SlabsOf(Threads)' = SlabsOf(Threads) \cup {p} /\ SlabsOf(Nodes)' = SlabsOf(Nodes)
        BY <1>10, <3>1, SlabAssumption DEF Types
      <4> QED
        BY <1>5, <2>2, <4>1
    <3>2. CASE t = Nodes
      <4>1. SlabsOf(Nodes)' = SlabsOf(Nodes) \cup {p} /\ SlabsOf(Threads)' = SlabsOf(Threads)
        BY <1>10, <3>2, SlabAssumption DEF Types
      <4> QED
        BY <1>5, <2>2, <4>1
    <3> QED
      BY <2>3, <3>1, <3>2
  <2> QED
    BY <1>9, <2>1, <2>4 DEF SlabsListed
<1>12. BitmapsTyped(available)'
  <2>1. \A u \in Types : \A s \in SlabsOf(u)' : available'[s] \in [SlotsOf(u) -> BOOLEAN]
    <3> SUFFICES ASSUME NEW u \in Types, NEW s \in SlabsOf(u)' PROVE available'[s] \in [SlotsOf(u) -> BOOLEAN]
      OBVIOUS
    <3>1. CASE s = p
      <4>1. u = t
        BY <1>0, <1>2, <1>10, <3>1 DEF SlabsListed, Types
      <4> QED
        BY <1>4, <1>5, <3>1, <4>1
    <3>2. CASE s # p
      <4>1. s \in SlabsOf(u) /\ s \in DOMAIN available
        BY <1>0, <1>10, <3>2, TypeOfSlab
      <4> QED
        BY <1>0, <1>5, <4>1 DEF Bitmaps, BitmapsTyped
    <3> QED
      BY <3>1, <3>2
  <2> QED
    BY <2>1 DEF BitmapsTyped
<1>13. Objects \subseteq Objects' /\ <<p, 0>> \in Objects'
  <2>1. \A x : x \in Objects' <=> \E s \in DOMAIN available' : \E i \in DOMAIN available'[s] : x = <<s, i>>
    BY ObjectIsNext
  <2>2. 0 \in DOMAIN available'[p]
    BY <1>4, <1>5
  <2> QED
    BY <1>5, <2>1, <2>2, ObjectIs
<1>14. <<p, 0>> \notin live
  BY <1>0, <1>2, ObjectIs DEF PointersLive
<1>15. \A s \in DOMAIN available' : \A i \in DOMAIN available'[s] :
         ~available'[s][i] <=> <<s, i>> \in live \cup {<<p, 0>>}
  <2> SUFFICES ASSUME NEW s \in DOMAIN available', NEW i \in DOMAIN available'[s]
               PROVE  ~available'[s][i] <=> <<s, i>> \in live \cup {<<p, 0>>}
    BY Zenon
  <2>1. CASE s = p
    <3>1. <<s, i>> \notin live
      BY <1>0, <1>2, <2>1, ObjectIs DEF PointersLive
    <3>2. i \in SlotsOf(t) /\ (~available'[s][i] <=> i = 0)
      BY <1>4, <1>5, <2>1
    <3> QED
      BY <2>1, <3>1, <3>2
  <2>2. CASE s # p
    <3>1. s \in DOMAIN available /\ available'[s] = available[s]
      BY <1>5, <2>2
    <3>2. <<s, i>> \in live <=> ~available[s][i]
      BY <1>0, <3>1 DEF Bitmaps, BitmapOfLive
    <3> QED
      BY <2>2, <3>1, <3>2
  <2> QED
    BY <2>1, <2>2
<1>16. Apart(stack, live)
  <2>1. \A n \in DOMAIN heap_cache' : heap_cache'[n] \notin DOMAIN available'
    BY <1>0, <1>2, <1>5 DEF PagesApart
  <2>2. ASSUME NEW x \in live \cap DOMAIN stack, stack[x] # NULL
        PROVE  stack[x] \notin DOMAIN available' /\ \A n \in DOMAIN heap_cache' : heap_cache'[n] # stack[x]
    BY <1>0, <1>2, <1>5, <2>2 DEF PagesApart
  <2> QED
    BY <1>2, <2>1, <2>2 DEF Apart
<1>17. <<p, 0>>[1] \in SlabsOf(t)' /\ \A u \in Types : SlabsOf(u) \subseteq SlabsOf(u)'
  BY <1>10
<1> QED
  BY <1>1, <1>2, <1>3, <1>11, <1>12, <1>13, <1>14, <1>15, <1>16, <1>17, Zenon DEF Allocated
=============================================================================
