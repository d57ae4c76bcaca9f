-------------------------------- MODULE Pages --------------------------------
(***************************************************************************)
(* Physical memory: the page bitmaps of kernel/core.c, filled at boot from *)
(* the memory map of the boot loader (arch_init in arch/i386/init.c), and  *)
(* the heap pages with their cache.  A bit of a bitmap is a BOOLEAN; of a  *)
(* memory address only its page number matters.                            *)
(***************************************************************************)
EXTENDS Integers, Sequences, FiniteSetsExt

CONSTANTS
  MemoryMap,    \* multiboot_mmap(0), (1), ...: base, count, available
  KernelStart,  \* pstart, the first page of the kernel image
  ImageEnd,     \* nextalloc at entry, in units of allocation
  UnitsPerPage, \* ARCH_PAGE_SIZE / ALIGNMENT
  MaxHeap       \* bound on the heap pages in use

\* The boot loader's ranges of available memory do not overlap
ASSUME PagesAssumption ==
  /\ MemoryMap \in Seq([base : Nat, count : Nat, available : BOOLEAN])
  /\ \A j, k \in DOMAIN MemoryMap :
       j # k /\ MemoryMap[j].available /\ MemoryMap[k].available =>
         \/ MemoryMap[j].base + MemoryMap[j].count <= MemoryMap[k].base
         \/ MemoryMap[k].base + MemoryMap[k].count <= MemoryMap[j].base
  /\ KernelStart \in Nat /\ ImageEnd \in Nat
  /\ UnitsPerPage \in Nat \ {0} /\ MaxHeap \in Nat

VARIABLES
  mmap,        \* the ranges: base, count, free, available
  nextalloc,   \* end of the kernel's own memory, in units of allocation
  boot,        \* place in arch_init: phase, entry of the memory map, page in it
  heap_cache,  \* heap pages given back, the first to be used again first
  heap_pages,  \* heap pages made by arch_heap_page: 1..heap_pages
  kas          \* the physical page of each heap page

pageVars == <<mmap, nextalloc, boot, heap_cache, heap_pages, kas>>

InitPages ==
  /\ mmap = <<>> /\ nextalloc = ImageEnd
  /\ boot = [phase |-> "add", entry |-> 1, page |-> 0]
  /\ heap_cache = <<>> /\ heap_pages = 0 /\ kas = <<>>

Booted == boot.phase = "done"

\* One 8 bit word holds the bitmap of the small ranges of a model: one unit
bootstrap_alloc(units) == nextalloc' = nextalloc + units

page_add_range(base, count) ==
  /\ mmap' = Append(mmap, [base |-> base, count |-> count, free |-> 0,
                           available |-> [p \in 0..count - 1 |-> FALSE]])
  /\ bootstrap_alloc(1)

\* The range page_free puts a page in.  The first page of a range is not found.
RangesOf(page) ==
  {m \in DOMAIN mmap : page - mmap[m].base > 0 /\ page - mmap[m].base < mmap[m].count}

Freed(m, p) == [mmap EXCEPT ![m].available[p] = TRUE, ![m].free = @ + 1]

page_free(page) ==
  IF RangesOf(page) = {} THEN UNCHANGED mmap
  ELSE LET m == Min(RangesOf(page)) IN mmap' = Freed(m, page - mmap[m].base)

\* The first pass of arch_init over the memory map
arch_init_add ==
  /\ boot.phase = "add"
  /\ IF boot.entry > Len(MemoryMap)
     THEN boot' = [phase |-> "free", entry |-> 1, page |-> 0] /\ UNCHANGED <<mmap, nextalloc>>
     ELSE /\ boot' = [boot EXCEPT !.entry = @ + 1]
          /\ IF MemoryMap[boot.entry].available
             THEN page_add_range(MemoryMap[boot.entry].base, MemoryMap[boot.entry].count)
             ELSE UNCHANGED <<mmap, nextalloc>>
  /\ UNCHANGED <<heap_cache, heap_pages, kas>>

\* Faulty variant: the end of the kernel as it was before the bitmaps
pend_early == ImageEnd \div UnitsPerPage

\* The last page of the kernel, its bitmaps included
pend == nextalloc \div UnitsPerPage

\* The second pass: a page, or the end of an entry
arch_init_free ==
  LET e    == MemoryMap[boot.entry]
      page == e.base + boot.page
  IN  /\ boot.phase = "free"
      /\ IF boot.entry > Len(MemoryMap)
         THEN /\ boot' = [boot EXCEPT !.phase = "done"]
              /\ nextalloc' = (nextalloc \div UnitsPerPage + 1) * UnitsPerPage  \* bootstrap_finish
              /\ UNCHANGED mmap
         ELSE /\ IF e.available /\ boot.page < e.count
                 THEN /\ IF page < KernelStart \/ page > pend THEN page_free(page) ELSE UNCHANGED mmap
                      /\ boot' = [boot EXCEPT !.page = @ + 1]
                 ELSE boot' = [boot EXCEPT !.entry = @ + 1, !.page = 0] /\ UNCHANGED mmap
              /\ UNCHANGED nextalloc
      /\ UNCHANGED <<heap_cache, heap_pages, kas>>

\* The ranges page_alloc finds a page in; it takes the last of them
RangesWithFree ==
  {m \in DOMAIN mmap : mmap[m].free > 0 /\ TRUE \in {mmap[m].available[p] : p \in DOMAIN mmap[m].available}}

\* Faulty variant: the bit stays set
TakenKeepsBit(m, p) == [mmap EXCEPT ![m].free = @ - 1]

\* Faulty variant: the search takes the bits of a word from the other end
Taken_last(m, p) ==
  [mmap EXCEPT ![m].available[Max({q \in DOMAIN mmap[m].available : mmap[m].available[q]})] = FALSE, ![m].free = @ - 1]

Taken(m, p) == [mmap EXCEPT ![m].available[p] = FALSE, ![m].free = @ - 1]

\* page_alloc: the lowest page of the last range that has one, or 0
FirstBit(m) == Min({p \in DOMAIN mmap[m].available : mmap[m].available[p]})
page_alloc == LET m == Max(RangesWithFree)
              IN  IF RangesWithFree = {} THEN 0 ELSE mmap[m].base + FirstBit(m)
PageTaken == IF RangesWithFree = {} THEN UNCHANGED mmap
             ELSE mmap' = Taken(Max(RangesWithFree), FirstBit(Max(RangesWithFree)))

\* The page page_heap_alloc returns, and what it does: pages of the cache come
\* first, then new ones, each mapped to a physical page
HeapPage == IF heap_cache # <<>> THEN Head(heap_cache) ELSE heap_pages + 1

\* Faulty variant: the page stays in the cache
page_heap_alloc_stays ==
  \/ /\ heap_cache # <<>>
     /\ UNCHANGED <<heap_cache, mmap, heap_pages, kas>>
  \/ /\ heap_cache = <<>>
     /\ heap_pages < MaxHeap
     /\ heap_pages' = heap_pages + 1
     /\ kas' = Append(kas, page_alloc)
     /\ PageTaken
     /\ UNCHANGED heap_cache

page_heap_alloc ==
  \/ /\ heap_cache # <<>>
     /\ heap_cache' = Tail(heap_cache)
     /\ UNCHANGED <<mmap, heap_pages, kas>>
  \/ /\ heap_cache = <<>>
     /\ heap_pages < MaxHeap
     /\ heap_pages' = heap_pages + 1        \* arch_heap_page
     /\ kas' = Append(kas, page_alloc)
     /\ PageTaken
     /\ UNCHANGED heap_cache

page_heap_free(p) == heap_cache' = <<p>> \o heap_cache

-----------------------------------------------------------------------------
PagesTypeOK ==
  /\ \A m \in DOMAIN mmap : /\ mmap[m].free \in 0..mmap[m].count
                            /\ mmap[m].available \in [0..mmap[m].count - 1 -> BOOLEAN]
  /\ heap_pages \in 0..MaxHeap /\ Len(kas) = heap_pages
  /\ heap_cache \in Seq(1..heap_pages)

FreePages ==
  UNION {{mmap[m].base + p : p \in {q \in DOMAIN mmap[m].available : mmap[m].available[q]}}
         : m \in DOMAIN mmap}

\* "we should have found a free page": the count of a range is that of its bits, so
\* that the search of page_alloc never comes out empty-handed.
CountsBits ==
  \A m \in DOMAIN mmap :
    mmap[m].free = Cardinality({p \in DOMAIN mmap[m].available : mmap[m].available[p]})

\* The pages of the kernel image, the page bitmaps made during boot among them, are
\* never free, and so never handed out.
KernelKept ==
  \A p \in FreePages \cup {kas[i] : i \in DOMAIN kas} :
    p = 0 \/ p < KernelStart \/ p * UnitsPerPage >= nextalloc

\* As long as there is memory, and page_alloc does not return 0, no two heap pages are
\* the same memory, and none is free as well.
HeapPagesDistinct ==
  \A i, j \in 1..heap_pages : kas[i] \notin FreePages /\ (i # j /\ kas[i] # 0 => kas[i] # kas[j])
=============================================================================
