----------------------------- MODULE SlabProofs -----------------------------
(***************************************************************************)
(* The slab allocator, for any number of heap pages, any memory map whose  *)
(* ranges do not overlap, and any sizes of the elements: the steps of the  *)
(* boot, of the program and of the collector preserve SlabInv, so that     *)
(* what the runs check on one heap holds for every memory map, heap, graph *)
(* of objects and order of the program and the collector.                  *)
(***************************************************************************)
EXTENDS MemoryProofs

LEMMA AllocFound ==
  ASSUME SlabInv, Running, NEW t \in Types, Found(t) # {},
         available' = [available EXCEPT ![Slot(t)[1]][Slot(t)[2]] = FALSE],
         UNCHANGED <<first, mmap, heap_cache, heap_pages, kas, nextalloc, boot>>
  PROVE  Allocated(t)
<1>0. /\ PagesInv /\ PagesTyped /\ SlabsListed /\ Bitmaps /\ PointersLive /\ PagesApart /\ Booted /\ gc = "off"
      /\ BitmapsTyped(available) /\ BitmapOfLive(available)
  BY DEF SlabInv, PagesInv, Running, Bitmaps
<1> DEFINE s == FoundSlab(t)
           i == Min(FreeSlots(s))
<1>1. s \in SlabsOf(t) /\ FreeSlots(s) # {}
  <2>1. Found(t) \in SUBSET Nat
    BY <1>0 DEF Found, SlabsListed
  <2>2. Min(Found(t)) \in Found(t)
    BY <2>1, MinOf
  <2> QED
    BY <2>2, Zenon DEF Found, FoundSlab, SlabsOf, Range
<1>2. Slot(t) = <<s, i>>
  BY DEF Slot
<1> HIDE DEF s
<1>3. available[s] \in [SlotsOf(t) -> BOOLEAN] /\ s \in DOMAIN available
  BY <1>0, <1>1, TypeOfSlab DEF BitmapsTyped
<1>4. i \in SlotsOf(t) /\ available[s][i]
  <2>1. FreeSlots(s) \in SUBSET Nat
    BY <1>3, SlotsTyped DEF FreeSlots
  <2>2. i \in FreeSlots(s)
    BY <1>1, <2>1, MinOf
  <2> QED
    BY <1>3, <2>2 DEF FreeSlots
<1> HIDE DEF i
<1>5. /\ DOMAIN available' = DOMAIN available
      /\ available'[s] = [available[s] EXCEPT ![i] = FALSE]
      /\ \A r \in DOMAIN available : r # s => available'[r] = available[r]
  BY <1>2, <1>3
<1>6. PagesInv'
  BY <1>0, PagesKept
<1>7. \A u \in Types : SlabsOf(u)' = SlabsOf(u)
  BY DEF SlabsOf
<1>8. SlabsListed'
  BY <1>0, <1>5 DEF SlabsListed, SlabsOf
<1>9. BitmapsTyped(available)'
  <2>1. \A u \in Types : \A r \in SlabsOf(u) : available'[r] \in [SlotsOf(u) -> BOOLEAN]
    <3> TAKE u \in Types
    <3> TAKE r \in SlabsOf(u)
    <3>1. available[r] \in [SlotsOf(u) -> BOOLEAN] /\ r \in DOMAIN available
      BY <1>0, TypeOfSlab DEF BitmapsTyped
    <3> QED
      BY <1>5, <3>1, Zenon
  <2> QED
    BY <1>5, <1>7, <2>1 DEF BitmapsTyped
<1>10. <<s, i>> \notin live
  BY <1>0, <1>3, <1>4 DEF BitmapOfLive
<1>11. \A r \in DOMAIN available : DOMAIN available'[r] = DOMAIN available[r]
  BY <1>3, <1>5
<1>12. Objects' = Objects /\ <<s, i>> \in Objects
  <2>1. \A x : x \in Objects' <=> x \in Objects
    BY <1>5, <1>11, ObjectIs, ObjectIsNext
  <2> QED
    BY <1>3, <1>4, <2>1, ObjectIs
<1>13. \A r \in DOMAIN available' : \A j \in DOMAIN available'[r] :
         ~available'[r][j] <=> <<r, j>> \in live \cup {<<s, i>>}
  <2> SUFFICES ASSUME NEW r \in DOMAIN available, NEW j \in DOMAIN available[r]
               PROVE  ~available'[r][j] <=> <<r, j>> \in live \cup {<<s, i>>}
    BY <1>5, <1>11, Zenon
  <2>1. <<r, j>> \in live <=> ~available[r][j]
    BY <1>0 DEF BitmapOfLive
  <2>2. available'[r][j] = IF r = s /\ j = i THEN FALSE ELSE available[r][j]
    BY <1>3, <1>4, <1>5, Zenon
  <2> QED
    BY <2>1, <2>2, Zenon
<1>14. Apart(stack, live)
  BY <1>0, <1>5, Zenon DEF Apart, PagesApart
<1>15. heap_pages \in Nat /\ heap_pages' = heap_pages
  BY <1>0, PagesAssumption DEF PagesTyped
<1> QED
  BY <1>1, <1>2, <1>6, <1>7, <1>8, <1>9, <1>10, <1>12, <1>13, <1>14, <1>15 DEF Allocated

LEMMA AllocSlot ==
  ASSUME SlabInv, Running, NEW t \in Types, slab_alloc(t), UNCHANGED <<nextalloc, boot>>
  PROVE  Allocated(t)
BY AllocNew, AllocFound DEF slab_alloc

-----------------------------------------------------------------------------
\* Every step keeps the invariant

LEMMA SlabInit == Init => SlabInv
<1> SUFFICES ASSUME Init PROVE SlabInv
  OBVIOUS
<1>1. PagesInv
  BY PagesInit DEF Init
<1>2. DOMAIN available = {} /\ DOMAIN stack = {} /\ DOMAIN refs = {} /\ live = {} /\ roots = {} /\ gc = "off"
  BY DEF Init
<1>3. \A t \in Types : first[t] = <<>> /\ SlabsOf(t) = {}
  BY DEF Init, SlabsOf, Range
<1>4. SlabsListed
  <2>1. first \in [Types -> Seq(1..heap_pages)]
    BY EmptySeq DEF Init
  <2> QED
    BY <1>2, <1>3, <2>1 DEF SlabsListed, Types
<1>5. Bitmaps
  BY <1>2, <1>3 DEF Bitmaps, BitmapsTyped, BitmapOfLive
<1>6. PointersLive /\ faults = {}
  BY <1>2 DEF PointersLive, Init
<1>7. PagesApart
  <2>1. heap_cache \in Seq(1..heap_pages) /\ DOMAIN heap_cache = {}
    BY EmptySeq DEF Init, InitPages
  <2> QED
    BY <1>2, <2>1 DEF PagesApart
<1> QED
  BY <1>1, <1>4, <1>5, <1>6, <1>7 DEF SlabInv

\* During boot there are no slabs and no threads
LEMMA BootStep ==
  ASSUME SlabInv, arch_init_add \/ arch_init_free, UNCHANGED slabVars
  PROVE  SlabInv'
<1>1. PagesInv' /\ ~Booted /\ heap_pages' = heap_pages /\ heap_cache' = heap_cache
  BY AddPass, FreePass DEF SlabInv, arch_init_add, arch_init_free, Booted
<1>2. SlabsListed' /\ Bitmaps' /\ PointersLive' /\ faults' = {}
  <2>1. SlabsListed'
    BY <1>1 DEF SlabInv, SlabsListed, SlabsOf, slabVars
  <2>2. Bitmaps'
    BY DEF SlabInv, Bitmaps, BitmapsTyped, BitmapOfLive, SlabsOf, slabVars, Forking, Reached, Closed
  <2>3. PointersLive' /\ faults' = {}
    BY DEF SlabInv, PointersLive, Objects, slabVars
  <2> QED
    BY <2>1, <2>2, <2>3
<1>3. PagesApart'
  BY <1>1 DEF SlabInv, PagesApart, Objects, SlabsOf, slabVars
<1> QED
  BY <1>1, <1>2, <1>3 DEF SlabInv

\* Steps that leave pages, slabs and stacks alone, while no collection runs
LEMMA PointerStep ==
  ASSUME SlabInv, Running, UNCHANGED <<pageVars, first, available, finalize, stack, gc, live, faults>>,
         PointersLive'
  PROVE  SlabInv'
<1>1. PagesInv'
  BY PagesKept DEF SlabInv, pageVars
<1>2. SlabsListed'
  BY DEF SlabInv, SlabsListed, SlabsOf, pageVars
<1>3. Bitmaps'
  BY DEF SlabInv, Bitmaps, BitmapsTyped, BitmapOfLive, SlabsOf, Running
<1>4. PagesApart'
  BY DEF SlabInv, PagesApart, Objects, SlabsOf, pageVars, Booted
<1> QED
  BY <1>1, <1>2, <1>3, <1>4 DEF SlabInv

LEMMA ForgetStep ==
  ASSUME SlabInv, NEW x, Forget(x)
  PROVE  SlabInv'
<1>1. PointersLive'
  BY DEF SlabInv, Forget, PointersLive, Objects
<1> QED
  BY <1>1, PointerStep DEF Forget

LEMMA FollowStep ==
  ASSUME SlabInv, NEW x, Follow(x)
  PROVE  SlabInv'
<1>1. PointersLive'
  BY DEF SlabInv, Follow, PointersLive, Objects
<1> QED
  BY <1>1, PointerStep DEF Follow

\* The stacks of threads are in the slabs and pages there are after an allocation
LEMMA StacksKept ==
  ASSUME SlabInv, NEW t \in Types, Allocated(t), NEW x \in DOMAIN stack
  PROVE  x \in Objects' /\ x[1] \in SlabsOf(Threads)' /\ stack[x] \in 1..heap_pages' \cup {NULL}
<1>1. x \in Objects /\ x[1] \in SlabsOf(Threads) /\ stack[x] \in 1..heap_pages \cup {NULL}
  BY DEF SlabInv, PagesApart
<1> QED
  BY <1>1 DEF Allocated, Types

LEMMA NodeStep == ASSUME SlabInv, node_new PROVE SlabInv'
<1> DEFINE x == Slot(Nodes)
<1>0. Nodes \in Types /\ Allocated(Nodes) /\ gc = "off" /\ gc' = "off" /\ ~Forking /\ Booted
  BY AllocSlot DEF node_new, Running, Types
<1>1. PagesInv' /\ SlabsListed'
  BY <1>0 DEF Allocated
<1>2. live' = live \cup {x} /\ roots' = roots \cup {x} /\ stack' = stack /\ boot' = boot
  BY DEF node_new
<1>3. x \notin live /\ x \in Objects' /\ x[1] \in SlabsOf(Nodes)' /\ Objects \subseteq Objects'
  BY <1>0 DEF Allocated
<1>4. Bitmaps'
  <2>1. BitmapsTyped(available)'
    BY <1>0 DEF Allocated
  <2>2. BitmapOfLive(available)'
    BY <1>0, <1>2, Zenon DEF Allocated, BitmapOfLive
  <2> QED
    BY <1>0, <2>1, <2>2 DEF Bitmaps
<1> HIDE DEF x
<1>5. PointersLive'
  <2>0. /\ live \subseteq Objects /\ roots \subseteq live /\ DOMAIN refs \subseteq live
        /\ \A y \in DOMAIN refs : refs[y] \in live
    BY DEF SlabInv, PointersLive
  <2>1. CASE refs' = refs
    BY <1>2, <1>3, <2>0, <2>1 DEF PointersLive
  <2>2. ASSUME NEW y \in roots, refs' = With(refs, x, y)
        PROVE  PointersLive'
    <3>1. DOMAIN refs' = DOMAIN refs \cup {x} /\ \A z \in DOMAIN refs' : refs'[z] = IF z = x THEN y ELSE refs[z]
      BY <2>2 DEF With
    <3> QED
      BY <1>2, <1>3, <2>0, <3>1 DEF PointersLive
  <2> QED
    BY <2>1, <2>2 DEF node_new, x
<1>6. PagesApart'
  <2>1. x \notin DOMAIN stack
    <3>1. SlabsOf(Threads)' \cap SlabsOf(Nodes)' = {}
      BY <1>1 DEF SlabsListed
    <3> QED
      BY <1>0, <1>3, <3>1, StacksKept
  <2>2. \A y \in DOMAIN stack : y \in Objects' /\ y[1] \in SlabsOf(Threads)' /\ stack[y] \in 1..heap_pages' \cup {NULL}
    BY <1>0, StacksKept
  <2>3. live' \cap DOMAIN stack = live \cap DOMAIN stack
    BY <1>2, <2>1
  <2>4. Apart(stack, live) /\ Booted'
    BY <1>0, <1>2 DEF Allocated, Booted
  <2>5. \A y, z \in live \cap DOMAIN stack : stack[y] # NULL /\ stack[z] = stack[y] => z = y
    BY DEF SlabInv, PagesApart
  <2> QED
    BY <1>2, <2>2, <2>3, <2>4, <2>5 DEF PagesApart, Apart
<1>7. faults' = {}
  BY DEF node_new, SlabInv
<1> QED
  BY <1>1, <1>4, <1>5, <1>6, <1>7 DEF SlabInv

LEMMA ThreadStep == ASSUME SlabInv, thread_new PROVE SlabInv'
<1> DEFINE x == Slot(Threads)
<1>0. Threads \in Types /\ Allocated(Threads) /\ gc = "off" /\ gc' = "off" /\ Booted
  BY AllocSlot DEF thread_new, Running, Types
<1>1. PagesInv' /\ SlabsListed'
  BY <1>0 DEF Allocated
<1>2. /\ live' = live \cup {x} /\ roots' = roots \cup {x} /\ refs' = refs /\ boot' = boot
      /\ stack' = With(stack, x, NULL)
  BY DEF thread_new
<1>3. x \notin live /\ x \in Objects' /\ x[1] \in SlabsOf(Threads)' /\ Objects \subseteq Objects'
  BY <1>0 DEF Allocated
<1>4. Bitmaps'
  <2>1. BitmapsTyped(available)'
    BY <1>0 DEF Allocated
  <2>2. BitmapOfLive(available)'
    BY <1>0, <1>2, Zenon DEF Allocated, BitmapOfLive
  <2> QED
    BY <1>0, <2>1, <2>2 DEF Bitmaps
<1> HIDE DEF x
<1>5. PointersLive'
  BY <1>2, <1>3 DEF SlabInv, PointersLive
<1>6. PagesApart'
  <2>1. DOMAIN stack' = DOMAIN stack \cup {x} /\ \A y \in DOMAIN stack' : stack'[y] = IF y = x THEN NULL ELSE stack[y]
    BY <1>2 DEF With
  <2>2. \A y \in DOMAIN stack : y \in Objects' /\ y[1] \in SlabsOf(Threads)' /\ stack[y] \in 1..heap_pages' \cup {NULL}
    BY <1>0, StacksKept
  <2>3. \A y \in live' \cap DOMAIN stack' : stack'[y] # NULL => y \in live \cap DOMAIN stack /\ stack'[y] = stack[y]
    BY <1>2, <2>1
  <2>4. Apart(stack, live) /\ Booted'
    BY <1>0, <1>2 DEF Allocated, Booted
  <2>5. \A y, z \in live \cap DOMAIN stack : stack[y] # NULL /\ stack[z] = stack[y] => z = y
    BY DEF SlabInv, PagesApart
  <2>6. \A y \in DOMAIN stack' : y \in Objects' /\ y[1] \in SlabsOf(Threads)' /\ stack'[y] \in 1..heap_pages' \cup {NULL}
    BY <1>3, <2>1, <2>2
  <2>7. \A y \in live' \cap DOMAIN stack' : stack'[y] # NULL =>
          /\ stack'[y] \notin DOMAIN available'
          /\ \A n \in DOMAIN heap_cache' : heap_cache'[n] # stack'[y]
    BY <2>3, <2>4 DEF Apart
  <2>8. \A y \in live' \cap DOMAIN stack' : stack'[y] # NULL =>
          \A z \in live' \cap DOMAIN stack' : stack'[z] = stack'[y] => z = y
    BY <2>3, <2>5
  <2> QED
    BY <2>4, <2>6, <2>7, <2>8 DEF PagesApart, Apart
<1>7. faults' = {}
  BY DEF thread_new, SlabInv
<1> QED
  BY <1>1, <1>4, <1>5, <1>6, <1>7 DEF SlabInv

\* The thread that gets its stack is the only one without
LEMMA ForkStep == ASSUME SlabInv, NEW x, arch_thread_fork(x) PROVE SlabInv'
<1>0. /\ x \in DOMAIN stack /\ stack[x] = NULL /\ page_heap_alloc
      /\ stack' = [stack EXCEPT ![x] = HeapPage]
      /\ UNCHANGED <<nextalloc, boot, first, available, finalize, roots, refs, gc, live, faults>>
      /\ PagesInv /\ PagesTyped /\ SlabsListed /\ Bitmaps /\ PointersLive /\ PagesApart /\ faults = {}
  BY DEF arch_thread_fork, SlabInv, PagesInv
<1>1. PagesInv'
  <2>1. Booted
    BY <1>0 DEF PagesApart
  <2> QED
    BY <1>0, <2>1, HeapAlloc
<1>2. /\ heap_pages \in Nat /\ heap_pages' \in Nat /\ heap_pages <= heap_pages'
      /\ HeapPage \in 1..heap_pages' /\ HeapPage # NULL
      /\ heap_cache' \in Seq(1..heap_pages')
      /\ \A m, n \in DOMAIN heap_cache' : heap_cache'[m] = heap_cache'[n] => m = n
      /\ \A n \in DOMAIN heap_cache' : heap_cache'[n] # HeapPage /\ \E m \in DOMAIN heap_cache : heap_cache'[n] = heap_cache[m]
      /\ HeapPage \notin DOMAIN available
      /\ \A y \in live \cap DOMAIN stack : stack[y] # NULL => stack[y] # HeapPage
  BY <1>0, HeapPageFresh
<1>3. \A u \in Types : SlabsOf(u)' = SlabsOf(u)
  BY <1>0 DEF SlabsOf
<1>4. SlabsListed'
  <2>1. 1..heap_pages \subseteq 1..heap_pages'
    BY <1>2
  <2>2. \A u \in Types : first[u] \in Seq(1..heap_pages')
    BY <1>0, <2>1, SeqMonotonic, Zenon DEF SlabsListed
  <2>3. first' \in [Types -> Seq(1..heap_pages')]
    BY <1>0, <2>2 DEF SlabsListed
  <2> QED
    BY <1>0, <2>3 DEF SlabsListed, SlabsOf
<1>5. gc = "off"
  BY <1>0 DEF Bitmaps, Forking
<1>6. Bitmaps'
  BY <1>0, <1>3, <1>5 DEF Bitmaps, BitmapsTyped, BitmapOfLive
<1>7. PointersLive' /\ Objects' = Objects
  BY <1>0 DEF PointersLive, Objects
<1> DEFINE p == HeapPage
<1>8. DOMAIN stack' = DOMAIN stack /\ \A y \in DOMAIN stack : stack'[y] = IF y = x THEN p ELSE stack[y]
  BY <1>0
<1>9. PagesApart'
  <2> HIDE DEF p
  <2>1. \A n \in DOMAIN heap_cache' : heap_cache'[n] \notin DOMAIN available'
    BY <1>0, <1>2 DEF PagesApart
  <2>2. \A y \in DOMAIN stack' : /\ y \in Objects' /\ y[1] \in SlabsOf(Threads)'
                                 /\ stack'[y] \in 1..heap_pages' \cup {NULL}
    BY <1>0, <1>2, <1>3, <1>7, <1>8 DEF PagesApart, Types, p
  <2>3. ASSUME NEW y \in live \cap DOMAIN stack, stack'[y] # NULL
        PROVE  /\ stack'[y] \notin DOMAIN available
               /\ \A n \in DOMAIN heap_cache' : heap_cache'[n] # stack'[y]
               /\ \A z \in live \cap DOMAIN stack : stack'[z] = stack'[y] => z = y
    <3>1. CASE y = x
      <4>1. stack'[y] = p
        BY <1>8, <3>1
      <4>2. \A z \in live \cap DOMAIN stack : z # x => stack'[z] = stack[z] /\ stack[z] # p
        BY <1>2, <1>8 DEF p
      <4> QED
        BY <1>2, <3>1, <4>1, <4>2 DEF p
    <3>2. CASE y # x
      <4>1. stack'[y] = stack[y] /\ stack[y] # NULL /\ stack[y] # p
        BY <1>2, <1>8, <2>3, <3>2 DEF p
      <4>2. /\ stack[y] \notin DOMAIN available
            /\ \A n \in DOMAIN heap_cache : heap_cache[n] # stack[y]
            /\ \A z \in live \cap DOMAIN stack : stack[z] = stack[y] => z = y
        BY <1>0, <4>1 DEF PagesApart
      <4> QED
        BY <1>2, <1>8, <4>1, <4>2
    <3> QED
      BY <3>1, <3>2
  <2>4. DOMAIN stack' # {} => Booted'
    BY <1>0, <1>8 DEF PagesApart, Booted
  <2> QED
    BY <1>0, <1>2, <1>8, <2>1, <2>2, <2>3, <2>4 DEF PagesApart
<1> QED
  BY <1>0, <1>1, <1>4, <1>6, <1>7, <1>9 DEF SlabInv

\* slab_free clears the bit of an object that nothing points to
LEMMA FreeStep == ASSUME SlabInv, NEW x, slab_free(x) PROVE SlabInv'
<1>0. /\ Running /\ gc = "off" /\ x \in live /\ x \in roots
      /\ \A y \in DOMAIN refs \cap live : refs[y] # x
      /\ available' = [available EXCEPT ![x[1]][x[2]] = TRUE]
      /\ roots' = roots \ {x} /\ refs' = Without(refs, {x}) /\ live' = live \ {x}
      /\ UNCHANGED <<mmap, nextalloc, boot, heap_cache, heap_pages, kas, first, finalize, stack, gc, faults>>
      /\ PagesInv /\ SlabsListed /\ Bitmaps /\ PointersLive /\ PagesApart /\ faults = {}
      /\ BitmapsTyped(available) /\ BitmapOfLive(available)
  BY DEF slab_free, SlabInv, Running, pageVars, Bitmaps
<1>1. PICK s \in DOMAIN available : \E i \in DOMAIN available[s] : x = <<s, i>>
  BY <1>0, ObjectIs DEF PointersLive
<1>2. PICK i \in DOMAIN available[s] : x = <<s, i>>
  BY <1>1
<1>3. available[s] \in [SlotsOf(TypeOf(s)) -> BOOLEAN]
  BY <1>0, SlabType DEF BitmapsTyped
<1>4. /\ DOMAIN available' = DOMAIN available
      /\ available'[s] = [available[s] EXCEPT ![i] = TRUE]
      /\ \A r \in DOMAIN available : r # s => available'[r] = available[r]
  BY <1>0, <1>2
<1>5. \A r \in DOMAIN available : DOMAIN available'[r] = DOMAIN available[r]
  BY <1>3, <1>4
<1>6. Objects' = Objects
  <2>1. \A y : y \in Objects' <=> y \in Objects
    BY <1>4, <1>5, ObjectIs, ObjectIsNext
  <2> QED
    BY <2>1, Zenon
<1>7. SlabsListed' /\ \A u \in Types : SlabsOf(u)' = SlabsOf(u)
  BY <1>0, <1>4 DEF SlabsListed, SlabsOf
<1>8. Bitmaps'
  <2>1. \A u \in Types : \A r \in SlabsOf(u) : available'[r] \in [SlotsOf(u) -> BOOLEAN]
    <3> TAKE u \in Types
    <3> TAKE r \in SlabsOf(u)
    <3>1. available[r] \in [SlotsOf(u) -> BOOLEAN] /\ r \in DOMAIN available
      BY <1>0, TypeOfSlab DEF BitmapsTyped
    <3>2. CASE r = s
      <4>1. available'[r] = [available[r] EXCEPT ![i] = TRUE]
        BY <1>4, <3>2, Zenon
      <4> QED
        BY <3>1, <4>1
    <3>3. CASE r # s
      BY <1>4, <3>1, <3>3, Zenon
    <3> QED
      BY <3>2, <3>3, Zenon
  <2>2. BitmapsTyped(available)'
    BY <1>4, <1>7, <2>1 DEF BitmapsTyped
  <2>3. BitmapOfLive(available)'
    <3> SUFFICES ASSUME NEW r \in DOMAIN available, NEW j \in DOMAIN available[r]
                 PROVE  <<r, j>> \in live' <=> ~available'[r][j]
      BY <1>4, <1>5, Zenon DEF BitmapOfLive
    <3>1. <<r, j>> \in live <=> ~available[r][j]
      BY <1>0 DEF BitmapOfLive
    <3>2. available'[r][j] = IF r = s /\ j = i THEN TRUE ELSE available[r][j]
      BY <1>3, <1>4, Zenon
    <3>3. <<r, j>> = x <=> r = s /\ j = i
      BY <1>2
    <3> QED
      BY <1>0, <3>1, <3>2, <3>3, Zenon
  <2> QED
    BY <1>0, <2>2, <2>3 DEF Bitmaps
<1>9. PointersLive'
  <2>1. DOMAIN refs' = DOMAIN refs \ {x} /\ \A y \in DOMAIN refs' : refs'[y] = refs[y]
    BY <1>0 DEF Without
  <2> QED
    BY <1>0, <1>6, <2>1 DEF PointersLive
<1>10. PagesApart'
  <2>1. Booted' = Booted
    BY <1>0 DEF Booted
  <2> QED
    BY <1>0, <1>4, <1>6, <1>7, <2>1 DEF PagesApart, Types
<1>11. PagesInv'
  BY <1>0, PagesKept
<1> QED
  BY <1>0, <1>7, <1>8, <1>9, <1>10, <1>11 DEF SlabInv

-----------------------------------------------------------------------------
\* The collector

\* What is reached is the least set that holds the roots and is closed: it holds the
\* roots, it is closed, and it is live
LEMMA ReachedIs ==
  ASSUME PointersLive
  PROVE  /\ roots \subseteq Reached(roots) /\ Reached(roots) \subseteq live
         /\ \A x \in Reached(roots) \cap DOMAIN refs : refs[x] \in Reached(roots)
<1> DEFINE U == roots \cup Range(refs)
<1>1. \A x : x \in Reached(roots) <=> x \in U /\ \A C \in SUBSET U : roots \subseteq C /\ Closed(C) => x \in C
  BY Zenon DEF Reached
<1>2. U \subseteq live
  BY DEF PointersLive, Range
<1>3. roots \subseteq Reached(roots) /\ Reached(roots) \subseteq live
  BY <1>1, <1>2
<1>4. ASSUME NEW x \in Reached(roots) \cap DOMAIN refs
      PROVE  refs[x] \in Reached(roots)
  <2>1. refs[x] \in U
    BY DEF Range
  <2>2. ASSUME NEW C \in SUBSET U, roots \subseteq C, Closed(C)
        PROVE  refs[x] \in C
    <3>1. x \in C
      BY <1>1, <2>2
    <3> QED
      BY <2>2, <3>1 DEF Closed
  <2> HIDE DEF U
  <2> QED
    BY <1>1, <2>1, <2>2
<1> QED
  BY <1>3, <1>4

\* slab_gc_begin: the bits of the allocation go to finalize
LEMMA BeginStep == ASSUME SlabInv, slab_gc_begin PROVE SlabInv'
<1>0. /\ Running /\ gc = "off" /\ ~Forking /\ gc' = "begun"
      /\ available' = [s \in DOMAIN available |-> Bits(TypeOf(s), TRUE)] /\ finalize' = available
      /\ UNCHANGED <<mmap, nextalloc, boot, heap_cache, heap_pages, kas, first, roots, refs, stack, live, faults>>
      /\ PagesInv /\ SlabsListed /\ Bitmaps /\ PointersLive /\ PagesApart /\ faults = {}
      /\ BitmapsTyped(available) /\ BitmapOfLive(available)
  BY DEF slab_gc_begin, SlabInv, Running, pageVars, Bitmaps
<1>1. /\ DOMAIN available' = DOMAIN available
      /\ \A s \in DOMAIN available : available'[s] = [i \in SlotsOf(TypeOf(s)) |-> TRUE]
  BY <1>0 DEF Bits
<1>2. SlabsListed' /\ \A u \in Types : SlabsOf(u)' = SlabsOf(u)
  BY <1>0, <1>1 DEF SlabsListed, SlabsOf
<1>3. \A s \in DOMAIN available : DOMAIN available[s] = SlotsOf(TypeOf(s)) /\ DOMAIN available'[s] = SlotsOf(TypeOf(s))
  BY <1>0, <1>1, SlabType, Zenon DEF BitmapsTyped
<1>4. Objects' = Objects
  <2>1. \A y : y \in Objects' <=> y \in Objects
    BY <1>1, <1>3, ObjectIs, ObjectIsNext
  <2> QED
    BY <2>1
<1>5. Bitmaps'
  <2>1. \A u \in Types : \A s \in SlabsOf(u) : available'[s] \in [SlotsOf(u) -> BOOLEAN]
    <3> TAKE u \in Types
    <3> TAKE s \in SlabsOf(u)
    <3>1. TypeOf(s) = u /\ s \in DOMAIN available
      BY <1>0, TypeOfSlab
    <3>2. available'[s] = [i \in SlotsOf(u) |-> TRUE]
      BY <1>1, <3>1
    <3> QED
      BY <3>2
  <2>2. BitmapsTyped(available)'
    BY <1>1, <1>2, <2>1 DEF BitmapsTyped
  <2>3. BitmapsTyped(finalize)'
    BY <1>0, <1>1, <1>2 DEF BitmapsTyped
  <2>4. BitmapOfLive(finalize)'
    BY <1>0, Zenon DEF BitmapOfLive
  <2>5. ~Forking'
    BY <1>0 DEF Forking
  <2>6. \A s \in DOMAIN available' : \A i \in DOMAIN available'[s] : available'[s][i]
    BY <1>1
  <2> QED
    BY <1>0, <2>2, <2>3, <2>4, <2>5, <2>6, Zenon DEF Bitmaps
<1>6. PointersLive'
  BY <1>0, <1>4 DEF PointersLive
<1>7. PagesApart'
  <2>1. Booted' = Booted
    BY <1>0 DEF Booted
  <2> QED
    BY <1>0, <1>1, <1>2, <1>4, <2>1 DEF PagesApart, Types
<1>8. PagesInv'
  BY <1>0, PagesKept
<1> QED
  BY <1>0, <1>2, <1>5, <1>6, <1>7, <1>8 DEF SlabInv

\* slab_gc_mark clears the bits of what is reached
LEMMA MarkStep == ASSUME SlabInv, slab_gc_mark PROVE SlabInv'
<1>0. /\ gc = "begun" /\ gc' = "marked"
      /\ available' = [s \in DOMAIN available |->
                         [i \in DOMAIN available[s] |-> available[s][i] /\ <<s, i>> \notin Marked]]
      /\ UNCHANGED <<mmap, nextalloc, boot, heap_cache, heap_pages, kas, first, finalize, roots, refs, stack, live, faults>>
      /\ PagesInv /\ SlabsListed /\ Bitmaps /\ PointersLive /\ PagesApart /\ faults = {}
      /\ BitmapsTyped(available) /\ BitmapsTyped(finalize) /\ BitmapOfLive(finalize) /\ ~Forking
      /\ \A s \in DOMAIN available : \A i \in DOMAIN available[s] : available[s][i]
  BY DEF slab_gc_mark, SlabInv, pageVars, Bitmaps
<1>1. /\ DOMAIN available' = DOMAIN available
      /\ \A s \in DOMAIN available : DOMAIN available'[s] = DOMAIN available[s]
      /\ \A s \in DOMAIN available : \A i \in DOMAIN available[s] : available'[s][i] = (<<s, i>> \notin Marked)
      /\ \A s \in DOMAIN available : available'[s] \in [DOMAIN available[s] -> BOOLEAN]
  BY <1>0
<1>2. SlabsListed' /\ \A u \in Types : SlabsOf(u)' = SlabsOf(u)
  BY <1>0, <1>1 DEF SlabsListed, SlabsOf
<1>3. Objects' = Objects
  <2>1. \A y : y \in Objects' <=> y \in Objects
    BY <1>1, ObjectIs, ObjectIsNext
  <2> QED
    BY <2>1
<1>4. Bitmaps'
  <2>1. \A u \in Types : \A s \in SlabsOf(u) : available'[s] \in [SlotsOf(u) -> BOOLEAN]
    <3> TAKE u \in Types
    <3> TAKE s \in SlabsOf(u)
    <3>1. available[s] \in [SlotsOf(u) -> BOOLEAN] /\ s \in DOMAIN available
      BY <1>0, TypeOfSlab DEF BitmapsTyped
    <3>2. DOMAIN available[s] = SlotsOf(u)
      BY <3>1
    <3> QED
      BY <1>1, <3>1, <3>2
  <2>2. BitmapsTyped(available)'
    BY <1>1, <1>2, <2>1 DEF BitmapsTyped
  <2>3. BitmapsTyped(finalize)' /\ BitmapOfLive(finalize)'
    BY <1>0, <1>1, <1>2 DEF BitmapsTyped, BitmapOfLive
  <2>4. ~Forking'
    BY <1>0 DEF Forking
  <2>5. Reached(roots)' = Marked
    BY <1>0 DEF Reached, Closed, Marked
  <2> QED
    BY <1>0, <1>1, <2>2, <2>3, <2>4, <2>5, Zenon DEF Bitmaps
<1>5. PointersLive'
  BY <1>0, <1>3 DEF PointersLive
<1>6. PagesApart'
  <2>1. Booted' = Booted
    BY <1>0 DEF Booted
  <2> QED
    BY <1>0, <1>1, <1>2, <1>3, <2>1 DEF PagesApart, Types
<1>7. PagesInv'
  BY <1>0, PagesKept
<1> QED
  BY <1>0, <1>2, <1>4, <1>5, <1>6, <1>7 DEF SlabInv

\* There are finitely many objects: slots of heap pages
LEMMA ObjectsFinite ==
  ASSUME PagesTyped, SlabsListed, BitmapsTyped(available)
  PROVE  IsFiniteSet(Objects)
<1> DEFINE a == SlotCount(Esize[Threads])
           b == SlotCount(Esize[Nodes])
<1>1. Threads \in Types /\ Nodes \in Types
  BY DEF Types
<1>2. a \in Nat \ {0} /\ b \in Nat \ {0}
  BY <1>1, SlotsTyped
<1>3. IsFiniteSet((1..heap_pages) \X (0..a + b))
  <2>1. IsFiniteSet(1..heap_pages) /\ IsFiniteSet(0..a + b)
    BY <1>2, PagesAssumption, FS_Interval DEF PagesTyped
  <2> QED
    BY <2>1, FS_Product, Zenon
<1>4. Objects \subseteq (1..heap_pages) \X (0..a + b)
  <2> SUFFICES ASSUME NEW s \in DOMAIN available, NEW i \in DOMAIN available[s]
               PROVE  s \in 1..heap_pages /\ i \in 0..a + b
    BY ObjectIs
  <2>1. PICK t \in Types : s \in SlabsOf(t)
    BY SlabType
  <2>2. s \in 1..heap_pages
    <3>1. first[t] \in Seq(1..heap_pages)
      BY DEF SlabsListed
    <3> QED
      BY <2>1, <3>1, ElementOfSeq, LenProperties, Zenon DEF SlabsOf, Range
  <2>3. i \in SlotsOf(t)
    BY <2>1 DEF BitmapsTyped
  <2>4. i \in 0..a - 1 \/ i \in 0..b - 1
    BY <2>3 DEF SlotsOf, Types
  <2> HIDE DEF a, b
  <2> QED
    BY <1>2, <2>2, <2>4
<1> QED
  BY <1>3, <1>4, FS_Subset

\* A sweep meets every thread once
LEMMA SweepsOnce ==
  ASSUME SlabsListed, NEW X \in SUBSET ((1..heap_pages) \X Nat), IsFiniteSet(X), NEW s \in Sweeps(X)
  PROVE  /\ s \in Seq(X) /\ \A i, j \in 1..Len(s) : s[i] = s[j] => i = j
<1>1. Cardinality(X) \in Nat /\ s \in [1..Cardinality(X) -> X]
  BY FS_CardinalityType DEF Sweeps
<1>2. s \in Seq(X) /\ Len(s) = Cardinality(X)
  BY <1>1, SeqOf
<1>3. \A x \in X : ~Before(x, x)
  <2> SUFFICES ASSUME NEW x \in X, Before(x, x) PROVE FALSE
    OBVIOUS
  <2>1. PICK m, n \in DOMAIN first[Threads] :
          /\ first[Threads][m] = x[1] /\ first[Threads][n] = x[1]
          /\ m < n \/ (m = n /\ x[2] < x[2])
    BY DEF Before
  <2>2. m = n /\ m \in Nat
    BY <2>1 DEF SlabsListed, Types
  <2>3. x[2] \in Nat
    OBVIOUS
  <2> QED
    BY <2>1, <2>2, <2>3
<1>4. \A i, j \in 1..Len(s) : i < j => s[i] # s[j]
  <2> SUFFICES ASSUME NEW i \in 1..Len(s), NEW j \in 1..Len(s), i < j, s[i] = s[j] PROVE FALSE
    OBVIOUS
  <2>1. Before(s[i], s[j]) /\ s[i] \in X
    BY <1>1, <1>2 DEF Sweeps
  <2> QED
    BY <1>3, <2>1
<1>5. \A i, j \in 1..Len(s) : i # j => i < j \/ j < i
  BY <1>1, <1>2
<1> QED
  BY <1>2, <1>4, <1>5

\* slab_gc_end: what was not marked, and had been allocated, is finalized and free, and
\* the stacks of the threads among them go to the cache
LEMMA EndStep == ASSUME SlabInv, slab_gc_end PROVE SlabInv'
<1> DEFINE R == Reached(roots)
           F == FinalizedThreads
           dead == {x \in live : available[x[1]][x[2]]}
           X == F \cap DOMAIN stack
<1>0. /\ gc = "marked" /\ gc' = "off"
      /\ \E s \in Sweeps(X) : heap_cache' = FreeStacks(s)
      /\ faults' = faults \cup (F \ live) /\ live' = (live \ F) \ dead /\ refs' = Without(refs, dead)
      /\ UNCHANGED <<mmap, nextalloc, boot, heap_pages, kas, first, available, roots, stack>>
  BY DEF slab_gc_end
<1>1. /\ PagesInv /\ PagesTyped /\ SlabsListed /\ PointersLive /\ PagesApart /\ faults = {}
      /\ BitmapsTyped(available) /\ BitmapsTyped(finalize) /\ BitmapOfLive(finalize) /\ ~Forking
      /\ \A s \in DOMAIN available : \A i \in DOMAIN available[s] : available[s][i] <=> <<s, i>> \notin R
  BY <1>0 DEF SlabInv, PagesInv, Bitmaps
<1>2. /\ roots \subseteq R /\ R \subseteq live /\ live \subseteq Objects
      /\ \A x \in R \cap DOMAIN refs : refs[x] \in R
  BY <1>1, ReachedIs DEF PointersLive
<1> HIDE DEF R
<1>3. ASSUME NEW x \in Objects
      PROVE  /\ available[x[1]][x[2]] <=> x \notin R
             /\ x[2] \in Finalized(x[1]) <=> x \in live /\ x \notin R
  <2>1. PICK s \in DOMAIN available : \E i \in DOMAIN available[s] : x = <<s, i>>
    BY ObjectIs
  <2>2. PICK i \in DOMAIN available[s] : x = <<s, i>>
    BY <2>1
  <2>3. PICK t \in Types : s \in SlabsOf(t)
    BY <1>1, SlabType
  <2>4. available[s] \in [SlotsOf(t) -> BOOLEAN] /\ finalize[s] \in [SlotsOf(t) -> BOOLEAN] /\ s \in DOMAIN finalize
    BY <1>1, <2>3 DEF BitmapsTyped
  <2>5. i \in DOMAIN finalize[s] /\ available[s][i] \in BOOLEAN /\ finalize[s][i] \in BOOLEAN
    BY <2>2, <2>4
  <2>6. (available[s][i] <=> x \notin R) /\ (finalize[s][i] <=> x \notin live)
    BY <1>1, <2>2, <2>4, <2>5 DEF BitmapOfLive
  <2>7. finalize[s][i] # available[s][i] <=> x \in live /\ x \notin R
    BY <1>2, <2>5, <2>6
  <2> QED
    BY <2>2, <2>6, <2>7 DEF Finalized
<1>4. F \subseteq live \ R /\ F \subseteq Objects
  BY <1>3 DEF FinalizedThreads
<1>5. dead = live \ R
  BY <1>2, <1>3
<1>6. live' = R /\ faults' = {}
  BY <1>0, <1>1, <1>2, <1>4, <1>5
<1> HIDE DEF F, dead
<1>7. Objects' = Objects /\ SlabsListed' /\ BitmapsTyped(available)' /\ \A u \in Types : SlabsOf(u)' = SlabsOf(u)
  <2>1. UNCHANGED <<first, available, heap_pages>>
    BY <1>0
  <2>2. SlabsListed' /\ BitmapsTyped(available)' /\ \A u \in Types : SlabsOf(u)' = SlabsOf(u)
    BY <1>1, <2>1 DEF SlabsListed, BitmapsTyped, SlabsOf
  <2> QED
    BY <2>1, <2>2 DEF Objects
<1>8. Bitmaps'
  <2>1. BitmapOfLive(available)'
    BY <1>0, <1>1, <1>6, Zenon DEF BitmapOfLive
  <2> QED
    BY <1>0, <1>7, <2>1 DEF Bitmaps
<1>9. PointersLive'
  <2>1. DOMAIN refs' = DOMAIN refs \ dead /\ \A x \in DOMAIN refs' : refs'[x] = refs[x]
    BY <1>0 DEF Without
  <2>2. DOMAIN refs' \subseteq R
    BY <1>1, <1>5, <2>1 DEF PointersLive
  <2> QED
    BY <1>0, <1>2, <1>6, <1>7, <2>1, <2>2 DEF PointersLive
<1>10. PICK s \in Sweeps(X) : heap_cache' = FreeStacks(s)
  BY <1>0
<1>11. s \in Seq(X) /\ \A i, j \in 1..Len(s) : s[i] = s[j] => i = j
  <2>1. X \subseteq Objects /\ IsFiniteSet(X)
    BY <1>1, <1>4, ObjectsFinite, FS_Subset
  <2>2. Objects \subseteq (1..heap_pages) \X Nat
    <3> SUFFICES ASSUME NEW r \in DOMAIN available, NEW i \in DOMAIN available[r]
                 PROVE  r \in 1..heap_pages /\ i \in Nat
      BY ObjectIs
    <3>1. PICK t \in Types : r \in SlabsOf(t)
      BY <1>1, SlabType
    <3>2. first[t] \in Seq(1..heap_pages)
      BY <1>1 DEF SlabsListed
    <3>3. i \in SlotsOf(t)
      BY <1>1, <3>1 DEF BitmapsTyped
    <3>4. r \in 1..heap_pages
      BY <3>1, <3>2, ElementOfSeq, LenProperties, Zenon DEF SlabsOf, Range
    <3> QED
      BY <3>3, <3>4, SlotsTyped
  <2> HIDE DEF X
  <2> QED
    BY <1>1, <1>10, <2>1, <2>2, SweepsOnce
<1>12. \A x \in X : /\ x \in live \cap DOMAIN stack /\ x \notin R
                    /\ stack[x] # NULL /\ stack[x] \in 1..heap_pages
  BY <1>1, <1>4 DEF PagesApart, Forking
<1> HIDE DEF X
<1> DEFINE l == Len(s)
           g == [n \in 1..l |-> stack[s[l + 1 - n]]]
<1>13. l \in Nat /\ \A n \in 1..l : l + 1 - n \in 1..l /\ s[l + 1 - n] \in X
  <2>1. l \in Nat /\ \A n \in 1..l : s[n] \in X
    BY <1>11, LenProperties, ElementOfSeq
  <2> HIDE DEF l
  <2> QED
    BY <2>1
<1>14. /\ g \in Seq(1..heap_pages) /\ DOMAIN g = 1..l
       /\ \A n \in DOMAIN g : g[n] = stack[s[l + 1 - n]]
       /\ heap_cache' = g \o heap_cache
  <2>1. g \in [1..l -> 1..heap_pages]
    BY <1>12, <1>13
  <2> QED
    BY <1>10, <1>13, <2>1, SeqOf, Zenon DEF FreeStacks
<1> HIDE DEF l, g
<1>15. \A m, n \in DOMAIN g : g[m] = g[n] => m = n
  <2> SUFFICES ASSUME NEW m \in 1..l, NEW n \in 1..l, stack[s[l + 1 - m]] = stack[s[l + 1 - n]]
               PROVE  m = n
    BY <1>14
  <2>1. s[l + 1 - m] \in X /\ s[l + 1 - n] \in X /\ l + 1 - m \in 1..l /\ l + 1 - n \in 1..l
    BY <1>13
  <2>2. s[l + 1 - m] = s[l + 1 - n]
    BY <1>1, <1>12, <2>1 DEF PagesApart
  <2>3. l + 1 - m = l + 1 - n
    BY <1>11, <2>1, <2>2 DEF l
  <2> QED
    BY <1>13, <2>3
<1>16. \A m \in DOMAIN g : /\ g[m] \notin DOMAIN available
                           /\ \A n \in DOMAIN heap_cache : g[m] # heap_cache[n]
                           /\ \A y \in R \cap DOMAIN stack : stack[y] # NULL => g[m] # stack[y]
  <2> SUFFICES ASSUME NEW m \in 1..l
               PROVE  /\ stack[s[l + 1 - m]] \notin DOMAIN available
                      /\ \A n \in DOMAIN heap_cache : stack[s[l + 1 - m]] # heap_cache[n]
                      /\ \A y \in R \cap DOMAIN stack : stack[y] # NULL => stack[s[l + 1 - m]] # stack[y]
    BY <1>14
  <2> DEFINE x == s[l + 1 - m]
  <2>1. x \in live \cap DOMAIN stack /\ x \notin R /\ stack[x] # NULL
    BY <1>12, <1>13
  <2> HIDE DEF x
  <2>2. /\ stack[x] \notin DOMAIN available
        /\ \A n \in DOMAIN heap_cache : heap_cache[n] # stack[x]
        /\ \A y \in live \cap DOMAIN stack : stack[y] = stack[x] => y = x
    BY <1>1, <2>1 DEF PagesApart
  <2>3. \A y \in R \cap DOMAIN stack : stack[x] # stack[y]
    BY <1>2, <2>1, <2>2
  <2> QED
    BY <2>2, <2>3 DEF x
<1>17. /\ heap_cache' \in Seq(1..heap_pages)
       /\ \A m, n \in DOMAIN heap_cache' : heap_cache'[m] = heap_cache'[n] => m = n
       /\ \A n \in DOMAIN heap_cache' : \/ \E m \in DOMAIN g : heap_cache'[n] = g[m]
                                        \/ \E m \in DOMAIN heap_cache : heap_cache'[n] = heap_cache[m]
  <2> DEFINE S == 1..heap_pages
             c == heap_cache
  <2>1. /\ g \in Seq(S) /\ c \in Seq(S) /\ \A m, n \in DOMAIN c : c[m] = c[n] => m = n
        /\ \A m \in DOMAIN g : \A n \in DOMAIN c : g[m] # c[n]
    BY <1>1, <1>14, <1>16 DEF PagesApart
  <2> HIDE DEF S, c
  <2>2. /\ g \o c \in Seq(S)
        /\ \A m, n \in DOMAIN (g \o c) : (g \o c)[m] = (g \o c)[n] => m = n
        /\ \A n \in DOMAIN (g \o c) : \/ \E m \in DOMAIN g : (g \o c)[n] = g[m]
                                      \/ \E m \in DOMAIN c : (g \o c)[n] = c[m]
    BY <1>15, <2>1, Concatenated
  <2> QED
    BY <1>14, <2>2, Zenon DEF S, c
<1>18. PagesApart'
  <2>1. \A n \in DOMAIN heap_cache' : heap_cache'[n] \notin DOMAIN available
    BY <1>1, <1>16, <1>17, Zenon DEF PagesApart
  <2>2. ASSUME NEW y \in R \cap DOMAIN stack, stack[y] # NULL
        PROVE  /\ stack[y] \notin DOMAIN available
               /\ \A n \in DOMAIN heap_cache' : heap_cache'[n] # stack[y]
               /\ \A z \in R \cap DOMAIN stack : stack[z] = stack[y] => z = y
    <3>1. /\ stack[y] \notin DOMAIN available
          /\ \A n \in DOMAIN heap_cache : heap_cache[n] # stack[y]
          /\ \A z \in live \cap DOMAIN stack : stack[z] = stack[y] => z = y
      BY <1>1, <1>2, <2>2 DEF PagesApart
    <3>2. \A n \in DOMAIN heap_cache' : heap_cache'[n] # stack[y]
      BY <1>16, <1>17, <2>2, <3>1, Zenon
    <3> QED
      BY <1>2, <3>1, <3>2, Zenon
  <2>3. \A x \in DOMAIN stack : /\ x \in Objects /\ x[1] \in SlabsOf(Threads)
                                /\ stack[x] \in 1..heap_pages \cup {NULL}
    BY <1>1 DEF PagesApart
  <2>4. DOMAIN stack' # {} => Booted'
    BY <1>0, <1>1 DEF PagesApart, Booted
  <2>5. SlabsOf(Threads)' = SlabsOf(Threads)
    BY <1>7 DEF Types
  <2>6. UNCHANGED <<available, stack, heap_pages, Objects>> /\ live' = R
    BY <1>0, <1>6, <1>7
  <2>7. \A x \in DOMAIN stack' : /\ x \in Objects' /\ x[1] \in SlabsOf(Threads)'
                                 /\ stack'[x] \in 1..heap_pages' \cup {NULL}
    BY <2>3, <2>5, <2>6, Zenon
  <2>8. \A x \in live' \cap DOMAIN stack' : stack'[x] # NULL =>
          /\ stack'[x] \notin DOMAIN available'
          /\ \A n \in DOMAIN heap_cache' : heap_cache'[n] # stack'[x]
          /\ \A y \in live' \cap DOMAIN stack' : stack'[y] = stack'[x] => y = x
    BY <2>2, <2>6, Zenon
  <2>9. /\ heap_cache' \in Seq(1..heap_pages') /\ \A m, n \in DOMAIN heap_cache' : heap_cache'[m] = heap_cache'[n] => m = n
        /\ \A n \in DOMAIN heap_cache' : heap_cache'[n] \notin DOMAIN available'
    BY <1>17, <2>1, <2>6, Zenon
  <2> QED
    BY <2>4, <2>7, <2>8, <2>9, Zenon DEF PagesApart
<1>19. PagesInv'
  BY <1>0, <1>1, PagesKept
<1> QED
  BY <1>6, <1>7, <1>8, <1>9, <1>18, <1>19 DEF SlabInv

LEMMA StutterStep == ASSUME SlabInv, UNCHANGED vars PROVE SlabInv'
<1>1. UNCHANGED <<mmap, nextalloc, boot, heap_cache, heap_pages, kas>> /\ UNCHANGED slabVars
  BY DEF vars, pageVars, slabVars
<1>2. PagesInv'
  BY <1>1, PagesKept DEF SlabInv
<1>3. SlabsListed'
  BY <1>1 DEF SlabInv, SlabsListed, SlabsOf, slabVars
<1>4. Bitmaps'
  BY <1>1, Zenon DEF SlabInv, Bitmaps, BitmapsTyped, BitmapOfLive, SlabsOf, slabVars, Forking, Reached, Closed
<1>5. PointersLive' /\ faults' = {}
  BY <1>1 DEF SlabInv, PointersLive, Objects, slabVars
<1>6. PagesApart'
  BY <1>1 DEF SlabInv, PagesApart, Objects, SlabsOf, slabVars, Booted
<1> QED
  BY <1>2, <1>3, <1>4, <1>5, <1>6 DEF SlabInv

LEMMA SlabStep == SlabInv /\ [Next]_vars => SlabInv'
<1> SUFFICES ASSUME SlabInv, [Next]_vars PROVE SlabInv'
  OBVIOUS
<1>1. CASE (arch_init_add \/ arch_init_free) /\ UNCHANGED slabVars
  BY <1>1, BootStep
<1>2. CASE node_new
  BY <1>2, NodeStep
<1>3. CASE thread_new
  BY <1>3, ThreadStep
<1>4. ASSUME NEW x \in Objects, arch_thread_fork(x) \/ slab_free(x) \/ Forget(x) \/ Follow(x)
      PROVE  SlabInv'
  BY <1>4, ForkStep, FreeStep, ForgetStep, FollowStep, Zenon
<1>5. CASE slab_gc_begin
  BY <1>5, BeginStep
<1>6. CASE slab_gc_mark
  BY <1>6, MarkStep
<1>7. CASE slab_gc_end
  BY <1>7, EndStep
<1>8. CASE UNCHANGED vars
  BY <1>8, StutterStep
<1> QED
  BY <1>1, <1>2, <1>3, <1>4, <1>5, <1>6, <1>7, <1>8, Zenon DEF Next

\* The allocator's bitmaps, lists and pages are as SlabInv says at every step of the boot,
\* of the program and of a collection.
THEOREM SlabInvariance == Spec => []SlabInv
<1>1. Init => SlabInv
  BY SlabInit
<1>2. SlabInv /\ [Next]_vars => SlabInv'
  BY SlabStep
<1> QED
  BY <1>1, <1>2, PTL DEF Spec

\* page_alloc never comes out of its search empty-handed: for any memory map, the count of
\* a range is the number of its bits that are set.
THEOREM CountsBitsCorrect == Spec => []CountsBits
<1>1. SlabInv => CountsBits
  BY DEF SlabInv, PagesInv
<1> QED
  BY <1>1, SlabInvariance, PTL

\* arch_init frees no page of the kernel, whose bitmaps grow while it reads the map, and
\* page_alloc hands none out: for any memory map, and any place and size of the image.
THEOREM KernelKeptCorrect == Spec => []KernelKept
<1>1. SlabInv => KernelKept
  BY DEF SlabInv, PagesInv
<1> QED
  BY <1>1, SlabInvariance, PTL

\* page_alloc gives every heap page memory of its own, as long as there is memory.
THEOREM HeapPagesDistinctCorrect == Spec => []HeapPagesDistinct
<1>1. SlabInv => HeapPagesDistinct
  BY DEF SlabInv, PagesInv
<1> QED
  BY <1>1, SlabInvariance, PTL

\* No collection frees or finalizes what the program can still reach, and slab_alloc never
\* hands out a slot that is in use: for any graph of objects.
THEOREM ReachableKeptCorrect == Spec => []ReachableKept
<1>1. SlabInv => ReachableKept
  <2> SUFFICES ASSUME SlabInv, gc = "off"
               PROVE  Reached(roots) \subseteq live /\ \A x \in live : ~available[x[1]][x[2]]
    BY DEF ReachableKept
  <2>1. PointersLive /\ BitmapOfLive(available)
    BY DEF SlabInv, Bitmaps
  <2>2. ASSUME NEW x \in live PROVE ~available[x[1]][x[2]]
    <3>1. PICK s \in DOMAIN available : \E i \in DOMAIN available[s] : x = <<s, i>>
      BY <2>1, ObjectIs DEF PointersLive
    <3> QED
      BY <2>1, <3>1 DEF BitmapOfLive
  <2> QED
    BY <2>1, <2>2, ReachedIs
<1> QED
  BY <1>1, SlabInvariance, PTL

\* slab_finalize calls the finalizer for live objects only, so once for each of them.
THEOREM FinalizedOnceCorrect == Spec => []FinalizedOnce
<1>1. SlabInv => FinalizedOnce
  BY DEF SlabInv, FinalizedOnce
<1> QED
  BY <1>1, SlabInvariance, PTL

\* A heap page is a slab, the stack of a thread, or once in the cache, and never two of
\* these, whatever the program allocates, frees and drops.
THEOREM OneUseCorrect == Spec => []OneUse
<1>1. SlabInv => OneUse
  <2> SUFFICES ASSUME SlabInv PROVE OneUse
    OBVIOUS
  <2>0. /\ PagesInv /\ PagesTyped /\ RangesTyped /\ CountsBits /\ SlabsListed /\ Bitmaps /\ PointersLive /\ PagesApart
        /\ BitmapsTyped(available)
    BY DEF SlabInv, PagesInv, Bitmaps
  <2>1. PagesTypeOK
    <3>1. ASSUME NEW m \in DOMAIN mmap
          PROVE  /\ mmap[m].free \in 0..mmap[m].count
                 /\ mmap[m].available \in [0..mmap[m].count - 1 -> BOOLEAN]
      <4>1. /\ mmap[m].count \in Nat /\ mmap[m].free \in Nat
            /\ mmap[m].available \in [0..mmap[m].count - 1 -> BOOLEAN]
        BY <2>0, RangeTyped
      <4>2. mmap[m].free = Cardinality(PageBits(m)) /\ PageBits(m) \in SUBSET (0..mmap[m].count - 1)
        BY <2>0, BitsFinite, Zenon DEF CountsBits, PageBits
      <4> DEFINE n == mmap[m].count
      <4>3. IsFiniteSet(0..n - 1) /\ Cardinality(0..n - 1) = n
        <5>1. n \in Nat /\ n - 1 \in Int
          BY <4>1
        <5> HIDE DEF n
        <5>2. IsFiniteSet(0..n - 1) /\ Cardinality(0..n - 1) = IF 0 > n - 1 THEN 0 ELSE (n - 1) - 0 + 1
          BY <5>1, FS_Interval
        <5> QED
          BY <5>1, <5>2
      <4>4. Cardinality(PageBits(m)) <= n
        BY <4>2, <4>3, FS_Subset, Zenon
      <4> QED
        BY <4>1, <4>2, <4>4
    <3> QED
      BY <2>0, <3>1 DEF PagesTypeOK, PagesTyped, PagesApart
  <2>2. TypeOK
    <3>1. \A t \in Types : first[t] \in Seq(1..heap_pages)
      BY <2>0 DEF SlabsListed
    <3>2. DOMAIN available \subseteq 1..heap_pages
      <4>1. \A t \in Types : SlabsOf(t) \subseteq 1..heap_pages
        <5> TAKE t \in Types
        <5> QED
          BY <3>1, ElementOfSeq, LenProperties, Zenon DEF SlabsOf, Range
      <4> QED
        BY <2>0, <4>1 DEF SlabsListed, Types
    <3>3. \A s \in DOMAIN available : available[s] \in [SlotsOf(TypeOf(s)) -> BOOLEAN]
      BY <2>0, SlabType DEF BitmapsTyped
    <3>4. gc \in {"off", "begun", "marked"} /\ live \subseteq Objects /\ DOMAIN stack \subseteq Objects
      BY <2>0 DEF Bitmaps, PointersLive, PagesApart
    <3> QED
      BY <2>1, <3>1, <3>2, <3>3, <3>4 DEF TypeOK
  <2> DEFINE cached == {heap_cache[n] : n \in DOMAIN heap_cache}
  <2>3. Cardinality(cached) = Len(heap_cache)
    <3>1. heap_cache \in Seq(1..heap_pages) /\ DOMAIN heap_cache = 1..Len(heap_cache) /\ Len(heap_cache) \in Nat
      BY <2>0, LenProperties, Zenon DEF PagesApart
    <3>2. heap_cache \in [1..Len(heap_cache) -> cached]
      BY <3>1
    <3>3. heap_cache \in Bijection(1..Len(heap_cache), cached)
      BY <2>0, <3>1, <3>2 DEF PagesApart, Bijection, Injection, Surjection, IsInjective
    <3>4. ExistsBijection(1..Len(heap_cache), cached)
      BY <3>3 DEF ExistsBijection
    <3> QED
      BY <3>1, <3>4, FS_CountingElements
  <2>4. \A x \in live \cap DOMAIN stack : stack[x] # NULL =>
          /\ stack[x] \notin cached \cup DOMAIN available
          /\ \A y \in live \cap DOMAIN stack : x # y => stack[x] # stack[y]
    <3> TAKE x \in live \cap DOMAIN stack
    <3> HAVE stack[x] # NULL
    <3>1. /\ stack[x] \notin DOMAIN available /\ \A n \in DOMAIN heap_cache : heap_cache[n] # stack[x]
          /\ \A y \in live \cap DOMAIN stack : stack[y] = stack[x] => y = x
      BY <2>0, Zenon DEF PagesApart
    <3> QED
      BY <3>1, Zenon
  <2>5. cached \cap DOMAIN available = {}
    BY <2>0 DEF PagesApart
  <2> QED
    BY <2>2, <2>3, <2>4, <2>5 DEF OneUse
<1> QED
  BY <1>1, SlabInvariance, PTL
=============================================================================
