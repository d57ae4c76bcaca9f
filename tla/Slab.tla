-------------------------------- MODULE Slab --------------------------------
(***************************************************************************)
(* The slab allocator and the mark and sweep collector of libk/slab.c on   *)
(* the heap pages of Pages, with thread_gc of kernel/thread.c.  An object  *)
(* is a slot <<slab, i>> of a slab, and a slab is a heap page.  Threads    *)
(* own a heap page as their stack, which their finalizer gives back.  The  *)
(* program that uses the allocator holds pointers in its roots and in the  *)
(* objects; a collection runs with interrupts off, from begin to end.      *)
(***************************************************************************)
EXTENDS Pages, SlabLayout, ListOps

CONSTANTS
  Threads,  \* the slab type of threads: it has a finalizer
  Nodes,    \* the slab type of tree nodes: it has none, and uses slab_free
  Esize,    \* esize of each slab type
  NULL

VARIABLES
  first,      \* type->first: the slabs of each type
  available,  \* slab->available: the slots of each slab that are free, or not marked
  finalize,   \* slab->finalize, during a collection: available as it was before
  roots,      \* objects the program can name: registered roots, stacks
  refs,       \* the object each object points to
  stack,      \* the stack page of each thread
  gc,         \* "off", "begun" or "marked"
  live,       \* history: objects allocated and not yet freed or finalized
  faults      \* history: objects finalized that were not live

slabVars == <<first, available, finalize, roots, refs, stack, gc, live, faults>>
vars == <<pageVars, slabVars>>

Types == {Threads, Nodes}

ASSUME SlabAssumption ==
  /\ Threads # Nodes /\ NULL \notin 1..MaxHeap
  /\ Esize \in [Types -> 1..ARCH_PAGE_SIZE] /\ \A t \in Types : SlotCount(Esize[t]) > 0

SlotsOf(t) == 0..SlotCount(Esize[t]) - 1
Objects == UNION {{<<s, i>> : i \in DOMAIN available[s]} : s \in DOMAIN available}

\* f with x mapped to v, and f without x
With(f, x, v) == [y \in DOMAIN f \cup {x} |-> IF y = x THEN v ELSE f[y]]
Without(f, X) == [y \in DOMAIN f \ X |-> f[y]]

Bits(t, b) == [i \in SlotsOf(t) |-> b]
SlabsOf(t) == Range(first[t])
TypeOf(s) == CHOOSE t \in Types : s \in SlabsOf(t)

Init ==
  /\ InitPages
  /\ first = [t \in Types |-> <<>>]
  /\ available = <<>> /\ finalize = <<>>
  /\ roots = {} /\ refs = <<>> /\ stack = <<>>
  /\ gc = "off"
  /\ live = {} /\ faults = {}

\* Objects reached from a set of objects: those in every set that holds these and what
\* its members point to
Closed(C) == \A x \in C \cap DOMAIN refs : refs[x] \in C
Reached(S) ==
  {x \in S \cup Range(refs) : \A C \in SUBSET (S \cup Range(refs)) : S \subseteq C /\ Closed(C) => x \in C}

FreeSlots(s) == {i \in DOMAIN available[s] : available[s][i]}

\* The slot slab_alloc finds: the first one of the first slab that has one, or
\* the first one of a new slab
Found(t) == {n \in DOMAIN first[t] : FreeSlots(first[t][n]) # {}}
FoundSlab(t) == first[t][Min(Found(t))]
Slot(t) == IF Found(t) = {} THEN <<HeapPage, 0>> ELSE <<FoundSlab(t), Min(FreeSlots(FoundSlab(t)))>>

slab_new(t) ==
  /\ page_heap_alloc
  /\ first' = [first EXCEPT ![t] = PrependTo(@, HeapPage)]
  /\ available' = With(available, HeapPage, [Bits(t, TRUE) EXCEPT ![0] = FALSE])

\* What slab_alloc does to slabs and pages
slab_alloc(t) ==
  \/ Found(t) = {} /\ slab_new(t)
  \/ /\ Found(t) # {}
     /\ available' = [available EXCEPT ![Slot(t)[1]][Slot(t)[2]] = FALSE]
     /\ UNCHANGED <<first, mmap, heap_cache, heap_pages, kas>>

\* Nothing comes between slab_alloc and arch_thread_fork of a new thread
Forking == \E x \in DOMAIN stack : stack[x] = NULL
Running == Booted /\ gc = "off" /\ ~Forking

\* tree_node_new: a node, pointing to some object the program holds
node_new ==
  /\ Running
  /\ slab_alloc(Nodes)
  /\ roots' = roots \cup {Slot(Nodes)}
  /\ \/ UNCHANGED refs
     \/ \E y \in roots : refs' = With(refs, Slot(Nodes), y)
  /\ live' = live \cup {Slot(Nodes)}
  /\ UNCHANGED <<nextalloc, boot, finalize, stack, gc, faults>>

\* thread_fork: a thread from a slab, then arch_thread_fork takes its stack.  The
\* bound on the heap leaves room for both.
thread_new ==
  /\ Running
  /\ MaxHeap - heap_pages + Len(heap_cache) >= 2
  /\ slab_alloc(Threads)
  /\ roots' = roots \cup {Slot(Threads)}
  /\ live' = live \cup {Slot(Threads)}
  /\ stack' = With(stack, Slot(Threads), NULL)
  /\ UNCHANGED <<nextalloc, boot, finalize, refs, gc, faults>>

arch_thread_fork(x) ==
  /\ x \in DOMAIN stack /\ stack[x] = NULL
  /\ page_heap_alloc
  /\ stack' = [stack EXCEPT ![x] = HeapPage]
  /\ UNCHANGED <<nextalloc, boot, first, available, finalize, roots, refs, gc, live, faults>>

\* slab_free of a node nobody points to any more
slab_free(x) ==
  /\ Running
  /\ x \in live \cap roots /\ TypeOf(x[1]) = Nodes
  /\ \A y \in DOMAIN refs \cap live : refs[y] # x
  /\ available' = [available EXCEPT ![x[1]][x[2]] = TRUE]
  /\ roots' = roots \ {x}
  /\ refs' = Without(refs, {x})
  /\ live' = live \ {x}
  /\ UNCHANGED <<pageVars, first, finalize, stack, gc, faults>>

\* The program drops a pointer, or follows one
Forget(x) ==
  /\ Running /\ x \in roots /\ roots' = roots \ {x}
  /\ UNCHANGED <<pageVars, first, available, finalize, refs, stack, gc, live, faults>>
Follow(x) ==
  /\ Running /\ x \in roots \cap DOMAIN refs /\ roots' = roots \cup {refs[x]}
  /\ UNCHANGED <<pageVars, first, available, finalize, refs, stack, gc, live, faults>>

-----------------------------------------------------------------------------
\* Collection

\* Faulty variant: the slabs behind the first are left alone
slab_gc_begin_first ==
  /\ Running
  /\ available' = [s \in DOMAIN available |->
                     IF s = first[TypeOf(s)][1] THEN Bits(TypeOf(s), TRUE) ELSE available[s]]
  /\ finalize' = available
  /\ gc' = "begun"
  /\ UNCHANGED <<pageVars, first, roots, refs, stack, live, faults>>

\* slab_mark_available_all, for every slab
slab_gc_begin ==
  /\ Running
  /\ available' = [s \in DOMAIN available |-> Bits(TypeOf(s), TRUE)]
  /\ finalize' = available
  /\ gc' = "begun"
  /\ UNCHANGED <<pageVars, first, roots, refs, stack, live, faults>>

\* Faulty variant: what a marked object points to is not marked
Marked_flat == roots

Marked == Reached(roots)

\* thread_gc marks from the running thread, the run queues and the roots; a slot is
\* followed once, when its mark is cleared
slab_gc_mark ==
  /\ gc = "begun"
  /\ available' = [s \in DOMAIN available |->
                     [i \in DOMAIN available[s] |-> available[s][i] /\ <<s, i>> \notin Marked]]
  /\ gc' = "marked"
  /\ UNCHANGED <<pageVars, first, finalize, roots, refs, stack, live, faults>>

\* Faulty variant: every slot that is available is finalized
Finalized_all(s) == {i \in DOMAIN available[s] : available[s][i]}

\* The slots slab_finalize calls the finalizer for: the bits that have changed
Finalized(s) == {i \in DOMAIN available[s] : finalize[s][i] # available[s][i]}

\* The type of threads has a finalizer; the other type's slots just become available
FinalizedThreads == {x \in Objects : x[1] \in SlabsOf(Threads) /\ x[2] \in Finalized(x[1])}

\* The order of the sweep: slab by slab, and slot by slot
Before(x, y) ==
  \E m, n \in DOMAIN first[Threads] :
    /\ first[Threads][m] = x[1] /\ first[Threads][n] = y[1]
    /\ m < n \/ (m = n /\ x[2] < y[2])
Sweeps(X) == {s \in [1..Cardinality(X) -> X] : \A i, j \in DOMAIN s : i < j => Before(s[i], s[j])}

\* The heap cache when the finalizer, arch_thread_finalize, has given back the stack of
\* each thread of the sweep s: the last one is in front
FreeStacks(s) == [n \in 1..Len(s) |-> stack[s[Len(s) + 1 - n]]] \o heap_cache

\* The sweep.  The finalize bits are not read again before slab_gc_begin sets them.
slab_gc_end ==
  LET F    == FinalizedThreads
      dead == {x \in live : available[x[1]][x[2]]}
  IN  /\ gc = "marked"
      /\ \E s \in Sweeps(F \cap DOMAIN stack) : heap_cache' = FreeStacks(s)
      /\ faults' = faults \cup (F \ live)
      /\ live' = (live \ F) \ dead
      /\ gc' = "off"
      /\ refs' = Without(refs, dead)
      /\ finalize' = <<>>
      /\ UNCHANGED <<mmap, nextalloc, boot, heap_pages, kas, first, available, roots, stack>>

Next ==
  \/ (arch_init_add \/ arch_init_free) /\ UNCHANGED slabVars
  \/ node_new \/ thread_new
  \/ \E x \in Objects : arch_thread_fork(x) \/ slab_free(x) \/ Forget(x) \/ Follow(x)
  \/ slab_gc_begin \/ slab_gc_mark \/ slab_gc_end

\* arch_idle collects whenever the machine is idle, and a fork goes on to its end
Collection == slab_gc_begin \/ slab_gc_mark \/ slab_gc_end
Fairness == WF_vars(Collection) /\ WF_vars(\E x \in Objects : arch_thread_fork(x))
Spec == Init /\ [][Next]_vars /\ Fairness

-----------------------------------------------------------------------------
TypeOK ==
  /\ PagesTypeOK
  /\ \A t \in Types : first[t] \in Seq(1..heap_pages)
  /\ DOMAIN available \subseteq 1..heap_pages
  /\ \A s \in DOMAIN available : available[s] \in [SlotsOf(TypeOf(s)) -> BOOLEAN]
  /\ gc \in {"off", "begun", "marked"}
  /\ live \subseteq Objects /\ DOMAIN stack \subseteq Objects

\* A heap page has one use: it is the slab of one type, the stack of one thread, or
\* once in the cache.  The collector's finalizer moves pages between them.
OneUse ==
  LET stacks == {x \in live \cap DOMAIN stack : stack[x] # NULL}
      cached == {heap_cache[n] : n \in DOMAIN heap_cache}
  IN  /\ TypeOK
      /\ Cardinality(cached) = Len(heap_cache)
      /\ \A x, y \in stacks : x # y => stack[x] # stack[y]
      /\ \A x \in stacks : stack[x] \notin cached \cup DOMAIN available
      /\ cached \cap DOMAIN available = {}

\* What the program can still reach is neither handed out again nor finalized, and
\* every object is handed out to one owner only.
ReachableKept ==
  gc = "off" => /\ Reached(roots) \subseteq live
                /\ \A x \in live : ~available[x[1]][x[2]]

\* "Finalize elements now available": an object is finalized once in its life, and
\* only when nothing reaches it.
FinalizedOnce == faults = {}

\* Whatever cannot be reached any more is collected in the end.
Collected ==
  \A x \in (1..MaxHeap) \X (0..2) : (x \in live /\ x \notin Reached(roots)) ~> (x \notin live)
=============================================================================
