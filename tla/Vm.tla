---------------------------------- MODULE Vm ----------------------------------
(***************************************************************************)
(* Virtual memory: segments, the objects behind them and page faults of    *)
(* kernel/vm.c, the page tables of arch/i386/vmap.c, the page cache of     *)
(* kernel/vfs.c with the pages tarfs reads into it, and process_fork.      *)
(*                                                                         *)
(* Addresses, offsets and sizes count blocks of a file; a page holds       *)
(* PerPage of them.  A new page table is entered in the directory of every *)
(* address space (vmap_set_pte), so that there is one table of pages, pt.  *)
(* A fault runs to its end: the one block device completes a read when it  *)
(* is submitted, and threads are not preempted.  No code enters user mode  *)
(* yet; the fault handler serves it, and so does the model.  In kernel     *)
(* mode a write needs no writeable mapping: CR0.WP is not set.             *)
(***************************************************************************)
EXTENDS TarFs

CONSTANTS
  PerPage,    \* blocks of a page
  Kas,        \* the kernel's address space; those of processes are 1, 2, ...
  KasSegs,    \* kas at the end of boot: segments by base
  UserSegs,   \* the segments of the first process
  Objects,    \* the objects behind them
  Arena,      \* base of the kernel segment tarfs_get_page takes its page from
  Mapped,     \* path of the file that vfs_test maps
  MapAt,      \* where it maps it
  Values,     \* what programs write
  FirstFree,  \* the first page page_alloc hands out
  MaxPage,    \* bound on pages
  MaxProcs,   \* bound on processes
  Unaligned   \* TRUE: the first access to a page of a file may be anywhere in it

\* Two segments of the kernel, the one at b below the one at c, share nothing
Apart(b, c) ==
  LET x == KasSegs[b]
      y == KasSegs[c]
  IN  /\ (b + x.size - 1) \div PerPage < c \div PerPage
      /\ x.dirty # y.dirty
      /\ Objects[x.dirty].type = "direct" /\ Objects[y.dirty].type = "direct" =>
           \A i \in 0..x.size - 1, j \in 0..y.size - 1 :
             Objects[x.dirty].base + i \div PerPage # Objects[y.dirty].base + j \div PerPage

\* What the boot sets up.  The segments of the kernel have pages, and objects, of their
\* own; a device is behind all of its segment, in memory that page_alloc does not hand
\* out.  The first process has anonymous memory.
ASSUME VmAssumption ==
  /\ PerPage \in Nat \ {0} /\ FirstFree \in Nat /\ MapAt \in Nat /\ Kas \notin Nat \ {0}
  /\ Objects \in Seq({Objects[o] : o \in DOMAIN Objects})
  /\ \A o \in DOMAIN Objects :
       \/ Objects[o] = [type |-> "anon", pages |-> <<>>, clean |-> 0]
       \/ Objects[o].type = "direct"
  /\ IsFiniteSet(DOMAIN KasSegs) /\ Arena \in DOMAIN KasSegs /\ Objects[KasSegs[Arena].dirty].type = "anon"
  /\ \A b \in DOMAIN KasSegs :
       /\ b \in Nat /\ b % PerPage = 0 /\ KasSegs[b].size \in Nat \ {0} /\ KasSegs[b].dirty \in DOMAIN Objects
       /\ Objects[KasSegs[b].dirty].type = "direct" =>
            /\ Objects[KasSegs[b].dirty].base \in Nat /\ Objects[KasSegs[b].dirty].size = KasSegs[b].size
            /\ Objects[KasSegs[b].dirty].base + (KasSegs[b].size - 1) \div PerPage < FirstFree
       /\ \A c \in DOMAIN KasSegs : b < c => Apart(b, c)
  /\ IsFiniteSet(DOMAIN UserSegs)
  /\ \A b \in DOMAIN UserSegs :
       /\ b \in Nat /\ DOMAIN UserSegs[b] = {"size", "perms", "clean", "dirty"}
       /\ UserSegs[b].dirty \in DOMAIN Objects /\ Objects[UserSegs[b].dirty].type = "anon"
       /\ \A c \in DOMAIN KasSegs : KasSegs[c].dirty # UserSegs[b].dirty

VARIABLES
  pt,        \* page table entries that are present: page, rw, user
  phys,      \* the blocks of each page of memory
  objs,      \* vmobject_t: type, and pages and clean, or base and size
  segs,      \* the segments of each address space, by base
  vmpages,   \* for each page: the mappings made of it, and whether it is dirty
  cache,     \* page_cache: the page of each offset of the file
  nextpage,  \* the next page of page_alloc
  pids,      \* container->pids
  nextpid,   \* container->nextpid
  panic,     \* the access the kernel panicked on
  mem,       \* history: what each process has written or inherited
  written    \* history: pages written by a program

vmVars == <<pt, phys, objs, segs, vmpages, cache, nextpage, pids, nextpid, panic, mem, written>>
vars == <<tarVars, vmVars>>

NONE == <<>>
Junk == "junk"
Procs == DOMAIN segs \ {Kas}

VPage(p) == p \div PerPage
Restricted(f, X) == [x \in DOMAIN f \cap X |-> f[x]]

Init ==
  /\ InitTar
  /\ pt = NONE /\ vmpages = NONE /\ cache = NONE
  /\ phys = [n \in 0..FirstFree - 1 |-> [b \in 0..PerPage - 1 |-> Junk]]
  /\ objs = Objects
  /\ segs = [as \in {Kas, 1} |-> IF as = Kas THEN KasSegs ELSE UserSegs]
  /\ nextpage = FirstFree
  /\ pids = {0} /\ nextpid = 1
  /\ panic = NONE
  /\ mem = [as \in {1} |-> NONE] /\ written = {}

-----------------------------------------------------------------------------
\* Objects and segments

vm_object_anon(clean) == [type |-> "anon", pages |-> NONE, clean |-> clean]
vm_object_direct(base, size) == [type |-> "direct", base |-> base, size |-> size]
vm_object_vnode == [type |-> "vnode"]

vm_segment_base(size, perms, clean) == [size |-> size, perms |-> perms, clean |-> clean, dirty |-> clean]
vm_segment_anonymous(size, perms, anon) ==
  [vm_segment_base(size, perms \cup {"P"}, 0) EXCEPT !.dirty = anon]
vm_segment_direct(size, perms, object) == vm_segment_base(size, perms, object)

\* anon is a new anonymous object in front of the file
vm_segment_vnode(size, perms, vobject, anon) ==
  [vm_segment_base(size, perms \cup {"P"}, vobject) EXCEPT !.dirty = IF "P" \in perms THEN anon ELSE @]

-----------------------------------------------------------------------------
\* Page tables

vmap_map(t, v, page, rw, user) == Extended(t, v, [page |-> page, rw |-> rw, user |-> user])
vmap_unmap(t, V) == Restricted(t, DOMAIN t \ V)

-----------------------------------------------------------------------------
\* Addresses

\* map_getpp_cond(as, p, MAP_LE): the base of the last segment at or below p
vm_get_segment(as, p) == {b \in DOMAIN segs[as] : b <= p /\ \A c \in DOMAIN segs[as] : c <= p => c <= b}

\* Where vm_resolve_address finds p for a thread of a process: the kernel's
\* segments hide those of the process
vm_resolve_address(as, p) ==
  IF vm_get_segment(Kas, p) # {} THEN {<<Kas, b>> : b \in vm_get_segment(Kas, p)}
  ELSE IF as = Kas THEN {} ELSE {<<as, b>> : b \in vm_get_segment(as, p)}

\* The processor lets the access pass
Permits(p, write, user) ==
  /\ VPage(p) \in DOMAIN pt
  /\ user => pt[VPage(p)].user /\ (write => pt[VPage(p)].rw)

-----------------------------------------------------------------------------
\* The reverse map

VmPage(vm, page) == IF page \in DOMAIN vm THEN vm[page] ELSE [maps |-> <<>>, dirty |-> FALSE]

vm_vmpage_map(vm, page, as, v) ==
  LET old == VmPage(vm, page).maps
  IN  IF \E n \in DOMAIN old : old[n] = <<as, v>> THEN vm
      ELSE Extended(vm, page, [VmPage(vm, page) EXCEPT !.maps = Append(@, <<as, v>>)])

\* The last mapping takes the place of the one that goes
vm_vmpage_unmap(vm, page, as, v) ==
  LET old == VmPage(vm, page).maps
      at  == {n \in DOMAIN old : old[n] = <<as, v>>}
  IN  IF at = {} THEN vm
      ELSE [vm EXCEPT ![page].maps =
              SubSeq([old EXCEPT ![Min(at)] = old[Len(old)]], 1, Len(old) - 1)]

\* Faulty variant: a page mapped by a read is only marked as accessed
DirtyAfter_write(write) == write

\* VMPAGE_ACCESSED | (write) ? VMPAGE_DIRTY : 0, which is VMPAGE_DIRTY
DirtyAfter(write) == TRUE

vm_vmpage_setflags(vm, page, dirty) == [vm EXCEPT ![page].dirty = @ \/ dirty]

-----------------------------------------------------------------------------
\* Pages for an object.  The operators take the memory m as it is, and give the page
\* found and the memory afterwards.

Memory == [pt |-> pt, phys |-> phys, objs |-> objs, vm |-> vmpages, cache |-> cache, next |-> nextpage]

Becomes(m) ==
  /\ pt' = m.pt /\ phys' = m.phys /\ objs' = m.objs
  /\ vmpages' = m.vm /\ cache' = m.cache /\ nextpage' = m.next

\* map_put on the pages of an anonymous object
Put(os, o, pages) == [os EXCEPT ![o].pages = pages]

\* A fresh page, which is not cleared
Fresh(m, o, n) ==
  [page |-> m.next,
   m    |-> [m EXCEPT !.next = @ + 1, !.phys = Extended(@, m.next, [b \in 0..PerPage - 1 |-> Junk]),
                      !.objs = Put(@, o, Extended(@[o].pages, n, m.next))]]

vm_direct_get_page(m, o, off) ==
  [page |-> IF off < objs[o].size THEN objs[o].base + VPage(off) ELSE 0, m |-> m]

\* A fault maps the page got for it
MappedIn(got, as, seg, p, write) ==
  [got.m EXCEPT
     !.pt = vmap_map(@, VPage(p), got.page, write /\ "W" \in seg.perms, "U" \in seg.perms),
     !.vm = vm_vmpage_setflags(vm_vmpage_map(@, got.page, as, VPage(p)), got.page, DirtyAfter(write))]

\* Faulty variant: the page goes to the cache and stays mapped in the arena
vm_page_steal_mapped(m, p) ==
  LET o == segs[Kas][Arena].dirty
      v == VPage(p)
  IN  [m EXCEPT !.objs = Put(@, o, Restricted(@[o].pages, DOMAIN @[o].pages \ {VPage(p - Arena)})),
                !.vm = vm_vmpage_unmap(@, m.pt[v].page, Kas, v)]

\* Faulty variant: the page stays in the object
vm_page_steal_kept(m, p) ==
  LET v == VPage(p)
  IN  [m EXCEPT !.vm = vm_vmpage_unmap(@, m.pt[v].page, Kas, v),
                !.pt = vmap_unmap(@, {v})]

\* The page of an address of the arena is taken out of its object and unmapped
vm_page_steal(m, p) ==
  LET o == segs[Kas][Arena].dirty
      v == VPage(p)
  IN  [m EXCEPT !.objs = Put(@, o, Restricted(@[o].pages, DOMAIN @[o].pages \ {VPage(p - Arena)})),
                !.vm = vm_vmpage_unmap(@, m.pt[v].page, Kas, v),
                !.pt = vmap_unmap(@, {v})]

\* A read of the device, which completes in dev_op_submit
tarfs_readblock(at) == Device[at + 1][2]

\* The file, and its blocks from an offset on, as far as the page and the file go, then
\* zeroes.  The data of a file is behind its header.
Tnode == vnodes[FileAt(tree, Mapped)]
PageOf(off) ==
  [b \in 0..PerPage - 1 |-> IF off + b < Tnode.size
                            THEN tarfs_readblock(Tnode.offset + 1 + off + b) ELSE "zero"]

\* tarfs_get_page: the blocks are read into a page of the thread's arena, which may
\* fault, and the page is stolen from it
tarfs_get_page(m, off) ==
  LET seg == segs[Kas][Arena]
      v   == VPage(Arena)
      m1  == IF v \in DOMAIN m.pt THEN m
             ELSE MappedIn(IF 0 \in DOMAIN m.objs[seg.dirty].pages
                           THEN [page |-> m.objs[seg.dirty].pages[0], m |-> m]
                           ELSE Fresh(m, seg.dirty, 0), Kas, seg, Arena, TRUE)
      m2  == [m1 EXCEPT !.phys[m1.pt[v].page] = PageOf(off)]
  IN  [page |-> m1.pt[v].page, m |-> vm_page_steal(m2, Arena)]

\* Faulty variant: the offset is not part of the key
Cached_any(m, off) == {m.cache[o] : o \in DOMAIN m.cache}

Cached(m, off) == {m.cache[o] : o \in DOMAIN m.cache \cap {off}}

vnode_get_page(m, off) ==
  IF Cached(m, off) # {} THEN [page |-> CHOOSE g \in Cached(m, off) : TRUE, m |-> m]
  ELSE LET got == tarfs_get_page(m, off)
       IN  [got EXCEPT !.m.cache = Extended(@, off, got.page)]

vm_anon_get_page(m, o, off) ==
  IF VPage(off) \in DOMAIN objs[o].pages THEN [page |-> objs[o].pages[VPage(off)], m |-> m]
  ELSE IF objs[o].clean # 0 THEN vnode_get_page(m, off)
  ELSE Fresh(m, o, VPage(off))

\* object->ops->get_page.  The object behind an anonymous one, if any, is a file.
get_page(m, o, off) ==
  CASE objs[o].type = "anon"   -> vm_anon_get_page(m, o, off)
    [] objs[o].type = "direct" -> vm_direct_get_page(m, o, off)
    [] objs[o].type = "vnode"  -> vnode_get_page(m, off)

FromFile(o) == objs[o].type = "vnode" \/ (objs[o].type = "anon" /\ objs[o].clean # 0)

\* vfs_test: a private mapping of the file, in a process that may use memory from now on
vfs_test ==
  /\ ~scanning /\ FileAt(tree, Mapped) # 0 /\ MapAt \notin DOMAIN segs[1]
  /\ objs' = objs \o << vm_object_vnode, vm_object_anon(Len(objs) + 1) >>
  /\ segs' = [segs EXCEPT ![1] = Extended(@, MapAt,
                vm_segment_vnode(Tnode.size, {"U", "P"}, Len(objs) + 1, Len(objs) + 2))]
  /\ UNCHANGED <<pt, phys, vmpages, cache, nextpage, pids, nextpid, panic, mem, written>>

Ready == MapAt \in DOMAIN segs[1]

-----------------------------------------------------------------------------
\* The page fault handler

\* A page that is not there yet
FaultIn(at, p, write) ==
  LET seg == segs[at[1]][at[2]]
  IN  Becomes(MappedIn(get_page(Memory, seg.dirty, p - at[2]), at[1], seg, p, write))

\* A page mapped for reading only: it becomes writeable
FaultWrite(at, p) ==
  Becomes(MappedIn([page |-> pt[VPage(p)].page, m |-> Memory], at[1], segs[at[1]][at[2]], p, TRUE))

vm_page_fault(as, p, write, user) ==
  /\ panic = NONE
  /\ ~Permits(p, write, user)
  /\ \/ \E at \in vm_resolve_address(as, p) :
          LET seg == segs[at[1]][at[2]]
          IN  /\ p - at[2] < seg.size
              /\ \/ /\ VPage(p) \notin DOMAIN pt
                    /\ Unaligned \/ ~FromFile(seg.dirty) \/ (p - at[2]) % PerPage = 0
                    /\ FaultIn(at, p, write)
                    /\ UNCHANGED panic
                 \/ /\ VPage(p) \in DOMAIN pt /\ write /\ "W" \in seg.perms
                    /\ FaultWrite(at, p)
                    /\ UNCHANGED panic
                 \/ /\ VPage(p) \in DOMAIN pt /\ ~(write /\ "W" \in seg.perms)
                    /\ panic' = <<as, p, write>>
                    /\ Becomes(Memory)
     \/ /\ \A at \in vm_resolve_address(as, p) : p - at[2] >= segs[at[1]][at[2]].size
        /\ panic' = <<as, p, write>>
        /\ Becomes(Memory)
  /\ UNCHANGED <<segs, pids, nextpid, mem, written>>

\* A program writes; a file's mapping is not written to by the kernel
Store(as, p, v, user) ==
  /\ panic = NONE
  /\ Permits(p, TRUE, user)
  /\ phys' = [phys EXCEPT ![pt[VPage(p)].page][p % PerPage] = v]
  /\ mem' = IF as = Kas THEN mem ELSE [mem EXCEPT ![as] = Extended(@, p, v)]
  /\ written' = written \cup {pt[VPage(p)].page}
  /\ UNCHANGED <<pt, objs, segs, vmpages, cache, nextpage, pids, nextpid, panic>>

\* vm_vmpage_trapaccess, and vm_vmpage_trapwrites, which does the same: every
\* mapping recorded for the page is removed
vm_vmpage_trapaccess(page) ==
  /\ panic = NONE
  /\ page \in DOMAIN vmpages
  /\ pt' = vmap_unmap(pt, {vmpages[page].maps[n][2] : n \in DOMAIN vmpages[page].maps})
  /\ UNCHANGED <<phys, objs, segs, vmpages, cache, nextpage, pids, nextpid, panic, mem, written>>

-----------------------------------------------------------------------------
\* Processes

vm_object_anon_copy(o) == objs[o]

\* vm_segment_copy(seg, 1): the object for the new segment's dirty pages
vm_segment_copy(seg) ==
  IF seg.clean # seg.dirty THEN vm_object_anon_copy(seg.dirty)
  ELSE vm_object_anon(seg.clean)

\* The first process id from n on that is not in use
process_nextpid(n) == Min({i \in n..n + Cardinality(pids) : i \notin pids})

\* map_walk copies the segments in the order of their bases: the object of each copy,
\* and the copies
NewObject(parent, b) == Len(objs) + Cardinality({c \in DOMAIN segs[parent] : c <= b})
process_duplicate_as(parent) ==
  [b \in DOMAIN segs[parent] |->
     [segs[parent][b] EXCEPT !.dirty = NewObject(parent, b), !.perms = @ \cup {"P"}]]

process_fork(parent) ==
  LET bases   == DOMAIN segs[parent]
      child   == Cardinality(Procs) + 1
      base(o) == CHOOSE b \in bases : NewObject(parent, b) = o
      pid     == process_nextpid(nextpid)
  IN  /\ panic = NONE
      /\ Cardinality(Procs) < MaxProcs
      /\ objs' = [o \in 1..Len(objs) + Cardinality(bases) |->
                    IF o <= Len(objs) THEN objs[o] ELSE vm_segment_copy(segs[parent][base(o)])]
      /\ segs' = Extended(segs, child, process_duplicate_as(parent))
      /\ pids' = pids \cup {pid} /\ nextpid' = pid + 1
      /\ mem' = Extended(mem, child, mem[parent])
      /\ UNCHANGED <<pt, phys, vmpages, cache, nextpage, panic, written>>

-----------------------------------------------------------------------------
\* Programs use the addresses of their segments, the kernel also its own

Addresses(as) == UNION {b..b + segs[as][b].size - 1 : b \in DOMAIN segs[as]}

Memories ==
  \/ \E as \in DOMAIN segs : \E p \in Addresses(as), user \in {FALSE, as # Kas} :
       \/ nextpage <= MaxPage /\ \E write \in BOOLEAN : vm_page_fault(as, p, write, user)
       \/ \E v \in Values : /\ user \/ "W" \in segs[as][CHOOSE b \in vm_get_segment(as, p) : TRUE].perms
                            /\ Store(as, p, v, user)
  \/ \E page \in DOMAIN vmpages : vm_vmpage_trapaccess(page)
  \/ \E as \in Procs : process_fork(as)

\* kernel_main opens the file system, then maps a file; then programs run
Next ==
  \/ tarfs_scan /\ UNCHANGED vmVars
  \/ vfs_test /\ UNCHANGED tarVars
  \/ Ready /\ Memories /\ UNCHANGED tarVars

Spec == Init /\ [][Next]_vars

\* What the properties other than PrivateMemory read
View == <<tarVars, pt, phys, objs, segs, vmpages, cache, panic, written>>

-----------------------------------------------------------------------------
TypeOK ==
  /\ \A v \in DOMAIN pt : pt[v] \in [page : DOMAIN phys, rw : BOOLEAN, user : BOOLEAN]
  /\ DOMAIN vmpages \subseteq DOMAIN phys
  /\ \A as \in DOMAIN segs : \A b \in DOMAIN segs[as] : segs[as][b].dirty \in DOMAIN objs
  /\ nextpage = Cardinality(DOMAIN phys) /\ \A o \in DOMAIN cache : cache[o] \in DOMAIN phys

\* Every mapping of a page is on the page's record, so that trapping the page's
\* accesses reaches all of them.
RecordedMappings ==
  /\ TypeOK
  /\ \A v \in DOMAIN pt : \E n \in DOMAIN vmpages[pt[v].page].maps : vmpages[pt[v].page].maps[n][2] = v

\* A page that a program has written is marked dirty, also when it was mapped by a read.
WrittenIsDirty == \A g \in written : vmpages[g].dirty

\* A page has one place: under one address of the kernel, or in the page cache.  The
\* page tarfs reads a file into leaves the arena for good.
OnePlace ==
  /\ \A v, w \in DOMAIN pt : {v, w} \subseteq {VPage(p) : p \in Addresses(Kas)} /\ v # w
                              => pt[v].page # pt[w].page
  /\ \A o \in DOMAIN cache : /\ \A v \in DOMAIN pt : v \in {VPage(p) : p \in Addresses(Kas)} => pt[v].page # cache[o]
                              /\ \A i \in DOMAIN objs : objs[i].type = "anon" =>
                                   \A n \in DOMAIN objs[i].pages : objs[i].pages[n] # cache[o]

\* What a mapped file shows at an address is what the file holds there.
FileShown ==
  \A as \in Procs : \A b \in DOMAIN segs[as] :
    FromFile(segs[as][b].dirty) =>
      \A p \in b..b + segs[as][b].size - 1 :
        VPage(p) \in DOMAIN pt => 
          phys[pt[VPage(p)].page][p % PerPage] = archive[LastOf(Mapped)].data[p - b + 1]

\* "process address space (private to each process)": a process finds what it wrote, or
\* what its parent had when it was forked.
PrivateMemory ==
  \A as \in Procs : \A p \in DOMAIN mem[as] :
    \A b \in vm_get_segment(as, p) :
      LET o == objs[segs[as][b].dirty]
      IN  VPage(p - b) \in DOMAIN o.pages => phys[o.pages[VPage(p - b)]][p % PerPage] = mem[as][p]
=============================================================================
