----------------------------- MODULE SlabLayout -----------------------------
(***************************************************************************)
(* How slab_new of libk/slab.c divides a page: the header, two bitmaps     *)
(* with a bit for each slot, and the slots, and how malloc chooses a pool. *)
(***************************************************************************)
EXTENDS Integers

ARCH_PAGE_SIZE == 4096
sizeof_slab_t == 28   \* seven words

\* type->count, and the words of each bitmap of a slab with that many slots
SlotCount(esize) == (8 * (ARCH_PAGE_SIZE - sizeof_slab_t) - 64) \div (8 * esize + 2)
BitmapWords(count) == (count + 32) \div 32

\* slab->data, and the slot i, as offsets in the page
DataOffset(count) == sizeof_slab_t + 2 * 4 * BitmapWords(count)
SlotOffset(esize, i) == DataOffset(SlotCount(esize)) + esize * i

\* The slot slab_gc_mark and slab_free take the offset of a pointer for
SlotAt(esize, offset) == (offset - DataOffset(SlotCount(esize))) \div esize

\* pools, and the pools malloc may take for a size; it takes the first of them
Pools == << 8, 12, 16, 24, 32, 48, 64, 96, 128, 196, 256, 384, 512, 768, 1024, 1536,
            (ARCH_PAGE_SIZE - 8) \div 2, ARCH_PAGE_SIZE - 8 >>
Larger(size) == {i \in 1..18 : Pools[i] > size}
malloc(size) == CHOOSE i \in Larger(size) : \A j \in Larger(size) : i <= j

\* realloc leaves the data where it is
InPlace(i, size) == size <= Pools[i]
=============================================================================
