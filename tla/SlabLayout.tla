----------------------------- MODULE SlabLayout -----------------------------
(***************************************************************************)
(* The arithmetic of the allocators: how a page is cut into a slab, how a  *)
(* request finds its size class, and how an address finds its way back     *)
(* (common.c, slab.c, pmm.c, and the units of page.c).                     *)
(***************************************************************************)
EXTENDS Integers, FiniteSets

CONSTANTS
  SlabHeader,     \* sizeof(Slab): 40
  SLAB_SPACE,     \* 4096
  P_4K, P_16M, NodeBytes,    \* page.h: 12, 24, and the 8192 bytes of a tree
  MAX_PAGE_NUM,              \* 255: page_pool has an entry more
  MaxSize, SlabPages,        \* requests to try: up to which size, in which pages
  HeapStarts, HeapEnds       \* heaps to try

VARIABLE layout_call         \* the call of kalloc or pmm_init under way, or <<>>

S_8B == 3
S_64B == 6
S_REFUSE == 12
SlabTypes == S_8B .. S_REFUSE - 1

ASSUME LayoutAssumption ==
  /\ SlabHeader \in 1 .. 64 /\ SLAB_SPACE = 2^P_4K /\ P_4K = 12
  /\ P_16M = 24 /\ NodeBytes \in Nat /\ MAX_PAGE_NUM \in Nat
  /\ MAX_PAGE_NUM * NodeBytes <= 2^P_16M
  /\ MaxSize \in Nat /\ SlabPages \subseteq {p \in Nat : p % 2^P_4K = 0}
  /\ HeapStarts \subseteq Nat /\ HeapEnds \subseteq Nat

MutAlign(ptr, align) == (ptr \div 2^align) * 2^align

align_ptr(ptr, align) ==
  IF ptr % 2^align = 0 THEN ptr ELSE (ptr \div 2^align) * 2^align + 2^align

is_aligned(ptr, align) == ptr % 2^align = 0

(* S_REFUSE when the page allocator has to serve the request. *)
trans_slab_size(size) ==
  LET fits == {t \in SlabTypes : size <= 2^t}
  IN IF fits = {} THEN S_REFUSE ELSE CHOOSE t \in fits : \A u \in fits : t <= u

slab_ocupy(type) == align_ptr(SlabHeader, IF type >= S_64B THEN type ELSE S_64B)
block_num(type) == (SLAB_SPACE - slab_ocupy(type)) \div 2^type
BlockAt(page, type, k) == page + slab_ocupy(type) + k * 2^type     \* k from 0

(* slab_free's way from a block to its slab, and kfree's choice. *)
SlabOf(ptr) == (ptr \div SLAB_SPACE) * SLAB_SPACE
FreesPage(ptr) == is_aligned(ptr, 12)

(* pmm_init and page_system_init: trees from begin, units 16M above it. *)
HeapBegin(heapStart) == align_ptr(heapStart, P_16M)
TreeAt(heapStart, i) == HeapBegin(heapStart) + i * NodeBytes
UnitAt(heapStart, i) == HeapBegin(heapStart) + (i + 1) * 2^P_16M
real_page_num(heapStart, heapEnd) ==
  LET left == heapEnd - UnitAt(heapStart, 0)
  IN IF left < 0 THEN 0 ELSE left \div 2^P_16M

(* kalloc of `size' bytes gives from a slab a block that holds them, meets *)
(* no other block nor the slab's own record, stays in its page, and is     *)
(* aligned to its size; kfree takes none of them for a page, and finds     *)
(* its slab.                                                               *)
DispatchRight(size, page) ==
  LET type == trans_slab_size(size) IN
  type # S_REFUSE =>
    /\ size <= 2^type /\ block_num(type) >= 1
    /\ \A k \in 0 .. block_num(type) - 1 :
         LET ptr == BlockAt(page, type, k) IN
         /\ ptr >= page + SlabHeader /\ ptr + 2^type <= page + SLAB_SPACE
         /\ is_aligned(ptr, type)
         /\ ~FreesPage(ptr) /\ SlabOf(ptr) = page
         /\ k > 0 => BlockAt(page, type, k - 1) + 2^type <= ptr
    /\ FreesPage(page)

(* Wherever the heap begins and ends, the trees of all units lie in it     *)
(* below the first unit, the last unit ends in it, and page_pool has an    *)
(* entry for each.                                                         *)
UnitsFit(heapStart, heapEnd) ==
  LET n == real_page_num(heapStart, heapEnd) IN
  n > 0 => /\ HeapBegin(heapStart) >= heapStart
           /\ TreeAt(heapStart, n) <= UnitAt(heapStart, 0)
           /\ UnitAt(heapStart, n) <= heapEnd
           /\ n <= MAX_PAGE_NUM + 1

-----------------------------------------------------------------------------
(* page_system_init checks neither that page_pool has room for the units   *)
(* nor that their trees fit the 16M for them.  It need not: __am_heap_init *)
(* (trm.c) makes the heap's end of 32 bits, so it lies below 4G.           *)
ASSUME HeapAssumption == \A end \in HeapEnds : end <= (MAX_PAGE_NUM + 1) * 2^P_16M

LayoutInit == layout_call = <<>>

Request ==
  /\ layout_call = <<>>
  /\ \E size \in 0 .. MaxSize, page \in SlabPages :
       layout_call' = [size |-> size, page |-> page]

LayHeap ==
  /\ layout_call = <<>>
  /\ \E start \in HeapStarts, end \in HeapEnds :
       layout_call' = [start |-> start, end |-> end]

LayoutNext == Request \/ LayHeap
LayoutSpec == LayoutInit /\ [][LayoutNext]_layout_call

(* kalloc's blocks are where kfree looks for them, and units fit the heap. *)
LayoutRight ==
  /\ "size" \in DOMAIN layout_call => DispatchRight(layout_call.size, layout_call.page)
  /\ "start" \in DOMAIN layout_call => UnitsFit(layout_call.start, layout_call.end)
=============================================================================
