--------------------------- MODULE FunctionProofs ---------------------------
(* The pure algorithms give what they should for every argument: the places *)
(* the allocators compute (SlabLayout), the strings and numbers of klib     *)
(* (Klib), and its division of two-word integers (Int64).                   *)
(*                                                                          *)
(* What the code computes in a loop is a recursive function of the passes.  *)
(* Recursion, an induction over sets in place of predicates, says that such *)
(* a function exists; every lemma whose name ends in Def says it of one     *)
(* definition, and the lemmas after it are by induction over the passes.    *)
(*                                                                          *)
(* The rounds of the division keep InRound: the dividend is the divisor     *)
(* times the quotient so far, plus the remainder, with the bits that are    *)
(* not yet shifted in.  No bit leaves the remainder at the top because the  *)
(* divisor's upper bit is clear, or else the only round takes the whole     *)
(* dividend (Roomy).                                                        *)
EXTENDS Klib, Int64, SlabLayout, FiniteSetTheorems, SequenceTheorems, WellFoundedInduction, TLAPS

-----------------------------------------------------------------------------
(* Induction, over a set in place of a predicate; and, by it, a function   *)
(* that is defined by recursion exists.                                    *)
LEMMA LeastCounterexample ==
  ASSUME NEW S \in SUBSET Nat, S # {}
  PROVE  \E m \in S : \A n \in S : m <= n
<1>1. PICK m \in S : \A n \in S : ~ (<<n, m>> \in OpToRel(<, Nat))
  BY NatLessThanWellFounded, WFMin
<1>2. ASSUME NEW n \in S PROVE m <= n
  <2>1. <<n, m>> \in Nat \X Nat /\ ~(n < m)
    BY <1>1 DEF OpToRel
  <2> QED
    BY <2>1
<1> QED
  BY <1>2

LEMMA UpTo ==
  ASSUME NEW N \in Nat, NEW S, 0 \in S, \A n \in 0..(N - 1) : n \in S => n + 1 \in S
  PROVE  \A n \in 0..N : n \in S
<1> DEFINE Out == {n \in 0..N : n \notin S}
<1> SUFFICES ASSUME Out # {} PROVE FALSE
  OBVIOUS
<1>1. PICK m \in Out : \A n \in Out : m <= n
  <2>1. Out \in SUBSET Nat
    OBVIOUS
  <2> HIDE DEF Out
  <2> QED
    BY <2>1, LeastCounterexample
<1>2. m # 0 /\ m - 1 \in 0..(N - 1)
  BY <1>1
<1>3. m - 1 \notin Out
  BY <1>1, <1>2
<1> QED
  BY <1>1, <1>2, <1>3

Computes(f, N, base, step) ==
  f[0] = base /\ \A i \in 1..N : f[i] = step[<<f[i - 1], i>>]

LEMMA Recursion ==
  ASSUME NEW N \in Nat, NEW V, NEW base \in V, NEW step \in [V \X (1..N) -> V]
  PROVE  \E f \in [0..N -> V] : Computes(f, N, base, step)
<1> DEFINE Is(f, n) == Computes(f, n, base, step)
           S == {n \in 0..N : \E f \in [0..n -> V] : Is(f, n)}
<1> USE DEF Computes
<1>1. 0 \in S
  <2>1. [k \in 0..0 |-> base] \in [0..0 -> V] /\ Is([k \in 0..0 |-> base], 0)
    OBVIOUS
  <2> HIDE DEF Is
  <2>2. \E f \in [0..0 -> V] : Is(f, 0)
    BY <2>1
  <2> QED
    BY <2>2
<1>2. ASSUME NEW n \in 0..(N - 1), n \in S PROVE n + 1 \in S
  <2>1. PICK f \in [0..n -> V] : Is(f, n)
    BY <1>2
  <2>2. n + 1 \in 1..N /\ n \in 0..n
    OBVIOUS
  <2>3. step[<<f[n], n + 1>>] \in V
    BY <2>2
  <2>4. PICK g : g = [k \in 0..(n + 1) |-> IF k = n + 1 THEN step[<<f[n], n + 1>>] ELSE f[k]]
    OBVIOUS
  <2>5. g \in [0..(n + 1) -> V]
    BY <2>3, <2>4
  <2>6. (\A k \in 0..n : g[k] = f[k]) /\ g[n + 1] = step[<<f[n], n + 1>>]
    BY <2>4
  <2>7. ASSUME NEW i \in 1..(n + 1) PROVE g[i] = step[<<g[i - 1], i>>]
    <3>1. CASE i = n + 1
      BY <2>6, <3>1
    <3>2. CASE i \in 1..n
      BY <2>1, <2>6, <3>2
    <3> QED
      BY <3>1, <3>2
  <2>8. Is(g, n + 1)
    BY <2>1, <2>6, <2>7
  <2> HIDE DEF Is
  <2>9. n + 1 \in 0..N /\ \E h \in [0..(n + 1) -> V] : Is(h, n + 1)
    BY <2>5, <2>8
  <2> QED
    BY <2>9
<1> HIDE DEF Computes
<1>3. \A n \in 0..N : n \in S
  <2> HIDE DEF S
  <2> QED
    BY <1>1, <1>2, UpTo
<1>4. \E f \in [0..N -> V] : Is(f, N)
  BY <1>3
<1> QED
  BY <1>4

-----------------------------------------------------------------------------
(* The arithmetic of the allocators *)

(* A slab for blocks of b bytes: where they begin, and how many there are. *)
Slot(type, b, occupied) ==
  /\ 2^type = b /\ slab_ocupy(type) = occupied
  /\ block_num(type) = (4096 - occupied) \div b
  /\ \/ b \in {8, 16, 32, 64} /\ occupied = 64
     \/ b \in {128, 256, 512, 1024, 2048} /\ occupied = b

LEMMA AlignedHeader ==
  ASSUME NEW h \in 1 .. 64, NEW e, NEW m \in {64, 128, 256, 512, 1024, 2048}, 2^e = m
  PROVE  align_ptr(h, e) = m
<1>1. align_ptr(h, e) = IF h % m = 0 THEN h ELSE (h \div m) * m + m
  BY DEF align_ptr
<1>2. CASE m = 64
  BY ONLY <1>1, <1>2, h \in 1 .. 64
<1>3. CASE m \in {128, 256, 512, 1024, 2048}
  <2>1. h \div m = 0 /\ h % m = h
    BY ONLY <1>3, h \in 1 .. 64
  <2> QED
    BY ONLY <1>1, <1>3, <2>1, h \in 1 .. 64
<1> QED
  BY <1>2, <1>3

LEMMA SlotOf ==
  ASSUME NEW type \in SlabTypes
  PROVE  \E b, occupied : Slot(type, b, occupied)
<1>1. SLAB_SPACE = 4096 /\ SlabHeader \in 1 .. 64
  BY LayoutAssumption
<1>2. /\ 2^3 = 8 /\ 2^4 = 16 /\ 2^5 = 32 /\ 2^6 = 64 /\ 2^7 = 128
      /\ 2^8 = 256 /\ 2^9 = 512 /\ 2^10 = 1024 /\ 2^11 = 2048
  OBVIOUS
<1>3. type \in {3, 4, 5, 6, 7, 8, 9, 10, 11}
  BY DEF SlabTypes, S_8B, S_REFUSE
<1>p. /\ type = 3 => 2^type = 2^3
      /\ type = 4 => 2^type = 2^4
      /\ type = 5 => 2^type = 2^5
      /\ type = 6 => 2^type = 2^6
      /\ type = 7 => 2^type = 2^7
      /\ type = 8 => 2^type = 2^8
      /\ type = 9 => 2^type = 2^9
      /\ type = 10 => 2^type = 2^10
      /\ type = 11 => 2^type = 2^11
  BY Zenon
<1> PICK b, e, m : b = 2^type /\ e = (IF type >= S_64B THEN type ELSE S_64B) /\ m = 2^e
  OBVIOUS
<1>4. \/ b \in {8, 16, 32, 64} /\ m = 64
      \/ b \in {128, 256, 512, 1024, 2048} /\ m = b
  <2>1. CASE type \in {3, 4, 5, 6}
    <3>1. b \in {8, 16, 32, 64}
      BY <1>2, <1>p, <2>1
    <3>2. e = 6
      BY <2>1 DEF S_64B
    <3>3. m = 2^6
      BY <3>2, Zenon
    <3> QED
      BY <1>2, <3>1, <3>3
  <2>2. CASE type \in {7, 8, 9, 10, 11}
    <3>1. b \in {128, 256, 512, 1024, 2048}
      BY <1>2, <1>p, <2>2
    <3>2. e = type
      BY <2>2 DEF S_64B
    <3> QED
      BY <3>1, <3>2
  <2> QED
    BY <1>3, <2>1, <2>2
<1>5. slab_ocupy(type) = m
  <2>1. slab_ocupy(type) = align_ptr(SlabHeader, e)
    BY DEF slab_ocupy
  <2>2. m \in {64, 128, 256, 512, 1024, 2048}
    BY <1>4
  <2> QED
    BY <1>1, <2>1, <2>2, AlignedHeader
<1>6. block_num(type) = (4096 - m) \div b
  BY <1>1, <1>5 DEF block_num
<1>7. Slot(type, b, m)
  BY <1>4, <1>5, <1>6 DEF Slot
<1> QED
  BY <1>7

LEMMA FitsType ==
  ASSUME NEW size \in Nat, trans_slab_size(size) # S_REFUSE
  PROVE  trans_slab_size(size) \in SlabTypes /\ size <= 2^trans_slab_size(size)
<1> DEFINE fits == {t \in SlabTypes : size <= 2^t}
<1>1. fits # {} /\ trans_slab_size(size) = CHOOSE t \in fits : \A u \in fits : t <= u
  BY DEF trans_slab_size
<1>2. \E t \in fits : \A u \in fits : t <= u
  <2>1. fits \in SUBSET Nat
    BY DEF SlabTypes, S_8B, S_REFUSE
  <2> HIDE DEF fits
  <2> QED
    BY <1>1, <2>1, LeastCounterexample
<1>3. trans_slab_size(size) \in fits
  BY <1>1, <1>2
<1> QED
  BY <1>3

(* The block k of b bytes, behind o bytes in a page, lies in the page.     *)
BlockSizes == {8, 16, 32, 64, 128, 256, 512, 1024, 2048}

LEMMA RoomFor ==
  ASSUME NEW b \in BlockSizes, NEW o \in Nat, NEW k \in 0 .. ((4096 - o) \div b) - 1
  PROVE  o + k * b + b <= 4096
<1>1. CASE b = 8
  BY ONLY <1>1, k \in 0 .. ((4096 - o) \div b) - 1, o \in Nat
<1>2. CASE b = 16
  BY ONLY <1>2, k \in 0 .. ((4096 - o) \div b) - 1, o \in Nat
<1>3. CASE b = 32
  BY ONLY <1>3, k \in 0 .. ((4096 - o) \div b) - 1, o \in Nat
<1>4. CASE b = 64
  BY ONLY <1>4, k \in 0 .. ((4096 - o) \div b) - 1, o \in Nat
<1>5. CASE b = 128
  BY ONLY <1>5, k \in 0 .. ((4096 - o) \div b) - 1, o \in Nat
<1>6. CASE b = 256
  BY ONLY <1>6, k \in 0 .. ((4096 - o) \div b) - 1, o \in Nat
<1>7. CASE b = 512
  BY ONLY <1>7, k \in 0 .. ((4096 - o) \div b) - 1, o \in Nat
<1>8. CASE b = 1024
  BY ONLY <1>8, k \in 0 .. ((4096 - o) \div b) - 1, o \in Nat
<1>9. CASE b = 2048
  BY ONLY <1>9, k \in 0 .. ((4096 - o) \div b) - 1, o \in Nat
<1> QED
  BY <1>1, <1>2, <1>3, <1>4, <1>5, <1>6, <1>7, <1>8, <1>9 DEF BlockSizes

InSlab(p, j, o, k, b) == p = 4096 * j + o + k * b
Multiple(p, b) == p % b = 0

LEMMA AlignedBlock ==
  ASSUME NEW b \in BlockSizes, NEW o, o = (IF b < 64 THEN 64 ELSE b), NEW k \in Nat, NEW j \in Nat,
         NEW p, InSlab(p, j, o, k, b)
  PROVE  Multiple(p, b)
<1> USE DEF InSlab, Multiple
<1>1. CASE b = 8
  BY ONLY <1>1, o = (IF b < 64 THEN 64 ELSE b), k \in Nat, j \in Nat, InSlab(p, j, o, k, b)
<1>2. CASE b = 16
  BY ONLY <1>2, o = (IF b < 64 THEN 64 ELSE b), k \in Nat, j \in Nat, InSlab(p, j, o, k, b)
<1>3. CASE b = 32
  BY ONLY <1>3, o = (IF b < 64 THEN 64 ELSE b), k \in Nat, j \in Nat, InSlab(p, j, o, k, b)
<1>4. CASE b = 64
  BY ONLY <1>4, o = (IF b < 64 THEN 64 ELSE b), k \in Nat, j \in Nat, InSlab(p, j, o, k, b)
<1>5. CASE b = 128
  <2>1. p = 128 * (32 * j + 1 + k) /\ 32 * j + 1 + k \in Nat
    BY <1>5
  <2> QED
    BY ONLY <1>5, <2>1
<1>6. CASE b = 256
  <2>1. p = 256 * (16 * j + 1 + k) /\ 16 * j + 1 + k \in Nat
    BY <1>6
  <2> QED
    BY ONLY <1>6, <2>1
<1>7. CASE b = 512
  <2>1. p = 512 * (8 * j + 1 + k) /\ 8 * j + 1 + k \in Nat
    BY <1>7
  <2> QED
    BY ONLY <1>7, <2>1
<1>8. CASE b = 1024
  <2>1. p = 1024 * (4 * j + 1 + k) /\ 4 * j + 1 + k \in Nat
    BY <1>8
  <2> QED
    BY ONLY <1>8, <2>1
<1>9. CASE b = 2048
  <2>1. p = 2048 * (2 * j + 1 + k) /\ 2 * j + 1 + k \in Nat
    BY <1>9
  <2> QED
    BY ONLY <1>9, <2>1
<1> QED
  BY <1>1, <1>2, <1>3, <1>4, <1>5, <1>6, <1>7, <1>8, <1>9 DEF BlockSizes

(* Any block of a slab: kalloc gives it for sizes that it holds, and kfree *)
(* finds its slab, wherever the slab's page lies.                          *)
LEMMA BlockRight ==
  ASSUME NEW page \in Nat, page % 4096 = 0, NEW type \in SlabTypes,
         NEW k \in 0 .. block_num(type) - 1
  PROVE  LET block == BlockAt(page, type, k) IN
         /\ block >= page + SlabHeader /\ block + 2^type <= page + SLAB_SPACE
         /\ is_aligned(block, type)
         /\ ~FreesPage(block) /\ SlabOf(block) = page
         /\ k > 0 => BlockAt(page, type, k - 1) + 2^type <= block
<1> PICK b, o : Slot(type, b, o)
  BY SlotOf
<1>1. SLAB_SPACE = 4096 /\ SlabHeader \in 1 .. 64 /\ 2^12 = 4096
  BY LayoutAssumption
<1>2. PICK j \in Nat : page = 4096 * j
  <2>1. page = 4096 * (page \div 4096) /\ page \div 4096 \in Nat
    OBVIOUS
  <2> QED
    BY <2>1
<1> PICK p : p = BlockAt(page, type, k)
  OBVIOUS
<1>3. p = page + o + k * b /\ (k > 0 => BlockAt(page, type, k - 1) = page + o + (k - 1) * b)
  BY DEF BlockAt, Slot
<1>4. /\ b \in BlockSizes /\ o = (IF b < 64 THEN 64 ELSE b) /\ b \in Nat /\ b > 0 /\ o \in Nat /\ o >= 64
      /\ k \in Nat /\ k \in 0 .. ((4096 - o) \div b) - 1
  BY DEF Slot, BlockSizes
<1>5. p % b = 0
  <2>1. InSlab(p, j, o, k, b)
    BY <1>2, <1>3 DEF InSlab
  <2>2. Multiple(p, b)
    BY <1>4, <2>1, AlignedBlock
  <2> QED
    BY <2>2 DEF Multiple
<1> PICK kb, h : kb = k * b /\ h = SlabHeader
  OBVIOUS
<1>6. kb \in Nat /\ o + kb + b <= 4096 /\ p = page + o + kb /\ (k > 0 => (k - 1) * b + b = kb)
  BY <1>3, <1>4, RoomFor
<1>7. p >= page + h /\ p + b <= page + 4096 /\ p > page /\ p < page + 4096
  BY ONLY <1>1, <1>4, <1>6, page \in Nat, h = SlabHeader
<1>8. p % 4096 # 0 /\ (p \div 4096) * 4096 = page
  BY ONLY <1>2, <1>4, <1>6, <1>7, page \in Nat
<1>9. ASSUME k > 0 PROVE BlockAt(page, type, k - 1) + b <= p
  <2> PICK lb : lb = (k - 1) * b
    OBVIOUS
  <2>1. lb \in Nat /\ lb + b = kb /\ BlockAt(page, type, k - 1) = page + o + lb
    BY <1>3, <1>4, <1>6, <1>9
  <2> QED
    BY ONLY <1>4, <1>6, <2>1, page \in Nat
<1>10. 2^type = b
  BY DEF Slot
<1> QED
  BY <1>1, <1>5, <1>7, <1>8, <1>9, <1>10 DEF is_aligned, FreesPage, SlabOf

(* A slab serves what kalloc asks of it and kfree finds it again, in any   *)
(* page and for any size (slab_init, trans_slab_size, slab_free: slab.c;   *)
(* kfree: pmm.c).                                                          *)
THEOREM BlocksAreFound ==
  ASSUME NEW size \in Nat, NEW page \in Nat, is_aligned(page, P_4K)
  PROVE  DispatchRight(size, page)
<1> PICK type : type = trans_slab_size(size)
  OBVIOUS
<1> SUFFICES ASSUME type # S_REFUSE PROVE DispatchRight(size, page)
  BY DEF DispatchRight
<1>1. type \in SlabTypes /\ size <= 2^type
  BY FitsType
<1>2. page % 4096 = 0 /\ FreesPage(page)
  BY LayoutAssumption DEF is_aligned, FreesPage
<1>3. block_num(type) >= 1
  <2>1. PICK b, o : Slot(type, b, o)
    BY <1>1, SlotOf
  <2> QED
    BY <2>1 DEF Slot
<1> QED
  BY <1>1, <1>2, <1>3, BlockRight DEF DispatchRight

LEMMA Monotone ==
  ASSUME NEW s \in Nat, NEW m \in Nat, NEW k \in Nat, s <= m
  PROVE  s * k <= m * k
<1>1. PICK d \in Nat : m = s + d
  <2>1. m - s \in Nat /\ m = s + (m - s)
    OBVIOUS
  <2> QED
    BY <2>1
<1>2. (s + d) * k = s * k + d * k /\ d * k \in Nat /\ s * k \in Nat
  OBVIOUS
<1> QED
  BY <1>1, <1>2

(* The trees of all units lie below the first unit, the last unit lies in  *)
(* the heap, and page_pool has room for all, as long as the heap ends      *)
(* below as many units as page_pool has entries: 4G, for the 256           *)
(* (page_system_init: page.c).                                             *)
THEOREM UnitsLieInHeap ==
  ASSUME NEW heapStart \in Nat, NEW heapEnd \in Nat,
         heapEnd <= (MAX_PAGE_NUM + 1) * 2^P_16M
  PROVE  UnitsFit(heapStart, heapEnd)
<1> PICK u, begin, n : /\ u = 16777216 /\ begin = HeapBegin(heapStart)
                       /\ n = real_page_num(heapStart, heapEnd)
  OBVIOUS
<1>1. 2^P_16M = u /\ P_16M = 24
  BY LayoutAssumption
<1>2. begin = IF heapStart % u = 0 THEN heapStart ELSE (heapStart \div u) * u + u
  BY <1>1 DEF HeapBegin, align_ptr
<1>3. begin \in Nat /\ begin >= heapStart
  BY ONLY <1>2, u = 16777216, heapStart \in Nat
<1>4. \A i \in Int : UnitAt(heapStart, i) = begin + (i + 1) * u
  BY <1>1 DEF UnitAt
<1>5. UnitAt(heapStart, 0) = begin + u
  BY <1>3, <1>4
<1>6. n = LET left == heapEnd - (begin + u) IN IF left < 0 THEN 0 ELSE left \div u
  BY <1>1, <1>5 DEF real_page_num
<1>7. n \in Nat /\ (n > 0 => n * u <= heapEnd - (begin + u))
  BY ONLY <1>3, <1>6, u = 16777216, heapEnd \in Nat
<1>8. UnitAt(heapStart, n) = begin + (n + 1) * u
  BY <1>4, <1>7
<1>9. n <= MAX_PAGE_NUM
  <2> PICK m : m = MAX_PAGE_NUM
    OBVIOUS
  <2>1. m \in Nat /\ heapEnd <= (m + 1) * u
    BY <1>1, LayoutAssumption
  <2> QED
    BY ONLY <1>3, <1>7, <1>6, <2>1, u = 16777216, heapEnd \in Nat, m = MAX_PAGE_NUM
<1>10. TreeAt(heapStart, n) = begin + n * NodeBytes /\ n * NodeBytes <= u
  <2>1. n * NodeBytes <= MAX_PAGE_NUM * NodeBytes
    <3> PICK m, k, s : m = MAX_PAGE_NUM /\ k = NodeBytes /\ s = n
      OBVIOUS
    <3>1. m \in Nat /\ k \in Nat /\ s \in Nat /\ s <= m
      BY <1>7, <1>9, LayoutAssumption
    <3>2. s * k <= m * k
      BY <3>1, Monotone
    <3> QED
      BY <3>2
  <2>2. n * NodeBytes \in Nat /\ MAX_PAGE_NUM * NodeBytes \in Nat
    BY <1>7, LayoutAssumption
  <2> PICK t, z : t = n * NodeBytes /\ z = MAX_PAGE_NUM * NodeBytes
    OBVIOUS
  <2>3. z <= u
    BY <1>1, LayoutAssumption
  <2>4. t \in Nat /\ z \in Nat /\ t <= z
    BY <2>1, <2>2
  <2>5. t <= u
    BY ONLY <2>3, <2>4, u = 16777216
  <2> QED
    BY <1>1, <2>5 DEF TreeAt
<1>11. n > 0 => UnitAt(heapStart, n) <= heapEnd
  BY ONLY <1>3, <1>7, <1>8, u = 16777216, heapEnd \in Nat
<1>12. TreeAt(heapStart, n) <= UnitAt(heapStart, 0)
  <2>1. n * NodeBytes \in Nat
    BY <1>7, LayoutAssumption
  <2> PICK t : t = n * NodeBytes
    OBVIOUS
  <2>2. t \in Nat /\ t <= u /\ TreeAt(heapStart, n) = begin + t
    BY <1>10, <2>1
  <2> QED
    BY ONLY <1>3, <1>5, <2>2, u = 16777216
<1>13. n <= MAX_PAGE_NUM + 1
  BY <1>7, <1>9, LayoutAssumption
<1> QED
  BY <1>3, <1>11, <1>12, <1>13 DEF UnitsFit

(* In the pages of slabs and for the heaps that LayoutAssumption and       *)
(* HeapAssumption admit, kalloc's blocks are where kfree looks for them,   *)
(* and the units lie in the heap.                                          *)
THEOREM LayoutIsRight == LayoutSpec => []LayoutRight
<1> DEFINE Calls == {<<>>} \cup [size : 0 .. MaxSize, page : SlabPages]
                           \cup [start : HeapStarts, end : HeapEnds]
           Called == layout_call \in Calls
<1>1. LayoutInit => Called
  BY DEF LayoutInit
<1>2. Called /\ [LayoutNext]_layout_call => Called'
  BY DEF LayoutNext, Request, LayHeap
<1>3. Called => LayoutRight
  <2> SUFFICES ASSUME Called PROVE LayoutRight
    OBVIOUS
  <2>1. ASSUME NEW call \in [size : 0 .. MaxSize, page : SlabPages], layout_call = call
        PROVE  LayoutRight
    <3>1. call.size \in Nat /\ call.page \in Nat /\ is_aligned(call.page, P_4K)
      <4>1. call.size \in 0 .. MaxSize /\ call.page \in SlabPages
        OBVIOUS
      <4>2. MaxSize \in Nat /\ \A p \in SlabPages : p \in Nat /\ p % 2^P_4K = 0
        BY LayoutAssumption
      <4> QED
        BY <4>1, <4>2 DEF is_aligned
    <3>2. DispatchRight(call.size, call.page)
      BY <3>1, BlocksAreFound
    <3>3. "start" \notin DOMAIN call
      OBVIOUS
    <3> QED
      BY <2>1, <3>2, <3>3 DEF LayoutRight
  <2>2. ASSUME NEW call \in [start : HeapStarts, end : HeapEnds], layout_call = call
        PROVE  LayoutRight
    <3>1. /\ call.start \in HeapStarts /\ call.end \in HeapEnds
          /\ call.start \in Nat /\ call.end \in Nat
      BY LayoutAssumption
    <3>2. UnitsFit(call.start, call.end)
      BY <3>1, HeapAssumption, UnitsLieInHeap
    <3>3. "size" \notin DOMAIN call
      OBVIOUS
    <3> QED
      BY <2>2, <3>2, <3>3 DEF LayoutRight
  <2>3. ASSUME layout_call = <<>> PROVE LayoutRight
    <3>1. "size" \notin DOMAIN layout_call /\ "start" \notin DOMAIN layout_call
      BY <2>3
    <3> QED
      BY <3>1 DEF LayoutRight
  <2> QED
    BY <2>1, <2>2, <2>3
<1> QED
  BY <1>1, <1>2, <1>3, PTL DEF LayoutSpec

-----------------------------------------------------------------------------
(* Copies and comparisons of the C library *)
Addresses == 0 .. MemorySize - 1
Memories == [Addresses -> Chars]

(* The memory m after n bytes were set, or copied. *)
Filled(m, s, c, n) == [a \in DOMAIN m |-> IF a \in s .. s + n - 1 THEN c ELSE m[a]]
Copied(m, out, in, n) ==
  [a \in DOMAIN m |-> IF a \in out .. out + n - 1 THEN m[in + a - out] ELSE m[a]]

LEMMA MemsetIs ==
  ASSUME NEW m \in Memories, NEW s \in Addresses, NEW c, NEW n \in 0 .. MemorySize - s
  PROVE  Memset(m, s, c, n) = Filled(m, s, c, n)
<1> DEFINE Is(f) == f = [i \in 0 .. n |-> IF i = 0 THEN m ELSE [f[i - 1] EXCEPT ![s + i - 1] = c]]
<1>1. MemorySize \in Nat /\ n \in Nat /\ DOMAIN m = Addresses /\ s \in Nat /\ s + n <= MemorySize
  BY KlibAssumption DEF Addresses, Memories
<1>2. Filled(m, s, c, 0) = m
  BY <1>1 DEF Filled, Memories, Addresses
<1>3. ASSUME NEW i \in 1 .. n
      PROVE  [Filled(m, s, c, i - 1) EXCEPT ![s + i - 1] = c] = Filled(m, s, c, i)
  <2>1. i - 1 \in Nat /\ s + i - 1 \in Addresses /\ s + (i - 1) - 1 \in Int
    BY <1>1 DEF Addresses
  <2>2. \A a \in Addresses : a \in s .. s + i - 1 <=> a = s + i - 1 \/ a \in s .. s + (i - 1) - 1
    BY <1>1, <2>1 DEF Addresses
  <2>3. \A a \in Addresses : Filled(m, s, c, i)[a]
          = IF a = s + i - 1 THEN c ELSE Filled(m, s, c, i - 1)[a]
    BY <1>1, <2>2 DEF Filled
  <2>4. DOMAIN Filled(m, s, c, i) = Addresses /\ DOMAIN Filled(m, s, c, i - 1) = Addresses
        /\ Filled(m, s, c, i) = [a \in Addresses |-> Filled(m, s, c, i)[a]]
    BY <1>1 DEF Filled
  <2> QED
    BY <2>1, <2>3, <2>4
<1>4. \E f : Is(f)
  <2>1. PICK f : f = [i \in 0 .. n |-> Filled(m, s, c, i)]
    OBVIOUS
  <2>2. \A i \in 0 .. n : i # 0 => i \in 1 .. n /\ f[i - 1] = Filled(m, s, c, i - 1)
    BY <1>1, <2>1
  <2>3. \A i \in 0 .. n : f[i] = IF i = 0 THEN m ELSE [f[i - 1] EXCEPT ![s + i - 1] = c]
    BY <1>2, <1>3, <2>1, <2>2
  <2> QED
    BY <2>1, <2>3
<1>5. PICK g : g = CHOOSE h : Is(h)
  OBVIOUS
<1>6. Is(g)
  <2> HIDE DEF Is
  <2> QED
    BY <1>4, <1>5
<1>7. Memset(m, s, c, n) = g[n]
  BY <1>5 DEF Memset
<1> DEFINE S == {i \in 0 .. n : g[i] = Filled(m, s, c, i)}
<1>8. 0 \in S
  <2>1. 0 \in 0 .. n
    BY <1>1
  <2> QED
    BY <1>2, <1>6, <2>1
<1>9. ASSUME NEW i \in 0 .. n - 1, i \in S PROVE i + 1 \in S
  <2>1. i + 1 \in 1 .. n /\ i + 1 \in 0 .. n /\ i + 1 # 0 /\ (i + 1) - 1 = i
    BY <1>1
  <2>2. g[i + 1] = [g[(i + 1) - 1] EXCEPT ![s + (i + 1) - 1] = c]
    BY <1>6, <2>1
  <2>3. g[i] = Filled(m, s, c, i)
    BY <1>9
  <2>4. g[i + 1] = Filled(m, s, c, i + 1)
    BY <1>3, <2>1, <2>2, <2>3
  <2> QED
    BY <2>1, <2>4
<1>10. \A i \in 0 .. n : i \in S
  <2> HIDE DEF S
  <2> QED
    BY <1>1, <1>8, <1>9, UpTo
<1> QED
  BY <1>1, <1>7, <1>10

LEMMA MemcpyIs ==
  ASSUME NEW m \in Memories, NEW out \in Addresses, NEW in \in Addresses, out <= in,
         NEW n \in 0 .. MemorySize - in
  PROVE  Memcpy(m, out, in, n) = Copied(m, out, in, n)
<1> DEFINE Step(c, i) == [c EXCEPT ![out + i - 1] = c[in + i - 1]]
           Is(f) == f = [i \in 0 .. n |-> IF i = 0 THEN m ELSE Step(f[i - 1], i)]
<1>1. /\ MemorySize \in Nat /\ n \in Nat /\ DOMAIN m = Addresses /\ out \in Nat /\ in \in Nat
      /\ in + n <= MemorySize
  BY KlibAssumption DEF Addresses, Memories
<1>2. Copied(m, out, in, 0) = m
  BY <1>1 DEF Copied, Memories, Addresses
<1>3. ASSUME NEW i \in 1 .. n
      PROVE  Step(Copied(m, out, in, i - 1), i) = Copied(m, out, in, i)
  <2>1. /\ out + i - 1 \in Addresses /\ in + i - 1 \in Addresses
        /\ in + i - 1 \notin out .. out + (i - 1) - 1
        /\ in + (out + i - 1) - out = in + i - 1
    BY <1>1 DEF Addresses
  <2>2. \A a \in Addresses :
          a \in out .. out + i - 1 <=> a = out + i - 1 \/ a \in out .. out + (i - 1) - 1
    BY <1>1, <2>1 DEF Addresses
  <2>3. Copied(m, out, in, i - 1)[in + i - 1] = m[in + i - 1]
    BY <1>1, <2>1 DEF Copied
  <2>4. \A a \in Addresses : Copied(m, out, in, i)[a]
          = IF a = out + i - 1 THEN m[in + i - 1] ELSE Copied(m, out, in, i - 1)[a]
    BY <1>1, <2>1, <2>2 DEF Copied
  <2>5. DOMAIN Copied(m, out, in, i) = Addresses /\ DOMAIN Copied(m, out, in, i - 1) = Addresses
        /\ Copied(m, out, in, i) = [a \in Addresses |-> Copied(m, out, in, i)[a]]
    BY <1>1 DEF Copied
  <2> QED
    BY <2>1, <2>3, <2>4, <2>5
<1>4. \E f : Is(f)
  <2>1. PICK f : f = [i \in 0 .. n |-> Copied(m, out, in, i)]
    OBVIOUS
  <2>2. \A i \in 0 .. n : i # 0 => i \in 1 .. n /\ f[i - 1] = Copied(m, out, in, i - 1)
    BY <1>1, <2>1
  <2>3. \A i \in 0 .. n : f[i] = IF i = 0 THEN m ELSE Step(f[i - 1], i)
    <3> HIDE DEF Step
    <3> QED
      BY <1>2, <1>3, <2>1, <2>2
  <2> HIDE DEF Step
  <2> QED
    BY <2>1, <2>3
<1>5. PICK g : g = CHOOSE h : Is(h)
  OBVIOUS
<1>6. Is(g)
  <2> HIDE DEF Is
  <2> QED
    BY <1>4, <1>5
<1>7. Memcpy(m, out, in, n) = g[n]
  BY <1>5 DEF Memcpy
<1> HIDE DEF Step
<1> DEFINE S == {i \in 0 .. n : g[i] = Copied(m, out, in, i)}
<1>8. 0 \in S
  <2>1. 0 \in 0 .. n
    BY <1>1
  <2> QED
    BY <1>2, <1>6, <2>1
<1>9. ASSUME NEW i \in 0 .. n - 1, i \in S PROVE i + 1 \in S
  <2>1. i + 1 \in 1 .. n /\ i + 1 \in 0 .. n /\ i + 1 # 0 /\ (i + 1) - 1 = i
    BY <1>1
  <2>2. g[i + 1] = Step(g[(i + 1) - 1], i + 1)
    BY <1>6, <2>1
  <2>3. g[i] = Copied(m, out, in, i)
    BY <1>9
  <2>4. g[i + 1] = Copied(m, out, in, i + 1)
    BY <1>3, <2>1, <2>2, <2>3
  <2> QED
    BY <2>1, <2>4
<1>10. \A i \in 0 .. n : i \in S
  <2> HIDE DEF S
  <2> QED
    BY <1>1, <1>8, <1>9, UpTo
<1> QED
  BY <1>1, <1>7, <1>10

(* The first NUL from s on ends the string at s. *)
LEMMA StrlenIs ==
  ASSUME NEW m \in Memories, NEW s \in Addresses, Terminated(m, s)
  PROVE  /\ Strlen(m, s) \in Nat /\ s + Strlen(m, s) \in Addresses
         /\ m[s + Strlen(m, s)] = 0 /\ \A i \in 0 .. Strlen(m, s) - 1 : m[s + i] # 0
<1>1. MemorySize \in Nat /\ DOMAIN m = Addresses
  BY KlibAssumption DEF Memories
<1>2. Cardinality(DOMAIN m) = MemorySize
  <2>1. MemorySize - 1 \in Int /\ 0 <= MemorySize - 1
    BY <1>1 DEF Addresses
  <2>2. Cardinality(0 .. MemorySize - 1) = (MemorySize - 1) - 0 + 1
    BY <2>1, FS_Interval
  <2> QED
    BY <1>1, <2>2 DEF Addresses
<1> DEFINE S == {n \in Nat : s + n \in Addresses /\ m[s + n] = 0}
           Ends(n) == m[s + n] = 0 /\ \A i \in 0 .. n - 1 : m[s + i] # 0
<1>3. PICK a \in Addresses : a >= s /\ m[a] = 0
  BY <1>1 DEF Terminated
<1>4. a - s \in S
  <2>1. a - s \in Nat /\ s + (a - s) = a
    BY <1>1, <1>3 DEF Addresses
  <2> QED
    BY <1>3, <2>1
<1>5. PICK n \in S : \A k \in S : n <= k
  <2>1. S \in SUBSET Nat /\ S # {}
    BY <1>4
  <2> HIDE DEF S
  <2> QED
    BY <2>1, LeastCounterexample
<1>6. n \in 0 .. MemorySize /\ Ends(n)
  <2>1. n \in 0 .. MemorySize /\ m[s + n] = 0
    BY <1>1, <1>5 DEF Addresses
  <2>2. ASSUME NEW i \in 0 .. n - 1, m[s + i] = 0 PROVE FALSE
    <3>1. i \in Nat /\ i < n /\ s + i \in Addresses
      BY <1>1, <1>5, <2>1 DEF Addresses
    <3> QED
      BY <1>5, <2>2, <3>1
  <2> QED
    BY <2>1, <2>2
<1> PICK l : l = Strlen(m, s)
  OBVIOUS
<1>7. l \in 0 .. MemorySize /\ Ends(l)
  <2>1. l = CHOOSE k \in 0 .. MemorySize : Ends(k)
    BY <1>2 DEF Strlen
  <2> HIDE DEF Ends
  <2> QED
    BY <1>6, <2>1
<1>8. l <= n
  <2> SUFFICES ASSUME l > n PROVE FALSE
    BY <1>6, <1>7
  <2>1. n \in 0 .. l - 1
    BY <1>6, <1>7
  <2> QED
    BY <1>6, <1>7, <2>1
<1> QED
  BY <1>1, <1>5, <1>7, <1>8 DEF Addresses

(* It is the only one with that property. *)
LEMMA StrlenUnique ==
  ASSUME NEW m \in Memories, NEW s \in Addresses, NEW n \in Nat, s + n \in Addresses,
         m[s + n] = 0, \A i \in 0 .. n - 1 : m[s + i] # 0
  PROVE  Terminated(m, s) /\ Strlen(m, s) = n
<1>1. Terminated(m, s)
  BY KlibAssumption DEF Terminated, Memories, Addresses
<1> PICK l : l = Strlen(m, s)
  OBVIOUS
<1>2. l \in Nat /\ m[s + l] = 0 /\ \A i \in 0 .. l - 1 : m[s + i] # 0
  BY <1>1, StrlenIs
<1>3. ~(l < n) /\ ~(n < l)
  <2>1. l < n => l \in 0 .. n - 1
    BY <1>2
  <2>2. n < l => n \in 0 .. l - 1
    BY <1>2
  <2> QED
    BY <1>2, <2>1, <2>2
<1> QED
  BY <1>1, <1>2, <1>3

LEMMA CharsInMemory ==
  ASSUME NEW m \in Memories
  PROVE  \A a \in Addresses : m[a] \in Nat
<1>1. \A a \in Addresses : m[a] \in Chars
  BY DEF Memories
<1> QED
  BY <1>1, KlibAssumption

(* What strcpy leaves: the string at src, from dst on. *)
LEMMA StrcpyIs ==
  ASSUME NEW m \in Memories, NEW dst \in Addresses, NEW src \in Addresses,
         Terminated(m, src), dst + Strlen(m, src) < src
  PROVE  LET c == Strcpy(m, dst, src)  l == Strlen(m, src) IN
         /\ c \in Memories /\ dst + l \in Addresses /\ c[dst + l] = 0
         /\ \A i \in 0 .. l - 1 : c[dst + i] = m[src + i]
         /\ \A a \in Addresses : a < dst => c[a] = m[a]
<1> DEFINE c == Strcpy(m, dst, src)  l == Strlen(m, src)  k == Copied(m, dst, src, l)
<1>1. /\ MemorySize \in Nat /\ dst \in Nat /\ src \in Nat /\ src < MemorySize /\ DOMAIN m = Addresses
      /\ l \in Nat /\ src + l < MemorySize /\ dst + l < src
  BY KlibAssumption, StrlenIs DEF Addresses, Memories
<1> HIDE DEF l
<1>2. Memcpy(m, dst, src, l) = k
  BY <1>1, MemcpyIs
<1>3. c = [k EXCEPT ![dst + l] = 0]
  BY <1>2 DEF Strcpy, Strncpy, l
<1>4. dst + l \in Addresses
  BY <1>1 DEF Addresses
<1>5. k \in Memories
  <2>1. \A a \in Addresses : a \in dst .. dst + l - 1 => src + a - dst \in Addresses
    BY <1>1 DEF Addresses
  <2> QED
    BY <1>1, <2>1 DEF Memories, Copied
<1>6. c \in Memories /\ c[dst + l] = 0
  BY <1>3, <1>4, <1>5, KlibAssumption DEF Memories
<1>7. ASSUME NEW i \in 0 .. l - 1 PROVE c[dst + i] = m[src + i]
  <2>1. dst + i \in Addresses /\ dst + i # dst + l /\ dst + i \in dst .. dst + l - 1
        /\ src + (dst + i) - dst = src + i
    BY <1>1 DEF Addresses
  <2>2. c[dst + i] = k[dst + i]
    BY <1>3, <1>5, <2>1 DEF Memories
  <2> QED
    BY <1>1, <2>1, <2>2 DEF Copied
<1>8. ASSUME NEW a \in Addresses, a < dst PROVE c[a] = m[a]
  <2>1. a # dst + l /\ a \notin dst .. dst + l - 1
    BY <1>1, <1>8 DEF Addresses
  <2>2. c[a] = k[a]
    BY <1>3, <1>5, <2>1 DEF Memories
  <2> QED
    BY <1>1, <2>1, <2>2 DEF Copied
<1> QED
  BY <1>4, <1>6, <1>7, <1>8 DEF l

LEMMA StringCopied ==
  ASSUME NEW m \in Memories, NEW dst \in Addresses, NEW src \in Addresses,
         Terminated(m, src), dst + Len(StringAt(m, src)) < src
  PROVE  StringAt(Strcpy(m, dst, src), dst) = StringAt(m, src)
<1> DEFINE c == Strcpy(m, dst, src)  l == Strlen(m, src)
<1>1. /\ l \in Nat /\ src + l \in Addresses /\ m[src + l] = 0
      /\ \A i \in 0 .. l - 1 : m[src + i] # 0
  BY StrlenIs
<1>2. Len(StringAt(m, src)) = l
  BY <1>1 DEF StringAt
<1>3. /\ c \in Memories /\ dst + l \in Addresses /\ c[dst + l] = 0
      /\ \A i \in 0 .. l - 1 : c[dst + i] = m[src + i]
  BY <1>2, StrcpyIs
<1> HIDE DEF c, l
<1>4. Strlen(c, dst) = l
  BY <1>1, <1>3, StrlenUnique
<1>5. \A i \in 1 .. l : c[dst + i - 1] = m[src + i - 1]
  <2> SUFFICES ASSUME NEW i \in 1 .. l PROVE c[dst + i - 1] = m[src + i - 1]
    OBVIOUS
  <2>1. i - 1 \in 0 .. l - 1 /\ dst + (i - 1) = dst + i - 1 /\ src + (i - 1) = src + i - 1
    BY <1>1, KlibAssumption DEF Addresses
  <2> QED
    BY <1>3, <2>1
<1>6. StringAt(c, dst) = [i \in 1 .. l |-> c[dst + i - 1]]
      /\ StringAt(m, src) = [i \in 1 .. l |-> m[src + i - 1]]
  BY <1>4 DEF StringAt, l
<1> QED
  BY <1>5, <1>6 DEF c

LEMMA StringsJoined ==
  ASSUME NEW m \in Memories, NEW dst \in Addresses, NEW src \in Addresses,
         Terminated(m, src), Terminated(m, dst),
         dst + Len(StringAt(m, dst)) + Len(StringAt(m, src)) < src
  PROVE  StringAt(Strcat(m, dst, src), dst) = StringAt(m, dst) \o StringAt(m, src)
<1> DEFINE c == Strcat(m, dst, src)  l == Strlen(m, src)  k == Strlen(m, dst)
<1>1. /\ l \in Nat /\ src + l \in Addresses /\ m[src + l] = 0
      /\ \A i \in 0 .. l - 1 : m[src + i] # 0
  BY StrlenIs
<1>2. /\ k \in Nat /\ dst + k \in Addresses /\ \A i \in 0 .. k - 1 : m[dst + i] # 0
  BY StrlenIs
<1>3. /\ MemorySize \in Nat /\ dst \in Nat /\ src \in Nat /\ src < MemorySize
      /\ \A a \in Addresses : m[a] \in Nat
  BY KlibAssumption, CharsInMemory DEF Addresses
<1>4. StringAt(m, src) = [i \in 1 .. l |-> m[src + i - 1]]
      /\ StringAt(m, dst) = [i \in 1 .. k |-> m[dst + i - 1]]
  BY DEF StringAt
<1>5. Len(StringAt(m, src)) = l /\ Len(StringAt(m, dst)) = k
  <2> HIDE DEF l, k
  <2> QED
    BY <1>1, <1>2, <1>4
<1>6. c = Strcpy(m, dst + k, src)
  BY DEF Strcat
<1>7. /\ c \in Memories /\ (dst + k) + l \in Addresses /\ c[(dst + k) + l] = 0
      /\ \A i \in 0 .. l - 1 : c[(dst + k) + i] = m[src + i]
      /\ \A a \in Addresses : a < dst + k => c[a] = m[a]
  BY <1>2, <1>5, <1>6, StrcpyIs
<1> HIDE DEF c, l, k
<1>8. ASSUME NEW i \in 0 .. k - 1 PROVE c[dst + i] = m[dst + i]
  <2>1. dst + i \in Addresses /\ dst + i < dst + k
    BY <1>2, <1>3 DEF Addresses
  <2> QED
    BY <1>7, <2>1
<1>9. ASSUME NEW i \in k .. k + l - 1 PROVE c[dst + i] = m[src + (i - k)] /\ i - k \in 0 .. l - 1
  <2>1. i - k \in 0 .. l - 1 /\ (dst + k) + (i - k) = dst + i
    BY <1>1, <1>2, <1>3
  <2> QED
    BY <1>7, <2>1
<1>10. Strlen(c, dst) = k + l
  <2>1. k + l \in Nat /\ dst + (k + l) = (dst + k) + l
    BY <1>1, <1>2, <1>3
  <2>2. ASSUME NEW i \in 0 .. (k + l) - 1 PROVE c[dst + i] # 0
    <3>1. CASE i < k
      <4>1. i \in 0 .. k - 1
        BY <1>2, <3>1
      <4> QED
        BY <1>2, <1>8, <4>1
    <3>2. CASE i >= k
      <4>1. i \in k .. k + l - 1
        BY <1>1, <1>2, <3>2
      <4> QED
        BY <1>1, <1>9, <4>1
    <3> QED
      BY <1>2, <3>1, <3>2
  <2> QED
    BY <1>7, <2>1, <2>2, StrlenUnique
<1>11. StringAt(c, dst) = [i \in 1 .. k + l |-> c[dst + i - 1]]
  BY <1>10 DEF StringAt
<1>12. StringAt(m, dst) \o StringAt(m, src)
         = [i \in 1 .. k + l |-> IF i <= k THEN m[dst + i - 1] ELSE m[src + (i - k) - 1]]
  <2> PICK d, s : d = StringAt(m, dst) /\ s = StringAt(m, src)
    OBVIOUS
  <2>1. d \in Seq(Nat) /\ s \in Seq(Nat)
    <3>1. \A i \in 1 .. k : dst + i - 1 \in Addresses
      BY <1>2, <1>3 DEF Addresses
    <3>2. \A i \in 1 .. l : src + i - 1 \in Addresses
      BY <1>1, <1>3 DEF Addresses
    <3>3. d \in [1 .. k -> Nat] /\ s \in [1 .. l -> Nat]
      BY <1>3, <1>4, <3>1, <3>2
    <3> QED
      BY <1>1, <1>2, <3>3
  <2>2. Len(d) = k /\ Len(s) = l
    BY <1>5
  <2> PICK e : e = d \o s
    OBVIOUS
  <2>3. /\ e \in Seq(Nat) /\ Len(e) = Len(d) + Len(s)
        /\ \A i \in 1 .. Len(d) + Len(s) : e[i] = IF i <= Len(d) THEN d[i] ELSE s[i - Len(d)]
    BY <2>1, ConcatProperties
  <2>4. e = [i \in 1 .. k + l |-> e[i]]
    BY ONLY <2>2, <2>3
  <2>5. \A i \in 1 .. k + l : e[i] = IF i <= k THEN m[dst + i - 1] ELSE m[src + (i - k) - 1]
    <3> SUFFICES ASSUME NEW i \in 1 .. k + l
                 PROVE  e[i] = IF i <= k THEN m[dst + i - 1] ELSE m[src + (i - k) - 1]
      OBVIOUS
    <3>1. i <= k => i \in 1 .. k
      BY <1>1, <1>2
    <3>2. ~(i <= k) => i - k \in 1 .. l
      BY <1>1, <1>2
    <3>3. e[i] = IF i <= k THEN d[i] ELSE s[i - k]
      BY <2>2, <2>3
    <3> QED
      BY <1>4, <3>1, <3>2, <3>3
  <2> QED
    BY <2>4, <2>5
<1>13. ASSUME NEW i \in 1 .. k + l
       PROVE  c[dst + i - 1] = IF i <= k THEN m[dst + i - 1] ELSE m[src + (i - k) - 1]
  <2>1. i \in Nat /\ dst + (i - 1) = dst + i - 1 /\ src + ((i - 1) - k) = src + (i - k) - 1
    BY <1>1, <1>2, <1>3
  <2>2. CASE i <= k
    <3>1. i - 1 \in 0 .. k - 1
      BY <1>2, <2>1, <2>2
    <3> QED
      BY <1>8, <2>1, <2>2, <3>1
  <2>3. CASE ~(i <= k)
    <3>1. i - 1 \in k .. k + l - 1
      BY <1>1, <1>2, <2>1, <2>3
    <3> QED
      BY <1>9, <2>1, <2>3, <3>1
  <2> QED
    BY <2>2, <2>3
<1> QED
  BY <1>11, <1>12, <1>13 DEF c

(* The character at place n of a string, or the NUL behind it. *)
CharAt(d, n, x) == IF n < Len(d) THEN x = d[n + 1] /\ x > 0 ELSE x = 0

(* Where two strings differ first decides which of them precedes the other. *)
LEMMA FirstDifference ==
  ASSUME NEW d \in Seq(Nat), NEW s \in Seq(Nat), NEW n \in Nat, n <= Len(d), n <= Len(s),
         NEW x \in Nat, NEW y \in Nat, x # y,
         CharAt(d, n, x), CharAt(s, n, y),
         \A i \in 1 .. n : d[i] = s[i]
  PROVE  d # s /\ (Precedes(d, s) <=> x < y)
<1> USE DEF CharAt
<1>1. d # s
  OBVIOUS
<1>2. ASSUME x < y PROVE Precedes(d, s)
  <2>1. n \in 0 .. Len(d) /\ n < Len(s) /\ (n = Len(d) \/ d[n + 1] < s[n + 1])
    BY <1>2
  <2>2. SubSeq(d, 1, n) = SubSeq(s, 1, n)
    <3>1. SubSeq(d, 1, n) = [i \in 1 .. n |-> d[i]] /\ SubSeq(s, 1, n) = [i \in 1 .. n |-> s[i]]
      OBVIOUS
    <3> QED
      BY <3>1
  <2> QED
    BY <2>1, <2>2 DEF Precedes
<1>3. ASSUME x > y, Precedes(d, s) PROVE FALSE
  <2>1. PICK k \in 0 .. Len(d) : /\ k <= Len(s) /\ SubSeq(d, 1, k) = SubSeq(s, 1, k)
                                 /\ k < Len(s) /\ (k = Len(d) \/ d[k + 1] < s[k + 1])
    BY <1>3 DEF Precedes
  <2>2. CASE k < n
    <3>1. k + 1 \in 1 .. n
      BY <2>2
    <3> QED
      BY <2>1, <2>2, <3>1
  <2>3. CASE k = n
    BY <1>3, <2>1, <2>3
  <2>4. CASE k > n
    <3>1. SubSeq(d, 1, k) = [i \in 1 .. k |-> d[i]] /\ SubSeq(s, 1, k) = [i \in 1 .. k |-> s[i]]
      BY <2>1
    <3>2. n + 1 \in 1 .. k /\ n < Len(d) /\ n < Len(s)
      BY <2>1, <2>4
    <3>3. SubSeq(d, 1, k)[n + 1] = d[n + 1] /\ SubSeq(s, 1, k)[n + 1] = s[n + 1]
      BY <3>1, <3>2
    <3> QED
      BY <2>1, <3>2, <3>3
  <2> QED
    BY <2>1, <2>2, <2>3, <2>4
<1> QED
  BY <1>1, <1>2, <1>3

LEMMA StringsCompared ==
  ASSUME NEW m \in Memories, NEW dst \in Addresses, NEW src \in Addresses,
         Terminated(m, dst), Terminated(m, src)
  PROVE  LET d == StringAt(m, dst)  s == StringAt(m, src) IN
         Sign(Strcmp(m, dst, src)) = IF d = s THEN 0 ELSE IF Precedes(d, s) THEN -1 ELSE 1
<1> DEFINE k == Strlen(m, dst)  l == Strlen(m, src)
           d == StringAt(m, dst)  s == StringAt(m, src)
<1>1. /\ k \in Nat /\ dst + k \in Addresses /\ m[dst + k] = 0 /\ \A i \in 0 .. k - 1 : m[dst + i] # 0
      /\ l \in Nat /\ src + l \in Addresses /\ m[src + l] = 0 /\ \A i \in 0 .. l - 1 : m[src + i] # 0
  BY StrlenIs
<1>2. MemorySize \in Nat /\ dst \in Nat /\ src \in Nat /\ \A a \in Addresses : m[a] \in Nat
  BY KlibAssumption, CharsInMemory DEF Addresses
<1>3. d = [i \in 1 .. k |-> m[dst + i - 1]] /\ s = [i \in 1 .. l |-> m[src + i - 1]]
  BY DEF StringAt
<1> DEFINE short == IF k < l THEN k ELSE l
           differ == {i \in 0 .. short : m[dst + i] # m[src + i]}
           first == CHOOSE i \in differ : \A j \in differ : i <= j
<1>4. Strcmp(m, dst, src) = IF differ = {} THEN 0 ELSE m[dst + first] - m[src + first]
  <2>1. Strcmp(m, dst, src) = Memcmp(m, dst, src, short + 1)
    BY DEF Strcmp, Strncmp
  <2>2. (short + 1) - 1 = short
    BY <1>1
  <2> HIDE DEF short
  <2> QED
    BY <2>1, <2>2 DEF Memcmp
<1> HIDE DEF k, l, d, s
<1>5. short \in Nat /\ short <= k /\ short <= l /\ (short = k \/ short = l)
  BY <1>1
<1>6. /\ d \in Seq(Nat) /\ Len(d) = k /\ \A i \in 1 .. k : d[i] = m[dst + i - 1]
      /\ s \in Seq(Nat) /\ Len(s) = l /\ \A i \in 1 .. l : s[i] = m[src + i - 1]
  <2>1. \A i \in 1 .. k : dst + i - 1 \in Addresses
    BY <1>1, <1>2 DEF Addresses
  <2>2. \A i \in 1 .. l : src + i - 1 \in Addresses
    BY <1>1, <1>2 DEF Addresses
  <2>3. d \in [1 .. k -> Nat] /\ s \in [1 .. l -> Nat]
    BY <1>2, <1>3, <2>1, <2>2
  <2> QED
    BY <1>1, <1>3, <2>3
<1> HIDE DEF short
<1>7. ASSUME differ = {} PROVE d = s
  <2>1. \A i \in 0 .. short : m[dst + i] = m[src + i]
    BY <1>7
  <2>2. m[dst + short] = m[src + short]
    BY <1>5, <2>1
  <2>3. k = l
    <3>1. short < k => short \in 0 .. k - 1
      BY <1>1, <1>5
    <3>2. short < l => short \in 0 .. l - 1
      BY <1>1, <1>5
    <3> QED
      BY <1>1, <1>5, <2>2, <3>1, <3>2
  <2>4. ASSUME NEW i \in 1 .. k PROVE m[dst + i - 1] = m[src + i - 1]
    <3>1. i - 1 \in 0 .. short /\ dst + (i - 1) = dst + i - 1 /\ src + (i - 1) = src + i - 1
      BY <1>1, <1>2, <1>5, <2>3
    <3> QED
      BY <2>1, <3>1
  <2> QED
    BY <1>3, <2>3, <2>4
<1>8. ASSUME differ # {}
      PROVE  LET c == m[dst + first] - m[src + first]
             IN d # s /\ c \in Int /\ c # 0 /\ (Precedes(d, s) <=> c < 0)
  <2>1. first \in differ /\ \A j \in differ : first <= j
    <3>1. differ \in SUBSET Nat
      BY <1>5
    <3> HIDE DEF differ
    <3>2. \E i \in differ : \A j \in differ : i <= j
      BY <1>8, <3>1, LeastCounterexample
    <3> QED
      BY <3>2
  <2> PICK n : n = first
    OBVIOUS
  <2>2. n \in differ /\ \A j \in differ : n <= j
    BY <2>1
  <2>3. n \in 0 .. short /\ m[dst + n] # m[src + n]
    BY <2>2
  <2>4. \A i \in 0 .. n - 1 : m[dst + i] = m[src + i]
    <3> SUFFICES ASSUME NEW i \in 0 .. n - 1, m[dst + i] # m[src + i] PROVE FALSE
      OBVIOUS
    <3>1. i \in 0 .. short /\ i < n
      BY <1>5, <2>3
    <3> QED
      BY <2>2, <3>1
  <2> PICK x, y : x = m[dst + n] /\ y = m[src + n]
    OBVIOUS
  <2>5. dst + n \in Addresses /\ src + n \in Addresses /\ n \in Nat /\ n <= k /\ n <= l
    BY <1>1, <1>2, <1>5, <2>3 DEF Addresses
  <2>6. x \in Nat /\ y \in Nat /\ x # y
    BY <1>2, <2>3, <2>5
  <2>7. IF n < k THEN x = d[n + 1] /\ x > 0 ELSE x = 0
    <3>1. CASE n < k
      <4>1. n \in 0 .. k - 1 /\ n + 1 \in 1 .. k /\ dst + (n + 1) - 1 = dst + n
        BY <1>1, <1>2, <2>5, <3>1
      <4>2. d[n + 1] = x /\ x # 0
        BY <1>1, <1>6, <4>1
      <4> QED
        BY <2>6, <3>1, <4>2
    <3>2. CASE ~(n < k)
      <4>1. n = k
        BY <1>1, <2>5, <3>2
      <4> QED
        BY <1>1, <3>2, <4>1
    <3> QED
      BY <3>1, <3>2
  <2>8. IF n < l THEN y = s[n + 1] /\ y > 0 ELSE y = 0
    <3>1. CASE n < l
      <4>1. n \in 0 .. l - 1 /\ n + 1 \in 1 .. l /\ src + (n + 1) - 1 = src + n
        BY <1>1, <1>2, <2>5, <3>1
      <4>2. s[n + 1] = y /\ y # 0
        BY <1>1, <1>6, <4>1
      <4> QED
        BY <2>6, <3>1, <4>2
    <3>2. CASE ~(n < l)
      <4>1. n = l
        BY <1>1, <2>5, <3>2
      <4> QED
        BY <1>1, <3>2, <4>1
    <3> QED
      BY <3>1, <3>2
  <2>9. \A i \in 1 .. n : d[i] = s[i]
    <3> SUFFICES ASSUME NEW i \in 1 .. n PROVE d[i] = s[i]
      OBVIOUS
    <3>1. /\ i \in 1 .. k /\ i \in 1 .. l /\ i - 1 \in 0 .. n - 1
          /\ dst + (i - 1) = dst + i - 1 /\ src + (i - 1) = src + i - 1
      BY <1>1, <1>2, <2>5
    <3> QED
      BY <1>6, <2>4, <3>1
  <2> HIDE DEF first, differ
  <2>10. d # s /\ (Precedes(d, s) <=> x < y)
    <3>1. /\ n <= Len(d) /\ n <= Len(s)
          /\ CharAt(d, n, x) /\ CharAt(s, n, y)
      BY <1>6, <2>5, <2>7, <2>8 DEF CharAt
    <3>2. d \in Seq(Nat) /\ s \in Seq(Nat) /\ n \in Nat
      BY <1>6, <2>5
    <3> QED
      BY ONLY <2>6, <2>9, <3>1, <3>2, FirstDifference
  <2> QED
    BY <2>6, <2>10
<1>9. CASE differ = {}
  <2>1. Strcmp(m, dst, src) = 0 /\ d = s
    BY <1>4, <1>7, <1>9
  <2> QED
    BY <2>1 DEF Sign, d, s
<1>10. CASE differ # {}
  <2> DEFINE c == m[dst + first] - m[src + first]
  <2>1. Strcmp(m, dst, src) = c
    BY <1>4, <1>10
  <2>2. d # s /\ c \in Int /\ c # 0 /\ (Precedes(d, s) <=> c < 0)
    BY <1>8, <1>10
  <2> HIDE DEF c
  <2>3. Sign(c) = IF c < 0 THEN -1 ELSE 1
    BY <2>2 DEF Sign
  <2> QED
    BY <2>1, <2>2, <2>3 DEF d, s
<1> QED
  BY <1>9, <1>10

(* In any memory, whatever its contents. *)
LEMMA CopiesAreRight ==
  ASSUME NEW m \in Memories
  PROVE  CopiesRight(m)
<1>1. MemorySize \in Nat /\ DOMAIN m = Addresses
  BY KlibAssumption DEF Memories
<1> SUFFICES ASSUME NEW dst \in Addresses, NEW src \in Addresses
             PROVE  LET size == Cardinality(DOMAIN m) IN
    /\ \A n \in 0 .. size - dst :
         Memset(m, dst, 0, n) = [a \in DOMAIN m |-> IF a \in dst .. dst + n - 1 THEN 0 ELSE m[a]]
    /\ \A n \in 0 .. size - src :
         dst <= src => Memmove(m, dst, src, n) =
           [a \in DOMAIN m |-> IF a \in dst .. dst + n - 1 THEN m[src + a - dst] ELSE m[a]]
    /\ Terminated(m, dst) /\ Terminated(m, src) =>
         LET s == StringAt(m, src)  d == StringAt(m, dst)
         IN /\ dst + Len(s) < src => StringAt(Strcpy(m, dst, src), dst) = s
            /\ dst + Len(d) + Len(s) < src => StringAt(Strcat(m, dst, src), dst) = d \o s
            /\ Sign(Strcmp(m, dst, src)) =
                 IF d = s THEN 0 ELSE IF Precedes(d, s) THEN -1 ELSE 1
  BY <1>1 DEF CopiesRight
<1>2. Cardinality(DOMAIN m) = MemorySize
  <2>1. MemorySize - 1 \in Int /\ 0 <= MemorySize - 1
    BY <1>1 DEF Addresses
  <2>2. Cardinality(0 .. MemorySize - 1) = (MemorySize - 1) - 0 + 1
    BY <2>1, FS_Interval
  <2> QED
    BY <1>1, <2>2 DEF Addresses
<1>3. ASSUME NEW n \in 0 .. MemorySize - dst
      PROVE  Memset(m, dst, 0, n) = [a \in DOMAIN m |-> IF a \in dst .. dst + n - 1 THEN 0 ELSE m[a]]
  BY MemsetIs DEF Filled
<1>4. ASSUME NEW n \in 0 .. MemorySize - src, dst <= src
      PROVE  Memmove(m, dst, src, n) =
               [a \in DOMAIN m |-> IF a \in dst .. dst + n - 1 THEN m[src + a - dst] ELSE m[a]]
  <2>1. ~(dst > src)
    BY <1>4 DEF Addresses
  <2> QED
    BY <1>4, <2>1, MemcpyIs DEF Memmove, Copied
<1> QED
  BY <1>2, <1>3, <1>4, StringCopied, StringsJoined, StringsCompared

-----------------------------------------------------------------------------
(* The printing and reading of numbers *)
IntRange == 2^Bits
Widest == 4294967296

LEMMA IntRangeIs == IntRange \in Nat /\ IntRange >= 256 /\ IntRange <= Widest /\ IntRange % 2 = 0
<1>1. 2^8 = 256 /\ 2^16 = 65536 /\ 2^32 = 4294967296
  BY SMT
<1>2. Bits = 8 \/ Bits = 16 \/ Bits = 32
  BY KlibAssumption
<1>3. (Bits = 8 => 2^Bits = 2^8) /\ (Bits = 16 => 2^Bits = 2^16) /\ (Bits = 32 => 2^Bits = 2^32)
  BY Zenon
<1> QED
  BY <1>1, <1>2, <1>3, SMT DEF IntRange, Widest

LEMMA DigitOf ==
  ASSUME NEW k \in 0 .. 9
  PROVE  IsDigit(Table[k + 1]) /\ Digit(Table[k + 1]) = k
<1>1. k + 1 \in 1 .. 10
  OBVIOUS
<1>2. \A i \in 1 .. 10 : Table[i] = Table[k + 1] <=> i = k + 1
  BY <1>1 DEF Table
<1>3. IsDigit(Table[k + 1])
  BY <1>1 DEF IsDigit
<1> PICK e : e = CHOOSE i \in 1 .. 10 : Table[i] = Table[k + 1]
  OBVIOUS
<1>4. e = k + 1
  BY <1>1, <1>2
<1>5. Digit(Table[k + 1]) = e - 1
  BY DEF Digit
<1> QED
  BY <1>3, <1>4, <1>5

(* The characters that are written. *)
Printed == {Table[i] : i \in 1 .. 16} \cup {"x", " ", ",", "?"}

LEMMA TableText == \A k \in 0 .. 15 : Table[k + 1] \in Printed
<1> SUFFICES ASSUME NEW k \in 0 .. 15 PROVE Table[k + 1] \in Printed
  OBVIOUS
<1>1. k + 1 \in 1 .. 16
  OBVIOUS
<1> QED
  BY <1>1 DEF Printed

LEMMA ZeroText == "0" \in Printed /\ <<"0">> \in Seq(Printed) /\ <<"0", "x">> \in Seq(Printed)
<1>1. Table[1] = "0"
  BY DEF Table
<1>2. "0" \in Printed
  BY <1>1 DEF Printed
<1>3. "x" \in Printed
  BY DEF Printed
<1> QED
  BY <1>2, <1>3

(* A pass of _itos. *)
Stops(s) == s.val = 0 /\ s.length <= 0
Loops(c, val, base, length) ==
  /\ c[0] = [val |-> val, length |-> length, text |-> <<>>]
  /\ \A i \in 1 .. 49 : c[i] = Pass(c[i - 1], base)

LEMMA ItosDef ==
  ASSUME NEW val, NEW base, NEW length
  PROVE  \E c : /\ Loops(c, val, base, length)
                /\ Itos(val, base, length) = IF base = 16 THEN <<"0", "x">> \o c[49].text ELSE c[49].text
<1> DEFINE start == [val |-> val, length |-> length, text |-> <<>>]
           Is(c, m) == c = [i \in 0 .. m |-> IF i = 0 THEN start ELSE Pass(c[i - 1], base)]
           S == {m \in Nat : \E c : Is(c, m)}
<1> HIDE DEF start
<1>1. 0 \in S
  <2>1. Is([i \in 0 .. 0 |-> start], 0)
    OBVIOUS
  <2> HIDE DEF Is
  <2> QED
    BY <2>1
<1>2. ASSUME NEW m \in 0 .. 49 - 1, m \in S PROVE m + 1 \in S
  <2>1. PICK c : Is(c, m)
    BY <1>2
  <2>2. PICK x : x = [i \in 0 .. m + 1 |-> IF i = 0 THEN start ELSE Pass(c[i - 1], base)]
    OBVIOUS
  <2>3. \A i \in 0 .. m : x[i] = c[i]
    BY <2>1, <2>2
  <2>4. \A i \in 0 .. m + 1 : i # 0 => x[i - 1] = c[i - 1]
    BY <2>3
  <2>5. Is(x, m + 1)
    BY <2>2, <2>4
  <2> HIDE DEF Is
  <2>6. m + 1 \in Nat /\ \E y : Is(y, m + 1)
    BY <2>5
  <2> QED
    BY <2>6
<1>3. 49 \in S
  <2> HIDE DEF S
  <2> QED
    BY <1>1, <1>2, UpTo
<1>4. PICK c : c = CHOOSE x : Is(x, 49)
  OBVIOUS
<1>5. Is(c, 49)
  <2> HIDE DEF Is
  <2>1. \E x : Is(x, 49)
    BY <1>3
  <2> QED
    BY <1>4, <2>1
<1>6. Itos(val, base, length) = IF base = 16 THEN <<"0", "x">> \o c[49].text ELSE c[49].text
  BY <1>4 DEF Itos, start
<1>7. Loops(c, val, base, length)
  <2>1. c[0] = start
    BY <1>5
  <2>2. \A i \in 1 .. 49 : c[i] = Pass(c[i - 1], base)
    BY <1>5
  <2> QED
    BY <2>1, <2>2 DEF Loops, start
<1> QED
  BY <1>6, <1>7

(* After i passes with a digit each. *)
Printing(c, base, length, i) ==
  /\ c[i].val \in Nat /\ c[i].length = length - i
  /\ c[i].text \in Seq(Printed) /\ Len(c[i].text) = i
  /\ i > 0 => c[i].val = c[i - 1].val \div base
  /\ \A j \in 1 .. i : c[i].text[j] = Table[(c[i - j].val % base) + 1]

(* Before it stops, _itos has put one digit in front in each pass. *)
LEMMA ItosRuns ==
  ASSUME NEW c, NEW val \in Nat, NEW base \in {10, 16}, NEW length \in Int,
         Loops(c, val, base, length), NEW n \in 0 .. 49, \A i \in 0 .. n - 1 : ~Stops(c[i])
  PROVE  \A i \in 0 .. n : Printing(c, base, length, i)
<1> DEFINE S == {i \in 0 .. n : Printing(c, base, length, i)}
<1>1. 0 \in S
  <2>1. c[0].val = val /\ c[0].length = length /\ c[0].text = <<>>
    BY DEF Loops
  <2>2. <<>> \in Seq(Printed) /\ Len(<<>>) = 0
    OBVIOUS
  <2>3. Printing(c, base, length, 0)
    BY <2>1, <2>2 DEF Printing
  <2> QED
    BY <2>3
<1>2. ASSUME NEW i \in 0 .. n - 1, i \in S PROVE i + 1 \in S
  <2>1. Printing(c, base, length, i)
    BY <1>2
  <2>2. i + 1 \in 1 .. 49 /\ i + 1 \in 0 .. n /\ (i + 1) - 1 = i
    OBVIOUS
  <2>3. c[i + 1] = Pass(c[i], base)
    BY <2>2 DEF Loops
  <2> PICK s, d : s = c[i] /\ d = Table[(s.val % base) + 1]
    OBVIOUS
  <2>4. /\ c[i + 1].val = s.val \div base /\ c[i + 1].length = s.length - 1
        /\ c[i + 1].text = <<d>> \o s.text
    BY <2>3 DEF Pass, PutDigit, Stops
  <2>5. s.val \in Nat /\ s.val % base \in 0 .. 15 /\ s.val \div base \in Nat
    <3>1. s.val \in Nat
      BY <2>1 DEF Printing
    <3>2. CASE base = 10
      BY <3>1, <3>2
    <3>3. CASE base = 16
      BY <3>1, <3>3
    <3> QED
      BY <3>1, <3>2, <3>3
  <2>6. d \in Printed
    BY <2>5, TableText
  <2>7. <<d>> \in Seq(Printed) /\ Len(<<d>>) = 1 /\ <<d>>[1] = d
    BY <2>6
  <2> PICK t, u : t = s.text /\ u = <<d>> \o t
    OBVIOUS
  <2>8. t \in Seq(Printed) /\ Len(t) = i
    BY <2>1 DEF Printing
  <2>9. /\ u \in Seq(Printed) /\ Len(u) = 1 + i
        /\ \A j \in 1 .. 1 + i : u[j] = IF j <= 1 THEN <<d>>[j] ELSE t[j - 1]
    BY <2>7, <2>8, ConcatProperties
  <2>10. ASSUME NEW j \in 1 .. i + 1 PROVE u[j] = Table[(c[(i + 1) - j].val % base) + 1]
    <3>1. CASE j = 1
      <4>1. (i + 1) - 1 = i /\ u[1] = d
        BY <2>7, <2>9
      <4> QED
        BY <3>1, <4>1
    <3>2. CASE j # 1
      <4>1. j - 1 \in 1 .. i /\ i - (j - 1) = (i + 1) - j /\ ~(j <= 1) /\ j \in 1 .. 1 + i
        BY <3>2
      <4>2. u[j] = t[j - 1]
        BY <2>9, <4>1
      <4>3. t[j - 1] = Table[(c[i - (j - 1)].val % base) + 1]
        BY <2>1, <4>1 DEF Printing
      <4> QED
        BY <4>1, <4>2, <4>3
    <3> QED
      BY <3>1, <3>2
  <2>11. Printing(c, base, length, i + 1)
    <3>1. c[i + 1].length = length - (i + 1)
      BY <2>1, <2>4 DEF Printing
    <3>2. c[i + 1].val \in Nat /\ c[i + 1].val = c[(i + 1) - 1].val \div base
      BY <2>2, <2>4, <2>5
    <3>3. c[i + 1].text \in Seq(Printed) /\ Len(c[i + 1].text) = i + 1
      BY <2>4, <2>9
    <3>4. \A j \in 1 .. i + 1 : c[i + 1].text[j] = Table[(c[(i + 1) - j].val % base) + 1]
      BY <2>4, <2>10
    <3> QED
      BY <3>1, <3>2, <3>3, <3>4 DEF Printing
  <2> QED
    BY <2>2, <2>11
<1>3. \A i \in 0 .. n : i \in S
  <2> HIDE DEF S
  <2>1. n \in Nat
    OBVIOUS
  <2> QED
    BY <1>1, <1>2, <2>1, UpTo
<1> QED
  BY <1>3

LEMMA ItosStays ==
  ASSUME NEW c, NEW val, NEW base, NEW length, Loops(c, val, base, length),
         NEW n \in 0 .. 49, Stops(c[n])
  PROVE  c[49] = c[n]
<1> DEFINE S == {k \in 0 .. 49 - n : c[n + k] = c[n]}
<1>1. 0 \in S
  OBVIOUS
<1>2. ASSUME NEW k \in 0 .. (49 - n) - 1, k \in S PROVE k + 1 \in S
  <2>1. n + (k + 1) \in 1 .. 49 /\ (n + (k + 1)) - 1 = n + k
    OBVIOUS
  <2>2. c[n + (k + 1)] = Pass(c[n + k], base)
    BY <2>1 DEF Loops
  <2>3. c[n + k] = c[n]
    BY <1>2
  <2>4. c[n + (k + 1)] = c[n]
    BY <2>2, <2>3 DEF Pass, PutDigit, Stops
  <2> QED
    BY <2>4
<1>3. 49 - n \in S
  <2> HIDE DEF S
  <2>1. 49 - n \in Nat
    OBVIOUS
  <2> QED
    BY <1>1, <1>2, <2>1, UpTo
<1> QED
  BY <1>3

(* No pass leaves more than it should. *)
Shrinking(c, i) ==
  /\ c[i].val \in Nat /\ c[i].length \in Int /\ c[i].length <= 0
  /\ i > 0 => c[i].val <= c[i - 1].val \div 10

LEMMA ItosShrinks ==
  ASSUME NEW c, NEW val \in Nat, NEW length \in Int, length <= 0, Loops(c, val, 10, length)
  PROVE  \A i \in 0 .. 48 : Shrinking(c, i)
<1> DEFINE S == {i \in 0 .. 48 : Shrinking(c, i)}
<1>1. 0 \in S
  <2>1. c[0].val = val /\ c[0].length = length
    BY DEF Loops
  <2>2. Shrinking(c, 0)
    BY <2>1 DEF Shrinking
  <2> QED
    BY <2>2
<1>2. ASSUME NEW i \in 0 .. 48 - 1, i \in S PROVE i + 1 \in S
  <2>1. i + 1 \in 1 .. 49 /\ i + 1 \in 0 .. 48 /\ (i + 1) - 1 = i
    OBVIOUS
  <2>2. c[i + 1] = Pass(c[i], 10)
    BY <2>1 DEF Loops
  <2>3. c[i].val \in Nat /\ c[i].length \in Int /\ c[i].length <= 0
    BY <1>2 DEF Shrinking
  <2>4. CASE Stops(c[i])
    <3>1. c[i + 1] = c[i] /\ c[i].val = 0
      BY <2>2, <2>4 DEF Pass, PutDigit, Stops
    <3> QED
      BY <2>1, <2>3, <3>1 DEF Shrinking
  <2>5. CASE ~Stops(c[i])
    <3>1. c[i + 1].val = c[i].val \div 10 /\ c[i + 1].length = c[i].length - 1
      BY <2>2, <2>5 DEF Pass, PutDigit, Stops
    <3> QED
      BY <2>1, <2>3, <3>1 DEF Shrinking
  <2>6. Shrinking(c, i + 1)
    BY <2>4, <2>5
  <2> QED
    BY <2>1, <2>6
<1>3. \A i \in 0 .. 48 : i \in S
  <2> HIDE DEF S
  <2> QED
    BY <1>1, <1>2, UpTo
<1> QED
  BY <1>3

(* The digits t of y: what is left after k of them is v[k]. *)
Writes(t, y, n, v) ==
  /\ n \in Nat /\ n >= 1 /\ t \in Seq(Printed) /\ Len(t) = n
  /\ v[0] = y /\ v[n] = 0 /\ \A k \in 0 .. n : v[k] \in Nat
  /\ \A k \in 1 .. n : v[k] = v[k - 1] \div 10
  /\ \A j \in 1 .. n : t[j] = Table[(v[n - j] % 10) + 1]
  /\ n > 1 => v[n - 1] # 0

LEMMA DecimalIs ==
  ASSUME NEW y \in Nat, y < Widest
  PROVE  \E n, v : Writes(Decimal(y), y, n, v)
<1>1. CASE y = 0
  <2> PICK v : v = [k \in 0 .. 1 |-> 0]
    OBVIOUS
  <2>1. Decimal(y) = <<"0">> /\ Table[1] = "0"
    BY <1>1 DEF Decimal, Table
  <2>2. <<"0">> \in Seq(Printed) /\ Len(<<"0">>) = 1 /\ <<"0">>[1] = "0"
    BY ZeroText
  <2>3. v[0] = 0 /\ v[1] = 0 /\ 0 % 10 = 0 /\ 0 \div 10 = 0 /\ \A k \in 0 .. 1 : v[k] = 0
    OBVIOUS
  <2>4. Writes(<<"0">>, 0, 1, v)
    <3>1. \A j \in 1 .. 1 : j = 1 /\ 1 - j = 0
      OBVIOUS
    <3>2. \A j \in 1 .. 1 : <<"0">>[j] = Table[(v[1 - j] % 10) + 1]
      BY <2>1, <2>2, <2>3, <3>1
    <3>3. v[1] = v[1 - 1] \div 10 /\ \A k \in 1 .. 1 : k = 1
      BY <2>3
    <3> QED
      BY <2>2, <2>3, <3>2, <3>3 DEF Writes
  <2> QED
    BY <1>1, <2>1, <2>4
<1>2. CASE y # 0
  <2>1. PICK c : Loops(c, y, 10, -1) /\ Itos(y, 10, -1) = c[49].text
    <3>1. PICK c : /\ Loops(c, y, 10, -1)
                   /\ Itos(y, 10, -1) = IF 10 = 16 THEN <<"0", "x">> \o c[49].text ELSE c[49].text
      BY ItosDef
    <3> QED
      BY <3>1
  <2>2. \A i \in 0 .. 48 : Shrinking(c, i)
    <3>1. -1 \in Int /\ -1 <= 0
      OBVIOUS
    <3> QED
      BY <2>1, <3>1, ItosShrinks
  <2>3. c[10].val = 0
    <3>1. c[0].val = y
      BY <2>1 DEF Loops
    <3>2. \A i \in 0 .. 9 : c[i].val \in Nat /\ c[i + 1].val \in Nat /\ c[i + 1].val <= c[i].val \div 10
      <4> SUFFICES ASSUME NEW i \in 0 .. 9
                   PROVE  c[i].val \in Nat /\ c[i + 1].val \in Nat /\ c[i + 1].val <= c[i].val \div 10
        OBVIOUS
      <4>1. i \in 0 .. 48 /\ i + 1 \in 0 .. 48 /\ i + 1 > 0 /\ (i + 1) - 1 = i
        OBVIOUS
      <4> QED
        BY <2>2, <4>1 DEF Shrinking
    <3>3. c[1].val \in Nat /\ c[1].val < 429496730
      BY <3>1, <3>2, SMT DEF Widest
    <3>4. c[2].val \in Nat /\ c[2].val < 42949673
      BY <3>2, <3>3
    <3>5. c[3].val \in Nat /\ c[3].val < 4294968
      BY <3>2, <3>4
    <3>6. c[4].val \in Nat /\ c[4].val < 429497
      BY <3>2, <3>5
    <3>7. c[5].val \in Nat /\ c[5].val < 42950
      BY <3>2, <3>6
    <3>8. c[6].val \in Nat /\ c[6].val < 4295
      BY <3>2, <3>7
    <3>9. c[7].val \in Nat /\ c[7].val < 430
      BY <3>2, <3>8
    <3>10. c[8].val \in Nat /\ c[8].val < 43
      BY <3>2, <3>9
    <3>11. c[9].val \in Nat /\ c[9].val < 5
      BY <3>2, <3>10
    <3> QED
      BY <3>2, <3>11
  <2> DEFINE S == {i \in 0 .. 48 : Stops(c[i])}
  <2>4. PICK n \in S : \A i \in S : n <= i
    <3>1. 10 \in S
      BY <2>2, <2>3 DEF Stops, Shrinking
    <3>2. S \in SUBSET Nat /\ S # {}
      BY <3>1
    <3> HIDE DEF S
    <3> QED
      BY <3>2, LeastCounterexample
  <2>5. n \in 0 .. 49 /\ Stops(c[n]) /\ \A i \in 0 .. n - 1 : ~Stops(c[i])
    <3>1. n \in 0 .. 48 /\ Stops(c[n])
      BY <2>4
    <3>2. ASSUME NEW i \in 0 .. n - 1, Stops(c[i]) PROVE FALSE
      <4>1. i \in S /\ i < n
        BY <3>1, <3>2
      <4> QED
        BY <2>4, <3>1, <4>1
    <3> QED
      BY <3>1, <3>2
  <2>6. \A i \in 0 .. n : Printing(c, 10, -1, i)
    <3>1. -1 \in Int /\ 10 \in {10, 16}
      OBVIOUS
    <3> QED
      BY <2>1, <2>5, <3>1, ItosRuns
  <2>7. Decimal(y) = c[n].text
    <3>1. c[49] = c[n]
      BY <2>1, <2>5, ItosStays
    <3> QED
      BY <1>2, <2>1, <3>1 DEF Decimal
  <2>8. c[0].val = y
    BY <2>1 DEF Loops
  <2>9. n >= 1
    <3>1. n # 0
      BY <1>2, <2>5, <2>8 DEF Stops
    <3> QED
      BY <2>5, <3>1
  <2> PICK v : v = [k \in 0 .. n |-> c[k].val]
    OBVIOUS
  <2>10. v[0] = y /\ v[n] = 0 /\ \A k \in 0 .. n : v[k] = c[k].val
    BY <2>5, <2>8, <2>9 DEF Stops
  <2>11. \A k \in 1 .. n : v[k] = v[k - 1] \div 10
    <3> SUFFICES ASSUME NEW k \in 1 .. n PROVE v[k] = v[k - 1] \div 10
      OBVIOUS
    <3>1. k \in 0 .. n /\ k - 1 \in 0 .. n /\ k > 0
      BY <2>5
    <3> QED
      BY <2>6, <2>10, <3>1 DEF Printing
  <2>12. \A j \in 1 .. n : c[n].text[j] = Table[(v[n - j] % 10) + 1]
    <3> SUFFICES ASSUME NEW j \in 1 .. n PROVE c[n].text[j] = Table[(v[n - j] % 10) + 1]
      OBVIOUS
    <3>1. n - j \in 0 .. n /\ n \in 0 .. n
      BY <2>5
    <3> QED
      BY <2>6, <2>10, <3>1 DEF Printing
  <2>13. v[n - 1] # 0
    <3>1. n - 1 \in 0 .. n - 1 /\ n - 1 \in 0 .. n
      BY <2>5, <2>9
    <3>2. ~Stops(c[n - 1]) /\ c[n - 1].length <= 0
      BY <2>5, <2>6, <3>1 DEF Printing
    <3> QED
      BY <2>10, <3>1, <3>2 DEF Stops
  <2>14. Writes(Decimal(y), y, n, v)
    <3>1. n \in Nat /\ c[n].text \in Seq(Printed) /\ Len(c[n].text) = n /\ \A k \in 0 .. n : v[k] \in Nat
      <4>1. n \in 0 .. n /\ n \in Nat
        BY <2>5, <2>9
      <4> QED
        BY <2>6, <2>10, <4>1 DEF Printing
    <3> QED
      BY <2>7, <2>9, <2>10, <2>11, <2>12, <2>13, <3>1 DEF Writes
  <2> QED
    BY <2>14
<1> QED
  BY <1>1, <1>2

(* A pointer of up to eight digits is printed with eight, behind 0x. *)
LEMMA PointerIs ==
  ASSUME NEW y \in Nat, y < Widest
  PROVE  Itos(y, 16, 8) \in Seq(Printed) /\ Len(Itos(y, 16, 8)) = 10
<1>1. PICK c : Loops(c, y, 16, 8) /\ Itos(y, 16, 8) = <<"0", "x">> \o c[49].text
  <2>1. PICK c : /\ Loops(c, y, 16, 8)
                 /\ Itos(y, 16, 8) = IF 16 = 16 THEN <<"0", "x">> \o c[49].text ELSE c[49].text
    BY ItosDef
  <2> QED
    BY <2>1
<1> DEFINE Ok(n) == \A i \in 0 .. n : Printing(c, 16, 8, i)
           S == {n \in 0 .. 8 : Ok(n)}
<1>2. 0 \in S
  <2>1. c[0].val = y /\ c[0].length = 8 /\ c[0].text = <<>> /\ <<>> \in Seq(Printed) /\ Len(<<>>) = 0
    BY <1>1 DEF Loops
  <2>2. Printing(c, 16, 8, 0)
    BY <2>1 DEF Printing
  <2> QED
    BY <2>2
<1>3. ASSUME NEW n \in 0 .. 8 - 1, n \in S PROVE n + 1 \in S
  <2>1. ASSUME NEW i \in 0 .. (n + 1) - 1 PROVE ~Stops(c[i])
    <3>1. i \in 0 .. n /\ i \in Int /\ i < 8
      OBVIOUS
    <3>2. c[i].length = 8 - i
      BY <1>3, <3>1 DEF Printing
    <3> QED
      BY ONLY <3>1, <3>2 DEF Stops
  <2>2. n + 1 \in 0 .. 49
    OBVIOUS
  <2>3. Ok(n + 1)
    <3>1. 8 \in Int /\ 16 \in {10, 16}
      OBVIOUS
    <3> QED
      BY <1>1, <2>1, <2>2, <3>1, ItosRuns
  <2> QED
    BY <2>3
<1>4. Ok(8)
  <2>1. 8 \in S
    <3> HIDE DEF S
    <3> QED
      BY <1>2, <1>3, UpTo
  <2> QED
    BY <2>1
<1>5. c[8].val = 0
  <2>1. c[0].val = y
    BY <1>1 DEF Loops
  <2>2. \A i \in 0 .. 7 : c[i].val \in Nat /\ c[i + 1].val \in Nat /\ c[i + 1].val = c[i].val \div 16
    <3> SUFFICES ASSUME NEW i \in 0 .. 7
                 PROVE  c[i].val \in Nat /\ c[i + 1].val \in Nat /\ c[i + 1].val = c[i].val \div 16
      OBVIOUS
    <3>1. i \in 0 .. 8 /\ i + 1 \in 0 .. 8 /\ i + 1 > 0 /\ (i + 1) - 1 = i
      OBVIOUS
    <3> QED
      BY <1>4, <3>1 DEF Printing
  <2>3. c[1].val \in Nat /\ c[1].val < 268435456
    BY <2>1, <2>2, SMT DEF Widest
  <2>4. c[2].val \in Nat /\ c[2].val < 16777216
    BY <2>2, <2>3
  <2>5. c[3].val \in Nat /\ c[3].val < 1048576
    BY <2>2, <2>4
  <2>6. c[4].val \in Nat /\ c[4].val < 65536
    BY <2>2, <2>5
  <2>7. c[5].val \in Nat /\ c[5].val < 4096
    BY <2>2, <2>6
  <2>8. c[6].val \in Nat /\ c[6].val < 256
    BY <2>2, <2>7
  <2>9. c[7].val \in Nat /\ c[7].val < 16
    BY <2>2, <2>8
  <2> QED
    BY <2>2, <2>9
<1>6. 8 \in 0 .. 8 /\ 8 \in 0 .. 49
  OBVIOUS
<1>7. c[49] = c[8]
  <2>1. Stops(c[8])
    <3>1. Printing(c, 16, 8, 8)
      BY <1>4
    <3>2. c[8].length = 8 - 8
      BY <3>1 DEF Printing
    <3> QED
      BY <1>5, <3>2 DEF Stops
  <2> QED
    BY <1>1, <1>6, <2>1, ItosStays
<1> PICK t, x : t = c[8].text /\ x = <<"0", "x">>
  OBVIOUS
<1>8. t \in Seq(Printed) /\ Len(t) = 8 /\ Itos(y, 16, 8) = x \o t
  BY <1>1, <1>4, <1>6, <1>7 DEF Printing
<1>9. x \in Seq(Printed) /\ Len(x) = 2
  BY ZeroText
<1>10. x \o t \in Seq(Printed) /\ Len(x \o t) = Len(x) + Len(t)
  BY <1>8, <1>9, ConcatProperties
<1>11. Len(x \o t) = 10
  BY <1>8, <1>9, <1>10
<1> QED
  BY ONLY <1>8, <1>10, <1>11

(* What vsprintf has read and written after each character of the format. *)
Formats(c, fmt, args) ==
  /\ c[0] = [mode |-> "text", args |-> args, out |-> <<>>]
  /\ \A i \in 1 .. Len(fmt) : c[i] = ReadFormat(c[i - 1], fmt[i])

LEMMA VsprintfDef ==
  ASSUME NEW fmt, Len(fmt) \in Nat, NEW args
  PROVE  \E c : /\ Formats(c, fmt, args)
                /\ Vsprintf(fmt, args) = IF c[Len(fmt)].mode = "text" THEN c[Len(fmt)].out ELSE Undefined
<1> PICK n : n = Len(fmt)
  OBVIOUS
<1>0. n \in Nat
  OBVIOUS
<1> DEFINE start == [mode |-> "text", args |-> args, out |-> <<>>]
           Is(c, m) == c = [i \in 0 .. m |-> IF i = 0 THEN start ELSE ReadFormat(c[i - 1], fmt[i])]
           S == {m \in Nat : \E c : Is(c, m)}
<1> HIDE DEF start
<1>1. 0 \in S
  <2>1. Is([i \in 0 .. 0 |-> start], 0)
    OBVIOUS
  <2> HIDE DEF Is
  <2> QED
    BY <2>1
<1>2. ASSUME NEW m \in 0 .. n - 1, m \in S PROVE m + 1 \in S
  <2>1. PICK c : Is(c, m)
    BY <1>2
  <2>2. PICK x : x = [i \in 0 .. m + 1 |-> IF i = 0 THEN start ELSE ReadFormat(c[i - 1], fmt[i])]
    OBVIOUS
  <2>3. \A i \in 0 .. m : x[i] = c[i]
    BY <2>1, <2>2
  <2>4. \A i \in 0 .. m + 1 : i # 0 => x[i - 1] = c[i - 1]
    BY <2>3
  <2>5. Is(x, m + 1)
    BY <2>2, <2>4
  <2> HIDE DEF Is
  <2>6. m + 1 \in Nat /\ \E y : Is(y, m + 1)
    BY <2>5
  <2> QED
    BY <2>6
<1>3. n \in S
  <2> HIDE DEF S
  <2> QED
    BY <1>0, <1>1, <1>2, UpTo
<1>4. PICK c : c = CHOOSE x : Is(x, n)
  OBVIOUS
<1>5. Is(c, n)
  <2> HIDE DEF Is
  <2>1. \E x : Is(x, n)
    BY <1>3
  <2> QED
    BY <1>4, <2>1
<1>6. Vsprintf(fmt, args) = IF c[n].mode = "text" THEN c[n].out ELSE Undefined
  BY <1>4 DEF Vsprintf, start
<1>7. Formats(c, fmt, args)
  <2>1. c[0] = start
    BY <1>5
  <2>2. \A i \in 1 .. n : c[i] = ReadFormat(c[i - 1], fmt[i])
    BY <1>5
  <2> QED
    BY <2>1, <2>2 DEF Formats, start
<1> QED
  BY <1>6, <1>7

Formatting(mode, args, out) == [mode |-> mode, args |-> args, out |-> out]

LEMMA ReadPercent ==
  ASSUME NEW args, NEW out
  PROVE  ReadFormat(Formatting("text", args, out), "%") = Formatting("directive", args, out)
BY DEF ReadFormat, Formatting

LEMMA ReadPlain ==
  ASSUME NEW args, NEW out, NEW ch, ch # "%"
  PROVE  ReadFormat(Formatting("text", args, out), ch) = Formatting("text", args, Append(out, ch))
BY DEF ReadFormat, Formatting

LEMMA ReadLong ==
  ASSUME NEW args, NEW out
  PROVE  ReadFormat(Formatting("directive", args, out), "l") = Formatting("long", args, out)
BY DEF ReadFormat, Formatting

LEMMA ReadDecimal ==
  ASSUME NEW args, NEW out, NEW ch
  PROVE  ReadFormat(Formatting("long", args, out), ch)
           = Formatting("text", Tail(args), out \o Directive("d", Head(args)))
BY DEF ReadFormat, Formatting, TakesArgument

LEMMA ReadOne ==
  ASSUME NEW args, NEW out, NEW ch \in {"u", "p"}
  PROVE  ReadFormat(Formatting("directive", args, out), ch)
           = Formatting("text", Tail(args), out \o Directive(ch, Head(args)))
BY DEF ReadFormat, Formatting, TakesArgument

LEMMA ReadUnknown ==
  ASSUME NEW args, NEW out
  PROVE  ReadFormat(Formatting("directive", args, out), "x")
           = Formatting("text", args, out \o Directive("x", 0))
BY DEF ReadFormat, Formatting, TakesArgument

LEMMA Directives ==
  ASSUME NEW a
  PROVE  /\ Directive("d", a) = Decimal(a % IntRange) /\ Directive("u", a) = Decimal(a % IntRange)
         /\ Directive("p", a) = Itos(a, 16, 8) /\ Directive("x", a) = <<"?">>
<1>1. Directive("d", a) = Decimal(a % 2^Bits) /\ Directive("u", a) = Decimal(a % 2^Bits)
  BY DEF Directive
<1>2. Directive("p", a) = Itos(a, 16, 8)
  BY DEF Directive
<1>3. Directive("x", a) = <<"?">>
  BY DEF Directive
<1> QED
  BY <1>1, <1>2, <1>3 DEF IntRange

(* A one-directive format. *)
LEMMA OneDirective ==
  ASSUME NEW ch \in {"u", "p"}, NEW x
  PROVE  Vsprintf(<<"%", ch>>, <<x>>) = <<>> \o Directive(ch, x)
<1> PICK f, a : f = <<"%", ch>> /\ a = <<x>>
  OBVIOUS
<1>1. Len(f) = 2 /\ f[1] = "%" /\ f[2] = ch /\ Head(a) = x
  OBVIOUS
<1>2. PICK c : Formats(c, f, a) /\ Vsprintf(f, a) = IF c[Len(f)].mode = "text" THEN c[Len(f)].out ELSE Undefined
  BY <1>1, VsprintfDef
<1>3. c[0] = Formatting("text", a, <<>>)
  BY <1>2 DEF Formats, Formatting
<1>4. c[1] = ReadFormat(c[0], f[1]) /\ c[2] = ReadFormat(c[1], f[2])
  <2>1. 1 \in 1 .. 2 /\ 2 \in 1 .. 2 /\ 1 - 1 = 0 /\ 2 - 1 = 1
    OBVIOUS
  <2>2. \A i \in 1 .. 2 : c[i] = ReadFormat(c[i - 1], f[i])
    BY <1>1, <1>2 DEF Formats
  <2> QED
    BY <2>1, <2>2
<1>5. c[1] = Formatting("directive", a, <<>>)
  BY <1>1, <1>3, <1>4, ReadPercent
<1>6. c[2] = Formatting("text", Tail(a), <<>> \o Directive(ch, x))
  <2>1. ReadFormat(Formatting("directive", a, <<>>), ch)
          = Formatting("text", Tail(a), <<>> \o Directive(ch, Head(a)))
    BY ReadOne
  <2> QED
    BY <1>1, <1>4, <1>5, <2>1
<1>7. c[2].mode = "text" /\ c[2].out = <<>> \o Directive(ch, x)
  BY <1>6 DEF Formatting
<1> QED
  BY <1>1, <1>2, <1>7

(* The format that PrintsBack prints, with any two characters in it. *)
LEMMA WholeFormat ==
  ASSUME NEW x, NEW y, NEW blank, NEW comma, blank # "%", comma # "%"
  PROVE  Vsprintf(<<blank, "%", "l", "d", comma, "%", "p", "%", "x">>, <<x, y>>)
           = (Append(Append(<<>>, blank) \o Decimal(x % IntRange), comma) \o Itos(y, 16, 8)) \o <<"?">>
<1> PICK f, a : f = <<blank, "%", "l", "d", comma, "%", "p", "%", "x">> /\ a = <<x, y>>
  OBVIOUS
<1>1. /\ Len(f) = 9 /\ Head(a) = x
      /\ f[1] = blank /\ f[2] = "%" /\ f[3] = "l" /\ f[4] = "d" /\ f[5] = comma
      /\ f[6] = "%" /\ f[7] = "p" /\ f[8] = "%" /\ f[9] = "x"
  OBVIOUS
<1>2. PICK c : Formats(c, f, a) /\ Vsprintf(f, a) = IF c[Len(f)].mode = "text" THEN c[Len(f)].out ELSE Undefined
  BY <1>1, VsprintfDef
<1>3. c[0] = Formatting("text", a, <<>>)
  BY <1>2 DEF Formats, Formatting
<1>4. \A i \in 0 .. 8 : c[i + 1] = ReadFormat(c[i], f[i + 1])
  <2> SUFFICES ASSUME NEW i \in 0 .. 8 PROVE c[i + 1] = ReadFormat(c[i], f[i + 1])
    OBVIOUS
  <2>1. i + 1 \in 1 .. 9 /\ (i + 1) - 1 = i
    OBVIOUS
  <2>2. \A j \in 1 .. 9 : c[j] = ReadFormat(c[j - 1], f[j])
    BY <1>1, <1>2 DEF Formats
  <2> QED
    BY <2>1, <2>2
<1>5. /\ c[1] = ReadFormat(c[0], f[1]) /\ c[2] = ReadFormat(c[1], f[2]) /\ c[3] = ReadFormat(c[2], f[3])
      /\ c[4] = ReadFormat(c[3], f[4]) /\ c[5] = ReadFormat(c[4], f[5]) /\ c[6] = ReadFormat(c[5], f[6])
      /\ c[7] = ReadFormat(c[6], f[7]) /\ c[8] = ReadFormat(c[7], f[8]) /\ c[9] = ReadFormat(c[8], f[9])
  <2>1. /\ 0 + 1 = 1 /\ 1 + 1 = 2 /\ 2 + 1 = 3 /\ 3 + 1 = 4 /\ 4 + 1 = 5
        /\ 5 + 1 = 6 /\ 6 + 1 = 7 /\ 7 + 1 = 8 /\ 8 + 1 = 9
    OBVIOUS
  <2>2. /\ 0 \in 0 .. 8 /\ 1 \in 0 .. 8 /\ 2 \in 0 .. 8 /\ 3 \in 0 .. 8 /\ 4 \in 0 .. 8
        /\ 5 \in 0 .. 8 /\ 6 \in 0 .. 8 /\ 7 \in 0 .. 8 /\ 8 \in 0 .. 8
    OBVIOUS
  <2> QED
    BY <1>4, <2>1, <2>2
<1> PICK o1, o2, o3, o4, o5 :
      /\ o1 = Append(<<>>, blank) /\ o2 = o1 \o Decimal(x % IntRange) /\ o3 = Append(o2, comma)
      /\ o4 = o3 \o Itos(y, 16, 8) /\ o5 = o4 \o <<"?">>
  OBVIOUS
<1>7. c[1] = Formatting("text", a, o1)
  <2>1. ReadFormat(Formatting("text", a, <<>>), blank) = Formatting("text", a, Append(<<>>, blank))
    BY ReadPlain
  <2> QED
    BY <1>1, <1>3, <1>5, <2>1
<1>8. c[3] = Formatting("long", a, o1)
  BY <1>1, <1>5, <1>7, ReadPercent, ReadLong
<1>9. c[4] = Formatting("text", Tail(a), o2)
  <2>1. ReadFormat(Formatting("long", a, o1), "d")
          = Formatting("text", Tail(a), o1 \o Directive("d", Head(a)))
    BY ReadDecimal
  <2>2. Directive("d", x) = Decimal(x % IntRange)
    BY Directives
  <2> QED
    BY <1>1, <1>5, <1>8, <2>1, <2>2
<1>10. c[5] = Formatting("text", Tail(a), o3)
  <2>1. ReadFormat(Formatting("text", Tail(a), o2), comma) = Formatting("text", Tail(a), Append(o2, comma))
    BY ReadPlain
  <2> QED
    BY <1>1, <1>5, <1>9, <2>1
<1>11. Head(Tail(a)) = y
  OBVIOUS
<1>12. c[6] = Formatting("directive", Tail(a), o3)
  BY <1>1, <1>5, <1>10, ReadPercent
<1>13. c[7] = Formatting("text", Tail(Tail(a)), o4)
  <2>1. "p" \in {"u", "p"}
    OBVIOUS
  <2>2. ReadFormat(Formatting("directive", Tail(a), o3), "p")
          = Formatting("text", Tail(Tail(a)), o3 \o Directive("p", Head(Tail(a))))
    BY <2>1, ReadOne
  <2> QED
    BY <1>1, <1>5, <1>11, <1>12, <2>2, Directives
<1>14. c[9] = Formatting("text", Tail(Tail(a)), o5)
  <2>1. c[8] = Formatting("directive", Tail(Tail(a)), o4)
    BY <1>1, <1>5, <1>13, ReadPercent
  <2>2. ReadFormat(Formatting("directive", Tail(Tail(a)), o4), "x")
          = Formatting("text", Tail(Tail(a)), o4 \o Directive("x", 0))
    BY ReadUnknown
  <2>3. Directive("x", 0) = <<"?">>
    BY Directives
  <2> QED
    BY <1>1, <1>5, <2>1, <2>2, <2>3
<1>15. c[9].mode = "text" /\ c[9].out = o5
  BY <1>14 DEF Formatting
<1> QED
  BY <1>1, <1>2, <1>15

(* What atoi knows after each character. *)
Counts(c, text) ==
  /\ c[0] = [mode |-> "spaces", x |-> 0]
  /\ \A i \in 1 .. Len(text) : c[i] = ReadNumber(c[i - 1], text[i])

LEMMA AtoiDef ==
  ASSUME NEW text, Len(text) \in Nat
  PROVE  \E c : Counts(c, text) /\ Atoi(text) = c[Len(text)].x
<1> PICK n : n = Len(text)
  OBVIOUS
<1>0. n \in Nat
  OBVIOUS
<1> DEFINE start == [mode |-> "spaces", x |-> 0]
           Is(c, m) == c = [i \in 0 .. m |-> IF i = 0 THEN start ELSE ReadNumber(c[i - 1], text[i])]
           S == {m \in Nat : \E c : Is(c, m)}
<1> HIDE DEF start
<1>1. 0 \in S
  <2>1. Is([i \in 0 .. 0 |-> start], 0)
    OBVIOUS
  <2> HIDE DEF Is
  <2> QED
    BY <2>1
<1>2. ASSUME NEW m \in 0 .. n - 1, m \in S PROVE m + 1 \in S
  <2>1. PICK c : Is(c, m)
    BY <1>2
  <2>2. PICK x : x = [i \in 0 .. m + 1 |-> IF i = 0 THEN start ELSE ReadNumber(c[i - 1], text[i])]
    OBVIOUS
  <2>3. \A i \in 0 .. m : x[i] = c[i]
    BY <2>1, <2>2
  <2>4. \A i \in 0 .. m + 1 : i # 0 => x[i - 1] = c[i - 1]
    BY <2>3
  <2>5. Is(x, m + 1)
    BY <2>2, <2>4
  <2> HIDE DEF Is
  <2>6. m + 1 \in Nat /\ \E y : Is(y, m + 1)
    BY <2>5
  <2> QED
    BY <2>6
<1>3. n \in S
  <2> HIDE DEF S
  <2> QED
    BY <1>0, <1>1, <1>2, UpTo
<1>4. PICK c : c = CHOOSE x : Is(x, n)
  OBVIOUS
<1>5. Is(c, n)
  <2> HIDE DEF Is
  <2>1. \E x : Is(x, n)
    BY <1>3
  <2> QED
    BY <1>4, <2>1
<1>6. Atoi(text) = c[n].x
  BY <1>4 DEF Atoi, start
<1>7. Counts(c, text)
  <2>1. c[0] = start
    BY <1>5
  <2>2. \A i \in 1 .. n : c[i] = ReadNumber(c[i - 1], text[i])
    BY <1>5
  <2> QED
    BY <2>1, <2>2 DEF Counts, start
<1> QED
  BY <1>6, <1>7

Blank == " "
Comma == ","
Digits == {"0", "1", "2", "3", "4", "5", "6", "7", "8", "9"}

LEMMA BlankAndComma == Blank \notin Digits /\ Comma \notin Digits /\ Blank # "%" /\ Comma # "%" /\ Blank # Comma
BY Zenon DEF Blank, Comma, Digits

LEMMA DigitsAre == \A i \in 1 .. 10 : Table[i] \in Digits
<1> SUFFICES ASSUME NEW i \in 1 .. 10 PROVE Table[i] \in Digits
  OBVIOUS
<1>1. i = 1 \/ i = 2 \/ i = 3 \/ i = 4 \/ i = 5 \/ i = 6 \/ i = 7 \/ i = 8 \/ i = 9 \/ i = 10
  OBVIOUS
<1> QED
  BY <1>1 DEF Table, Digits

LEMMA SkipBlank ==
  ASSUME NEW s, s.mode = "spaces"
  PROVE  ReadNumber(s, Blank) = s
<1>1. ~IsDigit(Blank)
  BY BlankAndComma, DigitsAre DEF IsDigit
<1> QED
  BY <1>1, Zenon DEF ReadNumber, Blank

LEMMA TakeDigit ==
  ASSUME NEW s, s.mode # "end", NEW k \in 0 .. 9, NEW ch, ch = Table[k + 1]
  PROVE  ReadNumber(s, ch).mode = "digits" /\ ReadNumber(s, ch).x = (s.x * 10 + k) % IntRange
<1>1. k + 1 \in 1 .. 10
  OBVIOUS
<1>2. ch # Blank
  BY <1>1, BlankAndComma, DigitsAre
<1>3. ch # " "
  BY ONLY <1>2, Zenon DEF Blank
<1>4. IsDigit(ch) /\ Digit(ch) = k
  BY DigitOf
<1> PICK x : x = (s.x * 10 + Digit(ch)) % 2^Bits
  OBVIOUS
<1>5. ReadNumber(s, ch) = [mode |-> "digits", x |-> x]
  BY <1>3, <1>4, Zenon DEF ReadNumber
<1>6. x = (s.x * 10 + k) % IntRange
  BY <1>4, Zenon DEF IntRange
<1> QED
  BY <1>5, <1>6

LEMMA EndNumber ==
  ASSUME NEW s, s.mode = "digits"
  PROVE  ReadNumber(s, Comma) = [mode |-> "end", x |-> s.x]
<1>1. ~IsDigit(Comma)
  BY BlankAndComma, DigitsAre DEF IsDigit
<1>2. s.mode # "spaces"
  OBVIOUS
<1> QED
  BY <1>1, <1>2, Zenon DEF ReadNumber

LEMMA EndStays ==
  ASSUME NEW s, s.mode = "end", NEW ch
  PROVE  ReadNumber(s, ch) = [mode |-> "end", x |-> s.x]
<1>1. s.mode # "spaces"
  OBVIOUS
<1> QED
  BY <1>1, Zenon DEF ReadNumber

LEMMA LastDigit ==
  ASSUME NEW u \in Nat
  PROVE  u % 10 \in 0 .. 9 /\ (u \div 10) * 10 + (u % 10) = u
OBVIOUS

LEMMA SmallMod ==
  ASSUME NEW u \in Nat, NEW r \in Nat, u < r
  PROVE  u % r = u
OBVIOUS

(* What is left of y never grows. *)
LEMMA LeftIsLess ==
  ASSUME NEW t, NEW y \in Nat, NEW n, NEW v, Writes(t, y, n, v)
  PROVE  \A k \in 0 .. n : v[k] \in Nat /\ v[k] <= y
<1> DEFINE S == {k \in 0 .. n : v[k] <= y}
<1>0. /\ n \in Nat /\ v[0] = y /\ \A k \in 0 .. n : v[k] \in Nat
      /\ \A k \in 1 .. n : v[k] = v[k - 1] \div 10
  BY DEF Writes
<1>1. 0 \in S
  BY <1>0
<1>2. ASSUME NEW k \in 0 .. n - 1, k \in S PROVE k + 1 \in S
  <2>1. k + 1 \in 1 .. n /\ k + 1 \in 0 .. n /\ k \in 0 .. n /\ (k + 1) - 1 = k
    BY <1>0
  <2>2. v[k + 1] = v[k] \div 10 /\ v[k] \in Nat /\ v[k] <= y
    BY <1>0, <1>2, <2>1
  <2>3. v[k + 1] <= y
    BY <2>2
  <2> QED
    BY <2>1, <2>3
<1>3. \A k \in 0 .. n : k \in S
  <2> HIDE DEF S
  <2> QED
    BY <1>0, <1>1, <1>2, UpTo
<1> QED
  BY <1>0, <1>3

(* A number between a blank and a comma is read back. *)
LEMMA AtoiReads ==
  ASSUME NEW y \in Nat, y < IntRange, NEW t, NEW n, NEW v, Writes(t, y, n, v),
         NEW text, NEW len \in Nat, len = Len(text), len >= n + 2,
         text[1] = Blank, text[n + 2] = Comma, \A j \in 1 .. n : text[j + 1] = t[j]
  PROVE  Atoi(text) = y
<1>1. PICK c : Counts(c, text) /\ Atoi(text) = c[len].x
  BY AtoiDef
<1>2. \A i \in 1 .. len : c[i] = ReadNumber(c[i - 1], text[i])
  BY <1>1 DEF Counts
<1>3. /\ n \in Nat /\ n >= 1 /\ v[0] = y /\ v[n] = 0
      /\ \A k \in 1 .. n : v[k] = v[k - 1] \div 10
      /\ \A j \in 1 .. n : t[j] = Table[(v[n - j] % 10) + 1]
  BY DEF Writes
<1>4. \A k \in 0 .. n : v[k] \in Nat /\ v[k] <= y
  BY LeftIsLess
<1>5. c[1] = [mode |-> "spaces", x |-> 0]
  <2>1. c[0] = [mode |-> "spaces", x |-> 0]
    BY <1>1 DEF Counts
  <2>2. 1 \in 1 .. len /\ 1 - 1 = 0
    BY <1>3
  <2>3. c[1] = ReadNumber(c[0], Blank)
    BY <1>2, <2>2
  <2>4. c[0].mode = "spaces"
    BY <2>1
  <2>5. ReadNumber(c[0], Blank) = c[0]
    BY <2>4, SkipBlank
  <2> QED
    BY <2>1, <2>3, <2>5
<1> DEFINE S == {j \in 0 .. n : /\ c[j + 1].x = v[n - j] /\ c[j + 1].mode # "end"
                                /\ j > 0 => c[j + 1].mode = "digits"}
<1>6. 0 \in S
  <2>1. 0 + 1 = 1 /\ n - 0 = n /\ 0 \in 0 .. n /\ "spaces" # "end" /\ ~(0 > 0)
    BY <1>3
  <2>2. c[1].x = 0 /\ c[1].mode = "spaces"
    BY <1>5
  <2> QED
    BY <1>3, <2>1, <2>2
<1>7. ASSUME NEW j \in 0 .. n - 1, j \in S PROVE j + 1 \in S
  <2>1. /\ j + 1 \in 1 .. n /\ j + 1 \in 0 .. n /\ (j + 1) + 1 \in 1 .. len
        /\ ((j + 1) + 1) - 1 = j + 1
    BY <1>3
  <2>2. c[(j + 1) + 1] = ReadNumber(c[j + 1], text[(j + 1) + 1]) /\ text[(j + 1) + 1] = t[j + 1]
    BY <1>2, <2>1
  <2> PICK k, u, w : k = n - (j + 1) /\ u = v[k] /\ w = v[n - j]
    OBVIOUS
  <2>3. k \in 0 .. n /\ n - j \in 1 .. n /\ (n - j) - 1 = k
    BY <1>3, <2>1
  <2>4. u \in Nat /\ u <= y /\ w = u \div 10
    BY <1>3, <1>4, <2>3
  <2>5. t[j + 1] = Table[(u % 10) + 1]
    BY <1>3, <2>1
  <2>6. u % 10 \in 0 .. 9 /\ w * 10 + (u % 10) = u
    BY <2>4, LastDigit
  <2>7. c[j + 1].x = w /\ c[j + 1].mode # "end"
    BY <1>7
  <2> PICK s, e, ch : s = c[j + 1] /\ e = u % 10 /\ ch = t[j + 1]
    OBVIOUS
  <2>8. s.mode # "end" /\ s.x = w /\ e \in 0 .. 9 /\ ch = Table[e + 1] /\ w * 10 + e = u
    BY <2>5, <2>6, <2>7
  <2>9. ReadNumber(s, ch).mode = "digits" /\ ReadNumber(s, ch).x = (s.x * 10 + e) % IntRange
    BY ONLY <2>8, TakeDigit
  <2>10. u % IntRange = u
    <3>1. u < IntRange /\ IntRange \in Nat
      BY <2>4, IntRangeIs
    <3> QED
      BY ONLY <2>4, <3>1, SmallMod
  <2>11. c[(j + 1) + 1].x = u /\ c[(j + 1) + 1].mode = "digits"
    BY <2>2, <2>8, <2>9, <2>10
  <2>12. "digits" # "end"
    OBVIOUS
  <2> QED
    BY <2>1, <2>11, <2>12
<1>8. c[n + 1].x = y /\ c[n + 1].mode = "digits"
  <2>1. n \in S
    <3> HIDE DEF S
    <3>1. \A i \in 0 .. n : i \in S
      BY ONLY <1>3, <1>6, <1>7, UpTo
    <3>2. n \in 0 .. n
      BY <1>3
    <3> QED
      BY <3>1, <3>2
  <2>2. n - n = 0 /\ n > 0
    BY <1>3
  <2> QED
    BY <1>3, <2>1, <2>2
<1>9. c[n + 2].x = y /\ c[n + 2].mode = "end"
  <2>1. n + 2 \in 1 .. len /\ (n + 2) - 1 = n + 1
    BY <1>3
  <2>2. c[n + 2] = ReadNumber(c[n + 1], Comma)
    BY <1>2, <2>1
  <2>3. ReadNumber(c[n + 1], Comma) = [mode |-> "end", x |-> c[n + 1].x]
    BY <1>8, EndNumber
  <2> QED
    BY <1>8, <2>2, <2>3
<1> PICK m : m = len - (n + 2)
  OBVIOUS
<1>10. m \in Nat /\ (n + 2) + m = len
  BY <1>3
<1> DEFINE T == {i \in 0 .. m : c[(n + 2) + i].x = y /\ c[(n + 2) + i].mode = "end"}
<1>11. 0 \in T
  <2>1. 0 \in 0 .. m /\ (n + 2) + 0 = n + 2
    BY <1>3, <1>10
  <2> QED
    BY <1>9, <2>1
<1>12. ASSUME NEW i \in 0 .. m - 1, i \in T PROVE i + 1 \in T
  <2>1. /\ (n + 2) + (i + 1) \in 1 .. len /\ ((n + 2) + (i + 1)) - 1 = (n + 2) + i
        /\ i + 1 \in 0 .. m
    BY <1>3, <1>10
  <2> PICK s, ch : s = c[(n + 2) + i] /\ ch = text[(n + 2) + (i + 1)]
    OBVIOUS
  <2>2. c[(n + 2) + (i + 1)] = ReadNumber(s, ch)
    BY <1>2, <2>1
  <2>3. s.x = y /\ s.mode = "end"
    BY <1>12
  <2>4. ReadNumber(s, ch) = [mode |-> "end", x |-> s.x]
    BY <2>3, EndStays
  <2>5. c[(n + 2) + (i + 1)].x = y /\ c[(n + 2) + (i + 1)].mode = "end"
    BY <2>2, <2>3, <2>4
  <2> QED
    BY <2>1, <2>5
<1>13. m \in T
  <2> HIDE DEF T
  <2> QED
    BY ONLY <1>10, <1>11, <1>12, UpTo
<1> QED
  BY <1>1, <1>10, <1>13

LEMMA ModRange ==
  ASSUME NEW u \in Int, NEW r \in Nat, r > 0
  PROVE  u % r \in Nat /\ u % r < r
OBVIOUS

(* A blank, a number, a comma, a pointer and a question mark. *)
Whole(blank, N, comma, P) == (Append(Append(<<>>, blank) \o N, comma) \o P) \o <<"?">>
Framed(T, blank, N, comma, P) ==
  /\ T = <<blank>> \o N \o <<comma>> \o P \o <<"?">>
  /\ T \in Seq(Printed) /\ Len(T) >= Len(N) + 2 /\ Len(T) \in Nat
  /\ T[1] = blank /\ T[Len(N) + 2] = comma /\ \A j \in 1 .. Len(N) : T[j + 1] = N[j]

LEMMA WholeText ==
  ASSUME NEW blank \in Printed, NEW comma \in Printed, NEW N \in Seq(Printed), NEW P \in Seq(Printed), NEW T,
         T = Whole(blank, N, comma, P)
  PROVE  Framed(T, blank, N, comma, P)
<1>1. <<>> \in Seq(Printed) /\ <<blank>> \in Seq(Printed) /\ <<comma>> \in Seq(Printed)
  OBVIOUS
<1>2. <<"?">> \in Seq(Printed) /\ Len(<<"?">>) = 1
  <2>1. "?" \in Printed
    BY Zenon DEF Printed
  <2> QED
    BY <2>1
<1> PICK n, p : n = Len(N) /\ p = Len(P)
  OBVIOUS
<1>3. n \in Nat /\ p \in Nat
  OBVIOUS
<1> PICK s1, s2, s3, s4 : /\ s1 = <<blank>> /\ s2 = s1 \o N /\ s3 = s2 \o <<comma>> /\ s4 = s3 \o P
  OBVIOUS
<1>4. s1 \in Seq(Printed) /\ Len(s1) = 1 /\ s1[1] = blank
  BY <1>1
<1>5. /\ s2 \in Seq(Printed) /\ Len(s2) = 1 + n
      /\ \A i \in 1 .. 1 + n : s2[i] = IF i <= 1 THEN s1[i] ELSE N[i - 1]
  BY <1>4, ConcatProperties
<1>6. Len(<<comma>>) = 1 /\ <<comma>>[1] = comma
  OBVIOUS
<1> PICK cm : cm = <<comma>>
  OBVIOUS
<1>7. /\ s3 \in Seq(Printed) /\ Len(s3) = (1 + n) + 1
      /\ \A i \in 1 .. (1 + n) + 1 : s3[i] = IF i <= 1 + n THEN s2[i] ELSE cm[i - (1 + n)]
  BY <1>1, <1>5, <1>6, ConcatProperties
<1>8. /\ s4 \in Seq(Printed) /\ Len(s4) = ((1 + n) + 1) + p
      /\ \A i \in 1 .. ((1 + n) + 1) + p : s4[i] = IF i <= (1 + n) + 1 THEN s3[i] ELSE P[i - ((1 + n) + 1)]
  BY <1>7, ConcatProperties
<1>9. Append(<<>>, blank) = s1
  BY <1>1
<1>10. Append(s2, comma) = s3
  BY <1>5, AppendIsConcat
<1>11. T = s4 \o <<"?">>
  BY <1>9, <1>10 DEF Whole
<1> PICK qm : qm = <<"?">>
  OBVIOUS
<1>12. /\ T \in Seq(Printed) /\ Len(T) = (((1 + n) + 1) + p) + 1
       /\ \A i \in 1 .. (((1 + n) + 1) + p) + 1 :
            T[i] = IF i <= ((1 + n) + 1) + p THEN s4[i] ELSE qm[i - (((1 + n) + 1) + p)]
  BY <1>2, <1>8, <1>11, ConcatProperties
<1>13. T[1] = blank
  <2>1. T[1] = s4[1] /\ s4[1] = s3[1] /\ s3[1] = s2[1] /\ s2[1] = s1[1]
    BY <1>3, <1>5, <1>7, <1>8, <1>12
  <2> QED
    BY <1>4, <2>1
<1>14. T[n + 2] = comma
  <2>1. T[n + 2] = s4[n + 2] /\ s4[n + 2] = s3[n + 2]
    BY <1>3, <1>8, <1>12
  <2>2. n + 2 \in 1 .. (1 + n) + 1 /\ ~(n + 2 <= 1 + n) /\ (n + 2) - (1 + n) = 1
    BY <1>3
  <2>3. s3[n + 2] = cm[1]
    BY <1>7, <2>2
  <2> QED
    BY <1>6, <2>1, <2>3
<1>15. ASSUME NEW j \in 1 .. n PROVE T[j + 1] = N[j]
  <2>1. T[j + 1] = s4[j + 1] /\ s4[j + 1] = s3[j + 1] /\ s3[j + 1] = s2[j + 1]
    BY <1>3, <1>7, <1>8, <1>12
  <2>2. j + 1 \in 1 .. 1 + n /\ ~(j + 1 <= 1) /\ (j + 1) - 1 = j
    BY <1>3
  <2>3. s2[j + 1] = N[j]
    BY <1>5, <2>2
  <2> QED
    BY <2>1, <2>3
<1>16. T = <<blank>> \o N \o <<comma>> \o P \o <<"?">>
  BY <1>11
<1>17. Len(T) \in Nat /\ Len(T) >= n + 2
  BY <1>3, <1>12
<1> QED
  BY <1>12, <1>13, <1>14, <1>15, <1>16, <1>17 DEF Framed

LEMMA FirstDigit ==
  ASSUME NEW t, NEW y, NEW n, NEW v, Writes(t, y, n, v), Len(t) > 1
  PROVE  t[1] # "0"
<1>1. /\ n \in Nat /\ Len(t) = n /\ v[n] = 0 /\ \A k \in 0 .. n : v[k] \in Nat
      /\ \A k \in 1 .. n : v[k] = v[k - 1] \div 10
      /\ \A j \in 1 .. n : t[j] = Table[(v[n - j] % 10) + 1]
      /\ n > 1 => v[n - 1] # 0
  BY DEF Writes
<1> PICK u : u = v[n - 1]
  OBVIOUS
<1>2. n - 1 \in 0 .. n /\ n \in 1 .. n /\ 1 \in 1 .. n
  BY <1>1
<1>3. u \in Nat /\ u # 0 /\ u \div 10 = 0 /\ t[1] = Table[(u % 10) + 1]
  BY <1>1, <1>2
<1>4. u % 10 = u /\ u \in 1 .. 9
  BY <1>3
<1>5. Table[u + 1] # "0"
  <2>1. u + 1 \in 2 .. 10
    BY <1>4
  <2>2. \A i \in 2 .. 10 : Table[i] # "0"
    BY DEF Table
  <2> QED
    BY <2>1, <2>2
<1> QED
  BY <1>3, <1>4, <1>5

LEMMA PrintsBackRight ==
  ASSUME NEW x \in Int
  PROVE  PrintsBack(x)
<1> PICK y, N, P : y = x % IntRange /\ N = Decimal(y) /\ P = Itos(y, 16, 8)
  OBVIOUS
<1>1. y \in Nat /\ y < IntRange /\ y < Widest
  <2>1. IntRange \in Nat /\ IntRange > 0 /\ IntRange <= Widest /\ Widest \in Nat
    BY IntRangeIs, SMT DEF Widest
  <2>2. y \in Nat /\ y < IntRange
    BY <2>1, ModRange
  <2> QED
    BY <2>1, <2>2
<1>2. PICK n, v : Writes(N, y, n, v)
  BY <1>1, DecimalIs
<1>3. N \in Seq(Printed) /\ P \in Seq(Printed) /\ Len(P) = 10 /\ Len(N) = n
  BY <1>1, <1>2, PointerIs DEF Writes
<1> PICK text, number, pointer :
      /\ text = Vsprintf(<<" ", "%", "l", "d", ",", "%", "p", "%", "x">>, <<x, x % 2^Bits>>)
      /\ number = Vsprintf(<<"%", "u">>, <<x>>) /\ pointer = Vsprintf(<<"%", "p">>, <<x % 2^Bits>>)
  BY Zenon
<1>4. x % 2^Bits = y
  BY Zenon DEF IntRange
<1>5. number = N
  <2>1. "u" \in {"u", "p"}
    BY Zenon
  <2>2. number = <<>> \o Directive("u", x)
    BY <2>1, OneDirective, Zenon
  <2>3. Directive("u", x) = N
    BY Directives
  <2>4. <<>> \o N = N
    BY <1>3, ConcatEmptySeq
  <2> QED
    BY ONLY <2>2, <2>3, <2>4
<1>6. pointer = P
  <2>1. "p" \in {"u", "p"}
    BY Zenon
  <2>2. pointer = <<>> \o Directive("p", y)
    BY <1>4, <2>1, OneDirective, Zenon
  <2>3. Directive("p", y) = P
    BY Directives
  <2>4. <<>> \o P = P
    BY <1>3, ConcatEmptySeq
  <2> QED
    BY ONLY <2>2, <2>3, <2>4
<1>7. text = Whole(Blank, N, Comma, P)
  <2>1. Blank # "%" /\ Comma # "%"
    BY BlankAndComma
  <2>2. Vsprintf(<<Blank, "%", "l", "d", Comma, "%", "p", "%", "x">>, <<x, y>>)
          = (Append(Append(<<>>, Blank) \o Decimal(x % IntRange), Comma) \o Itos(y, 16, 8)) \o <<"?">>
    BY <2>1, WholeFormat, Zenon
  <2>3. text = Vsprintf(<<Blank, "%", "l", "d", Comma, "%", "p", "%", "x">>, <<x, y>>)
    BY <1>4, Zenon DEF Blank, Comma
  <2> QED
    BY <2>2, <2>3, Zenon DEF Whole
<1>8. Blank \in Printed /\ Comma \in Printed
  BY Zenon DEF Blank, Comma, Printed
<1>9. /\ text = <<Blank>> \o N \o <<Comma>> \o P \o <<"?">>
      /\ text \in Seq(Printed) /\ Len(text) >= Len(N) + 2 /\ Len(text) \in Nat
      /\ text[1] = Blank /\ text[Len(N) + 2] = Comma /\ \A j \in 1 .. Len(N) : text[j + 1] = N[j]
  <2>1. Framed(text, Blank, N, Comma, P)
    BY ONLY <1>3, <1>7, <1>8, WholeText
  <2> QED
    BY <2>1, Zenon DEF Framed
<1>10. Atoi(text) = y
  <2> PICK len : len = Len(text)
    OBVIOUS
  <2>1. /\ len \in Nat /\ len >= n + 2 /\ text[1] = Blank /\ text[n + 2] = Comma
        /\ \A j \in 1 .. n : text[j + 1] = N[j]
    BY ONLY <1>3, <1>9, len = Len(text)
  <2> QED
    BY ONLY <1>1, <1>2, <2>1, len = Len(text), AtoiReads
<1>11. text = <<" ">> \o number \o <<",">> \o pointer \o <<"?">>
  BY <1>5, <1>6, <1>9, Zenon DEF Blank, Comma
<1>12. Len(number) > 1 => number[1] # "0"
  BY ONLY <1>2, <1>5, FirstDigit
<1>13. Len(pointer) = 10
  BY ONLY <1>3, <1>6
<1> QED
  BY <1>4, <1>10, <1>11, <1>12, <1>13, Zenon DEF PrintsBack

(* Copies, comparisons and the printing of numbers are right, for every    *)
(* memory and every width of int that KlibAssumption admits.               *)
THEOREM KlibIsRight == KlibSpec => []KlibRight
<1> DEFINE Called == \/ klib_call = <<>>
                     \/ \E m \in Memories : klib_call = [memory |-> m]
                     \/ \E x \in Int : klib_call = [number |-> x]
<1>1. KlibInit => Called
  BY DEF KlibInit
<1>2. Called /\ [KlibNext]_klib_call => Called'
  <2> SUFFICES ASSUME Called, [KlibNext]_klib_call PROVE Called'
    OBVIOUS
  <2>1. ASSUME CopyOrCompare PROVE Called'
    BY <2>1 DEF CopyOrCompare, Memories, Addresses
  <2>2. ASSUME PrintAndRead PROVE Called'
    <3> PICK half : half = IntRange \div 2
      OBVIOUS
    <3>1. half \in Int
      BY IntRangeIs
    <3>2. \E x \in -half .. half - 1 : klib_call' = [number |-> x]
      BY <2>2, Zenon DEF PrintAndRead, IntRange
    <3>3. \E x \in Int : klib_call' = [number |-> x]
      BY <3>1, <3>2
    <3> QED
      BY <3>3
  <2>3. CASE UNCHANGED klib_call
    BY <2>3
  <2> QED
    BY <2>1, <2>2, <2>3 DEF KlibNext
<1>3. Called => KlibRight
  <2> SUFFICES ASSUME Called PROVE KlibRight
    OBVIOUS
  <2>1. ASSUME NEW m \in Memories, klib_call = [memory |-> m] PROVE KlibRight
    <3>1. klib_call.memory = m /\ "number" \notin DOMAIN klib_call
      BY <2>1
    <3> QED
      BY <3>1, CopiesAreRight DEF KlibRight
  <2>2. ASSUME NEW x \in Int, klib_call = [number |-> x] PROVE KlibRight
    <3>1. klib_call.number = x /\ "memory" \notin DOMAIN klib_call
      BY <2>2
    <3> QED
      BY <3>1, PrintsBackRight DEF KlibRight
  <2>3. ASSUME klib_call = <<>> PROVE KlibRight
    <3>1. "number" \notin DOMAIN klib_call /\ "memory" \notin DOMAIN klib_call
      BY <2>3
    <3> QED
      BY <3>1 DEF KlibRight
  <2> QED
    BY <2>1, <2>2, <2>3
<1> QED
  BY <1>1, <1>2, <1>3, PTL DEF KlibSpec


-----------------------------------------------------------------------------
(* Powers of two *)
LEMMA PowerRec == Power[0] = 1 /\ \A k \in 1 .. 64 : Power[k] = 2 * Power[k - 1]
<1> DEFINE Is(f) == f = [k \in 0 .. 64 |-> IF k = 0 THEN 1 ELSE 2 * f[k - 1]]
           step == [p \in Nat \X (1 .. 64) |-> 2 * p[1]]
<1>1. PICK f \in [0 .. 64 -> Nat] : Computes(f, 64, 1, step)
  <2>1. step \in [Nat \X (1 .. 64) -> Nat] /\ 1 \in Nat /\ 64 \in Nat
    OBVIOUS
  <2> HIDE DEF step
  <2> QED
    BY <2>1, Recursion
<1>2. f[0] = 1 /\ \A k \in 1 .. 64 : f[k] = 2 * f[k - 1]
  <2>1. f[0] = 1 /\ \A k \in 1 .. 64 : f[k] = step[<<f[k - 1], k>>]
    <3> HIDE DEF step
    <3> QED
      BY <1>1 DEF Computes
  <2>2. ASSUME NEW k \in 1 .. 64 PROVE f[k] = 2 * f[k - 1]
    <3>1. f[k - 1] \in Nat
      <4>1. k - 1 \in 0 .. 64
        OBVIOUS
      <4> QED
        BY <4>1
    <3>2. step[<<f[k - 1], k>>] = 2 * f[k - 1]
      BY <3>1
    <3> HIDE DEF step
    <3> QED
      BY <2>1, <3>2
  <2> QED
    BY <2>1, <2>2
<1>3. Is(f)
  <2>1. \A k \in 0 .. 64 : f[k] = IF k = 0 THEN 1 ELSE 2 * f[k - 1]
    BY <1>2
  <2> QED
    BY <2>1
<1>4. Power = CHOOSE g : Is(g)
  BY DEF Power
<1>5. Is(Power)
  <2> HIDE DEF Is
  <2>1. \E g : Is(g)
    BY <1>3
  <2> QED
    BY <1>4, <2>1
<1> PICK g : g = Power
  OBVIOUS
<1>6. g = [k \in 0 .. 64 |-> IF k = 0 THEN 1 ELSE 2 * g[k - 1]]
  BY <1>5
<1>7. g[0] = 1 /\ \A k \in 1 .. 64 : g[k] = 2 * g[k - 1]
  BY <1>6
<1> QED
  BY <1>7

LEMMA PowerNat == \A k \in 0 .. 64 : Power[k] \in Nat /\ Power[k] >= 1
<1> DEFINE S == {k \in 0 .. 64 : Power[k] \in Nat /\ Power[k] >= 1}
<1>1. 0 \in S
  BY PowerRec
<1>2. ASSUME NEW k \in 0 .. 64 - 1, k \in S PROVE k + 1 \in S
  <2>1. k + 1 \in 1 .. 64 /\ (k + 1) - 1 = k /\ k + 1 \in 0 .. 64
    OBVIOUS
  <2>2. Power[k + 1] = 2 * Power[k] /\ Power[k] \in Nat /\ Power[k] >= 1
    BY <1>2, <2>1, PowerRec
  <2> QED
    BY <2>1, <2>2
<1>3. \A k \in 0 .. 64 : k \in S
  <2> HIDE DEF S
  <2> QED
    BY <1>1, <1>2, UpTo
<1> QED
  BY <1>3

LEMMA PowerNext ==
  ASSUME NEW k \in 0 .. 63
  PROVE  Power[k + 1] = 2 * Power[k] /\ Power[k] \in Nat /\ Power[k] >= 1
<1>1. k + 1 \in 1 .. 64 /\ (k + 1) - 1 = k /\ k \in 0 .. 64
  OBVIOUS
<1> QED
  BY <1>1, PowerRec, PowerNat

LEMMA Regroup ==
  ASSUME NEW a \in Int, NEW b \in Int, NEW c \in Int
  PROVE  a * (b * c) = (a * b) * c /\ a * (b * c) = b * (a * c) /\ a * b = b * a
OBVIOUS

LEMMA Distribute ==
  ASSUME NEW a \in Int, NEW b \in Int, NEW c \in Int
  PROVE  /\ (a + b) * c = a * c + b * c /\ (a - b) * c = a * c - b * c
         /\ c * (a + b) = c * a + c * b /\ c * (a - b) = c * a - c * b
OBVIOUS

LEMMA PowerSum ==
  ASSUME NEW j \in Nat, NEW k \in Nat, j + k <= 64
  PROVE  Power[j + k] = Power[j] * Power[k]
<1> DEFINE S == {m \in 0 .. k : Power[j + m] = Power[j] * Power[m]}
<1>1. j \in 0 .. 64 /\ Power[j] \in Nat
  <2>1. j \in 0 .. 64
    OBVIOUS
  <2> QED
    BY <2>1, PowerNat
<1>2. 0 \in S
  <2>1. j + 0 = j /\ Power[0] = 1 /\ Power[j] * 1 = Power[j] /\ 0 \in 0 .. k
    BY <1>1, PowerRec
  <2> QED
    BY <2>1
<1>3. ASSUME NEW m \in 0 .. k - 1, m \in S PROVE m + 1 \in S
  <2>1. m \in 0 .. 63 /\ j + m \in 0 .. 63 /\ (j + m) + 1 = j + (m + 1) /\ m + 1 \in 0 .. k
    OBVIOUS
  <2> PICK a, b, c, d, e : a = Power[j] /\ b = Power[m] /\ c = Power[j + m] /\ d = Power[m + 1] /\ e = Power[j + (m + 1)]
    OBVIOUS
  <2>2. d = 2 * b /\ b \in Nat
    BY <2>1, PowerNext
  <2>3. e = 2 * c
    BY <2>1, PowerNext
  <2>4. c = a * b /\ a \in Nat
    BY <1>1, <1>3
  <2>5. e = a * d
    BY ONLY <2>2, <2>3, <2>4, Regroup
  <2>6. Power[j + (m + 1)] = Power[j] * Power[m + 1]
    BY <2>5
  <2> QED
    BY <2>1, <2>6
<1>4. k \in S
  <2> HIDE DEF S
  <2> QED
    BY ONLY k \in Nat, <1>2, <1>3, UpTo
<1> QED
  BY <1>4

LEMMA PowerGrows ==
  ASSUME NEW j \in Nat, NEW k \in Nat, j <= k, k <= 64
  PROVE  Power[j] <= Power[k]
<1> PICK m : m = k - j
  OBVIOUS
<1>1. m \in Nat /\ j + m = k /\ m \in 0 .. 64 /\ j \in 0 .. 64
  OBVIOUS
<1>2. Power[k] = Power[j] * Power[m]
  BY <1>1, PowerSum
<1> PICK a, b : a = Power[j] /\ b = Power[m]
  OBVIOUS
<1>3. a \in Nat /\ b \in Nat /\ b >= 1
  BY <1>1, PowerNat
<1>4. a <= a * b
  BY ONLY <1>3
<1> QED
  BY <1>2, <1>4

(* A power lies between two others only if its exponent does. *)
LEMMA PowerBetween ==
  ASSUME NEW j \in 0 .. 63, NEW k \in 0 .. 63, NEW x \in Nat,
         Power[j] <= x, x < Power[j + 1], Power[k] <= x, x < Power[k + 1]
  PROVE  j = k
<1> PICK a, b, c, d : a = Power[j] /\ b = Power[j + 1] /\ c = Power[k] /\ d = Power[k + 1]
  OBVIOUS
<1>0. j \in Nat /\ k \in Nat /\ j + 1 \in 0 .. 64 /\ k + 1 \in 0 .. 64 /\ j + 1 \in Nat /\ k + 1 \in Nat
  OBVIOUS
<1>1. a \in Nat /\ b \in Nat /\ c \in Nat /\ d \in Nat /\ a <= x /\ x < b /\ c <= x /\ x < d
  BY <1>0, PowerNat
<1>2. ~(j < k)
  <2>1. j < k => j + 1 <= k /\ k <= 64
    OBVIOUS
  <2>2. j < k => b <= c
    BY <1>0, <2>1, PowerGrows
  <2> QED
    BY <1>1, <2>2
<1>3. ~(k < j)
  <2>1. k < j => k + 1 <= j /\ j <= 64
    OBVIOUS
  <2>2. k < j => d <= a
    BY <1>0, <2>1, PowerGrows
  <2> QED
    BY <1>1, <2>2
<1> QED
  BY <1>2, <1>3

(* The widths, and the powers that go with them. *)
LEMMA Sizes ==
  /\ W \in Nat /\ W >= 2 /\ W <= 32 /\ W \in Widths /\ 2 * W \in Widths
  /\ Word = Power[W] /\ Word * Word = Power[2 * W] /\ Word \in Nat /\ Word >= 4
<1>1. W \in Nat /\ W >= 2 /\ W <= 32 /\ W \in Widths /\ 2 * W \in Widths
  BY WAssumption DEF Widths
<1>2. Word = Power[W]
  BY DEF Word
<1>3. W + W = 2 * W /\ W + W <= 64 /\ W \in 0 .. 64
  BY <1>1
<1>4. Power[2 * W] = Power[W] * Power[W]
  BY <1>1, <1>3, PowerSum
<1>5. Power[W] \in Nat
  BY <1>3, PowerNat
<1>6. Power[2] = 4
  <2>1. Power[0 + 1] = 2 * Power[0] /\ Power[1 + 1] = 2 * Power[1]
    BY PowerNext
  <2> QED
    BY <2>1, PowerRec
<1>7. Power[2] <= Power[W]
  <2>1. 2 \in Nat /\ 2 <= W /\ W <= 64
    BY <1>1
  <2> QED
    BY <1>1, <2>1, PowerGrows
<1> QED
  BY <1>1, <1>2, <1>4, <1>5, <1>6, <1>7

LEMMA DivModIs ==
  ASSUME NEW u \in Int, NEW r \in Nat, r > 0
  PROVE  /\ u = (u \div r) * r + (u % r) /\ u % r \in Nat /\ u % r < r /\ u \div r \in Int
         /\ u \in Nat => u \div r \in Nat
OBVIOUS

LEMMA DivModUnique ==
  ASSUME NEW q \in Int, NEW s \in Nat, NEW r \in Nat, s < r
  PROVE  (q * r + s) \div r = q /\ (q * r + s) % r = s
OBVIOUS

LEMMA TimesLess ==
  ASSUME NEW a \in Int, NEW b \in Int, NEW c \in Int, c > 0
  PROVE  (a * c < b * c <=> a < b) /\ (a * c <= b * c <=> a <= b)
OBVIOUS

-----------------------------------------------------------------------------
(* The bit counts *)
Halvings == {2, 4, 8, 16, 32}

LEMMA ClzDef ==
  \E f : /\ f[2] = ClzTwo /\ \A h \in Halvings : f[2 * h] = ClzTwice(h, f[h])
         /\ \A w, a : Clz(w, a) = f[w][a]
<1> DEFINE Is(c) == c = [v \in Widths |-> IF v = 2 THEN ClzTwo ELSE ClzTwice(v \div 2, c[v \div 2])]
<1>1. \E c : Is(c)
  <2> PICK c2, c4, c8, c16, c32, c64 :
        /\ c2 = ClzTwo /\ c4 = ClzTwice(2, c2) /\ c8 = ClzTwice(4, c4)
        /\ c16 = ClzTwice(8, c8) /\ c32 = ClzTwice(16, c16) /\ c64 = ClzTwice(32, c32)
    OBVIOUS
  <2> PICK c : c = [v \in Widths |-> IF v = 2 THEN c2 ELSE IF v = 4 THEN c4 ELSE IF v = 8 THEN c8
                                     ELSE IF v = 16 THEN c16 ELSE IF v = 32 THEN c32 ELSE c64]
    OBVIOUS
  <2>1. c[2] = c2 /\ c[4] = c4 /\ c[8] = c8 /\ c[16] = c16 /\ c[32] = c32 /\ c[64] = c64
    BY DEF Widths
  <2>2. /\ 4 \div 2 = 2 /\ 8 \div 2 = 4 /\ 16 \div 2 = 8 /\ 32 \div 2 = 16 /\ 64 \div 2 = 32
        /\ 4 # 2 /\ 8 # 2 /\ 16 # 2 /\ 32 # 2 /\ 64 # 2
    OBVIOUS
  <2>3. \A v \in Widths : c[v] = IF v = 2 THEN ClzTwo ELSE ClzTwice(v \div 2, c[v \div 2])
    BY <2>1, <2>2 DEF Widths
  <2>4. Is(c)
    BY <2>3
  <2> HIDE DEF Is
  <2> QED
    BY <2>4
<1>2. PICK f : f = CHOOSE c : Is(c)
  OBVIOUS
<1>3. Is(f)
  <2> HIDE DEF Is
  <2> QED
    BY <1>1, <1>2
<1>4. \A w, a : Clz(w, a) = f[w][a]
  BY <1>2, Zenon DEF Clz
<1>5. \A v \in Widths : f[v] = IF v = 2 THEN ClzTwo ELSE ClzTwice(v \div 2, f[v \div 2])
  BY <1>3
<1>6. f[2] = ClzTwo
  <2>1. 2 \in Widths
    BY DEF Widths
  <2> QED
    BY <1>5, <2>1
<1>7. ASSUME NEW h \in Halvings PROVE f[2 * h] = ClzTwice(h, f[h])
  <2> PICK v : v = 2 * h
    OBVIOUS
  <2>1. v \in Widths /\ v \div 2 = h /\ v # 2
    BY DEF Widths, Halvings
  <2> QED
    BY <1>5, <2>1
<1> QED
  BY <1>4, <1>6, <1>7

(* x of w bits has c leading zeros. *)
LeadingZeros(w, x, c) == c \in 0 .. w - 1 /\ Power[w - 1 - c] <= x /\ x < Power[w - c]

LEMMA ClzDoubles ==
  ASSUME NEW h \in Halvings, NEW f,
         \A x \in Nat : 0 < x /\ x < Power[h] => LeadingZeros(h, x, f[x])
  PROVE  \A x \in Nat : 0 < x /\ x < Power[2 * h] => LeadingZeros(2 * h, x, ClzTwice(h, f)[x])
<1> SUFFICES ASSUME NEW x \in Nat, 0 < x, x < Power[2 * h]
             PROVE  LeadingZeros(2 * h, x, ClzTwice(h, f)[x])
  OBVIOUS
<1>1. h \in Nat /\ h >= 2 /\ h <= 32 /\ h \in 0 .. 64 /\ 2 * h \in 0 .. 64 /\ h + h = 2 * h /\ h + h <= 64
  BY DEF Halvings
<1> PICK P, y, r : P = Power[h] /\ y = x \div P /\ r = x % P
  OBVIOUS
<1>2. P \in Nat /\ P > 0 /\ Power[2 * h] = P * P
  <2>1. Power[h + h] = Power[h] * Power[h]
    BY <1>1, PowerSum
  <2> QED
    BY <1>1, <2>1, PowerNat
<1>3. x = y * P + r /\ y \in Nat /\ r \in Nat /\ r < P
  BY <1>2, DivModIs
<1>4. ClzTwice(h, f)[x] = IF y = 0 THEN h + f[x] ELSE f[y]
  BY DEF ClzTwice, Shr
<1>5. CASE y = 0
  <2> PICK c : c = f[x]
    OBVIOUS
  <2>1. x < P
    <3>1. y * P = 0
      BY <1>2, <1>5
    <3> QED
      BY <1>3, <3>1
  <2>2. c \in 0 .. h - 1 /\ Power[h - 1 - c] <= x /\ x < Power[h - c]
    BY <2>1 DEF LeadingZeros
  <2>3. h + c \in 0 .. (2 * h) - 1 /\ (2 * h) - 1 - (h + c) = h - 1 - c /\ (2 * h) - (h + c) = h - c
    BY <1>1, <2>2
  <2>4. LeadingZeros(2 * h, x, h + c)
    BY ONLY <2>2, <2>3 DEF LeadingZeros
  <2> QED
    BY <1>4, <1>5, <2>4
<1>6. CASE y # 0
  <2> PICK c : c = f[y]
    OBVIOUS
  <2>1. y < P
    <3>1. y * P < P * P
      BY <1>2, <1>3
    <3> QED
      BY <1>2, <1>3, <3>1, TimesLess
  <2>2. c \in 0 .. h - 1 /\ Power[h - 1 - c] <= y /\ y < Power[h - c]
    BY <1>3, <1>6, <2>1 DEF LeadingZeros
  <2> PICK i, j : i = h - 1 - c /\ j = h - c
    OBVIOUS
  <2> PICK a, b : a = Power[i] /\ b = Power[j]
    OBVIOUS
  <2>3. /\ i \in Nat /\ j \in Nat /\ i \in 0 .. 64 /\ j \in 0 .. 64
        /\ i + h = (2 * h) - 1 - c /\ j + h = (2 * h) - c
        /\ i + h <= 64 /\ j + h <= 64 /\ c \in 0 .. (2 * h) - 1
    BY <1>1, <2>2
  <2>4. Power[(2 * h) - 1 - c] = a * P /\ Power[(2 * h) - c] = b * P
    <3>1. Power[i + h] = Power[i] * Power[h] /\ Power[j + h] = Power[j] * Power[h]
      BY <1>1, <2>3, PowerSum
    <3> QED
      BY <2>3, <3>1
  <2>5. a \in Nat /\ b \in Nat /\ a <= y /\ y + 1 <= b
    <3>1. a \in Nat /\ b \in Nat
      BY <2>3, PowerNat
    <3> QED
      BY <1>3, <2>2, <3>1
  <2>6. a * P <= y * P /\ (y + 1) * P <= b * P /\ (y + 1) * P = y * P + P
    BY ONLY <1>2, <1>3, <2>5, TimesLess
  <2>7. a * P <= x /\ x < b * P
    <3> PICK A, B, Y : A = a * P /\ B = b * P /\ Y = y * P
      OBVIOUS
    <3>1. A \in Int /\ B \in Int /\ Y \in Int
      BY ONLY <1>2, <1>3, <2>5, A = a * P /\ B = b * P /\ Y = y * P
    <3>2. A <= Y /\ Y + P <= B /\ x = Y + r /\ r \in Nat /\ r < P /\ P \in Nat
      BY <1>2, <1>3, <2>6
    <3>3. A <= x /\ x < B
      BY ONLY <3>1, <3>2
    <3> QED
      BY <3>3
  <2>8. LeadingZeros(2 * h, x, c)
    BY <2>3, <2>4, <2>7 DEF LeadingZeros
  <2> QED
    BY <1>4, <1>6, <2>8
<1> QED
  BY <1>5, <1>6

LEMMA ClzIs ==
  ASSUME NEW w \in Widths, NEW x \in Nat, 0 < x, x < Power[w]
  PROVE  LeadingZeros(w, x, Clz(w, x))
<1>1. PICK f : /\ f[2] = ClzTwo /\ \A h \in Halvings : f[2 * h] = ClzTwice(h, f[h])
               /\ \A v, a : Clz(v, a) = f[v][a]
  BY ClzDef
<1> DEFINE Right(v) == \A y \in Nat : 0 < y /\ y < Power[v] => LeadingZeros(v, y, f[v][y])
<1>2. Power[0] = 1 /\ Power[1] = 2 /\ Power[2] = 4
  <2>1. Power[0 + 1] = 2 * Power[0] /\ Power[1 + 1] = 2 * Power[1]
    BY PowerNext
  <2> QED
    BY <2>1, PowerRec
<1>3. Right(2)
  <2> SUFFICES ASSUME NEW y \in Nat, 0 < y, y < Power[2] PROVE LeadingZeros(2, y, f[2][y])
    OBVIOUS
  <2>1. f[2][y] = IF y >= 2 THEN 0 ELSE 2 - y
    BY <1>1 DEF ClzTwo
  <2>2. CASE y = 1
    <3>1. f[2][y] = 1 /\ 1 \in 0 .. 2 - 1 /\ 2 - 1 - 1 = 0 /\ 2 - 1 = 1
      BY <2>1, <2>2
    <3> QED
      BY <1>2, <2>2, <3>1 DEF LeadingZeros
  <2>3. CASE y >= 2
    <3>1. f[2][y] = 0 /\ 0 \in 0 .. 2 - 1 /\ 2 - 1 - 0 = 1 /\ 2 - 0 = 2
      BY <2>1, <2>3
    <3> QED
      BY <1>2, <2>3, <3>1 DEF LeadingZeros
  <2> QED
    BY <2>2, <2>3
<1>4. ASSUME NEW h \in Halvings, Right(h) PROVE Right(2 * h)
  <2>1. f[2 * h] = ClzTwice(h, f[h])
    BY <1>1
  <2>2. \A y \in Nat : 0 < y /\ y < Power[2 * h] => LeadingZeros(2 * h, y, ClzTwice(h, f[h])[y])
    BY <1>4, ClzDoubles
  <2> QED
    BY <2>1, <2>2
<1>5. Right(w)
  <2> HIDE DEF Right
  <2>1. /\ 2 * 2 = 4 /\ 2 * 4 = 8 /\ 2 * 8 = 16 /\ 2 * 16 = 32 /\ 2 * 32 = 64
        /\ 2 \in Halvings /\ 4 \in Halvings /\ 8 \in Halvings /\ 16 \in Halvings /\ 32 \in Halvings
    BY DEF Halvings
  <2>2. Right(4)
    BY <1>3, <1>4, <2>1
  <2>3. Right(8)
    BY <1>4, <2>1, <2>2
  <2>4. Right(16)
    BY <1>4, <2>1, <2>3
  <2>5. Right(32)
    BY <1>4, <2>1, <2>4
  <2>6. Right(64)
    BY <1>4, <2>1, <2>5
  <2> QED
    BY <1>3, <2>2, <2>3, <2>4, <2>5, <2>6 DEF Widths
<1> QED
  BY <1>1, <1>5

LEMMA CtzDef ==
  \E f : /\ f[2] = CtzTwo /\ \A h \in Halvings : f[2 * h] = CtzTwice(h, f[h])
         /\ \A w, a : Ctz(w, a) = f[w][a]
<1> DEFINE Is(c) == c = [v \in Widths |-> IF v = 2 THEN CtzTwo ELSE CtzTwice(v \div 2, c[v \div 2])]
<1>1. \E c : Is(c)
  <2> PICK c2, c4, c8, c16, c32, c64 :
        /\ c2 = CtzTwo /\ c4 = CtzTwice(2, c2) /\ c8 = CtzTwice(4, c4)
        /\ c16 = CtzTwice(8, c8) /\ c32 = CtzTwice(16, c16) /\ c64 = CtzTwice(32, c32)
    OBVIOUS
  <2> PICK c : c = [v \in Widths |-> IF v = 2 THEN c2 ELSE IF v = 4 THEN c4 ELSE IF v = 8 THEN c8
                                     ELSE IF v = 16 THEN c16 ELSE IF v = 32 THEN c32 ELSE c64]
    OBVIOUS
  <2>1. c[2] = c2 /\ c[4] = c4 /\ c[8] = c8 /\ c[16] = c16 /\ c[32] = c32 /\ c[64] = c64
    BY DEF Widths
  <2>2. /\ 4 \div 2 = 2 /\ 8 \div 2 = 4 /\ 16 \div 2 = 8 /\ 32 \div 2 = 16 /\ 64 \div 2 = 32
        /\ 4 # 2 /\ 8 # 2 /\ 16 # 2 /\ 32 # 2 /\ 64 # 2
    OBVIOUS
  <2>3. \A v \in Widths : c[v] = IF v = 2 THEN CtzTwo ELSE CtzTwice(v \div 2, c[v \div 2])
    BY <2>1, <2>2 DEF Widths
  <2>4. Is(c)
    BY <2>3
  <2> HIDE DEF Is
  <2> QED
    BY <2>4
<1>2. PICK f : f = CHOOSE c : Is(c)
  OBVIOUS
<1>3. Is(f)
  <2> HIDE DEF Is
  <2> QED
    BY <1>1, <1>2
<1>4. \A w, a : Ctz(w, a) = f[w][a]
  BY <1>2, Zenon DEF Ctz
<1>5. \A v \in Widths : f[v] = IF v = 2 THEN CtzTwo ELSE CtzTwice(v \div 2, f[v \div 2])
  BY <1>3
<1>6. f[2] = CtzTwo
  <2>1. 2 \in Widths
    BY DEF Widths
  <2> QED
    BY <1>5, <2>1
<1>7. ASSUME NEW h \in Halvings PROVE f[2 * h] = CtzTwice(h, f[h])
  <2> PICK v : v = 2 * h
    OBVIOUS
  <2>1. v \in Widths /\ v \div 2 = h /\ v # 2
    BY DEF Widths, Halvings
  <2> QED
    BY <1>5, <2>1
<1> QED
  BY <1>4, <1>6, <1>7

(* x ends in c zeros, behind a one. *)
TrailingZeros(w, x, c) == c \in 0 .. w - 1 /\ \E z \in Nat : x = z * Power[c] /\ z % 2 = 1

LEMMA CtzDoubles ==
  ASSUME NEW h \in Halvings, NEW f,
         \A x \in Nat : x % Power[h] # 0 => TrailingZeros(h, x, f[x])
  PROVE  \A x \in Nat : x % Power[2 * h] # 0 => TrailingZeros(2 * h, x, CtzTwice(h, f)[x])
<1> SUFFICES ASSUME NEW x \in Nat, x % Power[2 * h] # 0
             PROVE  TrailingZeros(2 * h, x, CtzTwice(h, f)[x])
  OBVIOUS
<1>1. h \in Nat /\ h >= 2 /\ h <= 32 /\ h \in 0 .. 64 /\ 2 * h \in 0 .. 64 /\ h + h = 2 * h /\ h + h <= 64
  BY DEF Halvings
<1> PICK P, y, r : P = Power[h] /\ y = x \div P /\ r = x % P
  OBVIOUS
<1>2. P \in Nat /\ P > 0 /\ Power[2 * h] = P * P
  <2>1. Power[h + h] = Power[h] * Power[h]
    BY <1>1, PowerSum
  <2> QED
    BY <1>1, <2>1, PowerNat
<1>3. x = y * P + r /\ y \in Nat /\ r \in Nat /\ r < P
  <2>1. x \in Int /\ P \in Nat /\ P > 0
    BY <1>2
  <2>2. /\ x = (x \div P) * P + (x % P) /\ x % P \in Nat /\ x % P < P
        /\ x \div P \in Nat
    BY ONLY <2>1, x \in Nat, DivModIs
  <2> QED
    BY ONLY <2>2, y = x \div P /\ r = x % P
<1>4. CtzTwice(h, f)[x] = IF r = 0 THEN h + f[y] ELSE f[x]
  BY DEF CtzTwice, Shr
<1>5. CASE r # 0
  <2> PICK c : c = f[x]
    OBVIOUS
  <2>1. TrailingZeros(h, x, c)
    BY <1>5
  <2>2. 0 .. h - 1 \subseteq 0 .. (2 * h) - 1
    BY <1>1
  <2>3. TrailingZeros(2 * h, x, c)
    BY ONLY <2>1, <2>2 DEF TrailingZeros
  <2> QED
    BY <1>4, <1>5, <2>3
<1>6. CASE r = 0
  <2>1. y % P # 0
    <3> SUFFICES ASSUME y % P = 0 PROVE FALSE
      OBVIOUS
    <3> PICK u : u = y \div P
      OBVIOUS
    <3>1. y = u * P + 0 /\ u \in Nat
      BY ONLY <1>2, <1>3, y % P = 0, u = y \div P, DivModIs
    <3>2. x = u * (P * P) + 0
      <4>1. y = u * P /\ x = y * P
        BY <1>2, <1>3, <1>6, <3>1
      <4> u \in Nat
        BY <3>1
      <4>2. (u * P) * P = u * (P * P) /\ u * (P * P) \in Nat
        BY ONLY <1>2, u \in Nat, Regroup
      <4> QED
        BY <4>1, <4>2
    <3> PICK PP : PP = P * P
      OBVIOUS
    <3>3. PP \in Nat /\ 0 < PP /\ 0 \in Nat /\ u \in Int
      BY ONLY <1>2, <3>1, PP = P * P
    <3>4. (u * PP + 0) % PP = 0
      BY <3>3, DivModUnique
    <3> QED
      BY <1>2, <3>2, <3>4
  <2> PICK c : c = f[y]
    OBVIOUS
  <2>2. PICK z \in Nat : c \in 0 .. h - 1 /\ y = z * Power[c] /\ z % 2 = 1
    BY <1>3, <2>1 DEF TrailingZeros
  <2>3. c \in Nat /\ h + c <= 64 /\ h + c \in 0 .. (2 * h) - 1 /\ c \in 0 .. 64
    BY <1>1, <2>2
  <2> PICK b : b = Power[c]
    OBVIOUS
  <2>4. Power[h + c] = P * b /\ b \in Nat
    BY <1>1, <2>3, PowerSum, PowerNat
  <2>5. x = z * (P * b)
    <3>1. x = (z * b) * P
      BY <1>2, <1>3, <1>6, <2>2, <2>4
    <3>2. (z * b) * P = z * (P * b)
      BY ONLY <1>2, <2>4, z \in Nat
    <3> QED
      BY <3>1, <3>2
  <2>6. TrailingZeros(2 * h, x, h + c)
    BY <2>2, <2>3, <2>4, <2>5 DEF TrailingZeros
  <2> QED
    BY <1>4, <1>6, <2>6
<1> QED
  BY <1>5, <1>6

LEMMA CtzIs ==
  ASSUME NEW w \in Widths, NEW x \in Nat, x % Power[w] # 0
  PROVE  TrailingZeros(w, x, Ctz(w, x))
<1>1. PICK f : /\ f[2] = CtzTwo /\ \A h \in Halvings : f[2 * h] = CtzTwice(h, f[h])
               /\ \A v, a : Ctz(v, a) = f[v][a]
  BY CtzDef
<1> DEFINE Right(v) == \A y \in Nat : y % Power[v] # 0 => TrailingZeros(v, y, f[v][y])
<1>2. Power[0] = 1 /\ Power[1] = 2 /\ Power[2] = 4
  <2>1. Power[0 + 1] = 2 * Power[0] /\ Power[1 + 1] = 2 * Power[1]
    BY PowerNext
  <2> QED
    BY <2>1, PowerRec
<1>3. Right(2)
  <2> SUFFICES ASSUME NEW y \in Nat, y % Power[2] # 0 PROVE TrailingZeros(2, y, f[2][y])
    OBVIOUS
  <2>1. f[2][y] = IF y % 2 = 1 THEN 0 ELSE 2 - Shr(y % 4, 1)
    BY <1>1 DEF CtzTwo
  <2>2. CASE y % 2 = 1
    <3>1. f[2][y] = 0 /\ 0 \in 0 .. 2 - 1 /\ y = y * Power[0]
      BY <1>2, <2>1, <2>2
    <3> QED
      BY <2>2, <3>1 DEF TrailingZeros
  <2>3. CASE y % 2 # 1
    <3> PICK z : z = y \div 2
      OBVIOUS
    <3>1. y % 4 = 2 /\ z \in Nat /\ y = z * 2 /\ z % 2 = 1
      BY <1>2, <2>3
    <3>2. Shr(y % 4, 1) = 1
      BY <1>2, <3>1 DEF Shr
    <3>3. f[2][y] = 1 /\ 1 \in 0 .. 2 - 1 /\ y = z * Power[1]
      BY <1>2, <2>1, <2>3, <3>1, <3>2
    <3> QED
      BY <3>1, <3>3 DEF TrailingZeros
  <2> QED
    BY <2>2, <2>3
<1>4. ASSUME NEW h \in Halvings, Right(h) PROVE Right(2 * h)
  <2>1. f[2 * h] = CtzTwice(h, f[h])
    BY <1>1
  <2>2. \A y \in Nat : y % Power[2 * h] # 0 => TrailingZeros(2 * h, y, CtzTwice(h, f[h])[y])
    BY <1>4, CtzDoubles
  <2> QED
    BY <2>1, <2>2
<1>5. Right(w)
  <2> HIDE DEF Right
  <2>1. /\ 2 * 2 = 4 /\ 2 * 4 = 8 /\ 2 * 8 = 16 /\ 2 * 16 = 32 /\ 2 * 32 = 64
        /\ 2 \in Halvings /\ 4 \in Halvings /\ 8 \in Halvings /\ 16 \in Halvings /\ 32 \in Halvings
    BY DEF Halvings
  <2>2. Right(4)
    BY <1>3, <1>4, <2>1
  <2>3. Right(8)
    BY <1>4, <2>1, <2>2
  <2>4. Right(16)
    BY <1>4, <2>1, <2>3
  <2>5. Right(32)
    BY <1>4, <2>1, <2>4
  <2>6. Right(64)
    BY <1>4, <2>1, <2>5
  <2> QED
    BY <1>3, <2>2, <2>3, <2>4, <2>5, <2>6 DEF Widths
<1> QED
  BY <1>1, <1>5

(* An odd number times a power of two has one way to be so. *)
LEMMA TrailingUnique ==
  ASSUME NEW j \in 0 .. 63, NEW k \in 0 .. 63, NEW y \in Nat, NEW z \in Nat,
         y * Power[j] = z * Power[k], y % 2 = 1, z % 2 = 1
  PROVE  ~(j < k)
<1> SUFFICES ASSUME j < k PROVE FALSE
  OBVIOUS
<1> PICK m, a, b, p : m = k - j - 1 /\ a = Power[j] /\ b = Power[m] /\ p = Power[m + 1]
  OBVIOUS
<1>1. m \in 0 .. 63 /\ j \in Nat /\ m + 1 \in Nat /\ j + (m + 1) = k /\ j + (m + 1) <= 64 /\ j \in 0 .. 64
  OBVIOUS
<1>2. Power[k] = a * p
  <2>1. Power[j + (m + 1)] = Power[j] * Power[m + 1]
    BY ONLY <1>1, PowerSum
  <2> QED
    BY <1>1, <2>1
<1>3. p = 2 * b /\ b \in Nat
  BY <1>1, PowerNext
<1>4. a \in Nat /\ a >= 1
  BY <1>1, PowerNat
<1>5. y * a = (z * p) * a
  <2>1. y * a = z * (a * p)
    BY <1>2
  <2>2. p \in Nat
    BY <1>3
  <2>3. z * (a * p) = (z * p) * a
    BY ONLY <1>4, <2>2, z \in Nat
  <2> QED
    BY <2>1, <2>3
<1> PICK q : q = z * p
  OBVIOUS
<1> PICK e : e = z * b
  OBVIOUS
<1>6. e \in Nat /\ q = 2 * e
  BY ONLY <1>3, z \in Nat, e = z * b, q = z * p
<1>7. y = q
  <2>1. y * a <= q * a /\ q * a <= y * a
    BY <1>4, <1>5, <1>6
  <2>2. y <= q /\ q <= y
    BY ONLY <1>4, <1>6, <2>1, y \in Nat, TimesLess
  <2> QED
    BY <1>6, <2>2
<1>8. y = 2 * e
  BY <1>6, <1>7
<1>9. y % 2 = 0
  BY ONLY <1>6, <1>8
<1> QED
  BY <1>9

-----------------------------------------------------------------------------
(* Masks *)
LEMMA BothNat ==
  ASSUME NEW x \in Nat, NEW y \in Nat, NEW k \in 0 .. 64
  PROVE  Both(x, y, k) \in Nat
<1> PICK p, s, t : p = Power[k] /\ s = Shr(x, k) % 2 /\ t = Shr(y, k) % 2
  OBVIOUS
<1>1. p \in Nat /\ p > 0
  BY PowerNat
<1>2. s \in Nat /\ t \in Nat
  <2>1. x \div p \in Nat /\ y \div p \in Nat
    BY ONLY <1>1, x \in Nat, y \in Nat, DivModIs
  <2>2. Shr(x, k) \in Nat /\ Shr(y, k) \in Nat
    BY <2>1 DEF Shr
  <2> QED
    BY <2>2
<1>3. Both(x, y, k) = p * (s * t)
  BY DEF Both
<1> QED
  BY ONLY <1>1, <1>2, <1>3

(* The sum after each bit. *)
Sums(c, x, y) ==
  /\ c[0] = 0 /\ \A k \in 0 .. W : c[k] \in Nat
  /\ \A k \in 0 .. W - 1 : c[k + 1] = c[k] + Both(x, y, k)

LEMMA AndDef ==
  ASSUME NEW x \in Nat, NEW y \in Nat
  PROVE  \E c : Sums(c, x, y) /\ And(x, y) = c[W]
<1> DEFINE Is(f) == f = [k \in 0 .. W |-> IF k = 0 THEN 0 ELSE f[k - 1] + Both(x, y, k - 1)]
           step == [p \in Nat \X (1 .. W) |-> p[1] + Both(x, y, p[2] - 1)]
<1>0. W \in Nat /\ W <= 64
  BY Sizes
<1>1. PICK f \in [0 .. W -> Nat] : Computes(f, W, 0, step)
  <2>1. ASSUME NEW p \in Nat \X (1 .. W) PROVE p[1] + Both(x, y, p[2] - 1) \in Nat
    <3>1. p[1] \in Nat /\ p[2] - 1 \in 0 .. 64
      BY <1>0
    <3>2. Both(x, y, p[2] - 1) \in Nat
      BY <3>1, BothNat
    <3> QED
      BY <3>1, <3>2
  <2>2. step \in [Nat \X (1 .. W) -> Nat] /\ 0 \in Nat
    BY <2>1
  <2> HIDE DEF step
  <2> QED
    BY <1>0, <2>2, Recursion
<1>2. f[0] = 0 /\ \A k \in 1 .. W : f[k] = f[k - 1] + Both(x, y, k - 1)
  <2>1. f[0] = 0 /\ \A k \in 1 .. W : f[k] = step[<<f[k - 1], k>>]
    <3> HIDE DEF step
    <3> QED
      BY <1>1 DEF Computes
  <2>2. ASSUME NEW k \in 1 .. W PROVE f[k] = f[k - 1] + Both(x, y, k - 1)
    <3>1. f[k - 1] \in Nat
      <4>1. k - 1 \in 0 .. W
        BY <1>0
      <4> QED
        BY <4>1
    <3>2. step[<<f[k - 1], k>>] = f[k - 1] + Both(x, y, k - 1)
      BY <3>1
    <3> HIDE DEF step
    <3> QED
      BY <2>1, <3>2
  <2> QED
    BY <2>1, <2>2
<1>3. Is(f)
  <2>1. \A k \in 0 .. W : f[k] = IF k = 0 THEN 0 ELSE f[k - 1] + Both(x, y, k - 1)
    BY <1>0, <1>2
  <2> QED
    BY <2>1
<1>4. PICK g : g = CHOOSE h : Is(h)
  OBVIOUS
<1>5. Is(g)
  <2> HIDE DEF Is
  <2>1. \E h : Is(h)
    BY <1>3
  <2> QED
    BY <1>4, <2>1
<1>6. And(x, y) = g[W]
  BY <1>4 DEF And
<1>7. \A k \in 0 .. W : g[k] = IF k = 0 THEN 0 ELSE g[k - 1] + Both(x, y, k - 1)
  BY <1>5
<1>8. \A k \in 0 .. W : g[k] = f[k]
  <2> DEFINE S == {k \in 0 .. W : g[k] = f[k]}
  <2>1. 0 \in S
    BY <1>0, <1>2, <1>7
  <2>2. ASSUME NEW k \in 0 .. W - 1, k \in S PROVE k + 1 \in S
    <3>1. k + 1 \in 1 .. W /\ k + 1 \in 0 .. W /\ (k + 1) - 1 = k /\ k + 1 # 0
      BY <1>0
    <3>2. g[k + 1] = g[k] + Both(x, y, k) /\ f[k + 1] = f[k] + Both(x, y, k)
      BY <1>2, <1>7, <3>1
    <3>3. g[k] = f[k]
      BY <2>2
    <3> QED
      BY <3>1, <3>2, <3>3
  <2>3. \A k \in 0 .. W : k \in S
    <3> HIDE DEF S
    <3> QED
      BY <1>0, <2>1, <2>2, UpTo
  <2> QED
    BY <2>3
<1>9. ASSUME NEW k \in 0 .. W - 1 PROVE f[k + 1] = f[k] + Both(x, y, k)
  <2>1. k + 1 \in 1 .. W /\ (k + 1) - 1 = k
    BY <1>0
  <2> QED
    BY <1>2, <2>1
<1>10. Sums(f, x, y)
  <2>1. \A k \in 0 .. W : f[k] \in Nat
    OBVIOUS
  <2> QED
    BY <1>2, <1>9, <2>1 DEF Sums
<1>11. W \in 0 .. W
  BY <1>0
<1> QED
  BY <1>6, <1>8, <1>10, <1>11

(* No bit is lost from the sum. *)
LEMMA AndKeeps ==
  ASSUME NEW x \in Nat, NEW y \in Nat, NEW k \in 0 .. W - 1
  PROVE  And(x, y) >= Both(x, y, k) /\ And(x, y) \in Nat
<1>1. PICK c : Sums(c, x, y) /\ And(x, y) = c[W]
  BY AndDef
<1>2. W \in Nat /\ W <= 64 /\ \A i \in 0 .. W - 1 : i \in 0 .. 64
  BY Sizes
<1> PICK b, n : b = Both(x, y, k) /\ n = W - 1 - k
  OBVIOUS
<1>3. b \in Nat /\ n \in Nat /\ (k + 1) + n = W
  <2>1. k \in 0 .. 64
    BY <1>2
  <2>2. Both(x, y, k) \in Nat
    BY <2>1, BothNat
  <2>3. n \in Nat /\ (k + 1) + n = W
    BY <1>2
  <2> QED
    BY <2>2, <2>3
<1> DEFINE S == {m \in 0 .. n : c[(k + 1) + m] >= b}
<1>4. 0 \in S
  <2>1. c[k + 1] = c[k] + b /\ k \in 0 .. W /\ (k + 1) + 0 = k + 1
    BY <1>1, <1>2 DEF Sums
  <2>2. c[k] \in Nat
    BY <1>1, <2>1 DEF Sums
  <2> QED
    BY <1>3, <2>1, <2>2
<1>5. ASSUME NEW m \in 0 .. n - 1, m \in S PROVE m + 1 \in S
  <2> PICK i : i = (k + 1) + m
    OBVIOUS
  <2>1. i \in 0 .. W - 1 /\ i + 1 = (k + 1) + (m + 1) /\ i \in 0 .. W
    BY <1>2, <1>3
  <2>2. c[i + 1] = c[i] + Both(x, y, i) /\ c[i] \in Nat
    BY <1>1, <2>1 DEF Sums
  <2>3. Both(x, y, i) \in Nat
    BY <1>2, <2>1, BothNat
  <2>4. c[i] >= b
    BY <1>5
  <2> QED
    BY <1>3, <2>1, <2>2, <2>3, <2>4
<1>6. n \in S
  <2> HIDE DEF S
  <2> QED
    BY ONLY <1>3, <1>4, <1>5, UpTo
<1>7. c[W] \in Nat
  <2>1. W \in 0 .. W
    BY <1>2
  <2> QED
    BY <1>1, <2>1 DEF Sums
<1> QED
  BY <1>1, <1>3, <1>6, <1>7

LEMMA OneIsPower == PowerOfTwo(1)
<1>1. PICK c : Sums(c, 1, 0) /\ And(1, 0) = c[W]
  BY AndDef
<1>2. W \in Nat /\ W <= 64
  BY Sizes
<1> DEFINE S == {k \in 0 .. W : c[k] = 0}
<1>3. 0 \in S
  BY <1>1, <1>2 DEF Sums
<1>4. ASSUME NEW k \in 0 .. W - 1, k \in S PROVE k + 1 \in S
  <2> PICK p, s : p = Power[k] /\ s = Shr(1, k) % 2
    OBVIOUS
  <2>1. k \in 0 .. 64 /\ k + 1 \in 0 .. W
    BY <1>2
  <2>2. p \in Nat /\ p > 0
    BY <2>1, PowerNat
  <2>3. 1 \div p \in Nat /\ 0 \div p = 0
    <3>1. (0 * p + 0) \div p = 0
      BY ONLY <2>2, DivModUnique
    <3>2. 1 \div p \in Nat
      BY ONLY <2>2, DivModIs
    <3> QED
      BY <2>2, <3>1, <3>2
  <2>4. s \in Nat /\ Shr(0, k) % 2 = 0
    BY <2>3 DEF Shr
  <2>5. Both(1, 0, k) = p * (s * 0)
    BY <2>4 DEF Both
  <2>6. Both(1, 0, k) = 0
    BY ONLY <2>2, <2>4, <2>5
  <2>7. c[k + 1] = c[k] + 0 /\ c[k] = 0
    BY <1>1, <1>4, <2>6 DEF Sums
  <2> QED
    BY <2>1, <2>7
<1>5. W \in S
  <2> HIDE DEF S
  <2> QED
    BY ONLY <1>2, <1>3, <1>4, UpTo
<1>6. 1 - 1 = 0
  OBVIOUS
<1> QED
  BY <1>1, <1>5, <1>6 DEF PowerOfTwo

(* A word that passes the test x & x - 1 = 0 is a power of two.  Another   *)
(* has its first bit in common with its predecessor.                       *)
LEMMA PowerOfTwoIs ==
  ASSUME NEW x \in Nat, 0 < x, x < Word, PowerOfTwo(x)
  PROVE  Ctz(W, x) \in 0 .. W - 1 /\ x = Power[Ctz(W, x)]
<1>1. W \in Nat /\ W >= 2 /\ W <= 32 /\ W \in Widths /\ Word = Power[W] /\ Word \in Nat
  BY Sizes
<1>2. x % Power[W] # 0
  <2>1. x % Word = x
    BY <1>1, SmallMod
  <2> QED
    BY <1>1, <2>1
<1> PICK c : c = Ctz(W, x)
  OBVIOUS
<1>3. PICK z \in Nat : c \in 0 .. W - 1 /\ x = z * Power[c] /\ z % 2 = 1
  <2>1. TrailingZeros(W, x, c)
    BY <1>1, <1>2, CtzIs
  <2> QED
    BY <2>1 DEF TrailingZeros
<1>4. z = 1
  <2> SUFFICES ASSUME z # 1 PROVE FALSE
    OBVIOUS
  <2> PICK l, t, T : l = Clz(W, x) /\ t = W - 1 - l /\ T = Power[t]
    OBVIOUS
  <2>1. l \in 0 .. W - 1 /\ Power[W - 1 - l] <= x /\ x < Power[W - l]
    <3>1. LeadingZeros(W, x, l)
      BY <1>1, ClzIs
    <3> QED
      BY <3>1 DEF LeadingZeros
  <2>2. t \in 0 .. W - 1 /\ t \in 0 .. 63 /\ t \in 0 .. 64 /\ t + 1 = W - l /\ c \in 0 .. 63
    BY <1>1, <1>3, <2>1
  <2>3. T <= x /\ x < 2 * T /\ T \in Nat /\ T >= 1
    BY <2>1, <2>2, PowerNext
  <2>4. x # T
    <3> SUFFICES ASSUME x = T PROVE FALSE
      OBVIOUS
    <3>1. z * Power[c] = 1 * Power[t] /\ 1 % 2 = 1 /\ 1 \in Nat
      BY <1>3, <2>3
    <3>2. ~(c < t) /\ ~(t < c)
      <4>1. ~(c < t)
        BY ONLY <1>3, <2>2, <3>1, z \in Nat, TrailingUnique
      <4>2. 1 * Power[t] = z * Power[c]
        BY <3>1
      <4>3. ~(t < c)
        BY ONLY <1>3, <2>2, <3>1, <4>2, z \in Nat, TrailingUnique
      <4> QED
        BY <4>1, <4>3
    <3>3. c = t
      BY <2>2, <3>2
    <3>4. z * T = 1 * T
      BY <3>1, <3>3
    <3>5. z <= 1 /\ 1 <= z
      <4>1. z * T <= 1 * T /\ 1 * T <= z * T
        BY ONLY <2>3, <3>4, z \in Nat
      <4> QED
        BY ONLY <2>3, <4>1, z \in Nat, TimesLess
    <3> QED
      BY <3>5
  <2>5. Shr(x, t) = 1 /\ Shr(x - 1, t) = 1
    <3> PICK r, s : r = x - T /\ s = x - 1 - T
      OBVIOUS
    <3>1. r \in Nat /\ r < T /\ s \in Nat /\ s < T /\ x = 1 * T + r /\ x - 1 = 1 * T + s
      BY <2>3, <2>4
    <3>2. (1 * T + r) \div T = 1 /\ (1 * T + s) \div T = 1
      BY ONLY <2>3, <3>1, DivModUnique
    <3> QED
      BY <3>1, <3>2 DEF Shr
  <2>6. Both(x, x - 1, t) = T
    <3>1. Both(x, x - 1, t) = T * ((1 % 2) * (1 % 2))
      BY <2>5 DEF Both
    <3> QED
      BY <2>3, <3>1
  <2>7. And(x, x - 1) >= T
    <3>1. x - 1 \in Nat
      OBVIOUS
    <3> QED
      BY <2>2, <2>6, <3>1, AndKeeps
  <2> QED
    BY <2>3, <2>7 DEF PowerOfTwo
<1>5. Power[c] \in Nat
  <2>1. c \in 0 .. 64
    BY <1>1, <1>3
  <2> QED
    BY <2>1, PowerNat
<1> QED
  BY <1>3, <1>4, <1>5

(* One bit more. *)
LEMMA ModDoubles ==
  ASSUME NEW y \in Nat, NEW p \in Nat, p > 0
  PROVE  y % (2 * p) = (y % p) + p * ((y \div p) % 2)
<1> PICK u, r : u = y \div p /\ r = y % p
  OBVIOUS
<1>1. y = u * p + r /\ u \in Nat /\ r \in Nat /\ r < p
  BY DivModIs
<1> PICK v, t : v = u \div 2 /\ t = u % 2
  OBVIOUS
<1>2. u = 2 * v + t /\ v \in Nat /\ t \in {0, 1}
  BY <1>1
<1> PICK pp, s : pp = 2 * p /\ s = t * p + r
  OBVIOUS
<1>3. s \in Nat /\ s < pp /\ pp \in Nat /\ s = r + p * t
  BY ONLY <1>1, <1>2, p \in Nat, pp = 2 * p /\ s = t * p + r
<1>4. y = v * pp + s
  BY ONLY <1>1, <1>2, p \in Nat, pp = 2 * p /\ s = t * p + r
<1>5. (v * pp + s) % pp = s
  <2>1. v \in Int
    BY ONLY <1>2
  <2> QED
    BY ONLY <2>1, <1>3, DivModUnique
<1> QED
  BY <1>3, <1>4, <1>5

(* y & 2^c - 1 is y modulo 2^c. *)
LEMMA AndMask ==
  ASSUME NEW y \in Nat, y < Word, NEW c \in 0 .. W - 1
  PROVE  And(y, Power[c] - 1) = y % Power[c]
<1>1. W \in Nat /\ W <= 32 /\ c \in 0 .. 64 /\ c \in Nat
  BY Sizes
<1> PICK C, m : C = Power[c] /\ m = C - 1
  OBVIOUS
<1>2. C \in Nat /\ C >= 1 /\ m \in Nat
  BY <1>1, PowerNat
<1>3. PICK s : Sums(s, y, m) /\ And(y, m) = s[W]
  BY <1>2, AndDef
<1> DEFINE S == {k \in 0 .. c : s[k] = y % Power[k]}
<1>4. 0 \in S
  <2>1. y % 1 = 0 /\ Power[0] = 1 /\ s[0] = 0 /\ 0 \in 0 .. c
    BY <1>1, <1>3, PowerRec DEF Sums
  <2> QED
    BY <2>1
<1>5. ASSUME NEW k \in 0 .. c - 1, k \in S PROVE k + 1 \in S
  <2> PICK p, j, d : p = Power[k] /\ j = c - k - 1 /\ d = Power[j]
    OBVIOUS
  <2>1. /\ k \in 0 .. 63 /\ k \in Nat /\ j \in 0 .. 63 /\ j + 1 \in Nat /\ k + (j + 1) = c /\ k + (j + 1) <= 64
        /\ k \in 0 .. W - 1 /\ k + 1 \in 0 .. c
    BY <1>1
  <2>2. p \in Nat /\ p > 0 /\ Power[k + 1] = 2 * p
    BY <2>1, PowerNext
  <2>3. d \in Nat /\ d >= 1 /\ Power[j + 1] = 2 * d
    BY <2>1, PowerNext
  <2>4. C = p * (2 * d)
    <3>1. Power[k + (j + 1)] = Power[k] * Power[j + 1]
      BY ONLY <2>1, PowerSum
    <3> QED
      BY <2>1, <2>3, <3>1
  <2> PICK o : o = 2 * d - 1
    OBVIOUS
  <2>5. o \in Nat /\ o % 2 = 1
    BY <2>3
  <2>6. m = o * p + (p - 1)
    <3>1. o * p = (2 * d) * p - 1 * p /\ (2 * d) * p = p * (2 * d)
      BY ONLY <2>2, <2>3, o = 2 * d - 1, Distribute
    <3> PICK x : x = p * (2 * d)
      OBVIOUS
    <3>2. o * p = x - p /\ C = x /\ x \in Nat
      BY <1>2, <2>2, <2>4, <3>1
    <3> QED
      BY <2>2, <3>2
  <2>7. Shr(m, k) = o
    <3>1. p - 1 \in Nat /\ p - 1 < p
      BY <2>2
    <3>2. (o * p + (p - 1)) \div p = o
      BY ONLY <2>2, <2>5, <3>1, DivModUnique
    <3> QED
      BY <2>6, <3>2 DEF Shr
  <2> PICK b : b = Shr(y, k) % 2
    OBVIOUS
  <2>8. b \in Nat
    <3>1. y \div p \in Nat
      BY <2>2, DivModIs
    <3>2. Shr(y, k) \in Nat
      BY <3>1 DEF Shr
    <3> QED
      BY <3>2
  <2>9. Both(y, m, k) = p * b
    <3>1. Both(y, m, k) = p * (b * 1)
      BY <2>5, <2>7 DEF Both
    <3> QED
      BY <2>8, <3>1
  <2>10. s[k + 1] = s[k] + p * b
    BY <1>3, <2>1, <2>9 DEF Sums
  <2>11. y % (2 * p) = (y % p) + p * b
    <3>1. b = (y \div p) % 2
      BY DEF Shr
    <3> QED
      BY <2>2, <3>1, ModDoubles
  <2>12. s[k] = y % p
    BY <1>5
  <2>13. s[k + 1] = y % Power[k + 1]
    BY <2>2, <2>10, <2>11, <2>12
  <2> QED
    BY <2>1, <2>13
<1>6. s[c] = y % C
  <2>1. c \in S
    <3> HIDE DEF S
    <3> QED
      BY ONLY <1>1, <1>4, <1>5, UpTo
  <2> QED
    BY <2>1
<1> PICK n : n = W - c
  OBVIOUS
<1>7. n \in Nat /\ c + n = W
  BY <1>1
<1> DEFINE R == {i \in 0 .. n : s[c + i] = y % C}
<1>8. 0 \in R
  <2>1. c + 0 = c /\ 0 \in 0 .. n
    BY <1>1, <1>7
  <2> QED
    BY <1>6, <2>1
<1>9. ASSUME NEW i \in 0 .. n - 1, i \in R PROVE i + 1 \in R
  <2> PICK k, p, b : k = c + i /\ p = Power[k] /\ b = Shr(y, k) % 2
    OBVIOUS
  <2>1. k \in 0 .. W - 1 /\ k \in 0 .. 64 /\ k \in Nat /\ c <= k /\ k <= 64 /\ k + 1 = c + (i + 1)
        /\ i + 1 \in 0 .. n /\ k \in 0 .. W
    BY <1>1, <1>7
  <2>2. p \in Nat /\ C <= p
    BY <1>1, <2>1, PowerNat, PowerGrows
  <2>3. Shr(m, k) = 0
    <3>1. m < p /\ m = 0 * p + m
      BY <1>2, <2>2
    <3>2. (0 * p + m) \div p = 0
      BY ONLY <1>2, <2>2, <3>1, DivModUnique
    <3> QED
      BY <3>1, <3>2 DEF Shr
  <2>4. b \in Nat
    <3>1. y \div p \in Nat
      BY <1>2, <2>2, DivModIs
    <3>2. Shr(y, k) \in Nat
      BY <3>1 DEF Shr
    <3> QED
      BY <3>2
  <2>5. Both(y, m, k) = 0
    <3>1. Both(y, m, k) = p * (b * (0 % 2))
      BY <2>3 DEF Both
    <3> QED
      BY <2>2, <2>4, <3>1
  <2>6. s[k + 1] = s[k] + 0 /\ s[k] \in Nat
    BY <1>3, <2>1, <2>5 DEF Sums
  <2>7. s[k] = y % C
    BY <1>9
  <2>8. s[k + 1] = y % C
    BY <2>6, <2>7
  <2> QED
    BY <2>1, <2>8
<1>10. n \in R
  <2> HIDE DEF R
  <2> QED
    BY ONLY <1>7, <1>8, <1>9, UpTo
<1> QED
  BY <1>3, <1>7, <1>10

-----------------------------------------------------------------------------
(* Two-word integers *)
LEMMA HighLow ==
  ASSUME NEW n \in Dwords
  PROVE  /\ n \in Nat /\ n < Word * Word /\ n = High(n) * Word + Low(n)
         /\ High(n) \in Nat /\ High(n) < Word /\ Low(n) \in Nat /\ Low(n) < Word
<1> PICK B, h, l : B = Word /\ h = n \div B /\ l = n % B
  OBVIOUS
<1>1. B \in Nat /\ B > 0
  BY Sizes
<1>2. n \in Nat /\ n < B * B
  <2> PICK BB : BB = B * B
    OBVIOUS
  <2>1. BB \in Nat
    BY <1>1
  <2>2. n \in 0 .. BB - 1
    BY DEF Dwords
  <2> QED
    BY <2>1, <2>2
<1>3. n = h * B + l /\ h \in Nat /\ l \in Nat /\ l < B
  <2>1. n \in Int
    BY <1>2
  <2>2. n = (n \div B) * B + (n % B) /\ n \div B \in Nat /\ n % B \in Nat /\ n % B < B
    BY ONLY <1>1, <1>2, <2>1, DivModIs
  <2> QED
    BY <2>2
<1>4. h < B
  <2>1. h * B < B * B
    BY ONLY <1>1, <1>2, <1>3
  <2> QED
    BY ONLY <1>1, <1>3, <2>1, TimesLess
<1> QED
  BY <1>2, <1>3, <1>4 DEF High, Low

LEMMA Clz2Is ==
  ASSUME NEW x \in Dwords, x # 0
  PROVE  LeadingZeros(2 * W, x, Clz2(x))
<1>1. x \in Nat /\ x < Word * Word /\ x = High(x) * Word + Low(x) /\ High(x) \in Nat /\ Low(x) \in Nat
  BY HighLow
<1>2. /\ W \in Halvings /\ W \in Widths /\ Word = Power[W] /\ Word * Word = Power[2 * W] /\ Word \in Nat
  BY Sizes, WAssumption DEF Halvings
<1> PICK f : f = [y \in Nat |-> Clz(W, y)]
  OBVIOUS
<1>3. \A y \in Nat : f[y] = Clz(W, y)
  OBVIOUS
<1>4. \A y \in Nat : 0 < y /\ y < Power[W] => LeadingZeros(W, y, f[y])
  BY <1>2, <1>3, ClzIs
<1>5. LeadingZeros(2 * W, x, ClzTwice(W, f)[x])
  <2>1. 0 < x /\ x < Power[2 * W]
    BY <1>1, <1>2
  <2> QED
    BY <1>1, <1>2, <1>4, <2>1, ClzDoubles
<1>6. Shr(x, W) = High(x)
  BY <1>2 DEF Shr, High
<1>7. ClzTwice(W, f)[x] = IF High(x) = 0 THEN W + Clz(W, x) ELSE Clz(W, High(x))
  BY <1>1, <1>3, <1>6 DEF ClzTwice
<1>8. High(x) = 0 => Low(x) = x
  <2>1. High(x) = 0 => High(x) * Word = 0
    BY <1>2
  <2> QED
    BY <1>1, <2>1
<1>9. Clz2(x) = ClzTwice(W, f)[x]
  BY <1>7, <1>8 DEF Clz2
<1> QED
  BY <1>5, <1>9

LEMMA Ctz2Is ==
  ASSUME NEW x \in Dwords, x # 0
  PROVE  TrailingZeros(2 * W, x, Ctz2(x))
<1> PICK B, h, l : B = Word /\ h = High(x) /\ l = Low(x)
  OBVIOUS
<1>1. x \in Nat /\ x = h * B + l /\ h \in Nat /\ h < B /\ l \in Nat /\ l < B
  BY HighLow
<1>2. W \in Nat /\ W >= 2 /\ W <= 32 /\ W \in Widths /\ B = Power[W] /\ B \in Nat /\ B > 0
  BY Sizes
<1>3. CASE l = 0
  <2>1. h # 0
    <3>1. h = 0 => h * B = 0
      BY <1>2
    <3> QED
      BY <1>1, <1>3, <3>1
  <2> PICK c : c = Ctz(W, h)
    OBVIOUS
  <2>2. PICK z \in Nat : c \in 0 .. W - 1 /\ h = z * Power[c] /\ z % 2 = 1
    <3>1. h % B = h
      BY ONLY <1>1, <1>2, SmallMod
    <3>2. TrailingZeros(W, h, c)
      BY <1>1, <1>2, <2>1, <3>1, CtzIs
    <3> QED
      BY <3>2 DEF TrailingZeros
  <2> PICK p : p = Power[c]
    OBVIOUS
  <2>3. c \in Nat /\ W + c <= 64 /\ W + c \in 0 .. (2 * W) - 1 /\ c \in 0 .. 64
    BY <1>2, <2>2
  <2>4. p \in Nat /\ Power[W + c] = B * p
    BY <1>2, <2>3, PowerSum, PowerNat
  <2>5. x = z * (B * p)
    <3>1. x = (z * p) * B
      BY <1>1, <1>2, <1>3, <2>2
    <3>2. (z * p) * B = z * (B * p)
      BY ONLY <1>2, <2>4, z \in Nat
    <3> QED
      BY <3>1, <3>2
  <2>6. TrailingZeros(2 * W, x, W + c)
    BY <2>2, <2>3, <2>4, <2>5 DEF TrailingZeros
  <2> QED
    BY <1>3, <2>6 DEF Ctz2
<1>4. CASE l # 0
  <2> PICK c : c = Ctz(W, l)
    OBVIOUS
  <2>1. PICK z \in Nat : c \in 0 .. W - 1 /\ l = z * Power[c] /\ z % 2 = 1
    <3>1. l % B = l
      BY ONLY <1>1, <1>2, SmallMod
    <3>2. TrailingZeros(W, l, c)
      BY <1>1, <1>2, <1>4, <3>1, CtzIs
    <3> QED
      BY <3>2 DEF TrailingZeros
  <2> PICK m, p, q : m = W - c - 1 /\ p = Power[c] /\ q = Power[m]
    OBVIOUS
  <2>2. /\ c \in Nat /\ m \in 0 .. 63 /\ m + 1 \in Nat /\ c + (m + 1) = W /\ c + (m + 1) <= 64
        /\ c \in 0 .. (2 * W) - 1 /\ c \in 0 .. 64
    BY <1>2, <2>1
  <2>3. q \in Nat /\ p \in Nat /\ Power[m + 1] = 2 * q
    BY <2>2, PowerNext, PowerNat
  <2>4. B = p * (2 * q)
    <3>1. Power[c + (m + 1)] = Power[c] * Power[m + 1]
      BY ONLY <2>2, PowerSum
    <3> QED
      BY <1>2, <2>2, <2>3, <3>1
  <2> PICK e, y : e = h * q /\ y = 2 * e + z
    OBVIOUS
  <2>5. e \in Nat /\ y \in Nat
    BY ONLY <1>1, <2>3, z \in Nat, e = h * q /\ y = 2 * e + z
  <2>6. y % 2 = 1
    <3>1. \A a \in Nat, k \in Nat : k % 2 = 1 => (2 * a + k) % 2 = 1
      OBVIOUS
    <3> QED
      BY <2>1, <2>5, <3>1
  <2>7. x = y * p
    <3>1. x = h * (p * (2 * q)) + z * p
      BY <1>1, <2>1, <2>4
    <3>2. h * (p * (2 * q)) + z * p = (2 * (h * q) + z) * p
      BY ONLY <1>1, <2>3, z \in Nat
    <3> QED
      BY <3>1, <3>2
  <2>8. TrailingZeros(2 * W, x, c)
    BY <2>2, <2>5, <2>6, <2>7 DEF TrailingZeros
  <2> QED
    BY <1>4, <2>8 DEF Ctz2
<1> QED
  BY <1>3, <1>4

(* What DivisionRight says of the bit counts. *)
LEMMA BitCounts ==
  ASSUME NEW b \in Dwords, b # 0
  PROVE  /\ Shr(b, 2 * W - 1 - Clz2(b)) = 1 /\ Clz(2 * W, b) = Clz2(b) /\ Ctz(2 * W, b) = Ctz2(b)
         /\ b % Power[Ctz2(b)] = 0 /\ Shr(b, Ctz2(b)) % 2 = 1
<1>1. /\ W \in Nat /\ W >= 2 /\ W <= 32 /\ 2 * W \in Widths /\ b \in Nat /\ 0 < b /\ b < Power[2 * W]
  BY Sizes, HighLow
<1> PICK c, e, t, u : c = Clz2(b) /\ e = Clz(2 * W, b) /\ t = Ctz2(b) /\ u = Ctz(2 * W, b)
  OBVIOUS
<1>2. c \in 0 .. (2 * W) - 1 /\ Power[2 * W - 1 - c] <= b /\ b < Power[2 * W - c]
  BY Clz2Is DEF LeadingZeros
<1>3. e \in 0 .. (2 * W) - 1 /\ Power[2 * W - 1 - e] <= b /\ b < Power[2 * W - e]
  <2>1. LeadingZeros(2 * W, b, e)
    BY <1>1, ClzIs
  <2> QED
    BY <2>1 DEF LeadingZeros
<1> PICK j, k, p : j = 2 * W - 1 - c /\ k = 2 * W - 1 - e /\ p = Power[j]
  OBVIOUS
<1>4. j \in 0 .. 63 /\ k \in 0 .. 63 /\ j + 1 = 2 * W - c /\ k + 1 = 2 * W - e
  <2>1. c \in Nat /\ e \in Nat /\ c <= 2 * W - 1 /\ e <= 2 * W - 1 /\ 2 * W \in Nat /\ 2 * W <= 64
    BY <1>1, <1>2, <1>3
  <2> PICK w : w = 2 * W
    OBVIOUS
  <2>2. j \in 0 .. 63 /\ j + 1 = w - c
    BY ONLY <2>1, j = 2 * W - 1 - c, w = 2 * W
  <2>3. k \in 0 .. 63 /\ k + 1 = w - e
    BY ONLY <2>1, k = 2 * W - 1 - e, w = 2 * W
  <2> QED
    BY <2>2, <2>3
<1>5. j = k
  BY <1>1, <1>2, <1>3, <1>4, PowerBetween
<1>6. c = e
  BY <1>1, <1>2, <1>3, <1>5
<1>7. Shr(b, j) = 1
  <2>1. p \in Nat /\ p <= b /\ b < 2 * p
    BY <1>2, <1>4, PowerNext
  <2> PICK r : r = b - p
    OBVIOUS
  <2>2. r \in Nat /\ r < p /\ b = 1 * p + r
    BY <1>1, <2>1
  <2>3. (1 * p + r) \div p = 1
    BY ONLY <2>1, <2>2, DivModUnique
  <2> QED
    BY <2>2, <2>3 DEF Shr
<1>8. PICK y \in Nat : t \in 0 .. (2 * W) - 1 /\ b = y * Power[t] /\ y % 2 = 1
  BY Ctz2Is DEF TrailingZeros
<1>9. PICK z \in Nat : u \in 0 .. (2 * W) - 1 /\ b = z * Power[u] /\ z % 2 = 1
  <2>1. b % Power[2 * W] # 0
    <3>1. 2 * W \in 0 .. 64
      BY <1>1
    <3>2. Power[2 * W] \in Nat
      BY <3>1, PowerNat
    <3>3. b % Power[2 * W] = b
      BY ONLY <1>1, <3>2, SmallMod
    <3> QED
      BY <1>1, <3>3
  <2>2. TrailingZeros(2 * W, b, u)
    BY <1>1, <2>1, CtzIs
  <2> QED
    BY <2>2 DEF TrailingZeros
<1>10. t = u
  <2>1. t \in 0 .. 63 /\ u \in 0 .. 63
    BY <1>1, <1>8, <1>9
  <2>2. ~(t < u)
    <3>1. y * Power[t] = z * Power[u]
      BY <1>8, <1>9
    <3> QED
      BY ONLY <1>8, <1>9, <2>1, <3>1, TrailingUnique
  <2>3. ~(u < t)
    <3>1. z * Power[u] = y * Power[t]
      BY <1>8, <1>9
    <3> QED
      BY ONLY <1>8, <1>9, <2>1, <3>1, TrailingUnique
  <2> QED
    BY <2>1, <2>2, <2>3
<1>11. b % Power[t] = 0 /\ Shr(b, t) % 2 = 1
  <2> PICK q : q = Power[t]
    OBVIOUS
  <2>1. q \in Nat /\ 0 < q /\ 0 \in Nat /\ y \in Int
    <3>1. t \in 0 .. 64
      BY <1>1, <1>8
    <3> QED
      BY <3>1, PowerNat
  <2>2. (y * q + 0) % q = 0 /\ (y * q + 0) \div q = y
    BY ONLY <2>1, DivModUnique
  <2>3. b = y * q + 0
    <3>1. b = y * q /\ b \in Nat
      BY <1>1, <1>8
    <3> QED
      BY ONLY <3>1
  <2> QED
    BY <1>8, <2>2, <2>3 DEF Shr
<1> QED
  BY <1>6, <1>7, <1>10, <1>11

-----------------------------------------------------------------------------
(* Shifting a word, and a two-word integer, down by s bits: what goes out  *)
(* at the bottom comes in at the top.                                      *)
ShiftsTo(x, s, up, out) ==
  /\ x = up * Power[s] + out /\ up \in Nat /\ out \in Nat /\ out < Power[s]
  /\ Shr(x, s) = up /\ Shl(x, W - s) = out * Power[W - s]
  /\ x < Word => up < Power[W - s]

LEMMA Halves ==
  ASSUME NEW s \in 1 .. W - 1
  PROVE  /\ Word = Power[s] * Power[W - s] /\ Power[s] \in Nat /\ Power[s] > 0
         /\ Power[W - s] \in Nat /\ Power[W - s] > 0 /\ Word \in Nat /\ Word > 0
<1>1. W \in Nat /\ W <= 32 /\ Word = Power[W] /\ Word \in Nat /\ Word > 0
  BY Sizes
<1>2. /\ s \in Nat /\ W - s \in Nat /\ s + (W - s) = W /\ s + (W - s) <= 64
      /\ s \in 0 .. 64 /\ W - s \in 0 .. 64
  BY <1>1
<1>3. Power[s + (W - s)] = Power[s] * Power[W - s]
  BY ONLY <1>2, PowerSum
<1> QED
  BY <1>1, <1>2, <1>3, PowerNat

LEMMA ShiftWord ==
  ASSUME NEW x \in Nat, NEW s \in 1 .. W - 1
  PROVE  \E up, out : ShiftsTo(x, s, up, out)
<1> PICK a, b, B : a = Power[s] /\ b = Power[W - s] /\ B = Word
  OBVIOUS
<1>1. B = a * b /\ a \in Nat /\ a > 0 /\ b \in Nat /\ b > 0 /\ B \in Nat /\ B > 0
  BY Halves
<1> PICK up, out : up = x \div a /\ out = x % a
  OBVIOUS
<1>2. x = up * a + out /\ up \in Nat /\ out \in Nat /\ out < a
  <2>1. x \in Int
    OBVIOUS
  <2>2. x = (x \div a) * a + (x % a) /\ x \div a \in Nat /\ x % a \in Nat /\ x % a < a
    BY ONLY <1>1, <2>1, x \in Nat, DivModIs
  <2> QED
    BY <2>2
<1>3. (x * b) % B = out * b
  <2> PICK t : t = out * b
    OBVIOUS
  <2>1. t \in Nat /\ t < B
    <3>1. t \in Nat
      BY ONLY <1>1, <1>2, t = out * b
    <3>2. out * b < a * b
      BY ONLY <1>1, <1>2, TimesLess
    <3> QED
      BY <1>1, <3>1, <3>2
  <2>2. x * b = up * B + t
    <3>1. (up * a + out) * b = up * (a * b) + out * b
      BY ONLY <1>1, <1>2
    <3> QED
      BY <1>1, <1>2, <3>1
  <2>3. (up * B + t) % B = t
    <3>1. up \in Int
      BY <1>2
    <3> QED
      BY ONLY <1>1, <2>1, <3>1, DivModUnique
  <2> QED
    BY <2>2, <2>3
<1>4. x < B => up < b
  <2>1. x < B => up * a < b * a
    BY ONLY <1>1, <1>2
  <2> QED
    BY ONLY <1>1, <1>2, <2>1, TimesLess
<1> QED
  BY <1>2, <1>3, <1>4 DEF ShiftsTo, Shl, Shr

LEMMA DownIdentity ==
  ASSUME NEW a \in Nat, NEW b \in Nat, NEW h1 \in Nat, NEW h0 \in Nat, NEW l1 \in Nat, NEW l0 \in Nat
  PROVE  (h1 * a + h0) * (a * b) + (l1 * a + l0) = (h1 * (a * b) + (h0 * b + l1)) * a + l0
OBVIOUS

LEMMA AcrossIdentity ==
  ASSUME NEW a \in Nat, NEW b \in Nat, NEW h1 \in Nat, NEW h0 \in Nat, NEW l1 \in Nat, NEW l0 \in Nat
  PROVE  /\ (h1 * a + h0) * (a * b) + (l1 * a + l0) = h1 * (a * (a * b)) + (h0 * (a * b) + (l1 * a + l0))
         /\ (h0 * b + l1) * (a * b) + l0 * b = (h0 * (a * b) + (l1 * a + l0)) * b
OBVIOUS

(* The state the rounds begin with. *)
Begun(n, sr, s, lo) ==
  /\ lo \in Nat /\ lo < Power[sr] /\ s.r \in Nat
  /\ n = s.r * Power[sr] + lo /\ s.q = lo * Power[2 * W - sr]

LEMMA SplitIs ==
  ASSUME NEW n \in Dwords, NEW sr \in 1 .. 2 * W - 1
  PROVE  \E lo : Begun(n, sr, Split(n, sr), lo)
<1> PICK B, h, l : B = Word /\ h = High(n) /\ l = Low(n)
  OBVIOUS
<1>1. n = h * B + l /\ h \in Nat /\ h < B /\ l \in Nat /\ l < B
  BY HighLow
<1>2. W \in Nat /\ W >= 2 /\ W <= 32 /\ B = Power[W] /\ B \in Nat /\ B > 0 /\ sr \in Nat
  BY Sizes
<1>3. CASE sr = W
  <2>1. Split(n, sr).q = l * B + 0 /\ Split(n, sr).r = h
    BY <1>3 DEF Split, Dword
  <2>2. 2 * W - sr = W
    BY <1>2, <1>3
  <2>3. l * B + 0 = l * B
    BY ONLY <1>1, <1>2
  <2>4. Begun(n, sr, Split(n, sr), l)
    BY <1>1, <1>2, <1>3, <2>1, <2>2, <2>3 DEF Begun
  <2> QED
    BY <2>4
<1>4. CASE sr < W
  <2>1. sr \in 1 .. W - 1
    BY <1>2, <1>4
  <2> PICK a, b : a = Power[sr] /\ b = Power[W - sr]
    OBVIOUS
  <2>2. B = a * b /\ a \in Nat /\ a > 0 /\ b \in Nat /\ b > 0
    BY <2>1, Halves
  <2>3. PICK h1, h0 : ShiftsTo(h, sr, h1, h0)
    BY <1>1, <2>1, ShiftWord
  <2>4. PICK l1, l0 : ShiftsTo(l, sr, l1, l0)
    BY <1>1, <2>1, ShiftWord
  <2>5. h = h1 * a + h0 /\ h1 \in Nat /\ h0 \in Nat /\ Shr(h, sr) = h1 /\ Shl(h, W - sr) = h0 * b
    BY <2>3 DEF ShiftsTo
  <2>6. l = l1 * a + l0 /\ l1 \in Nat /\ l0 \in Nat /\ l0 < a /\ Shr(l, sr) = l1 /\ Shl(l, W - sr) = l0 * b
    BY <2>4 DEF ShiftsTo
  <2>7. Power[2 * W - sr] = b * B
    <3>1. W - sr \in Nat /\ (W - sr) + W = 2 * W - sr /\ (W - sr) + W <= 64
      BY <1>2, <2>1
    <3>2. Power[(W - sr) + W] = Power[W - sr] * Power[W]
      BY ONLY <1>2, <3>1, PowerSum
    <3> QED
      BY <1>2, <3>1, <3>2
  <2>8. sr # W
    BY <1>2, <1>4
  <2>9. Split(n, sr).q = (l0 * b) * B + 0 /\ Split(n, sr).r = h1 * B + (h0 * b + l1)
    BY <1>4, <2>5, <2>6, <2>8 DEF Split, Dword
  <2>10. (l0 * b) * B + 0 = l0 * (b * B)
    BY ONLY <1>2, <2>2, <2>6
  <2>11. n = (h1 * B + (h0 * b + l1)) * a + l0
    <3>1. (h1 * a + h0) * (a * b) + (l1 * a + l0) = (h1 * (a * b) + (h0 * b + l1)) * a + l0
      BY ONLY <2>2, <2>5, <2>6, DownIdentity
    <3> QED
      BY <1>1, <2>2, <2>5, <2>6, <3>1
  <2>12. h1 * B + (h0 * b + l1) \in Nat
    BY ONLY <1>2, <2>2, <2>5, <2>6
  <2>13. Begun(n, sr, Split(n, sr), l0)
    BY <2>6, <2>7, <2>9, <2>10, <2>11, <2>12 DEF Begun
  <2> QED
    BY <2>13
<1>5. CASE sr > W
  <2> PICK s : s = sr - W
    OBVIOUS
  <2>1. s \in 1 .. W - 1 /\ 2 * W - sr = W - s /\ s \in Nat /\ s + W = sr /\ s + W <= 64
    BY <1>2, <1>5
  <2> PICK a, b : a = Power[s] /\ b = Power[W - s]
    OBVIOUS
  <2>2. B = a * b /\ a \in Nat /\ a > 0 /\ b \in Nat /\ b > 0
    BY <2>1, Halves
  <2>3. PICK h1, h0 : ShiftsTo(h, s, h1, h0)
    BY <1>1, <2>1, ShiftWord
  <2>4. PICK l1, l0 : ShiftsTo(l, s, l1, l0)
    BY <1>1, <2>1, ShiftWord
  <2>5. /\ h = h1 * a + h0 /\ h1 \in Nat /\ h0 \in Nat /\ h0 < a
        /\ Shr(h, sr - W) = h1 /\ Shl(h, 2 * W - sr) = h0 * b
    BY <2>1, <2>3 DEF ShiftsTo
  <2>6. /\ l = l1 * a + l0 /\ l1 \in Nat /\ l0 \in Nat
        /\ Shr(l, sr - W) = l1 /\ Shl(l, 2 * W - sr) = l0 * b
    BY <2>1, <2>4 DEF ShiftsTo
  <2>7. Power[sr] = a * B
    <3>1. Power[s + W] = Power[s] * Power[W]
      BY ONLY <1>2, <2>1, PowerSum
    <3> QED
      BY <1>2, <2>1, <3>1
  <2>8. sr # W /\ ~(sr < W)
    BY <1>2, <1>5
  <2>9. Split(n, sr).q = (h0 * b + l1) * B + l0 * b /\ Split(n, sr).r = h1
    BY <2>5, <2>6, <2>8 DEF Split, Dword
  <2> PICK lo : lo = h0 * B + l
    OBVIOUS
  <2>10. lo \in Nat /\ lo < a * B
    <3>1. h0 + 1 <= a /\ h0 + 1 \in Int /\ a \in Int
      BY <2>2, <2>5
    <3>2. (h0 + 1) * B <= a * B
      BY ONLY <1>2, <3>1, TimesLess
    <3>3. (h0 + 1) * B = h0 * B + B /\ h0 * B \in Nat
      <4>1. h0 \in Int /\ 1 \in Int /\ B \in Int
        BY <1>2, <2>5
      <4>2. (h0 + 1) * B = h0 * B + 1 * B
        BY ONLY <4>1, Distribute
      <4>3. 1 * B = B
        BY ONLY <4>1
      <4>4. h0 * B \in Nat
        BY ONLY <1>2, <2>5
      <4> QED
        BY ONLY <4>2, <4>3, <4>4
    <3> PICK x, y : x = h0 * B /\ y = a * B
      OBVIOUS
    <3>4. y \in Nat
      BY ONLY <1>2, <2>2, y = a * B
    <3> QED
      BY <1>1, <1>2, <3>2, <3>3, <3>4
  <2>11. /\ h * B + l = h1 * (a * B) + (h0 * B + l)
         /\ (h0 * b + l1) * B + l0 * b = (h0 * B + l) * b
    BY <2>2, <2>5, <2>6, AcrossIdentity
  <2>12. Begun(n, sr, Split(n, sr), lo)
    BY <1>1, <2>1, <2>5, <2>7, <2>9, <2>10, <2>11 DEF Begun
  <2> QED
    BY <2>12
<1> QED
  BY <1>2, <1>3, <1>4, <1>5

-----------------------------------------------------------------------------
(* The rounds *)
LEMMA TwoM ==
  \E M : /\ M = Power[2 * W - 1] /\ M \in Nat /\ M > 0 /\ Word * Word = 2 * M
         /\ M = Power[W - 1] * Word /\ Power[W - 1] \in Nat /\ Power[W - 1] > 0
<1>1. W \in Nat /\ W >= 2 /\ W <= 32 /\ Word = Power[W] /\ Word * Word = Power[2 * W]
  BY Sizes
<1>2. /\ 2 * W - 1 \in 0 .. 63 /\ (2 * W - 1) + 1 = 2 * W /\ W - 1 \in Nat /\ W - 1 \in 0 .. 64
      /\ (W - 1) + W = 2 * W - 1 /\ (W - 1) + W <= 64
  BY <1>1
<1>3. Power[(2 * W - 1) + 1] = 2 * Power[2 * W - 1] /\ Power[2 * W - 1] \in Nat /\ Power[2 * W - 1] >= 1
  BY ONLY <1>2, PowerNext
<1>4. Power[(W - 1) + W] = Power[W - 1] * Power[W]
  BY ONLY <1>1, <1>2, PowerSum
<1>5. Power[W - 1] \in Nat /\ Power[W - 1] >= 1
  BY <1>2, PowerNat
<1> QED
  BY <1>1, <1>2, <1>3, <1>4, <1>5

LEMMA DivDiv ==
  ASSUME NEW t \in Nat, NEW p \in Nat, NEW B \in Nat, B > 0, NEW w \in Nat, w < p * B
  PROVE  ((t * (p * B) + w) \div B) \div p = t
<1> PICK w1, w0 : w1 = w \div B /\ w0 = w % B
  OBVIOUS
<1>1. w = w1 * B + w0 /\ w1 \in Nat /\ w0 \in Nat /\ w0 < B
  <2>1. w \in Int
    OBVIOUS
  <2>2. w = (w \div B) * B + (w % B) /\ w \div B \in Nat /\ w % B \in Nat /\ w % B < B
    BY ONLY <2>1, w \in Nat, B \in Nat, B > 0, DivModIs
  <2> QED
    BY <2>2
<1>2. w1 < p
  <2> PICK x : x = p * B
    OBVIOUS
  <2>1. x \in Nat /\ w1 * B \in Nat
    BY ONLY <1>1, x = p * B, p \in Nat, B \in Nat
  <2>2. w1 * B < p * B
    BY <1>1, <2>1
  <2> QED
    BY ONLY <1>1, <2>2, p \in Nat, B \in Nat, B > 0, TimesLess
<1> PICK v : v = t * p + w1
  OBVIOUS
<1>3. v \in Int
  BY <1>1
<1>4. t * (p * B) + w = v * B + w0
  <2>1. t * (p * B) + (w1 * B + w0) = (t * p + w1) * B + w0
    BY ONLY <1>1, t \in Nat, p \in Nat, B \in Nat
  <2> QED
    BY <1>1, <2>1
<1>5. (v * B + w0) \div B = v
  BY ONLY <1>1, <1>3, B \in Nat, DivModUnique
<1>6. (t * p + w1) \div p = t
  <2>1. t \in Int
    OBVIOUS
  <2> QED
    BY ONLY <1>1, <1>2, <2>1, p \in Nat, DivModUnique
<1> QED
  BY <1>4, <1>5, <1>6

(* The bit that leaves the upper word. *)
LEMMA TopBit ==
  ASSUME NEW t \in Nat, NEW w \in Nat, w < Power[2 * W - 1]
  PROVE  Shr(High(t * Power[2 * W - 1] + w), W - 1) = t
<1> PICK p, B : p = Power[W - 1] /\ B = Word
  OBVIOUS
<1>1. Power[2 * W - 1] = p * B /\ p \in Nat /\ B \in Nat /\ B > 0
  BY TwoM, Sizes
<1>2. ((t * (p * B) + w) \div B) \div p = t
  <2>1. w < p * B
    BY <1>1
  <2> QED
    BY ONLY <1>1, <2>1, t \in Nat, w \in Nat, DivDiv
<1> QED
  BY <1>1, <1>2 DEF Shr, High

(* The sign of d - R - 1 tells whether d fits into R. *)
LEMMA SignTells ==
  ASSUME NEW M \in Nat, Word * Word = 2 * M, NEW d \in Nat, NEW R \in Nat,
         0 < d, d < 2 * M, R < 2 * M, R < 2 * d, d <= M \/ M <= R
  PROVE  Negative(Wrap64(d - R - 1)) <=> d <= R
<1>1. CASE d <= R
  <2> PICK x : x = 2 * M + (d - R - 1)
    OBVIOUS
  <2>1. x \in Nat /\ x < 2 * M /\ M <= x /\ d - R - 1 = (-1) * (2 * M) + x
    BY <1>1
  <2>2. ((-1) * (2 * M) + x) % (2 * M) = x
    <3>1. -1 \in Int /\ 2 * M \in Nat
      OBVIOUS
    <3> QED
      BY ONLY <2>1, <3>1, DivModUnique
  <2>3. Wrap64(d - R - 1) = x
    BY <2>1, <2>2 DEF Wrap64
  <2> QED
    BY <1>1, <2>1, <2>3 DEF Negative
<1>2. CASE R < d
  <2> PICK x : x = d - R - 1
    OBVIOUS
  <2>1. x \in Nat /\ x < M /\ x < 2 * M
    BY <1>2
  <2>2. x % (2 * M) = x
    <3>1. 2 * M \in Nat
      OBVIOUS
    <3> QED
      BY ONLY <2>1, <3>1, SmallMod
  <2>3. Wrap64(d - R - 1) = x
    BY <2>2 DEF Wrap64
  <2>4. ~Negative(x)
    BY <2>1 DEF Negative
  <2> QED
    BY <1>2, <2>3, <2>4
<1> QED
  BY <1>1, <1>2

(* After i of sr rounds: lo is what is left of the dividend, Q the         *)
(* quotient so far, of which the last bit is still the carry.              *)
InRound(n, d, sr, i, s, Q, lo) ==
  /\ Q \in Nat /\ Q < Power[i] /\ lo \in Nat /\ lo < Power[sr - i]
  /\ s.r \in Nat /\ s.r < d /\ s.q = lo * Power[2 * W - sr + i] + (Q \div 2)
  /\ s.carry = Q % 2 /\ n = (d * Q + s.r) * Power[sr - i] + lo

LEMMA RoundIdentity ==
  ASSUME NEW d \in Int, NEW Q \in Int, NEW r \in Int, NEW P \in Int, NEW t \in Int, NEW lo \in Int, NEW f \in Int
  PROVE  (d * Q + r) * (2 * P) + (t * P + lo) = (d * (2 * Q + f) + ((2 * r + t) - f * d)) * P + lo
OBVIOUS

(* The condition under which no bit of the remainder is lost: the divisor  *)
(* has its upper bit clear, or the only round takes the whole dividend.    *)
Roomy(n, d, sr) == 2 * d <= Word * Word \/ (sr = 1 /\ 2 * n >= Word * Word)

LEMMA RoundKeeps ==
  ASSUME NEW n \in Dwords, NEW d \in Dwords, d > 0, NEW sr \in 1 .. 2 * W - 1, NEW i \in 0 .. sr - 1,
         NEW s, NEW Q, NEW lo, InRound(n, d, sr, i, s, Q, lo), Roomy(n, d, sr)
  PROVE  \E Q2, lo2 : InRound(n, d, sr, i + 1, Round(d, s), Q2, lo2)
<1>1. PICK M : M = Power[2 * W - 1] /\ M \in Nat /\ M > 0 /\ Word * Word = 2 * M
  BY TwoM
<1>2. n \in Nat /\ n < 2 * M /\ d \in Nat /\ 0 < d /\ d < 2 * M
  BY <1>1, HighLow
<1>3. W \in Nat /\ W >= 2 /\ W <= 32 /\ sr \in Nat /\ i \in Nat /\ i < sr /\ sr < 2 * W
  BY Sizes
<1> PICK P, E, c, r, F : P = Power[sr - i - 1] /\ E = Power[2 * W - sr + i] /\ c = Q \div 2 /\ r = s.r /\ F = Power[i]
  OBVIOUS
<1>4. Power[sr - i] = 2 * P /\ P \in Nat /\ P > 0 /\ sr - (i + 1) = sr - i - 1
  <2>1. sr - i - 1 \in 0 .. 63 /\ (sr - i - 1) + 1 = sr - i
    BY <1>3
  <2>2. Power[(sr - i - 1) + 1] = 2 * Power[sr - i - 1] /\ Power[sr - i - 1] \in Nat /\ Power[sr - i - 1] >= 1
    BY ONLY <2>1, PowerNext
  <2> QED
    BY <1>3, <2>1, <2>2
<1>5. Power[2 * W - sr + (i + 1)] = 2 * E /\ E \in Nat /\ E > 0
  <2>1. 2 * W - sr + i \in 0 .. 63 /\ (2 * W - sr + i) + 1 = 2 * W - sr + (i + 1)
    BY <1>3
  <2>2. /\ Power[(2 * W - sr + i) + 1] = 2 * Power[2 * W - sr + i]
        /\ Power[2 * W - sr + i] \in Nat /\ Power[2 * W - sr + i] >= 1
    BY ONLY <2>1, PowerNext
  <2> QED
    BY <2>1, <2>2
<1>6. P * E = M
  <2>1. /\ sr - i - 1 \in Nat /\ 2 * W - sr + i \in Nat /\ (sr - i - 1) + (2 * W - sr + i) = 2 * W - 1
        /\ (sr - i - 1) + (2 * W - sr + i) <= 64
    BY <1>3
  <2>2. Power[(sr - i - 1) + (2 * W - sr + i)] = Power[sr - i - 1] * Power[2 * W - sr + i]
    BY ONLY <2>1, PowerSum
  <2> QED
    BY <1>1, <2>1, <2>2
<1>7. Power[i + 1] = 2 * F /\ F \in Nat /\ F <= E
  <2>1. i \in 0 .. 63 /\ i <= 2 * W - sr + i /\ 2 * W - sr + i <= 64 /\ 2 * W - sr + i \in Nat
    BY <1>3
  <2>2. Power[i] <= Power[2 * W - sr + i]
    BY ONLY <1>3, <2>1, PowerGrows
  <2> QED
    BY <2>1, <2>2, PowerNext
<1>8. /\ Q \in Nat /\ Q < F /\ lo \in Nat /\ lo < 2 * P /\ r \in Nat /\ r < d
      /\ s.q = lo * E + c /\ s.carry = Q % 2 /\ n = (d * Q + r) * (2 * P) + lo
  BY <1>4 DEF InRound
<1>9. c \in Nat /\ 2 * c + s.carry = Q /\ s.carry \in Nat /\ c < E
  BY <1>5, <1>7, <1>8
<1> PICK t, lo1 : t = lo \div P /\ lo1 = lo % P
  OBVIOUS
<1>10. lo = t * P + lo1 /\ t \in Nat /\ t < 2 /\ lo1 \in Nat /\ lo1 < P
  <2>1. lo \in Int
    BY <1>8
  <2>2. lo = (lo \div P) * P + (lo % P) /\ lo \div P \in Nat /\ lo % P \in Nat /\ lo % P < P
    BY ONLY <1>4, <1>8, <2>1, DivModIs
  <2>3. t * P < 2 * P
    <3> PICK x : x = t * P
      OBVIOUS
    <3>1. x \in Nat
      <4>1. \A a \in Nat, b \in Nat : a * b \in Nat
        OBVIOUS
      <4> QED
        BY <1>4, <2>2, <4>1
    <3> QED
      BY <1>4, <1>8, <2>2, <3>1
  <2>4. t < 2
    <3>1. t \in Int /\ 2 \in Int /\ P \in Int /\ P > 0
      BY <1>4, <2>2
    <3> QED
      BY ONLY <2>3, <3>1, TimesLess
  <2> QED
    BY <2>2, <2>4
<1> PICK w : w = lo1 * E + c
  OBVIOUS
<1>11. w \in Nat /\ w < M
  <2>1. lo1 * E \in Nat /\ lo1 * E + 1 * E = (lo1 + 1) * E
    BY ONLY <1>5, <1>10
  <2>2. (lo1 + 1) * E <= P * E
    <3>1. lo1 + 1 \in Int /\ lo1 + 1 <= P /\ P \in Int /\ E \in Int /\ E > 0
      BY ONLY <1>4, <1>5, <1>10
    <3> QED
      BY ONLY <3>1, TimesLess
  <2> PICK x, y : x = lo1 * E /\ y = (lo1 + 1) * E
    OBVIOUS
  <2>3. x \in Nat /\ y = x + E /\ y <= M /\ w = x + c
    <3>1. 1 * E = E
      BY <1>5
    <3> QED
      BY <1>6, <2>1, <2>2, <3>1
  <2> QED
    BY <1>1, <1>5, <1>9, <2>3
<1>12. s.q = t * M + w
  <2>1. (t * P + lo1) * E + c = t * (P * E) + (lo1 * E + c)
    BY ONLY <1>4, <1>5, <1>9, <1>10
  <2> QED
    BY <1>6, <1>8, <1>10, <2>1
<1>13. Shr(High(s.q), W - 1) = t
  <2>1. Shr(High(t * Power[2 * W - 1] + w), W - 1) = t
    <3>1. w < Power[2 * W - 1]
      BY <1>1, <1>11
    <3> QED
      BY <1>10, <1>11, <3>1, TopBit
  <2> QED
    BY <1>1, <1>12, <2>1
<1> PICK R : R = 2 * r + t
  OBVIOUS
<1>14. R \in Nat /\ R < 2 * d
  BY <1>2, <1>8, <1>10
<1>15. R < 2 * M /\ (d <= M \/ M <= R)
  <2>1. CASE 2 * d <= Word * Word
    BY <1>1, <1>2, <1>14, <2>1
  <2>2. CASE sr = 1 /\ 2 * n >= Word * Word
    <3>1. i = 0 /\ sr - i - 1 = 0
      <4>1. sr = 1
        BY <2>2
      <4>2. \A a \in Nat : a < 1 => a = 0 /\ 1 - a - 1 = 0
        OBVIOUS
      <4> QED
        BY <1>3, <4>1, <4>2
    <3>2. P = 1 /\ F = 1
      BY <3>1, PowerRec
    <3>3. Q = 0 /\ lo1 = 0 /\ lo = t
      BY <1>7, <1>8, <1>10, <3>2
    <3>4. (d * 0 + r) * (2 * 1) + t = 2 * r + t
      BY ONLY <1>2, <1>8, <1>10
    <3>5. n = R
      BY <1>8, <3>2, <3>3, <3>4
    <3> QED
      BY <1>1, <1>2, <2>2, <3>5
  <2> QED
    BY <2>1, <2>2 DEF Roomy
<1>16. Wrap64(R) = R
  <2>1. 2 * M \in Nat
    BY <1>1
  <2>2. R % (2 * M) = R
    BY ONLY <1>14, <1>15, <2>1, SmallMod
  <2> QED
    BY <1>1, <2>2 DEF Wrap64
<1>17. Negative(Wrap64(d - R - 1)) <=> d <= R
  BY <1>1, <1>2, <1>14, <1>15, SignTells
<1> PICK f, r2 : f = (IF d <= R THEN 1 ELSE 0) /\ r2 = (IF d <= R THEN R - d ELSE R)
  OBVIOUS
<1>18. f \in Nat /\ f < 2 /\ r2 \in Nat /\ r2 < d /\ r2 = R - f * d
  BY <1>2, <1>14
<1>19. d <= R => Wrap64(R - d) = R - d
  <2> HAVE d <= R
  <2> PICK x : x = R - d
    OBVIOUS
  <2>1. x \in Nat /\ x < 2 * M /\ 2 * M \in Nat
    BY <1>1, <1>2, <1>14, <1>15
  <2>2. x % (2 * M) = x
    BY ONLY <2>1, SmallMod
  <2> QED
    BY <1>1, <2>2 DEF Wrap64
<1>20. Wrap64(2 * s.q) = 2 * w
  <2>1. 2 * (t * M + w) = t * (2 * M) + 2 * w
    BY ONLY <1>1, <1>10, <1>11
  <2>2. t \in Int /\ 2 * w \in Nat /\ 2 * M \in Nat /\ 2 * w < 2 * M
    BY <1>1, <1>10, <1>11
  <2>3. (t * (2 * M) + 2 * w) % (2 * M) = 2 * w
    BY ONLY <2>2, DivModUnique
  <2> QED
    BY <1>1, <1>12, <2>1, <2>3 DEF Wrap64
<1>21. /\ Round(d, s).q = 2 * w + s.carry /\ Round(d, s).r = r2 /\ Round(d, s).carry = f
  <2>1. Wrap64(2 * s.r + Shr(High(s.q), W - 1)) = R
    BY <1>13, <1>16
  <2> QED
    BY <1>17, <1>19, <1>20, <2>1 DEF Round
<1> PICK Q2 : Q2 = 2 * Q + f
  OBVIOUS
<1>22. Q2 \in Nat /\ Q2 < 2 * F /\ Q2 \div 2 = Q /\ Q2 % 2 = f
  BY <1>7, <1>8, <1>18
<1>23. 2 * w + s.carry = lo1 * (2 * E) + Q
  <2>1. 2 * (lo1 * E + c) + s.carry = lo1 * (2 * E) + (2 * c + s.carry)
    BY ONLY <1>5, <1>9, <1>10
  <2> QED
    BY <1>9, <2>1
<1>24. n = (d * Q2 + r2) * P + lo1
  <2>1. (d * Q + r) * (2 * P) + (t * P + lo1) = (d * (2 * Q + f) + ((2 * r + t) - f * d)) * P + lo1
    <3>1. d \in Int /\ Q \in Int /\ r \in Int /\ P \in Int /\ t \in Int /\ lo1 \in Int /\ f \in Int
      BY ONLY <1>2, <1>4, <1>8, <1>10, <1>18
    <3> QED
      BY ONLY <3>1, RoundIdentity
  <2> QED
    BY <1>8, <1>10, <1>18, <2>1
<1>25. InRound(n, d, sr, i + 1, Round(d, s), Q2, lo1)
  BY <1>4, <1>5, <1>7, <1>10, <1>18, <1>21, <1>22, <1>23, <1>24 DEF InRound
<1> QED
  BY <1>25

States == [q : Nat, r : Nat, carry : Nat]

LEMMA WrapNat ==
  ASSUME NEW x \in Int
  PROVE  Wrap64(x) \in Nat /\ Wrap64(x) < Word * Word
<1> PICK BB : BB = Word * Word
  OBVIOUS
<1>1. BB \in Nat /\ BB > 0
  BY TwoM
<1>2. x % BB \in Nat /\ x % BB < BB
  BY ONLY <1>1, x \in Int, DivModIs
<1> QED
  BY <1>2 DEF Wrap64

LEMMA RoundNat ==
  ASSUME NEW d \in Nat, NEW s \in States
  PROVE  Round(d, s) \in States
<1>1. s.q \in Nat /\ s.r \in Nat /\ s.carry \in Nat
  BY DEF States
<1> PICK B, p, h, t, R : B = Word /\ p = Power[W - 1] /\ h = s.q \div B /\ t = h \div p /\ R = Wrap64(2 * s.r + t)
  OBVIOUS
<1>2. B \in Nat /\ B > 0 /\ p \in Nat /\ p > 0
  BY Sizes, TwoM
<1>3. h \in Nat
  <2>1. s.q \in Int
    BY <1>1
  <2> QED
    BY ONLY <1>1, <1>2, <2>1, DivModIs, h = s.q \div B
<1>4. t \in Nat
  <2>1. h \in Int
    BY <1>3
  <2> QED
    BY ONLY <1>2, <1>3, <2>1, DivModIs, t = h \div p
<1>5. R \in Nat
  <2>1. 2 * s.r + t \in Int
    BY <1>1, <1>4
  <2> QED
    BY <2>1, WrapNat
<1>6. Wrap64(R - d) \in Nat /\ Wrap64(2 * s.q) \in Nat
  <2>1. R - d \in Int /\ 2 * s.q \in Int
    BY <1>1, <1>5
  <2> QED
    BY <2>1, WrapNat
<1>7. Shr(High(s.q), W - 1) = t
  BY DEF Shr, High
<1>8. Wrap64(2 * s.q) + s.carry \in Nat
  BY <1>1, <1>6
<1> QED
  BY <1>5, <1>6, <1>7, <1>8 DEF Round, States

Start(n, sr) == [q |-> Split(n, sr).q, r |-> Split(n, sr).r, carry |-> 0]

(* The states of the rounds, one after another. *)
Runs(f, n, d, sr) == f[0] = Start(n, sr) /\ \A i \in 0 .. sr - 1 : f[i + 1] = Round(d, f[i])

LEMMA RoundsDef ==
  ASSUME NEW n, NEW d \in Nat, NEW sr \in Nat, Start(n, sr) \in States
  PROVE  \E f : /\ Runs(f, n, d, sr)
                /\ Rounds(n, d, sr) = [q |-> Wrap64(2 * f[sr].q) + f[sr].carry, r |-> f[sr].r]
<1> DEFINE Is(f) == f = [i \in 0 .. sr |->
                           IF i = 0 THEN [q |-> Split(n, sr).q, r |-> Split(n, sr).r, carry |-> 0]
                           ELSE Round(d, f[i - 1])]
           step == [p \in States \X (1 .. sr) |-> Round(d, p[1])]
<1>1. PICK f \in [0 .. sr -> States] : Computes(f, sr, Start(n, sr), step)
  <2>1. ASSUME NEW p \in States \X (1 .. sr) PROVE Round(d, p[1]) \in States
    <3>1. p[1] \in States
      OBVIOUS
    <3> QED
      BY <3>1, RoundNat
  <2>2. step \in [States \X (1 .. sr) -> States]
    BY <2>1
  <2> HIDE DEF step
  <2> QED
    BY <2>2, Recursion
<1>2. f[0] = Start(n, sr) /\ \A i \in 1 .. sr : f[i] = Round(d, f[i - 1])
  <2>1. f[0] = Start(n, sr) /\ \A i \in 1 .. sr : f[i] = step[<<f[i - 1], i>>]
    <3> HIDE DEF step
    <3> QED
      BY <1>1 DEF Computes
  <2>2. ASSUME NEW i \in 1 .. sr PROVE f[i] = Round(d, f[i - 1])
    <3>1. f[i - 1] \in States
      <4>1. i - 1 \in 0 .. sr
        OBVIOUS
      <4> QED
        BY <4>1
    <3>2. step[<<f[i - 1], i>>] = Round(d, f[i - 1])
      BY <3>1
    <3> HIDE DEF step
    <3> QED
      BY <2>1, <3>2
  <2> QED
    BY <2>1, <2>2
<1>3. Is(f)
  <2>1. \A i \in 0 .. sr : f[i] = IF i = 0 THEN [q |-> Split(n, sr).q, r |-> Split(n, sr).r, carry |-> 0]
                                  ELSE Round(d, f[i - 1])
    BY <1>2 DEF Start
  <2> QED
    BY <2>1
<1>4. PICK g : g = CHOOSE h : Is(h)
  OBVIOUS
<1>5. Is(g)
  <2> HIDE DEF Is
  <2>1. \E h : Is(h)
    BY <1>3
  <2> QED
    BY <1>4, <2>1
<1>6. Rounds(n, d, sr) = [q |-> Wrap64(2 * g[sr].q) + g[sr].carry, r |-> g[sr].r]
  BY <1>4 DEF Rounds
<1>7. Runs(g, n, d, sr)
  <2>1. \A i \in 0 .. sr : g[i] = IF i = 0 THEN [q |-> Split(n, sr).q, r |-> Split(n, sr).r, carry |-> 0]
                                  ELSE Round(d, g[i - 1])
    BY <1>5
  <2>2. ASSUME NEW i \in 0 .. sr - 1 PROVE g[i + 1] = Round(d, g[i])
    <3>1. i + 1 \in 0 .. sr /\ i + 1 # 0 /\ (i + 1) - 1 = i
      OBVIOUS
    <3> QED
      BY <2>1, <3>1
  <2>3. 0 \in 0 .. sr
    OBVIOUS
  <2> QED
    BY <2>1, <2>2, <2>3 DEF Runs, Start
<1> QED
  BY <1>6, <1>7

(* u is quotient and remainder of n by d. *)
Divides(n, d, u) == u.q \in Nat /\ u.r \in Nat /\ u.r < d /\ n = u.q * d + u.r

LEMMA RoundsIs ==
  ASSUME NEW n \in Dwords, NEW d \in Dwords, d > 0, NEW sr \in 1 .. 2 * W - 1,
         Roomy(n, d, sr), Split(n, sr).r < d
  PROVE  Divides(n, d, Rounds(n, d, sr))
<1>1. W \in Nat /\ W >= 2 /\ W <= 32 /\ sr \in Nat /\ sr < 2 * W /\ d \in Nat /\ n \in Nat /\ n < Word * Word
  BY Sizes, HighLow
<1>2. PICK lo : Begun(n, sr, Split(n, sr), lo)
  BY SplitIs
<1> PICK s, E : s = Start(n, sr) /\ E = Power[2 * W - sr]
  OBVIOUS
<1>3. /\ lo \in Nat /\ lo < Power[sr] /\ s.r \in Nat /\ s.r < d /\ n = s.r * Power[sr] + lo
      /\ s.q = lo * E /\ s.carry = 0 /\ E \in Nat /\ Power[sr] \in Nat
  <2>1. 2 * W - sr \in 0 .. 64 /\ sr \in 0 .. 64
    BY <1>1
  <2> QED
    BY <1>2, <2>1, PowerNat DEF Begun, Start
<1>4. s \in States
  <2>1. lo * E \in Nat
    BY ONLY <1>3
  <2> QED
    BY <1>2, <1>3, <2>1 DEF States, Start, Begun
<1>5. PICK f : /\ Runs(f, n, d, sr)
               /\ Rounds(n, d, sr) = [q |-> Wrap64(2 * f[sr].q) + f[sr].carry, r |-> f[sr].r]
  BY <1>1, <1>4, RoundsDef
<1> DEFINE S == {i \in 0 .. sr : \E Q, l : InRound(n, d, sr, i, f[i], Q, l)}
<1>6. 0 \in S
  <2>1. f[0] = s
    BY <1>5 DEF Runs
  <2>2. Power[0] = 1 /\ sr - 0 = sr /\ 2 * W - sr + 0 = 2 * W - sr
    BY <1>1, PowerRec
  <2>3. d * 0 + s.r = s.r /\ 0 \div 2 = 0 /\ 0 % 2 = 0
    BY <1>1, <1>3
  <2>4. lo * E + 0 = lo * E
    BY ONLY <1>3
  <2>5. n = (d * 0 + s.r) * Power[sr - 0] + lo
    BY ONLY <1>3, <2>2, <2>3
  <2>6. s.q = lo * Power[2 * W - sr + 0] + (0 \div 2)
    BY <1>3, <2>2, <2>3, <2>4
  <2>7. 0 \in Nat /\ 0 < Power[0] /\ lo \in Nat /\ lo < Power[sr - 0] /\ s.r \in Nat /\ s.r < d /\ s.carry = 0 % 2
    BY ONLY <1>3, <2>2, <2>3
  <2>8. InRound(n, d, sr, 0, s, 0, lo)
    BY ONLY <2>5, <2>6, <2>7 DEF InRound
  <2>9. 0 \in 0 .. sr
    BY <1>1
  <2> QED
    BY <2>1, <2>8, <2>9
<1>7. ASSUME NEW i \in 0 .. sr - 1, i \in S PROVE i + 1 \in S
  <2>1. PICK Q, l : InRound(n, d, sr, i, f[i], Q, l)
    BY <1>7
  <2>2. f[i + 1] = Round(d, f[i])
    BY <1>5 DEF Runs
  <2>3. \E Q2, l2 : InRound(n, d, sr, i + 1, Round(d, f[i]), Q2, l2)
    BY <2>1, RoundKeeps
  <2>4. i + 1 \in 0 .. sr
    BY <1>1
  <2> QED
    BY <2>2, <2>3, <2>4
<1>8. sr \in S
  <2> HIDE DEF S
  <2>1. \A i \in 0 .. sr : i \in S
    BY <1>1, <1>6, <1>7, UpTo
  <2>2. sr \in 0 .. sr
    BY <1>1
  <2> QED
    BY <2>1, <2>2
<1>9. PICK Q, l : InRound(n, d, sr, sr, f[sr], Q, l)
  BY <1>8
<1> PICK e : e = f[sr]
  OBVIOUS
<1>10. /\ Q \in Nat /\ l = 0 /\ e.r \in Nat /\ e.r < d /\ e.carry = Q % 2
       /\ e.q = l * Power[2 * W - sr + sr] + (Q \div 2) /\ n = (d * Q + e.r) * 1 + l
  <2>1. sr - sr = 0 /\ Power[0] = 1
    BY <1>1, PowerRec
  <2>2. l < 1 /\ l \in Nat
    BY <1>9, <2>1 DEF InRound
  <2> QED
    BY <1>9, <2>1, <2>2 DEF InRound
<1>11. e.q = Q \div 2
  <2>1. 2 * W - sr + sr \in 0 .. 64
    BY <1>1
  <2>2. Power[2 * W - sr + sr] \in Nat
    BY <2>1, PowerNat
  <2>3. 0 * Power[2 * W - sr + sr] = 0
    BY ONLY <2>2
  <2>4. Q \div 2 \in Nat
    BY <1>10
  <2> QED
    BY <1>10, <2>3, <2>4
<1>12. n = Q * d + e.r
  BY ONLY <1>1, <1>10
<1>13. Q < Word * Word
  <2> PICK x, y : x = Q * d /\ y = Q * (d - 1)
    OBVIOUS
  <2>1. x = y + Q
    BY ONLY <1>1, <1>10, x = Q * d /\ y = Q * (d - 1)
  <2>2. d - 1 \in Nat
    BY <1>1
  <2>3. y \in Nat
    BY ONLY <1>10, <2>2, y = Q * (d - 1)
  <2>4. Q <= n
    BY <1>10, <1>12, <2>1, <2>3
  <2>5. Word * Word \in Nat
    BY TwoM
  <2> QED
    BY <1>1, <1>10, <2>4, <2>5
<1>14. Wrap64(2 * e.q) + e.carry = Q
  <2> PICK BB, g : BB = Word * Word /\ g = 2 * (Q \div 2)
    OBVIOUS
  <2>1. BB \in Nat
    BY TwoM
  <2>2. g \in Nat /\ g <= Q /\ g + (Q % 2) = Q
    BY <1>10
  <2>3. g % BB = g
    <3>1. g < BB
      BY <1>10, <1>13, <2>1, <2>2
    <3> QED
      BY ONLY <2>1, <2>2, <3>1, SmallMod
  <2> QED
    BY <1>10, <1>11, <2>2, <2>3 DEF Wrap64
<1> QED
  BY <1>5, <1>10, <1>12, <1>14 DEF Divides

-----------------------------------------------------------------------------
(* Unsigned division *)

(* The difference of the leading zeros is the number of rounds less one.   *)
LEMMA ByRounds ==
  ASSUME NEW n \in Dwords, NEW d \in Dwords, n # 0, d # 0, NEW diff \in Int, diff = Clz2(d) - Clz2(n)
  PROVE  /\ diff < 0 => n < d
         /\ 0 <= diff /\ diff <= 2 * W - 2 => Divides(n, d, Rounds(n, d, diff + 1))
<1>1. /\ W \in Nat /\ W >= 2 /\ W <= 32 /\ Word * Word = Power[2 * W] /\ n \in Nat /\ d \in Nat
      /\ n < Word * Word /\ d < Word * Word
  BY Sizes, HighLow
<1> PICK cn, cd : cn = Clz2(n) /\ cd = Clz2(d)
  OBVIOUS
<1>2. cn \in 0 .. (2 * W) - 1 /\ Power[2 * W - 1 - cn] <= n /\ n < Power[2 * W - cn]
  BY Clz2Is DEF LeadingZeros
<1>3. cd \in 0 .. (2 * W) - 1 /\ Power[2 * W - 1 - cd] <= d /\ d < Power[2 * W - cd]
  BY Clz2Is DEF LeadingZeros
<1> PICK D, N : D = Power[2 * W - 1 - cd] /\ N = Power[2 * W - cn]
  OBVIOUS
<1>4. D \in Nat /\ D > 0 /\ N \in Nat /\ D <= d /\ n < N
  <2>1. 2 * W - 1 - cd \in 0 .. 64 /\ 2 * W - cn \in 0 .. 64
    BY <1>1, <1>2, <1>3
  <2> QED
    BY <1>2, <1>3, <2>1, PowerNat
<1>5. diff < 0 => n < d
  <2> HAVE diff < 0
  <2>1. /\ 2 * W - cn \in Nat /\ 2 * W - 1 - cd \in Nat /\ 2 * W - cn <= 2 * W - 1 - cd /\ 2 * W - 1 - cd <= 64
    BY <1>1, <1>2, <1>3
  <2>2. N <= D
    BY ONLY <2>1, PowerGrows, D = Power[2 * W - 1 - cd] /\ N = Power[2 * W - cn]
  <2> QED
    BY <1>1, <1>4, <2>2
<1>6. ASSUME 0 <= diff, diff <= 2 * W - 2 PROVE Divides(n, d, Rounds(n, d, diff + 1))
  <2> PICK sr : sr = diff + 1
    OBVIOUS
  <2>1. sr \in 1 .. 2 * W - 1 /\ sr = cd - cn + 1 /\ sr \in Nat
    BY <1>1, <1>6
  <2>2. PICK lo : Begun(n, sr, Split(n, sr), lo)
    BY <2>1, SplitIs
  <2> PICK r, P : r = Split(n, sr).r /\ P = Power[sr]
    OBVIOUS
  <2>3. lo \in Nat /\ r \in Nat /\ n = r * P + lo /\ P \in Nat /\ P > 0
    <3>1. sr \in 0 .. 64
      BY <1>1, <2>1
    <3> QED
      BY <2>2, <3>1, PowerNat DEF Begun
  <2>4. N = D * P
    <3>1. /\ 2 * W - 1 - cd \in Nat /\ sr \in Nat /\ (2 * W - 1 - cd) + sr = 2 * W - cn
          /\ (2 * W - 1 - cd) + sr <= 64
      BY <1>1, <1>2, <1>3, <2>1
    <3>2. Power[(2 * W - 1 - cd) + sr] = Power[2 * W - 1 - cd] * Power[sr]
      BY ONLY <3>1, PowerSum
    <3> QED
      BY <3>1, <3>2
  <2>5. r < D
    <3> PICK x, y : x = r * P /\ y = D * P
      OBVIOUS
    <3>1. x \in Nat /\ y \in Nat
      BY ONLY <1>4, <2>3, x = r * P /\ y = D * P
    <3>2. x < y
      BY <1>1, <1>4, <2>3, <2>4, <3>1
    <3>3. r * P < D * P
      BY <3>2
    <3> QED
      BY ONLY <1>4, <2>3, <3>3, TimesLess
  <2>6. r < d
    BY <1>1, <1>4, <2>3, <2>5
  <2>7. PICK M : M = Power[2 * W - 1] /\ M \in Nat /\ M > 0 /\ Word * Word = 2 * M
    BY TwoM
  <2>8. Roomy(n, d, sr)
    <3>1. CASE cd = 0
      <4>1. cn = 0 /\ sr = 1
        BY <1>2, <1>3, <1>6, <2>1, <3>1
      <4>2. M <= n
        <5>1. 2 * W - 1 - cn = 2 * W - 1
          BY <1>1, <4>1
        <5> QED
          BY <1>2, <2>7, <5>1
      <4> QED
        BY <1>1, <2>7, <4>1, <4>2 DEF Roomy
    <3>2. CASE cd # 0
      <4>1. 2 * W - cd \in Nat /\ 2 * W - 1 \in Nat /\ 2 * W - cd <= 2 * W - 1 /\ 2 * W - 1 <= 64
        BY <1>1, <1>3, <3>2
      <4>2. Power[2 * W - cd] <= Power[2 * W - 1]
        BY ONLY <4>1, PowerGrows
      <4>3. Power[2 * W - cd] \in Nat
        <5>1. 2 * W - cd \in 0 .. 64
          BY <1>1, <1>3
        <5> QED
          BY <5>1, PowerNat
      <4> QED
        BY <1>1, <1>3, <2>7, <4>2, <4>3 DEF Roomy
    <3> QED
      BY <3>1, <3>2
  <2>9. Divides(n, d, Rounds(n, d, sr))
    <3>1. d > 0
      BY <1>1
    <3> QED
      BY <2>1, <2>6, <2>8, <3>1, RoundsIs
  <2> QED
    BY <2>9
<1> QED
  BY <1>5, <1>6

LEMMA DividesIs ==
  ASSUME NEW n, NEW d, NEW q \in Nat, NEW r \in Nat, r < d, n = q * d + r
  PROVE  Divides(n, d, [q |-> q, r |-> r])
<1> PICK u : u = [q |-> q, r |-> r]
  OBVIOUS
<1>1. u.q = q /\ u.r = r
  OBVIOUS
<1>2. Divides(n, d, u)
  BY ONLY <1>1, q \in Nat, r \in Nat, r < d, n = q * d + r DEF Divides
<1> QED
  BY <1>2

LEMMA ShiftedIs ==
  ASSUME NEW n \in Dwords, NEW d \in Dwords, n # 0, d # 0, NEW diff \in Int, diff = Clz2(d) - Clz2(n),
         NEW limit \in Int, diff <= limit, limit <= 2 * W - 2
  PROVE  Divides(n, d, Shifted(n, d, diff, limit))
<1>1. W \in Nat /\ n \in Nat /\ d \in Nat
  BY Sizes, HighLow
<1>2. CASE diff < 0
  <2>1. Shifted(n, d, diff, limit) = [q |-> 0, r |-> n]
    BY <1>2 DEF Shifted, Result
  <2>2. n < d
    BY <1>2, ByRounds
  <2>3. n = 0 * d + n /\ 0 \in Nat
    BY <1>1
  <2>4. Divides(n, d, [q |-> 0, r |-> n])
    BY ONLY <1>1, <2>2, <2>3, DividesIs
  <2> QED
    BY <2>1, <2>4
<1>3. CASE ~(diff < 0)
  <2>1. Shifted(n, d, diff, limit) = Rounds(n, d, diff + 1)
    BY <1>1, <1>3 DEF Shifted
  <2>2. 0 <= diff /\ diff <= 2 * W - 2
    BY <1>1, <1>3
  <2> QED
    BY <2>1, <2>2, ByRounds
<1> QED
  BY <1>2, <1>3

LEMMA WordsIdentity ==
  ASSUME NEW q \in Int, NEW e \in Int, NEW r \in Int, NEW B \in Int, NEW l \in Int
  PROVE  (q * e + r) * B + l = q * (e * B) + (r * B + l)
OBVIOUS

(* Upper words divided: the lower word of the dividend is that of the remainder. *)
LEMMA WordsLess ==
  ASSUME NEW e \in Nat, NEW r \in Nat, r < e, NEW B \in Nat, NEW l \in Nat, l < B
  PROVE  r * B + l < e * B
<1>1. r + 1 \in Int /\ r + 1 <= e /\ e \in Int /\ B \in Int /\ B > 0
  OBVIOUS
<1>2. (r + 1) * B <= e * B
  BY ONLY <1>1, TimesLess
<1>3. (r + 1) * B = r * B + B
  <2>1. r \in Int /\ 1 \in Int /\ B \in Int
    OBVIOUS
  <2>2. (r + 1) * B = r * B + 1 * B
    BY ONLY <2>1, Distribute
  <2>3. 1 * B = B
    BY ONLY <2>1
  <2> QED
    BY ONLY <2>2, <2>3
<1> PICK x, y : x = r * B /\ y = e * B
  OBVIOUS
<1>4. x \in Nat /\ y \in Nat
  BY ONLY r \in Nat, e \in Nat, B \in Nat, x = r * B /\ y = e * B
<1> QED
  BY <1>2, <1>3, <1>4

LEMMA UDivModIs ==
  ASSUME NEW n \in Dwords, NEW d \in Dwords, d # 0
  PROVE  Divides(n, d, UDivMod(n, d))
<1> PICK B, nh, nl, dh, dl : B = Word /\ nh = High(n) /\ nl = Low(n) /\ dh = High(d) /\ dl = Low(d)
  OBVIOUS
<1>1. /\ n \in Nat /\ n = nh * B + nl /\ nh \in Nat /\ nl \in Nat /\ nh < B /\ nl < B
      /\ d \in Nat /\ d = dh * B + dl /\ dh \in Nat /\ dl \in Nat /\ dh < B /\ dl < B
  BY HighLow
<1>2. W \in Nat /\ W >= 2 /\ W <= 32 /\ W \in Widths /\ B = Power[W] /\ B \in Nat /\ B >= 4
  BY Sizes
<1>3. (dh = 0 => d = dl) /\ (nh = 0 => n = nl) /\ (dl = 0 => d = dh * B) /\ (dh # 0 => d >= B) /\ (nh # 0 => n # 0)
  <2>1. /\ dh = 0 => dh * B = 0
        /\ nh = 0 => nh * B = 0
    BY <1>2
  <2>2. dh # 0 => dh * B >= B
    <3> HAVE dh # 0
    <3>1. 1 <= dh /\ 1 \in Int /\ dh \in Int /\ B \in Int /\ B > 0
      BY <1>1, <1>2
    <3>2. 1 * B <= dh * B
      BY ONLY <3>1, TimesLess
    <3> QED
      BY <1>2, <3>2
  <2>3. nh # 0 => nh * B >= B
    <3> HAVE nh # 0
    <3>1. 1 <= nh /\ 1 \in Int /\ nh \in Int /\ B \in Int /\ B > 0
      BY <1>1, <1>2
    <3>2. 1 * B <= nh * B
      BY ONLY <3>1, TimesLess
    <3> QED
      BY <1>2, <3>2
  <2> PICK x, y : x = dh * B /\ y = nh * B
    OBVIOUS
  <2>4. x \in Nat /\ y \in Nat
    BY ONLY <1>1, <1>2, x = dh * B /\ y = nh * B
  <2> QED
    BY <1>1, <1>2, <2>1, <2>2, <2>3, <2>4
<1>4. CASE nh = 0 /\ dh = 0
  <2>1. UDivMod(n, d) = [q |-> nl \div dl, r |-> nl % dl]
    BY <1>4 DEF UDivMod, Result
  <2>2. nl \in Int /\ dl \in Nat /\ dl > 0
    BY <1>1, <1>3, <1>4
  <2>3. nl = (nl \div dl) * dl + (nl % dl) /\ nl \div dl \in Nat /\ nl % dl \in Nat /\ nl % dl < dl
    BY ONLY <1>1, <2>2, DivModIs
  <2> QED
    BY <1>3, <1>4, <2>1, <2>3 DEF Divides
<1>5. CASE nh = 0 /\ dh # 0
  <2>1. UDivMod(n, d) = [q |-> 0, r |-> nl]
    BY <1>5 DEF UDivMod, Result
  <2>2. n = 0 * d + nl /\ nl < d
    BY <1>1, <1>2, <1>3, <1>5
  <2> QED
    BY <1>1, <2>1, <2>2 DEF Divides
<1>6. CASE nh # 0 /\ dl = 0 /\ nl = 0
  <2>0. dh # 0
    BY <1>3, <1>6
  <2>1. UDivMod(n, d) = [q |-> nh \div dh, r |-> (nh % dh) * B + 0]
    BY <1>6 DEF UDivMod, Result, Dword
  <2> PICK q, r : q = nh \div dh /\ r = nh % dh
    OBVIOUS
  <2>2. nh = q * dh + r /\ q \in Nat /\ r \in Nat /\ r < dh
    <3>1. nh \in Int /\ dh > 0
      BY <1>1, <2>0
    <3>2. nh = (nh \div dh) * dh + (nh % dh) /\ nh \div dh \in Nat /\ nh % dh \in Nat /\ nh % dh < dh
      BY ONLY <1>1, <3>1, DivModIs
    <3> QED
      BY <3>2
  <2>3. 0 \in Nat /\ 0 < B
    BY <1>2
  <2>4. r * B + 0 < dh * B
    BY ONLY <1>1, <1>2, <2>2, <2>3, WordsLess
  <2>5. (q * dh + r) * B + 0 = q * (dh * B) + (r * B + 0)
    BY ONLY <1>1, <1>2, <2>2, WordsIdentity
  <2>6. r * B + 0 \in Nat
    BY ONLY <1>2, <2>2
  <2>7. n = q * d + (r * B + 0) /\ r * B + 0 < d
    BY <1>1, <1>3, <1>6, <2>2, <2>4, <2>5
  <2>8. Divides(n, d, [q |-> q, r |-> r * B + 0])
    BY ONLY <2>2, <2>6, <2>7, DividesIs
  <2> QED
    BY <2>1, <2>8
<1>7. CASE nh # 0 /\ dl = 0 /\ nl # 0 /\ PowerOfTwo(dh)
  <2>0. dh # 0
    BY <1>3, <1>7
  <2> PICK c : c = Ctz(W, dh)
    OBVIOUS
  <2>1. UDivMod(n, d) = [q |-> Shr(nh, c), r |-> And(nh, dh - 1) * B + nl]
    BY <1>7 DEF UDivMod, Result, Dword
  <2>2. c \in 0 .. W - 1 /\ dh = Power[c]
    BY <1>1, <1>7, <2>0, PowerOfTwoIs
  <2> PICK q, r : q = nh \div dh /\ r = nh % dh
    OBVIOUS
  <2>3. Shr(nh, c) = q /\ And(nh, dh - 1) = r
    <3>1. And(nh, Power[c] - 1) = nh % Power[c]
      BY <1>1, <2>2, AndMask
    <3> QED
      BY <2>2, <3>1 DEF Shr
  <2>4. nh = q * dh + r /\ q \in Nat /\ r \in Nat /\ r < dh
    <3>1. nh \in Int /\ dh > 0
      BY <1>1, <2>0
    <3>2. nh = (nh \div dh) * dh + (nh % dh) /\ nh \div dh \in Nat /\ nh % dh \in Nat /\ nh % dh < dh
      BY ONLY <1>1, <3>1, DivModIs
    <3> QED
      BY <3>2
  <2>5. r * B + nl < dh * B
    BY ONLY <1>1, <1>2, <2>4, WordsLess
  <2>6. (q * dh + r) * B + nl = q * (dh * B) + (r * B + nl)
    BY ONLY <1>1, <1>2, <2>4, WordsIdentity
  <2>7. r * B + nl \in Nat
    BY ONLY <1>1, <1>2, <2>4
  <2>8. n = q * d + (r * B + nl) /\ r * B + nl < d
    BY <1>1, <1>3, <1>7, <2>4, <2>5, <2>6
  <2>9. Divides(n, d, [q |-> q, r |-> r * B + nl])
    BY ONLY <2>4, <2>7, <2>8, DividesIs
  <2> QED
    BY <2>1, <2>3, <2>9
<1>8. CASE nh # 0 /\ dh # 0 /\ ~(dl = 0 /\ (nl = 0 \/ PowerOfTwo(dh)))
  <2> PICK diff, e, f : diff = Clz(W, dh) - Clz(W, nh) /\ e = Clz(W, dh) /\ f = Clz(W, nh)
    OBVIOUS
  <2>1. Clz2(d) = e /\ Clz2(n) = f
    BY <1>8 DEF Clz2
  <2>2. e \in 0 .. W - 1 /\ f \in 0 .. W - 1 /\ dh < Power[W - e]
    <3>1. LeadingZeros(W, dh, e) /\ LeadingZeros(W, nh, f)
      BY <1>1, <1>2, <1>8, ClzIs
    <3> QED
      BY <3>1 DEF LeadingZeros
  <2>3. diff \in Int /\ diff <= W - 1 /\ W - 1 \in Int /\ W - 1 <= 2 * W - 2 /\ W - 2 \in Int /\ W - 2 <= 2 * W - 2
    BY <1>2, <2>2
  <2>4. n # 0 /\ d # 0
    BY <1>3, <1>8
  <2>5. CASE dl # 0
    <3>1. UDivMod(n, d) = Shifted(n, d, diff, W - 1)
      BY <1>8, <2>5 DEF UDivMod
    <3>2. Divides(n, d, Shifted(n, d, diff, W - 1))
      BY <2>1, <2>3, <2>4, ShiftedIs
    <3> QED
      BY <3>1, <3>2
  <2>6. CASE dl = 0
    <3>1. UDivMod(n, d) = Shifted(n, d, diff, W - 2)
      BY <1>8, <2>6 DEF UDivMod
    <3>2. e # W - 1
      <4> SUFFICES ASSUME e = W - 1 PROVE FALSE
        OBVIOUS
      <4>1. W - e = 1 /\ 1 \in 1 .. 64 /\ 1 - 1 = 0
        BY <1>2
      <4>2. Power[1] = 2
        BY <4>1, PowerRec
      <4>3. Power[W - e] = 2
        BY <4>1, <4>2
      <4>4. dh < 2
        BY <2>2, <4>3
      <4>5. dh = 1
        BY <1>1, <1>8, <4>4
      <4> QED
        BY <1>8, <2>6, <4>5, OneIsPower
    <3>3. diff <= W - 2
      BY <1>2, <2>2, <3>2
    <3>4. Divides(n, d, Shifted(n, d, diff, W - 2))
      BY <2>1, <2>3, <2>4, <3>3, ShiftedIs
    <3> QED
      BY <3>1, <3>4
  <2> QED
    BY <2>5, <2>6
<1>9. CASE nh # 0 /\ dl = 1 /\ dh = 0
  <2>1. UDivMod(n, d) = [q |-> n, r |-> 0]
    BY <1>9 DEF UDivMod, Result
  <2>2. d = 1 /\ n = n * 1 + 0 /\ 0 \in Nat /\ 0 < 1
    BY <1>1, <1>3, <1>9
  <2>3. Divides(n, 1, [q |-> n, r |-> 0])
    BY ONLY <1>1, <2>2, DividesIs
  <2> QED
    BY <2>1, <2>2, <2>3
<1>10. CASE nh # 0 /\ dl > 1 /\ dh = 0 /\ PowerOfTwo(dl)
  <2> PICK c : c = Ctz(W, dl)
    OBVIOUS
  <2>1. UDivMod(n, d) = [q |-> Shr(nh, c) * B + (Shl(nh, W - c) + Shr(nl, c)), r |-> And(nl, dl - 1)]
    BY <1>1, <1>10 DEF UDivMod, Result, Dword
  <2>2. c \in 1 .. W - 1 /\ dl = Power[c] /\ c \in 0 .. W - 1
    <3>1. c \in 0 .. W - 1 /\ dl = Power[c]
      BY <1>1, <1>10, PowerOfTwoIs
    <3>2. c # 0
      BY <1>10, <3>1, PowerRec
    <3> QED
      BY <1>2, <3>1, <3>2
  <2> PICK b : b = Power[W - c]
    OBVIOUS
  <2>3. B = dl * b /\ b \in Nat
    BY <2>2, Halves
  <2>4. PICK h1, h0 : ShiftsTo(nh, c, h1, h0)
    BY <1>1, <2>2, ShiftWord
  <2>5. PICK l1, l0 : ShiftsTo(nl, c, l1, l0)
    BY <1>1, <2>2, ShiftWord
  <2>6. nh = h1 * dl + h0 /\ h1 \in Nat /\ h0 \in Nat /\ Shr(nh, c) = h1 /\ Shl(nh, W - c) = h0 * b
    BY <2>2, <2>4 DEF ShiftsTo
  <2>7. nl = l1 * dl + l0 /\ l1 \in Nat /\ l0 \in Nat /\ l0 < dl /\ Shr(nl, c) = l1
    BY <2>2, <2>5 DEF ShiftsTo
  <2>8. And(nl, dl - 1) = l0
    <3>1. And(nl, Power[c] - 1) = nl % Power[c]
      BY <1>1, <2>2, AndMask
    <3>2. (l1 * dl + l0) % dl = l0
      <4>1. l1 \in Int
        BY <2>7
      <4> QED
        BY ONLY <1>1, <2>7, <4>1, DivModUnique
    <3> QED
      BY <2>2, <2>7, <3>1, <3>2
  <2> PICK q : q = h1 * B + (h0 * b + l1)
    OBVIOUS
  <2>9. q \in Nat
    BY ONLY <1>2, <2>3, <2>6, <2>7, q = h1 * B + (h0 * b + l1)
  <2>10. n = q * dl + l0
    <3>1. (h1 * dl + h0) * (dl * b) + (l1 * dl + l0) = (h1 * (dl * b) + (h0 * b + l1)) * dl + l0
      BY ONLY <1>1, <2>3, <2>6, <2>7, DownIdentity
    <3> QED
      BY <1>1, <2>3, <2>6, <2>7, <3>1
  <2>11. UDivMod(n, d) = [q |-> q, r |-> l0]
    BY <2>1, <2>6, <2>7, <2>8
  <2> QED
    BY <1>3, <1>10, <2>7, <2>9, <2>10, <2>11 DEF Divides
<1>11. CASE nh # 0 /\ dl > 1 /\ dh = 0 /\ ~PowerOfTwo(dl)
  <2> PICK e, f, diff : e = Clz(W, dl) /\ f = Clz(W, nh) /\ diff = W + e - f
    OBVIOUS
  <2>1. Clz2(d) = W + e /\ Clz2(n) = f
    BY <1>11 DEF Clz2
  <2>2. e \in 0 .. W - 1 /\ f \in 0 .. W - 1 /\ dl < Power[W - e]
    <3>1. LeadingZeros(W, dl, e) /\ LeadingZeros(W, nh, f)
      BY <1>1, <1>2, <1>11, ClzIs
    <3> QED
      BY <3>1 DEF LeadingZeros
  <2>3. e # W - 1
    <3> SUFFICES ASSUME e = W - 1 PROVE FALSE
      OBVIOUS
    <3>1. W - e = 1 /\ 1 \in 1 .. 64 /\ 1 - 1 = 0
      BY <1>2
    <3>2. Power[1] = 2
      BY <3>1, PowerRec
    <3> QED
      BY <1>1, <1>11, <2>2, <3>1, <3>2
  <2>4. diff \in Int /\ 0 <= diff /\ diff <= 2 * W - 2 /\ diff + 1 = 1 + W + e - f
    BY <1>2, <2>2, <2>3
  <2>5. UDivMod(n, d) = Rounds(n, d, 1 + W + e - f)
    BY <1>1, <1>11 DEF UDivMod
  <2>6. Divides(n, d, Rounds(n, d, diff + 1))
    <3>1. n # 0 /\ d # 0 /\ diff = Clz2(d) - Clz2(n)
      BY <1>2, <1>3, <1>11, <2>1, <2>2
    <3> QED
      BY <2>1, <2>4, <3>1, ByRounds
  <2> QED
    BY <2>4, <2>5, <2>6
<1> QED
  <2>1. dh = 0 => dl = 1 \/ dl > 1
    BY <1>1, <1>3
  <2> QED
    BY <1>4, <1>5, <1>6, <1>7, <1>8, <1>9, <1>10, <1>11, <2>1

-----------------------------------------------------------------------------
(* Signed division *)
LEMMA WrapAdds ==
  ASSUME NEW x \in Int, NEW z \in Int
  PROVE  Wrap64(x + z * (Word * Word)) = Wrap64(x)
<1> PICK m : m = Word * Word
  OBVIOUS
<1>1. m \in Nat /\ m > 0
  BY TwoM
<1> PICK k, r : k = x \div m /\ r = x % m
  OBVIOUS
<1>2. x = k * m + r /\ r \in Nat /\ r < m /\ k \in Int
  <2>1. x = (x \div m) * m + (x % m) /\ x % m \in Nat /\ x % m < m /\ x \div m \in Int
    BY ONLY <1>1, x \in Int, DivModIs
  <2> QED
    BY <2>1
<1>3. x + z * m = (k + z) * m + r
  <2>1. (k * m + r) + z * m = (k + z) * m + r
    BY ONLY <1>1, <1>2, z \in Int
  <2> QED
    BY <1>2, <2>1
<1>4. k + z \in Int
  BY <1>2
<1>5. ((k + z) * m + r) % m = r
  BY ONLY <1>1, <1>2, <1>4, DivModUnique
<1>6. (x + z * m) % m = x % m
  BY <1>3, <1>5
<1> QED
  BY <1>6 DEF Wrap64

LEMMA WrapIs ==
  ASSUME NEW x \in Int
  PROVE  \E z \in Int : Wrap64(x) = x + z * (Word * Word)
<1> PICK m : m = Word * Word
  OBVIOUS
<1>1. m \in Nat /\ m > 0
  BY TwoM
<1> PICK k, r : k = x \div m /\ r = x % m
  OBVIOUS
<1>2. x = k * m + r /\ r \in Nat /\ k \in Int
  <2>1. x = (x \div m) * m + (x % m) /\ x % m \in Nat /\ x \div m \in Int
    BY ONLY <1>1, x \in Int, DivModIs
  <2> QED
    BY <2>1
<1>3. r = x + (-k) * m /\ -k \in Int
  <2>1. r = (k * m + r) + (-k) * m
    BY ONLY <1>1, <1>2
  <2> QED
    BY <1>2, <2>1
<1>4. Wrap64(x) = x + (-k) * m
  BY <1>3 DEF Wrap64
<1> QED
  BY <1>3, <1>4

LEMMA WrapSmall ==
  ASSUME NEW x \in Nat, x < Word * Word
  PROVE  Wrap64(x) = x
<1> PICK m : m = Word * Word
  OBVIOUS
<1>1. m \in Nat
  BY TwoM
<1>2. x % m = x
  BY ONLY <1>1, x \in Nat, x < Word * Word, m = Word * Word, SmallMod
<1> QED
  BY <1>2 DEF Wrap64

LEMMA MagnitudeIs ==
  ASSUME NEW x \in Dwords
  PROVE  /\ Magnitude(x) = AbsValue(Signed(x)) /\ Magnitude(x) \in Dwords
         /\ Signed(x) = (IF Negative(x) THEN -Magnitude(x) ELSE Magnitude(x))
         /\ (\E k \in Int : x = Signed(x) + k * (Word * Word))
         /\ (x # 0 => Magnitude(x) # 0)
<1>1. PICK M : M = Power[2 * W - 1] /\ M \in Nat /\ M > 0 /\ Word * Word = 2 * M
  BY TwoM
<1>2. x \in Nat /\ x < 2 * M
  BY <1>1, HighLow
<1>3. \A y \in Nat : y < 2 * M => y \in Dwords
  BY <1>1 DEF Dwords
<1>4. CASE Negative(x)
  <2>1. M <= x
    BY <1>1, <1>2, <1>4 DEF Negative
  <2>2. Signed(x) = x - 2 * M
    BY <1>1, <1>4 DEF Signed
  <2> PICK y : y = 2 * M - x
    OBVIOUS
  <2>3. y \in Nat /\ y < 2 * M /\ y # 0 /\ y <= M
    BY <1>1, <1>2, <2>1
  <2>4. Wrap64(-x) = y
    <3>1. y = (-x) + 1 * (2 * M) /\ -x \in Int /\ 1 \in Int
      BY <1>1, <1>2
    <3>2. Wrap64((-x) + 1 * (Word * Word)) = Wrap64(-x)
      BY ONLY <3>1, WrapAdds
    <3>3. Wrap64(y) = y
      BY <1>1, <2>3, WrapSmall
    <3> QED
      BY <1>1, <3>1, <3>2, <3>3
  <2>5. Magnitude(x) = y
    BY <1>4, <2>4 DEF Magnitude
  <2>6. AbsValue(Signed(x)) = y
    <3>1. x - 2 * M \in Int /\ x - 2 * M < 0 /\ -(x - 2 * M) = y
      BY <1>1, <1>2
    <3> QED
      BY <2>2, <3>1 DEF AbsValue
  <2>7. x = (x - 2 * M) + 1 * (2 * M) /\ 1 \in Int /\ x - 2 * M = -y
    BY <1>1, <1>2
  <2>8. y \in Dwords
    BY <1>3, <2>3
  <2>9. \E k \in Int : x = Signed(x) + k * (Word * Word)
    BY <1>1, <2>2, <2>7
  <2> QED
    BY <1>4, <2>2, <2>3, <2>5, <2>6, <2>7, <2>8, <2>9
<1>5. CASE ~Negative(x)
  <2>1. Signed(x) = x /\ Magnitude(x) = x
    BY <1>5 DEF Signed, Magnitude
  <2>2. AbsValue(x) = x
    BY <1>2 DEF AbsValue
  <2>3. \E k \in Int : x = Signed(x) + k * (Word * Word)
    <3>1. x = x + 0 * (Word * Word) /\ 0 \in Int
      BY <1>1, <1>2
    <3> QED
      BY <2>1, <3>1
  <2> QED
    BY <1>5, <2>1, <2>2, <2>3
<1> QED
  BY <1>4, <1>5

LEMMA SignIdentity ==
  ASSUME NEW q \in Int, NEW e \in Int, NEW r \in Int
  PROVE  -(q * e + r) = q * (-e) + (-r) /\ -(q * e + r) = (-q) * e + (-r) /\ q * e + r = (-q) * (-e) + r
OBVIOUS

LEMMA RestIdentity ==
  ASSUME NEW Q \in Int, NEW e \in Int, NEW r \in Int, NEW k \in Int, NEW j \in Int, NEW z \in Int, NEW m \in Int
  PROVE  ((Q * e + r) + k * m) - (Q + z * m) * (e + j * m) = r + (k - Q * j - z * e - z * j * m) * m
OBVIOUS

LEMMA SignedDivision ==
  ASSUME NEW a \in Dwords, NEW b \in Dwords, b # 0, NEW q, NEW r,
         q = AbsValue(Signed(a)) \div AbsValue(Signed(b)),
         r = AbsValue(Signed(a)) % AbsValue(Signed(b))
  PROVE  /\ DivMod(a, b).q = Wrap64(IF Negative(a) # Negative(b) THEN -q ELSE q)
         /\ DivMod(a, b).r = Wrap64(IF Negative(a) THEN -r ELSE r)
         /\ DivMod(a, b).r = Mod(a, b)
<1> PICK A, B, v, m : /\ A = Magnitude(a) /\ B = Magnitude(b) /\ v = UDivMod(A, B) /\ m = Word * Word
  OBVIOUS
<1>1. /\ A = AbsValue(Signed(a)) /\ A \in Dwords /\ B = AbsValue(Signed(b)) /\ B \in Dwords /\ B # 0
      /\ Signed(a) = (IF Negative(a) THEN -A ELSE A) /\ Signed(b) = (IF Negative(b) THEN -B ELSE B)
  BY MagnitudeIs
<1>2. A \in Nat /\ A < m /\ B \in Nat /\ B < m /\ m \in Nat /\ B > 0
  <2>1. A \in Nat /\ A < m /\ B \in Nat /\ B < m
    BY <1>1, HighLow
  <2>2. m \in Nat
    BY TwoM
  <2> QED
    BY <1>1, <2>1, <2>2
<1>3. v.q \in Nat /\ v.r \in Nat /\ v.r < B /\ A = v.q * B + v.r
  BY <1>1, UDivModIs DEF Divides
<1>4. q = v.q /\ r = v.r
  <2>1. v.q \in Int
    BY <1>3
  <2>2. (v.q * B + v.r) \div B = v.q /\ (v.q * B + v.r) % B = v.r
    BY ONLY <1>2, <1>3, <2>1, DivModUnique
  <2> QED
    BY <1>1, <1>3, <2>2
<1>5. q \in Nat /\ r \in Nat /\ r < m /\ A = q * B + r
  BY <1>2, <1>3, <1>4
<1>6. q < m
  <2> PICK x, y : x = q * B /\ y = q * (B - 1)
    OBVIOUS
  <2>1. B - 1 \in Nat
    BY <1>2
  <2>2. y \in Nat
    BY ONLY <1>5, <2>1, y = q * (B - 1)
  <2>3. x = y + q
    BY ONLY <1>2, <1>5, x = q * B /\ y = q * (B - 1)
  <2> QED
    BY <1>2, <1>5, <2>2, <2>3
<1> PICK Q, R : Q = (IF Negative(a) # Negative(b) THEN -q ELSE q) /\ R = (IF Negative(a) THEN -r ELSE r)
  OBVIOUS
<1>7. Q \in Int /\ R \in Int
  BY <1>5
<1>8. Div(a, b) = Wrap64(Q)
  <2>1. Wrap64(q) = q
    BY <1>5, <1>6, WrapSmall
  <2> QED
    BY <1>4, <2>1 DEF Div, WithSign
<1>9. Mod(a, b) = Wrap64(R)
  <2>1. Wrap64(r) = r
    BY <1>5, WrapSmall
  <2> QED
    BY <1>4, <2>1 DEF Mod, WithSign
<1> PICK sa, sb : sa = Signed(a) /\ sb = Signed(b)
  OBVIOUS
<1>10. sa \in Int /\ sb \in Int /\ sa = Q * sb + R
  <2>1. /\ -(q * B + r) = q * (-B) + (-r) /\ -(q * B + r) = (-q) * B + (-r)
        /\ q * B + r = (-q) * (-B) + r
    <3>1. q \in Int /\ B \in Int /\ r \in Int
      BY <1>2, <1>5
    <3> QED
      BY ONLY <3>1, SignIdentity
  <2>2. CASE Negative(a) /\ Negative(b)
    <3>1. sa = -A /\ sb = -B /\ Q = q /\ R = -r
      BY <1>1, <2>2
    <3> QED
      BY <1>2, <1>5, <2>1, <3>1
  <2>3. CASE Negative(a) /\ ~Negative(b)
    <3>1. sa = -A /\ sb = B /\ Q = -q /\ R = -r
      BY <1>1, <2>3
    <3> QED
      BY <1>2, <1>5, <2>1, <3>1
  <2>4. CASE ~Negative(a) /\ Negative(b)
    <3>1. sa = A /\ sb = -B /\ Q = -q /\ R = r
      BY <1>1, <2>4
    <3> QED
      BY <1>2, <1>5, <2>1, <3>1
  <2>5. CASE ~Negative(a) /\ ~Negative(b)
    <3>0. Negative(a) = FALSE /\ Negative(b) = FALSE
      BY <2>5 DEF Negative
    <3>1. sa = A /\ sb = B /\ Q = q /\ R = r
      BY <1>1, <2>5, <3>0
    <3> QED
      BY <1>2, <1>5, <3>1
  <2> QED
    BY <2>2, <2>3, <2>4, <2>5
<1>11. PICK k \in Int : a = sa + k * m
  BY MagnitudeIs
<1>12. PICK j \in Int : b = sb + j * m
  BY MagnitudeIs
<1>13. PICK z \in Int : Wrap64(Q) = Q + z * m
  BY <1>7, WrapIs
<1> PICK D, y : D = Wrap64(Q) /\ y = k - Q * j - z * sb - z * j * m
  OBVIOUS
<1>14. a - D * b = R + y * m
  <2>1. ((Q * sb + R) + k * m) - (Q + z * m) * (sb + j * m) = R + (k - Q * j - z * sb - z * j * m) * m
    <3>1. m \in Int
      BY <1>2
    <3> QED
      BY ONLY <1>7, <1>10, <3>1, k \in Int, j \in Int, z \in Int, RestIdentity
  <2> QED
    BY <1>10, <1>11, <1>12, <1>13, <2>1
<1>15. y \in Int
  <2>1. Q * j \in Int /\ z * sb \in Int /\ z * j \in Int
    BY ONLY <1>7, <1>10, k \in Int, j \in Int, z \in Int
  <2>2. z * j * m \in Int
    BY ONLY <1>2, <2>1
  <2> QED
    BY <2>1, <2>2
<1>16. Wrap64(a - D * b) = Wrap64(R)
  <2>1. Wrap64(R + y * (Word * Word)) = Wrap64(R)
    BY ONLY <1>7, <1>15, WrapAdds
  <2>2. R + y * (Word * Word) = a - D * b
    BY <1>14
  <2> QED
    BY <2>1, <2>2
<1>17. DivMod(a, b).q = D /\ DivMod(a, b).r = Wrap64(a - D * b)
  BY <1>8 DEF DivMod, Result
<1> QED
  BY <1>9, <1>16, <1>17

(* The division and the bit counts are right for every pair of operands.   *)
LEMMA Division ==
  ASSUME NEW a \in Dwords, NEW b \in Dwords
  PROVE  DivisionRight(a, b)
<1> SUFFICES ASSUME b # 0 PROVE DivisionRight(a, b)
  BY DEF DivisionRight
<1> PICK q, r, u : /\ q = AbsValue(Signed(a)) \div AbsValue(Signed(b))
                   /\ r = AbsValue(Signed(a)) % AbsValue(Signed(b)) /\ u = UDivMod(a, b)
  OBVIOUS
<1>1. /\ DivMod(a, b).q = Wrap64(IF Negative(a) # Negative(b) THEN -q ELSE q)
      /\ DivMod(a, b).r = Wrap64(IF Negative(a) THEN -r ELSE r)
      /\ DivMod(a, b).r = Mod(a, b)
  BY SignedDivision
<1>2. a = u.q * b + u.r /\ u.r \in 0 .. b - 1
  <2>1. a = u.q * b + u.r /\ u.r \in Nat /\ u.r < b
    BY UDivModIs DEF Divides
  <2>2. b \in Nat
    BY HighLow
  <2>3. u.r \in 0 .. b - 1
    BY <2>1, <2>2
  <2> QED
    BY <2>1, <2>3
<1>3. /\ Shr(b, 2 * W - 1 - Clz2(b)) = 1 /\ Clz(2 * W, b) = Clz2(b) /\ Ctz(2 * W, b) = Ctz2(b)
      /\ b % Power[Ctz2(b)] = 0 /\ Shr(b, Ctz2(b)) % 2 = 1
  BY BitCounts
<1> QED
  BY ONLY <1>1, <1>2, <1>3, q = AbsValue(Signed(a)) \div AbsValue(Signed(b)),
          r = AbsValue(Signed(a)) % AbsValue(Signed(b)), u = UDivMod(a, b)
  DEF DivisionRight

(* Division of two-word integers, unsigned and signed, gives the quotient  *)
(* and the remainder of C for every pair of operands, in every round of    *)
(* its loop and every special case, and the bit counts are right           *)
(* (int64.c), for each width of the words.                                 *)
THEOREM Int64IsRight == Int64Spec => []Int64Right
<1> DEFINE Typed == dividend = -1 \/ dividend \in Dwords
<1>1. Int64Init => Typed
  BY DEF Int64Init
<1>2. Typed /\ [Int64Next]_dividend => Typed'
  BY DEF Int64Next, Dwords, Word
<1>3. Typed => Int64Right
  BY Division DEF Int64Right
<1> QED
  BY <1>1, <1>2, <1>3, PTL DEF Int64Spec
=============================================================================
