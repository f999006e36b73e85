----------------------------- MODULE PageAlloc -----------------------------
(* The page allocator: kernel/src/page.c.

   Memory is cut into units of 16M.  A unit's pages are the nodes of a binary
   tree, numbered from 1 at the root; the children of n are 2n and 2n + 1.  A
   node holds the largest size that can still be allocated under it.  Nodes of
   a unit are accessed only under the unit's lock, which is taken and released
   within one step here: between two probes of page_alloc it is free.        *)
EXTENDS Integers, FiniteSets, FiniteSetsExt

CONSTANTS
  Callers,          \* CPUs in kalloc or kfree
  P_4K, P_16M,      \* binary logarithms of the smallest and the largest page
  real_page_num,    \* number of units
  begin_alloc_addr, \* address of the first unit
  Requests,         \* sizes in bytes that callers ask for
  Null

HAVE_BUBBLE == 1
FULL_USED == 0

(* power_of_two[k], and 1 << k where the code shifts *)
power_of_two[k \in 0..(P_16M + 1)] == IF k = 0 THEN 1 ELSE 2 * power_of_two[k - 1]

ASSUME PageAssumption ==
  /\ P_4K \in Nat /\ P_16M \in Nat /\ HAVE_BUBBLE < P_4K /\ P_4K <= P_16M
  /\ real_page_num \in Nat
  /\ begin_alloc_addr \in Nat /\ begin_alloc_addr % power_of_two[P_16M] = 0
  /\ Requests \subseteq Nat
  /\ Null \notin Nat

PAGE_SIZE == P_4K..P_16M
P_REFUSE == P_16M + 1
Units == 0..(real_page_num - 1)
Nodes == 1..(power_of_two[P_16M - P_4K + 1] - 1)

VARIABLES
  page,   \* unit -> node -> size, HAVE_BUBBLE or FULL_USED
  live,   \* pages that callers have: [addr, bytes]
  pc,     \* caller -> where it is
  bytes,  \* caller -> the size it asks for
  unit,   \* caller -> the unit it probes next
  ret     \* caller -> the address that page_alloc returns, or Null

vars == <<page, live, pc, bytes, unit, ret>>

-----------------------------------------------------------------------------
LevelsFor(size) == {p \in PAGE_SIZE : size <= power_of_two[p]}

trans_page_size(size) ==
  IF LevelsFor(size) = {} THEN P_REFUSE ELSE Min(LevelsFor(size))

DepthOf(n) == CHOOSE k \in 0..(P_16M - P_4K) : power_of_two[k] <= n /\ n < power_of_two[k + 1]
MutBaseSize(n) == P_16M - 1 - DepthOf(n)
BaseSize(n) == P_16M - DepthOf(n)   \* page_init: sizes count down from the root

left_branch(n) == 2 * n
right_branch(n) == 2 * n + 1

MutFirstOf(base) == power_of_two[P_16M - base + 1]
FirstOf(base) == power_of_two[P_16M - base]   \* power_of_two[P_16M - base_size]

convert_page_to_phsics(u, n, base) ==
  begin_alloc_addr + u * power_of_two[P_16M] + power_of_two[base] * (n - FirstOf(base))

Larger(v, w) == IF v > w THEN v ELSE w

(* page_init *)
Init ==
  /\ page = [u \in Units |-> [n \in Nodes |-> BaseSize(n)]]
  /\ live = {}
  /\ pc = [c \in Callers |-> "out"]
  /\ bytes = [c \in Callers |-> 0]
  /\ unit = [c \in Callers |-> 0]
  /\ ret = [c \in Callers |-> Null]

-----------------------------------------------------------------------------
(* page_alloc *)

AllocCall(c, size) ==
  /\ pc[c] = "out"
  /\ bytes' = [bytes EXCEPT ![c] = size]
  /\ unit' = [unit EXCEPT ![c] = 0]
  /\ pc' = [pc EXCEPT ![c] = IF trans_page_size(size) = P_REFUSE THEN "done" ELSE "probe"]
  /\ UNCHANGED <<page, live, ret>>

(* get_space_in_page: the nodes it descends through for size req, by depth ... *)
MutTurn(tree, n, req) == IF tree[left_branch(n)] > req THEN left_branch(n) ELSE right_branch(n)
Turn(tree, n, req) == IF tree[left_branch(n)] >= req THEN left_branch(n) ELSE right_branch(n)

Path(tree, req) ==
  LET path[k \in 0..(P_16M - req)] ==
        IF k = 0 THEN 1 ELSE Turn(tree, path[k - 1], req)
  IN  path

Target(tree, req) == Path(tree, req)[P_16M - req]
Sibling(n) == IF n % 2 = 0 THEN n + 1 ELSE n - 1

(* ... and what it leaves in them on its way back. *)
Bubble(v, req) == v = req

TreeAfter(tree, req) ==
  LET path == Path(tree, req)
      left[k \in 0..(P_16M - req)] ==
        IF k = P_16M - req THEN FULL_USED
        ELSE IF Bubble(tree[path[k]], req) THEN HAVE_BUBBLE
        ELSE Larger(left[k + 1], tree[Sibling(path[k + 1])])
  IN  [n \in Nodes |-> IF \E k \in DOMAIN path : path[k] = n THEN left[DepthOf(n)] ELSE tree[n]]

(* The first unit whose root promises enough is the one that has to serve. *)
Probe(c) ==
  LET req == trans_page_size(bytes[c])
      tree == page[unit[c]]
  IN
  /\ pc[c] = "probe" /\ unit[c] < real_page_num
  /\ IF tree[1] < req
     THEN unit' = [unit EXCEPT ![c] = @ + 1] /\ UNCHANGED <<page, ret, pc>>
     ELSE /\ IF tree[Target(tree, req)] = req
             THEN /\ page' = [page EXCEPT ![unit[c]] = TreeAfter(tree, req)]
                  /\ ret' = [ret EXCEPT ![c] =
                       convert_page_to_phsics(unit[c], Target(tree, req), req)]
             ELSE UNCHANGED <<page, ret>>
          /\ pc' = [pc EXCEPT ![c] = "done"]
          /\ UNCHANGED unit
  /\ UNCHANGED <<live, bytes>>

NoUnit(c) ==
  /\ pc[c] = "probe" /\ unit[c] = real_page_num
  /\ pc' = [pc EXCEPT ![c] = "done"]
  /\ UNCHANGED <<page, live, bytes, unit, ret>>

(* The caller has the page, or NULL. *)
AllocReturn(c) ==
  /\ pc[c] = "done"
  /\ live' = IF ret[c] = Null THEN live
             ELSE live \cup {[addr |-> ret[c], bytes |-> bytes[c]]}
  /\ ret' = [ret EXCEPT ![c] = Null]
  /\ bytes' = [bytes EXCEPT ![c] = 0]
  /\ unit' = [unit EXCEPT ![c] = 0]
  /\ pc' = [pc EXCEPT ![c] = "out"]
  /\ UNCHANGED page

-----------------------------------------------------------------------------
(* page_free *)

(* The test with which free_space_in_page turns away from a node. *)
Outside(ptr, addr, base) == addr + power_of_two[base] > ptr

Settled(tree, n, base) ==
  [tree EXCEPT ![n] =
     IF tree[left_branch(n)] = base - 1 /\ tree[right_branch(n)] = base - 1
     THEN base ELSE Larger(tree[left_branch(n)], tree[right_branch(n)])]

(* The unit's tree after free_space_in_page(ptr, page, 1, P_16M). *)
TreeFreed(u, ptr) ==
  LET freed[base \in (P_4K - 1)..P_16M] ==
        [n \in 1..(power_of_two[P_16M - base + 1] - 1) |->
           LET addr == convert_page_to_phsics(u, n, base) IN
           IF base < P_4K \/ Outside(ptr, addr, base) THEN page[u]
           ELSE IF addr = ptr /\ page[u][n] = FULL_USED THEN [page[u] EXCEPT ![n] = base]
           ELSE IF ptr < addr + power_of_two[base - 1]
                THEN Settled(freed[base - 1][left_branch(n)], n, base)
                ELSE Settled(freed[base - 1][right_branch(n)], n, base)]
  IN  freed[P_16M][1]

UnitOf(ptr) == (ptr - begin_alloc_addr) \div power_of_two[P_16M]

Free(c, b) ==
  LET u == UnitOf(b.addr) IN
  /\ pc[c] = "out"
  /\ live' = live \ {b}
  /\ page' = IF u < real_page_num
             THEN [page EXCEPT ![u] = TreeFreed(u, b.addr)] ELSE page
  /\ UNCHANGED <<pc, bytes, unit, ret>>

Next ==
  \E c \in Callers :
    \/ \E size \in Requests : AllocCall(c, size)
    \/ Probe(c) \/ NoUnit(c) \/ AllocReturn(c)
    \/ \E b \in live : Free(c, b)

Spec == Init /\ [][Next]_vars

-----------------------------------------------------------------------------
TypeOK ==
  /\ page \in [Units -> [Nodes -> PAGE_SIZE \cup {HAVE_BUBBLE, FULL_USED}]]
  /\ \A b \in live : b.addr \in Nat /\ b.bytes \in Requests
  /\ pc \in [Callers -> {"out", "probe", "done"}]
  /\ bytes \in [Callers -> Requests \cup {0}]
  /\ unit \in [Callers -> 0..real_page_num]
  /\ ret \in [Callers -> Nat \cup {Null}]

Returned(c) == IF ret[c] = Null THEN {} ELSE {[addr |-> ret[c], bytes |-> bytes[c]]}

Disjoint(a, b) == a.addr + a.bytes <= b.addr \/ b.addr + b.bytes <= a.addr

(* Pages in use and pages about to be returned never overlap, and lie inside
   the units: the sizes in the tree, the bubbles and the address arithmetic
   agree over every sequence of requests (page.c:137-158, 171-182). *)
PagesDisjoint ==
  /\ \A a, b \in live : a # b => Disjoint(a, b)
  /\ \A c \in Callers : \A a \in Returned(c) :
       /\ a.addr >= begin_alloc_addr
       /\ a.addr + a.bytes <= begin_alloc_addr + real_page_num * power_of_two[P_16M]
       /\ \A b \in live : Disjoint(a, b)
       /\ \A d \in Callers \ {c} : \A b \in Returned(d) : Disjoint(a, b)

(* A root keeps its promise: when it says that a size is available, the descent
   for that size ends in a free page of exactly that size, so page_alloc, which
   looks at no further unit then, does not fail (page.c:78-80, 125, 139-144). *)
RootsTruthful ==
  \A u \in Units, req \in PAGE_SIZE :
    page[u][1] >= req => page[u][Target(page[u], req)] = req

(* When every page has been freed, all memory is available again: report.md:117
   has idle slabs "recovered, given back to the physical page system", and
   page.c:235-237 turns two free halves into one free page. *)
FreedMeansFree ==
  live = {} /\ (\A c \in Callers : pc[c] = "out") =>
    \A u \in Units : page[u][1] = P_16M
=============================================================================
