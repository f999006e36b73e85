-------------------------------- MODULE Slab --------------------------------
(* The slab caches of kalloc and kfree: kernel/src/slab.c, for one block size
   (the lists of different sizes share nothing but the page allocator).

   Interrupts are off for the whole of kalloc and kfree, so a CPU is inside at
   most one call.  A CPU allocates from its own list; any CPU frees any block.
   Data under a slab's lock is accessed in one step with the release of the
   lock; every unlocked read of a list is a step of its own.                 *)
EXTENDS Naturals, FiniteSets, Sequences

CONSTANTS
  CPUs,
  Slabs,      \* the 4K pages that page_alloc has for slabs of this size
  InitSlab,   \* CPU -> the slab that slab_system_init made for it
  block_num,  \* blocks of a slab
  Null

Blocks == Slabs \X (1..block_num)
InitSlabs == {InitSlab[c] : c \in CPUs}

ASSUME SlabAssumption ==
  /\ IsFiniteSet(Slabs)
  /\ Null \notin Slabs \cup CPUs \cup Blocks
  /\ block_num \in Nat \ {0}
  /\ InitSlab \in [CPUs -> Slabs]
  /\ \A c, d \in CPUs : InitSlab[c] = InitSlab[d] => c = d

VARIABLES
  slabs_of_cpu,                              \* CPU -> head of its list
  lock,                                      \* slab -> CPU that holds it
  cpu_id, free_list, free_block_num, append, \* struct SLAB
  pages,     \* pages that page_alloc can still hand out
  live,      \* blocks that callers have
  recovered, \* history: slabs given to page_free
  pc,        \* CPU -> where it is
  slab,      \* CPU -> local _slab
  prev,      \* CPU -> local prev of recover_slab
  block      \* CPU -> the block that slab_free is giving back

slabVars == <<cpu_id, free_list, free_block_num, append>>
vars == <<slabs_of_cpu, lock, slabVars, pages, live, recovered, pc, slab, prev, block>>

PCs == {"out",
        "lock", "scan", "handover", "advance", "request",     \* slab_alloc
        "free", "push", "recover", "walk", "trylock", "splice"} \* slab_free

Goto(c, l) == pc' = [pc EXCEPT ![c] = l]

(* The end of a call, at which it has no locals left. *)
Return(c) ==
  /\ Goto(c, "out")
  /\ slab' = [slab EXCEPT ![c] = Null]
  /\ prev' = [prev EXCEPT ![c] = Null]
  /\ block' = [block EXCEPT ![c] = Null]

AllFree == [k \in 1..block_num |-> k]

Init ==
  /\ slabs_of_cpu = InitSlab
  /\ lock = [s \in Slabs |-> Null]
  /\ cpu_id = [s \in Slabs |-> IF s \in InitSlabs
                               THEN CHOOSE c \in CPUs : InitSlab[c] = s ELSE Null]
  /\ free_list = [s \in Slabs |-> AllFree]
  /\ free_block_num = [s \in Slabs |-> block_num]
  /\ append = [s \in Slabs |-> Null]
  /\ pages = Slabs \ InitSlabs
  /\ live = {}
  /\ recovered = {}
  /\ pc = [c \in CPUs |-> "out"]
  /\ slab = [c \in CPUs |-> Null]
  /\ prev = [c \in CPUs |-> Null]
  /\ block = [c \in CPUs |-> Null]

-----------------------------------------------------------------------------
(* slab_alloc *)

AllocCall(c) ==
  /\ pc[c] = "out"
  /\ slab' = [slab EXCEPT ![c] = slabs_of_cpu[c]]
  /\ Goto(c, "lock")
  /\ UNCHANGED <<slabs_of_cpu, lock, slabVars, pages, live, recovered, prev, block>>

(* The _lock of the head or of a new slab, and that of slab_free. *)
Lock(c) ==
  /\ pc[c] \in {"lock", "free"} /\ lock[slab[c]] = Null
  /\ lock' = [lock EXCEPT ![slab[c]] = c]
  /\ Goto(c, IF pc[c] = "lock" THEN "scan" ELSE "push")
  /\ UNCHANGED <<slabs_of_cpu, slabVars, pages, live, recovered, slab, prev, block>>

MutRest(s) == free_list[s]
Rest(s) == Tail(free_list[s])

(* alloc_block_from_slab, and _unlock. *)
TakeBlock(c) ==
  LET s == slab[c] IN
  /\ pc[c] = "scan" /\ free_block_num[s] > 0
  /\ live' = live \cup {<<s, Head(free_list[s])>>}
  /\ free_list' = [free_list EXCEPT ![s] = Rest(s)]
  /\ free_block_num' = [free_block_num EXCEPT ![s] = @ - 1]
  /\ lock' = [lock EXCEPT ![s] = Null]
  /\ Return(c)
  /\ UNCHANGED <<slabs_of_cpu, cpu_id, append, pages, recovered>>

(* The next slab is locked before this one is unlocked ... *)
LockNext(c) ==
  LET s == slab[c] IN
  /\ pc[c] = "scan" /\ free_block_num[s] = 0
  /\ append[s] # Null /\ lock[append[s]] = Null
  /\ lock' = [lock EXCEPT ![append[s]] = c]
  /\ Goto(c, "handover")
  /\ UNCHANGED <<slabs_of_cpu, slabVars, pages, live, recovered, slab, prev, block>>

UnlockThis(c) ==
  /\ pc[c] = "handover"
  /\ lock' = [lock EXCEPT ![slab[c]] = Null]
  /\ Goto(c, "advance")
  /\ UNCHANGED <<slabs_of_cpu, slabVars, pages, live, recovered, slab, prev, block>>

(* ... but append is read a second time after that. *)
Advance(c) ==
  /\ pc[c] = "advance"
  /\ slab' = [slab EXCEPT ![c] = append[slab[c]]]
  /\ Goto(c, "scan")
  /\ UNCHANGED <<slabs_of_cpu, lock, slabVars, pages, live, recovered, prev, block>>

EndOfList(c) ==
  LET s == slab[c] IN
  /\ pc[c] = "scan" /\ free_block_num[s] = 0 /\ append[s] = Null
  /\ lock' = [lock EXCEPT ![s] = Null]
  /\ slab' = [slab EXCEPT ![c] = Null]
  /\ Goto(c, "request")
  /\ UNCHANGED <<slabs_of_cpu, slabVars, pages, live, recovered, prev, block>>

(* page_alloc is deterministic, and which of its pages comes first is all one. *)
AnyPage == CHOOSE s \in pages : TRUE

(* slab_init: format a page and push it on this CPU's list, without a lock. *)
NewSlab(c) ==
  /\ pc[c] = "request" /\ pages # {}
  /\ LET s == AnyPage IN
       /\ pages' = pages \ {s}
       /\ recovered' = recovered \ {s}
       /\ lock' = [lock EXCEPT ![s] = Null]
       /\ cpu_id' = [cpu_id EXCEPT ![s] = c]
       /\ free_list' = [free_list EXCEPT ![s] = AllFree]
       /\ free_block_num' = [free_block_num EXCEPT ![s] = block_num]
       /\ append' = [append EXCEPT ![s] = slabs_of_cpu[c]]
       /\ slabs_of_cpu' = [slabs_of_cpu EXCEPT ![c] = s]
       /\ slab' = [slab EXCEPT ![c] = s]
  /\ Goto(c, "lock")
  /\ UNCHANGED <<live, prev, block>>

(* page_alloc has nothing left: kalloc returns NULL. *)
NoMemory(c) ==
  /\ pc[c] = "request" /\ pages = {}
  /\ Return(c)
  /\ UNCHANGED <<slabs_of_cpu, lock, slabVars, pages, live, recovered>>

-----------------------------------------------------------------------------
(* slab_free, of a block that the caller has *)

FreeCall(c, b) ==
  /\ pc[c] = "out"
  /\ live' = live \ {b}
  /\ block' = [block EXCEPT ![c] = b]
  /\ slab' = [slab EXCEPT ![c] = b[1]]
  /\ Goto(c, "free")
  /\ UNCHANGED <<slabs_of_cpu, lock, slabVars, pages, recovered, prev>>

MutCount(s) == free_block_num[s] + 2
CountAfterFree(s) == free_block_num[s] + 1

MutIdle(s) == CountAfterFree(s) > 0
Idle(s) == CountAfterFree(s) = block_num

(* Push the block under the lock, and _unlock unless the slab has become idle. *)
PushBlock(c) ==
  LET s == slab[c] IN
  /\ pc[c] = "push"
  /\ free_list' = [free_list EXCEPT ![s] = <<block[c][2]>> \o @]
  /\ free_block_num' = [free_block_num EXCEPT ![s] = CountAfterFree(s)]
  /\ IF Idle(s)
     THEN /\ Goto(c, "recover")
          /\ block' = [block EXCEPT ![c] = Null]
          /\ UNCHANGED <<lock, slab, prev>>
     ELSE Return(c) /\ lock' = [lock EXCEPT ![s] = Null]
  /\ UNCHANGED <<slabs_of_cpu, cpu_id, append, pages, live, recovered>>

(* recover_slab: find the slab's predecessor, reading the list unlocked ... *)
ReadHead(c) ==
  LET head == slabs_of_cpu[cpu_id[slab[c]]] IN
  /\ pc[c] = "recover" /\ head # slab[c]
  /\ prev' = [prev EXCEPT ![c] = head]
  /\ Goto(c, "walk")
  /\ UNCHANGED <<slabs_of_cpu, lock, slabVars, pages, live, recovered, slab, block>>

Walk(c) ==
  LET to_recover == append[prev[c]] IN
  /\ pc[c] = "walk" /\ to_recover # Null
  /\ IF to_recover = slab[c]
     THEN Goto(c, "trylock") /\ UNCHANGED prev
     ELSE prev' = [prev EXCEPT ![c] = to_recover] /\ UNCHANGED pc
  /\ UNCHANGED <<slabs_of_cpu, lock, slabVars, pages, live, recovered, slab, block>>

(* ... lock it if that takes no waiting ... *)
TryLock(c) ==
  /\ pc[c] = "trylock" /\ lock[prev[c]] = Null
  /\ lock' = [lock EXCEPT ![prev[c]] = c]
  /\ Goto(c, "splice")
  /\ UNCHANGED <<slabs_of_cpu, slabVars, pages, live, recovered, slab, prev, block>>

MutLockAfterGiveUp(c) == c
LockAfterGiveUp(c) == Null

(* ... else, or when the slab is the head or nowhere, keep the slab. *)
GiveUp(c) ==
  LET s == slab[c] IN
  /\ \/ pc[c] = "recover" /\ slabs_of_cpu[cpu_id[s]] = s
     \/ pc[c] = "walk" /\ append[prev[c]] = Null
     \/ pc[c] = "trylock" /\ lock[prev[c]] # Null
  /\ lock' = [lock EXCEPT ![s] = LockAfterGiveUp(c)]
  /\ Return(c)
  /\ UNCHANGED <<slabs_of_cpu, slabVars, pages, live, recovered>>

MutSuccessor(s) == Null
SuccessorOf(s) == append[s]

(* What page_free adds to the pages: nothing, its descent returns at the root
   (page.c:211); and a variant that does give the page back. *)
MutReturned(s) == {s}
Returned(s) == {}

(* The recovered slab stays locked for ever. *)
Splice(c) ==
  LET s == slab[c] IN
  /\ pc[c] = "splice"
  /\ append' = [append EXCEPT ![prev[c]] = SuccessorOf(s)]
  /\ recovered' = recovered \cup {s}
  /\ pages' = pages \cup Returned(s)
  /\ lock' = [lock EXCEPT ![prev[c]] = Null]
  /\ Return(c)
  /\ UNCHANGED <<slabs_of_cpu, cpu_id, free_list, free_block_num, live>>

-----------------------------------------------------------------------------
Step(c) ==
  \/ Lock(c) \/ TakeBlock(c) \/ LockNext(c) \/ UnlockThis(c) \/ Advance(c)
  \/ EndOfList(c) \/ NewSlab(c) \/ NoMemory(c)
  \/ PushBlock(c) \/ ReadHead(c) \/ Walk(c) \/ TryLock(c) \/ GiveUp(c) \/ Splice(c)

Next == \E c \in CPUs : \/ Step(c)
                        \/ AllocCall(c)
                        \/ \E b \in live : FreeCall(c, b)

Spec == Init /\ [][Next]_vars

(* Interrupts are off in a call, so a CPU executes it to its end. *)
LiveSpec == Spec /\ \A c \in CPUs : WF_vars(Step(c))

-----------------------------------------------------------------------------
TypeOK ==
  /\ slabs_of_cpu \in [CPUs -> Slabs]
  /\ lock \in [Slabs -> CPUs \cup {Null}]
  /\ cpu_id \in [Slabs -> CPUs \cup {Null}]
  /\ free_list \in [Slabs -> Seq(1..block_num)]
  /\ free_block_num \in [Slabs -> 0..block_num]
  /\ append \in [Slabs -> Slabs \cup {Null}]
  /\ pages \subseteq Slabs
  /\ live \subseteq Blocks
  /\ recovered \subseteq Slabs
  /\ pc \in [CPUs -> PCs]
  /\ slab \in [CPUs -> Slabs \cup {Null}]
  /\ prev \in [CPUs -> Slabs \cup {Null}]
  /\ block \in [CPUs -> Blocks \cup {Null}]

Used == live \cup {block[c] : c \in {d \in CPUs : block[d] # Null}}

(* Every block is either free, once, or in use: none is handed out twice or
   lost, and free_block_num counts the free list (slab.c:133-135, 153-155). *)
BlocksPartitioned ==
  \A s \in Slabs :
    LET free == {free_list[s][k] : k \in DOMAIN free_list[s]} IN
    /\ Len(free_list[s]) = free_block_num[s]
    /\ Cardinality(free) = free_block_num[s]
    /\ \A k \in 1..block_num : k \in free <=> <<s, k>> \notin Used

(* The first k slabs of the list of a CPU. *)
Chain(c) ==
  LET first[k \in 1..Cardinality(Slabs)] ==
        IF k = 1 THEN slabs_of_cpu[c]
        ELSE IF first[k - 1] = Null THEN Null ELSE append[first[k - 1]]
  IN  {first[k] : k \in DOMAIN first} \ {Null}

(* The list of a CPU is exactly the slabs made for it and not recovered, for
   every CPU that pushes, walks and recovers at the same time, unlocked reads
   included (slab.c:62-64, 176-191, 213). *)
ListsComplete ==
  \A c \in CPUs :
    Chain(c) = {s \in Slabs : cpu_id[s] = c /\ s \notin recovered}

(* Whoever works on a slab holds its lock: the slab that an allocator moves on
   to by the second, unlocked read of append is the one it has locked
   (slab.c:95-97), and the slab that recover_slab writes to still precedes the
   one it takes out (slab.c:201-213). *)
WorksUnderLock ==
  \A c \in CPUs :
    /\ pc[c] \in {"scan", "handover", "push", "recover", "walk", "trylock", "splice"}
         => lock[slab[c]] = c
    /\ pc[c] \in {"handover", "advance"} =>
         append[slab[c]] # Null /\ lock[append[slab[c]]] = c
    /\ pc[c] = "splice" => lock[prev[c]] = c /\ append[prev[c]] = slab[c]

(* A recovered slab has no block in use, and nobody waits for its lock, which
   recover_slab never releases (slab.c:157, 214-215). *)
RecoveredIsDead ==
  \A s \in recovered :
    /\ \A b \in Used : b[1] # s
    /\ \A c \in CPUs : pc[c] \in {"lock", "scan", "free", "push"} => slab[c] # s

(* When no new calls are made, those under way return: no lock is left behind
   and the CPUs do not wait for each other (slab.c:95-96, 178-215). *)
CallsReturn ==
  <>[][\A c \in CPUs : pc[c] = "out" => pc'[c] = "out"]_vars
    => \A c \in CPUs : []<>(pc[c] = "out")
=============================================================================
