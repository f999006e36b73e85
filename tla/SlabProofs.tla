----------------------------- MODULE SlabProofs -----------------------------
(* The slab caches are sound for any CPUs, slabs and size of a slab.       *)
(*                                                                         *)
(* Lists are read without a lock and slabs are taken out of them by other  *)
(* CPUs.  What makes this safe: an entry append[p] = s is changed only by  *)
(* the CPU that holds the locks of p and s (CallInv); a slab once made is  *)
(* never the first of a list again after it had a predecessor, so that it  *)
(* is no head that is taken out (ListInv); a slab being taken out stays    *)
(* idle because it stays locked (CallInv, RecoveredInv).                   *)
EXTENDS Slab, FiniteSetTheorems, SequenceTheorems, TLAPS

Holding == {"scan", "handover", "push", "recover", "walk", "trylock", "splice"}
Recovering == {"recover", "walk", "trylock", "splice"}

CallInv(c) ==
  /\ pc[c] \in {"lock", "free", "advance"} \cup Holding => slab[c] \in Slabs \ pages
  /\ pc[c] = "lock" => slab[c] = slabs_of_cpu[c]
  /\ pc[c] \in Holding => lock[slab[c]] = c /\ slab[c] \notin recovered
  /\ pc[c] \in {"handover", "advance"} =>
       /\ append[slab[c]] \in Slabs \ (recovered \cup {slab[c]})
       /\ lock[append[slab[c]]] = c
  /\ pc[c] \in Recovering => free_block_num[slab[c]] = block_num
  /\ pc[c] \in {"walk", "trylock", "splice"} => prev[c] \in Slabs \ pages
  /\ pc[c] \in {"trylock", "splice"} => append[prev[c]] = slab[c]
  /\ pc[c] = "splice" => lock[prev[c]] = c /\ prev[c] \notin recovered \cup {slab[c]}
  /\ block[c] # Null <=> pc[c] \in {"free", "push"}
  /\ pc[c] \in {"free", "push"} => block[c] \in Blocks /\ block[c][1] = slab[c]

ListInv ==
  /\ \A s \in Slabs \ pages : cpu_id[s] \in CPUs
  /\ \A s \in Slabs : append[s] \notin pages
  /\ \A c \in CPUs : /\ slabs_of_cpu[c] \notin pages \cup recovered
                     /\ \A s \in Slabs : append[s] # slabs_of_cpu[c]
                     /\ \A d \in CPUs : slabs_of_cpu[d] = slabs_of_cpu[c] => d = c

RecoveredInv ==
  \A s \in recovered : lock[s] # Null /\ free_block_num[s] = block_num

Distinct(q) == \A i, j \in 1 .. Len(q) : q[i] = q[j] => i = j
Free(s) == Range(free_list[s])

FreeInv(s) ==
  /\ Len(free_list[s]) = free_block_num[s]
  /\ Distinct(free_list[s])
  /\ Cardinality(Free(s)) = free_block_num[s]
  /\ \A k \in 1 .. block_num : k \in Free(s) <=> <<s, k>> \notin Used

UsedInv ==
  /\ \A b \in Used : b[1] \notin pages
  /\ \A c \in CPUs : block[c] \notin live
  /\ \A c, d \in CPUs : block[c] # Null /\ block[c] = block[d] => c = d

IInv ==
  /\ TypeOK
  /\ \A c \in CPUs : CallInv(c)
  /\ ListInv /\ RecoveredInv
  /\ \A s \in Slabs : FreeInv(s)
  /\ UsedInv

-----------------------------------------------------------------------------
(* What the blocks are is not touched. *)
LEMMA BlocksKept ==
  ASSUME UNCHANGED <<free_list, free_block_num, live, block, pages>>,
         \A s \in Slabs : FreeInv(s), UsedInv
  PROVE  (\A s \in Slabs : FreeInv(s)') /\ UsedInv'
<1>1. Used' = Used
  BY DEF Used
<1>2. \A s \in Slabs : FreeInv(s)'
  <2> TAKE s \in Slabs
  <2>1. Free(s)' = Free(s)
    BY DEF Free
  <2> QED
    BY <1>1, <2>1 DEF FreeInv
<1> QED
  BY <1>1, <1>2 DEF UsedInv

(* Steps along a list: they move the locks and the locals of one call. *)
LEMMA ListStep ==
  ASSUME IInv, UNCHANGED <<slabs_of_cpu, slabVars, pages, live, recovered, block>>,
         TypeOK', \A c \in CPUs : CallInv(c)',
         \A s \in recovered : lock'[s] = lock[s]
  PROVE  IInv'
<1>1. (\A s \in Slabs : FreeInv(s)') /\ UsedInv'
  BY BlocksKept DEF IInv, slabVars
<1>2. ListInv' /\ RecoveredInv'
  BY DEF IInv, ListInv, RecoveredInv, slabVars
<1> QED
  BY <1>1, <1>2 DEF IInv

(* The call of another CPU does not see it. *)
LEMMA OtherCall ==
  ASSUME IInv, NEW d \in CPUs, UNCHANGED <<slabs_of_cpu, slabVars, pages, recovered, block>>,
         pc'[d] = pc[d], slab'[d] = slab[d], prev'[d] = prev[d],
         \A s \in Slabs : lock[s] = d => lock'[s] = d
  PROVE  CallInv(d)'
<1>1. UNCHANGED <<append, free_block_num>>
  BY DEF slabVars
<1>2. /\ slab[d] \in Slabs /\ lock[slab[d]] = d => lock'[slab[d]] = d
      /\ prev[d] \in Slabs /\ lock[prev[d]] = d => lock'[prev[d]] = d
      /\ append[slab[d]] \in Slabs /\ lock[append[slab[d]]] = d => lock'[append[slab[d]]] = d
  OBVIOUS
<1>3. CallInv(d)
  BY DEF IInv
<1> QED
  BY <1>1, <1>2, <1>3 DEF CallInv, Holding, Recovering

LEMMA AllocCallInv ==
  ASSUME IInv, NEW c \in CPUs, AllocCall(c)
  PROVE  IInv'
<1> USE SlabAssumption DEF AllocCall, Goto, slabVars
<1>1. UNCHANGED <<slabs_of_cpu, slabVars, pages, live, recovered, block>>
  BY DEF IInv, TypeOK, CallInv
<1>2. TypeOK'
  BY DEF IInv, TypeOK, PCs, CallInv, Holding, ListInv
<1>3. CallInv(c)'
  <2>1. CallInv(c) /\ block[c] = Null /\ UNCHANGED <<append, free_block_num, pages, recovered, block>>
    BY DEF IInv, CallInv
  <2>2. pc'[c] = "lock" /\ slab'[c] = slabs_of_cpu[c] /\ slabs_of_cpu' = slabs_of_cpu
    BY DEF IInv, TypeOK
  <2>3. slabs_of_cpu[c] \in Slabs \ pages
    BY DEF IInv, TypeOK, ListInv
  <2> QED
    BY <2>1, <2>2, <2>3 DEF CallInv, Holding, Recovering
<1>5. \A d \in CPUs \ {c} : pc'[d] = pc[d] /\ slab'[d] = slab[d] /\ prev'[d] = prev[d]
  BY DEF IInv, TypeOK
<1>6. \A d \in CPUs : CallInv(d)'
  BY <1>1, <1>3, <1>5, OtherCall
<1>4. \A s \in recovered : lock'[s] = lock[s]
  BY DEF IInv, TypeOK, CallInv, Holding, RecoveredInv
<1> QED
  BY <1>1, <1>2, <1>6, <1>4, ListStep

LEMMA LockInv ==
  ASSUME IInv, NEW c \in CPUs, Lock(c)
  PROVE  IInv'
<1> USE SlabAssumption DEF Lock, Goto, slabVars
<1>1. UNCHANGED <<slabs_of_cpu, slabVars, pages, live, recovered, block>>
  BY DEF IInv, TypeOK, CallInv
<1>2. TypeOK'
  BY DEF IInv, TypeOK, PCs, CallInv, Holding, ListInv
<1>3. CallInv(c)'
  BY <1>1 DEF IInv, TypeOK, CallInv, Holding, Recovering, ListInv, RecoveredInv
<1>5. \A d \in CPUs \ {c} : /\ pc'[d] = pc[d] /\ slab'[d] = slab[d] /\ prev'[d] = prev[d]
                            /\ \A s \in Slabs : lock[s] = d => lock'[s] = d
  BY DEF IInv, TypeOK, CallInv, Holding
<1>6. \A d \in CPUs : CallInv(d)'
  BY <1>1, <1>3, <1>5, OtherCall
<1>4. \A s \in recovered : lock'[s] = lock[s]
  BY DEF IInv, TypeOK, CallInv, Holding, RecoveredInv
<1> QED
  BY <1>1, <1>2, <1>6, <1>4, ListStep

LEMMA LockNextInv ==
  ASSUME IInv, NEW c \in CPUs, LockNext(c)
  PROVE  IInv'
<1> USE SlabAssumption DEF LockNext, Goto, slabVars
<1>1. UNCHANGED <<slabs_of_cpu, slabVars, pages, live, recovered, block>>
  BY DEF IInv, TypeOK, CallInv
<1>0. /\ slab[c] \in Slabs \ pages /\ append[slab[c]] \in Slabs \ recovered
      /\ append[slab[c]] # slab[c] /\ lock'[append[slab[c]]] = c /\ lock'[slab[c]] = c
  <2>1. slab[c] \in Slabs \ pages /\ lock[slab[c]] = c /\ slab[c] \notin recovered
    BY DEF IInv, CallInv, Holding
  <2>2. append[slab[c]] \in Slabs /\ lock[append[slab[c]]] = Null
    BY <2>1 DEF IInv, TypeOK
  <2>3. append[slab[c]] # slab[c] /\ append[slab[c]] \notin recovered
    BY <2>1, <2>2 DEF IInv, RecoveredInv
  <2> QED
    BY <2>1, <2>2, <2>3 DEF IInv, TypeOK
<1>2. TypeOK'
  BY <1>0 DEF IInv, TypeOK, PCs, CallInv, Holding, ListInv
<1>3. CallInv(c)'
  <2>1. CallInv(c) /\ block[c] = Null /\ UNCHANGED <<append, free_block_num, pages, recovered, block>>
    BY DEF IInv, CallInv
  <2>2. pc[c] = "scan" /\ pc'[c] = "handover" /\ slab'[c] = slab[c] /\ prev'[c] = prev[c]
    BY DEF IInv, TypeOK
  <2> QED
    BY <1>0, <2>1, <2>2 DEF CallInv, Holding, Recovering
<1>5. \A d \in CPUs \ {c} : /\ pc'[d] = pc[d] /\ slab'[d] = slab[d] /\ prev'[d] = prev[d]
                            /\ \A s \in Slabs : lock[s] = d => lock'[s] = d
  BY DEF IInv, TypeOK, CallInv, Holding
<1>6. \A d \in CPUs : CallInv(d)'
  BY <1>1, <1>3, <1>5, OtherCall
<1>4. \A s \in recovered : lock'[s] = lock[s]
  BY DEF IInv, TypeOK, CallInv, Holding, RecoveredInv
<1> QED
  BY <1>1, <1>2, <1>6, <1>4, ListStep

LEMMA UnlockThisInv ==
  ASSUME IInv, NEW c \in CPUs, UnlockThis(c)
  PROVE  IInv'
<1> USE SlabAssumption DEF UnlockThis, Goto, slabVars
<1>1. UNCHANGED <<slabs_of_cpu, slabVars, pages, live, recovered, block>>
  BY DEF IInv, TypeOK, CallInv
<1>2. TypeOK'
  BY DEF IInv, TypeOK, PCs, CallInv, Holding, ListInv
<1>3. CallInv(c)'
  <2>1. CallInv(c) /\ block[c] = Null /\ UNCHANGED <<append, free_block_num, pages, recovered, block>>
    BY DEF IInv, CallInv
  <2>2. /\ pc[c] = "handover" /\ pc'[c] = "advance" /\ slab'[c] = slab[c] /\ prev'[c] = prev[c]
        /\ slab[c] \in Slabs /\ append[slab[c]] \in Slabs \ {slab[c]}
        /\ \A s \in Slabs \ {slab[c]} : lock'[s] = lock[s]
    BY DEF IInv, TypeOK, CallInv, Holding
  <2> QED
    BY <2>1, <2>2 DEF CallInv, Holding, Recovering
<1>5. \A d \in CPUs \ {c} : /\ pc'[d] = pc[d] /\ slab'[d] = slab[d] /\ prev'[d] = prev[d]
                            /\ \A s \in Slabs : lock[s] = d => lock'[s] = d
  BY DEF IInv, TypeOK, CallInv, Holding
<1>6. \A d \in CPUs : CallInv(d)'
  BY <1>1, <1>3, <1>5, OtherCall
<1>4. \A s \in recovered : lock'[s] = lock[s]
  BY DEF IInv, TypeOK, CallInv, Holding, RecoveredInv
<1> QED
  BY <1>1, <1>2, <1>6, <1>4, ListStep

LEMMA AdvanceInv ==
  ASSUME IInv, NEW c \in CPUs, Advance(c)
  PROVE  IInv'
<1> USE SlabAssumption DEF Advance, Goto, slabVars
<1>1. UNCHANGED <<slabs_of_cpu, slabVars, pages, live, recovered, block>>
  BY DEF IInv, TypeOK, CallInv
<1>2. TypeOK'
  BY DEF IInv, TypeOK, PCs, CallInv, Holding, ListInv
<1>3. CallInv(c)'
  <2>1. /\ CallInv(c) /\ block[c] = Null /\ UNCHANGED <<append, free_block_num, pages, recovered, block>>
        /\ append[slab[c]] \notin pages
    BY DEF IInv, CallInv, ListInv
  <2>2. pc[c] = "advance" /\ pc'[c] = "scan" /\ slab'[c] = append[slab[c]] /\ lock' = lock
    BY DEF IInv, TypeOK
  <2> QED
    BY <2>1, <2>2 DEF CallInv, Holding, Recovering
<1>5. \A d \in CPUs \ {c} : pc'[d] = pc[d] /\ slab'[d] = slab[d] /\ prev'[d] = prev[d]
  BY DEF IInv, TypeOK
<1>6. \A d \in CPUs : CallInv(d)'
  BY <1>1, <1>3, <1>5, OtherCall
<1>4. \A s \in recovered : lock'[s] = lock[s]
  BY DEF IInv, TypeOK, CallInv, Holding, RecoveredInv
<1> QED
  BY <1>1, <1>2, <1>6, <1>4, ListStep

LEMMA EndOfListInv ==
  ASSUME IInv, NEW c \in CPUs, EndOfList(c)
  PROVE  IInv'
<1> USE SlabAssumption DEF EndOfList, Goto, slabVars
<1>1. UNCHANGED <<slabs_of_cpu, slabVars, pages, live, recovered, block>>
  BY DEF IInv, TypeOK, CallInv
<1>2. TypeOK'
  BY DEF IInv, TypeOK, PCs, CallInv, Holding, ListInv
<1>3. CallInv(c)'
  <2>1. CallInv(c) /\ block[c] = Null /\ UNCHANGED <<append, free_block_num, pages, recovered, block>>
    BY DEF IInv, CallInv
  <2>2. pc[c] = "scan" /\ pc'[c] = "request" /\ slab'[c] = Null /\ prev'[c] = prev[c]
    BY DEF IInv, TypeOK
  <2> QED
    BY <2>1, <2>2 DEF CallInv, Holding, Recovering
<1>5. \A d \in CPUs \ {c} : /\ pc'[d] = pc[d] /\ slab'[d] = slab[d] /\ prev'[d] = prev[d]
                            /\ \A s \in Slabs : lock[s] = d => lock'[s] = d
  BY DEF IInv, TypeOK, CallInv, Holding
<1>6. \A d \in CPUs : CallInv(d)'
  BY <1>1, <1>3, <1>5, OtherCall
<1>4. \A s \in recovered : lock'[s] = lock[s]
  BY DEF IInv, TypeOK, CallInv, Holding, RecoveredInv
<1> QED
  BY <1>1, <1>2, <1>6, <1>4, ListStep

LEMMA ReadHeadInv ==
  ASSUME IInv, NEW c \in CPUs, ReadHead(c)
  PROVE  IInv'
<1> USE SlabAssumption DEF ReadHead, Goto, slabVars
<1>1. UNCHANGED <<slabs_of_cpu, slabVars, pages, live, recovered, block>>
  BY DEF IInv, TypeOK, CallInv
<1>0. /\ cpu_id[slab[c]] \in CPUs /\ slabs_of_cpu[cpu_id[slab[c]]] \in Slabs \ pages
      /\ pc'[c] = "walk" /\ prev'[c] = slabs_of_cpu[cpu_id[slab[c]]]
  BY DEF IInv, TypeOK, CallInv, Holding, Recovering, ListInv, RecoveredInv
<1>2. TypeOK'
  BY <1>0 DEF IInv, TypeOK, PCs, CallInv, Holding, ListInv
<1>3. CallInv(c)'
  <2>1. CallInv(c) /\ block[c] = Null /\ UNCHANGED <<append, free_block_num, pages, recovered, block>>
    BY DEF IInv, CallInv
  <2>2. pc[c] = "recover" /\ lock' = lock /\ slab'[c] = slab[c]
    BY DEF IInv, TypeOK
  <2> QED
    BY <1>0, <2>1, <2>2 DEF CallInv, Holding, Recovering
<1>5. \A d \in CPUs \ {c} : /\ pc'[d] = pc[d] /\ slab'[d] = slab[d] /\ prev'[d] = prev[d]
                            /\ \A s \in Slabs : lock[s] = d => lock'[s] = d
  BY DEF IInv, TypeOK, CallInv, Holding
<1>6. \A d \in CPUs : CallInv(d)'
  BY <1>1, <1>3, <1>5, OtherCall
<1>4. \A s \in recovered : lock'[s] = lock[s]
  BY DEF IInv, TypeOK, CallInv, Holding, RecoveredInv
<1> QED
  BY <1>1, <1>2, <1>6, <1>4, ListStep

LEMMA WalkInv ==
  ASSUME IInv, NEW c \in CPUs, Walk(c)
  PROVE  IInv'
<1> USE SlabAssumption DEF Walk, Goto, slabVars
<1>1. UNCHANGED <<slabs_of_cpu, slabVars, pages, live, recovered, block>>
  BY DEF IInv, TypeOK, CallInv
<1>0. /\ prev[c] \in Slabs /\ append[prev[c]] \in Slabs \ pages
      /\ \/ pc'[c] = "trylock" /\ append[prev[c]] = slab[c] /\ prev'[c] = prev[c]
         \/ pc'[c] = "walk" /\ prev'[c] = append[prev[c]]
  <2>1. prev[c] \in Slabs /\ append[prev[c]] # Null
    BY DEF IInv, CallInv
  <2>2. append[prev[c]] \in Slabs \ pages
    BY <2>1 DEF IInv, TypeOK, ListInv
  <2> QED
    BY <2>1, <2>2 DEF IInv, TypeOK
<1>2. TypeOK'
  <2>1. prev' \in [CPUs -> Slabs \cup {Null}]
    <3>1. prev' = prev \/ prev' = [prev EXCEPT ![c] = append[prev[c]]]
      OBVIOUS
    <3> QED
      BY <1>0, <3>1 DEF IInv, TypeOK
  <2>2. pc' \in [CPUs -> PCs]
    <3>1. pc' = pc \/ pc' = [pc EXCEPT ![c] = "trylock"]
      OBVIOUS
    <3>2. pc \in [CPUs -> PCs] /\ "trylock" \in PCs
      BY DEF IInv, TypeOK, PCs
    <3> QED
      BY <3>1, <3>2
  <2> QED
    BY <2>1, <2>2 DEF IInv, TypeOK
<1>3. CallInv(c)'
  <2>1. CallInv(c) /\ pc[c] = "walk" /\ UNCHANGED <<lock, slab>>
    BY DEF IInv
  <2>2. prev'[c] \in Slabs \ pages
    BY <1>0, <2>1 DEF CallInv
  <2>3. CASE pc'[c] = "walk"
    BY <1>1, <2>1, <2>2, <2>3 DEF CallInv, Holding, Recovering
  <2>4. CASE pc'[c] = "trylock" /\ append[prev[c]] = slab[c] /\ prev'[c] = prev[c]
    BY <1>1, <2>1, <2>2, <2>4 DEF CallInv, Holding, Recovering
  <2> QED
    BY <1>0, <2>3, <2>4
<1>5. \A d \in CPUs \ {c} : /\ pc'[d] = pc[d] /\ slab'[d] = slab[d] /\ prev'[d] = prev[d]
                            /\ \A s \in Slabs : lock[s] = d => lock'[s] = d
  BY DEF IInv, TypeOK, CallInv, Holding
<1>6. \A d \in CPUs : CallInv(d)'
  BY <1>1, <1>3, <1>5, OtherCall
<1>4. \A s \in recovered : lock'[s] = lock[s]
  BY DEF IInv, TypeOK, CallInv, Holding, RecoveredInv
<1> QED
  BY <1>1, <1>2, <1>6, <1>4, ListStep

LEMMA TryLockInv ==
  ASSUME IInv, NEW c \in CPUs, TryLock(c)
  PROVE  IInv'
<1> USE SlabAssumption DEF TryLock, Goto, slabVars
<1>1. UNCHANGED <<slabs_of_cpu, slabVars, pages, live, recovered, block>>
  BY DEF IInv, TypeOK, CallInv
<1>0. /\ slab[c] \in Slabs \ pages /\ prev[c] \in Slabs \ pages /\ slab[c] \notin recovered
      /\ prev[c] \notin recovered \cup {slab[c]} /\ lock'[prev[c]] = c /\ lock'[slab[c]] = c
  <2>1. /\ slab[c] \in Slabs \ pages /\ prev[c] \in Slabs \ pages
        /\ lock[slab[c]] = c /\ slab[c] \notin recovered
    BY DEF IInv, CallInv, Holding
  <2>2. prev[c] \notin recovered /\ prev[c] # slab[c]
    BY <2>1 DEF IInv, RecoveredInv
  <2> QED
    BY <2>1, <2>2 DEF IInv, TypeOK
<1>2. TypeOK'
  BY <1>0 DEF IInv, TypeOK, PCs, CallInv, Holding, ListInv
<1>3. CallInv(c)'
  <2>1. CallInv(c) /\ block[c] = Null /\ UNCHANGED <<append, free_block_num, pages, recovered, block>>
    BY DEF IInv, CallInv
  <2>2. pc[c] = "trylock" /\ pc'[c] = "splice" /\ slab'[c] = slab[c] /\ prev'[c] = prev[c]
    BY DEF IInv, TypeOK
  <2> QED
    BY <1>0, <2>1, <2>2 DEF CallInv, Holding, Recovering
<1>5. \A d \in CPUs \ {c} : /\ pc'[d] = pc[d] /\ slab'[d] = slab[d] /\ prev'[d] = prev[d]
                            /\ \A s \in Slabs : lock[s] = d => lock'[s] = d
  BY DEF IInv, TypeOK, CallInv, Holding
<1>6. \A d \in CPUs : CallInv(d)'
  BY <1>1, <1>3, <1>5, OtherCall
<1>4. \A s \in recovered : lock'[s] = lock[s]
  BY DEF IInv, TypeOK, CallInv, Holding, RecoveredInv
<1> QED
  BY <1>1, <1>2, <1>6, <1>4, ListStep

LEMMA NoMemoryInv ==
  ASSUME IInv, NEW c \in CPUs, NoMemory(c)
  PROVE  IInv'
<1> USE SlabAssumption DEF NoMemory, Goto, slabVars, Return
<1>1. UNCHANGED <<slabs_of_cpu, slabVars, pages, live, recovered, block>>
  <2>1. block[c] = Null /\ block \in [CPUs -> Blocks \cup {Null}]
    BY DEF IInv, TypeOK, CallInv
  <2> QED
    BY <2>1
<1>2. TypeOK'
  BY DEF IInv, TypeOK, PCs, CallInv, Holding, ListInv
<1>3. \A d \in CPUs : CallInv(d)'
  BY <1>1 DEF IInv, TypeOK, CallInv, Holding, Recovering, ListInv, RecoveredInv
<1>4. \A s \in recovered : lock'[s] = lock[s]
  BY DEF IInv, TypeOK, CallInv, Holding, RecoveredInv
<1> QED
  BY <1>1, <1>2, <1>3, <1>4, ListStep

LEMMA GiveUpInv ==
  ASSUME IInv, NEW c \in CPUs, GiveUp(c)
  PROVE  IInv'
<1> USE SlabAssumption DEF GiveUp, Goto, slabVars, Return, LockAfterGiveUp
<1>1. UNCHANGED <<slabs_of_cpu, slabVars, pages, live, recovered, block>>
  BY DEF IInv, TypeOK, CallInv
<1>2. TypeOK'
  BY DEF IInv, TypeOK, PCs, CallInv, Holding, ListInv
<1>3. CallInv(c)'
  BY <1>1 DEF IInv, TypeOK, CallInv, Holding, Recovering, ListInv, RecoveredInv
<1>5. \A d \in CPUs \ {c} : /\ pc'[d] = pc[d] /\ slab'[d] = slab[d] /\ prev'[d] = prev[d]
                            /\ \A s \in Slabs : lock[s] = d => lock'[s] = d
  BY DEF IInv, TypeOK, CallInv, Holding
<1>6. \A d \in CPUs : CallInv(d)'
  BY <1>1, <1>3, <1>5, OtherCall
<1>4. \A s \in recovered : lock'[s] = lock[s]
  BY DEF IInv, TypeOK, CallInv, Holding, RecoveredInv
<1> QED
  BY <1>1, <1>2, <1>6, <1>4, ListStep

-----------------------------------------------------------------------------
(* What taking from and pushing on a free list does to the set of its blocks. *)
LEMMA TakeFirst ==
  ASSUME NEW n \in Nat, NEW q \in Seq(1 .. n), q # <<>>, Distinct(q)
  PROVE  /\ Tail(q) \in Seq(1 .. n) /\ Len(Tail(q)) = Len(q) - 1 /\ Distinct(Tail(q))
         /\ Head(q) \in 1 .. n /\ Head(q) \in Range(q)
         /\ Range(Tail(q)) = Range(q) \ {Head(q)}
<1>1. Len(q) \in Nat \ {0} /\ Head(q) = q[1] /\ DOMAIN q = 1 .. Len(q)
  OBVIOUS
<1>2. /\ Tail(q) \in Seq(1 .. n) /\ Len(Tail(q)) = Len(q) - 1 /\ Head(q) \in 1 .. n
      /\ \A i \in 1 .. Len(Tail(q)) : Tail(q)[i] = q[i + 1]
  BY HeadTailProperties
<1>3. DOMAIN Tail(q) = 1 .. Len(q) - 1 /\ 1 \in DOMAIN q
  BY <1>1, <1>2
<1>4. \A i \in 1 .. Len(q) - 1 : i + 1 \in 1 .. Len(q) /\ i + 1 # 1 /\ Tail(q)[i] = q[i + 1]
  BY <1>1, <1>2
<1>5. Distinct(Tail(q))
  BY <1>1, <1>2, <1>4 DEF Distinct
<1>6. \A i \in 2 .. Len(q) : i - 1 \in 1 .. Len(q) - 1 /\ Tail(q)[i - 1] = q[i] /\ q[i] # q[1]
  BY <1>1, <1>2 DEF Distinct
<1>7. Range(Tail(q)) = Range(q) \ {Head(q)}
  <2>1. ASSUME NEW i \in 1 .. Len(q) - 1 PROVE Tail(q)[i] \in Range(q) \ {Head(q)}
    BY <1>1, <1>4, <1>3 DEF Range, Distinct
  <2>2. ASSUME NEW i \in DOMAIN q, q[i] # Head(q) PROVE q[i] \in Range(Tail(q))
    <3>1. i \in 2 .. Len(q)
      BY <1>1, <2>2
    <3> QED
      BY <1>3, <1>6, <3>1 DEF Range
  <2> QED
    BY <1>3, <2>1, <2>2 DEF Range
<1> QED
  BY <1>1, <1>2, <1>3, <1>5, <1>7 DEF Range

LEMMA PushFront ==
  ASSUME NEW n \in Nat, NEW q \in Seq(1 .. n), Distinct(q), NEW k \in 1 .. n, k \notin Range(q)
  PROVE  /\ <<k>> \o q \in Seq(1 .. n) /\ Len(<<k>> \o q) = Len(q) + 1 /\ Distinct(<<k>> \o q)
         /\ Range(<<k>> \o q) = Range(q) \cup {k}
<1> DEFINE r == <<k>> \o q
<1>1. <<k>> \in Seq(1 .. n) /\ Len(<<k>>) = 1 /\ <<k>>[1] = k /\ Len(q) \in Nat /\ DOMAIN q = 1 .. Len(q)
  OBVIOUS
<1>2. /\ r \in Seq(1 .. n) /\ Len(r) = Len(q) + 1
      /\ \A i \in 1 .. 1 + Len(q) : r[i] = IF i <= 1 THEN <<k>>[i] ELSE q[i - 1]
  BY <1>1, ConcatProperties
<1>3. DOMAIN r = 1 .. Len(q) + 1
  BY <1>2
<1> HIDE DEF r
<1>4. r[1] = k /\ \A i \in 1 .. Len(q) : i + 1 \in 1 .. Len(q) + 1 /\ r[i + 1] = q[i]
  <2>1. \A i \in 1 .. Len(q) : i + 1 \in 1 .. 1 + Len(q) /\ ~(i + 1 <= 1) /\ (i + 1) - 1 = i
    BY <1>1
  <2>2. 1 \in 1 .. 1 + Len(q) /\ 1 <= 1
    BY <1>1
  <2>3. \A i \in 1 .. Len(q) : r[i + 1] = q[(i + 1) - 1]
    BY <1>2, <2>1
  <2>4. r[1] = <<k>>[1]
    BY <1>2, <2>2
  <2> QED
    BY <1>1, <2>1, <2>3, <2>4
<1>5. \A i \in 1 .. Len(q) + 1 : i # 1 => i - 1 \in 1 .. Len(q) /\ r[i] = q[i - 1]
  BY <1>1, <1>2
<1>6. Distinct(r)
  <2> SUFFICES ASSUME NEW i \in 1 .. Len(q) + 1, NEW j \in 1 .. Len(q) + 1, r[i] = r[j] PROVE i = j
    BY <1>2 DEF Distinct
  <2>1. i = 1 <=> j = 1
    BY <1>1, <1>4, <1>5, ZenonT(60) DEF Range
  <2>2. CASE i # 1
    <3>1. /\ i - 1 \in 1 .. Len(q) /\ r[i] = q[i - 1]
          /\ j - 1 \in 1 .. Len(q) /\ r[j] = q[j - 1]
      BY <1>5, <2>1, <2>2
    <3>2. i - 1 = j - 1
      BY <3>1 DEF Distinct
    <3> QED
      BY <1>1, <3>2
  <2> QED
    BY <2>1, <2>2
<1>7. Range(r) = Range(q) \cup {k}
  <2>1. ASSUME NEW i \in DOMAIN r PROVE r[i] \in Range(q) \cup {k}
    BY <1>1, <1>3, <1>4, <1>5 DEF Range
  <2>2. ASSUME NEW i \in DOMAIN q PROVE q[i] \in Range(r)
    BY <1>1, <1>3, <1>4 DEF Range
  <2>3. k \in Range(r)
    BY <1>1, <1>3, <1>4, SMTT(60) DEF Range
  <2> QED
    BY <2>1, <2>2, <2>3 DEF Range
<1> QED
  BY <1>2, <1>6, <1>7 DEF r

(* A free list is a set of blocks of the slab, as long as the set is large. *)
LEMMA FreeFinite ==
  ASSUME IInv, NEW s \in Slabs
  PROVE  /\ free_list[s] \in Seq(1 .. block_num) /\ block_num \in Nat
         /\ Free(s) \subseteq 1 .. block_num /\ IsFiniteSet(Free(s))
         /\ Cardinality(Free(s)) = free_block_num[s]
         /\ free_block_num[s] = block_num => Free(s) = 1 .. block_num
<1>1. /\ free_list[s] \in Seq(1 .. block_num) /\ block_num \in Nat
      /\ Cardinality(Free(s)) = free_block_num[s]
  BY SlabAssumption DEF IInv, TypeOK, FreeInv
<1>2. Free(s) \subseteq 1 .. block_num
  BY <1>1 DEF Free, Range
<1>3. IsFiniteSet(1 .. block_num) /\ Cardinality(1 .. block_num) = block_num
  BY <1>1, FS_Interval
<1>4. IsFiniteSet(Free(s))
  BY <1>2, <1>3, FS_Subset
<1>5. Cardinality(Free(s)) = block_num => Free(s) = 1 .. block_num
  BY <1>2, <1>3, FS_Subset
<1> QED
  BY <1>1, <1>2, <1>4, <1>5

-----------------------------------------------------------------------------
LEMMA FreeCallInv ==
  ASSUME IInv, NEW c \in CPUs, NEW b \in live, FreeCall(c, b)
  PROVE  IInv'
<1> USE SlabAssumption DEF FreeCall, Goto, slabVars
<1>1. /\ UNCHANGED <<slabs_of_cpu, lock, slabVars, pages, recovered, prev>>
      /\ live' = live \ {b} /\ pc[c] = "out" /\ pc'[c] = "free" /\ slab'[c] = b[1] /\ block'[c] = b
      /\ \A d \in CPUs \ {c} : pc'[d] = pc[d] /\ slab'[d] = slab[d] /\ block'[d] = block[d]
  BY DEF IInv, TypeOK
<1>2. b \in Blocks /\ b # Null /\ b \in Used /\ b[1] \in Slabs \ pages /\ block[c] = Null
  <2>1. b \in Blocks /\ b[1] \in Slabs /\ b \in Used
    BY DEF IInv, TypeOK, Blocks, Used
  <2> QED
    BY <1>1, <2>1 DEF IInv, UsedInv, CallInv
<1>3. Used' = Used
  <2>2. Used' \subseteq Used
    BY <1>1, <1>2 DEF Used
  <2>3. Used \subseteq Used'
    BY <1>1, <1>2 DEF Used
  <2> QED
    BY <2>2, <2>3
<1>4. TypeOK'
  BY <1>2 DEF IInv, TypeOK, PCs
<1>5. \A d \in CPUs : CallInv(d)'
  BY <1>1, <1>2 DEF IInv, CallInv, Holding, Recovering
<1>6. ListInv' /\ RecoveredInv'
  BY <1>1 DEF IInv, ListInv, RecoveredInv
<1>7. \A s \in Slabs : FreeInv(s)'
  <2> TAKE s \in Slabs
  <2>1. Free(s)' = Free(s) /\ FreeInv(s)
    BY DEF IInv, Free
  <2> QED
    BY <1>1, <1>3, <2>1 DEF FreeInv
<1>8. UsedInv'
  <2>1. \A d \in CPUs : block'[d] \notin live'
    BY <1>1 DEF IInv, UsedInv
  <2>2. \A d \in CPUs \ {c} : block'[d] # b
    BY <1>1 DEF IInv, UsedInv
  <2>3. \A d, e \in CPUs : block'[d] # Null /\ block'[d] = block'[e] => d = e
    BY <1>1, <2>2 DEF IInv, UsedInv
  <2> QED
    BY <1>1, <1>3, <2>1, <2>3 DEF IInv, UsedInv
<1> QED
  BY <1>4, <1>5, <1>6, <1>7, <1>8 DEF IInv

(* The allocator holds the lock of the slab it takes the first block of. *)
LEMMA TakeBlockInv ==
  ASSUME IInv, NEW c \in CPUs, TakeBlock(c)
  PROVE  IInv'
<1> DEFINE s == slab[c]
           h == Head(free_list[s])
<1> USE SlabAssumption
<1>1. s \in Slabs \ pages /\ lock[s] = c /\ s \notin recovered /\ pc[c] = "scan" /\ block[c] = Null
  BY DEF IInv, CallInv, Holding, TakeBlock
<1>2. /\ UNCHANGED <<slabs_of_cpu, cpu_id, append, pages, recovered, block>>
      /\ live' = live \cup {<<s, h>>}
      /\ free_list' = [free_list EXCEPT ![s] = Tail(@)]
      /\ free_block_num' = [free_block_num EXCEPT ![s] = @ - 1]
      /\ lock' = [lock EXCEPT ![s] = Null]
      /\ pc' = [pc EXCEPT ![c] = "out"]
      /\ slab' = [slab EXCEPT ![c] = Null] /\ prev' = [prev EXCEPT ![c] = Null]
      /\ free_block_num[s] > 0
  BY <1>1 DEF TakeBlock, Rest, Return, Goto, IInv, TypeOK
<1>3. /\ FreeInv(s) /\ free_list[s] \in Seq(1 .. block_num) /\ free_list[s] # <<>>
      /\ free_block_num[s] \in 0 .. block_num /\ block_num \in Nat
      /\ Cardinality(Free(s)) = free_block_num[s] /\ IsFiniteSet(Free(s))
  BY <1>1, <1>2, FreeFinite DEF IInv, TypeOK, FreeInv
<1>4. /\ Tail(free_list[s]) \in Seq(1 .. block_num)
      /\ Len(Tail(free_list[s])) = Len(free_list[s]) - 1 /\ Distinct(Tail(free_list[s]))
      /\ h \in 1 .. block_num /\ h \in Free(s)
      /\ Range(Tail(free_list[s])) = Free(s) \ {h}
  BY <1>3, TakeFirst DEF FreeInv, Free
<1>5. <<s, h>> \notin Used /\ <<s, h>> \in Blocks /\ <<s, h>> # Null /\ <<s, h>>[1] = s
  BY <1>1, <1>3, <1>4 DEF FreeInv, Blocks
<1>6. Used' = Used \cup {<<s, h>>}
  BY <1>2 DEF Used
<1>7. TypeOK'
  <2>1. free_block_num[s] - 1 \in 0 .. block_num
    BY <1>2, <1>3
  <2> QED
    BY <1>1, <1>2, <1>4, <1>5, <2>1 DEF IInv, TypeOK, PCs
<1>8. /\ \A d \in CPUs \ {c} : pc'[d] = pc[d] /\ slab'[d] = slab[d] /\ prev'[d] = prev[d]
      /\ pc'[c] = "out"
      /\ \A t \in Slabs \ {s} : /\ lock'[t] = lock[t] /\ free_block_num'[t] = free_block_num[t]
                               /\ free_list'[t] = free_list[t]
      /\ free_list'[s] = Tail(free_list[s]) /\ free_block_num'[s] = free_block_num[s] - 1
  BY <1>1, <1>2 DEF IInv, TypeOK
<1>9. \A d \in CPUs : CallInv(d)'
  <2> TAKE d \in CPUs
  <2>1. CASE d = c
    BY <1>1, <1>2, <1>8, <2>1 DEF CallInv, Holding, Recovering
  <2>2. CASE d # c
    <3>1. CallInv(d) /\ \A t \in Slabs : lock[t] = d => lock'[t] = d /\ free_block_num'[t] = free_block_num[t]
      BY <1>1, <1>8, <2>2 DEF IInv
    <3> QED
      BY <1>2, <1>8, <2>2, <3>1 DEF CallInv, Holding, Recovering
  <2> QED
    BY <2>1, <2>2
<1>10. ListInv' /\ RecoveredInv'
  <2>1. ListInv'
    BY <1>2 DEF IInv, ListInv
  <2>2. \A t \in recovered : t \in Slabs \ {s}
    BY <1>1 DEF IInv, TypeOK
  <2>3. RecoveredInv'
    BY <1>2, <1>8, <2>2 DEF IInv, RecoveredInv
  <2> QED
    BY <2>1, <2>3
<1>11. \A t \in Slabs : FreeInv(t)'
  <2> TAKE t \in Slabs
  <2>1. CASE t = s
    <3>1. Free(t)' = Free(s) \ {h}
      BY <1>4, <1>8, <2>1 DEF Free
    <3>2. Cardinality(Free(t)') = free_block_num'[t]
      <4>1. Cardinality(Free(s) \ {h}) = free_block_num[s] - 1
        <5>1. IsFiniteSet(Free(s)) /\ h \in Free(s) /\ Cardinality(Free(s)) = free_block_num[s]
          BY <1>3, <1>4
        <5> HIDE DEF h, s
        <5>2. Cardinality(Free(s) \ {h}) = Cardinality(Free(s)) - 1
          BY <5>1, FS_RemoveElement
        <5> QED
          BY <5>1, <5>2
      <4> QED
        BY <1>8, <2>1, <3>1, <4>1
    <3>3. Len(free_list'[t]) = free_block_num'[t] /\ Distinct(free_list'[t])
      BY <1>3, <1>4, <1>8, <2>1 DEF FreeInv
    <3>4. \A k \in 1 .. block_num : k \in Free(t)' <=> <<t, k>> \notin Used'
      BY <1>3, <1>4, <1>6, <2>1, <3>1 DEF FreeInv
    <3> QED
      BY <3>2, <3>3, <3>4 DEF FreeInv
  <2>2. CASE t # s
    <3>1. FreeInv(t) /\ Free(t)' = Free(t) /\ \A k : <<t, k>> \in Used' <=> <<t, k>> \in Used
      BY <1>6, <1>8, <2>2 DEF IInv, Free
    <3> QED
      BY <1>8, <2>2, <3>1 DEF FreeInv
  <2> QED
    BY <2>1, <2>2
<1>12. UsedInv'
  <2>1. \A b \in Used' : b[1] \notin pages'
    BY <1>1, <1>2, <1>5, <1>6 DEF IInv, UsedInv
  <2>2. \A d \in CPUs : block[d] # <<s, h>>
    BY <1>5 DEF Used
  <2> QED
    BY <1>2, <2>1, <2>2 DEF IInv, UsedInv
<1> QED
  BY <1>7, <1>9, <1>10, <1>11, <1>12 DEF IInv

(* The block comes back to a slab whose lock the CPU holds. *)
LEMMA PushBlockInv ==
  ASSUME IInv, NEW c \in CPUs, PushBlock(c)
  PROVE  IInv'
<1> USE SlabAssumption
<1>1. PICK s \in Slabs, k \in 1 .. block_num : s = slab[c] /\ block[c] = <<s, k>>
  BY DEF IInv, CallInv, PushBlock, Blocks
<1>2. /\ pc[c] = "push" /\ s \notin pages \cup recovered /\ lock[s] = c /\ <<s, k>> # Null
      /\ <<s, k>> \in Used /\ <<s, k>> \notin live
      /\ \A d \in CPUs \ {c} : block[d] # <<s, k>>
  <2>1. block[c] \in Used /\ block[c] # Null
    BY <1>1 DEF Used, Blocks
  <2>2. pc[c] = "push" /\ lock[s] = c /\ s \notin recovered
    BY <1>1 DEF PushBlock, IInv, CallInv, Holding
  <2> QED
    BY <1>1, <2>1, <2>2 DEF IInv, UsedInv, CallInv
<1>3. /\ FreeInv(s) /\ free_list[s] \in Seq(1 .. block_num) /\ block_num \in Nat
      /\ Free(s) \subseteq 1 .. block_num /\ IsFiniteSet(Free(s))
      /\ Cardinality(Free(s)) = free_block_num[s] /\ free_block_num[s] \in 0 .. block_num
      /\ k \notin Free(s) /\ free_block_num[s] # block_num
  BY <1>1, <1>2, FreeFinite DEF IInv, TypeOK, FreeInv
<1>4. /\ free_list' = [free_list EXCEPT ![s] = <<k>> \o @]
      /\ free_block_num' = [free_block_num EXCEPT ![s] = free_block_num[s] + 1]
      /\ block' = [block EXCEPT ![c] = Null]
      /\ UNCHANGED <<slabs_of_cpu, cpu_id, append, pages, live, recovered>>
      /\ \/ /\ free_block_num[s] + 1 = block_num
            /\ pc' = [pc EXCEPT ![c] = "recover"]
            /\ UNCHANGED <<lock, slab, prev>>
         \/ /\ pc' = [pc EXCEPT ![c] = "out"] /\ lock' = [lock EXCEPT ![s] = Null]
            /\ slab' = [slab EXCEPT ![c] = Null] /\ prev' = [prev EXCEPT ![c] = Null]
  BY <1>1 DEF PushBlock, Idle, CountAfterFree, Return, Goto
<1>5. /\ <<k>> \o free_list[s] \in Seq(1 .. block_num)
      /\ Len(<<k>> \o free_list[s]) = Len(free_list[s]) + 1 /\ Distinct(<<k>> \o free_list[s])
      /\ Range(<<k>> \o free_list[s]) = Free(s) \cup {k}
  BY <1>3, PushFront DEF FreeInv, Free
<1>6. /\ free_list'[s] = <<k>> \o free_list[s] /\ free_block_num'[s] = free_block_num[s] + 1
      /\ \A t \in Slabs \ {s} : /\ free_list'[t] = free_list[t] /\ lock'[t] = lock[t]
                               /\ free_block_num'[t] = free_block_num[t]
      /\ block'[c] = Null
      /\ \A d \in CPUs \ {c} : /\ pc'[d] = pc[d] /\ slab'[d] = slab[d]
                              /\ prev'[d] = prev[d] /\ block'[d] = block[d]
  BY <1>4 DEF IInv, TypeOK
<1>7. Used' = Used \ {<<s, k>>}
  <2>1. Used' \subseteq Used
    BY <1>4, <1>6 DEF Used
  <2>2. <<s, k>> \notin Used'
    BY <1>2, <1>4, <1>6 DEF Used
  <2>3. Used \ {<<s, k>>} \subseteq Used'
    <3> SUFFICES ASSUME NEW x \in Used, x # <<s, k>>, x \notin live PROVE x \in Used'
      BY <1>4 DEF Used
    <3>1. PICK d \in CPUs : block[d] # Null /\ x = block[d]
      BY DEF Used
    <3>2. d # c
      BY <1>1, <3>1
    <3> QED
      BY <1>6, <3>1, <3>2 DEF Used
  <2> QED
    BY <2>1, <2>2, <2>3
<1>8. TypeOK'
  <2>1. free_block_num[s] + 1 \in 0 .. block_num
    BY <1>3
  <2>2. lock' \in [Slabs -> CPUs \cup {Null}] /\ pc' \in [CPUs -> PCs]
    <3>1. /\ lock \in [Slabs -> CPUs \cup {Null}] /\ pc \in [CPUs -> PCs]
          /\ {"recover", "out"} \subseteq PCs
      BY DEF IInv, TypeOK, PCs
    <3> QED
      BY <1>4, <3>1
  <2>3. slab' \in [CPUs -> Slabs \cup {Null}] /\ prev' \in [CPUs -> Slabs \cup {Null}]
    BY <1>4 DEF IInv, TypeOK
  <2> QED
    BY <1>4, <1>5, <2>1, <2>2, <2>3 DEF IInv, TypeOK
<1>9. \A d \in CPUs : CallInv(d)'
  <2>1. CallInv(c)'
    <3>1. CASE pc'[c] = "out"
      BY <1>6, <3>1 DEF CallInv, Holding, Recovering
    <3>2. CASE pc'[c] # "out"
      <4>1. /\ pc'[c] = "recover" /\ slab'[c] = s /\ lock'[s] = c /\ free_block_num'[s] = block_num
        BY <1>1, <1>2, <1>4, <1>6, <3>2 DEF IInv, TypeOK
      <4> QED
        BY <1>2, <1>4, <1>6, <4>1 DEF CallInv, Holding, Recovering
    <3> QED
      BY <3>1, <3>2
  <2>2. ASSUME NEW d \in CPUs \ {c} PROVE CallInv(d)'
    <3>1. CallInv(d) /\ \A t \in Slabs : lock[t] = d => lock'[t] = d /\ free_block_num'[t] = free_block_num[t]
      BY <1>2, <1>6 DEF IInv
    <3> QED
      BY <1>4, <1>6, <3>1 DEF CallInv, Holding, Recovering
  <2> QED
    BY <2>1, <2>2
<1>10. ListInv' /\ RecoveredInv'
  <2>1. ListInv'
    BY <1>4 DEF IInv, ListInv
  <2>2. \A t \in recovered : t \in Slabs \ {s}
    BY <1>2 DEF IInv, TypeOK
  <2>3. RecoveredInv'
    BY <1>4, <1>6, <2>2 DEF IInv, RecoveredInv
  <2> QED
    BY <2>1, <2>3
<1>11. \A t \in Slabs : FreeInv(t)'
  <2>1. FreeInv(s)'
    <3>1. Free(s)' = Free(s) \cup {k}
      BY <1>5, <1>6 DEF Free
    <3>2. Cardinality(Free(s) \cup {k}) = Cardinality(Free(s)) + 1
      BY <1>3, FS_AddElement
    <3>3. Cardinality(Free(s)') = free_block_num'[s]
      BY <1>3, <1>6, <3>1, <3>2
    <3>4. Len(free_list'[s]) = free_block_num'[s] /\ Distinct(free_list'[s])
      BY <1>3, <1>5, <1>6 DEF FreeInv
    <3>5. \A j \in 1 .. block_num : j \in Free(s)' <=> <<s, j>> \notin Used'
      BY <1>3, <1>7, <3>1 DEF FreeInv
    <3> QED
      BY <3>3, <3>4, <3>5 DEF FreeInv
  <2>2. ASSUME NEW t \in Slabs \ {s} PROVE FreeInv(t)'
    <3>1. FreeInv(t) /\ Free(t)' = Free(t) /\ \A j : <<t, j>> \in Used' <=> <<t, j>> \in Used
      BY <1>6, <1>7 DEF IInv, Free
    <3> QED
      BY <1>6, <3>1 DEF FreeInv
  <2> QED
    BY <2>1, <2>2
<1>12. UsedInv'
  <2>1. \A d \in CPUs : block'[d] \notin live'
    <3>1. Null \notin live
      BY DEF IInv, TypeOK
    <3> QED
      BY <1>4, <1>6, <3>1 DEF IInv, UsedInv
  <2>2. \A d, e \in CPUs : block'[d] # Null /\ block'[d] = block'[e] => d = e
    BY <1>6 DEF IInv, UsedInv
  <2> QED
    BY <1>4, <1>7, <2>1, <2>2 DEF IInv, UsedInv
<1> QED
  BY <1>8, <1>9, <1>10, <1>11, <1>12 DEF IInv

(* A page that page_alloc has is in no list and has no block in use. *)
LEMMA NewSlabInv ==
  ASSUME IInv, NEW c \in CPUs, NewSlab(c)
  PROVE  IInv'
<1> USE SlabAssumption
<1>1. PICK s \in pages : s = AnyPage
  BY DEF NewSlab, AnyPage
<1>2. /\ s \in Slabs /\ pc[c] = "request" /\ block[c] = Null
      /\ pages' = pages \ {s} /\ recovered' = recovered \ {s}
      /\ lock' = [lock EXCEPT ![s] = Null] /\ cpu_id' = [cpu_id EXCEPT ![s] = c]
      /\ free_list' = [free_list EXCEPT ![s] = AllFree]
      /\ free_block_num' = [free_block_num EXCEPT ![s] = block_num]
      /\ append' = [append EXCEPT ![s] = slabs_of_cpu[c]]
      /\ slabs_of_cpu' = [slabs_of_cpu EXCEPT ![c] = s]
      /\ slab' = [slab EXCEPT ![c] = s] /\ pc' = [pc EXCEPT ![c] = "lock"]
      /\ UNCHANGED <<live, prev, block>>
  BY <1>1 DEF NewSlab, Goto, IInv, TypeOK, CallInv
<1>3. /\ \A t \in Slabs \ {s} : /\ lock'[t] = lock[t] /\ cpu_id'[t] = cpu_id[t]
                               /\ free_list'[t] = free_list[t] /\ append'[t] = append[t]
                               /\ free_block_num'[t] = free_block_num[t]
      /\ \A d \in CPUs \ {c} : /\ slabs_of_cpu'[d] = slabs_of_cpu[d]
                              /\ slab'[d] = slab[d] /\ pc'[d] = pc[d]
      /\ cpu_id'[s] = c /\ free_list'[s] = AllFree /\ append'[s] = slabs_of_cpu[c]
      /\ free_block_num'[s] = block_num
      /\ slabs_of_cpu'[c] = s /\ slab'[c] = s /\ pc'[c] = "lock"
  BY <1>2 DEF IInv, TypeOK
<1>4. block_num \in Nat /\ AllFree \in Seq(1 .. block_num) /\ Len(AllFree) = block_num
  BY DEF AllFree
<1>5. Distinct(AllFree) /\ Range(AllFree) = 1 .. block_num
  BY <1>4 DEF AllFree, Distinct, Range
<1>6. TypeOK'
  BY <1>1, <1>2, <1>4 DEF IInv, TypeOK, PCs
<1>7. ListInv'
  <2>1. \A t \in Slabs \ pages' : cpu_id'[t] \in CPUs
    BY <1>2, <1>3 DEF IInv, ListInv
  <2>2. \A t \in Slabs : append'[t] \notin pages' /\ append'[t] # s
    BY <1>1, <1>2, <1>3 DEF IInv, ListInv
  <2>3. \A d \in CPUs : slabs_of_cpu'[d] \notin pages' \cup recovered'
    BY <1>2, <1>3 DEF IInv, ListInv
  <2>4. \A d \in CPUs \ {c} : slabs_of_cpu[d] # s
    BY <1>1 DEF IInv, ListInv
  <2>5. \A d \in CPUs, t \in Slabs : append'[t] # slabs_of_cpu'[d]
    BY <1>2, <1>3, <2>2 DEF IInv, ListInv
  <2>6. \A d, e \in CPUs : slabs_of_cpu'[d] = slabs_of_cpu'[e] => d = e
    BY <1>3, <2>4 DEF IInv, ListInv
  <2> QED
    BY <2>1, <2>2, <2>3, <2>5, <2>6 DEF ListInv
<1>8. RecoveredInv'
  BY <1>2, <1>3 DEF IInv, TypeOK, RecoveredInv
<1>9. \A d \in CPUs : CallInv(d)'
  <2>1. CallInv(c)'
    BY <1>2, <1>3 DEF CallInv, Holding, Recovering
  <2>2. ASSUME NEW d \in CPUs \ {c} PROVE CallInv(d)'
    <3>1. CallInv(d) /\ pages' \subseteq pages /\ recovered' \subseteq recovered
      BY <1>2 DEF IInv
    <3>2. pc[d] \in {"handover", "advance"} => append[slab[d]] # s
      BY <1>1, <3>1 DEF CallInv, IInv, ListInv, Holding
    <3> QED
      BY <1>1, <1>2, <1>3, <3>1, <3>2 DEF CallInv, Holding, Recovering
  <2> QED
    BY <2>1, <2>2
<1>10. Used' = Used
  BY <1>2 DEF Used
<1>11. \A t \in Slabs : FreeInv(t)'
  <2>1. FreeInv(s)'
    <3>1. Free(s)' = 1 .. block_num
      BY <1>3, <1>5 DEF Free
    <3>2. Cardinality(1 .. block_num) = block_num
      BY <1>4, FS_Interval
    <3>3. \A j \in 1 .. block_num : <<s, j>> \notin Used'
      BY <1>1, <1>10 DEF IInv, UsedInv
    <3> QED
      BY <1>3, <1>4, <1>5, <3>1, <3>2, <3>3 DEF FreeInv
  <2>2. ASSUME NEW t \in Slabs \ {s} PROVE FreeInv(t)'
    <3>1. FreeInv(t) /\ Free(t)' = Free(t)
      BY <1>3 DEF IInv, Free
    <3> QED
      BY <1>3, <1>10, <3>1 DEF FreeInv
  <2> QED
    BY <2>1, <2>2
<1>12. UsedInv'
  BY <1>2, <1>10 DEF IInv, UsedInv
<1> QED
  BY <1>6, <1>7, <1>8, <1>9, <1>11, <1>12 DEF IInv

(* recover_slab changes the entry of a slab it has locked, which an          *)
(* allocator that is leaving that slab has not locked the successor of.      *)
LEMMA SpliceInv ==
  ASSUME IInv, NEW c \in CPUs, Splice(c)
  PROVE  IInv'
<1> USE SlabAssumption
<1>1. PICK s \in Slabs \ pages, p \in Slabs \ pages : s = slab[c] /\ p = prev[c]
  BY DEF Splice, IInv, CallInv, Holding
<1>2. /\ pc[c] = "splice" /\ block[c] = Null /\ lock[s] = c /\ lock[p] = c /\ append[p] = s
      /\ p # s /\ s \notin recovered /\ p \notin recovered /\ free_block_num[s] = block_num
  BY <1>1 DEF Splice, IInv, CallInv, Holding, Recovering
<1>3. /\ append' = [append EXCEPT ![p] = append[s]]
      /\ recovered' = recovered \cup {s} /\ pages' = pages
      /\ lock' = [lock EXCEPT ![p] = Null] /\ pc' = [pc EXCEPT ![c] = "out"]
      /\ slab' = [slab EXCEPT ![c] = Null] /\ prev' = [prev EXCEPT ![c] = Null]
      /\ UNCHANGED <<slabs_of_cpu, cpu_id, free_list, free_block_num, live, block>>
  BY <1>1, <1>2 DEF Splice, Returned, SuccessorOf, Return, Goto, IInv, TypeOK
<1>4. /\ \A t \in Slabs \ {p} : append'[t] = append[t] /\ lock'[t] = lock[t]
      /\ append'[p] = append[s] /\ pc'[c] = "out"
      /\ \A d \in CPUs \ {c} : pc'[d] = pc[d] /\ slab'[d] = slab[d] /\ prev'[d] = prev[d]
  BY <1>1, <1>3 DEF IInv, TypeOK
<1>5. TypeOK'
  BY <1>1, <1>3 DEF IInv, TypeOK, PCs
<1>6. (\A t \in Slabs : FreeInv(t)') /\ UsedInv'
  BY <1>3, BlocksKept DEF IInv
<1>7. ListInv'
  <2>1. \A d \in CPUs : slabs_of_cpu[d] # s
    BY <1>1, <1>2 DEF IInv, ListInv
  <2>2. \A t \in Slabs : \E u \in Slabs : append'[t] = append[u]
    BY <1>1, <1>4
  <2>3. \A t \in Slabs : append'[t] \notin pages /\ \A d \in CPUs : append'[t] # slabs_of_cpu[d]
    BY <2>2 DEF IInv, ListInv
  <2> QED
    BY <1>3, <2>1, <2>3 DEF IInv, ListInv
<1>8. RecoveredInv'
  <2>1. lock'[s] = c /\ c # Null
    BY <1>1, <1>2, <1>4
  <2>2. \A t \in recovered : t \in Slabs \ {p}
    BY <1>2 DEF IInv, TypeOK
  <2> QED
    BY <1>2, <1>3, <1>4, <2>1, <2>2 DEF IInv, RecoveredInv
<1>9. \A d \in CPUs : CallInv(d)'
  <2>1. CallInv(c)'
    BY <1>2, <1>3, <1>4 DEF CallInv, Holding, Recovering
  <2>2. ASSUME NEW d \in CPUs \ {c} PROVE CallInv(d)'
    <3>1. CallInv(d)
      BY DEF IInv
    <3>2. \A t \in Slabs : lock[t] = d => t # s /\ t # p /\ lock'[t] = d
      BY <1>2, <1>4
    <3>3. pc[d] \in {"handover", "advance"} => slab[d] # p /\ append'[slab[d]] = append[slab[d]]
      BY <1>1, <1>2, <1>4, <3>1, <3>2 DEF CallInv, Holding
    <3>4. pc[d] \in {"trylock", "splice"} => prev[d] # p /\ append'[prev[d]] = append[prev[d]]
      BY <1>1, <1>2, <1>4, <3>1, <3>2 DEF CallInv, Holding
    <3> QED
      BY <1>3, <1>4, <3>1, <3>2, <3>3, <3>4 DEF CallInv, Holding, Recovering
  <2> QED
    BY <2>1, <2>2
<1> QED
  BY <1>5, <1>6, <1>7, <1>8, <1>9 DEF IInv

-----------------------------------------------------------------------------
LEMMA InitInv == Init => IInv
<1> SUFFICES ASSUME Init PROVE IInv
  OBVIOUS
<1> USE SlabAssumption
<1>1. block_num \in Nat /\ AllFree \in Seq(1 .. block_num) /\ Len(AllFree) = block_num
  BY DEF AllFree
<1>2. Distinct(AllFree) /\ Range(AllFree) = 1 .. block_num
  BY <1>1 DEF AllFree, Distinct, Range
<1>3. Used = {}
  BY DEF Init, Used
<1>4. /\ \A c \in CPUs : /\ slabs_of_cpu[c] \in Slabs \ pages
                        /\ cpu_id[slabs_of_cpu[c]] \in CPUs
      /\ \A s \in Slabs \ pages : cpu_id[s] \in CPUs
  BY DEF Init, InitSlabs
<1>5. TypeOK
  <2>1. cpu_id \in [Slabs -> CPUs \cup {Null}]
    BY <1>4 DEF Init
  <2> QED
    BY <1>1, <2>1 DEF Init, TypeOK, PCs
<1>6. \A c \in CPUs : CallInv(c)
  BY DEF Init, CallInv, Holding, Recovering
<1>7. ListInv
  <2>1. \A s \in Slabs : append[s] = Null
    BY DEF Init
  <2>2. pages \subseteq Slabs /\ recovered = {} /\ slabs_of_cpu = InitSlab
    BY DEF Init
  <2> QED
    BY <1>4, <2>1, <2>2 DEF ListInv
<1>8. \A s \in Slabs : FreeInv(s)
  <2> TAKE s \in Slabs
  <2>1. free_list[s] = AllFree /\ free_block_num[s] = block_num
    BY DEF Init
  <2>2. Cardinality(1 .. block_num) = block_num
    BY <1>1, FS_Interval
  <2> QED
    BY <1>1, <1>2, <1>3, <2>1, <2>2 DEF FreeInv, Free
<1>9. UsedInv /\ RecoveredInv
  BY <1>3 DEF Init, UsedInv, RecoveredInv
<1> QED
  BY <1>5, <1>6, <1>7, <1>8, <1>9 DEF IInv

LEMMA StepInv == IInv /\ [Next]_vars => IInv'
<1> SUFFICES ASSUME IInv, [Next]_vars PROVE IInv'
  OBVIOUS
<1>1. CASE UNCHANGED vars
  <2>1. \A c \in CPUs : CallInv(c)'
    BY <1>1 DEF vars, slabVars, IInv, CallInv
  <2>2. TypeOK'
    BY <1>1 DEF vars, slabVars, IInv, TypeOK
  <2> QED
    BY <1>1, <2>1, <2>2, ListStep DEF vars
<1>2. CASE Next
  <2>1. PICK c \in CPUs : Step(c) \/ AllocCall(c) \/ \E b \in live : FreeCall(c, b)
    BY <1>2 DEF Next
  <2>2. CASE Step(c)
    BY <2>2, LockInv, TakeBlockInv, LockNextInv, UnlockThisInv, AdvanceInv, EndOfListInv, NewSlabInv,
       NoMemoryInv, PushBlockInv, ReadHeadInv, WalkInv, TryLockInv, GiveUpInv, SpliceInv DEF Step
  <2> QED
    BY <2>1, <2>2, AllocCallInv, FreeCallInv
<1> QED
  BY <1>1, <1>2

LEMMA Invariance == Spec => []IInv
BY InitInv, StepInv, PTL DEF Spec

-----------------------------------------------------------------------------
(* Every field of a slab and every local of a call keeps its type; in        *)
(* particular free_block_num stays between 0 and block_num (slab.c).         *)
THEOREM TypeCorrect == Spec => []TypeOK
<1>1. IInv => TypeOK
  BY DEF IInv
<1> QED
  BY <1>1, Invariance, PTL

(* kalloc never hands out a block that is in use, and kfree loses none       *)
(* (alloc_block_from_slab and slab_free of slab.c).                          *)
THEOREM Partitioned == Spec => []BlocksPartitioned
<1>1. IInv => BlocksPartitioned
  BY DEF IInv, BlocksPartitioned, FreeInv, Free, Range
<1> QED
  BY <1>1, Invariance, PTL

(* A CPU reads and writes a slab only under its lock, although it finds the  *)
(* slab by unlocked reads (slab_alloc and recover_slab of slab.c).           *)
THEOREM UnderLock == Spec => []WorksUnderLock
<1>1. IInv => WorksUnderLock
  BY SlabAssumption DEF IInv, CallInv, WorksUnderLock, Holding
<1> QED
  BY <1>1, Invariance, PTL

(* Nobody has a block of a slab that was given up, and nobody waits for its  *)
(* lock, which stays taken (recover_slab of slab.c).                         *)
THEOREM RecoveredDead == Spec => []RecoveredIsDead
<1>1. IInv => RecoveredIsDead
  <2> SUFFICES ASSUME IInv, NEW s \in recovered
               PROVE  /\ \A b \in Used : b[1] # s
                      /\ \A c \in CPUs : pc[c] \in {"lock", "scan", "free", "push"} => slab[c] # s
    BY DEF RecoveredIsDead
  <2>1. s \in Slabs /\ Used \subseteq Blocks
    BY DEF IInv, TypeOK, Used
  <2>2. Free(s) = 1 .. block_num
    BY <2>1, FreeFinite DEF IInv, RecoveredInv
  <2>3. \A b \in Used : b[1] # s
    <3> SUFFICES ASSUME NEW b \in Used, b[1] = s PROVE FALSE
      OBVIOUS
    <3>1. b[2] \in 1 .. block_num /\ b = <<s, b[2]>>
      BY <2>1 DEF Blocks
    <3> QED
      BY <2>1, <2>2, <3>1 DEF IInv, FreeInv
  <2>4. ASSUME NEW c \in CPUs, pc[c] \in {"free", "push"} PROVE slab[c] # s
    <3>1. block[c] \in Used /\ block[c][1] = slab[c]
      BY <2>4 DEF IInv, CallInv, Used
    <3> QED
      BY <2>3, <3>1
  <2>5. ASSUME NEW c \in CPUs, pc[c] \in {"lock", "scan"} PROVE slab[c] # s
    BY <2>5 DEF IInv, CallInv, ListInv, Holding
  <2> QED
    BY <2>3, <2>4, <2>5
<1> QED
  BY <1>1, Invariance, PTL

-----------------------------------------------------------------------------
(* The lists of slabs.  Every slab of a CPU has a rank, the number of slabs     *)
(* behind it in the list: a new slab goes in front of all, and taking one out   *)
(* moves those before it down.                                                  *)
Members(c) == {s \in Slabs : cpu_id[s] = c /\ s \notin recovered}

Ranked(c, rank, n) ==
  /\ \A s \in Members(c) : rank[s] < n
  /\ \A s, r \in Members(c) : rank[s] = rank[r] => s = r
  /\ \A k \in 0 .. (n - 1) : \E s \in Members(c) : rank[s] = k
  /\ \A s \in Members(c) :
       IF append[s] = Null THEN rank[s] = 0
       ELSE append[s] \in Members(c) /\ rank[s] = rank[append[s]] + 1
  /\ slabs_of_cpu[c] \in Members(c) /\ rank[slabs_of_cpu[c]] + 1 = n

RankInv ==
  \A c \in CPUs : \E rank \in [Slabs -> Nat], n \in Nat : Ranked(c, rank, n)

(* A page that page_alloc still has belongs to no CPU. *)
FreshInv == \A s \in pages : cpu_id[s] \notin CPUs

RInv == IInv /\ RankInv /\ FreshInv

LEMMA InitRank == Init => RInv
<1> SUFFICES ASSUME Init PROVE RInv
  OBVIOUS
<1> USE SlabAssumption
<1>1. FreshInv
  BY DEF Init, FreshInv
<1>2. ASSUME NEW c \in CPUs
      PROVE  \E rank \in [Slabs -> Nat], n \in Nat : Ranked(c, rank, n)
  <2>1. Members(c) = {InitSlab[c]}
    BY DEF Init, Members, InitSlabs
  <2>2. slabs_of_cpu[c] = InitSlab[c] /\ append[InitSlab[c]] = Null
    BY DEF Init
  <2>3. PICK rank \in [Slabs -> Nat] : \A s \in Slabs : rank[s] = 0
    <3>1. [s \in Slabs |-> 0] \in [Slabs -> Nat]
      OBVIOUS
    <3> QED
      BY <3>1
  <2>4. Ranked(c, rank, 1)
    BY <2>1, <2>2, <2>3 DEF Ranked
  <2> QED
    BY <2>4
<1> QED
  BY <1>1, <1>2, InitInv DEF RInv, RankInv

(* Most steps leave the lists alone. *)
LEMMA SameLists ==
  ASSUME RankInv, FreshInv, UNCHANGED <<slabs_of_cpu, cpu_id, append, recovered, pages>>
  PROVE  RankInv' /\ FreshInv'
<1>1. \A c \in CPUs : Members(c)' = Members(c)
  BY DEF Members
<1>2. ASSUME NEW c \in CPUs, NEW rank, NEW n, Ranked(c, rank, n) PROVE Ranked(c, rank, n)'
  BY <1>1, <1>2 DEF Ranked
<1> QED
  BY <1>2 DEF RankInv, FreshInv

LEMMA NewSlabRank ==
  ASSUME IInv, RankInv, FreshInv, NEW c \in CPUs, NewSlab(c)
  PROVE  RankInv' /\ FreshInv'
<1> USE SlabAssumption
<1>1. PICK s \in pages : s = AnyPage
  BY DEF NewSlab, AnyPage
<1>2. /\ s \in Slabs /\ cpu_id[s] \notin CPUs /\ TypeOK
      /\ pages' = pages \ {s} /\ recovered' = recovered \ {s}
      /\ cpu_id' = [cpu_id EXCEPT ![s] = c]
      /\ append' = [append EXCEPT ![s] = slabs_of_cpu[c]]
      /\ slabs_of_cpu' = [slabs_of_cpu EXCEPT ![c] = s]
  BY <1>1 DEF NewSlab, IInv, TypeOK, FreshInv
<1>3. FreshInv'
  BY <1>2 DEF FreshInv, TypeOK
<1>4. /\ Members(c)' = Members(c) \cup {s}
      /\ \A d \in CPUs : d # c => Members(d)' = Members(d)
      /\ \A d \in CPUs : s \notin Members(d)
  BY <1>2 DEF Members, TypeOK
<1>5. ASSUME NEW d \in CPUs, d # c
      PROVE  \E rank \in [Slabs -> Nat], n \in Nat : Ranked(d, rank, n)'
  <2>1. PICK rank \in [Slabs -> Nat], n \in Nat : Ranked(d, rank, n)
    BY DEF RankInv
  <2>2. \A r \in Members(d) : append'[r] = append[r]
    BY <1>2, <1>4 DEF Members, TypeOK
  <2>3. slabs_of_cpu'[d] = slabs_of_cpu[d]
    BY <1>2, <1>5 DEF TypeOK
  <2>4. Ranked(d, rank, n)'
    BY <2>1, <2>2, <2>3, <1>4, <1>5 DEF Ranked
  <2> QED
    BY <2>4
<1>6. \E rank \in [Slabs -> Nat], n \in Nat : Ranked(c, rank, n)'
  <2>1. PICK old \in [Slabs -> Nat], n \in Nat : Ranked(c, old, n)
    BY DEF RankInv
  <2>2. PICK new \in [Slabs -> Nat] : new = [old EXCEPT ![s] = n]
    OBVIOUS
  <2>3. new[s] = n /\ \A r \in Members(c) : new[r] = old[r] /\ r # s /\ r \in Slabs
    BY <2>2, <1>2, <1>4 DEF Members
  <2>4. slabs_of_cpu'[c] = s /\ append'[s] = slabs_of_cpu[c] /\ s # Null
    BY <1>2 DEF TypeOK
  <2>5. \A r \in Members(c) : append'[r] = append[r]
    BY <2>3, <1>2 DEF TypeOK
  <2>6. \A r \in Members(c)' : new[r] < n + 1
    BY <2>1, <2>3, <1>4 DEF Ranked
  <2>7. \A q, r \in Members(c)' : new[q] = new[r] => q = r
    BY <2>1, <2>3, <1>4 DEF Ranked
  <2>8. ASSUME NEW k \in 0 .. n PROVE \E r \in Members(c)' : new[r] = k
    <3>1. CASE k = n
      BY <3>1, <2>3, <1>4
    <3>2. CASE k # n
      <4>1. k \in 0 .. (n - 1)
        BY <3>2
      <4> QED
        BY <4>1, <2>1, <2>3, <1>4 DEF Ranked
    <3> QED
      BY <3>1, <3>2
  <2>9. ASSUME NEW r \in Members(c)'
        PROVE  IF append'[r] = Null THEN new[r] = 0
               ELSE append'[r] \in Members(c)' /\ new[r] = new[append'[r]] + 1
    <3>1. CASE r = s
      BY <3>1, <2>1, <2>3, <2>4, <1>4 DEF Ranked
    <3>2. CASE r # s
      BY <3>2, <2>1, <2>3, <2>5, <1>4 DEF Ranked
    <3> QED
      BY <3>1, <3>2
  <2>10. Ranked(c, new, n + 1)'
    BY <2>3, <2>4, <2>6, <2>7, <2>8, <2>9, <1>4 DEF Ranked
  <2> QED
    BY <2>10
<1> QED
  BY <1>3, <1>5, <1>6 DEF RankInv

LEMMA SpliceRank ==
  ASSUME IInv, RankInv, FreshInv, NEW c \in CPUs, Splice(c)
  PROVE  RankInv' /\ FreshInv'
<1> USE SlabAssumption
<1>1. PICK x, p : x = slab[c] /\ p = prev[c]
  OBVIOUS
<1>2. /\ TypeOK /\ ListInv
      /\ x \in Slabs /\ x \notin recovered /\ x \notin pages
      /\ p \in Slabs /\ p \notin recovered /\ p \notin pages /\ p # x /\ append[p] = x
  BY <1>1 DEF Splice, IInv, TypeOK, CallInv, Holding
<1>3. /\ append' = [append EXCEPT ![p] = append[x]] /\ recovered' = recovered \cup {x}
      /\ UNCHANGED <<slabs_of_cpu, cpu_id, pages>>
  BY <1>1 DEF Splice, SuccessorOf, Returned
<1>4. FreshInv'
  BY <1>3 DEF FreshInv
<1>5. PICK d \in CPUs : d = cpu_id[p]
  BY <1>2 DEF ListInv
<1>6. PICK old \in [Slabs -> Nat], n \in Nat : Ranked(d, old, n)
  BY DEF RankInv
<1>7. /\ p \in Members(d) /\ x \in Members(d) /\ old[p] = old[x] + 1
      /\ old[x] \in Nat /\ old[p] < n /\ slabs_of_cpu[d] # x
  BY <1>2, <1>5, <1>6 DEF Members, Ranked, ListInv
<1>8. /\ Members(d)' = Members(d) \ {x}
      /\ \A e \in CPUs : e # d => /\ Members(e)' = Members(e)
                                  /\ p \notin Members(e)
  BY <1>3, <1>7 DEF Members
<1>9. ASSUME NEW e \in CPUs, e # d
      PROVE  \E rank \in [Slabs -> Nat], m \in Nat : Ranked(e, rank, m)'
  <2>1. PICK rank \in [Slabs -> Nat], m \in Nat : Ranked(e, rank, m)
    BY DEF RankInv
  <2>2. \A r \in Members(e) : append'[r] = append[r]
    BY <1>2, <1>3, <1>8, <1>9 DEF Members, TypeOK
  <2>3. Ranked(e, rank, m)'
    BY <2>1, <2>2, <1>3, <1>8, <1>9 DEF Ranked
  <2> QED
    BY <2>3
<1>10. PICK new \in [Slabs -> Nat] :
         \A r \in Slabs : new[r] = IF old[r] > old[x] THEN old[r] - 1 ELSE old[r]
  <2> DEFINE f == [r \in Slabs |-> IF old[r] > old[x] THEN old[r] - 1 ELSE old[r]]
  <2>1. f \in [Slabs -> Nat]
    BY <1>7
  <2> QED
    BY <2>1
<1>11. /\ \A r \in Members(d) : r \in Slabs /\ old[r] \in Nat /\ old[r] < n
       /\ \A q, r \in Members(d) : old[q] = old[r] => q = r
       /\ \A k \in 0 .. (n - 1) : \E r \in Members(d) : old[r] = k
       /\ \A r \in Members(d) :
            IF append[r] = Null THEN old[r] = 0
            ELSE append[r] \in Members(d) /\ old[r] = old[append[r]] + 1
       /\ slabs_of_cpu[d] \in Members(d) /\ old[slabs_of_cpu[d]] + 1 = n
  BY <1>6 DEF Ranked, Members
<1>12. n - 1 \in Nat /\ \A r \in Members(d)' : new[r] < n - 1
  <2>1. n - 1 \in Nat /\ old[x] < n - 1
    BY <1>7, <1>11
  <2>2. ASSUME NEW r \in Members(d), r # x PROVE new[r] < n - 1
    <3>1. old[r] # old[x]
      BY <2>2, <1>7, <1>11
    <3> QED
      BY <3>1, <2>1, <1>7, <1>10, <1>11
  <2> QED
    BY <2>1, <2>2, <1>8
<1>13. \A q, r \in Members(d)' : new[q] = new[r] => q = r
  <2> SUFFICES ASSUME NEW q \in Members(d), NEW r \in Members(d), q # x, r # x,
                      new[q] = new[r]
               PROVE  q = r
    BY <1>8
  <2>1. old[q] # old[x] /\ old[r] # old[x]
    BY <1>7, <1>11
  <2>2. old[q] = old[r]
    BY <2>1, <1>7, <1>10, <1>11
  <2> QED
    BY <2>2, <1>11
<1>14. ASSUME NEW k \in 0 .. ((n - 1) - 1) PROVE \E r \in Members(d)' : new[r] = k
  <2>1. CASE k < old[x]
    <3>1. k \in 0 .. (n - 1)
      BY <1>7, <1>11
    <3>2. PICK r \in Members(d) : old[r] = k
      BY <3>1, <1>11
    <3> QED
      BY <3>2, <2>1, <1>7, <1>8, <1>10, <1>11
  <2>2. CASE k >= old[x]
    <3>1. k + 1 \in 0 .. (n - 1)
      BY <1>12
    <3>2. PICK r \in Members(d) : old[r] = k + 1
      BY <3>1, <1>11
    <3>3. old[r] > old[x] /\ new[r] = k
      BY <3>2, <2>2, <1>7, <1>10, <1>11
    <3> QED
      BY <3>3, <1>8, <1>7
  <2> QED
    BY <2>1, <2>2, <1>7
<1>15. ASSUME NEW r \in Members(d)'
       PROVE  IF append'[r] = Null THEN new[r] = 0
              ELSE append'[r] \in Members(d)' /\ new[r] = new[append'[r]] + 1
  <2>1. r \in Members(d) /\ r # x /\ old[r] # old[x] /\ r \in Slabs
    BY <1>7, <1>8, <1>11
  <2>2. CASE r = p
    <3>1. append'[r] = append[x] /\ new[p] = old[x]
      <4>1. append'[p] = append[x]
        BY <1>2, <1>3 DEF TypeOK
      <4>2. new[p] = old[p] - 1
        BY <1>2, <1>7, <1>10
      <4> QED
        BY <4>1, <4>2, <2>2, <1>7
    <3>2. CASE append[x] = Null
      BY <3>1, <3>2, <2>2, <1>7, <1>11
    <3>3. CASE append[x] # Null
      <4>1. append[x] \in Members(d) /\ old[x] = old[append[x]] + 1
        BY <3>3, <1>7, <1>11
      <4>2. append[x] # x /\ new[append[x]] = old[append[x]]
        BY <4>1, <1>10, <1>11
      <4> QED
        BY <4>1, <4>2, <3>1, <3>3, <2>2, <1>8
    <3> QED
      BY <3>2, <3>3
  <2>3. CASE r # p
    <3>1. append'[r] = append[r]
      BY <2>1, <2>3, <1>2, <1>3 DEF TypeOK
    <3>2. CASE append[r] = Null
      <4>1. old[r] = 0
        BY <3>2, <2>1, <1>11
      <4> QED
        BY <4>1, <3>1, <3>2, <2>1, <1>7, <1>10
    <3>3. CASE append[r] # Null
      <4>1. append[r] \in Members(d) /\ old[r] = old[append[r]] + 1
        BY <3>3, <2>1, <1>11
      <4>2. append[r] # x
        <5> SUFFICES ASSUME append[r] = x PROVE FALSE
          OBVIOUS
        <5>1. old[r] = old[p]
          BY <4>1, <1>7
        <5> QED
          BY <5>1, <2>1, <2>3, <1>7, <1>11
      <4>3. old[append[r]] # old[x] /\ old[append[r]] \in Nat /\ append[r] \in Slabs
        BY <4>1, <4>2, <1>7, <1>11
      <4>4. new[r] = new[append[r]] + 1
        BY <4>1, <4>3, <2>1, <1>7, <1>10, <1>11
      <4> QED
        BY <4>1, <4>2, <4>4, <3>1, <3>3, <1>8
    <3> QED
      BY <3>2, <3>3
  <2> QED
    BY <2>2, <2>3
<1>16. slabs_of_cpu'[d] \in Members(d)' /\ new[slabs_of_cpu'[d]] + 1 = n - 1
  <2>1. slabs_of_cpu[d] \in Members(d) /\ slabs_of_cpu[d] # x
    BY <1>7, <1>11
  <2>2. old[slabs_of_cpu[d]] = n - 1 /\ old[x] < n - 1
    BY <1>7, <1>11
  <2>3. new[slabs_of_cpu[d]] = n - 1 - 1
    BY <2>1, <2>2, <1>7, <1>10, <1>11
  <2> QED
    BY <2>1, <2>3, <1>3, <1>8, <1>12
<1>17. Ranked(d, new, n - 1)'
  BY <1>12, <1>13, <1>14, <1>15, <1>16 DEF Ranked
<1> QED
  BY <1>4, <1>9, <1>12, <1>17 DEF RankInv

LEMMA NextRank == RInv /\ [Next]_vars => RInv'
<1> SUFFICES ASSUME RInv, [Next]_vars PROVE RInv'
  OBVIOUS
<1>1. IInv'
  BY StepInv DEF RInv
<1>2. CASE Next
  <2>1. PICK c \in CPUs : Step(c) \/ AllocCall(c) \/ \E b \in live : FreeCall(c, b)
    BY <1>2 DEF Next
  <2>2. CASE NewSlab(c)
    BY <2>2, <1>1, NewSlabRank DEF RInv
  <2>3. CASE Splice(c)
    BY <2>3, <1>1, SpliceRank DEF RInv
  <2>4. CASE ~NewSlab(c) /\ ~Splice(c)
    <3>1. UNCHANGED <<slabs_of_cpu, cpu_id, append, recovered, pages>>
      BY <2>1, <2>4 DEF Step, AllocCall, FreeCall, Lock, TakeBlock, LockNext, UnlockThis,
        Advance, EndOfList, NoMemory, PushBlock, ReadHead, Walk, TryLock, GiveUp, slabVars
    <3> QED
      BY <3>1, <1>1, SameLists DEF RInv
  <2> QED
    BY <2>2, <2>3, <2>4
<1>3. CASE UNCHANGED vars
  BY <1>1, <1>3, SameLists DEF vars, slabVars, RInv
<1> QED
  BY <1>2, <1>3

LEMMA RankInvariance == Spec => []RInv
BY InitRank, NextRank, PTL DEF Spec

LEMMA LeastCounterexample ==
  ASSUME NEW S \in SUBSET Nat, S # {}
  PROVE  \E m \in S : \A n \in S : m <= n
<1>1. PICK m \in S : \A n \in S : ~ (<<n, m>> \in OpToRel(<, Nat))
  BY NatLessThanWellFounded, WFMin
<1>2. ASSUME NEW n \in S PROVE m <= n
  <2>1. <<n, m>> \in Nat \X Nat /\ ~(n < m)
    BY <1>1 DEF OpToRel
  <2> QED
    BY <2>1
<1> QED
  BY <1>2

LEMMA MembersCount ==
  ASSUME NEW c \in CPUs, NEW rank \in [Slabs -> Nat], NEW n \in Nat, Ranked(c, rank, n)
  PROVE  n <= Cardinality(Slabs) /\ Cardinality(Slabs) \in Nat
<1>1. PICK f \in [1 .. n -> Members(c)] : \A k \in 1 .. n : rank[f[k]] = k - 1
  <2>1. \A k \in 1 .. n : k - 1 \in 0 .. (n - 1)
    OBVIOUS
  <2>2. \A k \in 1 .. n : \E s \in Members(c) : rank[s] = k - 1
    BY <2>1 DEF Ranked
  <2>3. PICK f : f = [k \in 1 .. n |-> CHOOSE s \in Members(c) : rank[s] = k - 1]
    OBVIOUS
  <2> QED
    BY <2>2, <2>3
<1>2. f \in Injection(1 .. n, Slabs)
  <2>1. \A j, k \in 1 .. n : f[j] = f[k] => j = k
    BY <1>1
  <2> QED
    BY <1>1, <2>1 DEF Members, Injection, IsInjective
<1>3. IsFiniteSet(1 .. n) /\ Cardinality(1 .. n) = n
  BY FS_Interval
<1>4. Cardinality(1 .. n) <= Cardinality(Slabs)
  BY <1>2, <1>3, SlabAssumption, FS_Injection DEF ExistsInjection
<1> QED
  BY <1>3, <1>4, SlabAssumption, FS_CardinalityType

(* Following append from the head reads the members by falling rank. *)
LEMMA ChainIs ==
  ASSUME NEW c \in CPUs, NEW rank \in [Slabs -> Nat], NEW n \in Nat, Ranked(c, rank, n)
  PROVE  Chain(c) = Members(c)
<1> USE SlabAssumption
<1>1. PICK N \in Nat : N = Cardinality(Slabs) /\ n <= N
  BY MembersCount
<1> DEFINE Next1(g, k) == IF k = 1 THEN slabs_of_cpu[c]
                          ELSE IF g[k - 1] = Null THEN Null ELSE append[g[k - 1]]
           IsChain(g) == g = [k \in 1 .. N |-> Next1(g, k)]
<1>0. /\ \A s \in Members(c) : s \in Slabs /\ s # Null /\ rank[s] \in Nat /\ rank[s] < n
      /\ \A s, r \in Members(c) : rank[s] = rank[r] => s = r
      /\ \A k \in 0 .. (n - 1) : \E s \in Members(c) : rank[s] = k
      /\ \A s \in Members(c) :
           IF append[s] = Null THEN rank[s] = 0
           ELSE append[s] \in Members(c) /\ rank[s] = rank[append[s]] + 1
      /\ slabs_of_cpu[c] \in Members(c) /\ rank[slabs_of_cpu[c]] + 1 = n
  BY DEF Ranked, Members
<1>2. PICK g :
        /\ IsChain(g)
        /\ \A k \in 1 .. N : IF k <= n THEN g[k] \in Members(c) /\ rank[g[k]] = n - k
                            ELSE g[k] = Null
  <2>1. PICK h : h = [k \in 1 .. N |-> IF k <= n THEN CHOOSE s \in Members(c) : rank[s] = n - k
                                      ELSE Null]
    OBVIOUS
  <2>2. ASSUME NEW k \in 1 .. N, k <= n PROVE h[k] \in Members(c) /\ rank[h[k]] = n - k
    <3>1. n - k \in 0 .. (n - 1)
      BY <2>2
    <3>2. \E s \in Members(c) : rank[s] = n - k
      BY <3>1, <1>0
    <3> QED
      BY <2>1, <2>2, <3>2
  <2>3. ASSUME NEW k \in 1 .. N PROVE h[k] = Next1(h, k)
    <3>1. CASE k = 1
      <4>1. h[1] \in Members(c) /\ rank[h[1]] = n - 1
        BY <3>1, <2>2, <1>0
      <4>2. h[1] = slabs_of_cpu[c]
        BY <4>1, <1>0
      <4> QED
        BY <4>2, <3>1
    <3>2. CASE k # 1 /\ k - 1 <= n
      <4>1. k - 1 \in 1 .. N
        BY <3>2
      <4>2. h[k - 1] \in Members(c) /\ rank[h[k - 1]] = n - (k - 1) /\ h[k - 1] # Null
        BY <4>1, <3>2, <2>2, <1>0
      <4>3. CASE k <= n
        <5>1. h[k] \in Members(c) /\ rank[h[k]] = n - k
          BY <4>3, <2>2
        <5>2. append[h[k - 1]] # Null
          BY <4>2, <4>3, <1>0
        <5>3. /\ append[h[k - 1]] \in Members(c)
              /\ rank[h[k - 1]] = rank[append[h[k - 1]]] + 1
              /\ rank[append[h[k - 1]]] \in Nat
          BY <4>2, <5>2, <1>0
        <5>4. rank[append[h[k - 1]]] = rank[h[k]]
          BY <4>2, <5>1, <5>3
        <5>5. append[h[k - 1]] = h[k]
          BY <5>1, <5>3, <5>4, <1>0
        <5> QED
          BY <5>5, <4>2, <3>2
      <4>4. CASE ~(k <= n)
        <5>1. rank[h[k - 1]] = 0 /\ h[k] = Null
          BY <4>2, <4>4, <3>2, <2>1
        <5>2. append[h[k - 1]] = Null
          <6> SUFFICES ASSUME append[h[k - 1]] # Null PROVE FALSE
            OBVIOUS
          <6>1. append[h[k - 1]] \in Members(c) /\ rank[h[k - 1]] = rank[append[h[k - 1]]] + 1
            BY <4>2, <1>0
          <6>2. rank[append[h[k - 1]]] \in Nat
            BY <6>1, <1>0
          <6> QED
            BY <5>1, <6>1, <6>2
        <5> QED
          BY <5>1, <5>2, <4>2, <3>2
      <4> QED
        BY <4>3, <4>4
    <3>3. CASE k # 1 /\ ~(k - 1 <= n)
      <4>1. k - 1 \in 1 .. N /\ ~(k <= n)
        BY <3>3
      <4>2. h[k - 1] = Null /\ h[k] = Null
        BY <4>1, <3>3, <2>1
      <4> QED
        BY <4>2, <3>3
    <3> QED
      BY <3>1, <3>2, <3>3
  <2>4. h = [k \in 1 .. N |-> h[k]]
    BY <2>1
  <2>5. \A k \in 1 .. N : IF k <= n THEN h[k] \in Members(c) /\ rank[h[k]] = n - k
                        ELSE h[k] = Null
    BY <2>1, <2>2
  <2>6. IsChain(h)
    BY <2>3, <2>4
  <2> QED
    BY <2>5, <2>6
<1>3. PICK f : f = CHOOSE g1 : IsChain(g1)
  OBVIOUS
<1>4. IsChain(f)
  BY <1>2, <1>3
<1>5. Chain(c) = {f[k] : k \in DOMAIN f} \ {Null}
  BY <1>1, <1>3 DEF Chain
<1>6. DOMAIN f = 1 .. N /\ \A k \in 1 .. N : f[k] = Next1(f, k)
  BY <1>4
<1>7. \A k \in 1 .. N : g[k] = Next1(g, k)
  BY <1>2
<1>8. \A k \in 1 .. N : f[k] = g[k]
  <2> DEFINE S == {k \in 1 .. N : f[k] # g[k]}
  <2> SUFFICES ASSUME S # {} PROVE FALSE
    OBVIOUS
  <2>1. PICK m \in S : \A k \in S : m <= k
    <3>1. S \in SUBSET Nat
      OBVIOUS
    <3> HIDE DEF S
    <3> QED
      BY <3>1, LeastCounterexample
  <2>2. m # 1
    BY <2>1, <1>6, <1>7
  <2>3. m - 1 \in 1 .. N /\ m - 1 \notin S
    BY <2>1, <2>2
  <2> QED
    BY <2>1, <2>2, <2>3, <1>6, <1>7
<1>9. ASSUME NEW s \in Members(c) PROVE \E k \in 1 .. N : g[k] = s
  <2>1. PICK k \in 1 .. N : k = n - rank[s] /\ k <= n /\ n - k = rank[s]
    BY <1>0, <1>1
  <2>2. g[k] \in Members(c) /\ rank[g[k]] = rank[s]
    BY <2>1, <1>2
  <2> QED
    BY <2>2, <1>0
<1>10. ASSUME NEW k \in 1 .. N, f[k] # Null PROVE f[k] \in Members(c)
  <2>1. f[k] = g[k]
    BY <1>8
  <2>2. IF k <= n THEN g[k] \in Members(c) ELSE g[k] = Null
    BY <1>2
  <2> QED
    BY <1>10, <2>1, <2>2
<1>11. ASSUME NEW s \in Members(c) PROVE s # Null /\ \E k \in 1 .. N : f[k] = s
  <2>1. PICK k \in 1 .. N : g[k] = s
    BY <1>9
  <2>2. f[k] = g[k]
    BY <1>8
  <2> QED
    BY <1>0, <2>1, <2>2
<1>12. DOMAIN f = 1 .. N
  BY <1>6
<1> HIDE DEF IsChain, Next1
<1> QED
  BY <1>5, <1>10, <1>11, <1>12

(* Whatever is pushed, walked and taken out at the same time, slabs_of_cpu     *)
(* leads to all slabs of a CPU and to no other, each once (slab_init and       *)
(* recover_slab of slab.c).                                                    *)
THEOREM ListsKept == Spec => []ListsComplete
<1>1. ASSUME RInv PROVE ListsComplete
  <2> SUFFICES ASSUME NEW c \in CPUs PROVE Chain(c) = Members(c)
    BY DEF ListsComplete, Members
  <2>1. PICK rank \in [Slabs -> Nat], n \in Nat : Ranked(c, rank, n)
    BY <1>1 DEF RInv, RankInv
  <2> QED
    BY <2>1, ChainIs
<1> QED
  BY <1>1, RankInvariance, PTL
=============================================================================
