------------------------------ MODULE SemaphoreProofs ------------------------------
(* No wake-up is lost, for any tasks, handlers, semaphores and ring size; and
   the wait queue of a semaphore is its sleepers, and sem.c implements
   AbstractSemaphore, whenever the ring has more entries than there are tasks.

   Everything rests on the spinlock: a flow past the spin_lock of its call
   owns the lock of its semaphore (SectionInv), so that resource and the ends of
   the ring do not move under it.  What its earlier steps found out about them
   then still holds when it acts on it (ResourceInv).

   The ring is seen as a sequence: storing at the tail appends to it, moving
   the head takes its first entry off (StoreAppends, AdvanceTails).  The lock
   keeps the others out while a flow is between the two halves of such a step,
   that is between blocked = true and the store, and between blocked = false
   and the move of the head.  A task is in one call at a time, so it sleeps on
   one semaphore and stands in its ring once; this is why the ring is never
   full.                                                                     *)
EXTENDS Semaphore, FiniteSetTheorems, SequenceTheorems, TLAPS

InSection == {"waiting", "enqueue", "pass", "sleep", "signalling", "advance", "done"}

SectionInv ==
  \A f \in Flows :
    /\ pc[f] # "out" => sem[f] \in Sems
    /\ pc[f] \in InSection => lock[sem[f]] = f

(* A task about to queue itself, and a signaller about to move the head past
   the task it has woken, still find the semaphore without resources. *)
ResourceInv ==
  /\ \A s \in Sems : resource[s] > 0 => queue_head[s] = queue_tail[s]
  /\ \A f \in Flows : pc[f] \in {"enqueue", "advance"} => resource[sem[f]] = 0

IInv == TypeOK /\ SectionInv /\ ResourceInv

-----------------------------------------------------------------------------
LEMMA SuccessorSlot == \A k \in Slots : Successor(k) \in Slots
<1> SUFFICES ASSUME NEW k \in Slots PROVE Successor(k) \in Slots
  OBVIOUS
<1>1. SEM_CAPACITY \in Nat /\ SEM_CAPACITY > 0 /\ k + 1 \in Nat
  BY SemaphoreAssumption DEF Slots
<1> QED
  BY <1>1 DEF Slots, Successor

LEMMA InitInv == Init => IInv
BY SemaphoreAssumption
DEF Init, IInv, TypeOK, SectionInv, ResourceInv, InSection, PCs, Slots, Flows

(* Two flows past their spin_lock are in sections of different semaphores. *)
LEMMA Exclusion ==
  ASSUME IInv, NEW f \in Flows, NEW g \in Flows, f # g,
         pc[f] \in InSection, pc[g] \in InSection
  PROVE  sem[f] # sem[g]
BY DEF IInv, SectionInv

-----------------------------------------------------------------------------
(* sem_wait and sem_signal up to the lock. *)
LEMMA CallInv ==
  ASSUME IInv, NEW f \in Flows, NEW s \in Sems, SignalCall(f, s) \/ WaitCall(f, s)
  PROVE  IInv'
<1> USE DEF SignalCall, WaitCall, Goto
<1>1. TypeOK'
  BY DEF IInv, TypeOK, PCs
<1>2. SectionInv'
  BY DEF IInv, TypeOK, SectionInv, InSection
<1>3. ResourceInv'
  BY DEF IInv, TypeOK, ResourceInv
<1> QED
  BY <1>1, <1>2, <1>3 DEF IInv

LEMMA LockInv ==
  ASSUME IInv, NEW f \in Flows, Lock(f)
  PROVE  IInv'
<1> USE DEF Lock, Goto
<1>0. sem[f] \in Sems /\ \A g \in Flows : pc[g] \in InSection => sem[g] # sem[f]
  BY SemaphoreAssumption DEF IInv, SectionInv, TypeOK
<1>1. TypeOK'
  BY <1>0 DEF IInv, TypeOK, PCs
<1>2. SectionInv'
  BY <1>0 DEF IInv, TypeOK, SectionInv, InSection
<1>3. ResourceInv'
  BY DEF IInv, TypeOK, ResourceInv
<1> QED
  BY <1>1, <1>2, <1>3 DEF IInv

(* The steps that give up the lock and return, or go on to sleep. *)
LEMMA UnlockInv ==
  ASSUME IInv, NEW f \in Flows,
         UnlockReturn(f) \/ UnlockSleep(f) \/ (f \in Tasks /\ LeaveLoop(f))
  PROVE  IInv'
<1> USE DEF UnlockReturn, UnlockSleep, LeaveLoop, Goto
<1>1. TypeOK'
  BY DEF IInv, TypeOK, PCs
<1>2. SectionInv'
  BY Exclusion DEF IInv, TypeOK, SectionInv, InSection
<1>3. ResourceInv'
  BY DEF IInv, TypeOK, ResourceInv
<1> QED
  BY <1>1, <1>2, <1>3 DEF IInv

-----------------------------------------------------------------------------
(* The steps of a section. *)
LEMMA TakeResourceInv ==
  ASSUME IInv, NEW f \in Tasks, TakeResource(f)
  PROVE  IInv'
<1> USE DEF TakeResource, Goto
<1>0. f \in Flows /\ sem[f] \in Sems /\ resource[sem[f]] \in Nat
  BY DEF IInv, SectionInv, TypeOK, Flows
<1>1. TypeOK'
  BY <1>0 DEF IInv, TypeOK, PCs
<1>2. SectionInv'
  BY <1>0 DEF IInv, TypeOK, SectionInv, InSection
<1>3. ResourceInv'
  <2>1. \A g \in Flows : pc[g] \in {"enqueue", "advance"} => sem[g] # sem[f]
    BY <1>0, Exclusion DEF InSection
  <2> QED
    BY <1>0, <2>1 DEF IInv, TypeOK, ResourceInv
<1> QED
  BY <1>1, <1>2, <1>3 DEF IInv

LEMMA BlockSelfInv ==
  ASSUME IInv, NEW f \in Tasks, BlockSelf(f)
  PROVE  IInv'
<1> USE DEF BlockSelf, Goto
<1>0. f \in Flows /\ sem[f] \in Sems
  BY DEF IInv, SectionInv, Flows
<1>1. TypeOK'
  BY <1>0 DEF IInv, TypeOK, PCs
<1>2. SectionInv'
  BY <1>0 DEF IInv, TypeOK, SectionInv, InSection
<1>3. ResourceInv'
  BY <1>0 DEF IInv, TypeOK, ResourceInv
<1> QED
  BY <1>1, <1>2, <1>3 DEF IInv

LEMMA EnqueueInv ==
  ASSUME IInv, NEW f \in Tasks, Enqueue(f)
  PROVE  IInv'
<1> USE DEF Enqueue, Goto
<1>0. f \in Flows /\ sem[f] \in Sems /\ resource[sem[f]] = 0
  BY DEF IInv, SectionInv, ResourceInv, Flows
<1>1. TypeOK'
  BY <1>0, SuccessorSlot DEF IInv, TypeOK, PCs
<1>2. SectionInv'
  BY <1>0 DEF IInv, TypeOK, SectionInv, InSection
<1>3. ResourceInv'
  BY <1>0 DEF IInv, TypeOK, ResourceInv
<1> QED
  BY <1>1, <1>2, <1>3 DEF IInv

LEMMA WakeHeadInv ==
  ASSUME IInv, NEW f \in Flows, WakeHead(f)
  PROVE  IInv'
<1> USE DEF WakeHead, HasWaiter, Goto
<1>0. sem[f] \in Sems /\ resource[sem[f]] = 0
  BY DEF IInv, SectionInv
<1>1. TypeOK'
  BY <1>0 DEF IInv, TypeOK, PCs
<1>2. SectionInv'
  BY <1>0 DEF IInv, TypeOK, SectionInv, InSection
<1>3. ResourceInv'
  BY <1>0 DEF IInv, TypeOK, ResourceInv
<1> QED
  BY <1>1, <1>2, <1>3 DEF IInv

LEMMA AdvanceInv ==
  ASSUME IInv, NEW f \in Flows, Advance(f)
  PROVE  IInv'
<1> USE DEF Advance, Goto
<1>0. sem[f] \in Sems /\ resource[sem[f]] = 0
  BY DEF IInv, SectionInv, ResourceInv
<1>1. TypeOK'
  BY <1>0, SuccessorSlot DEF IInv, TypeOK, PCs
<1>2. SectionInv'
  BY <1>0 DEF IInv, TypeOK, SectionInv, InSection
<1>3. ResourceInv'
  BY <1>0 DEF IInv, TypeOK, ResourceInv
<1> QED
  BY <1>1, <1>2, <1>3 DEF IInv

LEMMA PostInv ==
  ASSUME IInv, NEW f \in Flows, Post(f)
  PROVE  IInv'
<1> USE DEF Post, Goto
<1>0. /\ sem[f] \in Sems /\ resource[sem[f]] \in Nat
      /\ queue_head[sem[f]] = queue_tail[sem[f]]
  BY DEF IInv, SectionInv, TypeOK, ResourceInv, HasWaiter
<1>1. TypeOK'
  BY <1>0 DEF IInv, TypeOK, PCs
<1>2. SectionInv'
  BY <1>0 DEF IInv, TypeOK, SectionInv, InSection
<1>3. ResourceInv'
  <2>1. \A g \in Flows : pc[g] \in {"enqueue", "advance"} => sem[g] # sem[f]
    BY <1>0, Exclusion DEF InSection
  <2> QED
    BY <1>0, <2>1 DEF IInv, TypeOK, ResourceInv
<1> QED
  BY <1>1, <1>2, <1>3 DEF IInv

-----------------------------------------------------------------------------
LEMMA NextInv == IInv /\ [Next]_vars => IInv'
<1> SUFFICES ASSUME IInv, [Next]_vars PROVE IInv'
  OBVIOUS
<1>1. ASSUME NEW f \in Flows, Step(f) PROVE IInv'
  BY <1>1, LockInv, UnlockInv, WakeHeadInv, AdvanceInv, PostInv, TakeResourceInv,
    BlockSelfInv, EnqueueInv DEF Step
<1>2. ASSUME NEW f \in Flows, Call(f) PROVE IInv'
  BY <1>2, CallInv DEF Call
<1>3. CASE UNCHANGED vars
  BY <1>3 DEF vars, IInv, TypeOK, SectionInv, ResourceInv
<1> QED
  BY <1>1, <1>2, <1>3 DEF Next

LEMMA Invariance == Spec => []IInv
BY InitInv, NextInv, PTL DEF Spec

(* Every variable keeps its type; head and tail stay inside wait_queue
   (sem.c:40-41, 55). *)
THEOREM TypeCorrect == Spec => []TypeOK
<1>1. IInv => TypeOK
  BY DEF IInv
<1> QED
  BY <1>1, Invariance, PTL

(* A resource that could be taken and a task that waits for one, or is about to
   queue itself, never coexist (sem.c:31-41, 53-58). *)
THEOREM NoWakeupLost == Spec => []NoLostWakeup
<1>1. IInv => NoLostWakeup
  BY DEF IInv, ResourceInv, NoLostWakeup, Flows
<1> QED
  BY <1>1, Invariance, PTL

-----------------------------------------------------------------------------
(* What sem.c takes for granted: with an entry to spare, head = tail means
   that nobody waits (sem.c:40, 53). *)
RingSuffices == IsFiniteSet(Tasks) /\ Cardinality(Tasks) < SEM_CAPACITY

-----------------------------------------------------------------------------
(* Positions of the ring. *)
Between(h, t) == (t + SEM_CAPACITY - h) % SEM_CAPACITY

LEMMA Modulo ==
  /\ \A k \in Slots : k % SEM_CAPACITY = k
  /\ \A k \in SEM_CAPACITY..(2 * SEM_CAPACITY - 1) :
       k % SEM_CAPACITY = k - SEM_CAPACITY
<1> DEFINE n == SEM_CAPACITY
<1>1. n \in Nat \ {0}
  BY SemaphoreAssumption
<1>2. ASSUME NEW k \in 0..(n - 1) PROVE k % n = k
  <2> HIDE DEF n
  <2> QED
    BY <1>1, <1>2
<1>3. ASSUME NEW k \in n..(2 * n - 1) PROVE k % n = k - n
  <2> HIDE DEF n
  <2> QED
    BY <1>1, <1>3
<1> QED
  BY <1>2, <1>3 DEF Slots

LEMMA Capacity == SEM_CAPACITY \in Nat /\ SEM_CAPACITY > 0
BY SemaphoreAssumption

LEMMA SuccessorIs ==
  ASSUME NEW k \in Slots
  PROVE  /\ k + 1 = SEM_CAPACITY => Successor(k) = 0
         /\ k + 1 < SEM_CAPACITY => Successor(k) = k + 1
BY Modulo, Capacity DEF Slots, Successor

LEMMA BetweenIs ==
  ASSUME NEW h \in Slots, NEW t \in Slots
  PROVE  /\ Between(h, t) \in 0..(SEM_CAPACITY - 1)
         /\ h <= t => Between(h, t) = t - h
         /\ h > t => Between(h, t) = t + SEM_CAPACITY - h
BY Modulo, Capacity DEF Slots, Between

(* The place of the k-th entry after the head. *)
Place(h, k) == (h + k - 1) % SEM_CAPACITY

LEMMA PlaceIs ==
  ASSUME NEW h \in Slots, NEW k \in 1..SEM_CAPACITY
  PROVE  /\ Place(h, k) \in Slots
         /\ h + k <= SEM_CAPACITY => Place(h, k) = h + k - 1
         /\ h + k > SEM_CAPACITY => Place(h, k) = h + k - 1 - SEM_CAPACITY
<1>1. h + k - 1 \in Slots \/ h + k - 1 \in SEM_CAPACITY..(2 * SEM_CAPACITY - 1)
  BY Capacity DEF Slots
<1> QED
  BY <1>1, Modulo, Capacity DEF Slots, Place

-----------------------------------------------------------------------------
(* The ring as a sequence. *)
RingOf(q, h, t) == [k \in 1..Between(h, t) |-> q[Place(h, k)]]

LEMMA RingIs ==
  ASSUME NEW s \in Sems
  PROVE  Ring(s) = RingOf(wait_queue[s], queue_head[s], queue_tail[s])
BY DEF Ring, RingOf, Between, Place

LEMMA RingIsSeq ==
  ASSUME NEW S, NEW q \in [Slots -> S], NEW h \in Slots, NEW t \in Slots
  PROVE  /\ Between(h, t) \in 0..(SEM_CAPACITY - 1)
         /\ RingOf(q, h, t) \in Seq(S)
         /\ Len(RingOf(q, h, t)) = Between(h, t)
<1>1. Between(h, t) \in 0..(SEM_CAPACITY - 1)
  BY BetweenIs, Capacity DEF Slots
<1>2. ASSUME NEW k \in 1..Between(h, t) PROVE Place(h, k) \in Slots
  <2>1. k \in 1..SEM_CAPACITY
    BY <1>1, Capacity
  <2> QED
    BY <2>1, PlaceIs, Capacity DEF Slots
<1>3. RingOf(q, h, t) \in [1..Between(h, t) -> S]
  BY <1>2 DEF RingOf
<1>4. RingOf(q, h, t) \in Seq(S)
  BY <1>1, <1>3, SeqDef, Capacity
<1>5. Len(RingOf(q, h, t)) = Between(h, t)
  <2>1. DOMAIN RingOf(q, h, t) = 1..Len(RingOf(q, h, t))
    BY <1>4, LenProperties
  <2>2. Len(RingOf(q, h, t)) \in Nat /\ 1..Len(RingOf(q, h, t)) = 1..Between(h, t)
    BY <2>1, <1>3, <1>4, LenProperties
  <2> QED
    BY <2>2, <1>1, Capacity
<1> QED
  BY <1>1, <1>4, <1>5

(* The positions change as they should. *)
LEMMA StorePlaces ==
  ASSUME NEW h \in Slots, NEW t \in Slots, Between(h, t) + 1 < SEM_CAPACITY
  PROVE  /\ Between(h, Successor(t)) = Between(h, t) + 1
         /\ Place(h, Between(h, t) + 1) = t
         /\ \A k \in 1..Between(h, t) : Place(h, k) \in Slots /\ Place(h, k) # t
<1>1. /\ Successor(t) \in Slots
      /\ t + 1 = SEM_CAPACITY => Successor(t) = 0
      /\ t + 1 < SEM_CAPACITY => Successor(t) = t + 1
  BY SuccessorSlot, SuccessorIs
<1>2. /\ Between(h, t) \in 0..(SEM_CAPACITY - 1)
      /\ h <= t => Between(h, t) = t - h
      /\ h > t => Between(h, t) = t + SEM_CAPACITY - h
  BY BetweenIs
<1>3. /\ h <= Successor(t) => Between(h, Successor(t)) = Successor(t) - h
      /\ h > Successor(t) => Between(h, Successor(t)) = Successor(t) + SEM_CAPACITY - h
  BY <1>1, BetweenIs
<1>4. Between(h, Successor(t)) = Between(h, t) + 1
  BY <1>1, <1>2, <1>3, Capacity DEF Slots
<1>5. ASSUME NEW k \in 1..(Between(h, t) + 1)
      PROVE  /\ Place(h, k) \in Slots
             /\ h + k <= SEM_CAPACITY => Place(h, k) = h + k - 1
             /\ h + k > SEM_CAPACITY => Place(h, k) = h + k - 1 - SEM_CAPACITY
  <2>1. k \in 1..SEM_CAPACITY
    BY <1>2, Capacity
  <2> QED
    BY <2>1, PlaceIs
<1>6. ASSUME NEW k \in 1..Between(h, t) PROVE Place(h, k) \in Slots /\ Place(h, k) # t
  <2>1. k \in 1..(Between(h, t) + 1)
    BY <1>2, Capacity
  <2> QED
    BY <2>1, <1>2, <1>5, Capacity DEF Slots
<1>7. Place(h, Between(h, t) + 1) = t
  <2>1. Between(h, t) + 1 \in 1..(Between(h, t) + 1)
    BY <1>2, Capacity
  <2> QED
    BY <2>1, <1>2, <1>5, Capacity DEF Slots
<1> QED
  BY <1>4, <1>6, <1>7

LEMMA AdvancePlaces ==
  ASSUME NEW h \in Slots, NEW t \in Slots, h # t
  PROVE  /\ Between(h, t) > 0
         /\ Between(Successor(h), t) = Between(h, t) - 1
         /\ Place(h, 1) = h
         /\ \A k \in 1..(Between(h, t) - 1) : Place(Successor(h), k) = Place(h, k + 1)
<1>1. /\ Successor(h) \in Slots
      /\ h + 1 = SEM_CAPACITY => Successor(h) = 0
      /\ h + 1 < SEM_CAPACITY => Successor(h) = h + 1
  BY SuccessorSlot, SuccessorIs
<1>2. /\ Between(h, t) \in 0..(SEM_CAPACITY - 1)
      /\ h <= t => Between(h, t) = t - h
      /\ h > t => Between(h, t) = t + SEM_CAPACITY - h
  BY BetweenIs
<1>3. /\ Successor(h) <= t => Between(Successor(h), t) = t - Successor(h)
      /\ Successor(h) > t => Between(Successor(h), t) = t + SEM_CAPACITY - Successor(h)
  BY <1>1, BetweenIs
<1>4. Between(h, t) > 0 /\ Between(Successor(h), t) = Between(h, t) - 1
  BY <1>1, <1>2, <1>3, Capacity DEF Slots
<1>5. ASSUME NEW k \in 1..(Between(h, t) - 1)
      PROVE  Place(Successor(h), k) = Place(h, k + 1)
  <2>1. k \in 1..SEM_CAPACITY /\ k + 1 \in 1..SEM_CAPACITY
    BY <1>2, Capacity
  <2>2. /\ h + (k + 1) <= SEM_CAPACITY => Place(h, k + 1) = h + (k + 1) - 1
        /\ h + (k + 1) > SEM_CAPACITY
             => Place(h, k + 1) = h + (k + 1) - 1 - SEM_CAPACITY
    BY <2>1, PlaceIs
  <2>3. /\ Successor(h) + k <= SEM_CAPACITY
             => Place(Successor(h), k) = Successor(h) + k - 1
        /\ Successor(h) + k > SEM_CAPACITY
             => Place(Successor(h), k) = Successor(h) + k - 1 - SEM_CAPACITY
    BY <2>1, <1>1, PlaceIs
  <2> QED
    BY <2>1, <2>2, <2>3, <1>1, Capacity DEF Slots
<1>6. Place(h, 1) = h
  <2>1. 1 \in 1..SEM_CAPACITY
    BY Capacity
  <2> QED
    BY <2>1, PlaceIs, Capacity DEF Slots
<1> QED
  BY <1>4, <1>5, <1>6

(* Storing at the tail appends, unless the ring is about to be full. *)
LEMMA StoreAppends ==
  ASSUME NEW S, NEW q \in [Slots -> S], NEW h \in Slots, NEW t \in Slots,
         NEW x \in S, Between(h, t) + 1 < SEM_CAPACITY
  PROVE  RingOf([q EXCEPT ![t] = x], h, Successor(t)) = Append(RingOf(q, h, t), x)
<1>1. PICK p \in [Slots -> S] : p = [q EXCEPT ![t] = x]
  OBVIOUS
<1>2. PICK n \in Nat : n = Between(h, t)
  BY BetweenIs, Capacity
<1>3. PICK old : old = RingOf(q, h, t)
  OBVIOUS
<1>4. PICK new : new = RingOf(p, h, Successor(t))
  OBVIOUS
<1>5. old \in Seq(S) /\ Len(old) = n
  <2>1. RingOf(q, h, t) \in Seq(S) /\ Len(RingOf(q, h, t)) = Between(h, t)
    BY RingIsSeq, ZenonT(60)
  <2> QED
    BY <2>1, <1>2, <1>3
<1>6. \A k \in 1..n : old[k] = q[Place(h, k)]
  <2>1. \A k \in 1..Between(h, t) : RingOf(q, h, t)[k] = q[Place(h, k)]
    BY DEF RingOf
  <2> QED
    BY <2>1, <1>2, <1>3
<1>7. Successor(t) \in Slots /\ Between(h, Successor(t)) = n + 1
  BY <1>2, SuccessorSlot, StorePlaces
<1>8. new \in Seq(S) /\ Len(new) = n + 1
  BY <1>4, <1>7, RingIsSeq, ZenonT(60)
<1>9. \A k \in 1..(n + 1) : new[k] = p[Place(h, k)]
  <2>1. \A k \in 1..Between(h, Successor(t)) :
          RingOf(p, h, Successor(t))[k] = p[Place(h, k)]
    BY DEF RingOf
  <2> QED
    BY <2>1, <1>4, <1>7
<1>10. /\ Append(old, x) \in Seq(S) /\ Len(Append(old, x)) = n + 1
       /\ \A k \in 1..n : Append(old, x)[k] = old[k]
       /\ Append(old, x)[n + 1] = x
  BY <1>5, AppendProperties
<1>11. /\ Place(h, n + 1) = t
       /\ \A k \in 1..n : Place(h, k) \in Slots /\ Place(h, k) # t
  BY <1>2, StorePlaces
<1>12. ASSUME NEW k \in 1..(n + 1) PROVE new[k] = Append(old, x)[k]
  <2>1. CASE k = n + 1
    BY <2>1, <1>1, <1>9, <1>10, <1>11
  <2>2. CASE k # n + 1
    <3>1. k \in 1..n
      BY <2>2
    <3>2. new[k] = q[Place(h, k)]
      BY <3>1, <1>1, <1>9, <1>11
    <3> QED
      BY <3>1, <3>2, <1>6, <1>10
  <2> QED
    BY <2>1, <2>2
<1>13. new = Append(old, x)
  BY <1>8, <1>10, <1>12, SeqEqual
<1> QED
  BY <1>1, <1>3, <1>4, <1>13

(* Moving the head past an entry takes the first one off. *)
LEMMA AdvanceTails ==
  ASSUME NEW S, NEW q \in [Slots -> S], NEW h \in Slots, NEW t \in Slots, h # t
  PROVE  /\ RingOf(q, h, t) # <<>>
         /\ RingOf(q, h, t)[1] = q[h]
         /\ RingOf(q, Successor(h), t) = Tail(RingOf(q, h, t))
<1>1. PICK n \in Nat : n = Between(h, t)
  BY BetweenIs, Capacity
<1>2. PICK old : old = RingOf(q, h, t)
  OBVIOUS
<1>3. PICK new : new = RingOf(q, Successor(h), t)
  OBVIOUS
<1>4. old \in Seq(S) /\ Len(old) = n
  <2>1. RingOf(q, h, t) \in Seq(S) /\ Len(RingOf(q, h, t)) = Between(h, t)
    BY RingIsSeq, ZenonT(60)
  <2> QED
    BY <2>1, <1>1, <1>2
<1>5. \A k \in 1..n : old[k] = q[Place(h, k)]
  <2>1. \A k \in 1..Between(h, t) : RingOf(q, h, t)[k] = q[Place(h, k)]
    BY DEF RingOf
  <2> QED
    BY <2>1, <1>1, <1>2
<1>6. /\ Successor(h) \in Slots /\ n > 0 /\ Between(Successor(h), t) = n - 1
      /\ Place(h, 1) = h
      /\ \A k \in 1..(n - 1) : Place(Successor(h), k) = Place(h, k + 1)
  BY <1>1, SuccessorSlot, AdvancePlaces
<1>7. new \in Seq(S) /\ Len(new) = n - 1
  <2>1. /\ RingOf(q, Successor(h), t) \in Seq(S)
        /\ Len(RingOf(q, Successor(h), t)) = Between(Successor(h), t)
    BY <1>6, RingIsSeq, ZenonT(60)
  <2> QED
    BY <2>1, <1>3, <1>6
<1>8. \A k \in 1..(n - 1) : new[k] = q[Place(Successor(h), k)]
  <2>1. \A k \in 1..Between(Successor(h), t) :
          RingOf(q, Successor(h), t)[k] = q[Place(Successor(h), k)]
    BY DEF RingOf
  <2> QED
    BY <2>1, <1>3, <1>6
<1>9. old # <<>>
  BY <1>4, <1>6, EmptySeq
<1>10. /\ Tail(old) \in Seq(S) /\ Len(Tail(old)) = n - 1
       /\ \A k \in 1..(n - 1) : Tail(old)[k] = old[k + 1]
  BY <1>4, <1>9, HeadTailProperties
<1>11. ASSUME NEW k \in 1..(n - 1) PROVE new[k] = Tail(old)[k]
  <2>1. k + 1 \in 1..n
    BY <1>6
  <2> QED
    BY <2>1, <1>5, <1>6, <1>8, <1>10
<1>12. new = Tail(old)
  BY <1>7, <1>10, <1>11, SeqEqual
<1>13. old[1] = q[h]
  BY <1>5, <1>6
<1> QED
  BY <1>2, <1>3, <1>9, <1>12, <1>13

LEMMA EmptyRing ==
  ASSUME NEW S, NEW q \in [Slots -> S], NEW h \in Slots
  PROVE  RingOf(q, h, h) = <<>>
<1>1. Between(h, h) = 0
  BY BetweenIs, Capacity DEF Slots
<1> QED
  BY <1>1, RingIsSeq, EmptySeq, SMTT(60)

-----------------------------------------------------------------------------
(* Sequences without repetition, and what is in them. *)
Elements(q) == {q[k] : k \in DOMAIN q}
Distinct(q) == \A j, k \in DOMAIN q : q[j] = q[k] => j = k

LEMMA AppendElements ==
  ASSUME NEW S, NEW q \in Seq(S), NEW x \in S, Distinct(q), x \notin Elements(q)
  PROVE  /\ Distinct(Append(q, x))
         /\ Elements(Append(q, x)) = Elements(q) \cup {x}
<1> DEFINE r == Append(q, x)
<1>1. /\ Len(q) \in Nat /\ DOMAIN q = 1..Len(q)
      /\ r \in Seq(S) /\ Len(r) = Len(q) + 1
      /\ \A k \in 1..Len(q) : r[k] = q[k]
      /\ r[Len(q) + 1] = x
  BY AppendProperties, LenProperties
<1>2. DOMAIN r = 1..(Len(q) + 1)
  BY <1>1, LenProperties
<1> HIDE DEF r
<1>3. Distinct(r)
  BY <1>1, <1>2 DEF Distinct, Elements
<1>4. Elements(r) = Elements(q) \cup {x}
  BY <1>1, <1>2 DEF Elements
<1> QED
  BY <1>3, <1>4 DEF r

LEMMA TailElements ==
  ASSUME NEW S, NEW q \in Seq(S), q # <<>>, Distinct(q)
  PROVE  /\ Distinct(Tail(q))
         /\ Elements(Tail(q)) = Elements(q) \ {q[1]}
         /\ Tail(q) \in Seq(S) /\ Head(q) = q[1] /\ q[1] \in Elements(q)
         /\ q[1] \in S
<1>1. /\ Len(q) \in Nat /\ Len(q) > 0 /\ DOMAIN q = 1..Len(q)
      /\ Tail(q) \in Seq(S) /\ Len(Tail(q)) = Len(q) - 1
      /\ \A k \in 1..(Len(q) - 1) : Tail(q)[k] = q[k + 1]
  BY HeadTailProperties, LenProperties, EmptySeq
<1>2. DOMAIN Tail(q) = 1..(Len(q) - 1)
  BY <1>1, LenProperties
<1> DEFINE r == Tail(q)
<1> HIDE DEF r
<1>3. Distinct(r)
  BY <1>1, <1>2 DEF Distinct, r
<1>4. Elements(r) = Elements(q) \ {q[1]}
  <2>1. ASSUME NEW k \in 1..(Len(q) - 1) PROVE r[k] \in Elements(q) \ {q[1]}
    BY <2>1, <1>1 DEF Elements, Distinct, r
  <2>2. ASSUME NEW k \in 1..Len(q), q[k] # q[1] PROVE q[k] \in Elements(r)
    <3>1. k - 1 \in 1..(Len(q) - 1) /\ q[k] = r[k - 1]
      BY <2>2, <1>1 DEF r
    <3> QED
      BY <3>1, <1>2 DEF Elements, r
  <2> QED
    BY <2>1, <2>2, <1>1, <1>2 DEF Elements, r
<1>5. Head(q) = q[1] /\ q[1] \in Elements(q) /\ q[1] \in S
  BY <1>1, ElementOfSeq DEF Elements
<1> QED
  BY <1>1, <1>3, <1>4, <1>5 DEF r

LEMMA DistinctCount ==
  ASSUME NEW S, NEW q \in Seq(S), Distinct(q)
  PROVE  /\ IsFiniteSet(Elements(q))
         /\ Cardinality(Elements(q)) = Len(q)
<1>1. Len(q) \in Nat /\ DOMAIN q = 1..Len(q) /\ q \in [1..Len(q) -> S]
  BY LenProperties
<1>2. q \in Bijection(1..Len(q), Elements(q))
  BY <1>1 DEF Bijection, Injection, Surjection, IsInjective, Elements, Distinct
<1>3. ExistsBijection(1..Len(q), Elements(q))
  BY <1>2 DEF ExistsBijection
<1> QED
  BY <1>1, <1>3, FS_CountingElements, FS_NatBijection

-----------------------------------------------------------------------------
(* The strengthening: the ring holds tasks, each once; a signaller that has
   woken the first entry finds it still there; and those behind it, or all if
   there is no such signaller, are the sleepers. *)
Waker(s) == \E f \in Flows : sem[f] = s /\ pc[f] = "advance"

QueueOk(s) ==
  /\ Ring(s) \in Seq(Tasks)
  /\ Distinct(Ring(s))
  /\ Waker(s) => queue_head[s] # queue_tail[s]
  /\ Elements(Queue(s)) = Sleepers(s)

QueueInv == \A s \in Sems : QueueOk(s)

(* Nobody wakes a task before it has left its own section. *)
BlockedInv == \A x \in Tasks : pc[x] \in {"enqueue", "sleep"} => blocked[x]

QInv == IInv /\ QueueInv /\ BlockedInv

LEMMA QueueCases ==
  ASSUME NEW s
  PROVE  Queue(s) = IF Waker(s) THEN Tail(Ring(s)) ELSE Ring(s)
BY DEF Queue, Waker

LEMMA RingEmptyIff ==
  ASSUME QInv, NEW s \in Sems
  PROVE  /\ queue_head[s] = queue_tail[s] => Ring(s) = <<>>
         /\ queue_head[s] # queue_tail[s] =>
              Ring(s) # <<>> /\ Ring(s)[1] = Served(s)
<1>1. /\ wait_queue[s] \in [Slots -> Tasks \cup {Null}]
      /\ queue_head[s] \in Slots /\ queue_tail[s] \in Slots
  BY DEF QInv, IInv, TypeOK
<1>2. ASSUME queue_head[s] = queue_tail[s] PROVE Ring(s) = <<>>
  BY <1>1, <1>2, RingIs, EmptyRing
<1>3. ASSUME queue_head[s] # queue_tail[s]
      PROVE  Ring(s) # <<>> /\ Ring(s)[1] = wait_queue[s][queue_head[s]]
  <2>1. PICK q \in [Slots -> Tasks \cup {Null}], h \in Slots, t \in Slots :
          q = wait_queue[s] /\ h = queue_head[s] /\ t = queue_tail[s]
    BY <1>1
  <2>2. RingOf(q, h, t) # <<>> /\ RingOf(q, h, t)[1] = q[h]
    BY <2>1, <1>3, AdvanceTails, ZenonT(60)
  <2> QED
    BY <2>1, <2>2, RingIs
<1> QED
  BY <1>2, <1>3 DEF Served

LEMMA RingLength ==
  ASSUME TypeOK, NEW s \in Sems
  PROVE  Len(Ring(s)) = Between(queue_head[s], queue_tail[s])
<1>0. PICK S : S = Tasks \cup {Null}
  OBVIOUS
<1>1. PICK q \in [Slots -> S], h \in Slots, t \in Slots :
        q = wait_queue[s] /\ h = queue_head[s] /\ t = queue_tail[s]
  BY <1>0 DEF TypeOK
<1>2. Len(RingOf(q, h, t)) = Between(h, t)
  BY RingIsSeq, ZenonT(60)
<1> QED
  BY <1>1, <1>2, RingIs

LEMMA InitQueue == Init => QInv
<1> SUFFICES ASSUME Init PROVE QInv
  OBVIOUS
<1>1. IInv
  BY InitInv
<1>2. BlockedInv
  BY DEF Init, BlockedInv, Flows
<1>3. ASSUME NEW s \in Sems PROVE QueueOk(s)
  <2>1. /\ wait_queue[s] \in [Slots -> {Null}]
        /\ queue_head[s] = 0 /\ queue_tail[s] = 0 /\ 0 \in Slots
    BY Capacity DEF Init, Slots
  <2>2. Ring(s) = <<>>
    BY <2>1, RingIs, EmptyRing
  <2>3. ~Waker(s) /\ Sleepers(s) = {}
    BY DEF Init, Waker, Sleepers, Flows
  <2> QED
    BY <2>2, <2>3, QueueCases, EmptySeq DEF QueueOk, Distinct, Elements
<1> QED
  BY <1>1, <1>2, <1>3 DEF QInv, QueueInv

-----------------------------------------------------------------------------
(* A semaphore that a step leaves alone. *)
LEMMA SameQueue ==
  ASSUME NEW s \in Sems, QueueOk(s),
         wait_queue'[s] = wait_queue[s],
         queue_head'[s] = queue_head[s], queue_tail'[s] = queue_tail[s],
         Waker(s)' <=> Waker(s), Sleepers(s)' = Sleepers(s)
  PROVE  QueueOk(s)' /\ Queue(s)' = Queue(s)
<1>1. Ring(s)' = Ring(s)
  BY DEF Ring
<1>2. Queue(s)' = Queue(s)
  BY <1>1, QueueCases DEF Queue, Waker
<1> QED
  BY <1>1, <1>2 DEF QueueOk, Distinct, Elements

(* The steps that touch neither the ring nor a sleeper. *)
Quiet(f) ==
  \/ \E s \in Sems : SignalCall(f, s) \/ WaitCall(f, s)
  \/ Lock(f) \/ UnlockReturn(f) \/ Post(f)
  \/ f \in Tasks /\ (TakeResource(f) \/ BlockSelf(f) \/ UnlockSleep(f) \/ LeaveLoop(f))

LEMMA QuietQueue ==
  ASSUME QInv, NEW f \in Flows, Quiet(f)
  PROVE  QueueInv' /\ BlockedInv' /\ \A s \in Sems : Queue(s)' = Queue(s)
<1> USE DEF Quiet, SignalCall, WaitCall, Lock, UnlockReturn, Post, TakeResource,
  BlockSelf, UnlockSleep, LeaveLoop, Goto
<1>1. UNCHANGED <<wait_queue, queue_head, queue_tail>>
  OBVIOUS
<1>2. pc \in [Flows -> PCs] /\ sem \in [Flows -> Sems \cup {Null}] /\ Tasks \subseteq Flows
  BY DEF QInv, IInv, TypeOK, Flows
<1>3. BlockedInv'
  BY <1>2 DEF QInv, IInv, TypeOK, BlockedInv
<1>4. ASSUME NEW s \in Sems PROVE Waker(s)' <=> Waker(s)
  BY <1>2 DEF Waker
<1>5. ASSUME NEW s \in Sems PROVE Sleepers(s)' = Sleepers(s)
  <2>1. ASSUME NEW x \in Tasks PROVE x \in Sleepers(s)' <=> x \in Sleepers(s)
    BY <1>2 DEF Sleepers, QInv, IInv, TypeOK, Awake
  <2> QED
    BY <2>1 DEF Sleepers
<1>6. ASSUME NEW s \in Sems PROVE QueueOk(s)' /\ Queue(s)' = Queue(s)
  BY <1>1, <1>4, <1>5, SameQueue DEF QInv, QueueInv
<1> QED
  BY <1>3, <1>6 DEF QueueInv

(* The task that stores itself is no sleeper yet, so one entry is to spare. *)
LEMMA EnqueueQueue ==
  ASSUME QInv, RingSuffices, NEW x \in Tasks, Enqueue(x),
         NEW r \in Sems, r = sem[x]
  PROVE  /\ QueueInv' /\ BlockedInv'
         /\ \A s \in Sems : s # r => Queue(s)' = Queue(s)
         /\ Queue(r)' = Append(Queue(r), x)
<1>0. r = sem[x]
  OBVIOUS
<1>1. /\ pc \in [Flows -> PCs] /\ sem \in [Flows -> Sems \cup {Null}]
      /\ Tasks \subseteq Flows /\ x \in Flows
      /\ pc[x] = "enqueue" /\ pc' = [pc EXCEPT ![x] = "sleep"]
      /\ UNCHANGED <<queue_head, blocked, sem>> /\ blocked[x]
  BY <1>0 DEF QInv, IInv, TypeOK, SectionInv, BlockedInv, Flows, Enqueue, Goto
<1>2. /\ wait_queue[r] \in [Slots -> Tasks \cup {Null}]
      /\ queue_head[r] \in Slots /\ queue_tail[r] \in Slots
      /\ wait_queue'[r] = [wait_queue[r] EXCEPT ![queue_tail[r]] = x]
      /\ queue_tail'[r] = Successor(queue_tail[r])
      /\ \A s \in Sems : s # r =>
           wait_queue'[s] = wait_queue[s] /\ queue_tail'[s] = queue_tail[s]
  BY <1>0, <1>1 DEF QInv, IInv, TypeOK, Enqueue
<1>3. BlockedInv'
  BY <1>1 DEF QInv, BlockedInv
<1>4. \A s \in Sems : Waker(s)' <=> Waker(s)
  BY <1>1 DEF Waker
<1>5. ~Waker(r)
  BY <1>0, <1>1, Exclusion DEF QInv, Waker, InSection
<1>6. x \notin Sleepers(r) /\ Sleepers(r)' = Sleepers(r) \cup {x}
  <2>1. ASSUME NEW y \in Tasks
        PROVE  y \in Sleepers(r)' <=> y \in Sleepers(r) \cup {x}
    BY <1>0, <1>1 DEF Sleepers
  <2> QED
    BY <1>1, <2>1 DEF Sleepers
<1>7. ASSUME NEW s \in Sems, s # r PROVE QueueOk(s)' /\ Queue(s)' = Queue(s)
  <2>1. ASSUME NEW y \in Tasks PROVE y \in Sleepers(s)' <=> y \in Sleepers(s)
    BY <1>0, <1>1, <1>7 DEF Sleepers
  <2>2. Sleepers(s)' = Sleepers(s)
    BY <2>1 DEF Sleepers
  <2> QED
    BY <2>2, <1>1, <1>2, <1>4, <1>7, SameQueue DEF QInv, QueueInv
<1>8. /\ Ring(r) \in Seq(Tasks) /\ Distinct(Ring(r)) /\ Queue(r) = Ring(r)
      /\ Elements(Ring(r)) = Sleepers(r)
  BY <1>1, <1>5, QueueCases DEF QInv, QueueInv, QueueOk
<1>9. Between(queue_head[r], queue_tail[r]) + 1 < SEM_CAPACITY
  <2>1. /\ Sleepers(r) \in SUBSET Tasks /\ Sleepers(r) \cup {x} \in SUBSET Tasks
    BY DEF Sleepers
  <2>2. IsFiniteSet(Sleepers(r)) /\ Cardinality(Sleepers(r)) = Len(Ring(r))
    BY <1>8, DistinctCount
  <2>3. Cardinality(Sleepers(r) \cup {x}) = Len(Ring(r)) + 1
    BY <2>2, <1>6, FS_AddElement
  <2>4. Cardinality(Sleepers(r) \cup {x}) <= Cardinality(Tasks)
    BY <2>1, FS_Subset DEF RingSuffices
  <2>5. Len(Ring(r)) = Between(queue_head[r], queue_tail[r])
    BY <1>1, RingLength DEF QInv, IInv
  <2>6. Len(Ring(r)) \in Nat /\ Cardinality(Tasks) \in Nat
    BY <1>8, LenProperties, FS_CardinalityType DEF RingSuffices
  <2> QED
    BY <2>3, <2>4, <2>5, <2>6, Capacity DEF RingSuffices
<1>10. Ring(r)' = Append(Ring(r), x)
  <2>1. RingOf([wait_queue[r] EXCEPT ![queue_tail[r]] = x], queue_head[r],
                Successor(queue_tail[r]))
          = Append(RingOf(wait_queue[r], queue_head[r], queue_tail[r]), x)
    <3>0. PICK S : S = Tasks \cup {Null}
      OBVIOUS
    <3>1. PICK q \in [Slots -> S], h \in Slots, t \in Slots :
            q = wait_queue[r] /\ h = queue_head[r] /\ t = queue_tail[r]
      BY <1>2, <3>0
    <3>2. RingOf([q EXCEPT ![t] = x], h, Successor(t)) = Append(RingOf(q, h, t), x)
      <4>1. x \in S /\ Between(h, t) + 1 < SEM_CAPACITY
        BY <3>0, <3>1, <1>9
      <4> QED
        BY <4>1, StoreAppends, ZenonT(60)
    <3> QED
      BY <3>1, <3>2
  <2>2. Ring(r)' = RingOf(wait_queue'[r], queue_head'[r], queue_tail'[r])
    BY DEF Ring, RingOf, Between, Place
  <2> QED
    BY <2>1, <2>2, <1>1, <1>2, RingIs
<1>11. Queue(r)' = Append(Queue(r), x)
  BY <1>1, <1>4, <1>5, <1>8, <1>10 DEF Queue, Waker
<1>12. QueueOk(r)'
  <2>1. /\ Append(Ring(r), x) \in Seq(Tasks) /\ Distinct(Append(Ring(r), x))
        /\ Elements(Append(Ring(r), x)) = Sleepers(r) \cup {x}
    BY <1>6, <1>8, AppendElements, AppendProperties
  <2>2. ~Waker(r)'
    BY <1>1, <1>4, <1>5
  <2>3. Elements(Queue(r))' = Sleepers(r)'
    BY <2>1, <1>6, <1>8, <1>11 DEF Elements
  <2>4. Ring(r)' \in Seq(Tasks) /\ Distinct(Ring(r))'
    BY <2>1, <1>10 DEF Distinct
  <2> QED
    BY <2>2, <2>3, <2>4 DEF QueueOk
<1> QED
  BY <1>0, <1>1, <1>3, <1>5, <1>7, <1>11, <1>12 DEF QueueInv

(* The first sleeper is awake before the head has moved past it. *)
LEMMA WakeHeadQueue ==
  ASSUME QInv, NEW f \in Flows, WakeHead(f), NEW r \in Sems, r = sem[f]
  PROVE  /\ QueueInv' /\ BlockedInv'
         /\ \A s \in Sems : s # r => Queue(s)' = Queue(s)
         /\ Queue(r) # <<>> /\ Queue(r)' = Tail(Queue(r))
         /\ Head(Queue(r)) = Served(r)
         /\ Served(r) \in Sleepers(r) /\ pc[Served(r)] = "loop"
<1>0. r = sem[f]
  OBVIOUS
<1>1. /\ pc \in [Flows -> PCs] /\ sem \in [Flows -> Sems \cup {Null}]
      /\ Tasks \subseteq Flows /\ blocked \in [Tasks -> BOOLEAN]
      /\ pc[f] = "signalling" /\ pc' = [pc EXCEPT ![f] = "advance"]
      /\ UNCHANGED <<wait_queue, queue_head, queue_tail, sem>>
      /\ queue_head[r] # queue_tail[r]
      /\ blocked' = [blocked EXCEPT ![Served(r)] = FALSE]
  BY <1>0 DEF QInv, IInv, TypeOK, SectionInv, Flows, WakeHead, HasWaiter, Goto
<1>2. ~Waker(r) /\ Waker(r)'
  BY <1>0, <1>1, Exclusion DEF QInv, Waker, InSection
<1>3. /\ Ring(r) \in Seq(Tasks) /\ Distinct(Ring(r)) /\ Queue(r) = Ring(r)
      /\ Elements(Ring(r)) = Sleepers(r)
      /\ Ring(r) # <<>> /\ Ring(r)[1] = Served(r)
  BY <1>1, <1>2, QueueCases, RingEmptyIff DEF QInv, QueueInv, QueueOk
<1>4. /\ Distinct(Tail(Ring(r)))
      /\ Elements(Tail(Ring(r))) = Sleepers(r) \ {Served(r)}
      /\ Head(Ring(r)) = Served(r) /\ Served(r) \in Sleepers(r)
  BY <1>3, TailElements
<1>5. PICK x \in Tasks : x = Served(r)
  BY <1>4 DEF Sleepers
<1>6. /\ sem[x] = r /\ pc[x] = "loop" /\ blocked' = [blocked EXCEPT ![x] = FALSE]
      /\ x # f
  <2>1. sem[x] = r /\ pc[x] \in {"sleep", "loop"}
    BY <1>4, <1>5 DEF Sleepers
  <2>2. pc[x] # "sleep"
    BY <2>1, <1>0, <1>1, Exclusion DEF QInv, InSection
  <2> QED
    BY <2>1, <2>2, <1>1, <1>5
<1>7. BlockedInv'
  BY <1>1, <1>6 DEF QInv, BlockedInv
<1>8. ASSUME NEW s \in Sems, s # r PROVE QueueOk(s)' /\ Queue(s)' = Queue(s)
  <2>1. Waker(s)' <=> Waker(s)
    BY <1>0, <1>1, <1>8 DEF Waker
  <2>2. ASSUME NEW y \in Tasks PROVE y \in Sleepers(s)' <=> y \in Sleepers(s)
    BY <1>1, <1>6, <1>8 DEF Sleepers
  <2>3. Sleepers(s)' = Sleepers(s)
    BY <2>2 DEF Sleepers
  <2> QED
    BY <2>1, <2>3, <1>1, SameQueue DEF QInv, QueueInv
<1>9. Ring(r)' = Ring(r)
  BY <1>1 DEF Ring
<1>10. Queue(r)' = Tail(Queue(r))
  BY <1>2, <1>3, <1>9 DEF Queue, Waker
<1>11. Sleepers(r)' = Sleepers(r) \ {x}
  <2>1. ASSUME NEW y \in Tasks
        PROVE  y \in Sleepers(r)' <=> y \in Sleepers(r) \ {x}
    BY <1>1, <1>6 DEF Sleepers
  <2> QED
    BY <2>1 DEF Sleepers
<1>12. QueueOk(r)'
  <2>1. Elements(Queue(r))' = Sleepers(r)'
    BY <1>3, <1>4, <1>5, <1>10, <1>11 DEF Elements
  <2>2. Ring(r)' \in Seq(Tasks) /\ Distinct(Ring(r))'
    BY <1>3, <1>9 DEF Distinct
  <2>3. queue_head'[r] # queue_tail'[r]
    BY <1>1
  <2> QED
    BY <2>1, <2>2, <2>3 DEF QueueOk
<1>13. QueueInv'
  BY <1>8, <1>12 DEF QueueInv
<1> QED
  BY <1>0, <1>1, <1>2, <1>3, <1>4, <1>5, <1>6, <1>7, <1>8, <1>10, <1>13

LEMMA AdvanceQueue ==
  ASSUME QInv, NEW f \in Flows, Advance(f)
  PROVE  QueueInv' /\ BlockedInv' /\ \A s \in Sems : Queue(s)' = Queue(s)
<1>0. PICK r : r = sem[f]
  OBVIOUS
<1>1. /\ pc \in [Flows -> PCs] /\ sem \in [Flows -> Sems \cup {Null}]
      /\ Tasks \subseteq Flows /\ r \in Sems
      /\ pc[f] = "advance" /\ pc' = [pc EXCEPT ![f] = "done"]
      /\ UNCHANGED <<wait_queue, queue_tail, blocked, sem>>
  BY <1>0 DEF QInv, IInv, TypeOK, SectionInv, Flows, Advance, Goto
<1>2. /\ wait_queue[r] \in [Slots -> Tasks \cup {Null}]
      /\ queue_head[r] \in Slots /\ queue_tail[r] \in Slots
      /\ queue_head'[r] = Successor(queue_head[r])
      /\ \A s \in Sems : s # r => queue_head'[s] = queue_head[s]
  BY <1>0, <1>1 DEF QInv, IInv, TypeOK, Advance
<1>3. BlockedInv'
  BY <1>1 DEF QInv, BlockedInv
<1>4. Waker(r) /\ ~Waker(r)'
  BY <1>0, <1>1, Exclusion DEF QInv, Waker, InSection
<1>5. ASSUME NEW s \in Sems PROVE Sleepers(s)' = Sleepers(s)
  <2>1. ASSUME NEW y \in Tasks PROVE y \in Sleepers(s)' <=> y \in Sleepers(s)
    BY <1>1 DEF Sleepers
  <2> QED
    BY <2>1 DEF Sleepers
<1>6. ASSUME NEW s \in Sems, s # r PROVE QueueOk(s)' /\ Queue(s)' = Queue(s)
  <2>1. Waker(s)' <=> Waker(s)
    BY <1>0, <1>1, <1>6 DEF Waker
  <2> QED
    BY <2>1, <1>1, <1>2, <1>5, <1>6, SameQueue DEF QInv, QueueInv
<1>7. /\ Ring(r) \in Seq(Tasks) /\ Distinct(Ring(r)) /\ Queue(r) = Tail(Ring(r))
      /\ Ring(r) # <<>> /\ Elements(Queue(r)) = Sleepers(r)
      /\ queue_head[r] # queue_tail[r]
  BY <1>1, <1>4, QueueCases, RingEmptyIff DEF QInv, QueueInv, QueueOk
<1>8. Ring(r)' = Tail(Ring(r))
  <2>1. Ring(r)' = RingOf(wait_queue'[r], queue_head'[r], queue_tail'[r])
    BY DEF Ring, RingOf, Between, Place
  <2> QED
    <3>1. PICK q \in [Slots -> Tasks \cup {Null}], h \in Slots, t \in Slots :
            q = wait_queue[r] /\ h = queue_head[r] /\ t = queue_tail[r]
      BY <1>2
    <3>2. RingOf(q, Successor(h), t) = Tail(RingOf(q, h, t))
      BY <3>1, <1>7, AdvanceTails
    <3> QED
      BY <3>1, <3>2, <2>1, <1>1, <1>2, RingIs
<1>9. Queue(r)' = Queue(r)
  BY <1>4, <1>7, <1>8 DEF Queue, Waker
<1>10. QueueOk(r)'
  <2>1. Tail(Ring(r)) \in Seq(Tasks) /\ Distinct(Tail(Ring(r)))
    BY <1>7, TailElements
  <2>2. Elements(Queue(r))' = Sleepers(r)'
    BY <1>1, <1>5, <1>7, <1>9 DEF Elements
  <2>3. Ring(r)' \in Seq(Tasks) /\ Distinct(Ring(r))'
    BY <2>1, <1>8 DEF Distinct
  <2> QED
    BY <2>2, <2>3, <1>4 DEF QueueOk
<1> QED
  BY <1>3, <1>6, <1>9, <1>10, <1>1 DEF QueueInv

-----------------------------------------------------------------------------
LEMMA StepCases ==
  ASSUME Next
  PROVE  \/ \E f \in Flows : Quiet(f) \/ WakeHead(f) \/ Advance(f)
         \/ \E x \in Tasks : Enqueue(x)
BY DEF Next, Step, Call, Quiet

LEMMA StutterQueue ==
  ASSUME QInv, UNCHANGED vars
  PROVE  /\ QueueInv' /\ BlockedInv'
         /\ \A s \in Sems : Queue(s)' = Queue(s) /\ Admitted(s)' = Admitted(s)
<1>1. ASSUME NEW s \in Sems
      PROVE  QueueOk(s)' /\ Queue(s)' = Queue(s) /\ Admitted(s)' = Admitted(s)
  <2>1. /\ Waker(s)' <=> Waker(s)
        /\ Sleepers(s)' = Sleepers(s) /\ Admitted(s)' = Admitted(s)
    BY DEF vars, Waker, Sleepers, Admitted
  <2> QED
    BY <2>1, SameQueue DEF vars, QInv, QueueInv
<1> QED
  BY <1>1 DEF QInv, QueueInv, BlockedInv, vars

LEMMA NextQueue == ASSUME RingSuffices PROVE QInv /\ [Next]_vars => QInv'
<1> SUFFICES ASSUME QInv, [Next]_vars PROVE QInv'
  OBVIOUS
<1>1. IInv'
  BY NextInv DEF QInv
<1>2. CASE Next
  <2>1. ASSUME NEW f \in Flows, Quiet(f) \/ Advance(f) PROVE QueueInv' /\ BlockedInv'
    BY <2>1, QuietQueue, AdvanceQueue
  <2>2. ASSUME NEW f \in Flows, WakeHead(f) PROVE QueueInv' /\ BlockedInv'
    <3>1. PICK r \in Sems : r = sem[f]
      BY <2>2 DEF QInv, IInv, SectionInv, WakeHead
    <3> QED
      BY <2>2, <3>1, WakeHeadQueue
  <2>3. ASSUME NEW x \in Tasks, Enqueue(x) PROVE QueueInv' /\ BlockedInv'
    <3>1. PICK r \in Sems : r = sem[x]
      BY <2>3 DEF QInv, IInv, SectionInv, Enqueue, Flows
    <3> QED
      BY <2>3, <3>1, EnqueueQueue
  <2> QED
    BY <1>1, <1>2, <2>1, <2>2, <2>3, StepCases DEF QInv
<1>3. CASE UNCHANGED vars
  BY <1>1, <1>3, StutterQueue DEF QInv
<1> QED
  BY <1>2, <1>3

LEMMA QueueInvariance == ASSUME RingSuffices PROVE Spec => []QInv
BY InitQueue, NextQueue, PTL DEF Spec

(* In a ring with more entries than there are tasks, no sleeper is dropped,
   left in the queue awake or queued twice (sem.c:37-40, 54-55). *)
THEOREM QueueIsSleepers ==
  ASSUME RingSuffices
  PROVE  Spec => []SleepersQueued
<1>1. ASSUME QInv PROVE SleepersQueued
  <2>1. ASSUME NEW s \in Sems
        PROVE  /\ {Queue(s)[k] : k \in DOMAIN Queue(s)} = Sleepers(s)
               /\ Len(Queue(s)) = Cardinality(Sleepers(s))
    <3>1. Elements(Queue(s)) = Sleepers(s) /\ Ring(s) \in Seq(Tasks) /\ Distinct(Ring(s))
      BY <1>1 DEF QInv, QueueInv, QueueOk
    <3>2. Queue(s) \in Seq(Tasks) /\ Distinct(Queue(s))
      <4>1. CASE Waker(s)
        <5>1. Ring(s) # <<>>
          BY <1>1, <4>1, RingEmptyIff DEF QInv, QueueInv, QueueOk
        <5> QED
          BY <4>1, <5>1, <3>1, QueueCases, TailElements
      <4>2. CASE ~Waker(s)
        BY <4>2, <3>1, QueueCases
      <4> QED
        BY <4>1, <4>2
    <3>3. Cardinality(Elements(Queue(s))) = Len(Queue(s))
      BY <3>2, DistinctCount
    <3> QED
      BY <3>1, <3>3 DEF Elements
  <2> QED
    BY <2>1 DEF SleepersQueued
<1> QED
  BY <1>1, QueueInvariance, PTL

-----------------------------------------------------------------------------
(* Refinement: the map of Abs, step by step. *)
AbsStep == Abs!Next \/ UNCHANGED Abs!vars

LEMMA NotBusy ==
  ASSUME QInv, NEW x \in Tasks, pc[x] \in {"waiting", "enqueue"}
  PROVE  ~Abs!Busy(x)
<1>1. ASSUME NEW s \in Sems PROVE x \notin Admitted(s) /\ x \notin Elements(Queue(s))
  BY DEF QInv, QueueInv, QueueOk, Admitted, Sleepers
<1> QED
  BY <1>1 DEF Abs!Busy, Elements

(* Steps of a section that the abstract semaphores do not see. *)
LEMMA Stutters ==
  ASSUME UNCHANGED resource,
         \A s \in Sems : Queue(s)' = Queue(s),
         \A s \in Sems : Admitted(s)' = Admitted(s)
  PROVE  AbsStep
<1>1. [s \in Sems |-> Queue(s)]' = [s \in Sems |-> Queue(s)]
  OBVIOUS
<1>2. [s \in Sems |-> Admitted(s)]' = [s \in Sems |-> Admitted(s)]
  OBVIOUS
<1> QED
  BY <1>1, <1>2 DEF AbsStep, Abs!vars

LEMMA QuietStutters ==
  ASSUME QInv, NEW f \in Flows,
         \/ \E s \in Sems : SignalCall(f, s) \/ WaitCall(f, s)
         \/ Lock(f)
         \/ UnlockReturn(f) /\ ~(f \in Tasks /\ pc[f] = "pass")
         \/ f \in Tasks /\ (BlockSelf(f) \/ UnlockSleep(f))
  PROVE  AbsStep
<1>1. \A s \in Sems : Queue(s)' = Queue(s)
  BY QuietQueue DEF Quiet
<1>2. UNCHANGED resource
  BY DEF SignalCall, WaitCall, Lock, UnlockReturn, BlockSelf, UnlockSleep
<1>3. pc \in [Flows -> PCs] /\ sem \in [Flows -> Sems \cup {Null}] /\ Tasks \subseteq Flows
  BY DEF QInv, IInv, TypeOK, Flows
<1>4. ASSUME NEW s \in Sems PROVE Admitted(s)' = Admitted(s)
  <2>1. ASSUME NEW x \in Tasks PROVE x \in Admitted(s)' <=> x \in Admitted(s)
    BY <1>3 DEF Admitted, QInv, IInv, TypeOK, BlockedInv, SignalCall, WaitCall, Lock,
      UnlockReturn, BlockSelf, UnlockSleep, Goto
  <2> QED
    BY <2>1 DEF Admitted
<1> QED
  BY <1>1, <1>2, <1>4, Stutters

LEMMA ReturnStep ==
  ASSUME QInv, NEW x \in Tasks, LeaveLoop(x) \/ (UnlockReturn(x) /\ pc[x] = "pass")
  PROVE  AbsStep
<1>1. x \in Flows /\ \A s \in Sems : Queue(s)' = Queue(s)
  BY QuietQueue DEF Quiet, Flows
<1>2. UNCHANGED resource
  BY DEF UnlockReturn, LeaveLoop
<1>3. /\ pc \in [Flows -> PCs] /\ sem \in [Flows -> Sems \cup {Null}]
      /\ Tasks \subseteq Flows /\ sem[x] \in Sems
  BY DEF QInv, IInv, TypeOK, SectionInv, Flows, LeaveLoop, UnlockReturn
<1>4. PICK r \in Sems : r = sem[x]
  BY <1>3
<1>5. x \in Admitted(r)
  BY <1>4 DEF Admitted, LeaveLoop, UnlockReturn, Awake
<1>6. ASSUME NEW s \in Sems
      PROVE  Admitted(s)' = IF s = r THEN Admitted(s) \ {x} ELSE Admitted(s)
  <2>1. ASSUME NEW y \in Tasks
        PROVE  y \in Admitted(s)' <=> y \in (IF s = r THEN Admitted(s) \ {x} ELSE Admitted(s))
    BY <1>3, <1>4 DEF Admitted, LeaveLoop, UnlockReturn, Goto
  <2> QED
    BY <2>1 DEF Admitted
<1>7. Abs!Return(r, x)
  <2>1. [s \in Sems |-> Queue(s)]' = [s \in Sems |-> Queue(s)]
    BY <1>1
  <2>2. [s \in Sems |-> Admitted(s)]'
          = [[s \in Sems |-> Admitted(s)] EXCEPT ![r] = @ \ {x}]
    BY <1>6
  <2>3. x \in [s \in Sems |-> Admitted(s)][r]
    BY <1>5
  <2> QED
    BY <2>1, <2>2, <2>3, <1>2 DEF Abs!Return
<1> QED
  BY <1>7 DEF AbsStep, Abs!Next

LEMMA TakeStep ==
  ASSUME QInv, NEW x \in Tasks, TakeResource(x)
  PROVE  AbsStep
<1>1. x \in Flows /\ \A s \in Sems : Queue(s)' = Queue(s)
  BY QuietQueue DEF Quiet, Flows
<1>2. /\ pc \in [Flows -> PCs] /\ sem \in [Flows -> Sems \cup {Null}]
      /\ Tasks \subseteq Flows /\ sem[x] \in Sems
  BY DEF QInv, IInv, TypeOK, SectionInv, Flows, TakeResource
<1>3. PICK r \in Sems : r = sem[x]
  BY <1>2
<1>4. ~Abs!Busy(x)
  BY NotBusy DEF TakeResource
<1>5. ASSUME NEW s \in Sems
      PROVE  Admitted(s)' = IF s = r THEN Admitted(s) \cup {x} ELSE Admitted(s)
  <2>1. ASSUME NEW y \in Tasks
        PROVE  y \in Admitted(s)'
                 <=> y \in (IF s = r THEN Admitted(s) \cup {x} ELSE Admitted(s))
    BY <1>2, <1>3 DEF Admitted, TakeResource, Goto
  <2> QED
    BY <2>1 DEF Admitted
<1>6. Abs!Take(r, x)
  <2>1. [s \in Sems |-> Queue(s)]' = [s \in Sems |-> Queue(s)]
    BY <1>1
  <2>2. [s \in Sems |-> Admitted(s)]'
          = [[s \in Sems |-> Admitted(s)] EXCEPT ![r] = @ \cup {x}]
    BY <1>5
  <2>3. resource[r] > 0 /\ resource' = [resource EXCEPT ![r] = @ - 1]
    BY <1>3 DEF TakeResource
  <2> QED
    BY <2>1, <2>2, <2>3, <1>4 DEF Abs!Take
<1> QED
  BY <1>6 DEF AbsStep, Abs!Next

LEMMA JoinStep ==
  ASSUME QInv, RingSuffices, NEW x \in Tasks, Enqueue(x)
  PROVE  AbsStep
<1>1. /\ pc \in [Flows -> PCs] /\ sem \in [Flows -> Sems \cup {Null}]
      /\ Tasks \subseteq Flows /\ sem[x] \in Sems
      /\ pc[x] = "enqueue" /\ resource[sem[x]] = 0 /\ blocked[x]
  BY DEF QInv, IInv, TypeOK, SectionInv, ResourceInv, BlockedInv, Flows, Enqueue
<1>2. PICK r \in Sems : r = sem[x]
  BY <1>1
<1>3. ~Abs!Busy(x)
  BY <1>1, NotBusy
<1>4. ASSUME NEW s \in Sems
      PROVE  Queue(s)' = IF s = r THEN Append(Queue(s), x) ELSE Queue(s)
  BY <1>2, EnqueueQueue
<1>5. ASSUME NEW s \in Sems PROVE Admitted(s)' = Admitted(s)
  <2>1. ASSUME NEW y \in Tasks PROVE y \in Admitted(s)' <=> y \in Admitted(s)
    BY <1>1 DEF Admitted, Enqueue, Goto
  <2> QED
    BY <2>1 DEF Admitted
<1>6. Abs!Join(r, x)
  <2>1. [s \in Sems |-> Queue(s)]'
          = [[s \in Sems |-> Queue(s)] EXCEPT ![r] = Append(@, x)]
    BY <1>4
  <2>2. [s \in Sems |-> Admitted(s)]' = [s \in Sems |-> Admitted(s)]
    BY <1>5
  <2>3. resource[r] = 0 /\ resource' = resource
    BY <1>1, <1>2 DEF Enqueue
  <2> QED
    BY <2>1, <2>2, <2>3, <1>3 DEF Abs!Join
<1> QED
  BY <1>6 DEF AbsStep, Abs!Next

LEMMA HandOverStep ==
  ASSUME QInv, NEW f \in Flows, WakeHead(f)
  PROVE  AbsStep
<1>1. /\ pc \in [Flows -> PCs] /\ sem \in [Flows -> Sems \cup {Null}]
      /\ Tasks \subseteq Flows /\ sem[f] \in Sems /\ blocked \in [Tasks -> BOOLEAN]
  BY DEF QInv, IInv, TypeOK, SectionInv, Flows, WakeHead
<1>2. PICK r \in Sems : r = sem[f]
  BY <1>1
<1>3. /\ \A s \in Sems : s # r => Queue(s)' = Queue(s)
      /\ Queue(r) # <<>> /\ Queue(r)' = Tail(Queue(r))
      /\ Head(Queue(r)) = Served(r)
      /\ Served(r) \in Sleepers(r) /\ pc[Served(r)] = "loop"
  BY <1>2, WakeHeadQueue
<1>4. PICK x \in Tasks : x = Served(r)
  BY <1>3 DEF Sleepers
<1>5. sem[x] = r /\ pc[x] = "loop" /\ x # f
  BY <1>3, <1>4 DEF Sleepers, WakeHead
<1>6. ASSUME NEW s \in Sems
      PROVE  Admitted(s)' = IF s = r THEN Admitted(s) \cup {x} ELSE Admitted(s)
  <2>1. ASSUME NEW y \in Tasks
        PROVE  y \in Admitted(s)'
                 <=> y \in (IF s = r THEN Admitted(s) \cup {x} ELSE Admitted(s))
    BY <1>1, <1>2, <1>4, <1>5 DEF Admitted, WakeHead, Goto
  <2> QED
    BY <2>1 DEF Admitted
<1>7. Abs!HandOver(r)
  <2>1. [s \in Sems |-> Queue(s)]'
          = [[s \in Sems |-> Queue(s)] EXCEPT ![r] = Tail(@)]
    BY <1>3
  <2>2. [s \in Sems |-> Admitted(s)]'
          = [[s \in Sems |-> Admitted(s)] EXCEPT ![r] = @ \cup {Head(Queue(r))}]
    BY <1>3, <1>4, <1>6
  <2>3. resource' = resource
    BY DEF WakeHead
  <2> QED
    BY <2>1, <2>2, <2>3, <1>3 DEF Abs!HandOver
<1> QED
  BY <1>7 DEF AbsStep, Abs!Next

LEMMA AdvanceStep ==
  ASSUME QInv, NEW f \in Flows, Advance(f)
  PROVE  AbsStep
<1>1. \A s \in Sems : Queue(s)' = Queue(s)
  BY AdvanceQueue
<1>2. pc \in [Flows -> PCs] /\ Tasks \subseteq Flows
  BY DEF QInv, IInv, TypeOK, Flows
<1>3. ASSUME NEW s \in Sems PROVE Admitted(s)' = Admitted(s)
  <2>1. ASSUME NEW y \in Tasks PROVE y \in Admitted(s)' <=> y \in Admitted(s)
    BY <1>2 DEF Admitted, Advance, Goto
  <2> QED
    BY <2>1 DEF Admitted
<1> QED
  BY <1>1, <1>3, Stutters DEF Advance

LEMMA ReleaseStep ==
  ASSUME QInv, NEW f \in Flows, Post(f)
  PROVE  AbsStep
<1>1. /\ pc \in [Flows -> PCs] /\ sem \in [Flows -> Sems \cup {Null}]
      /\ Tasks \subseteq Flows /\ sem[f] \in Sems /\ pc[f] = "signalling"
      /\ resource[sem[f]] \in Nat
  BY DEF QInv, IInv, TypeOK, SectionInv, Flows, Post
<1>2. PICK r \in Sems : r = sem[f]
  BY <1>1
<1>3. \A s \in Sems : Queue(s)' = Queue(s)
  BY QuietQueue DEF Quiet
<1>4. queue_head[r] = queue_tail[r]
  BY <1>1, <1>2 DEF QInv, IInv, ResourceInv, Post, HasWaiter
<1>5. Queue(r) = <<>>
  <2>1. ~Waker(r)
    BY <1>4 DEF QInv, QueueInv, QueueOk
  <2> QED
    BY <2>1, <1>4, QueueCases, RingEmptyIff
<1>6. ASSUME NEW s \in Sems PROVE Admitted(s)' = Admitted(s)
  <2>1. ASSUME NEW y \in Tasks PROVE y \in Admitted(s)' <=> y \in Admitted(s)
    BY <1>1 DEF Admitted, Post, Goto
  <2> QED
    BY <2>1 DEF Admitted
<1>7. Abs!Release(r)
  <2>1. [s \in Sems |-> Queue(s)]' = [s \in Sems |-> Queue(s)]
    BY <1>3
  <2>2. [s \in Sems |-> Admitted(s)]' = [s \in Sems |-> Admitted(s)]
    BY <1>6
  <2>3. resource' = [resource EXCEPT ![r] = @ + 1]
    BY <1>2 DEF Post
  <2> QED
    BY <2>1, <2>2, <2>3, <1>5 DEF Abs!Release
<1> QED
  BY <1>7 DEF AbsStep, Abs!Next

-----------------------------------------------------------------------------
LEMMA InitAbs == Init => Abs!Init
<1> SUFFICES ASSUME Init PROVE Abs!Init
  OBVIOUS
<1>1. ASSUME NEW s \in Sems PROVE Queue(s) = <<>> /\ Admitted(s) = {}
  <2>1. QInv
    BY InitQueue
  <2>2. queue_head[s] = queue_tail[s] /\ ~Waker(s)
    BY DEF Init, Waker, Flows
  <2> QED
    BY <2>1, <2>2, QueueCases, RingEmptyIff DEF Init, Admitted, Flows
<1> QED
  BY <1>1 DEF Init, Abs!Init

LEMMA NextAbs == ASSUME RingSuffices PROVE QInv /\ [Next]_vars => AbsStep
<1> SUFFICES ASSUME QInv, [Next]_vars PROVE AbsStep
  OBVIOUS
<1>1. ASSUME NEW f \in Flows, Quiet(f) PROVE AbsStep
  BY <1>1, QuietStutters, ReturnStep, TakeStep, ReleaseStep DEF Quiet
<1>2. ASSUME NEW f \in Flows, WakeHead(f) \/ Advance(f) PROVE AbsStep
  BY <1>2, HandOverStep, AdvanceStep
<1>3. CASE UNCHANGED vars
  BY <1>3, StutterQueue, Stutters DEF vars
<1> QED
  BY <1>1, <1>2, <1>3, StepCases, JoinStep

(* In spite of the window between blocked = false and the move of the head,
   sem_wait and sem_signal are those of counting semaphores that hand over
   first-in first-out (sem.c:24-66). *)
THEOREM Refines ==
  ASSUME RingSuffices
  PROVE  Spec => ImplementsAbstract
<1>1. QInv /\ [Next]_vars => [Abs!Next]_(Abs!vars)
  BY NextAbs DEF AbsStep
<1> QED
  BY <1>1, InitAbs, QueueInvariance, PTL DEF Spec, ImplementsAbstract, Abs!Spec
=============================================================================
