--------------------------- MODULE SpinlockProofs ---------------------------
(* Spinlocks keep their promises for any numbers of CPUs, threads and locks.

   At each moment a flow is either executed by one CPU (ExecOK: the CPU's flag
   and counters are those of this flow) or parked (Parked: it was interrupted
   with interrupts on, so outside every section, and its frame holds the flag it
   had).  What a flow remembers of the flag in a local variable is right
   wherever it is (FlowOK).                                                  *)
EXTENDS Spinlock, TLAPS, FiniteSetTheorems

Spins(f) == holds[f] \cap SpinLocks

FlowOK(f) ==
  /\ pc[f] \notin {"kcrit", "kxchg"} => holds[f] \subseteq SpinLocks
  /\ pc[f] \in {"off", "xchg"} => want[f] \in SpinLocks
  /\ pc[f] = "kxchg" => want[f] \in RawLocks
  /\ pc[f] \in {"off", "kold", "kcrit", "kxchg"} =>
       (old[f] <=> AmbientIF(f) /\ Spins(f) = {})

FlagOK(c) ==
  /\ pc[Cur(c)] \in {"run", "off", "kold"} =>
       (ienabled[c] <=> AmbientIF(Cur(c)) /\ holds[Cur(c)] = {})
  /\ pc[Cur(c)] \in {"xchg", "drop", "kcrit", "kxchg"} => ~ienabled[c]

NestOK(c) ==
  /\ i_nest_num[c] = Depth(Cur(c))
  /\ i_nest_num[c] > 0 => (i_enable[c] <=> AmbientIF(Cur(c)))

ExecOK(c) == FlagOK(c) /\ NestOK(c)

Parked(f) ==
  /\ pc[f] \in {"run", "off", "kold"} /\ holds[f] = {}
  /\ f \in Threads => (savedIF[f] <=> ambient[f])

StacksInv == \A c, d \in CPUs : on[c] = on[d] => c = d
FlowInv == \A f \in Flows : FlowOK(f)
ExecInv == \A c \in CPUs : ExecOK(c)
ParkedInv == \A f \in Flows : (\A c \in CPUs : Cur(c) # f) => Parked(f)

IInv ==
  TypeOK /\ MutualExclusion /\ StacksInv /\ FlowInv /\ ExecInv /\ ParkedInv

-----------------------------------------------------------------------------
LEMMA CurFlow ==
  ASSUME TypeOK, StacksInv
  PROVE  /\ \A c \in CPUs : Cur(c) \in Flows
         /\ \A c, d \in CPUs : Cur(c) = Cur(d) => c = d
         /\ \A c \in CPUs : (Cur(c) \in Threads <=> ~inTrap[c])
BY SpinlockAssumption DEF TypeOK, StacksInv, Cur, Flows

LEMMA LocksApart == SpinLocks \cap RawLocks = {} /\ NoLock \notin Locks
BY SpinlockAssumption

LEMMA SpinsFinite == \A f : IsFiniteSet(Spins(f)) /\ Cardinality(Spins(f)) \in Nat
<1> SUFFICES ASSUME NEW f PROVE IsFiniteSet(Spins(f)) /\ Cardinality(Spins(f)) \in Nat
  OBVIOUS
<1>1. IsFiniteSet(Spins(f))
  BY SpinlockAssumption, FS_Subset DEF Spins
<1> QED
  BY <1>1, FS_CardinalityType

LEMMA DepthOf ==
  \A f : Depth(f) = Cardinality(Spins(f)) + IF pc[f] \in {"xchg", "drop"} THEN 1 ELSE 0
BY DEF Depth, Spins

(* Between sections the depth is zero, and nothing is held but raw locks. *)
LEMMA DepthZero ==
  \A f : /\ Depth(f) \in Nat
         /\ Depth(f) = 0 <=> Spins(f) = {} /\ pc[f] \notin {"xchg", "drop"}
<1> SUFFICES ASSUME NEW f
             PROVE  /\ Depth(f) \in Nat
                    /\ Depth(f) = 0 <=> Spins(f) = {} /\ pc[f] \notin {"xchg", "drop"}
  OBVIOUS
<1>1. Cardinality(Spins(f)) \in Nat /\ (Cardinality(Spins(f)) = 0 <=> Spins(f) = {})
  BY SpinsFinite, FS_EmptySet
<1> QED
  BY <1>1, DepthOf

LEMMA InitInv == Init => IInv
<1> SUFFICES ASSUME Init PROVE IInv
  OBVIOUS
<1> USE SpinlockAssumption DEF Init, Flows
<1>1. TypeOK
  BY DEF TypeOK, PCs
<1>2. MutualExclusion
  BY DEF MutualExclusion
<1>3. StacksInv
  BY DEF StacksInv
<1>4. FlowInv
  BY DEF FlowInv, FlowOK
<1>5. ExecInv
  <2> SUFFICES ASSUME NEW c \in CPUs PROVE ExecOK(c)
    BY DEF ExecInv
  <2>1. /\ Cur(c) = BootOf[c] /\ Cur(c) \in Flows /\ pc[Cur(c)] = "run"
        /\ holds[Cur(c)] = {} /\ ~AmbientIF(Cur(c)) /\ ~ienabled[c] /\ i_nest_num[c] = 0
    BY DEF Cur, AmbientIF
  <2>2. Depth(Cur(c)) = 0
    BY <2>1, DepthZero DEF Spins
  <2> QED
    BY <2>1, <2>2 DEF ExecOK, FlagOK, NestOK
<1>6. ParkedInv
  <2> SUFFICES ASSUME NEW f \in Flows, \A c \in CPUs : Cur(c) # f PROVE Parked(f)
    BY DEF ParkedInv
  <2>1. f \in Threads => \A c \in CPUs : BootOf[c] # f
    BY DEF Cur
  <2> QED
    BY <2>1 DEF Parked
<1> QED
  BY <1>1, <1>2, <1>3, <1>4, <1>5, <1>6 DEF IInv

-----------------------------------------------------------------------------
(* A step of the flow f that c executes, other than a trap, concerns f and c. *)
Local(c, f) ==
  /\ UNCHANGED <<on, inTrap, savedIF>>
  /\ \A g \in Flows \ {f} :
       /\ pc'[g] = pc[g] /\ want'[g] = want[g] /\ old'[g] = old[g]
       /\ holds'[g] = holds[g]
  /\ \A g \in Threads \ {f} : ambient'[g] = ambient[g]
  /\ \A d \in CPUs \ {c} : /\ ienabled'[d] = ienabled[d]
                           /\ i_nest_num'[d] = i_nest_num[d]
                           /\ i_enable'[d] = i_enable[d]

LEMMA LocalInv ==
  ASSUME IInv, NEW c \in CPUs, NEW f \in Flows, f = Cur(c), Local(c, f),
         TypeOK', MutualExclusion', FlowOK(f)', FlagOK(c)', NestOK(c)'
  PROVE  IInv'
<1>0. TypeOK /\ StacksInv /\ FlowInv /\ ExecInv /\ ParkedInv
  BY DEF IInv
<1>1. \A d \in CPUs : Cur(d)' = Cur(d)
  BY DEF Local, Cur
<1>2. StacksInv'
  BY <1>0 DEF StacksInv, Local
<1>3. FlowInv'
  <2> SUFFICES ASSUME NEW g \in Flows, g # f PROVE FlowOK(g)'
    BY DEF FlowInv
  <2>1. FlowOK(g) /\ (AmbientIF(g)' <=> AmbientIF(g))
    BY <1>0 DEF FlowInv, AmbientIF, Local
  <2> QED
    BY <2>1 DEF FlowOK, Local, Spins
<1>4. ExecInv'
  <2> SUFFICES ASSUME NEW d \in CPUs, d # c PROVE ExecOK(d)'
    BY DEF ExecInv, ExecOK
  <2> DEFINE g == Cur(d)
  <2>1. g \in Flows /\ g # f /\ g' = g
    BY <1>0, <1>1, CurFlow
  <2>2. (AmbientIF(g)' <=> AmbientIF(g)) /\ Depth(g)' = Depth(g)
    BY <2>1 DEF AmbientIF, Local, Depth
  <2>3. FlagOK(d) /\ NestOK(d)
    BY <1>0 DEF ExecInv, ExecOK
  <2>4. FlagOK(d)'
    BY <2>1, <2>2, <2>3 DEF FlagOK, Local
  <2>5. NestOK(d)'
    BY <2>1, <2>2, <2>3 DEF NestOK, Local
  <2> QED
    BY <2>4, <2>5 DEF ExecOK
<1>5. ParkedInv'
  <2> SUFFICES ASSUME NEW g \in Flows, \A d \in CPUs : Cur(d)' # g PROVE Parked(g)'
    BY DEF ParkedInv
  <2>1. g # f /\ Parked(g)
    BY <1>0, <1>1 DEF ParkedInv
  <2> QED
    BY <2>1 DEF Parked, Local
<1> QED
  BY <1>2, <1>3, <1>4, <1>5 DEF IInv

-----------------------------------------------------------------------------
(* The steps of spin_lock and spin_unlock. *)

LEMMA OsRunInv == ASSUME IInv, NEW c \in CPUs, OsRun(c) PROVE IInv'
<1> DEFINE f == Cur(c)
<1>0. /\ TypeOK /\ StacksInv /\ MutualExclusion /\ FlowOK(f) /\ FlagOK(c) /\ NestOK(c)
      /\ f \in Flows
  BY CurFlow DEF IInv, FlowInv, ExecInv, ExecOK
<1>1. f = on[c] /\ pc[f] = "run" /\ holds[f] = {} /\ f \in Threads
  BY <1>0 DEF OsRun, Cur, TypeOK
<1>2. TypeOK' /\ MutualExclusion'
  BY <1>0 DEF OsRun, TypeOK, MutualExclusion, cpuVars
<1>3. Local(c, f) /\ f' = f
  BY <1>0, <1>1 DEF OsRun, Local, TypeOK, cpuVars, Cur
<1>4. AmbientIF(f)' /\ ienabled'[c] /\ pc'[f] = "run" /\ holds'[f] = {}
  BY <1>0, <1>1, <1>3 DEF OsRun, AmbientIF, TypeOK
<1>5. Depth(f) = 0 /\ Depth(f)' = Depth(f)
  BY <1>1, <1>3, DepthZero DEF OsRun, Depth, Spins
<1>6. FlowOK(f)' /\ FlagOK(c)'
  BY <1>3, <1>4 DEF FlowOK, FlagOK
<1>7. NestOK(c)'
  <2>1. i_nest_num'[c] = i_nest_num[c] /\ i_nest_num[c] = 0
    BY <1>0, <1>5 DEF OsRun, NestOK
  <2> QED
    BY <1>3, <1>5, <2>1 DEF NestOK
<1> HIDE DEF f
<1> QED
  BY <1>0, <1>2, <1>3, <1>6, <1>7, LocalInv DEF f

LEMMA OffReadInv ==
  ASSUME IInv, NEW c \in CPUs, NEW l \in SpinLocks, OffRead(c, l)
  PROVE  IInv'
<1> DEFINE f == Cur(c)
<1> USE DEF OffRead, Goto, cpuVars
<1>0. /\ TypeOK /\ StacksInv /\ MutualExclusion /\ FlowOK(f) /\ FlagOK(c) /\ NestOK(c)
      /\ f \in Flows
  BY CurFlow DEF IInv, FlowInv, ExecInv, ExecOK
<1>1. pc[f] = "run" /\ pc'[f] = "off" /\ want'[f] = l /\ old'[f] = ienabled[c]
  BY <1>0 DEF TypeOK
<1>2. TypeOK'
  BY <1>0 DEF TypeOK, PCs, Locks
<1>3. MutualExclusion'
  BY <1>0 DEF MutualExclusion
<1>4. Local(c, f) /\ f' = f
  BY <1>0 DEF Local, TypeOK, Cur
<1>5. UNCHANGED <<AmbientIF(f), Spins(f), holds, ienabled, i_nest_num, i_enable>>
  BY <1>4 DEF AmbientIF, Spins
<1>6. Depth(f)' = Depth(f)
  BY <1>1, <1>4, <1>5 DEF Depth, Spins
<1>7. FlowOK(f)'
  BY <1>0, <1>1, <1>4, <1>5 DEF FlowOK, FlagOK, Spins
<1>8. FlagOK(c)'
  BY <1>0, <1>1, <1>4, <1>5 DEF FlagOK
<1>9. NestOK(c)'
  BY <1>0, <1>4, <1>5, <1>6 DEF NestOK
<1> HIDE DEF f
<1> QED
  BY <1>0, <1>2, <1>3, <1>4, <1>7, <1>8, <1>9, LocalInv DEF f

(* The outermost section saves the flag, an inner one finds it saved. *)
LEMMA OffSaveInv == ASSUME IInv, NEW c \in CPUs, OffSave(c) PROVE IInv'
<1> DEFINE f == Cur(c)
<1> USE DEF OffSave, Goto, cpuVars
<1>0. /\ TypeOK /\ StacksInv /\ MutualExclusion /\ FlowOK(f) /\ FlagOK(c) /\ NestOK(c)
      /\ f \in Flows
  BY CurFlow DEF IInv, FlowInv, ExecInv, ExecOK
<1>1. /\ pc[f] = "off" /\ pc'[f] = "xchg" /\ ~ienabled'[c]
      /\ i_nest_num'[c] = i_nest_num[c] + 1 /\ i_nest_num[c] \in Nat
      /\ i_enable'[c] = (IF i_nest_num[c] = 0 THEN old[f] ELSE i_enable[c])
  BY <1>0 DEF TypeOK, SavedStatus, NestAfterOff
<1>2. TypeOK'
  BY <1>0 DEF TypeOK, PCs, SavedStatus, NestAfterOff
<1>3. MutualExclusion'
  BY <1>0 DEF MutualExclusion
<1>4. Local(c, f) /\ f' = f
  BY <1>0 DEF Local, TypeOK, Cur
<1>5. UNCHANGED <<AmbientIF(f), Spins(f), holds, want>>
  BY <1>4 DEF AmbientIF, Spins
<1>6. Depth(f)' = Depth(f) + 1
  BY <1>1, <1>4, <1>5, SpinsFinite, SMTT(60) DEF Depth, Spins
<1>7. FlowOK(f)'
  BY <1>0, <1>1, <1>4, <1>5 DEF FlowOK
<1>8. FlagOK(c)'
  BY <1>1, <1>4 DEF FlagOK
<1>9. NestOK(c)'
  <2>1. i_nest_num'[c] = Depth(f)'
    BY <1>0, <1>1, <1>6 DEF NestOK
  <2>2. i_nest_num[c] = 0 => Spins(f) = {}
    BY <1>0, DepthZero DEF NestOK
  <2>3. i_enable'[c] <=> AmbientIF(f)
    <3>1. CASE i_nest_num[c] = 0
      BY <1>0, <1>1, <2>2, <3>1 DEF FlowOK
    <3>2. CASE i_nest_num[c] # 0
      <4>1. i_nest_num[c] > 0
        BY <1>1, <3>2
      <4> QED
        BY <1>0, <1>1, <3>2, <4>1 DEF NestOK
    <3> QED
      BY <3>1, <3>2
  <2> QED
    BY <1>4, <1>5, <2>1, <2>3 DEF NestOK
<1> HIDE DEF f
<1> QED
  BY <1>0, <1>2, <1>3, <1>4, <1>7, <1>8, <1>9, LocalInv DEF f

LEMMA AcquireInv == ASSUME IInv, NEW c \in CPUs, Acquire(c) PROVE IInv'
<1> DEFINE f == Cur(c)
           l == want[f]
<1> USE DEF Acquire, Goto, cpuVars
<1>0. /\ TypeOK /\ StacksInv /\ MutualExclusion /\ FlowOK(f) /\ FlagOK(c) /\ NestOK(c)
      /\ f \in Flows
  BY CurFlow DEF IInv, FlowInv, ExecInv, ExecOK
<1>1. /\ pc[f] \in {"xchg", "kxchg"} /\ holds'[f] = holds[f] \cup {l} /\ ~locked[l]
      /\ pc'[f] = (IF pc[f] = "xchg" THEN "run" ELSE "kcrit")
  BY <1>0 DEF TypeOK, XchgSucceeds
<1>2. /\ l \in Locks
      /\ IF pc[f] = "xchg" THEN l \in SpinLocks ELSE l \in RawLocks /\ l \notin SpinLocks
  BY <1>0, <1>1, LocksApart DEF FlowOK, Locks
<1>3. \A g \in Flows : l \notin holds[g]
  BY <1>0, <1>1, <1>2 DEF MutualExclusion
<1>4. TypeOK'
  BY <1>0, <1>1, <1>2 DEF TypeOK, PCs
<1>5. MutualExclusion'
  <2>1. \A g \in Flows \ {f} : holds'[g] = holds[g]
    BY <1>0 DEF TypeOK
  <2>2. locked'[l] /\ \A m \in Locks \ {l} : locked'[m] = locked[m]
    BY <1>0, <1>2 DEF TypeOK
  <2> QED
    BY <1>0, <1>1, <1>3, <2>1, <2>2 DEF MutualExclusion
<1>6. Local(c, f) /\ f' = f
  BY <1>0 DEF Local, TypeOK, Cur
<1>7. UNCHANGED <<AmbientIF(f), ienabled, i_nest_num, i_enable, old>>
  BY <1>6 DEF AmbientIF
<1>8. ~ienabled[c]
  BY <1>0, <1>1 DEF FlagOK
<1>9. Depth(f)' = Depth(f) /\ (pc[f] = "kxchg" => Spins(f)' = Spins(f))
  <2>1. CASE pc[f] = "xchg"
    <3>1. Spins(f)' = Spins(f) \cup {l} /\ l \notin Spins(f) /\ pc'[f] = "run"
      BY <1>0, <1>1, <1>2, <1>3, <1>6, <2>1 DEF Spins
    <3>2. Cardinality(Spins(f)') = Cardinality(Spins(f)) + 1
      BY <3>1, SpinsFinite, FS_AddElement, ZenonT(60)
    <3>3. Depth(f) = Cardinality(Spins(f)) + 1
      BY <2>1, DepthOf
    <3>4. Depth(f)' = Cardinality(Spins(f)') + 0
      BY <1>6, <3>1 DEF Depth, Spins
    <3> HIDE DEF f, l
    <3> QED
      BY <2>1, <3>2, <3>3, <3>4, SpinsFinite
  <2>2. CASE pc[f] = "kxchg"
    <3>1. Spins(f)' = Spins(f) /\ pc'[f] = "kcrit"
      BY <1>0, <1>1, <1>2, <1>6, <2>2 DEF Spins
    <3> QED
      BY <1>6, <2>2, <3>1 DEF Depth, Spins
  <2> QED
    BY <1>1, <2>1, <2>2
<1>10. FlowOK(f)'
  <2>1. CASE pc[f] = "xchg"
    BY <1>0, <1>1, <1>2, <1>6, <2>1 DEF FlowOK
  <2>2. CASE pc[f] = "kxchg"
    BY <1>0, <1>1, <1>6, <1>7, <1>9, <2>2 DEF FlowOK
  <2> QED
    BY <1>1, <2>1, <2>2
<1>11. FlagOK(c)'
  BY <1>1, <1>6, <1>7, <1>8 DEF FlagOK
<1>12. NestOK(c)'
  BY <1>0, <1>6, <1>7, <1>9 DEF NestOK
<1> HIDE DEF f
<1> QED
  BY <1>0, <1>4, <1>5, <1>6, <1>10, <1>11, <1>12, LocalInv DEF f

LEMMA UnlockInv ==
  ASSUME IInv, NEW c \in CPUs, NEW l \in SpinLocks, Unlock(c, l)
  PROVE  IInv'
<1> DEFINE f == Cur(c)
<1> USE DEF Unlock, Goto, cpuVars
<1>0. /\ TypeOK /\ StacksInv /\ MutualExclusion /\ FlowOK(f) /\ FlagOK(c) /\ NestOK(c)
      /\ f \in Flows
  BY CurFlow DEF IInv, FlowInv, ExecInv, ExecOK
<1>1. pc[f] = "run" /\ pc'[f] = "drop" /\ l \in holds[f] /\ holds'[f] = holds[f] \ {l}
  BY <1>0 DEF TypeOK
<1>2. TypeOK'
  BY <1>0, <1>1 DEF TypeOK, PCs
<1>3. MutualExclusion'
  <2>1. \A g \in Flows \ {f} : holds'[g] = holds[g] /\ l \notin holds[g]
    BY <1>0, <1>1 DEF TypeOK, MutualExclusion
  <2>2. ~locked'[l] /\ \A m \in Locks \ {l} : locked'[m] = locked[m]
    BY <1>0 DEF TypeOK, Locks
  <2> QED
    BY <1>0, <1>1, <2>1, <2>2 DEF MutualExclusion
<1>4. Local(c, f) /\ f' = f
  BY <1>0 DEF Local, TypeOK, Cur
<1>5. UNCHANGED <<AmbientIF(f), ienabled, i_nest_num, i_enable>>
  BY <1>4 DEF AmbientIF
<1>6. Depth(f)' = Depth(f)
  <2>1. Spins(f)' = Spins(f) \ {l} /\ l \in Spins(f)
    BY <1>1, <1>4 DEF Spins
  <2>2. Cardinality(Spins(f)') = Cardinality(Spins(f)) - 1
    BY <2>1, SpinsFinite, FS_RemoveElement
  <2>3. Depth(f) = Cardinality(Spins(f)) + 0
    BY <1>1, DepthOf
  <2>4. Depth(f)' = Cardinality(Spins(f)') + 1
    BY <1>1, <1>4 DEF Depth, Spins
  <2> HIDE DEF f
  <2> QED
    BY <2>2, <2>3, <2>4, SpinsFinite
<1>7. FlowOK(f)'
  BY <1>0, <1>1, <1>4 DEF FlowOK
<1>8. FlagOK(c)'
  BY <1>0, <1>1, <1>4, <1>5 DEF FlagOK
<1>9. NestOK(c)'
  BY <1>0, <1>4, <1>5, <1>6 DEF NestOK
<1> HIDE DEF f
<1> QED
  BY <1>0, <1>2, <1>3, <1>4, <1>7, <1>8, <1>9, LocalInv DEF f

(* Only the outermost interrupt_on gives the flag back. *)
LEMMA InterruptOnInv == ASSUME IInv, NEW c \in CPUs, InterruptOn(c) PROVE IInv'
<1> DEFINE f == Cur(c)
<1> USE DEF InterruptOn, Goto, cpuVars
<1>0. /\ TypeOK /\ StacksInv /\ MutualExclusion /\ FlowOK(f) /\ FlagOK(c) /\ NestOK(c)
      /\ f \in Flows
  BY CurFlow DEF IInv, FlowInv, ExecInv, ExecOK
<1>1. /\ pc[f] = "drop" /\ pc'[f] = "run" /\ ~ienabled[c]
      /\ i_nest_num[c] \in Nat /\ i_nest_num[c] # 0
  BY <1>0, DepthZero DEF TypeOK, FlagOK, NestOK
<1>2. /\ i_nest_num' = [i_nest_num EXCEPT ![c] = i_nest_num[c] - 1]
      /\ ienabled' = [ienabled EXCEPT ![c] = i_nest_num[c] - 1 = 0 /\ i_enable[c]]
  BY <1>1 DEF NestAfterOn, FlagAfterOn
<1>3. TypeOK'
  BY <1>0, <1>1, <1>2 DEF TypeOK, PCs
<1>4. MutualExclusion'
  BY <1>0 DEF MutualExclusion
<1>5. Local(c, f) /\ f' = f
  BY <1>0, <1>2 DEF Local, TypeOK, Cur
<1>6. UNCHANGED <<AmbientIF(f), Spins(f), holds, i_enable>>
  BY <1>5 DEF AmbientIF, Spins
<1>7. /\ i_nest_num'[c] = i_nest_num[c] - 1
      /\ ienabled'[c] <=> i_nest_num'[c] = 0 /\ i_enable[c]
  BY <1>0, <1>2 DEF TypeOK
<1>8. /\ i_nest_num'[c] = Cardinality(Spins(f)) /\ Depth(f)' = Cardinality(Spins(f))
      /\ Cardinality(Spins(f)) \in Nat
  <2>1. Depth(f) = Cardinality(Spins(f)) + 1
    BY <1>1, DepthOf
  <2>2. Depth(f)' = Cardinality(Spins(f)) + 0
    BY <1>1, <1>5, <1>6 DEF Depth, Spins
  <2> QED
    BY <1>0, <1>7, <2>1, <2>2, SpinsFinite DEF NestOK
<1>9. i_nest_num'[c] = 0 <=> holds[f] = {}
  <2>1. i_nest_num'[c] = 0 <=> Spins(f) = {}
    BY <1>8, SpinsFinite, FS_EmptySet
  <2> QED
    BY <1>0, <1>1, <2>1 DEF FlowOK, Spins
<1>10. i_enable[c] <=> AmbientIF(f)
  BY <1>0, <1>1 DEF NestOK
<1>11. FlowOK(f)'
  BY <1>0, <1>1, <1>5, <1>6 DEF FlowOK
<1>12. FlagOK(c)'
  BY <1>1, <1>5, <1>6, <1>7, <1>9, <1>10 DEF FlagOK
<1>13. NestOK(c)'
  BY <1>5, <1>6, <1>8, <1>10 DEF NestOK
<1> HIDE DEF f
<1> QED
  BY <1>0, <1>3, <1>4, <1>5, <1>11, <1>12, <1>13, LocalInv DEF f

-----------------------------------------------------------------------------
(* The sections of kalloc, kfree and printf, which do not count. *)

LEMMA SaveFlagInv == ASSUME IInv, NEW c \in CPUs, SaveFlag(c) PROVE IInv'
<1> DEFINE f == Cur(c)
<1> USE DEF SaveFlag, Goto, cpuVars
<1>0. /\ TypeOK /\ StacksInv /\ MutualExclusion /\ FlowOK(f) /\ FlagOK(c) /\ NestOK(c)
      /\ f \in Flows
  BY CurFlow DEF IInv, FlowInv, ExecInv, ExecOK
<1>1. pc[f] = "run" /\ pc'[f] = "kold" /\ old'[f] = ienabled[c]
  BY <1>0 DEF TypeOK
<1>2. TypeOK'
  BY <1>0 DEF TypeOK, PCs
<1>3. MutualExclusion'
  BY <1>0 DEF MutualExclusion
<1>4. Local(c, f) /\ f' = f
  BY <1>0 DEF Local, TypeOK, Cur
<1>5. UNCHANGED <<AmbientIF(f), Spins(f), holds, ienabled, i_nest_num, i_enable>>
  BY <1>4 DEF AmbientIF, Spins
<1>6. Depth(f)' = Depth(f)
  BY <1>1, <1>4, <1>5 DEF Depth, Spins
<1>7. FlowOK(f)'
  BY <1>0, <1>1, <1>4, <1>5 DEF FlowOK, FlagOK, Spins
<1>8. FlagOK(c)'
  BY <1>0, <1>1, <1>4, <1>5 DEF FlagOK
<1>9. NestOK(c)'
  BY <1>0, <1>4, <1>5, <1>6 DEF NestOK
<1> HIDE DEF f
<1> QED
  BY <1>0, <1>2, <1>3, <1>4, <1>7, <1>8, <1>9, LocalInv DEF f

LEMMA ClearFlagInv == ASSUME IInv, NEW c \in CPUs, ClearFlag(c) PROVE IInv'
<1> DEFINE f == Cur(c)
<1> USE DEF ClearFlag, Goto, cpuVars
<1>0. /\ TypeOK /\ StacksInv /\ MutualExclusion /\ FlowOK(f) /\ FlagOK(c) /\ NestOK(c)
      /\ f \in Flows
  BY CurFlow DEF IInv, FlowInv, ExecInv, ExecOK
<1>1. pc[f] = "kold" /\ pc'[f] = "kcrit" /\ ~ienabled'[c]
  BY <1>0 DEF TypeOK
<1>2. TypeOK'
  BY <1>0 DEF TypeOK, PCs
<1>3. MutualExclusion'
  BY <1>0 DEF MutualExclusion
<1>4. Local(c, f) /\ f' = f
  BY <1>0 DEF Local, TypeOK, Cur
<1>5. UNCHANGED <<AmbientIF(f), Spins(f), holds, old, i_nest_num, i_enable>>
  BY <1>4 DEF AmbientIF, Spins
<1>6. Depth(f)' = Depth(f)
  BY <1>1, <1>4, <1>5 DEF Depth, Spins
<1>7. FlowOK(f)'
  BY <1>0, <1>1, <1>4, <1>5 DEF FlowOK
<1>8. FlagOK(c)'
  BY <1>1, <1>4 DEF FlagOK
<1>9. NestOK(c)'
  BY <1>0, <1>4, <1>5, <1>6 DEF NestOK
<1> HIDE DEF f
<1> QED
  BY <1>0, <1>2, <1>3, <1>4, <1>7, <1>8, <1>9, LocalInv DEF f

LEMMA RawLockInv ==
  ASSUME IInv, NEW c \in CPUs, NEW l \in RawLocks, RawLock(c, l)
  PROVE  IInv'
<1> DEFINE f == Cur(c)
<1> USE DEF RawLock, Goto, cpuVars
<1>0. /\ TypeOK /\ StacksInv /\ MutualExclusion /\ FlowOK(f) /\ FlagOK(c) /\ NestOK(c)
      /\ f \in Flows
  BY CurFlow DEF IInv, FlowInv, ExecInv, ExecOK
<1>1. pc[f] = "kcrit" /\ pc'[f] = "kxchg" /\ want'[f] = l
  BY <1>0 DEF TypeOK
<1>2. TypeOK'
  BY <1>0 DEF TypeOK, PCs, Locks
<1>3. MutualExclusion'
  BY <1>0 DEF MutualExclusion
<1>4. Local(c, f) /\ f' = f
  BY <1>0 DEF Local, TypeOK, Cur
<1>5. UNCHANGED <<AmbientIF(f), Spins(f), holds, old, ienabled, i_nest_num, i_enable>>
  BY <1>4 DEF AmbientIF, Spins
<1>6. Depth(f)' = Depth(f)
  BY <1>1, <1>4, <1>5 DEF Depth, Spins
<1>7. FlowOK(f)'
  BY <1>0, <1>1, <1>4, <1>5 DEF FlowOK
<1>8. FlagOK(c)'
  BY <1>0, <1>1, <1>4, <1>5 DEF FlagOK
<1>9. NestOK(c)'
  BY <1>0, <1>4, <1>5, <1>6 DEF NestOK
<1> HIDE DEF f
<1> QED
  BY <1>0, <1>2, <1>3, <1>4, <1>7, <1>8, <1>9, LocalInv DEF f

LEMMA RawUnlockInv ==
  ASSUME IInv, NEW c \in CPUs, NEW l \in RawLocks, RawUnlock(c, l)
  PROVE  IInv'
<1> DEFINE f == Cur(c)
<1> USE DEF RawUnlock, Goto, cpuVars
<1>0. /\ TypeOK /\ StacksInv /\ MutualExclusion /\ FlowOK(f) /\ FlagOK(c) /\ NestOK(c)
      /\ f \in Flows
  BY CurFlow DEF IInv, FlowInv, ExecInv, ExecOK
<1>1. pc[f] = "kcrit" /\ pc'[f] = "kcrit" /\ l \in holds[f] /\ holds'[f] = holds[f] \ {l}
  BY <1>0 DEF TypeOK
<1>2. TypeOK'
  BY <1>0, <1>1 DEF TypeOK
<1>3. MutualExclusion'
  <2>1. \A g \in Flows \ {f} : holds'[g] = holds[g] /\ l \notin holds[g]
    BY <1>0, <1>1 DEF TypeOK, MutualExclusion
  <2>2. ~locked'[l] /\ \A m \in Locks \ {l} : locked'[m] = locked[m]
    BY <1>0 DEF TypeOK, Locks
  <2> QED
    BY <1>0, <1>1, <2>1, <2>2 DEF MutualExclusion
<1>4. Local(c, f) /\ f' = f
  BY <1>0 DEF Local, TypeOK, Cur
<1>5. UNCHANGED <<AmbientIF(f), Spins(f), old, ienabled, i_nest_num, i_enable>>
  BY <1>1, <1>4, LocksApart DEF AmbientIF, Spins
<1>6. Depth(f)' = Depth(f)
  BY <1>1, <1>4, <1>5 DEF Depth, Spins
<1>7. FlowOK(f)'
  BY <1>0, <1>1, <1>4, <1>5 DEF FlowOK
<1>8. FlagOK(c)'
  BY <1>0, <1>1, <1>4, <1>5 DEF FlagOK
<1>9. NestOK(c)'
  BY <1>0, <1>4, <1>5, <1>6 DEF NestOK
<1> HIDE DEF f
<1> QED
  BY <1>0, <1>2, <1>3, <1>4, <1>7, <1>8, <1>9, LocalInv DEF f

LEMMA RestoreFlagInv == ASSUME IInv, NEW c \in CPUs, RestoreFlag(c) PROVE IInv'
<1> DEFINE f == Cur(c)
<1> USE DEF RestoreFlag, Goto, cpuVars
<1>0. /\ TypeOK /\ StacksInv /\ MutualExclusion /\ FlowOK(f) /\ FlagOK(c) /\ NestOK(c)
      /\ f \in Flows
  BY CurFlow DEF IInv, FlowInv, ExecInv, ExecOK
<1>1. /\ pc[f] = "kcrit" /\ pc'[f] = "run" /\ ienabled'[c] = old[f]
      /\ holds[f] \subseteq SpinLocks
  BY <1>0 DEF TypeOK, Locks
<1>2. TypeOK'
  BY <1>0 DEF TypeOK, PCs
<1>3. MutualExclusion'
  BY <1>0 DEF MutualExclusion
<1>4. Local(c, f) /\ f' = f
  BY <1>0 DEF Local, TypeOK, Cur
<1>5. UNCHANGED <<AmbientIF(f), Spins(f), holds, i_nest_num, i_enable>>
  BY <1>4 DEF AmbientIF, Spins
<1>6. Depth(f)' = Depth(f)
  BY <1>1, <1>4, <1>5 DEF Depth, Spins
<1>7. FlowOK(f)'
  BY <1>1, <1>4, <1>5 DEF FlowOK
<1>8. FlagOK(c)'
  BY <1>0, <1>1, <1>4, <1>5 DEF FlagOK, FlowOK, Spins
<1>9. NestOK(c)'
  BY <1>0, <1>4, <1>5, <1>6 DEF NestOK
<1> HIDE DEF f
<1> QED
  BY <1>0, <1>2, <1>3, <1>4, <1>7, <1>8, <1>9, LocalInv DEF f

-----------------------------------------------------------------------------
(* Traps.  The interrupted thread is outside every section, so it can be parked;
   the CPU's flag and counter are what a handler starts with.                 *)
LEMMA EnterTrapInv ==
  ASSUME IInv, NEW c \in CPUs, EnterTrap(c), ~inTrap[c],
         pc[on[c]] \in {"run", "off", "kold"}, holds[on[c]] = {}, ambient[on[c]]
  PROVE  IInv'
<1> DEFINE u == on[c]
<1> USE DEF EnterTrap
<1>0. /\ TypeOK /\ StacksInv /\ MutualExclusion /\ FlowInv /\ ExecInv /\ ParkedInv
      /\ FlagOK(c) /\ NestOK(c)
  BY DEF IInv, ExecInv, ExecOK
<1>1. u \in Threads /\ Cur(c) = u /\ c \in Flows /\ c \notin Threads
  BY <1>0, SpinlockAssumption DEF TypeOK, Cur, Flows
<1>2. Cur(c)' = c /\ \A d \in CPUs \ {c} : Cur(d)' = Cur(d) /\ Cur(d) # c /\ Cur(d) # u
  BY <1>0, <1>1, CurFlow DEF TypeOK, Cur, StacksInv
<1>3. Parked(c)
  BY <1>0, <1>1, <1>2 DEF ParkedInv
<1>4. ienabled[c] /\ ~ienabled'[c] /\ savedIF'[u]
  BY <1>0, <1>1 DEF TypeOK, FlagOK, AmbientIF
<1>5. UNCHANGED <<on, i_nest_num, i_enable, locked, pc, want, old, holds, ambient>>
  OBVIOUS
<1>6. \A g : UNCHANGED <<AmbientIF(g), Depth(g), Spins(g)>>
  BY <1>5 DEF AmbientIF, Depth, Spins
<1>7. TypeOK'
  BY <1>0, <1>1 DEF TypeOK
<1>8. MutualExclusion' /\ StacksInv'
  BY <1>0, <1>5 DEF MutualExclusion, StacksInv
<1>9. FlowInv'
  BY <1>0, <1>5, <1>6 DEF FlowInv, FlowOK
<1>10. ExecInv'
  <2> SUFFICES ASSUME NEW d \in CPUs PROVE ExecOK(d)'
    BY DEF ExecInv
  <2>1. CASE d = c
    <3>1. Depth(u) = 0 /\ Depth(c) = 0
      BY <1>1, <1>3, DepthZero DEF Parked, Spins
    <3>2. i_nest_num[c] = 0
      BY <1>0, <1>1, <3>1 DEF NestOK
    <3>3. NestOK(c)'
      BY <1>2, <1>5, <1>6, <3>1, <3>2 DEF NestOK
    <3>4. FlagOK(c)'
      BY <1>1, <1>2, <1>3, <1>4, <1>5 DEF FlagOK, AmbientIF
    <3> QED
      BY <2>1, <3>3, <3>4 DEF ExecOK
  <2>2. CASE d # c
    <3>1. ienabled'[d] = ienabled[d] /\ Cur(d)' = Cur(d)
      BY <1>0, <1>2, <2>2 DEF TypeOK
    <3>2. FlagOK(d) /\ NestOK(d)
      BY <1>0 DEF ExecInv, ExecOK
    <3> QED
      BY <1>5, <1>6, <3>1, <3>2 DEF ExecOK, FlagOK, NestOK
  <2> QED
    BY <2>1, <2>2
<1>11. ParkedInv'
  <2> SUFFICES ASSUME NEW g \in Flows, \A d \in CPUs : Cur(d)' # g PROVE Parked(g)'
    BY DEF ParkedInv
  <2>1. CASE g = u
    BY <1>4, <1>5, <2>1 DEF Parked
  <2>2. CASE g # u
    <3>1. Parked(g)
      BY <1>0, <1>1, <1>2, <2>2 DEF ParkedInv
    <3>2. g \in Threads => savedIF'[g] = savedIF[g]
      BY <1>0, <2>2 DEF TypeOK
    <3> QED
      BY <1>5, <3>1, <3>2 DEF Parked
  <2> QED
    BY <2>1, <2>2
<1> QED
  BY <1>7, <1>8, <1>9, <1>10, <1>11 DEF IInv

LEMMA TrapInv == ASSUME IInv, NEW c \in CPUs, Interrupt(c) \/ Yield(c) PROVE IInv'
<1>1. TypeOK /\ FlagOK(c)
  BY DEF IInv, ExecInv, ExecOK
<1>2. /\ EnterTrap(c) /\ ~inTrap[c] /\ on[c] = Cur(c) /\ on[c] \in Threads
      /\ pc[on[c]] \in PCs
  BY <1>1 DEF Interrupt, Yield, Cur, TypeOK, Flows
<1>3. pc[on[c]] \in {"run", "off", "kold"} /\ holds[on[c]] = {} /\ ambient[on[c]]
  BY <1>1, <1>2 DEF Interrupt, Yield, FlagOK, AmbientIF, PCs
<1> QED
  BY <1>2, <1>3, EnterTrapInv

LEMMA IretInv == ASSUME IInv, NEW c \in CPUs, Iret(c) PROVE IInv'
<1> USE DEF Iret
<1>0. /\ TypeOK /\ StacksInv /\ MutualExclusion /\ FlowInv /\ ExecInv /\ ParkedInv
      /\ FlagOK(c) /\ NestOK(c)
  BY DEF IInv, ExecInv, ExecOK
<1>1. PICK u \in Threads : /\ \A d \in CPUs \ {c} : on[d] # u
                           /\ on' = [on EXCEPT ![c] = u]
                           /\ ienabled' = [ienabled EXCEPT ![c] = savedIF[u]]
                           /\ savedIF' = [savedIF EXCEPT ![u] = FALSE]
  OBVIOUS
<1>2. u \in Flows /\ u \notin CPUs /\ c \in Flows /\ c \notin Threads /\ Cur(c) = c
  BY SpinlockAssumption DEF Flows, Cur
<1>3. Cur(c)' = u /\ \A d \in CPUs \ {c} : Cur(d)' = Cur(d) /\ Cur(d) # u /\ Cur(d) # c
  BY <1>0, <1>1, <1>2, CurFlow DEF TypeOK, Cur
<1>4. Parked(u)
  BY <1>0, <1>2, <1>3 DEF ParkedInv
<1>5. UNCHANGED <<i_nest_num, i_enable, locked, pc, want, old, holds, ambient>>
  OBVIOUS
<1>6. \A g : UNCHANGED <<AmbientIF(g), Depth(g), Spins(g)>>
  BY <1>5 DEF AmbientIF, Depth, Spins
<1>7. TypeOK'
  BY <1>0, <1>1 DEF TypeOK
<1>8. MutualExclusion' /\ StacksInv'
  BY <1>0, <1>1, <1>5 DEF MutualExclusion, StacksInv, TypeOK
<1>9. FlowInv'
  BY <1>0, <1>5, <1>6 DEF FlowInv, FlowOK
<1>10. ExecInv'
  <2> SUFFICES ASSUME NEW d \in CPUs PROVE ExecOK(d)'
    BY DEF ExecInv
  <2>1. CASE d = c
    <3>1. Depth(u) = 0 /\ Depth(c) = 0
      BY <1>2, <1>4, DepthZero DEF Parked, Spins
    <3>2. i_nest_num[c] = 0
      BY <1>0, <1>2, <3>1 DEF NestOK
    <3>3. NestOK(c)'
      BY <1>3, <1>5, <1>6, <3>1, <3>2 DEF NestOK
    <3>4. ienabled'[c] <=> ambient[u]
      BY <1>0, <1>1, <1>4 DEF TypeOK, Parked
    <3>5. FlagOK(c)'
      BY <1>3, <1>4, <1>5, <3>4 DEF FlagOK, AmbientIF, Parked
    <3> QED
      BY <2>1, <3>3, <3>5 DEF ExecOK
  <2>2. CASE d # c
    <3>1. ienabled'[d] = ienabled[d] /\ Cur(d)' = Cur(d)
      BY <1>0, <1>1, <1>3, <2>2 DEF TypeOK
    <3>2. FlagOK(d) /\ NestOK(d)
      BY <1>0 DEF ExecInv, ExecOK
    <3> QED
      BY <1>5, <1>6, <3>1, <3>2 DEF ExecOK, FlagOK, NestOK
  <2> QED
    BY <2>1, <2>2
<1>11. ParkedInv'
  <2> SUFFICES ASSUME NEW g \in Flows, \A d \in CPUs : Cur(d)' # g PROVE Parked(g)'
    BY DEF ParkedInv
  <2>1. CASE g = c
    BY <1>2, <1>5, <2>1 DEF Parked
  <2>2. CASE g # c
    <3>1. Parked(g) /\ g # u
      BY <1>0, <1>2, <1>3, <2>2 DEF ParkedInv
    <3>2. g \in Threads => savedIF'[g] = savedIF[g]
      BY <1>0, <1>1, <3>1 DEF TypeOK
    <3> QED
      BY <1>5, <3>1, <3>2 DEF Parked
  <2> QED
    BY <2>1, <2>2
<1> QED
  BY <1>7, <1>8, <1>9, <1>10, <1>11 DEF IInv

-----------------------------------------------------------------------------
LEMMA StutterInv == ASSUME IInv, UNCHANGED vars PROVE IInv'
<1> USE DEF vars, cpuVars
<1>1. /\ \A c \in CPUs : Cur(c)' = Cur(c)
      /\ \A f : UNCHANGED <<AmbientIF(f), Depth(f), Spins(f)>>
  BY DEF Cur, AmbientIF, Depth, Spins
<1>2. TypeOK' /\ MutualExclusion' /\ StacksInv'
  BY DEF IInv, TypeOK, MutualExclusion, StacksInv
<1>3. FlowInv'
  BY <1>1 DEF IInv, FlowInv, FlowOK
<1>4. ExecInv'
  BY <1>1 DEF IInv, ExecInv, ExecOK, FlagOK, NestOK
<1>5. ParkedInv'
  BY <1>1 DEF IInv, ParkedInv, Parked
<1> QED
  BY <1>2, <1>3, <1>4, <1>5 DEF IInv

LEMMA NextInv == IInv /\ [Next]_vars => IInv'
BY OsRunInv, OffReadInv, OffSaveInv, AcquireInv, UnlockInv, InterruptOnInv, SaveFlagInv,
  ClearFlagInv, RawLockInv, RawUnlockInv, RestoreFlagInv, TrapInv, IretInv, StutterInv
DEF Next

LEMMA Invariance == Spec => []IInv
BY InitInv, NextInv, PTL DEF Spec

(* Every variable keeps its type; the nesting counter never goes below zero
   (os.c:121, 134). *)
THEOREM TypeCorrect == Spec => []TypeOK
<1>1. IInv => TypeOK
  BY DEF IInv
<1> QED
  BY <1>1, Invariance, PTL

(* A lock has one holder at most, and its int says whether it has one
   (common.c:4-10). *)
THEOREM Exclusion == Spec => []MutualExclusion
<1>1. IInv => MutualExclusion
  BY DEF IInv
<1> QED
  BY <1>1, Invariance, PTL

(* The holder of a lock is executed by a CPU, with interrupts off, from the
   atomic_xchg to the end of interrupt_on: no handler can spin for a lock that
   it has interrupted the holder of (os.c:115-122). *)
THEOREM HoldersRun == Spec => []HolderKeepsCpu
<1>1. IInv => HolderKeepsCpu
  <2> SUFFICES ASSUME IInv, NEW f \in Flows,
                      holds[f] # {} \/ pc[f] \in {"xchg", "drop", "kcrit", "kxchg"}
               PROVE  \E c \in CPUs : Cur(c) = f /\ ~ienabled[c]
    BY DEF HolderKeepsCpu
  <2>1. PICK c \in CPUs : Cur(c) = f
    BY DEF IInv, ParkedInv, Parked
  <2>2. FlagOK(c) /\ pc[f] \in PCs
    BY DEF IInv, ExecInv, ExecOK, TypeOK
  <2> QED
    BY <2>1, <2>2 DEF FlagOK, PCs
<1> QED
  BY <1>1, Invariance, PTL

(* The nesting counter of a CPU is the nesting of the flow it executes, however
   flows have migrated (os.c:118-121, 134). *)
THEOREM NestingCounted == Spec => []NestMatches
<1>1. IInv => NestMatches
  BY DEF IInv, ExecInv, ExecOK, NestOK, NestMatches
<1> QED
  BY <1>1, Invariance, PTL

(* Outside sections a flow has the interrupt flag it had before them, although
   interrupt_off may read the flag on one CPU and save it on another
   (os.c:116-120, 135). *)
THEOREM FlagKept == Spec => []FlagRestored
<1>1. IInv => FlagRestored
  BY DEF IInv, ExecInv, ExecOK, FlagOK, NestOK, FlagRestored
<1> QED
  BY <1>1, Invariance, PTL
=============================================================================
