------------------------------ MODULE Spinlock ------------------------------
(* Spinlocks and the interrupt flag: kernel/src/{common,spinlock,os,pmm}.c,
   with the trap entry and exit of the x86-qemu abstract machine.

   A flow is a line of control: a thread (a task, or the flow that boots a
   CPU), or the trap handler of a CPU, which runs on top of whatever thread
   its CPU was executing.  A CPU executes one flow at a time.  A thread may be
   interrupted wherever its CPU has interrupts enabled and be resumed on
   another CPU; the code has to keep the per-CPU counters i_nest_num and
   i_enable right through that, and never lose a lock holder's CPU.          *)
EXTENDS Naturals, FiniteSets

CONSTANTS
  CPUs,       \* processors; also the names of their trap handlers' flows
  Threads,    \* tasks and boot flows
  SpinLocks,  \* locks taken with spin_lock/spin_unlock, numbered in lock order
  RawLocks,   \* locks taken with _lock/_unlock by kalloc, kfree and printf
  BootOf,     \* the thread that each CPU executes first (os_init, os_run)
  NoLock      \* not a lock: a flow that is not at an atomic_xchg

Locks == SpinLocks \cup RawLocks
Flows == CPUs \cup Threads

ASSUME SpinlockAssumption ==
  /\ CPUs \cap Threads = {}
  /\ SpinLocks \subseteq Nat
  /\ RawLocks \subseteq Nat
  /\ IsFiniteSet(SpinLocks)
  /\ NoLock \notin Locks
  /\ \A s \in SpinLocks, r \in RawLocks : s < r
  /\ BootOf \in [CPUs -> Threads]
  /\ \A c, d \in CPUs : BootOf[c] = BootOf[d] => c = d

VARIABLES
  on,         \* CPU -> the thread whose stack it occupies
  inTrap,     \* CPU -> is its trap handler running, on top of on[c]?
  ienabled,         \* CPU -> interrupt flag of EFLAGS
  i_nest_num, \* CPU -> struct CPU field
  i_enable,   \* CPU -> struct CPU field
  savedIF,    \* thread -> EFLAGS.IF in its trap frame, FALSE without one
  locked,     \* lock -> the int that atomic_xchg works on
  pc,         \* flow -> where it is
  want,       \* flow -> the lock it is acquiring or releasing
  old,        \* flow -> the local old_status / itrpt_able / itr, FALSE when dead
  holds,      \* flow -> locks whose critical section it is inside
  ambient     \* history: thread -> the IF it has outside critical sections

cpuVars == <<on, inTrap>>
vars == <<on, inTrap, ienabled, i_nest_num, i_enable, savedIF, locked, pc, want,
          old, holds, ambient>>

PCs == {"run",                       \* ordinary code, perhaps inside a section
        "off", "xchg", "drop",       \* inside spin_lock, spin_unlock
        "kold", "kcrit", "kxchg"}    \* inside kalloc, kfree, printf

(* The flow that CPU c executes now. *)
Cur(c) == IF inTrap[c] THEN c ELSE on[c]

Goto(f, l) == pc' = [pc EXCEPT ![f] = l]

-----------------------------------------------------------------------------
(* Boot: every CPU starts in its boot thread with interrupts disabled; tasks
   that kcontext made have FL_IF set in their first frame. *)
Init ==
  /\ on = BootOf
  /\ inTrap = [c \in CPUs |-> FALSE]
  /\ ienabled = [c \in CPUs |-> FALSE]
  /\ i_nest_num = [c \in CPUs |-> 0]
  /\ i_enable = [c \in CPUs |-> TRUE]
  /\ ambient = [t \in Threads |-> \A c \in CPUs : BootOf[c] # t]
  /\ savedIF = ambient   \* FL_IF in the frame made by kcontext
  /\ locked = [l \in Locks |-> FALSE]
  /\ pc = [f \in Flows |-> "run"]
  /\ want = [f \in Flows |-> NoLock]
  /\ old = [f \in Flows |-> FALSE]
  /\ holds = [f \in Flows |-> {}]

(* os_run: iset(true) in the boot thread. *)
OsRun(c) ==
  /\ ~inTrap[c] /\ pc[on[c]] = "run" /\ holds[on[c]] = {}
  /\ ~ambient[on[c]]
  /\ ienabled' = [ienabled EXCEPT ![c] = TRUE]
  /\ ambient' = [ambient EXCEPT ![on[c]] = TRUE]
  /\ UNCHANGED <<cpuVars, i_nest_num, i_enable, savedIF, locked, pc, want, old,
                 holds>>

-----------------------------------------------------------------------------
(* spin_lock = interrupt_off; _lock *)

(* old_status = ienabled(): the thread can still lose its CPU after this.
   Callers take locks in lock order, each at most once. *)
OffRead(c, l) ==
  LET f == Cur(c) IN
  /\ pc[f] = "run"
  /\ \A h \in holds[f] : h < l
  /\ want' = [want EXCEPT ![f] = l]
  /\ old' = [old EXCEPT ![f] = ienabled[c]]
  /\ Goto(f, "off")
  /\ UNCHANGED <<cpuVars, ienabled, i_nest_num, i_enable, savedIF, locked, holds,
                 ambient>>

(* What interrupt_off leaves in i_enable, and a variant that forgets that only
   the outermost section saves it. *)
MutSavesAlways(c) == old[Cur(c)]
SavedStatus(c) == IF i_nest_num[c] = 0 THEN old[Cur(c)] ELSE i_enable[c]

MutNoCount(c) == IF i_nest_num[c] = 0 THEN 1 ELSE i_nest_num[c]
NestAfterOff(c) == i_nest_num[c] + 1

(* iset(false), then the bookkeeping of this CPU, which nothing interrupts. *)
OffSave(c) ==
  LET f == Cur(c) IN
  /\ pc[f] = "off"
  /\ ienabled' = [ienabled EXCEPT ![c] = FALSE]
  /\ i_enable' = [i_enable EXCEPT ![c] = SavedStatus(c)]
  /\ i_nest_num' = [i_nest_num EXCEPT ![c] = NestAfterOff(c)]
  /\ old' = [old EXCEPT ![f] = FALSE]
  /\ Goto(f, "xchg")
  /\ UNCHANGED <<cpuVars, savedIF, locked, want, holds, ambient>>

MutXchg(l) == TRUE
XchgSucceeds(l) == ~locked[l]

(* The atomic_xchg of _lock that returns 0; one that returns 1 spins. *)
Acquire(c) ==
  LET f == Cur(c) IN
  /\ pc[f] \in {"xchg", "kxchg"}
  /\ XchgSucceeds(want[f])
  /\ locked' = [locked EXCEPT ![want[f]] = TRUE]
  /\ holds' = [holds EXCEPT ![f] = @ \cup {want[f]}]
  /\ want' = [want EXCEPT ![f] = NoLock]
  /\ Goto(f, IF pc[f] = "xchg" THEN "run" ELSE "kcrit")
  /\ UNCHANGED <<cpuVars, ienabled, i_nest_num, i_enable, savedIF, old, ambient>>

(* spin_unlock: _unlock first ... *)
Unlock(c, l) ==
  LET f == Cur(c) IN
  /\ pc[f] = "run" /\ l \in holds[f]
  /\ locked' = [locked EXCEPT ![l] = FALSE]
  /\ holds' = [holds EXCEPT ![f] = @ \ {l}]
  /\ Goto(f, "drop")
  /\ UNCHANGED <<cpuVars, ienabled, i_nest_num, i_enable, savedIF, want, old, ambient>>

(* ... then interrupt_on, whose early returns leave everything alone. *)
MutDropsTwo(c) == i_nest_num[c] - 2
NestAfterOn(c) == i_nest_num[c] - 1

MutEnablesEarly(c) == i_enable[c]
FlagAfterOn(c) == NestAfterOn(c) = 0 /\ i_enable[c]

InterruptOn(c) ==
  LET f == Cur(c) IN
  /\ pc[f] = "drop"
  /\ Goto(f, "run")
  /\ IF ienabled[c] \/ i_nest_num[c] = 0
     THEN UNCHANGED <<ienabled, i_nest_num>>
     ELSE /\ i_nest_num' = [i_nest_num EXCEPT ![c] = NestAfterOn(c)]
          /\ ienabled' = [ienabled EXCEPT ![c] = FlagAfterOn(c)]
  /\ UNCHANGED <<cpuVars, i_enable, savedIF, locked, want, old, holds, ambient>>

-----------------------------------------------------------------------------
(* kalloc, kfree and printf save the flag in a local variable instead. *)

SaveFlag(c) ==
  LET f == Cur(c) IN
  /\ pc[f] = "run"
  /\ old' = [old EXCEPT ![f] = ienabled[c]]
  /\ Goto(f, "kold")
  /\ UNCHANGED <<cpuVars, ienabled, i_nest_num, i_enable, savedIF, locked, want, holds,
                 ambient>>

ClearFlag(c) ==
  LET f == Cur(c) IN
  /\ pc[f] = "kold"
  /\ ienabled' = [ienabled EXCEPT ![c] = FALSE]
  /\ Goto(f, "kcrit")
  /\ UNCHANGED <<cpuVars, i_nest_num, i_enable, savedIF, locked, want, old, holds,
                 ambient>>

(* _lock of a page tree, a slab or the console, hand over hand in lock order. *)
RawLock(c, l) ==
  LET f == Cur(c) IN
  /\ pc[f] = "kcrit"
  /\ \A h \in holds[f] : h < l
  /\ want' = [want EXCEPT ![f] = l]
  /\ Goto(f, "kxchg")
  /\ UNCHANGED <<cpuVars, ienabled, i_nest_num, i_enable, savedIF, locked, old, holds,
                 ambient>>

RawUnlock(c, l) ==
  LET f == Cur(c) IN
  /\ pc[f] = "kcrit" /\ l \in holds[f] \cap RawLocks
  /\ locked' = [locked EXCEPT ![l] = FALSE]
  /\ holds' = [holds EXCEPT ![f] = @ \ {l}]
  /\ UNCHANGED <<cpuVars, ienabled, i_nest_num, i_enable, savedIF, pc, want, old, ambient>>

(* if(itrpt_able) iset(true): off already when it is not. *)
RestoreFlag(c) ==
  LET f == Cur(c) IN
  /\ pc[f] = "kcrit" /\ holds[f] \cap RawLocks = {}
  /\ ienabled' = [ienabled EXCEPT ![c] = old[f]]
  /\ old' = [old EXCEPT ![f] = FALSE]
  /\ Goto(f, "run")
  /\ UNCHANGED <<cpuVars, i_nest_num, i_enable, savedIF, locked, want, holds,
                 ambient>>

-----------------------------------------------------------------------------
(* Traps.  The entry stub saves EFLAGS and does cli; the handlers then run as
   the flow c; __am_iret resumes any thread that no other CPU executes. *)
EnterTrap(c) ==
  /\ inTrap' = [inTrap EXCEPT ![c] = TRUE]
  /\ savedIF' = [savedIF EXCEPT ![on[c]] = ienabled[c]]
  /\ ienabled' = [ienabled EXCEPT ![c] = FALSE]
  /\ UNCHANGED <<on, i_nest_num, i_enable, locked, pc, want, old, holds, ambient>>

(* A device interrupt, between any two instructions while IF is set. *)
Interrupt(c) == ~inTrap[c] /\ ienabled[c] /\ EnterTrap(c)

(* yield(): int $0x81, taken whatever IF is; never called inside a section. *)
Yield(c) ==
  /\ ~inTrap[c] /\ pc[on[c]] = "run" /\ holds[on[c]] = {}
  /\ ambient[on[c]]
  /\ EnterTrap(c)

Iret(c) ==
  /\ inTrap[c] /\ pc[c] = "run" /\ holds[c] = {}
  /\ \E t \in Threads :
       /\ \A d \in CPUs \ {c} : on[d] # t
       /\ on' = [on EXCEPT ![c] = t]
       /\ ienabled' = [ienabled EXCEPT ![c] = savedIF[t]]
       /\ savedIF' = [savedIF EXCEPT ![t] = FALSE]
  /\ inTrap' = [inTrap EXCEPT ![c] = FALSE]
  /\ UNCHANGED <<i_nest_num, i_enable, locked, pc, want, old, holds, ambient>>

Next ==
  \E c \in CPUs :
    \/ OsRun(c)
    \/ \E l \in SpinLocks : OffRead(c, l)
    \/ OffSave(c)
    \/ Acquire(c)
    \/ \E l \in SpinLocks : Unlock(c, l)
    \/ InterruptOn(c)
    \/ SaveFlag(c)
    \/ ClearFlag(c)
    \/ \E l \in RawLocks : RawLock(c, l)
    \/ \E l \in RawLocks : RawUnlock(c, l)
    \/ RestoreFlag(c)
    \/ Interrupt(c)
    \/ Yield(c)
    \/ Iret(c)

Spec == Init /\ [][Next]_vars

-----------------------------------------------------------------------------
TypeOK ==
  /\ on \in [CPUs -> Threads]
  /\ inTrap \in [CPUs -> BOOLEAN]
  /\ ienabled \in [CPUs -> BOOLEAN]
  /\ i_nest_num \in [CPUs -> Nat]
  /\ i_enable \in [CPUs -> BOOLEAN]
  /\ savedIF \in [Threads -> BOOLEAN]
  /\ locked \in [Locks -> BOOLEAN]
  /\ pc \in [Flows -> PCs]
  /\ want \in [Flows -> Locks \cup {NoLock}]
  /\ old \in [Flows -> BOOLEAN]
  /\ holds \in [Flows -> SUBSET Locks]
  /\ ambient \in [Threads -> BOOLEAN]

(* A lock has at most one holder, and its int is 1 exactly while it has one:
   _lock and _unlock pair up over all the paths of spin_lock, kalloc, printf
   and the trap handlers (common.c:4-10). *)
MutualExclusion ==
  /\ \A f, g \in Flows : f # g => holds[f] \cap holds[g] = {}
  /\ \A l \in Locks : locked[l] <=> \E f \in Flows : l \in holds[f]

(* A flow that holds a lock, or is between _unlock and interrupt_on, is the one
   its CPU executes, with interrupts off.  So no trap handler ever spins for a
   lock whose holder it has interrupted, and no holder is ever descheduled
   (what interrupt_off in spin_lock is for, os.c:115). *)
HolderKeepsCpu ==
  \A f \in Flows :
    holds[f] # {} \/ pc[f] \in {"xchg", "drop", "kcrit", "kxchg"} =>
      \E c \in CPUs : Cur(c) = f /\ ~ienabled[c]

(* How many interrupt_off calls of flow f have not met their interrupt_on. *)
Depth(f) == Cardinality(holds[f] \cap SpinLocks)
            + IF pc[f] \in {"xchg", "drop"} THEN 1 ELSE 0

(* The nesting counter of a CPU counts the sections of the flow it executes
   and of no other: no migration leaves a count behind on another CPU
   (os.c:118-121, 134). *)
NestMatches == \A c \in CPUs : i_nest_num[c] = Depth(Cur(c))

AmbientIF(f) == f \in Threads /\ ambient[f]

(* Leaving the outermost section restores exactly the interrupt flag the flow
   had before it, whatever ran on that CPU, or on the one it was moved from, in
   between (os.c:118-120, 135; pmm.c:11-13). *)
FlagRestored ==
  \A c \in CPUs :
    LET f == Cur(c) IN
    /\ pc[f] = "run" => (ienabled[c] <=> AmbientIF(f) /\ holds[f] = {})
    /\ i_nest_num[c] > 0 => (i_enable[c] <=> AmbientIF(f))
=============================================================================
