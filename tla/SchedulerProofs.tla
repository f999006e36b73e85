------------------------------ MODULE SchedulerProofs ------------------------------
(* The scheduler never lets two CPUs run on one task's stack and dispatches as
   one that takes a single step for it, its list of tasks is complete, and a
   CPU that goes idle has found every task busy, for any numbers of CPUs and
   tasks.

   The invariant IInv says, for each phase of a CPU's trap, which frames are
   live and who may use them.  The heart of it is the ownership of tasks: a CPU
   owns its current and its last task, nobody else's; an owned task that the CPU
   has left (Saved) has its frame in slot 0 and i_nest 1 until ReleaseLast; a
   task nobody owns (Free) has its frame in slot 0, i_nest 0, and an empty
   stack otherwise.

   The invariant of the list gives every listed task a rank, the number of tasks
   behind it.  A new task is linked in front, so that ranks never change, and
   a scan runs down the ranks: at most once from the task where it starts to
   the end of the list, then once from the head.  What it still owes is below
   the task it looks at, which bounds the polls it needs by twice the number of
   tasks.                                                                    *)
EXTENDS Scheduler, NaturalsInduction, FiniteSetTheorems, TLAPS

Saved(x) == i_nest[x] = 1 /\ ctx[x][0] = x

(* The stack of c is that of task x, or, for Null, of no task. *)
OnStackOf(c, x) == IF x = Null THEN on[c] \notin Tasks ELSE on[c] = x

LeftIsSaved(c) ==
  last_task[c] \notin {Null, current_task[c]} => Saved(last_task[c])

Executing(c) ==
  /\ OnStackOf(c, current_task[c])
  /\ current_task[c] # Null => i_nest[current_task[c]] = 0
  /\ LeftIsSaved(c)

Releasing(c) ==
  /\ OnStackOf(c, current_task[c])
  /\ current_task[c] # Null => Saved(current_task[c])
  /\ LeftIsSaved(c)

Scheduling(c) ==
  /\ OnStackOf(c, current_task[c])
  /\ current_task[c] # Null => Saved(current_task[c])
  /\ last_task[c] = current_task[c]

Returning(c) ==
  /\ OnStackOf(c, last_task[c])
  /\ IF current_task[c] = Null THEN ret[c] \notin Tasks
     ELSE ret[c] = current_task[c] /\ i_nest[current_task[c]] = 0
  /\ LeftIsSaved(c)

PhaseOf(c) ==
  /\ pc[c] \in {"exec", "create"} => Executing(c)
  /\ pc[c] = "release" => Releasing(c)
  /\ pc[c] \in {"schedule", "poll", "examine", "halt"} => Scheduling(c)
  /\ pc[c] = "iret" => Returning(c)

PhaseInv == \A c \in CPUs : PhaseOf(c)

Owns(c, x) == x = current_task[c] \/ x = last_task[c]

OwnerInv ==
  /\ \A x \in Tasks : running[x] <=> \E c \in CPUs : Owns(c, x)
  /\ \A c, d \in CPUs, x \in Tasks : Owns(c, x) /\ Owns(d, x) => c = d

FreeInv ==
  \A x \in Tasks : ~running[x] =>
    /\ i_nest[x] = 0
    /\ next[x] # Unlinked => ctx[x][0] = x
    /\ \A c \in CPUs : on[c] # x

(* Every task pointer that is followed leads to a listed task. *)
ListInv ==
  /\ task_list \in Listed \cup {Null}
  /\ \A x \in Listed : next[x] \in Listed \cup {Null}
  /\ \A c \in CPUs :
       /\ current_task[c] \in Listed \cup {Null}
       /\ last_task[c] \in Listed \cup {Null}
       /\ pc[c] \in {"poll", "examine"} => t[c] \in Listed \cup {Null}

CreateInv ==
  /\ \A c \in CPUs : pc[c] = "create" =>
       list_lock /\ t[c] \in Tasks /\ next[t[c]] = Unlinked /\ ctx[t[c]][0] = t[c]
  /\ \A c, d \in CPUs : pc[c] = "create" /\ pc[d] = "create" => c = d

IInv ==
  /\ SchedulerTypeOK /\ PhaseInv /\ OwnerInv /\ FreeInv /\ ListInv /\ CreateInv
  /\ nullctx \notin Tasks

-----------------------------------------------------------------------------
LEMMA Distinct ==
  /\ Null \notin Tasks /\ Null # Unlinked /\ Unlinked \notin Tasks
  /\ Stale \notin Tasks /\ NoCtx \notin Tasks
  /\ \A c \in CPUs : c \notin Tasks
BY SchedulerAssumption DEF Flows

LEMMA InitInv == Init => IInv
<1> SUFFICES ASSUME Init PROVE IInv
  OBVIOUS
<1> USE Distinct DEF Init
<1>1. \A k \in DOMAIN InitList : InitList[k] \in InitTasks /\ InitList[k] \in Tasks
  BY SchedulerAssumption DEF InitTasks
<1>2. \A x \in InitTasks : AfterInInit(x) \in InitTasks \cup {Null}
  BY SchedulerAssumption, <1>1 DEF AfterInInit, InitTasks
<1>3. InitTasks \subseteq Tasks
  BY <1>1 DEF InitTasks
<1>4. task_list \in InitTasks \cup {Null} /\ task_count \in Nat
  BY SchedulerAssumption, <1>1
<1>5. SchedulerTypeOK
  <2>1. next \in [Tasks -> Tasks \cup {Null, Unlinked}]
    BY <1>2, <1>3
  <2>2. ctx \in [Tasks -> [Slots -> Ctxs]]
    BY <1>3 DEF Ctxs, Flows
  <2>3. task_list \in Tasks \cup {Null}
    BY <1>3, <1>4
  <2>4. on \in [CPUs -> Ctxs] /\ ret \in [CPUs -> Ctxs] /\ nullctx \in Ctxs
    BY DEF Ctxs, Flows
  <2>5. pc \in [CPUs -> PCs]
    BY DEF PCs
  <2>6. running \in [Tasks -> BOOLEAN] /\ blocked \in [Tasks -> BOOLEAN]
    OBVIOUS
  <2>7. i_nest \in [Tasks -> 0..1] /\ i \in [CPUs -> Nat]
    OBVIOUS
  <2>8. current_task \in [CPUs -> Tasks \cup {Null}] /\ last_task \in [CPUs -> Tasks \cup {Null}]
    OBVIOUS
  <2>9. t \in [CPUs -> Tasks \cup {Null}] /\ due \in [CPUs -> SUBSET Tasks]
    OBVIOUS
  <2>10. list_lock \in BOOLEAN
    OBVIOUS
  <2> HIDE DEF Init
  <2> QED
    BY <1>4, <2>1, <2>2, <2>3, <2>4, <2>5, <2>6, <2>7, <2>8, <2>9, <2>10 DEF SchedulerTypeOK
<1>6. PhaseInv
  BY DEF PhaseInv, PhaseOf, Executing, OnStackOf, LeftIsSaved
<1>7. Listed = InitTasks
  BY <1>2, <1>3 DEF Listed
<1>8. FreeInv
  BY <1>7 DEF FreeInv, Listed, Slots
<1>9. OwnerInv /\ CreateInv /\ nullctx \notin Tasks
  BY DEF OwnerInv, Owns, CreateInv
<1>10. ListInv
  BY <1>2, <1>3, <1>4, <1>7 DEF ListInv
<1> QED
  BY <1>5, <1>6, <1>8, <1>9, <1>10 DEF IInv

LEMMA TrapSaveInv ==
  ASSUME IInv, NEW c \in CPUs, TrapSave(c)
  PROVE  IInv'
<1> DEFINE cur == current_task[c]
<1> USE Distinct DEF TrapSave, Goto, listVars, taskVars, cpuVars
<1>0. /\ SchedulerTypeOK /\ PhaseInv /\ OwnerInv /\ FreeInv /\ ListInv /\ CreateInv
      /\ nullctx \notin Tasks
  BY DEF IInv
<1>1. cur # Null => cur \in Tasks /\ i_nest[cur] = 0
  BY <1>0 DEF SchedulerTypeOK, PhaseInv, PhaseOf, Executing
<1>2. SchedulerTypeOK'
  <2>1. i_nest' \in [Tasks -> 0..1]
    BY <1>0, <1>1 DEF SchedulerTypeOK
  <2>2. ctx' \in [Tasks -> [Slots -> Ctxs]]
    <3>1. CASE cur = Null
      BY <1>0, <3>1 DEF SchedulerTypeOK
    <3>2. CASE cur # Null
      <4>1. [ctx[cur] EXCEPT ![0] = on[c]] \in [Slots -> Ctxs]
        BY <1>0, <1>1, <3>2 DEF SchedulerTypeOK
      <4>2. ctx' = [ctx EXCEPT ![cur] = [ctx[cur] EXCEPT ![0] = on[c]]]
        BY <1>1, <3>2
      <4>3. ctx \in [Tasks -> [Slots -> Ctxs]]
        BY <1>0 DEF SchedulerTypeOK
      <4> HIDE DEF TrapSave
      <4> QED
        BY <4>1, <4>2, <4>3
    <3> QED
      BY <3>1, <3>2
  <2> QED
    BY <1>0, <2>1, <2>2 DEF SchedulerTypeOK, PCs
<1>3. PhaseInv'
  BY <1>0, <1>1 DEF SchedulerTypeOK, PhaseInv, PhaseOf, Executing, Releasing, Scheduling,
    Returning, OnStackOf, LeftIsSaved, Saved, OwnerInv, Owns, Slots
<1>4. OwnerInv'
  BY <1>0 DEF OwnerInv, Owns
<1>5. FreeInv'
  BY <1>0, <1>1 DEF SchedulerTypeOK, FreeInv, OwnerInv, Owns
<1>6. ListInv'
  BY <1>0 DEF SchedulerTypeOK, ListInv, Listed
<1>7. CreateInv'
  <2>1. \A x \in Tasks : next[x] = Unlinked => ctx'[x] = ctx[x]
    BY <1>0 DEF SchedulerTypeOK, ListInv, Listed
  <2> QED
    BY <1>0, <2>1 DEF SchedulerTypeOK, CreateInv
<1>8. nullctx' \notin Tasks
  BY <1>0 DEF PhaseInv, PhaseOf, Executing, OnStackOf
<1> QED
  BY <1>2, <1>3, <1>4, <1>5, <1>6, <1>7, <1>8 DEF IInv

LEMMA BlockInv ==
  ASSUME IInv, NEW c \in CPUs, Block(c)
  PROVE  IInv'
<1> USE Distinct DEF Block, Goto, listVars, taskVars, cpuVars
<1>0. /\ SchedulerTypeOK /\ PhaseInv /\ OwnerInv /\ FreeInv /\ ListInv /\ CreateInv
      /\ nullctx \notin Tasks
  BY DEF IInv
<1>2. SchedulerTypeOK'
  <2>1. blocked' \in [Tasks -> BOOLEAN]
    BY <1>0 DEF SchedulerTypeOK
  <2> QED
    BY <1>0, <2>1 DEF SchedulerTypeOK
<1>3. PhaseInv'
  BY <1>0 DEF SchedulerTypeOK, PhaseInv, PhaseOf, Executing, Releasing, Scheduling,
    Returning, OnStackOf, LeftIsSaved, Saved
<1>4. OwnerInv'
  BY <1>0 DEF OwnerInv, Owns
<1>5. FreeInv'
  BY <1>0 DEF FreeInv
<1>6. ListInv'
  BY <1>0 DEF SchedulerTypeOK, ListInv, Listed
<1>7. CreateInv'
  BY <1>0 DEF SchedulerTypeOK, CreateInv
<1>8. nullctx' \notin Tasks
  BY <1>0
<1> QED
  BY <1>2, <1>3, <1>4, <1>5, <1>6, <1>7, <1>8 DEF IInv

LEMMA WakeInv ==
  ASSUME IInv, NEW x \in Tasks, Wake(x)
  PROVE  IInv'
<1> USE Distinct DEF Wake, Goto, listVars, taskVars, cpuVars
<1>0. /\ SchedulerTypeOK /\ PhaseInv /\ OwnerInv /\ FreeInv /\ ListInv /\ CreateInv
      /\ nullctx \notin Tasks
  BY DEF IInv
<1>2. SchedulerTypeOK'
  <2>1. blocked' \in [Tasks -> BOOLEAN]
    BY <1>0 DEF SchedulerTypeOK
  <2> QED
    BY <1>0, <2>1 DEF SchedulerTypeOK
<1>3. PhaseInv'
  BY <1>0 DEF SchedulerTypeOK, PhaseInv, PhaseOf, Executing, Releasing, Scheduling,
    Returning, OnStackOf, LeftIsSaved, Saved
<1>4. OwnerInv'
  BY <1>0 DEF OwnerInv, Owns
<1>5. FreeInv'
  BY <1>0 DEF FreeInv
<1>6. ListInv'
  BY <1>0 DEF SchedulerTypeOK, ListInv, Listed
<1>7. CreateInv'
  BY <1>0 DEF SchedulerTypeOK, CreateInv
<1>8. nullctx' \notin Tasks
  BY <1>0
<1> QED
  BY <1>2, <1>3, <1>4, <1>5, <1>6, <1>7, <1>8 DEF IInv

LEMMA ScheduleBeginInv ==
  ASSUME IInv, NEW c \in CPUs, ScheduleBegin(c)
  PROVE  IInv'
<1> USE Distinct DEF ScheduleBegin, Goto, listVars, taskVars, cpuVars
<1>0. /\ SchedulerTypeOK /\ PhaseInv /\ OwnerInv /\ FreeInv /\ ListInv /\ CreateInv
      /\ nullctx \notin Tasks
  BY DEF IInv
<1>2. SchedulerTypeOK'
  <2>1. due' \in [CPUs -> SUBSET Tasks]
    BY <1>0 DEF SchedulerTypeOK, Listed
  <2> QED
    BY <1>0, <2>1 DEF SchedulerTypeOK, PCs
<1>3. PhaseInv'
  BY <1>0 DEF SchedulerTypeOK, PhaseInv, PhaseOf, Executing, Releasing, Scheduling,
    Returning, OnStackOf, LeftIsSaved, Saved
<1>4. OwnerInv'
  BY <1>0 DEF OwnerInv, Owns
<1>5. FreeInv'
  BY <1>0 DEF FreeInv
<1>6. ListInv'
  BY <1>0 DEF SchedulerTypeOK, ListInv, Listed
<1>7. CreateInv'
  BY <1>0 DEF SchedulerTypeOK, CreateInv
<1>8. nullctx' \notin Tasks
  BY <1>0
<1> QED
  BY <1>2, <1>3, <1>4, <1>5, <1>6, <1>7, <1>8 DEF IInv

LEMMA PollNextInv ==
  ASSUME IInv, NEW c \in CPUs, PollNext(c)
  PROVE  IInv'
<1> USE Distinct DEF PollNext, Goto, listVars, taskVars, cpuVars
<1>0. /\ SchedulerTypeOK /\ PhaseInv /\ OwnerInv /\ FreeInv /\ ListInv /\ CreateInv
      /\ nullctx \notin Tasks
  BY DEF IInv
<1>1. Successor(t[c]) \in Listed \cup {Null}
  BY <1>0 DEF SchedulerTypeOK, ListInv, Listed, Successor
<1>2. SchedulerTypeOK'
  BY <1>0, <1>1 DEF SchedulerTypeOK, PCs, Listed
<1>3. PhaseInv'
  BY <1>0 DEF SchedulerTypeOK, PhaseInv, PhaseOf, Executing, Releasing, Scheduling,
    Returning, OnStackOf, LeftIsSaved, Saved
<1>4. OwnerInv'
  BY <1>0 DEF OwnerInv, Owns
<1>5. FreeInv'
  BY <1>0 DEF FreeInv
<1>6. ListInv'
  BY <1>0, <1>1 DEF SchedulerTypeOK, ListInv, Listed
<1>7. CreateInv'
  BY <1>0 DEF SchedulerTypeOK, CreateInv
<1>8. nullctx' \notin Tasks
  BY <1>0
<1> QED
  BY <1>2, <1>3, <1>4, <1>5, <1>6, <1>7, <1>8 DEF IInv

LEMMA SkipInv ==
  ASSUME IInv, NEW c \in CPUs, Skip(c)
  PROVE  IInv'
<1> USE Distinct DEF Skip, Goto, listVars, taskVars, cpuVars
<1>0. /\ SchedulerTypeOK /\ PhaseInv /\ OwnerInv /\ FreeInv /\ ListInv /\ CreateInv
      /\ nullctx \notin Tasks
  BY DEF IInv
<1>2. SchedulerTypeOK'
  <2>1. i' \in [CPUs -> Nat] /\ due' \in [CPUs -> SUBSET Tasks]
    BY <1>0 DEF SchedulerTypeOK, Examined
  <2> QED
    BY <1>0, <2>1 DEF SchedulerTypeOK, PCs, Examined
<1>3. PhaseInv'
  BY <1>0 DEF SchedulerTypeOK, PhaseInv, PhaseOf, Executing, Releasing, Scheduling,
    Returning, OnStackOf, LeftIsSaved, Saved
<1>4. OwnerInv'
  BY <1>0 DEF OwnerInv, Owns
<1>5. FreeInv'
  BY <1>0 DEF FreeInv
<1>6. ListInv'
  BY <1>0 DEF SchedulerTypeOK, ListInv, Listed
<1>7. CreateInv'
  BY <1>0 DEF SchedulerTypeOK, CreateInv
<1>8. nullctx' \notin Tasks
  BY <1>0
<1> QED
  BY <1>2, <1>3, <1>4, <1>5, <1>6, <1>7, <1>8 DEF IInv

LEMMA ResumeNullInv ==
  ASSUME IInv, NEW c \in CPUs, ResumeNull(c)
  PROVE  IInv'
<1> USE Distinct DEF ResumeNull, Goto, listVars, taskVars, cpuVars
<1>0. /\ SchedulerTypeOK /\ PhaseInv /\ OwnerInv /\ FreeInv /\ ListInv /\ CreateInv
      /\ nullctx \notin Tasks
  BY DEF IInv
<1>2. SchedulerTypeOK'
  BY <1>0 DEF SchedulerTypeOK, PCs
<1>3. PhaseInv'
  BY <1>0 DEF SchedulerTypeOK, PhaseInv, PhaseOf, Executing, Releasing, Scheduling,
    Returning, OnStackOf, LeftIsSaved, Saved
<1>4. OwnerInv'
  BY <1>0 DEF OwnerInv, Owns
<1>5. FreeInv'
  BY <1>0 DEF FreeInv
<1>6. ListInv'
  BY <1>0 DEF SchedulerTypeOK, ListInv, Listed
<1>7. CreateInv'
  BY <1>0 DEF SchedulerTypeOK, CreateInv
<1>8. nullctx' \notin Tasks
  BY <1>0
<1> QED
  BY <1>2, <1>3, <1>4, <1>5, <1>6, <1>7, <1>8 DEF IInv

LEMMA CreateBeginInv ==
  ASSUME IInv, NEW c \in CPUs, NEW x \in Tasks, CreateBegin(c, x)
  PROVE  IInv'
<1> USE Distinct DEF CreateBegin, Goto, listVars, taskVars, cpuVars
<1>0. /\ SchedulerTypeOK /\ PhaseInv /\ OwnerInv /\ FreeInv /\ ListInv /\ CreateInv
      /\ nullctx \notin Tasks
  BY DEF IInv
<1>1. ~running[x] /\ \A d \in CPUs : current_task[d] # x /\ last_task[d] # x
  <2>1. \A d \in CPUs : current_task[d] # x /\ last_task[d] # x
    <3> SUFFICES ASSUME NEW d \in CPUs PROVE current_task[d] # x /\ last_task[d] # x
      OBVIOUS
    <3>1. x \notin Listed \cup {Null}
      BY DEF Listed
    <3>2. current_task[d] \in Listed \cup {Null} /\ last_task[d] \in Listed \cup {Null}
      BY <1>0 DEF ListInv
    <3> QED
      BY <3>1, <3>2
  <2> QED
    BY <1>0, <2>1 DEF OwnerInv, Owns
<1>2. SchedulerTypeOK'
  <2>1. ctx' \in [Tasks -> [Slots -> Ctxs]]
    <3>1. [ctx[x] EXCEPT ![0] = x] \in [Slots -> Ctxs]
      BY <1>0 DEF SchedulerTypeOK, Ctxs, Flows
    <3>2. ctx' = [ctx EXCEPT ![x] = [ctx[x] EXCEPT ![0] = x]]
      OBVIOUS
    <3>3. ctx \in [Tasks -> [Slots -> Ctxs]]
      BY <1>0 DEF SchedulerTypeOK
    <3> HIDE DEF CreateBegin
    <3> QED
      BY <3>1, <3>2, <3>3
  <2>2. running' \in [Tasks -> BOOLEAN] /\ blocked' \in [Tasks -> BOOLEAN]
    BY <1>0 DEF SchedulerTypeOK
  <2> QED
    BY <1>0, <2>1, <2>2 DEF SchedulerTypeOK, PCs
<1>3. PhaseInv'
  BY <1>0, <1>1 DEF SchedulerTypeOK, PhaseInv, PhaseOf, Executing, Releasing, Scheduling,
    Returning, OnStackOf, LeftIsSaved, Saved
<1>4. OwnerInv'
  BY <1>0, <1>1 DEF SchedulerTypeOK, OwnerInv, Owns
<1>5. FreeInv'
  BY <1>0, <1>1 DEF SchedulerTypeOK, FreeInv
<1>6. ListInv'
  BY <1>0 DEF SchedulerTypeOK, ListInv, Listed
<1>7. CreateInv'
  BY <1>0 DEF SchedulerTypeOK, CreateInv, ListFree, Slots
<1>8. nullctx' \notin Tasks
  BY <1>0
<1> QED
  BY <1>2, <1>3, <1>4, <1>5, <1>6, <1>7, <1>8 DEF IInv

LEMMA CreateLinkInv ==
  ASSUME IInv, NEW c \in CPUs, CreateLink(c)
  PROVE  IInv'
<1> USE Distinct DEF CreateLink, Goto, listVars, taskVars, cpuVars
<1>0. /\ SchedulerTypeOK /\ PhaseInv /\ OwnerInv /\ FreeInv /\ ListInv /\ CreateInv
      /\ nullctx \notin Tasks
  BY DEF IInv
<1>1. t[c] \in Tasks /\ ctx[t[c]][0] = t[c]
  BY <1>0 DEF CreateInv
<1>a. Listed' = Listed \cup {t[c]} /\ task_list' = t[c]
  BY <1>0, <1>1 DEF SchedulerTypeOK, ListInv, Listed
<1>2. SchedulerTypeOK'
  BY <1>0, <1>1 DEF SchedulerTypeOK, PCs
<1>3. PhaseInv'
  BY <1>0 DEF SchedulerTypeOK, PhaseInv, PhaseOf, Executing, Releasing, Scheduling,
    Returning, OnStackOf, LeftIsSaved, Saved
<1>4. OwnerInv'
  BY <1>0 DEF OwnerInv, Owns
<1>5. FreeInv'
  BY <1>0, <1>1 DEF SchedulerTypeOK, FreeInv
<1>6. ListInv'
  <2>1. \A x \in Listed' : next'[x] \in Listed' \cup {Null}
    BY <1>0, <1>1, <1>a DEF SchedulerTypeOK, ListInv, Listed
  <2> QED
    BY <1>0, <1>1, <1>a, <2>1 DEF SchedulerTypeOK, ListInv
<1>7. CreateInv'
  BY <1>0 DEF SchedulerTypeOK, CreateInv
<1>8. nullctx' \notin Tasks
  BY <1>0
<1> QED
  BY <1>2, <1>3, <1>4, <1>5, <1>6, <1>7, <1>8 DEF IInv

LEMMA GoIdleInv ==
  ASSUME IInv, NEW c \in CPUs, GoIdle(c)
  PROVE  IInv'
<1> USE Distinct DEF GoIdle, Goto, listVars, taskVars, cpuVars
<1>0. /\ SchedulerTypeOK /\ PhaseInv /\ OwnerInv /\ FreeInv /\ ListInv /\ CreateInv
      /\ nullctx \notin Tasks
  BY DEF IInv
<1>2. SchedulerTypeOK'
  BY <1>0 DEF SchedulerTypeOK, PCs
<1>3. PhaseInv'
  BY <1>0 DEF SchedulerTypeOK, PhaseInv, PhaseOf, Executing, Releasing, Scheduling,
    Returning, OnStackOf, LeftIsSaved, Saved
<1>4. OwnerInv'
  BY <1>0 DEF SchedulerTypeOK, OwnerInv, Owns, PhaseInv, PhaseOf, Scheduling
<1>5. FreeInv'
  BY <1>0 DEF FreeInv
<1>6. ListInv'
  BY <1>0 DEF SchedulerTypeOK, ListInv, Listed
<1>7. CreateInv'
  BY <1>0 DEF SchedulerTypeOK, CreateInv
<1>8. nullctx' \notin Tasks
  BY <1>0
<1> QED
  BY <1>2, <1>3, <1>4, <1>5, <1>6, <1>7, <1>8 DEF IInv

LEMMA ResumeSelfInv ==
  ASSUME IInv, NEW c \in CPUs, ResumeSelf(c)
  PROVE  IInv'
<1> USE Distinct DEF ResumeSelf, Goto, listVars, taskVars, cpuVars
<1>0. /\ SchedulerTypeOK /\ PhaseInv /\ OwnerInv /\ FreeInv /\ ListInv /\ CreateInv
      /\ nullctx \notin Tasks
  BY DEF IInv
<1>1. /\ t[c] \in Tasks /\ i_nest[t[c]] = 1 /\ ctx[t[c]][0] = t[c]
      /\ last_task[c] = t[c] /\ on[c] = t[c] /\ running[t[c]]
  BY <1>0 DEF SchedulerTypeOK, PhaseInv, PhaseOf, Scheduling, OnStackOf, Saved, OwnerInv, Owns
<1>a. i_nest' = [i_nest EXCEPT ![t[c]] = 0]
  BY <1>1
<1>b. ret' = [ret EXCEPT ![c] = t[c]]
  <2>1. i_nest'[t[c]] = 0
    BY <1>0, <1>1, <1>a DEF SchedulerTypeOK
  <2>2. Context(t[c], i_nest'[t[c]]) = t[c]
    BY <1>1, <2>1 DEF Context, Slots
  <2> QED
    BY <2>2
<1>2. SchedulerTypeOK'
  BY <1>0, <1>1, <1>a, <1>b DEF SchedulerTypeOK, PCs, Ctxs, Flows
<1>3. PhaseInv'
  <2> SUFFICES ASSUME NEW d \in CPUs PROVE PhaseOf(d)'
    BY DEF PhaseInv
  <2>1. CASE d = c
    BY <1>0, <1>1, <1>a, <1>b, <2>1 DEF SchedulerTypeOK, PhaseOf, Returning, OnStackOf, LeftIsSaved
  <2>2. CASE d # c
    <3>1. current_task[d] # t[c] /\ last_task[d] # t[c]
      BY <1>0, <1>1, <2>2 DEF OwnerInv, Owns
    <3> QED
      BY <1>0, <1>1, <1>a, <1>b, <2>2, <3>1 DEF SchedulerTypeOK, PhaseInv, PhaseOf, Executing, Releasing, Scheduling,
    Returning, OnStackOf, LeftIsSaved, Saved
  <2> QED
    BY <2>1, <2>2
<1>4. OwnerInv'
  BY <1>0 DEF OwnerInv, Owns
<1>5. FreeInv'
  BY <1>0, <1>1, <1>a DEF SchedulerTypeOK, FreeInv
<1>6. ListInv'
  BY <1>0 DEF SchedulerTypeOK, ListInv, Listed
<1>7. CreateInv'
  BY <1>0 DEF SchedulerTypeOK, CreateInv
<1>8. nullctx' \notin Tasks
  BY <1>0
<1> QED
  BY <1>2, <1>3, <1>4, <1>5, <1>6, <1>7, <1>8 DEF IInv

LEMMA SwitchInv ==
  ASSUME IInv, NEW c \in CPUs, Switch(c)
  PROVE  IInv'
<1> DEFINE x == t[c]
<1> USE Distinct DEF Switch, Goto, listVars, taskVars, cpuVars
<1>0. /\ SchedulerTypeOK /\ PhaseInv /\ OwnerInv /\ FreeInv /\ ListInv /\ CreateInv
      /\ nullctx \notin Tasks
  BY DEF IInv
<1>1. x \in Tasks /\ x \in Listed /\ x # current_task[c] /\ ~running[x]
  BY <1>0 DEF ListInv, Listed, Busy
<1>a. i_nest[x] = 0 /\ ctx[x][0] = x /\ \A d \in CPUs : ~Owns(d, x)
  BY <1>0, <1>1 DEF FreeInv, Listed, OwnerInv
<1>b. ret' = [ret EXCEPT ![c] = x]
  <2>1. Context(x, i_nest[x]) = x
    BY <1>a DEF Context, Slots
  <2> QED
    BY <2>1
<1>2. SchedulerTypeOK'
  BY <1>0, <1>1, <1>b DEF SchedulerTypeOK, PCs, Ctxs, Flows
<1>3. PhaseInv'
  <2> SUFFICES ASSUME NEW d \in CPUs PROVE PhaseOf(d)'
    BY DEF PhaseInv
  <2>1. CASE d = c
    <3>1. Scheduling(c)
      BY <1>0 DEF PhaseInv, PhaseOf
    <3> QED
      BY <1>0, <1>1, <1>a, <1>b, <2>1, <3>1 DEF SchedulerTypeOK, PhaseOf, Scheduling, Returning,
        OnStackOf, LeftIsSaved, Saved
  <2>2. CASE d # c
    BY <1>0, <1>b, <2>2 DEF SchedulerTypeOK, PhaseInv, PhaseOf, Executing, Releasing, Scheduling,
    Returning, OnStackOf, LeftIsSaved, Saved
  <2> QED
    BY <2>1, <2>2
<1>4. OwnerInv'
  <2>1. last_task[c] = current_task[c]
    BY <1>0 DEF PhaseInv, PhaseOf, Scheduling
  <2>2. \A d \in CPUs, y \in Tasks :
          Owns(d, y)' <=> Owns(d, y) \/ (d = c /\ y = x)
    BY <1>0, <2>1 DEF SchedulerTypeOK, Owns
  <2>3. \A y \in Tasks : running'[y] <=> running[y] \/ y = x
    BY <1>0, <1>1 DEF SchedulerTypeOK
  <2>4. \A y \in Tasks : running'[y] <=> \E d \in CPUs : Owns(d, y)'
    BY <1>0, <2>2, <2>3 DEF OwnerInv
  <2>5. \A d, e \in CPUs, y \in Tasks : Owns(d, y)' /\ Owns(e, y)' => d = e
    BY <1>0, <1>a, <2>2 DEF OwnerInv
  <2> QED
    BY <2>4, <2>5 DEF OwnerInv, Owns
<1>5. FreeInv'
  BY <1>0, <1>1 DEF SchedulerTypeOK, FreeInv
<1>6. ListInv'
  BY <1>0, <1>1 DEF SchedulerTypeOK, ListInv, Listed
<1>7. CreateInv'
  BY <1>0 DEF SchedulerTypeOK, CreateInv
<1>8. nullctx' \notin Tasks
  BY <1>0
<1> QED
  BY <1>2, <1>3, <1>4, <1>5, <1>6, <1>7, <1>8 DEF IInv

LEMMA ReleaseLastInv ==
  ASSUME IInv, NEW c \in CPUs, ReleaseLast(c)
  PROVE  IInv'
<1> DEFINE L == last_task[c]
<1> USE Distinct DEF ReleaseLast, HasLeft, NestAfterRelease, Goto, listVars, taskVars,
      cpuVars
<1>0. /\ SchedulerTypeOK /\ PhaseInv /\ OwnerInv /\ FreeInv /\ ListInv /\ CreateInv
      /\ nullctx \notin Tasks
  BY DEF IInv
<1>1. Releasing(c)
  BY <1>0 DEF PhaseInv, PhaseOf
<1>a. HasLeft(c) => /\ L \in Tasks /\ i_nest[L] = 1 /\ ctx[L][0] = L
                    /\ i_nest' = [i_nest EXCEPT ![L] = 0]
  BY <1>0, <1>1 DEF SchedulerTypeOK, Releasing, LeftIsSaved, Saved
<1>b. HasLeft(c) => \A d \in CPUs : on[d] # L
  <2> SUFFICES ASSUME HasLeft(c), NEW d \in CPUs PROVE on[d] # L
    OBVIOUS
  <2>1. CASE d = c
    BY <1>1, <1>a, <2>1 DEF Releasing, OnStackOf
  <2>2. CASE d # c
    <3>1. current_task[d] # L /\ last_task[d] # L
      BY <1>0, <1>a, <2>2 DEF OwnerInv, Owns
    <3>2. PhaseOf(d)
      BY <1>0 DEF PhaseInv
    <3> QED
      BY <1>0, <1>a, <3>1, <3>2 DEF SchedulerTypeOK, PCs, PhaseOf, Executing, Releasing,
        Scheduling, Returning, OnStackOf
  <2> QED
    BY <2>1, <2>2
<1>2. SchedulerTypeOK'
  <2>1. i_nest' \in [Tasks -> 0..1]
    <3>1. i_nest \in [Tasks -> 0..1]
      BY <1>0 DEF SchedulerTypeOK
    <3>2. CASE HasLeft(c)
      <4>1. L \in Tasks /\ i_nest' = [i_nest EXCEPT ![L] = 0]
        BY <1>a, <3>2
      <4> HIDE DEF ReleaseLast, HasLeft, L
      <4> QED
        BY <3>1, <4>1
    <3>3. CASE ~HasLeft(c)
      <4>1. i_nest' = i_nest
        BY <3>3
      <4> QED
        BY <3>1, <4>1
    <3> QED
      BY <3>2, <3>3
  <2>2. running' \in [Tasks -> BOOLEAN]
    BY <1>0, ZenonT(60) DEF SchedulerTypeOK
  <2> QED
    BY <1>0, <2>1, <2>2 DEF SchedulerTypeOK, PCs
<1>3. PhaseInv'
  <2> SUFFICES ASSUME NEW d \in CPUs PROVE PhaseOf(d)'
    BY DEF PhaseInv
  <2>1. CASE d = c
    BY <1>0, <1>1, <1>a, <2>1 DEF SchedulerTypeOK, PhaseOf, Releasing, Scheduling, OnStackOf,
      Saved
  <2>2. CASE d # c
    <3>1. HasLeft(c) => current_task[d] # L /\ last_task[d] # L
      BY <1>0, <1>a, <2>2 DEF OwnerInv, Owns
    <3> QED
      BY <1>0, <1>a, <2>2, <3>1 DEF SchedulerTypeOK, PhaseInv, PhaseOf, Executing, Releasing, Scheduling,
    Returning, OnStackOf, LeftIsSaved, Saved
  <2> QED
    BY <2>1, <2>2
<1>4. OwnerInv'
  <2>1. \A d \in CPUs, y \in Tasks :
          Owns(d, y)' <=> Owns(d, y) /\ ~(HasLeft(c) /\ d = c /\ y = L)
    BY <1>0 DEF SchedulerTypeOK, Owns
  <2>2. \A y \in Tasks : running'[y] <=> running[y] /\ ~(HasLeft(c) /\ y = L)
    BY <1>0, <1>a DEF SchedulerTypeOK
  <2>3. \A y \in Tasks : running'[y] <=> \E d \in CPUs : Owns(d, y)'
    <3>1. HasLeft(c) => \A d \in CPUs : Owns(d, L) => d = c
      BY <1>0, <1>a DEF OwnerInv, Owns
    <3> QED
      BY <1>0, <2>1, <2>2, <3>1 DEF OwnerInv
  <2>4. \A d, e \in CPUs, y \in Tasks : Owns(d, y)' /\ Owns(e, y)' => d = e
    BY <1>0, <2>1 DEF OwnerInv
  <2> QED
    BY <2>3, <2>4 DEF OwnerInv, Owns
<1>5. FreeInv'
  BY <1>0, <1>a, <1>b DEF SchedulerTypeOK, FreeInv
<1>6. ListInv'
  BY <1>0 DEF SchedulerTypeOK, ListInv, Listed
<1>7. CreateInv'
  BY <1>0 DEF SchedulerTypeOK, CreateInv
<1>8. nullctx' \notin Tasks
  BY <1>0
<1> QED
  BY <1>2, <1>3, <1>4, <1>5, <1>6, <1>7, <1>8 DEF IInv

LEMMA IretInv ==
  ASSUME IInv, NEW c \in CPUs, Iret(c)
  PROVE  IInv'
<1> DEFINE f == ret[c]
<1> USE Distinct DEF Iret, Popped, Goto, listVars, taskVars, cpuVars
<1>0. /\ SchedulerTypeOK /\ PhaseInv /\ OwnerInv /\ FreeInv /\ ListInv /\ CreateInv
      /\ nullctx \notin Tasks
  BY DEF IInv
<1>1. Returning(c)
  BY <1>0 DEF PhaseInv, PhaseOf
<1>a. f \in Tasks => f = current_task[c] /\ running[f] /\ i_nest[f] = 0
  BY <1>0, <1>1 DEF Returning, OwnerInv, Owns
<1>b. \A y \in Tasks : y # f /\ ctx[y][0] = y => ctx'[y][0] = y
  BY DEF Slots
<1>2. SchedulerTypeOK'
  <2>1. ctx' \in [Tasks -> [Slots -> Ctxs]]
    BY <1>0 DEF SchedulerTypeOK, Ctxs
  <2>2. ret' \in [CPUs -> Ctxs] /\ nullctx' \in Ctxs
    BY <1>0 DEF SchedulerTypeOK, Ctxs
  <2> QED
    BY <1>0, <2>1, <2>2 DEF SchedulerTypeOK, PCs
<1>3. PhaseInv'
  <2> SUFFICES ASSUME NEW d \in CPUs PROVE PhaseOf(d)'
    BY DEF PhaseInv
  <2>1. CASE d = c
    BY <1>0, <1>1, <1>a, <1>b, <2>1 DEF SchedulerTypeOK, PhaseOf, Returning, Executing, OnStackOf,
      LeftIsSaved, Saved
  <2>2. CASE d # c
    <3>1. f \in Tasks => current_task[d] # f /\ last_task[d] # f
      BY <1>0, <1>a, <2>2 DEF OwnerInv, Owns
    <3>2. \A y \in Tasks : y # f /\ Saved(y) => Saved(y)'
      BY <1>b DEF Saved
    <3>3. on'[d] = on[d] /\ pc'[d] = pc[d]
      BY <1>0, <2>2 DEF SchedulerTypeOK
    <3>4. /\ ret[d] \notin Tasks => ret'[d] \notin Tasks
          /\ ret[d] # f => ret'[d] = ret[d]
      BY <2>2
    <3>5. LeftIsSaved(d) => LeftIsSaved(d)'
      BY <1>0, <3>1, <3>2 DEF SchedulerTypeOK, LeftIsSaved
    <3>6. PhaseOf(d)
      BY <1>0 DEF PhaseInv
    <3>7. current_task[d] \in Tasks \cup {Null}
      BY <1>0 DEF SchedulerTypeOK
    <3> HIDE DEF Iret
    <3>8. UNCHANGED <<current_task, last_task, i_nest>>
      BY DEF Iret
    <3> QED
      BY <3>1, <3>2, <3>3, <3>4, <3>5, <3>6, <3>7, <3>8 DEF PhaseOf, Executing,
        Releasing, Scheduling, Returning, OnStackOf
  <2> QED
    BY <2>1, <2>2
<1>4. OwnerInv'
  BY <1>0 DEF OwnerInv, Owns
<1>5. FreeInv'
  BY <1>0, <1>a, <1>b DEF SchedulerTypeOK, FreeInv
<1>6. ListInv'
  BY <1>0 DEF SchedulerTypeOK, ListInv, Listed
<1>7. CreateInv'
  <2>1. \A x \in Tasks : next[x] = Unlinked => x # f
    BY <1>0, <1>a DEF SchedulerTypeOK, ListInv, Listed
  <2>2. \A d \in CPUs : pc'[d] = "create" => pc[d] = "create"
    BY <1>0 DEF SchedulerTypeOK
  <2>3. UNCHANGED <<t, next, list_lock>>
    OBVIOUS
  <2> HIDE DEF Iret
  <2> QED
    BY <1>0, <1>b, <2>1, <2>2, <2>3 DEF CreateInv
<1>8. nullctx' \notin Tasks
  BY <1>0
<1> QED
  BY <1>2, <1>3, <1>4, <1>5, <1>6, <1>7, <1>8 DEF IInv

-----------------------------------------------------------------------------
LEMMA StutterInv == ASSUME IInv, UNCHANGED vars PROVE IInv'
BY DEF IInv, SchedulerTypeOK, PhaseInv, PhaseOf, Executing, Releasing, Scheduling, Returning,
  OnStackOf, LeftIsSaved, Saved, OwnerInv, Owns, FreeInv, ListInv, CreateInv, Listed,
  vars, listVars, taskVars, cpuVars

LEMMA NextInv == IInv /\ [Next]_vars => IInv'
<1> SUFFICES ASSUME IInv, [Next]_vars PROVE IInv'
  OBVIOUS
<1>1. ASSUME NEW c \in CPUs, Step(c) PROVE IInv'
  BY <1>1, CreateLinkInv, TrapSaveInv, ReleaseLastInv, ScheduleBeginInv, PollNextInv,
    SkipInv, ResumeSelfInv, SwitchInv, GoIdleInv, ResumeNullInv, IretInv DEF Step
<1>2. ASSUME NEW c \in CPUs, Block(c) PROVE IInv'
  BY <1>2, BlockInv
<1>3. ASSUME NEW c \in CPUs, NEW x \in Tasks, CreateBegin(c, x) PROVE IInv'
  BY <1>3, CreateBeginInv
<1>4. ASSUME NEW x \in Tasks, Wake(x) PROVE IInv'
  BY <1>4, WakeInv
<1>5. CASE UNCHANGED vars
  BY <1>5, StutterInv
<1> QED
  BY <1>1, <1>2, <1>3, <1>4, <1>5 DEF Next

LEMMA Invariance == Spec => []IInv
BY InitInv, NextInv, PTL DEF Spec

(* Every variable keeps its type; in particular i_nest stays 0 or 1, so that
   context[] is never written past its first slot (kmt.c:17, 25, 51). *)
THEOREM TypeCorrect == Spec => []SchedulerTypeOK
<1>1. IInv => SchedulerTypeOK
  BY DEF IInv
<1> QED
  BY <1>1, Invariance, PTL

(* Whatever the numbers of CPUs and tasks, no two CPUs are on the stack of one
   task, because running hands a task from one owner to the next only after the
   owner has left its stack (kmt.c:20-29, 55-62). *)
THEOREM StacksExclusive == Spec => []TaskStackExclusive
<1>1. IInv => TaskStackExclusive
  <2> SUFFICES ASSUME IInv, NEW c \in CPUs, NEW d \in CPUs, c # d, on[c] \in Tasks,
                      on[c] = on[d]
               PROVE  FALSE
    BY DEF TaskStackExclusive
  <2>1. \A e \in CPUs : on[e] \in Tasks => Owns(e, on[e])
    <3> SUFFICES ASSUME NEW e \in CPUs, on[e] \in Tasks PROVE Owns(e, on[e])
      OBVIOUS
    <3>1. PhaseOf(e) /\ pc[e] \in PCs
      BY DEF IInv, PhaseInv, SchedulerTypeOK
    <3> QED
      BY <3>1 DEF PCs, PhaseOf, Executing, Releasing, Scheduling, Returning, OnStackOf,
        Owns
  <2> QED
    BY <2>1 DEF IInv, OwnerInv
<1> QED
  BY <1>1, Invariance, PTL

(* running is exactly ownership by one CPU (kmt.c:24, 56-61). *)
THEOREM Ownership == Spec => []RunningIsClaimed
<1>1. IInv => RunningIsClaimed
  <2> SUFFICES ASSUME IInv PROVE RunningIsClaimed
    OBVIOUS
  <2>1. OwnerInv /\ SchedulerTypeOK
    BY DEF IInv
  <2>2. \A x \in Tasks : running[x] <=>
          \E c \in CPUs : x \in {current_task[c], last_task[c]}
    BY <2>1 DEF OwnerInv, Owns
  <2>3. ASSUME NEW c \in CPUs, NEW d \in CPUs, c # d,
               NEW y \in {current_task[c], last_task[c]} \cap
                         {current_task[d], last_task[d]}
        PROVE  y = Null
    BY <2>1, <2>3 DEF OwnerInv, Owns, SchedulerTypeOK
  <2> QED
    BY <2>2, <2>3 DEF RunningIsClaimed
<1> QED
  BY <1>1, Invariance, PTL

(* A task that a CPU may pick has its live frame where kmt_schedule will look
   for it, and an otherwise empty stack (kmt.c:55-64). *)
THEOREM FramesLive == Spec => []RunnableHasFrame
<1>1. IInv => RunnableHasFrame
  BY DEF IInv, FreeInv, RunnableHasFrame, Listed
<1> QED
  BY <1>1, Invariance, PTL

-----------------------------------------------------------------------------
(* The steps of the scheduler are those of AbstractScheduler.  Besides IInv this
   needs that the task a CPU has picked stays awake until the CPU enters it:
   only its owner could block it, and the owner is in its trap. *)
AwakeInv ==
  /\ \A c \in CPUs : pc[c] = "iret" /\ current_task[c] # Null =>
       ~blocked[current_task[c]]
  /\ \A x \in Tasks : next[x] = Unlinked => ~blocked[x]

AInv == IInv /\ AwakeInv

Asleep == {x \in Tasks : blocked[x]}
At == [c \in CPUs |-> IF on[c] \in Tasks THEN on[c] ELSE Null]
Trapped == {c \in CPUs : pc[c] \notin {"exec", "create"}}

(* A step maps to a step of the abstract scheduler or to a stutter. *)
AbsStep == [Abs!Next]_(Abs!vars)

LEMMA Occupied ==
  ASSUME IInv, NEW e \in CPUs, on[e] \in Tasks
  PROVE  Owns(e, on[e])
<1>1. PhaseOf(e) /\ pc[e] \in PCs
  BY DEF IInv, PhaseInv, SchedulerTypeOK
<1> QED
  BY <1>1 DEF PCs, PhaseOf, Executing, Releasing, Scheduling, Returning, OnStackOf, Owns

LEMMA InitAwake == Init => AInv
<1> SUFFICES ASSUME Init PROVE AwakeInv
  BY InitInv DEF AInv
<1> QED
  BY DEF Init, AwakeInv

LEMMA NextAwake == AInv /\ [Next]_vars => AInv'
<1> SUFFICES ASSUME AInv, [Next]_vars PROVE AwakeInv'
  BY NextInv DEF AInv
<1>0. IInv /\ AwakeInv /\ SchedulerTypeOK
  BY DEF AInv, IInv
<1> USE <1>0, Distinct DEF Goto, listVars, taskVars, cpuVars
<1>1. ASSUME NEW c \in CPUs, Switch(c) \/ ResumeSelf(c) PROVE AwakeInv'
  <2>1. t[c] \in Tasks /\ ~blocked[t[c]] /\ current_task'[c] = t[c]
    BY <1>1 DEF Switch, ResumeSelf, Busy, SchedulerTypeOK
  <2>2. \A d \in CPUs \ {c} : pc'[d] = pc[d] /\ current_task'[d] = current_task[d]
    BY <1>1 DEF Switch, ResumeSelf, SchedulerTypeOK
  <2>3. UNCHANGED <<blocked, next>>
    BY <1>1 DEF Switch, ResumeSelf
  <2> QED
    BY <2>1, <2>2, <2>3 DEF AwakeInv
<1>2. ASSUME NEW c \in CPUs, Block(c) PROVE AwakeInv'
  <2>1. current_task[c] \in Listed
    BY <1>2 DEF Block, IInv, ListInv
  <2>2. ASSUME NEW d \in CPUs, pc[d] = "iret", current_task[d] # Null
        PROVE  current_task[d] # current_task[c]
    BY <1>2, <2>2 DEF Block, IInv, OwnerInv, Owns, SchedulerTypeOK
  <2> QED
    BY <1>2, <2>1, <2>2 DEF Block, AwakeInv, Listed, SchedulerTypeOK
<1>3. ASSUME NEW c \in CPUs, NEW x \in Tasks, CreateBegin(c, x) PROVE AwakeInv'
  BY <1>3 DEF CreateBegin, AwakeInv, SchedulerTypeOK
<1>4. ASSUME NEW x \in Tasks, Wake(x) PROVE AwakeInv'
  BY <1>4 DEF Wake, AwakeInv, SchedulerTypeOK
<1>5. ASSUME NEW c \in CPUs, CreateLink(c) PROVE AwakeInv'
  BY <1>5 DEF CreateLink, AwakeInv, SchedulerTypeOK
<1>6. ASSUME NEW c \in CPUs,
             \/ TrapSave(c) \/ ReleaseLast(c) \/ ScheduleBegin(c) \/ PollNext(c)
             \/ Skip(c) \/ GoIdle(c) \/ ResumeNull(c) \/ Iret(c)
      PROVE  AwakeInv'
  <2>1. UNCHANGED <<blocked, next>>
    BY <1>6 DEF TrapSave, ReleaseLast, ScheduleBegin, PollNext, Skip, GoIdle,
      ResumeNull, Iret
  <2>2. \A d \in CPUs : pc'[d] = "iret" /\ current_task'[d] # Null =>
          pc[d] = "iret" /\ current_task'[d] = current_task[d]
    BY <1>6 DEF TrapSave, ReleaseLast, ScheduleBegin, PollNext, Skip, GoIdle,
      ResumeNull, Iret, SchedulerTypeOK
  <2> QED
    BY <2>1, <2>2 DEF AwakeInv
<1>7. CASE UNCHANGED vars
  BY <1>7 DEF AwakeInv, vars
<1> QED
  BY <1>1, <1>2, <1>3, <1>4, <1>5, <1>6, <1>7 DEF Next, Step

LEMMA AwakeInvariance == Spec => []AInv
BY InitAwake, NextAwake, PTL DEF Spec

LEMMA Stutters ==
  ASSUME UNCHANGED <<next, blocked, on>>, Trapped' = Trapped
  PROVE  AbsStep
<1>1. UNCHANGED <<Listed, Asleep, At, Trapped>>
  BY DEF Listed, Asleep, At
<1> QED
  BY <1>1 DEF AbsStep, Abs!vars, Asleep, At, Trapped

LEMMA QuietStutters ==
  ASSUME IInv, NEW c \in CPUs,
         \/ ReleaseLast(c) \/ ScheduleBegin(c) \/ PollNext(c) \/ Skip(c)
         \/ ResumeSelf(c) \/ Switch(c) \/ GoIdle(c) \/ ResumeNull(c)
  PROVE  AbsStep
<1> USE DEF Goto, listVars, taskVars, cpuVars
<1>1. UNCHANGED <<next, blocked, on>>
  BY DEF ReleaseLast, ScheduleBegin, PollNext, Skip, ResumeSelf, Switch, GoIdle,
    ResumeNull
<1>2. Trapped' = Trapped
  BY DEF ReleaseLast, ScheduleBegin, PollNext, Skip, ResumeSelf, Switch, GoIdle,
    ResumeNull, Trapped, IInv, SchedulerTypeOK
<1> QED
  BY <1>1, <1>2, Stutters

LEMMA CreateBeginStep ==
  ASSUME AInv, NEW c \in CPUs, NEW x \in Tasks, CreateBegin(c, x)
  PROVE  AbsStep
<1>1. SchedulerTypeOK /\ ~blocked[x]
  BY DEF AInv, IInv, AwakeInv, CreateBegin
<1>2. UNCHANGED <<next, on>>
  BY DEF CreateBegin, cpuVars
<1>3. blocked' = blocked
  BY <1>1 DEF CreateBegin, SchedulerTypeOK
<1>4. Trapped' = Trapped
  BY <1>1 DEF CreateBegin, Goto, Trapped, SchedulerTypeOK
<1> QED
  BY <1>2, <1>3, <1>4, Stutters

LEMMA CreateLinkStep ==
  ASSUME IInv, NEW c \in CPUs, CreateLink(c)
  PROVE  AbsStep
<1> USE Distinct DEF CreateLink, Goto, taskVars, cpuVars
<1>1. t[c] \in Tasks /\ t[c] \notin Listed /\ SchedulerTypeOK
  BY DEF IInv, CreateInv, Listed
<1>2. Listed' = Listed \cup {t[c]}
  BY <1>1 DEF Listed, SchedulerTypeOK
<1>3. c \notin Trapped /\ Trapped' = Trapped
  BY <1>1 DEF Trapped, SchedulerTypeOK
<1>4. UNCHANGED <<Asleep, At>>
  BY DEF Asleep, At
<1>5. Abs!Create(c, t[c])
  BY <1>1, <1>2, <1>3, <1>4 DEF Abs!Create, Asleep, At, Trapped
<1> QED
  BY <1>1, <1>5 DEF AbsStep, Abs!Next

LEMMA TrapStep ==
  ASSUME IInv, NEW c \in CPUs, TrapSave(c)
  PROVE  AbsStep
<1> USE DEF TrapSave, Goto, listVars, cpuVars
<1>1. SchedulerTypeOK
  BY DEF IInv
<1>2. c \notin Trapped /\ Trapped' = Trapped \cup {c}
  BY <1>1 DEF Trapped, SchedulerTypeOK
<1>3. UNCHANGED <<Listed, Asleep, At>>
  BY DEF Listed, Asleep, At
<1>4. Abs!Trap(c)
  BY <1>2, <1>3 DEF Abs!Trap, Asleep, At, Trapped
<1> QED
  BY <1>4 DEF AbsStep, Abs!Next

LEMMA BlockStep ==
  ASSUME IInv, NEW c \in CPUs, Block(c)
  PROVE  AbsStep
<1> USE Distinct DEF Block, listVars, cpuVars
<1>1. SchedulerTypeOK /\ Executing(c)
  BY DEF IInv, PhaseInv, PhaseOf
<1>2. current_task[c] \in Tasks /\ At[c] = current_task[c]
  BY <1>1 DEF SchedulerTypeOK, Executing, OnStackOf, At
<1>3. Asleep' = Asleep \cup {At[c]}
  BY <1>1, <1>2 DEF Asleep, SchedulerTypeOK
<1>4. c \notin Trapped /\ At[c] # Null
  BY <1>2 DEF Trapped
<1>5. UNCHANGED <<Listed, At, Trapped>>
  BY DEF Listed, At, Trapped
<1>6. Abs!Sleep(c)
  BY <1>3, <1>4, <1>5 DEF Abs!Sleep, Asleep, At, Trapped
<1> QED
  BY <1>6 DEF AbsStep, Abs!Next

LEMMA WakeStep ==
  ASSUME IInv, NEW x \in Tasks, Wake(x)
  PROVE  AbsStep
<1> USE DEF Wake, listVars, cpuVars
<1>1. SchedulerTypeOK
  BY DEF IInv
<1>2. x \in Asleep /\ Asleep' = Asleep \ {x}
  BY <1>1 DEF Asleep, SchedulerTypeOK
<1>3. UNCHANGED <<Listed, At, Trapped>>
  BY DEF Listed, At, Trapped
<1>4. Abs!Awake(x)
  BY <1>2, <1>3 DEF Abs!Awake, Asleep, At, Trapped
<1> QED
  BY <1>4 DEF AbsStep, Abs!Next

(* __am_iret dispatches the task that kmt_schedule has picked, or idles. *)
LEMMA IretStep ==
  ASSUME AInv, NEW c \in CPUs, Iret(c)
  PROVE  AbsStep
<1> USE Distinct DEF Iret, Goto, listVars
<1>0. IInv /\ AwakeInv /\ SchedulerTypeOK /\ Returning(c)
  BY DEF AInv, IInv, PhaseInv, PhaseOf
<1>1. c \in Trapped /\ Trapped' = Trapped \ {c}
  BY <1>0 DEF Trapped, SchedulerTypeOK
<1>2. UNCHANGED <<Listed, Asleep>>
  BY DEF Listed, Asleep
<1>3. At' = [At EXCEPT ![c] = IF ret[c] \in Tasks THEN ret[c] ELSE Null]
  BY <1>0 DEF At, SchedulerTypeOK
<1>4. CASE ret[c] \in Tasks
  <2>1. ret[c] = current_task[c] /\ ret[c] \in Listed \ Asleep
    BY <1>0, <1>4 DEF Returning, IInv, ListInv, AwakeInv, Asleep
  <2>2. ASSUME NEW d \in CPUs \ {c} PROVE At[d] # ret[c]
    <3>1. on[d] # ret[c]
      BY <1>0, <1>4, <2>1, Occupied DEF IInv, OwnerInv, Owns
    <3> QED
      BY <1>4, <3>1 DEF At
  <2>3. PICK x \in Tasks : x = ret[c]
    BY <1>4
  <2>4. Abs!Dispatch(c, x)
    BY <1>1, <1>2, <1>3, <1>4, <2>1, <2>2, <2>3 DEF Abs!Dispatch, Asleep, At, Trapped
  <2> QED
    BY <2>4 DEF AbsStep, Abs!Next
<1>5. CASE ret[c] \notin Tasks
  <2> HIDE DEF Iret
  <2>0. At' = [At EXCEPT ![c] = Null]
    BY <1>3, <1>5
  <2>1. Abs!Idle(c)
    BY <1>1, <1>2, <2>0 DEF Abs!Idle, Asleep, At, Trapped
  <2> QED
    BY <2>1 DEF AbsStep, Abs!Next
<1> QED
  BY <1>4, <1>5

LEMMA InitAbs == Init => Abs!Init
<1> SUFFICES ASSUME Init PROVE Abs!Init
  OBVIOUS
<1> USE Distinct DEF Init
<1>1. Listed = InitTasks
  <2>1. \A x \in InitTasks : x \in Tasks
    BY SchedulerAssumption DEF InitTasks
  <2>2. \A x \in InitTasks : AfterInInit(x) \in Tasks \cup {Null}
    BY SchedulerAssumption DEF AfterInInit, InitTasks
  <2>3. \A x \in InitTasks : next[x] # Unlinked
    BY <2>1, <2>2
  <2> QED
    BY <2>1, <2>3 DEF Listed
<1>2. Asleep = {} /\ Trapped = {}
  BY DEF Asleep, Trapped
<1>3. At = [c \in CPUs |-> Null]
  BY DEF At
<1> QED
  BY <1>1, <1>2, <1>3 DEF Abs!Init, Asleep, At, Trapped

LEMMA NextAbs == AInv /\ [Next]_vars => AbsStep
<1> SUFFICES ASSUME AInv, [Next]_vars PROVE AbsStep
  OBVIOUS
<1>0. IInv
  BY DEF AInv
<1>1. ASSUME NEW c \in CPUs, Step(c) PROVE AbsStep
  BY <1>0, <1>1, QuietStutters, CreateLinkStep, TrapStep, IretStep DEF Step
<1>2. ASSUME NEW c \in CPUs, Block(c) PROVE AbsStep
  BY <1>0, <1>2, BlockStep
<1>3. ASSUME NEW c \in CPUs, NEW x \in Tasks, CreateBegin(c, x) PROVE AbsStep
  BY <1>3, CreateBeginStep
<1>4. ASSUME NEW x \in Tasks, Wake(x) PROVE AbsStep
  BY <1>0, <1>4, WakeStep
<1>5. CASE UNCHANGED vars
  BY <1>5, Stutters DEF vars, listVars, taskVars, cpuVars, Trapped
<1> QED
  BY <1>1, <1>2, <1>3, <1>4, <1>5 DEF Next

(* After a trap a CPU goes on with a task that is listed, awake and on no other
   CPU's stack, or idles, for any numbers of CPUs and tasks: the trap that saves,
   gives up, scans, claims and enters in separate steps dispatches as if it were
   one step (kmt.c:11-66, cte.c __am_iret). *)
THEOREM Refines == Spec => ImplementsAbstract
<1>1. AInv /\ [Next]_vars => [Abs!Next]_(Abs!vars)
  BY NextAbs DEF AbsStep
<1> QED
  BY <1>1, InitAbs, AwakeInvariance, PTL DEF Spec, ImplementsAbstract, Abs!Spec

-----------------------------------------------------------------------------
(* The number of listed tasks: create counts a task before it links it. *)
Linked == IF list_lock THEN task_count - 1 ELSE task_count

RankOk(rank) ==
  /\ Linked \in Nat
  /\ \A x \in Listed : rank[x] < Linked
  /\ \A x, y \in Listed : rank[x] = rank[y] => x = y
  /\ \A k \in 0..(Linked - 1) : \E x \in Listed : rank[x] = k
  /\ \A x \in Listed : IF next[x] = Null THEN rank[x] = 0
                       ELSE rank[x] = rank[next[x]] + 1
  /\ IF Linked = 0 THEN task_list = Null
     ELSE task_list \in Listed /\ rank[task_list] + 1 = Linked

(* A scan on its way to the end of the list, one that has started again at the
   head, and one that owes nothing any more; n polls are left to the bound. *)
FirstPass(rank, c, n) == t[c] \in Listed /\ i[c] + rank[t[c]] + n <= task_count

SecondPass(rank, c, n) ==
  t[c] \in Listed /\ i[c] + rank[t[c]] + n <= 2 * task_count

PollOk(rank, c) ==
  \/ due[c] = {}
  \/ t[c] = Null /\ i[c] = 0
  \/ FirstPass(rank, c, 1)
  \/ SecondPass(rank, c, 1) /\ \A y \in due[c] : rank[y] < rank[t[c]]

ExamineOk(rank, c) ==
  \/ due[c] = {}
  \/ FirstPass(rank, c, 2)
  \/ SecondPass(rank, c, 2) /\ \A y \in due[c] : rank[y] <= rank[t[c]]

ScanOk(rank, c) ==
  /\ due[c] \subseteq Listed
  /\ pc[c] = "poll" => PollOk(rank, c)
  /\ pc[c] = "examine" => ExamineOk(rank, c)
  /\ pc[c] = "iret" => due[c] = {}

RankInv ==
  \E rank \in [Tasks -> Nat] : RankOk(rank) /\ \A c \in CPUs : ScanOk(rank, c)

LockInv == list_lock => \E c \in CPUs : pc[c] = "create"

LInv == IInv /\ RankInv /\ LockInv

-----------------------------------------------------------------------------
LEMMA InitRank == Init => LInv
<1> SUFFICES ASSUME Init PROVE LInv
  OBVIOUS
<1> USE Distinct
<1>1. PICK n \in Nat : n = Len(InitList) /\ DOMAIN InitList = 1..n
                       /\ InitList \in [1..n -> Tasks]
  BY SchedulerAssumption
<1>2. Listed = InitTasks
  <2>1. \A x \in InitTasks : AfterInInit(x) # Unlinked
    <3> SUFFICES ASSUME NEW x \in InitTasks PROVE AfterInInit(x) # Unlinked
      OBVIOUS
    <3>1. PICK j \in DOMAIN InitList : InitList[j] = x
            /\ j = CHOOSE k \in DOMAIN InitList : InitList[k] = x
      BY DEF InitTasks
    <3> QED
      BY <3>1, <1>1 DEF AfterInInit
  <2>2. InitTasks \subseteq Tasks
    BY <1>1 DEF InitTasks
  <2> QED
    BY <2>1, <2>2 DEF Init, Listed
<1>3. PICK place \in [InitTasks -> 1..n] : \A x \in InitTasks : InitList[place[x]] = x
  <2> DEFINE p == [x \in InitTasks |-> CHOOSE j \in 1..n : InitList[j] = x]
  <2>1. \A x \in InitTasks : p[x] \in 1..n /\ InitList[p[x]] = x
    BY <1>1 DEF InitTasks
  <2> QED
    BY <2>1
<1>4. /\ \A j \in 1..n : InitList[j] \in InitTasks /\ place[InitList[j]] = j
      /\ InitTasks \subseteq Tasks
  BY <1>1, <1>3, SchedulerAssumption DEF InitTasks
<1>5. \A x \in InitTasks :
        next[x] = IF place[x] = n THEN Null ELSE InitList[place[x] + 1]
  <2> SUFFICES ASSUME NEW x \in InitTasks
               PROVE  next[x] = IF place[x] = n THEN Null ELSE InitList[place[x] + 1]
    OBVIOUS
  <2>1. place[x] = CHOOSE j \in DOMAIN InitList : InitList[j] = x
    BY <1>1, <1>3, <1>4
  <2> QED
    BY <2>1, <1>1, <1>4 DEF Init, AfterInInit
<1>6. PICK rank \in [Tasks -> Nat] : \A x \in InitTasks : rank[x] = n - place[x]
  <2> DEFINE r == [x \in Tasks |-> IF x \in InitTasks THEN n - place[x] ELSE 0]
  <2>1. r \in [Tasks -> Nat]
    BY <1>3
  <2> QED
    BY <2>1, <1>4
<1>7. Linked = n
  BY <1>1 DEF Init, Linked
<1>8. RankOk(rank)
  <2>1. \A x \in Listed : rank[x] < Linked
    BY <1>1, <1>2, <1>3, <1>6, <1>7
  <2>2. \A x, y \in Listed : rank[x] = rank[y] => x = y
    <3> SUFFICES ASSUME NEW x \in InitTasks, NEW y \in InitTasks, rank[x] = rank[y]
                 PROVE  x = y
      BY <1>2
    <3>1. n - place[x] = n - place[y] /\ place[x] \in 1..n /\ place[y] \in 1..n
      BY <1>3, <1>6
    <3>2. place[x] = place[y]
      BY <3>1, <1>1
    <3> QED
      BY <3>2, <1>3
  <2>3. ASSUME NEW k \in 0..(Linked - 1) PROVE \E x \in Listed : rank[x] = k
    <3>1. n - k \in 1..n
      BY <1>1, <1>7
    <3>2. InitList[n - k] \in InitTasks /\ place[InitList[n - k]] = n - k
      BY <3>1, <1>4
    <3>3. rank[InitList[n - k]] = k
      BY <3>1, <3>2, <1>1, <1>6, <1>7
    <3> QED
      BY <3>2, <3>3, <1>2
  <2>4. ASSUME NEW x \in Listed
        PROVE  IF next[x] = Null THEN rank[x] = 0 ELSE rank[x] = rank[next[x]] + 1
    <3>1. x \in InitTasks /\ place[x] \in 1..n /\ rank[x] = n - place[x]
      BY <1>2, <1>3, <1>6
    <3>2. CASE place[x] = n
      BY <3>1, <3>2, <1>5
    <3>3. CASE place[x] # n
      <4>1. place[x] + 1 \in 1..n
        BY <3>1, <3>3
      <4>2. /\ next[x] = InitList[place[x] + 1] /\ next[x] \in InitTasks
            /\ place[next[x]] = place[x] + 1
        BY <4>1, <3>1, <3>3, <1>4, <1>5
      <4>3. next[x] # Null /\ rank[next[x]] = n - (place[x] + 1)
        BY <4>2, <1>4, <1>6
      <4> QED
        BY <4>3, <3>1
    <3> QED
      BY <3>2, <3>3
  <2>5. IF Linked = 0 THEN task_list = Null
        ELSE task_list \in Listed /\ rank[task_list] + 1 = Linked
    <3>1. CASE n = 0
      BY <3>1, <1>1, <1>7 DEF Init
    <3>2. CASE n # 0
      <4>1. 1 \in 1..n /\ task_list = InitList[1]
        BY <3>2, <1>1 DEF Init
      <4>2. task_list \in InitTasks /\ place[task_list] = 1
        BY <4>1, <1>4
      <4>3. rank[task_list] = n - 1
        BY <4>2, <1>6
      <4> QED
        BY <4>2, <4>3, <3>2, <1>2, <1>7
    <3> QED
      BY <3>1, <3>2
  <2> QED
    BY <1>1, <1>7, <2>1, <2>2, <2>3, <2>4, <2>5 DEF RankOk
<1>9. \A c \in CPUs : ScanOk(rank, c)
  BY DEF Init, ScanOk
<1> QED
  BY <1>8, <1>9, InitInv DEF LInv, RankInv, LockInv, Init

-----------------------------------------------------------------------------
(* The steps that keep the list, and the scans but that of c. *)
LEMMA SameRank ==
  ASSUME NEW rank, RankOk(rank), UNCHANGED listVars
  PROVE  RankOk(rank)' /\ Listed' = Listed
BY DEF RankOk, Linked, Listed, listVars

LEMMA SameScan ==
  ASSUME NEW rank, NEW c \in CPUs, ScanOk(rank, c), UNCHANGED listVars,
         pc'[c] = pc[c] \/ pc'[c] \notin {"poll", "examine", "iret"},
         t'[c] = t[c], i'[c] = i[c], due'[c] = due[c]
  PROVE  ScanOk(rank, c)'
BY SameRank DEF ScanOk, PollOk, ExamineOk, FirstPass, SecondPass, Listed, listVars

(* The other CPUs after a step of c. *)
LEMMA OtherScans ==
  ASSUME SchedulerTypeOK, NEW rank, NEW c \in CPUs, \A d \in CPUs : ScanOk(rank, d),
         UNCHANGED listVars, NEW l, pc' = [pc EXCEPT ![c] = l],
         NEW x, t' = [t EXCEPT ![c] = x] \/ t' = t,
         NEW k, i' = [i EXCEPT ![c] = k] \/ i' = i,
         NEW D, due' = [due EXCEPT ![c] = D] \/ due' = due
  PROVE  \A d \in CPUs : d # c => ScanOk(rank, d)'
<1> SUFFICES ASSUME NEW d \in CPUs, d # c PROVE ScanOk(rank, d)'
  OBVIOUS
<1>1. pc'[d] = pc[d] /\ t'[d] = t[d] /\ i'[d] = i[d] /\ due'[d] = due[d]
  BY DEF SchedulerTypeOK
<1> QED
  BY <1>1, SameScan

(* The steps that no scan takes part in. *)
Aside(c) ==
  \/ TrapSave(c) \/ ReleaseLast(c) \/ ResumeNull(c) \/ Block(c)
  \/ \E x \in Tasks : Wake(x)

LEMMA AsideRank ==
  ASSUME SchedulerTypeOK, RankInv, LockInv, NEW c \in CPUs, Aside(c)
  PROVE  RankInv' /\ LockInv'
<1> USE DEF Aside, TrapSave, ReleaseLast, ResumeNull, Block, Wake, Goto, listVars
<1>1. PICK rank \in [Tasks -> Nat] : RankOk(rank) /\ \A d \in CPUs : ScanOk(rank, d)
  BY DEF RankInv
<1>2. RankOk(rank)'
  BY <1>1, SameRank
<1>3. ASSUME NEW d \in CPUs PROVE ScanOk(rank, d)'
  <2>1. pc'[d] = pc[d] \/ pc'[d] \notin {"poll", "examine", "iret"}
    BY DEF SchedulerTypeOK
  <2> QED
    BY <2>1, <1>1, SameScan
<1>4. LockInv'
  <2> SUFFICES ASSUME list_lock PROVE \E d \in CPUs : pc'[d] = "create"
    BY DEF LockInv
  <2>1. PICK d \in CPUs : pc[d] = "create"
    BY DEF LockInv
  <2>2. pc'[d] = "create"
    BY <2>1 DEF SchedulerTypeOK
  <2> QED
    BY <2>2
<1> QED
  BY <1>1, <1>2, <1>3, <1>4 DEF RankInv

(* A step of c that keeps the list and is not one of create. *)
LEMMA LockKept ==
  ASSUME SchedulerTypeOK, LockInv, NEW c \in CPUs, pc[c] # "create", UNCHANGED list_lock,
         NEW l, Goto(c, l)
  PROVE  LockInv'
BY DEF SchedulerTypeOK, LockInv, Goto

(* The bound of a scan already begun grows with the count. *)
LEMMA CreateBeginRank ==
  ASSUME IInv, RankInv, LockInv, NEW c \in CPUs, NEW x \in Tasks, CreateBegin(c, x)
  PROVE  RankInv' /\ LockInv'
<1> USE DEF CreateBegin, Goto, cpuVars
<1>1. PICK rank \in [Tasks -> Nat] : RankOk(rank) /\ \A d \in CPUs : ScanOk(rank, d)
  BY DEF RankInv
<1>2. SchedulerTypeOK
  BY DEF IInv
<1>3. /\ UNCHANGED <<next, task_list>> /\ Listed' = Listed
      /\ Linked' = Linked /\ task_count \in Nat /\ task_count' = task_count + 1
  BY <1>2 DEF Listed, Linked, ListFree, SchedulerTypeOK
<1>4. RankOk(rank)'
  BY <1>1, <1>3 DEF RankOk
<1>5. ASSUME NEW d \in CPUs PROVE ScanOk(rank, d)'
  <2>1. CASE d = c
    BY <2>1, <1>1, <1>2, <1>3 DEF ScanOk, SchedulerTypeOK
  <2>2. CASE d # c
    <3>1. pc'[d] = pc[d] /\ t'[d] = t[d] /\ i'[d] = i[d] /\ due'[d] = due[d]
      BY <2>2, <1>2 DEF SchedulerTypeOK
    <3>2. ScanOk(rank, d) /\ i[d] \in Nat /\ \A y \in Listed : rank[y] \in Nat
      BY <1>1, <1>2 DEF SchedulerTypeOK, Listed
    <3>3. \A n \in 1..2 : /\ FirstPass(rank, d, n) => FirstPass(rank, d, n)'
                          /\ SecondPass(rank, d, n) => SecondPass(rank, d, n)'
      BY <3>1, <3>2, <1>3 DEF FirstPass, SecondPass
    <3> QED
      BY <3>1, <3>2, <3>3, <1>3 DEF ScanOk, PollOk, ExamineOk
  <2> QED
    BY <2>1, <2>2
<1>6. LockInv'
  BY <1>2 DEF LockInv, SchedulerTypeOK
<1> QED
  BY <1>1, <1>4, <1>5, <1>6 DEF RankInv

(* The new task gets the highest rank; nobody looks at it yet. *)
LEMMA CreateLinkRank ==
  ASSUME IInv, RankInv, LockInv, NEW c \in CPUs, CreateLink(c)
  PROVE  RankInv' /\ LockInv'
<1> USE Distinct DEF CreateLink, Goto
<1>1. PICK rank \in [Tasks -> Nat] : RankOk(rank) /\ \A d \in CPUs : ScanOk(rank, d)
  BY DEF RankInv
<1>2. SchedulerTypeOK /\ ListInv
  BY DEF IInv
<1>3. PICK x \in Tasks : x = t[c]
  BY DEF IInv, CreateInv
<1>4. list_lock /\ next[x] = Unlinked /\ x \notin Listed
  BY <1>3 DEF IInv, CreateInv, Listed
<1>5. /\ next' = [next EXCEPT ![x] = task_list] /\ task_list' = x
      /\ task_count' = task_count /\ task_count \in Nat /\ task_list \in Listed \cup {Null}
  BY <1>2, <1>3 DEF SchedulerTypeOK, ListInv
<1>6. Listed' = Listed \cup {x}
  <2>1. task_list # Unlinked
    BY <1>5 DEF Listed
  <2> QED
    BY <2>1, <1>2, <1>5 DEF Listed, SchedulerTypeOK
<1>7. PICK n \in Nat : n = Linked
  BY <1>1 DEF RankOk
<1>8. Linked' = n + 1 /\ task_count = n + 1
  BY <1>2, <1>4, <1>5, <1>7 DEF Linked, SchedulerTypeOK
<1>9. PICK new \in [Tasks -> Nat] : new = [rank EXCEPT ![x] = n]
  BY <1>1
<1>10. new[x] = n /\ \A y \in Listed : new[y] = rank[y] /\ y \in Tasks /\ y # x
  BY <1>1, <1>4, <1>9 DEF Listed
<1>11. RankOk(new)'
  <2>1. /\ \A y \in Listed : rank[y] < n
        /\ \A y, z \in Listed : rank[y] = rank[z] => y = z
        /\ \A k \in 0..(n - 1) : \E y \in Listed : rank[y] = k
        /\ \A y \in Listed : IF next[y] = Null THEN rank[y] = 0
                              ELSE rank[y] = rank[next[y]] + 1
        /\ IF n = 0 THEN task_list = Null
           ELSE task_list \in Listed /\ rank[task_list] + 1 = n
    BY <1>1, <1>7 DEF RankOk
  <2>2. \A y \in Listed' : new[y] < n + 1
    BY <2>1, <1>1, <1>6, <1>10
  <2>3. \A y, z \in Listed' : new[y] = new[z] => y = z
    BY <2>1, <1>1, <1>6, <1>10
  <2>4. ASSUME NEW k \in 0..n PROVE \E y \in Listed' : new[y] = k
    <3>1. CASE k = n
      BY <3>1, <1>6, <1>10
    <3>2. CASE k # n
      <4>1. k \in 0..(n - 1)
        BY <3>2
      <4> QED
        BY <4>1, <2>1, <1>6, <1>10
    <3> QED
      BY <3>1, <3>2
  <2>5. ASSUME NEW y \in Listed'
        PROVE  IF next'[y] = Null THEN new[y] = 0 ELSE new[y] = new[next'[y]] + 1
    <3>1. CASE y = x
      <4>1. next'[x] = task_list
        BY <1>2, <1>5 DEF SchedulerTypeOK
      <4>2. CASE n = 0
        BY <3>1, <4>1, <4>2, <2>1, <1>10
      <4>3. CASE n # 0
        BY <3>1, <4>1, <4>3, <2>1, <1>10 DEF Listed
      <4> QED
        BY <4>2, <4>3
    <3>2. CASE y # x
      <4>1. y \in Listed /\ next'[y] = next[y] /\ next[y] \in Listed \cup {Null}
        BY <3>2, <1>2, <1>5, <1>6 DEF ListInv
      <4> QED
        BY <4>1, <2>1, <1>10
    <3> QED
      BY <3>1, <3>2
  <2>6. task_list' \in Listed' /\ new[task_list'] + 1 = n + 1
    BY <1>5, <1>6, <1>10
  <2> QED
    BY <2>2, <2>3, <2>4, <2>5, <2>6, <1>8 DEF RankOk
<1>12. ASSUME NEW d \in CPUs PROVE ScanOk(new, d)'
  <2>1. CASE d = c
    BY <2>1, <1>1, <1>2, <1>6 DEF ScanOk, SchedulerTypeOK
  <2>2. CASE d # c
    <3>1. pc'[d] = pc[d] /\ t'[d] = t[d] /\ i'[d] = i[d] /\ due'[d] = due[d]
      BY <2>2, <1>2 DEF SchedulerTypeOK
    <3>2. ScanOk(rank, d)
      BY <1>1
    <3>3. \A m \in 1..2 : /\ FirstPass(rank, d, m) => FirstPass(new, d, m)'
                          /\ SecondPass(rank, d, m) => SecondPass(new, d, m)'
      BY <3>1, <1>5, <1>6, <1>10 DEF FirstPass, SecondPass
    <3>4. t[d] \in Listed => new[t[d]] = rank[t[d]]
      BY <1>10
    <3>5. due[d] \subseteq Listed /\ \A y \in due[d] : new[y] = rank[y]
      BY <3>2, <1>10 DEF ScanOk
    <3>6. PollOk(rank, d) => PollOk(new, d)'
      BY <3>1, <3>3, <3>4, <3>5 DEF PollOk, SecondPass
    <3>7. ExamineOk(rank, d) => ExamineOk(new, d)'
      BY <3>1, <3>3, <3>4, <3>5 DEF ExamineOk, SecondPass
    <3> QED
      BY <3>1, <3>2, <3>5, <3>6, <3>7, <1>6 DEF ScanOk
  <2> QED
    BY <2>1, <2>2
<1>13. LockInv'
  BY DEF LockInv
<1> QED
  BY <1>9, <1>11, <1>12, <1>13 DEF RankInv

-----------------------------------------------------------------------------
(* The steps of a scan. *)
LEMMA ScheduleBeginRank ==
  ASSUME IInv, RankInv, LockInv, NEW c \in CPUs, ScheduleBegin(c)
  PROVE  RankInv' /\ LockInv'
<1> USE Distinct DEF ScheduleBegin
<1>1. PICK rank \in [Tasks -> Nat] : RankOk(rank) /\ \A d \in CPUs : ScanOk(rank, d)
  BY DEF RankInv
<1>2. SchedulerTypeOK /\ UNCHANGED listVars
  BY DEF IInv
<1>3. RankOk(rank)' /\ Listed' = Listed
  BY <1>1, <1>2, SameRank
<1>4. \A d \in CPUs : d # c => ScanOk(rank, d)'
  BY <1>1, <1>2, OtherScans DEF Goto
<1>5. ScanOk(rank, c)'
  <2>1. /\ pc'[c] = "poll" /\ t'[c] = current_task[c] /\ i'[c] = 0
        /\ due'[c] = Listed /\ current_task[c] \in Listed \cup {Null}
    BY <1>2 DEF SchedulerTypeOK, Goto, IInv, ListInv
  <2>2. CASE current_task[c] = Null
    BY <1>3, <2>1, <2>2 DEF ScanOk, PollOk
  <2>3. CASE current_task[c] # Null
    <3>1. /\ t'[c] \in Listed /\ rank[t'[c]] < Linked /\ rank[t'[c]] \in Nat
          /\ Linked <= task_count /\ Linked \in Nat /\ task_count \in Nat
      BY <1>1, <1>2, <2>1, <2>3 DEF RankOk, Linked, SchedulerTypeOK, Listed
    <3>2. i'[c] + rank[t'[c]] + 1 <= task_count
      BY <3>1, <2>1
    <3>3. FirstPass(rank, c, 1)'
      BY <3>1, <3>2, <1>2, <1>3 DEF FirstPass, listVars
    <3> QED
      BY <3>3, <1>3, <2>1 DEF ScanOk, PollOk
  <2> QED
    BY <2>2, <2>3
<1>6. LockInv'
  BY <1>2, LockKept DEF listVars
<1> QED
  BY <1>1, <1>3, <1>4, <1>5, <1>6 DEF RankInv

(* One rank down, or from the end of the list to its head. *)
LEMMA PollNextRank ==
  ASSUME IInv, RankInv, LockInv, NEW c \in CPUs, PollNext(c)
  PROVE  RankInv' /\ LockInv'
<1> USE Distinct DEF PollNext
<1>1. PICK rank \in [Tasks -> Nat] : RankOk(rank) /\ \A d \in CPUs : ScanOk(rank, d)
  BY DEF RankInv
<1>2. SchedulerTypeOK /\ UNCHANGED listVars
  BY DEF IInv
<1>3. RankOk(rank)' /\ Listed' = Listed
  BY <1>1, <1>2, SameRank
<1>4. \A d \in CPUs : d # c => ScanOk(rank, d)'
  BY <1>1, <1>2, OtherScans DEF Goto
<1>5. PICK x \in Tasks \cup {Null}, n \in Nat : x = t[c] /\ n = i[c]
  BY <1>2 DEF SchedulerTypeOK
<1>6. PICK y : y = Successor(x)
  OBVIOUS
<1>7. /\ pc[c] = "poll" /\ pc'[c] = "examine" /\ t'[c] = y /\ i'[c] = n
      /\ due'[c] = due[c] /\ due[c] \subseteq Listed /\ PollOk(rank, c)
      /\ task_count' = task_count
  BY <1>1, <1>2, <1>5, <1>6 DEF SchedulerTypeOK, Goto, ScanOk, listVars
<1>8. /\ Linked \in Nat /\ task_count \in Nat /\ Linked <= task_count
      /\ \A z \in Listed : z \in Tasks /\ rank[z] \in Nat /\ rank[z] < Linked
      /\ \A z, w \in Listed : rank[z] = rank[w] => z = w
      /\ Linked = 0 => Listed = {}
      /\ Linked # 0 => task_list \in Listed /\ rank[task_list] + 1 = Linked
  BY <1>1, <1>2 DEF RankOk, Linked, SchedulerTypeOK, Listed
<1>9. ExamineOk(rank, c)'
  <2>1. CASE due[c] = {}
    BY <2>1, <1>7 DEF ExamineOk
  <2>2. CASE due[c] # {} /\ x = Null
    <3>1. n = 0 /\ y = task_list /\ Linked # 0
      BY <2>2, <1>5, <1>6, <1>7, <1>8 DEF PollOk, FirstPass, SecondPass, Successor, Listed
    <3>2. n + rank[y] + 2 <= 2 * task_count /\ y \in Listed
      BY <3>1, <1>8
    <3>3. \A z \in due[c] : rank[z] <= rank[y]
      BY <3>1, <1>7, <1>8
    <3> QED
      BY <3>2, <3>3, <1>3, <1>7 DEF ExamineOk, SecondPass
  <2>3. CASE due[c] # {} /\ x # Null /\ next[x] # Null
    <3>1. /\ x \in Listed /\ y = next[x] /\ y \in Listed /\ rank[x] = rank[y] + 1
          /\ rank[y] \in Nat
      BY <2>3, <1>1, <1>5, <1>6, <1>7, <1>8
      DEF Successor, IInv, ListInv, RankOk, PollOk, FirstPass, SecondPass
    <3>2. CASE FirstPass(rank, c, 1)
      <4>1. n + rank[y] + 2 <= task_count
        BY <3>1, <3>2, <1>5, <1>8 DEF FirstPass
      <4> QED
        BY <4>1, <3>1, <1>3, <1>7 DEF ExamineOk, FirstPass
    <3>3. CASE SecondPass(rank, c, 1) /\ \A z \in due[c] : rank[z] < rank[t[c]]
      <4>1. n + rank[y] + 2 <= 2 * task_count
        BY <3>1, <3>3, <1>5, <1>8 DEF SecondPass
      <4>2. \A z \in due[c] : rank[z] <= rank[y]
        BY <3>1, <3>3, <1>5, <1>7, <1>8
      <4> QED
        BY <4>1, <4>2, <3>1, <1>3, <1>7 DEF ExamineOk, SecondPass
    <3> QED
      BY <3>2, <3>3, <2>3, <1>5, <1>7 DEF PollOk
  <2>4. CASE due[c] # {} /\ x # Null /\ next[x] = Null
    <3>1. x \in Listed /\ rank[x] = 0 /\ y = task_list
      BY <2>4, <1>1, <1>5, <1>6, <1>7
      DEF Successor, RankOk, PollOk, FirstPass, SecondPass
    <3>2. FirstPass(rank, c, 1)
      BY <3>1, <2>4, <1>5, <1>7, <1>8 DEF PollOk
    <3>3. n + 1 <= task_count /\ Linked # 0
      BY <3>1, <3>2, <1>5, <1>8 DEF FirstPass
    <3>4. y \in Listed /\ n + rank[y] + 2 <= 2 * task_count
      BY <3>1, <3>3, <1>8
    <3>5. \A z \in due[c] : rank[z] <= rank[y]
      BY <3>1, <3>3, <1>7, <1>8
    <3> QED
      BY <3>4, <3>5, <1>3, <1>7 DEF ExamineOk, SecondPass
  <2> QED
    BY <2>1, <2>2, <2>3, <2>4
<1>10. ScanOk(rank, c)'
  BY <1>3, <1>7, <1>9 DEF ScanOk
<1>11. LockInv'
  BY <1>2, LockKept DEF listVars
<1> QED
  BY <1>1, <1>3, <1>4, <1>10, <1>11 DEF RankInv

(* The task that was examined is no longer due. *)
LEMMA SkipRank ==
  ASSUME IInv, RankInv, LockInv, NEW c \in CPUs, Skip(c)
  PROVE  RankInv' /\ LockInv'
<1> USE Distinct DEF Skip, Examined
<1>1. PICK rank \in [Tasks -> Nat] : RankOk(rank) /\ \A d \in CPUs : ScanOk(rank, d)
  BY DEF RankInv
<1>2. SchedulerTypeOK /\ UNCHANGED listVars
  BY DEF IInv
<1>3. RankOk(rank)' /\ Listed' = Listed
  BY <1>1, <1>2, SameRank
<1>4. \A d \in CPUs : d # c => ScanOk(rank, d)'
  <2>1. due' = [due EXCEPT ![c] = due[c] \ {t[c]}] /\ i' = [i EXCEPT ![c] = i[c] + 1]
    OBVIOUS
  <2>2. PICK D, k : D = due[c] \ {t[c]} /\ k = i[c] + 1
    OBVIOUS
  <2>3. due' = [due EXCEPT ![c] = D] /\ i' = [i EXCEPT ![c] = k]
    BY <2>1, <2>2
  <2> QED
    BY <2>3, <1>1, <1>2, OtherScans DEF Goto
<1>5. PICK x \in Tasks, n \in Nat : x = t[c] /\ n = i[c]
  BY <1>2 DEF SchedulerTypeOK
<1>6. /\ pc[c] = "examine" /\ pc'[c] = "poll" /\ t'[c] = x /\ i'[c] = n + 1
      /\ due'[c] = due[c] \ {x} /\ due[c] \subseteq Listed /\ ExamineOk(rank, c)
      /\ task_count' = task_count /\ task_count \in Nat
      /\ \A z \in Listed : z \in Tasks /\ rank[z] \in Nat
      /\ \A z, w \in Listed : rank[z] = rank[w] => z = w
  BY <1>1, <1>2, <1>5 DEF SchedulerTypeOK, Goto, ScanOk, listVars, RankOk, Listed
<1>7. PollOk(rank, c)'
  <2>1. CASE due[c] = {}
    BY <2>1, <1>6 DEF PollOk
  <2>2. CASE FirstPass(rank, c, 2)
    <3>1. x \in Listed /\ (n + 1) + rank[x] + 1 <= task_count
      BY <2>2, <1>5, <1>6 DEF FirstPass
    <3> QED
      BY <3>1, <1>3, <1>6 DEF PollOk, FirstPass
  <2>3. CASE SecondPass(rank, c, 2) /\ \A z \in due[c] : rank[z] <= rank[t[c]]
    <3>1. x \in Listed /\ (n + 1) + rank[x] + 1 <= 2 * task_count
      BY <2>3, <1>5, <1>6 DEF SecondPass
    <3>2. \A z \in due[c] \ {x} : rank[z] < rank[x]
      BY <2>3, <3>1, <1>5, <1>6
    <3> QED
      BY <3>1, <3>2, <1>3, <1>6 DEF PollOk, SecondPass
  <2> QED
    BY <2>1, <2>2, <2>3, <1>6 DEF ExamineOk
<1>8. ScanOk(rank, c)'
  BY <1>3, <1>6, <1>7 DEF ScanOk
<1>9. LockInv'
  BY <1>2, LockKept DEF listVars
<1> QED
  BY <1>1, <1>3, <1>4, <1>8, <1>9 DEF RankInv

(* The bound is reached only when nothing is due: this is what POLL_TIMES is
   for. *)
LEMMA EnoughPolls ==
  ASSUME SchedulerTypeOK, NEW rank \in [Tasks -> Nat], RankOk(rank), NEW c \in CPUs,
         pc[c] = "poll", ScanOk(rank, c), i[c] >= POLL_TIMES
  PROVE  due[c] = {}
<1>1. task_count \in Nat /\ i[c] \in Nat /\ i[c] >= task_count * 2 + 2
  BY DEF SchedulerTypeOK, POLL_TIMES
<1>2. \A x \in Listed : rank[x] \in Nat
  BY DEF Listed
<1>3. ~FirstPass(rank, c, 1) /\ ~SecondPass(rank, c, 1)
  BY <1>1, <1>2 DEF FirstPass, SecondPass
<1> QED
  BY <1>1, <1>3 DEF ScanOk, PollOk

(* A scan ends: with a task to run or with none, and nothing due; __am_iret
   forgets it. *)
LEMMA EndRank ==
  ASSUME IInv, RankInv, LockInv, NEW c \in CPUs,
         ResumeSelf(c) \/ Switch(c) \/ GoIdle(c) \/ Iret(c)
  PROVE  RankInv' /\ LockInv'
<1> USE Distinct DEF ResumeSelf, Switch, GoIdle, Iret
<1>1. PICK rank \in [Tasks -> Nat] : RankOk(rank) /\ \A d \in CPUs : ScanOk(rank, d)
  BY DEF RankInv
<1>2. SchedulerTypeOK /\ UNCHANGED listVars
  BY DEF IInv
<1>3. RankOk(rank)' /\ Listed' = Listed
  BY <1>1, <1>2, SameRank
<1>4. \A d \in CPUs : d # c => ScanOk(rank, d)'
  BY <1>1, <1>2, OtherScans DEF Goto
<1>5. /\ pc[c] # "create" /\ pc'[c] \notin {"poll", "examine"}
      /\ \E l : Goto(c, l)
  BY <1>2 DEF SchedulerTypeOK, Goto
<1>6. due'[c] = {}
  <2>1. CASE GoIdle(c)
    BY <2>1, <1>1, <1>2, EnoughPolls
  <2>2. CASE ResumeSelf(c) \/ Switch(c) \/ Iret(c)
    BY <2>2, <1>2 DEF SchedulerTypeOK
  <2> QED
    BY <2>1, <2>2
<1>7. ScanOk(rank, c)'
  BY <1>5, <1>6 DEF ScanOk
<1>8. LockInv'
  BY <1>2, <1>5, LockKept DEF listVars
<1> QED
  BY <1>1, <1>3, <1>4, <1>7, <1>8 DEF RankInv

-----------------------------------------------------------------------------
LEMMA NextRank == LInv /\ [Next]_vars => LInv'
<1> SUFFICES ASSUME LInv, [Next]_vars PROVE LInv'
  OBVIOUS
<1>1. IInv'
  BY NextInv DEF LInv
<1>2. IInv /\ SchedulerTypeOK /\ RankInv /\ LockInv
  BY DEF LInv, IInv
<1>3. ASSUME NEW c \in CPUs, Step(c) PROVE RankInv' /\ LockInv'
  <2>1. CASE Aside(c)
    BY <2>1, <1>2, AsideRank
  <2>2. CASE CreateLink(c)
    BY <2>2, <1>2, CreateLinkRank
  <2>3. CASE ScheduleBegin(c)
    BY <2>3, <1>2, ScheduleBeginRank
  <2>4. CASE PollNext(c)
    BY <2>4, <1>2, PollNextRank
  <2>5. CASE Skip(c)
    BY <2>5, <1>2, SkipRank
  <2>6. CASE ResumeSelf(c) \/ Switch(c) \/ GoIdle(c) \/ Iret(c)
    BY <2>6, <1>2, EndRank
  <2> QED
    BY <1>3, <2>1, <2>2, <2>3, <2>4, <2>5, <2>6 DEF Step, Aside
<1>4. ASSUME NEW c \in CPUs, Block(c) PROVE RankInv' /\ LockInv'
  BY <1>4, <1>2, AsideRank DEF Aside
<1>5. ASSUME NEW c \in CPUs, NEW x \in Tasks, CreateBegin(c, x)
      PROVE  RankInv' /\ LockInv'
  BY <1>5, <1>2, CreateBeginRank
<1>6. ASSUME NEW x \in Tasks, Wake(x) PROVE RankInv' /\ LockInv'
  <2>1. CASE CPUs = {}
    <3>1. RankInv'
      BY <1>2, <1>6, <2>1, SameRank DEF RankInv, Wake
    <3> QED
      BY <3>1, <1>2, <1>6 DEF LockInv, Wake, listVars
  <2>2. CASE CPUs # {}
    BY <2>2, <1>2, <1>6, AsideRank DEF Aside
  <2> QED
    BY <2>1, <2>2
<1>7. CASE UNCHANGED vars
  <2>1. UNCHANGED listVars /\ UNCHANGED <<pc, t, i, due>>
    BY <1>7 DEF vars
  <2>2. RankInv'
    BY <1>2, <2>1, SameRank, SameScan DEF RankInv
  <2> QED
    BY <2>1, <2>2, <1>1, <1>2 DEF LInv, LockInv, listVars
<1> QED
  BY <1>1, <1>3, <1>4, <1>5, <1>6, <1>7 DEF LInv, Next

LEMMA RankInvariance == Spec => []LInv
BY InitRank, NextRank, PTL DEF Spec

(* Two passes over the list are enough: a CPU that goes idle has examined every
   task that was listed when it began, and found it blocked or taken, wherever
   it started and whatever was created meanwhile (kmt.c:12, 40-46). *)
THEOREM ScansComplete == Spec => []ScanComplete
<1>1. LInv => ScanComplete
  BY DEF LInv, RankInv, ScanOk, ScanComplete
<1> QED
  BY <1>1, RankInvariance, PTL

-----------------------------------------------------------------------------
(* The list as TLC reads it: Chain[k] is the task of the k-th highest rank. *)
LEMMA LeastCounterexample ==
  ASSUME NEW S \in SUBSET Nat, S # {}
  PROVE  \E m \in S : \A n \in S : m <= n
<1>1. PICK m \in S : \A n \in S : ~ (<<n, m>> \in OpToRel(<, Nat))
  BY NatLessThanWellFounded, WFMin
<1>2. ASSUME NEW n \in S PROVE m <= n
  <2>1. <<n, m>> \in Nat \X Nat /\ ~(n < m)
    BY <1>1 DEF OpToRel
  <2> QED
    BY <2>1
<1> QED
  BY <1>2

LEMMA RankCount ==
  ASSUME NEW rank \in [Tasks -> Nat], RankOk(rank)
  PROVE  /\ Linked \in Nat /\ Linked <= Cardinality(Tasks)
         /\ Cardinality(Tasks) \in Nat /\ Cardinality(Listed) = Linked
<1>1. PICK n \in Nat : n = Linked
  BY DEF RankOk
<1>2. PICK f \in [1..n -> Listed] : \A k \in 1..n : rank[f[k]] = k - 1
  <2>1. \A k \in 1..n : k - 1 \in 0..(n - 1)
    BY <1>1
  <2>2. \A k \in 1..n : \E x \in Listed : rank[x] = k - 1
    BY <1>1, <2>1 DEF RankOk
  <2>3. PICK f : f = [k \in 1..n |-> CHOOSE x \in Listed : rank[x] = k - 1]
    OBVIOUS
  <2> QED
    BY <2>2, <2>3
<1>3. \A x \in Listed : rank[x] \in Nat /\ rank[x] < n
  BY <1>1 DEF RankOk, Listed
<1>4. f \in Bijection(1..n, Listed)
  <2>1. \A j, k \in 1..n : f[j] = f[k] => j = k
    BY <1>2
  <2>2. ASSUME NEW x \in Listed PROVE \E k \in 1..n : f[k] = x
    <3>1. rank[x] + 1 \in 1..n /\ rank[f[rank[x] + 1]] = rank[x]
      BY <1>2, <1>3
    <3>2. f[rank[x] + 1] = x
      BY <3>1, <1>2 DEF RankOk
    <3> QED
      BY <3>1, <3>2
  <2> QED
    BY <1>2, <2>1, <2>2 DEF Bijection, Injection, Surjection, IsInjective
<1>5. Cardinality(Listed) = n
  BY <1>4, FS_CountingElements DEF ExistsBijection
<1>6. Cardinality(Listed) <= Cardinality(Tasks) /\ Cardinality(Tasks) \in Nat
  BY SchedulerAssumption, FS_Subset, FS_CardinalityType DEF Listed
<1> QED
  BY <1>1, <1>5, <1>6

LEMMA ChainIs ==
  ASSUME NEW rank \in [Tasks -> Nat], RankOk(rank), ListInv
  PROVE  /\ DOMAIN Chain = 0..Cardinality(Tasks)
         /\ \A k \in 0..Cardinality(Tasks) :
              IF k < Linked THEN Chain[k] \in Listed /\ rank[Chain[k]] = Linked - 1 - k
              ELSE Chain[k] = Null
<1> USE Distinct
<1>1. PICK N \in Nat, n \in Nat : N = Cardinality(Tasks) /\ n = Linked /\ n <= N
  BY RankCount
<1> DEFINE Next1(g, k) == IF k = 0 THEN task_list
                          ELSE IF g[k - 1] = Null THEN Null ELSE next[g[k - 1]]
           IsChain(g) == g = [k \in 0..N |-> Next1(g, k)]
<1>2. PICK g :
        /\ IsChain(g)
        /\ \A k \in 0..N : IF k < n THEN g[k] \in Listed /\ rank[g[k]] = n - 1 - k
                          ELSE g[k] = Null
  <2>1. PICK h : h = [k \in 0..N |-> IF k < n THEN CHOOSE x \in Listed : rank[x] = n - 1 - k
                                    ELSE Null]
    OBVIOUS
  <2>2. ASSUME NEW k \in 0..N, k < n PROVE h[k] \in Listed /\ rank[h[k]] = n - 1 - k
    <3>1. n - 1 - k \in 0..(n - 1)
      BY <2>2
    <3>2. \E x \in Listed : rank[x] = n - 1 - k
      BY <3>1, <1>1 DEF RankOk
    <3> QED
      BY <2>1, <2>2, <3>2
  <2>3. ASSUME NEW k \in 0..N PROVE h[k] = Next1(h, k)
    <3>1. CASE k = 0
      <4>1. CASE n = 0
        BY <3>1, <4>1, <2>1, <1>1 DEF RankOk
      <4>2. CASE n # 0
        <5>1. h[0] \in Listed /\ rank[h[0]] = n - 1
          BY <4>2, <2>2, <1>1
        <5>2. task_list \in Listed /\ rank[task_list] + 1 = n /\ rank[task_list] \in Nat
          BY <4>2, <1>1 DEF RankOk, Listed
        <5>3. h[0] = task_list
          BY <5>1, <5>2 DEF RankOk
        <5> QED
          BY <5>3, <3>1
      <4> QED
        BY <4>1, <4>2
    <3>2. CASE k # 0 /\ k - 1 < n
      <4>1. k - 1 \in 0..N
        BY <3>2
      <4>2. h[k - 1] \in Listed /\ rank[h[k - 1]] = n - 1 - (k - 1) /\ h[k - 1] # Null
        BY <4>1, <3>2, <2>2 DEF Listed
      <4>3. CASE k < n
        <5>1. h[k] \in Listed /\ rank[h[k]] = n - 1 - k
          BY <4>3, <2>2
        <5>2. next[h[k - 1]] # Null
          BY <4>2, <4>3 DEF RankOk
        <5>3. /\ next[h[k - 1]] \in Listed /\ rank[h[k - 1]] = rank[next[h[k - 1]]] + 1
              /\ rank[next[h[k - 1]]] \in Nat
          BY <4>2, <5>2 DEF RankOk, ListInv, Listed
        <5>4. rank[next[h[k - 1]]] = rank[h[k]]
          BY <4>2, <5>1, <5>3
        <5>5. next[h[k - 1]] = h[k]
          BY <5>1, <5>3, <5>4 DEF RankOk
        <5> QED
          BY <5>5, <4>2, <3>2
      <4>4. CASE ~(k < n)
        <5>1. rank[h[k - 1]] = 0 /\ h[k] = Null
          BY <4>2, <4>4, <3>2, <2>1
        <5>2. next[h[k - 1]] = Null
          <6> SUFFICES ASSUME next[h[k - 1]] # Null PROVE FALSE
            OBVIOUS
          <6>1. next[h[k - 1]] \in Listed
            BY <4>2 DEF ListInv
          <6>2. rank[h[k - 1]] = rank[next[h[k - 1]]] + 1 /\ rank[next[h[k - 1]]] \in Nat
            BY <4>2, <6>1 DEF RankOk, Listed
          <6> QED
            BY <5>1, <6>2
        <5> QED
          BY <5>1, <5>2, <4>2, <3>2
      <4> QED
        BY <4>3, <4>4
    <3>3. CASE k # 0 /\ ~(k - 1 < n)
      <4>1. k - 1 \in 0..N /\ ~(k < n)
        BY <3>3, <1>1
      <4>2. h[k - 1] = Null /\ h[k] = Null
        BY <4>1, <3>3, <2>1
      <4> QED
        BY <4>2, <3>3
    <3> QED
      BY <3>1, <3>2, <3>3
  <2>4. h = [k \in 0..N |-> h[k]]
    BY <2>1
  <2>5. \A k \in 0..N : IF k < n THEN h[k] \in Listed /\ rank[h[k]] = n - 1 - k
                       ELSE h[k] = Null
    BY <2>1, <2>2
  <2>6. IsChain(h)
    BY <2>3, <2>4
  <2> QED
    BY <2>5, <2>6
<1>3. Chain = CHOOSE g1 : IsChain(g1)
  BY <1>1 DEF Chain
<1>4. IsChain(Chain)
  BY <1>2, <1>3
<1>5. DOMAIN Chain = 0..N /\ \A k \in 0..N : Chain[k] = Next1(Chain, k)
  BY <1>4
<1>6. \A k \in 0..N : g[k] = Next1(g, k)
  BY <1>2
<1>7. \A k \in 0..N : Chain[k] = g[k]
  <2> DEFINE S == {k \in 0..N : Chain[k] # g[k]}
  <2> SUFFICES ASSUME S # {} PROVE FALSE
    OBVIOUS
  <2>1. PICK m \in S : \A k \in S : m <= k
    <3>1. S \in SUBSET Nat
      OBVIOUS
    <3> HIDE DEF S
    <3> QED
      BY <3>1, LeastCounterexample
  <2>2. m # 0
    BY <2>1, <1>5, <1>6
  <2>3. m - 1 \in 0..N /\ m - 1 \notin S
    BY <2>1, <2>2
  <2> QED
    BY <2>1, <2>2, <2>3, <1>5, <1>6
<1> QED
  BY <1>1, <1>2, <1>5, <1>7

(* However create and the schedulers interleave, task_list leads to every task
   that was created, to each once, and task_count is their number with the one
   being linked (kmt.c:75-93). *)
THEOREM ListsComplete == Spec => []ListComplete
<1>1. ASSUME LInv PROVE ListComplete
  <2>1. PICK rank \in [Tasks -> Nat] : RankOk(rank)
    BY <1>1 DEF LInv, RankInv
  <2>2. ListInv /\ CreateInv /\ SchedulerTypeOK /\ LockInv
    BY <1>1 DEF LInv, IInv
  <2>3. PICK N \in Nat, n \in Nat : /\ N = Cardinality(Tasks) /\ n = Linked /\ n <= N
                                  /\ Cardinality(Listed) = n
    BY <2>1, RankCount
  <2>4. /\ DOMAIN Chain = 0..N
        /\ \A k \in 0..N : IF k < n THEN Chain[k] \in Listed /\ rank[Chain[k]] = n - 1 - k
                          ELSE Chain[k] = Null
    BY <2>1, <2>2, <2>3, ChainIs
  <2>5. {Chain[k] : k \in DOMAIN Chain} = Listed \cup {Null}
    <3>1. ASSUME NEW x \in Listed PROVE \E k \in 0..N : Chain[k] = x
      <4>1. rank[x] \in 0..(n - 1)
        BY <2>1, <2>3 DEF RankOk, Listed
      <4>2. PICK k \in 0..N : k = n - 1 - rank[x] /\ k < n /\ n - 1 - k = rank[x]
        BY <4>1, <2>3
      <4>3. Chain[k] \in Listed /\ rank[Chain[k]] = rank[x]
        BY <4>2, <2>4
      <4> QED
        BY <4>3, <2>1 DEF RankOk
    <3>2. Chain[n] = Null /\ n \in 0..N
      BY <2>3, <2>4
    <3> QED
      BY <3>1, <3>2, <2>4
  <2>6. PICK creating : creating = {c \in CPUs : pc[c] = "create"}
    OBVIOUS
  <2>7. Cardinality(creating) = IF list_lock THEN 1 ELSE 0
    <3>1. CASE list_lock
      <4>1. PICK c : creating = {c}
        BY <3>1, <2>2, <2>6, ZenonT(60) DEF LockInv, CreateInv
      <4> QED
        BY <4>1, <3>1, FS_Singleton
    <3>2. CASE ~list_lock
      <4>1. creating = {}
        BY <3>2, <2>2, <2>6 DEF CreateInv
      <4> QED
        BY <4>1, <3>2, FS_EmptySet
    <3> QED
      BY <3>1, <3>2
  <2>8. task_count = Cardinality(Listed) + Cardinality(creating)
    BY <2>2, <2>3, <2>7 DEF Linked, SchedulerTypeOK
  <2> QED
    BY <2>5, <2>6, <2>8 DEF ListComplete
<1> QED
  BY <1>1, RankInvariance, PTL
=============================================================================
