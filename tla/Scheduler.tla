----------------------------- MODULE Scheduler -----------------------------
(* The trap-driven scheduler: kernel/src/kmt.c with trap() of os.c and the
   frame handling of the x86-qemu abstract machine.

   A flow is a control flow with a stack of its own: a task, or the flow that
   booted a CPU (named by that CPU).  A trap pushes a frame on the stack of the
   flow that a CPU executes and runs the handlers on that same stack, so the CPU
   occupies the stack until __am_iret pops the frame of the flow it resumes.
   Context pointers are modelled by the flow whose frame they point to, and are
   Stale once that frame has been popped.

   idle_tasks[] stays all NULL, because init_idle_task assigns its parameter
   only: the "idle task" of every CPU is the zero-filled record at address 0,
   whose context[0] is the one slot nullctx for all CPUs together.            *)
EXTENDS Integers, FiniteSets, Sequences

CONSTANTS
  CPUs,        \* processors, and the names of their boot flows
  Tasks,       \* all task_t records that are ever created
  InitList,    \* the tasks that os_init creates: a sequence, head first; the
               \* build decides which (os.c:81-93, dev.c:42-45), even none
  Null,        \* the NULL task pointer
  Unlinked,    \* next of a task that has not been created
  Stale,       \* a pointer to a frame that was popped
  NoCtx        \* the NULL context pointer

Flows == Tasks \cup CPUs
Slots == 0..3                       \* Context *context[4]
Ctxs == Flows \cup {Stale, NoCtx}
InitTasks == {InitList[i] : i \in DOMAIN InitList}

ASSUME SchedulerAssumption ==
  /\ IsFiniteSet(Tasks)
  /\ CPUs \cap Tasks = {}
  /\ {Null, Unlinked, Stale, NoCtx} \cap Flows = {}
  /\ Null # Unlinked /\ Stale # NoCtx
  /\ InitList \in Seq(Tasks)
  /\ \A i, j \in DOMAIN InitList : InitList[i] = InitList[j] => i = j

VARIABLES
  task_list, next, task_count,   \* the list of all tasks
  list_lock,                     \* is task_list_lock held?
  running, blocked, i_nest, ctx, \* task_t fields
  nullctx,                       \* context[0] of the record at NULL
  current_task, last_task,       \* struct CPU fields
  on,                            \* CPU -> the flow whose stack it occupies
  pc,                            \* CPU -> where it is
  t,                             \* CPU -> local t of kmt_schedule or create
  i,                             \* CPU -> local i of kmt_schedule
  ret,                           \* CPU -> the context the trap will resume
  due                            \* history: CPU -> tasks yet to be examined

listVars == <<task_list, next, task_count, list_lock>>
taskVars == <<running, blocked, i_nest, ctx, nullctx>>
cpuVars == <<current_task, last_task, on, ret>>
vars == <<listVars, taskVars, cpuVars, pc, t, i, due>>

PCs == {"exec", "create", "release", "schedule", "poll", "examine", "iret",
        "halt"}

Listed == {x \in Tasks : next[x] # Unlinked}

Goto(c, l) == pc' = [pc EXCEPT ![c] = l]

-----------------------------------------------------------------------------
AfterInInit(x) ==
  LET k == CHOOSE j \in DOMAIN InitList : InitList[j] = x
  IN  IF k = Len(InitList) THEN Null ELSE InitList[k + 1]

(* After os_init: kmt_init, and kmt->create for each task of InitList.  Every
   CPU is in its boot flow, about to yield in os_run. *)
Init ==
  /\ task_list = IF InitList = <<>> THEN Null ELSE InitList[1]
  /\ next = [x \in Tasks |-> IF x \in InitTasks THEN AfterInInit(x) ELSE Unlinked]
  /\ task_count = Len(InitList)
  /\ list_lock = FALSE
  /\ running = [x \in Tasks |-> FALSE]
  /\ blocked = [x \in Tasks |-> FALSE]
  /\ i_nest = [x \in Tasks |-> 0]
  /\ ctx = [x \in Tasks |-> [s \in Slots |-> IF s = 0 /\ x \in InitTasks
                                            THEN x ELSE NoCtx]]
  /\ nullctx = NoCtx
  /\ current_task = [c \in CPUs |-> Null]
  /\ last_task = [c \in CPUs |-> Null]
  /\ on = [c \in CPUs |-> c]
  /\ pc = [c \in CPUs |-> "exec"]
  /\ t = [c \in CPUs |-> Null]
  /\ i = [c \in CPUs |-> 0]
  /\ ret = [c \in CPUs |-> NoCtx]
  /\ due = [c \in CPUs |-> {}]

-----------------------------------------------------------------------------
(* What the flow on a CPU may do between traps. *)

MutListFree == TRUE
ListFree == ~list_lock

(* create: under task_list_lock, fill in the record and count it ... *)
CreateBegin(c, x) ==
  /\ pc[c] = "exec" /\ ListFree
  /\ next[x] = Unlinked
  /\ list_lock' = TRUE
  /\ ctx' = [ctx EXCEPT ![x][0] = x]
  /\ blocked' = [blocked EXCEPT ![x] = FALSE]
  /\ running' = [running EXCEPT ![x] = FALSE]
  /\ i_nest' = [i_nest EXCEPT ![x] = 0]
  /\ task_count' = task_count + 1
  /\ t' = [t EXCEPT ![c] = x]
  /\ Goto(c, "create")
  /\ UNCHANGED <<task_list, next, nullctx, cpuVars, i, due>>

(* ... then link it in front of the list. *)
CreateLink(c) ==
  /\ pc[c] = "create"
  /\ next' = [next EXCEPT ![t[c]] = task_list]
  /\ task_list' = t[c]
  /\ list_lock' = FALSE
  /\ t' = [t EXCEPT ![c] = Null]
  /\ Goto(c, "exec")
  /\ UNCHANGED <<task_count, taskVars, cpuVars, i, due>>

(* sem_wait without resources blocks the task that calls it (sem.c:37). *)
Block(c) ==
  /\ pc[c] = "exec" /\ current_task[c] # Null
  /\ ~blocked[current_task[c]]
  /\ blocked' = [blocked EXCEPT ![current_task[c]] = TRUE]
  /\ UNCHANGED <<listVars, running, i_nest, ctx, nullctx, cpuVars, pc, t, i, due>>

(* sem_signal, from any task or interrupt handler, wakes it (sem.c:54). *)
Wake(x) ==
  /\ blocked[x]
  /\ blocked' = [blocked EXCEPT ![x] = FALSE]
  /\ UNCHANGED <<listVars, running, i_nest, ctx, nullctx, cpuVars, pc, t, i, due>>

-----------------------------------------------------------------------------
(* A trap: trap() calls kmt_context_save first (SEQ_MIN) ... *)
TrapSave(c) ==
  LET cur == current_task[c] IN
  /\ pc[c] = "exec"
  /\ IF cur = Null
     THEN /\ nullctx' = on[c]
          /\ UNCHANGED <<ctx, i_nest>>
     ELSE /\ ctx' = [ctx EXCEPT ![cur][i_nest[cur]] = on[c]]
          /\ i_nest' = [i_nest EXCEPT ![cur] = @ + 1]
          /\ UNCHANGED nullctx
  /\ Goto(c, "release")
  /\ UNCHANGED <<listVars, running, blocked, cpuVars, t, i, due>>

(* ... which gives up, under its lock, the task this CPU ran before, and only
   now: until this trap the CPU may still have been on that task's stack. *)
MutReleasesAlways(c) == last_task[c] # Null
HasLeft(c) == last_task[c] # Null /\ last_task[c] # current_task[c]

MutKeepsCount(x) == i_nest[x]
NestAfterRelease(x) == i_nest[x] - 1

ReleaseLast(c) ==
  LET last == last_task[c] IN
  /\ pc[c] = "release"
  /\ IF HasLeft(c)
     THEN /\ running' = [running EXCEPT ![last] = FALSE]
          /\ i_nest' = [i_nest EXCEPT ![last] = NestAfterRelease(last)]
     ELSE UNCHANGED <<running, i_nest>>
  /\ last_task' = [last_task EXCEPT ![c] = current_task[c]]
  /\ Goto(c, "schedule")
  /\ UNCHANGED <<listVars, blocked, ctx, nullctx, current_task, on, ret, t, i, due>>

(* ... and kmt_schedule last (SEQ_MAX), which starts at the current task.
   CUR_TASK = idle_tasks[cpu] leaves a NULL current task NULL. *)
ScheduleBegin(c) ==
  /\ pc[c] = "schedule"
  /\ t' = [t EXCEPT ![c] = current_task[c]]
  /\ i' = [i EXCEPT ![c] = 0]
  /\ due' = [due EXCEPT ![c] = Listed]
  /\ Goto(c, "poll")
  /\ UNCHANGED <<listVars, taskVars, cpuVars>>

MutPollTimes == task_count - 1
POLL_TIMES == task_count * 2 + 2

MutSuccessor(x) == task_list

(* The next task after x; NULL->next reads zeroes, that is NULL. *)
Successor(x) == IF x # Null /\ next[x] # Null THEN next[x] ELSE task_list

PollNext(c) ==
  /\ pc[c] = "poll" /\ i[c] < POLL_TIMES
  /\ t' = [t EXCEPT ![c] = Successor(t[c])]
  /\ Goto(c, "examine")
  /\ UNCHANGED <<listVars, taskVars, cpuVars, i, due>>

Examined(c) == due' = [due EXCEPT ![c] = @ \ {t[c]}]

(* continue: the task is blocked, or another CPU has it. *)
MutBusy(c, x) == blocked[x]
MutRunsBlocked(c, x) == x # current_task[c] /\ running[x]
Busy(c, x) == blocked[x] \/ (x # current_task[c] /\ running[x])

Skip(c) ==
  /\ pc[c] = "examine" /\ t[c] # Null
  /\ Busy(c, t[c])
  /\ i' = [i EXCEPT ![c] = @ + 1]
  /\ Examined(c)
  /\ Goto(c, "poll")
  /\ UNCHANGED <<listVars, taskVars, cpuVars, t>>

(* x->context[n]: outside the array there are other fields and no frame. *)
Context(x, n) == IF n \in Slots THEN ctx[x][n] ELSE NoCtx

(* The interrupted task goes on: this CPU has it already. *)
ResumeSelf(c) ==
  LET x == t[c] IN
  /\ pc[c] = "examine" /\ x # Null /\ x = current_task[c]
  /\ ~Busy(c, x)
  /\ i_nest' = [i_nest EXCEPT ![x] = @ - 1]
  /\ ret' = [ret EXCEPT ![c] = Context(x, i_nest'[x])]
  /\ t' = [t EXCEPT ![c] = Null]
  /\ i' = [i EXCEPT ![c] = 0]
  /\ due' = [due EXCEPT ![c] = {}]
  /\ Goto(c, "iret")
  /\ UNCHANGED <<listVars, running, blocked, ctx, nullctx, current_task,
                 last_task, on>>

(* Another task, tested and taken under its lock. *)
Switch(c) ==
  LET x == t[c] IN
  /\ pc[c] = "examine" /\ x # Null /\ x # current_task[c]
  /\ ~Busy(c, x)
  /\ running' = [running EXCEPT ![x] = TRUE]
  /\ current_task' = [current_task EXCEPT ![c] = x]
  /\ ret' = [ret EXCEPT ![c] = Context(x, i_nest[x])]
  /\ t' = [t EXCEPT ![c] = Null]
  /\ i' = [i EXCEPT ![c] = 0]
  /\ due' = [due EXCEPT ![c] = {}]
  /\ Goto(c, "iret")
  /\ UNCHANGED <<listVars, blocked, i_nest, ctx, nullctx, last_task, on>>

(* Nothing to run: whatever frame the record at NULL points to. *)
GoIdle(c) ==
  /\ pc[c] = "poll" /\ i[c] >= POLL_TIMES
  /\ current_task' = [current_task EXCEPT ![c] = Null]
  /\ ret' = [ret EXCEPT ![c] = nullctx]
  /\ t' = [t EXCEPT ![c] = Null]
  /\ i' = [i EXCEPT ![c] = 0]
  /\ Goto(c, "iret")
  /\ UNCHANGED <<listVars, taskVars, last_task, on, due>>

(* NULL = CUR_TASK with an empty task list: NULL->i_nest becomes -1 and
   context[-1] is NULL, on which __am_irq_handle panics. *)
ResumeNull(c) ==
  /\ pc[c] = "examine" /\ t[c] = Null
  /\ Goto(c, "halt")
  /\ UNCHANGED <<listVars, taskVars, cpuVars, t, i, due>>

(* __am_iret pops the frame: every other pointer to it is now stale. *)
Popped(p, f) == IF p = f THEN Stale ELSE p

Iret(c) ==
  LET f == ret[c] IN
  /\ pc[c] = "iret"
  /\ on' = [on EXCEPT ![c] = f]
  /\ ctx' = [x \in Tasks |-> [s \in Slots |-> Popped(ctx[x][s], f)]]
  /\ nullctx' = Popped(nullctx, f)
  /\ ret' = [d \in CPUs |-> IF d = c THEN NoCtx ELSE Popped(ret[d], f)]
  /\ due' = [due EXCEPT ![c] = {}]
  /\ Goto(c, "exec")
  /\ UNCHANGED <<listVars, running, blocked, i_nest, current_task, last_task, t, i>>

-----------------------------------------------------------------------------
(* Two CPUs on one stack, or on a popped frame: nothing is defined after it,
   and the model stops there, as it does when the machine has panicked. *)
Defined ==
  /\ \A c \in CPUs : on[c] \in Flows /\ pc[c] # "halt"
  /\ \A c, d \in CPUs : c # d => on[c] # on[d]

Step(c) ==
  \/ CreateLink(c)
  \/ TrapSave(c) \/ ReleaseLast(c)
  \/ ScheduleBegin(c) \/ PollNext(c)
  \/ Skip(c) \/ ResumeSelf(c) \/ Switch(c) \/ GoIdle(c) \/ ResumeNull(c)
  \/ Iret(c)

Next ==
  \/ /\ Defined
     /\ \/ \E c \in CPUs : \/ Step(c)
                           \/ Block(c)
                           \/ \E x \in Tasks : CreateBegin(c, x)
        \/ \E x \in Tasks : Wake(x)
  \/ ~Defined /\ UNCHANGED vars

Spec == Init /\ [][Next]_vars

(* Traps keep coming (the LAPIC timer, yield in os_run) and a handler that has
   started runs on, with interrupts off.  Nothing is assumed of lock
   acquisition, of tasks creating, blocking or waking tasks.                 *)
LiveSpec == Spec /\ \A c \in CPUs : WF_vars(Defined /\ Step(c))

-----------------------------------------------------------------------------
SchedulerTypeOK ==
  /\ task_list \in Tasks \cup {Null}
  /\ next \in [Tasks -> Tasks \cup {Null, Unlinked}]
  /\ task_count \in Nat
  /\ list_lock \in BOOLEAN
  /\ running \in [Tasks -> BOOLEAN]
  /\ blocked \in [Tasks -> BOOLEAN]
  /\ i_nest \in [Tasks -> 0..1]
  /\ ctx \in [Tasks -> [Slots -> Ctxs]]
  /\ nullctx \in Ctxs
  /\ current_task \in [CPUs -> Tasks \cup {Null}]
  /\ last_task \in [CPUs -> Tasks \cup {Null}]
  /\ on \in [CPUs -> Ctxs]
  /\ pc \in [CPUs -> PCs]
  /\ t \in [CPUs -> Tasks \cup {Null}]
  /\ i \in [CPUs -> Nat]
  /\ ret \in [CPUs -> Ctxs]
  /\ due \in [CPUs -> SUBSET Tasks]

(* No two CPUs are ever on the stack of one task, not even while one of them
   is still running its trap handlers there: what last_task is for
   (kmt.c:21-27). *)
TaskStackExclusive ==
  \A c, d \in CPUs : c # d /\ on[c] \in Tasks => on[c] # on[d]

(* running says exactly that some CPU has the task as its current or its last
   one, and never two CPUs do (kmt.c:24, 56-61). *)
RunningIsClaimed ==
  /\ \A x \in Tasks : running[x] <=>
       \E c \in CPUs : x \in {current_task[c], last_task[c]}
  /\ \A c, d \in CPUs : c # d =>
       {current_task[c], last_task[c]} \cap {current_task[d], last_task[d]}
         \subseteq {Null}

(* Every task that a CPU might pick has, in the slot that i_nest selects, the
   live frame of its own flow, and no CPU is on its stack: context saves and
   the deferred i_nest-- never lose or mix up a task (kmt.c:17, 25, 46-48). *)
RunnableHasFrame ==
  \A x \in Listed : ~running[x] =>
    ctx[x][i_nest[x]] = x /\ \A c \in CPUs : on[c] # x

(* A CPU goes idle only after it has found every task that was listed when it
   began busy: POLL_TIMES is enough, wherever the scan starts and whatever is
   created meanwhile (kmt.c:12, 40-46). *)
ScanComplete ==
  \A c \in CPUs : pc[c] = "iret" /\ current_task[c] = Null => due[c] = {}

(* The first k tasks of the list. *)
Chain ==
  LET first[k \in 0..Cardinality(Tasks)] ==
        IF k = 0 THEN task_list
        ELSE IF first[k - 1] = Null THEN Null ELSE next[first[k - 1]]
  IN  first

(* The list holds every created task once and task_count counts them, with the
   one being created: create under task_list_lock loses none (kmt.c:75-93). *)
ListComplete ==
  LET creating == {c \in CPUs : pc[c] = "create"} IN
  /\ {Chain[k] : k \in DOMAIN Chain} = Listed \cup {Null}
  /\ task_count = Cardinality(Listed) + Cardinality(creating)

(* Every runnable task is eventually resumed by some CPU, as long as execution
   stays defined: round robin from the current task starves none. *)
RunnableRuns ==
  \A x \in Tasks :
    []Defined => (  (x \in Listed /\ ~running[x] /\ ~blocked[x])
                  ~> (\E c \in CPUs : on[c] = x /\ pc[c] = "exec"))

(* A CPU that has trapped goes on with a task that is listed and awake and that
   no other CPU is on, or with no task, although it picks the task, enters it
   and gives up the last one in steps of their own, with other CPUs between
   them (kmt.c:11-66): the steps of the scheduler are those of one that
   dispatches at once. *)
Abs == INSTANCE AbstractScheduler WITH
         created <- Listed,
         asleep <- {x \in Tasks : blocked[x]},
         at <- [c \in CPUs |-> IF on[c] \in Tasks THEN on[c] ELSE Null],
         trapped <- {c \in CPUs : pc[c] \notin {"exec", "create"}}

ImplementsAbstract == Abs!Spec

(* Each CPU's idle flow has a stack of its own, as idle_tasks[MAX_CPU] and
   cpu_idle mean it to (kmt.c:8, 126-130, 168; report.md:205). *)
IdleStackExclusive ==
  \A c \in CPUs : on[c] \in Flows /\ \A d \in CPUs \ {c} : on[c] # on[d]
=============================================================================
