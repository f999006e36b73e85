----------------------------- MODULE Semaphore -----------------------------
(* Sleeping semaphores: kernel/src/sem.c.

   Tasks call sem_wait and sem_signal; interrupt handlers only call sem_signal
   (input_notify, dev_input.c:88-91).  Everything but t->blocked is read and
   written under the semaphore's spinlock, so the steps are the accesses to
   blocked and the ends of the locked sections.  Module Spinlock shows that the
   lock excludes and that its holder is not interrupted; here it is an owner.
   Module Scheduler shows what blocked does to a task that yields.            *)
EXTENDS Naturals, FiniteSets, Sequences

CONSTANTS
  Tasks, Handlers,
  Sems,
  InitResource,   \* semaphore -> value given to sem_init
  SEM_CAPACITY,   \* entries of wait_queue
  MaxResource,    \* bound: signals stop before resource exceeds it
  Null

Flows == Tasks \cup Handlers
Slots == 0..(SEM_CAPACITY - 1)

ASSUME SemaphoreAssumption ==
  /\ Tasks \cap Handlers = {}
  /\ Null \notin Flows
  /\ SEM_CAPACITY \in Nat \ {0}
  /\ MaxResource \in Nat
  /\ InitResource \in [Sems -> Nat]

VARIABLES
  lock,        \* semaphore -> the flow that holds its spinlock, or Null
  resource, wait_queue, queue_head, queue_tail,   \* struct semaphore
  blocked,     \* task -> task_t field
  pc,          \* flow -> where it is
  sem          \* flow -> the semaphore of the call it is in, or Null

vars == <<lock, resource, wait_queue, queue_head, queue_tail, blocked, pc, sem>>

PCs == {"out", "wait", "waiting", "enqueue", "pass", "sleep",
        "loop", "signal", "signalling", "advance", "done"}

Goto(f, l) == pc' = [pc EXCEPT ![f] = l]

(* sem_init of every semaphore, before any task runs. *)
Init ==
  /\ lock = [s \in Sems |-> Null]
  /\ resource = InitResource
  /\ wait_queue = [s \in Sems |-> [k \in Slots |-> Null]]
  /\ queue_head = [s \in Sems |-> 0]
  /\ queue_tail = [s \in Sems |-> 0]
  /\ blocked = [x \in Tasks |-> FALSE]
  /\ pc = [f \in Flows |-> "out"]
  /\ sem = [f \in Flows |-> Null]

-----------------------------------------------------------------------------
(* sem_wait *)

WaitCall(x, s) ==
  /\ pc[x] = "out"
  /\ Goto(x, "wait")
  /\ sem' = [sem EXCEPT ![x] = s]
  /\ UNCHANGED <<lock, resource, wait_queue, queue_head, queue_tail, blocked>>

(* spin_lock(&sem->lock), of sem_wait and of sem_signal. *)
Lock(f) ==
  /\ pc[f] \in {"wait", "signal"}
  /\ lock[sem[f]] = Null
  /\ lock' = [lock EXCEPT ![sem[f]] = f]
  /\ Goto(f, IF pc[f] = "wait" THEN "waiting" ELSE "signalling")
  /\ UNCHANGED <<resource, wait_queue, queue_head, queue_tail, blocked, sem>>

TakeResource(x) ==
  LET s == sem[x] IN
  /\ pc[x] = "waiting"
  /\ resource[s] > 0
  /\ resource' = [resource EXCEPT ![s] = @ - 1]
  /\ Goto(x, "pass")
  /\ UNCHANGED <<lock, wait_queue, queue_head, queue_tail, blocked, sem>>

(* From here on the scheduler passes over the task. *)
BlockSelf(x) ==
  /\ pc[x] = "waiting"
  /\ resource[sem[x]] = 0
  /\ blocked' = [blocked EXCEPT ![x] = TRUE]
  /\ Goto(x, "enqueue")
  /\ UNCHANGED <<lock, resource, wait_queue, queue_head, queue_tail, sem>>

MutSuccessor(k) == k + 1
Successor(k) == (k + 1) % SEM_CAPACITY

Enqueue(x) ==
  LET s == sem[x] IN
  /\ pc[x] = "enqueue"
  /\ wait_queue' = [wait_queue EXCEPT ![s][queue_tail[s]] = x]
  /\ queue_tail' = [queue_tail EXCEPT ![s] = Successor(@)]
  /\ Goto(x, "sleep")
  /\ UNCHANGED <<lock, resource, queue_head, blocked, sem>>

(* spin_unlock, then the loop of yields. *)
UnlockSleep(x) ==
  /\ pc[x] = "sleep"
  /\ lock' = [lock EXCEPT ![sem[x]] = Null]
  /\ Goto(x, "loop")
  /\ UNCHANGED <<resource, wait_queue, queue_head, queue_tail, blocked, sem>>

MutAwake(x) == TRUE
Awake(x) == ~blocked[x]

LeaveLoop(x) ==
  /\ pc[x] = "loop" /\ Awake(x)
  /\ Goto(x, "out")
  /\ sem' = [sem EXCEPT ![x] = Null]
  /\ UNCHANGED <<lock, resource, wait_queue, queue_head, queue_tail, blocked>>

(* spin_unlock of a sem_wait that took a resource and of a sem_signal. *)
UnlockReturn(f) ==
  /\ pc[f] \in {"pass", "done"}
  /\ lock' = [lock EXCEPT ![sem[f]] = Null]
  /\ Goto(f, "out")
  /\ sem' = [sem EXCEPT ![f] = Null]
  /\ UNCHANGED <<resource, wait_queue, queue_head, queue_tail, blocked>>

-----------------------------------------------------------------------------
(* sem_signal *)

Signallers(s) == {f \in Flows : sem[f] = s /\ pc[f] \in {"signal", "signalling"}}

SignalCall(f, s) ==
  /\ pc[f] = "out"
  /\ resource[s] + Cardinality(Signallers(s)) < MaxResource
  /\ Goto(f, "signal")
  /\ sem' = [sem EXCEPT ![f] = s]
  /\ UNCHANGED <<lock, resource, wait_queue, queue_head, queue_tail, blocked>>

MutHasWaiter(s) == queue_tail[s] > queue_head[s] /\ resource[s] = 0
HasWaiter(s) == queue_head[s] # queue_tail[s] /\ resource[s] = 0

MutServed(s) == wait_queue[s][queue_tail[s]]
Served(s) == wait_queue[s][queue_head[s]]

(* sem->wait_queue[head]->blocked = false: the task may leave at once. *)
WakeHead(f) ==
  LET s == sem[f] IN
  /\ pc[f] = "signalling" /\ HasWaiter(s)
  /\ blocked' = [blocked EXCEPT ![Served(s)] = FALSE]
  /\ Goto(f, "advance")
  /\ UNCHANGED <<lock, resource, wait_queue, queue_head, queue_tail, sem>>

Advance(f) ==
  LET s == sem[f] IN
  /\ pc[f] = "advance"
  /\ queue_head' = [queue_head EXCEPT ![s] = Successor(@)]
  /\ Goto(f, "done")
  /\ UNCHANGED <<lock, resource, wait_queue, queue_tail, blocked, sem>>

Post(f) ==
  LET s == sem[f] IN
  /\ pc[f] = "signalling" /\ ~HasWaiter(s)
  /\ resource' = [resource EXCEPT ![s] = @ + 1]
  /\ Goto(f, "done")
  /\ UNCHANGED <<lock, wait_queue, queue_head, queue_tail, blocked, sem>>

-----------------------------------------------------------------------------
(* The steps inside a call; a task or a handler makes calls when it likes. *)
Step(f) ==
  \/ Lock(f) \/ UnlockReturn(f)
  \/ WakeHead(f) \/ Advance(f) \/ Post(f)
  \/ /\ f \in Tasks
     /\ \/ TakeResource(f) \/ BlockSelf(f) \/ Enqueue(f)
        \/ UnlockSleep(f) \/ LeaveLoop(f)

Call(f) ==
  \E s \in Sems :
    \/ SignalCall(f, s)
    \/ f \in Tasks /\ WaitCall(f, s)

Next == \E f \in Flows : Step(f) \/ Call(f)

Spec == Init /\ [][Next]_vars

(* A flow inside a call goes on: handlers and lock holders run with interrupts
   off, and module Scheduler shows that an unblocked task is resumed.  A lock
   that stays free is taken; one that is contended may starve a flow.        *)
LiveSpec == Spec /\ \A f \in Flows : WF_vars(Step(f))

-----------------------------------------------------------------------------
TypeOK ==
  /\ lock \in [Sems -> Flows \cup {Null}]
  /\ resource \in [Sems -> Nat]
  /\ wait_queue \in [Sems -> [Slots -> Tasks \cup {Null}]]
  /\ queue_head \in [Sems -> Slots]
  /\ queue_tail \in [Sems -> Slots]
  /\ blocked \in [Tasks -> BOOLEAN]
  /\ pc \in [Flows -> PCs]
  /\ sem \in [Flows -> Sems \cup {Null}]

(* While a resource is available nobody is queued for it or about to be: the
   test of resource and the queueing are one section, and sem_signal looks at
   the queue before it counts (sem.c:31, 41, 53-58). *)
NoLostWakeup ==
  \A s \in Sems : resource[s] > 0 =>
    /\ queue_head[s] = queue_tail[s]
    /\ \A x \in Tasks : ~(pc[x] = "enqueue" /\ sem[x] = s)

(* The entries of wait_queue from head to tail, and those not served yet. *)
Ring(s) ==
  [k \in 1..((queue_tail[s] + SEM_CAPACITY - queue_head[s]) % SEM_CAPACITY) |->
     wait_queue[s][(queue_head[s] + k - 1) % SEM_CAPACITY]]

Queue(s) ==
  IF \E f \in Flows : sem[f] = s /\ pc[f] = "advance"
  THEN Tail(Ring(s)) ELSE Ring(s)

Sleepers(s) ==
  {x \in Tasks : sem[x] = s /\ pc[x] \in {"sleep", "loop"} /\ blocked[x]}

(* The queue of a semaphore is the tasks that sleep on it, each once: none is
   dropped by the ring, woken without leaving it or left in it awake
   (sem.c:37-40, 54-55). *)
SleepersQueued ==
  \A s \in Sems :
    /\ {Queue(s)[k] : k \in DOMAIN Queue(s)} = Sleepers(s)
    /\ Len(Queue(s)) = Cardinality(Sleepers(s))

Admitted(s) ==
  {x \in Tasks : sem[x] = s /\ (pc[x] = "pass" \/ (pc[x] = "loop" /\ ~blocked[x]))}

(* Refinement of AbstractSemaphore: in spite of the window between blocked =
   false and the advance of the head, signals and waits pair up as on first-in
   first-out counting semaphores (sem.c:24-66). *)
Abs == INSTANCE AbstractSemaphore WITH
  InitAvail <- InitResource,
  avail <- resource,
  waiting <- [s \in Sems |-> Queue(s)],
  admitted <- [s \in Sems |-> Admitted(s)]

ImplementsAbstract == Abs!Spec

(* A queued task gets its turn if signals on its semaphore keep completing,
   whatever other tasks wait and signal meanwhile (sem.c:53-55). *)
WaiterServed ==
  \A s \in Sems, x \in Tasks :
    []<>(\E f \in Flows : sem[f] = s /\ pc[f] = "done")
      => ((x \in Sleepers(s)) ~> (pc[x] = "out"))

(* report.md:333 and os.h:54 promise each semaphore a first-in first-out queue
   of the tasks that wait for it, MAX_TASK of them at most: every sleeper is
   in the queue. *)
SleepersInQueue ==
  \A s \in Sems : Sleepers(s) \subseteq {Queue(s)[k] : k \in DOMAIN Queue(s)}
=============================================================================
