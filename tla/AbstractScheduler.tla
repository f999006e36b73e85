------------------------- MODULE AbstractScheduler -------------------------
(* What the scheduler promises: a CPU executes a task or no task, changes it
   only by a trap, and after a trap goes on with a task that exists, that is
   awake and that no other CPU is on, not even in its traps, or idles.       *)
CONSTANTS CPUs, Tasks, InitTasks, Null

VARIABLES
  created,  \* the tasks that exist
  asleep,   \* the tasks that a semaphore has blocked
  at,       \* CPU -> the task it is on, or Null
  trapped   \* the CPUs in a trap, still on the stack of what they ran

vars == <<created, asleep, at, trapped>>

Init ==
  /\ created = InitTasks
  /\ asleep = {}
  /\ at = [c \in CPUs |-> Null]
  /\ trapped = {}

Create(c, x) ==
  /\ c \notin trapped /\ x \notin created
  /\ created' = created \cup {x}
  /\ UNCHANGED <<asleep, at, trapped>>

Sleep(c) ==
  /\ c \notin trapped /\ at[c] # Null
  /\ asleep' = asleep \cup {at[c]}
  /\ UNCHANGED <<created, at, trapped>>

Awake(x) ==
  /\ x \in asleep
  /\ asleep' = asleep \ {x}
  /\ UNCHANGED <<created, at, trapped>>

Trap(c) ==
  /\ c \notin trapped
  /\ trapped' = trapped \cup {c}
  /\ UNCHANGED <<created, asleep, at>>

Dispatch(c, x) ==
  /\ c \in trapped
  /\ x \in created \ asleep
  /\ \A d \in CPUs \ {c} : at[d] # x
  /\ at' = [at EXCEPT ![c] = x]
  /\ trapped' = trapped \ {c}
  /\ UNCHANGED <<created, asleep>>

Idle(c) ==
  /\ c \in trapped
  /\ at' = [at EXCEPT ![c] = Null]
  /\ trapped' = trapped \ {c}
  /\ UNCHANGED <<created, asleep>>

Next ==
  \/ \E c \in CPUs : \/ Sleep(c) \/ Trap(c) \/ Idle(c)
                     \/ \E x \in Tasks : Create(c, x) \/ Dispatch(c, x)
  \/ \E x \in Tasks : Awake(x)

Spec == Init /\ [][Next]_vars
=============================================================================
