------------------------- MODULE AbstractSemaphore -------------------------
(* What counting semaphores with first-in first-out hand-over promise: a task
   passes sem_wait only by taking an available resource or by being the longest
   waiting one when another is signalled, every signal lets exactly one task
   pass, now or later, and a task is in one sem_wait at a time.              *)
EXTENDS Naturals, Sequences

CONSTANTS Tasks, Sems, InitAvail

VARIABLES
  avail,    \* semaphore -> resources that a task can take without waiting
  waiting,  \* semaphore -> the tasks that wait, longest first
  admitted  \* semaphore -> tasks let through that have not returned yet

vars == <<avail, waiting, admitted>>

Busy(x) == \E s \in Sems :
             x \in admitted[s] \/ \E k \in DOMAIN waiting[s] : waiting[s][k] = x

Init ==
  /\ avail = InitAvail
  /\ waiting = [s \in Sems |-> <<>>]
  /\ admitted = [s \in Sems |-> {}]

Take(s, x) ==
  /\ avail[s] > 0 /\ ~Busy(x)
  /\ avail' = [avail EXCEPT ![s] = @ - 1]
  /\ admitted' = [admitted EXCEPT ![s] = @ \cup {x}]
  /\ UNCHANGED waiting

Join(s, x) ==
  /\ avail[s] = 0 /\ ~Busy(x)
  /\ waiting' = [waiting EXCEPT ![s] = Append(@, x)]
  /\ UNCHANGED <<avail, admitted>>

HandOver(s) ==
  /\ waiting[s] # <<>>
  /\ admitted' = [admitted EXCEPT ![s] = @ \cup {Head(waiting[s])}]
  /\ waiting' = [waiting EXCEPT ![s] = Tail(@)]
  /\ UNCHANGED avail

Release(s) ==
  /\ waiting[s] = <<>>
  /\ avail' = [avail EXCEPT ![s] = @ + 1]
  /\ UNCHANGED <<waiting, admitted>>

Return(s, x) ==
  /\ x \in admitted[s]
  /\ admitted' = [admitted EXCEPT ![s] = @ \ {x}]
  /\ UNCHANGED <<avail, waiting>>

Next == \E s \in Sems :
          \/ \E x \in Tasks : Take(s, x) \/ Join(s, x) \/ Return(s, x)
          \/ HandOver(s) \/ Release(s)

Spec == Init /\ [][Next]_vars
=============================================================================
