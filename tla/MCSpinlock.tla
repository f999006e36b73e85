---------------------------- MODULE MCSpinlock ----------------------------
(* Two CPUs, three threads (two of them the CPUs' boot threads), two spinlocks
   that nest and one lock of the allocator or the console. *)
EXTENDS Spinlock
CONSTANTS c0, c1, boot0, boot1, task

MCCPUs == {c0, c1}
MCThreads == {boot0, boot1, task}
MCBootOf == [c \in MCCPUs |-> IF c = c0 THEN boot0 ELSE boot1]
MCSpinLocks == 1..2
MCRawLocks == {3}
=============================================================================
