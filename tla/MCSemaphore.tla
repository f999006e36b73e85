---------------------------- MODULE MCSemaphore ----------------------------
(* Tasks that wait and signal as they like, and an interrupt handler that
   signals, on one semaphore; rings with and without room for all tasks. *)
EXTENDS Semaphore, TLC
CONSTANTS t1, t2, t3, irq, s1

TwoTasks == {t1, t2}
ThreeTasks == {t1, t2, t3}
MCHandlers == {irq}
OneSem == {s1}
StartAtZero == s1 :> 0

TaskSymmetry == Permutations(ThreeTasks)
=============================================================================
