---------------------------- MODULE MCScheduler ----------------------------
(* Tasks all created after boot, or two of them by os_init. *)
EXTENDS Scheduler, TLC
CONSTANTS c0, c1, t1, t2, t3

OneCPU == {c0}
TwoCPUs == {c0, c1}
TwoTasks == {t1, t2}
ThreeTasks == {t1, t2, t3}
NoInitTasks == <<>>
TwoInitTasks == <<t2, t1>>

(* CPUs are interchangeable, and so are tasks none of which os_init creates. *)
Symmetry == Permutations(TwoCPUs) \cup Permutations(ThreeTasks)
=============================================================================
