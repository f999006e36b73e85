SPECIFICATION Spec
CONSTANTS
  c0 = c0
  c1 = c1
  t1 = t1
  t2 = t2
  t3 = t3
  Null = Null
  Unlinked = Unlinked
  Stale = Stale
  NoCtx = NoCtx
  CPUs <- TwoCPUs
  Tasks <- TwoTasks
  InitList <- TwoInitTasks
INVARIANT
  IdleStackExclusive
