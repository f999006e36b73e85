SPECIFICATION Spec
CONSTANTS
  t1 = t1
  t2 = t2
  t3 = t3
  irq = irq
  s1 = s1
  Null = Null
  Tasks <- ThreeTasks
  Handlers <- MCHandlers
  Sems <- OneSem
  InitResource <- StartAtZero
  SEM_CAPACITY = 3
  MaxResource = 2
INVARIANT
  SleepersInQueue
