SPECIFICATION LiveSpec
CONSTANTS
  c0 = c0
  c1 = c1
  s0 = s0
  s1 = s1
  s2 = s2
  s3 = s3
  Null = Null
  CPUs <- TwoCPUs
  Slabs <- FourSlabs
  InitSlab <- MCInitSlab
  block_num = 2
INVARIANTS
  TypeOK
  BlocksPartitioned
  ListsComplete
  WorksUnderLock
  RecoveredIsDead
PROPERTY
  CallsReturn
