SPECIFICATION Spec
CONSTANTS
  c0 = c0
  c1 = c1
  boot0 = boot0
  boot1 = boot1
  task = task
  NoLock = NoLock
  CPUs <- MCCPUs
  Threads <- MCThreads
  BootOf <- MCBootOf
  SpinLocks <- MCSpinLocks
  RawLocks <- MCRawLocks
INVARIANTS
  TypeOK
  MutualExclusion
  HolderKeepsCpu
  NestMatches
  FlagRestored
