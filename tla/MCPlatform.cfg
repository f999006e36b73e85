CONSTANTS
  W = 4
  Bits = 8
  PBUF_MAX_SIZE = 4
  MemorySize = 6
  Chars = {0, 1, 2}
  SlabHeader = 40
  SLAB_SPACE = 4096
  P_4K = 12
  P_16M = 24
  NodeBytes = 8192
  MAX_PAGE_NUM = 10
  MaxSize = 2049
  SlabPages <- CSlabPages
  HeapStarts <- CHeapStarts
  HeapEnds <- CHeapEnds
  Seqs = {1, 2, 3}
  Events = {2, 5}
  EVENT_NULL = 0
  EVENT_SYSCALL = 2
  MaxHandlers = 4
  ptlevels = 3
  Fan = 2
  a1 = a1
  a2 = a2
  AddrSpaces <- CAddrSpaces
  Frames = {1, 2, 3, 4, 5}
  kpt = 100
  Pdpt = 101
  Physical = {50}
  None = None
  ncpu = 3
  MaxHalts = 2
  Minute = 3
  Hour = 2
  MaxNow = 12
  blkcnt = 3
  blksz = 2
  Values = {0, 1}
  NEVENTS = 3
  TTY_COOK_BUF_SZ = 4
  Strokes <- CStrokes
  MaxKeys = 3
  MaxIrqs = 1
  MaxHw = 2
  Width = 5
  Height = 9
  TEXTURE_W = 2
  TEXTURE_H = 2
  Font <- CFont
  Letters = {65}
  WelcomeText <- CWelcomeText
SPECIFICATION Spec
INVARIANTS
  Int64Right KlibRight LayoutRight HandlersOrdered MapRight TablesOwned
  BootExclusive ClockRight DiskIsBytes EventsCounted LinesWhole
  ScreenFresh
PROPERTIES BootCompletes KeysHandled
CHECK_DEADLOCK FALSE
