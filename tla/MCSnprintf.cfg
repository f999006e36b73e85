CONSTANTS
  Bits = 8
  PBUF_MAX_SIZE = 3
  MemorySize = 6
  Chars = {0, 1, 2}
SPECIFICATION Spec
INVARIANT WithinBuffer
