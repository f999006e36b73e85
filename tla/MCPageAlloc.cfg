SPECIFICATION Spec
CONSTANTS
  c0 = c0
  c1 = c1
  Null = Null
  Callers <- TwoCallers
  P_4K = 12
  P_16M = 14
  real_page_num = 2
  begin_alloc_addr = 16384
  Requests <- MCRequests
INVARIANTS
  TypeOK
  PagesDisjoint
  RootsTruthful
SYMMETRY Symmetry
