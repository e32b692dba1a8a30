CONSTANTS
  p1 = p1
  p2 = p2
  Pids = {p1, p2}
  NULL = NULL
  PAGE_SIZE = 2
  WORD = 24
  TABLE_SIZE = 2
  PAGE_START = 2
  TEXT_BASE = 4
  DATA_BASE = 8
  STACK_BASE = 20
  STACK_SIZE = 2
  DATA_MAX = 6
  Images = {1, 4}
  BrkEnds = {10, 13}
  MaxReleases = 2
SYMMETRY PidSymmetry
SPECIFICATION Spec
INVARIANTS
  AddressInv
  PagesApart
  NoPageLost
  SegmentsMapped
  ValidPointersMapped
  ActiveDirectoryLive
  NoPanic
