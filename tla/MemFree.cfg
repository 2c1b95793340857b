SPECIFICATION MemSpec
CONSTANTS
  t1 = t1
  t2 = t2
  Contexts = {t1, t2}
  CpuOf <- OneCpu
  CallsAlone = TRUE
  FreesWhole = FALSE
  PAGE_SIZE = 4
  Sizes = {4, 5}
  NFrames = 3
  Unset <- EmptyRange
  MaxRegions = 3
  MaxPage = 3
  MaxSlot = 3
INVARIANT FramesPrivate
CHECK_DEADLOCK FALSE
