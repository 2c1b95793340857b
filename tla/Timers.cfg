SPECIFICATION TimerSpec
CONSTANTS
  st = st
  r1 = r1
  r2 = r2
  o1 = o1
  o2 = o2
  o3 = o3
  p1 = p1
  p2 = p2
  p3 = p3
  Null = Null
  Nodes = {st, r1, o1, o2, o3}
  SchedTimer = st
  RtTimers = {r1}
  RtIntvl <- TwoIntervals
  OneshotTimers <- Ring3
  Sleepers = {p1, p2, p3}
  Delays = {5}
  TICK = 3
  FirstLoads = {2, 3}
  MIN_TIME_INT = 1
  WIDTH = 64
  IrqInInsert = FALSE
INVARIANT InTurn
INVARIANT NoneOverdue
INVARIANT SlotFree
INVARIANT NotLate
PROPERTY AlmostKept
PROPERTY Implements
PROPERTY NoneOvertaken
SYMMETRY AnySleeper
