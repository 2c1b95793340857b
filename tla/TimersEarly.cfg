SPECIFICATION TimerSpec
CONSTANTS
  st = st
  r1 = r1
  r2 = r2
  o1 = o1
  o2 = o2
  o3 = o3
  p1 = p1
  p2 = p2
  p3 = p3
  Null = Null
  Nodes = {st, r1, o1, o2, o3}
  SchedTimer = st
  RtTimers = {r1}
  RtIntvl <- TwoIntervals
  OneshotTimers <- Ring3
  Sleepers = {p1, p2, p3}
  Delays = {6}
  TICK = 4
  FirstLoads = {3, 4}
  MIN_TIME_INT = 1
  WIDTH = 64
  IrqInInsert = FALSE
PROPERTY DelayKept
