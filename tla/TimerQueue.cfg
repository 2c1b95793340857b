SPECIFICATION LiveQueueSpec
CONSTANTS
  SchedTimer = st
  RtTimers = {r1}
  Oneshots = {o1, o2}
  Intervals = {5, 7}
  Delays = {4, 6}
  TICK = 4
  FirstLoads = {3, 4}
  MIN_TIME_INT = 1
  WIDTH = 64
INVARIANT InTurn
INVARIANT NoneOverdue
INVARIANT TickKept
PROPERTY NoneOvertaken
PROPERTY OneshotsEnd
