SPECIFICATION SmpSpec
CONSTANTS
  EMPTY = EMPTY
  NoWork = NoWork
  Letters = {TASK_STAT, TASK_ODEV}
  Work = {TASK_STAT, TASK_ODEV}
  Wakers = {TASK_STAT, TASK_ODEV}
  Pushers = {0}
  Patient = FALSE
  MaxSent = 5
  MAX_WORKQ = 3
  MaxPending = 2
  MaxPosted = 5
INVARIANT InOrder
INVARIANT RingHolds
PROPERTY ServedInOrder
PROPERTY Served
CHECK_DEADLOCK FALSE
