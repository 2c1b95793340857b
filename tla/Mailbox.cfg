SPECIFICATION MailSpec
CONSTANTS
  EMPTY = EMPTY
  Letters = {TASK_STAT, TASK_ODEV}
  Pushers = {0, 1}
  Patient = FALSE
  MaxSent = 4
INVARIANT LockHeld
INVARIANT ExactlyOnce
INVARIANT NotStranded
CHECK_DEADLOCK FALSE
