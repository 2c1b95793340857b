SPECIFICATION Spec
CONSTANTS
  idle = idle
  shell = shell
  worker = worker
  c1 = c1
  c2 = c2
  r1 = r1
  r2 = r2
  o1 = o1
  Idle = idle
  Shell = shell
  Worker = worker
  NoTask = NoTask
  Cfs = {c1}
  Sleepers = {c1, worker}
  Rt = {}
  Oneshot = {o1}
  Priority <- MCEqual
  MAX_TASK = 8
  Commands = {"cfs", "oneshot"}
  Targets = {}
  Quiet = {"deq1", "deq4", "enq1", "enq4"}
  MaxTimers = 1
  MaxMissed = 0
  MaxKey = 2
INVARIANT TypeOK
INVARIANT NoFault
INVARIANT QueuesAgree
PROPERTY SwitchesToRunnable
