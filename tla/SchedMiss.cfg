SPECIFICATION Spec
CONSTANTS
  idle = idle
  shell = shell
  worker = worker
  c1 = c1
  c2 = c2
  r1 = r1
  r2 = r2
  o1 = o1
  Idle = idle
  Shell = shell
  Worker = worker
  NoTask = NoTask
  Cfs = {}
  Sleepers = {worker}
  Rt = {r1, r2}
  Oneshot = {}
  Priority <- MCPriority
  MAX_TASK = 8
  Commands = {"rt"}
  Targets = {}
  Quiet = {"deq1", "deq4", "enq1", "enq4"}
  MaxTimers = 1
  MaxMissed = 1
  MaxKey = 2
PROPERTY MissCounted
