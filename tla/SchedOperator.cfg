SPECIFICATION Spec
CONSTANTS
  idle = idle
  shell = shell
  worker = worker
  c1 = c1
  c2 = c2
  r1 = r1
  r2 = r2
  o1 = o1
  Idle = idle
  Shell = shell
  Worker = worker
  NoTask = NoTask
  Cfs = {c1}
  Sleepers = {c1}
  Rt = {}
  Oneshot = {}
  Priority <- MCEqual
  MAX_TASK = 8
  Commands = {"cfs", "sleep", "run"}
  Targets = {c1, worker}
  Quiet = {"deq0", "deqr", "deq1", "deq2", "deq3", "deq4", "enq0", "enq1", "enq2", "enq3", "enq4"}
  MaxTimers = 1
  MaxMissed = 0
  MaxKey = 2
INVARIANT NoFault
INVARIANT QueuesAgree
INVARIANT OnlyWaitersListed
