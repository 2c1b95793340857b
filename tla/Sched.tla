------------------------------- MODULE Sched -------------------------------
(***************************************************************************)
(* The per-CPU scheduler of the kernel: CFS run queue, wait queue, the     *)
(* timer interrupt's three kinds of expiry, yieldyi() and the shell        *)
(* commands that create, suspend and wake tasks (core/sched.c, runq.c,     *)
(* waitq.c, timer.c, task.c).                                              *)
(*                                                                         *)
(* One CPU is modelled; the queues are per-CPU and tasks never migrate.    *)
(* Task code runs with interrupts enabled, so a timer interrupt may fall   *)
(* between any two of its steps; the handler itself runs with interrupts   *)
(* masked and is one action.  Which armed timer expires next is left open  *)
(* here: the timer tree's arithmetic is not this module's subject.         *)
(*                                                                         *)
(* The red-black tree is represented by its in-order walk, `runq'.  A      *)
(* descent from the root ends in a gap between two neighbours of that walk *)
(* which are both on the search path, so the set of possible insertion     *)
(* points (Gaps) covers every shape the tree can have, and is exact when   *)
(* the keys are sorted.                                                    *)
(***************************************************************************)
EXTENDS Integers, Sequences, FiniteSets

CONSTANTS
  Idle, Shell, Worker,  \* CPU 0's tasks at boot
  Cfs,                  \* CFS tasks the shell may create
  Sleepers,             \* those of Cfs and the worker that give up the CPU
  Rt,                   \* periodic RT tasks the shell may create
  Oneshot,              \* ONESHOT_TASK tasks the shell may create
  NoTask,               \* the NULL pointer
  Priority,             \* se.priority of every CFS task
  MAX_TASK,             \* capacity of the task table
  Commands,             \* shell commands the operator types
  Targets,              \* tasks whose pid the operator types
  Quiet,                \* program points where no interrupt is assumed to fall
  MaxTimers,            \* bound: one-shot timers armed for one task
  MaxMissed,            \* bound: missed_cnt saturates here
  MaxKey                \* bound: RT and one-shot expiries stop at this key

CfsTasks == {Idle, Shell, Worker} \cup Cfs
Tasks == CfsTasks \cup Rt \cup Oneshot

ASSUME SchedAssumption ==
  /\ NoTask \notin Tasks
  /\ Rt \cap CfsTasks = {} /\ Oneshot \cap (CfsTasks \cup Rt) = {}
  /\ Cfs \cap {Idle, Shell, Worker} = {} /\ Sleepers \subseteq Cfs \cup {Worker}
  /\ Idle # Shell /\ Idle # Worker /\ Shell # Worker
  /\ Priority \in [CfsTasks -> {1, 2, 4, 8, 16}]
  /\ MAX_TASK \in Nat /\ MaxTimers \in Nat /\ MaxMissed \in Nat /\ MaxKey \in Nat

VARIABLES
  tasklist,     \* circular list of created tasks, from `first'
  state,        \* task_struct.state
  runq,         \* in-order walk of the CFS tree
  rb_leftmost,  \* the tree's cached first node
  wq,           \* the wait queue: task_list.next, and every task's waitlist
  temp,         \* add_to_wq()'s temp_p
  vrun,         \* se.jiffies_vruntime
  current,      \* the running task
  yield_task,   \* the task to go back to in yieldyi()
  done, preempted, missed,  \* RT bookkeeping of task_struct
  oneshot,      \* armed one-shot timers, by the task they wake
  pc,           \* where each task is in its code
  arg,          \* the task a queue operation is about
  fault         \* "none", or how the CPU was lost

vars == <<tasklist, state, runq, rb_leftmost, wq, temp, vrun, current, yield_task,
          done, preempted, missed, oneshot, pc, arg, fault>>

rqVars == <<runq, rb_leftmost, vrun>>
wqVars == <<wq, temp>>
rtVars == <<done, preempted, missed>>

-----------------------------------------------------------------------------
(* Sequences *)

Members(q) == {q[i] : i \in 1..Len(q)}
Position(q, t) == CHOOSE i \in 1..Len(q) : q[i] = t
InsertAfter(q, p, t) ==
  [i \in 1..(Len(q) + 1) |-> IF i <= p THEN q[i] ELSE IF i = p + 1 THEN t ELSE q[i - 1]]
Erase(q, t) ==
  [i \in 1..(Len(q) - 1) |-> IF i < Position(q, t) THEN q[i] ELSE q[i + 1]]
Successor(q, t) ==
  IF Position(q, t) < Len(q) THEN q[Position(q, t) + 1] ELSE NoTask

-----------------------------------------------------------------------------
(* Virtual runtimes.  Every assignment in the code keeps jiffies_vruntime    *)
(* equal to jiffies_consumed * priority with priority a power of two, so     *)
(* jiffies_vruntime alone is kept and (x >> shift) * priority is rounding    *)
(* down to a multiple of the priority.                                       *)

RoundDown(x, p) == x - (x % p)

\* Comparisons and roundings do not change when every key in the tree drops by
\* a multiple of the largest priority, and the key of a task outside the tree
\* is overwritten before it is read: keys are kept modulo that shift.
MaxPriority == CHOOSE p \in {Priority[t] : t \in CfsTasks} : \A t \in CfsTasks : Priority[t] <= p
Rebase(v, S) ==
  LET base == CHOOSE x \in {v[t] : t \in S} : \A t \in S : x <= v[t]
  IN  [t \in CfsTasks |-> IF t \in S THEN v[t] - RoundDown(base, MaxPriority) ELSE 0]

\* Mutant: the jiffy is not charged.
ChargeNothing(v) == v

\* update_current(): the interrupted CFS task is charged one jiffy.
update_current(v) ==
  IF current \in CfsTasks THEN [v EXCEPT ![current] = @ + Priority[current]] ELSE v

\* update_vruntime_runq(se): se and every queued entity restart from the
\* leftmost key, rounded down to their own priority.
update_vruntime_runq(v, q, lm, t) ==
  IF lm = NoTask THEN v
  ELSE [u \in CfsTasks |->
          IF u \in Members(q) \cup {t} THEN RoundDown(v[lm], Priority[u]) ELSE v[u]]

\* Where the descent of enqueue_se() may end: >= goes left, < goes right.
Gaps(q, v, t) ==
  {p \in 0..Len(q) : /\ p > 0 => v[q[p]] < v[t]
                     /\ p < Len(q) => v[q[p + 1]] >= v[t]}

\* enqueue_se() on tree q with keys v, leftmost cache lm.
enqueue_se(q, v, lm, t) ==
  \E p \in Gaps(q, v, t) :
    /\ runq' = InsertAfter(q, p, t)
    /\ rb_leftmost' = IF p = 0 THEN t ELSE lm
    /\ vrun' = Rebase(v, Members(q) \cup {t})

\* Mutant: the leftmost cache is not moved.
LeftmostKept(q, lm, t) == lm

\* dequeue_se(): the leftmost cache moves to the successor.
LeftmostWithout(q, lm, t) == IF lm = t THEN Successor(q, t) ELSE lm

dequeue_se(q, v, lm, t) ==
  /\ runq' = Erase(q, t)
  /\ rb_leftmost' = LeftmostWithout(q, lm, t)
  /\ vrun' = IF Len(q) = 1 THEN v ELSE Rebase(v, Members(q) \ {t})

\* update_se(): only the leftmost entity is ever put back in order.  It takes it
\* for granted that there is a second one to compare it with.
update_se(v) ==
  LET lm == rb_leftmost
      nx == Successor(runq, lm)
  IN  IF v[nx] < v[lm]
      THEN enqueue_se(Erase(runq, lm), v, nx, lm)
      ELSE /\ UNCHANGED <<runq, rb_leftmost>>
           /\ vrun' = Rebase(v, Members(runq))

-----------------------------------------------------------------------------
(* Boot: start_kernel() has queued idle, shell and the work queue's worker.  *)

Init ==
  /\ tasklist = <<Idle, Shell, Worker>>
  /\ state = [t \in Tasks |-> IF t \in {Idle, Shell, Worker} THEN "RUNNING" ELSE "NONE"]
  /\ runq = <<Worker, Shell, Idle>> /\ rb_leftmost = Worker
  /\ wq = [first |-> NoTask, next |-> [t \in Tasks |-> NoTask],
           prev |-> [t \in Tasks |-> FALSE]]
  /\ temp = [t \in Tasks |-> NoTask]
  /\ vrun = [t \in CfsTasks |-> 0]
  /\ current = Idle
  /\ yield_task = [t \in Tasks |-> IF t \in {Shell, Worker} THEN Idle ELSE NoTask]
  /\ done = [t \in Rt |-> TRUE]
  /\ preempted = [t \in Rt |-> FALSE]
  /\ missed = [t \in Rt |-> 0]
  /\ oneshot = [t \in Tasks |-> 0]
  /\ pc = [t \in Tasks |-> "run"]
  /\ arg = [t \in Tasks |-> NoTask]
  /\ fault = "none"

Created == Members(tasklist)
cfs_task_num == Cardinality(Created \cap CfsTasks)

Running(t, p) == fault = "none" /\ current = t /\ pc[t] = p
Goto(t, p) == pc' = [pc EXCEPT ![t] = p]
Call(t, p, x) == Goto(t, p) /\ arg' = [arg EXCEPT ![t] = x]
Broken(how) == fault' = how

\* The spin locks, by the program points inside their critical sections.
WqHeld == \E t \in Tasks : pc[t] \in {"deq1", "enq1"}
RqHeld == \E t \in Tasks : pc[t] \in {"deq4", "enq4"}

-----------------------------------------------------------------------------
(* The wait queue: first is task_list.next, next[t] is waitlist.next, and      *)
(* prev[t] says whether waitlist.prev is the list head or NULL, the only two   *)
(* values the code ever stores there.                                          *)

\* What the walk along the next pointers comes to: the least set that holds the first
\* node and the successor of each of its nodes.
ClosedWalk(S) == wq.first \in S /\ \A t \in S \ {NoTask} : wq.next[t] \in S
Reached == {t \in Tasks \cup {NoTask} :
             \A S \in SUBSET (Tasks \cup {NoTask}) : ClosedWalk(S) => t \in S}
Listed == Reached \ {NoTask}
Circular == NoTask \notin Reached

-----------------------------------------------------------------------------
(* dequeue_se_to_wq(arg): points deq0, deqr, deq1 .. deq4.                     *)

\* What the caller does next: the shell reads its next command, the worker
\* yields, a task in delay() arms its timer.
AfterDequeue(t) == IF t = Shell THEN "run" ELSE IF t = Worker THEN "yld" ELSE "tmr"

\* temp_p is read before the lock is taken.
DeqReadFirst(t) ==
  /\ Running(t, "deq0")
  /\ temp' = [temp EXCEPT ![t] = wq.first]
  /\ Goto(t, "deqr")
  /\ UNCHANGED <<tasklist, state, rqVars, wq, current, yield_task, rtVars, oneshot, arg, fault>>

DeqLockWq(t) ==
  /\ Running(t, "deqr") /\ ~WqHeld
  /\ Goto(t, "deq1")
  /\ UNCHANGED <<tasklist, state, rqVars, wqVars, current, yield_task, rtVars, oneshot, arg, fault>>

\* The task goes to the front; the node behind it keeps its prev pointer.
add_to_wq(t) ==
  /\ Running(t, "deq1")
  /\ wq' = [first |-> arg[t], next |-> [wq.next EXCEPT ![arg[t]] = temp[t]],
            prev |-> [wq.prev EXCEPT ![arg[t]] = TRUE]]
  /\ temp' = [temp EXCEPT ![t] = NoTask]
  /\ Goto(t, "deq2")
  /\ UNCHANGED <<tasklist, state, rqVars, current, yield_task, rtVars, oneshot, arg, fault>>

\* Mutant: the state stays TASK_RUNNING.
DeqStateKept(t) ==
  /\ Running(t, "deq2")
  /\ Goto(t, "deq3")
  /\ UNCHANGED <<tasklist, state, rqVars, wqVars, current, yield_task, rtVars, oneshot, arg, fault>>

DeqState(t) ==
  /\ Running(t, "deq2")
  /\ state' = [state EXCEPT ![arg[t]] = "WAITING"]
  /\ Goto(t, "deq3")
  /\ UNCHANGED <<tasklist, rqVars, wqVars, current, yield_task, rtVars, oneshot, arg, fault>>

DeqLockRq(t) ==
  /\ Running(t, "deq3") /\ ~RqHeld
  /\ Goto(t, "deq4")
  /\ UNCHANGED <<tasklist, state, rqVars, wqVars, current, yield_task, rtVars, oneshot, arg, fault>>

DeqErase(t) ==
  /\ Running(t, "deq4")
  /\ IF arg[t] \in Members(runq)
     THEN /\ dequeue_se(runq, update_vruntime_runq(vrun, runq, rb_leftmost, arg[t]),
                        rb_leftmost, arg[t])
          /\ UNCHANGED fault
     ELSE Broken("corrupt") /\ UNCHANGED rqVars    \* rb_erase of an unlinked node
  /\ Call(t, AfterDequeue(t), NoTask)
  /\ UNCHANGED <<tasklist, state, wqVars, current, yield_task, rtVars, oneshot>>

(* enqueue_se_to_runq(arg) in task context: points enq0 .. enq4.             *)

EnqLockWq(t) ==
  /\ Running(t, "enq0") /\ ~WqHeld
  /\ Goto(t, "enq1")
  /\ UNCHANGED <<tasklist, state, rqVars, wqVars, current, yield_task, rtVars, oneshot, arg, fault>>

\* Mutant: the removed node keeps its next pointer and stays linked.
WqKept(t) == wq

\* Unlinking t.  Every prev pointer ever stored is the list head, so the head
\* skips to t's successor, over the nodes in front of t as well.
WqWithout(t) ==
  IF t \notin Listed THEN wq
  ELSE [first |-> wq.next[t], next |-> [wq.next EXCEPT ![t] = NoTask],
        prev |-> [u \in Tasks |-> u # t /\ (wq.prev[u] \/ u = wq.next[t])]]

\* How remove_from_wq(t) goes wrong: it walks in a circle, or writes through NULL.
RemoveFault(t) ==
  IF t \notin Listed /\ Circular THEN "loop"
  ELSE IF t \in Listed /\ ~wq.prev[t] THEN "corrupt" ELSE "none"

remove_from_wq(t) ==
  /\ Running(t, "enq1")
  /\ wq' = WqWithout(arg[t])
  /\ fault' = RemoveFault(arg[t])
  /\ Goto(t, "enq2")
  /\ UNCHANGED <<tasklist, state, rqVars, temp, current, yield_task, rtVars, oneshot, arg>>

EnqState(t) ==
  /\ Running(t, "enq2")
  /\ state' = [state EXCEPT ![arg[t]] = "RUNNING"]
  /\ Goto(t, "enq3")
  /\ UNCHANGED <<tasklist, rqVars, wqVars, current, yield_task, rtVars, oneshot, arg, fault>>

EnqLockRq(t) ==
  /\ Running(t, "enq3") /\ ~RqHeld
  /\ Goto(t, "enq4")
  /\ UNCHANGED <<tasklist, state, rqVars, wqVars, current, yield_task, rtVars, oneshot, arg, fault>>

\* The body of the runq lock's section: fresh keys, then the insertion.
InsertInRunq(v, t) ==
  IF t \in Members(runq) \cup Rt \cup Oneshot
  THEN Broken("corrupt") /\ UNCHANGED rqVars       \* a linked node linked again
  ELSE /\ enqueue_se(runq, update_vruntime_runq(v, runq, rb_leftmost, t), rb_leftmost, t)
       /\ UNCHANGED fault

EnqInsert(t) ==
  /\ Running(t, "enq4")
  /\ InsertInRunq(vrun, arg[t])
  /\ Call(t, "run", NoTask)
  /\ UNCHANGED <<tasklist, state, wqVars, current, yield_task, rtVars, oneshot>>

-----------------------------------------------------------------------------
(* Shell commands *)

Typed(cmd) == Running(Shell, "run") /\ cmd \in Commands

\* forkyi(): the new task goes to the end of the task list.  With the table full
\* it returns NULL and every caller goes on with that pointer.
forkyi(t) ==
  /\ t \notin Created
  /\ IF Len(tasklist) = MAX_TASK
     THEN Broken("corrupt") /\ UNCHANGED <<tasklist, yield_task>>
     ELSE /\ tasklist' = Append(tasklist, t)
          /\ yield_task' = [yield_task EXCEPT ![t] = current]
          /\ UNCHANGED fault

create_cfs_task(t) ==
  /\ Typed("cfs") /\ t \in Cfs
  /\ forkyi(t)
  /\ Call(Shell, "enq0", t)
  /\ UNCHANGED <<state, rqVars, wqVars, current, rtVars, oneshot>>

create_rt_task(t) ==
  /\ Typed("rt") /\ t \in Rt
  /\ forkyi(t)
  /\ state' = [state EXCEPT ![t] = "RUNNING"]
  /\ UNCHANGED <<rqVars, wqVars, current, rtVars, oneshot, pc, arg>>

create_oneshot_task(t) ==
  /\ Typed("oneshot") /\ t \in Oneshot
  /\ forkyi(t)
  /\ state' = [state EXCEPT ![t] = "RUNNING"]
  /\ Call(Shell, "tmr", t)
  /\ UNCHANGED <<rqVars, wqVars, current, rtVars, oneshot>>

\* The commands look for the pid among the first cfs_task_num tasks of the list.
Found(t) == \E j \in 1..cfs_task_num : tasklist[j] = t

SleepCommand(t) ==
  /\ Typed("sleep") /\ t \in Targets
  /\ Found(t) /\ state[t] = "RUNNING"
  /\ Call(Shell, "deq0", t)
  /\ UNCHANGED <<tasklist, state, rqVars, wqVars, current, yield_task, rtVars, oneshot, fault>>

\* Mutant: the state check is missing.
RunCommandUnchecked(t) ==
  /\ Typed("run") /\ t \in Targets /\ Found(t)
  /\ Call(Shell, "enq0", t)
  /\ UNCHANGED <<tasklist, state, rqVars, wqVars, current, yield_task, rtVars, oneshot, fault>>

RunCommand(t) ==
  /\ Typed("run") /\ t \in Targets
  /\ Found(t) /\ state[t] = "WAITING"
  /\ Call(Shell, "enq0", t)
  /\ UNCHANGED <<tasklist, state, rqVars, wqVars, current, yield_task, rtVars, oneshot, fault>>

-----------------------------------------------------------------------------
(* Task bodies *)

\* A CFS task calls mdelay(); the worker has drained its queue and sleeps.
Sleep(t) ==
  /\ t \in Sleepers /\ Running(t, "run")
  /\ Call(t, "deq0", t)
  /\ UNCHANGED <<tasklist, state, rqVars, wqVars, current, yield_task, rtVars, oneshot, fault>>

\* create_oneshot_timer(), from delay() for the caller, from the shell for a new
\* one-shot task.
create_oneshot_timer(t) ==
  LET x == IF t = Shell THEN arg[t] ELSE t
  IN  /\ Running(t, "tmr")
      /\ oneshot[x] < MaxTimers
      /\ oneshot' = [oneshot EXCEPT ![x] = @ + 1]
      /\ Call(t, IF t = Shell THEN "run" ELSE "dyld", NoTask)
      /\ UNCHANGED <<tasklist, state, rqVars, wqVars, current, yield_task, rtVars, fault>>

\* Mutants: the state of yield_task is not looked at; the fallback is idle's own
\* yield_task.
YieldAnyway(y) == y
YieldPastIdle(y) == IF state[y] = "RUNNING" THEN y ELSE yield_task[Idle]

\* Whom yieldyi() gives the CPU to, from task t with yield_task y.
YieldTo(y) == IF state[y] = "RUNNING" THEN y ELSE Idle

\* The end of delay(): drop a yield_task that sleeps, then yieldyi().
DelayYield(t) ==
  LET y == IF state[yield_task[t]] = "WAITING" THEN Idle ELSE yield_task[t]
  IN  /\ Running(t, "dyld")
      /\ yield_task' = [yield_task EXCEPT ![t] = y]
      /\ current' = YieldTo(y)
      /\ Goto(t, "run")
      /\ UNCHANGED <<tasklist, state, rqVars, wqVars, rtVars, oneshot, arg, fault>>

yieldyi(t) ==
  /\ Running(t, "yld")
  /\ current' = YieldTo(yield_task[t])
  /\ Goto(t, "run")
  /\ UNCHANGED <<tasklist, state, rqVars, wqVars, yield_task, rtVars, oneshot, arg, fault>>

\* rt_worker: done is cleared for the length of one job.
RtStart(t) ==
  /\ t \in Rt /\ Running(t, "run")
  /\ done' = [done EXCEPT ![t] = FALSE]
  /\ Goto(t, "work")
  /\ UNCHANGED <<tasklist, state, rqVars, wqVars, current, yield_task, preempted, missed, oneshot, arg, fault>>

RtFinish(t) ==
  /\ t \in Rt /\ Running(t, "work")
  /\ done' = [done EXCEPT ![t] = TRUE]
  /\ Goto(t, "yld")
  /\ UNCHANGED <<tasklist, state, rqVars, wqVars, current, yield_task, preempted, missed, oneshot, arg, fault>>

\* oneshot_worker does its work and yields.
OneshotWork(t) ==
  /\ t \in Oneshot /\ Running(t, "run")
  /\ Goto(t, "yld")
  /\ UNCHANGED <<tasklist, state, rqVars, wqVars, current, yield_task, rtVars, oneshot, arg, fault>>

-----------------------------------------------------------------------------
(* timer_irq(), one action for each kind of timer that can be the leftmost.  *)

Interruptible == fault = "none" /\ pc[current] \notin Quiet

\* SCHED_TIMER: an RT task is left alone.  Otherwise the leftmost entity is put
\* back in order and whoever is leftmost then gets the CPU.  With fewer than two
\* entities update_se() reads a key through a NULL node.  The handler takes no
\* lock: over a critical section it works on a tree in an unknown shape.
SchedIrq ==
  /\ Interruptible /\ current \notin Rt
  /\ IF Len(runq) < 2
     THEN Broken("null") /\ UNCHANGED <<rqVars, current>>
     ELSE /\ update_se(update_current(vrun))
          /\ current' = rb_leftmost'
          /\ fault' \in IF RqHeld THEN {"none", "corrupt"} ELSE {"none"}
  /\ UNCHANGED <<tasklist, state, wqVars, yield_task, rtVars, oneshot, pc, arg>>

\* RT and one-shot expiries charge a jiffy each without sorting the tree, and
\* the model lets them outnumber scheduling ticks: their number is bounded here.
KeysBounded == current \in CfsTasks => vrun[current] < MaxKey

\* The switch REALTIME_TIMER and ONESHOT_TIMER make to the timer's task.
SwitchTo(t) ==
  /\ current' = t
  /\ yield_task' = IF current = t THEN yield_task ELSE [yield_task EXCEPT ![t] = current]
  /\ preempted' = IF current \in Rt \ {t} THEN [preempted EXCEPT ![current] = TRUE] ELSE preempted

\* The miss is charged to the interrupted task, unless it was ever preempted.
missed_cnt(t) ==
  IF t \in Rt /\ ~done[t] /\ ~preempted'[t] /\ missed[t] < MaxMissed
  THEN [missed EXCEPT ![t] = @ + 1] ELSE missed

RtTimerIrq(t) ==
  /\ Interruptible /\ KeysBounded /\ t \in Rt \cap Created
  /\ SwitchTo(t)
  /\ missed' = missed_cnt(current)
  /\ vrun' = Rebase(update_current(vrun), Members(runq))
  /\ UNCHANGED <<tasklist, state, runq, rb_leftmost, wqVars, done, oneshot, pc, arg, fault>>

\* enqueue_se_to_runq() from the handler: it spins for both locks with
\* interrupts masked, forever if the interrupted code holds one.
WakeInIrq(t) ==
  IF WqHeld \/ RqHeld
  THEN Broken("hung") /\ UNCHANGED <<state, wq, rqVars>>
  ELSE IF RemoveFault(t) # "none"
  THEN Broken(RemoveFault(t)) /\ UNCHANGED <<state, wq, rqVars>>
  ELSE /\ wq' = WqWithout(t)
       /\ state' = [state EXCEPT ![t] = "RUNNING"]
       /\ InsertInRunq(update_current(vrun), t)

\* Mutant: the task is queued whatever its state.
OneshotWakesAnyway(t) ==
  /\ Interruptible /\ KeysBounded /\ oneshot[t] > 0
  /\ SwitchTo(t)
  /\ WakeInIrq(t)
  /\ oneshot' = [oneshot EXCEPT ![t] = @ - 1]
  /\ UNCHANGED <<tasklist, temp, done, missed, pc, arg>>

OneshotTimerIrq(t) ==
  /\ Interruptible /\ KeysBounded /\ oneshot[t] > 0
  /\ SwitchTo(t)
  /\ IF state[t] = "WAITING"
     THEN WakeInIrq(t)
     ELSE /\ vrun' = Rebase(update_current(vrun), Members(runq))
          /\ UNCHANGED <<state, wq, runq, rb_leftmost, fault>>
  /\ oneshot' = [oneshot EXCEPT ![t] = @ - 1]
  /\ UNCHANGED <<tasklist, temp, done, missed, pc, arg>>

-----------------------------------------------------------------------------
QueueStep(t) ==
  \/ DeqReadFirst(t) \/ DeqLockWq(t) \/ add_to_wq(t) \/ DeqState(t) \/ DeqLockRq(t) \/ DeqErase(t)
  \/ EnqLockWq(t) \/ remove_from_wq(t) \/ EnqState(t) \/ EnqLockRq(t) \/ EnqInsert(t)

\* What a task does by itself once it is running.
TaskStep(t) ==
  \/ QueueStep(t)
  \/ Sleep(t) \/ create_oneshot_timer(t) \/ DelayYield(t) \/ yieldyi(t)
  \/ RtStart(t) \/ RtFinish(t) \/ OneshotWork(t)

Command(t) ==
  \/ create_cfs_task(t) \/ create_rt_task(t) \/ create_oneshot_task(t)
  \/ SleepCommand(t) \/ RunCommand(t)

Next ==
  \/ \E t \in Tasks : TaskStep(t)
  \/ \E t \in Tasks : Command(t)
  \/ SchedIrq
  \/ \E t \in Tasks : RtTimerIrq(t) \/ OneshotTimerIrq(t)

Spec == Init /\ [][Next]_vars

\* Timers expire; interrupts are at least MIN_TIME_INT apart, so a task that gets
\* the CPU again and again gets on with its code.  The operator may stop typing.
Fairness ==
  /\ \A t \in Tasks : SF_vars(TaskStep(t))
  /\ WF_vars(SchedIrq)
  /\ \A t \in Tasks : WF_vars(OneshotTimerIrq(t))

FairSpec == Spec /\ Fairness

\* The same with periodic RT timers that go on expiring.
RtFairSpec == FairSpec /\ \A t \in Rt : WF_vars(RtTimerIrq(t))

-----------------------------------------------------------------------------
(* Properties *)

Pcs == {"run", "tmr", "dyld", "yld", "work",
        "deq0", "deqr", "deq1", "deq2", "deq3", "deq4", "enq0", "enq1", "enq2", "enq3", "enq4"}
DeqPcs == {"deq0", "deqr", "deq1", "deq2", "deq3", "deq4"}
EnqPcs == {"enq0", "enq1", "enq2", "enq3", "enq4"}

\* Every field has the type its declaration gives it (struct task_struct,
\* struct cfs_rq, struct wait_queue).
TypeOK ==
  /\ tasklist \in Seq(Tasks) /\ runq \in Seq(CfsTasks)
  /\ wq \in [first : CfsTasks \cup {NoTask}, next : [Tasks -> CfsTasks \cup {NoTask}],
            prev : [Tasks -> BOOLEAN]]
  /\ temp \in [Tasks -> CfsTasks \cup {NoTask}]
  /\ state \in [Tasks -> {"NONE", "RUNNING", "WAITING"}]
  /\ rb_leftmost \in CfsTasks \cup {NoTask}
  /\ vrun \in [CfsTasks -> Nat]
  /\ current \in Tasks
  /\ yield_task \in [Tasks -> Tasks \cup {NoTask}]
  /\ done \in [Rt -> BOOLEAN] /\ preempted \in [Rt -> BOOLEAN]
  /\ missed \in [Rt -> 0..MaxMissed]
  /\ oneshot \in [Tasks -> 0..MaxTimers]
  /\ pc \in [Tasks -> Pcs]
  /\ arg \in [Tasks -> Tasks \cup {NoTask}]
  /\ fault \in {"none", "null", "corrupt", "hung", "loop"}

\* No sequence of commands, delays and interrupts links a node twice, erases an
\* unlinked one, leaves the tick without a second task to look at or spins in the
\* handler (enqueue_se_to_runq, dequeue_se_to_wq, update_se, timer_irq).
NoFault == fault = "none"

InTransit(t) == \E u \in Tasks : arg[u] = t /\ pc[u] \in DeqPcs \cup EnqPcs

NoDuplicates(q) == \A i, j \in 1..Len(q) : i # j => q[i] # q[j]

\* A CFS task is in the run queue, once, exactly if its state says so, except while
\* a queue operation on it is under way (state, enqueue_se and dequeue_se are
\* separate writes).
QueuesAgree ==
  /\ NoDuplicates(runq)
  /\ \A t \in CfsTasks \cap Created : ~InTransit(t) =>
       (t \in Members(runq) <=> state[t] = "RUNNING")

\* A task that was woken has left the wait list and does not come back to it until
\* it sleeps again (remove_from_wq, add_to_wq).
OnlyWaitersListed ==
  \A t \in CfsTasks \cap Created : ~InTransit(t) /\ t \in Listed => state[t] = "WAITING"

\* A task that sleeps is on the wait list, whoever went to sleep before it and woke
\* up since (dequeue_se_to_wq, add_to_wq, remove_from_wq).
WaitersListed ==
  \A t \in CfsTasks \cap Created : ~InTransit(t) /\ state[t] = "WAITING" => t \in Listed

\* The cached leftmost node is the first of the in-order walk, although keys
\* change in place and the tree is not kept sorted (rb_leftmost in enqueue_se,
\* dequeue_se).
LeftmostCached == Len(runq) > 0 /\ rb_leftmost = runq[1]

\* The CPU never goes to a task that is asleep or was never started: whoever a
\* switch gives it to is queued, or is an RT or one-shot task (schedule, yieldyi,
\* timer_irq).
SwitchesToRunnable ==
  [][current' # current =>
       current' \in Members(runq') \cup ((Rt \cup Oneshot) \cap Members(tasklist'))]_vars

\* Once no RT timer expires any more, every queued task gets the CPU again and
\* again, whatever the keys: the rounding in update_vruntime_runq, the in-place
\* updates and jiffies charged to tasks that are not leftmost do not starve it
\* (update_current, update_se, schedule).
RtTimersStop == <>[][\A t \in Rt : ~RtTimerIrq(t)]_vars
NoStarvation ==
  RtTimersStop => \A t \in CfsTasks : []<>(current = t \/ t \notin Members(runq))

\* A task that called mdelay() runs again (delay, create_oneshot_timer,
\* timer_irq's ONESHOT_TIMER case).
DelayEnds == \A t \in Cfs : (state[t] = "WAITING") ~> (state[t] = "RUNNING")

\* Once no RT timer expires any more, RT tasks that finish their jobs and yield
\* leave the CPU to CFS tasks (timer_irq's SCHED_TIMER case, yieldyi).
CfsResumes == RtTimersStop => []<>(current \in CfsTasks)

\* An RT timer that expires while its task has not finished the previous job is
\* counted as a miss of that task (timer_irq's REALTIME_TIMER case).
MissCounted ==
  [][\A t \in Rt : RtTimerIrq(t) /\ ~done[t] /\ missed[t] < MaxMissed
                     => missed'[t] = missed[t] + 1]_vars

\* The interrupt handler never spins for a lock that interrupted code holds
\* (enqueue_se_to_runq called from timer_irq).
NoSpinInIrq == fault # "hung"
=============================================================================
