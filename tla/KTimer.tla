------------------------------- MODULE KTimer -------------------------------
(***************************************************************************)
(* The timers of one CPU (core/ktimer.c) and the part of timer_irq() that  *)
(* runs them (core/timer.c): a red-black tree ordered by the ticks each    *)
(* timer has left, its cached leftmost node, the load register of the      *)
(* private timer and the ring of preallocated one-shot timers.             *)
(*                                                                         *)
(* The tree is the one of core/rbtree.c, node by node.  Time passes one    *)
(* unit at a time; the interrupt is taken when the counter, which every    *)
(* write of the load register restarts, runs out.  What an expired timer   *)
(* does to the run queue is in Sched.                                      *)
(***************************************************************************)
EXTENDS Rbtree, FiniteSets

CONSTANTS
  SchedTimer,       \* the scheduler's timer
  RtTimers,         \* timers of the realtime tasks
  RtIntvl,          \* their intervals
  OneshotTimers,    \* the ring, a sequence: MAX_ONESHOT_TIMER_NUM long
  Sleepers,         \* tasks that call mdelay(), or are one-shot tasks
  Delays,           \* the delays they ask for
  TICK,             \* interval of the scheduler's timer
  FirstLoads,       \* what the load register may hold at boot
  MIN_TIME_INT,
  WIDTH,            \* tick counts are unsigned, modulo WIDTH
  IrqInInsert       \* TRUE: the interrupt may come while a one-shot is linked

Slots == {OneshotTimers[i] : i \in 1..Len(OneshotTimers)}

ASSUME KTimerAssumption ==
  /\ Nodes = {SchedTimer} \cup RtTimers \cup Slots
  /\ RtIntvl \in [RtTimers -> 1..(WIDTH - 1)]
  /\ TICK \in 1..(WIDTH - 1) /\ Delays \subseteq 1..(WIDTH - 1) /\ FirstLoads \subseteq 1..TICK
  /\ MIN_TIME_INT \in 1..TICK
  /\ IrqInInsert \in BOOLEAN

VARIABLES
  tree, leftmost,   \* struct timer_root
  tc, intvl,        \* of every timer
  pt,               \* the task of a one-shot timer, or Null
  idx,              \* oneshot_timer_idx, from 1
  rt,               \* a realtime task: idle, released, or running (done = 0)
  load,             \* PRIV_TMR_LD
  age,              \* ticks since it was written
  link,             \* where the one-shot timer being created goes, or Null
  left              \* history: ticks until a one-shot timer should expire

timerVars == <<tree, leftmost, tc, intvl, pt, idx, rt, load, age, link, left>>

\* The nodes from n on.
RECURSIVE From(_, _)
From(t, n) == IF n = Null THEN {} ELSE {n} \cup From(t, rb_next(t, n))
Armed == From(tree, rb_first(tree))

-----------------------------------------------------------------------------
(* insert_timer() and del_timer()                                            *)

\* Mutant: equal tick counts go left.
FindLinkBefore(t, ticks, n) ==
  LET RECURSIVE Down(_, _)
      Down(at, first) ==
        LET s == IF ticks[at] >= ticks[n] THEN "L" ELSE "R"
            f == first /\ s = "L"
        IN  IF t.ch[at][s] = Null THEN [node |-> n, parent |-> at, side |-> s, first |-> f]
            ELSE Down(t.ch[at][s], f)
  IN  IF t.root = Null THEN [node |-> n, parent |-> Null, side |-> "L", first |-> TRUE]
      ELSE Down(t.root, TRUE)

\* The bottom of the tree: the link a timer goes to, and whether every turn was
\* to the left.
FindLink(t, ticks, n) ==
  LET RECURSIVE Down(_, _)
      Down(at, first) ==
        LET s == IF ticks[at] > ticks[n] THEN "L" ELSE "R"
            f == first /\ s = "L"
        IN  IF t.ch[at][s] = Null THEN [node |-> n, parent |-> at, side |-> s, first |-> f]
            ELSE Down(t.ch[at][s], f)
  IN  IF t.root = Null THEN [node |-> n, parent |-> Null, side |-> "L", first |-> TRUE]
      ELSE Down(t.root, TRUE)

\* A timer root with a timer put at a link.
Put(root, at) ==
  [tree |-> rb_insert_color(rb_link_node(root.tree, at.node, at.parent, at.side), at.node),
   leftmost |-> IF at.first THEN at.node ELSE root.leftmost]

insert_timer(root, ticks, n) == Put(root, FindLink(root.tree, ticks, n))

del_timer(root, n) ==
  [tree |-> rb_erase(root.tree, n),
   leftmost |-> IF root.leftmost = n THEN rb_next(root.tree, n) ELSE root.leftmost]

Root == [tree |-> tree, leftmost |-> leftmost]

-----------------------------------------------------------------------------
(* Creation                                                                  *)

\* init_timertree(), init_oneshot_timers(), create_sched_timer(), and
\* init_timer() or timer_enable_secondary().
TimerInit ==
  LET ticks == [n \in Nodes |-> IF n = SchedTimer THEN TICK ELSE 0]
      root == insert_timer([tree |-> RB_ROOT, leftmost |-> Null], ticks, SchedTimer)
  IN  /\ tree = root.tree /\ leftmost = root.leftmost
      /\ tc = ticks /\ intvl = ticks
      /\ pt = [n \in Slots |-> Null]
      /\ idx = 1
      /\ rt = [n \in RtTimers |-> "idle"]
      /\ load \in FirstLoads /\ age = 0
      /\ link = Null
      /\ left = [n \in Slots |-> 0]

\* create_rt_timer(), called with interrupts masked.
create_rt_timer(n) ==
  LET ticks == [tc EXCEPT ![n] = RtIntvl[n]]
      root == insert_timer(Root, ticks, n)
  IN  /\ n \notin Armed /\ link = Null
      /\ tc' = ticks /\ intvl' = [intvl EXCEPT ![n] = RtIntvl[n]]
      /\ tree' = root.tree /\ leftmost' = root.leftmost
      /\ UNCHANGED <<pt, idx, rt, load, age, link, left>>

\* create_oneshot_timer() up to the last turn of insert_timer().  A task that
\* waits for its timer cannot ask for another.
create_oneshot_timer(p, d) ==
  LET n == OneshotTimers[idx]
      ticks == [tc EXCEPT ![n] = d]
  IN  /\ link = Null /\ \A m \in Slots : pt[m] # p
      /\ pt' = [pt EXCEPT ![n] = p]
      /\ tc' = ticks /\ intvl' = [intvl EXCEPT ![n] = d]
      /\ left' = [left EXCEPT ![n] = d]
      /\ link' = FindLink(tree, ticks, n)
      /\ UNCHANGED <<tree, leftmost, idx, rt, load, age>>

\* Mutant: the index stays where it is.
LinkSameSlot ==
  LET root == Put(Root, link)
  IN  /\ link # Null
      /\ tree' = root.tree /\ leftmost' = root.leftmost
      /\ link' = Null
      /\ UNCHANGED <<tc, intvl, pt, idx, rt, load, age, left>>

\* The rest of it: the timer is linked and the index moves on round the ring.
LinkOneshot ==
  LET root == Put(Root, link)
  IN  /\ link # Null
      /\ tree' = root.tree /\ leftmost' = root.leftmost
      /\ idx' = IF idx = Len(OneshotTimers) THEN 1 ELSE idx + 1
      /\ link' = Null
      /\ UNCHANGED <<tc, intvl, pt, rt, load, age, left>>

-----------------------------------------------------------------------------
(* Time, the interrupt, and the realtime tasks                               *)

Elapse ==
  /\ age < load /\ (link = Null \/ IrqInInsert)
  /\ age' = age + 1
  /\ left' = [n \in Slots |-> IF pt[n] = Null THEN 0 ELSE left[n] - 1]
  /\ UNCHANGED <<tree, leftmost, tc, intvl, pt, idx, rt, load, link>>

\* The field done of the task of a timer.  Realtime tasks clear it while they are
\* at their job; idle, which the scheduler's timer may belong to, never sets it.
Done(n) ==
  IF n = SchedTimer THEN BOOLEAN ELSE {~(n \in RtTimers /\ rt[n] = "running")}

\* What update_timer_tree() leaves of a timer's ticks: the leftmost timer starts
\* anew unless its task is still at it.
Remaining(n, elapsed, done) ==
  LET temp == (tc[n] - elapsed + WIDTH) % WIDTH
  IN  IF n = leftmost /\ done THEN intvl[n]
      ELSE IF temp < MIN_TIME_INT THEN MIN_TIME_INT ELSE temp

\* Mutant: the timer that expired stays where it is.
SubtractOnly(elapsed, done) ==
  [root |-> Root,
   tc |-> [n \in Nodes |-> IF n \in From(tree, leftmost) THEN Remaining(n, elapsed, done) ELSE tc[n]]]

\* update_timer_tree(): the walk from the cached leftmost node, and the leftmost
\* timer alone taken out and put back.
update_timer_tree(elapsed, done) ==
  LET walk == From(tree, leftmost)
      ticks == [n \in Nodes |-> IF n \in walk THEN Remaining(n, elapsed, done) ELSE tc[n]]
  IN  [root |-> insert_timer(del_timer(Root, leftmost), ticks, leftmost), tc |-> ticks]

\* Mutant: the timer that is leftmost after the update.
ServedAfter(new) == new.root.leftmost

\* The timer the interrupt is for was leftmost before the update.
Served(new) == leftmost

\* timer_irq(): the elapsed time is the load register's, the next load is the
\* new leftmost timer's.
\* A one-shot timer is taken out and its task woken only after that.
timer_irq ==
  /\ age = load /\ (link = Null \/ IrqInInsert)
  /\ \E done \in Done(leftmost) :
       LET new == update_timer_tree(load, done)
           pct == Served(new)
           root == IF pct \in Slots THEN del_timer(new.root, pct) ELSE new.root
       IN  /\ load' = new.tc[new.root.leftmost] /\ age' = 0
           /\ tc' = new.tc
           /\ tree' = root.tree /\ leftmost' = root.leftmost
           /\ pt' = IF pct \in Slots THEN [pt EXCEPT ![pct] = Null] ELSE pt
           /\ left' = IF pct \in Slots THEN [left EXCEPT ![pct] = 0] ELSE left
           /\ rt' = IF pct \in RtTimers /\ rt[pct] = "idle" THEN [rt EXCEPT ![pct] = "released"]
                    ELSE rt
           /\ UNCHANGED <<intvl, idx, link>>

\* rt_worker1 and rt_worker2: done is 0 while the task is at its job.
RtBegin(n) ==
  /\ rt[n] = "released" /\ rt' = [rt EXCEPT ![n] = "running"]
  /\ UNCHANGED <<tree, leftmost, tc, intvl, pt, idx, load, age, link, left>>

RtEnd(n) ==
  /\ rt[n] = "running" /\ rt' = [rt EXCEPT ![n] = "idle"]
  /\ UNCHANGED <<tree, leftmost, tc, intvl, pt, idx, load, age, link, left>>

-----------------------------------------------------------------------------
TimerNext ==
  \/ \E n \in RtTimers : create_rt_timer(n) \/ RtBegin(n) \/ RtEnd(n)
  \/ \E p \in Sleepers, d \in Delays : create_oneshot_timer(p, d)
  \/ LinkOneshot \/ Elapse \/ timer_irq

TimerSpec == TimerInit /\ [][TimerNext]_timerVars

-----------------------------------------------------------------------------
(* Properties *)

\* The timer root and the timers range over what struct timer_root and struct
\* timer_struct declare.
TimerTypeOK ==
  /\ leftmost \in Nodes /\ tree.root \in Nodes
  /\ tc \in [Nodes -> 0..(WIDTH - 1)] /\ intvl \in [Nodes -> 0..(WIDTH - 1)]
  /\ pt \in [Slots -> Sleepers \cup {Null}]
  /\ idx \in 1..Len(OneshotTimers)
  /\ rt \in [RtTimers -> {"idle", "released", "running"}]
  /\ load \in 1..(WIDTH - 1) /\ age \in 0..load

\* create_oneshot_timer() never takes a timer that is still in the tree, although
\* it does not look (the ring of MAX_ONESHOT_TIMER_NUM).
SlotFree == link # Null => link.node \notin Armed

\* A delay is late by no more than the other timers may put it back: each that is
\* due at the same time costs one MIN_TIME_INT.  As time passes, every delay ends,
\* whatever the realtime tasks do (update_timer_tree, timer_irq).
MaxLate == MIN_TIME_INT * Cardinality(Nodes)
NotLate == \A n \in Armed \cap Slots : left[n] >= -MaxLate

\* The tree is a queue of timers in the order of rb_next: its cached leftmost node
\* is the first of the queue, and no step of the code moves another timer
\* (insert_timer, del_timer, update_timer_tree, timer_irq).
RECURSIVE InOrder(_)
InOrder(n) ==
  IF n = Null THEN <<>>
  ELSE InOrder(tree.ch[n]["L"]) \o <<[timer |-> n, tc |-> tc[n], intvl |-> intvl[n]]>>
       \o InOrder(tree.ch[n]["R"])
Queue == INSTANCE TimerQueue WITH
  queue <- InOrder(tree.root), Oneshots <- Slots, Intervals <- {RtIntvl[n] : n \in RtTimers}
Implements == Queue!QueueSpec
ASSUME KTimerQueueAssumption == Queue!QueueConstants

\* "All other nodes are already sorted" (update_timer_tree): moving the leftmost
\* timer alone keeps the tree in the order of the ticks left.
InTurn == Queue!InTurn

\* When the load runs out no timer is overdue, so the unsigned subtraction in
\* update_timer_tree() does not wrap, and none waits longer than its interval.
NoneOverdue == Queue!NoneOverdue

\* An interrupt brings every timer it does not serve nearer, so no timer that is
\* never done shuts out another (update_timer_tree, insert_timer).
NoneOvertaken ==
  [][age = load /\ age' = 0 => Queue!Nearer(InOrder(tree.root), InOrder(tree.root)')]_timerVars

\* When mdelay() ends, the time asked for has passed but for one scheduler tick
\* (create_oneshot_timer, update_timer_tree).
AlmostKept ==
  [][\A n \in Slots : pt[n] # Null /\ pt'[n] = Null => left[n] <= TICK]_timerVars

\* "Nonblocking delay current task for ticks" (delay): it is not over before.
DelayKept == [][\A n \in Slots : pt[n] # Null /\ pt'[n] = Null => left[n] <= 0]_timerVars
=============================================================================
