----------------------------- MODULE TimerQueue -----------------------------
(***************************************************************************)
(* What the timers of one CPU promise (core/ktimer.c, timer_irq of         *)
(* core/timer.c), without the red-black tree: a queue of timers in the     *)
(* order in which they will be served.  KTimer implements it.              *)
(*                                                                         *)
(* An interrupt is a step; the time between two of them is what the load   *)
(* register held.                                                          *)
(***************************************************************************)
EXTENDS Integers, Sequences

CONSTANTS
  SchedTimer,      \* the scheduler's timer
  RtTimers,        \* timers of the realtime tasks
  Oneshots,        \* one-shot timers
  Intervals,       \* intervals of the realtime tasks
  Delays,          \* the delays of one-shot timers
  TICK,            \* interval of the scheduler's timer
  FirstLoads,      \* what the load register may hold at boot
  MIN_TIME_INT,
  WIDTH            \* tick counts are unsigned, modulo WIDTH

\* The values the constants may have.
QueueConstants ==
  /\ SchedTimer \notin RtTimers \cup Oneshots /\ RtTimers \cap Oneshots = {}
  /\ WIDTH \in Nat /\ TICK \in 1..(WIDTH - 1) /\ MIN_TIME_INT \in 1..TICK
  /\ FirstLoads \subseteq 1..TICK
  /\ Intervals \cup Delays \subseteq 1..(WIDTH - 1)

VARIABLES
  queue,   \* the armed timers, each with its tc and intvl
  load     \* PRIV_TMR_LD

queueVars == <<queue, load>>

Timer(n, ticks) == [timer |-> n, tc |-> ticks, intvl |-> ticks]
Armed == {queue[i].timer : i \in 1..Len(queue)}

\* Where insert_timer() puts a timer: how many others come before it.
Place(q, ticks) ==
  {k \in 0..Len(q) : /\ \A i \in 1..k : q[i].tc <= ticks
                     /\ \A i \in (k + 1)..Len(q) : q[i].tc > ticks}

\* A queue with a timer behind the first k.
Insert(q, k, e) == SubSeq(q, 1, k) \o <<e>> \o SubSeq(q, k + 1, Len(q))

QueueInit == queue = <<Timer(SchedTimer, TICK)>> /\ load \in FirstLoads

\* create_rt_timer() and create_oneshot_timer(): the load register is not
\* written.
Arm(n, ticks) ==
  /\ UNCHANGED load /\ n \notin Armed
  /\ \E k \in Place(queue, ticks) : queue' = Insert(queue, k, Timer(n, ticks))

\* What is left of a timer's ticks when the load has run out.
Remaining(ticks) ==
  LET temp == (ticks - load + WIDTH) % WIDTH
  IN  IF temp < MIN_TIME_INT THEN MIN_TIME_INT ELSE temp

\* The timers after the first, and the first, which starts anew when its task is
\* done, as update_timer_tree() leaves them.
Others(q) == [i \in 1..(Len(q) - 1) |-> [q[i + 1] EXCEPT !.tc = Remaining(@)]]
Renewed(first, done) ==
  [first EXCEPT !.tc = IF done THEN first.intvl ELSE Remaining(@)]

\* timer_irq() for the first of the timers q, whose task is done or still at its
\* job (that of a one-shot timer is always done).
Serve(q, done) ==
  LET served == Renewed(q[1], done)
      others == Others(q)
  IN  /\ served.timer \in Oneshots => done
      /\ \E k \in Place(others, served.tc) :
           LET updated == Insert(others, k, served)
           IN  /\ load' = updated[1].tc   \* written before a one-shot timer is taken out
               /\ queue' = IF served.timer \in Oneshots THEN others ELSE updated

Expire == \E done \in BOOLEAN : Serve(queue, done)

QueueNext ==
  \/ \E n \in RtTimers, ticks \in Intervals : Arm(n, ticks)
  \/ \E n \in Oneshots, ticks \in Delays : Arm(n, ticks)
  \/ Expire

QueueSpec == QueueInit /\ [][QueueNext]_queueVars

\* The counter of the private timer always runs out.
LiveQueueSpec == QueueSpec /\ WF_queueVars(Expire)

-----------------------------------------------------------------------------
(* Properties *)

\* "All other nodes are already sorted" (update_timer_tree): timers are served in
\* the order of the ticks they have left.
InTurn == \A i, j \in 1..Len(queue) : i < j => queue[i].tc <= queue[j].tc

\* When the load runs out no timer is overdue, so the unsigned subtraction does
\* not wrap, and none waits longer than its interval (update_timer_tree, the load
\* register in timer_irq).
NoneOverdue == \A i \in 1..Len(queue) : load <= queue[i].tc /\ queue[i].tc <= queue[i].intvl

\* Whatever is armed or expires, the scheduler's timer stays armed and the next
\* interrupt is at most one tick away (timer_irq, create_sched_timer).
TickKept == SchedTimer \in Armed /\ load \in 1..TICK

\* Every timer of q but the first is nearer in r: fewer ticks are left or, when they
\* cannot get fewer, fewer timers are before it.
Nearer(q, r) ==
  \A i \in 2..Len(q) : \E j \in 1..Len(r) :
    /\ r[j].timer = q[i].timer
    /\ r[j].tc < q[i].tc \/ (r[j].tc = q[i].tc /\ j = i - 1)

\* A step that arms no timer, which is an interrupt, brings every timer but the one
\* it serves nearer.  So no timer that is never done (update_timer_tree puts it
\* MIN_TIME_INT away) shuts out another.
NoneOvertaken == [][Len(queue') <= Len(queue) => Nearer(queue, queue')]_queueVars

\* Every one-shot timer expires, though realtime tasks and the scheduler's owner
\* may never be done (timer_irq).
OneshotsEnd == \A n \in Oneshots : n \in Armed ~> n \notin Armed
=============================================================================
