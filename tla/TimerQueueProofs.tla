-------------------------- MODULE TimerQueueProofs --------------------------
(***************************************************************************)
(* The timer queue never overruns: while every interval and delay is at    *)
(* least a tick, timers stay in order, none is overdue when the interrupt  *)
(* comes, the scheduler's tick is kept, and no timer is overtaken for ever *)
(* by one whose task is never done.  For any number of timers, any         *)
(* intervals and any order of creations and interrupts.                    *)
(*                                                                         *)
(* QueueInv is inductive.  NoneOverdue alone is not: that the next load is *)
(* no longer than any timer's ticks takes the order, and that a timer      *)
(* armed while a load is running is not overdue at its end takes TickKept. *)
(***************************************************************************)
EXTENDS TimerQueue, SequenceTheorems, TLAPS

\* Every mdelay(), create_oneshot_task() and create_rt_task() of the kernel asks
\* for 10 ms or more, and create_sched_timer() for 10 (odev.c:236, sched.c:51).
LongEnough == \A ticks \in Intervals \cup Delays : ticks >= TICK

USE DEF QueueConstants

Timers == {SchedTimer} \cup RtTimers \cup Oneshots
Ticks == 1..(WIDTH - 1)
Entries == [timer : Timers, tc : Ticks, intvl : Ticks]

\* Ticks are neither rounded below MIN_TIME_INT nor longer than the interval, which
\* is a tick or more, the scheduler's exactly one.
Bounded ==
  \A i \in 1..Len(queue) :
    /\ MIN_TIME_INT <= queue[i].tc /\ TICK <= queue[i].intvl
    /\ queue[i].timer = SchedTimer => queue[i].intvl = TICK

QueueInv ==
  queue \in Seq(Entries) /\ Bounded /\ InTurn /\ NoneOverdue /\ TickKept

-----------------------------------------------------------------------------
\* A sequence with one more member (insert_timer).
LEMMA InsertMembers ==
  ASSUME QueueConstants, NEW q \in Seq(Entries), NEW e \in Entries, NEW k \in 0..Len(q)
  PROVE  /\ Insert(q, k, e) \in Seq(Entries)
         /\ Len(Insert(q, k, e)) = Len(q) + 1
         /\ Insert(q, k, e)[k + 1] = e
         /\ \A i \in 1..k : Insert(q, k, e)[i] = q[i]
         /\ \A i \in (k + 2)..(Len(q) + 1) : Insert(q, k, e)[i] = q[i - 1]
<1> DEFINE a == SubSeq(q, 1, k)
           b == SubSeq(q, k + 1, Len(q))
           ae == a \o <<e>>
<1>1. /\ a \in Seq(Entries) /\ Len(a) = k /\ \A i \in 1..k : a[i] = q[i]
  OBVIOUS
<1>2. /\ b \in Seq(Entries) /\ Len(b) = Len(q) - k
      /\ \A i \in 1..(Len(q) - k) : b[i] = q[k + i]
  OBVIOUS
<1>3. Insert(q, k, e) = ae \o b
  BY DEF Insert
<1> HIDE DEF a, b
<1>4. /\ ae \in Seq(Entries) /\ Len(ae) = k + 1 /\ ae[k + 1] = e
      /\ \A i \in 1..k : ae[i] = q[i]
  BY <1>1
<1> HIDE DEF ae
<1>5. /\ ae \o b \in Seq(Entries) /\ Len(ae \o b) = Len(ae) + Len(b)
      /\ \A i \in 1..(Len(ae) + Len(b)) :
           (ae \o b)[i] = IF i <= Len(ae) THEN ae[i] ELSE b[i - Len(ae)]
  <2>1. ae \in Seq(Entries) /\ b \in Seq(Entries)
    BY <1>2, <1>4
  <2>2. ae \o b \in Seq(Entries) /\ Len(ae \o b) = Len(ae) + Len(b)
    BY <2>1
  <2>3. \A i \in 1..(Len(ae) + Len(b)) :
          (ae \o b)[i] = IF i <= Len(ae) THEN ae[i] ELSE b[i - Len(ae)]
    BY <2>1
  <2> QED
    BY <2>2, <2>3
<1>6. /\ Len(ae \o b) = Len(q) + 1 /\ \A i \in 1..(k + 1) : (ae \o b)[i] = ae[i]
      /\ \A i \in (k + 2)..(Len(q) + 1) : (ae \o b)[i] = b[i - (k + 1)]
  <2>1. Len(ae) = k + 1 /\ Len(b) = Len(q) - k /\ Len(q) \in Nat /\ k \in 0..Len(q)
    BY <1>2, <1>4
  <2>2. Len(ae) + Len(b) = Len(q) + 1
    BY <2>1
  <2>3. \A i \in 1..(k + 1) : i \in 1..(Len(q) + 1) /\ i <= k + 1
    BY <2>1
  <2>4. \A i \in (k + 2)..(Len(q) + 1) : i \in 1..(Len(q) + 1) /\ ~(i <= k + 1)
    BY <2>1
  <2>5. \A i \in 1..(Len(q) + 1) : (ae \o b)[i] = IF i <= k + 1 THEN ae[i] ELSE b[i - (k + 1)]
    BY <1>5, <2>1, <2>2
  <2> QED
    BY <1>5, <2>2, <2>3, <2>4, <2>5
<1>7. \A i \in (k + 2)..(Len(q) + 1) : (ae \o b)[i] = q[i - 1]
  <2> TAKE i \in (k + 2)..(Len(q) + 1)
  <2>1. i - (k + 1) \in 1..(Len(q) - k) /\ k + (i - (k + 1)) = i - 1
    OBVIOUS
  <2>2. b[i - (k + 1)] = q[k + (i - (k + 1))]
    BY <1>2, <2>1
  <2> QED
    BY <1>6, <2>1, <2>2
<1> QED
  BY <1>3, <1>4, <1>5, <1>6, <1>7

\* A timer put in its place leaves the queue in order (insert_timer).
LEMMA InsertedInOrder ==
  ASSUME QueueConstants, NEW q \in Seq(Entries), NEW e \in Entries, NEW k \in Place(q, e.tc),
         \A i, j \in 1..Len(q) : i < j => q[i].tc <= q[j].tc
  PROVE  \A i, j \in 1..(Len(q) + 1) :
           i < j => Insert(q, k, e)[i].tc <= Insert(q, k, e)[j].tc
<1> DEFINE new == Insert(q, k, e)
<1>1. /\ k \in 0..Len(q)
      /\ \A i \in 1..k : q[i].tc <= e.tc
      /\ \A i \in (k + 1)..Len(q) : q[i].tc > e.tc
  BY DEF Place
<1>2. /\ new[k + 1] = e
      /\ \A i \in 1..k : new[i] = q[i]
      /\ \A i \in (k + 2)..(Len(q) + 1) : new[i] = q[i - 1]
  <2>1. k \in 0..Len(q)
    BY <1>1
  <2> QED
    BY <2>1, InsertMembers
<1>3. e.tc \in Int /\ \A i \in 1..Len(q) : q[i].tc \in Int
  <2>1. \A i \in 1..Len(q) : q[i] \in Entries
    OBVIOUS
  <2> QED
    BY <2>1 DEF Entries, Ticks
<1> HIDE DEF new
<1> SUFFICES ASSUME NEW i \in 1..(Len(q) + 1), NEW j \in 1..(Len(q) + 1), i < j
             PROVE  new[i].tc <= new[j].tc
  BY DEF new
<1>4. CASE j <= k
  BY <1>1, <1>2, <1>4
<1>5. CASE j = k + 1
  BY <1>1, <1>2, <1>5
<1>6. CASE j >= k + 2
  <2>1. j - 1 \in (k + 1)..Len(q) /\ new[j] = q[j - 1]
    BY <1>1, <1>2, <1>6
  <2>2. CASE i <= k
    <3>1. q[i].tc <= q[j - 1].tc
      BY <1>1, <2>1, <2>2
    <3> QED
      BY <1>1, <1>2, <2>1, <2>2, <3>1
  <2>3. CASE i = k + 1
    BY <1>1, <1>2, <1>3, <2>1, <2>3
  <2>4. CASE i >= k + 2
    <3>1. i - 1 \in 1..Len(q) /\ j - 1 \in 1..Len(q) /\ i - 1 < j - 1 /\ new[i] = q[i - 1]
      BY <1>1, <1>2, <2>1, <2>4
    <3> QED
      BY <2>1, <3>1
  <2> QED
    BY <1>1, <2>2, <2>3, <2>4
<1> QED
  BY <1>1, <1>4, <1>5, <1>6

\* While the ticks are no fewer than the load, what is left of them is a plain
\* difference, and at least MIN_TIME_INT (update_timer_tree).
LEMMA RemainingBounds ==
  ASSUME QueueConstants, load \in 1..TICK, NEW t \in Ticks, load <= t, MIN_TIME_INT <= t
  PROVE  /\ Remaining(t) = IF t - load < MIN_TIME_INT THEN MIN_TIME_INT ELSE t - load
         /\ Remaining(t) \in Ticks /\ MIN_TIME_INT <= Remaining(t) /\ Remaining(t) <= t
         /\ Remaining(t) < t \/ (Remaining(t) = t /\ t = MIN_TIME_INT)
<1>1. t - load + WIDTH = (t - load) + WIDTH /\ t - load \in 0..(WIDTH - 1) /\ WIDTH \in Nat \ {0}
  BY DEF Ticks
<1>2. (t - load + WIDTH) % WIDTH = t - load
  <2>1. \A x \in 0..(WIDTH - 1) : (x + WIDTH) % WIDTH = x
    BY <1>1
  <2> QED
    BY <1>1, <2>1
<1> QED
  BY <1>1, <1>2 DEF Remaining, Ticks

\* Nothing else comes in, and nothing is lost (insert_timer).
LEMMA InsertCovers ==
  ASSUME QueueConstants, NEW q \in Seq(Entries), NEW e \in Entries, NEW k \in 0..Len(q)
  PROVE  /\ \A j \in 1..(Len(q) + 1) :
              Insert(q, k, e)[j] = e \/ \E i \in 1..Len(q) : Insert(q, k, e)[j] = q[i]
         /\ \A i \in 1..Len(q) : \E j \in 1..(Len(q) + 1) :
              Insert(q, k, e)[j] = q[i] /\ (i <= k => j = i)
<1> DEFINE new == Insert(q, k, e)
<1>1. /\ new[k + 1] = e
      /\ \A i \in 1..k : new[i] = q[i]
      /\ \A i \in (k + 2)..(Len(q) + 1) : new[i] = q[i - 1]
  <2>1. k \in 0..Len(q) /\ q \in Seq(Entries) /\ e \in Entries
    OBVIOUS
  <2> QED
    BY <2>1, InsertMembers
<1> HIDE DEF new
<1>2. ASSUME NEW j \in 1..(Len(q) + 1)
      PROVE  new[j] = e \/ \E i \in 1..Len(q) : new[j] = q[i]
  <2>1. CASE j <= k
    BY <1>1, <2>1
  <2>2. CASE j = k + 1
    BY <1>1, <2>2
  <2>3. CASE j >= k + 2
    <3>1. j - 1 \in 1..Len(q) /\ new[j] = q[j - 1]
      BY <1>1, <2>3
    <3> QED
      BY <3>1
  <2> QED
    BY <2>1, <2>2, <2>3
<1>3. ASSUME NEW i \in 1..Len(q)
      PROVE  \E j \in 1..(Len(q) + 1) : new[j] = q[i] /\ (i <= k => j = i)
  <2>1. CASE i <= k
    BY <1>1, <2>1
  <2>2. CASE i > k
    <3>1. i + 1 \in (k + 2)..(Len(q) + 1) /\ i + 1 - 1 = i
      BY <2>2
    <3>2. new[i + 1] = q[i]
      BY <1>1, <3>1
    <3> QED
      BY <2>2, <3>1, <3>2
  <2> QED
    BY <2>1, <2>2
<1> QED
  BY <1>2, <1>3 DEF new

\* What an interrupt leaves of a timer it does not serve: fewer ticks, or the fewest
\* (update_timer_tree).
LEMMA OthersMembers ==
  ASSUME QueueConstants, QueueInv
  PROVE  /\ Len(queue) \in Nat \ {0}
         /\ Others(queue) \in Seq(Entries) /\ Len(Others(queue)) = Len(queue) - 1
         /\ \A i \in 1..(Len(queue) - 1) :
              /\ Others(queue)[i].timer = queue[i + 1].timer
              /\ Others(queue)[i].intvl = queue[i + 1].intvl
              /\ Others(queue)[i].tc = Remaining(queue[i + 1].tc)
<1> DEFINE n == Len(queue) - 1
           others == Others(queue)
<1>1. Len(queue) \in Nat \ {0}
  <2>1. queue \in Seq(Entries) /\ \E i \in 1..Len(queue) : queue[i].timer = SchedTimer
    BY DEF QueueInv, TickKept, Armed
  <2> QED
    BY <2>1
<1>2. n \in Nat
  BY <1>1
<1>3. ASSUME NEW i \in 1..n
      PROVE  queue[i + 1] \in Entries /\ Remaining(queue[i + 1].tc) \in Ticks
  <2>1. i + 1 \in 1..Len(queue)
    BY <1>1
  <2>2. queue[i + 1] \in Entries /\ load <= queue[i + 1].tc /\ MIN_TIME_INT <= queue[i + 1].tc
        /\ load \in 1..TICK
    BY <2>1 DEF QueueInv, NoneOverdue, Bounded, TickKept
  <2>3. queue[i + 1].tc \in Ticks
    BY <2>2 DEF Entries
  <2> QED
    BY <2>2, <2>3, RemainingBounds
<1>4. others = [i \in 1..n |-> [queue[i + 1] EXCEPT !.tc = Remaining(queue[i + 1].tc)]]
  BY DEF Others
<1> HIDE DEF others, n
<1>5. \A i \in 1..n : /\ others[i] \in Entries
                      /\ others[i].timer = queue[i + 1].timer
                      /\ others[i].intvl = queue[i + 1].intvl
                      /\ others[i].tc = Remaining(queue[i + 1].tc)
  BY <1>3, <1>4 DEF Entries
<1>6. others \in [1..n -> Entries]
  BY <1>4, <1>5
<1>7. others \in Seq(Entries) /\ Len(others) = n
  BY <1>2, <1>6
<1> QED
  BY <1>1, <1>5, <1>7 DEF others, n

\* They stay in the order they are in: "All other nodes are already sorted"
\* (update_timer_tree).
LEMMA OthersInOrder ==
  ASSUME QueueConstants, QueueInv
  PROVE  /\ \A i, j \in 1..Len(Others(queue)) :
              i < j => Others(queue)[i].tc <= Others(queue)[j].tc
         /\ \A i \in 1..Len(Others(queue)) :
              /\ MIN_TIME_INT <= Others(queue)[i].tc
              /\ Others(queue)[i].tc <= queue[i + 1].tc
              /\ \/ Others(queue)[i].tc < queue[i + 1].tc
                 \/ Others(queue)[i].tc = queue[i + 1].tc /\ queue[i + 1].tc = MIN_TIME_INT
<1> DEFINE others == Others(queue)
<1>1. /\ Len(queue) \in Nat \ {0} /\ Len(others) = Len(queue) - 1
      /\ \A i \in 1..(Len(queue) - 1) : others[i].tc = Remaining(queue[i + 1].tc)
  BY OthersMembers
<1>2. /\ load \in 1..TICK
      /\ \A i \in 1..Len(queue) :
           queue[i].tc \in Ticks /\ load <= queue[i].tc /\ MIN_TIME_INT <= queue[i].tc
  <2>1. \A i \in 1..Len(queue) : queue[i] \in Entries
    BY DEF QueueInv
  <2> QED
    BY <2>1 DEF QueueInv, NoneOverdue, Bounded, TickKept, Entries
<1> HIDE DEF others
<1>3. ASSUME NEW i \in 1..Len(queue)
      PROVE  /\ Remaining(queue[i].tc)
                  = IF queue[i].tc - load < MIN_TIME_INT THEN MIN_TIME_INT ELSE queue[i].tc - load
             /\ MIN_TIME_INT <= Remaining(queue[i].tc) /\ Remaining(queue[i].tc) <= queue[i].tc
             /\ \/ Remaining(queue[i].tc) < queue[i].tc
                \/ Remaining(queue[i].tc) = queue[i].tc /\ queue[i].tc = MIN_TIME_INT
  BY <1>2, RemainingBounds
<1>4. ASSUME NEW i \in 1..Len(others), NEW j \in 1..Len(others), i < j
      PROVE  others[i].tc <= others[j].tc
  <2>1. i + 1 \in 1..Len(queue) /\ j + 1 \in 1..Len(queue) /\ i + 1 < j + 1
    BY <1>1, <1>4
  <2>2. queue[i + 1].tc <= queue[j + 1].tc
    BY <2>1 DEF QueueInv, InTurn
  <2>3. others[i].tc = Remaining(queue[i + 1].tc) /\ others[j].tc = Remaining(queue[j + 1].tc)
    BY <1>1
  <2>4. queue[i + 1].tc \in Int /\ queue[j + 1].tc \in Int /\ load \in Int
    BY <1>2, <2>1 DEF Ticks
  <2>5. /\ Remaining(queue[i + 1].tc) = IF queue[i + 1].tc - load < MIN_TIME_INT
             THEN MIN_TIME_INT ELSE queue[i + 1].tc - load
        /\ Remaining(queue[j + 1].tc) = IF queue[j + 1].tc - load < MIN_TIME_INT
             THEN MIN_TIME_INT ELSE queue[j + 1].tc - load
    BY <1>3, <2>1
  <2> DEFINE a == queue[i + 1].tc
             b == queue[j + 1].tc
             ra == Remaining(a)
             rb == Remaining(b)
  <2>6. /\ a \in Int /\ b \in Int /\ load \in Int /\ MIN_TIME_INT \in Int /\ a <= b
        /\ ra = IF a - load < MIN_TIME_INT THEN MIN_TIME_INT ELSE a - load
        /\ rb = IF b - load < MIN_TIME_INT THEN MIN_TIME_INT ELSE b - load
    BY <2>2, <2>4, <2>5
  <2> HIDE DEF a, b, ra, rb
  <2>7. ra <= rb
    BY <2>6
  <2> QED
    BY <2>3, <2>7 DEF a, b, ra, rb
<1>5. ASSUME NEW i \in 1..Len(others)
      PROVE  /\ MIN_TIME_INT <= others[i].tc /\ others[i].tc <= queue[i + 1].tc
             /\ \/ others[i].tc < queue[i + 1].tc
                \/ others[i].tc = queue[i + 1].tc /\ queue[i + 1].tc = MIN_TIME_INT
  <2>1. i + 1 \in 1..Len(queue) /\ others[i].tc = Remaining(queue[i + 1].tc)
    BY <1>1
  <2>2. /\ MIN_TIME_INT <= Remaining(queue[i + 1].tc)
        /\ Remaining(queue[i + 1].tc) <= queue[i + 1].tc
        /\ \/ Remaining(queue[i + 1].tc) < queue[i + 1].tc
           \/ Remaining(queue[i + 1].tc) = queue[i + 1].tc /\ queue[i + 1].tc = MIN_TIME_INT
    BY <1>3, <2>1
  <2> QED
    BY <2>1, <2>2
<1> QED
  BY <1>4, <1>5 DEF others

\* The timer that is served starts anew or is MIN_TIME_INT away (update_timer_tree).
LEMMA ServedMember ==
  ASSUME QueueConstants, QueueInv, NEW done \in BOOLEAN
  PROVE  /\ Renewed(queue[1], done) \in Entries
         /\ Renewed(queue[1], done).timer = queue[1].timer
         /\ Renewed(queue[1], done).intvl = queue[1].intvl
         /\ MIN_TIME_INT <= Renewed(queue[1], done).tc
         /\ Renewed(queue[1], done).tc <= queue[1].intvl
         /\ TICK <= queue[1].intvl
<1>1. 1 \in 1..Len(queue)
  BY OthersMembers
<1>2. /\ queue[1] \in Entries /\ load \in 1..TICK
      /\ load <= queue[1].tc /\ queue[1].tc <= queue[1].intvl
      /\ MIN_TIME_INT <= queue[1].tc /\ TICK <= queue[1].intvl
  BY <1>1 DEF QueueInv, NoneOverdue, Bounded, TickKept
<1>3. queue[1].tc \in Ticks /\ queue[1].intvl \in Ticks
  BY <1>2 DEF Entries
<1>4. /\ Remaining(queue[1].tc) \in Ticks /\ MIN_TIME_INT <= Remaining(queue[1].tc)
      /\ Remaining(queue[1].tc) <= queue[1].tc
  BY <1>2, <1>3, RemainingBounds
<1> DEFINE t == IF done THEN queue[1].intvl ELSE Remaining(queue[1].tc)
<1>5. t \in Ticks /\ MIN_TIME_INT <= t /\ t <= queue[1].intvl
  BY <1>2, <1>3, <1>4 DEF Ticks
<1>6. Renewed(queue[1], done) = [queue[1] EXCEPT !.tc = t]
  BY DEF Renewed
<1> HIDE DEF t
<1> QED
  BY <1>2, <1>5, <1>6 DEF Entries

-----------------------------------------------------------------------------
\* A timer armed while a load is running has a tick or more to go, and the load is
\* no longer than that (create_rt_timer, create_oneshot_timer).
LEMMA ArmInv ==
  ASSUME QueueConstants, LongEnough, QueueInv, NEW n \in RtTimers \cup Oneshots,
         NEW ticks \in Intervals \cup Delays, Arm(n, ticks)
  PROVE  QueueInv'
<1> DEFINE e == Timer(n, ticks)
<1>1. /\ e \in Entries /\ e.timer = n /\ e.tc = ticks /\ e.intvl = ticks
      /\ n # SchedTimer /\ TICK <= ticks /\ ticks \in Ticks
  BY DEF Timer, Entries, Timers, Ticks, LongEnough
<1>2. PICK k \in Place(queue, ticks) : queue' = Insert(queue, k, e)
  BY DEF Arm
<1> HIDE DEF e
<1>3. /\ queue \in Seq(Entries) /\ k \in 0..Len(queue) /\ k \in Place(queue, e.tc)
      /\ load' = load /\ load \in 1..TICK
      /\ \A i, j \in 1..Len(queue) : i < j => queue[i].tc <= queue[j].tc
  BY <1>1, <1>2 DEF QueueInv, InTurn, TickKept, Place, Arm
<1>4. queue' \in Seq(Entries) /\ Len(queue') = Len(queue) + 1
  BY <1>1, <1>2, <1>3, InsertMembers
<1>5. /\ \A j \in 1..Len(queue') : queue'[j] = e \/ \E i \in 1..Len(queue) : queue'[j] = queue[i]
      /\ \A i \in 1..Len(queue) : \E j \in 1..Len(queue') : queue'[j] = queue[i]
  <2>1. /\ \A j \in 1..(Len(queue) + 1) : \/ Insert(queue, k, e)[j] = e
                                            \/ \E i \in 1..Len(queue) : Insert(queue, k, e)[j] = queue[i]
        /\ \A i \in 1..Len(queue) : \E j \in 1..(Len(queue) + 1) :
             Insert(queue, k, e)[j] = queue[i] /\ (i <= k => j = i)
    BY <1>1, <1>3, InsertCovers
  <2> QED
    BY <1>2, <1>4, <2>1
<1>6. InTurn'
  <2>1. \A i, j \in 1..(Len(queue) + 1) :
          i < j => Insert(queue, k, e)[i].tc <= Insert(queue, k, e)[j].tc
    BY <1>1, <1>3, InsertedInOrder
  <2> QED
    BY <1>2, <1>4, <2>1 DEF InTurn
<1>7. Bounded' /\ NoneOverdue'
  <2> SUFFICES ASSUME NEW j \in 1..Len(queue')
               PROVE  /\ MIN_TIME_INT <= queue'[j].tc /\ TICK <= queue'[j].intvl
                      /\ queue'[j].timer = SchedTimer => queue'[j].intvl = TICK
                      /\ load <= queue'[j].tc /\ queue'[j].tc <= queue'[j].intvl
    BY <1>3 DEF Bounded, NoneOverdue
  <2>1. CASE queue'[j] = e
    BY <1>1, <1>3, <2>1 DEF Ticks
  <2>2. CASE \E i \in 1..Len(queue) : queue'[j] = queue[i]
    BY <2>2 DEF QueueInv, Bounded, NoneOverdue
  <2> QED
    BY <1>5, <2>1, <2>2
<1>8. TickKept'
  <2>1. PICK i \in 1..Len(queue) : queue[i].timer = SchedTimer
    BY DEF QueueInv, TickKept, Armed
  <2>2. PICK j \in 1..Len(queue') : queue'[j] = queue[i]
    BY <1>5
  <2>3. queue'[j].timer = SchedTimer
    BY <2>1, <2>2
  <2> QED
    BY <1>3, <2>3 DEF TickKept, Armed
<1> QED
  BY <1>4, <1>6, <1>7, <1>8 DEF QueueInv

\* The next load is the first timer's after the update: no longer than any other's
\* ticks, the scheduler's included (update_timer_tree, timer_irq).
LEMMA ServeInv ==
  ASSUME QueueConstants, QueueInv, NEW done \in BOOLEAN, Serve(queue, done)
  PROVE  QueueInv'
<1> DEFINE served == Renewed(queue[1], done)
           others == Others(queue)
<1>1. /\ Len(queue) \in Nat \ {0} /\ others \in Seq(Entries) /\ Len(others) = Len(queue) - 1
      /\ \A i \in 1..Len(others) : /\ others[i].timer = queue[i + 1].timer
                                   /\ others[i].intvl = queue[i + 1].intvl
  BY OthersMembers
<1>2. /\ \A i, j \in 1..Len(others) : i < j => others[i].tc <= others[j].tc
      /\ \A i \in 1..Len(others) : MIN_TIME_INT <= others[i].tc /\ others[i].tc <= queue[i + 1].tc
  BY OthersInOrder
<1>3. /\ served \in Entries /\ served.timer = queue[1].timer /\ served.intvl = queue[1].intvl
      /\ MIN_TIME_INT <= served.tc /\ served.tc <= queue[1].intvl /\ TICK <= queue[1].intvl
  BY ServedMember
<1>4. PICK k \in Place(others, served.tc) :
        /\ load' = Insert(others, k, served)[1].tc
        /\ queue' = IF served.timer \in Oneshots THEN others ELSE Insert(others, k, served)
  BY DEF Serve
<1> HIDE DEF served, others
<1> DEFINE updated == Insert(others, k, served)
<1>5. k \in 0..Len(others)
  BY DEF Place
<1>6. updated \in Seq(Entries) /\ Len(updated) = Len(queue)
  BY <1>1, <1>3, <1>5, InsertMembers
<1>7. /\ \A j \in 1..Len(queue) : updated[j] = served \/ \E i \in 1..Len(others) : updated[j] = others[i]
      /\ \A i \in 1..Len(others) : \E j \in 1..Len(queue) : updated[j] = others[i]
  <2>1. /\ \A j \in 1..(Len(others) + 1) : \/ Insert(others, k, served)[j] = served
                                             \/ \E i \in 1..Len(others) :
                                                  Insert(others, k, served)[j] = others[i]
        /\ \A i \in 1..Len(others) : \E j \in 1..(Len(others) + 1) :
             Insert(others, k, served)[j] = others[i] /\ (i <= k => j = i)
    <3>1. others \in Seq(Entries) /\ served \in Entries /\ k \in 0..Len(others)
      BY <1>1, <1>3, <1>5
    <3> QED
      BY <3>1, InsertCovers, Zenon
  <2>2. Len(others) + 1 = Len(queue)
    BY <1>1
  <2> QED
    BY <2>1, <2>2, Zenon
<1>8. \A i, j \in 1..Len(queue) : i < j => updated[i].tc <= updated[j].tc
  <2>1. \A i, j \in 1..(Len(others) + 1) :
          i < j => Insert(others, k, served)[i].tc <= Insert(others, k, served)[j].tc
    BY <1>1, <1>2, <1>3, InsertedInOrder
  <2> QED
    BY <1>1, <2>1
<1>9. \E j \in 1..Len(queue) : updated[j] = served
  <2>1. updated[k + 1] = served
    BY <1>1, <1>3, <1>5, InsertMembers
  <2> QED
    BY <1>1, <1>5, <2>1
<1>10. load' = updated[1].tc
  BY <1>4
<1> HIDE DEF updated
<1>11. \A j \in 1..Len(queue) : updated[j].tc \in Ticks
  <2>1. \A j \in 1..Len(queue) : updated[j] \in Entries
    BY <1>6
  <2> QED
    BY <2>1 DEF Entries
<1>12. \A j \in 1..Len(queue) :
         /\ MIN_TIME_INT <= updated[j].tc /\ updated[j].tc <= updated[j].intvl
         /\ TICK <= updated[j].intvl /\ load' <= updated[j].tc
         /\ updated[j].timer = SchedTimer => updated[j].intvl = TICK
  <2> TAKE j \in 1..Len(queue)
  <2>1. load' <= updated[j].tc
    <3>1. 1 \in 1..Len(queue) /\ updated[1].tc \in Int
      BY <1>1, <1>11 DEF Ticks
    <3>2. CASE j = 1
      BY <1>10, <3>1, <3>2
    <3>3. CASE j # 1
      BY <1>1, <1>8, <1>10, <3>1, <3>3
    <3> QED
      BY <3>2, <3>3
  <2>2. CASE updated[j] = served
    <3>1. 1 \in 1..Len(queue)
      BY <1>1
    <3>2. queue[1].timer = SchedTimer => queue[1].intvl = TICK
      BY <3>1 DEF QueueInv, Bounded
    <3> QED
      BY <1>3, <2>1, <2>2, <3>2
  <2>3. ASSUME NEW i \in 1..Len(others), updated[j] = others[i]
        PROVE  /\ MIN_TIME_INT <= updated[j].tc /\ updated[j].tc <= updated[j].intvl
               /\ TICK <= updated[j].intvl
               /\ updated[j].timer = SchedTimer => updated[j].intvl = TICK
    <3>1. i + 1 \in 1..Len(queue)
      BY <1>1
    <3>2. /\ queue[i + 1] \in Entries
          /\ TICK <= queue[i + 1].intvl /\ queue[i + 1].tc <= queue[i + 1].intvl
          /\ queue[i + 1].timer = SchedTimer => queue[i + 1].intvl = TICK
      BY <3>1 DEF QueueInv, Bounded, NoneOverdue
    <3>3. queue[i + 1].tc \in Int /\ queue[i + 1].intvl \in Int /\ others[i].tc \in Int
      BY <1>11, <2>3, <3>2 DEF Entries, Ticks
    <3> QED
      BY <1>1, <1>2, <2>3, <3>2, <3>3
  <2> QED
    BY <1>7, <2>1, <2>2, <2>3
<1>13. \E j \in 1..Len(queue) : updated[j].timer = SchedTimer
  <2>1. PICK i \in 1..Len(queue) : queue[i].timer = SchedTimer
    BY DEF QueueInv, TickKept, Armed
  <2>2. CASE i = 1
    BY <1>3, <1>9, <2>1, <2>2
  <2>3. CASE i # 1
    <3>1. i - 1 \in 1..Len(others) /\ i - 1 + 1 = i
      BY <1>1, <2>3
    <3>2. others[i - 1].timer = SchedTimer
      BY <1>1, <2>1, <3>1
    <3> QED
      BY <1>7, <3>1, <3>2
  <2> QED
    BY <2>2, <2>3
<1>14. load' \in 1..TICK
  <2>1. PICK j \in 1..Len(queue) : updated[j].timer = SchedTimer
    BY <1>13
  <2>2. load' <= updated[j].tc /\ updated[j].tc <= TICK
    BY <1>12, <2>1
  <2>3. 1 \in 1..Len(queue) /\ load' \in Ticks /\ updated[j].tc \in Ticks
    BY <1>1, <1>10, <1>11
  <2> QED
    BY <2>2, <2>3 DEF Ticks
<1>15. CASE served.timer \notin Oneshots
  <2>1. queue' = updated /\ Len(queue') = Len(queue)
    BY <1>4, <1>6, <1>15 DEF updated
  <2>2. Bounded' /\ NoneOverdue'
    BY <1>12, <2>1 DEF Bounded, NoneOverdue
  <2>3. InTurn'
    BY <1>8, <2>1 DEF InTurn
  <2>4. TickKept'
    BY <1>13, <1>14, <2>1 DEF TickKept, Armed
  <2> QED
    BY <1>6, <2>1, <2>2, <2>3, <2>4 DEF QueueInv
<1>16. CASE served.timer \in Oneshots
  <2>1. queue' = others
    BY <1>4, <1>16
  <2>2. ASSUME NEW i \in 1..Len(others)
        PROVE  /\ MIN_TIME_INT <= others[i].tc /\ others[i].tc <= others[i].intvl
               /\ TICK <= others[i].intvl /\ load' <= others[i].tc
               /\ others[i].timer = SchedTimer => others[i].intvl = TICK
    BY <1>7, <1>12
  <2>3. Bounded' /\ NoneOverdue'
    BY <2>1, <2>2 DEF Bounded, NoneOverdue
  <2>4. InTurn'
    BY <1>2, <2>1 DEF InTurn
  <2>5. \E j \in 1..Len(others) : others[j].timer = SchedTimer
    <3>1. PICK i \in 1..Len(queue) : queue[i].timer = SchedTimer
      BY DEF QueueInv, TickKept, Armed
    <3>2. i # 1
      BY <1>3, <1>16, <3>1
    <3>3. i - 1 \in 1..Len(others) /\ i - 1 + 1 = i
      BY <1>1, <3>2
    <3> QED
      BY <1>1, <3>1, <3>3
  <2>6. TickKept'
    BY <1>14, <2>1, <2>5 DEF TickKept, Armed
  <2> QED
    BY <1>1, <2>1, <2>3, <2>4, <2>6 DEF QueueInv
<1> QED
  BY <1>15, <1>16

\* A timer that is not served loses ticks or, with the fewest there are, moves up:
\* the one that is served goes behind all that have no more than it (insert_timer,
\* update_timer_tree).
LEMMA ServeBringsNearer ==
  ASSUME QueueConstants, QueueInv, NEW done \in BOOLEAN, Serve(queue, done), NEW i \in 2..Len(queue)
  PROVE  \E j \in 1..Len(queue') :
           /\ queue'[j].timer = queue[i].timer
           /\ \/ queue'[j].tc < queue[i].tc
              \/ queue'[j].tc = queue[i].tc /\ j = i - 1
<1> DEFINE served == Renewed(queue[1], done)
           others == Others(queue)
           m == i - 1
<1>1. /\ Len(queue) \in Nat \ {0} /\ others \in Seq(Entries) /\ Len(others) = Len(queue) - 1
      /\ \A x \in 1..Len(others) : others[x].timer = queue[x + 1].timer
  BY OthersMembers
<1>2. \A x \in 1..Len(others) :
        \/ others[x].tc < queue[x + 1].tc
        \/ others[x].tc = queue[x + 1].tc /\ queue[x + 1].tc = MIN_TIME_INT
  BY OthersInOrder
<1>3. served \in Entries /\ MIN_TIME_INT <= served.tc
  BY ServedMember
<1>4. PICK k \in Place(others, served.tc) :
        queue' = IF served.timer \in Oneshots THEN others ELSE Insert(others, k, served)
  BY DEF Serve
<1> HIDE DEF served, others
<1>5. /\ k \in 0..Len(others)
      /\ \A x \in (k + 1)..Len(others) : others[x].tc > served.tc
  BY DEF Place
<1>6. /\ m \in 1..Len(others) /\ m + 1 = i
  BY <1>1
<1>7. /\ others[m].timer = queue[i].timer
      /\ \/ others[m].tc < queue[i].tc
         \/ others[m].tc = queue[i].tc /\ queue[i].tc = MIN_TIME_INT
  BY <1>1, <1>2, <1>6
<1> HIDE DEF m
<1>8. CASE served.timer \in Oneshots
  BY <1>4, <1>6, <1>7, <1>8 DEF m
<1>9. CASE served.timer \notin Oneshots
  <2>1. /\ Len(Insert(others, k, served)) = Len(others) + 1
        /\ \E j \in 1..(Len(others) + 1) :
             Insert(others, k, served)[j] = others[m] /\ (m <= k => j = m)
    <3>1. Len(Insert(others, k, served)) = Len(others) + 1
      BY <1>1, <1>3, <1>5, InsertMembers
    <3>2. \A x \in 1..Len(others) : \E j \in 1..(Len(others) + 1) :
            Insert(others, k, served)[j] = others[x] /\ (x <= k => j = x)
      BY <1>1, <1>3, <1>5, InsertCovers, Zenon
    <3> QED
      BY <1>6, <3>1, <3>2
  <2>2. PICK j \in 1..Len(queue') : queue'[j] = others[m] /\ (m <= k => j = m)
    BY <1>4, <1>9, <2>1
  <2>3. CASE others[m].tc < queue[i].tc
    BY <1>7, <2>2, <2>3
  <2>4. CASE others[m].tc = queue[i].tc /\ queue[i].tc = MIN_TIME_INT
    <3>1. served.tc \in Int
      BY <1>3 DEF Entries, Ticks
    <3>2. ~(others[m].tc > served.tc)
      BY <1>3, <2>4, <3>1
    <3>3. m <= k
      BY <1>5, <1>6, <3>2
    <3> QED
      BY <1>7, <2>2, <2>4, <3>3 DEF m
  <2> QED
    BY <1>7, <2>3, <2>4
<1> QED
  BY <1>8, <1>9

-----------------------------------------------------------------------------
\* QueueInv holds at boot and is preserved by every creation and every interrupt.
THEOREM QueueInvariant ==
  ASSUME QueueConstants, LongEnough
  PROVE  QueueSpec => []QueueInv
<1>1. QueueInit => QueueInv
  <2> SUFFICES ASSUME QueueInit PROVE QueueInv
    OBVIOUS
  <2> DEFINE e == Timer(SchedTimer, TICK)
  <2>1. /\ e \in Entries /\ e.timer = SchedTimer /\ e.tc = TICK /\ e.intvl = TICK
    BY DEF Timer, Entries, Timers, Ticks
  <2>2. queue = <<e>> /\ load \in 1..TICK
    BY DEF QueueInit
  <2> HIDE DEF e
  <2>3. queue \in Seq(Entries) /\ Len(queue) = 1 /\ queue[1] = e
    BY <2>1, <2>2
  <2>4. \A i \in 1..Len(queue) : i = 1
    BY <2>3
  <2>5. Bounded /\ InTurn /\ NoneOverdue
    BY <2>1, <2>2, <2>3, <2>4 DEF Bounded, InTurn, NoneOverdue
  <2>6. TickKept
    BY <2>1, <2>2, <2>3 DEF TickKept, Armed
  <2> QED
    BY <2>3, <2>5, <2>6 DEF QueueInv
<1>2. QueueInv /\ [QueueNext]_queueVars => QueueInv'
  <2> SUFFICES ASSUME QueueInv, [QueueNext]_queueVars PROVE QueueInv'
    OBVIOUS
  <2>1. ASSUME NEW n \in RtTimers \cup Oneshots, NEW ticks \in Intervals \cup Delays, Arm(n, ticks)
        PROVE  QueueInv'
    BY <2>1, ArmInv
  <2>2. ASSUME NEW done \in BOOLEAN, Serve(queue, done) PROVE QueueInv'
    BY <2>2, ServeInv
  <2>3. CASE UNCHANGED queueVars
    BY <2>3 DEF queueVars, QueueInv, Bounded, InTurn, NoneOverdue, TickKept, Armed
  <2> QED
    BY <2>1, <2>2, <2>3 DEF QueueNext, Expire
<1> QED
  BY <1>1, <1>2, PTL DEF QueueSpec

\* update_timer_tree() moves one node, and the timers stay in the order of their
\* ticks.
THEOREM QueueInTurn ==
  ASSUME QueueConstants, LongEnough
  PROVE  QueueSpec => []InTurn
<1>1. QueueInv => InTurn
  BY DEF QueueInv
<1> QED
  BY <1>1, QueueInvariant, PTL

\* The unsigned subtraction in update_timer_tree() never wraps.
THEOREM QueueNoneOverdue ==
  ASSUME QueueConstants, LongEnough
  PROVE  QueueSpec => []NoneOverdue
<1>1. QueueInv => NoneOverdue
  BY DEF QueueInv
<1> QED
  BY <1>1, QueueInvariant, PTL

\* The scheduler's timer stays armed, and timer_irq() never loads the private timer
\* with more than a tick.
THEOREM QueueTickKept ==
  ASSUME QueueConstants, LongEnough
  PROVE  QueueSpec => []TickKept
<1>1. QueueInv => TickKept
  BY DEF QueueInv
<1> QED
  BY <1>1, QueueInvariant, PTL

\* An interrupt brings every timer nearer that it does not serve: a timer whose task
\* is never done cannot shut another out (update_timer_tree).
THEOREM QueueNoneOvertaken ==
  ASSUME QueueConstants, LongEnough
  PROVE  QueueSpec => NoneOvertaken
<1> DEFINE Step == Len(queue') <= Len(queue) => Nearer(queue, queue')
<1>1. ASSUME QueueInv, Expire PROVE Step
  <2>1. ASSUME NEW done \in BOOLEAN, Serve(queue, done), NEW i \in 2..Len(queue)
        PROVE  \E j \in 1..Len(queue') :
                 /\ queue'[j].timer = queue[i].timer
                 /\ queue'[j].tc < queue[i].tc \/ (queue'[j].tc = queue[i].tc /\ j = i - 1)
    BY <1>1, <2>1, ServeBringsNearer
  <2> QED
    BY <1>1, <2>1 DEF Expire, Nearer
<1>2. ASSUME QueueInv, NEW n \in RtTimers \cup Oneshots,
             NEW ticks \in Intervals \cup Delays, Arm(n, ticks)
      PROVE  Step
  <2>1. PICK k \in Place(queue, ticks) : queue' = Insert(queue, k, Timer(n, ticks))
    BY <1>2 DEF Arm
  <2>2. queue \in Seq(Entries) /\ k \in 0..Len(queue) /\ Timer(n, ticks) \in Entries
    BY <1>2 DEF QueueInv, Place, Timer, Entries, Timers, Ticks
  <2>3. Len(queue') = Len(queue) + 1
    BY <2>1, <2>2, InsertMembers
  <2> QED
    BY <2>2, <2>3
<1>3. QueueInv /\ [QueueNext]_queueVars => [Step]_queueVars
  <2> HIDE DEF Step
  <2> QED
    BY <1>1, <1>2 DEF QueueNext
<1> QED
  BY <1>3, QueueInvariant, PTL DEF QueueSpec, NoneOvertaken
=============================================================================
