---------------------------- MODULE SchedProofs ----------------------------
(***************************************************************************)
(* The run queue, for any tasks, priorities and commands: it agrees with   *)
(* the tasks' states and its cached leftmost node is its first, wherever   *)
(* the timer interrupts.  The second half is about the wait list.          *)
(***************************************************************************)
EXTENDS Sched, FiniteSetTheorems, SequenceTheorems, WellFoundedInduction, TLAPS

Ops == DeqPcs \cup EnqPcs
LockPcs == {"deq1", "deq4", "enq1", "enq4"}
Wakeable == Cfs \cup {Worker}

\* The hypotheses of the theorems: no interrupt inside the locked sections; if the
\* operator suspends and wakes tasks, none inside a queue operation at all; he lets
\* idle, the shell itself, RT and one-shot tasks alone; the task table has room for every task.
LocksQuiet == LockPcs \subseteq Quiet
OpsQuiet == Ops \subseteq Quiet
Apart == Targets = {} \/ OpsQuiet
Room == IsFiniteSet(Tasks) /\ Cardinality(Tasks) <= MAX_TASK
Careful == LocksQuiet /\ Apart /\ Targets \subseteq Wakeable /\ Room

-----------------------------------------------------------------------------
(* The invariant of the run queue.                                           *)

\* Who can be where in its code, and about whom a queue operation is.
Places ==
  \A t \in Tasks :
    /\ pc[t] \in DeqPcs => t \in Sleepers \cup {Shell}
    /\ pc[t] \in EnqPcs => t = Shell
    /\ pc[t] = "tmr" => t \in Cfs \/ (t = Shell /\ arg[t] \in Oneshot \cap Created)
    /\ pc[t] = "dyld" => t \in Cfs
    /\ pc[t] = "yld" => t \in {Worker} \cup Rt \cup Oneshot
    /\ pc[t] \in Ops => arg[t] \in Wakeable \cap Created

\* How far a queue operation has got.
Midway ==
  \A u \in Tasks :
    /\ pc[u] \in {"deq0", "deqr", "deq1", "deq2"} =>
         state[arg[u]] = "RUNNING" /\ arg[u] \in Members(runq)
    /\ pc[u] \in {"deq3", "deq4"} => state[arg[u]] = "WAITING" /\ arg[u] \in Members(runq)
    /\ pc[u] \in {"enq0", "enq1", "enq2"} =>
         state[arg[u]] # "RUNNING" /\ arg[u] \notin Members(runq)
    /\ pc[u] \in {"enq3", "enq4"} => state[arg[u]] = "RUNNING" /\ arg[u] \notin Members(runq)

\* Nobody else touches the task a queue operation is about: either the operation is
\* not interrupted, or it is a task's own, or one about a task that was just created.
Undisturbed ==
  \A u \in Tasks :
    /\ pc[u] \in LockPcs => u = current
    /\ pc[u] \in Ops /\ OpsQuiet => u = current
    /\ pc[u] \in DeqPcs /\ ~OpsQuiet => arg[u] = u /\ u # Shell /\ oneshot[u] = 0
    /\ pc[u] \in EnqPcs /\ ~OpsQuiet =>
         /\ oneshot[arg[u]] = 0 /\ pc[arg[u]] = "run" /\ arg[u] # current
         /\ \A x \in Tasks : yield_task[x] # arg[u]

\* What has been created, and started.
Begun ==
  /\ {Idle, Shell, Worker, current} \subseteq Created
  /\ NoDuplicates(tasklist)
  /\ \A t \in Tasks \ Created : state[t] = "NONE"
  /\ \A t \in Tasks : state[t] = "NONE" => oneshot[t] = 0 /\ pc[t] = "run" /\ t # current
  /\ \A t \in Created \cap (Rt \cup Oneshot \cup {Idle, Shell}) : state[t] = "RUNNING"
  /\ \A t \in Tasks : yield_task[t] \in Created
                      \/ (yield_task[t] = NoTask /\ t \notin Created \ {Idle})

\* The task that has the CPU can go to sleep (Sleep), and a task that is in delay()
\* has one timer, unless the operator woke it.
Waking ==
  /\ current \in Sleepers /\ pc[current] = "run" => state[current] = "RUNNING"
  /\ ~OpsQuiet => \A t \in CfsTasks :
       /\ oneshot[t] > 0 =>
            t \in Cfs /\ oneshot[t] = 1 /\ state[t] = "WAITING" /\ pc[t] \in {"dyld", "run"}
       /\ pc[t] = "tmr" /\ t # Shell => state[t] = "WAITING"

Queued ==
  /\ QueuesAgree /\ LeftmostCached
  /\ Members(runq) \subseteq Created /\ {Idle, Shell} \subseteq Members(runq)

Live == Places /\ Midway /\ Undisturbed /\ Begun /\ Waking

SchedInv == TypeOK /\ Queued /\ (fault = "none" => Live)

-----------------------------------------------------------------------------
(* The queues as sequences.                                                  *)

LEMMA MembersOf ==
  ASSUME NEW S, NEW q \in Seq(S)
  PROVE  /\ Members(q) \subseteq S
         /\ \A k \in 1..Len(q) : q[k] \in Members(q)
         /\ \A x \in Members(q) : \E k \in 1..Len(q) : q[k] = x
  BY DEF Members

LEMMA PositionOf ==
  ASSUME NEW S, NEW q \in Seq(S), NEW t \in Members(q)
  PROVE  Position(q, t) \in 1..Len(q) /\ q[Position(q, t)] = t
  BY DEF Members, Position

LEMMA InsertAfterIs ==
  ASSUME NEW S, NEW q \in Seq(S), NEW p \in 0..Len(q), NEW t \in S
  PROVE  /\ InsertAfter(q, p, t) \in Seq(S) /\ Len(InsertAfter(q, p, t)) = Len(q) + 1
         /\ \A k \in 1..p : InsertAfter(q, p, t)[k] = q[k]
         /\ InsertAfter(q, p, t)[p + 1] = t
         /\ \A k \in (p + 2)..(Len(q) + 1) : InsertAfter(q, p, t)[k] = q[k - 1]
  <1> DEFINE n == Len(q) + 1
             r == InsertAfter(q, p, t)
  <1>1. n \in Nat /\ q \in [1..Len(q) -> S]  BY LenProperties
  <1>2. r = [i \in 1..n |-> IF i <= p THEN q[i] ELSE IF i = p + 1 THEN t ELSE q[i - 1]]
    BY DEF InsertAfter
  <1>3. ASSUME NEW i \in 1..n
        PROVE  (IF i <= p THEN q[i] ELSE IF i = p + 1 THEN t ELSE q[i - 1]) \in S
    <2>1. CASE i <= p  BY <2>1, <1>1
    <2>2. CASE i = p + 1  BY <2>2
    <2>3. CASE i > p + 1  BY <2>3, <1>1, i - 1 \in 1..Len(q)
    <2> QED BY <1>1, <2>1, <2>2, <2>3
  <1>4. r \in [1..n -> S]  BY <1>2, <1>3
  <1>5. r \in Seq(S)  BY <1>1, <1>4, SeqDef
  <1>6. Len(r) = n
    <2> HIDE DEF r
    <2> QED BY <1>1, <1>4, <1>5, LenProperties
  <1> HIDE DEF r
  <1>7. \A k \in 1..p : r[k] = q[k]  BY <1>1, <1>2
  <1>8. r[p + 1] = t  BY <1>1, <1>2
  <1>9. \A k \in (p + 2)..(Len(q) + 1) : r[k] = q[k - 1]  BY <1>1, <1>2
  <1> QED BY <1>5, <1>6, <1>7, <1>8, <1>9 DEF r

LEMMA InsertAfterKeeps ==
  ASSUME NEW S, NEW q \in Seq(S), NEW p \in 0..Len(q), NEW t \in S,
         NoDuplicates(q), t \notin Members(q)
  PROVE  /\ Members(InsertAfter(q, p, t)) = Members(q) \cup {t}
         /\ NoDuplicates(InsertAfter(q, p, t))
  <1> DEFINE r == InsertAfter(q, p, t)
  <1>1. Len(q) \in Nat /\ Len(r) = Len(q) + 1
    <2>1. Len(q) \in Nat  BY LenProperties
    <2>2. Len(r) = Len(q) + 1  BY InsertAfterIs
    <2> QED BY <2>1, <2>2
  <1>2. /\ \A k \in 1..p : r[k] = q[k]
        /\ r[p + 1] = t
        /\ \A k \in (p + 2)..(Len(q) + 1) : r[k] = q[k - 1]
    BY InsertAfterIs, SMTT(20)
  <1> HIDE DEF r
  <1>3. ASSUME NEW k \in 1..Len(r) PROVE r[k] \in Members(q) \cup {t}
    <2>1. CASE k <= p  BY <1>1, <1>2, <2>1, k \in 1..Len(q), MembersOf
    <2>2. CASE k = p + 1  BY <1>2, <2>2
    <2>3. CASE k > p + 1
      <3>1. k - 1 \in 1..Len(q) /\ k \in (p + 2)..(Len(q) + 1)  BY <1>1, <2>3
      <3> QED BY <1>2, <3>1, MembersOf
    <2> QED BY <1>1, <2>1, <2>2, <2>3
  <1>4. ASSUME NEW k \in 1..Len(q) PROVE q[k] \in Members(r)
    <2>1. CASE k <= p  BY <1>1, <1>2, <2>1, k \in 1..Len(r) DEF Members
    <2>2. CASE k > p
      <3>1. k + 1 \in (p + 2)..(Len(q) + 1) /\ k + 1 \in 1..Len(r) /\ (k + 1) - 1 = k  BY <1>1, <2>2
      <3>2. r[k + 1] = q[k]  BY <1>2, <3>1
      <3> QED BY <3>1, <3>2 DEF Members
    <2> QED BY <1>1, <2>1, <2>2
  <1>5. t \in Members(r)  BY <1>1, <1>2, p + 1 \in 1..Len(r) DEF Members
  <1>6. Members(r) = Members(q) \cup {t}  BY <1>3, <1>4, <1>5 DEF Members
  <1>7. ASSUME NEW i \in 1..Len(r), NEW j \in 1..Len(r), i < j PROVE r[i] # r[j]
    <2>1. \A k \in 1..Len(q) : q[k] # t  BY MembersOf
    <2>2. \A k, m \in 1..Len(q) : k # m => q[k] # q[m]  BY DEF NoDuplicates
    <2>3. CASE j <= p  BY <1>1, <1>2, <1>7, <2>2, <2>3
    <2>4. CASE j = p + 1  BY <1>1, <1>2, <1>7, <2>1, <2>4
    <2>5. CASE j > p + 1
      <3>1. r[j] = q[j - 1] /\ j - 1 \in 1..Len(q)  BY <1>1, <1>2, <2>5
      <3>2. CASE i <= p  BY <1>1, <1>2, <2>2, <2>5, <3>1, <3>2
      <3>3. CASE i = p + 1  BY <1>2, <2>1, <3>1, <3>3
      <3>4. CASE i > p + 1
        <4>1. r[i] = q[i - 1] /\ i - 1 \in 1..Len(q) /\ i - 1 # j - 1  BY <1>1, <1>2, <1>7, <3>4
        <4> QED BY <2>2, <3>1, <4>1
      <3> QED BY <1>1, <3>2, <3>3, <3>4
    <2> QED BY <1>1, <2>3, <2>4, <2>5
  <1>8. NoDuplicates(r)
    <2>1. ASSUME NEW i \in 1..Len(r), NEW j \in 1..Len(r), i # j PROVE r[i] # r[j]
      <3>1. i < j \/ j < i  BY <2>1
      <3> QED BY <3>1, <1>7
    <2> QED BY <2>1 DEF NoDuplicates
  <1> QED BY <1>6, <1>8 DEF r

LEMMA EraseIs ==
  ASSUME NEW S, NEW q \in Seq(S), NEW t \in Members(q), NoDuplicates(q)
  PROVE  /\ Erase(q, t) \in Seq(S) /\ Len(Erase(q, t)) = Len(q) - 1
         /\ Members(Erase(q, t)) = Members(q) \ {t}
         /\ NoDuplicates(Erase(q, t))
         /\ Len(q) > 1 => Erase(q, t)[1] = IF q[1] = t THEN q[2] ELSE q[1]
  <1> DEFINE r == Erase(q, t)
             p == Position(q, t)
             n == Len(q) - 1
  <1>1. p \in 1..Len(q) /\ q[p] = t  BY PositionOf
  <1>2. n \in Nat /\ q \in [1..Len(q) -> S] /\ Len(q) = n + 1  BY <1>1, LenProperties
  <1>3. \A k, m \in 1..Len(q) : k # m => q[k] # q[m]  BY DEF NoDuplicates
  <1>4. r = [i \in 1..n |-> IF i < p THEN q[i] ELSE q[i + 1]]  BY DEF Erase
  <1>5. r \in [1..n -> S]
    <2>1. ASSUME NEW i \in 1..n PROVE (IF i < p THEN q[i] ELSE q[i + 1]) \in S
      BY <1>2, i \in 1..Len(q), i + 1 \in 1..Len(q)
    <2> QED BY <1>4, <2>1
  <1> HIDE DEF r, p, n
  <1>6. r \in Seq(S) /\ Len(r) = n
    <2>1. r \in Seq(S)  BY <1>2, <1>5, SeqDef
    <2> QED BY <1>2, <1>5, <2>1, LenProperties
  <1>7. /\ \A k \in 1..n : k < p => r[k] = q[k]
        /\ \A k \in 1..n : k >= p => r[k] = q[k + 1]
    BY <1>1, <1>2, <1>4
  <1>8. \A k \in 1..n : r[k] \in Members(q) \ {t}
    <2> TAKE k \in 1..n
    <2>1. CASE k < p  BY <1>1, <1>2, <1>3, <1>7, <2>1, k \in 1..Len(q), MembersOf
    <2>2. CASE k >= p
      BY <1>1, <1>2, <1>3, <1>7, <2>2, k + 1 \in 1..Len(q), k + 1 # p, MembersOf
    <2> QED BY <1>1, <2>1, <2>2
  <1>9. \A k \in 1..Len(q) : q[k] # t => q[k] \in Members(r)
    <2> SUFFICES ASSUME NEW k \in 1..Len(q), q[k] # t PROVE q[k] \in Members(r)  OBVIOUS
    <2>1. CASE k < p  BY <1>1, <1>2, <1>6, <1>7, <2>1, k \in 1..n DEF Members
    <2>2. CASE k > p
      <3>1. k - 1 \in 1..n /\ k - 1 >= p /\ (k - 1) + 1 = k  BY <1>1, <1>2, <2>2
      <3>2. r[k - 1] = q[k]  BY <1>7, <3>1
      <3> QED BY <1>6, <3>1, <3>2 DEF Members
    <2> QED BY <1>1, <1>2, <2>1, <2>2
  <1>10. Members(r) = Members(q) \ {t}  BY <1>6, <1>8, <1>9 DEF Members
  <1>11. NoDuplicates(r)
    <2>1. ASSUME NEW i \in 1..n, NEW j \in 1..n, i # j PROVE r[i] # r[j]
      <3>1. i \in 1..Len(q) /\ j \in 1..Len(q) /\ i + 1 \in 1..Len(q) /\ j + 1 \in 1..Len(q)
        BY <1>2
      <3>2. CASE i < p /\ j < p  BY <1>3, <1>7, <2>1, <3>1, <3>2
      <3>3. CASE i < p /\ j >= p  BY <1>1, <1>2, <1>3, <1>7, <3>1, <3>3, i # j + 1
      <3>4. CASE i >= p /\ j < p  BY <1>1, <1>2, <1>3, <1>7, <3>1, <3>4, j # i + 1
      <3>5. CASE i >= p /\ j >= p  BY <1>1, <1>2, <1>3, <1>7, <2>1, <3>1, <3>5, i + 1 # j + 1
      <3> QED BY <1>1, <3>2, <3>3, <3>4, <3>5
    <2> QED BY <1>6, <2>1 DEF NoDuplicates
  <1>12. ASSUME Len(q) > 1 PROVE r[1] = IF q[1] = t THEN q[2] ELSE q[1]
    <2>1. 1 \in 1..n /\ 1 \in 1..Len(q)  BY <1>2, <1>12
    <2>2. CASE q[1] = t
      <3>1. p = 1  BY <1>1, <1>3, <2>1, <2>2
      <3> QED BY <1>7, <2>1, <2>2, <3>1
    <2>3. CASE q[1] # t
      <3>1. 1 < p  BY <1>1, <1>2, <2>3
      <3> QED BY <1>7, <2>1, <2>3, <3>1
    <2> QED BY <2>2, <2>3
  <1> QED BY <1>6, <1>10, <1>11, <1>12 DEF r, n

\* Whoever is first is followed by the second.
LEMMA SuccessorOfFirst ==
  ASSUME NEW S, NEW q \in Seq(S), NoDuplicates(q), Len(q) > 0
  PROVE  Successor(q, q[1]) = IF Len(q) > 1 THEN q[2] ELSE NoTask
  <1>1. Len(q) \in Nat /\ 1 \in 1..Len(q)  BY LenProperties
  <1>2. Position(q, q[1]) = 1
    <2>1. q[1] \in Members(q)  BY <1>1, MembersOf
    <2>2. Position(q, q[1]) \in 1..Len(q) /\ q[Position(q, q[1])] = q[1]  BY <2>1, PositionOf
    <2> QED BY <1>1, <2>2 DEF NoDuplicates
  <1> QED BY <1>1, <1>2 DEF Successor

-----------------------------------------------------------------------------
(* The keys.                                                                 *)

\* Every set of natural numbers has a least element.
LEMMA LeastOf ==
  ASSUME NEW T, T \subseteq Nat, T # {}
  PROVE  \E x \in T : \A y \in T : x <= y
  <1> DEFINE R == {ss \in Nat \X Nat : ss[1] < ss[2]}
  <1>1. \A x, y \in Nat : <<y, x>> \in R <=> y < x  OBVIOUS
  <1>2. IsWellFoundedOn(R, Nat)  BY NatLessThanWellFounded DEF OpToRel
  <1> HIDE DEF R
  <1>3. PICK x \in T : \A y \in T : ~(<<y, x>> \in R)  BY <1>2, WFMin
  <1>4. \A y \in T : y \in Nat /\ x \in Nat /\ ~(y < x)  BY <1>1, <1>3
  <1>5. \A y \in T : x <= y  BY <1>4
  <1> QED BY <1>5

LEMMA RoundDownIs ==
  ASSUME NEW x \in Nat, NEW p \in {1, 2, 4, 8, 16}
  PROVE  RoundDown(x, p) \in 0..x
  BY DEF RoundDown

LEMMA MaxPriorityIs == MaxPriority \in {1, 2, 4, 8, 16}
  <1> DEFINE P == {Priority[t] : t \in CfsTasks}
             Largest(p) == \A t \in CfsTasks : Priority[t] <= p
  <1>1. /\ Priority[Idle] \in P
        /\ \A t \in CfsTasks : Priority[t] \in P /\ Priority[t] \in {1, 2, 4, 8, 16}
        /\ P \subseteq {1, 2, 4, 8, 16}
    BY SchedAssumption DEF CfsTasks
  <1>2. \E p \in P : Largest(p)
    <2> HIDE DEF P
    <2>1. CASE 16 \in P  BY <1>1, <2>1, Largest(16)
    <2>2. CASE 16 \notin P /\ 8 \in P  BY <1>1, <2>2, Largest(8)
    <2>3. CASE 16 \notin P /\ 8 \notin P /\ 4 \in P  BY <1>1, <2>3, Largest(4)
    <2>4. CASE 16 \notin P /\ 8 \notin P /\ 4 \notin P /\ 2 \in P  BY <1>1, <2>4, Largest(2)
    <2>5. CASE 16 \notin P /\ 8 \notin P /\ 4 \notin P /\ 2 \notin P /\ 1 \in P
      BY <1>1, <2>5, Largest(1)
    <2> QED BY <1>1, <2>1, <2>2, <2>3, <2>4, <2>5
  <1> QED BY <1>1, <1>2 DEF MaxPriority

\* Shifting keys down keeps them natural numbers.
LEMMA RebaseType ==
  ASSUME NEW v \in [CfsTasks -> Nat], NEW S \in SUBSET CfsTasks
  PROVE  Rebase(v, S) \in [CfsTasks -> Nat]
  <1> DEFINE base == CHOOSE x \in {v[t] : t \in S} : \A t \in S : x <= v[t]
  <1>1. Rebase(v, S)
          = [t \in CfsTasks |-> IF t \in S THEN v[t] - RoundDown(base, MaxPriority) ELSE 0]
    BY DEF Rebase
  <1>2. ASSUME NEW t \in S PROVE v[t] - RoundDown(base, MaxPriority) \in Nat
    <2>1. {v[u] : u \in S} \subseteq Nat /\ {v[u] : u \in S} # {}  BY <1>2
    <2>2. \E x \in {v[u] : u \in S} : \A u \in S : x <= v[u]
      <3>1. PICK x \in {v[u] : u \in S} : \A y \in {v[u] : u \in S} : x <= y  BY <2>1, LeastOf
      <3> QED BY <3>1
    <2>3. base \in Nat /\ base <= v[t]  BY <1>2, <2>1, <2>2
    <2> HIDE DEF base
    <2>4. RoundDown(base, MaxPriority) \in 0..base  BY <2>3, MaxPriorityIs, RoundDownIs
    <2> QED BY <1>2, <2>3, <2>4
  <1> QED BY <1>1, <1>2

LEMMA UpdateCurrentType ==
  ASSUME NEW v \in [CfsTasks -> Nat]
  PROVE  update_current(v) \in [CfsTasks -> Nat]
  <1>1. CASE current \in CfsTasks
    <2>1. Priority[current] \in Nat /\ v[current] \in Nat  BY <1>1, SchedAssumption
    <2> QED BY <1>1, <2>1 DEF update_current
  <1>2. CASE current \notin CfsTasks  BY <1>2 DEF update_current
  <1> QED BY <1>1, <1>2

LEMMA UpdateRunqType ==
  ASSUME NEW v \in [CfsTasks -> Nat], NEW q, NEW lm \in CfsTasks \cup {NoTask}, NEW t
  PROVE  update_vruntime_runq(v, q, lm, t) \in [CfsTasks -> Nat]
  <1>1. CASE lm = NoTask  BY <1>1 DEF update_vruntime_runq
  <1>2. CASE lm # NoTask
    <2>1. \A u \in CfsTasks : RoundDown(v[lm], Priority[u]) \in Nat
      BY <1>2, SchedAssumption, RoundDownIs
    <2> QED BY <1>2, <2>1 DEF update_vruntime_runq
  <1> QED BY <1>1, <1>2

-----------------------------------------------------------------------------
(* The tree's operations: what is queued, once each, and who is leftmost.    *)

\* enqueue_se() adds the task and keeps the cache on the first node, wherever the
\* descent ends.
LEMMA EnqueueSe ==
  ASSUME NEW q \in Seq(CfsTasks), NoDuplicates(q), NEW v \in [CfsTasks -> Nat],
         NEW t \in CfsTasks \ Members(q), NEW lm, Len(q) > 0 => lm = q[1],
         enqueue_se(q, v, lm, t)
  PROVE  /\ runq' \in Seq(CfsTasks) /\ NoDuplicates(runq')
         /\ Members(runq') = Members(q) \cup {t}
         /\ Len(runq') > 0 /\ rb_leftmost' = runq'[1]
         /\ vrun' \in [CfsTasks -> Nat]
  <1>1. PICK p \in Gaps(q, v, t) : /\ runq' = InsertAfter(q, p, t)
                                   /\ rb_leftmost' = IF p = 0 THEN t ELSE lm
                                   /\ vrun' = Rebase(v, Members(q) \cup {t})
    BY DEF enqueue_se
  <1>2. p \in 0..Len(q) /\ Len(q) \in Nat  BY LenProperties DEF Gaps
  <1>3. /\ runq' \in Seq(CfsTasks) /\ Len(runq') = Len(q) + 1
        /\ \A k \in 1..p : runq'[k] = q[k]
        /\ runq'[p + 1] = t
    <2>1. /\ InsertAfter(q, p, t) \in Seq(CfsTasks) /\ Len(InsertAfter(q, p, t)) = Len(q) + 1
          /\ \A k \in 1..p : InsertAfter(q, p, t)[k] = q[k]
          /\ InsertAfter(q, p, t)[p + 1] = t
      BY <1>2, InsertAfterIs
    <2> QED BY <1>1, <2>1
  <1>4. Members(runq') = Members(q) \cup {t} /\ NoDuplicates(runq')
    BY <1>1, <1>2, InsertAfterKeeps
  <1>5. rb_leftmost' = runq'[1]
    <2>1. CASE p = 0  BY <1>1, <1>3, <2>1
    <2>2. CASE p # 0  BY <1>1, <1>2, <1>3, <2>2, 1 \in 1..p
    <2> QED BY <2>1, <2>2
  <1>6. vrun' \in [CfsTasks -> Nat]  BY <1>1, MembersOf, RebaseType
  <1> QED BY <1>2, <1>3, <1>4, <1>5, <1>6

\* dequeue_se() takes the task out and moves the cache to its successor.
LEMMA DequeueSe ==
  ASSUME NEW q \in Seq(CfsTasks), NoDuplicates(q), NEW v \in [CfsTasks -> Nat],
         NEW t \in Members(q), NEW x \in Members(q), x # t, NEW lm, lm = q[1],
         dequeue_se(q, v, lm, t)
  PROVE  /\ runq' \in Seq(CfsTasks) /\ NoDuplicates(runq')
         /\ Members(runq') = Members(q) \ {t}
         /\ Len(runq') > 0 /\ rb_leftmost' = runq'[1]
         /\ vrun' \in [CfsTasks -> Nat]
  <1>1. /\ runq' = Erase(q, t) /\ rb_leftmost' = LeftmostWithout(q, lm, t)
        /\ vrun' = IF Len(q) = 1 THEN v ELSE Rebase(v, Members(q) \ {t})
    BY DEF dequeue_se
  <1>2. Len(q) \in Nat /\ Len(q) > 1
    <2>1. PICK i \in 1..Len(q), j \in 1..Len(q) : q[i] = t /\ q[j] = x  BY MembersOf
    <2> QED BY <2>1, LenProperties
  <1>3. /\ runq' \in Seq(CfsTasks) /\ Len(runq') = Len(q) - 1 /\ NoDuplicates(runq')
        /\ Members(runq') = Members(q) \ {t}
        /\ runq'[1] = IF q[1] = t THEN q[2] ELSE q[1]
    BY <1>1, <1>2, EraseIs
  <1>4. rb_leftmost' = runq'[1]
    <2>1. CASE q[1] = t
      <3>1. Successor(q, t) = q[2]  BY <1>2, <2>1, SuccessorOfFirst
      <3> QED BY <1>1, <1>3, <2>1, <3>1 DEF LeftmostWithout
    <2>2. CASE q[1] # t  BY <1>1, <1>3, <2>2 DEF LeftmostWithout
    <2> QED BY <2>1, <2>2
  <1>5. vrun' \in [CfsTasks -> Nat]  BY <1>1, <1>2, MembersOf, RebaseType
  <1>6. Len(runq') > 0  BY <1>2, <1>3
  <1> QED BY <1>3, <1>4, <1>5, <1>6

\* update_se() moves nobody in or out of the tree.
LEMMA UpdateSe ==
  ASSUME runq \in Seq(CfsTasks), NoDuplicates(runq), LeftmostCached, Len(runq) >= 2,
         NEW v \in [CfsTasks -> Nat], update_se(v)
  PROVE  /\ runq' \in Seq(CfsTasks) /\ NoDuplicates(runq')
         /\ Members(runq') = Members(runq)
         /\ Len(runq') > 0 /\ rb_leftmost' = runq'[1]
         /\ vrun' \in [CfsTasks -> Nat]
  <1> DEFINE lm == rb_leftmost
             nx == Successor(runq, lm)
  <1>1. Len(runq) \in Nat /\ Len(runq) > 0 /\ lm = runq[1] /\ lm \in Members(runq)
    BY LenProperties, MembersOf DEF LeftmostCached
  <1>2. CASE v[nx] < v[lm]
    <2>1. enqueue_se(Erase(runq, lm), v, nx, lm)  BY <1>2 DEF update_se
    <2>2. Len(runq) > 1 /\ nx = runq[2]  BY <1>1, <1>2, SuccessorOfFirst
    <2>3. /\ Erase(runq, lm) \in Seq(CfsTasks) /\ NoDuplicates(Erase(runq, lm))
          /\ Members(Erase(runq, lm)) = Members(runq) \ {lm}
          /\ Erase(runq, lm)[1] = nx
      BY <1>1, <2>2, EraseIs
    <2>4. lm \in CfsTasks \ Members(Erase(runq, lm))  BY <1>1, <2>3, MembersOf
    <2>5. /\ runq' \in Seq(CfsTasks) /\ NoDuplicates(runq')
          /\ Members(runq') = (Members(runq) \ {lm}) \cup {lm}
          /\ Len(runq') > 0 /\ rb_leftmost' = runq'[1]
          /\ vrun' \in [CfsTasks -> Nat]
      <3> HIDE DEF lm, nx
      <3> QED BY <2>1, <2>3, <2>4, EnqueueSe
    <2> QED BY <1>1, <2>5
  <1>3. CASE ~(v[nx] < v[lm])
    <2>1. UNCHANGED <<runq, rb_leftmost>> /\ vrun' = Rebase(v, Members(runq))
      BY <1>3 DEF update_se
    <2>2. vrun' \in [CfsTasks -> Nat]  BY <2>1, MembersOf, RebaseType
    <2> QED BY <1>1, <2>1, <2>2
  <1> QED BY <1>2, <1>3

\* The task table has room for a task that is not in it.
LEMMA RoomForOne ==
  ASSUME Room, tasklist \in Seq(Tasks), NoDuplicates(tasklist), NEW t \in Tasks \ Created
  PROVE  Len(tasklist) # MAX_TASK
  <1> DEFINE n == Len(tasklist)
             S == Tasks \ {t}
  <1>1. n \in Nat /\ tasklist \in [1..n -> Tasks]  BY LenProperties
  <1>2. \A k \in 1..n : tasklist[k] \in S  BY <1>1, MembersOf DEF Created
  <1>3. tasklist \in Injection(1..n, S)
    BY <1>1, <1>2 DEF NoDuplicates, Injection, IsInjective
  <1>4. IsFiniteSet(S) /\ Cardinality(S) = Cardinality(Tasks) - 1 /\ Cardinality(Tasks) \in Nat
    BY FS_RemoveElement, FS_CardinalityType DEF Room
  <1>5. Cardinality(1..n) <= Cardinality(S)
    <2> HIDE DEF S, n
    <2> QED BY <1>3, <1>4, FS_Injection
  <1>6. Cardinality(1..n) = n  BY <1>1, FS_Interval
  <1>7. Cardinality(Tasks) <= MAX_TASK /\ MAX_TASK \in Nat  BY SchedAssumption DEF Room
  <1> HIDE DEF S, n
  <1>8. n # MAX_TASK  BY <1>1, <1>4, <1>5, <1>6, <1>7
  <1> QED BY <1>8 DEF n

-----------------------------------------------------------------------------
(* The invariant of the run queue holds at boot and is kept by every step.   *)

LEMMA TaskKinds ==
  /\ {Idle, Shell, Worker} \subseteq CfsTasks /\ Cfs \subseteq CfsTasks /\ CfsTasks \subseteq Tasks
  /\ Rt \subseteq Tasks /\ Oneshot \subseteq Tasks /\ Tasks = CfsTasks \cup Rt \cup Oneshot
  /\ Rt \cap CfsTasks = {} /\ Oneshot \cap CfsTasks = {} /\ Oneshot \cap Rt = {}
  /\ Wakeable \subseteq CfsTasks /\ Idle \notin Wakeable /\ Shell \notin Wakeable
  /\ CfsTasks = Wakeable \cup {Idle, Shell}
  /\ Sleepers \subseteq Wakeable /\ Idle \notin Sleepers /\ Shell \notin Sleepers
  /\ Idle \notin Cfs /\ Shell \notin Cfs /\ Worker \notin Cfs
  /\ Idle # Shell /\ Idle # Worker /\ Shell # Worker
  /\ NoTask \notin Tasks
  BY SchedAssumption DEF Tasks, CfsTasks, Wakeable

\* start_kernel() leaves idle, shell and the worker queued and nobody asleep.
LEMMA SchedInitInv == Init => SchedInv
  <1> SUFFICES ASSUME Init PROVE SchedInv  OBVIOUS
  <1>1. /\ tasklist = <<Idle, Shell, Worker>> /\ runq = <<Worker, Shell, Idle>>
        /\ Members(tasklist) = {Idle, Shell, Worker} /\ Members(runq) = {Idle, Shell, Worker}
        /\ NoDuplicates(tasklist) /\ NoDuplicates(runq)
    BY TaskKinds DEF Init, Members, NoDuplicates
  <1>2. TypeOK
    <2>1. tasklist \in Seq(Tasks) /\ runq \in Seq(CfsTasks)  BY <1>1, TaskKinds
    <2>2. 0 \in 0..MaxMissed /\ 0 \in 0..MaxTimers  BY SchedAssumption
    <2> QED BY <2>1, <2>2, TaskKinds DEF Init, TypeOK, Pcs
  <1>3. Queued
    <2>1. LeftmostCached  BY <1>1 DEF LeftmostCached, Init
    <2>2. QueuesAgree  BY <1>1 DEF QueuesAgree, Init, Created, Tasks
    <2> QED BY <1>1, <2>1, <2>2 DEF Queued, Created
  <1>4. pc = [t \in Tasks |-> "run"]  BY DEF Init
  <1>5. Places /\ Midway /\ Undisturbed
    BY <1>4 DEF Places, Midway, Undisturbed, Ops, DeqPcs, EnqPcs, LockPcs
  <1>6. Begun
    <2>1. Created = {Idle, Shell, Worker}  BY <1>1 DEF Created
    <2> QED BY <1>1, <1>4, <2>1, TaskKinds DEF Begun, Init
  <1>7. Waking  BY <1>4, TaskKinds DEF Waking, Init
  <1> QED BY <1>2, <1>3, <1>5, <1>6, <1>7 DEF SchedInv, Live

\* The types every step needs.
LEMMA Typed0 ==
  ASSUME TypeOK
  PROVE  /\ \A t \in Tasks : pc[t] \in Pcs /\ arg[t] \in Tasks \cup {NoTask}
         /\ \A t \in Tasks : state[t] \in {"NONE", "RUNNING", "WAITING"} /\ oneshot[t] \in 0..MaxTimers
         /\ DOMAIN pc = Tasks /\ DOMAIN arg = Tasks /\ DOMAIN state = Tasks
         /\ DOMAIN yield_task = Tasks /\ DOMAIN oneshot = Tasks /\ current \in Tasks
  BY DEF TypeOK

\* A step inside a queue operation that writes neither the state nor the run queue,
\* or inside the body of an RT or one-shot task.
LEMMA Moves ==
  ASSUME SchedInv, TypeOK', fault = "none", NEW t \in Tasks, NEW p, current = t,
         pc' = [pc EXCEPT ![t] = p],
         \/ {pc[t], p} \subseteq {"deq0", "deqr", "deq1", "deq2"}
         \/ {pc[t], p} \subseteq {"deq3", "deq4"}
         \/ {pc[t], p} \subseteq {"enq0", "enq1", "enq2"}
         \/ {pc[t], p} \subseteq {"enq3", "enq4"}
         \/ t \in Rt \cup Oneshot /\ {pc[t], p} \subseteq {"run", "work", "yld"},
         UNCHANGED <<tasklist, state, runq, rb_leftmost, current, yield_task, oneshot, arg>>
  PROVE  SchedInv'
  <1>1. TypeOK /\ Queued /\ Places /\ Midway /\ Undisturbed /\ Begun /\ Waking
    BY DEF SchedInv, Live
  <1>2. /\ DOMAIN pc = Tasks /\ pc'[t] = p /\ \A u \in Tasks \ {t} : pc'[u] = pc[u]
        /\ Created' = Created
    BY <1>1, Typed0 DEF Created
  <1>3. Queued'
    <2>1. \A u \in Tasks : pc'[u] \in DeqPcs \cup EnqPcs <=> pc[u] \in DeqPcs \cup EnqPcs
      BY <1>2, TaskKinds DEF DeqPcs, EnqPcs
    <2>2. \A x \in CfsTasks : InTransit(x)' <=> InTransit(x)  BY <2>1 DEF InTransit
    <2> QED BY <1>1, <1>2, <2>2 DEF Queued, QueuesAgree, LeftmostCached
  <1>4. Places'  BY <1>1, <1>2, TaskKinds DEF Places, Ops, DeqPcs, EnqPcs
  <1>5. Midway'  BY <1>1, <1>2 DEF Midway
  <1>6. Undisturbed'  BY <1>1, <1>2, TaskKinds DEF Undisturbed, Ops, DeqPcs, EnqPcs, LockPcs
  <1>7. Begun'  BY <1>1, <1>2 DEF Begun
  <1>8. Waking'  BY <1>1, <1>2, TaskKinds DEF Waking
  <1> QED BY <1>3, <1>4, <1>5, <1>6, <1>7, <1>8 DEF SchedInv, Live

LEMMA MovesInv ==
  ASSUME SchedInv, fault = "none", NEW t \in Tasks,
         \/ DeqReadFirst(t) \/ DeqLockWq(t) \/ add_to_wq(t) \/ DeqLockRq(t)
         \/ EnqLockWq(t) \/ remove_from_wq(t) \/ EnqLockRq(t)
         \/ RtStart(t) \/ RtFinish(t) \/ OneshotWork(t)
  PROVE  SchedInv'
  <1>1. TypeOK /\ Places  BY DEF SchedInv, Live
  <1>2. \A u \in Tasks : pc[u] \in Ops => arg[u] \in CfsTasks  BY <1>1, TaskKinds DEF Places
  <1>3. CASE DeqReadFirst(t)
    <2>1. TypeOK'  BY <1>1, <1>3 DEF DeqReadFirst, Goto, Running, TypeOK, Pcs, rqVars, rtVars
    <2> QED BY <1>3, <2>1, Moves DEF DeqReadFirst, Goto, Running, rqVars
  <1>4. CASE DeqLockWq(t)
    <2>1. TypeOK'  BY <1>1, <1>4 DEF DeqLockWq, Goto, Running, TypeOK, Pcs, rqVars, rtVars, wqVars
    <2> QED BY <1>4, <2>1, Moves DEF DeqLockWq, Goto, Running, rqVars
  <1>5. CASE add_to_wq(t)
    <2>1. arg[t] \in CfsTasks  BY <1>2, <1>5 DEF add_to_wq, Running, Ops, DeqPcs
    <2>2. wq' \in [first : CfsTasks \cup {NoTask}, next : [Tasks -> CfsTasks \cup {NoTask}],
                   prev : [Tasks -> BOOLEAN]]
      BY <1>1, <1>5, <2>1 DEF add_to_wq, TypeOK
    <2>3. TypeOK'
      BY <1>1, <1>5, <2>2 DEF add_to_wq, Goto, Running, TypeOK, Pcs, rqVars, rtVars
    <2> QED BY <1>5, <2>3, Moves DEF add_to_wq, Goto, Running, rqVars
  <1>6. CASE DeqLockRq(t)
    <2>1. TypeOK'  BY <1>1, <1>6 DEF DeqLockRq, Goto, Running, TypeOK, Pcs, rqVars, rtVars, wqVars
    <2> QED BY <1>6, <2>1, Moves DEF DeqLockRq, Goto, Running, rqVars
  <1>7. CASE EnqLockWq(t)
    <2>1. TypeOK'  BY <1>1, <1>7 DEF EnqLockWq, Goto, Running, TypeOK, Pcs, rqVars, rtVars, wqVars
    <2> QED BY <1>7, <2>1, Moves DEF EnqLockWq, Goto, Running, rqVars
  <1>8. CASE remove_from_wq(t)
    <2>1. arg[t] \in Tasks
      BY <1>2, <1>8, TaskKinds DEF remove_from_wq, Running, Ops, EnqPcs
    <2>2. wq' \in [first : CfsTasks \cup {NoTask}, next : [Tasks -> CfsTasks \cup {NoTask}],
                   prev : [Tasks -> BOOLEAN]] /\ fault' \in {"none", "corrupt", "loop"}
      BY <1>1, <1>8, <2>1 DEF remove_from_wq, RemoveFault, WqWithout, TypeOK
    <2>3. TypeOK'
      BY <1>1, <1>8, <2>2 DEF remove_from_wq, Goto, Running, TypeOK, Pcs, rqVars, rtVars
    <2> QED BY <1>8, <2>3, Moves DEF remove_from_wq, Goto, Running, rqVars
  <1>9. CASE EnqLockRq(t)
    <2>1. TypeOK'  BY <1>1, <1>9 DEF EnqLockRq, Goto, Running, TypeOK, Pcs, rqVars, rtVars, wqVars
    <2> QED BY <1>9, <2>1, Moves DEF EnqLockRq, Goto, Running, rqVars
  <1>10. CASE RtStart(t)
    <2>1. TypeOK'  BY <1>1, <1>10 DEF RtStart, Goto, Running, TypeOK, Pcs, rqVars, wqVars
    <2> QED BY <1>10, <2>1, Moves DEF RtStart, Goto, Running, rqVars
  <1>11. CASE RtFinish(t)
    <2>1. TypeOK'  BY <1>1, <1>11 DEF RtFinish, Goto, Running, TypeOK, Pcs, rqVars, wqVars
    <2> QED BY <1>11, <2>1, Moves DEF RtFinish, Goto, Running, rqVars
  <1>12. CASE OneshotWork(t)
    <2>1. TypeOK'  BY <1>1, <1>12 DEF OneshotWork, Goto, Running, TypeOK, Pcs, rqVars, rtVars, wqVars
    <2> QED BY <1>12, <2>1, Moves DEF OneshotWork, Goto, Running, rqVars
  <1> QED BY <1>3, <1>4, <1>5, <1>6, <1>7, <1>8, <1>9, <1>10, <1>11, <1>12

\* Two queue operations under way are about two tasks.
LEMMA OneEach ==
  ASSUME SchedInv, fault = "none", NEW u \in Tasks, NEW w \in Tasks,
         pc[u] \in Ops, pc[w] \in Ops, arg[u] = arg[w]
  PROVE  u = w
  BY DEF SchedInv, Live, Undisturbed, Places, Ops, DeqPcs, EnqPcs

\* The state is written apart from the queue (the assignments to state in
\* dequeue_se_to_wq and enqueue_se_to_runq).
LEMMA StateWrittenInv ==
  ASSUME SchedInv, fault = "none", NEW t \in Tasks, DeqState(t) \/ EnqState(t)
  PROVE  SchedInv'
  <1> DEFINE p == IF pc[t] = "deq2" THEN "deq3" ELSE "enq3"
             s == IF pc[t] = "deq2" THEN "WAITING" ELSE "RUNNING"
             x == arg[t]
  <1>1. TypeOK /\ Queued /\ Places /\ Midway /\ Undisturbed /\ Begun /\ Waking
    BY DEF SchedInv, Live
  <1>2. /\ pc[t] \in {"deq2", "enq2"} /\ current = t
        /\ pc' = [pc EXCEPT ![t] = p] /\ state' = [state EXCEPT ![x] = s]
        /\ UNCHANGED <<tasklist, rqVars, wqVars, current, yield_task, rtVars, oneshot, arg, fault>>
    BY DEF DeqState, EnqState, Goto, Running
  <1>3. x \in Wakeable \cap Created /\ x \in Tasks  BY <1>1, <1>2, TaskKinds DEF Places, Ops, DeqPcs, EnqPcs
  <1>4. /\ pc'[t] = p /\ \A u \in Tasks \ {t} : pc'[u] = pc[u]
        /\ state'[x] = s /\ \A u \in Tasks \ {x} : state'[u] = state[u]
        /\ Created' = Created
    BY <1>1, <1>2, <1>3, Typed0 DEF Created
  <1>5. \A u \in Tasks : pc[u] \in Ops /\ u # t => arg[u] # x
    BY <1>2, OneEach DEF Ops, DeqPcs, EnqPcs
  <1> HIDE DEF p, x, s
  <1>6. TypeOK'  BY <1>1, <1>2, <1>3 DEF TypeOK, Pcs, rqVars, rtVars, wqVars, p, s
  <1>7. Queued'
    <2>1. \A u \in Tasks : pc'[u] \in DeqPcs \cup EnqPcs <=> pc[u] \in DeqPcs \cup EnqPcs
      BY <1>2, <1>4, TaskKinds DEF DeqPcs, EnqPcs, p
    <2>2. \A y \in CfsTasks : InTransit(y)' <=> InTransit(y)  BY <1>2, <2>1 DEF InTransit
    <2>3. InTransit(x)  BY <1>2 DEF InTransit, DeqPcs, EnqPcs, x
    <2> QED BY <1>1, <1>2, <1>4, <2>2, <2>3, TaskKinds DEF Queued, QueuesAgree, LeftmostCached, rqVars
  <1>8. Places'  BY <1>1, <1>2, <1>4, TaskKinds DEF Places, Ops, DeqPcs, EnqPcs, p
  <1>9. Midway'
    <2> SUFFICES ASSUME NEW u \in Tasks
                 PROVE  /\ pc'[u] \in {"deq0", "deqr", "deq1", "deq2"} =>
                             state'[arg'[u]] = "RUNNING" /\ arg'[u] \in Members(runq')
                        /\ pc'[u] \in {"deq3", "deq4"} => state'[arg'[u]] = "WAITING" /\ arg'[u] \in Members(runq')
                        /\ pc'[u] \in {"enq0", "enq1", "enq2"} =>
                             state'[arg'[u]] # "RUNNING" /\ arg'[u] \notin Members(runq')
                        /\ pc'[u] \in {"enq3", "enq4"} => state'[arg'[u]] = "RUNNING" /\ arg'[u] \notin Members(runq')
      BY DEF Midway
    <2>1. CASE u = t  BY <1>1, <1>2, <1>4, <2>1 DEF Midway, rqVars, p, s, x
    <2>2. CASE u # t
      <3>1. pc[u] \in Ops => state'[arg[u]] = state[arg[u]]
        BY <1>1, <1>4, <1>5, <2>2, TaskKinds DEF Places
      <3> QED BY <1>1, <1>2, <1>4, <2>2, <3>1 DEF Midway, rqVars, Ops, DeqPcs, EnqPcs
    <2> QED BY <2>1, <2>2
  <1>10. Undisturbed'  BY <1>1, <1>2, <1>4, TaskKinds DEF Undisturbed, Ops, DeqPcs, EnqPcs, LockPcs, p
  <1>11. Begun'  BY <1>1, <1>2, <1>3, <1>4, TaskKinds DEF Begun, s, p
  <1>12. Waking'
    <2>1. current' \in Sleepers /\ pc'[current'] = "run" => state'[current'] = "RUNNING"
      BY <1>2, <1>4 DEF p
    <2>2. ~OpsQuiet => \A u \in CfsTasks : u # x => state'[u] = state[u]  BY <1>4, TaskKinds
    <2>3. ~OpsQuiet => oneshot[x] = 0 /\ pc'[x] # "tmr"
      BY <1>1, <1>2, <1>4 DEF Undisturbed, Ops, DeqPcs, EnqPcs, p, x
    <2> QED BY <1>1, <1>2, <1>4, <2>1, <2>2, <2>3, TaskKinds DEF Waking, p
  <1> QED BY <1>6, <1>7, <1>8, <1>9, <1>10, <1>11, <1>12 DEF SchedInv, Live

\* The last step of dequeue_se_to_wq(): the task is in the tree, and idle stays there.
LEMMA DeqEraseInv ==
  ASSUME SchedInv, fault = "none", NEW t \in Tasks, DeqErase(t)
  PROVE  SchedInv' /\ fault' = "none"
  <1> DEFINE x == arg[t]
             p == AfterDequeue(t)
             v == update_vruntime_runq(vrun, runq, rb_leftmost, x)
  <1>1. TypeOK /\ Queued /\ Places /\ Midway /\ Undisturbed /\ Begun /\ Waking
    BY DEF SchedInv, Live
  <1>2. pc[t] = "deq4" /\ current = t  BY DEF DeqErase, Running
  <1>3. /\ x \in Wakeable \cap Created /\ x \in CfsTasks /\ x \notin {Idle, Shell} /\ t \in Sleepers \cup {Shell}
        /\ x \in Members(runq) /\ state[x] = "WAITING"
    BY <1>1, <1>2, TaskKinds DEF Places, Midway, Ops, DeqPcs
  <1>4. /\ dequeue_se(runq, v, rb_leftmost, x)
        /\ pc' = [pc EXCEPT ![t] = p] /\ arg' = [arg EXCEPT ![t] = NoTask]
        /\ UNCHANGED <<tasklist, state, wqVars, current, yield_task, rtVars, oneshot, fault>>
    BY <1>3 DEF DeqErase, Call, Goto
  <1>5. /\ runq' \in Seq(CfsTasks) /\ NoDuplicates(runq')
        /\ Members(runq') = Members(runq) \ {x}
        /\ Len(runq') > 0 /\ rb_leftmost' = runq'[1] /\ vrun' \in [CfsTasks -> Nat]
    <2>1. runq \in Seq(CfsTasks) /\ NoDuplicates(runq) /\ rb_leftmost = runq[1]
          /\ {Idle, Shell} \subseteq Members(runq) /\ vrun \in [CfsTasks -> Nat]
          /\ rb_leftmost \in CfsTasks \cup {NoTask}
      BY <1>1 DEF TypeOK, Queued, QueuesAgree, LeftmostCached
    <2>2. v \in [CfsTasks -> Nat]  BY <2>1, UpdateRunqType
    <2> HIDE DEF v, x
    <2> QED BY <1>3, <1>4, <2>1, <2>2, DequeueSe
  <1>6. /\ pc'[t] = p /\ \A u \in Tasks \ {t} : pc'[u] = pc[u]
        /\ arg'[t] = NoTask /\ \A u \in Tasks \ {t} : arg'[u] = arg[u]
        /\ Created' = Created
    BY <1>1, <1>4, Typed0 DEF Created
  <1>7. \A u \in Tasks : pc[u] \in Ops /\ u # t => arg[u] # x
    BY <1>2, OneEach DEF Ops, DeqPcs
  <1>8. \/ p = "run" /\ t = Shell
        \/ p = "yld" /\ t = Worker
        \/ p = "tmr" /\ t \in Cfs
    BY <1>3, TaskKinds DEF AfterDequeue, Wakeable
  <1>9. rb_leftmost' \in CfsTasks \cup {NoTask}
    <2>1. Len(runq') \in Nat  BY <1>5, LenProperties
    <2> QED BY <1>5, <2>1
  <1> HIDE DEF p, x, v
  <1>10. TypeOK'
    BY <1>1, <1>4, <1>5, <1>8, <1>9 DEF TypeOK, Pcs, wqVars, rtVars
  <1>11. Queued'
    <2>1. ASSUME NEW y \in CfsTasks, y # x, InTransit(y) PROVE InTransit(y)'
      BY <1>2, <1>6, <2>1 DEF InTransit, x
    <2>2. x \notin Members(runq') /\ state'[x] # "RUNNING"  BY <1>3, <1>4, <1>5
    <2>3. QueuesAgree'
      BY <1>1, <1>4, <1>5, <1>6, <2>1, <2>2 DEF Queued, QueuesAgree
    <2>4. LeftmostCached' BY <1>5 DEF LeftmostCached
    <2> QED BY <1>1, <1>3, <1>5, <1>6, <2>3, <2>4 DEF Queued
  <1>12. Places'  BY <1>1, <1>4, <1>6, <1>8, TaskKinds DEF Places, Ops, DeqPcs, EnqPcs
  <1>13. Midway'
    <2>1. \A u \in Tasks : pc'[u] \in Ops => u # t  BY <1>6, <1>8 DEF Ops, DeqPcs, EnqPcs
    <2>2. \A u \in Tasks \ {t} : pc[u] \in Ops => (arg[u] \in Members(runq') <=> arg[u] \in Members(runq))
      BY <1>5, <1>7
    <2> QED BY <1>1, <1>4, <1>6, <2>1, <2>2 DEF Midway, Ops, DeqPcs, EnqPcs
  <1>14. Undisturbed'
    BY <1>1, <1>2, <1>4, <1>6, <1>8, TaskKinds DEF Undisturbed, Ops, DeqPcs, EnqPcs, LockPcs
  <1>15. Begun'  BY <1>1, <1>2, <1>4, <1>6 DEF Begun
  <1>16. Waking'
    <2>1. current' \in Sleepers /\ pc'[current'] = "run" => state'[current'] = "RUNNING"
      BY <1>2, <1>4, <1>6, <1>8, TaskKinds
    <2>2. ~OpsQuiet => oneshot[t] = 0 /\ state[t] = "WAITING"
      BY <1>1, <1>2, <1>3 DEF Undisturbed, DeqPcs, x
    <2> QED BY <1>1, <1>4, <1>6, <2>1, <2>2, TaskKinds, Typed0 DEF Waking
  <1> QED BY <1>1, <1>4, <1>10, <1>11, <1>12, <1>13, <1>14, <1>15, <1>16 DEF SchedInv, Live

\* The last step of enqueue_se_to_runq(): the task is not in the tree.
LEMMA EnqInsertInv ==
  ASSUME SchedInv, fault = "none", NEW t \in Tasks, EnqInsert(t)
  PROVE  SchedInv' /\ fault' = "none"
  <1> DEFINE x == arg[t]
             v == update_vruntime_runq(vrun, runq, rb_leftmost, x)
  <1>1. TypeOK /\ Queued /\ Places /\ Midway /\ Undisturbed /\ Begun /\ Waking
    BY DEF SchedInv, Live
  <1>2. pc[t] = "enq4" /\ current = t  BY DEF EnqInsert, Running
  <1>3. /\ x \in Wakeable \cap Created /\ x \in CfsTasks /\ t = Shell
        /\ x \notin Members(runq) /\ state[x] = "RUNNING"
    BY <1>1, <1>2, TaskKinds DEF Places, Midway, Ops, EnqPcs
  <1>4. /\ enqueue_se(runq, v, rb_leftmost, x)
        /\ pc' = [pc EXCEPT ![t] = "run"] /\ arg' = [arg EXCEPT ![t] = NoTask]
        /\ UNCHANGED <<tasklist, state, wqVars, current, yield_task, rtVars, oneshot, fault>>
    <2>1. x \notin Members(runq) \cup Rt \cup Oneshot  BY <1>3, TaskKinds
    <2> QED BY <2>1 DEF EnqInsert, InsertInRunq, Call, Goto
  <1>5. /\ runq' \in Seq(CfsTasks) /\ NoDuplicates(runq')
        /\ Members(runq') = Members(runq) \cup {x}
        /\ Len(runq') > 0 /\ rb_leftmost' = runq'[1] /\ vrun' \in [CfsTasks -> Nat]
    <2>1. runq \in Seq(CfsTasks) /\ NoDuplicates(runq) /\ rb_leftmost = runq[1]
          /\ vrun \in [CfsTasks -> Nat] /\ rb_leftmost \in CfsTasks \cup {NoTask}
      BY <1>1 DEF TypeOK, Queued, QueuesAgree, LeftmostCached
    <2>2. v \in [CfsTasks -> Nat]  BY <2>1, UpdateRunqType
    <2> HIDE DEF v, x
    <2> QED BY <1>3, <1>4, <2>1, <2>2, EnqueueSe
  <1>6. /\ pc'[t] = "run" /\ \A u \in Tasks \ {t} : pc'[u] = pc[u]
        /\ arg'[t] = NoTask /\ \A u \in Tasks \ {t} : arg'[u] = arg[u]
        /\ Created' = Created
    BY <1>1, <1>4, Typed0 DEF Created
  <1>7. \A u \in Tasks : pc[u] \in Ops /\ u # t => arg[u] # x
    BY <1>2, OneEach DEF Ops, EnqPcs
  <1>8. rb_leftmost' \in CfsTasks \cup {NoTask}
    <2>1. Len(runq') \in Nat  BY <1>5, LenProperties
    <2> QED BY <1>5, <2>1
  <1> HIDE DEF x, v
  <1>9. TypeOK'  BY <1>1, <1>4, <1>5, <1>8 DEF TypeOK, Pcs, wqVars, rtVars
  <1>10. Queued'
    <2>1. ASSUME NEW y \in CfsTasks, y # x, InTransit(y) PROVE InTransit(y)'
      BY <1>2, <1>6, <2>1 DEF InTransit, x
    <2>2. x \in Members(runq') /\ state'[x] = "RUNNING"  BY <1>3, <1>4, <1>5
    <2>3. QueuesAgree'
      BY <1>1, <1>4, <1>5, <1>6, <2>1, <2>2 DEF Queued, QueuesAgree
    <2>4. LeftmostCached' BY <1>5 DEF LeftmostCached
    <2> QED BY <1>1, <1>3, <1>5, <1>6, <2>3, <2>4 DEF Queued
  <1>11. Places'  BY <1>1, <1>4, <1>6, TaskKinds DEF Places, Ops, DeqPcs, EnqPcs
  <1>12. Midway'
    <2>1. \A u \in Tasks : pc'[u] \in Ops => u # t  BY <1>6 DEF Ops, DeqPcs, EnqPcs
    <2>2. \A u \in Tasks \ {t} : pc[u] \in Ops => (arg[u] \in Members(runq') <=> arg[u] \in Members(runq))
      BY <1>5, <1>7
    <2> QED BY <1>1, <1>4, <1>6, <2>1, <2>2 DEF Midway, Ops, DeqPcs, EnqPcs
  <1>13. Undisturbed'
    BY <1>1, <1>2, <1>4, <1>6, TaskKinds DEF Undisturbed, Ops, DeqPcs, EnqPcs, LockPcs
  <1>14. Begun'  BY <1>1, <1>2, <1>4, <1>6 DEF Begun
  <1>15. Waking'
    <2>1. current' \in Sleepers /\ pc'[current'] = "run" => state'[current'] = "RUNNING"
      BY <1>2, <1>3, <1>4, TaskKinds
    <2> QED BY <1>1, <1>4, <1>6, <2>1, TaskKinds, Typed0 DEF Waking
  <1> QED BY <1>1, <1>4, <1>9, <1>10, <1>11, <1>12, <1>13, <1>14, <1>15 DEF SchedInv, Live

\* The shell finds created tasks only (the search over the first cfs_task_num tasks).
LEMMA FoundIs ==
  ASSUME TypeOK, NEW t, Found(t)
  PROVE  t \in Created
  <1> DEFINE n == Len(tasklist)
  <1>1. tasklist \in Seq(Tasks) /\ n \in Nat /\ tasklist \in [1..n -> Tasks]
    BY LenProperties DEF TypeOK
  <1>2. tasklist \in Surjection(1..n, Created)
    BY <1>1 DEF Surjection, Created, Members
  <1>3. IsFiniteSet(1..n) /\ Cardinality(1..n) = n
    <2> HIDE DEF n
    <2>1. IsFiniteSet(1..n) /\ Cardinality(1..n) = IF 1 > n THEN 0 ELSE n - 1 + 1
      BY <1>1, FS_Interval
    <2> QED BY <1>1, <2>1
  <1>4. IsFiniteSet(Created) /\ Cardinality(Created) <= n /\ Cardinality(Created) \in Nat
    <2> HIDE DEF n
    <2>1. IsFiniteSet(Created) /\ Cardinality(Created) <= Cardinality(1..n)
      BY <1>2, <1>3, FS_Surjection
    <2> QED BY <1>3, <2>1, FS_CardinalityType
  <1>5. cfs_task_num <= n /\ cfs_task_num \in Nat
    <2> DEFINE C == Created \cap CfsTasks
    <2>1. IsFiniteSet(C) /\ Cardinality(C) <= Cardinality(Created)  BY <1>4, FS_Subset
    <2>2. Cardinality(C) \in Nat  BY <2>1, FS_CardinalityType
    <2> HIDE DEF n
    <2> QED BY <1>1, <1>4, <2>1, <2>2 DEF cfs_task_num
  <1>6. PICK j \in 1..cfs_task_num : tasklist[j] = t  BY DEF Found
  <1>7. j \in 1..n  BY <1>1, <1>5, <1>6
  <1> QED BY <1>1, <1>6, <1>7, MembersOf DEF Created

\* forkyi() with room in the table: a task that was never there before.
LEMMA Forked ==
  ASSUME SchedInv, fault = "none", Room, NEW t \in Tasks, forkyi(t)
  PROVE  /\ t \notin Created /\ fault' = "none"
         /\ tasklist' \in Seq(Tasks) /\ NoDuplicates(tasklist') /\ Created' = Created \cup {t}
         /\ yield_task' = [yield_task EXCEPT ![t] = current]
         /\ t \notin Members(runq) /\ state[t] = "NONE" /\ oneshot[t] = 0 /\ pc[t] = "run"
         /\ t # current /\ \A u \in Tasks : yield_task[u] # t
         /\ \A u \in Tasks : pc[u] \in Ops => arg[u] # t
  <1>1. TypeOK /\ Queued /\ Places /\ Begun  BY DEF SchedInv, Live
  <1>2. t \notin Created /\ tasklist \in Seq(Tasks) /\ NoDuplicates(tasklist) /\ Len(tasklist) \in Nat
    BY <1>1, LenProperties DEF TypeOK, Begun, forkyi
  <1>3. /\ tasklist' = Append(tasklist, t) /\ fault' = "none"
        /\ yield_task' = [yield_task EXCEPT ![t] = current]
    BY <1>2, RoomForOne DEF forkyi
  <1>4. /\ tasklist' \in Seq(Tasks) /\ Len(tasklist') = Len(tasklist) + 1
        /\ \A i \in 1..Len(tasklist) : tasklist'[i] = tasklist[i]
        /\ tasklist'[Len(tasklist) + 1] = t
    BY <1>2, <1>3, AppendProperties
  <1>5. Created' = Created \cup {t}
    <2>1. ASSUME NEW i \in 1..Len(tasklist') PROVE tasklist'[i] \in Members(tasklist) \cup {t}
      BY <1>2, <1>4, MembersOf
    <2>2. ASSUME NEW i \in 1..Len(tasklist) PROVE tasklist[i] \in Members(tasklist')
      BY <1>2, <1>4, i \in 1..Len(tasklist') DEF Members
    <2>3. t \in Members(tasklist')  BY <1>2, <1>4 DEF Members
    <2> QED BY <2>1, <2>2, <2>3 DEF Created, Members
  <1>6. NoDuplicates(tasklist')
    <2>1. \A i \in 1..Len(tasklist) : tasklist[i] # t  BY <1>2, MembersOf DEF Created
    <2> QED BY <1>2, <1>4, <2>1 DEF NoDuplicates
  <1>7. /\ t \notin Members(runq) /\ state[t] = "NONE" /\ oneshot[t] = 0 /\ pc[t] = "run"
        /\ t # current /\ t # NoTask /\ \A u \in Tasks : yield_task[u] # t
    BY <1>1, <1>2, TaskKinds DEF Queued, Begun
  <1>8. \A u \in Tasks : pc[u] \in Ops => arg[u] # t  BY <1>1, <1>2 DEF Places
  <1> QED BY <1>2, <1>3, <1>4, <1>5, <1>6, <1>7, <1>8

LEMMA CreateInv ==
  ASSUME SchedInv, fault = "none", Careful, NEW t \in Tasks,
         create_cfs_task(t) \/ create_rt_task(t) \/ create_oneshot_task(t)
  PROVE  SchedInv' /\ fault' = "none"
  <1>1. TypeOK /\ Queued /\ Places /\ Midway /\ Undisturbed /\ Begun /\ Waking
    BY DEF SchedInv, Live
  <1>2. /\ forkyi(t) /\ current = Shell /\ pc[Shell] = "run" /\ t \in Cfs \cup Rt \cup Oneshot
        /\ UNCHANGED <<rqVars, wqVars, current, rtVars, oneshot>>
    BY DEF create_cfs_task, create_rt_task, create_oneshot_task, Typed, Running
  <1>3. /\ t \notin Created /\ fault' = "none"
        /\ tasklist' \in Seq(Tasks) /\ NoDuplicates(tasklist') /\ Created' = Created \cup {t}
        /\ yield_task' = [yield_task EXCEPT ![t] = current]
        /\ t \notin Members(runq) /\ state[t] = "NONE" /\ oneshot[t] = 0 /\ pc[t] = "run"
        /\ t # current /\ \A u \in Tasks : yield_task[u] # t
        /\ \A u \in Tasks : pc[u] \in Ops => arg[u] # t
    BY <1>2, Forked DEF Careful
  <1>4. \/ /\ t \in Cfs /\ state' = state
           /\ pc' = [pc EXCEPT ![Shell] = "enq0"] /\ arg' = [arg EXCEPT ![Shell] = t]
        \/ /\ t \in Rt /\ state' = [state EXCEPT ![t] = "RUNNING"] /\ pc' = pc /\ arg' = arg
        \/ /\ t \in Oneshot /\ state' = [state EXCEPT ![t] = "RUNNING"]
           /\ pc' = [pc EXCEPT ![Shell] = "tmr"] /\ arg' = [arg EXCEPT ![Shell] = t]
    BY DEF create_cfs_task, create_rt_task, create_oneshot_task, Call, Goto
  <1>5. /\ \A u \in Tasks \ {Shell} : pc'[u] = pc[u] /\ arg'[u] = arg[u]
        /\ \/ t \in Cfs /\ pc'[Shell] = "enq0" /\ arg'[Shell] = t
           \/ t \in Rt /\ pc'[Shell] = "run"
           \/ t \in Oneshot /\ pc'[Shell] = "tmr" /\ arg'[Shell] = t
        /\ \A u \in Tasks \ {t} : state'[u] = state[u] /\ yield_task'[u] = yield_task[u]
        /\ IF t \in Cfs THEN state'[t] = "NONE" ELSE state'[t] = "RUNNING"
        /\ yield_task'[t] = Shell
    BY <1>1, <1>2, <1>3, <1>4, Typed0, TaskKinds
  <1>6. TypeOK'
    <2>1. Shell \in Tasks /\ current \in Tasks  BY <1>1, Typed0, TaskKinds
    <2>2. pc' \in [Tasks -> Pcs]  BY <1>1, <1>4 DEF TypeOK, Pcs
    <2>3. arg' \in [Tasks -> Tasks \cup {NoTask}]  BY <1>1, <1>4 DEF TypeOK
    <2>4. state' \in [Tasks -> {"NONE", "RUNNING", "WAITING"}]  BY <1>1, <1>4 DEF TypeOK
    <2>5. yield_task' \in [Tasks -> Tasks \cup {NoTask}]  BY <1>1, <1>3, <2>1 DEF TypeOK
    <2> QED BY <1>1, <1>2, <1>3, <2>2, <2>3, <2>4, <2>5 DEF TypeOK, rqVars, wqVars, rtVars
  <1>7. Queued'
    <2>1. ASSUME NEW y \in CfsTasks, InTransit(y) PROVE InTransit(y)'
      BY <1>2, <1>5, <2>1, TaskKinds DEF InTransit, DeqPcs, EnqPcs
    <2>2. t \in CfsTasks => InTransit(t)'  BY <1>5, TaskKinds DEF InTransit, EnqPcs
    <2>3. runq' = runq /\ rb_leftmost' = rb_leftmost  BY <1>2 DEF rqVars
    <2>4. QueuesAgree'
      BY <1>1, <1>3, <1>5, <2>1, <2>2, <2>3, TaskKinds DEF Queued, QueuesAgree
    <2> QED BY <1>1, <1>3, <2>3, <2>4 DEF Queued, LeftmostCached
  <1>8. Places'
    BY <1>1, <1>2, <1>3, <1>5, TaskKinds DEF Places, Ops, DeqPcs, EnqPcs, Wakeable
  <1>9. Midway'
    <2>1. runq' = runq  BY <1>2 DEF rqVars
    <2>2. \A u \in Tasks \ {Shell} : pc[u] \in Ops => state'[arg[u]] = state[arg[u]]
      BY <1>1, <1>3, <1>5, TaskKinds DEF Places
    <2>3. \A u \in Tasks \ {Shell} : pc'[u] = pc[u] /\ arg'[u] = arg[u]  BY <1>5
    <2>4. pc'[Shell] \in Ops => /\ pc'[Shell] = "enq0" /\ arg'[Shell] = t
                               /\ state'[t] = "NONE" /\ t \notin Members(runq)
      BY <1>3, <1>5, TaskKinds DEF Ops, DeqPcs, EnqPcs
    <2> QED BY <1>1, <2>1, <2>2, <2>3, <2>4 DEF Midway, Ops, DeqPcs, EnqPcs
  <1>10. Undisturbed'
    <2>1. \A u \in Tasks : pc[u] \notin EnqPcs
      BY <1>1, <1>2 DEF Places, EnqPcs
    <2> QED BY <1>1, <1>2, <1>3, <1>5, <2>1, TaskKinds DEF Undisturbed, Ops, DeqPcs, EnqPcs, LockPcs
  <1>11. Begun'
    <2>1. state[Shell] # "NONE"  BY <1>1, <1>2, TaskKinds DEF Begun
    <2> QED BY <1>1, <1>2, <1>3, <1>5, <2>1, TaskKinds DEF Begun
  <1>12. Waking'
    BY <1>1, <1>2, <1>3, <1>5, TaskKinds, Typed0 DEF Waking
  <1> QED BY <1>3, <1>6, <1>7, <1>8, <1>9, <1>10, <1>11, <1>12 DEF SchedInv, Live

\* A task that has the CPU in its own code, with no operation on it under way, is in
\* the run queue exactly if its state says so.
LEMMA OpStarts ==
  ASSUME SchedInv, fault = "none", NEW t \in Tasks, current = t, NEW x, NEW p,
         x \in Wakeable \cap Created,
         \A u \in Tasks : pc[u] \in Ops => arg[u] # x,
         pc[t] = "run",
         \/ p = "deq0" /\ state[x] = "RUNNING" /\ t \in Sleepers \cup {Shell}
         \/ p = "enq0" /\ state[x] # "RUNNING" /\ t = Shell,
         OpsQuiet \/ (p = "deq0" /\ x = t /\ t # Shell),
         pc' = [pc EXCEPT ![t] = p], arg' = [arg EXCEPT ![t] = x],
         UNCHANGED <<tasklist, state, rqVars, wqVars, current, yield_task, rtVars, oneshot, fault>>
  PROVE  SchedInv' /\ fault' = "none"
  <1>1. TypeOK /\ Queued /\ Places /\ Midway /\ Undisturbed /\ Begun /\ Waking
    BY DEF SchedInv, Live
  <1>2. /\ pc'[t] = p /\ \A u \in Tasks \ {t} : pc'[u] = pc[u]
        /\ arg'[t] = x /\ \A u \in Tasks \ {t} : arg'[u] = arg[u]
        /\ Created' = Created /\ x \in CfsTasks /\ x \in Tasks
    BY <1>1, Typed0, TaskKinds DEF Created
  <1>3. ~InTransit(x)  BY DEF InTransit, Ops
  <1>4. x \in Members(runq) <=> state[x] = "RUNNING"
    BY <1>1, <1>2, <1>3 DEF Queued, QueuesAgree
  <1>5. runq' = runq /\ rb_leftmost' = rb_leftmost  BY DEF rqVars
  <1>6. TypeOK'
    <2>1. pc' \in [Tasks -> Pcs]  BY <1>1 DEF TypeOK, Pcs
    <2>2. arg' \in [Tasks -> Tasks \cup {NoTask}]  BY <1>1, <1>2 DEF TypeOK
    <2> QED BY <1>1, <2>1, <2>2 DEF TypeOK, rqVars, wqVars, rtVars
  <1>7. Queued'
    <2>1. ASSUME NEW y \in CfsTasks, InTransit(y) PROVE InTransit(y)'
      BY <1>2, <2>1 DEF InTransit, DeqPcs, EnqPcs
    <2>2. InTransit(x)'  BY <1>2 DEF InTransit, DeqPcs, EnqPcs
    <2>3. QueuesAgree'  BY <1>1, <1>2, <1>5, <2>1, <2>2 DEF Queued, QueuesAgree
    <2> QED BY <1>1, <1>2, <1>5, <2>3 DEF Queued, LeftmostCached
  <1>8. Places'  BY <1>1, <1>2, TaskKinds DEF Places, Ops, DeqPcs, EnqPcs
  <1>9. Midway'  BY <1>1, <1>2, <1>4, <1>5, TaskKinds DEF Midway, Ops, DeqPcs, EnqPcs
  <1>10. Undisturbed'
    <2>1. OpsQuiet => \A u \in Tasks : pc'[u] \in Ops => u = current'
      BY <1>1, <1>2 DEF Undisturbed
    <2>2. \A u \in Tasks : pc'[u] \in LockPcs => u = current'
      BY <1>1, <1>2 DEF Undisturbed, LockPcs
    <2>3. ~OpsQuiet => oneshot[t] = 0
      BY <1>1, <1>2, Typed0, TaskKinds DEF Waking
    <2>4. ~OpsQuiet => \A u \in Tasks : pc'[u] \in EnqPcs => u # t /\ arg[u] # t
      BY <1>1, <1>2 DEF Undisturbed, EnqPcs
    <2> QED BY <1>1, <1>2, <2>1, <2>2, <2>3, <2>4 DEF Undisturbed, DeqPcs, EnqPcs, Ops
  <1>11. Begun'
    <2>1. state[t] # "NONE"  BY <1>1 DEF Begun
    <2> QED BY <1>1, <1>2, <2>1 DEF Begun
  <1>12. Waking'
    <2>1. ~OpsQuiet => oneshot[t] = 0  BY <1>1, <1>2, Typed0, TaskKinds DEF Waking
    <2> QED BY <1>1, <1>2, <2>1 DEF Waking
  <1> QED BY <1>6, <1>7, <1>8, <1>9, <1>10, <1>11, <1>12 DEF SchedInv, Live

\* The operator suspends or wakes a task (the sleep and run commands).
LEMMA OperatorInv ==
  ASSUME SchedInv, fault = "none", Careful, NEW t \in Tasks, SleepCommand(t) \/ RunCommand(t)
  PROVE  SchedInv' /\ fault' = "none"
  <1>1. /\ current = Shell /\ pc[Shell] = "run" /\ t \in Targets /\ Found(t)
        /\ UNCHANGED <<tasklist, state, rqVars, wqVars, current, yield_task, rtVars, oneshot, fault>>
    BY DEF SleepCommand, RunCommand, Typed, Running
  <1>2. OpsQuiet /\ t \in Wakeable  BY <1>1 DEF Careful, Apart
  <1>3. TypeOK /\ Undisturbed  BY DEF SchedInv, Live
  <1>4. t \in Created  BY <1>1, <1>3, FoundIs
  <1>5. \A u \in Tasks : pc[u] \in Ops => arg[u] # t
    BY <1>1, <1>2, <1>3 DEF Undisturbed, Ops, DeqPcs, EnqPcs
  <1>6. Shell \in Tasks  BY TaskKinds
  <1>7. CASE SleepCommand(t)
    <2>1. /\ state[t] = "RUNNING"
          /\ pc' = [pc EXCEPT ![Shell] = "deq0"] /\ arg' = [arg EXCEPT ![Shell] = t]
      BY <1>7 DEF SleepCommand, Call, Goto
    <2> QED BY <1>1, <1>2, <1>4, <1>5, <1>6, <2>1, OpStarts
  <1>8. CASE RunCommand(t)
    <2>1. /\ state[t] # "RUNNING"
          /\ pc' = [pc EXCEPT ![Shell] = "enq0"] /\ arg' = [arg EXCEPT ![Shell] = t]
      BY <1>8 DEF RunCommand, Call, Goto
    <2> QED BY <1>1, <1>2, <1>4, <1>5, <1>6, <2>1, OpStarts
  <1> QED BY <1>7, <1>8

\* A task suspends itself: it is the running one, so nobody is suspending or waking it.
LEMMA SleepInv ==
  ASSUME SchedInv, fault = "none", NEW t \in Tasks, Sleep(t)
  PROVE  SchedInv' /\ fault' = "none"
  <1>1. /\ t \in Sleepers /\ current = t /\ pc[t] = "run"
        /\ pc' = [pc EXCEPT ![t] = "deq0"] /\ arg' = [arg EXCEPT ![t] = t]
        /\ UNCHANGED <<tasklist, state, rqVars, wqVars, current, yield_task, rtVars, oneshot, fault>>
    BY DEF Sleep, Running, Call, Goto
  <1>2. Undisturbed /\ Begun /\ Waking  BY DEF SchedInv, Live
  <1>3. t \in Wakeable \cap Created /\ t # Shell  BY <1>1, <1>2, TaskKinds DEF Begun
  <1>4. state[t] = "RUNNING"  BY <1>1, <1>2 DEF Waking
  <1>5. \A u \in Tasks : pc[u] \in Ops => arg[u] # t
    BY <1>1, <1>2 DEF Undisturbed, Ops, DeqPcs, EnqPcs
  <1> QED BY <1>1, <1>3, <1>4, <1>5, OpStarts

\* delay() arms the timer of its caller, the shell that of a new one-shot task.
LEMMA TimerInv ==
  ASSUME SchedInv, fault = "none", NEW t \in Tasks, create_oneshot_timer(t)
  PROVE  SchedInv' /\ fault' = "none"
  <1> DEFINE x == IF t = Shell THEN arg[t] ELSE t
             p == IF t = Shell THEN "run" ELSE "dyld"
  <1>1. TypeOK /\ Queued /\ Places /\ Midway /\ Undisturbed /\ Begun /\ Waking
    BY DEF SchedInv, Live
  <1>2. /\ current = t /\ pc[t] = "tmr" /\ oneshot[x] < MaxTimers
        /\ oneshot' = [oneshot EXCEPT ![x] = @ + 1]
        /\ pc' = [pc EXCEPT ![t] = p] /\ arg' = [arg EXCEPT ![t] = NoTask]
        /\ UNCHANGED <<tasklist, state, rqVars, wqVars, current, yield_task, rtVars, fault>>
    BY DEF create_oneshot_timer, Running, Call, Goto
  <1>3. \/ t \in Cfs /\ t # Shell /\ x = t /\ p = "dyld"
        \/ t = Shell /\ x \in Oneshot \cap Created /\ p = "run"
    BY <1>1, <1>2, TaskKinds DEF Places
  <1>4. x \in Tasks /\ x \in Created  BY <1>1, <1>2, <1>3, TaskKinds DEF Begun
  <1>5. /\ pc'[t] = p /\ \A u \in Tasks \ {t} : pc'[u] = pc[u]
        /\ arg'[t] = NoTask /\ \A u \in Tasks \ {t} : arg'[u] = arg[u]
        /\ oneshot'[x] = oneshot[x] + 1 /\ \A u \in Tasks \ {x} : oneshot'[u] = oneshot[u]
        /\ Created' = Created
    BY <1>1, <1>2, <1>4, Typed0 DEF Created
  <1> HIDE DEF x, p
  <1>6. runq' = runq /\ rb_leftmost' = rb_leftmost  BY <1>2 DEF rqVars
  <1>7. TypeOK'
    <2>1. pc' \in [Tasks -> Pcs]  BY <1>1, <1>2, <1>3 DEF TypeOK, Pcs
    <2>2. arg' \in [Tasks -> Tasks \cup {NoTask}]  BY <1>1, <1>2 DEF TypeOK
    <2>3. oneshot[x] + 1 \in 0..MaxTimers
      BY <1>1, <1>2, <1>4, Typed0, SchedAssumption
    <2>4. oneshot' \in [Tasks -> 0..MaxTimers]  BY <1>1, <1>2, <2>3 DEF TypeOK
    <2> QED BY <1>1, <1>2, <2>1, <2>2, <2>4 DEF TypeOK, rqVars, wqVars, rtVars
  <1>8. \A u \in Tasks : /\ pc'[u] \in Ops <=> pc[u] \in Ops
                         /\ pc[u] \in Ops => pc'[u] = pc[u] /\ arg'[u] = arg[u]
    BY <1>2, <1>3, <1>5 DEF Ops, DeqPcs, EnqPcs
  <1>9. Queued'
    <2>1. \A y \in CfsTasks : InTransit(y) => InTransit(y)'  BY <1>8 DEF InTransit, Ops
    <2> QED BY <1>1, <1>2, <1>5, <1>6, <2>1 DEF Queued, QueuesAgree, LeftmostCached
  <1>10. Places'  BY <1>1, <1>2, <1>3, <1>5, TaskKinds DEF Places, Ops, DeqPcs, EnqPcs
  <1>11. Midway'  BY <1>1, <1>2, <1>6, <1>8 DEF Midway, Ops, DeqPcs, EnqPcs
  <1>12. Undisturbed'
    <2>1. \A u \in Tasks : pc'[u] \in LockPcs => u = current'
      BY <1>1, <1>2, <1>3, <1>5 DEF Undisturbed, LockPcs
    <2>2. ~OpsQuiet => \A u \in Tasks : pc[u] \in DeqPcs => u # x
      BY <1>1, <1>2, <1>3, TaskKinds DEF Places, DeqPcs
    <2>3. ~OpsQuiet => \A u \in Tasks : pc[u] \in EnqPcs => arg[u] # x /\ arg[u] # t
      BY <1>1, <1>2, <1>3, TaskKinds DEF Undisturbed, Places, Ops, EnqPcs
    <2> QED BY <1>1, <1>2, <1>4, <1>5, <1>8, <2>1, <2>2, <2>3, TaskKinds DEF Undisturbed, Places, Ops, DeqPcs, EnqPcs
  <1>13. Begun'
    <2>1. state[t] # "NONE" /\ state[x] # "NONE"
      BY <1>1, <1>2, <1>3, <1>4, TaskKinds DEF Begun
    <2> QED BY <1>1, <1>2, <1>5, <2>1 DEF Begun
  <1>14. Waking'
    <2>1. ~OpsQuiet /\ x = t => oneshot[t] = 0 /\ state[t] = "WAITING"
      BY <1>1, <1>2, <1>3, TaskKinds, Typed0 DEF Waking
    <2>2. x = t \/ x \notin CfsTasks  BY <1>3, TaskKinds
    <2> QED BY <1>1, <1>2, <1>3, <1>5, <2>1, <2>2, TaskKinds DEF Waking
  <1> QED BY <1>2, <1>7, <1>9, <1>10, <1>11, <1>12, <1>13, <1>14 DEF SchedInv, Live

-----------------------------------------------------------------------------
(* Whoever gives up the CPU gives it to a task that can run.                 *)

\* Whom a switch may go to.
Runnable == Members(runq) \cup ((Rt \cup Oneshot) \cap Created)

LEMMA RunnableIs ==
  ASSUME SchedInv, fault = "none", NEW x \in Created, state[x] = "RUNNING",
         \A u \in Tasks : pc[u] \in EnqPcs => arg[u] # x
  PROVE  x \in Runnable
  <1>1. TypeOK /\ Queued /\ Midway  BY DEF SchedInv, Live
  <1>2. x \in Tasks
    <2>1. tasklist \in Seq(Tasks)  BY <1>1 DEF TypeOK
    <2> QED BY <2>1, MembersOf DEF Created
  <1>3. CASE x \in CfsTasks
    <2>1. CASE ~InTransit(x)  BY <1>1, <1>3, <2>1 DEF Queued, QueuesAgree, Runnable
    <2>2. CASE InTransit(x)
      <3>1. PICK u \in Tasks : arg[u] = x /\ pc[u] \in DeqPcs \cup EnqPcs  BY <2>2 DEF InTransit
      <3>2. pc[u] \in DeqPcs  BY <3>1
      <3> QED BY <1>1, <3>1, <3>2 DEF Midway, DeqPcs, Runnable
    <2> QED BY <2>1, <2>2
  <1>4. CASE x \notin CfsTasks  BY <1>2, <1>4, TaskKinds DEF Runnable
  <1> QED BY <1>3, <1>4

LEMMA YieldInv ==
  ASSUME SchedInv, fault = "none", NEW t \in Tasks, DelayYield(t) \/ yieldyi(t)
  PROVE  SchedInv' /\ fault' = "none" /\ current' \in Runnable'
  <1> DEFINE y == yield_task'[t]
  <1>1. TypeOK /\ Queued /\ Places /\ Midway /\ Undisturbed /\ Begun /\ Waking
    BY DEF SchedInv, Live
  <1>2. /\ current = t /\ pc[t] \in {"dyld", "yld"} /\ pc' = [pc EXCEPT ![t] = "run"]
        /\ UNCHANGED <<tasklist, state, rqVars, wqVars, rtVars, oneshot, arg, fault>>
    BY DEF DelayYield, yieldyi, Running, Goto
  <1>3. t \in Created /\ t # Idle /\ t # Shell /\ yield_task[t] \in Created
    BY <1>1, <1>2, TaskKinds DEF Places, Begun
  <1>4. /\ yield_task' \in [Tasks -> Tasks \cup {NoTask}]
        /\ y \in {Idle, yield_task[t]} /\ current' = YieldTo(y)
        /\ \A u \in Tasks \ {t} : yield_task'[u] = yield_task[u]
    <2>1. yield_task \in [Tasks -> Tasks \cup {NoTask}] /\ Idle \in Tasks
      BY <1>1, TaskKinds DEF TypeOK
    <2>2. CASE DelayYield(t)  BY <2>1, <2>2 DEF DelayYield
    <2>3. CASE yieldyi(t)  BY <2>1, <2>3 DEF yieldyi
    <2> QED BY <2>2, <2>3
  <1>5. /\ pc'[t] = "run" /\ \A u \in Tasks \ {t} : pc'[u] = pc[u]
        /\ Created' = Created /\ runq' = runq /\ rb_leftmost' = rb_leftmost
    BY <1>1, <1>2, Typed0 DEF Created, rqVars
  <1> HIDE DEF y
  <1>6. /\ current' \in {Idle, yield_task[t]} /\ current' \in Created /\ current' \in Tasks
        /\ state[current'] = "RUNNING"
    <2>1. Idle \in Created /\ state[Idle] = "RUNNING"  BY <1>1 DEF Begun
    <2>2. Created \subseteq Tasks  BY <1>1, MembersOf DEF Created, TypeOK
    <2> QED BY <1>3, <1>4, <2>1, <2>2 DEF YieldTo
  <1>7. \A u \in Tasks : pc[u] \in EnqPcs => arg[u] # current'
    BY <1>1, <1>2, <1>6, TaskKinds DEF Undisturbed, Places, Ops, EnqPcs, DeqPcs
  <1>8. current' \in Runnable'
    <2>1. current' \in Runnable  BY <1>6, <1>7, RunnableIs
    <2> QED BY <1>5, <2>1 DEF Runnable
  <1>9. TypeOK'
    <2>1. pc' \in [Tasks -> Pcs]  BY <1>1, <1>2 DEF TypeOK, Pcs
    <2> QED BY <1>1, <1>2, <1>4, <1>6, <2>1 DEF TypeOK, rqVars, wqVars, rtVars
  <1>10. \A u \in Tasks : pc'[u] \in Ops <=> pc[u] \in Ops  BY <1>2, <1>5 DEF Ops, DeqPcs, EnqPcs
  <1>11. Queued'
    <2>1. \A x \in CfsTasks : InTransit(x) => InTransit(x)'  BY <1>2, <1>10 DEF InTransit, Ops
    <2> QED BY <1>1, <1>2, <1>5, <2>1 DEF Queued, QueuesAgree, LeftmostCached
  <1>12. Places'  BY <1>1, <1>2, <1>5 DEF Places, Ops, DeqPcs, EnqPcs
  <1>13. Midway'  BY <1>1, <1>2, <1>5 DEF Midway
  <1>14. Undisturbed'
    <2>1. \A u \in Tasks : pc'[u] \notin LockPcs /\ (OpsQuiet => pc'[u] \notin Ops)
      BY <1>1, <1>2, <1>5 DEF Undisturbed, LockPcs, Ops, DeqPcs, EnqPcs
    <2>2. \A u \in Tasks : pc[u] \in EnqPcs => arg[u] # Idle
      BY <1>1, TaskKinds DEF Places, Ops
    <2>3. ~OpsQuiet => \A u \in Tasks : pc[u] \in EnqPcs => \A x \in Tasks : yield_task'[x] # arg[u]
      BY <1>1, <1>3, <1>4, <2>2 DEF Undisturbed, y
    <2> QED BY <1>1, <1>2, <1>5, <1>7, <2>1, <2>3 DEF Undisturbed, Ops, DeqPcs, EnqPcs
  <1>15. Begun'
    <2>1. \A u \in Tasks : state'[u] = "NONE" => pc'[u] = "run" /\ u # current' /\ oneshot'[u] = 0
      BY <1>1, <1>2, <1>5, <1>6 DEF Begun
    <2>2. yield_task'[t] \in Created  BY <1>1, <1>3, <1>4 DEF Begun, y
    <2> QED BY <1>1, <1>2, <1>4, <1>5, <1>6, <2>1, <2>2 DEF Begun
  <1>16. Waking'  BY <1>1, <1>2, <1>5, <1>6 DEF Waking
  <1> QED BY <1>2, <1>8, <1>9, <1>11, <1>12, <1>13, <1>14, <1>15, <1>16 DEF SchedInv, Live

-----------------------------------------------------------------------------
(* The timer interrupt.                                                      *)

\* An interrupt that is let in falls outside the locked sections, and outside every
\* queue operation if those are quiet.
LEMMA InterruptedWhere ==
  ASSUME SchedInv, LocksQuiet, Interruptible
  PROVE  /\ ~WqHeld /\ ~RqHeld
         /\ \A u \in Tasks : pc[u] \notin LockPcs /\ (OpsQuiet => pc[u] \notin Ops)
  <1>1. Undisturbed /\ pc[current] \notin Quiet  BY DEF SchedInv, Live, Interruptible
  <1>2. \A u \in Tasks : pc[u] \notin LockPcs /\ (OpsQuiet => pc[u] \notin Ops)
    BY <1>1 DEF Undisturbed, LocksQuiet, OpsQuiet
  <1> QED BY <1>2 DEF WqHeld, RqHeld, LockPcs

\* A task in the run queue has been started, and unless it is itself going to sleep
\* its state is TASK_RUNNING.
LEMMA QueuedState ==
  ASSUME SchedInv, fault = "none", LocksQuiet, Interruptible, NEW x \in Members(runq)
  PROVE  /\ x \in Created /\ x \in CfsTasks /\ state[x] # "NONE"
         /\ x \in Sleepers /\ pc[x] = "run" => state[x] = "RUNNING"
         /\ \A u \in Tasks : pc[u] \in EnqPcs => arg[u] # x
  <1>1. TypeOK /\ Queued /\ Midway /\ Undisturbed  BY DEF SchedInv, Live
  <1>2. x \in Created /\ x \in CfsTasks
    <2>1. runq \in Seq(CfsTasks)  BY <1>1 DEF TypeOK
    <2> QED BY <1>1, <2>1, MembersOf DEF Queued
  <1>3. \A u \in Tasks : pc[u] \in EnqPcs => arg[u] # x  BY <1>1 DEF Midway, EnqPcs
  <1>4. CASE ~InTransit(x)
    <2>1. state[x] = "RUNNING"  BY <1>1, <1>2, <1>4 DEF Queued, QueuesAgree
    <2> QED BY <1>2, <1>3, <2>1
  <1>5. CASE InTransit(x)
    <2>1. PICK u \in Tasks : arg[u] = x /\ pc[u] \in DeqPcs \cup EnqPcs  BY <1>5 DEF InTransit
    <2>2. pc[u] \in DeqPcs  BY <1>3, <2>1
    <2>3. state[x] # "NONE"  BY <1>1, <2>1, <2>2 DEF Midway, DeqPcs
    <2>4. ~OpsQuiet  BY <2>1, InterruptedWhere DEF Ops
    <2>5. u = x  BY <1>1, <2>1, <2>2, <2>4 DEF Undisturbed
    <2> QED BY <1>2, <1>3, <2>2, <2>3, <2>5 DEF DeqPcs
  <1> QED BY <1>4, <1>5

\* The handler gives the CPU to z, after waking it if it was asleep.
LEMMA SwitchInv ==
  ASSUME SchedInv, fault = "none", LocksQuiet, Interruptible, TypeOK', fault' = "none",
         NEW z \in Created, current' = z,
         NoDuplicates(runq'), LeftmostCached',
         \/ state' = state /\ Members(runq') = Members(runq)
         \/ /\ state[z] = "WAITING" /\ state' = [state EXCEPT ![z] = "RUNNING"] /\ z \in Wakeable
            /\ Members(runq') = Members(runq) \cup {z}
            /\ \A u \in Tasks : pc[u] \in Ops => arg[u] # z,
         state'[z] # "NONE", z \in Sleepers /\ pc[z] = "run" => state'[z] = "RUNNING",
         \A u \in Tasks : pc[u] \in EnqPcs => arg[u] # z,
         \/ yield_task' = yield_task
         \/ yield_task' = [yield_task EXCEPT ![z] = current],
         \/ oneshot' = oneshot /\ state' = state
         \/ oneshot[z] > 0 /\ oneshot' = [oneshot EXCEPT ![z] = @ - 1],
         UNCHANGED <<tasklist, pc, arg>>
  PROVE  SchedInv'
  <1>1. TypeOK /\ Queued /\ Places /\ Midway /\ Undisturbed /\ Begun /\ Waking
    BY DEF SchedInv, Live
  <1>2. /\ z \in Tasks /\ Created' = Created /\ current \in Created
        /\ \A u \in Tasks \ {z} : /\ state'[u] = state[u] /\ yield_task'[u] = yield_task[u]
                                  /\ oneshot'[u] = oneshot[u]
        /\ yield_task'[z] \in {yield_task[z], current}
        /\ state' # state => state'[z] = "RUNNING"
        /\ \A x \in Tasks \ {z} : x \in Members(runq') <=> x \in Members(runq)
    <2>1. Created \subseteq Tasks  BY <1>1, MembersOf DEF Created, TypeOK
    <2> QED BY <1>1, <2>1, Typed0 DEF Created, Begun
  <1>3. /\ oneshot' = oneshot \/ (oneshot[z] > 0 /\ oneshot'[z] = oneshot[z] - 1)
        /\ \A u \in Tasks : oneshot[u] = 0 => oneshot'[u] = 0
    BY <1>1, <1>2, Typed0
  <1>4. \A u \in Tasks : pc[u] \notin LockPcs /\ (OpsQuiet => pc[u] \notin Ops)
    BY InterruptedWhere
  <1>5. Queued'
    <2>1. \A x \in CfsTasks : InTransit(x)' <=> InTransit(x)  BY DEF InTransit
    <2>2. QueuesAgree'
      <3>1. ASSUME NEW x \in CfsTasks \cap Created, ~InTransit(x), x # z
            PROVE  x \in Members(runq') <=> state'[x] = "RUNNING"
        BY <1>1, <1>2, <3>1, TaskKinds DEF Queued, QueuesAgree
      <3>2. ASSUME z \in CfsTasks, ~InTransit(z)
            PROVE  z \in Members(runq') <=> state'[z] = "RUNNING"
        <4>1. z \in Members(runq) <=> state[z] = "RUNNING"
          BY <1>1, <3>2 DEF Queued, QueuesAgree
        <4>2. DOMAIN state = Tasks /\ z \in Tasks  BY <1>1, <1>2, Typed0
        <4> QED BY <4>1, <4>2
      <3> QED BY <1>2, <2>1, <3>1, <3>2 DEF QueuesAgree
    <2>3. Members(runq') \subseteq Created /\ {Idle, Shell} \subseteq Members(runq')
      BY <1>1, <1>2 DEF Queued
    <2> QED BY <1>2, <2>2, <2>3 DEF Queued
  <1>6. Places'  BY <1>1, <1>2 DEF Places
  <1>7. Midway'
    <2>1. \A u \in Tasks : pc[u] \in Ops =>
            /\ state'[arg[u]] = state[arg[u]]
            /\ (arg[u] \in Members(runq')) <=> (arg[u] \in Members(runq))
      <3>1. DOMAIN state = Tasks  BY <1>1, Typed0
      <3>2. \A u \in Tasks : pc[u] \in Ops => arg[u] \in Tasks
        BY <1>1, TaskKinds DEF Places
      <3> QED BY <3>1, <3>2
    <2> QED BY <1>1, <2>1 DEF Midway, Ops, DeqPcs, EnqPcs
  <1>8. Undisturbed'
    <2>1. ~OpsQuiet => \A u \in Tasks : pc[u] \in EnqPcs => \A x \in Tasks : yield_task'[x] # arg[u]
      BY <1>1, <1>2 DEF Undisturbed
    <2>2. \A u \in Tasks : pc[u] \in EnqPcs => arg[u] \in Tasks
      BY <1>1, TaskKinds DEF Places, Ops
    <2> QED BY <1>1, <1>3, <1>4, <2>1, <2>2 DEF Undisturbed, Ops
  <1>9. Begun'
    <2>1. \A u \in Tasks : state'[u] = "NONE" => state[u] = "NONE" /\ u # z
      BY <1>2
    <2>2. \A u \in Created \cap (Rt \cup Oneshot \cup {Idle, Shell}) : state'[u] = "RUNNING"
      BY <1>1, <1>2, TaskKinds DEF Begun
    <2>3. \A u \in Tasks \ Created : state'[u] = "NONE"  BY <1>1, <1>2 DEF Begun
    <2>4. \A u \in Tasks : yield_task'[u] \in Created
                           \/ (yield_task'[u] = NoTask /\ u \notin Created \ {Idle})
      BY <1>1, <1>2 DEF Begun
    <2> QED BY <1>1, <1>2, <1>3, <2>1, <2>2, <2>3, <2>4 DEF Begun
  <1>10. Waking'
    <2>1. ~OpsQuiet /\ z \in CfsTasks /\ oneshot'[z] > 0 => oneshot' = oneshot
      BY <1>1, <1>2, <1>3, Typed0 DEF Waking
    <2>2. ~OpsQuiet /\ z \in CfsTasks /\ oneshot[z] > 0 => pc[z] # "tmr"
      BY <1>1 DEF Waking
    <2>3. oneshot' = oneshot => state' = state
      BY <1>1, <1>2, <1>3, Typed0
    <2> QED BY <1>1, <1>2, <1>3, <2>1, <2>2, <2>3, Typed0, TaskKinds DEF Waking
  <1> QED BY <1>5, <1>6, <1>7, <1>8, <1>9, <1>10 DEF SchedInv, Live

\* The scheduling tick gives the CPU to whoever is leftmost.
LEMMA SchedIrqInv ==
  ASSUME SchedInv, LocksQuiet, SchedIrq
  PROVE  SchedInv' /\ fault' = "none" /\ current' \in Runnable'
  <1>1. TypeOK /\ Queued  BY DEF SchedInv
  <1>2. Interruptible /\ fault = "none" /\ ~RqHeld
    BY InterruptedWhere DEF SchedIrq, Interruptible
  <1>3. /\ runq \in Seq(CfsTasks) /\ NoDuplicates(runq) /\ rb_leftmost = runq[1]
        /\ rb_leftmost \in CfsTasks /\ vrun \in [CfsTasks -> Nat] /\ LeftmostCached
    <2>1. runq \in Seq(CfsTasks) /\ Len(runq) > 0 /\ rb_leftmost = runq[1]
      BY <1>1 DEF TypeOK, Queued, LeftmostCached
    <2>2. 1 \in 1..Len(runq)  BY <2>1, LenProperties
    <2> QED BY <1>1, <2>1, <2>2 DEF TypeOK, Queued, QueuesAgree
  <1>0. Len(runq) >= 2
    <2>1. {Idle, Shell} \subseteq Members(runq) /\ Idle # Shell  BY <1>1, TaskKinds DEF Queued
    <2>2. Len(runq) \in Nat  BY <1>3, LenProperties
    <2> QED BY <2>1, <2>2 DEF Members
  <1>4. /\ update_se(update_current(vrun)) /\ current' = rb_leftmost' /\ fault' = "none"
        /\ UNCHANGED <<tasklist, state, wqVars, yield_task, rtVars, oneshot, pc, arg>>
    BY <1>0, <1>2, <1>3 DEF SchedIrq
  <1>5. update_current(vrun) \in [CfsTasks -> Nat]  BY <1>3, UpdateCurrentType
  <1>6. /\ runq' \in Seq(CfsTasks) /\ NoDuplicates(runq') /\ Members(runq') = Members(runq)
        /\ Len(runq') > 0 /\ rb_leftmost' = runq'[1] /\ vrun' \in [CfsTasks -> Nat]
    BY <1>0, <1>3, <1>4, <1>5, UpdateSe
  <1>7. LeftmostCached'  BY <1>6 DEF LeftmostCached
  <1>8. current' \in Members(runq')
    <2>1. Len(runq') \in Nat  BY <1>6, LenProperties
    <2>2. \A k \in 1..Len(runq') : runq'[k] \in Members(runq')  BY <1>6, MembersOf
    <2> QED BY <1>4, <1>6, <2>1, <2>2
  <1>9. TypeOK'
    <2>1. current' \in CfsTasks  BY <1>3, <1>6, <1>8, MembersOf
    <2> QED BY <1>1, <1>4, <1>6, <2>1, TaskKinds DEF TypeOK, wqVars, rtVars
  <1>10. /\ current' \in Created /\ state[current'] # "NONE"
         /\ current' \in Sleepers /\ pc[current'] = "run" => state[current'] = "RUNNING"
         /\ \A u \in Tasks : pc[u] \in EnqPcs => arg[u] # current'
    <2>1. \A x \in Members(runq) :
            /\ x \in Created /\ state[x] # "NONE"
            /\ x \in Sleepers /\ pc[x] = "run" => state[x] = "RUNNING"
            /\ \A u \in Tasks : pc[u] \in EnqPcs => arg[u] # x
      BY <1>2, QueuedState
    <2> QED BY <1>6, <1>8, <2>1
  <1>11. SchedInv'
    <2>1. state' = state /\ yield_task' = yield_task /\ oneshot' = oneshot
      BY <1>4
    <2> QED BY <1>2, <1>4, <1>6, <1>7, <1>9, <1>10, <2>1, SwitchInv
  <1> QED BY <1>4, <1>8, <1>11 DEF Runnable

\* What the switch to the timer's task writes has its type.
LEMMA SwitchType ==
  ASSUME TypeOK, NEW t \in Tasks, SwitchTo(t)
  PROVE  /\ current' = t
         /\ yield_task' \in [Tasks -> Tasks \cup {NoTask}]
         /\ preempted' \in [Rt -> BOOLEAN]
         /\ yield_task' = yield_task \/ yield_task' = [yield_task EXCEPT ![t] = current]
         /\ \A x : missed_cnt(x) \in [Rt -> 0..MaxMissed]
  <1>1. current' = t  BY DEF SwitchTo
  <1>2. yield_task' \in [Tasks -> Tasks \cup {NoTask}]  BY DEF SwitchTo, TypeOK
  <1>3. preempted' \in [Rt -> BOOLEAN]  BY DEF SwitchTo, TypeOK
  <1>4. yield_task' = yield_task \/ yield_task' = [yield_task EXCEPT ![t] = current]
    BY DEF SwitchTo
  <1>5. ASSUME NEW x PROVE missed_cnt(x) \in [Rt -> 0..MaxMissed]
    <2>1. CASE x \in Rt /\ missed[x] < MaxMissed
      <3>1. missed[x] + 1 \in 0..MaxMissed  BY <2>1, SchedAssumption DEF TypeOK
      <3> QED BY <3>1 DEF missed_cnt, TypeOK
    <2>2. CASE ~(x \in Rt /\ missed[x] < MaxMissed)  BY <2>2 DEF missed_cnt, TypeOK
    <2> QED BY <2>1, <2>2
  <1> QED BY <1>1, <1>2, <1>3, <1>4, <1>5

\* A periodic timer gives the CPU to its RT task, which never sleeps.
LEMMA RtTimerIrqInv ==
  ASSUME SchedInv, LocksQuiet, NEW t \in Tasks, RtTimerIrq(t)
  PROVE  SchedInv' /\ fault' = "none" /\ current' \in Runnable'
  <1>1. Interruptible /\ fault = "none"  BY DEF RtTimerIrq, Interruptible
  <1>2. TypeOK /\ Queued /\ Places /\ Begun  BY <1>1 DEF SchedInv, Live
  <1>3. /\ t \in Rt \cap Created /\ SwitchTo(t) /\ missed' = missed_cnt(current)
        /\ vrun' = Rebase(update_current(vrun), Members(runq)) /\ fault' = "none"
        /\ UNCHANGED <<tasklist, state, runq, rb_leftmost, wqVars, done, oneshot, pc, arg, fault>>
    BY <1>1 DEF RtTimerIrq
  <1>4. /\ current' = t
        /\ yield_task' \in [Tasks -> Tasks \cup {NoTask}]
        /\ preempted' \in [Rt -> BOOLEAN]
        /\ yield_task' = yield_task \/ yield_task' = [yield_task EXCEPT ![t] = current]
        /\ missed' \in [Rt -> 0..MaxMissed]
    <2>1. \A x : missed_cnt(x) \in [Rt -> 0..MaxMissed]  BY <1>2, <1>3, SwitchType
    <2>2. missed_cnt(current) \in [Rt -> 0..MaxMissed]  BY <2>1
    <2> QED BY <1>2, <1>3, <2>2, SwitchType
  <1>5. vrun' \in [CfsTasks -> Nat]
    <2>1. vrun \in [CfsTasks -> Nat] /\ runq \in Seq(CfsTasks)  BY <1>2 DEF TypeOK
    <2>2. update_current(vrun) \in [CfsTasks -> Nat]  BY <2>1, UpdateCurrentType
    <2> QED BY <1>3, <2>1, <2>2, MembersOf, RebaseType
  <1>6. TypeOK'  BY <1>2, <1>3, <1>4, <1>5 DEF TypeOK, wqVars
  <1>7. state[t] = "RUNNING"  BY <1>2, <1>3 DEF Begun
  <1>8. \A u \in Tasks : pc[u] \in EnqPcs => arg[u] # t
    BY <1>2, <1>3, TaskKinds DEF Places, Ops
  <1>9. SchedInv'
    <2>1. /\ state' = state /\ oneshot' = oneshot /\ runq' = runq /\ t \in Created
          /\ NoDuplicates(runq') /\ LeftmostCached'
      BY <1>2, <1>3 DEF Queued, QueuesAgree, LeftmostCached
    <2> QED BY <1>1, <1>3, <1>4, <1>6, <1>7, <1>8, <2>1, SwitchInv
  <1> QED BY <1>3, <1>4, <1>9 DEF Runnable, Created

LEMMA WithoutType ==
  ASSUME TypeOK, NEW t \in Tasks
  PROVE  /\ WqWithout(t) \in [first : CfsTasks \cup {NoTask}, next : [Tasks -> CfsTasks \cup {NoTask}],
                              prev : [Tasks -> BOOLEAN]]
         /\ RemoveFault(t) \in {"none", "corrupt", "loop"}
  BY DEF TypeOK, WqWithout, RemoveFault

\* The task of an expired one-shot timer is not in the middle of a queue operation; if
\* it sleeps, it is a CFS task outside the run queue.
LEMMA Expired ==
  ASSUME SchedInv, LocksQuiet, NEW t \in Tasks, Interruptible, oneshot[t] > 0
  PROVE  /\ t \in Created /\ state[t] \in {"RUNNING", "WAITING"}
         /\ \A u \in Tasks : pc[u] \in Ops => arg[u] # t
         /\ state[t] = "WAITING" => t \in Wakeable /\ t \notin Members(runq)
  <1>1. TypeOK /\ Queued /\ Undisturbed /\ Begun  BY DEF SchedInv, Live, Interruptible
  <1>2. t \in Created /\ state[t] \in {"RUNNING", "WAITING"}
    BY <1>1, Typed0 DEF Begun
  <1>3. \A u \in Tasks : pc[u] \in Ops => arg[u] # t
    <2>1. CASE OpsQuiet  BY <2>1, InterruptedWhere
    <2>2. CASE ~OpsQuiet  BY <1>1, <2>2 DEF Undisturbed, Ops
    <2> QED BY <2>1, <2>2
  <1>4. ASSUME state[t] = "WAITING" PROVE t \in Wakeable /\ t \notin Members(runq)
    <2>1. t \in Wakeable  BY <1>1, <1>2, <1>4, TaskKinds DEF Begun
    <2>2. ~InTransit(t)  BY <1>3 DEF InTransit, Ops
    <2> QED BY <1>1, <1>2, <1>4, <2>1, <2>2, TaskKinds DEF Queued, QueuesAgree
  <1> QED BY <1>2, <1>3, <1>4

\* A one-shot timer gives the CPU to its task and wakes it if it is asleep.
LEMMA OneshotTimerIrqInv ==
  ASSUME SchedInv, LocksQuiet, NEW t \in Tasks, OneshotTimerIrq(t)
  PROVE  /\ SchedInv' /\ (fault' = "none" => current' \in Runnable')
         /\ fault' = IF state[t] = "WAITING" THEN RemoveFault(t) ELSE "none"
  <1>1. Interruptible /\ fault = "none" /\ oneshot[t] > 0
    BY DEF OneshotTimerIrq, Interruptible
  <1>2. TypeOK /\ Queued /\ Live  BY <1>1 DEF SchedInv
  <1>3. /\ SwitchTo(t) /\ oneshot' = [oneshot EXCEPT ![t] = @ - 1]
        /\ UNCHANGED <<tasklist, temp, done, missed, pc, arg>>
    BY DEF OneshotTimerIrq
  <1>4. /\ current' = t
        /\ yield_task' \in [Tasks -> Tasks \cup {NoTask}]
        /\ preempted' \in [Rt -> BOOLEAN]
        /\ yield_task' = yield_task \/ yield_task' = [yield_task EXCEPT ![t] = current]
    BY <1>2, <1>3, SwitchType
  <1>5. /\ t \in Created /\ state[t] \in {"RUNNING", "WAITING"}
        /\ \A u \in Tasks : pc[u] \in Ops => arg[u] # t
        /\ state[t] = "WAITING" => t \in Wakeable /\ t \notin Members(runq)
    BY <1>1, Expired
  <1>6. \A u \in Tasks : pc[u] \in EnqPcs => arg[u] # t  BY <1>5 DEF Ops
  <1>7. oneshot' \in [Tasks -> 0..MaxTimers]
    <2>1. oneshot[t] - 1 \in 0..MaxTimers  BY <1>1, <1>2, Typed0, SchedAssumption
    <2> QED BY <1>2, <1>3, <2>1 DEF TypeOK
  <1>8. /\ vrun \in [CfsTasks -> Nat] /\ runq \in Seq(CfsTasks) /\ NoDuplicates(runq)
        /\ Len(runq) > 0 /\ rb_leftmost = runq[1] /\ rb_leftmost \in CfsTasks \cup {NoTask}
    BY <1>2 DEF TypeOK, Queued, QueuesAgree, LeftmostCached
  <1>9. update_current(vrun) \in [CfsTasks -> Nat]  BY <1>8, UpdateCurrentType
  <1>10. CASE state[t] # "WAITING"
    <2>1. /\ vrun' = Rebase(update_current(vrun), Members(runq)) /\ fault' = "none"
          /\ UNCHANGED <<state, wq, runq, rb_leftmost>>
      BY <1>1, <1>10 DEF OneshotTimerIrq
    <2>2. vrun' \in [CfsTasks -> Nat]  BY <1>8, <1>9, <2>1, MembersOf, RebaseType
    <2>3. TypeOK'  BY <1>2, <1>3, <1>4, <1>7, <2>1, <2>2 DEF TypeOK
    <2>4. state[t] = "RUNNING" /\ state' = state /\ runq' = runq
          /\ NoDuplicates(runq') /\ LeftmostCached'
      BY <1>5, <1>8, <1>10, <2>1 DEF LeftmostCached
    <2>5. SchedInv'
      BY <1>1, <1>3, <1>4, <1>5, <1>6, <2>1, <2>3, <2>4, SwitchInv
    <2>6. t \in Runnable  BY <1>1, <1>5, <1>6, <2>4, RunnableIs
    <2> QED BY <1>3, <1>4, <1>10, <2>1, <2>4, <2>5, <2>6 DEF Runnable, Created
  <1>11. CASE state[t] = "WAITING"
    <2>1. WakeInIrq(t) /\ ~WqHeld /\ ~RqHeld
      BY <1>1, <1>11, InterruptedWhere DEF OneshotTimerIrq
    <2>2. t \in CfsTasks /\ t \in Wakeable /\ t \notin Members(runq)
      BY <1>5, <1>11, TaskKinds
    <2>3. CASE RemoveFault(t) # "none"
      <3>1. fault' = RemoveFault(t) /\ UNCHANGED <<state, wq, runq, rb_leftmost, vrun>>
        BY <2>1, <2>3 DEF WakeInIrq, Broken, rqVars
      <3>2. fault' \in {"none", "corrupt", "hung", "loop"}  BY <1>2, <3>1, WithoutType
      <3>3. TypeOK'  BY <1>2, <1>3, <1>4, <1>7, <3>1, <3>2 DEF TypeOK
      <3>4. Queued'
        <4>1. \A x \in CfsTasks : InTransit(x)' <=> InTransit(x)  BY <1>3 DEF InTransit
        <4> QED BY <1>2, <1>3, <3>1, <4>1 DEF Queued, QueuesAgree, LeftmostCached, Created
      <3> QED BY <1>11, <2>3, <3>1, <3>3, <3>4 DEF SchedInv
    <2>4. CASE RemoveFault(t) = "none"
      <3> DEFINE v == update_vruntime_runq(update_current(vrun), runq, rb_leftmost, t)
      <3>1. /\ wq' = WqWithout(t) /\ state' = [state EXCEPT ![t] = "RUNNING"]
            /\ enqueue_se(runq, v, rb_leftmost, t)
            /\ fault' = "none"
        <4>1. t \notin Members(runq) \cup Rt \cup Oneshot  BY <2>2, TaskKinds
        <4> QED BY <1>1, <2>1, <2>4, <4>1 DEF WakeInIrq, InsertInRunq
      <3>2. v \in [CfsTasks -> Nat]  BY <1>8, <1>9, UpdateRunqType
      <3>3. /\ runq' \in Seq(CfsTasks) /\ NoDuplicates(runq')
            /\ Members(runq') = Members(runq) \cup {t}
            /\ Len(runq') > 0 /\ rb_leftmost' = runq'[1] /\ vrun' \in [CfsTasks -> Nat]
        <4> HIDE DEF v
        <4> QED BY <1>8, <2>2, <3>1, <3>2, EnqueueSe
      <3>4. TypeOK'
        <4>1. rb_leftmost' \in CfsTasks \cup {NoTask}
          <5>1. Len(runq') \in Nat  BY <3>3, LenProperties
          <5> QED BY <3>3, <5>1
        <4>2. wq' \in [first : CfsTasks \cup {NoTask}, next : [Tasks -> CfsTasks \cup {NoTask}],
                       prev : [Tasks -> BOOLEAN]]
          BY <1>2, <3>1, WithoutType
        <4>3. state' \in [Tasks -> {"NONE", "RUNNING", "WAITING"}]  BY <1>2, <3>1 DEF TypeOK
        <4> QED BY <1>2, <1>3, <1>4, <1>7, <3>1, <3>3, <4>1, <4>2, <4>3 DEF TypeOK
      <3>5. LeftmostCached'  BY <3>3 DEF LeftmostCached
      <3>6. state'[t] = "RUNNING"  BY <1>2, <3>1, Typed0
      <3>7. SchedInv'
        BY <1>1, <1>3, <1>4, <1>5, <1>6, <1>11, <2>2, <3>1, <3>3, <3>4, <3>5, <3>6, SwitchInv
      <3>8. current' \in Runnable'  BY <1>4, <3>3 DEF Runnable
      <3> QED BY <1>11, <2>4, <3>1, <3>7, <3>8
    <2> QED BY <2>3, <2>4
  <1> QED BY <1>10, <1>11

-----------------------------------------------------------------------------
(* Every step keeps the invariant; a step that leaves the scheduler working gives the *)
(* CPU to a task that can run; only an unlinking from the wait list can go wrong.     *)

LEMMA SchedNext ==
  ASSUME Careful, SchedInv, Next
  PROVE  /\ SchedInv'
         /\ fault' = "none" /\ current' # current => current' \in Runnable'
         /\ \/ fault' = "none"
            \/ \E t \in Tasks : pc[t] = "enq1" /\ current = t /\ fault' = RemoveFault(arg[t])
            \/ \E t \in Tasks : OneshotTimerIrq(t) /\ state[t] = "WAITING" /\ fault' = RemoveFault(t)
  <1> LocksQuiet  BY DEF Careful
  <1>1. ASSUME NEW t \in Tasks, TaskStep(t)
        PROVE  /\ SchedInv' /\ (current' = current \/ current' \in Runnable')
               /\ fault' = "none" \/ (pc[t] = "enq1" /\ current = t /\ fault' = RemoveFault(arg[t]))
    <2> fault = "none"
      BY <1>1 DEF TaskStep, QueueStep, DeqReadFirst, DeqLockWq, add_to_wq, DeqState, DeqLockRq,
                  DeqErase, EnqLockWq, remove_from_wq, EnqState, EnqLockRq, EnqInsert, Sleep,
                  create_oneshot_timer, DelayYield, yieldyi, RtStart, RtFinish, OneshotWork, Running
    <2>1. CASE DeqReadFirst(t)  BY <2>1, MovesInv DEF DeqReadFirst
    <2>2. CASE DeqLockWq(t)  BY <2>2, MovesInv DEF DeqLockWq
    <2>3. CASE add_to_wq(t)  BY <2>3, MovesInv DEF add_to_wq
    <2>4. CASE DeqState(t)  BY <2>4, StateWrittenInv DEF DeqState
    <2>5. CASE DeqLockRq(t)  BY <2>5, MovesInv DEF DeqLockRq
    <2>6. CASE DeqErase(t)  BY <2>6, DeqEraseInv DEF DeqErase
    <2>7. CASE EnqLockWq(t)  BY <2>7, MovesInv DEF EnqLockWq
    <2>8. CASE remove_from_wq(t)  BY <2>8, MovesInv DEF remove_from_wq, Running
    <2>9. CASE EnqState(t)  BY <2>9, StateWrittenInv DEF EnqState
    <2>10. CASE EnqLockRq(t)  BY <2>10, MovesInv DEF EnqLockRq
    <2>11. CASE EnqInsert(t)  BY <2>11, EnqInsertInv DEF EnqInsert
    <2>12. CASE Sleep(t)  BY <2>12, SleepInv DEF Sleep
    <2>13. CASE create_oneshot_timer(t)  BY <2>13, TimerInv DEF create_oneshot_timer
    <2>14. CASE DelayYield(t) \/ yieldyi(t)  BY <2>14, YieldInv
    <2>15. CASE RtStart(t)  BY <2>15, MovesInv DEF RtStart
    <2>16. CASE RtFinish(t)  BY <2>16, MovesInv DEF RtFinish
    <2>17. CASE OneshotWork(t)  BY <2>17, MovesInv DEF OneshotWork
    <2> QED BY <1>1, <2>1, <2>2, <2>3, <2>4, <2>5, <2>6, <2>7, <2>8, <2>9, <2>10, <2>11, <2>12,
               <2>13, <2>14, <2>15, <2>16, <2>17 DEF TaskStep, QueueStep
  <1>2. ASSUME NEW t \in Tasks, Command(t)
        PROVE  SchedInv' /\ current' = current /\ fault' = "none"
    <2> fault = "none"
      BY <1>2 DEF Command, create_cfs_task, create_rt_task, create_oneshot_task, SleepCommand,
                  RunCommand, Typed, Running
    <2>1. CASE create_cfs_task(t)  BY <2>1, CreateInv DEF create_cfs_task
    <2>2. CASE create_rt_task(t)  BY <2>2, CreateInv DEF create_rt_task
    <2>3. CASE create_oneshot_task(t)  BY <2>3, CreateInv DEF create_oneshot_task
    <2>4. CASE SleepCommand(t)  BY <2>4, OperatorInv DEF SleepCommand
    <2>5. CASE RunCommand(t)  BY <2>5, OperatorInv DEF RunCommand
    <2> QED BY <1>2, <2>1, <2>2, <2>3, <2>4, <2>5 DEF Command
  <1>3. CASE SchedIrq  BY <1>3, SchedIrqInv
  <1>4. ASSUME NEW t \in Tasks, RtTimerIrq(t)
        PROVE  SchedInv' /\ fault' = "none" /\ current' \in Runnable'
    BY <1>4, RtTimerIrqInv
  <1>5. ASSUME NEW t \in Tasks, OneshotTimerIrq(t)
        PROVE  /\ SchedInv' /\ (fault' = "none" => current' \in Runnable')
               /\ fault' = "none" \/ (state[t] = "WAITING" /\ fault' = RemoveFault(t))
    BY <1>5, OneshotTimerIrqInv
  <1> QED BY <1>1, <1>2, <1>3, <1>4, <1>5 DEF Next

LEMMA SchedStutters ==
  ASSUME SchedInv, UNCHANGED vars
  PROVE  SchedInv'
  <1>1. TypeOK'  BY DEF SchedInv, TypeOK, vars
  <1>2. Queued'
    BY DEF SchedInv, Queued, QueuesAgree, LeftmostCached, InTransit, Created, vars
  <1>3. fault' = "none" => Live'
    BY DEF SchedInv, Live, Places, Midway, Undisturbed, Begun, Waking, Created, vars
  <1> QED BY <1>1, <1>2, <1>3 DEF SchedInv

\* What holds of the run queue wherever the timer interrupts, for tasks, priorities and
\* commands of any number (enqueue_se_to_runq, dequeue_se_to_wq, yieldyi, timer_irq).
THEOREM SchedInvariant == ASSUME Careful PROVE Spec => []SchedInv
  <1>1. Init => SchedInv  BY SchedInitInv
  <1>2. SchedInv /\ [Next]_vars => SchedInv'  BY SchedNext, SchedStutters
  <1> QED BY <1>1, <1>2, PTL DEF Spec

\* Every field keeps the type its declaration gives it (struct task_struct, struct cfs_rq,
\* struct wait_queue).
THEOREM SchedTypeCorrect == ASSUME Careful PROVE Spec => []TypeOK
  <1>1. SchedInv => TypeOK  BY DEF SchedInv
  <1> QED BY <1>1, SchedInvariant, PTL

\* A CFS task is in the run queue, once, exactly if its state says so, except while a
\* queue operation on it is under way (enqueue_se_to_runq, dequeue_se_to_wq).
THEOREM SchedQueuesAgree == ASSUME Careful PROVE Spec => []QueuesAgree
  <1>1. SchedInv => QueuesAgree  BY DEF SchedInv, Queued
  <1> QED BY <1>1, SchedInvariant, PTL

\* The run queue is never empty, and the cached leftmost node is its first, although the
\* keys change in place and the tree is not kept sorted (enqueue_se, dequeue_se).
THEOREM SchedLeftmostCached == ASSUME Careful PROVE Spec => []LeftmostCached
  <1>1. SchedInv => LeftmostCached  BY DEF SchedInv, Queued
  <1> QED BY <1>1, SchedInvariant, PTL

-----------------------------------------------------------------------------
(***************************************************************************)
(* The wait list, for any tasks and commands: where no interrupt falls in  *)
(* the window of the stale temp_p, nothing goes wrong on it, it holds      *)
(* waiters only, and the CPU only ever goes to a task that can run.        *)
(***************************************************************************)

\* The further hypothesis: no interrupt between reading temp_p and taking wqlock.
FirstFresh == "deqr" \in Quiet

-----------------------------------------------------------------------------
(* The invariant of the wait list.                                           *)

\* The wait list as a sequence.
Chain(q) ==
  /\ NoDuplicates(q)
  /\ wq.first = IF q = <<>> THEN NoTask ELSE q[1]
  /\ \A k \in 1..Len(q) : wq.next[q[k]] = IF k = Len(q) THEN NoTask ELSE q[k + 1]

\* The list ends, its nodes can be unlinked, and it holds waiters only.
WaitInv ==
  /\ fault = "none"
  /\ \E q \in Seq(CfsTasks) : Chain(q)
  /\ \A t \in Listed : wq.prev[t]
  /\ \A t \in Listed : state[t] = "WAITING" \/ \E u \in Tasks : pc[u] = "deq2" /\ arg[u] = t
  /\ \A u \in Tasks : pc[u] \in {"deqr", "deq1"} => temp[u] = wq.first /\ u = current
  /\ \A u \in Tasks : pc[u] \in {"enq2", "enq3", "enq4"} => arg[u] \notin Listed
-----------------------------------------------------------------------------
(* The walk along the list.                                                  *)

\* The walk visits the nodes of the chain and ends.
LEMMA ChainWalk ==
  \A q \in Seq(CfsTasks) : Chain(q) => Listed = Members(q) /\ ~Circular
  <1> SUFFICES ASSUME NEW q \in Seq(CfsTasks), Chain(q)
               PROVE  Listed = Members(q) /\ ~Circular
    OBVIOUS
  <1> DEFINE n == Len(q)
             M == Members(q) \cup {NoTask}
  <1>1. n \in Nat /\ (q = <<>> <=> n = 0) /\ \A k \in 1..n : q[k] \in CfsTasks
    BY LenProperties, EmptySeq
  <1>2. Members(q) \subseteq CfsTasks /\ NoTask \notin CfsTasks /\ NoTask \notin Members(q)
    BY MembersOf, TaskKinds
  <1>3. wq.first = IF n = 0 THEN NoTask ELSE q[1]  BY <1>1 DEF Chain
  <1>4. \A k \in 1..n : wq.next[q[k]] = IF k = n THEN NoTask ELSE q[k + 1]  BY DEF Chain
  <1>5. ClosedWalk(M)
    <2>1. wq.first \in M  BY <1>1, <1>3, MembersOf
    <2>2. ASSUME NEW t \in M \ {NoTask} PROVE wq.next[t] \in M
      <3>1. PICK k \in 1..n : q[k] = t  BY <2>2, MembersOf
      <3> QED BY <1>1, <1>4, <3>1, MembersOf
    <2> QED BY <2>1, <2>2 DEF ClosedWalk
  <1>6. ASSUME NEW S \in SUBSET (Tasks \cup {NoTask}), ClosedWalk(S) PROVE M \subseteq S
    <2> DEFINE Out == {k \in 1..n : q[k] \notin S}
    <2>1. Out = {}
      <3> SUFFICES ASSUME Out # {} PROVE FALSE  OBVIOUS
      <3>1. PICK k \in Out : \A j \in Out : k <= j
        <4>1. Out \subseteq Nat  OBVIOUS
        <4> QED BY <4>1, LeastOf
      <3>2. CASE k = 1  BY <1>1, <1>3, <1>6, <3>1, <3>2 DEF ClosedWalk
      <3>3. CASE k # 1
        <4>1. k - 1 \in 1..n /\ k - 1 < k /\ (k - 1) + 1 = k /\ k - 1 # n  BY <1>1, <3>1, <3>3
        <4>2. q[k - 1] \in S \ {NoTask}  BY <1>1, <1>2, <3>1, <4>1
        <4>3. wq.next[q[k - 1]] = q[k]  BY <1>4, <4>1
        <4> QED BY <1>6, <3>1, <4>2, <4>3 DEF ClosedWalk
      <3> QED BY <3>2, <3>3
    <2>2. Members(q) \subseteq S  BY <2>1 DEF Members
    <2>3. NoTask \in S
      <3>1. CASE n = 0  BY <1>3, <1>6, <3>1 DEF ClosedWalk
      <3>2. CASE n # 0
        <4>1. n \in 1..n  BY <1>1, <3>2
        <4>2. q[n] \in S \ {NoTask}  BY <1>2, <2>2, <4>1, MembersOf
        <4> QED BY <1>4, <1>6, <4>1, <4>2 DEF ClosedWalk
      <3> QED BY <3>1, <3>2
    <2> QED BY <2>2, <2>3
  <1>7. M \subseteq Tasks \cup {NoTask}  BY <1>2, TaskKinds
  <1>8. Reached = M
    <2>1. M \in SUBSET (Tasks \cup {NoTask})  BY <1>7
    <2> HIDE DEF M
    <2>2. ASSUME NEW t \in M PROVE t \in Reached  BY <1>6, <1>7, <2>2 DEF Reached
    <2>3. ASSUME NEW t \in Reached PROVE t \in M  BY <1>5, <2>1, <2>3 DEF Reached
    <2> QED BY <2>2, <2>3
  <1> QED BY <1>2, <1>8 DEF Listed, Circular

LEMMA ChainWalkNext ==
  \A q \in Seq(CfsTasks) : Chain(q)' => Listed' = Members(q) /\ ~Circular'
  <1>1. (\A q \in Seq(CfsTasks) : Chain(q) => Listed = Members(q) /\ ~Circular)'
    BY ChainWalk, PTL
  <1> QED BY <1>1

\* A list that is not touched is walked as before.
LEMMA SameWalk ==
  ASSUME wq' = wq
  PROVE  Listed' = Listed /\ \A q : Chain(q)' <=> Chain(q)
  BY DEF Listed, Reached, ClosedWalk, Chain

-----------------------------------------------------------------------------
(* What the two writers of the list do to it.                                *)

\* add_to_wq() with a fresh temp_p puts the task in front.
LEMMA AddedChain ==
  ASSUME NEW q \in Seq(CfsTasks), Chain(q), NEW x \in CfsTasks, x \notin Members(q),
         wq.next \in [Tasks -> CfsTasks \cup {NoTask}],
         wq'.first = x, wq'.next = [wq.next EXCEPT ![x] = wq.first]
  PROVE  \E r \in Seq(CfsTasks) : Chain(r)' /\ Members(r) = Members(q) \cup {x}
  <1> DEFINE r == InsertAfter(q, 0, x)
             n == Len(q)
  <1>1. n \in Nat /\ (q = <<>> <=> n = 0) /\ 0 \in 0..n  BY LenProperties, EmptySeq
  <1>2. /\ r \in Seq(CfsTasks) /\ Len(r) = n + 1 /\ r[1] = x
        /\ \A k \in 2..(n + 1) : r[k] = q[k - 1]
    <2>1. r \in Seq(CfsTasks) /\ Len(r) = n + 1 /\ r[0 + 1] = x
          /\ \A k \in (0 + 2)..(n + 1) : r[k] = q[k - 1]
      BY <1>1, InsertAfterIs
    <2> QED BY <2>1
  <1>3. Members(r) = Members(q) \cup {x} /\ NoDuplicates(r)
    <2>1. NoDuplicates(q)  BY DEF Chain
    <2> QED BY <1>1, <2>1, InsertAfterKeeps
  <1> HIDE DEF r
  <1>4. \A k \in 1..n : q[k] # x /\ q[k] \in Tasks
    <2>1. \A k \in 1..n : q[k] \in Members(q)  BY MembersOf
    <2>2. Members(q) \subseteq CfsTasks  BY MembersOf
    <2> QED BY <2>1, <2>2, TaskKinds
  <1>5. wq.first = IF n = 0 THEN NoTask ELSE q[1]  BY <1>1 DEF Chain
  <1>6. ASSUME NEW k \in 1..Len(r)
        PROVE  wq'.next[r[k]] = IF k = Len(r) THEN NoTask ELSE r[k + 1]
    <2>1. CASE k = 1
      <3>1. wq'.next[x] = wq.first  BY TaskKinds
      <3>2. n # 0 => 2 \in 2..(n + 1)  BY <1>1
      <3>3. n # 0 => r[2] = q[1]  BY <1>2, <3>2
      <3> QED BY <1>1, <1>2, <1>5, <2>1, <3>1, <3>3
    <2>2. CASE k # 1
      <3>1. k - 1 \in 1..n /\ k \in 2..(n + 1) /\ (k - 1) + 1 = k /\ (k - 1 = n <=> k = Len(r))
        BY <1>1, <1>2, <2>2
      <3>2. r[k] = q[k - 1]  BY <1>2, <3>1
      <3>3. wq'.next[r[k]] = wq.next[q[k - 1]]  BY <1>4, <3>1, <3>2
      <3>4. wq.next[q[k - 1]] = IF k - 1 = n THEN NoTask ELSE q[k]
        BY <3>1 DEF Chain
      <3>5. k # Len(r) => k + 1 \in 2..(n + 1) /\ (k + 1) - 1 = k  BY <1>1, <1>2, <2>2
      <3>6. k # Len(r) => r[k + 1] = q[k]  BY <1>2, <3>5
      <3> QED BY <3>1, <3>3, <3>4, <3>6
    <2> QED BY <2>1, <2>2
  <1>7. r # <<>>  BY <1>1, <1>2, EmptySeq
  <1>8. Chain(r)'  BY <1>2, <1>3, <1>6, <1>7 DEF Chain
  <1> QED BY <1>2, <1>3, <1>8

\* Unlinking a node leaves the part of the list behind it.
LEMMA UnlinkedChain ==
  ASSUME TypeOK, NEW q \in Seq(CfsTasks), Chain(q), NEW x \in Members(q), wq' = WqWithout(x)
  PROVE  \E r \in Seq(CfsTasks) : Chain(r)' /\ Members(r) \subseteq Members(q) \ {x}
  <1> DEFINE n == Len(q)
             p == Position(q, x)
             r == [k \in 1..(n - p) |-> q[k + p]]
  <1>1. n \in Nat /\ p \in 1..n /\ q[p] = x /\ n - p \in Nat  BY PositionOf, LenProperties
  <1>2. \A k \in 1..n : q[k] \in CfsTasks /\ q[k] \in Members(q) /\ q[k] \in Tasks
    <2>1. Members(q) \subseteq CfsTasks /\ \A k \in 1..n : q[k] \in Members(q)  BY MembersOf
    <2> QED BY <2>1, TaskKinds
  <1>3. \A i, j \in 1..n : i # j => q[i] # q[j]  BY DEF Chain, NoDuplicates
  <1>4. \A k \in 1..n : wq.next[q[k]] = IF k = n THEN NoTask ELSE q[k + 1]  BY DEF Chain
  <1>5. /\ wq'.first = wq.next[x]
        /\ wq'.next = [wq.next EXCEPT ![x] = NoTask]
        /\ wq.next \in [Tasks -> CfsTasks \cup {NoTask}]
    <2>1. x \in Listed  BY ChainWalk
    <2> QED BY <2>1 DEF WqWithout, TypeOK
  <1> HIDE DEF p, n
  <1>6. ASSUME NEW k \in 1..(n - p) PROVE k + p \in 1..n /\ k + p # p
    BY <1>1, <1>6
  <1>7. r \in Seq(CfsTasks) /\ Len(r) = n - p /\ \A k \in 1..(n - p) : r[k] = q[k + p]
    <2>1. r \in [1..(n - p) -> CfsTasks]  BY <1>2, <1>6
    <2>2. \A k \in 1..(n - p) : r[k] = q[k + p]  OBVIOUS
    <2> HIDE DEF r
    <2>3. r \in Seq(CfsTasks)  BY <1>1, <2>1, SeqDef
    <2>4. Len(r) \in Nat /\ DOMAIN r = 1..Len(r) /\ DOMAIN r = 1..(n - p)
      BY <2>1, <2>3, LenProperties
    <2>5. Len(r) = n - p  BY <1>1, <2>4
    <2> QED BY <2>2, <2>3, <2>5
  <1> HIDE DEF r
  <1>8. Members(r) \subseteq Members(q) \ {x}
    <2>1. \A k \in 1..(n - p) : r[k] \in Members(q) /\ r[k] # x
      BY <1>1, <1>2, <1>3, <1>6, <1>7
    <2> QED BY <1>7, <2>1 DEF Members
  <1>9. NoDuplicates(r)
    <2>1. ASSUME NEW i \in 1..(n - p), NEW j \in 1..(n - p), i # j PROVE r[i] # r[j]
      <3>1. i + p # j + p  BY <1>1, <2>1
      <3> QED BY <1>3, <1>6, <1>7, <3>1
    <2> QED BY <1>7, <2>1 DEF NoDuplicates
  <1>10. wq'.first = IF r = <<>> THEN NoTask ELSE r[1]
    <2>1. r = <<>> <=> p = n  BY <1>1, <1>7, EmptySeq
    <2>2. p # n => 1 \in 1..(n - p) /\ 1 + p = p + 1  BY <1>1
    <2>3. p # n => r[1] = q[p + 1]  BY <1>7, <2>2
    <2> QED BY <1>1, <1>4, <1>5, <2>1, <2>3
  <1>11. ASSUME NEW k \in 1..Len(r)
         PROVE  wq'.next[r[k]] = IF k = Len(r) THEN NoTask ELSE r[k + 1]
    <2>1. k + p \in 1..n /\ r[k] = q[k + p] /\ (k = Len(r) <=> k + p = n)
      BY <1>1, <1>6, <1>7
    <2>2. wq'.next[r[k]] = wq.next[q[k + p]]  BY <1>1, <1>2, <1>3, <1>5, <1>6, <1>7, <2>1
    <2>3. wq.next[q[k + p]] = IF k + p = n THEN NoTask ELSE q[(k + p) + 1]  BY <1>4, <2>1
    <2>4. k # Len(r) => k + 1 \in 1..(n - p) /\ (k + 1) + p = (k + p) + 1  BY <1>1, <1>7
    <2>5. k # Len(r) => r[k + 1] = q[(k + p) + 1]  BY <1>7, <2>4
    <2> QED BY <2>1, <2>2, <2>3, <2>5
  <1>12. Chain(r)'  BY <1>9, <1>10, <1>11 DEF Chain
  <1> QED BY <1>7, <1>8, <1>12

\* remove_from_wq(x) on a sound list ends, writes through no NULL pointer, and leaves a
\* sound list without x.
LEMMA RemoveKeeps ==
  ASSUME SchedInv, WaitInv, NEW x \in Tasks
  PROVE  /\ RemoveFault(x) = "none"
         /\ wq' = WqWithout(x) =>
              /\ \E r \in Seq(CfsTasks) : Chain(r)'
              /\ Listed' \subseteq Listed \ {x}
              /\ \A t \in Listed' : wq'.prev[t]
  <1>1. TypeOK /\ \A t \in Listed : wq.prev[t]  BY DEF SchedInv, WaitInv
  <1>2. PICK q \in Seq(CfsTasks) : Chain(q)  BY DEF WaitInv
  <1>3. Listed = Members(q) /\ ~Circular  BY <1>2, ChainWalk
  <1>4. RemoveFault(x) = "none"  BY <1>1, <1>3 DEF RemoveFault
  <1>5. ASSUME wq' = WqWithout(x)
        PROVE  /\ \E r \in Seq(CfsTasks) : Chain(r)'
               /\ Listed' \subseteq Listed \ {x}
               /\ \A t \in Listed' : wq'.prev[t]
    <2>1. CASE x \notin Listed
      <3>1. wq' = wq  BY <1>5, <2>1 DEF WqWithout
      <3>2. Listed' = Listed /\ Chain(q)'  BY <1>2, <3>1, SameWalk
      <3> QED BY <1>1, <1>2, <2>1, <3>1, <3>2
    <2>2. CASE x \in Listed
      <3>1. PICK r \in Seq(CfsTasks) : Chain(r)' /\ Members(r) \subseteq Members(q) \ {x}
        BY <1>1, <1>2, <1>3, <1>5, <2>2, UnlinkedChain
      <3>2. Listed' = Members(r)  BY <3>1, ChainWalkNext
      <3>3. Listed' \subseteq Listed \ {x}  BY <1>3, <3>1, <3>2
      <3>4. Listed \subseteq Tasks  BY <1>3, MembersOf, TaskKinds
      <3>5. wq'.prev = [u \in Tasks |-> u # x /\ (wq.prev[u] \/ u = wq.next[x])]
        BY <1>5, <2>2 DEF WqWithout
      <3>6. \A t \in Listed' : wq'.prev[t]  BY <1>1, <3>3, <3>4, <3>5
      <3> QED BY <3>1, <3>3, <3>6
    <2> QED BY <2>1, <2>2
  <1> QED BY <1>4, <1>5

-----------------------------------------------------------------------------
(* The invariant of the wait list holds at boot and is kept by every step.   *)

LEMMA WaitInitInv == Init => WaitInv
  <1> SUFFICES ASSUME Init PROVE WaitInv  OBVIOUS
  <1>1. wq.first = NoTask /\ pc = [t \in Tasks |-> "run"] /\ fault = "none"  BY DEF Init
  <1>2. <<>> \in Seq(CfsTasks) /\ Chain(<<>>)  BY <1>1 DEF Chain, NoDuplicates
  <1>3. Listed = {}
    <2>1. Members(<<>>) = {}  BY DEF Members
    <2>2. Listed = Members(<<>>)  BY <1>2, ChainWalk
    <2> QED BY <2>1, <2>2
  <1> QED BY <1>1, <1>2, <1>3 DEF WaitInv

\* A step that does not write the list.
LEMMA ListKept ==
  ASSUME WaitInv, wq' = wq, fault' = "none",
         \A t \in Listed : state[t] = "WAITING" => state'[t] = "WAITING",
         \A u \in Tasks : pc[u] = "deq2" =>
           (pc'[u] = "deq2" /\ arg'[u] = arg[u]) \/ state'[arg[u]] = "WAITING",
         \A u \in Tasks : pc'[u] \in {"deqr", "deq1"} => temp'[u] = wq.first /\ u = current',
         \A u \in Tasks : pc'[u] \in {"enq2", "enq3", "enq4"} => arg'[u] \notin Listed
  PROVE  WaitInv'
  <1>1. Listed' = Listed /\ \A q : Chain(q)' <=> Chain(q)  BY SameWalk
  <1>2. \A t \in Listed : state'[t] = "WAITING" \/ \E u \in Tasks : pc'[u] = "deq2" /\ arg'[u] = t
    BY DEF WaitInv
  <1> QED BY <1>1, <1>2 DEF WaitInv

\* Where an operation's task can be.
LEMMA ListedOnly ==
  ASSUME SchedInv, WaitInv
  PROVE  /\ TypeOK /\ fault = "none" /\ Places /\ Midway /\ Undisturbed
         /\ Listed \subseteq CfsTasks
         /\ \A t \in Listed : state[t] = "WAITING" \/ \E u \in Tasks : pc[u] = "deq2" /\ arg[u] = t
         /\ \A u \in Tasks : pc[u] \in {"deqr", "deq1"} => temp[u] = wq.first /\ u = current
         /\ \A u \in Tasks : pc[u] \in {"enq2", "enq3", "enq4"} => arg[u] \notin Listed
  <1>1. PICK q \in Seq(CfsTasks) : Chain(q)  BY DEF WaitInv
  <1>2. Listed \subseteq CfsTasks  BY <1>1, ChainWalk, MembersOf
  <1> QED BY <1>2 DEF WaitInv, SchedInv, Live

LEMMA AddWaitInv ==
  ASSUME SchedInv, WaitInv, NEW t \in Tasks, add_to_wq(t)
  PROVE  WaitInv'
  <1> DEFINE x == arg[t]
  <1>1. /\ TypeOK /\ fault = "none" /\ Places /\ Midway /\ Undisturbed
        /\ \A y \in Listed : state[y] = "WAITING" \/ \E u \in Tasks : pc[u] = "deq2" /\ arg[u] = y
        /\ \A u \in Tasks : pc[u] \in {"deqr", "deq1"} => temp[u] = wq.first /\ u = current
        /\ \A u \in Tasks : pc[u] \in {"enq2", "enq3", "enq4"} => arg[u] \notin Listed
        /\ \A y \in Listed : wq.prev[y]
    BY ListedOnly DEF WaitInv
  <1>2. /\ pc[t] = "deq1" /\ current = t /\ fault' = "none" /\ current' = current
        /\ wq' = [first |-> x, next |-> [wq.next EXCEPT ![x] = temp[t]],
                  prev |-> [wq.prev EXCEPT ![x] = TRUE]]
        /\ pc' = [pc EXCEPT ![t] = "deq2"] /\ UNCHANGED <<state, arg>>
    BY <1>1 DEF add_to_wq, Running, Goto
  <1>3. x \in CfsTasks /\ x \in Tasks /\ state[x] = "RUNNING"
    BY <1>1, <1>2, TaskKinds DEF Places, Midway, Ops, DeqPcs
  <1>4. \A u \in Tasks \ {t} : pc[u] \in Ops => arg[u] # x
    BY <1>1, <1>2, OneEach DEF Ops, DeqPcs
  <1>5. x \notin Listed  BY <1>1, <1>2, <1>3, <1>4 DEF Ops, DeqPcs
  <1>6. temp[t] = wq.first  BY <1>1, <1>2
  <1>7. /\ pc'[t] = "deq2" /\ \A u \in Tasks \ {t} : pc'[u] = pc[u]
        /\ wq.next \in [Tasks -> CfsTasks \cup {NoTask}] /\ wq.prev \in [Tasks -> BOOLEAN]
    BY <1>1, <1>2, Typed0 DEF TypeOK
  <1> HIDE DEF x
  <1>8. PICK q \in Seq(CfsTasks) : Chain(q)  BY DEF WaitInv
  <1>9. Listed = Members(q)  BY <1>8, ChainWalk
  <1>10. PICK r \in Seq(CfsTasks) : Chain(r)' /\ Members(r) = Members(q) \cup {x}
    <2>1. wq'.first = x /\ wq'.next = [wq.next EXCEPT ![x] = wq.first]  BY <1>2, <1>6
    <2> QED BY <1>3, <1>5, <1>7, <1>8, <1>9, <2>1, AddedChain
  <1>11. Listed' = Listed \cup {x}  BY <1>9, <1>10, ChainWalkNext
  <1>12. \A y \in Listed' : wq'.prev[y]
    <2>1. wq'.prev = [wq.prev EXCEPT ![x] = TRUE]  BY <1>2
    <2>2. wq'.prev[x]  BY <1>3, <1>7, <2>1
    <2>3. \A y \in Listed : wq'.prev[y]
      <3>1. Listed \subseteq Tasks  BY <1>9, MembersOf, TaskKinds
      <3> QED BY <1>1, <1>7, <2>1, <3>1
    <2> QED BY <1>11, <2>2, <2>3
  <1>13. \A y \in Listed' : state'[y] = "WAITING" \/ \E u \in Tasks : pc'[u] = "deq2" /\ arg'[u] = y
    BY <1>1, <1>2, <1>7, <1>11 DEF x
  <1>14. \A u \in Tasks : pc'[u] \notin {"deqr", "deq1"}  BY <1>1, <1>2, <1>7
  <1>15. \A u \in Tasks : pc'[u] \in {"enq2", "enq3", "enq4"} => arg'[u] \notin Listed'
    BY <1>1, <1>2, <1>4, <1>7, <1>11 DEF Ops, EnqPcs
  <1> QED BY <1>2, <1>10, <1>12, <1>13, <1>14, <1>15 DEF WaitInv

LEMMA RemoveWaitInv ==
  ASSUME SchedInv, WaitInv, NEW t \in Tasks, remove_from_wq(t)
  PROVE  WaitInv'
  <1>1. /\ TypeOK /\ fault = "none" /\ Places
        /\ \A y \in Listed : state[y] = "WAITING" \/ \E u \in Tasks : pc[u] = "deq2" /\ arg[u] = y
        /\ \A u \in Tasks : pc[u] \in {"deqr", "deq1"} => temp[u] = wq.first /\ u = current
        /\ \A u \in Tasks : pc[u] \in {"enq2", "enq3", "enq4"} => arg[u] \notin Listed
    BY ListedOnly
  <1>2. /\ pc[t] = "enq1" /\ current = t /\ fault' = RemoveFault(arg[t])
        /\ wq' = WqWithout(arg[t]) /\ pc' = [pc EXCEPT ![t] = "enq2"]
        /\ UNCHANGED <<state, arg, current>>
    BY DEF remove_from_wq, Running, Goto
  <1>3. arg[t] \in Tasks
    BY <1>1, <1>2, TaskKinds DEF Places, Ops, EnqPcs
  <1>4. /\ fault' = "none" /\ \E r \in Seq(CfsTasks) : Chain(r)'
        /\ Listed' \subseteq Listed \ {arg[t]} /\ \A y \in Listed' : wq'.prev[y]
    BY <1>2, <1>3, RemoveKeeps
  <1>5. pc'[t] = "enq2" /\ \A u \in Tasks \ {t} : pc'[u] = pc[u]  BY <1>1, <1>2, Typed0
  <1>6. \A y \in Listed' : state'[y] = "WAITING" \/ \E u \in Tasks : pc'[u] = "deq2" /\ arg'[u] = y
    BY <1>1, <1>2, <1>4, <1>5
  <1>7. \A u \in Tasks : pc'[u] \notin {"deqr", "deq1"}  BY <1>1, <1>2, <1>5
  <1>8. \A u \in Tasks : pc'[u] \in {"enq2", "enq3", "enq4"} => arg'[u] \notin Listed'
    BY <1>1, <1>2, <1>4, <1>5
  <1> QED BY <1>4, <1>6, <1>7, <1>8 DEF WaitInv

LEMMA OtherStepsWaitInv ==
  ASSUME SchedInv, WaitInv, NEW t \in Tasks,
         \/ DeqReadFirst(t) \/ DeqLockWq(t) \/ DeqState(t) \/ DeqLockRq(t) \/ DeqErase(t)
         \/ EnqLockWq(t) \/ EnqState(t) \/ EnqLockRq(t) \/ EnqInsert(t)
         \/ Sleep(t) \/ create_oneshot_timer(t) \/ DelayYield(t) \/ yieldyi(t)
         \/ RtStart(t) \/ RtFinish(t) \/ OneshotWork(t)
  PROVE  WaitInv'
  <1>1. /\ TypeOK /\ fault = "none" /\ Places /\ Midway /\ Undisturbed
        /\ Listed \subseteq CfsTasks
        /\ \A y \in Listed : state[y] = "WAITING" \/ \E u \in Tasks : pc[u] = "deq2" /\ arg[u] = y
        /\ \A u \in Tasks : pc[u] \in {"deqr", "deq1"} => temp[u] = wq.first /\ u = current
        /\ \A u \in Tasks : pc[u] \in {"enq2", "enq3", "enq4"} => arg[u] \notin Listed
    BY ListedOnly
  <1>2. DOMAIN pc = Tasks /\ DOMAIN arg = Tasks /\ DOMAIN state = Tasks /\ DOMAIN temp = Tasks
    BY <1>1 DEF TypeOK
  <1>3. CASE DeqReadFirst(t)
    <2>1. /\ wq' = wq /\ fault' = "none" /\ current = t /\ current' = t /\ pc[t] = "deq0"
          /\ temp' = [temp EXCEPT ![t] = wq.first] /\ pc' = [pc EXCEPT ![t] = "deqr"]
          /\ arg' = arg /\ state' = state
      BY <1>1, <1>3 DEF DeqReadFirst, Running, Goto
    <2> QED BY <1>1, <1>2, <2>1, ListKept
  <1>4. CASE DeqLockWq(t)
    <2>1. /\ wq' = wq /\ fault' = "none" /\ current = t /\ current' = t /\ pc[t] = "deqr"
          /\ temp' = temp /\ pc' = [pc EXCEPT ![t] = "deq1"] /\ arg' = arg /\ state' = state
      BY <1>1, <1>4 DEF DeqLockWq, Running, Goto, wqVars
    <2> QED BY <1>1, <1>2, <2>1, ListKept
  <1>5. CASE DeqState(t)
    <2>1. /\ wq' = wq /\ fault' = "none" /\ current = t /\ current' = t /\ pc[t] = "deq2"
          /\ temp' = temp /\ pc' = [pc EXCEPT ![t] = "deq3"] /\ arg' = arg
          /\ state' = [state EXCEPT ![arg[t]] = "WAITING"]
      BY <1>1, <1>5 DEF DeqState, Running, Goto, wqVars
    <2>2. arg[t] \in Tasks  BY <1>1, <2>1, TaskKinds DEF Places, Ops, DeqPcs
    <2> QED BY <1>1, <1>2, <2>1, <2>2, ListKept
  <1>6. CASE DeqLockRq(t) \/ EnqLockWq(t) \/ EnqLockRq(t)
    <2>1. /\ wq' = wq /\ fault' = "none" /\ current = t /\ current' = t /\ temp' = temp
          /\ arg' = arg /\ state' = state
          /\ \/ pc[t] = "deq3" /\ pc' = [pc EXCEPT ![t] = "deq4"]
             \/ pc[t] = "enq0" /\ pc' = [pc EXCEPT ![t] = "enq1"]
             \/ pc[t] = "enq3" /\ pc' = [pc EXCEPT ![t] = "enq4"]
      BY <1>1, <1>6 DEF DeqLockRq, EnqLockWq, EnqLockRq, Running, Goto, wqVars
    <2> QED BY <1>1, <1>2, <2>1, ListKept
  <1>7. CASE EnqState(t)
    <2>1. /\ wq' = wq /\ fault' = "none" /\ current = t /\ current' = t /\ temp' = temp
          /\ pc[t] = "enq2" /\ pc' = [pc EXCEPT ![t] = "enq3"] /\ arg' = arg
          /\ state' = [state EXCEPT ![arg[t]] = "RUNNING"]
      BY <1>1, <1>7 DEF EnqState, Running, Goto, wqVars
    <2>2. arg[t] \notin Listed  BY <1>1, <2>1
    <2> QED BY <1>1, <1>2, <2>1, <2>2, OneEach, ListKept DEF Ops, DeqPcs, EnqPcs
  <1>8. CASE DeqErase(t) \/ EnqInsert(t)
    <2>1. fault' = "none"  BY <1>1, <1>8, DeqEraseInv, EnqInsertInv
    <2>2. /\ wq' = wq /\ current = t /\ current' = t /\ temp' = temp /\ state' = state
          /\ pc[t] \in {"deq4", "enq4"}
          /\ pc'[t] \in {"run", "yld", "tmr"} /\ \A u \in Tasks \ {t} : pc'[u] = pc[u]
          /\ \A u \in Tasks \ {t} : arg'[u] = arg[u]
      BY <1>2, <1>8 DEF DeqErase, EnqInsert, AfterDequeue, Running, Call, Goto, wqVars
    <2> QED BY <1>1, <1>2, <2>1, <2>2, ListKept
  <1>9. CASE Sleep(t) \/ create_oneshot_timer(t)
    <2>1. /\ wq' = wq /\ fault' = "none" /\ current = t /\ current' = t /\ temp' = temp
          /\ state' = state /\ pc[t] \in {"run", "tmr"}
          /\ pc'[t] \in {"deq0", "run", "dyld"} /\ \A u \in Tasks \ {t} : pc'[u] = pc[u]
          /\ \A u \in Tasks \ {t} : arg'[u] = arg[u]
      BY <1>1, <1>2, <1>9 DEF Sleep, create_oneshot_timer, Running, Call, Goto, wqVars
    <2> QED BY <1>1, <1>2, <2>1, ListKept
  <1>10. CASE DelayYield(t) \/ yieldyi(t) \/ RtStart(t) \/ RtFinish(t) \/ OneshotWork(t)
    <2>1. /\ wq' = wq /\ fault' = "none" /\ current = t /\ temp' = temp
          /\ state' = state /\ pc[t] \in {"run", "work", "dyld", "yld"} /\ arg' = arg
          /\ pc'[t] \in {"run", "work", "yld"} /\ \A u \in Tasks \ {t} : pc'[u] = pc[u]
      BY <1>1, <1>2, <1>10
         DEF DelayYield, yieldyi, RtStart, RtFinish, OneshotWork, Running, Goto, wqVars
    <2> QED BY <1>1, <1>2, <2>1, ListKept
  <1> QED BY <1>3, <1>4, <1>5, <1>6, <1>7, <1>8, <1>9, <1>10

LEMMA CommandWaitInv ==
  ASSUME Careful, SchedInv, WaitInv, NEW t \in Tasks, Command(t)
  PROVE  WaitInv'
  <1>1. /\ TypeOK /\ fault = "none" /\ Undisturbed
        /\ Listed \subseteq CfsTasks
        /\ \A u \in Tasks : pc[u] \in {"deqr", "deq1"} => temp[u] = wq.first /\ u = current
        /\ \A u \in Tasks : pc[u] \in {"enq2", "enq3", "enq4"} => arg[u] \notin Listed
    BY ListedOnly
  <1>2. fault' = "none"
    BY <1>1, CreateInv, OperatorInv DEF Command
  <1>3. /\ wq' = wq /\ temp' = temp /\ current = Shell /\ current' = Shell /\ pc[Shell] = "run"
        /\ state' = state \/ (t \in Rt \cup Oneshot /\ state' = [state EXCEPT ![t] = "RUNNING"])
        /\ \A u \in Tasks \ {Shell} : pc'[u] = pc[u] /\ arg'[u] = arg[u]
        /\ pc'[Shell] \in {"run", "deq0", "enq0", "tmr"}
    BY <1>1, Typed0, TaskKinds
       DEF Command, create_cfs_task, create_rt_task, create_oneshot_task, SleepCommand, RunCommand,
           Typed, Running, Call, Goto, wqVars
  <1>4. \A y \in Listed : state'[y] = state[y]
    <2>1. t \in Rt \cup Oneshot => t \notin Listed  BY <1>1, TaskKinds
    <2>2. DOMAIN state = Tasks /\ Listed \subseteq Tasks  BY <1>1, Typed0, TaskKinds
    <2> QED BY <1>3, <2>1, <2>2
  <1>5. \A u \in Tasks : pc[u] = "deq2" => pc'[u] = "deq2" /\ arg'[u] = arg[u]  BY <1>3
  <1>6. \A u \in Tasks : pc'[u] \in {"deqr", "deq1"} => temp'[u] = wq.first /\ u = current'
    BY <1>1, <1>3
  <1>7. \A u \in Tasks : pc'[u] \in {"enq2", "enq3", "enq4"} => arg'[u] \notin Listed
    BY <1>1, <1>3
  <1> QED BY <1>2, <1>3, <1>4, <1>5, <1>6, <1>7, ListKept

LEMMA IrqWaitInv ==
  ASSUME Careful, FirstFresh, SchedInv, WaitInv, NEW t \in Tasks,
         SchedIrq \/ RtTimerIrq(t) \/ OneshotTimerIrq(t)
  PROVE  WaitInv'
  <1>1. /\ TypeOK /\ fault = "none" /\ Undisturbed /\ LocksQuiet
        /\ Listed \subseteq CfsTasks
        /\ \A y \in Listed : state[y] = "WAITING" \/ \E u \in Tasks : pc[u] = "deq2" /\ arg[u] = y
        /\ \A u \in Tasks : pc[u] \in {"deqr", "deq1"} => temp[u] = wq.first /\ u = current
        /\ \A u \in Tasks : pc[u] \in {"enq2", "enq3", "enq4"} => arg[u] \notin Listed
    BY ListedOnly DEF Careful
  <1>2. Interruptible  BY DEF SchedIrq, RtTimerIrq, OneshotTimerIrq
  <1>3. \A u \in Tasks : pc[u] \notin {"deqr", "deq1"}
    BY <1>1, <1>2 DEF FirstFresh, LocksQuiet, LockPcs, Interruptible
  <1>4. CASE SchedIrq
    <2>1. fault' = "none"  BY <1>1, <1>4, SchedIrqInv
    <2>2. wq' = wq /\ UNCHANGED <<state, pc, arg>>  BY <1>4 DEF SchedIrq, wqVars
    <2> QED BY <1>1, <1>3, <2>1, <2>2, ListKept
  <1>5. CASE RtTimerIrq(t)
    <2>1. fault' = "none"  BY <1>1, <1>5, RtTimerIrqInv
    <2>2. wq' = wq /\ UNCHANGED <<state, pc, arg>>  BY <1>5 DEF RtTimerIrq, wqVars
    <2> QED BY <1>1, <1>3, <2>1, <2>2, ListKept
  <1>6. CASE OneshotTimerIrq(t)
    <2>1. fault' = "none" /\ UNCHANGED <<pc, arg>>
      <3>1. RemoveFault(t) = "none"  BY RemoveKeeps
      <3>2. fault' = "none"  BY <1>1, <1>6, <3>1, OneshotTimerIrqInv
      <3> QED BY <1>6, <3>2 DEF OneshotTimerIrq
    <2>2. CASE state[t] # "WAITING"
      <3>1. wq' = wq /\ state' = state  BY <1>6, <2>2 DEF OneshotTimerIrq
      <3> QED BY <1>1, <1>3, <2>1, <3>1, ListKept
    <2>3. CASE state[t] = "WAITING"
      <3>1. ~WqHeld /\ ~RqHeld /\ RemoveFault(t) = "none" /\ WakeInIrq(t)
        BY <1>1, <1>2, <1>6, <2>3, InterruptedWhere, RemoveKeeps DEF OneshotTimerIrq
      <3>2. wq' = WqWithout(t) /\ state' = [state EXCEPT ![t] = "RUNNING"]
        BY <3>1 DEF WakeInIrq
      <3>3. /\ \E r \in Seq(CfsTasks) : Chain(r)'
            /\ Listed' \subseteq Listed \ {t} /\ \A y \in Listed' : wq'.prev[y]
        BY <3>2, RemoveKeeps
      <3>4. \A y \in Listed' : state'[y] = state[y]  BY <1>1, <3>2, <3>3, TaskKinds
      <3> QED BY <1>1, <1>3, <2>1, <3>3, <3>4 DEF WaitInv
    <2> QED BY <2>2, <2>3
  <1> QED BY <1>4, <1>5, <1>6

LEMMA WaitNext ==
  ASSUME Careful, FirstFresh, SchedInv, WaitInv, Next
  PROVE  WaitInv'
  <1>1. ASSUME NEW t \in Tasks, TaskStep(t) PROVE WaitInv'
    BY <1>1, AddWaitInv, RemoveWaitInv, OtherStepsWaitInv DEF TaskStep, QueueStep
  <1>2. ASSUME NEW t \in Tasks, Command(t) PROVE WaitInv'  BY <1>2, CommandWaitInv
  <1>3. CASE SchedIrq  BY <1>3, IrqWaitInv, TaskKinds
  <1>4. ASSUME NEW t \in Tasks, RtTimerIrq(t) \/ OneshotTimerIrq(t) PROVE WaitInv'
    BY <1>4, IrqWaitInv
  <1> QED BY <1>1, <1>2, <1>3, <1>4 DEF Next

LEMMA WaitStutters ==
  ASSUME WaitInv, UNCHANGED vars
  PROVE  WaitInv'
  <1>1. wq' = wq /\ UNCHANGED <<fault, state, pc, arg, temp, current>>  BY DEF vars
  <1>2. Listed' = Listed /\ \A q : Chain(q)' <=> Chain(q)  BY <1>1, SameWalk
  <1> QED BY <1>1, <1>2 DEF WaitInv

\* The list is sound, holds waiters only, and nothing ever goes wrong (add_to_wq,
\* remove_from_wq, timer_irq).
THEOREM WaitInvariant == ASSUME Careful, FirstFresh PROVE Spec => [](SchedInv /\ WaitInv)
  <1>1. Init => SchedInv /\ WaitInv  BY SchedInitInv, WaitInitInv
  <1>2. SchedInv /\ WaitInv /\ [Next]_vars => (SchedInv /\ WaitInv)'
    BY SchedNext, SchedStutters, WaitNext, WaitStutters
  <1> QED BY <1>1, <1>2, PTL DEF Spec

\* No sequence of commands, delays and interrupts links a node twice, erases an unlinked
\* one, follows a NULL leftmost pointer, walks in a circle or spins in the handler
\* (enqueue_se_to_runq, dequeue_se_to_wq, remove_from_wq, schedule).
THEOREM SchedNoFault == ASSUME Careful, FirstFresh PROVE Spec => []NoFault
  <1>1. WaitInv => NoFault  BY DEF WaitInv, NoFault
  <1> QED BY <1>1, WaitInvariant, PTL

\* A task that was woken has left the wait list and does not come back to it until it
\* sleeps again (remove_from_wq, add_to_wq).
THEOREM SchedOnlyWaitersListed == ASSUME Careful, FirstFresh PROVE Spec => []OnlyWaitersListed
  <1>1. SchedInv /\ WaitInv => OnlyWaitersListed
    BY DEF WaitInv, OnlyWaitersListed, InTransit, DeqPcs
  <1> QED BY <1>1, WaitInvariant, PTL

\* The CPU never goes to a task that is asleep or was never started (schedule, yieldyi,
\* timer_irq).
THEOREM SchedSwitches == ASSUME Careful, FirstFresh PROVE Spec => SwitchesToRunnable
  <1>1. SchedInv /\ WaitInv /\ WaitInv' /\ [Next]_vars =>
          [current' # current =>
             current' \in Members(runq') \cup ((Rt \cup Oneshot) \cap Members(tasklist'))]_vars
    BY SchedNext DEF WaitInv, Runnable, Created
  <1> QED BY <1>1, WaitInvariant, PTL DEF Spec, SwitchesToRunnable
=============================================================================
