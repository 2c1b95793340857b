-------------------------- MODULE WorkQueueProofs --------------------------
(***************************************************************************)
(* The ring of deferred work, for any size of the ring, any work functions *)
(* and any number of them: as long as it never fills up, functions run     *)
(* once each and in order, wherever handlers interrupt the worker.         *)
(***************************************************************************)
EXTENDS WorkQueue, TLAPS

\* What enqueue_workq does not check, as an assumption of the theorems: there are
\* always fewer functions pending than slots.
NotFull == MaxPending < MAX_WORKQ

Pending == Len(posted) - Len(ran)

\* What the worker has still to do of its round is enqueued (enq_idx as it read it).
Draining == wpc = "loop" => i <= end /\ end - i <= Pending

WorkInv == WorkTypeOK /\ InOrder /\ RingHolds /\ Pending < MAX_WORKQ /\ Draining

-----------------------------------------------------------------------------
(* Indices modulo the size of the ring.                                      *)

\* One turn of the ring (workq_worker's i, which runs over two).
LEMMA Turn ==
  ASSUME NEW a \in Nat
  PROVE  /\ a % MAX_WORKQ \in 0..(MAX_WORKQ - 1)
         /\ a < MAX_WORKQ => a % MAX_WORKQ = a
         /\ a >= MAX_WORKQ /\ a < 2 * MAX_WORKQ => a % MAX_WORKQ = a - MAX_WORKQ
  <1>1. MAX_WORKQ \in Nat \ {0}  BY WorkQueueAssumption
  <1>2. a % MAX_WORKQ \in 0..(MAX_WORKQ - 1)  BY <1>1, SMT
  <1>3. ASSUME a < MAX_WORKQ PROVE a % MAX_WORKQ = a  BY <1>1, <1>3, SMT
  <1>4. ASSUME a >= MAX_WORKQ, a < 2 * MAX_WORKQ PROVE a % MAX_WORKQ = a - MAX_WORKQ
    BY <1>1, <1>4, SMT
  <1> QED BY <1>2, <1>3, <1>4

\* In both cases.
LEMMA TurnEither ==
  ASSUME NEW a \in Nat, a < 2 * MAX_WORKQ
  PROVE  a % MAX_WORKQ = a \/ a % MAX_WORKQ = a - MAX_WORKQ
  <1>1. MAX_WORKQ \in Nat \ {0}  BY WorkQueueAssumption
  <1>2. CASE a < MAX_WORKQ  BY <1>2, Turn
  <1>3. CASE a >= MAX_WORKQ  BY <1>3, Turn
  <1> QED BY <1>1, <1>2, <1>3

\* Moving an index on, by one slot (enqueue_workq's wrap).
LEMMA TurnNext ==
  ASSUME NEW s \in 0..(MAX_WORKQ - 1), NEW k \in 0..(MAX_WORKQ - 1)
  PROVE  NextIndex((s + k) % MAX_WORKQ) = (s + k + 1) % MAX_WORKQ
  <1>1. MAX_WORKQ \in Nat \ {0}  BY WorkQueueAssumption
  <1>2. s + k \in Nat /\ s + k + 1 \in Nat  BY <1>1
  <1>3. s + k < 2 * MAX_WORKQ - 1  BY <1>1
  <1>4. CASE s + k + 1 < MAX_WORKQ
    BY <1>1, <1>2, <1>4, Turn, (s + k) % MAX_WORKQ = s + k, (s + k + 1) % MAX_WORKQ = s + k + 1
    DEF NextIndex
  <1>5. CASE s + k + 1 = MAX_WORKQ
    <2>1. (s + k) % MAX_WORKQ = s + k  BY <1>1, <1>2, <1>5, Turn
    <2>2. (s + k + 1) % MAX_WORKQ = 0  BY <1>1, <1>2, <1>5, Turn
    <2> QED BY <1>1, <1>5, <2>1, <2>2 DEF NextIndex
  <1>6. CASE s + k + 1 > MAX_WORKQ
    <2>1. (s + k) % MAX_WORKQ = s + k - MAX_WORKQ  BY <1>1, <1>2, <1>3, <1>6, Turn
    <2>2. (s + k + 1) % MAX_WORKQ = s + k + 1 - MAX_WORKQ  BY <1>1, <1>2, <1>3, <1>6, Turn
    <2> QED BY <1>1, <1>3, <1>6, <2>1, <2>2 DEF NextIndex
  <1> QED BY <1>1, <1>2, <1>4, <1>5, <1>6

\* Slots less than a turn apart are different slots.
LEMMA TurnApart ==
  ASSUME NEW s \in 0..(MAX_WORKQ - 1), NEW k \in 0..(MAX_WORKQ - 1),
         NEW j \in 0..(MAX_WORKQ - 1), j < k
  PROVE  (s + j) % MAX_WORKQ # (s + k) % MAX_WORKQ
  <1>1. MAX_WORKQ \in Nat \ {0} /\ s + j \in Nat /\ s + k \in Nat  BY WorkQueueAssumption
  <1>2. s + j < 2 * MAX_WORKQ /\ s + k < 2 * MAX_WORKQ  BY <1>1
  <1>3. (s + j) % MAX_WORKQ \in {s + j, s + j - MAX_WORKQ}  BY <1>1, <1>2, Turn
  <1>4. (s + k) % MAX_WORKQ \in {s + k, s + k - MAX_WORKQ}  BY <1>1, <1>2, Turn
  <1> QED BY <1>1, <1>3, <1>4, Turn

\* Where the worker goes on after one function (its i, counted up).
LEMMA TurnOn ==
  ASSUME NEW a \in 0..(2 * MAX_WORKQ - 2), NEW k \in 1..MAX_WORKQ
  PROVE  (((a + 1) % MAX_WORKQ) + k - 1) % MAX_WORKQ = ((a % MAX_WORKQ) + k) % MAX_WORKQ
  <1> DEFINE N == MAX_WORKQ
             s == a % N
             t == (a + 1) % N
  <1>1. N \in Nat \ {0} /\ a \in Nat /\ a + 1 \in Nat /\ a + 1 < 2 * N  BY WorkQueueAssumption
  <1>2. s \in 0..(N - 1) /\ t \in 0..(N - 1)  BY <1>1, Turn
  <1>3. s + 1 = t \/ (s = N - 1 /\ t = 0)
    <2>1. /\ a < N => s = a
          /\ a >= N => s = a - N
          /\ a + 1 < N => t = a + 1
          /\ a + 1 >= N => t = a + 1 - N
      BY <1>1, Turn
    <2> HIDE DEF s, t
    <2> QED BY <1>1, <2>1
  <1>4. CASE s + 1 = t  BY <1>1, <1>2, <1>4, t + k - 1 = s + k
  <1>5. CASE s = N - 1 /\ t = 0
    <2>1. k - 1 \in Nat /\ k - 1 < N /\ N + (k - 1) \in Nat  BY <1>1
    <2>2. (k - 1) % N = k - 1  BY <1>1, <2>1, Turn
    <2>3. (N + (k - 1)) % N = k - 1  BY <1>1, <2>1, Turn
    <2>4. t + k - 1 = k - 1 /\ s + k = N + (k - 1)  BY <1>1, <1>5
    <2> QED BY <2>2, <2>3, <2>4
  <1> QED BY <1>3, <1>4, <1>5

-----------------------------------------------------------------------------
(* The ring holds what is pending.                                           *)

\* Both processors' workers start with an empty ring (create_workq_worker).
LEMMA WorkInitInv == WorkInit => WorkInv
  <1> SUFFICES ASSUME WorkInit PROVE WorkInv  OBVIOUS
  <1>1. MAX_WORKQ \in Nat \ {0}  BY WorkQueueAssumption
  <1>2. posted = <<>> /\ ran = <<>> /\ Len(posted) = 0 /\ Len(ran) = 0  BY DEF WorkInit
  <1>3. WorkTypeOK  BY <1>1, <1>2 DEF WorkInit, WorkTypeOK
  <1>4. InOrder  BY <1>2 DEF InOrder
  <1>5. RingHolds
    <2>1. NextSlot = 0  BY DEF WorkInit, NextSlot
    <2>2. 0 % MAX_WORKQ = 0  BY <1>1, Turn
    <2> QED BY <1>2, <2>1, <2>2 DEF RingHolds, WorkInit
  <1>6. Pending < MAX_WORKQ /\ Draining  BY <1>1, <1>2 DEF Pending, Draining, WorkInit
  <1> QED BY <1>3, <1>4, <1>5, <1>6 DEF WorkInv

\* NextSlot is a slot.
LEMMA NextSlotType == WorkTypeOK => NextSlot \in 0..(MAX_WORKQ - 1)
  <1> SUFFICES ASSUME WorkTypeOK PROVE NextSlot \in 0..(MAX_WORKQ - 1)  OBVIOUS
  <1>1. i \in Nat /\ deq_idx \in 0..(MAX_WORKQ - 1)  BY WorkQueueAssumption DEF WorkTypeOK
  <1> QED BY <1>1, Turn DEF NextSlot

\* A handler puts its function behind those pending and over none of them
\* (enqueue_workq, in the middle of workq_worker's round).
LEMMA DeferWorkInv ==
  ASSUME NotFull, WorkInv, NEW f \in Work, DeferWork(f)
  PROVE  WorkInv'
  <1> DEFINE N == MAX_WORKQ
             p == Pending
             s == NextSlot
  <1>1. N \in Nat \ {0} /\ MaxPending \in Nat /\ MaxPending < N
    BY WorkQueueAssumption DEF NotFull
  <1>2. WorkTypeOK /\ InOrder /\ RingHolds /\ Draining  BY DEF WorkInv
  <1>3. /\ posted \in Seq(Work) /\ Len(posted) \in Nat /\ Len(ran) \in Nat
        /\ Len(ran) <= Len(posted) /\ i \in Nat /\ end \in Nat
    BY <1>1, <1>2 DEF WorkTypeOK, InOrder
  <1>4. /\ posted' = Append(posted, f) /\ wkq' = [wkq EXCEPT ![enq_idx] = f]
        /\ enq_idx' = NextIndex(enq_idx)
        /\ UNCHANGED <<deq_idx, wpc, i, end, ran>> /\ p < MaxPending
    BY DEF DeferWork, enqueue_workq, workerVars, Pending
  <1>5. /\ Len(posted') = Len(posted) + 1 /\ posted'[Len(posted) + 1] = f
        /\ \A n \in 1..Len(posted) : posted'[n] = posted[n]
    BY <1>3, <1>4
  <1>6. /\ p \in 0..(N - 1) /\ p + 1 \in 0..(N - 1) /\ Pending' = p + 1
        /\ Len(posted) = Len(ran) + p
    BY <1>1, <1>3, <1>4, <1>5 DEF Pending
  <1>7. s \in 0..(N - 1) /\ NextSlot' = s  BY <1>2, <1>4, NextSlotType DEF NextSlot
  <1>8. enq_idx = (s + p) % N
    <2>1. s + p = s + Len(posted) - Len(ran)  BY <1>3, <1>7 DEF Pending
    <2> QED BY <1>2, <2>1 DEF RingHolds
  <1>9. WorkTypeOK'
    <2>1. enq_idx' \in 0..(N - 1)  BY <1>1, <1>2, <1>4 DEF WorkTypeOK, NextIndex
    <2>2. wkq' \in [0..(N - 1) -> Work \cup {NoWork}]  BY <1>2, <1>4 DEF WorkTypeOK
    <2>3. posted' \in Seq(Work)  BY <1>3, <1>4
    <2>4. linked' \in BOOLEAN /\ tree_ok' \in BOOLEAN
      BY <1>2 DEF WorkTypeOK, DeferWork, wakeup_workq_worker
    <2> QED BY <1>2, <1>4, <2>1, <2>2, <2>3, <2>4 DEF WorkTypeOK
  <1>10. InOrder'
    <2>1. SubSeq(posted', 1, Len(ran)) = SubSeq(posted, 1, Len(ran))  BY <1>3, <1>4
    <2> QED BY <1>2, <1>3, <1>4, <1>5, <2>1 DEF InOrder
  <1>11. RingHolds'
    <2>1. enq_idx' = (NextSlot + Len(posted) - Len(ran))' % N
      <3>1. enq_idx' = (s + p + 1) % N  BY <1>4, <1>6, <1>7, <1>8, TurnNext
      <3>2. s + p + 1 = s + Len(posted') - Len(ran)  BY <1>3, <1>5, <1>6, <1>7
      <3> QED BY <1>4, <1>7, <3>1, <3>2
    <2>2. ASSUME NEW k \in 1..(p + 1)
          PROVE  wkq'[(s + k - 1) % N] = posted'[Len(ran) + k]
      <3>1. k \in Nat /\ s \in Nat /\ p \in Nat /\ k >= 1 /\ k <= p + 1 /\ p < N
        BY <1>1, <1>6, <1>7, <2>2
      <3>2. k - 1 \in 0..p /\ k - 1 \in 0..(N - 1) /\ s + k - 1 = s + (k - 1)
        <4> HIDE DEF p, s
        <4> QED BY <1>1, <3>1
      <3>3. CASE k <= p
        <4>1. (s + (k - 1)) % N # enq_idx
          <5>1. k - 1 < p  BY <1>6, <3>3
          <5> QED BY <1>6, <1>7, <1>8, <3>2, <5>1, TurnApart
        <4>2. (s + (k - 1)) % N \in 0..(N - 1)  BY <1>7, <3>2, Turn, s + (k - 1) \in Nat
        <4>3. wkq'[(s + (k - 1)) % N] = wkq[(s + (k - 1)) % N]
          BY <1>2, <1>4, <4>1, <4>2 DEF WorkTypeOK
        <4>4. wkq[(s + k - 1) % N] = posted[Len(ran) + k]
          BY <1>2, <1>6, <3>3 DEF RingHolds, Pending
        <4>5. Len(ran) + k \in 1..Len(posted)  BY <1>3, <1>6, <3>3
        <4> QED BY <1>5, <3>2, <4>3, <4>4, <4>5
      <3>4. CASE k = p + 1
        <4>1. (s + k - 1) % N = enq_idx  BY <1>6, <1>7, <1>8, <3>4, s + k - 1 = s + p
        <4>2. wkq'[enq_idx] = f  BY <1>2, <1>4 DEF WorkTypeOK
        <4>3. Len(ran) + k = Len(posted) + 1  BY <1>3, <1>6, <3>4
        <4> QED BY <1>5, <4>1, <4>2, <4>3
      <3> QED BY <1>6, <3>3, <3>4
    <2>3. Len(posted') - Len(ran') = p + 1  BY <1>6 DEF Pending
    <2> QED BY <1>4, <1>7, <2>1, <2>2, <2>3 DEF RingHolds
  <1>12. Pending' < N /\ Draining'
    BY <1>1, <1>2, <1>3, <1>4, <1>6 DEF Draining, Pending
  <1> QED BY <1>9, <1>10, <1>11, <1>12 DEF WorkInv

\* The worker takes the oldest function pending, which no handler has overwritten
\* (workq_worker's loop).
LEMMA RunWorkInv ==
  ASSUME WorkInv, RunWork
  PROVE  WorkInv'
  <1> DEFINE N == MAX_WORKQ
             p == Pending
             s == i % N
  <1>1. N \in Nat \ {0}  BY WorkQueueAssumption
  <1>2. WorkTypeOK /\ InOrder /\ RingHolds /\ Draining  BY DEF WorkInv
  <1>3. /\ posted \in Seq(Work) /\ Len(posted) \in Nat
        /\ ran \in Seq(Work \cup {NoWork}) /\ Len(ran) \in Nat
        /\ Len(ran) <= Len(posted)
    BY <1>1, <1>2 DEF WorkTypeOK, InOrder
  <1>4. /\ ran' = Append(ran, wkq[s]) /\ i' = i + 1 /\ wpc = "loop" /\ i < end
        /\ UNCHANGED <<wkq, enq_idx, deq_idx, linked, tree_ok, wpc, end, posted>>
    BY DEF RunWork
  <1>5. i \in Nat /\ end \in 0..(2 * N - 1) /\ i \in 0..(2 * N - 2) /\ i + 1 \in Nat
    BY <1>1, <1>2, <1>4 DEF WorkTypeOK
  <1>6. NextSlot = s /\ NextSlot' = (i + 1) % N /\ s \in 0..(N - 1)
    BY <1>4, <1>5, Turn DEF NextSlot
  <1>7. /\ p \in 1..(N - 1) /\ Pending' = p - 1 /\ Len(ran') = Len(ran) + 1
        /\ p = Len(posted) - Len(ran) /\ Len(ran) + 1 \in 1..Len(posted)
        /\ end - i <= p
    <2>1. wkq[s] \in Work \cup {NoWork}  BY <1>2, <1>6 DEF WorkTypeOK
    <2>2. Len(ran') = Len(ran) + 1  BY <1>3, <1>4, <2>1
    <2>3. p \in Nat /\ p < N /\ end - i <= p
      BY <1>2, <1>3, <1>4 DEF WorkInv, Pending, Draining
    <2>4. p >= 1  BY <1>4, <1>5, <2>3
    <2> QED BY <1>1, <1>3, <1>4, <2>2, <2>3, <2>4 DEF Pending
  <1>8. wkq[s] = posted[Len(ran) + 1]
    <2>1. wkq[(s + 1 - 1) % N] = posted[Len(ran) + 1]  BY <1>2, <1>6, <1>7 DEF RingHolds
    <2>2. (s + 1 - 1) % N = s  BY <1>1, <1>6, Turn, s + 1 - 1 = s
    <2> QED BY <2>1, <2>2
  <1>9. WorkTypeOK'
    <2>1. posted[Len(ran) + 1] \in Work  BY <1>3, <1>7
    <2>2. ran' \in Seq(Work \cup {NoWork})  BY <1>3, <1>4, <1>8, <2>1
    <2>3. i' \in 0..(2 * N - 1)  BY <1>1, <1>4, <1>5
    <2> QED BY <1>2, <1>4, <2>2, <2>3 DEF WorkTypeOK
  <1>10. InOrder'
    <2>1. ran' = Append(SubSeq(posted, 1, Len(ran)), posted[Len(ran) + 1])
      BY <1>2, <1>4, <1>8 DEF InOrder
    <2>2. Append(SubSeq(posted, 1, Len(ran)), posted[Len(ran) + 1])
            = SubSeq(posted, 1, Len(ran) + 1)
      BY <1>3, <1>7
    <2> QED BY <1>3, <1>4, <1>7, <2>1, <2>2 DEF InOrder
  <1>11. RingHolds'
    <2>1. ASSUME NEW k \in 1..(p - 1)
          PROVE  wkq[(((i + 1) % N) + k - 1) % N] = posted[Len(ran) + 1 + k]
      <3>1. k \in 1..N /\ k + 1 \in 1..p /\ k \in Nat  BY <1>1, <1>7, <2>1
      <3>2. (((i + 1) % N) + k - 1) % N = (s + k) % N  BY <1>5, <3>1, TurnOn
      <3>3. wkq[(s + (k + 1) - 1) % N] = posted[Len(ran) + (k + 1)]
        BY <1>2, <1>6, <1>7, <3>1 DEF RingHolds
      <3>4. s + (k + 1) - 1 = s + k /\ Len(ran) + (k + 1) = Len(ran) + 1 + k
        BY <1>3, <1>6, <3>1
      <3> QED BY <3>2, <3>3, <3>4
    <2>2. enq_idx = (((i + 1) % N) + Len(posted) - (Len(ran) + 1)) % N
      <3>1. enq_idx = (s + Len(posted) - Len(ran)) % N  BY <1>2, <1>6 DEF RingHolds
      <3>2. s + Len(posted) - Len(ran) = s + p  BY <1>3, <1>6, <1>7
      <3>3. (((i + 1) % N) + p - 1) % N = (s + p) % N
        BY <1>1, <1>5, <1>7, TurnOn, p \in 1..N
      <3>4. ((i + 1) % N) + p - 1 = ((i + 1) % N) + Len(posted) - (Len(ran) + 1)
        <4>1. (i + 1) % N \in 0..(N - 1)  BY <1>5, Turn
        <4> QED BY <1>1, <1>3, <1>7, <4>1
      <3> QED BY <3>1, <3>2, <3>3, <3>4
    <2>3. Len(posted') - Len(ran') = p - 1  BY <1>7 DEF Pending
    <2> QED BY <1>4, <1>6, <1>7, <2>1, <2>2, <2>3 DEF RingHolds
  <1>12. Pending' < N /\ Draining'
    <2>1. i' <= end' /\ end' - i' <= Pending'  BY <1>4, <1>5, <1>7
    <2> QED BY <1>1, <1>7, <2>1 DEF Draining
  <1> QED BY <1>9, <1>10, <1>11, <1>12 DEF WorkInv

\* A step of the worker that runs nothing leaves it at the same slot, and what is
\* pending where it was.
LEMMA SameSlot ==
  ASSUME WorkInv, WorkTypeOK', NextSlot' = NextSlot, Draining',
         UNCHANGED <<wkq, enq_idx, posted, ran>>
  PROVE  WorkInv'
  BY DEF WorkInv, InOrder, RingHolds, Pending

\* The worker takes enq_idx as the end of its round, a turn further when it is
\* behind deq_idx (workq_worker, woken).
LEMMA WokenInv ==
  ASSUME WorkInv, Woken
  PROVE  WorkInv'
  <1> DEFINE N == MAX_WORKQ
             p == Pending
  <1>1. N \in Nat \ {0}  BY WorkQueueAssumption
  <1>2. WorkTypeOK /\ InOrder /\ RingHolds  BY DEF WorkInv
  <1>3. /\ wpc = "woken" /\ i' = deq_idx /\ wpc' = "loop"
        /\ end' = IF enq_idx < deq_idx THEN enq_idx + N ELSE enq_idx
        /\ UNCHANGED <<wkq, enq_idx, deq_idx, linked, tree_ok, posted, ran>>
    BY DEF Woken
  <1>4. deq_idx \in 0..(N - 1) /\ enq_idx \in 0..(N - 1)  BY <1>2 DEF WorkTypeOK
  <1>5. WorkTypeOK'
    <2>1. i' \in 0..(2 * N - 1) /\ end' \in 0..(2 * N - 1)  BY <1>1, <1>3, <1>4
    <2> QED BY <1>2, <1>3, <2>1 DEF WorkTypeOK
  <1>6. NextSlot' = NextSlot
    <2>1. deq_idx % N = deq_idx  BY <1>1, <1>4, Turn
    <2> QED BY <1>3, <2>1 DEF NextSlot
  <1>7. Draining'
    <2>1. /\ Len(posted) \in Nat /\ Len(ran) \in Nat /\ p = Len(posted) - Len(ran)
          /\ p \in 0..(N - 1)
      BY <1>1, <1>2 DEF WorkInv, WorkTypeOK, InOrder, Pending
    <2>2. enq_idx = (deq_idx + p) % N
      <3>1. deq_idx + Len(posted) - Len(ran) = deq_idx + p  BY <1>4, <2>1
      <3> QED BY <1>2, <1>3, <3>1 DEF RingHolds, NextSlot
    <2>3. enq_idx = deq_idx + p \/ enq_idx = (deq_idx + p) - N
      <3>1. deq_idx + p \in Nat /\ deq_idx + p < 2 * N  BY <1>1, <1>4, <2>1
      <3> QED BY <2>2, <3>1, TurnEither
    <2>4. i' <= end' /\ end' - i' <= p  BY <1>1, <1>3, <1>4, <2>1, <2>3
    <2> QED BY <1>3, <2>4 DEF Draining, Pending
  <1> QED BY <1>3, <1>5, <1>6, <1>7, SameSlot

\* At the end of its round the worker has reached the end it took, and deq_idx
\* becomes that slot (workq_worker, after the loop).
LEMMA RetireInv ==
  ASSUME WorkInv, Retire
  PROVE  WorkInv'
  <1> DEFINE N == MAX_WORKQ
  <1>1. N \in Nat \ {0}  BY WorkQueueAssumption
  <1>2. WorkTypeOK /\ Draining  BY DEF WorkInv
  <1>3. /\ wpc = "loop" /\ i >= end /\ wpc' = "sleep" /\ i' = 0 /\ end' = 0
        /\ deq_idx' = IF end >= N THEN end - N ELSE end
        /\ UNCHANGED <<wkq, enq_idx, linked, tree_ok, posted, ran>>
    BY DEF Retire
  <1>4. i \in Nat /\ end \in 0..(2 * N - 1) /\ i = end
    BY <1>1, <1>2, <1>3 DEF WorkTypeOK, Draining
  <1>5. WorkTypeOK'
    <2>1. deq_idx' \in 0..(N - 1) /\ 0 \in 0..(2 * N - 1)  BY <1>1, <1>3, <1>4
    <2> QED BY <1>2, <1>3, <2>1 DEF WorkTypeOK
  <1>6. NextSlot' = NextSlot
    <2>1. i % N = deq_idx'  BY <1>1, <1>3, <1>4, Turn
    <2> QED BY <1>3, <2>1 DEF NextSlot
  <1>7. Draining'  BY <1>3 DEF Draining
  <1> QED BY <1>3, <1>5, <1>6, <1>7, SameSlot

\* Going to sleep touches neither the ring nor its indices (dequeue_se_to_wq).
LEMMA FallAsleepInv ==
  ASSUME WorkInv, FallAsleep
  PROVE  WorkInv'
  <1>1. /\ wpc = "sleep" /\ wpc' = "woken" /\ linked' = FALSE
        /\ UNCHANGED <<wkq, enq_idx, deq_idx, tree_ok, i, end, posted, ran>>
    BY DEF FallAsleep
  <1>2. WorkTypeOK'  BY <1>1 DEF WorkInv, WorkTypeOK
  <1>3. NextSlot' = NextSlot /\ Draining'  BY <1>1 DEF NextSlot, Draining
  <1> QED BY <1>1, <1>2, <1>3, SameSlot

-----------------------------------------------------------------------------
(* Theorems                                                                  *)

\* A step of a handler, of the shell or of the worker keeps the ring right, wherever
\* it interrupts the others (enqueue_workq, wakeup_workq_worker, workq_worker).
THEOREM WorkInvInductive == NotFull /\ WorkInv /\ [WorkNext]_workVars => WorkInv'
  <1> SUFFICES ASSUME NotFull, WorkInv, [WorkNext]_workVars PROVE WorkInv'  OBVIOUS
  <1>1. CASE \E f \in Work : DeferWork(f)  BY <1>1, DeferWorkInv
  <1>2. CASE Woken  BY <1>2, WokenInv
  <1>3. CASE RunWork  BY <1>3, RunWorkInv
  <1>4. CASE Retire  BY <1>4, RetireInv
  <1>5. CASE FallAsleep  BY <1>5, FallAsleepInv
  <1>6. CASE RunCommand
    <2>1. /\ linked' \in BOOLEAN /\ tree_ok' \in BOOLEAN
          /\ UNCHANGED <<wkq, enq_idx, deq_idx, wpc, i, end, posted, ran>>
      BY <1>6 DEF RunCommand, wakeup_workq_worker, workerVars, WorkInv, WorkTypeOK
    <2>2. WorkTypeOK'  BY <2>1 DEF WorkInv, WorkTypeOK
    <2>3. NextSlot' = NextSlot  BY <2>1 DEF NextSlot
    <2>4. Draining'  BY <2>1 DEF WorkInv, Draining, Pending
    <2> QED BY <2>1, <2>2, <2>3, <2>4, SameSlot
  <1>7. CASE UNCHANGED workVars
    BY <1>7 DEF workVars, WorkInv, WorkTypeOK, InOrder, RingHolds, NextSlot, Pending, Draining
  <1> QED BY <1>1, <1>2, <1>3, <1>4, <1>5, <1>6, <1>7 DEF WorkNext, workq_worker

\* The ring holds exactly what is pending, at all times (struct worker).
THEOREM WorkInvariant == NotFull => (WorkSpec => []WorkInv)
  <1> SUFFICES ASSUME NotFull PROVE WorkSpec => []WorkInv  OBVIOUS
  <1>1. WorkInv /\ [WorkNext]_workVars => WorkInv'  BY WorkInvInductive
  <1> QED BY <1>1, WorkInitInv, PTL DEF WorkSpec

\* Functions run once each, in the order they were enqueued (workq_worker against
\* enqueue_workq).
THEOREM WorkInOrder == NotFull => (WorkSpec => []InOrder)
  <1>1. WorkInv => InOrder  BY DEF WorkInv
  <1> QED BY <1>1, WorkInvariant, PTL

\* No function that is enqueued and has not run is overwritten or skipped, and
\* enq_idx is where the last of them ends (enqueue_workq, which does not look).
THEOREM WorkRingHolds == NotFull => (WorkSpec => []RingHolds)
  <1>1. WorkInv => RingHolds  BY DEF WorkInv
  <1> QED BY <1>1, WorkInvariant, PTL

\* The indices stay inside the ring (struct worker).
THEOREM WorkTypeCorrect == NotFull => (WorkSpec => []WorkTypeOK)
  <1>1. WorkInv => WorkTypeOK  BY DEF WorkInv
  <1> QED BY <1>1, WorkInvariant, PTL
=============================================================================
