----------------------------- MODULE WorkQueue -----------------------------
(***************************************************************************)
(* One CPU's deferred work: the ring of struct worker, enqueue_workq() and *)
(* wakeup_workq_worker(), called by interrupt handlers, and the task       *)
(* workq_worker() that drains the ring (core/task.c).                      *)
(*                                                                         *)
(* A handler runs with interrupts masked and is one step; the worker can   *)
(* be interrupted between any two of its steps.  Going to sleep            *)
(* (dequeue_se_to_wq and yieldyi) is one step here: module Sched has its   *)
(* parts.                                                                  *)
(*                                                                         *)
(* A wakeup of a worker that is on the run queue links its node a second   *)
(* time.  What the tree of the run queue does then is not followed: the    *)
(* worker may run or not from there on, linked or not.                     *)
(***************************************************************************)
EXTENDS Naturals, Sequences

CONSTANTS
  Work,        \* work functions
  Wakers,      \* those whose handler also wakes the worker (sgi_irq's, not dma_irq's)
  NoWork,      \* content of an unused slot
  MAX_WORKQ,   \* slots in the ring
  MaxPending,  \* bound: enqueued functions not yet run, which the code does not check
  MaxPosted    \* bound: functions enqueued

ASSUME WorkQueueAssumption ==
  /\ NoWork \notin Work /\ Wakers \subseteq Work
  /\ MAX_WORKQ \in Nat \ {0}
  /\ MaxPending \in Nat /\ MaxPosted \in Nat

VARIABLES
  wkq, enq_idx, deq_idx,  \* struct worker
  linked,                 \* the worker's se is in the run queue's tree
  tree_ok,                \* FALSE once a linked node was linked again
  wpc, i, end,            \* the worker: woken, loop, sleep; its locals i and enq_idx
  posted, ran             \* history: functions enqueued, functions run

workVars == <<wkq, enq_idx, deq_idx, linked, tree_ok, wpc, i, end, posted, ran>>
workerVars == <<wpc, i, end>>

\* create_workq_worker(): the worker starts on the run queue.
WorkInit ==
  /\ wkq = [k \in 0..(MAX_WORKQ - 1) |-> NoWork]
  /\ enq_idx = 0 /\ deq_idx = 0
  /\ linked = TRUE /\ tree_ok = TRUE
  /\ wpc = "woken" /\ i = 0 /\ end = 0
  /\ posted = <<>> /\ ran = <<>>

-----------------------------------------------------------------------------
(* Interrupt level *)

\* Mutant: the index wraps one slot early.
WrapsEarly(e) == IF e >= MAX_WORKQ - 2 THEN 0 ELSE e + 1

NextIndex(e) == IF e = MAX_WORKQ - 1 THEN 0 ELSE e + 1

\* The ring is not looked at: a full one is overwritten.
enqueue_workq(f) ==
  /\ Len(posted) < MaxPosted /\ Len(posted) - Len(ran) < MaxPending
  /\ wkq' = [wkq EXCEPT ![enq_idx] = f]
  /\ enq_idx' = NextIndex(enq_idx)
  /\ posted' = Append(posted, f)

\* enqueue_se_to_runq() on the worker's se, whether it is queued or not.
wakeup_workq_worker ==
  /\ linked' = TRUE
  /\ tree_ok' = (tree_ok /\ ~linked)

\* A handler with work to defer: sgi_irq wakes the worker, dma_irq does not.
DeferWork(f) ==
  /\ enqueue_workq(f)
  /\ IF f \in Wakers THEN wakeup_workq_worker ELSE UNCHANGED <<linked, tree_ok>>
  /\ UNCHANGED <<deq_idx, workerVars, ran>>

-----------------------------------------------------------------------------
(* The shell's "run", typed with the worker's pid: only a waiting task is put back. *)

RunCommand ==
  /\ ~linked
  /\ wakeup_workq_worker
  /\ UNCHANGED <<wkq, enq_idx, deq_idx, workerVars, posted, ran>>

-----------------------------------------------------------------------------
(* workq_worker() *)

Woken ==
  /\ wpc = "woken" /\ (linked \/ ~tree_ok)
  /\ i' = deq_idx
  /\ end' = IF enq_idx < deq_idx THEN enq_idx + MAX_WORKQ ELSE enq_idx
  /\ wpc' = "loop"
  /\ UNCHANGED <<wkq, enq_idx, deq_idx, linked, tree_ok, posted, ran>>

RunWork ==
  /\ wpc = "loop" /\ i < end
  /\ ran' = Append(ran, wkq[i % MAX_WORKQ])
  /\ i' = i + 1
  /\ UNCHANGED <<wkq, enq_idx, deq_idx, linked, tree_ok, wpc, end, posted>>

\* Mutant: the worker reads enq_idx anew when its round is over.
RetireAtEnqIdx ==
  /\ wpc = "loop" /\ i >= end
  /\ deq_idx' = enq_idx
  /\ wpc' = "sleep" /\ i' = 0 /\ end' = 0
  /\ UNCHANGED <<wkq, enq_idx, linked, tree_ok, posted, ran>>

Retire ==
  /\ wpc = "loop" /\ i >= end
  /\ deq_idx' = IF end >= MAX_WORKQ THEN end - MAX_WORKQ ELSE end
  /\ wpc' = "sleep" /\ i' = 0 /\ end' = 0
  /\ UNCHANGED <<wkq, enq_idx, linked, tree_ok, posted, ran>>

FallAsleep ==
  /\ wpc = "sleep"
  /\ linked' = FALSE
  /\ wpc' = "woken"
  /\ UNCHANGED <<wkq, enq_idx, deq_idx, tree_ok, i, end, posted, ran>>

workq_worker == Woken \/ RunWork \/ Retire \/ FallAsleep

WorkNext == (\E f \in Work : DeferWork(f)) \/ RunCommand \/ workq_worker

WorkSpec == WorkInit /\ [][WorkNext]_workVars

-----------------------------------------------------------------------------
(* Properties *)

\* Indices stay inside the ring, the worker's unwrapped ones inside two turns of
\* it (struct worker, workq_worker).
WorkTypeOK ==
  /\ wkq \in [0..(MAX_WORKQ - 1) -> Work \cup {NoWork}]
  /\ enq_idx \in 0..(MAX_WORKQ - 1) /\ deq_idx \in 0..(MAX_WORKQ - 1)
  /\ linked \in BOOLEAN /\ tree_ok \in BOOLEAN
  /\ wpc \in {"woken", "loop", "sleep"}
  /\ i \in 0..(2 * MAX_WORKQ - 1) /\ end \in 0..(2 * MAX_WORKQ - 1)
  /\ posted \in Seq(Work) /\ ran \in Seq(Work \cup {NoWork})

\* Where the worker's next function is.
NextSlot == IF wpc = "loop" THEN i % MAX_WORKQ ELSE deq_idx

\* Functions run once each, in the order they were enqueued, although handlers
\* move enq_idx while the worker runs on a copy of it (enqueue_workq,
\* workq_worker).
InOrder == Len(ran) <= Len(posted) /\ ran = SubSeq(posted, 1, Len(ran))

\* What was enqueued and has not run is in the ring, oldest first, from where the
\* worker goes on up to enq_idx.
RingHolds ==
  /\ \A k \in 1..(Len(posted) - Len(ran)) :
       wkq[(NextSlot + k - 1) % MAX_WORKQ] = posted[Len(ran) + k]
  /\ enq_idx = (NextSlot + Len(posted) - Len(ran)) % MAX_WORKQ

\* The worker is never linked into the run queue's tree twice
\* (wakeup_workq_worker, which does not look at the worker's state).
LinkedOnce == tree_ok
=============================================================================
