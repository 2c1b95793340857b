----------------------------- MODULE SmpProofs -----------------------------
(***************************************************************************)
(* Commands to the other CPU, for any letters and any number of commands:  *)
(* mailbox, SGI and work queue together do what RemoteWork promises, step  *)
(* by step.                                                                *)
(***************************************************************************)
EXTENDS Smp, WorkQueueProofs

-----------------------------------------------------------------------------
(* The mailbox: any set of letters, any set of pushing CPUs and any number  *)
(* of letters. Every letter is read once and in order, and an unread letter *)
(* always has an interrupt on its way.                                      *)

\* The two CPUs are each other's peer (push_mail's choice of mailbox).
LEMMA OtherCpu ==
  \A c \in Cpus : Other(c) \in Cpus /\ Other(c) # c /\ Other(Other(c)) = c
  BY DEF Cpus, Other

\* The mailboxes start empty and the lock free (init_mailbox).
LEMMA MailInitInv == MailInit => MailInv
  BY DEF MailInit, init_mailbox, MailInv, MailTypeOK, LockHeld, ExactlyOnce, NotStranded,
         LettersUnderWay, UNLOCKED, Cpus, Other

\* Typing a command only records the letter (shell, push_mail's entry).
LEMMA PushInv == ASSUME MailInv, NEW c \in Cpus, NEW l \in Letters, Push(c, l) PROVE MailInv'
  BY OtherCpu DEF Push, TaskAt, MailInv, MailTypeOK, LockHeld, ExactlyOnce, NotStranded, LettersUnderWay

\* Taking the lock at task level (push_mail, spin_lock_acquire).
LEMMA PushAcquireInv == ASSUME MailInv, NEW c \in Cpus, PushAcquire(c) PROVE MailInv'
  <1> USE DEF MailInv
  <1>1. MailTypeOK'  BY DEF PushAcquire, TaskAt, MailTypeOK
  <1>2. LockHeld'  BY DEF PushAcquire, TaskAt, MailTypeOK, LockHeld, UNLOCKED, Cpus
  <1>3. ExactlyOnce'  BY DEF PushAcquire, ExactlyOnce
  <1>4. NotStranded'  BY OtherCpu DEF PushAcquire, TaskAt, MailTypeOK, NotStranded
  <1>5. LettersUnderWay'  BY DEF PushAcquire, TaskAt, MailTypeOK, LettersUnderWay
  <1> QED BY <1>1, <1>2, <1>3, <1>4, <1>5

\* The letter goes into the peer's mailbox, which is empty (push_mail).
LEMMA DepositInv == ASSUME MailInv, NEW c \in Cpus, Deposit(c) PROVE MailInv'
  <1> USE OtherCpu DEF MailInv
  <1>0. letterOut[c] \in Letters  BY DEF Deposit, TaskAt, LettersUnderWay
  <1>1. MailTypeOK'  BY <1>0 DEF Deposit, TaskAt, MailTypeOK
  <1>2. LockHeld'  BY DEF Deposit, TaskAt, MailTypeOK, LockHeld, UNLOCKED, Cpus
  <1>3. ExactlyOnce'  BY DEF Deposit, TaskAt, MailTypeOK, ExactlyOnce
  <1>4. NotStranded'  BY DEF Deposit, TaskAt, MailTypeOK, NotStranded
  <1>5. LettersUnderWay'  BY <1>0 DEF Deposit, TaskAt, MailTypeOK, LettersUnderWay
  <1> QED BY <1>1, <1>2, <1>3, <1>4, <1>5

\* The interrupt is raised for the letter just written (ICDSGIR).
LEMMA RaiseSgiInv == ASSUME MailInv, NEW c \in Cpus, RaiseSgi(c) PROVE MailInv'
  <1> USE OtherCpu DEF MailInv
  <1>1. MailTypeOK'  BY DEF RaiseSgi, TaskAt, MailTypeOK
  <1>2. LockHeld'  BY DEF RaiseSgi, TaskAt, MailTypeOK, LockHeld
  <1>3. ExactlyOnce'  BY DEF RaiseSgi, ExactlyOnce
  <1>4. NotStranded'  BY DEF RaiseSgi, TaskAt, MailTypeOK, NotStranded, Cpus, Other
  <1>5. LettersUnderWay'  BY DEF RaiseSgi, TaskAt, MailTypeOK, LettersUnderWay
  <1> QED BY <1>1, <1>2, <1>3, <1>4, <1>5

\* The handler starts: the pending bit is traded for a pull to come
\* (gic_irq_handler).
LEMMA TakeSgiInv == ASSUME MailInv, NEW c \in Cpus, TakeSgi(c) PROVE MailInv'
  <1> USE DEF MailInv
  <1>1. MailTypeOK'  BY DEF TakeSgi, MailTypeOK
  <1>2. LockHeld'  BY DEF TakeSgi, MailTypeOK, LockHeld
  <1>3. ExactlyOnce'  BY DEF TakeSgi, ExactlyOnce
  <1>4. NotStranded'  BY OtherCpu DEF TakeSgi, MailTypeOK, NotStranded
  <1>5. LettersUnderWay'  BY DEF TakeSgi, LettersUnderWay
  <1> QED BY <1>1, <1>2, <1>3, <1>4, <1>5

\* Taking the lock at interrupt level (pull_mail, spin_lock_acquire).
LEMMA PullAcquireInv == ASSUME MailInv, NEW c \in Cpus, PullAcquire(c) PROVE MailInv'
  <1> USE DEF MailInv
  <1>1. MailTypeOK'  BY DEF PullAcquire, MailTypeOK
  <1>2. LockHeld'  BY DEF PullAcquire, MailTypeOK, LockHeld, UNLOCKED, Cpus
  <1>3. ExactlyOnce'  BY DEF PullAcquire, ExactlyOnce
  <1>4. NotStranded'  BY OtherCpu DEF PullAcquire, MailTypeOK, NotStranded
  <1>5. LettersUnderWay'  BY DEF PullAcquire, LettersUnderWay
  <1> QED BY <1>1, <1>2, <1>3, <1>4, <1>5

\* The letter, if there is one, is read and the mailbox freed (pull_mail).
LEMMA PullInv == ASSUME MailInv, NEW c \in Cpus, pull_mail(c) PROVE MailInv'
  <1> USE DEF MailInv
  <1>0. status[c] # "READ" => letter[c] \in Letters
    BY DEF MailTypeOK, LettersUnderWay
  <1>1. MailTypeOK'
    <2>1. received' \in [Cpus -> Seq(Letters)]  BY <1>0 DEF pull_mail, MailTypeOK
    <2> QED BY <2>1, <1>0 DEF pull_mail, MailTypeOK
  <1>2. LockHeld'  BY DEF pull_mail, MailTypeOK, LockHeld, UNLOCKED, Cpus
  <1>3. ExactlyOnce'  BY DEF pull_mail, MailTypeOK, ExactlyOnce
  <1>4. NotStranded'  BY OtherCpu DEF pull_mail, MailTypeOK, NotStranded
  <1>5. LettersUnderWay'  BY DEF pull_mail, MailTypeOK, LettersUnderWay
  <1> QED BY <1>1, <1>2, <1>3, <1>4, <1>5

\* The handler returns (sgi_irq, gic_irq_handler).
LEMMA ReturnInv == ASSUME MailInv, NEW c \in Cpus, ReturnFromSgi(c) PROVE MailInv'
  BY OtherCpu DEF ReturnFromSgi, MailInv, MailTypeOK, LockHeld, ExactlyOnce, NotStranded, LettersUnderWay

\* The invariant is inductive: no step of either CPU breaks it.
THEOREM MailInvInductive == MailInv /\ [MailNext]_mailVars => MailInv'
  <1> SUFFICES ASSUME MailInv, [MailNext]_mailVars PROVE MailInv'
    OBVIOUS
  <1>1. CASE UNCHANGED mailVars
    BY <1>1 DEF mailVars, MailInv, MailTypeOK, LockHeld, ExactlyOnce, NotStranded, LettersUnderWay
  <1>2. ASSUME NEW c \in Cpus, MailStep(c) \/ ReturnFromSgi(c) PROVE MailInv'
    <2>1. CASE \E l \in Letters : Push(c, l)  BY <2>1, PushInv
    <2>2. CASE PushStep(c)
      BY <2>2, PushAcquireInv, DepositInv, RaiseSgiInv DEF PushStep
    <2>3. CASE PullStep(c)
      BY <2>3, TakeSgiInv, PullAcquireInv, PullInv DEF PullStep
    <2>4. CASE ReturnFromSgi(c)  BY <2>4, ReturnInv
    <2> QED BY <1>2, <2>1, <2>2, <2>3, <2>4 DEF MailStep
  <1> QED BY <1>1, <1>2 DEF MailNext

\* The invariant holds in every reachable state of push_mail, pull_mail and
\* sgi_irq.
THEOREM MailInvariant == MailSpec => []MailInv
  BY MailInitInv, MailInvInductive, PTL DEF MailSpec

\* Every letter pushed is read exactly once and in order (push_mail, pull_mail).
THEOREM MailExactlyOnce == MailSpec => []ExactlyOnce
  <1>1. MailInv => ExactlyOnce  BY DEF MailInv
  <1> QED BY MailInvariant, <1>1, PTL

\* An unread letter always has its interrupt still to come (the ICDSGIR write
\* that follows push_mail, gic_irq_handler, pull_mail).
THEOREM MailNotStranded == MailSpec => []NotStranded
  <1>1. MailInv => NotStranded  BY DEF MailInv
  <1> QED BY MailInvariant, <1>1, PTL

\* The lock and the two critical sections agree (spin_lock_acquire and
\* spin_lock_release in push_mail and pull_mail).
THEOREM MailLockHeld == MailSpec => []LockHeld
  <1>1. MailInv => LockHeld  BY DEF MailInv
  <1> QED BY MailInvariant, <1>1, PTL

\* The mailbox, the locks and the copies under way stay what the code declares
\* them to be (push_mail, pull_mail).
THEOREM MailTypeCorrect == MailSpec => []MailTypeOK
  <1>1. MailInv => MailTypeOK  BY DEF MailInv
  <1> QED BY MailInvariant, <1>1, PTL

-----------------------------------------------------------------------------
(* The mailbox together with the work queue.                                *)

\* The letter that CPU 1's handler has pulled and not yet acted on.
InHand == hpc[1] = "act" /\ letterIn[1] # EMPTY

\* What sgi_irq enqueues is what pull_mail returned, letter by letter.
Handed == received[1] = IF InHand THEN Append(posted, letterIn[1]) ELSE posted

SmpInv == MailInv /\ WorkInv /\ Handed

-----------------------------------------------------------------------------
(* A step of the whole is a step of each part, or none.                      *)

\* Both parts start as they do alone (init_mailbox, create_workq_worker).
LEMMA SmpInitInv == SmpInit => SmpInv
  <1> SUFFICES ASSUME SmpInit PROVE SmpInv  OBVIOUS
  <1>1. MailInv /\ WorkInv  BY MailInitInv, WorkInitInv DEF SmpInit
  <1>2. Handed
    BY DEF SmpInit, MailInit, WorkInit, Handed, InHand, Cpus
  <1> QED BY <1>1, <1>2 DEF SmpInv

\* The mailbox does not notice the worker (push_mail, pull_mail).
LEMMA SmpMailStep == SmpInv /\ [SmpNext]_smpVars => [MailNext]_mailVars
  <1> SUFFICES ASSUME SmpInv, [SmpNext]_smpVars PROVE [MailNext]_mailVars  OBVIOUS
  <1>1. 0 \in Cpus  BY DEF Cpus
  <1>2. ASSUME NEW l \in Letters, Command(l) PROVE MailNext
    BY <1>1, <1>2 DEF Command, MailNext, MailStep
  <1>3. ASSUME NEW c \in Cpus, MailOnly(c) PROVE MailNext
    BY <1>3 DEF MailOnly, MailNext, MailStep
  <1>4. ASSUME NEW c \in Cpus, sgi_irq(c) PROVE MailNext
    BY <1>4 DEF sgi_irq, MailNext
  <1>5. CASE WorkerStep  BY <1>5 DEF WorkerStep
  <1>6. CASE UNCHANGED smpVars  BY <1>6 DEF smpVars
  <1> QED BY <1>2, <1>3, <1>4, <1>5, <1>6 DEF SmpNext

\* The work queue only sees handlers that defer work (sgi_irq, workq_worker).
LEMMA SmpWorkStep == SmpInv /\ [SmpNext]_smpVars => [WorkNext]_workVars
  <1> SUFFICES ASSUME SmpInv, [SmpNext]_smpVars PROVE [WorkNext]_workVars  OBVIOUS
  <1>1. ASSUME NEW l \in Letters, Command(l) PROVE UNCHANGED workVars
    BY <1>1 DEF Command
  <1>2. ASSUME NEW c \in Cpus, MailOnly(c) PROVE UNCHANGED workVars
    BY <1>2 DEF MailOnly
  <1>3. ASSUME NEW c \in Cpus, sgi_irq(c) PROVE [WorkNext]_workVars
    <2>1. CASE c = 1 /\ letterIn[c] # EMPTY
      <3>1. letterIn[c] \in Work
        BY <2>1, SmpAssumption DEF SmpInv, MailInv, MailTypeOK
      <3>2. DeferWork(letterIn[c])  BY <1>3, <2>1 DEF sgi_irq
      <3> QED BY <3>1, <3>2 DEF WorkNext
    <2>2. CASE ~(c = 1 /\ letterIn[c] # EMPTY)  BY <1>3, <2>2 DEF sgi_irq
    <2> QED BY <2>1, <2>2
  <1>4. CASE WorkerStep  BY <1>4 DEF WorkerStep, WorkNext
  <1>5. CASE UNCHANGED smpVars  BY <1>5 DEF smpVars
  <1> QED BY <1>1, <1>2, <1>3, <1>4, <1>5 DEF SmpNext

\* No letter gets lost or doubled between pull_mail and enqueue_workq (sgi_irq).
LEMMA HandedKept == SmpInv /\ [SmpNext]_smpVars => Handed'
  <1> SUFFICES ASSUME SmpInv, [SmpNext]_smpVars PROVE Handed'  OBVIOUS
  <1>1. MailTypeOK /\ LettersUnderWay /\ Handed  BY DEF SmpInv, MailInv
  <1>2. EMPTY \notin Letters /\ 1 \in Cpus  BY MailboxAssumption DEF Cpus
  <1>3. ASSUME NEW l \in Letters, Command(l) PROVE Handed'
    BY <1>1, <1>3 DEF Command, Push, workVars, Handed, InHand
  <1>4. ASSUME NEW c \in Cpus, PushStep(c), UNCHANGED workVars PROVE Handed'
    BY <1>1, <1>4 DEF PushStep, PushAcquire, Deposit, RaiseSgi, workVars, Handed, InHand
  <1>5. ASSUME NEW c \in Cpus, TakeSgi(c) \/ PullAcquire(c), UNCHANGED workVars
        PROVE  Handed'
    <2>1. hpc'[1] = hpc[1] \/ (hpc[1] # "act" /\ hpc'[1] # "act")
      BY <1>1, <1>2, <1>5 DEF TakeSgi, PullAcquire, MailTypeOK
    <2>2. UNCHANGED <<received, posted, letterIn>>
      BY <1>5 DEF TakeSgi, PullAcquire, workVars
    <2> QED BY <1>1, <2>1, <2>2 DEF Handed, InHand
  <1>6. ASSUME NEW c \in Cpus, pull_mail(c), UNCHANGED workVars PROVE Handed'
    <2>1. CASE c = 1
      <3>1. received[1] = posted  BY <1>1, <1>6, <2>1 DEF pull_mail, Handed, InHand
      <3>2. CASE status[1] = "READ"
        BY <1>1, <1>2, <1>6, <2>1, <3>1, <3>2
        DEF pull_mail, workVars, Handed, InHand, MailTypeOK
      <3>3. CASE status[1] # "READ"
        <4>1. letter[1] # EMPTY  BY <1>1, <1>2, <3>3 DEF MailTypeOK, LettersUnderWay
        <4> QED BY <1>1, <1>2, <1>6, <2>1, <3>1, <3>3, <4>1
                DEF pull_mail, workVars, Handed, InHand, MailTypeOK
      <3> QED BY <3>2, <3>3
    <2>2. CASE c # 1
      BY <1>1, <1>2, <1>6, <2>2 DEF pull_mail, workVars, Handed, InHand, MailTypeOK
    <2> QED BY <2>1, <2>2
  <1>7. ASSUME NEW c \in Cpus, sgi_irq(c) PROVE Handed'
    <2>1. CASE c = 1 /\ letterIn[c] # EMPTY
      <3>1. InHand /\ posted' = Append(posted, letterIn[1])
        BY <1>7, <2>1 DEF sgi_irq, ReturnFromSgi, DeferWork, enqueue_workq, InHand
      <3>2. ~InHand' /\ received' = received
        BY <1>1, <1>2, <1>7, <2>1 DEF sgi_irq, ReturnFromSgi, InHand, MailTypeOK
      <3> QED BY <1>1, <3>1, <3>2 DEF Handed
    <2>2. CASE ~(c = 1 /\ letterIn[c] # EMPTY)
      BY <1>1, <1>2, <1>7, <2>2
      DEF sgi_irq, ReturnFromSgi, workVars, Handed, InHand, MailTypeOK
    <2> QED BY <2>1, <2>2
  <1>8. CASE WorkerStep
    BY <1>1, <1>8 DEF WorkerStep, workq_worker, Woken, RunWork, Retire, FallAsleep, mailVars,
                      Handed, InHand
  <1>9. CASE UNCHANGED smpVars
    BY <1>1, <1>9 DEF smpVars, mailVars, workVars, Handed, InHand
  <1> QED BY <1>3, <1>4, <1>5, <1>6, <1>7, <1>8, <1>9 DEF SmpNext, MailOnly, PullStep

\* Mailbox, ring and what is between them stay right together (push_mail, sgi_irq,
\* workq_worker).
LEMMA SmpInvInductive == NotFull /\ SmpInv /\ [SmpNext]_smpVars => SmpInv'
  <1> SUFFICES ASSUME NotFull, SmpInv, [SmpNext]_smpVars PROVE SmpInv'  OBVIOUS
  <1>1. MailInv'  BY SmpMailStep, MailInvInductive DEF SmpInv
  <1>2. WorkInv'  BY SmpWorkStep, WorkInvInductive DEF SmpInv
  <1> QED BY <1>1, <1>2, HandedKept DEF SmpInv

\* The whole keeps the invariants of its parts and loses nothing between them.
THEOREM SmpInvariant == NotFull => (SmpSpec => []SmpInv)
  <1> SUFFICES ASSUME NotFull PROVE SmpSpec => []SmpInv  OBVIOUS
  <1>1. SmpInv /\ [SmpNext]_smpVars => SmpInv'  BY SmpInvInductive
  <1> QED BY <1>1, SmpInitInv, PTL DEF SmpSpec

\* Commands' work runs once each and in order on the other CPU (workq_worker behind
\* sgi_irq).
THEOREM SmpInOrder == NotFull => (SmpSpec => []InOrder)
  <1>1. SmpInv => InOrder  BY DEF SmpInv, WorkInv
  <1> QED BY <1>1, SmpInvariant, PTL

\* No command's work is overwritten in the ring (enqueue_workq).
THEOREM SmpRingHolds == NotFull => (SmpSpec => []RingHolds)
  <1>1. SmpInv => RingHolds  BY DEF SmpInv, WorkInv
  <1> QED BY <1>1, SmpInvariant, PTL

-----------------------------------------------------------------------------
(* Every step is a step of RemoteWork, or none.                              *)

\* What was enqueued is the beginning of what was sent (push_mail to sgi_irq).
LEMMA EnqueuedWasSent ==
  ASSUME SmpInv
  PROVE  /\ Len(posted) <= Len(sent[1])
         /\ \A k \in 1..Len(posted) : sent[1][k] = posted[k]
         /\ InHand \/ status[1] = "NOT_READ" => Len(posted) < Len(sent[1])
  <1>1. MailTypeOK /\ ExactlyOnce /\ WorkTypeOK /\ Handed /\ 1 \in Cpus
    BY DEF SmpInv, MailInv, WorkInv, Cpus
  <1>2. /\ posted \in Seq(Letters) /\ sent[1] \in Seq(Letters)
        /\ received[1] \in Seq(Letters) /\ letterIn[1] \in Letters \cup {EMPTY}
    BY <1>1, SmpAssumption DEF MailTypeOK, WorkTypeOK
  <1>3. /\ Len(posted) <= Len(received[1])
        /\ \A k \in 1..Len(posted) : received[1][k] = posted[k]
        /\ InHand => Len(posted) < Len(received[1])
    <2>1. CASE InHand
      <3>1. letterIn[1] \in Letters /\ received[1] = Append(posted, letterIn[1])
        BY <1>1, <1>2, <2>1 DEF InHand, Handed
      <3> QED BY <1>2, <3>1
    <2>2. CASE ~InHand
      <3>1. received[1] = posted  BY <1>1, <2>2 DEF Handed
      <3> QED BY <1>2, <2>2, <3>1
    <2> QED BY <2>1, <2>2
  <1>4. /\ Len(received[1]) <= Len(sent[1])
        /\ \A k \in 1..Len(received[1]) : sent[1][k] = received[1][k]
        /\ status[1] = "NOT_READ" => Len(received[1]) < Len(sent[1])
    <2>1. CASE status[1] = "READ"
      <3>1. received[1] = sent[1]  BY <1>1, <2>1 DEF ExactlyOnce
      <3> QED BY <1>2, <2>1, <3>1
    <2>2. CASE status[1] = "NOT_READ"
      <3>1. sent[1] = Append(received[1], letter[1]) /\ letter[1] \in Letters
        BY <1>1, <2>2 DEF ExactlyOnce, SmpInv, MailInv, LettersUnderWay
      <3> QED BY <1>2, <3>1
    <2> QED BY <1>1, <2>1, <2>2 DEF MailTypeOK
  <1>5. Len(posted) \in Nat /\ Len(received[1]) \in Nat /\ Len(sent[1]) \in Nat  BY <1>2
  <1> QED BY <1>3, <1>4, <1>5

\* Nothing but a push asks, and nothing but the worker serves, what was asked first
\* and has not been served (push_mail, workq_worker).
LEMMA SmpStepRefines ==
  NotFull /\ SmpInv /\ [SmpNext]_smpVars => [Remote!RemoteNext]_<<sent[1], ran>>
  <1> SUFFICES ASSUME NotFull, SmpInv, [SmpNext]_smpVars
               PROVE  [Remote!RemoteNext]_<<sent[1], ran>>
    OBVIOUS
  <1>1. MailTypeOK /\ LettersUnderWay /\ WorkTypeOK /\ InOrder /\ 1 \in Cpus
    BY DEF SmpInv, MailInv, WorkInv, Cpus
  <1>2. ASSUME NEW l \in Letters, Command(l) PROVE UNCHANGED <<sent, ran>>
    BY <1>2 DEF Command, Push, workVars
  <1>3. ASSUME NEW c \in Cpus, PushAcquire(c) \/ RaiseSgi(c) \/ PullStep(c), UNCHANGED workVars
        PROVE  UNCHANGED <<sent, ran>>
    BY <1>3 DEF PushAcquire, RaiseSgi, PullStep, TakeSgi, PullAcquire, pull_mail, workVars
  <1>4. ASSUME NEW c \in Cpus, Deposit(c), UNCHANGED workVars
        PROVE  [Remote!RemoteNext]_<<sent[1], ran>>
    <2>1. ran' = ran /\ sent' = [sent EXCEPT ![Other(c)] = Append(@, letterOut[c])]
      BY <1>4 DEF Deposit, workVars
    <2>2. letterOut[c] \in Letters  BY <1>1, <1>4 DEF Deposit, TaskAt, LettersUnderWay
    <2>3. CASE Other(c) = 1
      <3>1. sent'[1] = Append(sent[1], letterOut[c])  BY <1>1, <2>1, <2>3 DEF MailTypeOK
      <3> QED BY <2>1, <2>2, <3>1 DEF Remote!RemoteNext, Remote!Ask
    <2>4. CASE Other(c) # 1
      <3>1. sent'[1] = sent[1]  BY <1>1, <2>1, <2>4 DEF MailTypeOK
      <3> QED BY <2>1, <3>1
    <2> QED BY <2>3, <2>4
  <1>5. ASSUME NEW c \in Cpus, sgi_irq(c) PROVE UNCHANGED <<sent, ran>>
    BY <1>5 DEF sgi_irq, ReturnFromSgi, DeferWork, workVars
  <1>6. CASE WorkerStep
    <2>1. sent' = sent  BY <1>6 DEF WorkerStep, mailVars
    <2>2. CASE RunWork
      <3>1. PICK f : ran' = Append(ran, f) /\ posted' = posted  BY <2>2 DEF RunWork
      <3>2. WorkTypeOK' /\ InOrder'  BY <2>2, RunWorkInv DEF SmpInv, WorkInv
      <3>3. /\ posted \in Seq(Work) /\ ran \in Seq(Work \cup {NoWork})
            /\ ran' \in Seq(Work \cup {NoWork})
        BY <1>1, <3>1, <3>2 DEF WorkTypeOK
      <3>4. Len(ran') = Len(ran) + 1 /\ ran'[Len(ran) + 1] = f  BY <3>1, <3>3
      <3>5. /\ Len(ran) + 1 <= Len(posted) /\ Len(ran) + 1 \in 1..Len(posted)
            /\ f = posted[Len(ran) + 1]
        BY <3>1, <3>2, <3>3, <3>4 DEF InOrder
      <3>6. /\ Len(posted) <= Len(sent[1]) /\ Len(sent[1]) \in Nat
            /\ sent[1][Len(ran) + 1] = f
        BY <1>1, <3>5, EnqueuedWasSent DEF MailTypeOK
      <3>7. Len(ran) < Len(sent[1])  BY <3>3, <3>5, <3>6
      <3> QED BY <2>1, <3>1, <3>6, <3>7 DEF Remote!RemoteNext, Remote!Serve
    <2>3. CASE Woken \/ Retire \/ FallAsleep  BY <2>1, <2>3 DEF Woken, Retire, FallAsleep
    <2> QED BY <1>6, <2>2, <2>3 DEF WorkerStep, workq_worker
  <1>7. CASE UNCHANGED smpVars  BY <1>7 DEF smpVars, mailVars, workVars
  <1> QED BY <1>2, <1>3, <1>4, <1>5, <1>6, <1>7 DEF SmpNext, MailOnly, PushStep

\* The path of a command to the other CPU implements RemoteWork, but for its
\* fairness (push_mail, sgi_irq, workq_worker).
THEOREM SmpRefines == NotFull => (SmpSpec => ServedInOrder)
  <1> SUFFICES ASSUME NotFull PROVE SmpSpec => ServedInOrder  OBVIOUS
  <1>1. SmpInit => Remote!RemoteInit
    BY DEF SmpInit, MailInit, WorkInit, Remote!RemoteInit, Cpus
  <1>2. SmpInv /\ [SmpNext]_smpVars => [Remote!RemoteNext]_<<sent[1], ran>>
    BY SmpStepRefines
  <1> QED BY <1>1, <1>2, SmpInvariant, PTL
          DEF SmpSpec, ServedInOrder, Remote!RemoteSafety
=============================================================================
