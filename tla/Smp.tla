-------------------------------- MODULE Smp --------------------------------
(***************************************************************************)
(* The path of a shell command to the other CPU: CPU 0's shell pushes a    *)
(* letter and raises SGI 15, CPU 1's sgi_irq() pulls it, enqueues the      *)
(* letter's work and wakes the worker, which runs it.                      *)
(*                                                                         *)
(* Letters stand for the work they ask for (print_task_stat for TASK_STAT, *)
(* create_odev_task for TASK_ODEV).                                        *)
(***************************************************************************)
EXTENDS Mailbox, WorkQueue

ASSUME SmpAssumption == Work = Letters /\ Wakers = Letters

smpVars == <<mailVars, workVars>>

SmpInit == MailInit /\ WorkInit

\* A command's letter: push_mail() begins in the shell on CPU 0, whatever has become
\* of the last command on CPU 1.
Command(l) ==
  /\ Push(0, l)
  /\ UNCHANGED workVars

MailOnly(c) == (PushStep(c) \/ PullStep(c)) /\ UNCHANGED workVars

\* Mutant: the letter's case enqueues but does not wake.
ActNoWake(c) ==
  /\ ReturnFromSgi(c)
  /\ IF c = 1 /\ letterIn[c] # EMPTY
     THEN enqueue_workq(letterIn[c]) /\ UNCHANGED <<deq_idx, linked, tree_ok, workerVars, ran>>
     ELSE UNCHANGED workVars

\* Mutant: the handler looks into the mailbox again, after it released the lock.
ActOnBox(c) ==
  /\ ReturnFromSgi(c)
  /\ IF c = 1 /\ letterIn[c] # EMPTY THEN DeferWork(letter[c]) ELSE UNCHANGED workVars

\* The switch in sgi_irq().
sgi_irq(c) ==
  /\ ReturnFromSgi(c)
  /\ IF c = 1 /\ letterIn[c] # EMPTY THEN DeferWork(letterIn[c]) ELSE UNCHANGED workVars

\* CPU 1's worker runs while no handler does; no shell runs there to wake it.
WorkerStep == hpc[1] = "out" /\ workq_worker /\ UNCHANGED mailVars

SmpNext ==
  \/ \E l \in Letters : Command(l)
  \/ \E c \in Cpus : MailOnly(c) \/ sgi_irq(c)
  \/ WorkerStep

\* Both CPUs execute and CPU 1's scheduler does not starve its worker; the
\* operator may stop typing.
SmpSpec ==
  /\ SmpInit /\ [][SmpNext]_smpVars
  /\ \A c \in Cpus : WF_smpVars(MailOnly(c) \/ sgi_irq(c))
  /\ WF_smpVars(WorkerStep)

Remote == INSTANCE RemoteWork WITH Requests <- Letters, asked <- sent[1], served <- ran

\* The commands' work runs on CPU 1 once each and in their order, however many
\* commands are on their way, SGIs merge or the worker is woken: mailbox, SGI and
\* work queue together implement RemoteWork (push_mail, sgi_irq, workq_worker).
ServedInOrder == Remote!RemoteSafety

\* push_mail waits, lock in hand, for a letter that is read under the same lock.
PushHangs == tpc[0] = "wait" /\ status[1] = "NOT_READ"

\* Every command is served, with letters, SGIs and the worker's round at any
\* interleaving, unless one of two things happens: a wakeup finds the worker on the
\* run queue, where it links it a second time and the letter that came after the
\* worker read enq_idx is left behind; or the operator types so fast that push_mail
\* hangs (push_mail, sgi_irq, wakeup_workq_worker, workq_worker).
Served ==
  \A n \in 1..MaxSent :
    (n <= Len(sent[1])) ~> (n <= Len(ran) \/ ~tree_ok \/ PushHangs)
=============================================================================
