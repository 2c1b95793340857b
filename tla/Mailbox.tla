------------------------------ MODULE Mailbox ------------------------------
(***************************************************************************)
(* The inter-processor mailbox (core/mailbox.c) with the software          *)
(* generated interrupt that announces a letter (core/sgi.c, the shell's    *)
(* taskstat and sgi commands in core/task.c).                              *)
(*                                                                         *)
(* Each CPU has a task level, which pushes letters to the other CPU's      *)
(* mailbox, and an interrupt level, which pulls letters from its own.  The *)
(* handler suspends the task level of its CPU until it returns.  One spin  *)
(* lock guards both mailboxes.                                             *)
(***************************************************************************)
EXTENDS Naturals, Sequences

CONSTANTS
  Letters,   \* TASK_STAT, TASK_ODEV
  EMPTY,     \* what pull_mail returns when there is nothing to read
  Pushers,   \* the CPUs whose tasks push letters: {0} in this kernel
  Patient,   \* TRUE: a command is typed only after the last letter was read
  MaxSent    \* bound: letters pushed to a mailbox

Cpus == {0, 1}
Other(c) == 1 - c
UNLOCKED == <<2, "none">>

ASSUME MailboxAssumption ==
  /\ EMPTY \notin Letters
  /\ Pushers \subseteq Cpus
  /\ Patient \in BOOLEAN
  /\ MaxSent \in Nat

VARIABLES
  mailbox_lock,    \* UNLOCKED, or the CPU and level that hold it
  status, letter,  \* mailbox_0 and mailbox_1
  sgi,             \* SGI 15 pending at a CPU's interface
  tpc,             \* task level: idle, lock, wait, sgi
  hpc,             \* interrupt level: out, lock, pull, act
  letterOut,       \* push_mail's argument
  letterIn,        \* pull_mail's result
  sent, received   \* history: letters put into and taken from each mailbox

mailVars == <<mailbox_lock, status, letter, sgi, tpc, hpc, letterOut, letterIn, sent, received>>

init_mailbox ==
  /\ status = [c \in Cpus |-> "READ"]
  /\ letter = [c \in Cpus |-> EMPTY]

MailInit ==
  /\ init_mailbox
  /\ mailbox_lock = UNLOCKED
  /\ sgi = [c \in Cpus |-> FALSE]
  /\ tpc = [c \in Cpus |-> "idle"] /\ hpc = [c \in Cpus |-> "out"]
  /\ letterOut = [c \in Cpus |-> EMPTY] /\ letterIn = [c \in Cpus |-> EMPTY]
  /\ sent = [c \in Cpus |-> <<>>] /\ received = [c \in Cpus |-> <<>>]

-----------------------------------------------------------------------------
(* push_mail() and the write to ICDSGIR, at task level.                      *)

TaskAt(c, p) == hpc[c] = "out" /\ tpc[c] = p

Push(c, l) ==
  /\ c \in Pushers /\ TaskAt(c, "idle")
  /\ Len(sent[Other(c)]) < MaxSent
  /\ Patient => status[Other(c)] = "READ"
  /\ tpc' = [tpc EXCEPT ![c] = "lock"]
  /\ letterOut' = [letterOut EXCEPT ![c] = l]
  /\ UNCHANGED <<mailbox_lock, status, letter, sgi, hpc, letterIn, sent, received>>

PushAcquire(c) ==
  /\ TaskAt(c, "lock") /\ mailbox_lock = UNLOCKED
  /\ mailbox_lock' = <<c, "task">>
  /\ tpc' = [tpc EXCEPT ![c] = "wait"]
  /\ UNCHANGED <<status, letter, sgi, hpc, letterOut, letterIn, sent, received>>

\* The loop that waits, lock in hand, for the last letter to be read, and its exit.
Deposit(c) ==
  /\ TaskAt(c, "wait") /\ status[Other(c)] = "READ"
  /\ letter' = [letter EXCEPT ![Other(c)] = letterOut[c]]
  /\ status' = [status EXCEPT ![Other(c)] = "NOT_READ"]
  /\ sent' = [sent EXCEPT ![Other(c)] = Append(@, letterOut[c])]
  /\ mailbox_lock' = UNLOCKED
  /\ tpc' = [tpc EXCEPT ![c] = "sgi"]
  /\ UNCHANGED <<sgi, hpc, letterOut, letterIn, received>>

\* Mutant: the write to ICDSGIR is missing.
RaiseNothing(c) ==
  /\ TaskAt(c, "sgi")
  /\ tpc' = [tpc EXCEPT ![c] = "idle"]
  /\ UNCHANGED <<mailbox_lock, status, letter, sgi, hpc, letterOut, letterIn, sent, received>>

RaiseSgi(c) ==
  /\ TaskAt(c, "sgi")
  /\ sgi' = [sgi EXCEPT ![Other(c)] = TRUE]
  /\ tpc' = [tpc EXCEPT ![c] = "idle"]
  /\ UNCHANGED <<mailbox_lock, status, letter, hpc, letterOut, letterIn, sent, received>>

-----------------------------------------------------------------------------
(* gic_irq_handler() and sgi_irq(), at interrupt level.                      *)

\* Reading ICCIAR acknowledges the interrupt: a later SGI is pending anew.
TakeSgi(c) ==
  /\ hpc[c] = "out" /\ sgi[c]
  /\ sgi' = [sgi EXCEPT ![c] = FALSE]
  /\ hpc' = [hpc EXCEPT ![c] = "lock"]
  /\ UNCHANGED <<mailbox_lock, status, letter, tpc, letterOut, letterIn, sent, received>>

\* Mutant: the handler does not wait for the lock's holder.
PullAcquireAnyway(c) ==
  /\ hpc[c] = "lock"
  /\ mailbox_lock' = <<c, "irq">>
  /\ hpc' = [hpc EXCEPT ![c] = "pull"]
  /\ UNCHANGED <<status, letter, sgi, tpc, letterOut, letterIn, sent, received>>

PullAcquire(c) ==
  /\ hpc[c] = "lock" /\ mailbox_lock = UNLOCKED
  /\ mailbox_lock' = <<c, "irq">>
  /\ hpc' = [hpc EXCEPT ![c] = "pull"]
  /\ UNCHANGED <<status, letter, sgi, tpc, letterOut, letterIn, sent, received>>

\* Mutant: the status is not set back to READ.
PullNoReset(c) ==
  /\ hpc[c] = "pull"
  /\ letterIn' = [letterIn EXCEPT ![c] = IF status[c] = "READ" THEN EMPTY ELSE letter[c]]
  /\ received' = [received EXCEPT ![c] = IF status[c] = "READ" THEN @ ELSE Append(@, letter[c])]
  /\ mailbox_lock' = UNLOCKED
  /\ hpc' = [hpc EXCEPT ![c] = "act"]
  /\ UNCHANGED <<status, letter, sgi, tpc, letterOut, sent>>

pull_mail(c) ==
  /\ hpc[c] = "pull"
  /\ letterIn' = [letterIn EXCEPT ![c] = IF status[c] = "READ" THEN EMPTY ELSE letter[c]]
  /\ received' = [received EXCEPT ![c] = IF status[c] = "READ" THEN @ ELSE Append(@, letter[c])]
  /\ status' = [status EXCEPT ![c] = "READ"]
  /\ mailbox_lock' = UNLOCKED
  /\ hpc' = [hpc EXCEPT ![c] = "act"]
  /\ UNCHANGED <<letter, sgi, tpc, letterOut, sent>>

\* The rest of sgi_irq, which does nothing to the mailbox, and the return.
ReturnFromSgi(c) ==
  /\ hpc[c] = "act"
  /\ hpc' = [hpc EXCEPT ![c] = "out"]
  /\ UNCHANGED <<mailbox_lock, status, letter, sgi, tpc, letterOut, letterIn, sent, received>>

-----------------------------------------------------------------------------
PushStep(c) == PushAcquire(c) \/ Deposit(c) \/ RaiseSgi(c)
PullStep(c) == TakeSgi(c) \/ PullAcquire(c) \/ pull_mail(c)

MailStep(c) == (\E l \in Letters : Push(c, l)) \/ PushStep(c) \/ PullStep(c)

MailNext == \E c \in Cpus : MailStep(c) \/ ReturnFromSgi(c)

MailSpec == MailInit /\ [][MailNext]_mailVars

\* Both CPUs execute; the operator may stop typing.
FairMailSpec ==
  MailSpec /\ \A c \in Cpus : WF_mailVars(PushStep(c)) /\ WF_mailVars(PullStep(c) \/ ReturnFromSgi(c))

-----------------------------------------------------------------------------
(* Properties *)

\* The mailboxes, lock and program points range over what the code declares.
MailTypeOK ==
  /\ mailbox_lock \in {UNLOCKED} \cup (Cpus \X {"task", "irq"})
  /\ status \in [Cpus -> {"READ", "NOT_READ"}]
  /\ letter \in [Cpus -> Letters \cup {EMPTY}]
  /\ sgi \in [Cpus -> BOOLEAN]
  /\ tpc \in [Cpus -> {"idle", "lock", "wait", "sgi"}]
  /\ hpc \in [Cpus -> {"out", "lock", "pull", "act"}]
  /\ letterOut \in [Cpus -> Letters \cup {EMPTY}]
  /\ letterIn \in [Cpus -> Letters \cup {EMPTY}]
  /\ sent \in [Cpus -> Seq(Letters)] /\ received \in [Cpus -> Seq(Letters)]

\* The spin lock is held exactly by who is inside push_mail's or pull_mail's
\* section, so at most one of the four.
LockHeld ==
  \A c \in Cpus : /\ mailbox_lock = <<c, "task">> <=> tpc[c] = "wait"
                  /\ mailbox_lock = <<c, "irq">> <=> hpc[c] = "pull"

\* Every letter is read exactly once and in order: what was pulled is what was
\* pushed, but for the one letter that waits in the mailbox (push_mail,
\* pull_mail).
ExactlyOnce ==
  \A c \in Cpus :
    /\ status[c] = "READ" => received[c] = sent[c]
    /\ status[c] = "NOT_READ" => sent[c] = Append(received[c], letter[c])

\* An unread letter is never forgotten, although SGIs merge and a handler may
\* find an empty mailbox: its SGI is still to be raised, is pending, or has been
\* taken by a handler that has yet to pull (the ICDSGIR write after push_mail).
NotStranded ==
  \A c \in Cpus : status[c] = "NOT_READ" =>
    sgi[c] \/ tpc[Other(c)] = "sgi" \/ hpc[c] \in {"lock", "pull"}

\* What the proof of the above needs besides: no EMPTY letter is ever under way.
LettersUnderWay ==
  \A c \in Cpus : /\ tpc[c] \in {"lock", "wait"} => letterOut[c] \in Letters
                  /\ status[c] = "NOT_READ" => letter[c] \in Letters

MailInv == MailTypeOK /\ LockHeld /\ ExactlyOnce /\ NotStranded /\ LettersUnderWay

\* push_mail blocks only until the previous letter is read: it returns.
PushReturns == \A c \in Cpus : (tpc[c] = "wait") ~> (tpc[c] = "idle")
=============================================================================
