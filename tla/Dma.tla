-------------------------------- MODULE Dma --------------------------------
(***************************************************************************)
(* The DMA device on CPU 0: its driver (drivers/dma/dma.c), the shell's    *)
(* "start dma" command that calls it, the work queue through which         *)
(* dma_irq() starts the bursts after the first, and the device itself      *)
(* (genesis/ip_repo/modcore_1.0, VHDL).                                    *)
(*                                                                         *)
(* Addresses are offsets from the transfer's source; source and            *)
(* destination advance together.  start_dma() is two steps, up to and from *)
(* its write to the control register, since the device runs from there on; *)
(* the worker and the shell may both be inside.  The bits that start_dma   *)
(* and dma_irq set in the control register clear themselves.               *)
(***************************************************************************)
EXTENDS WorkQueue, Integers

CONSTANTS
  BURST_LEN,    \* MODCORE_DMA_BURST_LEN
  BLOCK,        \* bytes the device moves at a time (its burstsize)
  Lengths,      \* lengths of transfers
  Waits,        \* TRUE: the operator starts a transfer when the last one is over
  start_dma_fn  \* the only work function enqueued on CPU 0

ASSUME DmaAssumption ==
  /\ BLOCK \in Nat \ {0} /\ BURST_LEN \in Nat \ {0} /\ BURST_LEN % BLOCK = 0
  /\ Lengths \subseteq Nat \ {0} /\ Waits \in BOOLEAN
  /\ Work = {start_dma_fn} /\ Wakers = {}

VARIABLES
  orders,        \* dev->data: the list of struct dma_work_order
  shellpc,       \* the shell: prompt, start and go (in start_dma)
  starting,      \* the worker is inside start_dma
  regs,          \* the device's registers: source and length
  cur_state,     \* the device: idle, prep, move
  addr, remain,  \* its sig_axi_araddr and remainlen
  irq,           \* its interrupt is pending
  dirty,         \* the source's bytes may be in the data cache only
  fault,         \* start_dma has followed a NULL dev->data
  len,           \* history: length of the transfer set up last
  moved,         \* history: bytes the device has moved for it
  inSequence     \* history: every block was the next one

devVars == <<cur_state, addr, remain, irq>>
dmaVars == <<orders, shellpc, starting, regs, devVars, dirty, fault, len, moved, inSequence>>
allVars == <<dmaVars, workVars>>

DmaInit ==
  /\ WorkInit
  /\ orders = <<>> /\ shellpc = "prompt" /\ starting = FALSE
  /\ regs = [src |-> 0, len |-> 0]
  /\ cur_state = "idle" /\ addr = 0 /\ remain = 0 /\ irq = FALSE
  /\ dirty = FALSE /\ fault = FALSE
  /\ len = 0 /\ moved = 0 /\ inSequence = TRUE

Waiting == Len(posted) - Len(ran)  \* starts of a burst left to the worker

\* Nobody has anything to do any more for the transfers so far.
Over ==
  /\ orders = <<>> /\ shellpc = "prompt" /\ ~starting /\ Waiting = 0
  /\ cur_state = "idle" /\ ~irq

-----------------------------------------------------------------------------
(* The driver *)

\* Mutant: the remainder is forgotten.
WholeBursts(n) == [k \in 1..(n \div BURST_LEN) |-> [src |-> BURST_LEN * (k - 1), len |-> BURST_LEN]]

\* set_dma_work(): whole bursts, then the remainder if there is one; one order if
\* the transfer fits in a burst.
Bursts(n) ==
  LET q == n \div BURST_LEN
      r == n % BURST_LEN
  IN  IF n > BURST_LEN
      THEN [k \in 1..(IF r # 0 THEN q + 1 ELSE q) |->
              [src |-> BURST_LEN * (k - 1), len |-> IF k <= q THEN BURST_LEN ELSE r]]
      ELSE <<[src |-> 0, len |-> n]>>

\* "start dma": the shell writes the source; set_dma_work() replaces whatever list
\* there was.  Its is_first goes to the byte after dev, not into the orders.
set_dma_work(n) ==
  /\ shellpc = "prompt" /\ (Waits => Over)
  /\ orders' = Bursts(n) /\ dirty' = TRUE /\ shellpc' = "start"
  /\ len' = n /\ moved' = 0 /\ inSequence' = TRUE
  /\ UNCHANGED <<starting, regs, devVars, fault, workVars>>

\* start_dma() up to the start bit: the caches are cleaned if the order's is_first,
\* which nobody initialised, says so; registers from the first order, which is freed.
TakeOrder ==
  IF orders = <<>>
  THEN fault' = TRUE /\ UNCHANGED <<orders, regs, dirty>>
  ELSE /\ \E is_first \in BOOLEAN : dirty' = (dirty /\ ~is_first)
       /\ regs' = Head(orders) /\ orders' = Tail(orders)
       /\ UNCHANGED fault

\* The write of the start bit: the device looks for its edge while idle only.
StartBit ==
  /\ cur_state' = IF cur_state = "idle" THEN "prep" ELSE cur_state
  /\ UNCHANGED <<addr, remain, irq>>

ShellTakes ==
  /\ shellpc = "start" /\ TakeOrder
  /\ shellpc' = "go"
  /\ UNCHANGED <<starting, devVars, len, moved, inSequence, workVars>>

ShellStarts ==
  /\ shellpc = "go" /\ StartBit
  /\ shellpc' = "prompt"
  /\ UNCHANGED <<orders, starting, regs, dirty, fault, len, moved, inSequence, workVars>>

\* "run", for the worker that nobody else wakes on CPU 0.
ShellWakes == shellpc = "prompt" /\ RunCommand /\ UNCHANGED dmaVars

WorkerTakes ==
  /\ ~starting /\ RunWork /\ TakeOrder
  /\ starting' = TRUE
  /\ UNCHANGED <<shellpc, devVars, len, moved, inSequence>>

WorkerStarts ==
  /\ starting /\ StartBit
  /\ starting' = FALSE
  /\ UNCHANGED <<orders, shellpc, regs, dirty, fault, len, moved, inSequence, workVars>>

WorkerElse == ~starting /\ (Woken \/ Retire \/ FallAsleep) /\ UNCHANGED dmaVars

\* Mutant: the handler starts the next burst itself and leaves it to the worker.
StartsAndDefers ==
  /\ irq /\ irq' = FALSE
  /\ IF orders # <<>> THEN DeferWork(start_dma_fn) /\ regs' = Head(orders) /\ orders' = Tail(orders) /\ cur_state' = "prep"
                      ELSE UNCHANGED <<workVars, regs, orders, cur_state>>
  /\ UNCHANGED <<shellpc, starting, addr, remain, dirty, fault, len, moved, inSequence>>

\* dma_irq(): the next order is left to the worker, which is not woken.
dma_irq ==
  /\ irq /\ irq' = FALSE
  /\ IF orders # <<>> THEN DeferWork(start_dma_fn) ELSE UNCHANGED workVars
  /\ UNCHANGED <<orders, shellpc, starting, regs, cur_state, addr, remain, dirty, fault,
                 len, moved, inSequence>>

-----------------------------------------------------------------------------
(* The device *)

\* prep1 to prep3: the registers are read once.
Prepare ==
  /\ cur_state = "prep"
  /\ addr' = regs.src /\ remain' = regs.len
  /\ cur_state' = "move"
  /\ UNCHANGED <<orders, shellpc, starting, regs, irq, dirty, fault, len, moved, inSequence,
                 workVars>>

\* Mutant: the device leaves it at the last block that is whole.
MoveWholeBlock ==
  /\ cur_state = "move"
  /\ moved' = moved + BLOCK /\ inSequence' = (inSequence /\ addr = moved)
  /\ remain' = remain - BLOCK /\ addr' = addr + BLOCK
  /\ IF remain' >= BLOCK THEN UNCHANGED <<cur_state, irq>> ELSE cur_state' = "idle" /\ irq' = TRUE
  /\ UNCHANGED <<orders, shellpc, starting, regs, dirty, fault, len, workVars>>

\* read1 to bresp1: always a whole block; then the next, or the interrupt.
MoveBlock ==
  /\ cur_state = "move"
  /\ moved' = moved + BLOCK /\ inSequence' = (inSequence /\ addr = moved)
  /\ remain' = remain - BLOCK /\ addr' = addr + BLOCK
  /\ IF remain' > 0 THEN UNCHANGED <<cur_state, irq>> ELSE cur_state' = "idle" /\ irq' = TRUE
  /\ UNCHANGED <<orders, shellpc, starting, regs, dirty, fault, len, workVars>>

-----------------------------------------------------------------------------
\* A NULL that was followed ends everything.
DmaNext ==
  /\ ~fault
  /\ \/ \E n \in Lengths : set_dma_work(n)
     \/ ShellTakes \/ ShellStarts \/ ShellWakes
     \/ WorkerTakes \/ WorkerStarts \/ WorkerElse
     \/ Prepare \/ MoveBlock \/ dma_irq

\* The shell and a queued worker run (module Sched: NoStarvation), the device
\* finishes what it began; the operator need not type "run".
DmaSpec ==
  /\ DmaInit /\ [][DmaNext]_allVars
  /\ WF_allVars(ShellTakes \/ ShellStarts)
  /\ WF_allVars(WorkerTakes \/ WorkerStarts \/ WorkerElse)
  /\ WF_allVars(Prepare \/ MoveBlock) /\ WF_allVars(dma_irq)

-----------------------------------------------------------------------------
(* Properties *)

\* The device moves the bytes of a transfer from its first on, each once, however
\* the transfer is cut into bursts, and when it is over has moved all of them and
\* less than a block more: orders, registers, the device's own counters and the
\* worker agree over any number of bursts (set_dma_work, start_dma, dma_irq, and
\* the device's remainlen).
MovedInOrder == inSequence /\ (Over => len <= moved /\ moved < len + BLOCK)

\* Who may act next for the transfer: a baton that the shell, the device, its
\* interrupt and the worker hand on.
Holders ==
  {h \in {"shell", "worker", "device", "handler"} :
     \/ h = "shell" /\ shellpc # "prompt"
     \/ h = "worker" /\ (starting \/ Waiting > 0)
     \/ h = "device" /\ cur_state # "idle"
     \/ h = "handler" /\ irq}

\* Exactly one of them holds it while orders are left and never two, so that no
\* start bit meets a busy device and no order is taken twice; and who is to take an
\* order finds one (start_dma, which looks for no NULL, dma_irq, workq_worker).
OrdersOwned ==
  /\ \A g, h \in Holders : g = h
  /\ orders # <<>> => Holders # {}
  /\ shellpc = "start" \/ Waiting > 0 => orders # <<>>

\* A transfer that was set up is carried out to its last byte (set_dma_work, dma_irq).
TransferDone == []<>Over

\* The device reads what the shell wrote (start_dma, is_first).
SourceInMemory == cur_state # "idle" => ~dirty
=============================================================================
