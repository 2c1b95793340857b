----------------------------- MODULE DmaProofs -----------------------------
(***************************************************************************)
(* DMA transfers, for any burst length that is whole blocks and any        *)
(* lengths, one transfer after the other: the device moves the bytes once  *)
(* each and in order, and driver, device, handler and worker hand the      *)
(* orders on without losing or doubling any.                               *)
(***************************************************************************)
EXTENDS Dma, WorkQueueProofs

Order == [src : Nat, len : Nat]

DmaTypes ==
  /\ orders \in Seq(Order) /\ regs \in Order /\ len \in Nat /\ moved \in Nat
  /\ cur_state \in {"idle", "prep", "move"} /\ shellpc \in {"prompt", "start", "go"}
  /\ addr \in Nat /\ remain \in Int
  /\ starting \in BOOLEAN /\ irq \in BOOLEAN

\* One of shell, worker, device and handler acts next, and who is to take an order
\* finds one.
Baton ==
  /\ ~fault
  /\ shellpc # "prompt" => ~starting /\ Pending = 0 /\ cur_state = "idle" /\ ~irq
  /\ Pending # 0 => Pending = 1 /\ ~starting /\ cur_state = "idle" /\ ~irq
  /\ starting => cur_state = "idle" /\ ~irq
  /\ irq => cur_state = "idle"
  /\ orders # <<>> => shellpc # "prompt" \/ starting \/ Pending # 0 \/ cur_state # "idle" \/ irq
  /\ shellpc = "start" \/ Pending # 0 => orders # <<>>

\* The list begins at an offset, is whole bursts but for its last order, and goes on
\* to the end of the transfer.
OrdersFrom(at) ==
  /\ IF orders = <<>> THEN at = len ELSE orders[1].src = at
  /\ \A k \in 1..Len(orders) :
       /\ orders[k].len > 0
       /\ IF k = Len(orders)
          THEN orders[k].src + orders[k].len = len
          ELSE /\ orders[k].len = BURST_LEN
               /\ orders[k + 1].src = orders[k].src + BURST_LEN

\* A piece that is whole blocks unless it is the transfer's last.
WholeUnlessLast(n) == n > 0 /\ (orders # <<>> => n % BLOCK = 0)

\* What has been moved, what is in the registers or left to the device, and the list
\* make up the transfer.
InRegs == shellpc = "go" \/ starting \/ cur_state = "prep"

Progress ==
  /\ inSequence
  /\ InRegs => regs.src = moved /\ WholeUnlessLast(regs.len) /\ OrdersFrom(moved + regs.len)
  /\ cur_state = "move" => addr = moved /\ WholeUnlessLast(remain) /\ OrdersFrom(moved + remain)
  /\ ~InRegs /\ cur_state = "idle" =>
       IF orders = <<>> THEN len <= moved /\ moved < len + BLOCK ELSE OrdersFrom(moved)

DmaInv == WorkInv /\ DmaTypes /\ Baton /\ Progress

-----------------------------------------------------------------------------
(* set_dma_work() cuts a transfer into bursts.                               *)

\* Division with remainder (set_dma_work's num_burst and rem_burst).
LEMMA DivMod ==
  ASSUME NEW n \in Nat
  PROVE  /\ n \div BURST_LEN \in Nat
         /\ n % BURST_LEN \in 0..(BURST_LEN - 1)
         /\ n = BURST_LEN * (n \div BURST_LEN) + (n % BURST_LEN)
  <1>1. BURST_LEN \in Nat \ {0}  BY DmaAssumption
  <1> QED BY <1>1, SMT

\* set_dma_work() leaves a list that covers the transfer from its first byte.
LEMMA BurstsCover ==
  ASSUME NEW n \in Nat \ {0}, orders' = Bursts(n), len' = n
  PROVE  orders' \in Seq(Order) /\ orders' # <<>> /\ OrdersFrom(0)'
  <1> DEFINE b == BURST_LEN
             q == n \div b
             r == n % b
             last == IF r # 0 THEN q + 1 ELSE q
  <1>1. /\ b \in Nat \ {0} /\ q \in Nat /\ r \in 0..(b - 1) /\ n = b * q + r
    BY DmaAssumption, DivMod
  <1>2. CASE n > b
    <2> DEFINE B == [k \in 1..last |->
                       [src |-> b * (k - 1), len |-> IF k <= q THEN b ELSE r]]
    <2>1. Bursts(n) = B  BY <1>2 DEF Bursts
    <2>2. q >= 1 /\ last \in Nat /\ last >= 1 /\ (last = q \/ last = q + 1)
      <3>1. q # 0  BY <1>1, <1>2
      <3> QED BY <1>1, <3>1
    <2>3. ASSUME NEW k \in 1..last
          PROVE  /\ B[k] \in Order /\ B[k].src = b * (k - 1)
                 /\ B[k].len = IF k <= q THEN b ELSE r
      <3>1. b * (k - 1) \in Nat  BY <1>1, <2>2
      <3> QED BY <1>1, <3>1 DEF Order
    <2>4. B \in Seq(Order) /\ Len(B) = last
      <3>1. B \in [1..last -> Order]  BY <2>3
      <3> HIDE DEF B, last
      <3> QED BY <2>2, <3>1
    <2>5. ASSUME NEW k \in 1..last, k # last
          PROVE  B[k].len = b /\ B[k + 1].src = B[k].src + b
      <3>1. k + 1 \in 1..last /\ k <= q  BY <1>1, <2>2, <2>5
      <3>2. B[k + 1].src = b * k  BY <2>3, <3>1, (k + 1) - 1 = k
      <3>3. b * (k - 1) + b = b * k  BY <1>1, <2>2
      <3> QED BY <2>3, <3>1, <3>2, <3>3
    <2>6. B[last].src + B[last].len = n
      <3>1. CASE r = 0
        <4>1. last = q /\ B[last].src = b * (q - 1) /\ B[last].len = b
          BY <1>1, <2>2, <2>3, <3>1
        <4>2. b * (q - 1) + b = b * q  BY <1>1, <2>2
        <4> QED BY <1>1, <3>1, <4>1, <4>2
      <3>2. CASE r # 0
        <4>1. last = q + 1 /\ B[last].src = b * q /\ B[last].len = r
          BY <1>1, <2>2, <2>3, <3>2, (q + 1) - 1 = q
        <4> QED BY <1>1, <4>1
      <3> QED BY <3>1, <3>2
    <2>7. ASSUME NEW k \in 1..last PROVE B[k].len > 0
      <3>1. CASE k <= q  BY <1>1, <2>3, <3>1
      <3>2. CASE ~(k <= q)
        <4>1. r # 0  BY <1>1, <2>2, <3>2
        <4> QED BY <1>1, <2>3, <3>2, <4>1
      <3> QED BY <3>1, <3>2
    <2>8. B[1].src = 0  BY <1>1, <2>2, <2>3
    <2> HIDE DEF B, last
    <2>9. orders' = B /\ len' = n  BY <2>1
    <2>10. B # <<>> /\ Len(B) = last  BY <2>2, <2>4
    <2> QED BY <2>4, <2>5, <2>6, <2>7, <2>8, <2>9, <2>10 DEF OrdersFrom
  <1>3. CASE ~(n > b)
    <2>1. orders' = <<[src |-> 0, len |-> n]>>  BY <1>3 DEF Bursts
    <2> DEFINE B == <<[src |-> 0, len |-> n]>>
    <2>2. B \in Seq(Order) /\ B # <<>> /\ Len(B) = 1 /\ B[1].src = 0 /\ B[1].len = n
      BY DEF Order
    <2> HIDE DEF B
    <2> QED BY <2>1, <2>2 DEF OrdersFrom, B
  <1> QED BY <1>2, <1>3

\* Taking the first order leaves a list that begins where it ends (start_dma).
LEMMA TakeFirst ==
  ASSUME DmaTypes, orders # <<>>, OrdersFrom(moved), TakeOrder, UNCHANGED <<len, moved>>
  PROVE  /\ regs' \in Order /\ orders' \in Seq(Order) /\ fault' = fault
         /\ regs'.src = moved /\ WholeUnlessLast(regs.len)' /\ OrdersFrom(moved + regs.len)'
  <1>1. orders \in Seq(Order) /\ Len(orders) \in Nat /\ Len(orders) >= 1 /\ moved \in Nat
    BY DEF DmaTypes
  <1>2. /\ regs' = orders[1] /\ orders' = Tail(orders) /\ fault' = fault
        /\ len' = len /\ moved' = moved
    BY DEF TakeOrder
  <1>3. /\ orders' \in Seq(Order) /\ Len(orders') = Len(orders) - 1
        /\ \A k \in 1..Len(orders') : orders'[k] = orders[k + 1]
    BY <1>1, <1>2
  <1>4. orders[1] \in Order /\ 1 \in 1..Len(orders)  BY <1>1
  <1>5. /\ orders[1].src = moved /\ orders[1].len > 0 /\ orders[1].len \in Nat
        /\ IF 1 = Len(orders) THEN moved + orders[1].len = len
           ELSE orders[1].len = BURST_LEN /\ orders[1 + 1].src = moved + BURST_LEN
    BY <1>1, <1>4 DEF OrdersFrom, Order
  <1>6. IF orders' = <<>> THEN moved + regs'.len = len' ELSE orders'[1].src = moved + regs'.len
    <2>1. CASE Len(orders) = 1  BY <1>2, <1>3, <1>5, <2>1
    <2>2. CASE Len(orders) # 1
      <3>1. 1 \in 1..Len(orders') /\ orders' # <<>>  BY <1>1, <1>3, <2>2
      <3> QED BY <1>2, <1>3, <1>5, <2>2, <3>1
    <2> QED BY <2>1, <2>2
  <1>7. ASSUME NEW k \in 1..Len(orders')
        PROVE  /\ orders'[k].len > 0
               /\ IF k = Len(orders')
                  THEN orders'[k].src + orders'[k].len = len
                  ELSE /\ orders'[k].len = BURST_LEN
                       /\ orders'[k + 1].src = orders'[k].src + BURST_LEN
    <2>1. k + 1 \in 1..Len(orders) /\ orders'[k] = orders[k + 1]  BY <1>1, <1>3
    <2>2. CASE k = Len(orders')
      <3>1. k + 1 = Len(orders)  BY <1>1, <1>3, <2>2
      <3> QED BY <2>1, <2>2, <3>1 DEF OrdersFrom
    <2>3. CASE k # Len(orders')
      <3>1. k + 1 # Len(orders) /\ k + 1 \in 1..Len(orders')  BY <1>1, <1>3, <2>3
      <3>2. orders'[k + 1] = orders[(k + 1) + 1]  BY <1>3, <3>1
      <3> QED BY <2>1, <2>3, <3>1, <3>2 DEF OrdersFrom
    <2> QED BY <2>2, <2>3
  <1>8. OrdersFrom(moved + regs.len)'  BY <1>2, <1>6, <1>7 DEF OrdersFrom
  <1>9. WholeUnlessLast(regs.len)'
    <2>1. CASE Len(orders) = 1
      <3>1. orders' = <<>>  BY <1>3, <2>1
      <3> QED BY <1>2, <1>5, <3>1 DEF WholeUnlessLast
    <2>2. CASE Len(orders) # 1
      BY <1>2, <1>5, <2>2, DmaAssumption DEF WholeUnlessLast
    <2> QED BY <2>1, <2>2
  <1> QED BY <1>2, <1>3, <1>4, <1>5, <1>8, <1>9

\* A block off a piece that is whole blocks leaves one that is (the device's remainlen).
LEMMA BlockOff ==
  ASSUME NEW n \in Nat \ {0}, n % BLOCK = 0
  PROVE  n >= BLOCK /\ (n - BLOCK) % BLOCK = 0
  <1>1. BLOCK \in Nat \ {0}  BY DmaAssumption
  <1>2. n = BLOCK * (n \div BLOCK) /\ n \div BLOCK \in Nat  BY <1>1, SMT
  <1> DEFINE d == n \div BLOCK
  <1>3. d # 0  BY <1>1, <1>2
  <1>4. n >= BLOCK  BY <1>1, <1>2, <1>3
  <1> DEFINE m == n - BLOCK
             r == m % BLOCK
             e == m \div BLOCK
  <1>5. m \in Nat /\ m = BLOCK * (d - 1)  BY <1>1, <1>2, <1>3, <1>4
  <1>6. m = BLOCK * e + r /\ e \in Nat /\ r \in 0..(BLOCK - 1)  BY <1>1, <1>5, SMT
  <1>7. r = 0
    <2> HIDE DEF d, e, r, m
    <2>1. d \in Nat  BY <1>2 DEF d
    <2>2. r = BLOCK * ((d - 1) - e)  BY <1>1, <1>5, <1>6, <2>1
    <2>3. (d - 1) - e < 1
      <3>1. SUFFICES ASSUME (d - 1) - e >= 1 PROVE FALSE  BY <1>6, <2>1
      <3> DEFINE f == (d - 1) - e
      <3>2. f \in Nat /\ f >= 1  BY <1>6, <2>1, <3>1
      <3>3. r = BLOCK * f  BY <2>2
      <3> HIDE DEF f
      <3>4. BLOCK * f >= BLOCK  BY <1>1, <3>2
      <3> QED BY <1>1, <1>6, <3>3, <3>4
    <2>4. (d - 1) - e > -1
      <3>1. SUFFICES ASSUME e - (d - 1) >= 1 PROVE FALSE  BY <1>6, <2>1
      <3> DEFINE f == e - (d - 1)
      <3>2. f \in Nat /\ f >= 1  BY <1>6, <2>1, <3>1
      <3>3. r = 0 - BLOCK * f  BY <1>1, <1>6, <2>1, <2>2
      <3> HIDE DEF f
      <3>4. BLOCK * f >= BLOCK  BY <1>1, <3>2
      <3> QED BY <1>1, <1>6, <3>2, <3>3, <3>4
    <2>5. (d - 1) - e = 0  BY <1>6, <2>1, <2>3, <2>4
    <2> QED BY <1>1, <2>2, <2>5
  <1> QED BY <1>4, <1>7

-----------------------------------------------------------------------------
(* The baton goes round, and the transfer advances.                          *)

\* The work queue only sees dma_irq's work, the shell's "run" and the worker (dma_irq,
\* workq_worker).
LEMMA DmaWorkStep == [DmaNext]_allVars => [WorkNext]_workVars
  BY DmaAssumption DEF DmaNext, allVars, dmaVars, set_dma_work, ShellTakes, ShellStarts,
     ShellWakes, WorkerTakes, WorkerStarts, WorkerElse, Prepare, MoveBlock, dma_irq,
     WorkNext, workq_worker

\* The worker's function is one of those pending (workq_worker).
LEMMA RunsPending ==
  ASSUME WorkInv, RunWork
  PROVE  Pending \in Nat \ {0} /\ Pending' = Pending - 1
  <1>1. /\ posted \in Seq(Work) /\ ran \in Seq(Work \cup {NoWork})
        /\ ran' \in Seq(Work \cup {NoWork})
    BY RunWorkInv DEF WorkInv, WorkTypeOK
  <1>2. i < end /\ wpc = "loop" /\ posted' = posted  BY DEF RunWork
  <1>3. i \in Nat /\ end \in Nat /\ end - i <= Pending
    BY <1>2, WorkQueueAssumption DEF WorkInv, WorkTypeOK, Draining
  <1>4. PICK f : ran' = Append(ran, f)  BY DEF RunWork
  <1>5. Len(ran') = Len(ran) + 1  BY <1>1, <1>4
  <1>6. Len(posted) \in Nat /\ Len(ran) \in Nat  BY <1>1
  <1> QED BY <1>2, <1>3, <1>5, <1>6 DEF Pending

\* The invariant holds at the start (the driver's list is empty).
LEMMA DmaInitInv == DmaInit => DmaInv
  <1> SUFFICES ASSUME DmaInit PROVE DmaInv  OBVIOUS
  <1>1. WorkInv  BY WorkInitInv DEF DmaInit
  <1>2. Pending = 0  BY DEF DmaInit, WorkInit, Pending
  <1>3. DmaTypes
    <2>1. orders \in Seq(Order)  BY DEF DmaInit
    <2>2. regs \in Order  BY DEF DmaInit, Order
    <2>3. len \in Nat /\ moved \in Nat /\ addr \in Nat /\ remain \in Int  BY DEF DmaInit
    <2>4. /\ cur_state \in {"idle", "prep", "move"} /\ shellpc \in {"prompt", "start", "go"}
          /\ starting \in BOOLEAN /\ irq \in BOOLEAN
      BY DEF DmaInit
    <2> QED BY <2>1, <2>2, <2>3, <2>4 DEF DmaTypes
  <1>4. Baton  BY <1>2 DEF DmaInit, Baton
  <1>5. Progress
    <2>1. BLOCK \in Nat \ {0} /\ 0 <= 0 /\ 0 < 0 + BLOCK  BY DmaAssumption
    <2> QED BY <2>1 DEF DmaInit, Progress, InRegs
  <1> QED BY <1>1, <1>3, <1>4, <1>5 DEF DmaInv

\* The worker's other steps are none of the transfer (workq_worker).
LEMMA NothingMoves ==
  ASSUME DmaTypes, Baton, Progress, UNCHANGED <<dmaVars, posted, ran>>
  PROVE  DmaTypes' /\ Baton' /\ Progress'
  <1> USE DEF dmaVars, devVars
  <1>1. DmaTypes'  BY DEF DmaTypes
  <1>2. Baton'  BY DEF Baton, Pending
  <1>3. Progress'  BY DEF Progress, InRegs, WholeUnlessLast, OrdersFrom
  <1> QED BY <1>1, <1>2, <1>3

\* What a caller that takes an order finds, and what it leaves (start_dma's first part).
LEMMA TakenWhenDue ==
  ASSUME DmaTypes, Progress, ~InRegs, cur_state = "idle", orders # <<>>,
         TakeOrder, UNCHANGED <<devVars, len, moved, inSequence>>, InRegs'
  PROVE  /\ Progress' /\ regs' \in Order /\ orders' \in Seq(Order) /\ fault' = fault
  <1>1. OrdersFrom(moved) /\ inSequence  BY DEF Progress
  <1>2. /\ regs' \in Order /\ orders' \in Seq(Order) /\ fault' = fault
        /\ regs'.src = moved /\ WholeUnlessLast(regs.len)' /\ OrdersFrom(moved + regs.len)'
    BY <1>1, TakeFirst
  <1>3. cur_state' = "idle" /\ moved' = moved /\ inSequence' = inSequence  BY DEF devVars
  <1>4. Progress'  BY <1>1, <1>2, <1>3 DEF Progress
  <1> QED BY <1>2, <1>4

\* The start bit hands the order in the registers to the device, which is idle
\* (start_dma's second part).
LEMMA HandedOver ==
  ASSUME DmaTypes, Progress, InRegs, cur_state = "idle",
         StartBit, UNCHANGED <<orders, regs, len, moved, inSequence>>
  PROVE  Progress' /\ cur_state' = "prep" /\ UNCHANGED <<addr, remain, irq>>
  <1>1. cur_state' = "prep" /\ InRegs' /\ UNCHANGED <<addr, remain, irq>>  BY DEF StartBit, InRegs
  <1>2. Progress'  BY <1>1 DEF Progress, WholeUnlessLast, OrdersFrom
  <1> QED BY <1>1, <1>2

\* Each order is taken, started, carried out and followed by the next, by whoever holds
\* the baton (set_dma_work, start_dma, dma_irq, the device).
LEMMA DmaInvInductive == NotFull /\ Waits /\ DmaInv /\ [DmaNext]_allVars => DmaInv'
  <1> SUFFICES ASSUME NotFull, Waits, DmaInv, [DmaNext]_allVars PROVE DmaInv'  OBVIOUS
  <1>1. WorkInv' /\ WorkInv /\ DmaTypes /\ Baton /\ Progress
    BY DmaWorkStep, WorkInvInductive DEF DmaInv
  <1>2. Pending \in Nat /\ Pending = Waiting
    BY <1>1 DEF WorkInv, WorkTypeOK, InOrder, Pending, Waiting
  <1> SUFFICES DmaTypes' /\ Baton' /\ Progress'  BY <1>1 DEF DmaInv
  <1>3. ASSUME NEW n \in Lengths, set_dma_work(n) PROVE DmaTypes' /\ Baton' /\ Progress'
    <2>1. n \in Nat \ {0}  BY DmaAssumption
    <2>2. /\ orders' = Bursts(n) /\ shellpc' = "start" /\ len' = n /\ moved' = 0 /\ inSequence'
          /\ UNCHANGED <<starting, regs, cur_state, addr, remain, irq, fault>> /\ Pending' = Pending
          /\ Over
      BY <1>3 DEF set_dma_work, workVars, devVars, Pending
    <2>3. orders' \in Seq(Order) /\ orders' # <<>> /\ OrdersFrom(0)'  BY <2>1, <2>2, BurstsCover
    <2>4. DmaTypes'  BY <1>1, <2>1, <2>2, <2>3 DEF DmaTypes
    <2>5. Baton'  BY <1>1, <1>2, <2>2, <2>3 DEF Baton, Over
    <2>6. Progress'
      <3>1. ~InRegs' /\ cur_state' = "idle"  BY <2>2 DEF InRegs, Over
      <3>2. OrdersFrom(moved)'  BY <2>2, <2>3 DEF OrdersFrom
      <3> QED BY <2>2, <2>3, <3>1, <3>2 DEF Progress
    <2> QED BY <2>4, <2>5, <2>6
  <1>4. CASE ShellTakes
    <2>1. /\ shellpc = "start" /\ shellpc' = "go" /\ TakeOrder /\ Pending' = Pending
          /\ starting' = starting /\ UNCHANGED <<devVars, len, moved, inSequence>>
      BY <1>4 DEF ShellTakes, workVars, Pending
    <2>2. /\ orders # <<>> /\ ~starting /\ Pending = 0 /\ cur_state = "idle" /\ ~irq /\ ~InRegs
      BY <1>1, <2>1 DEF Baton, InRegs
    <2>3. InRegs'  BY <2>1 DEF InRegs
    <2>4. Progress' /\ regs' \in Order /\ orders' \in Seq(Order) /\ fault' = fault
      BY <1>1, <2>1, <2>2, <2>3, TakenWhenDue
    <2>5. DmaTypes'  BY <1>1, <2>1, <2>4 DEF DmaTypes, devVars
    <2>6. Baton'  BY <1>1, <2>1, <2>2, <2>4 DEF Baton, devVars
    <2> QED BY <2>4, <2>5, <2>6
  <1>5. CASE WorkerTakes
    <2>1. /\ ~starting /\ RunWork /\ TakeOrder /\ starting' = TRUE /\ shellpc' = shellpc
          /\ UNCHANGED <<devVars, len, moved, inSequence>>
      BY <1>5 DEF WorkerTakes
    <2>2. Pending \in Nat \ {0} /\ Pending' = Pending - 1  BY <1>1, <2>1, RunsPending
    <2>3. /\ orders # <<>> /\ Pending' = 0 /\ cur_state = "idle" /\ ~irq /\ shellpc = "prompt"
          /\ ~InRegs
      BY <1>1, <2>1, <2>2 DEF Baton, InRegs
    <2>4. InRegs'  BY <2>1 DEF InRegs
    <2>5. Progress' /\ regs' \in Order /\ orders' \in Seq(Order) /\ fault' = fault
      BY <1>1, <2>1, <2>3, <2>4, TakenWhenDue
    <2>6. DmaTypes'  BY <1>1, <2>1, <2>5 DEF DmaTypes, devVars
    <2>7. Baton'  BY <1>1, <2>1, <2>3, <2>5 DEF Baton, devVars
    <2> QED BY <2>5, <2>6, <2>7
  <1>6. CASE ShellStarts
    <2>1. /\ shellpc = "go" /\ shellpc' = "prompt" /\ StartBit /\ Pending' = Pending
          /\ UNCHANGED <<orders, starting, regs, fault, len, moved, inSequence>>
      BY <1>6 DEF ShellStarts, workVars, Pending
    <2>2. InRegs /\ cur_state = "idle" /\ ~starting /\ Pending = 0 /\ ~irq
      BY <1>1, <2>1 DEF Baton, InRegs
    <2>3. Progress' /\ cur_state' = "prep" /\ UNCHANGED <<addr, remain, irq>>
      BY <1>1, <2>1, <2>2, HandedOver
    <2>4. DmaTypes'  BY <1>1, <2>1, <2>3 DEF DmaTypes
    <2>5. Baton'  BY <1>1, <2>1, <2>2, <2>3 DEF Baton
    <2> QED BY <2>3, <2>4, <2>5
  <1>7. CASE WorkerStarts
    <2>1. /\ starting /\ ~starting' /\ starting' \in BOOLEAN /\ StartBit /\ Pending' = Pending
          /\ UNCHANGED <<orders, shellpc, regs, fault, len, moved, inSequence>>
      BY <1>7 DEF WorkerStarts, workVars, Pending
    <2>2. InRegs /\ cur_state = "idle" /\ shellpc = "prompt" /\ Pending = 0 /\ ~irq
      BY <1>1, <2>1 DEF Baton, InRegs
    <2>3. Progress' /\ cur_state' = "prep" /\ UNCHANGED <<addr, remain, irq>>
      BY <1>1, <2>1, <2>2, HandedOver
    <2>4. DmaTypes'  BY <1>1, <2>1, <2>3 DEF DmaTypes
    <2>5. Baton'  BY <1>1, <2>1, <2>2, <2>3 DEF Baton
    <2> QED BY <2>3, <2>4, <2>5
  <1>8. CASE Prepare
    <2>1. /\ cur_state = "prep" /\ cur_state' = "move" /\ addr' = regs.src /\ remain' = regs.len
          /\ UNCHANGED <<orders, shellpc, starting, regs, irq, fault, len, moved, inSequence>>
          /\ Pending' = Pending
      BY <1>8 DEF Prepare, workVars, Pending
    <2>2. InRegs /\ ~starting /\ shellpc = "prompt" /\ Pending = 0 /\ ~irq
      BY <1>1, <2>1 DEF Baton, InRegs, DmaTypes
    <2>3. DmaTypes'  BY <1>1, <2>1 DEF DmaTypes, Order
    <2>4. Baton'  BY <1>1, <2>1, <2>2 DEF Baton
    <2>5. Progress'
      <3>1. ~InRegs'  BY <2>1, <2>2 DEF InRegs
      <3>2. regs.src = moved /\ WholeUnlessLast(regs.len) /\ OrdersFrom(moved + regs.len) /\ inSequence
        BY <1>1, <2>2 DEF Progress
      <3>3. WholeUnlessLast(remain)' /\ OrdersFrom(moved + remain)'
        BY <2>1, <3>2 DEF WholeUnlessLast, OrdersFrom
      <3> QED BY <2>1, <3>1, <3>2, <3>3 DEF Progress
    <2> QED BY <2>3, <2>4, <2>5
  <1>9. CASE MoveBlock
    <2> DEFINE left == remain - BLOCK
    <2>1. /\ cur_state = "move" /\ moved' = moved + BLOCK /\ remain' = left /\ addr' = addr + BLOCK
          /\ inSequence' = (inSequence /\ addr = moved)
          /\ IF left > 0 THEN UNCHANGED <<cur_state, irq>> ELSE cur_state' = "idle" /\ irq' = TRUE
          /\ UNCHANGED <<orders, shellpc, starting, regs, fault, len>> /\ Pending' = Pending
      BY <1>9 DEF MoveBlock, workVars, Pending
    <2>2. /\ ~starting /\ shellpc = "prompt" /\ Pending = 0 /\ ~irq
      BY <1>1, <2>1 DEF Baton, DmaTypes
    <2>3. /\ BLOCK \in Nat \ {0} /\ moved \in Nat /\ addr \in Nat /\ remain \in Int /\ len \in Nat
      BY <1>1, DmaAssumption DEF DmaTypes
    <2>4. /\ inSequence /\ addr = moved /\ WholeUnlessLast(remain) /\ OrdersFrom(moved + remain)
      BY <1>1, <2>1 DEF Progress
    <2>5. remain \in Nat \ {0} /\ (orders # <<>> => left >= 0 /\ left % BLOCK = 0)
      <3>1. remain \in Nat \ {0}  BY <2>3, <2>4 DEF WholeUnlessLast
      <3>2. ASSUME orders # <<>> PROVE left >= 0 /\ left % BLOCK = 0
        <4>1. remain % BLOCK = 0  BY <2>4, <3>2 DEF WholeUnlessLast
        <4> HIDE DEF left
        <4>2. remain >= BLOCK /\ (remain - BLOCK) % BLOCK = 0  BY <3>1, <4>1, BlockOff
        <4> QED BY <2>3, <3>1, <4>2 DEF left
      <3> QED BY <3>1, <3>2
    <2>6. moved' + left = moved + remain  BY <2>1, <2>3
    <2>7. left \in Int /\ left = remain - BLOCK  BY <2>3
    <2> HIDE DEF left
    <2>8. DmaTypes'
      <3>1. addr' \in Nat /\ moved' \in Nat /\ remain' \in Int  BY <2>1, <2>3, <2>7
      <3>2. cur_state' \in {"idle", "prep", "move"} /\ irq' \in BOOLEAN
        BY <1>1, <2>1 DEF DmaTypes
      <3> QED BY <1>1, <2>1, <3>1, <3>2 DEF DmaTypes
    <2>9. Baton'  BY <1>1, <2>1, <2>2 DEF Baton
    <2>10. Progress'
      <3>1. ~InRegs' /\ inSequence'
        BY <2>1, <2>2, <2>4 DEF InRegs
      <3>2. CASE left > 0
        <4>1. WholeUnlessLast(remain)'  BY <2>1, <2>5, <3>2 DEF WholeUnlessLast
        <4>2. OrdersFrom(moved + remain)'  BY <2>1, <2>4, <2>6 DEF OrdersFrom
        <4>3. addr' = moved' /\ cur_state' = "move"  BY <2>1, <2>4, <3>2
        <4> QED BY <3>1, <4>1, <4>2, <4>3 DEF Progress
      <3>3. CASE ~(left > 0)
        <4>1. cur_state' = "idle" /\ orders' = orders /\ len' = len  BY <2>1, <3>3
        <4>2. CASE orders = <<>>
          <5>1. moved + remain = len  BY <2>4, <4>2 DEF OrdersFrom
          <5>2. len <= moved' /\ moved' < len + BLOCK
            BY <2>1, <2>3, <2>5, <2>7, <3>3, <5>1
          <5> QED BY <3>1, <4>1, <4>2, <5>2 DEF Progress
        <4>3. CASE orders # <<>>
          <5>1. left = 0  BY <2>5, <2>7, <3>3, <4>3
          <5>2. moved' = moved + remain  BY <2>1, <2>3, <2>6, <5>1
          <5>3. OrdersFrom(moved)'  BY <2>4, <4>1, <5>2 DEF OrdersFrom
          <5> QED BY <3>1, <4>1, <4>3, <5>3 DEF Progress
        <4> QED BY <4>2, <4>3
      <3> QED BY <3>2, <3>3
    <2> QED BY <2>8, <2>9, <2>10
  <1>10. CASE dma_irq
    <2>1. /\ irq /\ ~irq' /\ irq' \in BOOLEAN
          /\ UNCHANGED <<orders, shellpc, starting, regs, cur_state, addr, remain, fault, len, moved,
                         inSequence>>
      BY <1>10 DEF dma_irq
    <2>2. shellpc = "prompt" /\ Pending = 0 /\ ~starting /\ cur_state = "idle"
      BY <1>1, <2>1 DEF Baton
    <2>3. Pending' = IF orders # <<>> THEN 1 ELSE 0
      <3>1. CASE orders # <<>>
        <4>1. posted' = Append(posted, start_dma_fn) /\ ran' = ran
          BY <1>10, <3>1 DEF dma_irq, DeferWork, enqueue_workq
        <4>2. posted \in Seq(Work) /\ Len(ran) \in Nat /\ start_dma_fn \in Work
          BY <1>1, <1>2, DmaAssumption DEF WorkInv, WorkTypeOK
        <4> QED BY <2>2, <3>1, <4>1, <4>2 DEF Pending
      <3>2. CASE orders = <<>>
        BY <1>10, <2>2, <3>2 DEF dma_irq, workVars, Pending
      <3> QED BY <3>1, <3>2
    <2>4. DmaTypes'  BY <1>1, <2>1 DEF DmaTypes
    <2>5. Baton'  BY <1>1, <2>1, <2>2, <2>3 DEF Baton
    <2>6. Progress'
      <3>1. InRegs' = InRegs  BY <2>1 DEF InRegs
      <3> QED BY <1>1, <2>1, <3>1 DEF Progress, WholeUnlessLast, OrdersFrom
    <2> QED BY <2>4, <2>5, <2>6
  <1>11. CASE ShellWakes \/ WorkerElse
    <2>1. UNCHANGED dmaVars /\ posted' = posted /\ ran' = ran
      BY <1>11 DEF ShellWakes, RunCommand, WorkerElse, Woken, Retire, FallAsleep
    <2> QED BY <1>1, <2>1, NothingMoves
  <1>12. CASE UNCHANGED allVars
    BY <1>1, <1>12, NothingMoves DEF allVars, workVars
  <1> QED BY <1>3, <1>4, <1>5, <1>6, <1>7, <1>8, <1>9, <1>10, <1>11, <1>12 DEF DmaNext

-----------------------------------------------------------------------------
(* Theorems                                                                  *)

\* Whatever the lengths, one transfer after the other goes through its orders
\* (set_dma_work, start_dma, dma_irq).
THEOREM DmaInvariant == NotFull /\ Waits => (DmaSpec => []DmaInv)
  <1> SUFFICES ASSUME NotFull, Waits PROVE DmaSpec => []DmaInv  OBVIOUS
  <1>1. DmaInv /\ [DmaNext]_allVars => DmaInv'  BY DmaInvInductive
  <1> QED BY <1>1, DmaInitInv, PTL DEF DmaSpec

\* The bytes of a transfer move once each and in order, all of them and less than a
\* block more (set_dma_work, start_dma, the device's remainlen).
THEOREM DmaMovedInOrder == NotFull /\ Waits => (DmaSpec => []MovedInOrder)
  <1>1. DmaInv => MovedInOrder  BY DEF DmaInv, Progress, InRegs, MovedInOrder, Over
  <1> QED BY <1>1, DmaInvariant, PTL

\* No order is left without somebody to start it, none is started twice, and nobody
\* takes an order where there is none (dma_irq, start_dma, workq_worker).
THEOREM DmaOrdersOwned == NotFull /\ Waits => (DmaSpec => []OrdersOwned)
  <1>1. DmaInv => OrdersOwned
    <2> SUFFICES ASSUME DmaInv PROVE OrdersOwned  OBVIOUS
    <2>1. Pending \in Nat /\ Pending = Waiting
      BY DEF DmaInv, WorkInv, WorkTypeOK, InOrder, Pending, Waiting
    <2>2. \A g, h \in Holders : g = h  BY <2>1 DEF DmaInv, Baton, Holders
    <2>3. orders # <<>> => Holders # {}
      <3> SUFFICES ASSUME orders # <<>> PROVE Holders # {}  OBVIOUS
      <3>1. shellpc # "prompt" => "shell" \in Holders  BY DEF Holders
      <3>2. starting \/ Pending # 0 => "worker" \in Holders  BY <2>1 DEF Holders
      <3>3. cur_state # "idle" => "device" \in Holders  BY DEF Holders
      <3>4. irq => "handler" \in Holders  BY DEF Holders
      <3> QED BY <3>1, <3>2, <3>3, <3>4 DEF DmaInv, Baton
    <2>4. shellpc = "start" \/ Waiting > 0 => orders # <<>>  BY <2>1 DEF DmaInv, Baton
    <2> QED BY <2>2, <2>3, <2>4 DEF OrdersOwned
  <1> QED BY <1>1, DmaInvariant, PTL
=============================================================================
