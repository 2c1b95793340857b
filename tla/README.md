# A TLA+ verification project for slos

slos is a small real-time kernel for the two Cortex-A9 cores of a Zynq-7000
board: a CFS-like scheduler with real-time and one-shot tasks, demand-paged
kernel memory, a shell, mailboxes and software interrupts between the cores, a
work queue, and drivers for two devices in the FPGA. This directory holds models
of its core, the TLC configurations that check them, and proofs of the results
that do not depend on an instance's size. `PROJECT.json` lists the components,
runs, mutants, findings, hazards and theorems and maps every definition to the
lines it models.

Run TLC with `tlc -config <run>.cfg <module>`, where the module is the run's in `PROJECT.json` (the MC
module of a component, or the module itself where its constants need no definitions); TLAPS with
`tlapm <module>`.

## 1. Inventory

| Component | State | Operations | Hard behaviour |
|---|---|---|---|
| Scheduler, run queue (`sched.c`, `runq.c`) | per CPU: tree of entities by `jiffies_vruntime`, `rb_leftmost`, `current`, task list | `enqueue_se_to_runq`, `update_se`, `schedule`, `forkyi`, `yieldyi` | keys rewritten in place; a tick between any two statements; locks taken by tasks with interrupts on and by the handler |
| Wait queue (`waitq.c`) | linked list per CPU, lock | `add_to_wq`, `remove_from_wq`, `dequeue_se_to_wq` | first node read before the lock is taken; prev pointers |
| Timer interrupt (`timer.c`) | `current`, `yield_task`, `preempted`, `done`, `missed_cnt` | `timer_irq` for tick, RT and one-shot timers; `delay` | nested preemption of RT tasks; sleeping before the wakeup is armed |
| Timer tree (`ktimer.c`) | tree of timers by `tc`, ring of 32 one-shot timers | `update_timer_tree`, `create_*_timer` | unsigned arithmetic; tree changed with interrupts on |
| Shell and tasks (`task.c`) | command line | `cfs task`, `rt task`, `oneshot task`, `sleep`, `run`, `taskstat`, `sgi`, `start dma`, `test mem` | arbitrary order of commands |
| Work queue (`task.c`) | per CPU: ring `wkq`, `enq_idx`, `deq_idx`, worker task | `enqueue_workq`, `wakeup_workq_worker`, `workq_worker` | handlers enqueue while the worker drains |
| Mailbox, SGI (`mailbox.c`, `sgi.c`) | two boxes, one lock, pending SGI per CPU | `push_mail`, `pull_mail`, `sgi_irq` | two CPUs and their handlers; interrupts that merge |
| DMA driver (`drivers/dma/dma.c`) | list of work orders; the device's registers, state and counters (VHDL) | `set_dma_work`, `start_dma`, `dma_irq` | a transfer handed from shell to device to interrupt to worker |
| Kernel memory (`frame_pool.c`, `page_table.c`, `vm_pool.c`, `mm.c`) | frame bitmap, page tables, region list, `region_size_total` | `kmalloc`, `kfree`, page fault | no locks; faults on two CPUs; out of frames; uninitialised fields |
| Red-black tree (`rbtree.c`) | nodes with parent, colour, children | link, insert, erase, replace, walks | six links rewired in an order; shapes that come up rarely |
| Outstream driver (`drivers/odev/odev.c`) | control register, the device's slave side, table, reader and buffer (VHDL), driver task on CPU 1 | `run_odev_task`, `put_to_itab`, start and stop consumer, `odev_irq` | both CPUs and an interrupt read-modify-write one register; polling |
| Boot, interrupt controller (`main.c`, `gic_v1.c`) | enabled interrupts, targets, handler tables, what is initialised | `start_kernel`, `secondary_start_kernel`, `register_irq`, `gic_irq_handler` | interrupts enabled throughout; two CPUs write one target register |
| Interrupt entry, context switch (`vector.S`, `ops.S`) | `CONTEXT_MEM` | save, restore, switch | interrupts back on before the context is reloaded |
| SLFS over the ramdisk (`fs.c`, `slfs.c`, `ramdisk_io.c`) | metadata page, block chains, swap page, open file | mount, open, seek, read, write, delete, garbage collection | allocation given up half way; inodes and blocks used again; walks past the end of a chain; boundaries |
| Loader, littlefs, per-CPU data, console, libc helpers, Cortex-A53 port | | | see `PROJECT.json` |

How they interact: the shell calls the scheduler, the mailbox, the DMA driver
and the heap. `timer_irq` interrupts all task code of its CPU and calls the run
and wait queues. On CPU 1 `sgi_irq` pulls from the mailbox, puts a function on
the work queue and the worker on the run queue; on CPU 0 `dma_irq` uses the work
queue. The heap is shared by both CPUs without a lock.

What makes each part correct: a task is in the run queue exactly while it is
runnable, a sleeper on the wait list and woken when its time is over; no queued
task starves; the CPU is only given to runnable tasks; RT jobs finish and their
misses are counted; a letter is read once, and its work is run once and in
order; a DMA transfer completes; no frame backs two pages, no two live
allocations overlap, and memory keeps its content; timers expire in order, neither
lost nor much late; the tree stays a red-black tree; no interrupt meets a handler that is not set
up; the device gets every address once and in order; a file keeps its bytes over deletions
of others, garbage collection and writes that fail half way.

## 2. Plan

Done, in this order: `Sched` (with proofs), `Mailbox` (with proofs), `WorkQueue` (with proofs),
`RemoteWork`/`Smp` (composition and refinement, with proofs), `Dma` (with proofs), `KernMem` (with proofs), `Rbtree` and
`RbtreeOps`, `KTimer` (on `Rbtree`) and what it implements, `TimerQueue` (with proofs), `Slfs` (with proofs), and `Boot`,
`Odev` and their composition `Stream` (with proofs).

Left, most important first:

1. More proofs about the file system: that `FilesWhole` survives a write, which needs the folds of `alloc_datablk` and
   `WriteFirst` as recursive functions, as `Walk` is one now.
2. `IrqContext`: the save area of `vector.S` and nested interrupts.
3. The second CPU's scheduler beside the first where they share the heap and the pid counter.
4. The loader's walk over an image and its use of the file system; the command line of the shell.

IrqContext would need two levels of nesting, the loader an image of three segments.

## 3. Modules and how they correspond to the code

**`Sched`** (MC module `MCSched`) models one CPU; queues are per CPU and tasks
never migrate. A task's program point `pc` names where in `dequeue_se_to_wq`
(`deq0`, `deqr`, `deq1`..`deq4`), `enqueue_se_to_runq` (`enq0`..`enq4`), `delay`
(`tmr`, `dyld`), `yieldyi` (`yld`) or an RT job (`work`) it is; interrupts may fall at
every point that is not in the constant `Quiet`. `SchedIrq`, `RtTimerIrq` and
`OneshotTimerIrq` are `timer_irq` for the three types of timer; each is one step because
the handler runs with interrupts masked. Which armed timer expires is left open.
The tree is its in-order walk `runq`; `Gaps` is the set of places where a descent can
end, which covers every shape of the tree (exact when the keys are sorted). The wait list
is modelled by its pointers: `first`, `next`, and `prev`, of which the code only ever
stores the list head or NULL. What a walk along it reaches is the least set closed under `next` (`Reached`); a walk that
does not reach the end goes round (`Circular`). `vrun` keeps `jiffies_vruntime`; the keys are shifted down
together (`Rebase`), by a multiple of every priority, so comparisons and roundings
stay the same. `fault` records what would bring the kernel down: `corrupt` (a node linked
twice, an unlinked one erased, a NULL leftmost followed, a write through a NULL prev), `null` (`update_se` reads
through the NULL next of the only task in the tree, `runq.c:180`),
`loop` (a walk in a circle), `hung` (the handler spins for a lock of the task it
interrupted). `Init` is the state `start_kernel` leaves: idle, shell and worker queued.
The `cfs task` command's several tasks are created by as many commands. The proofs are in `SchedProofs`, first
those about the run queue, then those about the wait list.

**`Mailbox`** (proofs in `SmpProofs`): per CPU a task level (`tpc`) and an
interrupt level (`hpc`) that suspends it. `PushAcquire`, `Deposit` and `RaiseSgi` are
`push_mail` and the write to ICDSGIR; `TakeSgi`, `PullAcquire`, `pull_mail` and `ReturnFromSgi` are
the interrupt. A pending SGI is one bit: a second one merges with it.

**`WorkQueue`** (`WorkQueueProofs`): a handler's `enqueue_workq` and
`wakeup_workq_worker` are one step (`DeferWork`); the worker's loop is `Woken`, `RunWork`,
`Retire`, `FallAsleep`, with its local copies `i` and `end`; `RunCommand` is the shell's `run` with the worker's pid.
Going to sleep is one step here; `Sched` has its parts. A wakeup of a worker that is on the run queue links its node a second time
(`tree_ok`); what the tree does then is not followed: from there on the worker may run whether it is linked or not.

**`RemoteWork`** is the abstract specification of commands to CPU 1: work asked for is
served once each and in order. **`Smp`** (`SmpProofs`) composes `Mailbox` and
`WorkQueue` through `sgi_irq`, with any number of commands on their way, and is shown to implement it with the mapping
`asked <- sent[1]`, `served <- ran` (`ServedInOrder`). `Served` says that every command is served in the end, but for two things that the code does:
a command that comes while the worker is on the run queue links it twice, and one that comes too soon after another makes `push_mail` hang.

**`Dma`** (`DmaProofs`) composes driver and device with `WorkQueue`. `set_dma_work` is the shell's part; `start_dma`, which the shell or
the worker calls, is two steps (`TakeOrder`, then `StartBit`), because the device runs from the second one on; `dma_irq` leaves the next
burst to the worker, which on CPU 0 nobody wakes but the operator with `run` (`ShellWakes`). The device is the state machine of
`genesis/ip_repo/modcore_1.0` (`M00_AXI.vhd`): it looks for the edge of the start bit while idle, reads the registers once (`Prepare`) and moves
whole blocks of 64 bytes until the remaining length is not positive (`MoveBlock`), so it may move up to a block more than was asked for.
The shell itself only ever asks for `COPROC_DAT_LEN`, which is one burst; the lengths of the model are those `set_dma_work` provides for. The control register's bits clear
themselves. `set_dma_work` writes `is_first` through a cast of `dev` and so past it (`dma.c:90`), and the field of the same name in an order is
never set, so whether `start_dma` cleans the cache is open. The device's interrupt is a pulse of one clock, which the interrupt controller is taken to latch.

**`KernMem`** (`MCKernMem`, `KernMemProofs`): contexts are tasks on CPUs, and kernel code can be preempted between any two steps.
`allocate()` is `LinkSlot`, `Advance`, `FillSlot`, `Grow` and `Return`, each of which reads `plast_region` anew as the compiled code does (the
Makefile asks for no optimisation). `release()` is `GiveBack` (the client's call), `Seek`, `Unlink`, then per page `ReadFrame`, `release_frame` and
`ClearPte` (`free_page`: the bitmap's byte is read, written back, and only then the descriptor cleared), then `Shrink`, `CheckLast` and
`Forward`. `Touch`, `ScanBitmap`, `get_frame`, `handle_fault` and `Store` are a first access to a page. The data abort
handler runs with interrupts masked (`vector.S:119-140`), so on its own CPU nobody gets between its steps (`At`);
the other CPU does. `CallsAlone` and `FreesWhole` name the two preemptions that most properties do not survive: a call of `kmalloc` or `kfree` inside
another one, and a task between the accesses of `free_page`. `inacc` stands for `inacc_baseFrameNo` and
`inacc_nFrames`, which nobody initialises: it starts as any set in `Unset`.
`kmalloc(0)` and freeing the descriptor page are left out. `held`, `wrote`, `mem`, `via` and `chain` are
history, and so are `inOrder` (no region was freed before a later one) and `enough` (no page fault found the pool empty).

**`Rbtree`** is `core/rbtree.c` as operators on a tree of `root`, `up`, `red` and `ch`, the code's mirrored
halves written once with a side `s`. The loops of insertion and erasure are recursive operators that go up
the tree with the same cases; each case names the links it rewires. **`RbtreeOps`** lets callers insert, erase and
replace in any order; its `Descend` is the one loop every caller writes. A node is its own key.

**`KTimer`** (`MCKTimer`) runs `ktimer.c` and the timer part of `timer_irq` on `Rbtree`, with tick counts modulo `WIDTH`.
`Elapse` is the private timer; the interrupt comes when `age` reaches `load`, since every write of the load register
restarts the counter. `create_oneshot_timer` and `LinkOneshot` are the two halves of a creation between which
the interrupt may come (`IrqInInsert`). `Served` is the timer that was leftmost before the update, `done` of the scheduler's
timer is open because idle's field is never set. `left` is history: what remains of a delay.

**`TimerQueue`** (`TimerQueueProofs`) is the abstract specification of the timers: a queue in the order in which they will be
served, and the load. It has no tree, no cached leftmost node, no ring and no clock: an interrupt (`Expire`) is one step, the
time since the last one is what the load register held, and a creation is one step (`Arm`). `KTimer` implements it
with `queue <- InOrder(tree.root)`, the walk through the tree (`Implements`), and `InTurn`, `NoneOverdue` and `NoneOvertaken` of
`KTimer` say the same of that walk.

**`Slfs`** (`MCSlfs`, `SlfsProofs`) is `fs.c` over `slfs.c` over the ramdisk. An operation is a run, the sequence of disks its
flash writes produce; the state machine takes the last one, the theorems about rewriting a page look at all of them. A block is `PAYLOAD` cells and its two tail words;
the metadata page is a magic flag and the inodes. The swap page is the last block, because
`SLFS_DATABLK_MAX_CNT` counts it among the data blocks (`slfs.c:88`). `truth` is history: what each file should hold.
`fs_mount` erases the chip before every mount (`fs.c:73`), the one at boot and that of every `apprun`, so a loss of power or a second mount leaves no file behind, and
recovery from a backed-up page, which `slfs_mount` has code for, never finds one. `slfs_mount` reports an error when it succeeded (`load_superblk`, `slfs.c:113`), which
its caller answers by erasing and mounting once more; the disk is usable none the less. In the tree only `create_ramdisk_fs` and `load_ramdisk_app` use
the file system; the model calls its interface in any legal order.
`delete_datablks`, `get_datablk_num`, `collect_garbage` and the update path do what the code does, also where
its comments say otherwise: the first follows offsets outside the ramdisk and frees nothing, the second
counts one block too many, because it goes on past the end of a chain to the word at address 508, the third takes a successful read for a failure. With the kernel's 32
inodes the word at 508 is in the name of inode 5 (`LASTWORD`), so what a caller's name holds past its NUL decides where that walk ends (SlfsSixth).

**`Boot`** gives each CPU the sequence of steps of `start_kernel` or `secondary_start_kernel`; both are entered with
interrupts enabled (`vector.S:95`, `smp-vector.S:89`), and an interrupt falls between any two steps. The read and the write of
`ICDIPTR` are separate. `wild` records a handler called before it, or what it uses (`Needs`), was there.

**`Odev`** has the device of `genesis/ip_repo/odev_1.0` in VHDL and its driver `odev.c`: the slave side (`S00_AXI.vhd`) state by state, `CLOSING` included; the reader, which takes
an entry out of the table in one request and fetches its 256 bytes in blocks of 64 (`BLOCKS`), numbered by the driver; the buffer (`RdBuff.vhd`), which compares each
block's number with the one that is due; the consumer, which a stop in the middle of a block leaves out of step (`slip`); the driver task with one step per register
access, `odev_irq` and the shell's commands on the other CPU. `RDBUFF_EMPTY` is tied low (`RdBuff.vhd:81`), so a buffer that runs dry raises nothing.
`Settled` says that none of the device's slave side can take a
step: the driver sleeps in `mdelay` between two puts, so the device, which has its own clock, has come to rest when
it wakes up. Nothing clears `GBL_START` (`stop_odev` comes after the driver's endless loop), so only the lost updates of StreamRace could bring the
device to `DevClose`. The data cache is off and the device reads through the ACP, so entries need no cleaning.
**`Stream`** (`StreamProofs`) composes `Boot` and `Odev`: the sgi
command starts the driver task, the device's interrupt goes through the controller.

Definitions marked `Mutant:` are plausible bugs used to show that the properties can fail.

## 4. Runs

Passing runs:

| Run | Checks | What it shows |
|---|---|---|
| SchedCfs | TypeOK, NoFault, QueuesAgree, SwitchesToRunnable | a CFS task in `mdelay()`, the worker and a one-shot task sleep and wake, with a timer interrupt allowed at every point outside the locks' sections |
| SchedOperator | NoFault, QueuesAgree, OnlyWaitersListed | the operator creates, suspends and wakes tasks, all but idle and the shell itself, in any order |
| SchedLive | LeftmostCached, NoStarvation | tasks of three priorities and an RT task: rounding and keys changed in place break neither the leftmost cache nor fairness |
| Timers | InTurn, NoneOverdue, SlotFree, NotLate, AlmostKept, Implements, NoneOvertaken | after any number of interrupts the tree is a queue in order although only the leftmost node moves, no timer is overdue or shut out by one whose task is never done, the ring never hands out an armed timer, and delays end at most a few `MIN_TIME_INT` late and a tick early |
| RbtreeOps | Linked, RedBlack, WalksSorted, ChildrenFirst | any history of insertions, erasures and replacements leaves a red-black tree whose walks visit its members |
| Mailbox | LockHeld, ExactlyOnce, NotStranded | both CPUs push at any time |
| SmpCalls | InOrder, RingHolds, ServedInOrder, Served | the whole path, the ring included, implements `RemoteWork` with several commands in flight: handlers enqueue while the worker drains on its copy of the indices, SGIs merge, pulls find the box empty; every command is served in the end unless a push hangs or the worker is linked twice |
| DmaBursts | MovedInOrder, OrdersOwned | bytes move once and in order, for transfers of up to four bursts, of whole blocks and not, and one of shell, device, interrupt and worker has the next order |
| MemHeap | FramesPrivate, FramesAccounted, RegionsDisjoint, DataKept | two tasks allocate, write and free in any order, with page faults in each other's calls, out of frames and with garbage in `inacc_`: frames and bitmap stay right; regions and data too, until a region is freed before a later one |
| Slfs | ReadBack, FilesWhole, ChainsSound | files come and go until inodes and blocks run out: what is read is what was written, through the garbage collection, the rewriting of the metadata page and writes given up half way |
| Stream | NoWildCall, RoutedHome, InSequence, PutReturns | both CPUs from reset to a running stream, with every order of steps, interrupts and commands |

A run in which the code disagrees with what the repository says (the finding in
`PROJECT.json`, with the line quoted):

| Run | Property | What happens |
|---|---|---|
| SchedDelay | DelayEnds | a tick between `delay()`'s dequeue and its timer: nothing wakes the task |

Further configurations, kept beside the runs or got from a run's by the change named. They ask narrower questions of the same
modules, and show where the assumptions of the passing runs come from. The module is the one of the
passing run on the same component (`TimerQueue` for TimerQueue):

| Configuration | Property | TLC's answer |
|---|---|---|
| SchedPingPong | CfsResumes | violated: two RT tasks become each other's `yield_task` (`timer.c:186`) and keep the CPU for ever |
| SchedMiss | MissCounted | violated: a miss is charged to the interrupted task, or to none (`timer.c:200`) |
| SchedWaitq | WaitersListed | violated: waking a task drops those that went to sleep after it from the wait list (`waitq.c:103`) |
| SchedStale | OnlyWaitersListed | violated: a stale `temp_p` puts a woken task back on the wait list (`waitq.c:99`) |
| SchedSpin | NoSpinInIrq | violated: `timer_irq` spins for a lock of the task it interrupted (`timer.c:196`) |
| TimersEarly | DelayKept | violated: the timer is armed in ticks from now, but the next interrupt takes off the whole tick that is already under way, so a delay ends up to a tick early (`timer.c:45` says that it delays the task for ticks) |
| TimersMixed | SlotFree | violated: while a long delay runs, short ones take the ring round to its timer (`ktimer.c:250`) |
| TimersRace | InTurn | violated: the interrupt rebuilds the tree between the descent and the link (`ktimer.c:247`) |
| TimerQueue | InTurn, NoneOverdue, TickKept, NoneOvertaken, OneshotsEnd | hold of the abstract queue by itself: the scheduler's timer stays armed and the load within a tick, and every one-shot timer expires, also when RT tasks and the scheduler's owner are never done |
| MailboxBlock | PushReturns | violated: `push_mail` waits for the reader with the reader's lock in hand (`mailbox.c:57`: "Blocking until the letter is read") |
| DmaStall | TransferDone | violated: a transfer of several bursts stops, since nobody wakes the worker (`dma.c:183`) |
| DmaBursts with `Waits` = FALSE | MovedInOrder, OrdersOwned | violated: a second `start dma` replaces the orders of a transfer that is under way (`dma.c:105`) |
| DmaStall with SourceInMemory | SourceInMemory | violated: nobody sets the order's `is_first`, so the cache need not be cleaned before the device reads (`dma.c:147`) |
| SchedOperator with the shell in `Targets` | NoFault | violated: with the worker and then the shell put to sleep idle is alone in the tree, and the tick reads through its NULL next (`runq.c:180`) |
| MemOrder | Apart | violated: freeing a region before a later one takes its pages off the total, and the next region overlaps the later one (`vm_pool.c:109`) |
| MemFree | FramesPrivate | violated: `free_page` gives the frame back before it clears the descriptor, and a task in between gets a frame that is still mapped (`page_table.c:121`) |
| MemRace | RegionsDisjoint | violated: two tasks inside `allocate()` fill one descriptor (`vm_pool.c:75`) |
| MemSmp | FramesPrivate | violated: faults on two CPUs map one frame twice (`frame_pool.c:101`) |
| SlfsSixth | Reopens | violated: with a sixth inode the count of a file's blocks goes on into the inode's name and may never end (`slfs.c:444`) |
| Slfs with `NBLKS` = 6 | FilesWhole | violated: a data block lands in the swap page, which the next rewriting erases (`slfs.c:88`) |
| SlfsReclaim | Reclaimed | violated: the garbage collection gives up at the first deleted file, whose read succeeded (`slfs.c:641`) |
| Slfs with `Updates` = TRUE | ReadBack | violated: an update in the middle of a block erases the rest of it (`slfs.c:1093`) |
| Stream with `Early` = TRUE | NoWildCall | violated: an SGI while CPU 1 starts finds no worker (`main.c:174`) |
| StreamRace | InSequence | violated: a command on CPU 0 between the driver's read and write of CTRL, or the other way round (`odev.c:189`); with `LiveSpec`, PutReturns fails in the same way |
| StreamStop | OnlyCommandStarts | violated: the driver's stale copy of CTRL turns the consumer on again after `odev_irq` has stopped it (`odev.c:126`) |

### Assumptions of the passing runs

Where the code can go wrong in a known way, the other properties are checked with that way
closed, and the closing is a named constant.

- `Quiet`: SchedCfs and SchedLive let no interrupt fall inside the locked sections, because
  SchedSpin shows what it does there. SchedOperator lets none fall inside a whole queue operation, because a
  shell command about a task that is half way through its own (SchedDelay, SchedStale) meets it in a state
  the command cannot see. `yieldyi()` itself says (`sched.c:240`) that it is not fully thread-safe.
- `Sleepers` of SchedLive is the worker, which nothing wakes there, and one RT task is created. Every wakeup
  rounds all keys down to the leftmost one, so a task that sleeps and wakes at every tick would undo all charges and
  starve idle; an RT and a one-shot task that interrupt each other form the `yield_task` cycle of
  SchedPingPong. NoStarvation is a statement about the tree and the keys, and is checked without those two.
- With the worker and a CFS task both asleep a stale `temp_p` can even make the wait list circular. In
  SchedCfs the last command about a CFS task creates `c1`, before the list can be circular, so nothing walks it for a
  task that is not on it; in SchedOperator queue operations are not interrupted.
- `IrqInInsert` (Timers): no interrupt inside `insert_timer` of a one-shot timer; TimersRace shows why. `Delays` are equal,
  as with the demo tasks, and longer than a tick: TimersMixed shows what other delays do to the ring, and a delay of 2, shorter
  than what the load register holds, makes `tc - elapsed` wrap (NoneOverdue with `Delays` = {2}).
- `Updates` is FALSE (Slfs): no caller in the kernel writes a file again that is not empty. `INODES` is below six, for SlfsSixth, and `NBLKS` is five:
  with six, blocks are handed out up to the swap page itself.
- `Early` is FALSE and `Overlap` is FALSE (Stream): the operator waits for CPU 1, and a command falls between two of the
  driver's puts, which sleep in `mdelay` for most of their time; `Early` = TRUE and StreamRace show the rest.
  `odev_irq` may come between any two steps of the driver, with the stop it may lose left to StreamStop.
- `Patient` is FALSE in Mailbox and SmpCalls: their invariants need no assumption. `MaxPending` stays below `MAX_WORKQ`, which the code does not check (the
  kernel's ring is larger than any number of commands in flight).
- `Waits` (DmaBursts): the operator starts a transfer when the last one is over; with FALSE a second one replaces the orders of the first.
- `CallsAlone` and `FreesWhole` (MemHeap): no call of `kmalloc` or `kfree` inside another, no task inside `free_page`; MemRace and MemFree show what comes of
  either. Page faults come at any other point. `OneCpu`: MemSmp.
- `Targets` of `sleep` and `run` leave out idle and the shell in SchedOperator: with both among them the run queue
  can become empty while everybody sleeps, and then the next interrupt follows a NULL leftmost node; with either,
  the other can be left alone in it, and the next tick reads through its NULL next (NoFault).

### Bounds

- Tasks: idle, shell, worker and one of each kind that a run is about. Two sleepers are enough
  to reorder the wait list, three priorities to make rounding differ; SchedCfs and SchedOperator are not
  about keys and use equal ones. `MaxTimers` = 1: a task in `delay()` has one timer.
- `MaxKey` stops RT and one-shot expiries that would charge a task without a tick in between; the
  scheduling tick itself is not bounded, because the keys are kept modulo `Rebase`.
- `MaxMissed` saturates the counter of misses.
- `MaxSent` 3 to 5 letters: more than the box and the pending bit hold together.
- `WIDTH` is 64 and `TICK` 3: intervals of 5 ticks are far from the width, so a wrapped count shows at once. Three one-shot
  slots and three sleepers: the ring turns. TimerQueue has `TICK` 4, two one-shot timers and an RT timer beside the scheduler's, delays of one tick and
  of one and a half, and intervals that are no multiples of either, so timers meet at the same count and pass each other.
- Eleven nodes in RbtreeOps: large enough for every case of insertion and erasure, on both sides, to come up.
- `PAYLOAD` 2 with lengths 3 and 4: a file has two blocks and ends in the middle or at the end of the second. Five blocks and four inodes for three
  names: two files fill the blocks, the third's allocation fails and is tried again after a garbage collection; deleted files use inodes up.
- `ENTRIES` 2, `BLOCKS` 2, `BUFFER` 1, `WRAP` 2: table and buffer fill up, an entry is fetched in parts with the buffer full in between, and the index
  wraps while both are.
- `MAX_WORKQ` is 3, `MaxPending` 2, `MaxPosted` and `MaxSent` 5 (SmpCalls, DmaBursts): the ring turns, and two functions wait at once.
- `MaxRegions`, `MaxPage`, `MaxSlot`, `NFrames` (MemHeap): three regions, so that one in the middle can be freed; three frames, one of them the descriptors',
  for four pages, so that the pool runs out; two tasks, so that one is in the other's call. `PAGE_SIZE` 4 with sizes 4 and 5: one page, and one byte
  more. `inacc` is empty or a frame that pages use.
- `BURST_LEN` 4 and `BLOCK` 2 with lengths 1, 4, 5, 8, 11, 16: less than, exactly, and more than whole bursts and blocks, up to four bursts, of which the last three
  need the worker to be woken again.

CHECK_DEADLOCK FALSE is used where the system may stop: bounded letters or functions
(Mailbox, SmpCalls, DmaBursts). All other passing runs check for deadlock.

### Fairness

- `Sched`: strong fairness for each task's own steps, since interrupts are at least `MIN_TIME_INT` ticks apart
  and a task that gets the CPU again and again gets on with its code; weak fairness for the tick and for
  one-shot timers; in `RtFairSpec` for RT timers too. None for the operator.
- `Mailbox`, `Smp`: weak fairness for each CPU's code. `Smp`, `Dma`: weak fairness for the worker while it is
  on the run queue, which is what NoStarvation says of CFS tasks; in `Dma` also for the shell inside a command, the device and its interrupt. None for the
  operator, who need not type another command, nor `run`.
- `TimerQueue`: weak fairness for `Expire`, because the private timer always counts down to its interrupt. None for creations.
- `Stream`: weak fairness for the device, whose clock runs, for each driver task, which CPU 1's scheduler gives turns, and
  for `odev_irq`, which runs to its end. None for the commands, the timers or the boot.

## 5. Proofs

`SchedProofs` proves, under `Careful`, `Spec => []SchedInv` and from it `TypeOK`, `QueuesAgree` and `LeftmostCached`, for any
tasks, priorities, commands and bounds, and interrupts at any other point. `Careful` is what SchedSpin, SchedDelay and SchedStale ask for:
no interrupt inside the locked sections (`LocksQuiet`); either the operator suspends and wakes no tasks, or no
interrupt falls inside a queue operation (`Apart`); he suspends and wakes CFS tasks and the worker, neither idle nor the shell; and the task
table has room for every task (`Room`), because `forkyi` gives up with NULL where it has none. SchedCfs, SchedOperator and
SchedLive satisfy it. `QueuesAgree` is not inductive, because a queue operation changes a task's state and its
node in different steps with interrupts in between. What is added says how far an operation has got and what it may
rely on (`Midway`), who can be where in its code (`Places`), that nobody else touches the task an operation is about
(`Undisturbed`), that what was not created has no state, timer or waiting `yield_task` (`Begun`), and that a task in `delay()` has at
most one timer, so that it is not put in the tree twice (`Waking`). The tree's part holds also after a fault in the wait list;
the rest only before one.

For the wait list `SchedProofs` adds the hypothesis `FirstFresh`, that no interrupt falls between the read of `temp_p` and the lock (`waitq.c:99`). That is the window of
SchedStale, in which a woken task does come back to the list: the theorems assume it away and say nothing of it. It proves `NoFault`, `OnlyWaitersListed` and the action property `SwitchesToRunnable`. `WaitInv` says that the list's
pointers are those of some sequence without duplicates (`Chain`); `ChainWalk` derives from it that a walk ends and visits just the
sequence's tasks. SchedOperator satisfies both hypotheses. SchedCfs allows interrupts in that window, so its `NoFault`
and `SwitchesToRunnable` say more about two sleepers than the theorems do, on a small instance.

`TimerQueueProofs` proves, for constants as `QueueConstants` says and under `LongEnough` (no interval or delay is shorter than a tick: the kernel asks for 10 ms or more
everywhere), `InTurn`, `NoneOverdue`, `TickKept` and the action property `NoneOvertaken`, for any number of timers, any intervals, tick and width.
`NoneOverdue` is not inductive alone: that the next load is no longer than any timer's ticks takes the order, and that
a timer armed while a load is running is not overdue at its end takes `TickKept`. That `KTimer` with its tree implements the queue is
TLC's result (`Implements`), because the tree's operators are recursive; Timers also checks the proved properties on the tree itself.

`SmpProofs` first proves of the mailboxes `MailSpec => []MailInv`, and from it `ExactlyOnce`, `NotStranded`, `LockHeld` and `MailTypeOK`,
for any set of letters, any pushers and any number of letters. `MailInv` adds to the three
properties the types and `LettersUnderWay`: without the lock's invariant a push and a pull could meet in
one box, and without the fact that no EMPTY letter is under way the histories would not stay sequences of
letters. One lemma per action; the theorem puts them together.

`KernMemProofs` proves first, without any hypothesis, `MemTypeCorrect`, for any tasks, CPUs and preemption.
Under `OneProcessor` (all contexts on one CPU) and `FreesWhole` it proves `FrameInv`, and from
it `FramesPrivate` and `FramesAccounted`, for any number of tasks, frames, pages,
sizes and regions, any initial `inacc_` fields and preemption anywhere else, in whatever order regions are freed. `FramesPrivate`
is not inductive alone: a frame that was chosen and not yet mapped must not be chosen again, nor one that `free_page` has given back and not yet unmapped.
`SectionsAlone` says that at most one context is in such a section, `SectionFacts` that the byte it read is
still the bitmap; masked interrupts and `FreesWhole` give that on one CPU. MemSmp and MemFree show that neither can be dropped.
Under `OneProcessor` and `CallsAlone` it proves `ListInv`: at every step of a call, the list is one in the order of its slots, forwards and backwards, and
`plast_region` is its end or about to be (`Links`, `LastFacts`). From it follows `DescriptorsDistinct`, whatever order regions are freed in.
`PackInv` adds, as long as `inOrder` is true, that the regions in use lie one behind the other up to `region_size_total`, with what the call under way still
has to add or subtract (`Packed`, `TotalFacts`), and that what clients hold is described by the list (`HeldFacts`). From it follows `RegionsDisjoint`; MemOrder and MemRace show
that neither `inOrder` nor `CallsAlone` can be dropped. `DataKept` needs all three hypotheses, and says of itself `inOrder` and `enough`: regions in use have
different names (`NameInv`, for the history), no page table entry names a frame that does not exist (`Backed`), and everything written lies in a region in use, so
that by `RegionsDisjoint` and `FramesPrivate` no other region's write meets it.

`WorkQueueProofs` proves, under `NotFull` (fewer functions pending than the ring has slots), `WorkSpec => []WorkInv`
and from it `InOrder`, `RingHolds` and `WorkTypeOK`, for any size of the ring, any functions and any number of them. `InOrder` is not
inductive alone: it needs `RingHolds` to know that the slot the worker comes to has the oldest function pending, and `Draining`
to know that the end it took before handlers moved `enq_idx` is not beyond what was enqueued. Each action moves an index
by at most one turn of the ring, which the lemmas `Turn...` are about.

Of the whole, `SmpProofs` builds on the proofs of the two parts: a step of `Smp` is a step of `Mailbox` or none, and a step of `WorkQueue` or none, so
both invariants hold of the whole, and `Handed` says that nothing gets lost between `pull_mail` and `enqueue_workq`. From that
follow `InOrder` and `RingHolds` of the whole, and `SmpRefines`: every step is a step of `RemoteWork` or a stutter, so
`ServedInOrder` holds for any letters and any number of commands, however many are on their way. That the worker is linked only once is no theorem: the code does not
ensure it, and neither invariant needs it.

`DmaProofs` proves, under `NotFull` and `Waits`, `MovedInOrder` and `OrdersOwned` for any lengths, burst length and block size. `BurstsCover` is about the
arithmetic of `set_dma_work`. `Baton` says which of shell, device, handler and worker has the next order, at each point of their code; `OrdersFrom`, that the orders left
are the transfer's from where the device will stop; `Progress`, that registers, device and orders together are what is left of the transfer. That a
transfer gets over is not claimed, and DmaStall refutes it.

`StreamProofs` has three inductive invariants. `BootInv` is about the start of the CPUs and needs no hypothesis. Past a
step, what it has set up is in force (`InForce`); before it, it is not (`NotBefore`); and CPU 0, which enables its shared
interrupts before it starts CPU 1, is done with the target register by then (`Targets`), so that the two CPUs' unlocked
read and write of one register never meet. From it follows `RoutedHome`. `NoWildCall` needs `Patient`, the negation of `Early`:
`WildInv` adds that the stream has not begun until both CPUs have started (`QuietBefore`), and that an interrupt is pending
only where whoever raises it has waited for what its handler uses (`RaisedInTime`).
`OdevInv` is about driver and device, for any size of table, entry, buffer and address range, under `NoOverlap` (the negation of `Overlap`) and
`OneDriver` (one task runs the driver: there is one device and one command that creates the task). `InSequence` is not
inductive, because the table is filled by a handshake of several register accesses. `Together` says which states of the
device go with each program point of the driver, and that they agree on the address that is due; `CountsUp` that buffer, reader and table
together count up to it, block by block, which survives the device's moves from one to the other and a wrap of the index; `BitsKept` that
the copies of CTRL which driver, handler and command hold all have the bits that keep device and stream on, so that a write from a stale copy
cannot reset either. A stale copy can still turn the consumer on again (StreamStop), which no part of the invariant forbids.
`StreamNeverHangs` follows: the table is never full when the device receives an address. StreamRace shows that `NoOverlap` cannot be dropped.
TLC finds `BootInv`, `WildInv` and `OdevInv` true in every state of the run Stream (`StreamProofs` with the constants of `Stream.cfg`).

`SlfsProofs` is about the functions of `Slfs`, for a flash of any size. `RewriteRecoverable` follows a rewriting of the metadata page
through its flash writes: after every one of them either the swap page has the new page and is marked as a backup, or it is not and the
metadata page is the old or the new one (`Recoverable`); no data block changes; and at the end the new page is in place.
`MountRecovers` says of `slfs_mount` that on such a disk it would end with the old or the new page, and that each of its flash writes leaves a disk that is recoverable
again. Both are lemmas about functions of the code: the running system erases the chip before it mounts, so it never meets such a disk. The pages may be anything (`Kinds`: an erased
page and an erased cell are among them, and none is `Null`).
`ReadBackFromWhole` is about reading: if the files are whole (`FilesWhole`) and the open file's record is that of its file (`Held`), then after
opening, seeking, reading or closing they still are, and `ReadBack` holds, whatever the position and the length. A read goes on from block to block
where a read of the whole file does, which is `WalkAdds`, and division by `PAYLOAD` gives block and cell (`Quotient`). `Walk` is a recursive function; what it
computes is proved from the least number for which it would fail (`Climbs`), since the induction theorems of the library cannot be used.
That writing keeps the files whole is TLC's: the run Slfs checks `FilesWhole`, and with
`INVARIANT Held` in place of `ReadBack`, in a module that extends `MCSlfs` and `SlfsProofs`, TLC finds that `Held` is true there too.

`Careful`, `FirstFresh`, `LongEnough`, `NotFull`, `Waits`, `OneProcessor`, `CallsAlone`, `FreesWhole`, `Patient`, `NoOverlap` and `OneDriver` are the
theorems' hypotheses, beside those on the disk in `SlfsProofs`. They hold in the runs that check the same properties, except `FirstFresh` in SchedCfs.
The constants' assumptions (`SchedAssumption`, `QueueConstants` through `KTimerQueueAssumption`, `MailboxAssumption`, `WorkQueueAssumption`, `SmpAssumption`, `DmaAssumption`,
`KernMemAssumption`, `BootAssumption`, `NullAssumption`, `OdevAssumption`, `SlfsAssumption`) are those of the modules and are evaluated by TLC in every run.

Model-checked only: everything about liveness and fairness, with `Served` of `Smp`; that `KTimer`
implements `TimerQueue`, and the invariants about the ring and the time that passes (`SlotFree`, `NotLate`); those of
`RbtreeOps`; and of `Slfs`, that a write, a deletion or a garbage collection keeps `FilesWhole` and `ChainsSound`.
Liveness and ENABLED are beyond TLAPS as it is used here, as is
induction over what a recursive operator or a fold computes (all of `Rbtree`, and the folds of `Slfs`).

## 6. Not modelled

The other CPU's scheduler (it is the same code on its own data), TLBs and caches, interrupt entry and context switch with
their `CONTEXT_MEM` save area, littlefs (an empty submodule), the loader, the shell's line editor, the MMU set-up,
console output and libc helpers, the unfinished Cortex-A53 port, the applications, the host tool `mkfs` and
the FPGA designs beyond the state machines of the DMA and the outstream device. Of SLFS, unmounting, iterating over files and the
rewriting of data pages are left out; of the outstream driver, `stop_odev` and `stop_odev_stream`, which come after the driver's endless loop.
`priority_sum` and the wait queue's `count` are written and never read. Idle's `done` field is never set: `KTimer` leaves its value
open, and in `Sched` nothing depends on it. `PROJECT.json` gives the reason for each component, and lists under `hazards` what
each of them could hide.
