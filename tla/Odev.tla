-------------------------------- MODULE Odev --------------------------------
(***************************************************************************)
(* The outstream device (ip_repo/odev_1.0) and its driver (odev.c).        *)
(*                                                                         *)
(* run_odev_task, a task of CPU 1, puts entries into the device's table    *)
(* (Itab); the device takes one after the other and reads what it points   *)
(* to, block by block, into a buffer (RdBuff); a consumer, started and     *)
(* stopped from the shell on CPU 0, empties that.  The device checks the   *)
(* order of the entries, of the blocks and of what it consumes: an error   *)
(* raises odev_irq, which stops the consumer.  All of them read, modify    *)
(* and write one control register, and no lock protects it: the read and   *)
(* the write are steps of their own.                                       *)
(***************************************************************************)
EXTENDS Naturals, Sequences

CONSTANTS Drivers,   \* the tasks that run run_odev_task
          ENTRIES,   \* entries of the table, Itab_entries
          BLOCKS,    \* blocks of an entry, O_STREAM_STEP / O_STREAM_BURST_SZ
          BUFFER,    \* blocks the device's buffer holds
          WRAP,      \* O_STREAM_WRAP
          Overlap    \* may a shell command overlap the driver's accesses?

ASSUME OdevAssumption ==
    /\ {ENTRIES, BLOCKS, BUFFER, WRAP} \subseteq Nat \ {0}
    /\ Overlap \in BOOLEAN

GBL_START == "gbl"
INTR_DONE == "intr"
IN_TRANS == "in_trans"
OSTREAM_START == "ostream"
CONSUMER_START == "consumer"

VARIABLES dev,   \* the device: its registers, slave_state, table, reader, buffer, interrupt
          drv,   \* per driver task: where it is, its index i and its copy of CTRL
          isr,   \* odev_irq on CPU 1
          cmd    \* the command of the shell on CPU 0

odevVars == <<dev, drv, isr, cmd>>

OdevInit ==
    /\ dev = [ctrl |-> {}, full |-> FALSE, done |-> FALSE, addr |-> 0, seq |-> 0,
              errs |-> {}, state |-> "IDLE", itab |-> <<>>, cur |-> 0, part |-> BLOCKS,
              due |-> <<0, 0>>, buf |-> 0, slip |-> FALSE, irq |-> FALSE]
    /\ drv = [t \in Drivers |-> [pc |-> "off", i |-> 0, ctrl |-> {}]]
    /\ isr = [pc |-> "none", ctrl |-> {}]
    /\ cmd = [pc |-> "none", ctrl |-> {}]

-----------------------------------------------------------------------------
(* The device.                                                             *)

\* What a write to CTRL can leave.  INTR_DONE clears itself.  Without OSTREAM_START
\* the reader and the buffer are reset.  Without CONSUMER_START the consumer forgets
\* its error; a consumer stopped while it takes a block out of the buffer loses the
\* words on their way and is out of step.  The interrupt stays up only while both
\* the stream and the consumer are on.
Written(v) ==
    LET stream == OSTREAM_START \in v
        slips == dev.slip \/ (dev.buf > 0 /\ CONSUMER_START \in dev.ctrl \ v)
    IN  {[dev EXCEPT !.ctrl = v \ {INTR_DONE},
                     !.part = IF stream THEN @ ELSE BLOCKS,
                     !.cur = IF stream THEN @ ELSE 0,
                     !.due = IF stream THEN @ ELSE <<0, 0>>,
                     !.buf = IF stream THEN @ ELSE 0,
                     !.errs = (IF stream THEN @ ELSE @ \ {"buffer", "consumer"})
                              \ (IF CONSUMER_START \in v THEN {} ELSE {"consumer"}),
                     !.slip = stream /\ slip,
                     !.irq = @ /\ {OSTREAM_START, CONSUMER_START} \subseteq v /\ INTR_DONE \notin v] :
            slip \in {dev.slip, slips}}

On == GBL_START \in dev.ctrl

\* IDLE and WARMINGUP.
DevStart ==
    /\ dev.state = "IDLE" /\ On
    /\ dev' = [dev EXCEPT !.state = "RECEIVING", !.seq = 0, !.done = FALSE,
                          !.errs = @ \ {"slave"}]

\* RECEIVING: an address out of sequence is noted, the first address starts the
\* sequence again.  A full table takes nothing and the device waits for ever.
DevLatch ==
    /\ dev.state = "RECEIVING" /\ On /\ IN_TRANS \in dev.ctrl
    /\ dev' = [dev EXCEPT
                 !.seq = IF dev.addr = @ THEN @ + 1 ELSE IF dev.addr = 0 THEN 1 ELSE @,
                 !.errs = @ \cup (IF dev.addr \in {dev.seq, 0} THEN {} ELSE {"slave"}),
                 !.done = FALSE,
                 !.state = IF Len(dev.itab) < ENTRIES THEN "WRITING" ELSE "HUNG",
                 !.itab = IF Len(dev.itab) < ENTRIES THEN Append(@, dev.addr) ELSE @]

DevWritten ==
    /\ dev.state = "WRITING" /\ On
    /\ dev' = [dev EXCEPT !.done = TRUE, !.state = "DONE_WRITING"]

\* Until the table has been looked at, the device says that it is full.
DevReleased ==
    /\ dev.state = "DONE_WRITING" /\ On /\ IN_TRANS \notin dev.ctrl
    /\ dev' = [dev EXCEPT !.full = TRUE, !.state = "FULL_CHK_1"]

\* FULL_CHK_1 does not look at GBL_START.
DevCheckFull ==
    /\ dev.state = "FULL_CHK_1" \/ (dev.state = "FULL" /\ On /\ Len(dev.itab) < ENTRIES)
    /\ dev' = [dev EXCEPT !.full = Len(dev.itab) = ENTRIES, !.done = FALSE,
                          !.state = IF Len(dev.itab) = ENTRIES THEN "FULL" ELSE "RECEIVING"]

\* Without GBL_START the table is emptied, and in CLOSING the status is cleared.
DevClose ==
    \/ /\ dev.state \in {"RECEIVING", "WRITING", "HUNG", "DONE_WRITING", "FULL"} /\ ~On
       /\ dev' = [dev EXCEPT !.state = "CLOSING", !.itab = <<>>]
    \/ /\ dev.state = "CLOSING"
       /\ dev' = [dev EXCEPT !.state = "IDLE", !.full = FALSE, !.done = FALSE]

DevSlave == DevStart \/ DevLatch \/ DevWritten \/ DevReleased \/ DevCheckFull \/ DevClose

\* None of these can be taken: the device waits for the driver or the consumer.
Settled ==
    \/ dev.state = "IDLE" /\ ~On
    \/ dev.state = "RECEIVING" /\ On /\ IN_TRANS \notin dev.ctrl
    \/ dev.state = "DONE_WRITING" /\ On /\ IN_TRANS \in dev.ctrl
    \/ dev.state = "FULL" /\ On /\ Len(dev.itab) >= ENTRIES
    \/ dev.state = "HUNG" /\ On

\* ITAB_READ: the next entry leaves the table.
DevTake ==
    /\ OSTREAM_START \in dev.ctrl
    /\ dev.part = BLOCKS /\ dev.buf < BUFFER /\ dev.itab # <<>>
    /\ dev' = [dev EXCEPT !.cur = Head(dev.itab), !.part = 0, !.itab = Tail(@)]

\* MEM_READ: one block of the entry goes into the buffer, which counts the blocks
\* (entry and part of it) and compares; then, while the buffer is full, it waits.
DevFetch ==
    /\ OSTREAM_START \in dev.ctrl
    /\ dev.part < BLOCKS /\ dev.buf < BUFFER
    /\ dev' = [dev EXCEPT
                 !.part = @ + 1,
                 !.cur = IF dev.part + 1 < BLOCKS THEN @ ELSE 0,
                 !.buf = @ + 1,
                 !.due = IF @[2] + 1 < BLOCKS THEN <<@[1], @[2] + 1>> ELSE <<(@[1] + 1) % WRAP, 0>>,
                 !.errs = @ \cup (IF dev.due = <<dev.cur, dev.part>> THEN {} ELSE {"buffer"})]

\* A consumer out of step takes another word for the number of the block.
DevConsume ==
    /\ CONSUMER_START \in dev.ctrl /\ dev.buf > 0
    /\ \E wrong \in {FALSE, dev.slip} :
          dev' = [dev EXCEPT !.buf = @ - 1, !.errs = @ \cup (IF wrong THEN {"consumer"} ELSE {})]

\* RDBUFF_EMPTY is tied low: a buffer that runs dry raises nothing.
DevInterrupt ==
    /\ {OSTREAM_START, CONSUMER_START} \subseteq dev.ctrl
    /\ dev.errs # {}
    /\ ~dev.irq
    /\ dev' = [dev EXCEPT !.irq = TRUE]

Device ==
    /\ DevSlave \/ DevTake \/ DevFetch \/ DevConsume \/ DevInterrupt
    /\ UNCHANGED <<drv, isr, cmd>>

-----------------------------------------------------------------------------
(* The driver task on CPU 1.                                               *)

\* Driver t goes from one line to another and needs its copy of CTRL no more; the
\* interrupt has CPU 1 while it runs.
Go(t, from, to) ==
    /\ drv[t].pc = from
    /\ isr.pc = "none"
    /\ drv' = [drv EXCEPT ![t].pc = to, ![t].ctrl = {}]
    /\ UNCHANGED <<isr, cmd>>

ReadCtrl(t, from, to) ==
    /\ drv[t].pc = from
    /\ isr.pc = "none"
    /\ drv' = [drv EXCEPT ![t].pc = to, ![t].ctrl = dev.ctrl]
    /\ UNCHANGED <<dev, isr, cmd>>

Asleep == {"off", "sleep", "sleep_full"}

\* create_odev_task from the work queue of CPU 1.
create_odev_task(t) ==
    /\ drv[t].pc = "off"
    /\ drv' = [drv EXCEPT ![t].pc = "created"]
    /\ UNCHANGED <<dev, isr, cmd>>

start_odev(t) ==
    \/ (Overlap \/ cmd.pc = "none") /\ ReadCtrl(t, "created", "start")
    \/ Go(t, "start", "started") /\ dev' \in Written(drv[t].ctrl \cup {GBL_START})

start_odev_stream(t) ==
    \/ ReadCtrl(t, "started", "stream")
    \/ Go(t, "stream", "put") /\ dev' \in Written(drv[t].ctrl \cup {OSTREAM_START})

\* Mutant: the address is written whether the table is full or not.
PutUnchecked(t) ==
    \/ Go(t, "put", "addr") /\ UNCHANGED dev
    \/ Go(t, "addr", "set_read") /\ dev' = [dev EXCEPT !.addr = drv[t].i]

\* The status is read before the address is written.
PutBegin(t) ==
    \/ dev.full /\ Go(t, "put", "sleep_full") /\ UNCHANGED dev
    \/ ~dev.full /\ Go(t, "put", "addr") /\ UNCHANGED dev
    \/ Go(t, "addr", "set_read") /\ dev' = [dev EXCEPT !.addr = drv[t].i]

PutSet(t) ==
    \/ ReadCtrl(t, "set_read", "set")
    \/ Go(t, "set", "poll") /\ dev' \in Written(drv[t].ctrl \cup {IN_TRANS})

\* The loop on STATUS and CTRL; a device that was stopped ends it.
PutPoll(t) ==
    \/ dev.done /\ Go(t, "poll", "clear_read") /\ UNCHANGED dev
    \/ ~dev.done /\ Go(t, "poll", "poll_ctrl") /\ UNCHANGED dev
    \/ Go(t, "poll_ctrl", IF GBL_START \in dev.ctrl THEN "poll" ELSE "sleep") /\ UNCHANGED dev

\* Mutant: IN_TRANS is left set.
PutNotCleared(t) ==
    \/ ReadCtrl(t, "clear_read", "clear")
    \/ Go(t, "clear", "sleep") /\ UNCHANGED dev

PutClear(t) ==
    \/ ReadCtrl(t, "clear_read", "clear")
    \/ Go(t, "clear", "sleep") /\ dev' \in Written(drv[t].ctrl \ {IN_TRANS})

put_to_itab(t) == PutBegin(t) \/ PutSet(t) \/ PutPoll(t) \/ PutClear(t)

\* mdelay outlasts the few clocks the device needs to settle.
WakeUp(t) ==
    /\ isr.pc = "none"
    /\ Overlap \/ cmd.pc = "none"
    /\ Settled
    /\ \/ /\ drv[t].pc = "sleep"
          /\ drv' = [drv EXCEPT ![t].pc = "put", ![t].i = (@ + 1) % WRAP]
       \/ /\ drv[t].pc = "sleep_full"
          /\ drv' = [drv EXCEPT ![t].pc = "put"]
    /\ UNCHANGED <<dev, isr, cmd>>

run_odev_task(t) == start_odev(t) \/ start_odev_stream(t) \/ put_to_itab(t) \/ WakeUp(t)

-----------------------------------------------------------------------------
(* The interrupt on CPU 1, and the shell on CPU 0.                         *)

\* odev_irq is entered from gic_irq_handler: stop_consumer, then INTR_DONE.  The
\* status that stop_consumer reads is only printed.
OdevIrqEnter ==
    /\ isr.pc = "none"
    /\ isr' = [isr EXCEPT !.pc = "stop_read"]
    /\ UNCHANGED <<dev, drv, cmd>>

odev_irq ==
    /\ \/ /\ isr.pc \in {"stop_read", "done_read"}
          /\ isr' = [pc |-> IF isr.pc = "stop_read" THEN "stop" ELSE "done", ctrl |-> dev.ctrl]
          /\ UNCHANGED dev
       \/ /\ isr.pc = "stop"
          /\ isr' = [isr EXCEPT !.pc = "done_read"]
          /\ dev' \in Written(isr.ctrl \ {CONSUMER_START})
       \/ /\ isr.pc = "done"
          /\ isr' = [pc |-> "none", ctrl |-> {}]
          /\ dev' \in Written(isr.ctrl \cup {INTR_DONE})
    /\ UNCHANGED <<drv, cmd>>

CommandRead ==
    /\ cmd.pc = "none"
    /\ Overlap \/ \A t \in Drivers : drv[t].pc \in Asleep \cup {"created"}
    /\ \E c \in {"start", "stop"} : cmd' = [pc |-> c, ctrl |-> dev.ctrl]
    /\ UNCHANGED <<dev, drv, isr>>

start_consumer ==
    /\ cmd.pc = "start"
    /\ cmd' = [pc |-> "none", ctrl |-> {}]
    /\ dev' \in Written(cmd.ctrl \cup {CONSUMER_START})
    /\ UNCHANGED <<drv, isr>>

stop_consumer ==
    /\ cmd.pc = "stop"
    /\ cmd' = [pc |-> "none", ctrl |-> {}]
    /\ dev' \in Written(cmd.ctrl \ {CONSUMER_START})
    /\ UNCHANGED <<drv, isr>>

Shell == CommandRead \/ start_consumer \/ stop_consumer

-----------------------------------------------------------------------------
(* Properties.                                                             *)

\* The device takes every address once and in order, also when the index wraps and
\* when the table is full in between, reads every block of it once and in order,
\* and a driver about to put has the address that is due (run_odev_task, put_to_itab).
InSequence ==
    /\ dev.errs \subseteq {"consumer"}
    /\ \A t \in Drivers : drv[t].pc = "put" => drv[t].i = dev.seq % WRAP

\* Every loop of put_to_itab on the status register comes to an end.
PutReturns == \A t \in Drivers : drv[t].pc = "poll" ~> drv[t].pc \notin {"poll", "poll_ctrl"}

\* Nothing but the command of the shell starts the consumer (start_consumer).
\* The interrupt that stops it may come between the driver's read and write of
\* CTRL, and then it does not hold.
OnlyCommandStarts == [][(CONSUMER_START \in dev'.ctrl \ dev.ctrl) => cmd.pc = "start"]_dev

=============================================================================
