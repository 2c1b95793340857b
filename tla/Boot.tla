-------------------------------- MODULE Boot --------------------------------
(***************************************************************************)
(* The start of both CPUs (core/main.c) and the interrupt controller       *)
(* (arch/ca-9/gic_v1.c): which interrupt reaches which CPU, and whether    *)
(* its handler and what the handler uses have been set up.                 *)
(*                                                                         *)
(* Both CPUs enter start_kernel and secondary_start_kernel with interrupts *)
(* enabled (msr CPSR_c, #MODE_SVC in vector.S and smp-vector.S).  A CPU    *)
(* works through a sequence of steps; an interrupt is taken between two of *)
(* them.  The two halves of the read-modify-write of the target register   *)
(* ICDIPTR, which the interrupts of the DMA and of the outstream device    *)
(* share, are steps of their own.                                          *)
(***************************************************************************)
EXTENDS Naturals, Sequences

CONSTANTS Null,    \* no handler
          Early    \* may the shell use CPU 1 before that has started?

ASSUME BootAssumption == Early \in BOOLEAN

CPUS == {0, 1}

TIMER == "timer"   \* private interrupt 29 of each CPU
SGI == "sgi"       \* software generated interrupt 15
DMA == "dma"       \* shared interrupt 61
ODEV == "odev"     \* shared interrupt 62

SPIs == {DMA, ODEV}
Vectors == {TIMER, SGI} \cup SPIs

\* A null handler is no handler.
ASSUME NullAssumption == Null \notin Vectors

VARIABLES step,      \* per CPU the next step of its start
          running,   \* CPUs released from reset
          ready,     \* per CPU what has been initialised
          iface,     \* CPUs whose GIC interface forwards interrupts
          enabled,   \* per CPU the enabled private interrupts, and the SPIs
          target,    \* ICDIPTR: the CPU each SPI is forwarded to
          iptr,      \* per CPU the copy of ICDIPTR it is modifying
          handler,   \* per CPU the handler of each vector
          pending,   \* interrupts raised and not taken
          wild       \* handler calls that met something not set up

bootVars == <<step, running, ready, iface, enabled, target, iptr, handler, pending, wild>>

\* register_irq: only an SPI has a target to be set.
register_irq(v) ==
    <<<<"handler", v>>>>
    \o (IF v \in SPIs THEN <<<<"read_iptr", v>>, <<"write_iptr", v>>>> ELSE <<>>)
    \o <<<<"enable", v>>>>

\* What start_kernel does up to the interrupt of the DMA.
FirstPart ==
    <<<<"init_gic", Null>>, <<"init", "idletask">>, <<"init", "wq">>, <<"init", "rq">>,
      <<"init", "shell">>, <<"init", "timertree">>, <<"init", "oneshot_timers">>,
      <<"init", "cfs_scheduler">>, <<"init", "timer">>>>
    \o register_irq(TIMER)
    \o <<<<"init", "mailbox">>, <<"init", "csd">>, <<"init", "dma">>>>

\* Mutant: CPU 1 is started before the interrupt of the DMA is registered.
StartTooSoon ==
    FirstPart \o <<<<"start_cpu1", Null>>>> \o register_irq(DMA)
    \o <<<<"init", "qworker">>, <<"init", "timer_enable">>>>

start_kernel ==
    FirstPart \o register_irq(DMA)
    \o <<<<"init", "qworker">>, <<"start_cpu1", Null>>, <<"init", "timer_enable">>>>

\* What secondary_start_kernel does up to init_timer.
SecondaryFirstPart ==
    <<<<"init_gic_secondary", Null>>, <<"init", "idletask">>, <<"init", "wq">>,
      <<"init", "rq">>, <<"init", "timertree">>, <<"init", "oneshot_timers">>,
      <<"init", "cfs_scheduler">>, <<"init", "timer">>>>

\* Mutant: the timer is enabled before its handler is registered.
TimerTooSoon ==
    SecondaryFirstPart \o <<<<"init", "timer_enable">>>> \o register_irq(TIMER)
    \o <<<<"init", "csd">>, <<"handler", SGI>>, <<"init", "odev">>>> \o register_irq(ODEV)
    \o <<<<"init", "qworker">>>>

secondary_start_kernel ==
    SecondaryFirstPart \o register_irq(TIMER)
    \o <<<<"init", "csd">>, <<"init", "timer_enable">>, <<"handler", SGI>>,
         <<"init", "odev">>>>
    \o register_irq(ODEV)
    \o <<<<"init", "qworker">>>>

Code(c) == IF c = 0 THEN start_kernel ELSE secondary_start_kernel

Started(c) == step[c] > Len(Code(c))

\* What a handler uses: timer_irq the scheduler's structures, sgi_irq the
\* mailbox and the worker, dma_irq its device and the worker.
Needs(v) ==
    CASE v = TIMER -> {"idletask", "wq", "rq", "timertree", "cfs_scheduler"}
      [] v = SGI -> {"qworker"}
      [] v = DMA -> {"dma", "qworker"}
      [] v = ODEV -> {"odev"}

BootInit ==
    /\ step = [c \in CPUS |-> 1]
    /\ running = {0}
    /\ ready = [c \in CPUS |-> {}]
    /\ iface = {}
    /\ enabled = [private |-> [c \in CPUS |-> {}], shared |-> {}]
    /\ target = [v \in SPIs |-> 0]
    /\ iptr = [c \in CPUS |-> [v \in SPIs |-> 0]]
    /\ handler = [c \in CPUS |-> [v \in Vectors |-> Null]]
    /\ pending = {}
    /\ wild = {}

-----------------------------------------------------------------------------
(* The steps.                                                              *)

At(c, op) ==
    /\ c \in running
    /\ ~Started(c)
    /\ Code(c)[step[c]][1] = op
    /\ step' = [step EXCEPT ![c] = @ + 1]

Arg(c) == Code(c)[step[c]][2]

\* The distributor: every SPI goes to CPU 0 and is disabled; the private
\* interrupts and SGI 15 of this CPU are enabled; then its interface.
init_gic(c) ==
    /\ At(c, "init_gic")
    /\ target' = [v \in SPIs |-> 0]
    /\ enabled' = [enabled EXCEPT !.private[c] = {TIMER, SGI}, !.shared = {}]
    /\ iface' = iface \cup {c}
    /\ UNCHANGED <<running, ready, iptr, handler, pending, wild>>

init_gic_secondary(c) ==
    /\ At(c, "init_gic_secondary")
    /\ enabled' = [enabled EXCEPT !.private[c] = {TIMER, SGI}]
    /\ iface' = iface \cup {c}
    /\ UNCHANGED <<running, ready, target, iptr, handler, pending, wild>>

Initialise(c) ==
    /\ At(c, "init")
    /\ ready' = [ready EXCEPT ![c] = @ \cup {Arg(c)}]
    /\ UNCHANGED <<running, iface, enabled, target, iptr, handler, pending, wild>>

start_cpu1(c) ==
    /\ At(c, "start_cpu1")
    /\ running' = CPUS
    /\ UNCHANGED <<ready, iface, enabled, target, iptr, handler, pending, wild>>

gic_register_int_handler(c) ==
    /\ At(c, "handler")
    /\ handler' = [handler EXCEPT ![c][Arg(c)] = Arg(c)]
    /\ UNCHANGED <<running, ready, iface, enabled, target, iptr, pending, wild>>

\* gic_enable_interrupt: the target register is shared by four SPIs.
ReadTarget(c) ==
    /\ At(c, "read_iptr")
    /\ iptr' = [iptr EXCEPT ![c] = target]
    /\ UNCHANGED <<running, ready, iface, enabled, target, handler, pending, wild>>

WriteTarget(c) ==
    /\ At(c, "write_iptr")
    /\ target' = [iptr[c] EXCEPT ![Arg(c)] = c]
    /\ UNCHANGED <<running, ready, iface, enabled, iptr, handler, pending, wild>>

EnableInterrupt(c) ==
    /\ At(c, "enable")
    /\ enabled' = IF Arg(c) \in SPIs THEN [enabled EXCEPT !.shared = @ \cup {Arg(c)}]
                  ELSE [enabled EXCEPT !.private[c] = @ \cup {Arg(c)}]
    /\ UNCHANGED <<running, ready, iface, target, iptr, handler, pending, wild>>

-----------------------------------------------------------------------------
(* Interrupts.                                                             *)

\* An interrupt that is pending already stays so.
Pend(c, v) ==
    /\ <<c, v>> \notin pending
    /\ pending' = pending \cup {<<c, v>>}
    /\ UNCHANGED <<step, running, ready, iface, enabled, target, iptr, handler, wild>>

TimerFires(c) ==
    /\ "timer_enable" \in ready[c]
    /\ Pend(c, TIMER)

\* The shell runs on CPU 0 once that has been started; its user waits for
\* CPU 1 unless Early.
ShellRuns == Started(0) /\ (Early \/ Started(1))

SendSgi == ShellRuns /\ Pend(1, SGI)

DmaDone == ShellRuns /\ Pend(target[DMA], DMA)

OdevRaises == Pend(target[ODEV], ODEV)

\* gic_irq_handler calls what the table of its own CPU holds.
gic_irq_handler(c, v) ==
    /\ <<c, v>> \in pending
    /\ c \in running \cap iface
    /\ v \in enabled.private[c] \cup enabled.shared
    /\ pending' = pending \ {<<c, v>>}
    /\ wild' = IF handler[c][v] # Null /\ Needs(v) \subseteq ready[c] THEN wild
               ELSE wild \cup {<<c, v>>}
    /\ UNCHANGED <<step, running, ready, iface, enabled, target, iptr, handler>>

BootStep(c) ==
    \/ init_gic(c) \/ init_gic_secondary(c) \/ Initialise(c) \/ start_cpu1(c)
    \/ gic_register_int_handler(c) \/ ReadTarget(c) \/ WriteTarget(c)
    \/ EnableInterrupt(c)

-----------------------------------------------------------------------------
(* Properties.                                                             *)

\* No interrupt calls a null handler, or a handler whose structures are not
\* set up yet, on either CPU (gic_irq_handler against the order of
\* start_kernel and secondary_start_kernel).
NoWildCall == wild = {}

\* An enabled SPI is forwarded to the CPU that has its handler, though the two
\* CPUs rewrite one target register (gic_enable_interrupt).
RoutedHome == \A v \in enabled.shared : handler[target[v]][v] # Null

=============================================================================
