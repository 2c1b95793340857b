------------------------------- MODULE Stream -------------------------------
(***************************************************************************)
(* Both CPUs from reset to a running output stream: the start of the CPUs  *)
(* and the interrupt controller (Boot) with the outstream device and its   *)
(* driver (Odev).  The SGI of the shell's sgi command starts a driver task *)
(* on CPU 1; the device's interrupt goes through the controller.           *)
(***************************************************************************)
EXTENDS Boot, Odev

vars == <<step, running, ready, iface, enabled, target, iptr, handler, pending, wild,
          dev, drv, isr, cmd>>

Init == BootInit /\ OdevInit

Starting == (\E c \in CPUS : BootStep(c)) /\ UNCHANGED odevVars

\* A driver task is created by the first SGIs only.
SgiCommand ==
    /\ \E t \in Drivers : drv[t].pc = "off"
    /\ SendSgi
    /\ UNCHANGED odevVars

Raised ==
    /\ \/ \E c \in CPUS : TimerFires(c)
       \/ DmaDone
       \/ dev.irq /\ OdevRaises
    /\ UNCHANGED odevVars

\* The timer's and the DMA's handlers do nothing to the stream.
OtherIrq == (\E c \in CPUS, v \in {TIMER, DMA} : gic_irq_handler(c, v)) /\ UNCHANGED odevVars

SgiIrq == \E t \in Drivers : gic_irq_handler(1, SGI) /\ create_odev_task(t)

\* The line is level sensitive: a line that dropped is not taken any more.
OdevIrq ==
    \E c \in CPUS :
        /\ gic_irq_handler(c, ODEV)
        /\ IF dev.irq THEN OdevIrqEnter ELSE UNCHANGED odevVars

Streaming ==
    /\ Device \/ (\E t \in Drivers : run_odev_task(t)) \/ odev_irq \/ (ShellRuns /\ Shell)
    /\ UNCHANGED bootVars

Next == Starting \/ SgiCommand \/ Raised \/ OtherIrq \/ SgiIrq \/ OdevIrq \/ Streaming

Spec == Init /\ [][Next]_vars

\* The device's clock runs and the scheduler of CPU 1 gives its tasks turns
\* (Sched!NoStarvation); an interrupt runs to its end.
Fairness ==
    /\ WF_dev(UNCHANGED bootVars /\ Device)
    /\ \A t \in Drivers : WF_drv(UNCHANGED bootVars /\ run_odev_task(t))
    /\ WF_isr(UNCHANGED bootVars /\ odev_irq)

LiveSpec == Spec /\ Fairness

=============================================================================
