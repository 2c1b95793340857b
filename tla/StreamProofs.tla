---------------------------- MODULE StreamProofs ----------------------------
(***************************************************************************)
(* From reset to a running stream, for any table, buffer and wrap of the   *)
(* index: no interrupt reaches a CPU before what its handler needs is set  *)
(* up, an enabled interrupt goes to the CPU that has its handler, and the  *)
(* device takes the addresses in sequence.                                 *)
(***************************************************************************)
EXTENDS Stream, SequenceTheorems, TLAPS

\* The hypotheses: the shell's user waits for CPU 1, no command falls between the
\* driver's accesses to the control register, and one task runs the driver.
Patient == ~Early
NoOverlap == ~Overlap
OneDriver == \E t : Drivers = {t}

-----------------------------------------------------------------------------
(* The start of the CPUs.                                                    *)

\* What the start initialises.
Structures == {"idletask", "wq", "rq", "shell", "timertree", "oneshot_timers", "cfs_scheduler",
               "timer", "mailbox", "csd", "dma", "odev", "qworker", "timer_enable"}

\* The CPU that registers a shared interrupt.
Owner(v) == IF v = DMA THEN 0 ELSE 1

\* CPU c has taken the step op about x.
Past(c, op, x) ==
  \E k \in 1..(step[c] - 1) : Code(c)[k][1] = op /\ Code(c)[k][2] = x

\* Types of the start, the interrupts and their routing.
BootTypeOK ==
  /\ step \in [CPUS -> Nat] /\ step[0] \in 1..22 /\ step[1] \in 1..20
  /\ running \in SUBSET CPUS
  /\ ready \in [CPUS -> SUBSET Structures]
  /\ handler \in [CPUS -> [Vectors -> Vectors \cup {Null}]]
  /\ enabled \in [private : [CPUS -> SUBSET Vectors], shared : SUBSET SPIs]
  /\ target \in [SPIs -> CPUS]
  /\ iptr \in [CPUS -> [SPIs -> CPUS]]

\* What has been set up stays so.
InForce ==
  \A c \in CPUS : \A k \in 1..(step[c] - 1) :
    /\ Code(c)[k][1] = "init" => Code(c)[k][2] \in ready[c]
    /\ Code(c)[k][1] = "handler" => handler[c][Code(c)[k][2]] # Null

\* Nothing comes before its turn.
NotBefore ==
  /\ \A c \in CPUS : "timer_enable" \in ready[c] => Past(c, "init", "timer_enable")
  /\ \A v \in enabled.shared : Past(Owner(v), "enable", v)
  /\ 1 \in running => Past(0, "start_cpu1", Null)
  /\ step[1] > 1 => 1 \in running

\* CPU 0 is done with the target register when CPU 1 starts.
Targets ==
  /\ target[DMA] = 0
  /\ \A c \in CPUS : iptr[c][DMA] = 0
  /\ Past(1, "write_iptr", ODEV) => target[ODEV] = 1

BootInv == BootTypeOK /\ InForce /\ NotBefore /\ Targets

\* start_kernel, step by step.
LEMMA StartKernelIs ==
  /\ Len(Code(0)) = 21
  /\ Code(0)[1] = <<"init_gic", Null>> /\ Code(0)[2] = <<"init", "idletask">>
  /\ Code(0)[3] = <<"init", "wq">> /\ Code(0)[4] = <<"init", "rq">>
  /\ Code(0)[5] = <<"init", "shell">> /\ Code(0)[6] = <<"init", "timertree">>
  /\ Code(0)[7] = <<"init", "oneshot_timers">> /\ Code(0)[8] = <<"init", "cfs_scheduler">>
  /\ Code(0)[9] = <<"init", "timer">> /\ Code(0)[10] = <<"handler", TIMER>>
  /\ Code(0)[11] = <<"enable", TIMER>> /\ Code(0)[12] = <<"init", "mailbox">>
  /\ Code(0)[13] = <<"init", "csd">> /\ Code(0)[14] = <<"init", "dma">>
  /\ Code(0)[15] = <<"handler", DMA>> /\ Code(0)[16] = <<"read_iptr", DMA>>
  /\ Code(0)[17] = <<"write_iptr", DMA>> /\ Code(0)[18] = <<"enable", DMA>>
  /\ Code(0)[19] = <<"init", "qworker">> /\ Code(0)[20] = <<"start_cpu1", Null>>
  /\ Code(0)[21] = <<"init", "timer_enable">>
  BY DEF Code, start_kernel, FirstPart, register_irq, SPIs, TIMER, DMA, ODEV

\* secondary_start_kernel, step by step.
LEMMA SecondaryIs ==
  /\ Len(Code(1)) = 19
  /\ Code(1)[1] = <<"init_gic_secondary", Null>> /\ Code(1)[2] = <<"init", "idletask">>
  /\ Code(1)[3] = <<"init", "wq">> /\ Code(1)[4] = <<"init", "rq">>
  /\ Code(1)[5] = <<"init", "timertree">> /\ Code(1)[6] = <<"init", "oneshot_timers">>
  /\ Code(1)[7] = <<"init", "cfs_scheduler">> /\ Code(1)[8] = <<"init", "timer">>
  /\ Code(1)[9] = <<"handler", TIMER>> /\ Code(1)[10] = <<"enable", TIMER>>
  /\ Code(1)[11] = <<"init", "csd">> /\ Code(1)[12] = <<"init", "timer_enable">>
  /\ Code(1)[13] = <<"handler", SGI>> /\ Code(1)[14] = <<"init", "odev">>
  /\ Code(1)[15] = <<"handler", ODEV>> /\ Code(1)[16] = <<"read_iptr", ODEV>>
  /\ Code(1)[17] = <<"write_iptr", ODEV>> /\ Code(1)[18] = <<"enable", ODEV>>
  /\ Code(1)[19] = <<"init", "qworker">>
  BY DEF Code, secondary_start_kernel, SecondaryFirstPart, register_irq, SPIs, TIMER, DMA, ODEV

\* How many steps there are.
LEMMA Lengths == (Started(0) <=> step[0] > 21) /\ (Started(1) <=> step[1] > 19)
  <1>1. Len(Code(0)) = 21 /\ Len(Code(1)) = 19  BY StartKernelIs, SecondaryIs
  <1> QED BY <1>1 DEF Started

\* What the steps of CPU 0 are about.
LEMMA StepsOf0 ==
  ASSUME NEW k \in 1..21
  PROVE  /\ Code(0)[k][1] = "init" => Code(0)[k][2] \in Structures
         /\ Code(0)[k][1] = "handler" => Code(0)[k][2] \in {TIMER, DMA}
         /\ Code(0)[k][1] \in {"read_iptr", "write_iptr"} => Code(0)[k][2] = DMA
         /\ Code(0)[k][1] = "enable" => Code(0)[k][2] \in {TIMER, DMA}
         /\ Code(0)[k][1] = "start_cpu1" => k = 20 /\ Code(0)[k][2] = Null
         /\ Code(0)[k][1] = "init_gic" => k = 1
         /\ k > 20 => Code(0)[k][1] = "init"
         /\ Code(0)[k][1] = "enable" /\ Code(0)[k][2] = DMA => k = 18
         /\ Code(0)[k][1] = "init" /\ Code(0)[k][2] = "timer_enable" => k = 21
  BY StartKernelIs DEF Structures, TIMER, DMA

\* What the steps of CPU 1 are about.
LEMMA StepsOf1 ==
  ASSUME NEW k \in 1..19
  PROVE  /\ Code(1)[k][1] = "init" => Code(1)[k][2] \in Structures
         /\ Code(1)[k][1] = "handler" => Code(1)[k][2] \in {TIMER, SGI, ODEV}
         /\ Code(1)[k][1] \in {"read_iptr", "write_iptr"} => Code(1)[k][2] = ODEV
         /\ Code(1)[k][1] = "enable" => Code(1)[k][2] \in {TIMER, ODEV}
         /\ Code(1)[k][1] \notin {"start_cpu1", "init_gic"}
         /\ Code(1)[k][1] = "enable" /\ Code(1)[k][2] = ODEV => k = 18
         /\ Code(1)[k][1] = "init" /\ Code(1)[k][2] = "timer_enable" => k = 12
  BY SecondaryIs DEF Structures, TIMER, ODEV

\* When CPU 1 has been started, only initialisations are left for CPU 0.
LEMMA StartedLate ==
  ASSUME BootTypeOK, Past(0, "start_cpu1", Null)
  PROVE  step[0] > 20 /\ (~Started(0) => Code(0)[step[0]][1] = "init")
  <1>1. step[0] \in 1..22  BY DEF BootTypeOK
  <1>2. PICK k \in 1..(step[0] - 1) : Code(0)[k][1] = "start_cpu1"  BY DEF Past
  <1>3. k = 20  BY <1>1, <1>2, StepsOf0
  <1> QED BY <1>1, <1>3, StepsOf0, Lengths

\* What a step of the start does to the record of the steps taken.
LEMMA StepTaken ==
  ASSUME BootTypeOK, NEW c \in CPUS, NEW op, At(c, op)
  PROVE  /\ step[c] \in IF c = 0 THEN 1..21 ELSE 1..19
         /\ c \in running /\ Code(c)[step[c]][1] = op
         /\ step' \in [CPUS -> Nat] /\ step'[0] \in 1..22 /\ step'[1] \in 1..20
         /\ step'[c] = step[c] + 1 /\ \A d \in CPUS \ {c} : step'[d] = step[d]
  <1>1. step[0] \in 1..22 /\ step[1] \in 1..20 /\ step \in [CPUS -> Nat]  BY DEF BootTypeOK
  <1>2. step' = [step EXCEPT ![c] = @ + 1] /\ c \in running /\ Code(c)[step[c]][1] = op /\ ~Started(c)
    BY DEF At
  <1>3. CASE c = 0  BY <1>1, <1>2, <1>3, Lengths DEF CPUS
  <1>4. CASE c = 1  BY <1>1, <1>2, <1>4, Lengths DEF CPUS
  <1> QED BY <1>3, <1>4 DEF CPUS

\* The steps taken are those and this one.
LEMMA PastGrows ==
  ASSUME BootTypeOK, NEW c \in CPUS, NEW op, At(c, op)
  PROVE  \A d \in CPUS : \A o, x :
           Past(d, o, x)' <=> Past(d, o, x) \/ (d = c /\ o = op /\ x = Arg(c))
  <1>1. step \in [CPUS -> Nat]  BY DEF BootTypeOK
  <1>2. \A d \in CPUS : step[d] \in Nat  BY <1>1
  <1>3. step[c] >= 1  BY StepTaken DEF CPUS
  <1> QED BY <1>2, <1>3, StepTaken DEF Past, Arg

\* What a step is about.
LEMMA ArgIs ==
  ASSUME BootTypeOK, NEW c \in CPUS, NEW op, At(c, op)
  PROVE  /\ op = "init" => Arg(c) \in Structures
         /\ op = "handler" => Arg(c) \in Vectors
         /\ op \in {"read_iptr", "write_iptr"} => Arg(c) = IF c = 0 THEN DMA ELSE ODEV
         /\ op = "enable" => Arg(c) \in {TIMER, IF c = 0 THEN DMA ELSE ODEV}
         /\ op = "start_cpu1" => c = 0 /\ Arg(c) = Null
         /\ op = "init_gic" => c = 0 /\ step[c] = 1
  <1>1. Code(c)[step[c]][1] = op /\ step[c] \in IF c = 0 THEN 1..21 ELSE 1..19  BY StepTaken
  <1>2. CASE c = 0  BY <1>1, <1>2, StepsOf0 DEF Arg, Vectors, SPIs
  <1>3. CASE c = 1  BY <1>1, <1>3, StepsOf1 DEF Arg, Vectors, SPIs
  <1> QED BY <1>2, <1>3 DEF CPUS

-----------------------------------------------------------------------------
(* The steps of the start keep the invariant.                                *)

\* Types.
LEMMA BootStepTypes ==
  ASSUME BootTypeOK, NEW c \in CPUS, BootStep(c)
  PROVE  BootTypeOK'
  <1> USE DEF BootTypeOK
  <1>1. CASE init_gic(c)  BY <1>1, StepTaken DEF init_gic, CPUS, SPIs, Vectors
  <1>2. CASE init_gic_secondary(c)
    BY <1>2, StepTaken DEF init_gic_secondary, Vectors
  <1>3. CASE Initialise(c)  BY <1>3, StepTaken, ArgIs DEF Initialise
  <1>4. CASE start_cpu1(c)  BY <1>4, StepTaken DEF start_cpu1
  <1>5. CASE gic_register_int_handler(c)
    BY <1>5, StepTaken, ArgIs DEF gic_register_int_handler
  <1>6. CASE ReadTarget(c)  BY <1>6, StepTaken DEF ReadTarget
  <1>7. CASE WriteTarget(c)  BY <1>7, StepTaken, ArgIs DEF WriteTarget, SPIs
  <1>8. CASE EnableInterrupt(c)
    BY <1>8, StepTaken, ArgIs DEF EnableInterrupt, SPIs, Vectors
  <1> QED BY <1>1, <1>2, <1>3, <1>4, <1>5, <1>6, <1>7, <1>8 DEF BootStep

\* A step puts into force what it does, and nothing that was is undone.
LEMMA BootStepInForce ==
  ASSUME BootTypeOK, InForce, NEW c \in CPUS, BootStep(c)
  PROVE  InForce'
  <1> SUFFICES ASSUME NEW d \in CPUS, NEW k \in 1..(step'[d] - 1)
               PROVE  /\ Code(d)[k][1] = "init" => Code(d)[k][2] \in ready'[d]
                      /\ Code(d)[k][1] = "handler" => handler'[d][Code(d)[k][2]] # Null
    BY DEF InForce, Code
  <1> DEFINE Held == /\ \A x : x \in ready[d] => x \in ready'[d]
                     /\ \A v : handler[d][v] # Null => handler'[d][v] # Null
             New(op) == /\ op = "init" => (c = d => Arg(c) \in ready'[c])
                        /\ op = "handler" => (c = d => handler'[c][Arg(c)] # Null)
  <1>1. ASSUME NEW op, At(c, op), Held, New(op)
        PROVE  /\ Code(d)[k][1] = "init" => Code(d)[k][2] \in ready'[d]
               /\ Code(d)[k][1] = "handler" => handler'[d][Code(d)[k][2]] # Null
    <2>1. step[d] \in Nat /\ step[c] \in Nat /\ k \in Nat  BY DEF BootTypeOK
    <2>2. CASE k \in 1..(step[d] - 1)  BY <1>1, <2>2 DEF InForce
    <2>3. CASE d = c /\ k = step[c]  BY <1>1, <2>3, StepTaken DEF Arg
    <2> QED BY <1>1, <2>1, <2>2, <2>3, StepTaken
  <1> HIDE DEF Held, New
  <1>2. ASSUME NEW op, At(c, op), UNCHANGED <<ready, handler>>, op \notin {"init", "handler"}
        PROVE  /\ Code(d)[k][1] = "init" => Code(d)[k][2] \in ready'[d]
               /\ Code(d)[k][1] = "handler" => handler'[d][Code(d)[k][2]] # Null
    BY <1>1, <1>2 DEF Held, New
  <1>3. CASE Initialise(c)
    <2>1. Held /\ New("init")  BY <1>3, ArgIs DEF Held, New, Initialise, BootTypeOK
    <2> QED BY <1>1, <1>3, <2>1 DEF Initialise
  <1>4. CASE gic_register_int_handler(c)
    <2>1. Arg(c) \in Vectors /\ Arg(c) # Null
      BY <1>4, ArgIs, NullAssumption DEF gic_register_int_handler
    <2>2. Held /\ New("handler")
      BY <1>4, <2>1 DEF Held, New, gic_register_int_handler, BootTypeOK
    <2> QED BY <1>1, <1>4, <2>2 DEF gic_register_int_handler
  <1>5. CASE init_gic(c)  BY <1>2, <1>5 DEF init_gic
  <1>6. CASE init_gic_secondary(c)  BY <1>2, <1>6 DEF init_gic_secondary
  <1>7. CASE start_cpu1(c)  BY <1>2, <1>7 DEF start_cpu1
  <1>8. CASE ReadTarget(c)  BY <1>2, <1>8 DEF ReadTarget
  <1>9. CASE WriteTarget(c)  BY <1>2, <1>9 DEF WriteTarget
  <1>10. CASE EnableInterrupt(c)  BY <1>2, <1>10 DEF EnableInterrupt
  <1> QED BY <1>3, <1>4, <1>5, <1>6, <1>7, <1>8, <1>9, <1>10 DEF BootStep

\* Nothing comes into force before its step is taken.
LEMMA BootStepNotBefore ==
  ASSUME BootTypeOK, NotBefore, NEW c \in CPUS, BootStep(c)
  PROVE  NotBefore'
  <1> DEFINE Own(op) ==
               /\ \A d \in CPUS : "timer_enable" \in ready'[d] =>
                    "timer_enable" \in ready[d] \/ (d = c /\ op = "init" /\ Arg(c) = "timer_enable")
               /\ \A v \in enabled'.shared :
                    v \in enabled.shared \/ (c = Owner(v) /\ op = "enable" /\ Arg(c) = v)
               /\ 1 \in running' => 1 \in running \/ (c = 0 /\ op = "start_cpu1" /\ Arg(c) = Null)
               /\ 1 \in running => 1 \in running'
  <1>1. ASSUME NEW op, At(c, op), Own(op)
        PROVE  NotBefore'
    <2>1. \A d \in CPUS : \A o, x :
            Past(d, o, x)' <=> Past(d, o, x) \/ (d = c /\ o = op /\ x = Arg(c))
      BY <1>1, PastGrows
    <2>2. ASSUME NEW d \in CPUS, "timer_enable" \in ready'[d]
          PROVE  Past(d, "init", "timer_enable")'
      BY <1>1, <2>1, <2>2 DEF NotBefore
    <2>3. ASSUME NEW v \in enabled'.shared PROVE Past(Owner(v), "enable", v)'
      BY <1>1, <2>1, <2>3 DEF NotBefore, Owner, CPUS
    <2>4. 1 \in running' => Past(0, "start_cpu1", Null)'
      BY <1>1, <2>1 DEF NotBefore, CPUS
    <2>5. step'[1] > 1 => 1 \in running'
      BY <1>1, StepTaken DEF NotBefore, CPUS
    <2> QED BY <2>2, <2>3, <2>4, <2>5 DEF NotBefore, Owner
  <1> HIDE DEF Own
  <1>2. ASSUME NEW op, At(c, op), UNCHANGED <<ready, enabled, running>>
        PROVE  NotBefore'
    BY <1>1, <1>2 DEF Own
  <1>3. CASE init_gic(c)
    <2>1. Own("init_gic")  BY <1>3 DEF Own, init_gic, BootTypeOK
    <2> QED BY <1>1, <1>3, <2>1 DEF init_gic
  <1>4. CASE init_gic_secondary(c)
    <2>1. Own("init_gic_secondary")  BY <1>4 DEF Own, init_gic_secondary, BootTypeOK
    <2> QED BY <1>1, <1>4, <2>1 DEF init_gic_secondary
  <1>5. CASE Initialise(c)
    <2>1. Own("init")  BY <1>5 DEF Own, Initialise, BootTypeOK
    <2> QED BY <1>1, <1>5, <2>1 DEF Initialise
  <1>6. CASE start_cpu1(c)
    <2>1. c = 0 /\ Arg(c) = Null  BY <1>6, ArgIs DEF start_cpu1
    <2>2. Own("start_cpu1")  BY <1>6, <2>1 DEF Own, start_cpu1, BootTypeOK, CPUS
    <2> QED BY <1>1, <1>6, <2>2 DEF start_cpu1
  <1>7. CASE EnableInterrupt(c)
    <2>1. Arg(c) \in {TIMER, IF c = 0 THEN DMA ELSE ODEV}  BY <1>7, ArgIs DEF EnableInterrupt
    <2>2. Arg(c) \in SPIs => c = Owner(Arg(c))
      BY <2>1 DEF Owner, SPIs, CPUS, TIMER, DMA, ODEV
    <2>3. Own("enable")
      <3>1. UNCHANGED <<ready, running>>  BY <1>7 DEF EnableInterrupt
      <3>2. enabled'.shared \subseteq enabled.shared \cup (IF Arg(c) \in SPIs THEN {Arg(c)} ELSE {})
        BY <1>7 DEF EnableInterrupt, BootTypeOK
      <3> QED BY <2>2, <3>1, <3>2 DEF Own
    <2> QED BY <1>1, <1>7, <2>3 DEF EnableInterrupt
  <1>8. CASE gic_register_int_handler(c)  BY <1>2, <1>8 DEF gic_register_int_handler
  <1>9. CASE ReadTarget(c)  BY <1>2, <1>9 DEF ReadTarget
  <1>10. CASE WriteTarget(c)  BY <1>2, <1>10 DEF WriteTarget
  <1> QED BY <1>3, <1>4, <1>5, <1>6, <1>7, <1>8, <1>9, <1>10 DEF BootStep

\* Only CPU 1 writes the target register once it has started.
LEMMA BootStepTargets ==
  ASSUME BootInv, NEW c \in CPUS, BootStep(c)
  PROVE  Targets'
  <1> USE DEF BootInv
  <1>1. 1 \in CPUS /\ 0 \in CPUS /\ DMA \in SPIs /\ ODEV \in SPIs /\ DMA # ODEV
    BY DEF CPUS, SPIs, DMA, ODEV
  <1>2. \A d \in CPUS : \A o, x : Past(d, o, x) => 1 <= step[d] - 1
    BY DEF Past, BootTypeOK
  <1>3. Past(1, "write_iptr", ODEV) => Past(0, "start_cpu1", Null)
    BY <1>1, <1>2 DEF NotBefore, BootTypeOK
  <1>4. ASSUME NEW op, At(c, op), Past(1, "write_iptr", ODEV), op # "init"
        PROVE  c = 1
    BY <1>3, <1>4, StartedLate, StepTaken DEF At, CPUS
  <1>5. ASSUME NEW op, At(c, op), op # "write_iptr"
        PROVE  Past(1, "write_iptr", ODEV)' => Past(1, "write_iptr", ODEV)
    BY <1>1, <1>5, PastGrows
  <1>6. ASSUME NEW op, At(c, op), op # "write_iptr", UNCHANGED <<target, iptr>>
        PROVE  Targets'
    BY <1>5, <1>6 DEF Targets
  <1>7. CASE init_gic(c)
    <2>1. c # 1  BY <1>1, <1>7, ArgIs DEF init_gic
    <2>2. ~Past(1, "write_iptr", ODEV)'  BY <1>4, <1>5, <1>7, <2>1 DEF init_gic
    <2> QED BY <1>1, <1>7, <2>2 DEF Targets, init_gic
  <1>8. CASE ReadTarget(c)
    <2>1. Past(1, "write_iptr", ODEV)' => Past(1, "write_iptr", ODEV)
      BY <1>5, <1>8 DEF ReadTarget
    <2> QED BY <1>8, <2>1 DEF Targets, ReadTarget, BootTypeOK
  <1>9. CASE WriteTarget(c)
    <2>1. Arg(c) = IF c = 0 THEN DMA ELSE ODEV  BY <1>9, ArgIs DEF WriteTarget
    <2>2. target' = [iptr[c] EXCEPT ![Arg(c)] = c] /\ iptr' = iptr /\ At(c, "write_iptr")
      BY <1>9 DEF WriteTarget
    <2>3. iptr[c] \in [SPIs -> CPUS]  BY DEF BootTypeOK
    <2>4. target'[DMA] = 0 /\ \A d \in CPUS : iptr'[d][DMA] = 0
      BY <1>1, <2>1, <2>2, <2>3 DEF Targets, CPUS
    <2>5. CASE c = 0
      <3>1. ~Past(1, "write_iptr", ODEV)  BY <1>4, <2>2, <2>5
      <3>2. ~Past(1, "write_iptr", ODEV)'  BY <1>1, <2>2, <2>5, <3>1, PastGrows
      <3> QED BY <2>4, <3>2 DEF Targets
    <2>6. CASE c = 1
      <3>1. target'[ODEV] = 1  BY <1>1, <2>1, <2>2, <2>3, <2>6
      <3> QED BY <2>4, <3>1 DEF Targets
    <2> QED BY <2>5, <2>6 DEF CPUS
  <1>10. CASE init_gic_secondary(c)  BY <1>6, <1>10 DEF init_gic_secondary
  <1>11. CASE Initialise(c)  BY <1>6, <1>11 DEF Initialise
  <1>12. CASE start_cpu1(c)  BY <1>6, <1>12 DEF start_cpu1
  <1>13. CASE gic_register_int_handler(c)  BY <1>6, <1>13 DEF gic_register_int_handler
  <1>14. CASE EnableInterrupt(c)  BY <1>6, <1>14 DEF EnableInterrupt
  <1> QED BY <1>7, <1>8, <1>9, <1>10, <1>11, <1>12, <1>13, <1>14 DEF BootStep

-----------------------------------------------------------------------------
(* Every enabled shared interrupt goes to the CPU that has its handler.      *)

\* What is set up at reset.
LEMMA BootInitInv ==
  BootInit => BootInv
  <1> SUFFICES ASSUME BootInit PROVE BootInv  OBVIOUS
  <1>1. step = [c \in CPUS |-> 1] /\ step[0] = 1 /\ step[1] = 1  BY DEF BootInit, CPUS
  <1>2. \A c \in CPUS : \A o, x : ~Past(c, o, x)  BY <1>1 DEF Past
  <1>3. BootTypeOK  BY <1>1 DEF BootTypeOK, BootInit, CPUS
  <1>4. InForce  BY <1>1 DEF InForce
  <1>5. NotBefore
    BY <1>1 DEF NotBefore, BootInit, CPUS
  <1>6. Targets  BY <1>2 DEF Targets, BootInit, CPUS, SPIs
  <1> QED BY <1>3, <1>4, <1>5, <1>6 DEF BootInv

\* The start of the CPUs keeps the invariant.
LEMMA BootStepInv ==
  ASSUME BootInv, NEW c \in CPUS, BootStep(c)
  PROVE  BootInv'
  BY BootStepTypes, BootStepInForce, BootStepNotBefore, BootStepTargets DEF BootInv

\* What the start of the CPUs is about.
bootCore == <<step, running, ready, enabled, target, iptr, handler>>

\* It changes in the steps of start_kernel and secondary_start_kernel only.
LEMMA OnlyBootSteps ==
  ASSUME [Next]_vars
  PROVE  (\E c \in CPUS : BootStep(c)) \/ UNCHANGED bootCore
  <1> USE DEF bootCore
  <1>1. CASE Starting  BY <1>1 DEF Starting
  <1>2. CASE SgiCommand  BY <1>2 DEF SgiCommand, SendSgi, Pend
  <1>3. CASE Raised  BY <1>3 DEF Raised, TimerFires, DmaDone, OdevRaises, Pend
  <1>4. CASE OtherIrq  BY <1>4 DEF OtherIrq, gic_irq_handler
  <1>5. CASE SgiIrq  BY <1>5 DEF SgiIrq, gic_irq_handler
  <1>6. CASE OdevIrq  BY <1>6 DEF OdevIrq, gic_irq_handler
  <1>7. CASE Streaming  BY <1>7 DEF Streaming, bootVars
  <1>8. CASE UNCHANGED vars  BY <1>8 DEF vars
  <1> QED BY <1>1, <1>2, <1>3, <1>4, <1>5, <1>6, <1>7, <1>8 DEF Next

\* Any other step (an interrupt taken, the stream) leaves the invariant of the start alone.
LEMMA BootCoreKeeps ==
  ASSUME BootInv, UNCHANGED bootCore
  PROVE  BootInv'
  <1> USE DEF bootCore, BootInv
  <1>1. BootTypeOK'  BY DEF BootTypeOK
  <1>2. InForce'  BY DEF InForce, Code
  <1>3. \A c, o, x : Past(c, o, x)' <=> Past(c, o, x)  BY DEF Past, Code
  <1>4. NotBefore'  BY <1>3 DEF NotBefore, Owner
  <1>5. Targets'  BY <1>3 DEF Targets
  <1> QED BY <1>1, <1>2, <1>4, <1>5

\* The invariant of the start: what has been set up is in force, nothing is in force
\* before its turn, and CPU 0 is done with the target register when CPU 1 starts.
THEOREM BootInvariant == Spec => []BootInv
  <1>1. Init => BootInv  BY BootInitInv DEF Init
  <1>2. BootInv /\ [Next]_vars => BootInv'
    <2> SUFFICES ASSUME BootInv, [Next]_vars PROVE BootInv'  OBVIOUS
    <2>1. CASE \E c \in CPUS : BootStep(c)  BY <2>1, BootStepInv
    <2>2. CASE UNCHANGED bootCore  BY <2>2, BootCoreKeeps
    <2> QED BY <2>1, <2>2, OnlyBootSteps
  <1> QED BY <1>1, <1>2, PTL DEF Spec

\* A step that was taken comes after the steps before it in the code.
LEMMA TakenBefore ==
  ASSUME BootInv
  PROVE  /\ Past(0, "enable", DMA) => handler[0][DMA] # Null
         /\ Past(1, "enable", ODEV) => handler[1][ODEV] # Null /\ Past(1, "write_iptr", ODEV)
  <1>1. step[0] \in 1..22 /\ step[1] \in 1..20  BY DEF BootInv, BootTypeOK
  <1>2. ASSUME Past(0, "enable", DMA) PROVE handler[0][DMA] # Null
    <2>1. PICK k \in 1..(step[0] - 1) : Code(0)[k][1] = "enable" /\ Code(0)[k][2] = DMA
      BY <1>2 DEF Past
    <2>2. k = 18  BY <1>1, <2>1, StepsOf0
    <2>3. 15 \in 1..(step[0] - 1)  BY <1>1, <2>2
    <2> QED BY <2>3, StartKernelIs DEF BootInv, InForce, CPUS
  <1>3. ASSUME Past(1, "enable", ODEV)
        PROVE  handler[1][ODEV] # Null /\ Past(1, "write_iptr", ODEV)
    <2>1. PICK k \in 1..(step[1] - 1) : Code(1)[k][1] = "enable" /\ Code(1)[k][2] = ODEV
      BY <1>3 DEF Past
    <2>2. k = 18  BY <1>1, <2>1, StepsOf1
    <2>3. 15 \in 1..(step[1] - 1) /\ 17 \in 1..(step[1] - 1)  BY <1>1, <2>2
    <2> QED BY <2>3, SecondaryIs DEF BootInv, InForce, CPUS, Past
  <1> QED BY <1>2, <1>3

\* An enabled SPI is forwarded to the CPU that has its handler, though the two
\* CPUs rewrite one target register (gic_enable_interrupt).
THEOREM StreamRoutedHome == Spec => []RoutedHome
  <1>1. BootInv => RoutedHome
    <2> SUFFICES ASSUME BootInv, NEW v \in enabled.shared PROVE handler[target[v]][v] # Null
      BY DEF RoutedHome
    <2>1. v \in {DMA, ODEV}  BY DEF BootInv, BootTypeOK, SPIs
    <2>2. Past(Owner(v), "enable", v)  BY DEF BootInv, NotBefore
    <2>3. CASE v = DMA  BY <2>2, <2>3, TakenBefore DEF Owner, BootInv, Targets
    <2>4. CASE v = ODEV
      BY <2>2, <2>4, TakenBefore DEF Owner, BootInv, Targets, DMA, ODEV
    <2> QED BY <2>1, <2>3, <2>4
  <1> QED BY <1>1, BootInvariant, PTL

-----------------------------------------------------------------------------
(* Types of the outstream device and its driver.                             *)

\* The control register's bits and the states of the device's slave state machine.
Bits == {GBL_START, INTR_DONE, IN_TRANS, OSTREAM_START, CONSUMER_START}
SlaveStates == {"IDLE", "RECEIVING", "WRITING", "DONE_WRITING", "FULL_CHK_1", "FULL", "HUNG",
                "CLOSING"}

\* The driver's program points: before the device is started, before its stream is,
\* while IN_TRANS is set, and all of them.
Unstarted == {"off", "created", "start"}
Opening == Unstarted \cup {"started", "stream"}
Sent == {"poll", "poll_ctrl", "clear_read", "clear"}
DriverPcs == Opening \cup {"put", "addr", "set_read", "set"} \cup Sent \cup {"sleep", "sleep_full"}

\* The checks that can fail: of the slave side, of the buffer and of the consumer.
Checks == {"slave", "buffer", "consumer"}

\* What the device keeps: registers, table, reader, buffer, interrupt line.
DevType ==
  [ctrl : SUBSET Bits, full : BOOLEAN, done : BOOLEAN, addr : Nat, seq : Nat,
   errs : SUBSET Checks, state : SlaveStates, itab : Seq(Nat), cur : Nat, part : 0..BLOCKS,
   due : Nat \X Nat, buf : Nat, slip : BOOLEAN, irq : BOOLEAN]

\* Types of device, driver, handler and shell command.
OdevTypeOK ==
  /\ dev \in DevType
  /\ drv \in [Drivers -> [pc : DriverPcs, i : Nat, ctrl : SUBSET Bits]]
  /\ isr \in [pc : {"none", "stop_read", "stop", "done_read", "done"}, ctrl : SUBSET Bits]
  /\ cmd \in [pc : {"none", "start", "stop"}, ctrl : SUBSET Bits]

\* What a write to the control register leaves, field by field.
LEMMA WrittenIs ==
  ASSUME dev \in DevType, NEW v \in SUBSET Bits, NEW w \in Written(v)
  PROVE  /\ w \in DevType
         /\ w.ctrl = v \ {INTR_DONE} /\ w.full = dev.full /\ w.done = dev.done
         /\ w.addr = dev.addr /\ w.seq = dev.seq /\ w.state = dev.state /\ w.itab = dev.itab
         /\ w.errs \subseteq dev.errs
         /\ w.cur = IF OSTREAM_START \in v THEN dev.cur ELSE 0
         /\ w.part = IF OSTREAM_START \in v THEN dev.part ELSE BLOCKS
         /\ w.due = IF OSTREAM_START \in v THEN dev.due ELSE <<0, 0>>
         /\ w.buf = IF OSTREAM_START \in v THEN dev.buf ELSE 0
  <1> DEFINE stream == OSTREAM_START \in v
             ctrl == v \ {INTR_DONE}
             cur == IF stream THEN dev.cur ELSE 0
             part == IF stream THEN dev.part ELSE BLOCKS
             due == IF stream THEN dev.due ELSE <<0, 0>>
             buf == IF stream THEN dev.buf ELSE 0
             errs == (IF stream THEN dev.errs ELSE dev.errs \ {"buffer", "consumer"})
                     \ (IF CONSUMER_START \in v THEN {} ELSE {"consumer"})
             irq == dev.irq /\ {OSTREAM_START, CONSUMER_START} \subseteq v /\ INTR_DONE \notin v
             After(x) == [dev EXCEPT !.ctrl = ctrl, !.part = part, !.cur = cur, !.due = due,
                                     !.buf = buf, !.errs = errs, !.slip = x, !.irq = irq]
  <1>1. PICK x : w = After(stream /\ x)  BY DEF Written
  <1>2. /\ ctrl \in SUBSET Bits /\ cur \in Nat /\ part \in 0..BLOCKS /\ due \in Nat \X Nat
        /\ buf \in Nat /\ errs \in SUBSET Checks /\ errs \subseteq dev.errs
        /\ irq \in BOOLEAN /\ (stream /\ x) \in BOOLEAN
    BY OdevAssumption DEF DevType
  <1> DEFINE slip == stream /\ x
  <1>3. w = After(slip) /\ slip \in BOOLEAN  BY <1>1, <1>2
  <1> HIDE DEF ctrl, errs, irq, slip
  <1>4. /\ w.ctrl = ctrl /\ w.full = dev.full /\ w.done = dev.done
        /\ w.addr = dev.addr /\ w.seq = dev.seq /\ w.state = dev.state /\ w.itab = dev.itab
        /\ w.errs = errs /\ w.cur = cur /\ w.part = part /\ w.due = due /\ w.buf = buf
    BY <1>3 DEF DevType
  <1> HIDE DEF cur, part, due, buf, stream
  <1>5. w \in DevType  BY <1>2, <1>3 DEF DevType
  <1> USE DEF cur, part, due, buf, stream
  <1> QED BY <1>2, <1>4, <1>5 DEF ctrl

\* Types of what is written to the control register.
LEMMA WrittenType ==
  ASSUME dev \in DevType, NEW v \in SUBSET Bits
  PROVE  Written(v) \subseteq DevType
  BY WrittenIs

\* The steps of the device.
LEMMA DeviceTypes ==
  ASSUME dev \in DevType, DevSlave \/ DevTake \/ DevFetch \/ DevConsume \/ DevInterrupt
  PROVE  dev' \in DevType
  <1> USE DEF DevType
  <1>1. /\ dev.itab \in Seq(Nat) /\ dev.buf \in Nat /\ dev.addr \in Nat /\ dev.seq \in Nat
        /\ Len(dev.itab) \in Nat /\ dev.errs \in SUBSET Checks /\ BLOCKS \in Nat \ {0}
        /\ WRAP \in Nat \ {0} /\ dev.due[1] \in Nat /\ dev.due[2] \in Nat /\ dev.part \in 0..BLOCKS
    BY OdevAssumption
  <1>2. CASE DevStart  BY <1>2 DEF DevStart, SlaveStates
  <1>3. CASE DevLatch
    <2>1. Append(dev.itab, dev.addr) \in Seq(Nat)  BY <1>1
    <2>2. dev.seq + 1 \in Nat  BY <1>1
    <2> DEFINE seq == IF dev.addr = dev.seq THEN dev.seq + 1 ELSE IF dev.addr = 0 THEN 1 ELSE dev.seq
               errs == dev.errs \cup (IF dev.addr \in {dev.seq, 0} THEN {} ELSE {"slave"})
               state == IF Len(dev.itab) < ENTRIES THEN "WRITING" ELSE "HUNG"
               itab == IF Len(dev.itab) < ENTRIES THEN Append(dev.itab, dev.addr) ELSE dev.itab
    <2>3. seq \in Nat  BY <1>1, <2>2
    <2>4. errs \in SUBSET Checks  BY <1>1 DEF Checks
    <2>5. state \in SlaveStates  BY DEF SlaveStates
    <2>6. itab \in Seq(Nat)  BY <1>1, <2>1
    <2>7. dev' = [dev EXCEPT !.seq = seq, !.errs = errs, !.done = FALSE, !.state = state, !.itab = itab]
      BY <1>3, Zenon DEF DevLatch
    <2> HIDE DEF seq, errs, state, itab
    <2> QED BY <2>3, <2>4, <2>5, <2>6, <2>7
  <1>4. CASE DevWritten  BY <1>4 DEF DevWritten, SlaveStates
  <1>5. CASE DevReleased  BY <1>5 DEF DevReleased, SlaveStates
  <1>6. CASE DevCheckFull  BY <1>6 DEF DevCheckFull, SlaveStates
  <1>7. CASE DevClose
    <2>1. <<>> \in Seq(Nat) /\ {"CLOSING", "IDLE"} \subseteq SlaveStates  BY DEF SlaveStates
    <2>2. CASE dev' = [dev EXCEPT !.state = "CLOSING", !.itab = <<>>]  BY <2>1, <2>2
    <2>3. CASE dev' = [dev EXCEPT !.state = "IDLE", !.full = FALSE, !.done = FALSE]  BY <2>1, <2>3
    <2> QED BY <1>7, <2>2, <2>3 DEF DevClose
  <1>8. CASE DevTake
    <2>1. Tail(dev.itab) \in Seq(Nat) /\ Head(dev.itab) \in Nat  BY <1>1, <1>8 DEF DevTake
    <2>2. 0 \in 0..BLOCKS  BY <1>1
    <2> QED BY <1>8, <2>1, <2>2 DEF DevTake
  <1>9. CASE DevFetch
    <2> DEFINE cur == IF dev.part + 1 < BLOCKS THEN dev.cur ELSE 0
               due == IF dev.due[2] + 1 < BLOCKS THEN <<dev.due[1], dev.due[2] + 1>>
                      ELSE <<(dev.due[1] + 1) % WRAP, 0>>
               errs == dev.errs \cup (IF dev.due = <<dev.cur, dev.part>> THEN {} ELSE {"buffer"})
    <2>1. dev.part + 1 \in 0..BLOCKS /\ dev.buf + 1 \in Nat
      <3>1. dev.part < BLOCKS /\ dev.part \in 0..BLOCKS /\ dev.buf \in Nat
        BY <1>1, <1>9 DEF DevFetch
      <3>2. BLOCKS \in Nat  BY OdevAssumption
      <3> QED BY <3>1, <3>2
    <2>2. cur \in Nat  OBVIOUS
    <2>3. errs \in SUBSET Checks  BY <1>1 DEF Checks
    <2>4. due \in Nat \X Nat
      <3>1. \A n \in Nat : n + 1 \in Nat /\ (n + 1) % WRAP \in Nat  BY <1>1
      <3>2. dev.due[2] + 1 \in Nat /\ (dev.due[1] + 1) % WRAP \in Nat  BY <1>1, <3>1
      <3> QED BY <1>1, <3>2
    <2>5. dev' = [dev EXCEPT !.part = dev.part + 1, !.cur = cur, !.buf = dev.buf + 1, !.due = due,
                             !.errs = errs]
      BY <1>9, Zenon DEF DevFetch
    <2> HIDE DEF cur, due, errs
    <2> QED BY <2>1, <2>2, <2>3, <2>4, <2>5
  <1>10. CASE DevConsume
    <2>1. dev.buf - 1 \in Nat  BY <1>1, <1>10 DEF DevConsume
    <2>2. \A wrong : dev.errs \cup (IF wrong THEN {"consumer"} ELSE {}) \in SUBSET Checks
      BY <1>1 DEF Checks
    <2>3. PICK wrong : dev' = [dev EXCEPT !.buf = dev.buf - 1,
                                 !.errs = dev.errs \cup (IF wrong THEN {"consumer"} ELSE {})]
      BY <1>10, Zenon DEF DevConsume
    <2> DEFINE errs == dev.errs \cup (IF wrong THEN {"consumer"} ELSE {})
    <2>4. errs \in SUBSET Checks /\ dev' = [dev EXCEPT !.buf = dev.buf - 1, !.errs = errs]
      BY <2>2, <2>3
    <2> HIDE DEF errs
    <2> QED BY <2>1, <2>4
  <1>11. CASE DevInterrupt  BY <1>11 DEF DevInterrupt
  <1> QED BY <1>2, <1>3, <1>4, <1>5, <1>6, <1>7, <1>8, <1>9, <1>10, <1>11 DEF DevSlave

\* The steps of the driver; the interrupt has CPU 1 while it runs.
LEMMA DriverTypes ==
  ASSUME OdevTypeOK, NEW t \in Drivers, run_odev_task(t)
  PROVE  OdevTypeOK' /\ isr.pc = "none" /\ UNCHANGED <<isr, cmd>>
  <1>1. WRAP \in Nat \ {0} /\ drv[t].i \in Nat /\ (drv[t].i + 1) % WRAP \in Nat
    BY OdevAssumption DEF OdevTypeOK
  <1>2. dev.ctrl \in SUBSET Bits /\ drv[t].ctrl \in SUBSET Bits  BY DEF OdevTypeOK, DevType
  <1>3. \A f : \A p \in DriverPcs : Go(t, f, p) =>
          /\ drv' \in [Drivers -> [pc : DriverPcs, i : Nat, ctrl : SUBSET Bits]]
          /\ isr.pc = "none" /\ UNCHANGED <<isr, cmd>>
    <2> SUFFICES ASSUME NEW f, NEW p \in DriverPcs, Go(t, f, p)
                 PROVE  /\ drv' \in [Drivers -> [pc : DriverPcs, i : Nat, ctrl : SUBSET Bits]]
                        /\ isr.pc = "none" /\ UNCHANGED <<isr, cmd>>
      OBVIOUS
    <2>1. drv' = [drv EXCEPT ![t] = [drv[t] EXCEPT !.pc = p, !.ctrl = {}]]  BY DEF Go, OdevTypeOK
    <2>2. [drv[t] EXCEPT !.pc = p, !.ctrl = {}] \in [pc : DriverPcs, i : Nat, ctrl : SUBSET Bits]
      BY DEF OdevTypeOK
    <2>3. drv' \in [Drivers -> [pc : DriverPcs, i : Nat, ctrl : SUBSET Bits]]
      BY <2>1, <2>2 DEF OdevTypeOK
    <2> QED BY <2>3 DEF Go
  <1>4. \A f : \A p \in DriverPcs : ReadCtrl(t, f, p) =>
          /\ drv' \in [Drivers -> [pc : DriverPcs, i : Nat, ctrl : SUBSET Bits]]
          /\ isr.pc = "none" /\ UNCHANGED <<isr, cmd>> /\ dev' \in DevType
    <2> SUFFICES ASSUME NEW f, NEW p \in DriverPcs, ReadCtrl(t, f, p)
                 PROVE  /\ drv' \in [Drivers -> [pc : DriverPcs, i : Nat, ctrl : SUBSET Bits]]
                        /\ isr.pc = "none" /\ UNCHANGED <<isr, cmd>> /\ dev' \in DevType
      OBVIOUS
    <2>1. drv' = [drv EXCEPT ![t] = [drv[t] EXCEPT !.pc = p, !.ctrl = dev.ctrl]]
      BY DEF ReadCtrl, OdevTypeOK
    <2>2. [drv[t] EXCEPT !.pc = p, !.ctrl = dev.ctrl] \in [pc : DriverPcs, i : Nat, ctrl : SUBSET Bits]
      BY <1>2 DEF OdevTypeOK
    <2>3. drv' \in [Drivers -> [pc : DriverPcs, i : Nat, ctrl : SUBSET Bits]]
      BY <2>1, <2>2 DEF OdevTypeOK
    <2>4. isr.pc = "none" /\ UNCHANGED <<dev, isr, cmd>>  BY DEF ReadCtrl
    <2> QED BY <2>3, <2>4 DEF OdevTypeOK
  <1>5. \A f : \A p \in DriverPcs : (Go(t, f, p) /\ dev' \in DevType) \/ ReadCtrl(t, f, p) =>
          OdevTypeOK' /\ isr.pc = "none" /\ UNCHANGED <<isr, cmd>>
    BY <1>3, <1>4 DEF OdevTypeOK
  <1> USE DEF DriverPcs, Opening, Unstarted, Sent
  <1>6. CASE start_odev(t)
    <2>1. Written(drv[t].ctrl \cup {GBL_START}) \subseteq DevType
      BY <1>2, WrittenType DEF OdevTypeOK, Bits
    <2> QED BY <1>5, <1>6, <2>1 DEF start_odev
  <1>7. CASE start_odev_stream(t)
    <2>1. Written(drv[t].ctrl \cup {OSTREAM_START}) \subseteq DevType
      BY <1>2, WrittenType DEF OdevTypeOK, Bits
    <2> QED BY <1>5, <1>7, <2>1 DEF start_odev_stream
  <1>8. CASE PutBegin(t)
    <2>1. [dev EXCEPT !.addr = drv[t].i] \in DevType  BY <1>1 DEF OdevTypeOK, DevType
    <2>2. dev \in DevType  BY DEF OdevTypeOK
    <2> QED BY <1>5, <1>8, <2>1, <2>2 DEF PutBegin
  <1>9. CASE PutSet(t)
    <2>1. Written(drv[t].ctrl \cup {IN_TRANS}) \subseteq DevType
      BY <1>2, WrittenType DEF OdevTypeOK, Bits
    <2> QED BY <1>5, <1>9, <2>1 DEF PutSet
  <1>10. CASE PutPoll(t)
    <2>1. dev \in DevType  BY DEF OdevTypeOK
    <2> QED BY <1>5, <1>10, <2>1 DEF PutPoll
  <1>11. CASE PutClear(t)
    <2>1. Written(drv[t].ctrl \ {IN_TRANS}) \subseteq DevType
      BY <1>2, WrittenType DEF OdevTypeOK, Bits
    <2> QED BY <1>5, <1>11, <2>1 DEF PutClear
  <1>12. CASE WakeUp(t)  BY <1>1, <1>12 DEF OdevTypeOK, WakeUp
  <1> QED BY <1>6, <1>7, <1>8, <1>9, <1>10, <1>11, <1>12 DEF run_odev_task, put_to_itab

\* The steps of the interrupt handler.
LEMMA IrqTypes ==
  ASSUME OdevTypeOK, odev_irq
  PROVE  OdevTypeOK' /\ isr.pc # "none"
  <1>1. dev.ctrl \in SUBSET Bits /\ isr.ctrl \in SUBSET Bits  BY DEF OdevTypeOK, DevType
  <1>2. /\ Written(isr.ctrl \ {CONSUMER_START}) \subseteq DevType
        /\ Written(isr.ctrl \cup {INTR_DONE}) \subseteq DevType
    BY <1>1, WrittenType DEF OdevTypeOK, Bits
  <1>3. dev' \in DevType  BY <1>2 DEF OdevTypeOK, odev_irq
  <1>4. isr' \in [pc : {"none", "stop_read", "stop", "done_read", "done"}, ctrl : SUBSET Bits]
    <2>1. CASE isr.pc \in {"stop_read", "done_read"}  BY <1>1, <2>1 DEF OdevTypeOK, odev_irq
    <2>2. CASE isr.pc = "stop"  BY <1>1, <2>2 DEF OdevTypeOK, odev_irq
    <2>3. CASE isr.pc = "done"  BY <1>1, <2>3 DEF OdevTypeOK, odev_irq
    <2> QED BY <2>1, <2>2, <2>3 DEF odev_irq
  <1> QED BY <1>3, <1>4 DEF OdevTypeOK, odev_irq

\* The commands of the shell.
LEMMA ShellTypes ==
  ASSUME OdevTypeOK, Shell
  PROVE  OdevTypeOK'
  <1>1. dev.ctrl \in SUBSET Bits /\ cmd.ctrl \in SUBSET Bits  BY DEF OdevTypeOK, DevType
  <1>2. /\ Written(cmd.ctrl \ {CONSUMER_START}) \subseteq DevType
        /\ Written(cmd.ctrl \cup {CONSUMER_START}) \subseteq DevType
    BY <1>1, WrittenType DEF OdevTypeOK, Bits
  <1>3. CASE CommandRead  BY <1>1, <1>3 DEF OdevTypeOK, CommandRead
  <1>4. CASE start_consumer  BY <1>1, <1>2, <1>4 DEF OdevTypeOK, start_consumer
  <1>5. CASE stop_consumer  BY <1>1, <1>2, <1>5 DEF OdevTypeOK, stop_consumer
  <1> QED BY <1>3, <1>4, <1>5 DEF Shell

\* What a step may do to the stream: nothing, one driver more, an interrupt, or a step
\* of the device, of a driver, of the handler or of the shell.
OdevNext ==
  \/ UNCHANGED odevVars
  \/ \E t \in Drivers : create_odev_task(t)
  \/ dev.irq /\ OdevIrqEnter
  \/ Device
  \/ \E t \in Drivers : run_odev_task(t)
  \/ odev_irq
  \/ Shell

\* Every step of the whole is one of these (odev.c's task and handler, the device, the shell).
LEMMA OdevSteps ==
  ASSUME [Next]_vars
  PROVE  OdevNext
  <1> USE DEF OdevNext
  <1>1. CASE Starting  BY <1>1 DEF Starting
  <1>2. CASE SgiCommand  BY <1>2 DEF SgiCommand
  <1>3. CASE Raised  BY <1>3 DEF Raised
  <1>4. CASE OtherIrq  BY <1>4 DEF OtherIrq
  <1>5. CASE SgiIrq  BY <1>5 DEF SgiIrq
  <1>6. CASE OdevIrq  BY <1>6 DEF OdevIrq
  <1>7. CASE Streaming  BY <1>7 DEF Streaming
  <1>8. CASE UNCHANGED vars  BY <1>8 DEF vars, odevVars
  <1> QED BY <1>1, <1>2, <1>3, <1>4, <1>5, <1>6, <1>7, <1>8 DEF Next

\* Types of the stream.
LEMMA OdevStepTypes ==
  ASSUME OdevTypeOK, OdevNext
  PROVE  OdevTypeOK'
  <1>1. CASE UNCHANGED odevVars  BY <1>1 DEF odevVars, OdevTypeOK
  <1>2. CASE \E t \in Drivers : create_odev_task(t)
    BY <1>2 DEF create_odev_task, OdevTypeOK, DriverPcs, Opening, Unstarted
  <1>3. CASE OdevIrqEnter  BY <1>3 DEF OdevIrqEnter, OdevTypeOK
  <1>4. CASE Device
    <2>1. dev' \in DevType  BY <1>4, DeviceTypes DEF Device, OdevTypeOK
    <2> QED BY <1>4, <2>1 DEF Device, OdevTypeOK
  <1>5. CASE \E t \in Drivers : run_odev_task(t)  BY <1>5, DriverTypes
  <1>6. CASE odev_irq  BY <1>6, IrqTypes
  <1>7. CASE Shell  BY <1>7, ShellTypes
  <1> QED BY <1>1, <1>2, <1>3, <1>4, <1>5, <1>6, <1>7 DEF OdevNext

\* The stream before its driver is created (init_odev, the device's reset).
LEMMA OdevInitTypes ==
  OdevInit => OdevTypeOK
  <1> SUFFICES ASSUME OdevInit PROVE OdevTypeOK  OBVIOUS
  <1>1. BLOCKS \in 0..BLOCKS /\ <<0, 0>> \in Nat \X Nat /\ <<>> \in Seq(Nat)  BY OdevAssumption
  <1>2. dev \in DevType  BY <1>1 DEF OdevInit, DevType, SlaveStates
  <1>3. drv \in [Drivers -> [pc : DriverPcs, i : Nat, ctrl : SUBSET Bits]]
    BY DEF OdevInit, DriverPcs, Opening, Unstarted
  <1> QED BY <1>2, <1>3 DEF OdevInit, OdevTypeOK

-----------------------------------------------------------------------------
(* No handler is called before what it uses is set up.                       *)

\* Both CPUs have come to the end of start_kernel and secondary_start_kernel.
AllStarted == Started(0) /\ Started(1)

\* Until both CPUs have started, the stream has not.
QuietBefore ==
  ~AllStarted =>
    /\ dev.ctrl = {} /\ ~dev.irq
    /\ isr.pc = "none" /\ cmd.pc = "none"
    /\ \A t \in Drivers : drv[t].pc = "off"

\* The timer interrupts a CPU when it has been enabled there; the other interrupts wait
\* for both CPUs, and reach the one that registered them.
RaisedInTime ==
  \A c \in CPUS, v \in Vectors :
    <<c, v>> \in pending =>
      IF v = TIMER THEN "timer_enable" \in ready[c] ELSE AllStarted /\ c = Owner(v)

\* A CPU that has started stays started.
LEMMA StaysStarted ==
  ASSUME BootInv, [Next]_vars
  PROVE  AllStarted => AllStarted'
  <1>1. ASSUME NEW c \in CPUS, BootStep(c) PROVE ~AllStarted
    <2>1. ~Started(c)
      BY <1>1 DEF BootStep, At, init_gic, init_gic_secondary, Initialise, start_cpu1,
                  gic_register_int_handler, ReadTarget, WriteTarget, EnableInterrupt
    <2> QED BY <2>1 DEF AllStarted, CPUS
  <1>2. CASE UNCHANGED bootCore  BY <1>2 DEF bootCore, AllStarted, Started, Code
  <1> QED BY <1>1, <1>2, OnlyBootSteps

\* A handler that is called finds what it uses.
LEMMA HandlerReady ==
  ASSUME BootInv, RaisedInTime, NEW c \in CPUS, NEW v \in Vectors, <<c, v>> \in pending
  PROVE  handler[c][v] # Null /\ Needs(v) \subseteq ready[c]
  <1>1. step[0] \in 1..22 /\ step[1] \in 1..20  BY DEF BootInv, BootTypeOK
  <1>2. /\ \A k \in 1..(step[0] - 1) :
             /\ Code(0)[k][1] = "init" => Code(0)[k][2] \in ready[0]
             /\ Code(0)[k][1] = "handler" => handler[0][Code(0)[k][2]] # Null
        /\ \A k \in 1..(step[1] - 1) :
             /\ Code(1)[k][1] = "init" => Code(1)[k][2] \in ready[1]
             /\ Code(1)[k][1] = "handler" => handler[1][Code(1)[k][2]] # Null
    BY DEF BootInv, InForce, CPUS
  <1>3. CASE v = TIMER /\ c = 0
    <2>1. PICK k \in 1..(step[0] - 1) : Code(0)[k][1] = "init" /\ Code(0)[k][2] = "timer_enable"
      BY <1>3 DEF RaisedInTime, BootInv, NotBefore, Past
    <2>2. k = 21  BY <1>1, <2>1, StepsOf0
    <2>3. {2, 3, 4, 6, 8, 10} \subseteq 1..(step[0] - 1)  BY <1>1, <2>2
    <2>4. {"idletask", "wq", "rq", "timertree", "cfs_scheduler"} \subseteq ready[0]
      <3>1. \A j \in {2, 3, 4, 6, 8} : Code(0)[j][1] = "init" => Code(0)[j][2] \in ready[0]
        BY <1>2, <2>3
      <3> QED BY <3>1, StartKernelIs
    <2>5. handler[0][TIMER] # Null  BY <1>2, <2>3, StartKernelIs
    <2> QED BY <1>3, <2>4, <2>5 DEF Needs, TIMER, SGI, DMA, ODEV
  <1>4. CASE v = TIMER /\ c = 1
    <2>1. PICK k \in 1..(step[1] - 1) : Code(1)[k][1] = "init" /\ Code(1)[k][2] = "timer_enable"
      BY <1>4 DEF RaisedInTime, BootInv, NotBefore, Past
    <2>2. k = 12  BY <1>1, <2>1, StepsOf1
    <2>3. {2, 3, 4, 5, 7, 9} \subseteq 1..(step[1] - 1)  BY <1>1, <2>2
    <2>4. {"idletask", "wq", "rq", "timertree", "cfs_scheduler"} \subseteq ready[1]
      <3>1. \A j \in {2, 3, 4, 5, 7} : Code(1)[j][1] = "init" => Code(1)[j][2] \in ready[1]
        BY <1>2, <2>3
      <3> QED BY <3>1, SecondaryIs
    <2>5. handler[1][TIMER] # Null  BY <1>2, <2>3, SecondaryIs
    <2> QED BY <1>4, <2>4, <2>5 DEF Needs, TIMER, SGI, DMA, ODEV
  <1>5. CASE v # TIMER
    <2>1. step[0] > 21 /\ step[1] > 19 /\ c = Owner(v)
      BY <1>5, Lengths DEF RaisedInTime, AllStarted
    <2>2. {14, 15, 19} \subseteq 1..(step[0] - 1) /\ {13, 14, 15, 19} \subseteq 1..(step[1] - 1)
      BY <1>1, <2>1
    <2>3. CASE v = SGI
      <3>1. c = 1 /\ Needs(v) = {"qworker"}
        <4>1. Owner(SGI) = 1  BY DEF Owner, SGI, DMA
        <4>2. Needs(SGI) = {"qworker"}  BY DEF Needs, SGI, DMA, TIMER, ODEV
        <4> QED BY <2>1, <2>3, <4>1, <4>2
      <3>2. handler[1][SGI] # Null /\ "qworker" \in ready[1]  BY <1>2, <2>2, SecondaryIs
      <3> QED BY <2>3, <3>1, <3>2
    <2>4. CASE v = DMA
      <3>1. c = 0 /\ Needs(v) = {"dma", "qworker"}
        <4>1. Owner(DMA) = 0  BY DEF Owner, SGI, DMA
        <4>2. Needs(DMA) = {"dma", "qworker"}  BY DEF Needs, SGI, DMA, TIMER, ODEV
        <4> QED BY <2>1, <2>4, <4>1, <4>2
      <3>2. handler[0][DMA] # Null /\ {"dma", "qworker"} \subseteq ready[0]
        BY <1>2, <2>2, StartKernelIs
      <3> QED BY <2>4, <3>1, <3>2
    <2>5. CASE v = ODEV
      <3>1. c = 1 /\ Needs(v) = {"odev"}
        BY <2>1, <2>5 DEF Needs, Owner, SGI, DMA, TIMER, ODEV
      <3>2. handler[1][ODEV] # Null /\ "odev" \in ready[1]  BY <1>2, <2>2, SecondaryIs
      <3> QED BY <2>5, <3>1, <3>2
    <2> QED BY <1>5, <2>3, <2>4, <2>5 DEF Vectors, SPIs
  <1> QED BY <1>3, <1>4, <1>5 DEF CPUS

\* A handler's call is safe because whatever raises its interrupt waits for both CPUs.
WildInv == BootInv /\ OdevTypeOK /\ QuietBefore /\ RaisedInTime /\ NoWildCall

\* Before both CPUs have started the stream only ever stutters.
LEMMA StaysQuiet ==
  ASSUME Patient, WildInv, [Next]_vars
  PROVE  QuietBefore'
  <1> SUFFICES ASSUME ~AllStarted'
               PROVE  /\ dev'.ctrl = {} /\ ~dev'.irq
                      /\ isr'.pc = "none" /\ cmd'.pc = "none"
                      /\ \A t \in Drivers : drv'[t].pc = "off"
    BY DEF QuietBefore
  <1>1. ~AllStarted  BY StaysStarted DEF WildInv
  <1>2. /\ dev.ctrl = {} /\ ~dev.irq
        /\ isr.pc = "none" /\ cmd.pc = "none"
        /\ \A t \in Drivers : drv[t].pc = "off"
    BY <1>1 DEF WildInv, QuietBefore
  <1>3. ~ShellRuns  BY <1>1 DEF ShellRuns, AllStarted, Patient
  <1>4. CASE UNCHANGED odevVars  BY <1>2, <1>4 DEF odevVars
  <1>5. CASE SgiIrq
    <2>1. <<1, SGI>> \in pending  BY <1>5 DEF SgiIrq, gic_irq_handler
    <2>2. 1 \in CPUS /\ SGI \in Vectors /\ SGI # TIMER  BY DEF CPUS, Vectors, SGI, TIMER
    <2> QED BY <1>1, <2>1, <2>2 DEF WildInv, RaisedInTime
  <1>6. CASE OdevIrq  BY <1>2, <1>4, <1>6 DEF OdevIrq
  <1>7. CASE Streaming
    <2>1. CASE Device
      <3>1. dev' = dev \/ (dev'.ctrl = dev.ctrl /\ dev'.irq = dev.irq)
        BY <1>2, <2>1 DEF Device, DevSlave, DevStart, DevLatch, DevWritten, DevReleased,
             DevCheckFull, DevClose, DevTake, DevFetch, DevConsume, DevInterrupt, On, WildInv, OdevTypeOK, DevType
      <3> QED BY <1>2, <2>1, <3>1 DEF Device
    <2>2. ASSUME NEW t \in Drivers PROVE ~run_odev_task(t)
      BY <1>2 DEF run_odev_task, start_odev, start_odev_stream, put_to_itab, PutBegin, PutSet,
           PutPoll, PutClear, WakeUp, Go, ReadCtrl
    <2>3. ~odev_irq  BY <1>2 DEF odev_irq
    <2> QED BY <1>3, <1>7, <2>1, <2>2, <2>3 DEF Streaming
  <1>8. CASE Starting \/ SgiCommand \/ Raised \/ OtherIrq \/ UNCHANGED vars
    BY <1>4, <1>8 DEF Starting, SgiCommand, Raised, OtherIrq, vars, odevVars
  <1> QED BY <1>5, <1>6, <1>7, <1>8 DEF Next

\* Interrupts are raised in time, at the CPU that registered them.
LEMMA StaysInTime ==
  ASSUME Patient, WildInv, [Next]_vars
  PROVE  RaisedInTime'
  <1> SUFFICES ASSUME NEW c \in CPUS, NEW v \in Vectors, <<c, v>> \in pending'
               PROVE  IF v = TIMER THEN "timer_enable" \in ready'[c]
                      ELSE AllStarted' /\ c = Owner(v)
    BY DEF RaisedInTime, Owner
  <1> DEFINE Good(d, w) == IF w = TIMER THEN "timer_enable" \in ready[d]
                           ELSE AllStarted /\ d = Owner(w)
  <1>1. AllStarted => AllStarted'  BY StaysStarted DEF WildInv
  <1>2. "timer_enable" \in ready[c] => "timer_enable" \in ready'[c]
    <2>1. CASE UNCHANGED bootCore  BY <2>1 DEF bootCore
    <2>2. ASSUME NEW d \in CPUS, BootStep(d) PROVE ready[c] \subseteq ready'[c]
      <3>1. CASE Initialise(d)  BY <3>1 DEF Initialise, WildInv, BootInv, BootTypeOK
      <3>2. CASE ~Initialise(d)
        BY <2>2, <3>2 DEF BootStep, init_gic, init_gic_secondary, start_cpu1,
             gic_register_int_handler, ReadTarget, WriteTarget, EnableInterrupt
      <3> QED BY <3>1, <3>2
    <2> QED BY <2>1, <2>2, OnlyBootSteps
  <1>3. Good(c, v) => (IF v = TIMER THEN "timer_enable" \in ready'[c]
                       ELSE AllStarted' /\ c = Owner(v))
    BY <1>1, <1>2
  <1>4. <<c, v>> \in pending => Good(c, v)  BY DEF WildInv, RaisedInTime
  <1>5. ASSUME NEW d, NEW w, Pend(d, w), d \in CPUS, w \in Vectors, Good(d, w)
        PROVE  Good(c, v)
    BY <1>4, <1>5 DEF Pend
  <1>6. /\ ShellRuns => AllStarted
        /\ dev.irq => AllStarted
        /\ {0, 1} \subseteq CPUS /\ {TIMER, SGI, DMA, ODEV} \subseteq Vectors
        /\ TIMER # SGI /\ TIMER # DMA /\ TIMER # ODEV /\ SGI # DMA /\ DMA # ODEV
    BY DEF ShellRuns, AllStarted, Patient, WildInv, QuietBefore, CPUS, Vectors, SPIs, TIMER, SGI,
           DMA, ODEV
  <1>7. CASE SgiCommand
    <2>1. Good(1, SGI) /\ Pend(1, SGI)  BY <1>6, <1>7 DEF SgiCommand, SendSgi, Owner
    <2> HIDE DEF Good
    <2> QED BY <1>3, <1>5, <1>6, <2>1
  <1>8. CASE Raised
    <2>1. ASSUME NEW d \in CPUS, TimerFires(d) PROVE Good(c, v)
      BY <1>5, <1>6, <2>1 DEF TimerFires
    <2>2. ASSUME DmaDone PROVE Good(c, v)
      <3>1. target[DMA] = 0  BY DEF WildInv, BootInv, Targets
      <3> QED BY <1>5, <1>6, <2>2, <3>1 DEF DmaDone, Owner
    <2>3. ASSUME dev.irq, OdevRaises PROVE Good(c, v)
      <3>1. Past(1, "write_iptr", ODEV)
        <4>1. step[1] \in 1..20 /\ step[1] > 19
          BY <1>6, <2>3, Lengths DEF AllStarted, WildInv, BootInv, BootTypeOK
        <4>2. 17 \in 1..(step[1] - 1)  BY <4>1
        <4> QED BY <4>2, SecondaryIs DEF Past
      <3>2. target[ODEV] = 1  BY <3>1 DEF WildInv, BootInv, Targets
      <3> QED BY <1>5, <1>6, <2>3, <3>2 DEF OdevRaises, Owner
    <2> HIDE DEF Good
    <2> QED BY <1>3, <1>8, <2>1, <2>2, <2>3 DEF Raised
  <1>9. ASSUME pending' \subseteq pending PROVE Good(c, v)  BY <1>4, <1>9
  <1> HIDE DEF Good
  <1>10. CASE Starting
    <2>1. pending' = pending
      BY <1>10 DEF Starting, BootStep, init_gic, init_gic_secondary, Initialise, start_cpu1,
           gic_register_int_handler, ReadTarget, WriteTarget, EnableInterrupt
    <2> QED BY <1>3, <1>9, <2>1
  <1>11. CASE OtherIrq \/ SgiIrq \/ OdevIrq
    <2>1. pending' \subseteq pending
      BY <1>11 DEF OtherIrq, SgiIrq, OdevIrq, gic_irq_handler
    <2> QED BY <1>3, <1>9, <2>1
  <1>12. CASE Streaming \/ UNCHANGED vars
    <2>1. pending' = pending  BY <1>12 DEF Streaming, vars, bootVars
    <2> QED BY <1>3, <1>9, <2>1
  <1> QED BY <1>7, <1>8, <1>10, <1>11, <1>12 DEF Next

\* The invariant behind NoWildCall.
LEMMA WildStep ==
  ASSUME Patient, WildInv, [Next]_vars
  PROVE  WildInv'
  <1>1. BootInv'
    <2>1. CASE \E c \in CPUS : BootStep(c)  BY <2>1, BootStepInv DEF WildInv
    <2>2. CASE UNCHANGED bootCore  BY <2>2, BootCoreKeeps DEF WildInv
    <2> QED BY <2>1, <2>2, OnlyBootSteps
  <1>2. OdevTypeOK'  BY OdevSteps, OdevStepTypes DEF WildInv
  <1>3. QuietBefore' /\ RaisedInTime'  BY StaysQuiet, StaysInTime
  <1>4. NoWildCall'
    <2>1. ASSUME NEW c \in CPUS, NEW v \in Vectors, gic_irq_handler(c, v) PROVE NoWildCall'
      BY <2>1, HandlerReady DEF WildInv, NoWildCall, gic_irq_handler
    <2>2. {0, 1} \subseteq CPUS /\ {TIMER, SGI, DMA, ODEV} \subseteq Vectors
      BY DEF CPUS, Vectors, SPIs
    <2>3. CASE OtherIrq \/ SgiIrq \/ OdevIrq
      BY <2>1, <2>2, <2>3 DEF OtherIrq, SgiIrq, OdevIrq
    <2>4. CASE Starting
      BY <2>4 DEF Starting, BootStep, init_gic, init_gic_secondary, Initialise, start_cpu1,
           gic_register_int_handler, ReadTarget, WriteTarget, EnableInterrupt, NoWildCall, WildInv
    <2>5. CASE SgiCommand \/ Raised
      BY <2>5 DEF SgiCommand, Raised, SendSgi, TimerFires, DmaDone, OdevRaises, Pend, NoWildCall,
           WildInv
    <2>6. CASE Streaming \/ UNCHANGED vars
      BY <2>6 DEF Streaming, vars, bootVars, NoWildCall, WildInv
    <2> QED BY <2>3, <2>4, <2>5, <2>6 DEF Next
  <1> QED BY <1>1, <1>2, <1>3, <1>4 DEF WildInv

\* Where the shell's user waits for CPU 1: what has been set up is in force, interrupts
\* are raised after what their handlers use, and the stream is quiet before.
THEOREM WildInvariant == ASSUME Patient PROVE Spec => []WildInv
  <1>1. Init => WildInv
    <2> SUFFICES ASSUME Init PROVE WildInv  OBVIOUS
    <2>1. BootInv /\ OdevTypeOK  BY BootInitInv, OdevInitTypes DEF Init
    <2>2. QuietBefore  BY DEF Init, OdevInit, QuietBefore
    <2>3. RaisedInTime /\ NoWildCall  BY DEF Init, BootInit, RaisedInTime, NoWildCall
    <2> QED BY <2>1, <2>2, <2>3 DEF WildInv
  <1>2. WildInv /\ [Next]_vars => WildInv'  BY WildStep
  <1> QED BY <1>1, <1>2, PTL DEF Spec

\* No interrupt calls a null handler, or a handler whose structures are not set up
\* yet, on either CPU (gic_irq_handler).
THEOREM StreamNoWildCall == ASSUME Patient PROVE Spec => []NoWildCall
  <1>1. WildInv => NoWildCall  BY DEF WildInv
  <1> QED BY <1>1, WildInvariant, PTL

-----------------------------------------------------------------------------
(* The device takes the addresses in sequence.                               *)

\* Which of the bits the device works by are set while a driver is at p; the consumer's
\* bit comes and goes.
BitsOf(v, p) ==
  /\ GBL_START \in v <=> p \notin Unstarted
  /\ OSTREAM_START \in v <=> p \notin Opening
  /\ IN_TRANS \in v <=> p \in Sent

\* Every copy of the control register has these bits as the register has them, and no
\* command is between its read and write while a driver runs.
BitsKept ==
  \A t \in Drivers :
    /\ BitsOf(dev.ctrl, drv[t].pc)
    /\ drv[t].pc \in {"start", "stream", "set", "clear"} => BitsOf(drv[t].ctrl, drv[t].pc)
    /\ isr.pc \in {"stop", "done"} => BitsOf(isr.ctrl, drv[t].pc)
    /\ cmd.pc # "none" => BitsOf(cmd.ctrl, drv[t].pc) /\ drv[t].pc \in Asleep \cup {"created"}

\* What the device says of itself.
DeviceOK ==
  /\ dev.seq <= WRAP /\ Len(dev.itab) <= ENTRIES
  /\ dev.state = "IDLE" => dev.seq = 0 /\ dev.itab = <<>>
  /\ dev.state = "RECEIVING" => Len(dev.itab) < ENTRIES
  /\ dev.done => dev.state \in {"DONE_WRITING", "FULL_CHK_1"}
  /\ dev.full => dev.state \in {"FULL_CHK_1", "FULL"}
  /\ dev.state = "FULL" => dev.full

\* The states the device can be in while a driver is at p.
Meets(p, s) ==
  /\ p \in Unstarted => s = "IDLE"
  /\ p \in {"started", "stream", "addr", "set_read", "set"} => s \in {"IDLE", "RECEIVING"}
  /\ p = "put" => s \in {"IDLE", "RECEIVING", "FULL"}
  /\ p \in {"poll", "poll_ctrl"} => s \in {"IDLE", "RECEIVING", "WRITING", "DONE_WRITING"}
  /\ p \in {"clear_read", "clear"} => s = "DONE_WRITING"
  /\ p = "sleep" => s \in {"RECEIVING", "DONE_WRITING", "FULL_CHK_1", "FULL"}
  /\ p = "sleep_full" => s \in {"RECEIVING", "FULL"}

\* The device has taken the address that the driver is about.
Taken(p, s) ==
  \/ p \in {"clear_read", "clear", "sleep"}
  \/ p \in {"poll", "poll_ctrl"} /\ s \in {"WRITING", "DONE_WRITING"}

\* The table is empty and nothing has been read from it.
Empty ==
  /\ dev.itab = <<>> /\ dev.buf = 0 /\ dev.seq = 0
  /\ dev.cur = 0 /\ dev.part = BLOCKS /\ dev.due = <<0, 0>>

\* How far the driver and the device are with an address.
Together ==
  \A t \in Drivers :
    /\ Meets(drv[t].pc, dev.state)
    /\ drv[t].pc \in Opening => Empty
    /\ drv[t].pc \in {"set_read", "set"} \cup Sent => dev.addr = drv[t].i
    /\ drv[t].i < WRAP
    /\ dev.seq % WRAP = IF Taken(drv[t].pc, dev.state) THEN (drv[t].i + 1) % WRAP ELSE drv[t].i

\* The entry that the device reads after the one it is reading.
Front == IF dev.itab = <<>> THEN dev.seq % WRAP ELSE dev.itab[1]

\* The table counts up to the address that is due, and the buffer's count of the blocks
\* is where the device reads.
CountsUp ==
  /\ \A k \in 1..(Len(dev.itab) - 1) : dev.itab[k + 1] = (dev.itab[k] + 1) % WRAP
  /\ dev.itab # <<>> => (dev.itab[Len(dev.itab)] + 1) % WRAP = dev.seq % WRAP
  /\ dev.part < BLOCKS => dev.due = <<dev.cur, dev.part>> /\ Front = (dev.cur + 1) % WRAP
  /\ dev.part = BLOCKS => dev.due = <<Front, 0>>

\* Neither the slave side nor the buffer has found an error.
NoError == dev.errs \subseteq {"consumer"}

\* Driver and device together; the device never finds an address or a block that is not due.
OdevInv == OdevTypeOK /\ BitsKept /\ DeviceOK /\ Together /\ CountsUp /\ NoError

\* Indices that wrap.
LEMMA Wraps ==
  ASSUME NEW n \in 0..WRAP
  PROVE  n % WRAP = IF n = WRAP THEN 0 ELSE n
  <1>1. WRAP \in Nat \ {0}  BY OdevAssumption
  <1>2. CASE n = WRAP  BY <1>1, <1>2, SMT
  <1>3. CASE n # WRAP  BY <1>1, <1>3, SMT
  <1> QED BY <1>2, <1>3

\* The index after another, also where the device starts again.
LEMMA Due ==
  ASSUME NEW s \in 0..WRAP, NEW a \in Nat, a = s % WRAP
  PROVE  LET n == IF a = s THEN s + 1 ELSE IF a = 0 THEN 1 ELSE s
         IN  n \in 0..WRAP /\ n % WRAP = (a + 1) % WRAP /\ a \in {s, 0} /\ a < WRAP
  <1>1. WRAP \in Nat \ {0}  BY OdevAssumption
  <1>2. CASE s = WRAP
    <2>1. a = 0 /\ a # s  BY <1>1, <1>2, Wraps
    <2> QED BY <1>1, <1>2, <2>1
  <1>3. CASE s # WRAP
    <2>1. a = s /\ s + 1 \in 0..WRAP  BY <1>1, <1>3, Wraps
    <2> QED BY <1>1, <1>3, <2>1
  <1> QED BY <1>2, <1>3

\* A table with one entry more.
LEMMA Appended ==
  ASSUME NEW q \in Seq(Nat), NEW a \in Nat
  PROVE  /\ Append(q, a) # <<>> /\ Len(Append(q, a)) = Len(q) + 1 /\ Len(q) \in Nat
         /\ \A k \in 1..Len(q) : Append(q, a)[k] = q[k]
         /\ Append(q, a)[Len(q) + 1] = a
         /\ q = <<>> => Len(q) = 0
         /\ q # <<>> => Len(q) > 0
  <1>1. Len(q) \in Nat /\ (q = <<>> => Len(q) = 0) /\ (q # <<>> => Len(q) > 0)  OBVIOUS
  <1>2. Len(Append(q, a)) = Len(q) + 1 /\ Append(q, a)[Len(q) + 1] = a  OBVIOUS
  <1>3. \A k \in 1..Len(q) : Append(q, a)[k] = q[k]  OBVIOUS
  <1>4. Append(q, a) # <<>>
    <2>1. Len(Append(q, a)) # 0  BY <1>1, <1>2
    <2> QED BY <2>1
  <1> QED BY <1>1, <1>2, <1>3, <1>4

\* A table without its first entry.
LEMMA Removed ==
  ASSUME NEW q \in Seq(Nat), q # <<>>
  PROVE  /\ Tail(q) \in Seq(Nat) /\ Len(Tail(q)) = Len(q) - 1 /\ Head(q) = q[1]
         /\ Len(q) \in Nat /\ Len(q) > 0
         /\ \A k \in 1..(Len(q) - 1) : Tail(q)[k] = q[k + 1]
         /\ Tail(q) = <<>> <=> Len(q) = 1
  <1>1. Tail(q) \in Seq(Nat) /\ Len(Tail(q)) = Len(q) - 1 /\ Head(q) = q[1]  OBVIOUS
  <1>2. Len(q) \in Nat /\ Len(q) > 0  OBVIOUS
  <1>3. \A k \in 1..(Len(q) - 1) : Tail(q)[k] = q[k + 1]  OBVIOUS
  <1>4. Tail(q) = <<>> <=> Len(Tail(q)) = 0
    <2> DEFINE r == Tail(q)
    <2>1. r \in Seq(Nat)  BY <1>1
    <2> HIDE DEF r
    <2>2. r = <<>> <=> Len(r) = 0  BY <2>1
    <2> QED BY <2>2 DEF r
  <1>5. Tail(q) = <<>> <=> Len(q) = 1  BY <1>1, <1>2, <1>4
  <1> QED BY <1>1, <1>2, <1>3, <1>5

\* A write to the control register that keeps the device started and its stream open
\* changes nothing else that the device works by.
Undisturbed ==
  /\ dev'.full = dev.full /\ dev'.done = dev.done /\ dev'.seq = dev.seq
  /\ dev'.errs \subseteq dev.errs /\ dev'.state = dev.state
  /\ dev'.itab = dev.itab /\ dev'.buf = dev.buf
  /\ dev'.cur = dev.cur /\ dev'.part = dev.part /\ dev'.due = dev.due

\* A write to the control register that keeps the bits of the other copies changes
\* nothing else of the device (the driver's writel of CTRL).
LEMMA WriteDisturbs ==
  ASSUME OdevInv, NEW d \in Drivers, NEW v \in SUBSET Bits, dev' \in Written(v),
         OSTREAM_START \in v \/ drv[d].pc \in Opening
  PROVE  Undisturbed /\ dev'.addr = dev.addr /\ dev'.ctrl = v \ {INTR_DONE}
  <1>1. dev \in DevType  BY DEF OdevInv, OdevTypeOK
  <1>2. /\ dev'.ctrl = v \ {INTR_DONE} /\ dev'.full = dev.full /\ dev'.done = dev.done
        /\ dev'.addr = dev.addr /\ dev'.seq = dev.seq /\ dev'.state = dev.state
        /\ dev'.itab = dev.itab /\ dev'.errs \subseteq dev.errs
        /\ dev'.cur = IF OSTREAM_START \in v THEN dev.cur ELSE 0
        /\ dev'.part = IF OSTREAM_START \in v THEN dev.part ELSE BLOCKS
        /\ dev'.due = IF OSTREAM_START \in v THEN dev.due ELSE <<0, 0>>
        /\ dev'.buf = IF OSTREAM_START \in v THEN dev.buf ELSE 0
    BY <1>1, WrittenIs
  <1>3. drv[d].pc \in Opening => Empty  BY DEF OdevInv, Together
  <1> QED BY <1>2, <1>3 DEF Undisturbed, Empty

\* What a step that leaves the device undisturbed keeps.
LEMMA DeviceKept ==
  ASSUME OdevInv, Undisturbed
  PROVE  DeviceOK' /\ CountsUp' /\ NoError'
  BY DEF OdevInv, Undisturbed, DeviceOK, CountsUp, Front, NoError

\* The device is alone with one driver: where the driver is decides the device's bits.
LEMMA MoveKeeps ==
  ASSUME OdevInv, NEW d, Drivers = {d}, OdevTypeOK', Undisturbed,
         isr'.pc = "none", cmd'.pc = "none",
         BitsOf(dev'.ctrl, drv'[d].pc),
         drv'[d].pc \in {"start", "stream", "set", "clear"} => BitsOf(drv'[d].ctrl, drv'[d].pc),
         Meets(drv'[d].pc, dev.state),
         drv'[d].pc \in Opening => drv[d].pc \in Opening,
         drv'[d].pc \in {"set_read", "set"} \cup Sent => dev'.addr = drv'[d].i,
         drv'[d].i < WRAP,
         dev.seq % WRAP = IF Taken(drv'[d].pc, dev.state) THEN (drv'[d].i + 1) % WRAP ELSE drv'[d].i
  PROVE  OdevInv'
  <1>1. BitsKept'  BY DEF BitsKept, BitsOf
  <1>2. DeviceOK' /\ CountsUp' /\ NoError'  BY DeviceKept
  <1>3. Together'
    BY DEF OdevInv, Together, Undisturbed, Taken, Meets, Empty
  <1> QED BY <1>1, <1>2, <1>3 DEF OdevInv

\* The interrupt handler and the shell change the consumer's bit and clear the interrupt:
\* the bits the device works by stay as the driver has them.
LEMMA OthersKeep ==
  ASSUME NoOverlap, OdevInv, NEW d, Drivers = {d},
         create_odev_task(d) \/ OdevIrqEnter \/ odev_irq \/ Shell
  PROVE  OdevInv'
  <1>1. OdevTypeOK'
    BY OdevStepTypes, IrqTypes, ShellTypes DEF OdevInv, OdevNext, create_odev_task, OdevIrqEnter,
       OdevTypeOK, DriverPcs, Opening, Unstarted
  <1>2. /\ dev.ctrl \in SUBSET Bits /\ isr.ctrl \in SUBSET Bits /\ cmd.ctrl \in SUBSET Bits
        /\ BitsOf(dev.ctrl, drv[d].pc)
        /\ drv[d].pc \in {"start", "stream", "set", "clear"} => BitsOf(drv[d].ctrl, drv[d].pc)
        /\ isr.pc \in {"stop", "done"} => BitsOf(isr.ctrl, drv[d].pc)
        /\ cmd.pc # "none" => BitsOf(cmd.ctrl, drv[d].pc) /\ drv[d].pc \in Asleep \cup {"created"}
    BY DEF OdevInv, OdevTypeOK, DevType, BitsKept
  <1> DEFINE Stays == DeviceOK' /\ CountsUp' /\ NoError' /\ Together'
  <1>3. ASSUME UNCHANGED drv, NEW v \in SUBSET Bits, BitsOf(v, drv[d].pc), dev' \in Written(v)
        PROVE  Stays /\ BitsOf(dev'.ctrl, drv[d].pc)
    <2>2. OSTREAM_START \in v \/ drv[d].pc \in Opening  BY <1>3 DEF BitsOf
    <2>3. Undisturbed /\ dev'.addr = dev.addr /\ dev'.ctrl = v \ {INTR_DONE}
      BY <1>3, <2>2, WriteDisturbs
    <2>4. Together'  BY <1>3, <2>3 DEF OdevInv, Together, Undisturbed, Taken, Meets, Empty
    <2>5. BitsOf(dev'.ctrl, drv[d].pc)
      BY <1>3, <2>3 DEF BitsOf, GBL_START, INTR_DONE, IN_TRANS, OSTREAM_START
    <2> QED BY <2>3, <2>4, <2>5, DeviceKept
  <1>4. ASSUME UNCHANGED dev, UNCHANGED drv PROVE Stays
    <2>1. DeviceOK' /\ CountsUp' /\ NoError'  BY <1>4 DEF OdevInv, DeviceOK, CountsUp, Front, NoError
    <2>2. Together'  BY <1>4 DEF OdevInv, Together, Taken, Meets, Empty
    <2> QED BY <2>1, <2>2
  <1>5. ASSUME NEW v \in SUBSET Bits, BitsOf(v, drv[d].pc)
        PROVE  /\ v \ {CONSUMER_START} \in SUBSET Bits /\ BitsOf(v \ {CONSUMER_START}, drv[d].pc)
               /\ v \cup {CONSUMER_START} \in SUBSET Bits /\ BitsOf(v \cup {CONSUMER_START}, drv[d].pc)
               /\ v \cup {INTR_DONE} \in SUBSET Bits /\ BitsOf(v \cup {INTR_DONE}, drv[d].pc)
    BY <1>5 DEF BitsOf, Bits, GBL_START, INTR_DONE, IN_TRANS, OSTREAM_START, CONSUMER_START
  <1>6. CASE create_odev_task(d)
    <2>1. /\ drv' = [drv EXCEPT ![d].pc = "created"] /\ drv[d].pc = "off"
          /\ UNCHANGED <<dev, isr, cmd>>
      BY <1>6 DEF create_odev_task
    <2>2. drv'[d].pc = "created" /\ drv'[d].i = drv[d].i  BY <2>1 DEF OdevInv, OdevTypeOK
    <2>3. Together'
      BY <2>1, <2>2 DEF OdevInv, Together, Taken, Meets, Empty, Opening, Unstarted, Sent
    <2>4. BitsKept'
      BY <1>2, <2>1, <2>2 DEF BitsKept, BitsOf, Opening, Unstarted, Sent, Asleep
    <2>5. DeviceOK' /\ CountsUp' /\ NoError'
      BY <2>1 DEF OdevInv, DeviceOK, CountsUp, Front, NoError
    <2> QED BY <1>1, <2>3, <2>4, <2>5 DEF OdevInv
  <1>7. CASE OdevIrqEnter
    <2>1. Stays  BY <1>4, <1>7 DEF OdevIrqEnter
    <2>2. isr'.pc = "stop_read"  BY <1>7 DEF OdevIrqEnter, OdevInv, OdevTypeOK
    <2>3. BitsKept'  BY <1>2, <1>7, <2>2 DEF OdevIrqEnter, BitsKept
    <2> QED BY <1>1, <2>1, <2>3 DEF OdevInv
  <1>8. CASE odev_irq
    <2>0. UNCHANGED <<drv, cmd>>  BY <1>8 DEF odev_irq
    <2>1. CASE isr.pc \in {"stop_read", "done_read"}
      <3>1. UNCHANGED dev /\ isr'.ctrl = dev.ctrl  BY <1>8, <2>1 DEF odev_irq
      <3>2. Stays  BY <1>4, <2>0, <3>1
      <3>3. BitsKept'  BY <1>2, <2>0, <3>1 DEF BitsKept
      <3> QED BY <1>1, <3>2, <3>3 DEF OdevInv
    <2>2. CASE isr.pc = "stop"
      <3>1. dev' \in Written(isr.ctrl \ {CONSUMER_START}) /\ isr'.pc = "done_read"
        BY <1>8, <2>2 DEF odev_irq, OdevInv, OdevTypeOK
      <3>2. Stays /\ BitsOf(dev'.ctrl, drv[d].pc)  BY <1>2, <1>3, <1>5, <2>0, <2>2, <3>1
      <3>3. BitsKept'  BY <1>2, <2>0, <3>1, <3>2 DEF BitsKept
      <3> QED BY <1>1, <3>2, <3>3 DEF OdevInv
    <2>3. CASE isr.pc = "done"
      <3>1. dev' \in Written(isr.ctrl \cup {INTR_DONE}) /\ isr'.pc = "none"
        BY <1>8, <2>3 DEF odev_irq, OdevInv, OdevTypeOK
      <3>2. Stays /\ BitsOf(dev'.ctrl, drv[d].pc)  BY <1>2, <1>3, <1>5, <2>0, <2>3, <3>1
      <3>3. BitsKept'  BY <1>2, <2>0, <3>1, <3>2 DEF BitsKept
      <3> QED BY <1>1, <3>2, <3>3 DEF OdevInv
    <2> QED BY <1>8, <2>1, <2>2, <2>3 DEF odev_irq
  <1>9. CASE CommandRead
    <2>1. UNCHANGED <<dev, drv, isr>> /\ cmd'.ctrl = dev.ctrl /\ drv[d].pc \in Asleep \cup {"created"}
      BY <1>9 DEF CommandRead, NoOverlap
    <2>2. Stays  BY <1>4, <2>1
    <2>3. BitsKept'  BY <1>2, <2>1 DEF BitsKept
    <2> QED BY <1>1, <2>2, <2>3 DEF OdevInv
  <1>10. CASE start_consumer \/ stop_consumer
    <2>1. cmd.pc # "none" /\ cmd'.pc = "none" /\ UNCHANGED <<drv, isr>>
      BY <1>10 DEF start_consumer, stop_consumer
    <2>2. dev' \in Written(cmd.ctrl \cup {CONSUMER_START}) \/ dev' \in Written(cmd.ctrl \ {CONSUMER_START})
      BY <1>10 DEF start_consumer, stop_consumer
    <2>3. BitsOf(cmd.ctrl, drv[d].pc)  BY <1>2, <2>1
    <2>4. Stays /\ BitsOf(dev'.ctrl, drv[d].pc)  BY <1>2, <1>3, <1>5, <2>1, <2>2, <2>3
    <2>5. BitsKept'  BY <1>2, <2>1, <2>4 DEF BitsKept
    <2> QED BY <1>1, <2>4, <2>5 DEF OdevInv
  <1> QED BY <1>6, <1>7, <1>8, <1>9, <1>10 DEF Shell

\* The one driver, whose accesses no command overlaps: what it writes back is what the
\* register held, and it puts an address only when the device is ready for it.
LEMMA DriverKeeps ==
  ASSUME NoOverlap, OdevInv, NEW d, Drivers = {d}, run_odev_task(d)
  PROVE  OdevInv'
  <1> DEFINE p == drv[d].pc
             q == drv'[d].pc
             i == drv[d].i
  <1>1. OdevTypeOK' /\ isr.pc = "none" /\ UNCHANGED <<isr, cmd>>
    BY DriverTypes DEF OdevInv
  <1>2. /\ dev.ctrl \in SUBSET Bits /\ drv[d].ctrl \in SUBSET Bits /\ p \in DriverPcs /\ i \in Nat
        /\ BitsOf(dev.ctrl, p)
        /\ p \in {"start", "stream", "set", "clear"} => BitsOf(drv[d].ctrl, p)
        /\ cmd.pc # "none" => p \in Asleep \cup {"created"}
    BY DEF OdevInv, OdevTypeOK, DevType, BitsKept
  <1>3. /\ Meets(p, dev.state)
        /\ p \in {"set_read", "set"} \cup Sent => dev.addr = i
        /\ i < WRAP
        /\ dev.seq % WRAP = IF Taken(p, dev.state) THEN (i + 1) % WRAP ELSE i
        /\ dev.state = "FULL" => dev.full
        /\ dev.done => dev.state \in {"DONE_WRITING", "FULL_CHK_1"}
        /\ dev.full => dev.state \in {"FULL_CHK_1", "FULL"}
    BY DEF OdevInv, Together, DeviceOK
  <1>4. cmd'.pc = "none" /\ isr'.pc = "none"
    <2>1. CASE p \in Asleep \cup {"created"}
      BY <1>1, <2>1 DEF NoOverlap, Asleep, run_odev_task, start_odev, start_odev_stream,
         put_to_itab, PutBegin, PutSet, PutPoll, PutClear, WakeUp, Go, ReadCtrl
    <2>2. CASE p \notin Asleep \cup {"created"}  BY <1>1, <1>2, <2>2
    <2> QED BY <2>1, <2>2
  <1>5. \A f, r : Go(d, f, r) => p = f /\ q = r /\ drv'[d].i = i
    BY DEF Go, OdevInv, OdevTypeOK
  <1>6. \A f, r : ReadCtrl(d, f, r) =>
          p = f /\ q = r /\ drv'[d].i = i /\ drv'[d].ctrl = dev.ctrl /\ dev' = dev
    <2> SUFFICES ASSUME NEW f, NEW r, ReadCtrl(d, f, r)
                 PROVE  p = f /\ q = r /\ drv'[d].i = i /\ drv'[d].ctrl = dev.ctrl /\ dev' = dev
      OBVIOUS
    <2>1. drv' = [drv EXCEPT ![d] = [drv[d] EXCEPT !.pc = r, !.ctrl = dev.ctrl]]
      BY DEF ReadCtrl, OdevInv, OdevTypeOK
    <2>2. drv'[d] = [drv[d] EXCEPT !.pc = r, !.ctrl = dev.ctrl]
      BY <2>1 DEF OdevInv, OdevTypeOK
    <2>3. q = r /\ drv'[d].i = i /\ drv'[d].ctrl = dev.ctrl
      BY <2>2 DEF OdevInv, OdevTypeOK
    <2> QED BY <2>3 DEF ReadCtrl
  <1>7. dev' = dev => Undisturbed /\ dev'.addr = dev.addr /\ dev'.ctrl = dev.ctrl
    BY DEF Undisturbed
  <1>8. ASSUME NEW v \in SUBSET Bits, dev' \in Written(v), BitsOf(v, q),
               OSTREAM_START \in v \/ p \in Opening
        PROVE  Undisturbed /\ dev'.addr = dev.addr /\ BitsOf(dev'.ctrl, q)
    <2>1. Undisturbed /\ dev'.addr = dev.addr /\ dev'.ctrl = v \ {INTR_DONE}
      BY <1>8, WriteDisturbs
    <2> QED BY <1>8, <2>1 DEF BitsOf, GBL_START, INTR_DONE, IN_TRANS, OSTREAM_START
  <1>9. ASSUME Undisturbed, BitsOf(dev'.ctrl, q),
               q \in {"start", "stream", "set", "clear"} => BitsOf(drv'[d].ctrl, q),
               Meets(q, dev.state), q \in Opening => p \in Opening,
               q \in {"set_read", "set"} \cup Sent => dev'.addr = drv'[d].i,
               drv'[d].i < WRAP,
               dev.seq % WRAP = IF Taken(q, dev.state) THEN (drv'[d].i + 1) % WRAP ELSE drv'[d].i
        PROVE  OdevInv'
    BY <1>1, <1>4, <1>9, MoveKeeps
  <1> HIDE DEF p, q, i
  <1> USE DEF Unstarted, Opening, Sent
  <1>10. CASE start_odev(d)
    <2>1. CASE ReadCtrl(d, "created", "start")
      <3>1. p = "created" /\ q = "start" /\ drv'[d].i = i /\ drv'[d].ctrl = dev.ctrl /\ dev' = dev
        BY <1>6, <2>1
      <3>2. BitsOf(dev'.ctrl, q) /\ BitsOf(drv'[d].ctrl, q)  BY <1>2, <3>1 DEF BitsOf
      <3> QED BY <1>3, <1>7, <1>9, <3>1, <3>2 DEF Meets, Taken
    <2>2. CASE Go(d, "start", "started") /\ dev' \in Written(drv[d].ctrl \cup {GBL_START})
      <3>1. p = "start" /\ q = "started" /\ drv'[d].i = i  BY <1>5, <2>2
      <3> DEFINE v == drv[d].ctrl \cup {GBL_START}
      <3>2. v \in SUBSET Bits /\ GBL_START \in v /\ BitsOf(v, q)
        BY <1>2, <3>1 DEF BitsOf, Bits, GBL_START, IN_TRANS, OSTREAM_START
      <3>3. Undisturbed /\ dev'.addr = dev.addr /\ BitsOf(dev'.ctrl, q)
        BY <1>8, <2>2, <3>1, <3>2
      <3> QED BY <1>3, <1>9, <3>1, <3>3 DEF Meets, Taken
    <2> QED BY <1>10, <2>1, <2>2 DEF start_odev
  <1>11. CASE start_odev_stream(d)
    <2>1. CASE ReadCtrl(d, "started", "stream")
      <3>1. p = "started" /\ q = "stream" /\ drv'[d].i = i /\ drv'[d].ctrl = dev.ctrl /\ dev' = dev
        BY <1>6, <2>1
      <3>2. BitsOf(dev'.ctrl, q) /\ BitsOf(drv'[d].ctrl, q)  BY <1>2, <3>1 DEF BitsOf
      <3> QED BY <1>3, <1>7, <1>9, <3>1, <3>2 DEF Meets, Taken
    <2>2. CASE Go(d, "stream", "put") /\ dev' \in Written(drv[d].ctrl \cup {OSTREAM_START})
      <3>1. p = "stream" /\ q = "put" /\ drv'[d].i = i  BY <1>5, <2>2
      <3> DEFINE v == drv[d].ctrl \cup {OSTREAM_START}
      <3>2. v \in SUBSET Bits /\ GBL_START \in v /\ OSTREAM_START \in v /\ BitsOf(v, q)
        BY <1>2, <3>1 DEF BitsOf, Bits, GBL_START, IN_TRANS, OSTREAM_START
      <3>3. Undisturbed /\ dev'.addr = dev.addr /\ BitsOf(dev'.ctrl, q)
        BY <1>8, <2>2, <3>2
      <3> QED BY <1>3, <1>9, <3>1, <3>3 DEF Meets, Taken
    <2> QED BY <1>11, <2>1, <2>2 DEF start_odev_stream
  <1>12. CASE PutBegin(d)
    <2>1. CASE dev.full /\ Go(d, "put", "sleep_full") /\ UNCHANGED dev
      <3>1. p = "put" /\ q = "sleep_full" /\ drv'[d].i = i /\ dev' = dev  BY <1>5, <2>1
      <3>2. BitsOf(dev'.ctrl, q)  BY <1>2, <3>1 DEF BitsOf
      <3> QED BY <1>3, <1>7, <1>9, <2>1, <3>1, <3>2 DEF Meets, Taken
    <2>2. CASE ~dev.full /\ Go(d, "put", "addr") /\ UNCHANGED dev
      <3>1. p = "put" /\ q = "addr" /\ drv'[d].i = i /\ dev' = dev  BY <1>5, <2>2
      <3>2. BitsOf(dev'.ctrl, q)  BY <1>2, <3>1 DEF BitsOf
      <3> QED BY <1>3, <1>7, <1>9, <2>2, <3>1, <3>2 DEF Meets, Taken
    <2>3. CASE Go(d, "addr", "set_read") /\ dev' = [dev EXCEPT !.addr = drv[d].i]
      <3>1. p = "addr" /\ q = "set_read" /\ drv'[d].i = i  BY <1>5, <2>3
      <3>2. Undisturbed /\ dev'.addr = i /\ dev'.ctrl = dev.ctrl
        BY <2>3 DEF Undisturbed, OdevInv, OdevTypeOK, DevType, i
      <3>3. BitsOf(dev'.ctrl, q)  BY <1>2, <3>1, <3>2 DEF BitsOf
      <3> QED BY <1>3, <1>9, <3>1, <3>2, <3>3 DEF Meets, Taken
    <2> QED BY <1>12, <2>1, <2>2, <2>3 DEF PutBegin
  <1>13. CASE PutSet(d)
    <2>1. CASE ReadCtrl(d, "set_read", "set")
      <3>1. p = "set_read" /\ q = "set" /\ drv'[d].i = i /\ drv'[d].ctrl = dev.ctrl /\ dev' = dev
        BY <1>6, <2>1
      <3>2. BitsOf(dev'.ctrl, q) /\ BitsOf(drv'[d].ctrl, q)  BY <1>2, <3>1 DEF BitsOf
      <3> QED BY <1>3, <1>7, <1>9, <3>1, <3>2 DEF Meets, Taken
    <2>2. CASE Go(d, "set", "poll") /\ dev' \in Written(drv[d].ctrl \cup {IN_TRANS})
      <3>1. p = "set" /\ q = "poll" /\ drv'[d].i = i  BY <1>5, <2>2
      <3> DEFINE v == drv[d].ctrl \cup {IN_TRANS}
      <3>2. v \in SUBSET Bits /\ GBL_START \in v /\ OSTREAM_START \in v /\ BitsOf(v, q)
        BY <1>2, <3>1 DEF BitsOf, Bits, GBL_START, IN_TRANS, OSTREAM_START
      <3>3. Undisturbed /\ dev'.addr = dev.addr /\ BitsOf(dev'.ctrl, q)
        BY <1>8, <2>2, <3>2
      <3> QED BY <1>3, <1>9, <3>1, <3>3 DEF Meets, Taken
    <2> QED BY <1>13, <2>1, <2>2 DEF PutSet
  <1>14. CASE PutPoll(d)
    <2>1. CASE dev.done /\ Go(d, "poll", "clear_read") /\ UNCHANGED dev
      <3>1. p = "poll" /\ q = "clear_read" /\ drv'[d].i = i /\ dev' = dev  BY <1>5, <2>1
      <3>2. BitsOf(dev'.ctrl, q)  BY <1>2, <3>1 DEF BitsOf
      <3> QED BY <1>3, <1>7, <1>9, <2>1, <3>1, <3>2 DEF Meets, Taken
    <2>2. CASE Go(d, "poll", "poll_ctrl") /\ UNCHANGED dev
      <3>1. p = "poll" /\ q = "poll_ctrl" /\ drv'[d].i = i /\ dev' = dev  BY <1>5, <2>2
      <3>2. BitsOf(dev'.ctrl, q)  BY <1>2, <3>1 DEF BitsOf
      <3> QED BY <1>3, <1>7, <1>9, <3>1, <3>2 DEF Meets, Taken
    <2>3. CASE Go(d, "poll_ctrl", IF GBL_START \in dev.ctrl THEN "poll" ELSE "sleep") /\ UNCHANGED dev
      <3>1. p = "poll_ctrl" /\ drv'[d].i = i /\ dev' = dev
            /\ q = IF GBL_START \in dev.ctrl THEN "poll" ELSE "sleep"
        BY <1>5, <2>3
      <3>2. GBL_START \in dev.ctrl  BY <1>2, <3>1 DEF BitsOf
      <3>3. BitsOf(dev'.ctrl, q)  BY <1>2, <3>1, <3>2 DEF BitsOf
      <3> QED BY <1>3, <1>7, <1>9, <3>1, <3>2, <3>3 DEF Meets, Taken
    <2> QED BY <1>14, <2>1, <2>2, <2>3 DEF PutPoll
  <1>15. CASE PutClear(d)
    <2>1. CASE ReadCtrl(d, "clear_read", "clear")
      <3>1. p = "clear_read" /\ q = "clear" /\ drv'[d].i = i /\ drv'[d].ctrl = dev.ctrl /\ dev' = dev
        BY <1>6, <2>1
      <3>2. BitsOf(dev'.ctrl, q) /\ BitsOf(drv'[d].ctrl, q)  BY <1>2, <3>1 DEF BitsOf
      <3> QED BY <1>3, <1>7, <1>9, <3>1, <3>2 DEF Meets, Taken
    <2>2. CASE Go(d, "clear", "sleep") /\ dev' \in Written(drv[d].ctrl \ {IN_TRANS})
      <3>1. p = "clear" /\ q = "sleep" /\ drv'[d].i = i  BY <1>5, <2>2
      <3> DEFINE v == drv[d].ctrl \ {IN_TRANS}
      <3>2. v \in SUBSET Bits /\ GBL_START \in v /\ OSTREAM_START \in v /\ BitsOf(v, q)
        BY <1>2, <3>1 DEF BitsOf, Bits, GBL_START, IN_TRANS, OSTREAM_START
      <3>3. Undisturbed /\ dev'.addr = dev.addr /\ BitsOf(dev'.ctrl, q)
        BY <1>8, <2>2, <3>2
      <3> QED BY <1>3, <1>9, <3>1, <3>3 DEF Meets, Taken
    <2> QED BY <1>15, <2>1, <2>2 DEF PutClear
  <1>16. CASE WakeUp(d)
    <2>1. Settled /\ dev' = dev  BY <1>16 DEF WakeUp
    <2>2. CASE drv' = [drv EXCEPT ![d].pc = "put", ![d].i = (drv[d].i + 1) % WRAP] /\ p = "sleep"
      <3>1. drv' = [drv EXCEPT ![d] = [drv[d] EXCEPT !.pc = "put", !.i = (drv[d].i + 1) % WRAP]]
        BY <2>2 DEF OdevInv, OdevTypeOK
      <3>2. drv'[d] = [drv[d] EXCEPT !.pc = "put", !.i = (drv[d].i + 1) % WRAP]
        BY <3>1 DEF OdevInv, OdevTypeOK
      <3>3. q = "put" /\ drv'[d].i = (i + 1) % WRAP
        BY <3>2 DEF OdevInv, OdevTypeOK, q, i
      <3>4. (i + 1) % WRAP < WRAP  BY <1>2, OdevAssumption
      <3>5. BitsOf(dev'.ctrl, q)  BY <1>2, <2>1, <2>2, <3>3 DEF BitsOf
      <3>6. dev.state \in {"RECEIVING", "FULL"}
        BY <1>2, <1>3, <2>1, <2>2 DEF Settled, Meets, BitsOf
      <3>7. dev.seq % WRAP = (i + 1) % WRAP  BY <1>3, <2>2 DEF Taken
      <3> QED BY <1>7, <1>9, <2>1, <3>3, <3>4, <3>5, <3>6, <3>7 DEF Meets, Taken
    <2>3. CASE drv' = [drv EXCEPT ![d].pc = "put"] /\ p = "sleep_full"
      <3>1. q = "put" /\ drv'[d].i = i  BY <2>3 DEF OdevInv, OdevTypeOK, q, i
      <3>2. BitsOf(dev'.ctrl, q)  BY <1>2, <2>1, <2>3, <3>1 DEF BitsOf
      <3> QED BY <1>3, <1>7, <1>9, <2>1, <2>3, <3>1, <3>2 DEF Meets, Taken
    <2> QED BY <1>16, <2>2, <2>3 DEF WakeUp, p
  <1> QED BY <1>10, <1>11, <1>12, <1>13, <1>14, <1>15, <1>16 DEF run_odev_task, put_to_itab

\* The device's steps: it takes the address that is due, once, and forgets none.
LEMMA DeviceKeeps ==
  ASSUME OdevInv, NEW d, Drivers = {d}, Device
  PROVE  OdevInv'
  <1> DEFINE p == drv[d].pc
             i == drv[d].i
  <1>1. UNCHANGED <<drv, isr, cmd>> /\ dev' \in DevType /\ OdevTypeOK'
    BY DeviceTypes DEF Device, OdevInv, OdevTypeOK
  <1>2. /\ dev \in DevType /\ dev.itab \in Seq(Nat) /\ dev.buf \in Nat /\ dev.seq \in Nat
        /\ dev.part \in 0..BLOCKS /\ dev.cur \in Nat
        /\ dev.addr \in Nat /\ dev.full \in BOOLEAN /\ dev.done \in BOOLEAN /\ p \in DriverPcs
        /\ Len(dev.itab) \in Nat /\ i \in Nat
    BY DEF OdevInv, OdevTypeOK, DevType
  <1>3. /\ dev.seq <= WRAP /\ Len(dev.itab) <= ENTRIES
        /\ dev.state = "IDLE" => dev.seq = 0 /\ dev.itab = <<>>
        /\ dev.state = "RECEIVING" => Len(dev.itab) < ENTRIES
        /\ dev.done => dev.state \in {"DONE_WRITING", "FULL_CHK_1"}
        /\ dev.full => dev.state \in {"FULL_CHK_1", "FULL"}
        /\ dev.state = "FULL" => dev.full
    BY DEF OdevInv, DeviceOK
  <1>4. /\ Meets(p, dev.state)
        /\ p \in Opening => Empty
        /\ p \in {"set_read", "set"} \cup Sent => dev.addr = i
        /\ i < WRAP
        /\ dev.seq % WRAP = IF Taken(p, dev.state) THEN (i + 1) % WRAP ELSE i
    BY DEF OdevInv, Together
  <1>5. /\ GBL_START \in dev.ctrl <=> p \notin Unstarted
        /\ OSTREAM_START \in dev.ctrl <=> p \notin Opening
        /\ IN_TRANS \in dev.ctrl <=> p \in Sent
    BY DEF OdevInv, BitsKept, BitsOf
  <1>6. dev'.ctrl = dev.ctrl => BitsKept'
    BY <1>1 DEF OdevInv, BitsKept
  <1>7. NoError /\ CountsUp  BY DEF OdevInv
  <1>8. ENTRIES \in Nat \ {0} /\ WRAP \in Nat \ {0} /\ BLOCKS \in Nat \ {0}  BY OdevAssumption
  <1>9. p \in Opening => OSTREAM_START \notin dev.ctrl  BY DEF OdevInv, BitsKept, BitsOf
  <1>11. ASSUME Meets(p, dev'.state), p \in Opening => Empty',
               dev'.addr = dev.addr,
               dev'.seq % WRAP = IF Taken(p, dev'.state) THEN (i + 1) % WRAP ELSE i
        PROVE  Together'
    BY <1>1, <1>4, <1>11 DEF Together
  <1> DEFINE Still == /\ dev'.itab = dev.itab /\ dev'.seq = dev.seq /\ dev'.cur = dev.cur
                      /\ dev'.part = dev.part /\ dev'.due = dev.due
  <1>12. ASSUME Still PROVE CountsUp' /\ (dev'.buf = dev.buf /\ Empty => Empty')
    BY <1>7, <1>12 DEF CountsUp, Front, Empty
  <1> HIDE DEF p, i
  <1>13. CASE DevStart
    <2>1. /\ dev.state = "IDLE" /\ dev'.state = "RECEIVING" /\ dev'.done = FALSE /\ dev'.seq = 0
          /\ dev'.ctrl = dev.ctrl /\ dev'.full = dev.full /\ dev'.addr = dev.addr
          /\ dev'.errs = dev.errs \ {"slave"} /\ dev'.itab = dev.itab /\ dev'.buf = dev.buf
          /\ dev'.cur = dev.cur /\ dev'.part = dev.part /\ dev'.due = dev.due
          /\ GBL_START \in dev.ctrl
      BY <1>2, <1>13 DEF DevStart, On, DevType
    <2>2. Still /\ Len(dev.itab) < ENTRIES  BY <1>3, <1>8, <2>1
    <2>3. DeviceOK'  BY <1>3, <2>1, <2>2 DEF DeviceOK
    <2>4. CountsUp' /\ (p \in Opening => Empty')  BY <1>4, <1>12, <2>1, <2>2
    <2> HIDE DEF Still
    <2>5. Together'  BY <1>4, <1>5, <1>11, <2>1, <2>4, <1>3 DEF Meets, Taken
    <2>6. NoError'  BY <1>7, <2>1 DEF NoError
    <2> QED BY <1>1, <1>6, <2>1, <2>3, <2>4, <2>5, <2>6 DEF OdevInv
  <1>14. CASE DevLatch
    <2>1. dev.state = "RECEIVING" /\ IN_TRANS \in dev.ctrl /\ Len(dev.itab) < ENTRIES
      BY <1>3, <1>14 DEF DevLatch
    <2>2. p \in {"poll", "poll_ctrl"} /\ dev.addr = i /\ i = dev.seq % WRAP
      BY <1>4, <1>5, <2>1 DEF Meets, Taken, Sent
    <2> DEFINE n == IF dev.addr = dev.seq THEN dev.seq + 1 ELSE IF dev.addr = 0 THEN 1 ELSE dev.seq
    <2>3. n \in 0..WRAP /\ n % WRAP = (i + 1) % WRAP /\ dev.addr \in {dev.seq, 0}
      <3>1. dev.seq \in 0..WRAP  BY <1>2, <1>3, <1>8
      <3> QED BY <1>2, <2>2, <3>1, Due
    <2>4. /\ dev'.state = "WRITING" /\ dev'.seq = n /\ dev'.itab = Append(dev.itab, dev.addr)
          /\ dev'.done = FALSE /\ dev'.ctrl = dev.ctrl /\ dev'.full = dev.full
          /\ dev'.addr = dev.addr /\ dev'.errs = dev.errs
          /\ dev'.cur = dev.cur /\ dev'.part = dev.part /\ dev'.due = dev.due
      BY <1>2, <1>14, <2>1, <2>3 DEF DevLatch, DevType
    <2> HIDE DEF n
    <2>5. DeviceOK'
      <3>1. Len(dev'.itab) <= ENTRIES  BY <1>2, <1>8, <2>1, <2>4
      <3> QED BY <1>3, <1>8, <2>1, <2>3, <2>4, <3>1 DEF DeviceOK
    <2>6. Together'
      BY <1>11, <2>2, <2>3, <2>4 DEF Meets, Taken, Opening, Unstarted
    <2>7. CountsUp'
      <3> DEFINE s == dev.itab
                 t == Append(dev.itab, dev.addr)
      <3>1. /\ t # <<>> /\ Len(t) = Len(s) + 1 /\ t[Len(s) + 1] = i /\ Len(s) \in Nat
            /\ \A k \in 1..Len(s) : t[k] = s[k]
            /\ s = <<>> => Len(s) = 0
            /\ s # <<>> => Len(s) > 0
        BY <1>2, <2>2, Appended
      <3>2. /\ \A k \in 1..(Len(s) - 1) : s[k + 1] = (s[k] + 1) % WRAP
            /\ s # <<>> => (s[Len(s)] + 1) % WRAP = i
            /\ dev.part < BLOCKS => dev.due = <<dev.cur, dev.part>> /\ Front = (dev.cur + 1) % WRAP
            /\ dev.part = BLOCKS => dev.due = <<Front, 0>>
            /\ Front = IF s = <<>> THEN i ELSE s[1]
        BY <1>7, <2>2 DEF CountsUp, Front
      <3> HIDE DEF s, t
      <3>3. \A k \in 1..(Len(t) - 1) : t[k + 1] = (t[k] + 1) % WRAP
        <4>1. ASSUME NEW k \in 1..Len(s) PROVE t[k + 1] = (t[k] + 1) % WRAP
          <5>1. CASE k = Len(s)  BY <3>1, <3>2, <4>1, <5>1
          <5>2. CASE k # Len(s)
            <6>1. k \in 1..(Len(s) - 1) /\ k + 1 \in 1..Len(s)  BY <3>1, <4>1, <5>2
            <6> QED BY <3>1, <3>2, <6>1
          <5> QED BY <5>1, <5>2
        <4> QED BY <3>1, <4>1
      <3>4. (t[Len(t)] + 1) % WRAP = n % WRAP  BY <2>3, <3>1
      <3>5. t[1] = Front
        <4>1. CASE s = <<>>  BY <3>1, <3>2, <4>1
        <4>2. CASE s # <<>>
          <5>1. 1 \in 1..Len(s)  BY <3>1, <4>2
          <5> QED BY <3>1, <3>2, <4>2, <5>1
        <4> QED BY <4>1, <4>2
      <3>6. dev'.itab = t  BY <2>4 DEF t
      <3>7. Front' = Front  BY <3>1, <3>5, <3>6 DEF Front
      <3> QED BY <2>4, <3>1, <3>2, <3>3, <3>4, <3>6, <3>7 DEF CountsUp
    <2>8. NoError'  BY <1>7, <2>4 DEF NoError
    <2> QED BY <1>1, <1>6, <2>4, <2>5, <2>6, <2>7, <2>8 DEF OdevInv
  <1>15. CASE DevWritten
    <2>1. /\ dev.state = "WRITING" /\ dev'.state = "DONE_WRITING" /\ dev'.buf = dev.buf
          /\ dev'.ctrl = dev.ctrl /\ dev'.full = dev.full /\ dev'.addr = dev.addr
          /\ dev'.errs = dev.errs /\ Still
      BY <1>2, <1>15 DEF DevWritten, DevType
    <2>2. DeviceOK'  BY <1>3, <2>1 DEF DeviceOK
    <2>3. p \in {"poll", "poll_ctrl"}
      BY <1>2, <1>4, <2>1 DEF Meets, DriverPcs, Opening, Unstarted, Sent
    <2>4. CountsUp' /\ (p \in Opening => Empty')  BY <1>4, <1>12, <2>1
    <2>5. Together'  BY <1>4, <1>11, <2>1, <2>3, <2>4 DEF Meets, Taken
    <2>6. NoError'  BY <1>7, <2>1 DEF NoError
    <2> QED BY <1>1, <1>6, <2>1, <2>2, <2>4, <2>5, <2>6 DEF OdevInv
  <1>16. CASE DevReleased
    <2>1. /\ dev.state = "DONE_WRITING" /\ dev'.state = "FULL_CHK_1" /\ dev'.buf = dev.buf
          /\ dev'.ctrl = dev.ctrl /\ dev'.done = dev.done /\ dev'.addr = dev.addr
          /\ dev'.errs = dev.errs /\ Still
          /\ IN_TRANS \notin dev.ctrl
      BY <1>2, <1>16 DEF DevReleased, DevType
    <2>2. DeviceOK'  BY <1>3, <2>1 DEF DeviceOK
    <2>3. p = "sleep"
      BY <1>2, <1>4, <1>5, <2>1 DEF Meets, DriverPcs, Opening, Unstarted, Sent
    <2>4. CountsUp' /\ (p \in Opening => Empty')  BY <1>4, <1>12, <2>1
    <2>5. Together'  BY <1>4, <1>11, <2>1, <2>3, <2>4 DEF Meets, Taken
    <2>6. NoError'  BY <1>7, <2>1 DEF NoError
    <2> QED BY <1>1, <1>6, <2>1, <2>2, <2>4, <2>5, <2>6 DEF OdevInv
  <1>17. CASE DevCheckFull
    <2>1. /\ dev.state \in {"FULL_CHK_1", "FULL"}
          /\ dev.state = "FULL" => Len(dev.itab) < ENTRIES
          /\ dev'.state = IF Len(dev.itab) = ENTRIES THEN "FULL" ELSE "RECEIVING"
          /\ dev'.full = (Len(dev.itab) = ENTRIES) /\ dev'.done = FALSE
          /\ dev'.ctrl = dev.ctrl /\ dev'.addr = dev.addr
          /\ dev'.errs = dev.errs /\ dev'.buf = dev.buf /\ Still
      BY <1>2, <1>17 DEF DevCheckFull, DevType
    <2>2. Len(dev.itab) # ENTRIES => Len(dev.itab) < ENTRIES  BY <1>2, <1>3, <1>8
    <2>3. DeviceOK'  BY <1>3, <2>1, <2>2 DEF DeviceOK
    <2>4. p \in {"put", "sleep", "sleep_full"} /\ (dev.state = "FULL_CHK_1" => p = "sleep")
      BY <1>2, <1>4, <2>1 DEF Meets, DriverPcs, Opening, Unstarted, Sent
    <2>5. dev'.state = "RECEIVING" \/ (dev'.state = "FULL" /\ p = "sleep")
      BY <1>8, <2>1, <2>4
    <2>6. CountsUp' /\ (p \in Opening => Empty')  BY <1>4, <1>12, <2>1
    <2>7. Together'  BY <1>4, <1>11, <2>1, <2>4, <2>5, <2>6 DEF Meets, Taken
    <2>8. NoError'  BY <1>7, <2>1 DEF NoError
    <2> QED BY <1>1, <1>6, <2>1, <2>3, <2>6, <2>7, <2>8 DEF OdevInv
  <1>18. CASE DevClose
    <2>1. dev.state # "IDLE" => GBL_START \in dev.ctrl  BY <1>4, <1>5 DEF Meets
    <2>2. dev.state # "CLOSING"
      BY <1>2, <1>4 DEF Meets, DriverPcs, Opening, Unstarted, Sent
    <2> QED BY <1>18, <2>1, <2>2 DEF DevClose, On
  <1>19. CASE DevTake
    <2>1. dev.itab # <<>> /\ p \notin Opening /\ dev.part = BLOCKS
      BY <1>9, <1>19 DEF DevTake
    <2>2. /\ dev'.itab = Tail(dev.itab) /\ dev'.cur = Head(dev.itab) /\ dev'.part = 0
          /\ dev'.due = dev.due
          /\ dev'.state = dev.state /\ dev'.seq = dev.seq /\ dev'.ctrl = dev.ctrl
          /\ dev'.done = dev.done /\ dev'.full = dev.full /\ dev'.addr = dev.addr
          /\ dev'.errs = dev.errs
      BY <1>2, <1>19 DEF DevTake, DevType
    <2> DEFINE s == dev.itab
               t == Tail(dev.itab)
    <2>3. /\ Len(t) = Len(s) - 1 /\ Head(s) = s[1] /\ Len(s) \in Nat /\ Len(s) > 0
          /\ \A k \in 1..(Len(s) - 1) : t[k] = s[k + 1]
          /\ t = <<>> <=> Len(s) = 1
      BY <1>2, <2>1, Removed
    <2>4. /\ \A k \in 1..(Len(s) - 1) : s[k + 1] = (s[k] + 1) % WRAP
          /\ (s[Len(s)] + 1) % WRAP = dev.seq % WRAP
          /\ dev.due = <<s[1], 0>>
      BY <1>7, <2>1 DEF CountsUp, Front
    <2>5. dev'.itab = t /\ dev'.cur = s[1]  BY <2>2, <2>3
    <2>6. Len(s) <= ENTRIES /\ (dev.state = "RECEIVING" => Len(s) < ENTRIES)
          /\ (dev.state = "IDLE" => s = <<>>)
      BY <1>3
    <2>7. s # <<>>  BY <2>1
    <2> HIDE DEF s, t
    <2>8. DeviceOK'
      <3>1. Len(t) <= ENTRIES /\ (dev.state = "RECEIVING" => Len(t) < ENTRIES)
        BY <1>8, <2>3, <2>6
      <3> QED BY <1>3, <2>2, <2>5, <2>6, <2>7, <3>1 DEF DeviceOK
    <2>9. Together'  BY <1>4, <1>11, <2>1, <2>2
    <2>10. CountsUp'
      <3>1. ASSUME NEW k \in 1..(Len(t) - 1) PROVE t[k + 1] = (t[k] + 1) % WRAP
        <4>1. k \in 1..(Len(s) - 1) /\ k + 1 \in 1..(Len(s) - 1)  BY <2>3
        <4> QED BY <2>3, <2>4, <4>1
      <3>2. t # <<>> => (t[Len(t)] + 1) % WRAP = dev.seq % WRAP
        <4>1. t # <<>> => Len(t) \in 1..(Len(s) - 1) /\ Len(t) + 1 = Len(s)  BY <2>3
        <4> QED BY <2>3, <2>4, <4>1
      <3>3. (IF t = <<>> THEN dev.seq % WRAP ELSE t[1]) = (s[1] + 1) % WRAP
        <4>1. CASE t = <<>>  BY <2>3, <2>4, <4>1
        <4>2. CASE t # <<>>
          <5>1. 1 \in 1..(Len(s) - 1) /\ 1 + 1 = 2  BY <2>3, <4>2
          <5>2. t[1] = s[2] /\ s[2] = (s[1] + 1) % WRAP  BY <2>3, <2>4, <5>1
          <5> QED BY <4>2, <5>2
        <4> QED BY <4>1, <4>2
      <3>4. Front' = (s[1] + 1) % WRAP  BY <2>2, <2>5, <3>3 DEF Front
      <3>5. 0 < BLOCKS /\ 0 # BLOCKS  BY <1>8
      <3> QED BY <2>2, <2>4, <2>5, <3>1, <3>2, <3>4, <3>5 DEF CountsUp
    <2>11. NoError'  BY <1>7, <2>2 DEF NoError
    <2> QED BY <1>1, <1>6, <2>2, <2>8, <2>9, <2>10, <2>11 DEF OdevInv
  <1>20. CASE DevFetch
    <2>1. dev.part < BLOCKS /\ p \notin Opening  BY <1>9, <1>20 DEF DevFetch
    <2>2. dev.due = <<dev.cur, dev.part>> /\ Front = (dev.cur + 1) % WRAP
      BY <1>7, <2>1 DEF CountsUp
    <2>3. /\ dev'.itab = dev.itab /\ dev'.part = dev.part + 1
          /\ dev'.cur = IF dev.part + 1 < BLOCKS THEN dev.cur ELSE 0
          /\ dev'.due = IF dev.due[2] + 1 < BLOCKS THEN <<dev.due[1], dev.due[2] + 1>>
                        ELSE <<(dev.due[1] + 1) % WRAP, 0>>
          /\ dev'.errs = dev.errs \cup (IF dev.due = <<dev.cur, dev.part>> THEN {} ELSE {"buffer"})
          /\ dev'.state = dev.state /\ dev'.seq = dev.seq /\ dev'.ctrl = dev.ctrl
          /\ dev'.done = dev.done /\ dev'.full = dev.full /\ dev'.addr = dev.addr
      BY <1>2, <1>20 DEF DevFetch, DevType
    <2>4. DeviceOK'  BY <1>3, <2>3 DEF DeviceOK
    <2>5. Together'  BY <1>4, <1>11, <2>1, <2>3
    <2>6. CountsUp'
      <3>1. Front' = Front  BY <2>3 DEF Front
      <3>2. dev.due[1] = dev.cur /\ dev.due[2] = dev.part  BY <2>2
      <3>3. dev'.part < BLOCKS => dev'.due = <<dev'.cur, dev'.part>> /\ Front' = (dev'.cur + 1) % WRAP
        BY <2>2, <2>3, <3>1, <3>2
      <3>4. dev'.part = BLOCKS => dev'.due = <<Front', 0>>
        <4>1. BLOCKS < BLOCKS <=> FALSE  BY <1>8
        <4> QED BY <2>2, <2>3, <3>1, <3>2, <4>1
      <3> QED BY <1>7, <2>3, <3>3, <3>4 DEF CountsUp
    <2>7. NoError'  BY <1>7, <2>2, <2>3 DEF NoError
    <2> QED BY <1>1, <1>6, <2>3, <2>4, <2>5, <2>6, <2>7 DEF OdevInv
  <1>21. CASE DevConsume
    <2>1. dev.buf > 0  BY <1>21 DEF DevConsume
    <2>2. /\ dev'.state = dev.state /\ dev'.ctrl = dev.ctrl
          /\ dev'.done = dev.done /\ dev'.full = dev.full /\ dev'.addr = dev.addr
          /\ dev'.errs \subseteq dev.errs \cup {"consumer"} /\ Still
      <3>1. PICK wrong \in {FALSE, dev.slip} :
              dev' = [dev EXCEPT !.buf = @ - 1, !.errs = @ \cup (IF wrong THEN {"consumer"} ELSE {})]
        BY <1>21 DEF DevConsume
      <3> QED BY <1>2, <3>1 DEF DevType
    <2>3. DeviceOK'  BY <1>3, <2>2 DEF DeviceOK
    <2>4. CountsUp'  BY <1>12, <2>2
    <2>5. p \notin Opening  BY <1>2, <1>4, <2>1 DEF Empty
    <2>6. Together'  BY <1>4, <1>11, <2>2, <2>5
    <2>7. NoError'  BY <1>7, <2>2 DEF NoError
    <2> QED BY <1>1, <1>6, <2>2, <2>3, <2>4, <2>6, <2>7 DEF OdevInv
  <1>22. CASE DevInterrupt
    <2>1. /\ dev'.state = dev.state /\ dev'.ctrl = dev.ctrl /\ dev'.buf = dev.buf
          /\ dev'.done = dev.done /\ dev'.full = dev.full /\ dev'.addr = dev.addr
          /\ dev'.errs = dev.errs /\ Still
      BY <1>2, <1>22 DEF DevInterrupt, DevType
    <2>2. DeviceOK'  BY <1>3, <2>1 DEF DeviceOK
    <2>3. CountsUp' /\ (p \in Opening => Empty')  BY <1>4, <1>12, <2>1
    <2>4. Together'  BY <1>4, <1>11, <2>1, <2>3
    <2>5. NoError'  BY <1>7, <2>1 DEF NoError
    <2> QED BY <1>1, <1>6, <2>1, <2>2, <2>3, <2>4, <2>5 DEF OdevInv
  <1> QED BY <1>13, <1>14, <1>15, <1>16, <1>17, <1>18, <1>19, <1>20, <1>21, <1>22
      DEF Device, DevSlave

\* The invariant of the stream: the driver and the device agree on the address that is
\* due, and every copy of the control register on the bits the device works by.
THEOREM StreamInvariant == ASSUME NoOverlap, OneDriver PROVE Spec => []OdevInv
  <1>1. PICK d : Drivers = {d}  BY DEF OneDriver
  <1>2. Init => OdevInv
    <2> SUFFICES ASSUME Init PROVE OdevInv  OBVIOUS
    <2>1. OdevTypeOK  BY OdevInitTypes DEF Init
    <2>2. /\ dev = [ctrl |-> {}, full |-> FALSE, done |-> FALSE, addr |-> 0, seq |-> 0,
                    errs |-> {}, state |-> "IDLE", itab |-> <<>>, cur |-> 0, part |-> BLOCKS,
                    due |-> <<0, 0>>, buf |-> 0, slip |-> FALSE, irq |-> FALSE]
          /\ \A t \in Drivers : drv[t].pc = "off" /\ drv[t].i = 0
          /\ isr.pc = "none" /\ cmd.pc = "none"
      BY DEF Init, OdevInit
    <2>3. BitsKept  BY <2>2 DEF BitsKept, BitsOf, Unstarted, Opening, Sent
    <2>4. ENTRIES \in Nat \ {0} /\ WRAP \in Nat \ {0} /\ BLOCKS \in Nat \ {0} /\ 0 % WRAP = 0 /\ 0 < WRAP
      BY OdevAssumption
    <2>5. DeviceOK  BY <2>2, <2>4 DEF DeviceOK
    <2>6. Together
      BY <2>2, <2>4 DEF Together, Meets, Taken, Empty, Unstarted, Opening, Sent
    <2>7. CountsUp /\ NoError  BY <2>2, <2>4 DEF CountsUp, Front, NoError
    <2> QED BY <2>1, <2>2, <2>3, <2>5, <2>6, <2>7 DEF OdevInv
  <1>3. ASSUME OdevInv, [Next]_vars PROVE OdevInv'
    <2>1. OdevNext  BY <1>3, OdevSteps
    <2>2. CASE UNCHANGED odevVars
      <3>1. dev' = dev /\ drv' = drv /\ isr' = isr /\ cmd' = cmd  BY <2>2 DEF odevVars
      <3>2. OdevTypeOK' /\ BitsKept'  BY <1>3, <3>1 DEF OdevInv, OdevTypeOK, BitsKept
      <3>3. DeviceOK' /\ Together'  BY <1>3, <3>1 DEF OdevInv, DeviceOK, Together, Empty
      <3>4. CountsUp' /\ NoError'  BY <1>3, <3>1 DEF OdevInv, CountsUp, Front, NoError
      <3> QED BY <3>2, <3>3, <3>4 DEF OdevInv
    <2>3. CASE Device  BY <1>1, <1>3, <2>3, DeviceKeeps
    <2>4. CASE run_odev_task(d)  BY <1>1, <1>3, <2>4, DriverKeeps
    <2>5. CASE create_odev_task(d) \/ OdevIrqEnter \/ odev_irq \/ Shell
      BY <1>1, <1>3, <2>5, OthersKeep
    <2> QED BY <1>1, <2>1, <2>2, <2>3, <2>4, <2>5 DEF OdevNext
  <1>4. OdevInv /\ [Next]_vars => OdevInv'  BY <1>3
  <1> QED BY <1>2, <1>4, PTL DEF Spec

\* The device takes every address once and in order, also when the index wraps and when
\* the table is full in between, and a driver about to put has the address that is due
\* (run_odev_task, put_to_itab).
THEOREM StreamInSequence == ASSUME NoOverlap, OneDriver PROVE Spec => []InSequence
  <1>1. OdevInv => InSequence
    <2> SUFFICES ASSUME OdevInv PROVE InSequence  OBVIOUS
    <2>1. ASSUME NEW t \in Drivers, drv[t].pc = "put" PROVE drv[t].i = dev.seq % WRAP
      BY <2>1 DEF OdevInv, Together, Taken
    <2>2. NoError  BY DEF OdevInv
    <2> QED BY <2>1, <2>2 DEF InSequence, NoError
  <1> QED BY <1>1, StreamInvariant, PTL

\* The device never meets a full table while it receives an address, where it would wait
\* for ever: put_to_itab reads the status first, and only the device fills the table.
THEOREM StreamNeverHangs == ASSUME NoOverlap, OneDriver PROVE Spec => [](dev.state # "HUNG")
  <1>1. OdevInv => dev.state # "HUNG"
    <2> SUFFICES ASSUME OdevInv PROVE dev.state # "HUNG"  OBVIOUS
    <2>1. PICK d : Drivers = {d} BY DEF OneDriver
    <2>2. Meets(drv[d].pc, dev.state) /\ drv[d].pc \in DriverPcs
      BY <2>1 DEF OdevInv, OdevTypeOK, Together
    <2> QED BY <2>2 DEF Meets, DriverPcs, Opening, Unstarted, Sent
  <1> QED BY <1>1, StreamInvariant, PTL
=============================================================================
