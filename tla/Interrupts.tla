----------------------------- MODULE Interrupts -----------------------------
(***************************************************************************)
(* Interrupts of LakeOS: the descriptor table and its two dispatchers      *)
(* (isr.c, irq.c), the two interrupt controllers (pic.c), and the timer    *)
(* (pit.c), whose handler carries on the date of module Clock.  The boot   *)
(* sequence of kernel_main is modelled up to PIT_init.                     *)
(***************************************************************************)
EXTENDS Clock, FiniteSets, Sequences

CONSTANTS
  TICKS,      \* 1000: the ticks of a second
  Lines,      \* bound: the request lines that devices use, 0 is the timer's; line 2
              \* stays masked, so nothing comes from the second controller
  Faults,     \* bound: the exceptions user code runs into
  MaxNesting, \* bound: the handlers a page fault of the kernel may interrupt
  MaxTicks    \* bound: the timer's interrupts after boot

ASSUME InterruptsAssumption ==
  /\ TICKS \in Nat \ {0} /\ MaxTicks \in Nat /\ MaxNesting \in Nat
  /\ Lines \subseteq 0 .. 7 /\ 0 \in Lines
  /\ Faults \subseteq 0 .. 31

VARIABLES
  boot,      \* how far kernel_main is
  mask,      \* the lines masked in the controllers
  request,   \* the lines that ask for an interrupt
  service,   \* the lines in service
  cpu,       \* what the processor executes
  interrupts, \* the processor's interrupt flag
  resume,    \* what it returns to from handlers, the innermost last
  vector,    \* the vector being handled
  cause,     \* ghost: the vector that ended in kernelpanic
  ticks      \* pit.c's static

picVars == <<mask, request, service>>
cpuVars == <<cpu, interrupts, resume, vector, cause>>
vars == <<clockVars, boot, picVars, cpuVars, ticks>>

PIC_REMAP_OFFSET == 32
None == 256
IRQ == 0 .. 15

-----------------------------------------------------------------------------
(* The descriptor table                                                    *)

Gate(to, ring) == [to |-> to, ring |-> ring, present |-> TRUE]

\* Each vector has a stub that calls ISR_handler, and the loop of ISR_init
\* makes it present; user code may use one of them.
ISR_init_gates ==
  [v \in 0 .. 255 |-> Gate("ISR_handler", IF v = 128 THEN 3 ELSE 0)]

\* Wrong on purpose: the controllers are programmed for other vectors.
IRQ_gates_shifted(idt) ==
  [v \in DOMAIN idt |-> IF v - PIC_REMAP_OFFSET - 8 \in IRQ THEN Gate("IRQ_handler", 0) ELSE idt[v]]

IRQ_gates(idt) ==
  [v \in DOMAIN idt |-> IF v - PIC_REMAP_OFFSET \in IRQ THEN Gate("IRQ_handler", 0) ELSE idt[v]]

IDT == IF boot = "irq" THEN ISR_init_gates ELSE IRQ_gates(ISR_init_gates)

-----------------------------------------------------------------------------
(* The boot sequence: ISR_init, IRQ_init, RTC_init, PIT_init               *)

At(stage, next) == boot = stage /\ boot' = next

ISR_init ==
  /\ At("isr", "irq")
  /\ UNCHANGED <<clockVars, picVars, cpuVars, ticks>>

\* All lines are masked and what was requested before is forgotten.
PIC_configure == mask' = IRQ /\ request' = {} /\ service' = {}

IRQ_init ==
  /\ At("irq", "rtc")
  /\ PIC_configure
  /\ interrupts' = TRUE                          \* sti
  /\ UNCHANGED <<clockVars, cpu, resume, vector, cause, ticks>>

ReadClock ==
  /\ boot = "rtc" /\ cpu = "kernel"
  /\ RTC_init \/ ChipCounts
  /\ UNCHANGED <<boot, picVars, cpuVars, ticks>>

PIC_unmask(irq) == mask' = mask \ {irq}
PIC_mask(irq)   == mask' = mask \cup {irq}

PIT_init ==
  /\ booted /\ cpu = "kernel"
  /\ At("rtc", "up")
  /\ PIC_unmask(0)
  /\ UNCHANGED <<clockVars, request, service, cpuVars, ticks>>

-----------------------------------------------------------------------------
(* The controllers                                                         *)

\* External: a device asks; a line that asks already asks once.
Raise(irq) ==
  /\ irq \notin request
  /\ irq = 0 => ticks < MaxTicks
  /\ request' = request \cup {irq}
  /\ UNCHANGED <<clockVars, boot, mask, service, cpuVars, ticks>>

\* A line is held back by itself and by those before it that are in service.
Ready(irq) == /\ irq \in request \ mask
              /\ \A i \in service \cup (request \ mask) : i # irq => irq < i
              /\ irq \notin service

\* External: every gate is an interrupt gate, which clears the flag; what was
\* interrupted is on the stack with its flag.
Enter(v) ==
  /\ resume' = Append(resume, [cpu |-> cpu, vector |-> vector, interrupts |-> interrupts])
  /\ cpu' = "handler" /\ vector' = v /\ interrupts' = FALSE
  /\ UNCHANGED cause

\* External: the controller answers the processor with the vector.
Deliver(irq) ==
  /\ interrupts /\ cpu # "halted" /\ Ready(irq)
  /\ request' = request \ {irq}
  /\ service' = service \cup {irq}
  /\ Enter(PIC_REMAP_OFFSET + irq)
  /\ UNCHANGED <<clockVars, boot, mask, ticks>>

\* The command ends what is in service, the first line of each controller.
First(lines) == {i \in lines : \A j \in lines : i <= j}

PIC_end_of_int(irq) ==
  service' = service \ (First(service \cap 0 .. 7)
                        \cup (IF irq >= 8 THEN First(service \cap 8 .. 15) ELSE {}))

-----------------------------------------------------------------------------
(* The handlers                                                            *)

\* iret
Return ==
  LET last == resume[Len(resume)]
  IN  /\ cpu' = last.cpu /\ vector' = last.vector /\ interrupts' = last.interrupts
      /\ resume' = SubSeq(resume, 1, Len(resume) - 1)
      /\ UNCHANGED cause

kernelpanic == /\ cpu' = "halted" /\ cause' = vector
               /\ UNCHANGED <<interrupts, resume, vector>>

IRQ_time_handler ==
  /\ ticks' = ticks + 1
  /\ PIC_end_of_int(0)
  /\ time' = IF ticks' % TICKS # 0 THEN time ELSE NextSecond(time).time

\* Wrong on purpose: only the timer's handler ends the interrupt.
IRQ_handler_no_eoi(irq) ==
  \/ irq = 0 /\ IRQ_time_handler
  \/ irq # 0 /\ UNCHANGED <<service, ticks, time>>

\* The keyboard's and the floppy's handlers, and the branch for lines without
\* one, end the interrupt and change nothing that is modelled here.
IRQ_handler(irq) ==
  \/ irq = 0 /\ IRQ_time_handler
  \/ irq # 0 /\ PIC_end_of_int(irq) /\ UNCHANGED <<ticks, time>>

Unmoved == UNCHANGED <<chip, before, format, chipTicks, tmp_time, reg, start, booted>>

Handle ==
  /\ cpu = "handler"
  /\ IDT[vector].to = "IRQ_handler"
  /\ IRQ_handler(vector - PIC_REMAP_OFFSET)
  /\ Return
  /\ Unmoved /\ UNCHANGED <<boot, mask, request>>

\* handlers[0xE] and handlers[0x80]: the page fault and the system call.
InKernelService == cpu = "handler" /\ vector \in {14, 128}

\* Both map and unmap pages on their way, and flush_tlb_entry ends in sti
\* wherever it is called: from there on they can be interrupted.
flush_tlb_entry ==
  /\ InKernelService
  /\ interrupts' = TRUE
  /\ UNCHANGED <<clockVars, boot, picVars, cpu, resume, vector, cause, ticks>>

ISR_handler ==
  /\ cpu = "handler"
  /\ IDT[vector].to = "ISR_handler"
  /\ IF vector \in {14, 128} THEN Return ELSE kernelpanic
  /\ UNCHANGED <<clockVars, boot, picVars, ticks>>

-----------------------------------------------------------------------------
(* The processor between interrupts                                        *)

\* A fault, or an int instruction: without the right to use the gate it ends
\* in a general protection fault.
Trap(n) ==
  /\ cpu = "user"
  /\ Enter(IF n \in Faults \/ IDT[n].ring = 3 THEN n ELSE 13)
  /\ UNCHANGED <<clockVars, boot, picVars, ticks>>

\* The kernel runs into a page it has not mapped yet: of its heap, or of the
\* program a system call is for.  The handlers of interrupts use static data.
PageFault ==
  /\ boot = "up" /\ (cpu = "kernel" \/ InKernelService)
  /\ Len(resume) < MaxNesting
  /\ Enter(14)
  /\ UNCHANGED <<clockVars, boot, picVars, ticks>>

ToUser ==
  /\ boot = "up" /\ cpu = "kernel" /\ cpu' = "user"
  /\ UNCHANGED <<clockVars, boot, picVars, interrupts, resume, vector, cause, ticks>>

\* Drivers unmask and mask their lines (PS2_read, FDC_init), at boot or for a
\* system call.
SetMask(irq) ==
  /\ boot = "up" /\ irq # 0
  /\ cpu = "kernel" \/ (cpu = "handler" /\ vector = 128)
  /\ PIC_unmask(irq) \/ PIC_mask(irq)
  /\ UNCHANGED <<clockVars, boot, request, service, cpuVars, ticks>>

Init ==
  /\ ClockInit
  /\ boot = "isr" /\ mask = {} /\ request = {} /\ service = {}
  /\ cpu = "kernel" /\ interrupts = FALSE /\ resume = <<>>
  /\ vector = None /\ cause = None
  /\ ticks = 0

Next ==
  \/ ISR_init \/ IRQ_init \/ ReadClock \/ PIT_init
  \/ \E irq \in Lines : Raise(irq) \/ Deliver(irq) \/ SetMask(irq)
  \/ Handle \/ ISR_handler \/ flush_tlb_entry \/ PageFault
  \/ \E n \in Faults \cup {33, 128} : Trap(n)
  \/ ToUser

Spec == Init /\ [][Next]_vars

-----------------------------------------------------------------------------
(* Properties                                                              *)

\* The shape of the state.
TypeOK ==
  /\ time \in Times /\ reg \in 0 .. 6 /\ booted \in BOOLEAN
  /\ boot \in {"isr", "irq", "rtc", "up"}
  /\ cpu \in {"kernel", "user", "handler", "halted"}
  /\ mask \subseteq IRQ /\ request \subseteq IRQ /\ service \subseteq IRQ
  /\ ticks \in 0 .. MaxTicks + 1

\* The reading RTC_init settles for is one the chip showed at a single moment,
\* although the chip may count on between any two registers it reads.
OneInstant ==
  [][~booted /\ booted' => time \in {Reading(chip), Reading(before)}]_vars

\* The time of day is the local time at boot plus one second for every TICKS
\* interrupts of the timer, through every carry and whatever else interrupts.
TimeOfDayCounts ==
  booted => SecondOfDay(time) = (start + (ticks \div TICKS)) % SecondsADay

\* The date never goes back, but when the year wraps: it is what files are
\* stamped with.
Later(t, u) ==
  LET Key(r) == <<r.year, r.month, r.monthday, SecondOfDay(r)>>
  IN  \E i \in 1 .. 4 : Key(t)[i] > Key(u)[i] /\ \A j \in 1 .. i - 1 : Key(t)[j] = Key(u)[j]

ForwardOnly ==
  [][booted /\ time' # time => Later(time', time) \/ (time.year = MaxYear /\ time'.year = 0)]_vars

\* A line left in service would hold back itself and every line after it for
\* good.  Page faults and system calls nest, and from their first
\* flush_tlb_entry on they are interrupted in turn; still, no line is in
\* service where the processor can be interrupted, and elsewhere only the one
\* whose handler runs.
NothingInService ==
  /\ interrupts => service = {}
  /\ \A irq \in service : cpu = "handler" /\ vector = PIC_REMAP_OFFSET + irq

\* The kernel stops because of an exception (`undefined exception'), never
\* because a device's interrupt or a system call found no handler.
OnlyFaultsPanic == cpu = "halted" => cause \in 0 .. 31
=============================================================================
