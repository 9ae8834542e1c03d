-------------------------- MODULE InterruptsProofs --------------------------
(***************************************************************************)
(* Interrupts are ended and only exceptions stop the machine, whatever the *)
(* clock, the devices and the programs do; the time read at boot is of one *)
(* instant, and the timer carries it on.                                   *)
(***************************************************************************)
EXTENDS Interrupts, Induction

Up == boot \in {"rtc", "up"}

\* The line in service, if there is one, is the one being handled, it is
\* handled where its interrupt is ended, and nothing interrupts that handler.
OneAtATime ==
  service # {} =>
    /\ cpu = "handler" /\ ~interrupts
    /\ vector - PIC_REMAP_OFFSET \in Lines
    /\ service = {vector - PIC_REMAP_OFFSET}

\* What is interrupted, with its flag.
Saved == [cpu : {"kernel", "user", "handler"}, vector : Int, interrupts : BOOLEAN]

\* Below the handlers on the stack is the kernel or a program, and of the
\* handlers only those of page faults and system calls are interrupted.
Nested ==
  /\ resume \in Seq(Saved)
  /\ cpu = "handler" => resume # <<>>
  /\ cpu \in {"kernel", "user"} => resume = <<>>
  /\ \A i \in 1 .. Len(resume) :
       /\ resume[i].cpu = "handler" <=> i > 1
       /\ resume[i].cpu = "handler" => resume[i].vector \in {14, 128}

\* What the processor can be handling, and what it can return to.
Handled ==
  /\ cpu \in {"user", "handler"} => Up
  /\ cpu = "handler" => vector \in 0 .. 47 \cup {128}
  /\ cpu = "handler" /\ interrupts => vector \in {14, 128}
  /\ cpu \in {"kernel", "user", "handler", "halted"}
  /\ vector \in Int /\ interrupts \in BOOLEAN
  /\ boot \in {"isr", "irq"} => cpu = "kernel" /\ ~interrupts
  /\ boot \in {"isr", "irq", "rtc", "up"}

Inv == OneAtATime /\ Nested /\ Handled /\ OnlyFaultsPanic

-----------------------------------------------------------------------------
\* The gates once IRQ_init has overwritten those of the controllers: the
\* exceptions and the system call go to ISR_handler.
LEMMA Gates ==
  ASSUME Up, NEW v \in 0 .. 255
  PROVE  /\ v \in 32 .. 47 => IDT[v].to = "IRQ_handler"
         /\ v \notin 32 .. 47 => IDT[v].to = "ISR_handler"
         /\ IDT[v].ring = 3 => v = 128
  <1>1. IDT = IRQ_gates(ISR_init_gates)
    BY DEF Up, IDT
  <1>2. v - 32 \in 0 .. 15 <=> v \in 32 .. 47
    OBVIOUS
  <1>3. IDT[v] = IF v \in 32 .. 47 THEN Gate("IRQ_handler", 0)
                 ELSE Gate("ISR_handler", IF v = 128 THEN 3 ELSE 0)
    BY <1>1, <1>2 DEF IRQ_gates, ISR_init_gates, IRQ, PIC_REMAP_OFFSET
  <1> QED  BY <1>3 DEF Gate

\* PIC_end_of_int leaves no line in service when only its own was.
LEMMA EndOfInt ==
  ASSUME NEW irq \in Lines, service \in {{}, {irq}}, PIC_end_of_int(irq)
  PROVE  service' = {}
  <1>1. irq \in 0 .. 7
    BY InterruptsAssumption DEF InterruptsAssumption
  <1>2. ~(irq >= 8)
    BY <1>1
  <1>3. CASE service = {}
    BY <1>2, <1>3 DEF PIC_end_of_int, First
  <1>4. CASE service = {irq}
    <2>1. First({irq}) = {irq}
      BY <1>1 DEF First
    <2>2. {irq} \cap 0 .. 7 = {irq}
      BY <1>1
    <2> QED  BY <1>2, <1>4, <2>1, <2>2 DEF PIC_end_of_int
  <1> QED  BY <1>3, <1>4

LEMMA InitInv == Init => Inv
  <1> SUFFICES ASSUME Init  PROVE Inv
    OBVIOUS
  <1>1. /\ service = {} /\ cpu = "kernel" /\ interrupts = FALSE /\ resume = <<>>
        /\ vector = 256 /\ boot = "isr"
    BY DEF Init, None
  <1>2. <<>> \in Seq(Saved) /\ Len(<<>>) = 0
    OBVIOUS
  <1>3. Nested
    BY <1>1, <1>2 DEF Nested
  <1>4. Handled
    <2>1. interrupts = FALSE
      BY DEF Init
    <2>2. ~interrupts /\ interrupts \in BOOLEAN
      BY <2>1
    <2>3. vector \in Int
      BY <1>1
    <2> QED  BY <1>1, <2>2, <2>3 DEF Handled, Up
  <1> QED  BY <1>1, <1>3, <1>4 DEF Inv, OneAtATime, OnlyFaultsPanic

-----------------------------------------------------------------------------
\* Entering a handler puts what is interrupted on the stack.
LEMMA EnterNests ==
  ASSUME Nested, Handled, NEW v, Enter(v),
         cpu \in {"kernel", "user"} \/ (cpu = "handler" /\ vector \in {14, 128})
  PROVE  Nested'
  <1> DEFINE last == [cpu |-> cpu, vector |-> vector, interrupts |-> interrupts]
             n == Len(resume)
  <1>1. cpu' = "handler" /\ resume' = Append(resume, last)
    BY DEF Enter
  <1>2. last \in Saved
    BY DEF Handled, Saved
  <1>3. last.cpu = cpu /\ last.vector = vector
    OBVIOUS
  <1>4. last.cpu = "handler" <=> n + 1 > 1
    BY <1>3 DEF Nested
  <1> HIDE DEF last
  <1>5. resume \in Seq(Saved) /\ n \in Nat
    BY DEF Nested
  <1>6. /\ resume' \in Seq(Saved) /\ Len(resume') = n + 1
        /\ resume'[n + 1] = last /\ \A i \in 1 .. n : resume'[i] = resume[i]
    BY <1>1, <1>2, <1>5
  <1>7. ASSUME NEW i \in 1 .. n + 1
        PROVE  /\ resume'[i].cpu = "handler" <=> i > 1
               /\ resume'[i].cpu = "handler" => resume'[i].vector \in {14, 128}
    <2>1. CASE i = n + 1
      BY <1>3, <1>4, <1>6, <2>1
    <2>2. CASE i # n + 1
      <3>1. i \in 1 .. n
        BY <1>5, <2>2
      <3> QED  BY <1>6, <3>1 DEF Nested
    <2> QED  BY <2>1, <2>2
  <1>8. resume' # <<>>
    BY <1>5, <1>6
  <1> QED  BY <1>1, <1>6, <1>7, <1>8 DEF Nested

LEMMA EmptyHasNone == Len(<<>>) = 0
  OBVIOUS

\* Returning takes it off again.
LEMMA ReturnNests ==
  ASSUME Nested, cpu = "handler", Return
  PROVE  /\ Nested' /\ cpu' \in {"kernel", "user", "handler"}
         /\ vector' \in Int /\ interrupts' \in BOOLEAN /\ cause' = cause
         /\ cpu' = "handler" => vector' \in {14, 128}
  <1> DEFINE n == Len(resume)
             last == resume[n]
  <1>1. resume \in Seq(Saved) /\ n \in Nat /\ n > 0
    BY DEF Nested
  <1>2. last \in Saved
    BY <1>1
  <1>3. /\ cpu' = last.cpu /\ vector' = last.vector /\ interrupts' = last.interrupts
        /\ resume' = SubSeq(resume, 1, n - 1) /\ cause' = cause
    BY DEF Return
  <1>4. /\ last.cpu = "handler" <=> n > 1
        /\ last.cpu = "handler" => last.vector \in {14, 128}
    BY <1>1 DEF Nested
  <1> HIDE DEF last
  <1> HIDE DEF n
  <1>5. /\ resume' \in Seq(Saved) /\ Len(resume') = n - 1
        /\ \A i \in 1 .. n - 1 : resume'[i] = resume[i]
    <2>1. n - 1 \in 0 .. Len(resume)
      BY <1>1 DEF n
    <2>2. \A i \in 1 .. n - 1 : i \in 1 .. Len(resume) /\ resume[i] \in Saved
      BY <1>1, <2>1
    <2>3. SubSeq(resume, 1, n - 1) = [i \in 1 .. n - 1 |-> resume[i]]
      BY <1>1, <2>1
    <2> QED  BY <1>1, <1>3, <2>1, <2>2, <2>3
  <1>6. ASSUME NEW i \in 1 .. n - 1
        PROVE  /\ resume'[i].cpu = "handler" <=> i > 1
               /\ resume'[i].cpu = "handler" => resume'[i].vector \in {14, 128}
    <2>1. i \in 1 .. Len(resume)
      BY <1>1 DEF n
    <2> QED  BY <1>5, <2>1 DEF Nested
  <1>7. last.cpu \in {"kernel", "user", "handler"} /\ last.vector \in Int /\ last.interrupts \in BOOLEAN
    BY <1>2 DEF Saved
  <1>8. cpu' = "handler" => resume' # <<>>
    <2> SUFFICES ASSUME cpu' = "handler", resume' = <<>>  PROVE FALSE
      OBVIOUS
    <2>1. Len(resume') = 0
      BY Zenon, EmptyHasNone
    <2>2. n > 1
      BY <1>3, <1>4
    <2> QED  BY <1>1, <1>5, <2>1, <2>2
  <1>9. cpu' \in {"kernel", "user"} => resume' = <<>>
    BY <1>1, <1>3, <1>4, <1>5, <1>7
  <1>10. Nested'
    BY <1>5, <1>6, <1>8, <1>9 DEF Nested
  <1> QED  BY <1>3, <1>4, <1>7, <1>10

LEMMA NestedSame ==
  ASSUME Nested, resume' = resume, cpu' = cpu  PROVE Nested'
  BY DEF Nested

LEMMA NextInv == Inv /\ [Next]_vars => Inv'
  <1> USE DEF Inv, Handled, Up, OnlyFaultsPanic
  <1> SUFFICES ASSUME Inv, [Next]_vars  PROVE Inv'
    OBVIOUS
  <1>1. CASE ISR_init
    BY <1>1, NestedSame DEF ISR_init, At, picVars, cpuVars, OneAtATime
  <1>2. CASE IRQ_init
    BY <1>2, NestedSame DEF IRQ_init, At, PIC_configure, OneAtATime
  <1>3. CASE ReadClock
    BY <1>3, NestedSame DEF ReadClock, picVars, cpuVars, OneAtATime
  <1>4. CASE PIT_init
    BY <1>4, NestedSame DEF PIT_init, At, cpuVars, OneAtATime
  <1>5. ASSUME NEW irq \in Lines, Raise(irq)  PROVE Inv'
    BY <1>5, NestedSame DEF Raise, cpuVars, OneAtATime
  <1>6. ASSUME NEW irq \in Lines, Deliver(irq)  PROVE Inv'
    <2>1. /\ cpu \in {"kernel", "user", "handler"} /\ Up /\ service = {}
          /\ cpu = "handler" => vector \in {14, 128}
          /\ Enter(32 + irq) /\ service' = service \cup {irq} /\ boot' = boot
      BY <1>6 DEF Deliver, OneAtATime, PIC_REMAP_OFFSET
    <2>2. irq \in 0 .. 7
      BY InterruptsAssumption DEF InterruptsAssumption
    <2>3. (32 + irq) - 32 = irq /\ 32 + irq \in 0 .. 47 /\ 32 + irq \in Int
      BY <2>2
    <2>4. /\ cpu' = "handler" /\ vector' = 32 + irq /\ interrupts' = FALSE
          /\ service' = {irq} /\ cause' = cause
      BY <2>1 DEF Enter
    <2>5. Nested'
      BY <2>1, EnterNests
    <2>6. OneAtATime'
      BY <2>3, <2>4 DEF OneAtATime, PIC_REMAP_OFFSET
    <2> QED  BY <2>1, <2>3, <2>4, <2>5, <2>6
  <1>7. ASSUME NEW irq \in Lines, SetMask(irq)  PROVE Inv'
    BY <1>7, NestedSame DEF SetMask, cpuVars, OneAtATime
  <1>8. CASE Handle
    <2>1. /\ cpu = "handler" /\ Up /\ Return /\ boot' = boot
      BY <1>8 DEF Handle
    <2>2. service' = {}
      <3>1. CASE service = {}
        BY <1>8, <3>1 DEF Handle, IRQ_handler, IRQ_time_handler, PIC_end_of_int, First
      <3>2. CASE service # {}
        <4> DEFINE irq == vector - PIC_REMAP_OFFSET
        <4>1. irq \in Lines /\ service = {irq}
          BY <3>2 DEF OneAtATime
        <4>2. PIC_end_of_int(irq)
          BY <1>8 DEF Handle, IRQ_handler, IRQ_time_handler
        <4> QED  BY <4>1, <4>2, EndOfInt
      <3> QED  BY <3>1, <3>2
    <2>3. /\ Nested' /\ cpu' \in {"kernel", "user", "handler"}
          /\ vector' \in Int /\ interrupts' \in BOOLEAN /\ cause' = cause
          /\ cpu' = "handler" => vector' \in {14, 128}
      BY <2>1, ReturnNests
    <2>4. OneAtATime'
      BY <2>2 DEF OneAtATime
    <2> QED  BY <2>1, <2>3, <2>4
  <1>9. CASE ISR_handler
    <2>1. /\ cpu = "handler" /\ Up /\ IDT[vector].to = "ISR_handler"
          /\ vector \in 0 .. 47 \cup {128} /\ boot' = boot /\ service' = service
      BY <1>9 DEF ISR_handler, picVars
    <2>2. vector \notin 32 .. 47
      <3>1. vector \in 0 .. 255
        BY <2>1
      <3>2. vector \in 32 .. 47 => IDT[vector].to = "IRQ_handler"
        BY <2>1, <3>1, Gates
      <3> QED  BY <2>1, <3>2
    <2>3. service = {}
      <3>1. ASSUME vector - 32 \in Lines  PROVE FALSE
        BY <2>1, <2>2, <3>1, InterruptsAssumption DEF InterruptsAssumption
      <3> QED  BY <2>1, <3>1 DEF OneAtATime, PIC_REMAP_OFFSET
    <2>4. CASE vector \in {14, 128}
      <3>1. Return
        BY <1>9, <2>4 DEF ISR_handler
      <3>2. /\ Nested' /\ cpu' \in {"kernel", "user", "handler"}
            /\ vector' \in Int /\ interrupts' \in BOOLEAN /\ cause' = cause
            /\ cpu' = "handler" => vector' \in {14, 128}
        BY <2>1, <3>1, ReturnNests
      <3>3. OneAtATime'
        BY <2>1, <2>3 DEF OneAtATime
      <3> QED  BY <2>1, <3>2, <3>3
    <2>5. CASE vector \notin {14, 128}
      <3>1. /\ cpu' = "halted" /\ cause' = vector /\ resume' = resume
            /\ vector' = vector /\ interrupts' = interrupts
        BY <1>9, <2>5 DEF ISR_handler, kernelpanic
      <3>2. vector \in 0 .. 31
        BY <2>1, <2>2, <2>5
      <3>3. Nested'
        BY <3>1 DEF Nested
      <3>4. OneAtATime'
        BY <2>1, <2>3 DEF OneAtATime
      <3> QED  BY <2>1, <3>1, <3>2, <3>3, <3>4
    <2> QED  BY <2>4, <2>5
  <1>10. ASSUME NEW n \in Faults \cup {33, 128}, Trap(n)  PROVE Inv'
    <2> DEFINE v == IF n \in Faults \/ IDT[n].ring = 3 THEN n ELSE 13
    <2>1. cpu = "user" /\ Up /\ service' = service /\ boot' = boot /\ Enter(v)
      BY <1>10 DEF Trap, picVars
    <2>2. v \in 0 .. 47 \cup {128} /\ v \in Int
      BY <2>1, Gates, InterruptsAssumption DEF InterruptsAssumption
    <2> HIDE DEF v
    <2>3. cpu' = "handler" /\ vector' = v /\ interrupts' = FALSE /\ cause' = cause
      BY <2>1 DEF Enter
    <2>4. Nested'
      BY <2>1, EnterNests
    <2>5. OneAtATime'
      BY <2>1 DEF OneAtATime
    <2> QED  BY <2>1, <2>2, <2>3, <2>4, <2>5
  <1>11. CASE ToUser
    <2>1. /\ boot = "up" /\ cpu = "kernel" /\ cpu' = "user" /\ resume' = resume
          /\ UNCHANGED <<boot, service, interrupts, vector, cause>>
      BY <1>11 DEF ToUser, picVars
    <2>2. Nested'
      BY <2>1 DEF Nested
    <2>3. OneAtATime'
      BY <2>1 DEF OneAtATime
    <2> QED  BY <2>1, <2>2, <2>3
  <1>12. CASE UNCHANGED vars
    BY <1>12, NestedSame DEF vars, picVars, cpuVars, OneAtATime
  <1>13. CASE flush_tlb_entry
    <2>1. /\ cpu = "handler" /\ vector \in {14, 128} /\ interrupts' = TRUE
          /\ UNCHANGED <<boot, service, cpu, resume, vector, cause>>
      BY <1>13 DEF flush_tlb_entry, InKernelService, picVars
    <2>2. service = {}
      <3>1. vector - 32 \notin Lines
        BY <2>1, InterruptsAssumption DEF InterruptsAssumption
      <3> QED  BY <3>1 DEF OneAtATime, PIC_REMAP_OFFSET
    <2>3. OneAtATime'
      BY <2>1, <2>2 DEF OneAtATime
    <2> QED  BY <2>1, <2>3, NestedSame
  <1>14. CASE PageFault
    <2>1. /\ boot = "up" /\ Enter(14) /\ service' = service /\ boot' = boot
          /\ cpu \in {"kernel", "user"} \/ (cpu = "handler" /\ vector \in {14, 128})
      BY <1>14 DEF PageFault, InKernelService, picVars
    <2>2. cpu' = "handler" /\ vector' = 14 /\ interrupts' = FALSE /\ cause' = cause
      BY <2>1 DEF Enter
    <2>3. service = {}
      <3>1. vector \in {14, 128} => vector - 32 \notin Lines
        BY InterruptsAssumption DEF InterruptsAssumption
      <3> QED  BY <2>1, <3>1 DEF OneAtATime, PIC_REMAP_OFFSET
    <2>4. Nested'
      BY <2>1, EnterNests
    <2>5. OneAtATime'
      BY <2>1, <2>3 DEF OneAtATime
    <2>6. Handled'
      <3>1. ~interrupts' /\ interrupts' \in BOOLEAN
        BY <2>2
      <3>2. boot' = "up"
        BY <2>1
      <3> QED  BY <2>2, <3>1, <3>2 DEF Handled, Up
    <2> QED  BY <2>1, <2>2, <2>4, <2>5, <2>6
  <1> QED
    BY <1>1, <1>2, <1>3, <1>4, <1>5, <1>6, <1>7, <1>8, <1>9, <1>10, <1>11, <1>12,
       <1>13, <1>14 DEF Next

-----------------------------------------------------------------------------
\* However page faults, system calls and interrupts nest, no line is in service
\* when the processor can be interrupted: IRQ_handler ends the one that was
\* delivered, at the controller it came from, and nothing interrupts it.
THEOREM InterruptsEnded == Spec => []NothingInService
  <1>1. Inv => NothingInService
    <2> SUFFICES ASSUME Inv  PROVE NothingInService
      OBVIOUS
    <2>1. interrupts => service = {}
      BY DEF Inv, OneAtATime
    <2>2. ASSUME NEW irq \in service  PROVE cpu = "handler" /\ vector = PIC_REMAP_OFFSET + irq
      BY <2>2 DEF Inv, OneAtATime, Handled, PIC_REMAP_OFFSET
    <2> QED  BY <2>1, <2>2 DEF NothingInService
  <1> QED  BY InitInv, NextInv, <1>1, PTL DEF Spec

\* kernelpanic is reached by exceptions only: ISR_handler knows the system
\* call, and IRQ_init has taken the controllers' vectors away from it.
THEOREM PanicsAreFaults == Spec => []OnlyFaultsPanic
  <1>1. Inv => OnlyFaultsPanic
    BY DEF Inv
  <1> QED  BY InitInv, NextInv, <1>1, PTL DEF Spec

-----------------------------------------------------------------------------
(* The clock: fields of a date                                             *)

Fields == {"seconds", "minutes", "hours", "monthday", "month", "year"}

LEMMA FieldsAre ==
  /\ \A i \in 1 .. 6 : Registers[i] \in Fields
  /\ \A f \in Fields : \E i \in 1 .. 6 : Registers[i] = f
  /\ Registers[4] = "monthday"
  /\ NoTime \in [Fields -> Int] /\ NoTime["monthday"] = 0
  <1>1. /\ Registers[1] = "seconds" /\ Registers[2] = "minutes" /\ Registers[3] = "hours"
        /\ Registers[4] = "monthday" /\ Registers[5] = "month" /\ Registers[6] = "year"
    BY DEF Registers
  <1>2. 1 .. 6 = {1, 2, 3, 4, 5, 6}
    OBVIOUS
  <1>3. {Registers[i] : i \in 1 .. 6} = Fields
    BY <1>1, <1>2 DEF Fields
  <1>4. NoTime \in [Fields -> Int] /\ NoTime["monthday"] = 0
    BY <1>3 DEF NoTime, Fields
  <1> QED  BY <1>1, <1>2, <1>4 DEF Fields

LEMMA DateIs ==
  ASSUME NEW c \in Dates
  PROVE  /\ c \in [Fields -> Nat]
         /\ c["seconds"] \in 0 .. MaxSecond /\ c["minutes"] \in 0 .. MaxMinute
         /\ c["hours"] \in 0 .. MaxHour /\ c["monthday"] # 0 /\ c["year"] \in 0 .. CENTURY - 1
  BY DEF Dates, Fields

\* A date with one field counted on, which wraps at its maximum.
Counted(t, f, max) == [t EXCEPT ![f] = IF t[f] = max THEN 0 ELSE t[f] + 1]

LEMMA IncIs ==
  ASSUME NEW x, x.time \in [Fields -> Int], NEW f \in Fields \ {"year"},
         NEW max \in 0 .. BYTE - 1, x.time[f] \in 0 .. max
  PROVE  /\ Inc(x, f, max).time = IF x.carry THEN Counted(x.time, f, max) ELSE x.time
         /\ Inc(x, f, max).carry <=> x.carry /\ x.time[f] = max
  <1>1. BYTE \in Nat \ {0}
    BY ClockAssumption DEF ClockAssumption
  <1>2. CASE ~x.carry
    BY <1>2 DEF Inc
  <1>3. CASE x.carry /\ x.time[f] = max
    <2>1. 0 % BYTE = 0
      BY <1>1
    <2> QED  BY <1>3, <2>1 DEF Inc, inc_unit_of_time, Counted
  <1>4. CASE x.carry /\ x.time[f] # max
    <2>1. (x.time[f] + 1) % BYTE = x.time[f] + 1
      BY <1>1, <1>4
    <2> QED  BY <1>4, <2>1 DEF Inc, inc_unit_of_time, Counted
  <1> QED  BY <1>2, <1>3, <1>4

LEMMA DayIs ==
  ASSUME NEW t \in [Fields -> Int]
  PROVE  LET d == inc_day_and_month(t, TRUE)
         IN  /\ d.carry /\ d.time \in [Fields -> Int]
             /\ \A f \in Fields \ {"monthday", "month"} : d.time[f] = t[f]
  <1>1. BYTE \in Nat \ {0}
    BY ClockAssumption DEF ClockAssumption
  <1>2. (t["monthday"] + 1) % BYTE \in Int /\ (t["month"] + 1) % BYTE \in Int
    BY <1>1 DEF Fields
  <1> DEFINE last == t["monthday"] = max_monthday(t["year"], t["month"])
             end  == last /\ t["month"] = 12
             a    == IF last THEN 0 ELSE (t["monthday"] + 1) % BYTE
             b    == IF end THEN 0 ELSE IF last THEN (t["month"] + 1) % BYTE ELSE t["month"]
  <1> DEFINE n == [t EXCEPT !["monthday"] = a, !["month"] = b]
             d == inc_day_and_month(t, TRUE)
  <1>3. d.time = n
    BY DEF inc_day_and_month
  <1>4. d.carry
    BY DEF inc_day_and_month
  <1>5. a \in Int /\ b \in Int
    BY <1>2 DEF Fields
  <1> HIDE DEF a, b
  <1>6. n \in [Fields -> Int]
    BY <1>5 DEF Fields
  <1>7. \A f \in Fields \ {"monthday", "month"} : n[f] = t[f]
    BY DEF Fields
  <1> HIDE DEF n, d
  <1>8. d.time \in [Fields -> Int] /\ \A f \in Fields \ {"monthday", "month"} : d.time[f] = t[f]
    BY <1>3, <1>6, <1>7
  <1> QED  BY <1>4, <1>8 DEF d


\* A time of day.
InDay(t) == /\ t["seconds"] \in 0 .. MaxSecond /\ t["minutes"] \in 0 .. MaxMinute
            /\ t["hours"] \in 0 .. MaxHour

\* A second counted on, up to the hours.
Hour(t) == Inc(Inc(Inc([time |-> t, carry |-> TRUE], "seconds", MaxSecond),
                   "minutes", MaxMinute), "hours", MaxHour)

LEMMA HourIs ==
  ASSUME NEW t \in [Fields -> Int], InDay(t)
  PROVE  LET n  == Hour(t).time
             c1 == t["seconds"] = MaxSecond
             c2 == c1 /\ t["minutes"] = MaxMinute
             c3 == c2 /\ t["hours"] = MaxHour
         IN  /\ n \in [Fields -> Int] /\ (Hour(t).carry <=> c3)
             /\ n["seconds"] = IF c1 THEN 0 ELSE t["seconds"] + 1
             /\ n["minutes"] = IF c2 THEN 0 ELSE IF c1 THEN t["minutes"] + 1 ELSE t["minutes"]
             /\ n["hours"]   = IF c3 THEN 0 ELSE IF c2 THEN t["hours"] + 1 ELSE t["hours"]
             /\ \A f \in {"monthday", "month", "year"} : n[f] = t[f]
  <1> DEFINE c1 == t["seconds"] = MaxSecond
             c2 == c1 /\ t["minutes"] = MaxMinute
             c3 == c2 /\ t["hours"] = MaxHour
             s  == Counted(t, "seconds", MaxSecond)
             m  == IF c1 THEN Counted(s, "minutes", MaxMinute) ELSE s
             h  == IF c2 THEN Counted(m, "hours", MaxHour) ELSE m
             is == Inc([time |-> t, carry |-> TRUE], "seconds", MaxSecond)
             im == Inc(is, "minutes", MaxMinute)
             ih == Inc(im, "hours", MaxHour)
  <1>1. /\ MaxSecond \in 0 .. BYTE - 1 /\ MaxMinute \in 0 .. BYTE - 1 /\ MaxHour \in 0 .. BYTE - 1
        /\ MaxYear \in Nat
    BY ClockAssumption DEF ClockAssumption
  <1>2. {"seconds", "minutes", "hours"} \subseteq Fields \ {"year"}
    BY DEF Fields
  <1>3. is.time = s /\ (is.carry <=> c1)
    <2> DEFINE x == [time |-> t, carry |-> TRUE]
    <2>1. x.time = t /\ x.carry
      OBVIOUS
    <2> HIDE DEF x
    <2>2. x.time["seconds"] \in 0 .. MaxSecond /\ x.time \in [Fields -> Int]
      BY <2>1 DEF InDay
    <2>3. Inc(x, "seconds", MaxSecond).time = Counted(t, "seconds", MaxSecond)
          /\ (Inc(x, "seconds", MaxSecond).carry <=> t["seconds"] = MaxSecond)
      BY <1>1, <1>2, <2>1, <2>2, IncIs
    <2> QED  BY <2>3 DEF x
  <1>4. s \in [Fields -> Int] /\ s["minutes"] = t["minutes"] /\ s["hours"] = t["hours"]
    BY DEF Fields, Counted
  <1>5. im.time = m /\ (im.carry <=> c2)
    <2> HIDE DEF s, is
    <2>1. s["minutes"] \in 0 .. MaxMinute
      BY <1>4 DEF InDay
    <2> QED  BY <1>1, <1>2, <1>3, <1>4, <2>1, IncIs
  <1>6. m \in [Fields -> Int] /\ m["hours"] = t["hours"]
    <2> HIDE DEF s
    <2> QED  BY <1>4 DEF Fields, Counted
  <1>7. ih.time = h /\ (ih.carry <=> c3)
    <2> HIDE DEF s, m, im
    <2>1. m["hours"] \in 0 .. MaxHour
      BY <1>6 DEF InDay
    <2> QED  BY <1>1, <1>2, <1>5, <1>6, <2>1, IncIs
  <1>8. /\ h \in [Fields -> Int]
        /\ h["seconds"] = IF c1 THEN 0 ELSE t["seconds"] + 1
        /\ h["minutes"] = IF c2 THEN 0 ELSE IF c1 THEN t["minutes"] + 1 ELSE t["minutes"]
        /\ h["hours"]   = IF c3 THEN 0 ELSE IF c2 THEN t["hours"] + 1 ELSE t["hours"]
        /\ \A f \in {"monthday", "month", "year"} : h[f] = t[f]
    BY DEF Fields, Counted
  <1>9. Hour(t) = ih
    BY DEF Hour
  <1> HIDE DEF s, m, h, is, im, ih
  <1> QED  BY <1>7, <1>8, <1>9

\* What is counted on when a second has passed.
LEMMA NextIs ==
  ASSUME NEW t \in [Fields -> Int], InDay(t), t["year"] \in 0 .. MaxYear
  PROVE  LET n  == NextSecond(t).time
             c1 == t["seconds"] = MaxSecond
             c2 == c1 /\ t["minutes"] = MaxMinute
             c3 == c2 /\ t["hours"] = MaxHour
         IN  /\ n \in [Fields -> Int]
             /\ n["seconds"] = IF c1 THEN 0 ELSE t["seconds"] + 1
             /\ n["minutes"] = IF c2 THEN 0 ELSE IF c1 THEN t["minutes"] + 1 ELSE t["minutes"]
             /\ n["hours"]   = IF c3 THEN 0 ELSE IF c2 THEN t["hours"] + 1 ELSE t["hours"]
             /\ ~c3 => \A f \in {"monthday", "month", "year"} : n[f] = t[f]
             /\ c3 => n["year"] = IF t["year"] = MaxYear THEN 0 ELSE t["year"] + 1
  <1> DEFINE c1 == t["seconds"] = MaxSecond
             c2 == c1 /\ t["minutes"] = MaxMinute
             c3 == c2 /\ t["hours"] = MaxHour
             h  == Hour(t).time
             d  == IF Hour(t).carry THEN inc_day_and_month(h, TRUE) ELSE Hour(t)
             y  == Inc(d, "year", MaxYear)
  <1>1. MaxYear \in Nat
    BY ClockAssumption DEF ClockAssumption
  <1>7. Hour(t).carry <=> c3
    BY HourIs
  <1>8. /\ h \in [Fields -> Int]
        /\ h["seconds"] = IF c1 THEN 0 ELSE t["seconds"] + 1
        /\ h["minutes"] = IF c2 THEN 0 ELSE IF c1 THEN t["minutes"] + 1 ELSE t["minutes"]
        /\ h["hours"]   = IF c3 THEN 0 ELSE IF c2 THEN t["hours"] + 1 ELSE t["hours"]
        /\ \A f \in {"monthday", "month", "year"} : h[f] = t[f]
    BY HourIs
  <1>10. NextSecond(t) = y
    BY DEF NextSecond, Hour
  <1>11. CASE ~c3
    <2>1. d.time = h /\ ~d.carry
      BY <1>7, <1>11
    <2> HIDE DEF h
    <2> HIDE DEF d
    <2>2. y = d
      BY <2>1 DEF Inc
    <2> QED  BY <1>8, <1>10, <1>11, <2>1, <2>2
  <1>12. CASE c3
    <2> DEFINE e == inc_day_and_month(h, TRUE)
    <2>1. d = e
      BY <1>7, <1>12
    <2> HIDE DEF h
    <2>2. e.carry /\ e.time \in [Fields -> Int] /\ \A f \in Fields \ {"monthday", "month"} : e.time[f] = h[f]
      BY <1>8, DayIs
    <2> HIDE DEF d, e
    <2> DEFINE u == IF e.time["year"] = MaxYear THEN 0 ELSE e.time["year"] + 1
    <2>3. e.time["year"] = t["year"]
      BY <1>8, <2>2 DEF Fields
    <2>4. u \in 0 .. MaxYear /\ u = IF t["year"] = MaxYear THEN 0 ELSE t["year"] + 1
      BY <1>1, <2>3
    <2>5. y.time = [e.time EXCEPT !["year"] = u % (MaxYear + 1)]
      BY <2>1, <2>2 DEF Inc, inc_unit_of_time
    <2>6. u % (MaxYear + 1) = u
      BY <1>1, <2>4
    <2> HIDE DEF u, y
    <2>7. y.time \in [Fields -> Int] /\ y.time["year"] = u /\ \A f \in {"seconds", "minutes", "hours"} : y.time[f] = h[f]
      BY <2>2, <2>4, <2>5, <2>6 DEF Fields
    <2> QED  BY <1>8, <1>10, <1>12, <2>4, <2>7
  <1> QED  BY <1>11, <1>12

\* The chip counts its seconds, minutes and hours likewise.
LEMMA ChipIs ==
  ASSUME chip \in [Fields -> Nat], InDay(chip)
  PROVE  /\ ChipSecond \in [Fields -> Nat] /\ InDay(ChipSecond)
         /\ ChipSecond["year"] = chip["year"]
         /\ ChipSecond["monthday"] \in {chip["monthday"], chip["monthday"] + 1}
  <1> DEFINE n == Hour(chip).time
             e == [n EXCEPT !["monthday"] = n["monthday"] + 1]
  <1>1. MaxSecond \in Nat /\ MaxMinute \in Nat /\ MaxHour \in Nat
    BY ClockAssumption DEF ClockAssumption
  <1>2. chip \in [Fields -> Int]
    OBVIOUS
  <1>3. n \in [Fields -> Int] /\ \A f \in {"monthday", "month", "year"} : n[f] = chip[f]
    BY <1>2, HourIs
  <1>4. /\ n["seconds"] \in 0 .. MaxSecond /\ n["minutes"] \in 0 .. MaxMinute
        /\ n["hours"] \in 0 .. MaxHour
    BY <1>1, <1>2, HourIs DEF InDay
  <1>5. ChipSecond = IF Hour(chip).carry THEN e ELSE n
    BY DEF ChipSecond, Hour
  <1> HIDE DEF n
  <1>6. \A f \in Fields : n[f] \in Nat
    BY <1>1, <1>3, <1>4 DEF Fields
  <1>7. /\ e \in [Fields -> Nat] /\ e["monthday"] = n["monthday"] + 1
        /\ \A f \in Fields \ {"monthday"} : e[f] = n[f]
    BY <1>3, <1>6 DEF Fields
  <1>8. n \in [Fields -> Nat]
    BY <1>3, <1>6
  <1> HIDE DEF e
  <1> QED  BY <1>3, <1>4, <1>5, <1>7, <1>8 DEF InDay, Fields

-----------------------------------------------------------------------------
(* The second of the day                                                   *)

\* SecondOfDay of the three fields.
Second(h, m, s) == (h * (MaxMinute + 1) + m) * (MaxSecond + 1) + s

LEMMA DayIsLong ==
  /\ SecondsADay \in Nat \ {0}
  /\ \A h \in 0 .. MaxHour, m \in 0 .. MaxMinute, s \in 0 .. MaxSecond :
       Second(h, m, s) \in 0 .. SecondsADay - 1
  <1> DEFINE S == MaxSecond + 1
             M == MaxMinute + 1
             H == MaxHour + 1
  <1>1. S \in Nat \ {0} /\ M \in Nat \ {0} /\ H \in Nat \ {0}
    BY ClockAssumption DEF ClockAssumption
  <1>2. ASSUME NEW x \in Nat \ {0}, NEW y \in Nat \ {0}  PROVE x * y \in Nat \ {0}
    BY <1>2
  <1>3. H * M \in Nat \ {0} /\ (H * M) * S \in Nat \ {0}
    <2> HIDE DEF S, M, H
    <2>1. H * M \in Nat \ {0}
      BY <1>1, <1>2
    <2> DEFINE x == H * M
    <2> HIDE DEF x
    <2>2. x * S \in Nat \ {0}
      BY <1>1, <1>2, <2>1 DEF x
    <2> QED  BY <2>1, <2>2 DEF x
  <1>4. SecondsADay = (H * M) * S
    BY DEF SecondsADay
  <1>5. ASSUME NEW h \in 0 .. MaxHour, NEW m \in 0 .. MaxMinute, NEW s \in 0 .. MaxSecond
        PROVE  Second(h, m, s) \in 0 .. SecondsADay - 1
    <2>1. h \in 0 .. H - 1 /\ m \in 0 .. M - 1 /\ s \in 0 .. S - 1
      BY ClockAssumption DEF ClockAssumption
    <2> DEFINE a == h * M
               b == H * M
               c == (a + m) * S
               e == b * S
    <2>2. Second(h, m, s) = c + s /\ SecondsADay = e
      BY <1>4 DEF Second
    <2> HIDE DEF S, M, H
    <2>3. (h + 1) * M <= b /\ (h + 1) * M = a + M /\ a \in Nat /\ b \in Nat
      BY <1>1, <2>1, Monotone
    <2>4. a + m + 1 <= b
      <3> HIDE DEF a, b
      <3> QED  BY <1>1, <2>1, <2>3
    <2>5. (a + m + 1) * S <= e /\ (a + m + 1) * S = c + S /\ c \in Nat /\ e \in Nat
      <3> HIDE DEF a, b
      <3>1. a + m + 1 \in Nat /\ a + m \in Nat
        BY <1>1, <2>1, <2>3
      <3> QED  BY <1>1, <2>1, <2>3, <2>4, <3>1, Monotone
    <2> HIDE DEF c, e
    <2> QED  BY <1>1, <2>1, <2>2, <2>5
  <1> QED  BY <1>3, <1>4, <1>5

\* Every carry adds one to the second of the day, the last one ends it.
LEMMA SecondMore ==
  ASSUME NEW h \in 0 .. MaxHour, NEW m \in 0 .. MaxMinute, NEW s \in 0 .. MaxSecond
  PROVE  /\ Second(h, m, s) \in Int
         /\ Second(h, m, s + 1) = Second(h, m, s) + 1
         /\ s = MaxSecond => Second(h, m + 1, 0) = Second(h, m, s) + 1
         /\ s = MaxSecond /\ m = MaxMinute => Second(h + 1, 0, 0) = Second(h, m, s) + 1
         /\ s = MaxSecond /\ m = MaxMinute /\ h = MaxHour =>
              Second(h, m, s) + 1 = SecondsADay /\ Second(0, 0, 0) = 0
  <1> DEFINE S == MaxSecond + 1
             M == MaxMinute + 1
             H == MaxHour + 1
             a == h * M
             c == (a + m) * S
  <1>1. /\ S \in Nat \ {0} /\ M \in Nat \ {0} /\ H \in Nat \ {0} /\ h \in Int /\ m \in Int /\ s \in Int
        /\ MaxSecond = S - 1 /\ MaxMinute = M - 1 /\ MaxHour = H - 1
    BY ClockAssumption DEF ClockAssumption
  <1>2. Second(h, m, s) = c + s /\ Second(h, m, s + 1) = c + (s + 1)
    BY DEF Second
  <1>3. SecondsADay = (H * M) * S
    BY DEF SecondsADay
  <1>4. Second(h, m + 1, 0) = (a + (m + 1)) * S + 0 /\ Second(h + 1, 0, 0) = ((h + 1) * M + 0) * S + 0
        /\ Second(0, 0, 0) = (0 * M + 0) * S + 0
    BY DEF Second
  <1> HIDE DEF S, M, H
  <1>5. a \in Int
    BY <1>1
  <1>6. c \in Int /\ (a + (m + 1)) * S = c + S
    <2> HIDE DEF a
    <2> QED  BY <1>1, <1>5
  <1>7. (h + 1) * M = a + M
    BY <1>1
  <1>8. m = M - 1 => (h + 1) * M + 0 = a + (m + 1)
    <2> HIDE DEF a
    <2> QED  BY <1>1, <1>5, <1>7
  <1>9. h = H - 1 => H * M = (h + 1) * M + 0
    BY <1>1
  <1>10. 0 * M = 0 /\ (0 + 0) * S = 0
    BY <1>1
  <1> DEFINE d == ((h + 1) * M + 0) * S
             e == (a + (m + 1)) * S
             z == (H * M) * S
  <1>11. (m = M - 1 => d = e) /\ (h = H - 1 => z = d)
    BY <1>8, <1>9
  <1>12. d \in Int /\ e = c + S
    BY <1>1, <1>6
  <1>13. Second(h, m + 1, 0) = e + 0 /\ Second(h + 1, 0, 0) = d + 0 /\ SecondsADay = z /\ Second(0, 0, 0) = 0
    BY <1>3, <1>4, <1>10
  <1> HIDE DEF c, d, e, z
  <1> QED  BY <1>1, <1>2, <1>6, <1>11, <1>12, <1>13

LEMMA Within ==
  ASSUME NEW d \in Nat \ {0}, NEW x \in 0 .. d - 1
  PROVE  x % d = x
  OBVIOUS

\* The second after t begins a second later, of this day or of the next.
LEMMA SecondPasses ==
  ASSUME NEW t \in [Fields -> Int], InDay(t), t["year"] \in 0 .. MaxYear
  PROVE  LET n == NextSecond(t).time
         IN  /\ n \in [Fields -> Int] /\ InDay(n) /\ n["year"] \in 0 .. MaxYear
             /\ SecondOfDay(t) \in 0 .. SecondsADay - 1 /\ SecondOfDay(n) \in Int
             /\ SecondOfDay(n) = (SecondOfDay(t) + 1) % SecondsADay
             /\ \/ SecondOfDay(n) > SecondOfDay(t) /\ \A f \in {"monthday", "month", "year"} : n[f] = t[f]
                \/ n["year"] = t["year"] + 1
                \/ n["year"] = 0 /\ t["year"] = MaxYear
  <1> DEFINE n  == NextSecond(t).time
             c1 == t["seconds"] = MaxSecond
             c2 == c1 /\ t["minutes"] = MaxMinute
             c3 == c2 /\ t["hours"] = MaxHour
             h == t["hours"]
             m == t["minutes"]
             s == t["seconds"]
  <1>1. MaxSecond \in Nat /\ MaxMinute \in Nat /\ MaxHour \in Nat /\ MaxYear \in Nat
    BY ClockAssumption DEF ClockAssumption
  <1>2. /\ n \in [Fields -> Int]
        /\ n["seconds"] = IF c1 THEN 0 ELSE t["seconds"] + 1
        /\ n["minutes"] = IF c2 THEN 0 ELSE IF c1 THEN t["minutes"] + 1 ELSE t["minutes"]
        /\ n["hours"]   = IF c3 THEN 0 ELSE IF c2 THEN t["hours"] + 1 ELSE t["hours"]
        /\ ~c3 => \A f \in {"monthday", "month", "year"} : n[f] = t[f]
        /\ c3 => n["year"] = IF t["year"] = MaxYear THEN 0 ELSE t["year"] + 1
    BY NextIs
  <1>3. h \in 0 .. MaxHour /\ m \in 0 .. MaxMinute /\ s \in 0 .. MaxSecond
    BY DEF InDay
  <1> HIDE DEF n
  <1>4. SecondOfDay(t) = Second(h, m, s) /\ SecondOfDay(n) = Second(n["hours"], n["minutes"], n["seconds"])
    BY DEF SecondOfDay, Second
  <1>5. InDay(n) /\ n["year"] \in 0 .. MaxYear
    BY <1>1, <1>2, <1>3 DEF InDay
  <1>6. Second(h, m, s) \in 0 .. SecondsADay - 1 /\ SecondsADay \in Nat \ {0} /\ SecondOfDay(n) \in 0 .. SecondsADay - 1
    BY <1>3, <1>4, <1>5, DayIsLong DEF InDay
  <1>7. CASE ~c3
    <2>1. SecondOfDay(n) = Second(h, m, s) + 1
      BY <1>2, <1>3, <1>4, <1>7, SecondMore
    <2>2. SecondOfDay(n) % SecondsADay = SecondOfDay(n)
      BY <1>6, Within
    <2>3. SecondOfDay(n) = (SecondOfDay(t) + 1) % SecondsADay
      BY <1>4, <2>1, <2>2
    <2> QED  BY <1>2, <1>4, <1>5, <1>6, <1>7, <2>1, <2>3 DEF n
  <1>8. CASE c3
    <2>1. Second(h, m, s) + 1 = SecondsADay /\ SecondOfDay(n) = 0
      BY <1>2, <1>3, <1>4, <1>8, SecondMore
    <2>2. SecondsADay % SecondsADay = 0
      BY <1>6
    <2>3. SecondOfDay(n) = (SecondOfDay(t) + 1) % SecondsADay
      BY <1>4, <2>1, <2>2
    <2> QED  BY <1>2, <1>4, <1>5, <1>6, <1>8, <2>3 DEF n
  <1> QED  BY <1>7, <1>8

\* Hours more or less are so many seconds.
Hours(b) == (b * (MaxMinute + 1)) * (MaxSecond + 1)

LEMMA SecondShift ==
  ASSUME NEW h \in Int, NEW b \in Int, NEW m \in Int, NEW s \in Int, NEW g, g = h + b
  PROVE  Second(g, m, s) = Second(h, m, s) + Hours(b)
  <1> DEFINE S == MaxSecond + 1
             M == MaxMinute + 1
             x == h * M
             y == b * M
  <1>1. S \in Int /\ M \in Int
    BY ClockAssumption DEF ClockAssumption
  <1>2. Second(h + b, m, s) = ((h + b) * M + m) * S + s /\ Second(h, m, s) = (x + m) * S + s
    BY DEF Second
  <1> HIDE DEF S, M
  <1>3. (h + b) * M = x + y /\ x \in Int /\ y \in Int
    BY <1>1
  <1>4. Second(h + b, m, s) = ((x + y) + m) * S + s
    BY <1>2, <1>3
  <1> HIDE DEF x, y
  <1>5. ((x + y) + m) * S + s = ((x + m) * S + s) + y * S
    BY <1>1, <1>3
  <1>6. Second(h + b, m, s) = Second(h, m, s) + y * S
    BY <1>2, <1>4, <1>5
  <1> QED  BY <1>6 DEF S, M, y, Hours

-----------------------------------------------------------------------------
(* The reading of the chip                                                 *)

\* UTC_OFFSET hours before t, of this day or of the one before.
LEMMA HoursBack ==
  ASSUME NEW t \in [Fields -> Int], InDay(t), t["year"] \in 0 .. MaxYear
  PROVE  LET r == RTC_sub_hours(t, UTC_OFFSET)
         IN  /\ r \in [Fields -> Int] /\ InDay(r) /\ r["year"] \in 0 .. MaxYear
             /\ SecondOfDay(r) = (SecondOfDay(t) - UTC_OFFSET * (MaxMinute + 1) * (MaxSecond + 1))
                                   % SecondsADay
  <1> DEFINE r == RTC_sub_hours(t, UTC_OFFSET)
             h == t["hours"]
             m == t["minutes"]
             s == t["seconds"]
             U == UTC_OFFSET
             g == IF h >= U THEN h - U ELSE (h + MaxHour + 1) - U
  <1>1. /\ MaxSecond \in Nat /\ MaxMinute \in Nat /\ MaxHour \in Nat /\ U \in 0 .. MaxHour + 1
        /\ BYTE \in Nat \ {0} /\ MaxHour < BYTE
    BY ClockAssumption DEF ClockAssumption
  <1>2. h \in 0 .. MaxHour /\ m \in 0 .. MaxMinute /\ s \in 0 .. MaxSecond
    BY DEF InDay
  <1>3. g \in 0 .. MaxHour /\ (~(h >= U) => ((h + MaxHour + 1) - U) % BYTE = g)
    <2>1. g \in 0 .. MaxHour
      BY <1>1, <1>2
    <2>2. g \in 0 .. BYTE - 1
      BY <1>1, <2>1
    <2> HIDE DEF g
    <2>3. g % BYTE = g
      BY <1>1, <2>2, Within
    <2> QED  BY <2>1, <2>3 DEF g
  <1>4. /\ r \in [Fields -> Int] /\ r["hours"] = g /\ r["minutes"] = m /\ r["seconds"] = s
        /\ r["year"] = t["year"]
    <2>1. CASE h >= U
      BY <1>1, <1>2, <2>1 DEF RTC_sub_hours, Fields
    <2>2. CASE ~(h >= U)
      <3> DEFINE x == [t EXCEPT !["hours"] = ((h + MaxHour + 1) - U) % BYTE]
                 month == IF x["month"] # 0 THEN x["month"] - 1 ELSE 12
                 y == [x EXCEPT !["month"] = month, !["monthday"] = max_monthday(x["year"], month)]
                 z == [x EXCEPT !["monthday"] = x["monthday"] - 1]
      <3>1. r = IF x["monthday"] # 0 THEN z ELSE y
        BY <2>2 DEF RTC_sub_hours, RTC_sub_month_and_day
      <3>2. x \in [Fields -> Int] /\ x["hours"] = g /\ x["minutes"] = m /\ x["seconds"] = s /\ x["year"] = t["year"]
        <4> HIDE DEF g
        <4> QED  BY <1>1, <1>3, <2>2 DEF Fields
      <3> HIDE DEF x
      <3>3. month \in Int
        BY <3>2 DEF Fields
      <3>4. max_monthday(x["year"], month) \in Int
        <4> HIDE DEF month
        <4> QED  BY <3>3 DEF max_monthday
      <3> HIDE DEF month
      <3>5. y \in [Fields -> Int] /\ y["hours"] = g /\ y["minutes"] = m /\ y["seconds"] = s /\ y["year"] = t["year"]
        BY <3>2, <3>3, <3>4 DEF Fields
      <3>6. z \in [Fields -> Int] /\ z["hours"] = g /\ z["minutes"] = m /\ z["seconds"] = s /\ z["year"] = t["year"]
        BY <3>2 DEF Fields
      <3> HIDE DEF y, z
      <3> QED  BY <3>1, <3>5, <3>6
    <2> QED  BY <2>1, <2>2
  <1> HIDE DEF r, g
  <1>5. InDay(r)
    BY <1>2, <1>3, <1>4 DEF InDay
  <1> DEFINE S == MaxSecond + 1
             M == MaxMinute + 1
             H == MaxHour + 1
             back == UTC_OFFSET * (MaxMinute + 1) * (MaxSecond + 1)
  <1>6. SecondOfDay(t) = Second(h, m, s) /\ SecondOfDay(r) = Second(g, m, s)
    BY <1>4 DEF SecondOfDay, Second
  <1>7. /\ Second(h, m, s) \in 0 .. SecondsADay - 1 /\ Second(g, m, s) \in 0 .. SecondsADay - 1
        /\ SecondsADay \in Nat \ {0}
    BY <1>2, <1>3, DayIsLong
  <1>9. back \in Int /\ Second(h - U, m, s) = Second(h, m, s) + (0 - U) * M * S
        /\ Second((h - U) + H, m, s) = Second(h - U, m, s) + SecondsADay
        /\ (0 - U) * M * S = 0 - back
    <2>0. /\ h \in Int /\ m \in Int /\ s \in Int /\ U \in Int
          /\ 0 - U \in Int /\ h - U \in Int /\ H \in Int
      BY <1>1, <1>2
    <2>1. Second(h - U, m, s) = Second(h, m, s) + Hours(0 - U)
      <3>1. h - U = h + (0 - U)
        BY <2>0
      <3> HIDE DEF h, U, m, s
      <3> QED  BY <2>0, <3>1, SecondShift
    <2>2. Second((h - U) + H, m, s) = Second(h - U, m, s) + Hours(H)
      <3> HIDE DEF h, U, m, s, H
      <3> QED  BY <2>0, SecondShift
    <2>4. (0 - U) * M = 0 - U * M /\ U * M \in Int
      BY <1>1
    <2> DEFINE x == U * M
    <2>5. (0 - x) * S = 0 - x * S /\ x * S \in Int
      <3> HIDE DEF x
      <3> QED  BY <1>1, <2>4 DEF x
    <2> QED  BY <2>1, <2>2, <2>4, <2>5 DEF SecondsADay, Hours
  <1>10. Second(g, m, s) = Second(h, m, s) - back \/ Second(g, m, s) = (Second(h, m, s) - back) + SecondsADay
    <2>1. CASE h >= U
      <3>1. g = h - U
        BY <2>1 DEF g
      <3> HIDE DEF back
      <3> QED  BY <1>7, <1>9, <3>1
    <2>2. CASE ~(h >= U)
      <3>1. g = (h - U) + H
        BY <1>1, <1>2, <2>2 DEF g
      <3> HIDE DEF back
      <3> QED  BY <1>7, <1>9, <3>1
    <2> QED  BY <2>1, <2>2
  <1>11. ASSUME NEW x \in Int, NEW y \in 0 .. SecondsADay - 1, y = x \/ y = x + SecondsADay
         PROVE  y = x % SecondsADay
    BY <1>7, <1>11
  <1>12. SecondOfDay(r) = (SecondOfDay(t) - back) % SecondsADay
    <2> HIDE DEF back
    <2> QED  BY <1>6, <1>7, <1>9, <1>10, <1>11
  <1> QED  BY <1>4, <1>5, <1>12 DEF r

LEMMA BcdIs ==
  ASSUME NEW n \in Nat
  PROVE  Bcd(n) \in Nat /\ BCD_to_bin(Bcd(n)) = n /\ (n # 0 => Bcd(n) # 0)
  <1> DEFINE q == n \div 10
             r == n % 10
             b == q * 16 + r
  <1>1. q \in Nat /\ r \in 0 .. 9 /\ n = q * 10 + r
    OBVIOUS
  <1>2. Bcd(n) = b
    BY DEF Bcd
  <1> HIDE DEF q, r
  <1>3. b \in Nat /\ (n # 0 => b # 0)
    BY <1>1
  <1>4. b \div 16 = q /\ b % 16 = r
    BY <1>1, <1>3
  <1> HIDE DEF b
  <1>5. BCD_to_bin(b) = r + q * 10
    BY <1>4 DEF BCD_to_bin
  <1> QED  BY <1>1, <1>2, <1>3, <1>5

\* A date the chip shows, and the reading of it.
Shown(c) == /\ c \in [Fields -> Nat] /\ InDay(c)
            /\ c["monthday"] # 0 /\ c["year"] \in 0 .. CENTURY - 1

LEMMA ReadingIs ==
  ASSUME NEW c, Shown(c)
  PROVE  /\ Reading(c) = [f \in Fields |-> Register(c, f)]
         /\ Register(c, "monthday") # 0
         /\ format[2] = TRUE =>
              \A f \in Fields : Register(c, f) = IF format[1] THEN c[f] ELSE Bcd(c[f])
  <1>1. c \in [Fields -> Nat] /\ c["monthday"] # 0 /\ c["monthday"] \in Nat
    BY DEF Shown, Fields
  <1>2. \A f \in Fields : Bcd(c[f]) \in Nat /\ c[f] \in Nat
    BY <1>1, BcdIs
  <1>3. Bcd(c["monthday"]) # 0
    BY <1>1, BcdIs
  <1>4. Register(c, "monthday") # 0
    BY <1>1, <1>2, <1>3 DEF Register, Fields
  <1>5. format[2] = TRUE =>
          \A f \in Fields : Register(c, f) = IF format[1] THEN c[f] ELSE Bcd(c[f])
    BY <1>2 DEF Register
  <1> QED  BY <1>1, <1>4, <1>5 DEF Reading

\* A reading is decoded to the date it shows, but for the century.
LEMMA DecodeIs ==
  ASSUME NEW c, Shown(c), format[1] \in BOOLEAN, format[2] = TRUE
  PROVE  LET d == Decode(Reading(c))
         IN  /\ d \in [Fields -> Int] /\ d["year"] \in 0 .. MaxYear
             /\ \A f \in {"seconds", "minutes", "hours"} : d[f] = c[f]
  <1> DEFINE t == Reading(c)
             p == IF format[1] THEN t ELSE [f \in DOMAIN t |-> BCD_to_bin(t[f]) % BYTE]
             y == p["year"] + (CURR_YEAR \div CENTURY) * CENTURY
             z == IF y < CURR_YEAR THEN y + CENTURY ELSE y
             d == Decode(Reading(c))
  <1>1. /\ BYTE \in Nat \ {0} /\ CENTURY \in Nat \ {0} /\ CURR_YEAR \in Nat /\ MaxYear \in Nat
        /\ MaxSecond < BYTE /\ MaxMinute < BYTE /\ MaxHour < BYTE
        /\ CURR_YEAR + CENTURY <= MaxYear + 1
        /\ MaxSecond \in Nat /\ MaxMinute \in Nat /\ MaxHour \in Nat
    BY ClockAssumption DEF ClockAssumption
  <1>2. c \in [Fields -> Nat]
    BY DEF Shown
  <1>3. /\ p \in [Fields -> Nat]
        /\ \A f \in Fields : p[f] = IF format[1] THEN c[f] ELSE c[f] % BYTE
    <2>1. t = [f \in Fields |-> Register(c, f)]
      BY ReadingIs
    <2>2. \A f \in Fields : Register(c, f) = IF format[1] THEN c[f] ELSE Bcd(c[f])
      BY ReadingIs
    <2> HIDE DEF t
    <2>3. CASE format[1]
      <3>1. t = c
        BY <1>2, <2>1, <2>2, <2>3
      <3> QED  BY <1>2, <2>3, <3>1
    <2>4. CASE ~format[1]
      <3>1. DOMAIN t = Fields /\ \A f \in Fields : t[f] = Bcd(c[f])
        BY <2>1, <2>2, <2>4
      <3>2. \A f \in Fields : BCD_to_bin(t[f]) = c[f] /\ c[f] % BYTE \in Nat
        BY <1>1, <1>2, <3>1, BcdIs
      <3> QED  BY <2>4, <3>1, <3>2
    <2> QED  BY <2>3, <2>4
  <1>4. \A n \in Nat : n % BYTE \in 0 .. n
    BY <1>1
  <1>5. \A n \in 0 .. BYTE - 1 : n % BYTE = n
    BY <1>1, Within
  <1>6. \A f \in {"seconds", "minutes", "hours"} : p[f] = c[f]
    <2>1. \A f \in {"seconds", "minutes", "hours"} : f \in Fields /\ c[f] \in 0 .. BYTE - 1
      BY <1>1 DEF Shown, InDay, Fields
    <2> QED  BY <1>3, <1>5, <2>1
  <1>7. p["year"] \in 0 .. CENTURY - 1
    <2>1. "year" \in Fields /\ c["year"] \in 0 .. CENTURY - 1
      BY DEF Shown, Fields
    <2>2. c["year"] % BYTE \in 0 .. c["year"]
      BY <1>4, <2>1
    <2>3. p["year"] = c["year"] \/ p["year"] = c["year"] % BYTE
      BY <1>3, <2>1
    <2> HIDE DEF p
    <2> QED  BY <1>1, <2>1, <2>2, <2>3
  <1> HIDE DEF p
  <1>8. z \in 0 .. MaxYear
    <2> DEFINE q == CURR_YEAR \div CENTURY
               m == q * CENTURY
    <2>1. m \in Nat /\ m <= CURR_YEAR
      <3> DEFINE r == CURR_YEAR % CENTURY
      <3>1. q \in Nat /\ r \in 0 .. CENTURY - 1 /\ CURR_YEAR = m + r
        BY <1>1, Divide
      <3>2. m \in Int
        BY <1>1, <3>1
      <3>3. q * CENTURY >= 0
        <4> HIDE DEF q
        <4> QED  BY <1>1, <3>1
      <3> HIDE DEF q
      <3>4. m >= 0
        BY <3>3
      <3> HIDE DEF m, r
      <3> QED  BY <1>1, <3>1, <3>2, <3>4
    <2>2. y = p["year"] + m
      OBVIOUS
    <2> HIDE DEF m, y
    <2> QED  BY <1>1, <1>7, <2>1, <2>2
  <1> HIDE DEF z
  <1>9. d = [p EXCEPT !["year"] = z]
    BY DEF Decode, t, p, z
  <1> HIDE DEF d
  <1>10. /\ d \in [Fields -> Int] /\ d["year"] = z
         /\ \A f \in {"seconds", "minutes", "hours"} : d[f] = p[f]
    BY <1>3, <1>8, <1>9 DEF Fields
  <1> QED  BY <1>6, <1>8, <1>10 DEF d

-----------------------------------------------------------------------------
(* Reading the clock while it counts                                       *)

\* The registers read in this pass are those of date c.
Of(c) == \A i \in 1 .. reg : time[Registers[i]] = Register(c, Registers[i])

\* The chip counts on once at most.  Until it does, all that was read is of
\* one date; then either this pass began after it, or the pass before ended
\* before it.
Consistent ==
  /\ reg \in 0 .. 6 /\ chipTicks \in {0, 1} /\ format \in Formats
  /\ Shown(chip) /\ Shown(before)
  /\ time = [f \in Fields |-> time[f]]
  /\ reg >= 4 => time["monthday"] # 0
  /\ chipTicks = 0 => before = chip /\ Of(chip) /\ tmp_time \in {NoTime, Reading(chip)}
  /\ chipTicks = 1 => Of(chip) \/ tmp_time \in {NoTime, Reading(before)}

\* Nothing interrupts kernel_main before the timer is unmasked.
Stage ==
  /\ boot \in {"isr", "irq", "rtc", "up"}
  /\ boot # "up" => cpu = "kernel" /\ ticks = 0
  /\ boot \in {"isr", "irq"} => ~interrupts
  /\ boot = "rtc" => mask = IRQ
  /\ boot = "up" => booted

ClockInv == Stage /\ (~booted => Consistent)

LEMMA ClockStarts == Init => ClockInv
  <1> SUFFICES ASSUME Init  PROVE ClockInv
    OBVIOUS
  <1>1. Stage
    BY DEF Init, Stage
  <1>2. /\ chip \in Dates /\ before = chip /\ format \in Formats /\ chipTicks = 0
        /\ time = NoTime /\ tmp_time = NoTime /\ reg = 0
    BY ClockAssumption DEF Init, ClockInit, ClockAssumption
  <1>3. Shown(chip)
    BY <1>2, DateIs DEF Shown, InDay
  <1>4. time = [f \in Fields |-> time[f]]
    BY <1>2, FieldsAre
  <1>5. Of(chip)
    BY <1>2 DEF Of
  <1> QED  BY <1>1, <1>2, <1>3, <1>4, <1>5 DEF ClockInv, Consistent

LEMMA ReadAgrees ==
  ASSUME Consistent, reg = 6, tmp_time = time
  PROVE  \/ time = Reading(chip)
         \/ time = Reading(before)
  <1>1. Of(chip) => time = Reading(chip)
    <2> SUFFICES ASSUME Of(chip)  PROVE time = Reading(chip)
      OBVIOUS
    <2>1. \A f \in Fields : time[f] = Register(chip, f)
      BY FieldsAre DEF Of, Consistent
    <2>2. Reading(chip) = [f \in Fields |-> Register(chip, f)]
      BY ReadingIs DEF Consistent
    <2>3. time = [f \in Fields |-> time[f]]
      BY DEF Consistent
    <2> QED  BY <2>1, <2>2, <2>3
  <1>2. time # NoTime
    BY FieldsAre DEF Consistent
  <1> QED  BY <1>1, <1>2 DEF Consistent

LEMMA CountsOn ==
  ASSUME Consistent, ChipCounts
  PROVE  Consistent'
  <1>1. /\ chipTicks = 0 /\ chipTicks' = 1 /\ chip' = ChipSecond /\ before' = chip
        /\ format' = format /\ time' = time /\ tmp_time' = tmp_time /\ reg' = reg
    BY DEF ChipCounts, Consistent
  <1>2. Shown(chip')
    <2>1. chip \in [Fields -> Nat] /\ InDay(chip) /\ chip["monthday"] # 0 /\ chip["year"] \in 0 .. CENTURY - 1
      BY DEF Consistent, Shown
    <2>2. /\ ChipSecond \in [Fields -> Nat] /\ InDay(ChipSecond)
          /\ ChipSecond["year"] = chip["year"]
          /\ ChipSecond["monthday"] \in {chip["monthday"], chip["monthday"] + 1}
      BY <2>1, ChipIs
    <2>3. chip["monthday"] \in Nat
      BY <2>1 DEF Fields
    <2>4. ChipSecond["monthday"] # 0
      BY <2>1, <2>2, <2>3
    <2> QED  BY <1>1, <2>1, <2>2, <2>4 DEF Shown
  <1>3. Reading(before)' = Reading(chip)
    BY <1>1 DEF Reading, Register
  <1>4. tmp_time \in {NoTime, Reading(chip)}
    BY <1>1 DEF Consistent
  <1>5. Shown(before')
    BY <1>1 DEF Consistent
  <1> QED  BY <1>1, <1>2, <1>3, <1>4, <1>5 DEF Consistent, Shown, InDay

LEMMA ReadsOn ==
  ASSUME Consistent, CMOS_read
  PROVE  Consistent'
  <1> DEFINE r == Registers[reg + 1]
             v == Register(chip, r)
  <1>1. /\ reg \in 0 .. 5 /\ reg' = reg + 1 /\ time' = [time EXCEPT ![r] = v]
        /\ chip' = chip /\ before' = before /\ format' = format
        /\ chipTicks' = chipTicks /\ tmp_time' = tmp_time
    BY DEF CMOS_read, Consistent
  <1>2. r \in Fields /\ time = [f \in Fields |-> time[f]]
    BY <1>1, FieldsAre DEF Consistent
  <1>3. time'[r] = v /\ \A f \in Fields \ {r} : time'[f] = time[f]
    BY <1>1, <1>2
  <1>4. time' = [f \in Fields |-> time'[f]]
    BY <1>1, <1>2
  <1>5. \A i \in 1 .. 6 : Registers[i] = r => i = reg + 1
    <2>1. \A i, j \in 1 .. 6 : Registers[i] = Registers[j] => i = j
      BY DEF Registers
    <2> QED  BY <1>1, <2>1
  <1>7. (Reading(chip) = Reading(chip)') /\ Reading(before)' = Reading(before)
        /\ \A f : Register(chip, f)' = Register(chip, f)
    BY <1>1 DEF Reading, Register
  <1>8. Of(chip) => Of(chip)'
    BY <1>1, <1>3, <1>5, <1>7, FieldsAre DEF Of
  <1>9. reg' >= 4 => time'["monthday"] # 0
    <2>1. CASE r = "monthday"
      BY <1>3, <2>1, ReadingIs DEF Consistent
    <2>2. CASE r # "monthday"
      <3>1. reg # 3
        BY <2>2, FieldsAre
      <3>2. reg' >= 4 => reg >= 4
        BY <1>1, <3>1
      <3> QED  BY <1>3, <2>2, <3>2 DEF Consistent, Fields
    <2> QED  BY <2>1, <2>2
  <1>10. reg' \in 0 .. 6
    BY <1>1
  <1>11. Shown(chip)' /\ Shown(before)'
    BY <1>1 DEF Consistent, Shown, InDay
  <1> HIDE DEF r, v
  <1> QED  BY <1>1, <1>4, <1>7, <1>8, <1>9, <1>10, <1>11 DEF Consistent

LEMMA ReadsAgain ==
  ASSUME Consistent, Reread
  PROVE  Consistent'
  <1>1. /\ reg = 6 /\ reg' = 0 /\ tmp_time' = time /\ time' = time
        /\ chip' = chip /\ before' = before /\ format' = format /\ chipTicks' = chipTicks
    BY DEF Reread
  <1>2. Reading(chip)' = Reading(chip)
    BY <1>1 DEF Reading, Register
  <1>3. Of(chip)'
    BY <1>1 DEF Of
  <1>4. chipTicks = 0 => time = Reading(chip)
    <2> SUFFICES ASSUME chipTicks = 0  PROVE time = Reading(chip)
      OBVIOUS
    <2>1. \A f \in Fields : time[f] = Register(chip, f)
      BY <1>1, FieldsAre DEF Of, Consistent
    <2>2. Reading(chip) = [f \in Fields |-> Register(chip, f)]
      BY ReadingIs DEF Consistent
    <2>3. time = [f \in Fields |-> time[f]]
      BY DEF Consistent
    <2> QED  BY <2>1, <2>2, <2>3
  <1>5. Shown(chip)' /\ Shown(before)'
    BY <1>1 DEF Consistent, Shown, InDay
  <1> QED  BY <1>1, <1>2, <1>3, <1>4, <1>5 DEF Consistent

\* What a step does to the clock: before the boot is over it reads it, and
\* after that only the timer's handler changes it.
LEMMA ClockSteps ==
  ASSUME ClockInv, [Next]_vars
  PROVE  /\ Stage'
         /\ \/ ~booted /\ (RTC_init \/ ChipCounts) /\ ticks = 0 /\ ticks' = 0
            \/ booted /\ IRQ_time_handler /\ booted' = booted /\ start' = start
            \/ UNCHANGED clockVars /\ ticks' = ticks
  <1> USE DEF ClockInv, Stage
  <1>1. CASE ISR_init
    BY <1>1 DEF ISR_init, At, picVars, cpuVars, clockVars
  <1>2. CASE IRQ_init
    BY <1>2 DEF IRQ_init, At, PIC_configure, cpuVars, clockVars
  <1>3. CASE ReadClock
    <2>1. ~booted
      BY <1>3 DEF ReadClock, RTC_init, CMOS_read, Reread, Agree, ChipCounts
    <2> QED  BY <1>3, <2>1 DEF ReadClock, cpuVars, picVars
  <1>4. CASE PIT_init
    BY <1>4 DEF PIT_init, At, cpuVars, clockVars
  <1>5. ASSUME NEW irq \in Lines, Raise(irq)
        PROVE  Stage' /\ UNCHANGED clockVars /\ ticks' = ticks
    BY <1>5 DEF Raise, cpuVars, clockVars
  <1>6. ASSUME NEW irq \in Lines, Deliver(irq)
        PROVE  Stage' /\ UNCHANGED clockVars /\ ticks' = ticks
    <2>1. irq \in IRQ
      BY InterruptsAssumption DEF InterruptsAssumption, IRQ
    <2>2. boot = "up"
      BY <1>6, <2>1 DEF Deliver, Ready
    <2> QED  BY <1>6, <2>2 DEF Deliver, Enter, clockVars
  <1>7. ASSUME NEW irq \in Lines, SetMask(irq)
        PROVE  Stage' /\ UNCHANGED clockVars /\ ticks' = ticks
    BY <1>7 DEF SetMask, cpuVars, clockVars
  <1>8. CASE Handle
    <2>1. boot = "up" /\ boot' = boot /\ booted /\ booted' = booted /\ start' = start
      BY <1>8 DEF Handle, Unmoved
    <2>2. IRQ_time_handler \/ (ticks' = ticks /\ time' = time)
      BY <1>8 DEF Handle, IRQ_handler
    <2> QED  BY <1>8, <2>1, <2>2 DEF Handle, Unmoved, clockVars
  <1>9. CASE ISR_handler
    BY <1>9 DEF ISR_handler, picVars, clockVars
  <1>10. ASSUME NEW n \in Faults \cup {33, 128}, Trap(n)
         PROVE  Stage' /\ UNCHANGED clockVars /\ ticks' = ticks
    BY <1>10 DEF Trap, Enter, picVars, clockVars
  <1>11. CASE ToUser
    BY <1>11 DEF ToUser, picVars, clockVars
  <1>12. CASE UNCHANGED vars
    BY <1>12 DEF vars, picVars, cpuVars, clockVars
  <1>13. CASE flush_tlb_entry
    BY <1>13 DEF flush_tlb_entry, InKernelService, picVars, clockVars
  <1>14. CASE PageFault
    BY <1>14 DEF PageFault, Enter, picVars, clockVars
  <1> QED
    BY <1>1, <1>2, <1>3, <1>4, <1>5, <1>6, <1>7, <1>8, <1>9, <1>10, <1>11, <1>12,
       <1>13, <1>14 DEF Next

LEMMA ClockStep == ClockInv /\ [Next]_vars => ClockInv'
  <1> SUFFICES ASSUME ClockInv, [Next]_vars, ~booted'  PROVE Consistent'
    BY ClockSteps DEF ClockInv
  <1>1. CASE ~booted /\ (RTC_init \/ ChipCounts)
    <2>1. Consistent
      BY <1>1 DEF ClockInv
    <2>2. ~Agree
      BY DEF Agree, Finish
    <2> QED  BY <1>1, <2>1, <2>2, CountsOn, ReadsOn, ReadsAgain DEF RTC_init
  <1>2. CASE UNCHANGED clockVars
    <2>1. ~booted /\ Consistent
      BY <1>2 DEF clockVars, ClockInv
    <2>2. Reading(chip)' = Reading(chip) /\ Reading(before)' = Reading(before) /\ (Of(chip)' <=> Of(chip))
      BY <1>2 DEF clockVars, Reading, Register, Of
    <2> QED  BY <1>2, <2>1, <2>2 DEF clockVars, Consistent, Shown, InDay
  <1> QED  BY <1>1, <1>2, ClockSteps

\* The reading that RTC_init accepts is of one instant, whatever the format and
\* between whatever registers the chip counts on.
THEOREM OneReading == Spec => OneInstant
  <1>1. ClockInv /\ [Next]_vars =>
          (~booted /\ booted' => time \in {Reading(chip), Reading(before)})
    <2> SUFFICES ASSUME ClockInv, [Next]_vars, ~booted, booted'
                 PROVE  time \in {Reading(chip), Reading(before)}
      OBVIOUS
    <2>1. Consistent
      BY DEF ClockInv
    <2>2. Agree
      BY ClockSteps DEF RTC_init, CMOS_read, Reread, ChipCounts, clockVars
    <2> QED  BY <2>1, <2>2, ReadAgrees DEF Agree
  <1> QED  BY ClockStarts, ClockStep, <1>1, PTL DEF Spec, OneInstant

-----------------------------------------------------------------------------
(* The count                                                               *)

\* The formats in which Decode knows the hour: in 12-hour format it does not.
Hours24 == \A f \in Formats : f[2] = TRUE

Counting ==
  /\ time \in [Fields -> Int] /\ InDay(time) /\ time["year"] \in 0 .. MaxYear
  /\ ticks \in Nat /\ start \in Nat
  /\ SecondOfDay(time) = (start + (ticks \div TICKS)) % SecondsADay

CountInv == ClockInv /\ (booted => Counting)

LEMMA NextMod ==
  ASSUME NEW d \in Nat \ {0}, NEW a \in Nat
  PROVE  ((a % d) + 1) % d = (a + 1) % d
  <1> DEFINE q == a \div d
             r == a % d
  <1>1. q \in Nat /\ r \in 0 .. d - 1 /\ a = q * d + r
    BY Divide
  <1> HIDE DEF q, r
  <1>2. CASE r + 1 \in 0 .. d - 1
    <2>1. a + 1 = q * d + (r + 1) /\ a + 1 \in Nat
      BY <1>1
    <2>2. (a + 1) % d = r + 1 /\ (r + 1) % d = r + 1
      BY <1>1, <1>2, <2>1, Quotient, Within
    <2> QED  BY <2>2 DEF r
  <1>3. CASE r + 1 \notin 0 .. d - 1
    <2>1. r + 1 = d /\ (q + 1) * d = q * d + d /\ q + 1 \in Nat /\ q * d \in Int
      BY <1>1, <1>3
    <2>2. a + 1 = (q + 1) * d + 0 /\ a + 1 \in Nat /\ 0 \in 0 .. d - 1
      BY <1>1, <2>1
    <2>3. (a + 1) % d = 0
      BY <2>1, <2>2, Quotient
    <2>4. d % d = 0
      OBVIOUS
    <2> QED  BY <2>1, <2>3, <2>4 DEF r
  <1> QED  BY <1>2, <1>3

\* A second has passed when the ticks are a multiple of TICKS.
LEMMA TickIs ==
  ASSUME NEW n \in Nat
  PROVE  (n + 1) \div TICKS = IF (n + 1) % TICKS = 0 THEN (n \div TICKS) + 1 ELSE n \div TICKS
  <1> DEFINE q == n \div TICKS
             r == n % TICKS
  <1>1. TICKS \in Nat \ {0}
    BY InterruptsAssumption DEF InterruptsAssumption
  <1>2. q \in Nat /\ r \in 0 .. TICKS - 1 /\ n = q * TICKS + r
    BY <1>1, Divide
  <1> HIDE DEF q, r
  <1>3. CASE r + 1 \in 0 .. TICKS - 1
    <2>1. n + 1 = q * TICKS + (r + 1) /\ n + 1 \in Nat /\ r + 1 # 0
      BY <1>1, <1>2
    <2>2. (n + 1) \div TICKS = q /\ (n + 1) % TICKS = r + 1
      BY <1>1, <1>2, <1>3, <2>1, Quotient
    <2> QED  BY <2>1, <2>2 DEF q
  <1>4. CASE r + 1 \notin 0 .. TICKS - 1
    <2>1. r + 1 = TICKS /\ (q + 1) * TICKS = q * TICKS + TICKS /\ q + 1 \in Nat /\ q * TICKS \in Int
      BY <1>1, <1>2, <1>4
    <2>2. n + 1 = (q + 1) * TICKS + 0 /\ n + 1 \in Nat /\ 0 \in 0 .. TICKS - 1
      BY <1>1, <1>2, <2>1
    <2>3. (n + 1) \div TICKS = q + 1 /\ (n + 1) % TICKS = 0
      BY <1>1, <2>1, <2>2, Quotient
    <2> QED  BY <2>3 DEF q
  <1> QED  BY <1>3, <1>4

LEMMA TimerCounts ==
  ASSUME Counting, IRQ_time_handler, start' = start
  PROVE  /\ Counting'
         /\ \/ time' = time
            \/ /\ SecondOfDay(time') > SecondOfDay(time)
               /\ \A f \in {"monthday", "month", "year"} : time'[f] = time[f]
            \/ time'["year"] = time["year"] + 1
            \/ time'["year"] = 0 /\ time["year"] = MaxYear
  <1> DEFINE n == NextSecond(time).time
             s == ticks \div TICKS
  <1>1. /\ time \in [Fields -> Int] /\ InDay(time) /\ time["year"] \in 0 .. MaxYear
        /\ ticks \in Nat /\ start \in Nat /\ SecondOfDay(time) = (start + s) % SecondsADay
    BY DEF Counting
  <1>2. ticks' = ticks + 1 /\ time' = IF ticks' % TICKS # 0 THEN time ELSE n
    BY DEF IRQ_time_handler
  <1>3. ticks' \div TICKS = IF ticks' % TICKS = 0 THEN s + 1 ELSE s
    BY <1>1, <1>2, TickIs
  <1>4. s \in Nat
    BY <1>1, InterruptsAssumption, Divide DEF InterruptsAssumption
  <1> HIDE DEF s
  <1>5. CASE ticks' % TICKS # 0
    BY <1>1, <1>2, <1>3, <1>5 DEF Counting, InDay, SecondOfDay, s
  <1>6. CASE ticks' % TICKS = 0
    <2>1. /\ n \in [Fields -> Int] /\ InDay(n) /\ n["year"] \in 0 .. MaxYear
          /\ SecondOfDay(n) = (SecondOfDay(time) + 1) % SecondsADay
          /\ \/ SecondOfDay(n) > SecondOfDay(time) /\ \A f \in {"monthday", "month", "year"} : n[f] = time[f]
             \/ n["year"] = time["year"] + 1
             \/ n["year"] = 0 /\ time["year"] = MaxYear
      BY <1>1, SecondPasses
    <2>2. time' = n /\ ticks' \in Nat /\ ticks' \div TICKS = s + 1
      BY <1>1, <1>2, <1>3, <1>6
    <2> HIDE DEF n
    <2>3. (((start + s) % SecondsADay) + 1) % SecondsADay = ((start + s) + 1) % SecondsADay
      <3> DEFINE a == start + s
      <3>1. a \in Nat
        BY <1>1, <1>4
      <3> HIDE DEF a
      <3>2. ((a % SecondsADay) + 1) % SecondsADay = (a + 1) % SecondsADay
        BY <3>1, DayIsLong, NextMod
      <3> QED  BY <3>2 DEF a
    <2>4. (start + s) + 1 = start + (s + 1)
      BY <1>1, <1>4
    <2>5. SecondOfDay(n) = (start + (ticks' \div TICKS)) % SecondsADay
      BY <1>1, <2>1, <2>2, <2>3, <2>4
    <2>6. SecondOfDay(time)' = SecondOfDay(n) /\ (InDay(time)' <=> InDay(n))
      BY <2>2 DEF SecondOfDay, InDay
    <2>7. Counting'
      BY <1>1, <2>1, <2>2, <2>5, <2>6 DEF Counting
    <2> QED  BY <2>1, <2>2, <2>7
  <1> QED  BY <1>5, <1>6

LEMMA CountBegins ==
  ASSUME Hours24, Consistent, Agree, ticks = 0, ticks' = 0
  PROVE  Counting'
  <1> DEFINE c == IF time = Reading(chip) THEN chip ELSE before
             d == Decode(time)
             r == RTC_sub_hours(d, UTC_OFFSET)
             back == UTC_OFFSET * (MaxMinute + 1) * (MaxSecond + 1)
  <1>1. Shown(c) /\ time = Reading(c)
    BY ReadAgrees DEF Agree, Consistent
  <1>2. format[1] \in BOOLEAN /\ format[2] = TRUE
    BY ClockAssumption DEF Hours24, Consistent, ClockAssumption
  <1>3. /\ d \in [Fields -> Int] /\ d["year"] \in 0 .. MaxYear
        /\ \A f \in {"seconds", "minutes", "hours"} : d[f] = c[f]
    <2> HIDE DEF c
    <2> QED  BY <1>1, <1>2, DecodeIs
  <1>4. time' = r /\ start' = (SecondOfDay(c) - back) % SecondsADay
    BY DEF Agree, Finish
  <1> HIDE DEF c, d
  <1>5. SecondOfDay(d) = SecondOfDay(c) /\ InDay(d)
    BY <1>1, <1>3 DEF SecondOfDay, InDay, Shown
  <1>6. /\ r \in [Fields -> Int] /\ InDay(r) /\ r["year"] \in 0 .. MaxYear
        /\ SecondOfDay(r) = (SecondOfDay(d) - back) % SecondsADay
    BY <1>3, <1>5, HoursBack
  <1> HIDE DEF r, back
  <1>7. SecondOfDay(r) = start'
    BY <1>4, <1>5, <1>6
  <1>8. SecondOfDay(r) \in 0 .. SecondsADay - 1 /\ SecondsADay \in Nat \ {0}
    <2>1. SecondOfDay(r) = Second(r["hours"], r["minutes"], r["seconds"])
      BY DEF SecondOfDay, Second
    <2> QED  BY <1>6, <2>1, DayIsLong DEF InDay
  <1>9. start' % SecondsADay = start' /\ 0 \div TICKS = 0
    BY <1>7, <1>8, Within, InterruptsAssumption DEF InterruptsAssumption
  <1>10. start' + (ticks' \div TICKS) = start' /\ start' \in Nat
    BY <1>7, <1>8, <1>9
  <1>11. SecondOfDay(time)' = SecondOfDay(r) /\ (InDay(time)' <=> InDay(r))
    BY <1>4 DEF SecondOfDay, InDay
  <1> QED  BY <1>4, <1>6, <1>7, <1>9, <1>10, <1>11 DEF Counting

LEMMA CountStep ==
  ASSUME Hours24, CountInv, [Next]_vars
  PROVE  /\ CountInv'
         /\ booted /\ time' # time => Counting /\ IRQ_time_handler /\ start' = start
  <1>1. ClockInv /\ ClockInv'
    BY ClockStep DEF CountInv
  <1>2. CASE ~booted /\ (RTC_init \/ ChipCounts) /\ ticks = 0 /\ ticks' = 0
    <2>1. CASE Agree
      <3>1. Consistent
        BY <1>1, <1>2 DEF ClockInv
      <3> QED  BY <1>1, <1>2, <2>1, <3>1, CountBegins DEF CountInv
    <2>2. CASE ~Agree
      <3>1. ~booted'
        BY <1>2, <2>2 DEF RTC_init, CMOS_read, Reread, ChipCounts
      <3> QED  BY <1>1, <1>2, <3>1 DEF CountInv
    <2> QED  BY <2>1, <2>2
  <1>3. CASE booted /\ IRQ_time_handler /\ booted' = booted /\ start' = start
    <2>1. Counting
      BY <1>3 DEF CountInv
    <2>2. Counting'
      BY <1>3, <2>1, TimerCounts
    <2> QED  BY <1>1, <1>3, <2>1, <2>2 DEF CountInv
  <1>4. CASE UNCHANGED clockVars /\ ticks' = ticks
    BY <1>1, <1>4 DEF clockVars, CountInv, Counting, InDay, SecondOfDay
  <1> QED  BY <1>1, <1>2, <1>3, <1>4, ClockSteps

\* The time of day is the time at boot and the seconds since, for clocks of
\* any length and any number of ticks, if the chip counts 24 hours.
THEOREM TimeIsKept == ASSUME Hours24  PROVE Spec => []TimeOfDayCounts
  <1>1. Init => CountInv
    BY ClockStarts DEF CountInv, Init, ClockInit
  <1>2. CountInv /\ [Next]_vars => CountInv'
    BY CountStep
  <1>3. CountInv => TimeOfDayCounts
    BY DEF CountInv, Counting, TimeOfDayCounts
  <1> QED  BY <1>1, <1>2, <1>3, PTL DEF Spec

\* The date goes forward with every second, for any number of them, until the
\* year wraps.
THEOREM DateGoesOn == ASSUME Hours24  PROVE Spec => ForwardOnly
  <1>1. Init => CountInv
    BY ClockStarts DEF CountInv, Init, ClockInit
  <1>2. CountInv /\ [Next]_vars => CountInv'
    BY CountStep
  <1>3. CountInv /\ [Next]_vars =>
          (booted /\ time' # time => Later(time', time) \/ (time.year = MaxYear /\ time'.year = 0))
    <2> SUFFICES ASSUME CountInv, [Next]_vars, booted, time' # time,
                        ~(time.year = MaxYear /\ time'.year = 0)
                 PROVE  Later(time', time)
      OBVIOUS
    <2> DEFINE Key(r) == <<r.year, r.month, r.monthday, SecondOfDay(r)>>
    <2>1. Counting /\ Counting'
      BY CountStep, TimerCounts
    <2>2. \/ /\ SecondOfDay(time') > SecondOfDay(time)
             /\ \A f \in {"monthday", "month", "year"} : time'[f] = time[f]
          \/ time'["year"] = time["year"] + 1
      BY CountStep, TimerCounts
    <2>3. ASSUME NEW i \in 1 .. 4, Key(time')[i] > Key(time)[i],
                 \A j \in 1 .. i - 1 : Key(time')[j] = Key(time)[j]
          PROVE  Later(time', time)
      BY <2>3 DEF Later
    <2>4. CASE time'["year"] = time["year"] + 1
      <3>1. Key(time')[1] > Key(time)[1]
        BY <2>1, <2>4 DEF Counting
      <3>2. \A j \in 1 .. 1 - 1 : Key(time')[j] = Key(time)[j]
        OBVIOUS
      <3> QED  BY <2>3, <3>1, <3>2
    <2>5. CASE /\ SecondOfDay(time') > SecondOfDay(time)
               /\ \A f \in {"monthday", "month", "year"} : time'[f] = time[f]
      <3>1. Key(time')[4] > Key(time)[4]
        BY <2>5
      <3>2. \A j \in 1 .. 4 - 1 : Key(time')[j] = Key(time)[j]
        <4>1. 1 .. 4 - 1 = {1, 2, 3}
          OBVIOUS
        <4> QED  BY <2>5, <4>1
      <3> QED  BY <2>3, <3>1, <3>2
    <2> QED  BY <2>2, <2>4, <2>5
  <1> QED  BY <1>1, <1>2, <1>3, PTL DEF Spec, ForwardOnly
=============================================================================
