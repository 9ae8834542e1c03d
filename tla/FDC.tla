-------------------------------- MODULE FDC --------------------------------
(***************************************************************************)
(* The floppy driver (kernel/src/fdc.c), its interrupt handler and the     *)
(* controller they talk to, for drive 0.  The driver runs in steps between *)
(* which the controller and the handler take theirs: FDC_irq_wait spins on *)
(* a flag that the handler sets, and clears it in a step of its own.       *)
(***************************************************************************)
EXTENDS Integers

CONSTANTS Cylinders, Heads, SectorsPerTrack,  \* the geometry of the disk
          Tries,        \* how often a seek or a calibration is tried
          Contents,     \* what a sector can hold
          InReset,      \* whether the controller is in reset at boot
          Interrupts    \* whether sectors are requested with interrupts enabled

ASSUME FDCAssumption ==
  /\ Cylinders \in Nat \ {0} /\ Heads = 2 /\ SectorsPerTrack \in Nat \ {0}
  /\ Tries \in Nat \ {0} /\ Contents # {}
  /\ InReset \in BOOLEAN /\ Interrupts \in BOOLEAN

VARIABLES
  pc,                 \* where the driver is
  floppy_irq_fired,   \* set by the handler, cleared by FDC_irq_wait
  buff,               \* the DMA buffer at buff_vaddr
  req,                \* the request being served
  count,              \* what the loop in progress counts: seeks or senses
  ctl,                \* what the controller is doing, or "ready"
  irq,                \* IRQ 6 is pending at the interrupt controller
  sense,              \* how many interrupts FDC_check_int can still ask about
  pcn,                \* the cylinder the heads are on
  disk,               \* the sectors by cylinder, head and number
  image,              \* ghost: what was last written to each lba
  erred               \* ghost: a sector was transferred off its cylinder

vars == <<pc, floppy_irq_fired, buff, req, count, ctl, irq, sense, pcn, disk, image, erred>>

LBAs    == 0 .. Cylinders * Heads * SectorsPerTrack - 1
Cyls    == 0 .. Cylinders - 1
Places  == Cyls \X (0 .. Heads - 1) \X (1 .. SectorsPerTrack)

\* Wrong on purpose: the tracks of a cylinder are not taken together.
lba_to_chs_by_side(lba) ==
  LET track == lba \div SectorsPerTrack
  IN  <<track % Cylinders, track % Heads, (lba % SectorsPerTrack) + 1>>

FDC_lba_to_chs(lba) ==
  LET track == lba \div SectorsPerTrack
  IN  <<track \div 2, track % 2, (lba % SectorsPerTrack) + 1>>

Target == FDC_lba_to_chs(req.lba)[1]

NoRequest == [op |-> "none", lba |-> 0]

driver     == <<pc, floppy_irq_fired, buff, req, count>>
controller == <<ctl, irq, sense, pcn, disk>>
ghosts     == <<image, erred>>

-----------------------------------------------------------------------------
(* The controller                                                          *)

\* What the driver was given to wait for is over, and IRQ 6 is raised.
Done(next, senses) == ctl' = next /\ irq' = TRUE /\ sense' = senses

ResetDone ==
  /\ ctl = "reset"
  /\ Done("ready", 4)
  /\ UNCHANGED <<driver, pcn, disk, ghosts>>

\* The heads may stop on another cylinder than they were sent to.
SeekDone ==
  /\ ctl \in {"calibrate", "seek"}
  /\ Done("ready", 1)
  /\ pcn' \in Cyls
  /\ UNCHANGED <<driver, disk, ghosts>>

\* A sector is found by its cylinder, head and number, or not at all.
TransferDone ==
  LET at == FDC_lba_to_chs(req.lba) IN
  /\ ctl = "transfer"
  /\ Done("result", 0)
  /\ buff' = IF req.op = "read" /\ at[1] = pcn THEN disk[at] ELSE buff
  /\ disk' = IF req.op = "write" /\ at[1] = pcn THEN [disk EXCEPT ![at] = buff] ELSE disk
  /\ erred' = (erred \/ at[1] # pcn)
  /\ UNCHANGED <<pc, floppy_irq_fired, req, count, pcn, image>>

IRQ_FDC_handler ==
  /\ irq
  /\ req = NoRequest \/ Interrupts
  /\ irq' = FALSE
  /\ floppy_irq_fired' = TRUE
  /\ UNCHANGED <<pc, buff, req, count, ctl, sense, pcn, disk, ghosts>>

-----------------------------------------------------------------------------
(* The driver                                                              *)

Goto(l) == pc' = l

\* FDC_set_drive takes a controller out of reset that is in it.
FDC_set_drive ==
  /\ pc = "set_drive" /\ Goto("reset")
  /\ ctl' = IF ctl = "off" THEN "reset" ELSE ctl
  /\ UNCHANGED <<floppy_irq_fired, buff, req, count, irq, sense, pcn, disk, ghosts>>

\* FDC_disable and FDC_enable; what the controller was doing is over.
FDC_reset ==
  /\ pc = "reset" /\ Goto("wait_reset")
  /\ ctl' = "reset" /\ sense' = 0
  /\ UNCHANGED <<floppy_irq_fired, buff, req, count, irq, pcn, disk, ghosts>>

\* FDC_irq_wait: the loop ends, and then the flag is cleared.
Waits  == {"wait_reset", "wait_calibrate", "wait_seek", "wait_transfer"}
Then   == [wait_reset |-> "sense_reset", wait_calibrate |-> "sense_calibrate",
           wait_seek |-> "sense_seek", wait_transfer |-> "result"]
Fired  == [wait_reset |-> "fired_reset", wait_calibrate |-> "fired_calibrate",
           wait_seek |-> "fired_seek", wait_transfer |-> "fired_transfer"]

Spin(w) ==
  /\ pc = w /\ floppy_irq_fired
  /\ Goto(Fired[w])
  /\ UNCHANGED <<floppy_irq_fired, buff, req, count, controller, ghosts>>

\* Wrong on purpose: the flag stays set.
FDC_irq_wait_sticky(w) ==
  /\ pc = Fired[w] /\ Goto(Then[w])
  /\ UNCHANGED <<floppy_irq_fired, buff, req, count, controller, ghosts>>

FDC_irq_wait(w) ==
  /\ pc = Fired[w] /\ Goto(Then[w])
  /\ floppy_irq_fired' = FALSE
  /\ UNCHANGED <<buff, req, count, controller, ghosts>>

\* FDC_check_int, which stops the machine for good when there is nothing to ask
\* about ("panic" has no successor); the controller takes the command while the heads move.
CanSense == ctl \in {"ready", "calibrate", "seek"}
Sensed(next, n) ==
  /\ CanSense
  /\ IF sense = 0 THEN Goto("panic") /\ UNCHANGED <<sense, count>>
     ELSE Goto(next) /\ sense' = sense - 1 /\ count' = n

\* The four drives of a controller report after a reset.
SenseReset ==
  /\ pc = "sense_reset"
  /\ IF count < 3 THEN Sensed("sense_reset", count + 1) ELSE Sensed("calibrate", 0)
  /\ UNCHANGED <<floppy_irq_fired, buff, req, ctl, irq, pcn, disk, ghosts>>

\* A command is written when the controller takes one.
Command(l, what, wait) ==
  /\ pc = l /\ ctl = "ready"
  /\ ctl' = what
  /\ Goto(wait)
  /\ UNCHANGED <<floppy_irq_fired, buff, req, count, irq, sense, pcn, disk, ghosts>>

FDC_CMD_callibrate == Command("calibrate", "calibrate", "wait_calibrate")
FDC_CMD_seek       == Command("seek", "seek", "wait_seek")
FDC_CMD_transfer   == Command("transfer", "transfer", "wait_transfer")

\* Wrong on purpose: the tries are not counted.
after_move_forever(l, again, next, cyl) ==
  /\ pc = l
  /\ IF pcn = cyl THEN Sensed(next, 0) ELSE Sensed(again, count)
  /\ UNCHANGED <<floppy_irq_fired, buff, req, ctl, irq, pcn, disk, ghosts>>

\* The heads are asked where they are.  After the last try the driver goes on
\* as if they were where they should be.
AfterMove(l, again, next, cyl) ==
  /\ pc = l
  /\ IF pcn = cyl \/ count + 1 = Tries THEN Sensed(next, 0) ELSE Sensed(again, count + 1)
  /\ UNCHANGED <<floppy_irq_fired, buff, req, ctl, irq, pcn, disk, ghosts>>

Calibrated == AfterMove("sense_calibrate", "calibrate", "idle", 0)
Sought     == AfterMove("sense_seek", "seek", "transfer", Target)

FDC_read_sector(lba) ==
  /\ pc = "idle" /\ Goto("seek")
  /\ req' = [op |-> "read", lba |-> lba]
  /\ UNCHANGED <<floppy_irq_fired, buff, count, controller, ghosts>>

FDC_write_sector(lba, v) ==
  /\ pc = "idle" /\ Goto("seek")
  /\ req' = [op |-> "write", lba |-> lba]
  /\ buff' = v
  /\ image' = [image EXCEPT ![lba] = v]
  /\ UNCHANGED <<floppy_irq_fired, count, controller, erred>>

\* The seven result bytes are read and ignored.
Result ==
  /\ pc = "result" /\ ctl = "result"
  /\ ctl' = "ready"
  /\ Goto("return")
  /\ UNCHANGED <<floppy_irq_fired, buff, req, count, irq, sense, pcn, disk, ghosts>>

\* The caller of a read takes the sector from buff.
Return ==
  /\ pc = "return" /\ Goto("idle")
  /\ req' = NoRequest
  /\ UNCHANGED <<floppy_irq_fired, buff, count, controller, ghosts>>

Init ==
  /\ pc = "set_drive" /\ floppy_irq_fired = FALSE
  /\ req = NoRequest /\ count = 0
  /\ ctl = IF InReset THEN "off" ELSE "ready"
  /\ irq = FALSE /\ sense = 0 /\ pcn \in Cyls
  /\ \E v \in Contents :
       /\ buff = v
       /\ disk = [p \in Places |-> v] /\ image = [l \in LBAs |-> v]
  /\ erred = FALSE

Controller == ResetDone \/ SeekDone \/ TransferDone

Driver == \/ FDC_set_drive \/ FDC_reset
          \/ \E w \in Waits : Spin(w) \/ FDC_irq_wait(w)
          \/ SenseReset \/ FDC_CMD_callibrate \/ Calibrated
          \/ FDC_CMD_seek \/ Sought \/ FDC_CMD_transfer \/ Result \/ Return

Request == \E lba \in LBAs : \/ FDC_read_sector(lba)
                             \/ \E v \in Contents : FDC_write_sector(lba, v)

Next == Controller \/ IRQ_FDC_handler \/ Driver \/ Request

\* The controller finishes what it was told to do, the processor takes an
\* interrupt that is pending and the driver runs.
Fairness == WF_vars(Controller) /\ WF_vars(IRQ_FDC_handler) /\ WF_vars(Driver)

Spec == Init /\ [][Next]_vars /\ Fairness

-----------------------------------------------------------------------------
(* Properties                                                              *)

\* FDC_irq_wait returns for the interrupt of the command it was called for,
\* and none is left over when the next command is written.  FDC_check_int asks
\* about exactly the interrupts there were: it never gets the answer 0x80, on
\* which it stops the machine.
OwnInterrupt ==
  /\ pc # "panic"
  /\ pc \in {"sense_calibrate", "sense_seek", "calibrate", "seek", "transfer"} => ctl = "ready"
  /\ pc = "result" => ctl = "result"
  /\ pc \in {"calibrate", "seek", "transfer", "return", "idle"}
       => ~irq /\ ~floppy_irq_fired

\* Between requests every sector holds what was last written to its lba, and
\* a read returns just that, as long as the seeks have found their cylinders.
SectorsKept ==
  ~erred =>
    /\ pc = "idle" => \A l \in LBAs : disk[FDC_lba_to_chs(l)] = image[l]
    /\ pc = "return" => buff = image[req.lba]

\* Every request returns, whatever the seeks do.
Returns == pc = "seek" ~> pc = "idle"
=============================================================================
