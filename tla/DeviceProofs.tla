---------------------------- MODULE DeviceProofs ----------------------------
(***************************************************************************)
(* The drivers, for every size of their buffers, geometry and number of    *)
(* tries: the keyboard keeps the keys in their order, the floppy driver    *)
(* and the ATA driver keep the sectors and return, the screen shows the    *)
(* end of the text.                                                        *)
(***************************************************************************)
EXTENDS PS2, FDC, ATA, Terminal, Induction, SequenceTheorems

-----------------------------------------------------------------------------
(* The keyboard                                                          *)

ScanCodes == [kind : Kinds \cup {"none"}, id : Nat]

KeyboardTypeOK ==
  /\ keycode \in ScanCodes /\ port \in ScanCodes
  /\ ps2_stdin \in Seq(Nat) /\ typed \in Nat

\* All characters in the buffer are older than the code, or it is 0.
Younger(code) == \A i \in 1 .. Len(ps2_stdin) : ps2_stdin[i] = 0 \/ ps2_stdin[i] < code.id
NotOlder(code) == \A i \in 1 .. Len(ps2_stdin) : ps2_stdin[i] = 0 \/ ps2_stdin[i] <= code.id

\* What waits at the keyboard is younger than the code that was taken, and
\* that is younger than the buffer; once it has been entered it is not older,
\* until it is reset.
Ages ==
  /\ \A i \in 1 .. Len(ps2_stdin) : ps2_stdin[i] <= typed
  /\ keycode.kind = "char" => keycode.id <= typed
  /\ port.kind = "char" => port.id <= typed
  /\ port # NoKey => Younger(port) /\ (keycode.kind = "char" => keycode.id < port.id)
  /\ keycode.kind = "char" => NotOlder(keycode) /\ (reader # "reset" => Younger(keycode))

KeyboardInv == KeyboardTypeOK /\ Ages /\ InTypingOrder

-----------------------------------------------------------------------------
LEMMA KeyboardStarts == KeyboardInit => KeyboardInv
  <1> SUFFICES ASSUME KeyboardInit  PROVE KeyboardInv
    OBVIOUS
  <1>1. <<>> \in Seq(Nat) /\ Len(<<>>) = 0
    OBVIOUS
  <1> QED  BY <1>1, PS2Assumption
           DEF KeyboardInit, KeyboardInv, KeyboardTypeOK, Ages, InTypingOrder, ScanCodes, NoKey, PS2Assumption

\* A key gets a number that is in nobody's hands yet.
LEMMA PressInv ==
  ASSUME KeyboardInv, NEW k \in Kinds, Press(k)  PROVE KeyboardInv'
  <1>1. /\ port = NoKey /\ port' = [kind |-> k, id |-> typed + 1]
        /\ typed' \in Nat /\ typed <= typed' /\ (k # "enter" => typed' = typed + 1)
        /\ UNCHANGED <<keycode, ps2_stdin, reader>>
    BY DEF Press, Code, KeyboardInv, KeyboardTypeOK
  <1>2. KeyboardTypeOK'
    BY <1>1 DEF KeyboardInv, KeyboardTypeOK, ScanCodes
  <1>3. \A i \in 1 .. Len(ps2_stdin) : ps2_stdin[i] \in Nat /\ ps2_stdin[i] <= typed
    BY DEF KeyboardInv, KeyboardTypeOK, Ages
  <1>4. keycode.kind = "char" => keycode.id \in Nat /\ keycode.id <= typed
    BY DEF KeyboardInv, KeyboardTypeOK, Ages, ScanCodes
  <1>5. typed \in Nat
    BY DEF KeyboardInv, KeyboardTypeOK
  <1>6. Ages'
    BY <1>1, <1>3, <1>4, <1>5 DEF KeyboardInv, Ages, Younger, NotOlder
  <1> QED  BY <1>1, <1>2, <1>6 DEF KeyboardInv, InTypingOrder

\* The handler gives the reader the younger code, wherever the reader is.
LEMMA HandlerInv ==
  ASSUME KeyboardInv, IRQ_keyboard_handler  PROVE KeyboardInv'
  <1>1. port # NoKey /\ keycode' = port /\ port' = NoKey /\ UNCHANGED <<ps2_stdin, typed>>
    BY DEF IRQ_keyboard_handler
  <1>2. KeyboardTypeOK'
    BY <1>1 DEF KeyboardInv, KeyboardTypeOK, ScanCodes, NoKey
  <1>3. Younger(port) /\ NotOlder(port)
    BY <1>1 DEF KeyboardInv, Ages, KeyboardTypeOK, ScanCodes, Younger, NotOlder
  <1>4. Ages'
    BY <1>1, <1>3 DEF KeyboardInv, Ages, Younger, NotOlder, NoKey
  <1> QED  BY <1>1, <1>2, <1>4 DEF KeyboardInv, InTypingOrder

\* Steps of the reader that leave the buffer and the codes alone.
LEMMA QuietInv ==
  ASSUME KeyboardInv, UNCHANGED <<keycode, ps2_stdin, port, typed>>,
         reader = "reset" => reader' = "reset"
  PROVE  KeyboardInv'
  BY DEF KeyboardInv, KeyboardTypeOK, Ages, Younger, NotOlder, InTypingOrder

\* What is left of the buffer is in order.
LEMMA ShorterInv ==
  ASSUME KeyboardInv, UNCHANGED <<keycode, port, typed>>, ps2_stdin' \in Seq(Nat),
         Len(ps2_stdin') <= Len(ps2_stdin),
         \A i \in 1 .. Len(ps2_stdin') : ps2_stdin'[i] = ps2_stdin[i],
         reader # "reset"
  PROVE  KeyboardInv'
  <1>1. \A i \in 1 .. Len(ps2_stdin') : i \in 1 .. Len(ps2_stdin)
    BY DEF KeyboardInv, KeyboardTypeOK
  <1>2. KeyboardTypeOK'
    BY DEF KeyboardInv, KeyboardTypeOK
  <1>3. Ages'
    BY <1>1 DEF KeyboardInv, Ages, Younger, NotOlder
  <1>4. Len(ps2_stdin') <= PS2_STDIN_SIZE
    BY PS2Assumption DEF KeyboardInv, InTypingOrder, KeyboardTypeOK, PS2Assumption
  <1>5. InTypingOrder'
    BY <1>1, <1>4 DEF KeyboardInv, InTypingOrder
  <1> QED  BY <1>2, <1>3, <1>5 DEF KeyboardInv

\* A character is put behind older ones, another byte counts as 0.
LEMMA LookupInv ==
  ASSUME KeyboardInv, Lookup  PROVE KeyboardInv'
  <1>0. /\ ps2_stdin \in Seq(Nat) /\ Len(ps2_stdin) \in Nat /\ keycode.id \in Nat
        /\ typed \in Nat /\ port.id \in Nat
        /\ \A i \in 1 .. Len(ps2_stdin) : ps2_stdin[i] \in Nat
        /\ reader = "lookup" /\ UNCHANGED <<keycode, port, typed>>
    BY DEF KeyboardInv, KeyboardTypeOK, ScanCodes, Lookup, Enters, Steps
  <1>1. CASE UNCHANGED ps2_stdin
    BY <1>0, <1>1, QuietInv
  <1>2. ASSUME NEW id \in Nat, id = 0 \/ (keycode.kind = "char" /\ id = keycode.id),
               HasRoom, Enters(id)
        PROVE  KeyboardInv'
    <2> DEFINE s == ps2_stdin
               t == Append(s, id)
               n == Len(s)
    <2>1. /\ ps2_stdin' = t /\ reader' = "reset" /\ n < PS2_STDIN_SIZE
          /\ t \in Seq(Nat) /\ Len(t) = n + 1 /\ t[n + 1] = id
          /\ \A i \in 1 .. n : t[i] = s[i]
      BY <1>0, <1>2 DEF Enters, Steps, HasRoom
    <2>2. \A i \in 1 .. n + 1 : i \in 1 .. n \/ i = n + 1
      BY <1>0
    <2>3. KeyboardTypeOK'
      BY <1>0, <2>1 DEF KeyboardInv, KeyboardTypeOK
    <2>4. \A i \in 1 .. n : s[i] <= typed /\ (keycode.kind = "char" => s[i] = 0 \/ s[i] < keycode.id)
      BY <1>0 DEF KeyboardInv, Ages, Younger
    <2>5. id <= typed
      BY <1>0, <1>2 DEF KeyboardInv, Ages
    <2>6. port # NoKey =>
            /\ \A i \in 1 .. n : s[i] = 0 \/ s[i] < port.id
            /\ id = 0 \/ id < port.id
            /\ keycode.kind = "char" => keycode.id < port.id
      BY <1>2 DEF KeyboardInv, Ages, Younger
    <2>7. Ages'
      <3>1. \A i \in 1 .. n + 1 : t[i] <= typed
        BY <2>1, <2>2, <2>4, <2>5
      <3>2. port # NoKey => \A i \in 1 .. n + 1 : t[i] = 0 \/ t[i] < port.id
        BY <2>1, <2>2, <2>6
      <3>3. keycode.kind = "char" => \A i \in 1 .. n + 1 : t[i] = 0 \/ t[i] <= keycode.id
        BY <1>0, <1>2, <2>1, <2>2, <2>4
      <3> HIDE DEF t, s, n
      <3> QED  BY <1>0, <2>1, <2>6, <3>1, <3>2, <3>3 DEF KeyboardInv, Ages, Younger, NotOlder
    <2>8. \A i, j \in 1 .. n + 1 : i < j /\ t[i] # 0 /\ t[j] # 0 => t[i] < t[j]
      <3> SUFFICES ASSUME NEW i \in 1 .. n + 1, NEW j \in 1 .. n + 1,
                          i < j, t[i] # 0, t[j] # 0
                   PROVE  t[i] < t[j]
        OBVIOUS
      <3>1. i \in 1 .. n /\ t[i] = s[i]
        BY <1>0, <2>1, <2>2
      <3>2. CASE j = n + 1
        BY <1>2, <2>1, <2>4, <3>1, <3>2
      <3>3. CASE j \in 1 .. n
        BY <2>1, <3>1, <3>3 DEF KeyboardInv, InTypingOrder
      <3> QED  BY <2>2, <3>2, <3>3
    <2>9. n + 1 <= PS2_STDIN_SIZE
      BY <1>0, <2>1, PS2Assumption DEF PS2Assumption
    <2> HIDE DEF t, s, n
    <2> QED  BY <2>1, <2>3, <2>7, <2>8, <2>9 DEF KeyboardInv, InTypingOrder
  <1>3. \/ UNCHANGED ps2_stdin
        \/ keycode.kind = "char" /\ HasRoom /\ Enters(keycode.id)
        \/ HasRoom /\ Enters(0)
    BY DEF Lookup
  <1> QED  BY <1>0, <1>1, <1>2, <1>3

\* A code that is cleared is younger than nothing.
LEMMA ClearInv ==
  ASSUME KeyboardInv, Reset \/ Ended  PROVE KeyboardInv'
  <1>1. keycode' = NoKey /\ UNCHANGED <<ps2_stdin, port, typed>>
    BY DEF Reset, Ended, ClearTo
  <1>2. KeyboardTypeOK'
    BY <1>1 DEF KeyboardInv, KeyboardTypeOK, ScanCodes, NoKey
  <1>3. Ages'
    BY <1>1 DEF KeyboardInv, Ages, Younger, NoKey
  <1> QED  BY <1>1, <1>2, <1>3 DEF KeyboardInv, InTypingOrder

LEMMA Prefix ==
  ASSUME NEW s \in Seq(Nat), NEW m \in Nat, m <= Len(s)
  PROVE  /\ SubSeq(s, 1, m) \in Seq(Nat) /\ Len(SubSeq(s, 1, m)) = m
         /\ \A i \in 1 .. m : SubSeq(s, 1, m)[i] = s[i]
  <1>1. 1 \in Int /\ m \in Int /\ \A i \in 1 .. m : s[i] \in Nat
    OBVIOUS
  <1>2. /\ SubSeq(s, 1, m) \in Seq(Nat)
        /\ Len(SubSeq(s, 1, m)) = IF 1 <= m THEN m - 1 + 1 ELSE 0
        /\ \A i \in 1 .. m - 1 + 1 : SubSeq(s, 1, m)[i] = s[1 + i - 1]
    BY <1>1, SubSeqProperties
  <1>3. m - 1 + 1 = m /\ \A i \in 1 .. m : 1 + i - 1 = i
    OBVIOUS
  <1>4. Len(SubSeq(s, 1, m)) = m
    BY <1>2, <1>3
  <1>5. \A i \in 1 .. m : SubSeq(s, 1, m)[i] = s[i]
    BY <1>2, <1>3
  <1> QED  BY <1>2, <1>4, <1>5

LEMMA BackspaceInv ==
  ASSUME KeyboardInv, TestBackspace  PROVE KeyboardInv'
  <1> DEFINE n == Len(ps2_stdin)
  <1>1. ps2_stdin \in Seq(Nat) /\ n \in Nat /\ (ps2_stdin # <<>> => n > 0)
    BY DEF KeyboardInv, KeyboardTypeOK
  <1>2. UNCHANGED <<keycode, port, typed>> /\ reader = "backspace"
    BY DEF TestBackspace, Steps
  <1>3. CASE UNCHANGED ps2_stdin
    BY <1>2, <1>3, QuietInv
  <1>4. CASE ps2_stdin # <<>> /\ ps2_stdin' = SubSeq(ps2_stdin, 1, n - 1)
    <2>1. /\ ps2_stdin' \in Seq(Nat) /\ Len(ps2_stdin') = n - 1
          /\ \A i \in 1 .. n - 1 : ps2_stdin'[i] = ps2_stdin[i]
      <3>1. n - 1 \in Nat /\ n - 1 <= Len(ps2_stdin)
        BY <1>1, <1>4
      <3> QED  BY <1>1, <1>4, <3>1, Prefix
    <2> HIDE DEF n
    <2>2. n - 1 <= n
      BY <1>1
    <2> QED  BY <1>2, <2>1, <2>2, ShorterInv DEF n
  <1> QED  BY <1>3, <1>4 DEF TestBackspace

LEMMA FlushInv ==
  ASSUME KeyboardInv, PS2_flush  PROVE KeyboardInv'
  <1>1. /\ UNCHANGED <<keycode, port, typed>> /\ reader = "idle" /\ ps2_stdin' = <<>>
        /\ ps2_stdin' \in Seq(Nat) /\ Len(ps2_stdin') = 0
    BY DEF PS2_flush
  <1>2. Len(ps2_stdin') <= Len(ps2_stdin)
    BY <1>1 DEF KeyboardInv, KeyboardTypeOK
  <1>3. \A i \in 1 .. Len(ps2_stdin') : ps2_stdin'[i] = ps2_stdin[i]
    BY <1>1
  <1> QED  BY <1>1, <1>2, <1>3, ShorterInv

LEMMA KeyboardSteps ==
  ASSUME KeyboardInv, [KeyboardNext]_keyboardVars  PROVE KeyboardInv'
  <1>1. ASSUME NEW k \in Kinds, Press(k)  PROVE KeyboardInv'
    BY <1>1, PressInv
  <1>2. CASE IRQ_keyboard_handler
    BY <1>2, HandlerInv
  <1>3. CASE IRQ_time_handler
    BY <1>3, QuietInv DEF IRQ_time_handler, Wake
  <1>4. CASE PS2_read
    BY <1>4, QuietInv DEF PS2_read, Steps
  <1>5. CASE PS2_flush
    BY <1>5, FlushInv
  <1>6. CASE Test
    BY <1>6, QuietInv DEF Test, Steps
  <1>7. CASE TestPositive
    BY <1>7, QuietInv DEF TestPositive, Steps
  <1>8. CASE TestRange
    BY <1>8, QuietInv DEF TestRange, Steps
  <1>9. CASE TestBackspace
    BY <1>9, BackspaceInv
  <1>10. CASE Lookup
    BY <1>10, LookupInv
  <1>11. CASE Reset \/ Ended
    BY <1>11, ClearInv
  <1>12. CASE Mask
    BY <1>12, QuietInv DEF Mask, Steps
  <1>13. CASE UNCHANGED keyboardVars
    BY <1>13, QuietInv DEF keyboardVars
  <1>14. CASE Halt
    BY <1>14, QuietInv DEF Halt, Steps
  <1> QED  BY <1>1, <1>2, <1>3, <1>4, <1>5, <1>6, <1>7, <1>8, <1>9, <1>10, <1>11,
              <1>12, <1>13, <1>14 DEF KeyboardNext, Reader

\* Interrupts may come between any two loads of keycode: what is in the buffer
\* stays in the order in which it was typed, nothing is entered twice, and no
\* more than PS2_STDIN_SIZE characters are entered.
THEOREM KeysInTypingOrder == KeyboardSpec => []InTypingOrder
  <1>1. KeyboardInv => InTypingOrder
    BY DEF KeyboardInv
  <1> QED  BY KeyboardStarts, KeyboardSteps, <1>1, PTL DEF KeyboardSpec

-----------------------------------------------------------------------------
(* The floppy controller                                                 *)

Quiet == ~irq /\ ~floppy_irq_fired

\* What the controller does while the driver waits, and what it leaves.
During == [wait_reset |-> "reset", wait_calibrate |-> "calibrate",
           wait_seek |-> "seek", wait_transfer |-> "transfer"]
Leaves == [wait_reset |-> "ready", wait_calibrate |-> "ready",
           wait_seek |-> "ready", wait_transfer |-> "result"]
Senses == [wait_reset |-> 4, wait_calibrate |-> 1, wait_seek |-> 1, wait_transfer |-> 0]

Over(w) == ctl = Leaves[w] /\ sense = Senses[w]

\* Nothing is in progress and no interrupt is left over.
AtRest == ctl = "ready" /\ sense = 0 /\ Quiet

Resting == {"set_drive", "reset", "calibrate", "idle", "seek", "transfer", "return"}
Sensing == {"sense_reset", "sense_calibrate", "sense_seek"}

\* A command is answered by one interrupt, which is either asked for, pending
\* or taken, and the driver goes on when it is taken.
InStep ==
  /\ pc \in Resting \cup Waits \cup {Fired[w] : w \in Waits} \cup Sensing \cup {"result"}
  /\ pc \in Resting => AtRest
  /\ \A w \in Waits :
       /\ pc = w => \/ ctl = During[w] /\ Quiet
                    \/ Over(w) /\ (irq <=> ~floppy_irq_fired)
       /\ pc = Fired[w] => Over(w) /\ ~irq /\ floppy_irq_fired
  /\ pc \in {"set_drive", "reset", "wait_reset", "fired_reset"} => count = 0
  /\ pc = "sense_reset" =>
       ctl = "ready" /\ Quiet /\ count \in 0 .. 3 /\ sense = 4 - count
  /\ pc \in {"sense_calibrate", "sense_seek"} => ctl = "ready" /\ Quiet /\ sense = 1
  /\ pc = "result" => ctl = "result" /\ Quiet /\ sense = 0

-----------------------------------------------------------------------------
\* The driver never leaves the set of its places.
LEMMA InitInStep ==
  ASSUME ~InReset, Init  PROVE InStep
  BY DEF Init, InStep, AtRest, Quiet, Resting, Sensing, Waits, Fired

LEMMA NextInStep ==
  ASSUME InStep, [Next]_vars  PROVE InStep'
  <1> USE DEF InStep, Quiet, AtRest, Resting, Waits, Fired, During, Leaves, Senses, Over, Sensing
  <1>1. CASE ResetDone
    <2>1. pc = "wait_reset" /\ Quiet /\ count = 0
      BY <1>1 DEF ResetDone
    <2>2. /\ pc' = pc /\ floppy_irq_fired' = floppy_irq_fired /\ count' = count
          /\ ctl' = "ready" /\ irq' = TRUE /\ sense' = 4
      BY <1>1 DEF ResetDone, Done, driver
    <2> QED  BY <2>1, <2>2
  <1>2. CASE SeekDone
    <2>1. pc \in {"wait_calibrate", "wait_seek"} /\ Quiet
      BY <1>2 DEF SeekDone
    <2>2. /\ pc' = pc /\ floppy_irq_fired' = floppy_irq_fired
          /\ ctl' = "ready" /\ irq' = TRUE /\ sense' = 1
      BY <1>2 DEF SeekDone, Done, driver
    <2> QED  BY <2>1, <2>2
  <1>3. CASE TransferDone
    <2>1. pc = "wait_transfer" /\ Quiet
      BY <1>3 DEF TransferDone
    <2>2. /\ pc' = pc /\ floppy_irq_fired' = floppy_irq_fired
          /\ ctl' = "result" /\ irq' = TRUE /\ sense' = 0
      BY <1>3 DEF TransferDone, Done
    <2> QED  BY <2>1, <2>2
  <1>4. CASE IRQ_FDC_handler
    BY <1>4 DEF IRQ_FDC_handler
  <1>5. CASE FDC_set_drive
    BY <1>5 DEF FDC_set_drive, Goto
  <1>6. CASE FDC_reset
    BY <1>6 DEF FDC_reset, Goto
  <1>7. ASSUME NEW w \in Waits, Spin(w)  PROVE InStep'
    BY <1>7 DEF Spin, Goto, controller
  <1>8. ASSUME NEW w \in Waits, FDC_irq_wait(w)  PROVE InStep'
    <2>1. /\ Over(w) /\ ~irq /\ floppy_irq_fired
          /\ w = "wait_reset" => count = 0
      BY <1>8 DEF FDC_irq_wait
    <2>2. /\ pc' = Then[w] /\ floppy_irq_fired' = FALSE
          /\ ctl' = ctl /\ irq' = irq /\ sense' = sense /\ count' = count
      BY <1>8 DEF FDC_irq_wait, Goto, controller
    <2>3. CASE w = "wait_reset"
      BY <2>1, <2>2, <2>3 DEF Then
    <2>4. CASE w \in {"wait_calibrate", "wait_seek"}
      BY <2>1, <2>2, <2>4 DEF Then
    <2>5. CASE w = "wait_transfer"
      BY <2>1, <2>2, <2>5 DEF Then
    <2> QED  BY <2>3, <2>4, <2>5
  <1>9. CASE SenseReset
    BY <1>9 DEF SenseReset, Sensed, Goto, CanSense
  <1>10. CASE FDC_CMD_callibrate \/ FDC_CMD_seek \/ FDC_CMD_transfer
    BY <1>10 DEF FDC_CMD_callibrate, FDC_CMD_seek, FDC_CMD_transfer, Command, Goto
  <1>11. CASE Calibrated \/ Sought
    BY <1>11 DEF Calibrated, Sought, AfterMove, Sensed, Goto, CanSense
  <1>12. CASE Result
    BY <1>12 DEF Result, Goto
  <1>13. CASE Return
    BY <1>13 DEF Return, Goto, controller
  <1>14. CASE Request
    BY <1>14 DEF Request, FDC_read_sector, FDC_write_sector, Goto, controller
  <1>15. CASE UNCHANGED vars
    BY <1>15 DEF vars
  <1> QED
    BY <1>1, <1>2, <1>3, <1>4, <1>5, <1>6, <1>7, <1>8, <1>9, <1>10, <1>11, <1>12, <1>13,
       <1>14, <1>15 DEF Next, Controller, Driver

\* FDC_irq_wait returns for the interrupt of the command it was called for,
\* and FDC_check_int finds one to ask about, if the controller was not in reset
\* when the driver first set it up.
THEOREM FloppyOwnInterrupt ==
  ASSUME ~InReset  PROVE Spec => []OwnInterrupt
  <1>1. InStep => OwnInterrupt
    BY DEF InStep, OwnInterrupt, Resting, Waits, Fired, Sensing, AtRest, Quiet
  <1>2. Init => InStep
    BY InitInStep
  <1>3. InStep /\ [Next]_vars => InStep'
    BY NextInStep
  <1> QED  BY <1>1, <1>2, <1>3, PTL DEF Spec

-----------------------------------------------------------------------------
(* The sectors                                                             *)

\* What division by the length of a track gives.
LEMMA Track ==
  ASSUME NEW l \in LBAs
  PROVE  /\ l \div SectorsPerTrack \in 0 .. 2 * Cylinders - 1
         /\ l % SectorsPerTrack \in 0 .. SectorsPerTrack - 1
         /\ l = SectorsPerTrack * (l \div SectorsPerTrack) + (l % SectorsPerTrack)
  <1> DEFINE s == SectorsPerTrack
             t == l \div s
  <1>1. s \in Nat \ {0} /\ Cylinders \in Nat \ {0} /\ Heads = 2
    BY FDCAssumption DEF FDCAssumption
  <1>2. l \in Nat /\ l < Cylinders * 2 * s
    BY <1>1 DEF LBAs
  <1>3. /\ l % s \in 0 .. s - 1
        /\ l = s * t + (l % s) /\ t \in Nat
    BY <1>1, <1>2
  <1>4. t < 2 * Cylinders
    <2> SUFFICES ASSUME t >= 2 * Cylinders  PROVE FALSE
      BY <1>1, <1>3
    <2> HIDE DEF s, t
    <2>1. s * t >= s * (2 * Cylinders)
      BY <1>1, <1>3
    <2> QED  BY <1>1, <1>2, <1>3, <2>1
  <1> QED  BY <1>1, <1>3, <1>4

\* Every lba has its place on the disk,
LEMMA OnDisk ==
  ASSUME NEW l \in LBAs  PROVE FDC_lba_to_chs(l) \in Places
  <1> DEFINE t == l \div SectorsPerTrack
             r == l % SectorsPerTrack
  <1>1. /\ t \in 0 .. 2 * Cylinders - 1 /\ r \in 0 .. SectorsPerTrack - 1
        /\ SectorsPerTrack \in Nat /\ Cylinders \in Nat /\ Heads = 2
    BY Track, FDCAssumption DEF FDCAssumption
  <1>2. FDC_lba_to_chs(l) = <<t \div 2, t % 2, r + 1>>
    BY DEF FDC_lba_to_chs
  <1> HIDE DEF t, r
  <1>3. t \div 2 \in Cyls /\ t % 2 \in 0 .. Heads - 1 /\ r + 1 \in 1 .. SectorsPerTrack
    BY <1>1 DEF Cyls
  <1> QED  BY <1>2, <1>3 DEF Places

\* and no other lba has that place.
LEMMA OwnPlace ==
  ASSUME NEW l \in LBAs, NEW m \in LBAs, FDC_lba_to_chs(l) = FDC_lba_to_chs(m)
  PROVE  l = m
  <1> DEFINE s == SectorsPerTrack
  <1>1. /\ (l \div s) \div 2 = (m \div s) \div 2 /\ (l \div s) % 2 = (m \div s) % 2
        /\ l % s = m % s
    <2>1. l % s \in Int /\ m % s \in Int
      BY Track
    <2> QED  BY <2>1 DEF FDC_lba_to_chs
  <1>2. l \div s \in Nat /\ m \div s \in Nat
    BY Track, FDCAssumption DEF FDCAssumption
  <1>3. l \div s = m \div s
    <2> DEFINE a == l \div s
               b == m \div s
    <2>1. a \in Nat /\ b \in Nat /\ a \div 2 = b \div 2 /\ a % 2 = b % 2
      BY <1>1, <1>2
    <2> HIDE DEF a, b
    <2>2. a = b
      BY <2>1
    <2> QED  BY <2>2 DEF a, b
  <1> QED  BY <1>1, <1>3, Track

-----------------------------------------------------------------------------
\* Before and after the transfer of the sector that was asked for.
Ahead == pc \in {"seek", "wait_seek", "fired_seek", "sense_seek", "transfer"}
         \/ (pc = "wait_transfer" /\ ctl = "transfer")
After == pc \in {"fired_transfer", "result", "return"}
         \/ (pc = "wait_transfer" /\ ctl = "result")

Writing(l) == Ahead /\ req.op = "write" /\ req.lba = l

Shape ==
  /\ disk = [p \in Places |-> disk[p]]
  /\ image = [l \in LBAs |-> image[l]]
  /\ Ahead \/ After => req.lba \in LBAs /\ req.op \in {"read", "write"}

\* The disk is behind the image by the sector being written only, and that one
\* is in the buffer.
Kept ==
  ~erred => /\ \A l \in LBAs : Writing(l) \/ disk[FDC_lba_to_chs(l)] = image[l]
            /\ (Ahead /\ req.op = "write") \/ After => buff = image[req.lba]

SectorInv == InStep /\ Shape /\ Kept

LEMMA InitSector ==
  ASSUME ~InReset, Init  PROVE SectorInv
  <1>1. ~Ahead /\ ~After
    BY DEF Init, Ahead, After
  <1>2. PICK v \in Contents : disk = [p \in Places |-> v] /\ image = [l \in LBAs |-> v]
    BY DEF Init
  <1>3. Shape
    BY <1>1, <1>2 DEF Shape
  <1>4. Kept
    BY <1>1, <1>2, OnDisk DEF Kept
  <1> QED  BY <1>3, <1>4, InitInStep DEF SectorInv

\* Steps that move no data and begin or end no request.
LEMMA NoData ==
  ASSUME SectorInv, InStep', UNCHANGED <<buff, req, disk, image, erred>>,
         Ahead' <=> Ahead, After' <=> After
  PROVE  SectorInv'
  <1>1. Shape'
    BY DEF SectorInv, Shape
  <1>2. Kept'
    BY DEF SectorInv, Kept, Writing
  <1> QED  BY <1>1, <1>2 DEF SectorInv

\* The sector that is asked for goes from or to its place.
LEMMA TransferSector ==
  ASSUME SectorInv, InStep', TransferDone  PROVE SectorInv'
  <1> DEFINE place == FDC_lba_to_chs(req.lba)
  <1>1. pc = "wait_transfer" /\ Ahead /\ req.lba \in LBAs /\ req.op \in {"read", "write"}
    BY DEF TransferDone, SectorInv, InStep, Resting, Sensing, Waits, Fired, AtRest, Over,
           Leaves, During, Shape, Ahead
  <1>2. ~Ahead' /\ After' /\ req' = req /\ image' = image
    BY <1>1 DEF TransferDone, Done, Ahead, After
  <1>3. place \in Places
    BY <1>1, OnDisk
  <1>4. /\ buff' = IF req.op = "read" /\ place[1] = pcn THEN disk[place] ELSE buff
        /\ disk' = IF req.op = "write" /\ place[1] = pcn THEN [disk EXCEPT ![place] = buff] ELSE disk
        /\ erred' = (erred \/ place[1] # pcn)
    BY DEF TransferDone
  <1>5. Shape'
    BY <1>1, <1>2, <1>4 DEF SectorInv, Shape
  <1>6. Kept'
    <2> SUFFICES ASSUME ~erred'
                 PROVE  /\ \A l \in LBAs : disk'[FDC_lba_to_chs(l)] = image[l]
                        /\ buff' = image[req.lba]
      BY <1>1, <1>2 DEF Kept
    <2>1. ~erred /\ place[1] = pcn
      BY <1>4
    <2>2. CASE req.op = "read"
      BY <1>1, <1>4, <2>1, <2>2 DEF SectorInv, Kept, Writing
    <2>3. CASE req.op = "write"
      <3>1. buff = image[req.lba] /\ buff' = buff /\ disk' = [disk EXCEPT ![place] = buff]
        BY <1>1, <1>4, <2>1, <2>3 DEF SectorInv, Kept
      <3>2. disk'[place] = image[req.lba]
        BY <1>3, <3>1 DEF SectorInv, Shape
      <3>3. ASSUME NEW l \in LBAs, l # req.lba
            PROVE  disk'[FDC_lba_to_chs(l)] = image[l]
        <4>1. FDC_lba_to_chs(l) # place /\ FDC_lba_to_chs(l) \in Places
          BY <1>1, <3>3, OwnPlace, OnDisk
        <4>2. disk[FDC_lba_to_chs(l)] = image[l]
          BY <2>1, <3>3 DEF SectorInv, Kept, Writing
        <4> QED  BY <3>1, <4>1, <4>2 DEF SectorInv, Shape
      <3> QED  BY <3>1, <3>2, <3>3
    <2> QED  BY <1>1, <2>2, <2>3
  <1> QED  BY <1>5, <1>6 DEF SectorInv

LEMMA NextSector ==
  ASSUME SectorInv, [Next]_vars  PROVE SectorInv'
  <1> USE DEF Ahead, After
  <1>0. InStep /\ InStep'
    BY NextInStep DEF SectorInv
  <1>1. CASE ResetDone \/ SeekDone \/ IRQ_FDC_handler
    BY <1>0, <1>1, NoData DEF ResetDone, SeekDone, IRQ_FDC_handler, Done, driver, ghosts
  <1>2. CASE TransferDone
    BY <1>0, <1>2, TransferSector
  <1>3. CASE FDC_set_drive
    BY <1>0, <1>3, NoData DEF FDC_set_drive, Goto, ghosts
  <1>4. CASE FDC_reset
    BY <1>0, <1>4, NoData DEF FDC_reset, Goto, ghosts
  <1>5. ASSUME NEW w \in Waits, Spin(w)  PROVE SectorInv'
    BY <1>0, <1>5, NoData DEF Spin, Goto, controller, ghosts, Waits, Fired, InStep, Over,
       Leaves, During, Quiet
  <1>6. ASSUME NEW w \in Waits, FDC_irq_wait(w)  PROVE SectorInv'
    BY <1>0, <1>6, NoData DEF FDC_irq_wait, Goto, controller, ghosts, Waits, Fired, Then
  <1>7. CASE SenseReset
    BY <1>0, <1>7, NoData DEF SenseReset, Sensed, Goto, ghosts
  <1>8. CASE FDC_CMD_callibrate \/ FDC_CMD_seek \/ FDC_CMD_transfer
    BY <1>0, <1>8, NoData
       DEF FDC_CMD_callibrate, FDC_CMD_seek, FDC_CMD_transfer, Command, Goto, ghosts
  <1>9. CASE Calibrated \/ Sought
    BY <1>0, <1>9, NoData DEF Calibrated, Sought, AfterMove, Sensed, Goto, ghosts,
       InStep, Resting, Sensing, Waits, Fired
  <1>10. CASE Result
    BY <1>0, <1>10, NoData DEF Result, Goto, ghosts
  <1>11. CASE Return
    <2>1. ~Ahead /\ ~Ahead' /\ ~After'
      BY <1>11 DEF Return, Goto
    <2>2. UNCHANGED <<buff, disk, image, erred>>
      BY <1>11 DEF Return, controller, ghosts
    <2> QED  BY <1>0, <2>1, <2>2 DEF SectorInv, Shape, Kept, Writing
  <1>12. ASSUME NEW lba \in LBAs, FDC_read_sector(lba)  PROVE SectorInv'
    <2>1. /\ ~Ahead /\ Ahead' /\ ~After' /\ req' = [op |-> "read", lba |-> lba]
          /\ UNCHANGED <<buff, disk, image, erred>>
      BY <1>12 DEF FDC_read_sector, Goto, controller, ghosts
    <2> QED  BY <1>0, <2>1 DEF SectorInv, Shape, Kept, Writing
  <1>13. ASSUME NEW lba \in LBAs, NEW v \in Contents, FDC_write_sector(lba, v)
         PROVE  SectorInv'
    <2>1. /\ ~Ahead /\ Ahead' /\ ~After' /\ req' = [op |-> "write", lba |-> lba]
          /\ buff' = v /\ image' = [image EXCEPT ![lba] = v]
          /\ UNCHANGED <<disk, erred>>
      BY <1>13 DEF FDC_write_sector, Goto, controller
    <2> QED  BY <1>0, <2>1 DEF SectorInv, Shape, Kept, Writing
  <1>14. CASE UNCHANGED vars
    BY <1>0, <1>14, NoData DEF vars
  <1> QED
    BY <1>1, <1>2, <1>3, <1>4, <1>5, <1>6, <1>7, <1>8, <1>9, <1>10, <1>11, <1>12, <1>13,
       <1>14 DEF Next, Controller, Driver, Request

\* Between requests every sector holds what was last written to its lba, and a
\* read returns just that: FDC_lba_to_chs takes no two sectors for one, and no
\* request is answered before its own transfer is over.
THEOREM FloppySectorsKept ==
  ASSUME ~InReset  PROVE Spec => []SectorsKept
  <1>1. SectorInv => SectorsKept
    BY DEF SectorInv, Kept, SectorsKept, Writing, Ahead, After
  <1>2. Init => SectorInv
    BY InitSector
  <1>3. SectorInv /\ [Next]_vars => SectorInv'
    BY NextSector
  <1> QED  BY <1>1, <1>2, <1>3, PTL DEF Spec

-----------------------------------------------------------------------------
(* How long a request of the floppy driver takes                           *)

Seeking == {"seek", "wait_seek", "fired_seek", "sense_seek"}
Moving  == {"transfer", "wait_transfer", "fired_transfer", "result", "return"}
Serving == pc \in Seeking \cup Moving

\* The steps until the request returns, if every seek that is left fails.
StepsLeft ==
  LET try     == 6 * (Tries - count) + 7
      waiting == IF irq THEN 1 ELSE IF floppy_irq_fired THEN 2 ELSE 0
  IN  CASE pc = "seek"           -> try
        [] pc = "wait_seek"      -> try - 1 - waiting
        [] pc = "fired_seek"     -> try - 4
        [] pc = "sense_seek"     -> try - 5
        [] pc = "transfer"       -> 7
        [] pc = "wait_transfer"  -> 6 - waiting
        [] pc = "fired_transfer" -> 3
        [] pc = "result"         -> 2
        [] pc = "return"         -> 1
        [] OTHER                 -> 0

\* The guards of the controller, of the handler and of the driver's places in a request.
CanGoOn ==
  \/ ctl \in {"reset", "calibrate", "seek", "transfer"}
  \/ irq /\ (req = NoRequest \/ Interrupts)
  \/ pc \in {"wait_seek", "wait_transfer"} /\ floppy_irq_fired
  \/ pc \in {"fired_seek", "fired_transfer", "return"}
  \/ pc \in {"seek", "transfer"} /\ ctl = "ready"
  \/ pc = "sense_seek" /\ CanSense
  \/ pc = "result" /\ ctl = "result"

Calibrating == {"calibrate", "wait_calibrate", "fired_calibrate", "sense_calibrate"}

Counted ==
  /\ pc \in Calibrating \cup Seeking => count \in 0 .. Tries - 1
  /\ pc \in Moving \cup {"idle"} => count = 0

\* The places of a request, one by one.
LEMMA FloppySteps ==
  ASSUME InStep, Counted, [Next]_vars
  PROVE  /\ Counted'
         /\ Serving /\ vars' # vars => (Serving' \/ pc' = "idle") /\ StepsLeft' < StepsLeft
  <1> Tries \in Nat \ {0}
    BY FDCAssumption DEF FDCAssumption
  <1> USE DEF InStep, Counted, Quiet, AtRest, Resting, Waits, Fired, During, Leaves, Senses, Over, Sensing,
              Seeking, Moving, Calibrating, Serving, StepsLeft
  <1>1. CASE ResetDone
    BY <1>1 DEF ResetDone, Done, driver
  <1>2. CASE SeekDone
    <2>1. pc \in {"wait_calibrate", "wait_seek"} /\ Quiet
      BY <1>2 DEF SeekDone
    <2>2. pc' = pc /\ floppy_irq_fired' = floppy_irq_fired /\ irq' = TRUE /\ count' = count
      BY <1>2 DEF SeekDone, Done, driver
    <2> QED  BY <2>1, <2>2
  <1>3. CASE TransferDone
    <2>1. pc = "wait_transfer" /\ Quiet
      BY <1>3 DEF TransferDone
    <2>2. pc' = pc /\ floppy_irq_fired' = floppy_irq_fired /\ irq' = TRUE /\ count' = count
      BY <1>3 DEF TransferDone, Done
    <2> QED  BY <2>1, <2>2
  <1>4. CASE IRQ_FDC_handler
    BY <1>4 DEF IRQ_FDC_handler
  <1>5. CASE FDC_set_drive
    BY <1>5 DEF FDC_set_drive, Goto
  <1>6. CASE FDC_reset
    BY <1>6 DEF FDC_reset, Goto
  <1>7. ASSUME NEW w \in Waits, Spin(w)
        PROVE  Counted' /\ (Serving => Serving' /\ StepsLeft' < StepsLeft)
    BY <1>7 DEF Spin, Goto, controller
  <1>8. ASSUME NEW w \in Waits, FDC_irq_wait(w)
        PROVE  Counted' /\ (Serving => Serving' /\ StepsLeft' < StepsLeft)
    BY <1>8 DEF FDC_irq_wait, Goto, controller, Then
  <1>9. CASE SenseReset
    BY <1>9 DEF SenseReset, Sensed, Goto, CanSense
  <1>10. CASE FDC_CMD_callibrate \/ FDC_CMD_seek \/ FDC_CMD_transfer
    BY <1>10 DEF FDC_CMD_callibrate, FDC_CMD_seek, FDC_CMD_transfer, Command, Goto
  <1>11. CASE Calibrated
    BY <1>11 DEF Calibrated, AfterMove, Sensed, Goto, CanSense
  <1>12. CASE Sought
    BY <1>12 DEF Sought, AfterMove, Sensed, Goto, CanSense
  <1>13. CASE Result
    BY <1>13 DEF Result, Goto
  <1>14. CASE Return
    BY <1>14 DEF Return, Goto, controller
  <1>15. CASE Request
    BY <1>15 DEF Request, FDC_read_sector, FDC_write_sector, Goto, controller
  <1>16. CASE UNCHANGED vars
    BY <1>16 DEF vars
  <1> QED
    BY <1>1, <1>2, <1>3, <1>4, <1>5, <1>6, <1>7, <1>8, <1>9, <1>10, <1>11, <1>12, <1>13,
       <1>14, <1>15, <1>16 DEF Next, Controller, Driver

\* FDC_read_sector and FDC_write_sector, with interrupts enabled: whatever the
\* seeks do, the controller, its handler or the driver can go on until the
\* request returns, and each of their steps brings it nearer: it is over after
\* 6 steps for each try and 7 for the transfer.  FDC_irq_wait never waits for
\* an interrupt that has been taken already, and nothing else is done in between.
THEOREM FloppyRequestsEnd ==
  ASSUME ~InReset, Interrupts
  PROVE  Spec => /\ [](Serving => CanGoOn /\ StepsLeft \in 1 .. 6 * Tries + 7)
                 /\ [][Serving => (Serving' \/ pc' = "idle") /\ StepsLeft' < StepsLeft]_vars
  <1>1. InStep /\ Counted /\ Serving => CanGoOn /\ StepsLeft \in 1 .. 6 * Tries + 7
    <2> Tries \in Nat \ {0}
      BY FDCAssumption DEF FDCAssumption
    <2> QED
      BY DEF InStep, Counted, Quiet, AtRest, Resting, Waits, Fired, During, Leaves, Senses, Over, Sensing,
             Seeking, Moving, Calibrating, Serving, StepsLeft, CanGoOn, CanSense
  <1>2. Init => InStep /\ Counted
    BY InitInStep DEF Init, Counted, Seeking, Moving, Calibrating
  <1>3. InStep /\ Counted /\ [Next]_vars => (InStep /\ Counted)'
    BY NextInStep, FloppySteps
  <1>4. InStep /\ Counted /\ [Next]_vars
          => [Serving => (Serving' \/ pc' = "idle") /\ StepsLeft' < StepsLeft]_vars
    BY FloppySteps
  <1> QED  BY <1>1, <1>2, <1>3, <1>4, PTL DEF Spec

-----------------------------------------------------------------------------
(* The disks: numbers of sectors                                           *)

\* The bytes of a number, and what is left of it above the first three.
LEMMA FourBytes ==
  ASSUME NEW b \in Nat \ {0}, NEW n \in Nat
  PROVE  /\ b * b \in Nat \ {0} /\ b * b * b \in Nat \ {0}
         /\ n \div (b * b * b) \in Nat
         /\ (n % b) + b * ((n \div b) % b) + b * b * ((n \div (b * b)) % b)
              + b * b * b * (n \div (b * b * b)) = n
  <1>1. PICK p, i \in Nat : p = n \div b /\ i = n % b /\ n = p * b + i
    BY Divides
  <1>2. PICK q, j \in Nat : q = p \div b /\ j = p % b /\ p = q * b + j
    BY Divides
  <1>3. PICK r, k \in Nat : r = q \div b /\ k = q % b /\ q = r * b + k
    BY Divides
  <1>4. PICK d \in Nat \ {0} : d = b * b /\ n \div d = q
    <2>1. n \div (b * b) = (n \div b) \div b /\ b * b \in Nat \ {0}
      BY DivTwice
    <2> QED  BY Zenon, <1>1, <1>2, <2>1
  <1>5. PICK e \in Nat \ {0} : e = d * b /\ n \div e = r
    <2>1. n \div (d * b) = (n \div d) \div b /\ d * b \in Nat \ {0}
      BY DivTwice
    <2> QED  BY Zenon, <1>3, <1>4, <2>1
  <1>6. i + b * j + d * k + e * r = n
    <2>1. n = ((r * b + k) * b + j) * b + i
      BY Zenon, <1>1, <1>2, <1>3
    <2>2. i + b * j + (b * b) * k + ((b * b) * b) * r = ((r * b + k) * b + j) * b + i
      OBVIOUS
    <2> QED  BY Zenon, <1>4, <1>5, <2>1, <2>2
  <1>7. /\ d \in Nat \ {0} /\ e \in Nat \ {0} /\ n \div e \in Nat
        /\ (n % b) + b * ((n \div b) % b) + d * ((n \div d) % b) + e * (n \div e) = n
    BY Zenon, <1>1, <1>2, <1>3, <1>4, <1>5, <1>6
  <1> QED  BY Zenon, <1>4, <1>5, <1>7

\* A number in cylinders, heads and sectors means itself.
LEMMA CHSMeans ==
  ASSUME ATAAssumption, NEW n \in Nat, n < B * B * HEADS * SECTORS
  PROVE  /\ CHS(n).lba_mode = 0 /\ CHS(n).head \in Nat
         /\ \A i \in 1 .. 3 : CHS(n).lba_io[i] \in Nat
         /\ ((CHS(n).lba_io[2] + B * CHS(n).lba_io[3]) * HEADS + CHS(n).head) * SECTORS
              + CHS(n).lba_io[1] - 1 = n
  <1> DEFINE sector   == (n % SECTORS) + 1
             cylinder == ((n + 1 - sector) \div (HEADS * SECTORS)) % (B * B)
             head     == ((n + 1 - sector) % (HEADS * SECTORS)) \div SECTORS
  <1>1. /\ B \in Nat \ {0} /\ HEADS \in Nat \ {0} /\ SECTORS \in Nat \ {0} /\ SECTORS < B
    BY DEF ATAAssumption
  <1>2. PICK t, i \in Nat : /\ t = n \div SECTORS /\ i = n % SECTORS /\ i < SECTORS
                            /\ n = t * SECTORS + i
    BY <1>1, Divides
  <1>3. PICK c, h \in Nat : /\ c = t \div HEADS /\ h = t % HEADS /\ h < HEADS
                            /\ t = c * HEADS + h
    BY <1>1, Divides
  <1>4. PICK T \in Nat \ {0} : T = HEADS * SECTORS
    BY <1>1
  <1>5. sector = i + 1 /\ n + 1 - sector = t * SECTORS
    BY <1>1, <1>2
  <1> HIDE DEF sector
  <1>6. (t * SECTORS) \div T = c /\ (t * SECTORS) % T = h * SECTORS
    <2>1. t * SECTORS = c * T + h * SECTORS
      <3>1. t * SECTORS = (c * HEADS + h) * SECTORS
        BY Zenon, <1>3
      <3>2. (c * HEADS + h) * SECTORS = c * (HEADS * SECTORS) + h * SECTORS
        BY <1>1
      <3> QED  BY Zenon, <1>4, <3>1, <3>2
    <2>2. h * SECTORS \in 0 .. T - 1
      <3>1. (h + 1) * SECTORS <= HEADS * SECTORS
        BY <1>1, <1>3, Monotone
      <3>2. (h + 1) * SECTORS = h * SECTORS + SECTORS
        BY <1>1
      <3>3. h * SECTORS \in Nat
        BY <1>1
      <3> QED  BY <1>1, <1>4, <3>1, <3>2, <3>3
    <2>3. t * SECTORS \in Nat
      BY <1>1
    <2> QED  BY <2>1, <2>2, <2>3, Quotient
  <1>7. (h * SECTORS) \div SECTORS = h
    <2>1. h * SECTORS \in Nat /\ h * SECTORS = h * SECTORS + 0 /\ 0 \in 0 .. SECTORS - 1
      BY <1>1
    <2> QED  BY <1>1, <2>1, Quotient
  <1>8. PICK D \in Nat \ {0} : D = B * B
    BY <1>1
  <1>9. c < D
    <2> SUFFICES ASSUME D <= c  PROVE FALSE
      BY <1>8
    <2>1. D * T <= c * T /\ c * T \in Nat
      BY <1>4, Monotone
    <2>2. D * T = B * B * HEADS * SECTORS
      <3>1. (B * B) * (HEADS * SECTORS) = B * B * HEADS * SECTORS
        BY <1>1
      <3> QED  BY Zenon, <1>4, <1>8, <3>1
    <2>3. n = c * T + (h * SECTORS + i)
      <3>1. n = (c * HEADS + h) * SECTORS + i
        BY Zenon, <1>2, <1>3
      <3>2. (c * HEADS + h) * SECTORS + i = c * (HEADS * SECTORS) + (h * SECTORS + i)
        BY <1>1
      <3> QED  BY Zenon, <1>4, <3>1, <3>2
    <2>4. h * SECTORS \in Nat /\ D * T \in Nat
      BY <1>1, <1>4
    <2> QED  BY <2>1, <2>2, <2>3, <2>4
  <1>10. c % D = c
    BY <1>9, NoRemainder
  <1>11. cylinder = c /\ head = h
    BY Zenon, <1>4, <1>5, <1>6, <1>7, <1>8, <1>10
  <1> HIDE DEF cylinder, head
  <1>12. PICK u, v \in Nat : /\ u = c \div B /\ v = c % B /\ v < B /\ c = u * B + v
    BY <1>1, Divides
  <1>13. u % B = u
    BY <1>1, <1>8, <1>9, <1>12, SmallQuotient, NoRemainder
  <1>14. (i + 1) % B = i + 1
    BY <1>1, <1>2, NoRemainder
  <1>15. CHS(n) = [lba_mode |-> 0, head |-> h, lba_io |-> <<i + 1, v, u>>]
    <2>1. CHS(n) = [lba_mode |-> 0, head |-> head,
                    lba_io |-> <<sector % B, cylinder % B, (cylinder \div B) % B>>]
      BY Zenon DEF CHS, cylinder, head, sector
    <2> QED  BY <1>5, <1>11, <1>12, <1>13, <1>14, <2>1
  <1>16. ((v + B * u) * HEADS + h) * SECTORS + (i + 1) - 1 = n
    <2>1. v + B * u = c
      BY <1>1, <1>12
    <2>2. (v + B * u) * HEADS + h = t
      BY Zenon, <1>3, <2>1
    <2>3. t * SECTORS \in Nat
      BY <1>1
    <2> QED  BY <1>2, <2>2, <2>3
  <1> QED  BY <1>15, <1>16

\* The parts of an address stand for the number n.
Low(a) == a.lba_io[1] + B * a.lba_io[2] + B * B * a.lba_io[3]

Splits(a, n) ==
  /\ a.lba_mode \in 0 .. 2 /\ a.head \in Nat
  /\ \A i \in 1 .. 3 : a.lba_io[i] \in Nat
  /\ a.lba_mode = 0 =>
       ((a.lba_io[2] + B * a.lba_io[3]) * HEADS + a.head) * SECTORS + a.lba_io[1] - 1 = n
  /\ a.lba_mode = 1 => Low(a) + B * B * B * a.head = n
  /\ a.lba_mode = 2 => a.lba_io[4] \in Nat /\ Low(a) + B * B * B * a.lba_io[4] = n

LEMMA AddressSplits ==
  ASSUME ATAAssumption, NEW drive, NEW n \in Nat, n < B * B * B * B,
         hardware[IDE_devices[drive]] # "lba" => n <= ChsSize
  PROVE  Splits(Address(drive, n), n)
  <1>1. /\ B \in Nat \ {0} /\ HEADS \in Nat \ {0} /\ SECTORS \in Nat \ {0}
        /\ ChsSize \in Nat /\ ChsSize < B * B * HEADS * SECTORS
    BY DEF ATAAssumption
  <1>2. PICK D \in Nat \ {0} : D = B * B
    BY <1>1
  <1>3. PICK E \in Nat \ {0} : E = B * B * B
    BY <1>1
  <1>4. PICK x, y, z, w \in Nat : /\ x = n % B /\ y = (n \div B) % B /\ z = (n \div D) % B
                                  /\ w = n \div E
                                  /\ x + B * y + D * z + E * w = n
    <2>1. /\ n % B \in Nat /\ (n \div B) % B \in Nat /\ (n \div D) % B \in Nat /\ n \div E \in Nat
      BY <1>1, <1>2, <1>3, Divides
    <2>2. (n % B) + B * ((n \div B) % B) + D * ((n \div D) % B) + E * (n \div E) = n
      BY Zenon, <1>1, <1>2, <1>3, FourBytes
    <2> QED  BY Zenon, <2>1, <2>2
  <1>5. /\ BytesOf(n)[1] = x /\ BytesOf(n)[2] = y /\ BytesOf(n)[3] = z /\ BytesOf(n)[4] = w % B
    BY Zenon, <1>2, <1>3, <1>4 DEF BytesOf
  <1>6. w % B = w
    <2>1. w < B
      <3>1. n < B * E
        BY <1>1, <1>3
      <3> QED  BY <1>1, <1>4, <3>1, SmallQuotient
    <2> QED  BY <1>1, <2>1, NoRemainder
  <1>7. CASE n >= Far
    <2> DEFINE a == [lba_mode |-> 2, head |-> 0, lba_io |-> BytesOf(n)]
    <2>1. Address(drive, n) = a
      BY <1>1, <1>7 DEF Address, Far
    <2> HIDE DEF a
    <2>2. /\ a.lba_mode = 2 /\ a.head = 0
          /\ a.lba_io[1] = x /\ a.lba_io[2] = y /\ a.lba_io[3] = z /\ a.lba_io[4] = w
      BY <1>5, <1>6 DEF a
    <2>3. Low(a) + B * B * B * a.lba_io[4] = n
      BY Zenon, <1>2, <1>3, <1>4, <2>2 DEF Low
    <2> QED  BY <1>4, <2>1, <2>2, <2>3 DEF Splits
  <1>8. CASE n < Far /\ hardware[IDE_devices[drive]] = "lba"
    <2> DEFINE a == [lba_mode |-> 1, head |-> (n \div (B * B * B)) % HEADS, lba_io |-> BytesOf(n)]
    <2>1. Address(drive, n) = a
      BY <1>1, <1>8 DEF Address, Far
    <2>2. w % HEADS = w
      <3>1. w < HEADS
        <4>1. n < HEADS * E
          BY <1>1, <1>3, <1>8 DEF Far
        <4> QED  BY <1>1, <1>4, <4>1, SmallQuotient
      <3> QED  BY <1>1, <3>1, NoRemainder
    <2>3. /\ a.lba_mode = 1 /\ a.head = w
          /\ a.lba_io[1] = x /\ a.lba_io[2] = y /\ a.lba_io[3] = z /\ a.lba_io[4] = w
      BY <1>3, <1>4, <1>5, <1>6, <2>2
    <2> HIDE DEF a
    <2>4. Low(a) + B * B * B * a.head = n
      BY Zenon, <1>2, <1>3, <1>4, <2>3 DEF Low
    <2> QED  BY <1>4, <2>1, <2>3, <2>4 DEF Splits
  <1>9. CASE ~(n >= Far) /\ ~(n < Far /\ hardware[IDE_devices[drive]] = "lba")
    <2>1. Address(drive, n) = CHS(n)
      BY <1>9 DEF Address
    <2>2. hardware[IDE_devices[drive]] # "lba"
      BY <1>1, <1>9 DEF Far
    <2>3. n < B * B * HEADS * SECTORS
      BY <1>1, <2>2
    <2> QED  BY <2>1, <2>3, CHSMeans DEF Splits
  <1> QED  BY <1>7, <1>8, <1>9

-----------------------------------------------------------------------------
(* The disks: the registers                                                *)

\* One write, and how the ports change.
Write(x, e) == [x EXCEPT ![Port(e[1])] = [now |-> e[2], before |-> @.now]]

Fresh == [r \in Ports |-> [now |-> 1, before |-> 1]]

PortStates(V) == [Ports -> [now : V, before : V]]

Values(w, n, V) == 1 \in V /\ Len(w) = n /\ \A i \in 1 .. n : w[i][2] \in V

Follows(f, w, n, V) ==
  /\ \A i \in 0 .. n : f[i] \in PortStates(V)
  /\ f[0] = Fresh /\ f[n] = IDE_write(w)
  /\ \A i \in 0 .. n - 1 : f[i + 1] = Write(f[i], w[i + 1])

LEMMA WritesInOrder ==
  ASSUME NEW V, NEW w, NEW n \in Nat, Values(w, n, V)
  PROVE  \E f : Follows(f, w, n, V)
  <1> DEFINE S == PortStates(V)
             Step(x, k) == IF k <= n THEN Write(x, w[k]) ELSE x
             G == [k \in Nat |-> [x \in S |-> Step(x, k + 1)]]
             Body(f) == [i \in 0 .. n |-> IF i = 0 THEN Fresh ELSE Write(f[i - 1], w[i])]
             N == CHOOSE f : f = Body(f)
  <1>0. 1 \in V /\ Len(w) = n /\ \A i \in 1 .. n : w[i][2] \in V
    BY DEF Values
  <1>1. ASSUME NEW x \in S, NEW k \in Nat  PROVE Step(x, k + 1) \in S
    <2>1. CASE k + 1 <= n
      <3>1. w[k + 1][2] \in V
        BY <1>0, <2>1
      <3> QED  BY <2>1, <3>1 DEF Write, PortStates
    <2> QED  BY <2>1
  <1>2. Fresh \in S
    BY <1>0 DEF Fresh, PortStates
  <1> HIDE DEF S
  <1>3. CountedMaps(G, S)
    <2> HIDE DEF Step
    <2> QED  BY <1>1 DEF CountedMaps, Maps
  <1> HIDE DEF Step
  <1>4. PICK h : h \in [Nat -> S] /\ h[0] = Fresh /\ \A k \in Nat : h[k + 1] = G[k][h[k]]
    <2> HIDE DEF G
    <2>1. PICK h : CountedSolves(h, S, Fresh, G)
      BY <1>2, <1>3, CountedRecursion
    <2> QED  BY <2>1 DEF CountedSolves
  <1>5. \A k \in Nat : h[k + 1] = Step(h[k], k + 1)
    BY <1>4
  <1>6. \A k \in 0 .. n - 1 : h[k + 1] = Write(h[k], w[k + 1])
    BY <1>5 DEF Step
  <1> DEFINE g == [i \in 0 .. n |-> h[i]]
  <1>7. g = Body(g)
    <2>1. ASSUME NEW i \in 0 .. n
          PROVE  h[i] = IF i = 0 THEN Fresh ELSE Write(g[i - 1], w[i])
      <3>1. CASE i = 0
        BY <1>4, <3>1
      <3>2. CASE i # 0
        <4>1. i - 1 \in 0 .. n - 1 /\ (i - 1) + 1 = i /\ g[i - 1] = h[i - 1]
          BY <3>2
        <4> HIDE DEF g
        <4> QED  BY <1>6, <3>2, <4>1
      <3> QED  BY <3>1, <3>2
    <2> QED  BY <2>1
  <1> HIDE DEF g
  <1>8. N = Body(N)
    BY <1>7
  <1>9. IDE_write(w) = N[n]
    BY <1>0 DEF IDE_write, Fresh, Write
  <1> HIDE DEF N
  <1>10. N[0] = Fresh /\ \A k \in 0 .. n - 1 : N[k + 1] = Write(N[k], w[k + 1])
    <2>1. \A i \in 0 .. n : N[i] = IF i = 0 THEN Fresh ELSE Write(N[i - 1], w[i])
      BY <1>8
    <2>2. \A k \in 0 .. n - 1 : k + 1 \in 0 .. n /\ k + 1 # 0 /\ (k + 1) - 1 = k
      OBVIOUS
    <2> QED  BY <2>1, <2>2
  <1>11. \A i \in Nat : i <= n => N[i] = h[i]
    <2> DEFINE A == {i \in Nat : i <= n => N[i] = h[i]}
    <2>1. 0 \in A
      BY <1>4, <1>10
    <2>2. ASSUME NEW k \in Nat, k \in A  PROVE k + 1 \in A
      BY <1>6, <1>10, <2>2
    <2> HIDE DEF A
    <2>3. \A k \in Nat : k \in A
      BY <2>1, <2>2, Induct
    <2> QED  BY <2>3 DEF A
  <1>12. \A i \in 0 .. n : N[i] \in S
    BY <1>4, <1>11
  <1>13. Follows(N, w, n, V)
    BY <1>9, <1>10, <1>12 DEF Follows, S
  <1> QED  BY <1>13


\* One write moves one port on.
Shifts(x, y, r, v) ==
  /\ y[r].now = v /\ y[r].before = x[r].now
  /\ \A q \in Ports : q # r => y[q] = x[q]

LEMMA OneWrite ==
  ASSUME NEW V, NEW x \in PortStates(V), NEW e, NEW r \in Ports, Port(e[1]) = r
  PROVE  Shifts(x, Write(x, e), r, e[2])
  BY DEF PortStates, Write, Shifts

LEMMA FourElements ==
  ASSUME NEW S, NEW a \in S, NEW b \in S, NEW c \in S, NEW d \in S
  PROVE  /\ <<a, b, c, d>> \in Seq(S) /\ Len(<<a, b, c, d>>) = 4
         /\ <<a, b, c, d>>[1] = a /\ <<a, b, c, d>>[2] = b
         /\ <<a, b, c, d>>[3] = c /\ <<a, b, c, d>>[4] = d
  OBVIOUS

\* What is written for an address.
Selects(a, drive) ==
  [mode |-> IF a.lba_mode = 0 THEN "chs" ELSE "lba", slave |-> IsSlave(IDE_devices[drive]),
   head |-> a.head]

Writes(w, n, a, sel) ==
  /\ n \in {5, 9} /\ Len(w) = n /\ (n = 9 <=> a.lba_mode = 2)
  /\ w[1] = <<6, sel>>
  /\ n = 9 => w[2] = <<8, 0>> /\ w[3] = <<9, a.lba_io[4]>> /\ w[4] = <<10, 0>> /\ w[5] = <<11, 0>>
  /\ w[n - 3] = <<2, 1>> /\ w[n - 2] = <<3, a.lba_io[1]>>
  /\ w[n - 1] = <<4, a.lba_io[2]>> /\ w[n] = <<5, a.lba_io[3]>>

LEMMA ParamsWrites ==
  ASSUME NEW drive, NEW n
  PROVE  \E k : Writes(Params(drive, n), k, Address(drive, n), Selects(Address(drive, n), drive))
  <1>1. PICK a : a = Address(drive, n)
    OBVIOUS
  <1>2. PICK sel : sel = Selects(a, drive)
    OBVIOUS
  <1>3. PICK io1, io2, io3, io4 : /\ io1 = a.lba_io[1] /\ io2 = a.lba_io[2]
                                  /\ io3 = a.lba_io[3] /\ io4 = a.lba_io[4]
    OBVIOUS
  <1> DEFINE V == {0, 1, sel, io1, io2, io3, io4}
             R == Nat \X V
  <1>4. /\ <<6, sel>> \in R /\ <<8, 0>> \in R /\ <<9, io4>> \in R /\ <<10, 0>> \in R
        /\ <<11, 0>> \in R /\ <<2, 1>> \in R /\ <<3, io1>> \in R /\ <<4, io2>> \in R
        /\ <<5, io3>> \in R
    OBVIOUS
  <1> HIDE DEF R
  <1>5. PICK q : q = <<<<6, sel>>>> /\ q \in Seq(R) /\ Len(q) = 1 /\ q[1] = <<6, sel>>
    BY <1>4, OneElement
  <1>6. PICK t : /\ t = <<<<2, 1>>, <<3, io1>>, <<4, io2>>, <<5, io3>>>>
                 /\ t \in Seq(R) /\ Len(t) = 4
                 /\ t[1] = <<2, 1>> /\ t[2] = <<3, io1>> /\ t[3] = <<4, io2>> /\ t[4] = <<5, io3>>
    <2>1. PICK a2, a3, a4, a5 \in R : /\ a2 = <<2, 1>> /\ a3 = <<3, io1>>
                                      /\ a4 = <<4, io2>> /\ a5 = <<5, io3>>
      BY <1>4
    <2>2. PICK u : u = <<a2, a3, a4, a5>>
      OBVIOUS
    <2>3. u \in Seq(R) /\ Len(u) = 4 /\ u[1] = a2 /\ u[2] = a3 /\ u[3] = a4 /\ u[4] = a5
      BY <2>2, FourElements
    <2> QED  BY Zenon, <2>1, <2>2, <2>3
  <1>7. PICK s : /\ s = IF a.lba_mode = 2 THEN <<<<8, 0>>, <<9, io4>>, <<10, 0>>, <<11, 0>>>> ELSE <<>>
                 /\ s \in Seq(R)
                 /\ a.lba_mode = 2 =>
                      Len(s) = 4 /\ s[1] = <<8, 0>> /\ s[2] = <<9, io4>> /\ s[3] = <<10, 0>> /\ s[4] = <<11, 0>>
                 /\ a.lba_mode # 2 => Len(s) = 0
    <2>1. CASE a.lba_mode = 2
      <3>1. PICK a2, a3, a4, a5 \in R : /\ a2 = <<8, 0>> /\ a3 = <<9, io4>>
                                        /\ a4 = <<10, 0>> /\ a5 = <<11, 0>>
        BY <1>4
      <3>2. PICK u : u = <<a2, a3, a4, a5>>
        OBVIOUS
      <3>3. u \in Seq(R) /\ Len(u) = 4 /\ u[1] = a2 /\ u[2] = a3 /\ u[3] = a4 /\ u[4] = a5
        BY <3>2, FourElements
      <3> QED  BY Zenon, <2>1, <3>1, <3>2, <3>3
    <2>2. CASE a.lba_mode # 2
      BY <2>2, EmptySeq
    <2> QED  BY <2>1, <2>2
  <1>8. PICK w : w = Params(drive, n)
    OBVIOUS
  <1>9. w = q \o s \o t
    BY Zenon, <1>1, <1>2, <1>3, <1>5, <1>6, <1>7, <1>8 DEF Params, Selects, HDDEVSEL
  <1>10. IsJoined(R, w, q, s, t)
    <2>1. IsJoined(R, q \o s \o t, q, s, t)
      BY ZenonT(20), <1>5, <1>6, <1>7, Joined
    <2> QED  BY <1>9, <2>1
  <1>11. CASE a.lba_mode = 2
    <2>1. Writes(w, 9, a, sel)
      BY <1>3, <1>5, <1>6, <1>7, <1>10, <1>11 DEF IsJoined, Writes
    <2> QED  BY <1>1, <1>2, <1>8, <2>1
  <1>12. CASE a.lba_mode # 2
    <2>1. Writes(w, 5, a, sel)
      BY <1>3, <1>5, <1>6, <1>7, <1>10, <1>12 DEF IsJoined, Writes
    <2> QED  BY <1>1, <1>2, <1>8, <2>1
  <1> QED  BY <1>11, <1>12

\* The drive is told what was meant.
Told(p, a, sel) ==
  /\ p[6].now = sel
  /\ p[3].now = a.lba_io[1] /\ p[4].now = a.lba_io[2] /\ p[5].now = a.lba_io[3]
  /\ a.lba_mode = 2 => p[3].before = a.lba_io[4] /\ p[4].before = 0 /\ p[5].before = 0

LEMMA PortsTold ==
  ASSUME NEW w, NEW k, NEW a, NEW sel, Writes(w, k, a, sel)
  PROVE  Told(IDE_write(w), a, sel)
  <1> DEFINE V == {1} \cup {w[i][2] : i \in 1 .. k}
  <1>1. k \in {5, 9} /\ Len(w) = k
    BY DEF Writes
  <1>2. PICK f : Follows(f, w, k, V)
    <2>1. Values(w, k, V)
      BY <1>1 DEF Values
    <2> HIDE DEF V
    <2>2. k \in Nat
      BY <1>1
    <2> QED  BY <2>1, <2>2, WritesInOrder
  <1> HIDE DEF V
  <1>3. ASSUME NEW i \in 0 .. k - 1, NEW r \in Ports, Port(w[i + 1][1]) = r
        PROVE  Shifts(f[i], f[i + 1], r, w[i + 1][2])
    <2>1. f[i] \in PortStates(V) /\ f[i + 1] = Write(f[i], w[i + 1])
      BY <1>1, <1>2 DEF Follows
    <2> QED  BY <1>3, <2>1, OneWrite
  <1>4. /\ Port(6) = 6 /\ Port(8) = 2 /\ Port(9) = 3 /\ Port(10) = 4 /\ Port(11) = 5
        /\ Port(2) = 2 /\ Port(3) = 3 /\ Port(4) = 4 /\ Port(5) = 5
        /\ 2 \in Ports /\ 3 \in Ports /\ 4 \in Ports /\ 5 \in Ports /\ 6 \in Ports
    BY DEF Port, Ports
  <1>5. CASE k = 5
    <2>1. /\ w[1] = <<6, sel>> /\ w[2] = <<2, 1>> /\ w[3] = <<3, a.lba_io[1]>>
          /\ w[4] = <<4, a.lba_io[2]>> /\ w[5] = <<5, a.lba_io[3]>> /\ a.lba_mode # 2
      BY <1>5 DEF Writes
    <2>2. /\ Shifts(f[0], f[1], 6, sel) /\ Shifts(f[1], f[2], 2, 1)
      BY <1>3, <1>4, <1>5, <2>1
    <2>3. /\ Shifts(f[2], f[3], 3, a.lba_io[1])
          /\ Shifts(f[3], f[4], 4, a.lba_io[2])
          /\ Shifts(f[4], f[5], 5, a.lba_io[3])
      BY <1>3, <1>4, <1>5, <2>1
    <2>4. Told(f[5], a, sel)
      BY <1>4, <2>1, <2>2, <2>3 DEF Shifts, Told
    <2> QED  BY <1>2, <1>5, <2>4 DEF Follows
  <1>6. CASE k = 9
    <2>1. /\ w[1] = <<6, sel>> /\ w[2] = <<8, 0>> /\ w[3] = <<9, a.lba_io[4]>>
          /\ w[4] = <<10, 0>> /\ w[5] = <<11, 0>> /\ w[6] = <<2, 1>>
          /\ w[7] = <<3, a.lba_io[1]>> /\ w[8] = <<4, a.lba_io[2]>> /\ w[9] = <<5, a.lba_io[3]>>
      BY <1>6 DEF Writes
    <2>2. /\ Shifts(f[0], f[1], 6, sel) /\ Shifts(f[1], f[2], 2, 0)
      BY <1>3, <1>4, <1>6, <2>1
    <2>3. /\ Shifts(f[2], f[3], 3, a.lba_io[4]) /\ Shifts(f[3], f[4], 4, 0)
      BY <1>3, <1>4, <1>6, <2>1
    <2>4. /\ Shifts(f[4], f[5], 5, 0) /\ Shifts(f[5], f[6], 2, 1)
      BY <1>3, <1>4, <1>6, <2>1
    <2>5. /\ Shifts(f[6], f[7], 3, a.lba_io[1])
          /\ Shifts(f[7], f[8], 4, a.lba_io[2])
          /\ Shifts(f[8], f[9], 5, a.lba_io[3])
      BY <1>3, <1>4, <1>6, <2>1
    <2>6. Told(f[9], a, sel)
      <3>1. f[6][6].now = sel /\ f[6][3].now = a.lba_io[4] /\ f[6][4].now = 0 /\ f[6][5].now = 0
        BY <1>4, <2>2, <2>3, <2>4 DEF Shifts
      <3> QED  BY <1>4, <2>5, <3>1 DEF Shifts, Told
    <2> QED  BY <1>2, <1>6, <2>6 DEF Follows
  <1> QED  BY <1>1, <1>5, <1>6

LEMMA ChsDecoded ==
  ASSUME NEW p, p[HDDEVSEL].now.mode = "chs"
  PROVE  Decoded(p, FALSE) =
           ((p[4].now + B * p[5].now) * HEADS + p[HDDEVSEL].now.head) * SECTORS + p[3].now - 1
  <1> DEFINE low == p[3].now + B * p[4].now + B * B * p[5].now
             M == low + B * B * B * p[HDDEVSEL].now.head
             H == low + B * B * B * (p[3].before + B * p[4].before + B * B * p[5].before)
             C == ((p[4].now + B * p[5].now) * HEADS + p[HDDEVSEL].now.head) * SECTORS + p[3].now - 1
             mode == p[HDDEVSEL].now.mode
  <1>1. Decoded(p, FALSE) = CASE FALSE -> H [] ~FALSE /\ mode = "lba" -> M
                              [] ~FALSE /\ mode = "chs" -> C
    BY Zenon DEF Decoded
  <1>2. mode = "chs"
    OBVIOUS
  <1> HIDE DEF M, H, C, mode
  <1>3. Decoded(p, FALSE) = C
    BY <1>1, <1>2
  <1> QED  BY <1>3 DEF C

LEMMA LbaDecoded ==
  ASSUME NEW p, p[HDDEVSEL].now.mode = "lba"
  PROVE  Decoded(p, FALSE) =
           p[3].now + B * p[4].now + B * B * p[5].now + B * B * B * p[HDDEVSEL].now.head
  <1> DEFINE low == p[3].now + B * p[4].now + B * B * p[5].now
             M == low + B * B * B * p[HDDEVSEL].now.head
             H == low + B * B * B * (p[3].before + B * p[4].before + B * B * p[5].before)
             C == ((p[4].now + B * p[5].now) * HEADS + p[HDDEVSEL].now.head) * SECTORS + p[3].now - 1
             mode == p[HDDEVSEL].now.mode
  <1>1. Decoded(p, FALSE) = CASE FALSE -> H [] ~FALSE /\ mode = "lba" -> M
                              [] ~FALSE /\ mode = "chs" -> C
    BY Zenon DEF Decoded
  <1>2. mode = "lba"
    OBVIOUS
  <1> HIDE DEF M, H, C, mode
  <1>3. Decoded(p, FALSE) = M
    BY <1>1, <1>2
  <1> QED  BY <1>3 DEF M

\* Whichever way a number is split over the registers, the drive finds it
\* again, and it is the drive that was meant.
LEMMA NumberArrives ==
  ASSUME ATAAssumption, NEW drive, NEW n \in Nat, n < B * B * B * B,
         hardware[IDE_devices[drive]] # "lba" => n <= ChsSize
  PROVE  /\ Decoded(IDE_write(Params(drive, n)), Address(drive, n).lba_mode = 2) = n
         /\ IDE_write(Params(drive, n))[HDDEVSEL].now.slave = IsSlave(IDE_devices[drive])
  <1>1. PICK a : a = Address(drive, n) /\ Splits(a, n)
    BY AddressSplits
  <1>2. PICK sel : sel = Selects(a, drive)
    OBVIOUS
  <1>3. PICK p : p = IDE_write(Params(drive, n)) /\ Told(p, a, sel)
    BY <1>1, <1>2, ParamsWrites, PortsTold
  <1>4. PICK io1, io2, io3 \in Nat : io1 = a.lba_io[1] /\ io2 = a.lba_io[2] /\ io3 = a.lba_io[3]
    BY <1>1 DEF Splits
  <1>5. p[3].now = io1 /\ p[4].now = io2 /\ p[5].now = io3 /\ p[6].now = sel
    BY <1>3, <1>4 DEF Told
  <1>6. /\ sel.mode = IF a.lba_mode = 0 THEN "chs" ELSE "lba"
        /\ sel.head = a.head /\ sel.slave = IsSlave(IDE_devices[drive])
    BY <1>2 DEF Selects
  <1>7. PICK D, E \in Nat : D = B * B /\ E = B * B * B
    BY DEF ATAAssumption
  <1>8. B \in Nat /\ HEADS \in Nat /\ SECTORS \in Nat /\ a.head \in Nat /\ a.lba_mode \in 0 .. 2
    BY <1>1 DEF ATAAssumption, Splits
  <1>9. Decoded(p, a.lba_mode = 2) = n
    <2>1. CASE a.lba_mode = 0
      <3>1. ((io2 + B * io3) * HEADS + a.head) * SECTORS + io1 - 1 = n
        BY Zenon, <1>1, <1>4, <2>1 DEF Splits
      <3>2. Decoded(p, FALSE) = ((io2 + B * io3) * HEADS + sel.head) * SECTORS + io1 - 1
        <4>1. p[HDDEVSEL].now.mode = "chs"
          BY <1>5, <1>6, <2>1 DEF HDDEVSEL
        <4>2. Decoded(p, FALSE) =
                ((p[4].now + B * p[5].now) * HEADS + p[HDDEVSEL].now.head) * SECTORS + p[3].now - 1
          BY <4>1, ChsDecoded
        <4> QED  BY Zenon, <1>5, <4>2 DEF HDDEVSEL
      <3>3. (a.lba_mode = 2) = FALSE
        BY <2>1
      <3> QED  BY Zenon, <1>6, <3>1, <3>2, <3>3
    <2>2. CASE a.lba_mode = 1
      <3>1. io1 + B * io2 + B * B * io3 + B * B * B * a.head = n
        BY Zenon, <1>1, <1>4, <2>2 DEF Splits, Low
      <3>2. Decoded(p, FALSE) = io1 + B * io2 + B * B * io3 + B * B * B * sel.head
        <4>1. p[HDDEVSEL].now.mode = "lba"
          BY <1>5, <1>6, <2>2 DEF HDDEVSEL
        <4>2. Decoded(p, FALSE) =
                p[3].now + B * p[4].now + B * B * p[5].now + B * B * B * p[HDDEVSEL].now.head
          BY <4>1, LbaDecoded
        <4> QED  BY Zenon, <1>5, <4>2 DEF HDDEVSEL
      <3>3. (a.lba_mode = 2) = FALSE
        BY <2>2
      <3> QED  BY Zenon, <1>6, <3>1, <3>2, <3>3
    <2>3. CASE a.lba_mode = 2
      <3>1. PICK io4 \in Nat : io4 = a.lba_io[4]
        BY <1>1, <2>3 DEF Splits
      <3>2. io1 + B * io2 + B * B * io3 + B * B * B * io4 = n
        BY Zenon, <1>1, <1>4, <2>3, <3>1 DEF Splits, Low
      <3>3. p[3].before = io4 /\ p[4].before = 0 /\ p[5].before = 0
        BY <1>3, <2>3, <3>1 DEF Told
      <3>4. io4 + B * 0 + B * B * 0 = io4
        BY <1>7, <1>8
      <3>5. Decoded(p, TRUE) = io1 + B * io2 + B * B * io3 + B * B * B * (io4 + B * 0 + B * B * 0)
        BY Zenon, <1>5, <3>3 DEF Decoded
      <3> QED  BY <2>3, <3>2, <3>4, <3>5
    <2> QED  BY <1>8, <2>1, <2>2, <2>3
  <1>10. p[HDDEVSEL].now.slave = IsSlave(IDE_devices[drive])
    BY <1>5, <1>6 DEF HDDEVSEL
  <1> QED  BY Zenon, <1>1, <1>3, <1>9, <1>10

-----------------------------------------------------------------------------
(* The disks: the invariant                                                *)

\* IDE_init has looked at the positions below probed.
Found ==
  /\ hardware \in IdeHardware /\ probed \in 0 .. 4
  /\ IDE_devices \in Seq(Positions)
  /\ \A d, e \in Drives : d < e => IDE_devices[d] < IDE_devices[e]
  /\ ToSet(IDE_devices) = {p \in Positions : p < probed /\ IsDrive(p)}
  /\ at # "probe" => probed = 4

\* The shapes of the drives, and of what is remembered about them.
Shapes ==
  /\ selected \in [Channels -> Positions] /\ \A c \in Channels : Channel(selected[c]) = c
  /\ state = [c \in Channels |-> state[c]]
  /\ platter = [p \in Positions |-> platter[p]]
  /\ \A p \in Positions : platter[p] = [s \in 0 .. Size(p) - 1 |-> platter[p][s]]
  /\ at # "probe" =>
       /\ ideImage = [d \in Drives |-> ideImage[d]]
       /\ \A d \in Drives : ideImage[d] = [s \in 0 .. Size(IDE_devices[d]) - 1 |-> ideImage[d][s]]

Asking == at \in {"sleep", "poll"}
Flushing == at \in {"flush_sleep", "flush_poll"}

Operating ==
  /\ at \in {"probe", "idle", "wait", "sleep", "poll", "flush_sleep", "flush_poll", "return"}
  /\ at \notin {"probe", "idle"} =>
       /\ op.drive \in Drives /\ op.lba \in IdeLBAs /\ op.lba <= Size(IDE_devices[op.drive])
       /\ op.direction \in {"read", "write"}
  /\ (Flushing \/ at = "return") =>
       /\ op.direction = "read"
       /\ ~ideError => buffer = ideImage[op.drive][op.lba]

Stores(c, d, s) ==
  selected[c] = IDE_devices[d]
    /\ state[c] = [does |-> "storing", sector |-> s, value |-> ideImage[d][s]]

OnItsOwn(c) ==
  \/ state[c] = Ready
  \/ at # "probe" /\ \E d \in Drives : \E s \in 0 .. Size(IDE_devices[d]) - 1 : Stores(c, d, s)

Does(w) == state[Here] = [does |-> w, sector |-> op.lba]

Answers ==
  /\ selected[Here] = IDE_devices[op.drive]
  /\ \/ state[Here] = Ready /\ ideError
     \/ op.direction = "read" /\ Does("reading")
     \/ op.direction = "write" /\ Does("writing")
     \/ op.direction = "read" /\ Does("send") /\ op.lba < Size(IDE_devices[op.drive])
     \/ op.direction = "write" /\ Does("receive") /\ op.lba < Size(IDE_devices[op.drive])

States ==
  /\ at = "probe" => \A c \in Channels : state[c] = Ready
  /\ \A c \in Channels : OnItsOwn(c) \/ ((Asking \/ Flushing) /\ c = Here)
  /\ Asking => Answers
  /\ Flushing => state[Here] \in {Ready, [does |-> "flushing"]}

Synced ==
  at # "probe" => \A d \in Drives : \A s \in 0 .. Size(IDE_devices[d]) - 1 :
     \/ platter[IDE_devices[d]][s] = ideImage[d][s]
     \/ Stores(Channel(IDE_devices[d]), d, s)

DiskInv == Found /\ Shapes /\ Operating /\ States /\ Synced

LEMMA DiskInvImplies ==
  ASSUME DiskInv  PROVE PlattersKept
  <1>1. CASE at = "probe"
    BY <1>1 DEF PlattersKept
  <1>2. CASE at # "probe"
    <2>1. ToSet(IDE_devices) = {p \in Positions : IsDrive(p)}
      <3>1. \A p \in Positions : p < probed
        BY <1>2 DEF DiskInv, Found, Positions
      <3> QED  BY <3>1 DEF DiskInv, Found
    <2>2. ASSUME NEW d \in Drives, NEW s \in DOMAIN platter[IDE_devices[d]]
          PROVE  \/ platter[IDE_devices[d]][s] = ideImage[d][s]
                 \/ /\ selected[Channel(IDE_devices[d])] = IDE_devices[d]
                    /\ state[Channel(IDE_devices[d])].does = "storing"
                    /\ state[Channel(IDE_devices[d])].sector = s
                    /\ state[Channel(IDE_devices[d])].value = ideImage[d][s]
      <3>1. IDE_devices[d] \in Positions
        BY DEF DiskInv, Found, Drives
      <3>2. DOMAIN platter[IDE_devices[d]] = 0 .. Size(IDE_devices[d]) - 1
        BY <3>1 DEF DiskInv, Shapes
      <3>3. CASE platter[IDE_devices[d]][s] = ideImage[d][s]
        BY <3>3
      <3>4. CASE Stores(Channel(IDE_devices[d]), d, s)
        BY <3>4 DEF Stores
      <3> QED  BY <1>2, <3>2, <3>3, <3>4 DEF DiskInv, Synced
    <2>3. at = "return" /\ ~ideError => buffer = ideImage[op.drive][op.lba]
      BY DEF DiskInv, Operating
    <2>4. \A d, e \in Drives : d < e => IDE_devices[d] < IDE_devices[e]
      BY DEF DiskInv, Found
    <2> QED  BY <2>1, <2>2, <2>3, <2>4 DEF PlattersKept
  <1> QED  BY <1>1, <1>2

LEMMA DiskInit ==
  ASSUME ATAAssumption, ATAInit  PROVE DiskInv
  <1>1. Drives = {} /\ IDE_devices \in Seq(Positions) /\ ToSet(IDE_devices) = {}
    BY EmptySeq DEF ATAInit, Drives, ToSet
  <1>2. Found
    BY <1>1 DEF ATAInit, Found, Positions
  <1>3. Shapes
    <2>1. selected \in [Channels -> Positions] /\ \A c \in Channels : Channel(selected[c]) = c
      <3>1. \A c \in Channels : 2 * c \in Positions /\ (2 * c) \div 2 = c
        BY DEF Channels, Positions
      <3> QED  BY <3>1 DEF ATAInit, Channel
    <2>2. state = [c \in Channels |-> state[c]] /\ at = "probe"
      BY DEF ATAInit
    <2>3. PICK v : platter = [p \in Positions |-> [s \in 0 .. Size(p) - 1 |-> v]]
      BY DEF ATAInit
    <2> QED  BY <2>1, <2>2, <2>3 DEF Shapes
  <1>4. Operating /\ States /\ Synced
    BY DEF ATAInit, Operating, States, Synced, Asking, Flushing, OnItsOwn
  <1> QED  BY <1>2, <1>3, <1>4 DEF DiskInv

-----------------------------------------------------------------------------
(* The disks: the steps                                                    *)

LEMMA Position ==
  ASSUME NEW p \in Positions
  PROVE  Channel(p) \in Channels /\ 2 * Channel(p) + IsSlave(p) = p
  BY DEF Positions, Channel, Channels, IsSlave

LEMMA Device ==
  ASSUME Found, NEW d \in Drives
  PROVE  /\ IDE_devices[d] \in Positions /\ Channel(IDE_devices[d]) \in Channels
         /\ \A e \in Drives : e # d => IDE_devices[e] # IDE_devices[d]
         /\ IsDrive(IDE_devices[d])
  <1>1. IDE_devices[d] \in Positions
    BY DEF Found, Drives
  <1>2. \A e \in Drives : e # d => IDE_devices[e] # IDE_devices[d]
    <2>1. ASSUME NEW e \in Drives, e # d  PROVE IDE_devices[e] # IDE_devices[d]
      <3>1. e < d \/ d < e
        BY <2>1 DEF Drives
      <3>2. IDE_devices[e] < IDE_devices[d] \/ IDE_devices[d] < IDE_devices[e]
        BY <3>1 DEF Found
      <3>3. IDE_devices[e] \in Positions
        BY DEF Found, Drives
      <3> QED  BY <1>1, <3>2, <3>3 DEF Positions
    <2> QED  BY <2>1
  <1>3. IDE_devices[d] \in ToSet(IDE_devices)
    BY DEF Found, Drives, ToSet
  <1> QED  BY <1>1, <1>2, <1>3, Position DEF Found

LEMMA FoundKept ==
  ASSUME Found, UNCHANGED <<hardware, IDE_devices, probed>>, at' # "probe" => probed = 4
  PROVE  Found'
  BY DEF Found, Drives, IsDrive

LEMMA ProbeKeeps ==
  ASSUME DiskInv, NEW p \in Positions, IDE_probe(p)  PROVE DiskInv'
  <1>1. Found'
    <2>1. /\ hardware' = hardware /\ probed = p /\ probed' = p + 1 /\ at = "probe" /\ at' = "probe"
          /\ p \in 0 .. 3 /\ Found
      BY DEF IDE_probe, DiskInv, Positions
    <2>2. CASE ~IsDrive(p)
      <3>1. IDE_devices' = IDE_devices
        BY <2>2 DEF IDE_probe
      <3>2. \A q \in Positions : q < probed' /\ IsDrive(q) <=> q < probed /\ IsDrive(q)
        BY <2>1, <2>2 DEF Positions
      <3>3. ToSet(IDE_devices') = {q \in Positions : q < probed' /\ IsDrive(q)'}
        <4>1. ToSet(IDE_devices) = {q \in Positions : q < probed /\ IsDrive(q)}
          BY <2>1 DEF Found
        <4>2. \A q \in Positions : IsDrive(q)' <=> IsDrive(q)
          BY <2>1 DEF IsDrive
        <4> QED  BY <3>1, <3>2, <4>1, <4>2
      <3> QED  BY <2>1, <3>1, <3>3 DEF Found, Drives
    <2>3. CASE IsDrive(p)
      <3>1. IDE_devices' = Append(IDE_devices, p)
        BY <2>3 DEF IDE_probe
      <3>2. PICK n \in Nat : n = Len(IDE_devices) /\ IDE_devices \in Seq(Positions)
        BY <2>1 DEF Found
      <3>3. /\ IDE_devices' \in Seq(Positions) /\ Len(IDE_devices') = n + 1
            /\ \A i \in 1 .. n : IDE_devices'[i] = IDE_devices[i]
            /\ IDE_devices'[n + 1] = p
        BY <3>1, <3>2
      <3>4. ToSet(IDE_devices') = ToSet(IDE_devices) \cup {p}
        <4>1. DOMAIN IDE_devices' = 1 .. n + 1 /\ DOMAIN IDE_devices = 1 .. n
          BY <3>2, <3>3
        <4> QED  BY <3>3, <4>1 DEF ToSet
      <3>5. \A i \in 1 .. n : IDE_devices[i] < p
        <4>1. ASSUME NEW i \in 1 .. n  PROVE IDE_devices[i] < p
          <5>1. IDE_devices[i] \in ToSet(IDE_devices)
            BY <3>2 DEF ToSet
          <5> QED  BY <2>1, <5>1 DEF Found
        <4> QED  BY <4>1
      <3>6. \A d, e \in 1 .. n + 1 : d < e => IDE_devices'[d] < IDE_devices'[e]
        <4>1. \A d, e \in 1 .. n : d < e => IDE_devices[d] < IDE_devices[e]
          BY <2>1, <3>2 DEF Found, Drives
        <4> QED  BY <3>3, <3>5, <4>1
      <3>7. ToSet(IDE_devices') = {q \in Positions : q < p + 1 /\ IsDrive(q)}
        <4>1. \A q \in Positions : q < p + 1 <=> q < p \/ q = p
          BY DEF Positions
        <4> QED  BY <2>1, <2>3, <3>4, <4>1 DEF Found
      <3> QED  BY <2>1, <3>3, <3>6, <3>7 DEF Found, Drives, IsDrive
    <2> QED  BY <2>2, <2>3
  <1>2. Shapes'
    <2>1. selected' \in [Channels -> Positions] /\ \A c \in Channels : Channel(selected'[c]) = c
      <3>1. selected' = [selected EXCEPT ![Channel(p)] = p] /\ Channel(p) \in Channels
        BY Position DEF IDE_probe
      <3> QED  BY <3>1 DEF DiskInv, Shapes
    <2> QED  BY <2>1 DEF IDE_probe, DiskInv, Shapes, Size
  <1>3. Operating' /\ States' /\ Synced'
    BY DEF IDE_probe, DiskInv, Operating, States, Synced, Asking, Flushing, OnItsOwn, Ready
  <1> QED  BY <1>1, <1>2, <1>3 DEF DiskInv

LEMMA AddKeeps ==
  ASSUME DiskInv, SAL_add_devices  PROVE DiskInv'
  <1>1. /\ probed = 4 /\ at = "probe" /\ at' = "idle"
        /\ ideImage' = [d \in Drives |-> platter[IDE_devices[d]]]
        /\ UNCHANGED <<hardware, IDE_devices, probed, op, buffer, selected, state, platter, ideError>>
    BY DEF SAL_add_devices, Moves
  <1>2. Found'
    BY <1>1, FoundKept DEF DiskInv
  <1>3. Shapes'
    <2>1. \A d \in Drives : IDE_devices[d] \in Positions
      BY Device DEF DiskInv
    <2>2. \A d \in Drives : ideImage'[d] = platter[IDE_devices[d]]
      BY <1>1
    <2>3. \A d \in Drives :
            ideImage'[d] = [s \in 0 .. Size(IDE_devices[d]) - 1 |-> ideImage'[d][s]]
      BY <2>1, <2>2 DEF DiskInv, Shapes
    <2>4. ideImage' = [d \in Drives |-> ideImage'[d]]
      BY <1>1
    <2>5. Drives' = Drives /\ \A p : Size(p)' = Size(p)
      BY <1>1 DEF Drives, Size
    <2> QED  BY <1>1, <2>3, <2>4, <2>5 DEF DiskInv, Shapes
  <1>4. Operating' /\ States'
    BY <1>1 DEF DiskInv, Operating, States, Asking, Flushing, OnItsOwn, Ready
  <1>5. Synced'
    BY <1>1 DEF Synced, Drives, Size
  <1> QED  BY <1>2, <1>3, <1>4, <1>5 DEF DiskInv

LEMMA SameDisks ==
  ASSUME UNCHANGED <<hardware, IDE_devices>>
  PROVE  Drives' = Drives /\ \A p : Size(p)' = Size(p)
  BY DEF Drives, Size

\* What no step of an operation changes, and what few steps do.
Settled == UNCHANGED <<hardware, IDE_devices, probed>> /\ at # "probe" /\ at' # "probe"

LEMMA SettledFound ==
  ASSUME Found, Settled  PROVE Found'
  BY FoundKept DEF Settled, Found

LEMMA SettledShapes ==
  ASSUME Shapes, Settled, UNCHANGED <<selected, platter, ideImage>>,
         state' = [c \in Channels |-> state'[c]]
  PROVE  Shapes'
  BY SameDisks DEF Shapes, Settled

LEMMA SettledSynced ==
  ASSUME Synced, Settled, UNCHANGED <<selected, platter, ideImage, state>>
  PROVE  Synced'
  BY SameDisks DEF Synced, Settled, Stores

LEMMA SettledOnItsOwn ==
  ASSUME NEW c, OnItsOwn(c), Settled, UNCHANGED ideImage, selected'[c] = selected[c], state'[c] = state[c]
  PROVE  OnItsOwn(c)'
  BY SameDisks DEF OnItsOwn, Settled, Stores

LEMMA ReadyOrStoring ==
  ASSUME NEW c, OnItsOwn(c), state[c].does # "storing"
  PROVE  state[c] = Ready
  <1> SUFFICES ASSUME NEW d, NEW s, Stores(c, d, s)  PROVE FALSE
    BY Zenon DEF OnItsOwn
  <1> QED  BY DEF Stores

LEMMA RequestKeeps ==
  ASSUME DiskInv, ATARequest  PROVE DiskInv'
  <1>0. PICK v : \E d \in Drives, lba \in IdeLBAs, dir \in {"read", "write"} : Starts(dir, d, lba, v)
    BY DEF ATARequest, ATA_read_sector, ATA_write_sector
  <1>1. PICK d \in Drives, lba \in IdeLBAs, dir \in {"read", "write"} : Starts(dir, d, lba, v)
    BY <1>0
  <1>2. /\ at = "idle" /\ at' = "wait" /\ lba <= Size(IDE_devices[d])
        /\ op' = [direction |-> dir, drive |-> d, lba |-> lba, value |-> v]
        /\ UNCHANGED <<hardware, IDE_devices, probed, selected, state, platter, ideImage>>
    BY <1>1 DEF Starts, Moves
  <1>3. Settled
    BY <1>2 DEF Settled
  <1>4. Found' /\ Shapes' /\ Synced'
    BY <1>2, <1>3, SettledFound, SettledShapes, SettledSynced DEF DiskInv, Shapes
  <1>5. Operating'
    BY <1>2, SameDisks DEF Operating, Flushing
  <1>6. States'
    <2>1. \A c \in Channels : OnItsOwn(c)
      BY <1>2 DEF DiskInv, States, Asking, Flushing
    <2>2. \A c \in Channels : OnItsOwn(c)'
      BY <1>2, <1>3, <2>1, SettledOnItsOwn
    <2> QED  BY <1>2, <2>2 DEF States, Asking, Flushing
  <1> QED  BY <1>4, <1>5, <1>6 DEF DiskInv

LEMMA SleepKeeps ==
  ASSUME DiskInv, PIT_sleep  PROVE DiskInv'
  <1>1. /\ \/ at = "sleep" /\ at' = "poll"
           \/ at = "flush_sleep" /\ at' = "flush_poll"
        /\ UNCHANGED <<hardware, IDE_devices, probed, op, buffer, selected, state, platter,
                       ideImage, ideError>>
    BY DEF PIT_sleep, Moves
  <1>2. Settled
    BY <1>1 DEF Settled
  <1>3. Found' /\ Shapes' /\ Synced'
    BY <1>1, <1>2, SettledFound, SettledShapes, SettledSynced DEF DiskInv, Shapes
  <1>4. Operating'
    BY <1>1, SameDisks DEF DiskInv, Operating, Flushing
  <1>5. States'
    <2>1. \A c \in Channels : OnItsOwn(c)' \/ c = Here'
      BY <1>1, <1>2, SettledOnItsOwn DEF DiskInv, States, Here
    <2>2. (Asking' <=> Asking) /\ (Flushing' <=> Flushing) /\ at' # "probe" /\ (Asking \/ Flushing)
      BY <1>1 DEF Asking, Flushing
    <2>3. Answers => Answers'
      BY <1>1, SameDisks DEF Answers, Does, Here
    <2> QED  BY <1>1, <2>1, <2>2, <2>3 DEF DiskInv, States, Here
  <1> QED  BY <1>3, <1>4, <1>5 DEF DiskInv

LEMMA ReturnKeeps ==
  ASSUME DiskInv, Flushed \/ OperationEnds  PROVE DiskInv'
  <1>1. /\ \/ at = "flush_poll" /\ at' = "return" /\ op' = op /\ ~BUSY(Here)
           \/ at = "return" /\ at' = "idle"
        /\ UNCHANGED <<hardware, IDE_devices, probed, buffer, selected, state, platter,
                       ideImage, ideError>>
    BY DEF Flushed, OperationEnds, Moves
  <1>2. Settled
    BY <1>1 DEF Settled
  <1>3. Found' /\ Shapes' /\ Synced'
    BY <1>1, <1>2, SettledFound, SettledShapes, SettledSynced DEF DiskInv, Shapes
  <1>4. Operating'
    BY <1>1, SameDisks DEF DiskInv, Operating, Flushing
  <1>5. States'
    <2>1. \A c \in Channels : OnItsOwn(c)
      <3>1. CASE at = "return"
        BY <3>1 DEF DiskInv, States, Asking, Flushing
      <3>2. CASE at = "flush_poll"
        <4>1. state[Here] = Ready
          BY <1>1, <3>2 DEF DiskInv, States, Flushing, BUSY
        <4> QED  BY <4>1 DEF DiskInv, States, OnItsOwn
      <3> QED  BY <1>1, <3>1, <3>2
    <2>2. \A c \in Channels : OnItsOwn(c)'
      BY <1>1, <1>2, <2>1, SettledOnItsOwn
    <2> QED  BY <1>1, <2>2 DEF States, Asking, Flushing
  <1> QED  BY <1>3, <1>4, <1>5 DEF DiskInv

LEMMA CommandKeeps ==
  ASSUME ATAAssumption, DiskInv, IDE_ATA_command  PROVE DiskInv'
  <1> DEFINE d == op.drive
             p == IDE_devices[d]
             q == IDE_write(Params(d, op.lba))
  <1>1. /\ at = "wait" /\ at' = "sleep" /\ ~BUSY(Here)
        /\ selected' = [selected EXCEPT ![Here] = 2 * Here + q[HDDEVSEL].now.slave]
        /\ state' = [state EXCEPT ![Here] =
             [does   |-> IF op.direction = "read" THEN "reading" ELSE "writing",
              sector |-> Decoded(q, Address(d, op.lba).lba_mode = 2)]]
        /\ UNCHANGED <<hardware, IDE_devices, probed, op, buffer, platter, ideImage, ideError>>
    BY DEF IDE_ATA_command, Moves
  <1>2. Settled
    BY <1>1 DEF Settled
  <1>3. /\ d \in Drives /\ op.lba \in IdeLBAs /\ op.lba <= Size(p) /\ op.direction \in {"read", "write"}
    BY <1>1 DEF DiskInv, Operating
  <1>4. p \in Positions /\ Here \in Channels /\ Here = Channel(p) /\ IsDrive(p)
    BY <1>3, Device DEF DiskInv, Here
  <1>5. /\ Decoded(q, Address(d, op.lba).lba_mode = 2) = op.lba
        /\ q[HDDEVSEL].now.slave = IsSlave(p)
    <2>1. op.lba \in Nat /\ op.lba < B * B * B * B
      <3>1. PICK F \in Nat : F = B * B * B * B
        BY DEF ATAAssumption
      <3>2. IdeLBAs \subseteq 0 .. F - 1
        BY Zenon, <3>1 DEF ATAAssumption
      <3>3. op.lba \in 0 .. F - 1
        BY <1>3, <3>2
      <3>4. op.lba \in Nat /\ op.lba < F
        BY <3>1, <3>3
      <3> QED  BY Zenon, <3>1, <3>4
    <2>2. hardware[p] # "lba" => op.lba <= ChsSize
      BY <1>3 DEF Size
    <2>3. PICK n \in Nat : n = op.lba
      BY <2>1
    <2>4. /\ Decoded(IDE_write(Params(d, n)), Address(d, n).lba_mode = 2) = n
          /\ IDE_write(Params(d, n))[HDDEVSEL].now.slave = IsSlave(IDE_devices[d])
      <3> HIDE DEF d, q
      <3> QED  BY <2>1, <2>2, <2>3, NumberArrives DEF p
    <2> QED  BY Zenon, <2>3, <2>4
  <1>6. /\ selected' = [selected EXCEPT ![Here] = p]
        /\ state' = [state EXCEPT ![Here] =
             [does |-> IF op.direction = "read" THEN "reading" ELSE "writing", sector |-> op.lba]]
    <2>1. 2 * Here + q[HDDEVSEL].now.slave = p
      BY <1>4, <1>5, Position
    <2> QED  BY Zenon, <1>1, <1>5, <2>1
  <1> HIDE DEF q, p
  <1>7. /\ \A c \in Channels : OnItsOwn(c)
        /\ state[Here] = Ready
    <2>1. \A c \in Channels : OnItsOwn(c)
      BY <1>1 DEF DiskInv, States, Asking, Flushing
    <2>2. state[Here].does # "storing"
      BY <1>1 DEF BUSY
    <2>3. OnItsOwn(Here)
      BY <1>4, <2>1
    <2>4. state[Here] = Ready
      BY <2>2, <2>3, ReadyOrStoring
    <2> QED  BY <2>1, <2>4
  <1>8. Found'
    BY <1>2, SettledFound DEF DiskInv
  <1>9. /\ selected' \in [Channels -> Positions] /\ state' = [c \in Channels |-> state'[c]]
        /\ \A c \in Channels : c # Here => selected'[c] = selected[c] /\ state'[c] = state[c]
        /\ selected'[Here] = p
        /\ state'[Here] = [does   |-> IF op.direction = "read" THEN "reading" ELSE "writing",
                           sector |-> op.lba]
    BY <1>4, <1>6 DEF DiskInv, Shapes
  <1>10. Shapes'
    BY <1>1, <1>2, <1>4, <1>9, SameDisks DEF DiskInv, Shapes, Settled
  <1>11. Operating'
    BY <1>1, SameDisks DEF DiskInv, Operating, Flushing
  <1>12. Here' = Here
    BY <1>1 DEF Here
  <1>13. States'
    <2>1. \A c \in Channels : c # Here => OnItsOwn(c)'
      BY <1>1, <1>2, <1>7, <1>9, SettledOnItsOwn
    <2>2. Answers'
      BY <1>1, <1>3, <1>9, <1>12 DEF Answers, Does, p
    <2> QED  BY <1>1, <1>12, <2>1, <2>2 DEF States, Asking, Flushing
  <1>14. Synced'
    <2>1. ASSUME NEW e \in Drives, NEW s \in 0 .. Size(IDE_devices[e]) - 1
          PROVE  \/ platter[IDE_devices[e]][s] = ideImage[e][s]
                 \/ Stores(Channel(IDE_devices[e]), e, s)'
      <3>1. \/ platter[IDE_devices[e]][s] = ideImage[e][s]
            \/ Stores(Channel(IDE_devices[e]), e, s)
        BY <1>1 DEF DiskInv, Synced
      <3>2. Channel(IDE_devices[e]) \in Channels
        BY Device DEF DiskInv
      <3>3. CASE Channel(IDE_devices[e]) = Here
        BY <1>7, <3>1, <3>3 DEF Stores, Ready
      <3>4. CASE Channel(IDE_devices[e]) # Here
        BY <1>1, <1>9, <3>1, <3>2, <3>4 DEF Stores
      <3> QED  BY <3>3, <3>4
    <2> QED  BY <1>1, <2>1, SameDisks DEF Synced
  <1> QED  BY <1>8, <1>10, <1>11, <1>13, <1>14 DEF DiskInv

\* The drive of the operation, and what it answers when it is not busy.
LEMMA Answered ==
  ASSUME DiskInv, at = "poll", ~BUSY(Here)
  PROVE  /\ op.drive \in Drives /\ op.lba \in IdeLBAs
         /\ IDE_devices[op.drive] \in Positions
         /\ Here \in Channels /\ Here = Channel(IDE_devices[op.drive])
         /\ selected[Here] = IDE_devices[op.drive]
         /\ \/ state[Here] = Ready /\ ideError
            \/ /\ op.lba < Size(IDE_devices[op.drive])
               /\ \/ op.direction = "read" /\ Does("send")
                  \/ op.direction = "write" /\ Does("receive")
         /\ \A c \in Channels : c # Here => OnItsOwn(c)
  <1>1. op.drive \in Drives /\ op.lba \in IdeLBAs
    BY DEF DiskInv, Operating
  <1>2. /\ IDE_devices[op.drive] \in Positions /\ Here \in Channels
        /\ Here = Channel(IDE_devices[op.drive])
    BY <1>1, Device DEF DiskInv, Here
  <1>3. Answers /\ \A c \in Channels : c # Here => OnItsOwn(c)
    BY DEF DiskInv, States, Asking
  <1>4. ~Does("reading") /\ ~Does("writing")
    BY DEF BUSY, Does
  <1> QED  BY Zenon, <1>1, <1>2, <1>3, <1>4 DEF Answers

LEMMA ReadKeeps ==
  ASSUME ATAAssumption, DiskInv, Transfer, op.direction = "read"  PROVE DiskInv'
  <1> DEFINE d == op.drive
             p == IDE_devices[d]
             n == op.lba
  <1>1. /\ at = "poll" /\ ~BUSY(Here) /\ at' = "flush_sleep"
        /\ state[Here].does = "send" => buffer' = platter[selected[Here]][state[Here].sector]
        /\ state' = [state EXCEPT ![Here] = [does |-> "flushing"]]
        /\ UNCHANGED <<hardware, IDE_devices, probed, op, selected, platter, ideImage, ideError>>
    BY DEF Transfer
  <1>2. Settled
    BY <1>1 DEF Settled
  <1>3. /\ d \in Drives /\ n \in IdeLBAs /\ p \in Positions /\ Here \in Channels /\ Here = Channel(p)
        /\ selected[Here] = p
        /\ (state[Here] = Ready /\ ideError) \/ (n < Size(p) /\ Does("send"))
        /\ \A c \in Channels : c # Here => OnItsOwn(c)
    BY <1>1, Answered
  <1> HIDE DEF d, p, n
  <1>4. state[Here].does # "storing"
    BY <1>3 DEF Ready, Does
  <1>5. ~ideError => buffer' = ideImage[d][n]
    <2> SUFFICES ASSUME ~ideError  PROVE buffer' = ideImage[d][n]
      OBVIOUS
    <2>1. n < Size(p) /\ state[Here] = [does |-> "send", sector |-> n]
      BY <1>3 DEF Does, n
    <2>2. n \in 0 .. Size(p) - 1
      <3>1. n \in Nat
        <4>1. PICK F \in Nat : F = B * B * B * B
          BY DEF ATAAssumption
        <4>2. IdeLBAs \subseteq 0 .. F - 1
          BY Zenon, <4>1 DEF ATAAssumption
        <4> QED  BY <1>3, <4>1, <4>2
      <3>2. Size(p) \in Nat
        BY DEF Size, ATAAssumption
      <3> QED  BY <2>1, <3>1, <3>2
    <2>3. platter[p][n] = ideImage[d][n] \/ Stores(Channel(p), d, n)
      BY <1>1, <1>3, <2>2 DEF DiskInv, Synced, p
    <2>4. platter[p][n] = ideImage[d][n]
      BY <1>3, <1>4, <2>3 DEF Stores
    <2> QED  BY <1>1, <1>3, <2>1, <2>4
  <1>6. /\ state' = [c \in Channels |-> state'[c]] /\ state'[Here] = [does |-> "flushing"]
        /\ \A c \in Channels : c # Here => state'[c] = state[c]
    BY <1>1, <1>3 DEF DiskInv, Shapes
  <1>7. Found' /\ Shapes'
    BY <1>1, <1>2, <1>6, SettledFound, SettledShapes DEF DiskInv
  <1>8. Operating'
    <2>1. /\ op.drive \in Drives /\ op.lba \in IdeLBAs /\ op.lba <= Size(IDE_devices[op.drive])
      BY <1>1 DEF DiskInv, Operating
    <2> QED  BY <1>1, <1>5, <2>1, SameDisks DEF Operating, Flushing, d, n
  <1>9. States'
    <2>1. \A c \in Channels : c # Here => OnItsOwn(c)'
      BY <1>1, <1>2, <1>3, <1>6, SettledOnItsOwn
    <2>2. Here' = Here /\ Flushing' /\ ~Asking' /\ at' # "probe"
      BY <1>1 DEF Here, Asking, Flushing
    <2> QED  BY <1>6, <2>1, <2>2 DEF States
  <1>10. Synced'
    <2>1. ASSUME NEW e \in Drives, NEW s \in 0 .. Size(IDE_devices[e]) - 1
          PROVE  \/ platter[IDE_devices[e]][s] = ideImage[e][s]
                 \/ Stores(Channel(IDE_devices[e]), e, s)'
      <3>1. \/ platter[IDE_devices[e]][s] = ideImage[e][s]
            \/ Stores(Channel(IDE_devices[e]), e, s)
        BY <1>1 DEF DiskInv, Synced
      <3>2. Channel(IDE_devices[e]) \in Channels
        BY Device DEF DiskInv
      <3>3. CASE Channel(IDE_devices[e]) = Here
        BY <1>4, <3>1, <3>3 DEF Stores
      <3>4. CASE Channel(IDE_devices[e]) # Here
        BY <1>1, <1>6, <3>1, <3>2, <3>4 DEF Stores
      <3> QED  BY <3>3, <3>4
    <2> QED  BY <1>1, <2>1, SameDisks DEF Synced
  <1> QED  BY <1>7, <1>8, <1>9, <1>10 DEF DiskInv

LEMMA WriteKeeps ==
  ASSUME ATAAssumption, DiskInv, Transfer, op.direction = "write"  PROVE DiskInv'
  <1>0. PICK d, n, h : d = op.drive /\ n = op.lba /\ h = Here
    OBVIOUS
  <1> DEFINE p == IDE_devices[d]
  <1>1. /\ at = "poll" /\ ~BUSY(h) /\ at' = "idle"
        /\ IF state[h].does = "receive"
           THEN /\ state' = [state EXCEPT ![h] =
                      [does |-> "storing", sector |-> @.sector, value |-> buffer]]
                /\ ideImage' = [ideImage EXCEPT ![d][n] = buffer]
           ELSE UNCHANGED <<state, ideImage>>
        /\ UNCHANGED <<hardware, IDE_devices, probed, buffer, selected, platter, ideError>>
    BY <1>0 DEF Transfer
  <1>2. Settled
    BY <1>1 DEF Settled
  <1>3. /\ d \in Drives /\ n \in IdeLBAs /\ p \in Positions /\ h \in Channels /\ h = Channel(p)
        /\ selected[h] = p
        /\ \/ state[h] = Ready /\ ideError
           \/ n < Size(p) /\ state[h] = [does |-> "receive", sector |-> n]
        /\ \A c \in Channels : c # h => OnItsOwn(c)
    BY <1>0, <1>1, Answered DEF Does
  <1>4. Found' /\ Operating'
    BY <1>1, <1>2, SettledFound DEF DiskInv, Operating, Flushing
  <1> HIDE DEF p
  <1>5. CASE state[h] = Ready
    <2>1. UNCHANGED <<state, ideImage>>
      BY <1>1, <1>5 DEF Ready
    <2>2. Shapes' /\ Synced'
      BY <1>1, <1>2, <2>1, SettledShapes, SettledSynced DEF DiskInv, Shapes
    <2>3. \A c \in Channels : OnItsOwn(c)
      BY <1>3, <1>5 DEF OnItsOwn
    <2>4. \A c \in Channels : OnItsOwn(c)'
      BY <1>1, <1>2, <2>1, <2>3, SettledOnItsOwn
    <2> QED  BY <1>1, <1>4, <2>2, <2>4 DEF DiskInv, States, Asking, Flushing
  <1>6. CASE n < Size(p) /\ state[h] = [does |-> "receive", sector |-> n]
    <2>1. state[h] = [does |-> "receive", sector |-> n]
      BY <1>6
    <2>2. /\ state' = [state EXCEPT ![h] = [does |-> "storing", sector |-> n, value |-> buffer]]
          /\ ideImage' = [ideImage EXCEPT ![d][n] = buffer]
      BY <1>1, <2>1
    <2>3. n \in 0 .. Size(p) - 1
      <3>1. n \in Nat
        <4>1. PICK F \in Nat : F = B * B * B * B
          BY DEF ATAAssumption
        <4>2. IdeLBAs \subseteq 0 .. F - 1
          BY Zenon, <4>1 DEF ATAAssumption
        <4> QED  BY <1>3, <4>1, <4>2
      <3>2. Size(p) \in Nat
        BY DEF Size, ATAAssumption
      <3> QED  BY <1>6, <3>1, <3>2
    <2>4. /\ state' = [c \in Channels |-> state'[c]]
          /\ state'[h] = [does |-> "storing", sector |-> n, value |-> buffer]
          /\ \A c \in Channels : c # h => state'[c] = state[c]
      BY <1>3, <2>2 DEF DiskInv, Shapes
    <2>5. /\ ideImage = [e \in Drives |-> ideImage[e]]
          /\ \A e \in Drives : ideImage[e] = [s \in 0 .. Size(IDE_devices[e]) - 1 |-> ideImage[e][s]]
      BY <1>1 DEF DiskInv, Shapes
    <2>6. /\ ideImage' = [e \in Drives |-> ideImage'[e]]
          /\ ideImage'[d] = [ideImage[d] EXCEPT ![n] = buffer]
          /\ \A e \in Drives : e # d => ideImage'[e] = ideImage[e]
      BY <1>3, <2>2, <2>5
    <2>7. /\ ideImage'[d] = [s \in 0 .. Size(p) - 1 |-> ideImage'[d][s]]
          /\ ideImage'[d][n] = buffer
          /\ \A s \in 0 .. Size(p) - 1 : s # n => ideImage'[d][s] = ideImage[d][s]
      <3>1. ideImage[d] = [s \in 0 .. Size(p) - 1 |-> ideImage[d][s]]
        BY <1>3, <2>5 DEF p
      <3> QED  BY <2>3, <2>6, <3>1
    <2>8. Shapes'
      <3>1. \A e \in Drives : ideImage'[e] = [s \in 0 .. Size(IDE_devices[e]) - 1 |-> ideImage'[e][s]]
        BY <2>5, <2>6, <2>7 DEF p
      <3> QED  BY <1>1, <2>4, <2>6, <3>1, SameDisks DEF DiskInv, Shapes
    <2>9. Stores(h, d, n)'
      BY <1>1, <1>3, <2>4, <2>7 DEF Stores, p
    <2>10. ASSUME NEW c \in Channels, c # h  PROVE OnItsOwn(c)'
      <3>1. OnItsOwn(c) /\ state'[c] = state[c]
        BY <1>3, <2>4, <2>10
      <3>2. CASE state[c] = Ready
        BY <3>1, <3>2 DEF OnItsOwn, Ready
      <3>3. ASSUME NEW e \in Drives, NEW s \in 0 .. Size(IDE_devices[e]) - 1, Stores(c, e, s)
            PROVE  OnItsOwn(c)'
        <4>1. Channel(IDE_devices[e]) = c
          BY <3>3, <2>10 DEF DiskInv, Shapes, Stores
        <4>2. e # d
          BY <1>3, <2>10, <4>1 DEF p
        <4>3. Stores(c, e, s)'
          BY <1>1, <2>6, <3>1, <3>3, <4>2 DEF Stores
        <4> QED  BY <1>1, <3>3, <4>3, SameDisks DEF OnItsOwn
      <3> QED  BY <3>1, <3>2, <3>3 DEF OnItsOwn
    <2>11. States'
      <3>1. OnItsOwn(h)'
        BY <1>1, <1>3, <2>3, <2>9, SameDisks DEF OnItsOwn, p
      <3>2. \A c \in Channels : OnItsOwn(c)'
        BY <2>10, <3>1
      <3> QED  BY <1>1, <3>2 DEF States, Asking, Flushing
    <2>12. Synced'
      <3>1. ASSUME NEW e \in Drives, NEW s \in 0 .. Size(IDE_devices[e]) - 1
            PROVE  \/ platter[IDE_devices[e]][s] = ideImage'[e][s]
                   \/ Stores(Channel(IDE_devices[e]), e, s)'
        <4>1. \/ platter[IDE_devices[e]][s] = ideImage[e][s]
              \/ Stores(Channel(IDE_devices[e]), e, s)
          BY <1>1 DEF DiskInv, Synced
        <4>2. Channel(IDE_devices[e]) \in Channels
          BY Device DEF DiskInv
        <4>3. CASE e = d /\ s = n
          BY <1>1, <1>3, <2>9, <4>3 DEF p, Stores
        <4>4. CASE ~(e = d /\ s = n)
          <5>1. ideImage'[e][s] = ideImage[e][s]
            BY <2>6, <2>7, <4>4 DEF p
          <5>2. CASE Channel(IDE_devices[e]) = h
            BY <2>1, <4>1, <5>1, <5>2 DEF Stores
          <5>3. CASE Channel(IDE_devices[e]) # h
            BY <1>1, <2>4, <4>1, <4>2, <5>1, <5>3 DEF Stores
          <5> QED  BY <5>2, <5>3
        <4> QED  BY <4>3, <4>4
      <3> QED  BY <1>1, <3>1, SameDisks DEF Synced
    <2> QED  BY <1>4, <2>8, <2>11, <2>12 DEF DiskInv
  <1> QED  BY <1>3, <1>5, <1>6

\* What a drive that is told to read, to write or to flush is doing.
LEMMA AtWork ==
  ASSUME DiskInv, NEW c \in Channels,
         state[c].does \in {"reading", "writing", "flushing"}
  PROVE  /\ c = Here /\ at # "probe" /\ (Asking \/ Flushing) /\ ~(Asking /\ Flushing)
         /\ Flushing => state[c].does = "flushing"
         /\ Asking =>
              /\ selected[c] = IDE_devices[op.drive]
              /\ \/ op.direction = "read" /\ state[c] = [does |-> "reading", sector |-> op.lba]
                 \/ op.direction = "write" /\ state[c] = [does |-> "writing", sector |-> op.lba]
  <1>1. state[c] # Ready /\ state[c].does # "storing"
    BY DEF Ready
  <1>2. ~OnItsOwn(c)
    BY <1>1, ReadyOrStoring
  <1>3. c = Here /\ at # "probe" /\ (Asking \/ Flushing)
    BY <1>1, <1>2 DEF DiskInv, States
  <1>4. ~(Asking /\ Flushing)
    BY DEF Asking, Flushing
  <1>5. Flushing => state[c].does = "flushing"
    BY <1>1, <1>3 DEF DiskInv, States
  <1>6. ASSUME Asking
        PROVE  /\ selected[c] = IDE_devices[op.drive]
               /\ \/ op.direction = "read" /\ state[c] = [does |-> "reading", sector |-> op.lba]
                  \/ op.direction = "write" /\ state[c] = [does |-> "writing", sector |-> op.lba]
    <2>1. Answers
      BY <1>6 DEF DiskInv, States
    <2>2. ~Does("send") /\ ~Does("receive")
      BY <1>3 DEF Does
    <2> QED  BY <1>1, <1>3, <2>1, <2>2 DEF Answers, Does
  <1> QED  BY <1>3, <1>4, <1>5, <1>6

\* A drive that goes on with a command has stored nothing.
LEMMA GoesOn ==
  ASSUME DiskInv, Settled, NEW c \in Channels,
         UNCHANGED <<selected, platter, ideImage, op>>, at' = at,
         state[c].does # "storing",
         \A b \in Channels : b # c => state'[b] = state[b]
  PROVE  /\ Synced'
         /\ \A b \in Channels : b # c /\ OnItsOwn(b) => OnItsOwn(b)'
  <1>1. ASSUME NEW e \in Drives, NEW s \in 0 .. Size(IDE_devices[e]) - 1
        PROVE  \/ platter[IDE_devices[e]][s] = ideImage[e][s]
               \/ Stores(Channel(IDE_devices[e]), e, s)'
    <2>1. \/ platter[IDE_devices[e]][s] = ideImage[e][s]
          \/ Stores(Channel(IDE_devices[e]), e, s)
      BY DEF DiskInv, Synced, Settled
    <2>2. Channel(IDE_devices[e]) \in Channels
      BY Device DEF DiskInv
    <2>3. CASE Channel(IDE_devices[e]) = c
      BY <2>1, <2>3 DEF Stores
    <2>4. CASE Channel(IDE_devices[e]) # c
      BY <2>1, <2>2, <2>4 DEF Stores, Settled
    <2> QED  BY <2>3, <2>4
  <1>2. Synced'
    BY <1>1, SameDisks DEF Synced, Settled
  <1> QED  BY <1>2, SettledOnItsOwn

LEMMA CommandDone ==
  ASSUME DiskInv, NEW c \in Channels, DriveDone(c), state[c].does \in {"reading", "writing", "flushing"}
  PROVE  DiskInv'
  <1>1. /\ UNCHANGED <<hardware, IDE_devices, probed, at, op, buffer, selected, ideImage, platter>>
        /\ \/ /\ state[c].does \in {"reading", "writing"} /\ state[c].sector < Size(selected[c])
              /\ state' = [state EXCEPT ![c].does = IF @ = "reading" THEN "send" ELSE "receive"]
              /\ ideError' = ideError
           \/ /\ state[c].does \in {"reading", "writing"}
              /\ state' = [state EXCEPT ![c] = Ready] /\ ideError' = TRUE
           \/ /\ state[c].does = "flushing"
              /\ state' = [state EXCEPT ![c] = Ready] /\ ideError' = ideError
    BY DEF DriveDone
  <1>2. /\ c = Here /\ at # "probe" /\ (Asking \/ Flushing) /\ ~(Asking /\ Flushing)
        /\ Flushing => state[c].does = "flushing"
        /\ Asking =>
             /\ selected[c] = IDE_devices[op.drive]
             /\ \/ op.direction = "read" /\ state[c] = [does |-> "reading", sector |-> op.lba]
                \/ op.direction = "write" /\ state[c] = [does |-> "writing", sector |-> op.lba]
    BY AtWork
  <1>3. Settled
    BY <1>1, <1>2 DEF Settled
  <1>4. /\ state' = [b \in Channels |-> state'[b]]
        /\ \A b \in Channels : b # c => state'[b] = state[b]
    BY <1>1 DEF DiskInv, Shapes
  <1>5. Found' /\ Shapes'
    BY <1>1, <1>3, <1>4, SettledFound, SettledShapes DEF DiskInv
  <1>6. /\ Synced'
        /\ \A b \in Channels : b # c /\ OnItsOwn(b) => OnItsOwn(b)'
    BY <1>1, <1>3, <1>4, GoesOn
  <1>7. Operating'
    <2>1. (Flushing \/ at = "return") => (~ideError' => ~ideError)
      BY <1>1
    <2> QED  BY <1>1, <2>1, SameDisks DEF DiskInv, Operating, Flushing
  <1>8. Here' = Here /\ (Asking' <=> Asking) /\ (Flushing' <=> Flushing)
    BY <1>1 DEF Here, Asking, Flushing
  <1>9. \A b \in Channels : OnItsOwn(b)' \/ ((Asking \/ Flushing) /\ b = Here)
    BY <1>2, <1>6 DEF DiskInv, States
  <1>10. CASE Asking
    <2>1. Answers'
      <3>1. CASE state' = [state EXCEPT ![c] = Ready] /\ ideError'
        <4>1. state'[c] = Ready
          BY <3>1 DEF DiskInv, Shapes
        <4> QED  BY <1>1, <1>2, <1>8, <1>10, <3>1, <4>1 DEF Answers, Ready
      <3>2. CASE /\ state' = [state EXCEPT ![c].does = IF @ = "reading" THEN "send" ELSE "receive"]
                 /\ state[c].sector < Size(selected[c])
        <4>1. \/ op.direction = "read" /\ state'[c] = [does |-> "send", sector |-> op.lba]
              \/ op.direction = "write" /\ state'[c] = [does |-> "receive", sector |-> op.lba]
          BY <1>2, <1>10, <3>2 DEF DiskInv, Shapes
        <4>2. op.lba < Size(IDE_devices[op.drive])
          BY <1>2, <1>10, <3>2
        <4> QED  BY <1>1, <1>2, <1>8, <1>10, <4>1, <4>2, SameDisks DEF Answers, Does
      <3> QED  BY <1>1, <1>2, <1>10, <3>1, <3>2
    <2> QED  BY <1>1, <1>2, <1>5, <1>6, <1>7, <1>8, <1>9, <1>10, <2>1 DEF DiskInv, States
  <1>11. CASE Flushing
    <2>1. state'[c] = Ready
      BY <1>1, <1>2, <1>11 DEF DiskInv, Shapes
    <2> QED  BY <1>1, <1>2, <1>5, <1>6, <1>7, <1>8, <1>9, <1>11, <2>1 DEF DiskInv, States, Ready
  <1> QED  BY <1>2, <1>10, <1>11

LEMMA StoreDone ==
  ASSUME DiskInv, NEW c \in Channels, DriveDone(c), state[c].does = "storing"
  PROVE  DiskInv'
  <1>1. /\ UNCHANGED <<hardware, IDE_devices, probed, at, op, buffer, selected, ideImage, ideError>>
        /\ platter' = [platter EXCEPT ![selected[c]][state[c].sector] = state[c].value]
        /\ state' = [state EXCEPT ![c] = Ready]
    BY DEF DriveDone
  <1>2. /\ at # "probe"
        /\ \E d \in Drives : \E s \in 0 .. Size(IDE_devices[d]) - 1 : Stores(c, d, s)
    <2>1. state[c] # Ready /\ state[c] # [does |-> "flushing"]
      BY DEF Ready
    <2>2. OnItsOwn(c)
      <3>1. CASE (Asking \/ Flushing) /\ c = Here
        <4>1. Flushing => FALSE
          BY <2>1, <3>1 DEF DiskInv, States
        <4>2. Answers
          BY <3>1, <4>1 DEF DiskInv, States
        <4> QED  BY <2>1, <3>1, <4>2 DEF Answers, Does
      <3> QED  BY <3>1 DEF DiskInv, States
    <2> QED  BY <2>1, <2>2 DEF OnItsOwn
  <1>3. PICK d \in Drives : \E s \in 0 .. Size(IDE_devices[d]) - 1 : Stores(c, d, s)
    BY <1>2
  <1>4. PICK n \in 0 .. Size(IDE_devices[d]) - 1 : Stores(c, d, n)
    BY <1>3
  <1> DEFINE p == IDE_devices[d]
  <1>5. Settled
    BY <1>1, <1>2 DEF Settled
  <1>6. /\ selected[c] = p
        /\ state[c] = [does |-> "storing", sector |-> n, value |-> ideImage[d][n]]
    BY <1>4 DEF Stores
  <1>7. p \in Positions /\ \A e \in Drives : IDE_devices[e] \in Positions /\ (e # d => IDE_devices[e] # p)
    BY Device DEF DiskInv
  <1>8. n \in 0 .. Size(p) - 1
    BY <1>4
  <1> HIDE DEF p
  <1>9. platter' = [platter EXCEPT ![p][n] = ideImage[d][n]]
    BY <1>1, <1>6
  <1>10. /\ platter' = [q \in Positions |-> platter'[q]]
         /\ platter'[p] = [platter[p] EXCEPT ![n] = ideImage[d][n]]
         /\ \A q \in Positions : q # p => platter'[q] = platter[q]
    BY <1>7, <1>9 DEF DiskInv, Shapes
  <1>11. /\ platter'[p] = [s \in 0 .. Size(p) - 1 |-> platter'[p][s]]
         /\ platter'[p][n] = ideImage[d][n]
         /\ \A s \in 0 .. Size(p) - 1 : s # n => platter'[p][s] = platter[p][s]
    <2>1. platter[p] = [s \in 0 .. Size(p) - 1 |-> platter[p][s]]
      BY <1>7 DEF DiskInv, Shapes
    <2> QED  BY <1>8, <1>10, <2>1
  <1>12. /\ state' = [b \in Channels |-> state'[b]] /\ state'[c] = Ready
         /\ \A b \in Channels : b # c => state'[b] = state[b]
    BY <1>1 DEF DiskInv, Shapes
  <1>13. Found'
    BY <1>5, SettledFound DEF DiskInv
  <1>14. Shapes'
    <2>1. \A q \in Positions : platter'[q] = [s \in 0 .. Size(q) - 1 |-> platter'[q][s]]
      BY <1>10, <1>11 DEF DiskInv, Shapes
    <2>2. \A q \in Positions : (platter[q] = [s \in 0 .. Size(q) - 1 |-> platter[q][s]])'
      BY <1>1, <2>1, SameDisks
    <2>3. (platter = [q \in Positions |-> platter[q]])'
      BY <1>10
    <2>4. (state = [b \in Channels |-> state[b]])'
      BY <1>12
    <2>5. /\ selected \in [Channels -> Positions] /\ \A b \in Channels : Channel(selected[b]) = b
          /\ at # "probe" =>
               /\ ideImage = [e \in Drives |-> ideImage[e]]
               /\ \A e \in Drives :
                    ideImage[e] = [s \in 0 .. Size(IDE_devices[e]) - 1 |-> ideImage[e][s]]
      BY DEF DiskInv, Shapes
    <2>6. /\ (selected \in [Channels -> Positions])'
          /\ (\A b \in Channels : Channel(selected[b]) = b)'
          /\ (at # "probe" =>
               /\ ideImage = [e \in Drives |-> ideImage[e]]
               /\ \A e \in Drives :
                    ideImage[e] = [s \in 0 .. Size(IDE_devices[e]) - 1 |-> ideImage[e][s]])'
      BY <1>1, <2>5, SameDisks
    <2> QED  BY Zenon, <2>2, <2>3, <2>4, <2>6 DEF Shapes
  <1>15. Operating'
    BY <1>1, SameDisks DEF DiskInv, Operating, Flushing
  <1>16. States'
    <2>1. Here' = Here /\ (Asking' <=> Asking) /\ (Flushing' <=> Flushing)
      BY <1>1 DEF Here, Asking, Flushing
    <2>2. OnItsOwn(c)'
      BY <1>1, <1>12 DEF OnItsOwn, Ready
    <2>3. \A b \in Channels : b # c /\ OnItsOwn(b) => OnItsOwn(b)'
      BY <1>1, <1>5, <1>12, SettledOnItsOwn
    <2>4. Asking => Here # c
      <3> SUFFICES ASSUME Asking, Here = c  PROVE FALSE
        OBVIOUS
      <3>1. Answers
        BY DEF DiskInv, States
      <3> QED  BY <3>1 DEF Answers, Does, Ready
    <2>5. Flushing => Here # c
      <3> SUFFICES ASSUME Flushing, Here = c  PROVE FALSE
        OBVIOUS
      <3> QED  BY DEF DiskInv, States, Ready
    <2>6. Asking \/ Flushing => Here \in Channels
      <3>1. Asking \/ Flushing => op.drive \in Drives
        BY DEF DiskInv, Operating, Asking, Flushing
      <3> QED  BY <3>1, Device DEF DiskInv, Here
    <2>7. Asking \/ Flushing => state'[Here] = state[Here]
      BY <1>12, <2>4, <2>5, <2>6
    <2>8. Asking => Answers'
      <3> SUFFICES ASSUME Asking  PROVE Answers'
        OBVIOUS
      <3>1. Answers
        BY DEF DiskInv, States
      <3> QED  BY <1>1, <2>1, <2>7, <3>1, SameDisks DEF Answers, Does, Ready
    <2>9. Flushing => state'[Here] \in {Ready, [does |-> "flushing"]}
      BY <2>7 DEF DiskInv, States
    <2>10. \A b \in Channels : OnItsOwn(b)' \/ ((Asking \/ Flushing) /\ b = Here)
      BY <2>2, <2>3 DEF DiskInv, States
    <2> QED  BY <1>1, <1>2, <2>1, <2>8, <2>9, <2>10 DEF States, Ready
  <1>17. Synced'
    <2>1. ASSUME NEW e \in Drives, NEW s \in 0 .. Size(IDE_devices[e]) - 1
          PROVE  \/ platter'[IDE_devices[e]][s] = ideImage[e][s]
                 \/ Stores(Channel(IDE_devices[e]), e, s)'
      <3>1. \/ platter[IDE_devices[e]][s] = ideImage[e][s]
            \/ Stores(Channel(IDE_devices[e]), e, s)
        BY <1>2 DEF DiskInv, Synced
      <3>2. Channel(IDE_devices[e]) \in Channels
        BY Device DEF DiskInv
      <3>3. CASE e = d
        <4>1. CASE s = n
          BY <1>11, <3>3, <4>1 DEF p
        <4>2. CASE s # n
          <5>1. ~Stores(Channel(IDE_devices[e]), e, s)
            <6>1. c = Channel(p)
              BY <1>6 DEF DiskInv, Shapes
            <6> QED  BY <1>6, <3>3, <4>2, <6>1 DEF Stores, p
          <5>2. platter'[p][s] = platter[p][s]
            BY <1>11, <3>3, <4>2 DEF p
          <5> QED  BY <3>1, <3>3, <5>1, <5>2 DEF p
        <4> QED  BY <4>1, <4>2
      <3>4. CASE e # d
        <4>1. platter'[IDE_devices[e]] = platter[IDE_devices[e]]
          BY <1>7, <1>10, <3>4
        <4>2. Stores(Channel(IDE_devices[e]), e, s) => Channel(IDE_devices[e]) # c
          BY <1>6, <1>7, <3>4 DEF Stores
        <4>3. Stores(Channel(IDE_devices[e]), e, s) => Stores(Channel(IDE_devices[e]), e, s)'
          BY <1>1, <1>12, <3>2, <4>2 DEF Stores
        <4> QED  BY <3>1, <4>1, <4>3
      <3> QED  BY <3>3, <3>4
    <2> QED  BY <1>1, <2>1, SameDisks DEF Synced
  <1> QED  BY <1>13, <1>14, <1>15, <1>16, <1>17 DEF DiskInv

LEMMA DiskNext ==
  ASSUME ATAAssumption, DiskInv, [ATANext]_ataVars  PROVE DiskInv'
  <1>1. CASE ATARequest
    BY <1>1, RequestKeeps
  <1>2. ASSUME NEW p \in Positions, IDE_probe(p)  PROVE DiskInv'
    BY <1>2, ProbeKeeps
  <1>3. CASE SAL_add_devices
    BY <1>3, AddKeeps
  <1>4. CASE IDE_ATA_command
    BY <1>4, CommandKeeps
  <1>5. CASE PIT_sleep
    BY <1>5, SleepKeeps
  <1>6. CASE Transfer
    <2>1. op.direction = "read" \/ op.direction = "write"
      BY <1>6 DEF Transfer
    <2> QED  BY <1>6, <2>1, ReadKeeps, WriteKeeps
  <1>7. CASE Flushed \/ OperationEnds
    BY <1>7, ReturnKeeps
  <1>8. ASSUME NEW c \in Channels, DriveDone(c)  PROVE DiskInv'
    <2>1. \/ state[c].does \in {"reading", "writing", "flushing"}
          \/ state[c].does = "storing"
      BY <1>8 DEF DriveDone
    <2> QED  BY <1>8, <2>1, CommandDone, StoreDone
  <1>9. CASE UNCHANGED ataVars
    <2>1. Drives' = Drives /\ \A p : Size(p)' = Size(p) /\ IsDrive(p)' = IsDrive(p)
      BY <1>9 DEF ataVars, Drives, Size, IsDrive
    <2>2. Found' /\ Shapes'
      BY <1>9, <2>1 DEF ataVars, DiskInv, Found, Shapes
    <2>3. Operating'
      BY <1>9, <2>1 DEF ataVars, DiskInv, Operating, Flushing
    <2>4. Synced'
      BY <1>9, <2>1 DEF ataVars, DiskInv, Synced, Stores
    <2>5. Answers' = Answers /\ \A c : OnItsOwn(c)' = OnItsOwn(c)
      BY <1>9, <2>1 DEF ataVars, Answers, Does, Here, OnItsOwn, Stores, Ready
    <2>6. States'
      BY <1>9, <2>1, <2>5 DEF ataVars, DiskInv, States, Asking, Flushing, Here, Ready
    <2> QED  BY <2>2, <2>3, <2>4, <2>6 DEF DiskInv
  <1> QED  BY <1>1, <1>2, <1>3, <1>4, <1>5, <1>6, <1>7, <1>8, <1>9 DEF ATANext, ATADriver, ATADrive

\* The disks keep the sectors: each of a drive's holds what was last written to
\* its number, or the drive is about to store it, and a read that met no error
\* returned it, for drives of every size at every position, both ways a number
\* is split over the registers, and any order of the operations of several
\* drives (IDE_init, IDE_ATA_operation and IDE_poll).
THEOREM SectorsAreKept == ATASpec => []PlattersKept
  <1>1. ATAInit => DiskInv
    BY ATAAssumption, DiskInit
  <1>2. DiskInv /\ [ATANext]_ataVars => DiskInv'
    BY ATAAssumption, DiskNext
  <1>3. DiskInv => PlattersKept
    BY DiskInvImplies
  <1> QED  BY <1>1, <1>2, <1>3, PTL DEF ATASpec

-----------------------------------------------------------------------------
(* How long an operation of the ATA driver takes                           *)

Operation == at \in {"wait", "sleep", "poll", "flush_sleep", "flush_poll", "return"}

\* Whether the drive of a channel has something to finish.
Work(c) == IF BUSY(c) THEN 1 ELSE 0

\* The steps until the operation returns; a command gives the drive work.
TurnsLeft ==
  (CASE at = "wait"        -> 8
     [] at = "sleep"       -> 6
     [] at = "poll"        -> 5
     [] at = "flush_sleep" -> 3
     [] at = "flush_poll"  -> 2
     [] at = "return"      -> 1
     [] OTHER              -> 0) + Work(0) + Work(1)

\* The guards of the drives and of the driver's places in an operation.
DiskGoesOn ==
  \/ \E c \in Channels : BUSY(c)
  \/ at \in {"wait", "flush_poll"} /\ ~BUSY(Here)
  \/ at = "poll" /\ ~BUSY(Here) /\ op.direction \in {"read", "write"}
  \/ at \in {"sleep", "flush_sleep"} /\ TimerOn
  \/ at = "return"

LEMMA DriveTurns ==
  ASSUME DiskInv, NEW c \in Channels, DriveDone(c)
  PROVE  at' = at /\ TurnsLeft' < TurnsLeft
  <1>1. at' = at /\ state = [b \in Channels |-> state[b]]
    BY DEF DriveDone, DiskInv, Shapes
  <1>2. BUSY(c)
    BY DEF DriveDone, BUSY
  <1>3. ~BUSY(c)' /\ \A b \in Channels : b # c => state'[b] = state[b]
    <2>1. CASE state' = [state EXCEPT ![c] = Ready]
      BY <1>1, <2>1 DEF Ready, BUSY
    <2>2. CASE /\ state[c].does \in {"reading", "writing"}
               /\ state' = [state EXCEPT ![c].does = IF @ = "reading" THEN "send" ELSE "receive"]
      <3>1. PICK w \in {"reading", "writing"} : state[c] = [does |-> w, sector |-> op.lba]
        <4>1. c = Here /\ (Asking \/ Flushing) /\ (Flushing => state[c].does = "flushing")
          BY <2>2, AtWork
        <4>2. Asking
          BY <2>2, <4>1
        <4>3. Answers
          BY <4>2 DEF DiskInv, States
        <4> QED  BY <2>2, <4>1, <4>3 DEF Answers, Does, Ready
      <3>2. state'[c] = [does |-> IF w = "reading" THEN "send" ELSE "receive", sector |-> op.lba]
        BY <1>1, <2>2, <3>1
      <3> QED  BY <1>1, <2>2, <3>2 DEF BUSY
    <2> QED  BY <2>1, <2>2 DEF DriveDone
  <1>4. \A b \in Channels : b # c => (BUSY(b)' <=> BUSY(b))
    BY <1>3 DEF BUSY
  <1>5. /\ Work(0) + Work(1) \in Int /\ Work(0)' + Work(1)' \in Int
        /\ Work(0)' + Work(1)' < Work(0) + Work(1)
    BY <1>2, <1>3, <1>4 DEF Work, Channels
  <1>6. Work(0) \in Int /\ Work(1) \in Int /\ Work(0)' \in Int /\ Work(1)' \in Int
    BY DEF Work
  <1> DEFINE k == CASE at = "wait"        -> 8
                    [] at = "sleep"       -> 6
                    [] at = "poll"        -> 5
                    [] at = "flush_sleep" -> 3
                    [] at = "flush_poll"  -> 2
                    [] at = "return"      -> 1
                    [] OTHER              -> 0
  <1>7. k \in Int /\ k' = k
    BY <1>1
  <1>8. TurnsLeft = k + Work(0) + Work(1) /\ TurnsLeft' = k' + Work(0)' + Work(1)'
    BY DEF TurnsLeft
  <1> HIDE DEF k
  <1> QED  BY <1>1, <1>5, <1>6, <1>7, <1>8

\* A step of the driver gives the drive of its operation work, or none.
LEMMA DriverTurns ==
  ASSUME DiskInv, Operation, ATADriver
  PROVE  (Operation' \/ at' = "idle") /\ TurnsLeft' < TurnsLeft
  <1>1. state = [b \in Channels |-> state[b]] /\ Work(0) \in 0 .. 1 /\ Work(1) \in 0 .. 1
    BY DEF DiskInv, Shapes, Work
  <1>2. Work(0)' \in 0 .. 1 /\ Work(1)' \in 0 .. 1
    BY DEF Work
  <1>3. CASE PIT_sleep \/ Flushed \/ OperationEnds
    <2>1. Work(0)' = Work(0) /\ Work(1)' = Work(1)
      BY <1>3 DEF PIT_sleep, Flushed, OperationEnds, Work, BUSY
    <2> QED  BY <1>1, <1>3, <2>1 DEF PIT_sleep, Flushed, OperationEnds, Moves, Operation, TurnsLeft
  <1>4. CASE IDE_ATA_command \/ Transfer
    <2>1. PICK h : h = Here
      OBVIOUS
    <2>2. /\ ~BUSY(h)
          /\ state' = state \/ \E x : state' = [state EXCEPT ![h] = x]
      BY <1>4, <2>1 DEF IDE_ATA_command, Transfer
    <2>3. \A b \in Channels : b # h => state'[b] = state[b]
      BY <1>1, <2>2
    <2>4. \A b \in Channels : b # h => Work(b)' = Work(b)
      BY <2>3 DEF Work, BUSY
    <2>5. h \in Channels => Work(h) = 0
      BY <2>2 DEF Work
    <2>6. Work(0)' + Work(1)' <= Work(0) + Work(1) + 1
      BY <1>1, <1>2, <2>4, <2>5 DEF Channels
    <2>7. \/ at = "wait" /\ at' = "sleep"
          \/ at = "poll" /\ at' \in {"idle", "flush_sleep"}
      BY <1>4 DEF IDE_ATA_command, Transfer, Moves
    <2> QED  BY <1>1, <1>2, <2>6, <2>7 DEF Operation, TurnsLeft
  <1> QED  BY <1>3, <1>4 DEF ATADriver, Operation, IDE_probe, SAL_add_devices, Moves

\* IDE_ATA_operation, with the timer's interrupts: whatever the drives answer
\* and whatever they were left to store, a drive or the driver can go on until
\* the operation returns, and each of their steps brings it nearer: it is over
\* after ten.  A drive that is busy becomes free, as nobody gives it work but
\* the driver, once or twice.
THEOREM OperationsEnd ==
  ASSUME TimerOn
  PROVE  ATASpec => /\ [](Operation => DiskGoesOn /\ TurnsLeft \in 1 .. 10)
                    /\ [][Operation => (Operation' \/ at' = "idle") /\ TurnsLeft' < TurnsLeft]_ataVars
  <1>1. DiskInv /\ Operation => DiskGoesOn /\ TurnsLeft \in 1 .. 10
    <2> SUFFICES ASSUME DiskInv, Operation  PROVE DiskGoesOn /\ TurnsLeft \in 1 .. 10
      OBVIOUS
    <2>1. Here \in Channels /\ op.direction \in {"read", "write"}
      <3>1. /\ op.drive \in Drives /\ op.direction \in {"read", "write"}
            /\ IDE_devices \in Seq(Positions)
        BY DEF DiskInv, Operating, Operation, Found
      <3>2. IDE_devices[op.drive] \in Positions
        BY <3>1 DEF Drives
      <3> QED  BY <3>1, <3>2 DEF Here, Channel, Positions, Channels
    <2>2. Work(0) \in 0 .. 1 /\ Work(1) \in 0 .. 1
      BY DEF Work
    <2>3. DiskGoesOn
      BY <2>1 DEF DiskGoesOn, Operation
    <2> QED  BY <2>2, <2>3 DEF TurnsLeft, Operation
  <1>2. ATAInit => DiskInv
    BY ATAAssumption, DiskInit
  <1>3. DiskInv /\ [ATANext]_ataVars => DiskInv'
    BY ATAAssumption, DiskNext
  <1>4. DiskInv /\ [ATANext]_ataVars
          => [Operation => (Operation' \/ at' = "idle") /\ TurnsLeft' < TurnsLeft]_ataVars
    <2> SUFFICES ASSUME DiskInv, Operation, ATANext
                 PROVE  (Operation' \/ at' = "idle") /\ TurnsLeft' < TurnsLeft
      OBVIOUS
    <2>1. CASE ATARequest
      BY <2>1 DEF ATARequest, ATA_read_sector, ATA_write_sector, Starts, Moves, Operation
    <2>2. CASE ATADriver
      BY <2>2, DriverTurns
    <2>3. ASSUME NEW c \in Channels, DriveDone(c)  PROVE Operation' /\ TurnsLeft' < TurnsLeft
      BY <2>3, DriveTurns DEF Operation
    <2> QED  BY <2>1, <2>2, <2>3 DEF ATANext, ATADrive
  <1> QED  BY <1>1, <1>2, <1>3, <1>4, PTL DEF ATASpec

-----------------------------------------------------------------------------
(* The screen                                                              *)

\* A position on the screen has a cell of its own.
LEMMA PlaceIs ==
  ASSUME TerminalAssumption, NEW y \in 0 .. TERMINAL_HEIGHT - 1, NEW x \in 0 .. TERMINAL_WIDTH - 1
  PROVE  Place(y, x) = y * TERMINAL_WIDTH + x /\ Place(y, x) \in Cells
  <1>1. PICK w, h, z \in Nat \ {0} : w = TERMINAL_WIDTH /\ h = TERMINAL_HEIGHT /\ z = SIZE_T
    BY DEF TerminalAssumption
  <1>2. w * h <= z /\ y \in 0 .. h - 1 /\ x \in 0 .. w - 1
    BY <1>1 DEF TerminalAssumption
  <1>3. y * w + x \in 0 .. w * h - 1
    <2>1. (y + 1) * w <= h * w
      BY <1>2, Monotone
    <2>2. (y + 1) * w = y * w + w /\ h * w = w * h /\ y * w \in Nat /\ w * h \in Nat
      BY <1>2
    <2> QED  BY <1>2, <2>1, <2>2
  <1>4. (y * w + x) % z = y * w + x
    <2>1. PICK n \in Nat : n = y * w + x
      BY <1>3
    <2>2. w * h \in Nat /\ n < z
      BY <1>2, <1>3, <2>1
    <2>3. n % z = n
      BY <2>2, NoRemainder
    <2> QED  BY <2>1, <2>3
  <1> QED  BY <1>1, <1>3, <1>4 DEF Place, Cells

LEMMA PlacesApart ==
  ASSUME TerminalAssumption,
         NEW y \in 0 .. TERMINAL_HEIGHT - 1, NEW x \in 0 .. TERMINAL_WIDTH - 1,
         NEW v \in 0 .. TERMINAL_HEIGHT - 1, NEW u \in 0 .. TERMINAL_WIDTH - 1,
         Place(y, x) = Place(v, u)
  PROVE  y = v /\ x = u
  <1>1. PICK w \in Nat \ {0} : w = TERMINAL_WIDTH
    BY DEF TerminalAssumption
  <1>2. PICK n \in Nat : n = y * w + x /\ n = v * w + u
    <2>1. y * w + x = v * w + u
      BY <1>1, PlaceIs
    <2>2. y * w + x \in Nat
      BY <1>1
    <2> QED  BY <2>1, <2>2
  <1>3. y \in Nat /\ v \in Nat /\ x \in 0 .. w - 1 /\ u \in 0 .. w - 1
    BY <1>1
  <1>4. n \div w = y /\ n % w = x /\ n \div w = v /\ n % w = u
    <2>1. n \div w = y /\ n % w = x
      BY <1>2, <1>3, Quotient
    <2>2. n \div w = v /\ n % w = u
      BY <1>2, <1>3, Quotient
    <2> QED  BY <2>1, <2>2
  <1> QED  BY <1>4

\* The cell below, as terminal_scroll finds it.
LEMMA PlaceBelow ==
  ASSUME TerminalAssumption, NEW y \in 0 .. TERMINAL_HEIGHT - 1, NEW x \in 0 .. TERMINAL_WIDTH - 1
  PROVE  /\ y < TERMINAL_HEIGHT - 1 => /\ Place(y, x) + TERMINAL_WIDTH \in Cells
                                       /\ Place(y, x) + TERMINAL_WIDTH = Place(y + 1, x)
         /\ y = TERMINAL_HEIGHT - 1 => Place(y, x) + TERMINAL_WIDTH \notin Cells
  <1>1. PICK w, h \in Nat \ {0} : w = TERMINAL_WIDTH /\ h = TERMINAL_HEIGHT
    BY DEF TerminalAssumption
  <1>2. Place(y, x) = y * w + x
    BY <1>1, PlaceIs
  <1>3. y \in Nat /\ x \in Nat /\ y * w \in Nat /\ y * w + x + w = (y + 1) * w + x
    BY <1>1
  <1>4. ASSUME y < h - 1
        PROVE  y * w + x + w \in Cells /\ y * w + x + w = Place(y + 1, x)
    <2>1. y + 1 \in 0 .. h - 1
      BY <1>1, <1>3, <1>4
    <2>2. Place(y + 1, x) = (y + 1) * w + x /\ Place(y + 1, x) \in Cells
      BY <1>1, <2>1, PlaceIs
    <2> QED  BY <1>3, <2>2
  <1>5. ASSUME y = h - 1  PROVE y * w + x + w \notin Cells
    <2>1. y * w + w = w * h /\ w * h \in Nat
      BY <1>1, <1>5
    <2> QED  BY <1>1, <1>3, <2>1 DEF Cells
  <1> QED  BY <1>1, <1>2, <1>4, <1>5

-----------------------------------------------------------------------------
(* Rows of text *)

Chars == STRING \cup {NEWLINE, Blank}
Texts == Seq(Chars)

Sheets == {r \in Seq(Texts) : Len(r) >= 1}

\* Its last row can take another character.
Open(r) == r \in Sheets /\ Len(Last(r)) < TERMINAL_WIDTH

LEMMA LastRow ==
  ASSUME NEW r \in Sheets
  PROVE  /\ Len(r) \in Nat \ {0} /\ Last(r) = r[Len(r)] /\ Last(r) \in Texts /\ Len(Last(r)) \in Nat
         /\ \A i \in 1 .. Len(r) : r[i] \in Texts
  BY DEF Sheets, Texts, Last

LEMMA OneMore ==
  ASSUME NEW S, NEW s \in Seq(S), NEW x \in S
  PROVE  /\ Append(s, x) \in Seq(S) /\ Len(Append(s, x)) = Len(s) + 1
         /\ Append(s, x)[Len(s) + 1] = x /\ \A i \in 1 .. Len(s) : Append(s, x)[i] = s[i]
  OBVIOUS

\* A new row, and a character behind the last one.
LEMMA RowAdded ==
  ASSUME NEW r \in Sheets
  PROVE  /\ Append(r, <<>>) \in Sheets /\ Len(Append(r, <<>>)) = Len(r) + 1
         /\ \A i \in 1 .. Len(r) : Append(r, <<>>)[i] = r[i]
         /\ Append(r, <<>>)[Len(r) + 1] = <<>> /\ Last(Append(r, <<>>)) = <<>>
  <1>1. PICK e \in Texts : e = <<>>
    BY EmptySeq DEF Texts
  <1>2. PICK s : s = Append(r, e)
    OBVIOUS
  <1>3. /\ s \in Seq(Texts) /\ Len(s) = Len(r) + 1 /\ s[Len(r) + 1] = e
        /\ \A i \in 1 .. Len(r) : s[i] = r[i]
    BY <1>2 DEF Sheets
  <1>4. s \in Sheets /\ Last(s) = e
    BY <1>3, LastRow DEF Sheets, Last
  <1> QED  BY <1>1, <1>2, <1>3, <1>4

Longer(r, c) == Append(Front(r), Append(Last(r), c))

LEMMA CharacterAdded ==
  ASSUME NEW r \in Sheets, NEW c \in Chars
  PROVE  /\ Longer(r, c) \in Sheets /\ Len(Longer(r, c)) = Len(r)
         /\ \A i \in 1 .. Len(r) - 1 : Longer(r, c)[i] = r[i]
         /\ Longer(r, c)[Len(r)] = Append(Last(r), c)
         /\ Last(Longer(r, c)) = Append(Last(r), c)
         /\ Len(Append(Last(r), c)) = Len(Last(r)) + 1
         /\ Append(Last(r), c)[Len(Last(r)) + 1] = c
         /\ \A i \in 1 .. Len(Last(r)) : Append(Last(r), c)[i] = Last(r)[i]
  <1>1. PICK l \in Texts : l = Last(r)
    BY LastRow
  <1>2. PICK m \in Texts : /\ m = Append(l, c) /\ Len(m) = Len(l) + 1 /\ m[Len(l) + 1] = c
                           /\ \A i \in 1 .. Len(l) : m[i] = l[i]
    <2>1. l \in Seq(Chars)
      BY DEF Texts
    <2>2. /\ Append(l, c) \in Seq(Chars) /\ Len(Append(l, c)) = Len(l) + 1
          /\ Append(l, c)[Len(l) + 1] = c /\ \A i \in 1 .. Len(l) : Append(l, c)[i] = l[i]
      BY <2>1, OneMore
    <2> QED  BY Zenon, <2>2 DEF Texts
  <1>3. PICK f : /\ f = Front(r) /\ f \in Seq(Texts) /\ Len(f) = Len(r) - 1
                 /\ \A i \in 1 .. Len(r) - 1 : f[i] = r[i]
    <2>1. r \in Seq(Texts) /\ Len(r) \in Nat \ {0} /\ Front(r) = SubSeq(r, 1, Len(r) - 1)
      BY LastRow DEF Sheets, Front
    <2> QED  BY <2>1
  <1>4. PICK s : s = Append(f, m)
    OBVIOUS
  <1>5. Len(r) \in Nat \ {0}
    BY LastRow
  <1>6. /\ s \in Seq(Texts) /\ Len(s) = Len(r) /\ s[Len(r)] = m
        /\ \A i \in 1 .. Len(r) - 1 : s[i] = r[i]
    <2>1. s \in Seq(Texts) /\ Len(s) = Len(f) + 1 /\ s[Len(f) + 1] = m
      BY <1>3, <1>4
    <2>2. \A i \in 1 .. Len(f) : s[i] = f[i]
      BY <1>3, <1>4
    <2> QED  BY <1>3, <1>5, <2>1, <2>2
  <1>7. s \in Sheets /\ Last(s) = m
    BY <1>5, <1>6 DEF Sheets, Last
  <1>8. Longer(r, c) = s
    BY Zenon, <1>1, <1>2, <1>3, <1>4 DEF Longer
  <1> QED  BY Zenon, <1>1, <1>2, <1>6, <1>7, <1>8

-----------------------------------------------------------------------------
(* What the screen shows                                                   *)

Top(r) == IF Len(r) > TERMINAL_HEIGHT THEN Len(r) - TERMINAL_HEIGHT ELSE 0

Shown(r, y, x) ==
  IF Top(r) + y < Len(r) /\ x < Len(r[Top(r) + y + 1]) THEN r[Top(r) + y + 1][x + 1] ELSE Blank

At(l, x) == IF x < Len(l) THEN l[x + 1] ELSE Blank

LEMMA ShownIs ==
  ASSUME NEW r, NEW y, NEW x, NEW k, Top(r) + y + 1 = k
  PROVE  /\ Top(r) + y < Len(r) => Shown(r, y, x) = At(r[k], x)
         /\ ~(Top(r) + y < Len(r)) => Shown(r, y, x) = Blank
  BY DEF Shown, At

\* The screen shows the last rows of r, and the last one is being written.
Shows(t, r) ==
  /\ t = [row |-> t.row, col |-> t.col, buff |-> t.buff]
  /\ t.row = Len(r) - Top(r) - 1
  /\ \A y \in 0 .. TERMINAL_HEIGHT - 1, x \in 0 .. TERMINAL_WIDTH - 1 :
       t.buff[Place(y, x)] = Shown(r, y, x)

LEMMA TopIs ==
  ASSUME TerminalAssumption, NEW r \in Sheets
  PROVE  /\ Top(r) \in Nat /\ Len(r) \in Nat \ {0} /\ TERMINAL_HEIGHT \in Nat \ {0, 1}
         /\ Len(r) - Top(r) - 1 \in 0 .. TERMINAL_HEIGHT - 1
         /\ Top(r) > 0 => Len(r) = Top(r) + TERMINAL_HEIGHT
         /\ \A y \in 0 .. TERMINAL_HEIGHT - 1 :
              Top(r) + y < Len(r) => Top(r) + y + 1 \in 1 .. Len(r)
  <1>1. PICK n, h \in Nat \ {0} : n = Len(r) /\ h = TERMINAL_HEIGHT /\ h # 1
    BY LastRow DEF TerminalAssumption
  <1>2. Top(r) = IF n > h THEN n - h ELSE 0
    BY <1>1 DEF Top
  <1>3. CASE n > h
    BY <1>1, <1>2, <1>3
  <1>4. CASE ~(n > h)
    BY <1>1, <1>2, <1>4
  <1> QED  BY <1>3, <1>4

LEMMA NewRowShows ==
  ASSUME TerminalAssumption, NEW t, NEW r \in Sheets, Shows(t, r)
  PROVE  Shows(NewRow(t), Append(r, <<>>)) /\ NewRow(t).col = 0
  <1>1. PICK w, h, z \in Nat \ {0, 1} : w = TERMINAL_WIDTH /\ h = TERMINAL_HEIGHT /\ z = SIZE_T
    BY DEF TerminalAssumption
  <1>2. PICK n \in Nat \ {0} : n = Len(r)
    BY LastRow
  <1>3. PICK s \in Sheets : /\ s = Append(r, <<>>) /\ Len(s) = n + 1 /\ s[n + 1] = <<>>
                            /\ \A i \in 1 .. n : s[i] = r[i]
    BY <1>2, RowAdded
  <1>4. Len(<<>>) = 0
    OBVIOUS
  <1>5. t.row = n - Top(r) - 1 /\ t.row \in 0 .. h - 1
    BY <1>1, <1>2, TopIs DEF Shows
  <1>6. (t.row + 1) % z = t.row + 1
    <2>1. h + h <= w * h /\ w * h <= z
      <3>1. 2 * h <= w * h
        BY <1>1, Monotone
      <3>2. w * h <= z
        BY <1>1 DEF TerminalAssumption
      <3> QED  BY <1>1, <3>1, <3>2
    <2>2. w * h \in Nat
      BY <1>1
    <2>3. t.row + 1 \in Nat /\ t.row + 1 < z
      BY <1>1, <1>5, <2>1, <2>2
    <2>4. z \in Nat \ {0}
      BY <1>1
    <2>5. PICK m \in Nat : m = t.row + 1
      BY <2>3
    <2>6. m % z = m
      BY <2>3, <2>4, <2>5, NoRemainder
    <2> QED  BY <2>5, <2>6
  <1> DEFINE u == [t EXCEPT !.col = 0, !.row = (t.row + 1) % SIZE_T]
  <1>7. u = [row |-> t.row + 1, col |-> 0, buff |-> t.buff]
    <2>1. t = [row |-> t.row, col |-> t.col, buff |-> t.buff] /\ (t.row + 1) % SIZE_T = t.row + 1
      BY <1>1, <1>6 DEF Shows
    <2>2. u = [t EXCEPT !.col = 0, !.row = t.row + 1]
      BY <2>1
    <2> HIDE DEF u
    <2> QED  BY <2>1, <2>2
  <1>8. NewRow(t) = IF u.row = h THEN terminal_scroll(u) ELSE u
    BY <1>1 DEF NewRow
  <1> HIDE DEF u
  <1>9. CASE t.row + 1 = h
    <2>1. PICK v : v = NewRow(t)
      OBVIOUS
    <2>2. v = [row  |-> h - 1, col |-> 0,
               buff |-> [i \in Cells |-> IF i + w \in Cells THEN t.buff[i + w] ELSE Blank]]
      BY <1>1, <1>7, <1>8, <1>9, <2>1 DEF terminal_scroll
    <2>3. Top(s) = Top(r) + 1 /\ n = Top(r) + h /\ n + 1 = Top(s) + h
      BY <1>1, <1>2, <1>3, <1>5, <1>9, TopIs DEF Top
    <2>4. ASSUME NEW y \in 0 .. TERMINAL_HEIGHT - 1, NEW x \in 0 .. TERMINAL_WIDTH - 1
          PROVE  v.buff[Place(y, x)] = Shown(s, y, x)
      <3>1. Place(y, x) \in Cells
        BY PlaceIs
      <3>2. CASE y < h - 1
        <4>1. v.buff[Place(y, x)] = t.buff[Place(y + 1, x)]
          BY <1>1, <2>2, <3>1, <3>2, PlaceBelow
        <4>2. y + 1 \in 0 .. TERMINAL_HEIGHT - 1
          BY <1>1, <3>2
        <4>3. t.buff[Place(y + 1, x)] = Shown(r, y + 1, x)
          BY <4>2 DEF Shows
        <4>4. /\ Top(r) \in Nat /\ Top(s) + y = Top(r) + (y + 1) /\ Top(s) + y < n
              /\ Top(s) + y + 1 \in 1 .. n /\ Top(s) + y + 1 = Top(r) + (y + 1) + 1
          <5>1. y \in Nat /\ Top(r) \in Nat
            BY <1>1, TopIs
          <5> QED  BY <1>1, <2>3, <3>2, <5>1
        <4>5. Shown(s, y, x) = Shown(r, y + 1, x)
          <5>1. PICK j \in 1 .. n : j = Top(s) + y + 1 /\ j = Top(r) + (y + 1) + 1
            BY Zenon, <4>4
          <5>2. s[j] = r[j]
            BY <1>3
          <5>3. Top(s) + y < Len(s) /\ Top(r) + (y + 1) < Len(r)
            <6>1. Top(s) + y = j - 1 /\ Top(r) + (y + 1) = j - 1
              BY <1>1, <4>4, <5>1
            <6> QED  BY <1>2, <1>3, <6>1
          <5>4. Shown(s, y, x) = At(s[j], x)
            BY <5>1, <5>3, ShownIs
          <5>5. Shown(r, y + 1, x) = At(r[j], x)
            BY <5>1, <5>3, ShownIs
          <5> QED  BY Zenon, <5>2, <5>4, <5>5
        <4> QED  BY <4>1, <4>3, <4>5
      <3>3. CASE y = h - 1
        <4>1. v.buff[Place(y, x)] = Blank
          BY <1>1, <2>2, <3>1, <3>3, PlaceBelow
        <4>2. Top(s) + y = n /\ Top(s) + y + 1 = n + 1
          <5>1. y \in Nat /\ Top(r) \in Nat
            BY <1>1, TopIs
          <5> QED  BY <1>1, <2>3, <3>3, <5>1
        <4>3. ~(x < Len(s[Top(s) + y + 1]))
          BY <1>1, <1>3, <1>4, <4>2
        <4> QED  BY <4>1, <4>3 DEF Shown
      <3> QED  BY <1>1, <3>2, <3>3
    <2>5. v.row = Len(s) - Top(s) - 1
      <3>1. v.row = h - 1
        BY <2>2
      <3>2. PICK a \in Nat : a = Top(r)
        BY <1>3, TopIs
      <3>3. Len(s) = a + h + 1 /\ Top(s) = a + 1
        BY <1>1, <1>3, <2>3, <3>2
      <3> QED  BY <1>1, <3>1, <3>2, <3>3
    <2>6. v = [row |-> v.row, col |-> v.col, buff |-> v.buff] /\ v.col = 0
      BY <2>2
    <2>7. Shows(v, s)
      BY <2>4, <2>5, <2>6 DEF Shows
    <2> QED  BY <1>3, <2>1, <2>6, <2>7
  <1>10. CASE t.row + 1 # h
    <2>1. PICK v : v = NewRow(t) /\ v = [row |-> t.row + 1, col |-> 0, buff |-> t.buff]
      BY <1>7, <1>8, <1>10
    <2>2. Top(s) = 0 /\ Top(r) = 0 /\ n < h
      BY <1>1, <1>2, <1>3, <1>5, <1>10, TopIs DEF Top
    <2>3. ASSUME NEW y \in 0 .. TERMINAL_HEIGHT - 1, NEW x \in 0 .. TERMINAL_WIDTH - 1
          PROVE  v.buff[Place(y, x)] = Shown(s, y, x)
      <3>1. v.buff[Place(y, x)] = Shown(r, y, x)
        BY <2>1 DEF Shows
      <3>2. CASE y < n
        <4>1. y + 1 \in 1 .. n /\ 0 + y = y
          BY <1>1, <3>2
        <4>2. s[y + 1] = r[y + 1]
          BY <1>3, <4>1
        <4>3. Shown(s, y, x) = Shown(r, y, x)
          BY <1>2, <1>3, <2>2, <3>2, <4>1, <4>2 DEF Shown
        <4> QED  BY <3>1, <4>3
      <3>3. CASE y = n
        <4>1. 0 + y = y
          BY <1>1
        <4>2. Shown(r, y, x) = Blank
          BY <1>2, <2>2, <3>3, <4>1 DEF Shown
        <4>3. ~(x < Len(s[Top(s) + y + 1]))
          BY <1>1, <1>3, <1>4, <2>2, <3>3, <4>1
        <4> QED  BY <3>1, <4>2, <4>3 DEF Shown
      <3>4. CASE y > n
        <4>1. 0 + y = y /\ ~(y < n + 1) /\ ~(y < n)
          BY <1>1, <3>4
        <4> QED  BY <1>2, <1>3, <2>2, <3>1, <4>1 DEF Shown
      <3> QED  BY <1>1, <3>2, <3>3, <3>4
    <2>4. v.row = Len(s) - Top(s) - 1
      BY <1>1, <1>3, <1>5, <2>1, <2>2
    <2>5. v = [row |-> v.row, col |-> v.col, buff |-> v.buff] /\ v.col = 0
      BY <2>1
    <2>6. Shows(v, s)
      BY <2>3, <2>4, <2>5 DEF Shows
    <2> QED  BY <1>3, <2>1, <2>5, <2>6
  <1> QED  BY <1>9, <1>10

LEMMA AtLonger ==
  ASSUME NEW l \in Texts, NEW c \in Chars, NEW x \in Nat
  PROVE  /\ x = Len(l) => At(Append(l, c), x) = c /\ At(l, x) = Blank
         /\ x # Len(l) => At(Append(l, c), x) = At(l, x)
  <1>1. PICK n \in Nat : n = Len(l)
    BY DEF Texts
  <1>2. PICK m : /\ m = Append(l, c) /\ Len(m) = n + 1 /\ m[n + 1] = c
                 /\ \A i \in 1 .. n : m[i] = l[i]
    <2>1. l \in Seq(Chars)
      BY DEF Texts
    <2>2. /\ Len(Append(l, c)) = Len(l) + 1
          /\ Append(l, c)[Len(l) + 1] = c /\ \A i \in 1 .. Len(l) : Append(l, c)[i] = l[i]
      BY <2>1, OneMore
    <2> QED  BY Zenon, <1>1, <2>2
  <1>3. CASE x = n
    <2>1. x < Len(m) /\ ~(x < Len(l)) /\ m[x + 1] = c
      BY <1>1, <1>2, <1>3
    <2> QED  BY <1>1, <1>2, <1>3, <2>1 DEF At
  <1>4. CASE x < n
    <2>1. x < Len(m) /\ x < Len(l) /\ x # n /\ x + 1 \in 1 .. n
      BY <1>1, <1>2, <1>4
    <2>2. m[x + 1] = l[x + 1]
      BY <1>2, <2>1
    <2> QED  BY <1>1, <1>2, <2>1, <2>2 DEF At
  <1>5. CASE x > n
    <2>1. ~(x < Len(m)) /\ ~(x < Len(l)) /\ x # n
      BY <1>1, <1>2, <1>5
    <2> QED  BY <1>1, <1>2, <2>1 DEF At
  <1> QED  BY <1>1, <1>3, <1>4, <1>5

LEMMA RowBefore ==
  ASSUME NEW n \in Nat, NEW k \in Nat, NEW y \in Nat
  PROVE  /\ y = n - k - 1 => k + y < n /\ k + y + 1 = n
         /\ k + y < n /\ y # n - k - 1 => k + y + 1 \in 1 .. n - 1
  OBVIOUS

\* The cell behind the last character is the only one in which the sheet with
\* one more differs.
LEMMA OnlyOneCell ==
  ASSUME TerminalAssumption, NEW r \in Sheets, Open(r), NEW c \in Chars,
         NEW y \in 0 .. TERMINAL_HEIGHT - 1, NEW x \in 0 .. TERMINAL_WIDTH - 1
  PROVE  LET row == Len(r) - Top(r) - 1
             col == Len(Last(r))
         IN  /\ row \in 0 .. TERMINAL_HEIGHT - 1 /\ col \in 0 .. TERMINAL_WIDTH - 1
             /\ Top(Longer(r, c)) = Top(r)
             /\ y = row /\ x = col => Shown(Longer(r, c), y, x) = c /\ Shown(r, y, x) = Blank
             /\ ~(y = row /\ x = col) => Shown(Longer(r, c), y, x) = Shown(r, y, x)
  <1>1. PICK n \in Nat \ {0} : n = Len(r)
    BY LastRow
  <1>2. PICK l \in Texts, e \in Nat : l = Last(r) /\ l = r[n] /\ e = Len(l)
    BY <1>1, LastRow
  <1>3. PICK m : m = Append(l, c)
    OBVIOUS
  <1>4. PICK s \in Sheets : /\ s = Longer(r, c) /\ Len(s) = n /\ s[n] = m
                            /\ \A i \in 1 .. n - 1 : s[i] = r[i]
    <2>1. /\ Longer(r, c) \in Sheets /\ Len(Longer(r, c)) = Len(r)
          /\ Longer(r, c)[Len(r)] = Append(Last(r), c)
          /\ \A i \in 1 .. Len(r) - 1 : Longer(r, c)[i] = r[i]
      BY CharacterAdded
    <2> QED  BY Zenon, <1>1, <1>2, <1>3, <2>1
  <1>5. PICK k \in Nat : /\ k = Top(r) /\ k = Top(s) /\ n - k - 1 \in 0 .. TERMINAL_HEIGHT - 1
    BY <1>1, <1>4, TopIs DEF Top
  <1>6. TERMINAL_WIDTH \in Nat /\ TERMINAL_HEIGHT \in Nat /\ e < TERMINAL_WIDTH
    BY <1>2 DEF TerminalAssumption, Open
  <1>7. x \in Nat /\ y \in Nat /\ e \in 0 .. TERMINAL_WIDTH - 1
    BY <1>6
  <1> n \in Nat /\ k \in Nat /\ y \in Nat
    BY <1>1, <1>5, <1>7
  <1>8. /\ y = n - k - 1 /\ x = e => Shown(s, y, x) = c /\ Shown(r, y, x) = Blank
        /\ ~(y = n - k - 1 /\ x = e) => Shown(s, y, x) = Shown(r, y, x)
    <2>1. CASE y = n - k - 1
      <3>1. k + y < n /\ k + y + 1 = n
        BY <2>1, RowBefore
      <3>2. Shown(s, y, x) = At(s[n], x)
        <4>1. Top(s) + y + 1 = n /\ Top(s) + y < Len(s)
          BY Zenon, <1>4, <1>5, <3>1
        <4> QED  BY <4>1, ShownIs
      <3>3. Shown(r, y, x) = At(r[n], x)
        <4>1. Top(r) + y + 1 = n /\ Top(r) + y < Len(r)
          BY Zenon, <1>1, <1>5, <3>1
        <4> QED  BY <4>1, ShownIs
      <3>4. s[n] = m /\ r[n] = l
        BY <1>2, <1>4
      <3>5. /\ x = e => At(m, x) = c /\ At(l, x) = Blank
            /\ x # e => At(m, x) = At(l, x)
        BY <1>2, <1>3, <1>7, AtLonger
      <3> QED  BY <2>1, <3>2, <3>3, <3>4, <3>5
    <2>2. CASE y # n - k - 1
      <3>1. Shown(s, y, x) = Shown(r, y, x)
        <4>1. PICK j : j = k + y + 1
          OBVIOUS
        <4>2. CASE k + y < n
          <5>1. j \in 1 .. n - 1
            BY <2>2, <4>1, <4>2, RowBefore
          <5>2. s[j] = r[j]
            BY <1>4, <5>1
          <5>3. /\ Top(s) + y + 1 = j /\ Top(s) + y < Len(s)
                /\ Top(r) + y + 1 = j /\ Top(r) + y < Len(r)
            BY Zenon, <1>1, <1>4, <1>5, <4>1, <4>2
          <5>4. Shown(s, y, x) = At(s[j], x)
            BY <5>3, ShownIs
          <5>5. Shown(r, y, x) = At(r[j], x)
            BY <5>3, ShownIs
          <5> QED  BY Zenon, <5>2, <5>4, <5>5
        <4>3. CASE ~(k + y < n)
          <5>1. ~(Top(s) + y < Len(s)) /\ ~(Top(r) + y < Len(r))
            BY Zenon, <1>1, <1>4, <1>5, <4>3
          <5> QED  BY <5>1, ShownIs
        <4> QED  BY <4>2, <4>3
      <3> QED  BY <2>2, <3>1
    <2> QED  BY <2>1, <2>2
  <1> QED  BY Zenon, <1>1, <1>2, <1>4, <1>5, <1>7, <1>8

LEMMA DrawShows ==
  ASSUME TerminalAssumption, NEW r \in Sheets, Open(r), NEW c \in Chars, NEW t, Shows(t, r),
         t.col = Len(Last(r))
  PROVE  Shows([t EXCEPT !.buff = Draw(@, t.row, t.col, c), !.col = @ + 1], Longer(r, c))
  <1> DEFINE s == Longer(r, c)
             b == Draw(t.buff, t.row, t.col, c)
  <1>1. PICK u : u = [t EXCEPT !.buff = Draw(@, t.row, t.col, c), !.col = @ + 1]
    OBVIOUS
  <1>2. t = [row |-> t.row, col |-> t.col, buff |-> t.buff] /\ t.row = Len(r) - Top(r) - 1
    BY DEF Shows
  <1>3. u = [row |-> t.row, col |-> t.col + 1, buff |-> b]
    <2> HIDE DEF b
    <2>1. u = [t EXCEPT !.buff = b, !.col = t.col + 1]
      BY <1>1 DEF b
    <2> QED  BY <1>2, <2>1
  <1>4. Len(s) = Len(r)
    BY CharacterAdded
  <1> HIDE DEF s
  <1>5. ASSUME NEW y \in 0 .. TERMINAL_HEIGHT - 1, NEW x \in 0 .. TERMINAL_WIDTH - 1
        PROVE  u.buff[Place(y, x)] = Shown(s, y, x)
    <2>1. /\ t.row \in 0 .. TERMINAL_HEIGHT - 1 /\ t.col \in 0 .. TERMINAL_WIDTH - 1
          /\ y = t.row /\ x = t.col => Shown(s, y, x) = c
          /\ ~(y = t.row /\ x = t.col) => Shown(s, y, x) = Shown(r, y, x)
      BY <1>2, OnlyOneCell DEF s
    <2>2. u.buff[Place(y, x)] = IF Place(y, x) = Place(t.row, t.col) THEN c ELSE t.buff[Place(y, x)]
      BY <1>3, PlaceIs DEF Draw
    <2>3. t.buff[Place(y, x)] = Shown(r, y, x)
      BY DEF Shows
    <2>4. CASE y = t.row /\ x = t.col
      BY <2>1, <2>2, <2>4
    <2>5. CASE ~(y = t.row /\ x = t.col)
      <3>1. Place(y, x) # Place(t.row, t.col)
        BY <2>1, <2>5, PlacesApart
      <3> QED  BY <2>1, <2>2, <2>3, <2>5, <3>1
    <2> QED  BY <2>4, <2>5
  <1>6. Top(s) = Top(r)
    BY <1>4 DEF Top
  <1>7. Shows(u, s)
    BY <1>2, <1>3, <1>4, <1>5, <1>6 DEF Shows
  <1> QED  BY <1>1, <1>7 DEF s

LEMMA EraseShows ==
  ASSUME TerminalAssumption, NEW r \in Sheets, Open(r), NEW c \in Chars, NEW t, Shows(t, Longer(r, c)),
         t.col = Len(Last(r)) + 1
  PROVE  Shows([row |-> t.row, col |-> t.col - 1, buff |-> Draw(t.buff, t.row, t.col - 1, Blank)], r)
  <1> DEFINE s == Longer(r, c)
             b == Draw(t.buff, t.row, t.col - 1, Blank)
  <1>1. PICK u : u = [row |-> t.row, col |-> t.col - 1, buff |-> b]
    OBVIOUS
  <1>2. Len(s) = Len(r)
    BY CharacterAdded
  <1>3. Top(s) = Top(r)
    BY <1>2 DEF Top
  <1>4. t.row = Len(r) - Top(r) - 1
    BY <1>2, <1>3 DEF Shows
  <1>5. t.col - 1 = Len(Last(r))
    <2>1. PICK e \in Nat : e = Len(Last(r))
      BY LastRow
    <2>2. t.col = e + 1
      BY <2>1
    <2> QED  BY <2>1, <2>2
  <1> HIDE DEF s
  <1>6. ASSUME NEW y \in 0 .. TERMINAL_HEIGHT - 1, NEW x \in 0 .. TERMINAL_WIDTH - 1
        PROVE  u.buff[Place(y, x)] = Shown(r, y, x)
    <2>1. /\ t.row \in 0 .. TERMINAL_HEIGHT - 1 /\ t.col - 1 \in 0 .. TERMINAL_WIDTH - 1
          /\ y = t.row /\ x = t.col - 1 => Shown(r, y, x) = Blank
          /\ ~(y = t.row /\ x = t.col - 1) => Shown(s, y, x) = Shown(r, y, x)
      <3>1. PICK row, col : row = t.row /\ col = t.col - 1
        OBVIOUS
      <3>2. row = Len(r) - Top(r) - 1 /\ col = Len(Last(r))
        BY <1>4, <1>5, <3>1
      <3>3. /\ row \in 0 .. TERMINAL_HEIGHT - 1 /\ col \in 0 .. TERMINAL_WIDTH - 1
            /\ y = row /\ x = col => Shown(r, y, x) = Blank
            /\ ~(y = row /\ x = col) => Shown(s, y, x) = Shown(r, y, x)
        BY <3>2, OnlyOneCell DEF s
      <3> QED  BY Zenon, <3>1, <3>3
    <2>2. u.buff[Place(y, x)] =
            IF Place(y, x) = Place(t.row, t.col - 1) THEN Blank ELSE t.buff[Place(y, x)]
      BY <1>1, PlaceIs DEF Draw
    <2>3. t.buff[Place(y, x)] = Shown(s, y, x)
      BY DEF Shows, s
    <2>4. CASE y = t.row /\ x = t.col - 1
      BY <2>1, <2>2, <2>4
    <2>5. CASE ~(y = t.row /\ x = t.col - 1)
      <3>1. Place(y, x) # Place(t.row, t.col - 1)
        BY <2>1, <2>5, PlacesApart
      <3> QED  BY <2>1, <2>2, <2>3, <2>5, <3>1
    <2> QED  BY <2>4, <2>5
  <1>7. Shows(u, r)
    <2> HIDE DEF b
    <2>1. u = [row |-> u.row, col |-> u.col, buff |-> u.buff] /\ u.row = t.row
      BY <1>1
    <2> QED  BY <1>4, <1>6, <2>1 DEF Shows
  <1> QED  BY <1>1, <1>7

OnScreen(t, r) == r \in Sheets /\ Shows(t, r) /\ Open(r) /\ t.col = Len(Last(r))

\* A character on the screen is a character more on the sheet.
LEMMA PutShows ==
  ASSUME TerminalAssumption, NEW t, NEW r, OnScreen(t, r), NEW c \in Chars
  PROVE  OnScreen(putchar(t, c), Lay(r, c))
  <1>1. PICK w \in Nat \ {0, 1} : w = TERMINAL_WIDTH
    BY DEF TerminalAssumption
  <1>2. r \in Sheets /\ Shows(t, r) /\ Open(r) /\ t.col = Len(Last(r))
    BY DEF OnScreen
  <1>3. ASSUME NEW v, NEW s \in Sheets, Shows(v, s)  PROVE OnScreen(NewRow(v), Append(s, <<>>))
    <2>1. Append(s, <<>>) \in Sheets /\ Last(Append(s, <<>>)) = <<>>
      BY RowAdded
    <2>2. PICK m : m = Append(s, <<>>)
      OBVIOUS
    <2>3. PICK e : e = <<>> /\ Len(e) = 0
      OBVIOUS
    <2>4. Shows(NewRow(v), m) /\ NewRow(v).col = 0
      BY <1>3, <2>2, NewRowShows
    <2>5. m \in Sheets /\ Last(m) = e
      BY Zenon, <2>1, <2>2, <2>3
    <2>6. Len(Last(m)) = 0 /\ 0 < w
      BY <1>1, <2>3, <2>5
    <2>7. OnScreen(NewRow(v), m)
      BY <1>1, <2>4, <2>5, <2>6 DEF OnScreen, Open
    <2> QED  BY Zenon, <2>2, <2>7
  <1>4. CASE c = NEWLINE
    <2>1. putchar(t, c) = NewRow(t) /\ Lay(r, c) = Append(r, <<>>)
      BY <1>4 DEF putchar, Lay
    <2> QED  BY Zenon, <1>2, <1>3, <2>1
  <1>5. CASE c # NEWLINE
    <2>1. PICK u : u = [t EXCEPT !.buff = Draw(@, t.row, t.col, c), !.col = @ + 1]
      OBVIOUS
    <2>2. PICK s : s = Longer(r, c) /\ s \in Sheets /\ Len(Last(s)) = Len(Last(r)) + 1
                   /\ Last(s) = Append(Last(r), c)
      <3>1. /\ Longer(r, c) \in Sheets /\ Last(Longer(r, c)) = Append(Last(r), c)
            /\ Len(Append(Last(r), c)) = Len(Last(r)) + 1
        BY <1>2, CharacterAdded
      <3> QED  BY Zenon, <3>1
    <2>3. Shows(u, s)
      BY <1>2, <2>1, <2>2, DrawShows
    <2>4. u.col = Len(Last(s))
      <3>1. t = [row |-> t.row, col |-> t.col, buff |-> t.buff]
        BY <1>2 DEF Shows
      <3>2. u.col = t.col + 1
        BY <2>1, <3>1
      <3> QED  BY <1>2, <2>2, <3>2
    <2>5. putchar(t, c) = IF u.col = w THEN NewRow(u) ELSE u
      BY <1>1, <1>5, <2>1 DEF putchar
    <2>6. Lay(r, c) = IF Len(Last(s)) = w THEN Append(s, <<>>) ELSE s
      BY <1>1, <1>5, <2>2 DEF Lay, Longer
    <2>7. CASE u.col = w
      <3>1. putchar(t, c) = NewRow(u) /\ Lay(r, c) = Append(s, <<>>)
        BY <2>4, <2>5, <2>6, <2>7
      <3> QED  BY Zenon, <1>3, <2>2, <2>3, <3>1
    <2>8. CASE u.col # w
      <3>1. putchar(t, c) = u /\ Lay(r, c) = s
        BY <2>4, <2>5, <2>6, <2>8
      <3>2. Len(Last(s)) < w
        <4>1. PICK e \in Nat : e = Len(Last(r))
          BY <1>2, LastRow
        <4> QED  BY <1>1, <1>2, <2>2, <2>4, <2>8, <4>1 DEF Open
      <3> QED  BY <1>1, <2>2, <2>3, <2>4, <3>1, <3>2 DEF OnScreen, Open
    <2> QED  BY <2>7, <2>8
  <1> QED  BY <1>4, <1>5

Terminals == [row : Int, col : Int, buff : [Cells -> Chars]]

LEMMA PutKeeps ==
  ASSUME TerminalAssumption, NEW t \in Terminals, NEW c \in Chars
  PROVE  putchar(t, c) \in Terminals
  <1>1. TERMINAL_WIDTH \in Int /\ TERMINAL_HEIGHT \in Int /\ SIZE_T \in Nat \ {0} /\ Blank \in Chars
    <2>1. TERMINAL_WIDTH \in Int /\ TERMINAL_HEIGHT \in Int /\ SIZE_T \in Nat \ {0}
      BY DEF TerminalAssumption
    <2>2. Blank \in Chars
      BY DEF Chars
    <2> QED  BY <2>1, <2>2
  <1>2. ASSUME NEW v \in Terminals  PROVE NewRow(v) \in Terminals
    <2>1. PICK i \in Int : i = (v.row + 1) % SIZE_T
      BY <1>1 DEF Terminals
    <2>2. PICK u : u = [v EXCEPT !.col = 0, !.row = i] /\ u \in Terminals
      <3>1. /\ v = [row |-> v.row, col |-> v.col, buff |-> v.buff]
            /\ v.buff \in [Cells -> Chars]
        BY DEF Terminals
      <3>2. PICK u : u = [v EXCEPT !.col = 0, !.row = i]
        OBVIOUS
      <3>3. u = [row |-> i, col |-> 0, buff |-> v.buff]
        BY <3>1, <3>2
      <3>4. u \in Terminals
        BY <3>1, <3>3 DEF Terminals
      <3> QED  BY Zenon, <3>2, <3>4
    <2>3. terminal_scroll(u) \in Terminals
      <3>1. ASSUME NEW k \in Cells, k + TERMINAL_WIDTH \in Cells  PROVE u.buff[k + TERMINAL_WIDTH] \in Chars
        BY <2>2, <3>1 DEF Terminals
      <3> QED  BY <1>1, <3>1 DEF terminal_scroll, Terminals
    <2> QED  BY <2>1, <2>2, <2>3 DEF NewRow
  <1>3. PICK b \in [Cells -> Chars] : b = Draw(t.buff, t.row, t.col, c)
    <2>1. \A k \in Cells : (IF k = Place(t.row, t.col) THEN c ELSE t.buff[k]) \in Chars
      BY DEF Terminals
    <2> QED  BY <2>1 DEF Draw
  <1>4. PICK u : u = [t EXCEPT !.buff = b, !.col = @ + 1] /\ u \in Terminals
    <2>1. t = [row |-> t.row, col |-> t.col, buff |-> t.buff] /\ t.row \in Int /\ t.col \in Int
      BY DEF Terminals
    <2>2. PICK k \in Int : k = t.col + 1
      BY <2>1
    <2>3. PICK u : u = [t EXCEPT !.buff = b, !.col = @ + 1]
      OBVIOUS
    <2>4. u = [row |-> t.row, col |-> k, buff |-> b]
      BY <2>1, <2>2, <2>3
    <2>5. u \in Terminals
      BY <2>1, <2>4 DEF Terminals
    <2> QED  BY Zenon, <2>3, <2>5
  <1> QED  BY <1>2, <1>3, <1>4 DEF putchar

LEMMA LayKeeps ==
  ASSUME NEW r \in Sheets, NEW c \in Chars
  PROVE  Lay(r, c) \in Sheets
  <1>1. Append(r, <<>>) \in Sheets
    BY RowAdded
  <1>2. Longer(r, c) \in Sheets
    BY CharacterAdded
  <1>3. Append(Longer(r, c), <<>>) \in Sheets
    BY <1>2, RowAdded
  <1>4. \/ Lay(r, c) = Append(r, <<>>) \/ Lay(r, c) = Longer(r, c)
        \/ Lay(r, c) = Append(Longer(r, c), <<>>)
    BY DEF Lay, Longer
  <1> QED  BY Zenon, <1>1, <1>2, <1>3, <1>4

\* The screen after each character, and the rows.
Screens(f, t, w, n) ==
  /\ \A i \in 0 .. n : f[i] \in Terminals
  /\ f[0] = t /\ f[n] = Written(t, w)
  /\ \A i \in 0 .. n - 1 : f[i + 1] = putchar(f[i], w[i + 1])

Pages(f, w, n) ==
  /\ \A i \in 0 .. n : f[i] \in Sheets
  /\ f[0] = << <<>> >> /\ f[n] = Rows(w)
  /\ \A i \in 0 .. n - 1 : f[i + 1] = Lay(f[i], w[i + 1])

Word(w, n) == w \in Texts /\ Len(w) = n

LEMMA ScreensInOrder ==
  ASSUME TerminalAssumption, NEW t \in Terminals, NEW w, NEW n \in Nat, Word(w, n)
  PROVE  \E f : Screens(f, t, w, n)
  <1> DEFINE S == Terminals
             Step(x, k) == IF k <= n THEN putchar(x, w[k]) ELSE x
             G == [k \in Nat |-> [x \in S |-> Step(x, k + 1)]]
             Body(f) == [i \in 0 .. n |-> IF i = 0 THEN t ELSE putchar(f[i - 1], w[i])]
             N == CHOOSE f : f = Body(f)
  <1>0. Len(w) = n /\ \A i \in 1 .. n : w[i] \in Chars
    BY DEF Word, Texts
  <1>1. ASSUME NEW x \in S, NEW k \in Nat  PROVE Step(x, k + 1) \in S
    <2>1. CASE k + 1 <= n
      <3>1. w[k + 1] \in Chars
        BY <1>0, <2>1
      <3> QED  BY <2>1, <3>1, PutKeeps
    <2> QED  BY <2>1
  <1> HIDE DEF S
  <1>3. CountedMaps(G, S)
    <2> HIDE DEF Step
    <2> QED  BY <1>1 DEF CountedMaps, Maps
  <1> HIDE DEF Step
  <1>4. PICK h : h \in [Nat -> S] /\ h[0] = t /\ \A k \in Nat : h[k + 1] = G[k][h[k]]
    <2> HIDE DEF G
    <2>1. PICK h : CountedSolves(h, S, t, G)
      BY <1>3, CountedRecursion DEF S
    <2> QED  BY <2>1 DEF CountedSolves
  <1>5. \A k \in Nat : h[k + 1] = Step(h[k], k + 1)
    BY <1>4
  <1>6. \A k \in 0 .. n - 1 : h[k + 1] = putchar(h[k], w[k + 1])
    BY <1>5 DEF Step
  <1> DEFINE g == [i \in 0 .. n |-> h[i]]
  <1>7. g = Body(g)
    <2>1. ASSUME NEW i \in 0 .. n
          PROVE  h[i] = IF i = 0 THEN t ELSE putchar(g[i - 1], w[i])
      <3>1. CASE i = 0
        BY <1>4, <3>1
      <3>2. CASE i # 0
        <4>1. i - 1 \in 0 .. n - 1 /\ (i - 1) + 1 = i /\ g[i - 1] = h[i - 1]
          BY <3>2
        <4> HIDE DEF g
        <4> QED  BY <1>6, <3>2, <4>1
      <3> QED  BY <3>1, <3>2
    <2> QED  BY <2>1
  <1> HIDE DEF g
  <1>8. N = Body(N)
    BY <1>7
  <1>9. Written(t, w) = N[n]
    BY <1>0 DEF Written
  <1> HIDE DEF N
  <1>10. N[0] = t /\ \A k \in 0 .. n - 1 : N[k + 1] = putchar(N[k], w[k + 1])
    <2>1. \A i \in 0 .. n : N[i] = IF i = 0 THEN t ELSE putchar(N[i - 1], w[i])
      BY <1>8
    <2>2. \A k \in 0 .. n - 1 : k + 1 \in 0 .. n /\ k + 1 # 0 /\ (k + 1) - 1 = k
      OBVIOUS
    <2> QED  BY <2>1, <2>2
  <1>11. \A i \in Nat : i <= n => N[i] = h[i]
    <2> DEFINE A == {i \in Nat : i <= n => N[i] = h[i]}
    <2>1. 0 \in A
      BY <1>4, <1>10
    <2>2. ASSUME NEW k \in Nat, k \in A  PROVE k + 1 \in A
      BY <1>6, <1>10, <2>2
    <2> HIDE DEF A
    <2>3. \A k \in Nat : k \in A
      BY <2>1, <2>2, Induct
    <2> QED  BY <2>3 DEF A
  <1>12. \A i \in 0 .. n : N[i] \in S
    BY <1>4, <1>11
  <1>13. Screens(N, t, w, n)
    BY <1>9, <1>10, <1>12 DEF Screens, S
  <1> QED  BY <1>13

LEMMA PagesInOrder ==
  ASSUME NEW w, NEW n \in Nat, Word(w, n)
  PROVE  \E f : Pages(f, w, n)
  <1> DEFINE S == Sheets
             e == << <<>> >>
             Step(x, k) == IF k <= n THEN Lay(x, w[k]) ELSE x
             G == [k \in Nat |-> [x \in S |-> Step(x, k + 1)]]
             Body(f) == [i \in 0 .. n |-> IF i = 0 THEN e ELSE Lay(f[i - 1], w[i])]
             N == CHOOSE f : f = Body(f)
  <1>0. Len(w) = n /\ \A i \in 1 .. n : w[i] \in Chars
    BY DEF Word, Texts
  <1>1. ASSUME NEW x \in S, NEW k \in Nat  PROVE Step(x, k + 1) \in S
    <2>1. CASE k + 1 <= n
      <3>1. w[k + 1] \in Chars
        BY <1>0, <2>1
      <3> QED  BY <2>1, <3>1, LayKeeps
    <2> QED  BY <2>1
  <1>2. e \in S
    <2>1. PICK m \in Texts : m = <<>>
      BY EmptySeq DEF Texts
    <2>2. <<m>> \in Seq(Texts) /\ Len(<<m>>) = 1
      OBVIOUS
    <2> QED  BY <2>1, <2>2 DEF Sheets
  <1> HIDE DEF S
  <1>3. CountedMaps(G, S)
    <2> HIDE DEF Step
    <2> QED  BY <1>1 DEF CountedMaps, Maps
  <1> HIDE DEF Step
  <1>4. PICK h : h \in [Nat -> S] /\ h[0] = e /\ \A k \in Nat : h[k + 1] = G[k][h[k]]
    <2> HIDE DEF G
    <2>1. PICK h : CountedSolves(h, S, e, G)
      BY <1>2, <1>3, CountedRecursion
    <2> QED  BY <2>1 DEF CountedSolves
  <1>5. \A k \in Nat : h[k + 1] = Step(h[k], k + 1)
    BY <1>4
  <1>6. \A k \in 0 .. n - 1 : h[k + 1] = Lay(h[k], w[k + 1])
    BY <1>5 DEF Step
  <1> DEFINE g == [i \in 0 .. n |-> h[i]]
  <1>7. g = Body(g)
    <2>1. ASSUME NEW i \in 0 .. n
          PROVE  h[i] = IF i = 0 THEN e ELSE Lay(g[i - 1], w[i])
      <3>1. CASE i = 0
        BY <1>4, <3>1
      <3>2. CASE i # 0
        <4>1. i - 1 \in 0 .. n - 1 /\ (i - 1) + 1 = i /\ g[i - 1] = h[i - 1]
          BY <3>2
        <4> HIDE DEF g
        <4> QED  BY <1>6, <3>2, <4>1
      <3> QED  BY <3>1, <3>2
    <2> QED  BY <2>1
  <1> HIDE DEF g
  <1>8. N = Body(N)
    BY <1>7
  <1>9. Rows(w) = N[n]
    BY <1>0 DEF Rows, e
  <1> HIDE DEF N, e
  <1>10. N[0] = e /\ \A k \in 0 .. n - 1 : N[k + 1] = Lay(N[k], w[k + 1])
    <2>1. \A i \in 0 .. n : N[i] = IF i = 0 THEN e ELSE Lay(N[i - 1], w[i])
      BY <1>8
    <2>2. \A k \in 0 .. n - 1 : k + 1 \in 0 .. n /\ k + 1 # 0 /\ (k + 1) - 1 = k
      OBVIOUS
    <2> QED  BY <2>1, <2>2
  <1>11. \A i \in Nat : i <= n => N[i] = h[i]
    <2> DEFINE A == {i \in Nat : i <= n => N[i] = h[i]}
    <2>1. 0 \in A
      BY <1>4, <1>10
    <2>2. ASSUME NEW k \in Nat, k \in A  PROVE k + 1 \in A
      BY <1>6, <1>10, <2>2
    <2> HIDE DEF A
    <2>3. \A k \in Nat : k \in A
      BY <2>1, <2>2, Induct
    <2> QED  BY <2>3 DEF A
  <1>12. \A i \in 0 .. n : N[i] \in S
    BY <1>4, <1>11
  <1>13. Pages(N, w, n)
    BY <1>9, <1>10, <1>12 DEF Pages, S, e
  <1> QED  BY <1>13

LEMMA LayOpens ==
  ASSUME TerminalAssumption, NEW r, Open(r), NEW c \in Chars
  PROVE  Open(Lay(r, c))
  <1>1. PICK w \in Nat \ {0, 1} : w = TERMINAL_WIDTH
    BY DEF TerminalAssumption
  <1>2. r \in Sheets /\ Len(Last(r)) < w
    BY <1>1 DEF Open
  <1>3. ASSUME NEW s \in Sheets  PROVE Open(Append(s, <<>>))
    <2>1. Append(s, <<>>) \in Sheets /\ Last(Append(s, <<>>)) = <<>>
      BY RowAdded
    <2>2. PICK e : e = <<>> /\ Len(e) = 0
      OBVIOUS
    <2>3. PICK m : m = Append(s, <<>>) /\ m \in Sheets /\ Last(m) = e
      BY Zenon, <2>1, <2>2
    <2>4. Open(m)
      BY <1>1, <2>2, <2>3 DEF Open
    <2> QED  BY Zenon, <2>3, <2>4
  <1>4. PICK s \in Sheets : /\ s = Longer(r, c) /\ Len(Last(s)) = Len(Last(r)) + 1
                            /\ Last(s) = Append(Last(r), c)
    <2>1. /\ Longer(r, c) \in Sheets /\ Last(Longer(r, c)) = Append(Last(r), c)
          /\ Len(Append(Last(r), c)) = Len(Last(r)) + 1
      BY <1>2, CharacterAdded
    <2> QED  BY Zenon, <2>1
  <1>5. \/ Lay(r, c) = Append(r, <<>>) \/ Lay(r, c) = Append(s, <<>>)
        \/ Lay(r, c) = s /\ Len(Last(s)) # w
    BY <1>1, <1>4 DEF Lay, Longer
  <1>6. CASE Lay(r, c) = s /\ Len(Last(s)) # w
    <2>1. PICK e \in Nat : e = Len(Last(r))
      BY <1>2, LastRow
    <2>2. Len(Last(s)) < w
      BY <1>1, <1>2, <1>4, <1>6, <2>1
    <2> QED  BY <1>1, <1>6, <2>2 DEF Open
  <1>7. CASE Lay(r, c) = Append(r, <<>>)
    BY Zenon, <1>2, <1>3, <1>7
  <1>8. CASE Lay(r, c) = Append(s, <<>>)
    BY Zenon, <1>3, <1>8
  <1> QED  BY <1>5, <1>6, <1>7, <1>8

\* Text y goes on where text x ends.
LEMMA PagesAgree ==
  ASSUME NEW x, NEW k \in Nat, Word(x, k), NEW y, NEW m \in Nat, Word(y, m), k <= m,
         \A i \in 1 .. k : y[i] = x[i], NEW f, Pages(f, x, k), NEW g, Pages(g, y, m)
  PROVE  g[k] = Rows(x)
  <1>1. /\ f[0] = g[0] /\ f[k] = Rows(x)
        /\ \A i \in 0 .. k - 1 : f[i + 1] = Lay(f[i], x[i + 1])
        /\ \A i \in 0 .. m - 1 : g[i + 1] = Lay(g[i], y[i + 1])
    BY DEF Pages
  <1> DEFINE A == {i \in Nat : i <= k => g[i] = f[i]}
  <1>2. 0 \in A
    BY <1>1
  <1>3. ASSUME NEW i \in Nat, i \in A  PROVE i + 1 \in A
    <2>1. CASE i + 1 <= k
      <3>1. g[i] = f[i] /\ i \in 0 .. k - 1 /\ i \in 0 .. m - 1 /\ i + 1 \in 1 .. k
        BY <1>3, <2>1
      <3> QED  BY <1>1, <3>1
    <2> QED  BY <2>1
  <1> HIDE DEF A
  <1>4. \A i \in Nat : i \in A
    BY <1>2, <1>3, Induct
  <1> QED  BY <1>1, <1>4 DEF A

LEMMA PagesOpen ==
  ASSUME TerminalAssumption, NEW x, NEW k \in Nat, Word(x, k), NEW f, Pages(f, x, k)
  PROVE  \A i \in 0 .. k : Open(f[i])
  <1>1. /\ f[0] = << <<>> >> /\ f[0] \in Sheets
        /\ \A i \in 0 .. k - 1 : f[i + 1] = Lay(f[i], x[i + 1])
    BY DEF Pages
  <1>2. Open(f[0])
    <2>1. PICK e : e = <<>> /\ Len(e) = 0
      OBVIOUS
    <2>2. PICK s \in Sheets : s = f[0] /\ s = <<e>>
      BY <1>1, <2>1
    <2>3. Last(s) = e
      BY <2>2 DEF Last
    <2> QED  BY <2>1, <2>2, <2>3 DEF Open, TerminalAssumption
  <1> DEFINE A == {i \in Nat : i <= k => Open(f[i])}
  <1>3. 0 \in A
    BY <1>2
  <1>4. ASSUME NEW i \in Nat, i \in A  PROVE i + 1 \in A
    <2>1. CASE i + 1 <= k
      <3>1. Open(f[i]) /\ i \in 0 .. k - 1 /\ x[i + 1] \in Chars
        BY <1>4, <2>1 DEF Word, Texts
      <3>2. Open(Lay(f[i], x[i + 1]))
        BY <3>1, LayOpens
      <3> QED  BY <1>1, <3>1, <3>2
    <2> QED  BY <2>1
  <1> HIDE DEF A
  <1>5. \A i \in Nat : i \in A
    BY <1>3, <1>4, Induct
  <1> QED  BY <1>5 DEF A

\* Text y is x and then w.
TextGoesOn(y, x, k, w, n) ==
  /\ Word(x, k) /\ Word(w, n) /\ Word(y, k + n)
  /\ \A i \in 1 .. k : y[i] = x[i]
  /\ \A i \in 1 .. n : y[k + i] = w[i]

LEMMA WriteShows ==
  ASSUME TerminalAssumption, NEW x, NEW k \in Nat, NEW w, NEW n \in Nat, NEW y, TextGoesOn(y, x, k, w, n),
         NEW t \in Terminals, OnScreen(t, Rows(x))
  PROVE  OnScreen(Written(t, w), Rows(y))
  <1>1. PICK m \in Nat : m = k + n
    OBVIOUS
  <1>2. /\ Word(x, k) /\ Word(w, n) /\ Word(y, m)
        /\ \A i \in 1 .. k : y[i] = x[i]
        /\ \A i \in 1 .. n : y[k + i] = w[i]
    BY <1>1 DEF TextGoesOn
  <1>3. PICK f : Pages(f, x, k)
    BY <1>2, PagesInOrder
  <1>4. PICK g : Pages(g, y, m)
    BY <1>2, PagesInOrder
  <1>5. PICK s : Screens(s, t, w, n)
    BY <1>2, ScreensInOrder
  <1>6. k <= m
    BY <1>1
  <1>7. g[k] = Rows(x)
    <2>1. Word(x, k) /\ Word(y, m) /\ \A i \in 1 .. k : y[i] = x[i]
      BY <1>2
    <2> QED  BY <1>3, <1>4, <1>6, <2>1, PagesAgree
  <1>8. /\ s[0] = t /\ s[n] = Written(t, w) /\ g[m] = Rows(y)
        /\ \A i \in 0 .. n - 1 : s[i + 1] = putchar(s[i], w[i + 1])
        /\ \A i \in 0 .. m - 1 : g[i + 1] = Lay(g[i], y[i + 1])
    BY <1>4, <1>5 DEF Pages, Screens
  <1> DEFINE A == {i \in Nat : i <= n => OnScreen(s[i], g[k + i])}
  <1>9. 0 \in A
    <2>1. k + 0 = k
      OBVIOUS
    <2> QED  BY <1>7, <1>8, <2>1
  <1>10. ASSUME NEW i \in Nat, i \in A  PROVE i + 1 \in A
    <2>1. CASE i + 1 <= n
      <3>1. /\ OnScreen(s[i], g[k + i]) /\ i \in 0 .. n - 1 /\ i + 1 \in 1 .. n
            /\ k + i \in 0 .. m - 1 /\ k + (i + 1) = (k + i) + 1
        BY <1>1, <1>10, <2>1
      <3>2. w[i + 1] \in Chars /\ y[k + (i + 1)] = w[i + 1]
        BY <1>2, <3>1 DEF Word, Texts
      <3>3. s[i + 1] = putchar(s[i], w[i + 1]) /\ g[(k + i) + 1] = Lay(g[k + i], w[i + 1])
        BY <1>8, <3>1, <3>2
      <3>4. OnScreen(s[i + 1], g[k + (i + 1)])
        BY <3>1, <3>2, <3>3, PutShows
      <3> QED  BY <3>4
    <2> QED  BY <2>1
  <1> HIDE DEF A
  <1>11. \A i \in Nat : i \in A
    BY <1>9, <1>10, Induct
  <1>12. OnScreen(s[n], g[k + n])
    BY <1>11 DEF A
  <1> QED  BY <1>1, <1>8, <1>12

\* What terminal_delchar leaves, when the character is in its row.
Erased(t) == [row |-> t.row, col |-> t.col - 1, buff |-> Draw(t.buff, t.row, t.col - 1, Blank)]

LEMMA DeleteShows ==
  ASSUME TerminalAssumption, NEW x, NEW k \in Nat, NEW c \in Chars, c # NEWLINE, NEW y,
         Word(x, k), Word(y, k + 1), \A i \in 1 .. k : y[i] = x[i], y[k + 1] = c,
         NEW t, OnScreen(t, Rows(y)), t.col # 0
  PROVE  OnScreen(Erased(t), Rows(x))
  <1>1. PICK w : w = TERMINAL_WIDTH
    OBVIOUS
  <1>2. PICK m \in Nat : m = k + 1
    OBVIOUS
  <1>3. PICK f : Pages(f, x, k)
    BY PagesInOrder
  <1>4. PICK g : Pages(g, y, m)
    BY <1>2, PagesInOrder
  <1>5. k <= m /\ k \in 0 .. m - 1 /\ k \in 0 .. k
    BY <1>2
  <1>6. PICK r : r = Rows(x)
    OBVIOUS
  <1>7. g[k] = r
    BY <1>2, <1>3, <1>4, <1>5, <1>6, PagesAgree
  <1>8. Open(r) /\ r \in Sheets
    <2>1. Open(f[k]) /\ f[k] = r
      BY <1>3, <1>5, <1>6, PagesOpen DEF Pages
    <2> QED  BY <2>1 DEF Open
  <1>9. Rows(y) = Lay(r, c)
    BY <1>2, <1>4, <1>5, <1>7 DEF Pages
  <1>10. PICK s \in Sheets : s = Longer(r, c) /\ Len(Last(s)) = Len(Last(r)) + 1
                             /\ Last(s) = Append(Last(r), c)
    <2>1. /\ Longer(r, c) \in Sheets /\ Last(Longer(r, c)) = Append(Last(r), c)
          /\ Len(Append(Last(r), c)) = Len(Last(r)) + 1
      BY <1>8, CharacterAdded
    <2> QED  BY Zenon, <2>1
  <1>11. Lay(r, c) = IF Len(Last(s)) = w THEN Append(s, <<>>) ELSE s
    BY <1>1, <1>10 DEF Lay, Longer
  <1>12. Lay(r, c) = s
    <2>1. Last(Append(s, <<>>)) = <<>>
      BY RowAdded
    <2>2. PICK e : e = <<>> /\ Len(e) = 0
      OBVIOUS
    <2>3. PICK q : q = Append(s, <<>>) /\ Last(q) = e
      BY Zenon, <2>1, <2>2
    <2>4. Lay(r, c) = IF Len(Last(s)) = w THEN q ELSE s
      BY Zenon, <1>11, <2>3
    <2>5. Lay(r, c) # q
      BY <1>9, <2>2, <2>3 DEF OnScreen
    <2> QED  BY <2>4, <2>5
  <1>13. Shows(t, s) /\ t.col = Len(Last(r)) + 1
    BY <1>9, <1>10, <1>12 DEF OnScreen
  <1>14. Shows(Erased(t), r)
    BY <1>8, <1>10, <1>13, EraseShows DEF Erased
  <1>15. Erased(t).col = Len(Last(r))
    <2>1. PICK e \in Nat : e = Len(Last(r))
      BY <1>8, LastRow
    <2>2. t.col - 1 = e
      BY <1>13, <2>1
    <2> QED  BY <2>1, <2>2 DEF Erased
  <1> QED  BY <1>6, <1>8, <1>14, <1>15 DEF OnScreen

-----------------------------------------------------------------------------
(* The screen: the invariant                                               *)

ScreenInv ==
  /\ tty \in Terminals /\ text \in Texts /\ crossed \in BOOLEAN
  /\ ~crossed => OnScreen(tty, Rows(text))

LEMMA JoinedGoesOn ==
  ASSUME NEW x \in Texts, NEW w \in Texts
  PROVE  /\ Len(x) \in Nat /\ Len(w) \in Nat /\ x \o w \in Texts
         /\ TextGoesOn(x \o w, x, Len(x), w, Len(w))
  <1>1. x \in Seq(Chars) /\ w \in Seq(Chars)
    BY DEF Texts
  <1>2. PICK k, n \in Nat : k = Len(x) /\ n = Len(w)
    BY <1>1, LenProperties
  <1>3. PICK y \in Seq(Chars) : /\ y = x \o w /\ Len(y) = k + n
                                /\ \A i \in 1 .. k + n : y[i] = IF i <= k THEN x[i] ELSE w[i - k]
    <2>1. /\ x \o w \in Seq(Chars) /\ Len(x \o w) = Len(x) + Len(w)
          /\ \A i \in 1 .. Len(x) + Len(w) : (x \o w)[i] = IF i <= Len(x) THEN x[i] ELSE w[i - Len(x)]
      BY <1>1, ConcatProperties, ZenonT(20)
    <2> QED  BY Zenon, <1>2, <2>1
  <1>4. \A i \in 1 .. k : y[i] = x[i]
    BY <1>3
  <1>5. ASSUME NEW i \in 1 .. n  PROVE y[k + i] = w[i]
    <2>1. k + i \in 1 .. k + n /\ ~(k + i <= k) /\ (k + i) - k = i
      OBVIOUS
    <2> QED  BY <1>3, <2>1
  <1>6. TextGoesOn(y, x, k, w, n)
    BY <1>1, <1>2, <1>3, <1>4, <1>5 DEF TextGoesOn, Word, Texts
  <1> QED  BY Zenon, <1>2, <1>3, <1>6 DEF Texts

LEMMA WithoutLast ==
  ASSUME NEW y \in Texts, y # <<>>
  PROVE  \E k \in Nat : /\ Word(Front(y), k) /\ Word(y, k + 1) /\ Last(y) = y[k + 1]
                        /\ Last(y) \in Chars /\ \A i \in 1 .. k : y[i] = Front(y)[i]
  <1>1. y \in Seq(Chars) /\ Len(y) \in Nat \ {0}
    BY EmptySeq DEF Texts
  <1>2. PICK k \in Nat : k + 1 = Len(y)
    <2>1. Len(y) - 1 \in Nat /\ (Len(y) - 1) + 1 = Len(y)
      BY <1>1
    <2> QED  BY <2>1
  <1>3. PICK x : /\ x = Front(y) /\ x \in Seq(Chars) /\ Len(x) = k /\ \A i \in 1 .. k : y[i] = x[i]
    <2>1. Front(y) = SubSeq(y, 1, Len(y) - 1)
      BY DEF Front
    <2>2. PICK m : m = Len(y) - 1 /\ m = k
      BY <1>2
    <2> QED  BY <1>1, <1>2, <2>1, <2>2
  <1>4. Last(y) = y[k + 1] /\ y[k + 1] \in Chars
    BY <1>1, <1>2 DEF Last
  <1> QED  BY <1>1, <1>2, <1>3, <1>4 DEF Word, Texts

LEMMA ScreenStarts ==
  ASSUME TerminalAssumption, TerminalInit  PROVE ScreenInv
  <1>1. PICK x : x = <<>> /\ Word(x, 0)
    BY EmptySeq DEF Word, Texts
  <1>2. PICK f : Pages(f, x, 0)
    BY <1>1, PagesInOrder
  <1>3. PICK e : e = <<>> /\ Len(e) = 0
    OBVIOUS
  <1>4. PICK r \in Sheets : r = Rows(x) /\ r = <<e>>
    <2>1. f[0] \in Sheets /\ f[0] = Rows(x) /\ f[0] = << <<>> >>
      BY <1>2 DEF Pages
    <2> QED  BY Zenon, <1>3, <2>1
  <1>5. Len(r) = 1 /\ r[1] = e /\ Last(r) = e
    BY <1>4 DEF Last
  <1>6. TERMINAL_WIDTH \in Nat \ {0, 1} /\ TERMINAL_HEIGHT \in Nat \ {0, 1}
    BY DEF TerminalAssumption
  <1>7. Top(r) = 0
    BY <1>5, <1>6 DEF Top
  <1>8. ASSUME NEW v, v = [row |-> 0, col |-> 0, buff |-> [i \in Cells |-> Blank]]
        PROVE  OnScreen(v, r) /\ v \in Terminals
    <2>1. ASSUME NEW y \in 0 .. TERMINAL_HEIGHT - 1, NEW z \in 0 .. TERMINAL_WIDTH - 1
          PROVE  v.buff[Place(y, z)] = Shown(r, y, z)
      <3>1. v.buff[Place(y, z)] = Blank
        BY <1>8, PlaceIs
      <3>2. z \in Nat /\ y \in Nat
        BY <1>6
      <3>3. ~(0 + y < 1 /\ z < Len(r[0 + y + 1]))
        <4>1. CASE y = 0
          <5>1. r[0 + y + 1] = e
            BY <1>5, <4>1
          <5> QED  BY <1>3, <3>2, <5>1
        <4>2. CASE y # 0
          BY <3>2, <4>2
        <4> QED  BY <4>1, <4>2
      <3> QED  BY <1>5, <1>7, <3>1, <3>3 DEF Shown
    <2>2. v = [row |-> v.row, col |-> v.col, buff |-> v.buff] /\ v.row = 0 /\ v.col = 0
      BY <1>8
    <2>3. Shows(v, r)
      BY <1>5, <1>7, <2>1, <2>2 DEF Shows
    <2>4. OnScreen(v, r)
      BY <1>3, <1>5, <1>6, <2>2, <2>3 DEF OnScreen, Open
    <2>5. v \in Terminals
      BY <1>8 DEF Terminals, Chars
    <2> QED  BY <2>4, <2>5
  <1>9. text = x /\ x \in Texts /\ crossed = FALSE
    BY <1>1 DEF TerminalInit, Word
  <1> QED  BY <1>4, <1>8, <1>9 DEF TerminalInit, ScreenInv

LEMMA TerminalWriteKeeps ==
  ASSUME TerminalAssumption, ScreenInv, NEW w \in Strings, terminal_write(w)  PROVE ScreenInv'
  <1>1. w \in Texts
    BY SeqDef DEF TerminalAssumption, Texts, Chars
  <1>2. PICK t \in Terminals, x \in Texts : t = tty /\ x = text
    BY DEF ScreenInv
  <1>3. PICK y \in Texts, k, n \in Nat : y = x \o w /\ TextGoesOn(y, x, k, w, n)
    <2>1. /\ Len(x) \in Nat /\ Len(w) \in Nat /\ x \o w \in Texts
          /\ TextGoesOn(x \o w, x, Len(x), w, Len(w))
      BY <1>1, JoinedGoesOn
    <2> QED  BY Zenon, <2>1
  <1>4. tty' = Written(t, w) /\ text' = y /\ crossed' = crossed
    BY Zenon, <1>2, <1>3 DEF terminal_write
  <1>5. Written(t, w) \in Terminals
    <2>1. PICK s : Screens(s, t, w, n)
      BY <1>3, ScreensInOrder DEF TextGoesOn
    <2> QED  BY <2>1 DEF Screens
  <1>6. ASSUME ~crossed  PROVE OnScreen(Written(t, w), Rows(y))
    <2>1. OnScreen(t, Rows(x))
      BY <1>2, <1>6 DEF ScreenInv
    <2> QED  BY <1>3, <2>1, WriteShows
  <1>7. ~crossed' => OnScreen(tty', Rows(text'))
    BY Zenon, <1>4, <1>6
  <1>8. crossed' \in BOOLEAN
    BY <1>4 DEF ScreenInv
  <1> QED  BY Zenon, <1>4, <1>5, <1>7, <1>8 DEF ScreenInv

LEMMA TerminalDeleteKeeps ==
  ASSUME TerminalAssumption, ScreenInv, terminal_delchar  PROVE ScreenInv'
  <1>1. PICK t \in Terminals, y \in Texts : t = tty /\ y = text
    BY DEF ScreenInv
  <1>2. y # <<>> /\ Last(y) # NEWLINE /\ text' = Front(y)
    BY <1>1 DEF terminal_delchar
  <1>3. PICK x : x = Front(y)
    OBVIOUS
  <1>4. PICK k \in Nat : /\ Word(x, k) /\ Word(y, k + 1) /\ Last(y) = y[k + 1]
                         /\ Last(y) \in Chars /\ \A i \in 1 .. k : y[i] = x[i]
    BY Zenon, <1>2, <1>3, WithoutLast
  <1>5. PICK row, col : /\ row = IF t.col # 0 THEN t.row ELSE (t.row - 1) % SIZE_T
                        /\ col = IF t.col # 0 THEN t.col - 1 ELSE TERMINAL_WIDTH
    OBVIOUS
  <1>6. tty' = [row |-> row, col |-> col, buff |-> Draw(t.buff, row, col, Blank)]
    BY <1>1, <1>5 DEF terminal_delchar
  <1>7. tty' \in Terminals
    <2>1. TERMINAL_WIDTH \in Int /\ SIZE_T \in Nat \ {0}
      BY DEF TerminalAssumption
    <2>2. row \in Int /\ col \in Int
      BY <1>5, <2>1 DEF Terminals
    <2>3. PICK b \in [Cells -> Chars] : b = Draw(t.buff, row, col, Blank)
      <3>1. \A i \in Cells : (IF i = Place(row, col) THEN Blank ELSE t.buff[i]) \in Chars
        BY DEF Terminals, Chars
      <3> QED  BY <3>1 DEF Draw
    <2> QED  BY <1>6, <2>2, <2>3 DEF Terminals
  <1>8. text' = x /\ x \in Texts
    BY <1>2, <1>3, <1>4 DEF Word
  <1>9. crossed' = (crossed \/ t.col = 0) /\ crossed' \in BOOLEAN
    BY <1>1 DEF terminal_delchar, ScreenInv
  <1>10. ASSUME ~crossed'  PROVE OnScreen(tty', Rows(x))
    <2>1. ~crossed /\ t.col # 0
      BY <1>9, <1>10
    <2>2. OnScreen(t, Rows(y))
      BY <1>1, <2>1 DEF ScreenInv
    <2>3. tty' = Erased(t)
      BY <1>5, <1>6, <2>1 DEF Erased
    <2>4. PICK c \in Chars : c # NEWLINE /\ y[k + 1] = c
      BY <1>2, <1>4
    <2>5. OnScreen(Erased(t), Rows(x))
      BY <1>4, <2>1, <2>2, <2>4, DeleteShows
    <2> QED  BY Zenon, <2>3, <2>5
  <1> QED  BY Zenon, <1>7, <1>8, <1>9, <1>10 DEF ScreenInv

LEMMA ScreenImplies ==
  ASSUME ScreenInv  PROVE ShowsEndOfText
  <1> SUFFICES ASSUME ~crossed  PROVE ShowsEndOfText
    BY DEF ShowsEndOfText
  <1>1. PICK r : r = Rows(text)
    OBVIOUS
  <1>2. Shows(tty, r) /\ tty.col = Len(Last(r))
    BY <1>1 DEF ScreenInv, OnScreen
  <1> QED  BY <1>1, <1>2 DEF ShowsEndOfText, Shows, Shown, Top

\* terminal_write and terminal_delchar (tty.c): whatever is written, the
\* screen shows the end of it, and the next character goes behind it.
THEOREM ScreenShowsText == TerminalSpec => []ShowsEndOfText
  <1>1. TerminalInit => ScreenInv
    BY TerminalAssumption, ScreenStarts
  <1>2. ScreenInv /\ [TerminalNext]_ttyVars => ScreenInv'
    <2> SUFFICES ASSUME ScreenInv, [TerminalNext]_ttyVars  PROVE ScreenInv'
      OBVIOUS
    <2>1. CASE UNCHANGED ttyVars
      BY <2>1 DEF ttyVars, ScreenInv
    <2>2. ASSUME NEW w \in Strings, terminal_write(w)  PROVE ScreenInv'
      BY TerminalAssumption, <2>2, TerminalWriteKeeps
    <2>3. CASE terminal_delchar
      BY TerminalAssumption, <2>3, TerminalDeleteKeeps
    <2> QED  BY <2>1, <2>2, <2>3 DEF TerminalNext
  <1>3. ScreenInv => ShowsEndOfText
    BY ScreenImplies
  <1> QED  BY <1>1, <1>2, <1>3, PTL DEF TerminalSpec
=============================================================================
