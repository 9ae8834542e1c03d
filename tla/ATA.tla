-------------------------------- MODULE ATA --------------------------------
(***************************************************************************)
(* The hard disk driver of LakeOS (kernel/src/ata.c) and the drives it     *)
(* talks to: IDE_init looks for drives at the two positions of the two     *)
(* channels, IDE_ATA_operation moves one sector by programmed I/O.  The    *)
(* driver polls the status; it learns nothing from interrupts but waits    *)
(* for the timer's in PIT_sleep.                                           *)
(***************************************************************************)
EXTENDS Integers, SequencesExt

CONSTANTS
  B,             \* 256: a byte of a sector's number
  HEADS,         \* 16: the heads of a drive, and the values of four bits
  SECTORS,       \* 63: the sectors of a track
  IdeSize,       \* sectors of a drive that knows LBA
  ChsSize,       \* sectors of one that does not: its cylinders fit 16 bits
  IdeHardware,   \* what may be connected at each position: nothing, a packet
                 \* device, a drive with LBA (features bit 0x200) or without
  IdeLBAs,       \* bound: the sectors that are asked for
  IdeContents,   \* what a sector can hold
  TimerOn        \* whether interrupts are enabled while the driver runs

ASSUME ATAAssumption ==
  /\ {B, HEADS, SECTORS, IdeSize, ChsSize} \subseteq Nat \ {0}
  /\ SECTORS < B /\ ChsSize < B * B * HEADS * SECTORS
  /\ IdeLBAs \subseteq 0 .. B * B * B * B - 1 /\ IdeContents # {}
  /\ IdeHardware \subseteq [0 .. 3 -> {"none", "atapi", "lba", "chs"}]
  /\ TimerOn \in BOOLEAN

VARIABLES
  hardware,      \* external: what is connected at each position
  IDE_devices,   \* the positions at which a drive was found
  probed,        \* i and j of IDE_init's loops: the positions it has tried
  at,            \* where the driver is
  op,            \* the operation in progress
  buffer,        \* the caller's buffer
  selected,      \* external: the position selected on each channel
  state,         \* external: what the drive selected on a channel is doing
  platter,       \* external: the sectors of each position
  ideImage,      \* ghost: what was last written to each sector of each device
  ideError       \* ghost: the operation met an error of the drive

ataVars == <<hardware, IDE_devices, probed, at, op, buffer, selected, state, platter,
             ideImage, ideError>>

Positions == 0 .. 3                  \* two on each channel, the master first
Channels  == 0 .. 1
Channel(p) == p \div 2
IsSlave(p) == p % 2

Far == B * B * B * HEADS              \* 0x10000000, the end of 28-bit numbers

IsDrive(p) == hardware[p] \in {"lba", "chs"}
Size(p)    == IF hardware[p] = "lba" THEN IdeSize ELSE ChsSize

Ready == [does |-> "ready"]
NoOp  == [direction |-> "none", drive |-> 0, lba |-> 0, value |-> 0]

-----------------------------------------------------------------------------
(* The registers                                                           *)

HDDEVSEL == 6
Ports == 2 .. 6

\* Registers 8 to 11 are reached through the ports of registers 2 to 5.
Port(reg) == IF reg < 8 THEN reg ELSE reg - 6

CHS(lba) ==
  LET sector   == (lba % SECTORS) + 1
      cylinder == ((lba + 1 - sector) \div (HEADS * SECTORS)) % (B * B)
  IN  [lba_mode |-> 0,
       head     |-> ((lba + 1 - sector) % (HEADS * SECTORS)) \div SECTORS,
       lba_io   |-> <<sector % B, cylinder % B, (cylinder \div B) % B>>]

\* The bytes of a number, the lowest first.
BytesOf(lba) == <<lba % B, (lba \div B) % B, (lba \div (B * B)) % B,
                  (lba \div (B * B * B)) % B>>

\* Wrong on purpose: the limit of 28 bits is one too high.
Address_late(drive, lba) ==
  CASE lba > Far -> [lba_mode |-> 2, head |-> 0, lba_io |-> BytesOf(lba)]
    [] lba <= Far /\ hardware[IDE_devices[drive]] = "lba" ->
         [lba_mode |-> 1, head |-> (lba \div (B * B * B)) % HEADS, lba_io |-> BytesOf(lba)]
    [] OTHER -> CHS(lba)

Address(drive, lba) ==
  CASE lba >= Far -> [lba_mode |-> 2, head |-> 0, lba_io |-> BytesOf(lba)]
    [] lba < Far /\ hardware[IDE_devices[drive]] = "lba" ->
         [lba_mode |-> 1, head |-> (lba \div (B * B * B)) % HEADS, lba_io |-> BytesOf(lba)]
    [] OTHER -> CHS(lba)

\* The writes of IDE_ATA_operation, in their order; the first selects.
Params(drive, lba) ==
  LET a    == Address(drive, lba)
      mode == IF a.lba_mode = 0 THEN "chs" ELSE "lba"
      high == IF a.lba_mode = 2
              THEN <<<<8, 0>>, <<9, a.lba_io[4]>>, <<10, 0>>, <<11, 0>>>>
              ELSE <<>>
  IN  <<<<HDDEVSEL, [mode |-> mode, slave |-> IsSlave(IDE_devices[drive]), head |-> a.head]>>>>
      \o high
      \o <<<<2, 1>>, <<3, a.lba_io[1]>>, <<4, a.lba_io[2]>>, <<5, a.lba_io[3]>>>>

\* IDE_write, one after the other.  A port remembers two writes: for 48-bit
\* numbers the drive uses both.  Before these it holds what an earlier
\* operation left there.
IDE_write(writes) ==
  LET after[i \in 0 .. Len(writes)] ==
        IF i = 0 THEN [r \in Ports |-> [now |-> 1, before |-> 1]]
        ELSE [after[i - 1] EXCEPT ![Port(writes[i][1])] = [now |-> writes[i][2], before |-> @.now]]
  IN  after[Len(writes)]

\* External: the sector a drive takes the ports to mean.
Decoded(ports, ext) ==
  LET sel  == ports[HDDEVSEL].now
      low  == ports[3].now + B * ports[4].now + B * B * ports[5].now
      high == ports[3].before + B * ports[4].before + B * B * ports[5].before
      cyl  == ports[4].now + B * ports[5].now
  IN  CASE ext -> low + B * B * B * high
        [] ~ext /\ sel.mode = "lba" -> low + B * B * B * sel.head
        [] ~ext /\ sel.mode = "chs" -> (cyl * HEADS + sel.head) * SECTORS + ports[3].now - 1

-----------------------------------------------------------------------------
(* The drives (external)                                                   *)

\* A command ends with data to move, or with an error (out of range, or a
\* medium that fails); a write that has its data ends when it is stored.
DriveDone(c) ==
  /\ \/ /\ state[c].does \in {"reading", "writing"}
        /\ state[c].sector < Size(selected[c])
        /\ state' = [state EXCEPT ![c].does = IF @ = "reading" THEN "send" ELSE "receive"]
        /\ UNCHANGED <<platter, ideError>>
     \/ /\ state[c].does \in {"reading", "writing"}
        /\ state' = [state EXCEPT ![c] = Ready]
        /\ ideError' = TRUE
        /\ UNCHANGED platter
     \/ /\ state[c].does = "storing"
        /\ platter' = [platter EXCEPT ![selected[c]][state[c].sector] = state[c].value]
        /\ state' = [state EXCEPT ![c] = Ready]
        /\ UNCHANGED ideError
     \/ /\ state[c].does = "flushing"
        /\ state' = [state EXCEPT ![c] = Ready]
        /\ UNCHANGED <<platter, ideError>>
  /\ UNCHANGED <<hardware, IDE_devices, probed, at, op, buffer, selected, ideImage>>

BUSY(c) == state[c].does \in {"reading", "writing", "storing", "flushing"}

-----------------------------------------------------------------------------
(* The driver                                                              *)

Moves(from, to) == at = from /\ at' = to

Drives == 1 .. Len(IDE_devices)

\* One round of IDE_init's loops.  It sleeps twice, so it needs the timer; a
\* packet device answers IDENTIFY with an error, as an empty channel may.
IDE_probe(p) ==
  /\ at = "probe" /\ probed = p /\ probed' = p + 1
  /\ TimerOn
  /\ selected' = [selected EXCEPT ![Channel(p)] = p]
  /\ IDE_devices' = IF IsDrive(p) THEN Append(IDE_devices, p) ELSE IDE_devices
  /\ UNCHANGED <<hardware, at, op, buffer, state, platter, ideImage, ideError>>

\* The second loop of IDE_init hands the drives to the storage layer.
SAL_add_devices ==
  /\ probed = 4 /\ Moves("probe", "idle")
  /\ ideImage' = [d \in Drives |-> platter[IDE_devices[d]]]
  /\ UNCHANGED <<hardware, IDE_devices, probed, op, buffer, selected, state, platter, ideError>>

\* IDE_ATA_read_sector and IDE_ATA_write_sector: the number after the last
\* sector passes.
Starts(direction, drive, lba, value) ==
  /\ lba <= Size(IDE_devices[drive])
  /\ Moves("idle", "wait")
  /\ op' = [direction |-> direction, drive |-> drive, lba |-> lba, value |-> value]
  /\ ideError' = FALSE
  /\ UNCHANGED <<hardware, IDE_devices, probed, selected, state, platter, ideImage>>

ATA_read_sector(drive, lba) ==
  Starts("read", drive, lba, 0) /\ UNCHANGED buffer

ATA_write_sector(drive, lba, value) ==
  Starts("write", drive, lba, value) /\ buffer' = value

Here == Channel(IDE_devices[op.drive])

\* while (BUSY), then the parameters and the command.  The status is that of
\* the drive that was selected before.
IDE_ATA_command ==
  /\ Moves("wait", "sleep")
  /\ ~BUSY(Here)
  /\ LET ports == IDE_write(Params(op.drive, op.lba))
     IN  /\ selected' = [selected EXCEPT ![Here] = 2 * Here + ports[HDDEVSEL].now.slave]
         /\ state' = [state EXCEPT ![Here] =
              [does   |-> IF op.direction = "read" THEN "reading" ELSE "writing",
               sector |-> Decoded(ports, Address(op.drive, op.lba).lba_mode = 2)]]
  /\ UNCHANGED <<hardware, IDE_devices, probed, op, buffer, platter, ideImage, ideError>>

\* IDE_poll: PIT_sleep(1) spins until the timer has interrupted.
PIT_sleep ==
  /\ TimerOn
  /\ Moves("sleep", "poll") \/ Moves("flush_sleep", "flush_poll")
  /\ UNCHANGED <<hardware, IDE_devices, probed, op, buffer, selected, state, platter, ideImage, ideError>>

\* Wrong on purpose: an operation that failed is tried again, and again.
Transfer_retries ==
  /\ at = "poll" /\ ~BUSY(Here)
  /\ CASE state[Here].does = "ready" -> at' = "wait" /\ UNCHANGED <<op, buffer, state, ideImage>>
       [] state[Here].does = "receive" ->
            /\ at' = "idle" /\ op' = NoOp
            /\ state' = [state EXCEPT ![Here] =
                 [does |-> "storing", sector |-> @.sector, value |-> buffer]]
            /\ ideImage' = [ideImage EXCEPT ![op.drive][op.lba] = buffer]
            /\ UNCHANGED buffer
       [] state[Here].does = "send" ->
            /\ buffer' = platter[selected[Here]][state[Here].sector]
            /\ state' = [state EXCEPT ![Here] = [does |-> "flushing"]]
            /\ at' = "flush_sleep"
            /\ UNCHANGED <<op, ideImage>>
  /\ UNCHANGED <<hardware, IDE_devices, probed, selected, platter, ideError>>

\* Without adv_check IDE_poll does not ask whether the drive has data or met an
\* error: what it has not asked for is ignored, and there is no data to read
\* but what is on the bus.
Transfer ==
  /\ at = "poll" /\ ~BUSY(Here)
  /\ \/ /\ op.direction = "write"
        /\ IF state[Here].does = "receive"
           THEN /\ state' = [state EXCEPT ![Here] =
                      [does |-> "storing", sector |-> @.sector, value |-> buffer]]
                /\ ideImage' = [ideImage EXCEPT ![op.drive][op.lba] = buffer]
           ELSE UNCHANGED <<state, ideImage>>
        /\ at' = "idle" /\ op' = NoOp
        /\ UNCHANGED buffer
     \/ /\ op.direction = "read"
        /\ IF state[Here].does = "send" THEN buffer' = platter[selected[Here]][state[Here].sector]
                                        ELSE buffer' \in IdeContents
        /\ state' = [state EXCEPT ![Here] = [does |-> "flushing"]]   \* ATA_CMD_CACHE_FLUSH
        /\ at' = "flush_sleep"
        /\ UNCHANGED <<op, ideImage>>
  /\ UNCHANGED <<hardware, IDE_devices, probed, selected, platter, ideError>>

Flushed ==
  /\ Moves("flush_poll", "return") /\ ~BUSY(Here)
  /\ UNCHANGED <<hardware, IDE_devices, probed, op, buffer, selected, state, platter, ideImage, ideError>>

OperationEnds ==
  /\ Moves("return", "idle")
  /\ op' = NoOp
  /\ UNCHANGED <<hardware, IDE_devices, probed, buffer, selected, state, platter, ideImage, ideError>>

ATAInit ==
  /\ hardware \in IdeHardware
  /\ IDE_devices = <<>> /\ probed = 0 /\ at = "probe" /\ op = NoOp
  /\ buffer \in IdeContents
  /\ selected = [c \in Channels |-> 2 * c] /\ state = [c \in Channels |-> Ready]
  /\ \E v \in IdeContents : platter = [p \in Positions |-> [s \in 0 .. Size(p) - 1 |-> v]]
  /\ ideImage = <<>> /\ ideError = FALSE

ATARequest ==
  \E d \in Drives, lba \in IdeLBAs :
    \/ ATA_read_sector(d, lba)
    \/ \E v \in IdeContents : ATA_write_sector(d, lba, v)

ATADriver ==
  \/ \E p \in Positions : IDE_probe(p)
  \/ SAL_add_devices
  \/ IDE_ATA_command \/ PIT_sleep \/ Transfer \/ Flushed \/ OperationEnds

ATADrive == \E c \in Channels : DriveDone(c)

ATANext == ATARequest \/ ATADriver \/ ATADrive

\* A drive ends what it was told to do, the timer interrupts and the driver runs.
ATAFairness == WF_ataVars(ATADrive) /\ WF_ataVars(ATADriver)

ATASpec == ATAInit /\ [][ATANext]_ataVars /\ ATAFairness

-----------------------------------------------------------------------------
(* Properties                                                              *)

\* IDE_init finds each hard disk once, in the order of their positions; their
\* numbers in IDE_devices are what the storage layer calls them by.  Each
\* sector of each drive holds what was last written to its number, and a read
\* returns just that, whichever way a number is split over the registers,
\* whichever drive was used before and although a write returns before the
\* drive has stored it; unless the drive met an error, which nobody looks at.
PlattersKept ==
  /\ at # "probe" =>
       /\ \A d, e \in Drives : d < e => IDE_devices[d] < IDE_devices[e]
       /\ ToSet(IDE_devices) = {p \in Positions : IsDrive(p)}
  /\ at # "probe" => \A d \in Drives :
       LET p       == IDE_devices[d]
           c       == Channel(p)
           storing == selected[c] = p /\ state[c].does = "storing"
       IN  \A s \in DOMAIN platter[p] :
             \/ platter[p][s] = ideImage[d][s]
             \/ storing /\ state[c].sector = s /\ state[c].value = ideImage[d][s]
  /\ at = "return" /\ ~ideError => buffer = ideImage[op.drive][op.lba]

\* A sector that was asked for is delivered or stored: the operation returns.
OperationReturns == at = "wait" ~> at = "idle"
=============================================================================
