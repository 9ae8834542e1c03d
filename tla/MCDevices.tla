----------------------------- MODULE MCDevices -----------------------------
(***************************************************************************)
(* The drivers of the keyboard, the floppy drive and the hard disks, and   *)
(* the virtual files.  They share no state, and the kernel has one thread: *)
(* a run exercises one of them, and the others stay as they were at boot.  *)
(***************************************************************************)
EXTENDS PS2, FDC, ATA, VFM

VARIABLE device

devicesVars == <<device, keyboardVars, vars, ataVars, vfmVars>>

\* Two disks on one channel; a packet device and drives on both; one slave.
MCHardware ==
  { [p \in 0 .. 3 |-> h[p + 1]] : h \in
      { <<"lba", "chs", "none", "none">>, <<"chs", "atapi", "none", "lba">>,
        <<"none", "none", "atapi", "chs">> } }

\* A driver that is not exercised starts in one of its initial states.
Rest(d, S, x) == device # d => x = CHOOSE y \in S : TRUE

DevicesInit ==
  /\ device \in {"keyboard", "floppy", "disk", "virtual"}
  /\ KeyboardInit /\ Init /\ ATAInit /\ VFMInit
  /\ Rest("floppy", Cyls, pcn) /\ Rest("floppy", Contents, buff)
  /\ Rest("disk", IdeHardware, hardware) /\ Rest("disk", IdeContents, buffer)
  /\ \A p \in Positions : Rest("disk", IdeContents, platter[p][0])

Only(d, A, rest) == device = d /\ A /\ UNCHANGED <<device, rest>>

Keyboard(A) == Only("keyboard", A, <<vars, ataVars, vfmVars>>)
Floppy(A)   == Only("floppy", A, <<keyboardVars, ataVars, vfmVars>>)
Disk(A)     == Only("disk", A, <<keyboardVars, vars, vfmVars>>)
Virtual(A)  == Only("virtual", A, <<keyboardVars, vars, ataVars>>)

DevicesNext ==
  Keyboard(KeyboardNext) \/ Floppy(Next) \/ Disk(ATANext) \/ Virtual(VFMNext)

\* What each of the modules asks for.
DevicesFairness ==
  /\ WF_devicesVars(Keyboard(Reader))
  /\ WF_devicesVars(Keyboard(IRQ_keyboard_handler))
  /\ WF_devicesVars(Keyboard(IRQ_time_handler))
  /\ WF_devicesVars(Floppy(Controller))
  /\ WF_devicesVars(Floppy(IRQ_FDC_handler))
  /\ WF_devicesVars(Floppy(Driver))
  /\ WF_devicesVars(Disk(ATADrive))
  /\ WF_devicesVars(Disk(ATADriver))

DevicesSpec == DevicesInit /\ [][DevicesNext]_devicesVars /\ DevicesFairness
=============================================================================
