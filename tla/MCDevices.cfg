SPECIFICATION DevicesSpec
CONSTANTS
  PS2_STDIN_SIZE = 3
  InterruptsOn = TRUE
  MaxKeys = 5
  Cylinders = 2
  Heads = 2
  SectorsPerTrack = 1
  Tries = 2
  Contents = {0, 1}
  InReset = FALSE
  Interrupts = TRUE
  B = 3
  HEADS = 2
  SECTORS = 2
  IdeSize = 55
  ChsSize = 9
  IdeHardware <- MCHardware
  IdeLBAs = {7, 53, 54}
  IdeContents = {0, 1}
  TimerOn = TRUE
  Files = {"x"}
  Handles = {1, 2}
  Marks = {0, 1}
  Slack = {0, 1}
  VfmLens = {1, 2}
  MaxBytes = 4
INVARIANTS InTypingOrder OwnInterrupt SectorsKept PlattersKept ReadsWhatWasWritten
PROPERTIES ReadReturns Returns OperationReturns
