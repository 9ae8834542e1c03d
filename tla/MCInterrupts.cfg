CONSTANTS
  MaxSecond = 1
  MaxMinute = 1
  MaxHour = 1
  MaxYear = 9
  BYTE = 256
  CENTURY = 4
  CURR_YEAR = 6
  UTC_OFFSET = 1
  Boots <- BootsDef
  Formats <- FormatsDef
  TICKS = 2
  Lines = {0, 1, 6}
  Faults = {0, 14}
  MaxNesting = 2
  MaxTicks = 52
SPECIFICATION Spec
CHECK_DEADLOCK FALSE
INVARIANTS TimeOfDayCounts NothingInService OnlyFaultsPanic
PROPERTIES OneInstant ForwardOnly
