---------------------------- MODULE MCInterrupts ----------------------------
(* Boots around the ends of a day, of months and of years. *)
EXTENDS Interrupts

Chip(second, minute, hour, monthday, month, year) ==
  [seconds |-> second, minutes |-> minute, hours |-> hour,
   monthday |-> monthday, month |-> month, year |-> year]

BootsDef ==
  {Chip(1, 1, 0, 28, 2, 3), Chip(1, 1, 1, 28, 2, 0), Chip(0, 1, 1, 31, 12, 2),
   Chip(1, 1, 0, 1, 1, 3), Chip(0, 0, 0, 1, 3, 1), Chip(1, 0, 1, 31, 1, 2),
   Chip(1, 1, 1, 12, 10, 3)}

\* The clock of the emulated PC that `make run' starts counts in BCD, 24 hours.
FormatsDef == {<<FALSE, TRUE>>, <<TRUE, TRUE>>}
=============================================================================
