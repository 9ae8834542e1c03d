------------------------------- MODULE Clock -------------------------------
(***************************************************************************)
(* The date of LakeOS: RTC_init (kernel/src/rtc.c) reads it from the CMOS  *)
(* clock, one register after the other, until two readings agree, and the  *)
(* timer interrupt (kernel/src/pit.c) carries it on from there.            *)
(***************************************************************************)
EXTENDS Integers, Sequences

CONSTANTS
  MaxSecond, MaxMinute, MaxHour, \* 59, 59 and 23 in the code
  MaxYear,        \* 0xFFFF, the -1 given to inc_unit_of_time
  BYTE,           \* 2^8: the width of every field but the year
  CENTURY, CURR_YEAR,
  UTC_OFFSET,     \* the four hours RTC_init subtracts
  Boots,          \* what the chip may show at boot
  Formats         \* <<binary, 24-hour>>, the two format bits of status register B

\* External: the dates of the chip, which has two digits for the year.
Dates ==
  [seconds : 0 .. MaxSecond, minutes : 0 .. MaxMinute, hours : 0 .. MaxHour,
   monthday : Nat \ {0}, month : Nat \ {0}, year : 0 .. CENTURY - 1]

ASSUME ClockAssumption ==
  /\ {MaxSecond, MaxMinute, MaxHour, MaxYear, CURR_YEAR, UTC_OFFSET} \subseteq Nat
  /\ {BYTE, CENTURY} \subseteq Nat \ {0}
  /\ UTC_OFFSET <= MaxHour + 1 /\ CURR_YEAR + CENTURY <= MaxYear + 1
  /\ MaxSecond < BYTE /\ MaxMinute < BYTE /\ MaxHour < BYTE
  /\ Boots \subseteq Dates
  /\ Formats \subseteq BOOLEAN \X BOOLEAN

VARIABLES
  chip,       \* external: what the CMOS clock counts, in plain numbers
  before,     \* ghost: what it showed before it last counted on
  format,     \* external: status register B
  chipTicks,  \* bound: the chip counts on at most once while it is read
  time,       \* the kernel's global
  tmp_time,   \* the reading before, NoTime when there is none
  reg,        \* the registers read in this pass
  start,      \* ghost: the second of the day the count begins with
  booted      \* RTC_init has returned

clockVars == <<chip, before, format, chipTicks, time, tmp_time, reg, start, booted>>

Registers == <<"seconds", "minutes", "hours", "monthday", "month", "year">>

Times == [seconds : 0 .. BYTE - 1, minutes : 0 .. BYTE - 1, hours : 0 .. BYTE - 1,
          monthday : 0 .. BYTE - 1, month : 0 .. BYTE - 1, year : 0 .. MaxYear]

NoTime == [f \in {Registers[i] : i \in 1 .. 6} |-> 0]

-----------------------------------------------------------------------------
(* Counting on (pit.c).  A count comes with the carry_over it leaves.      *)

inc_unit_of_time(unit, max) ==
  IF unit = max THEN [unit |-> 0, carry |-> TRUE]
                ELSE [unit |-> unit + 1, carry |-> FALSE]

max_monthday(year, month) ==
  CASE month = 2 -> IF year % 4 # 0 THEN 28 ELSE 29
    [] month # 2 /\ month % 2 = 1 -> 30
    [] month # 2 /\ month % 2 = 0 -> 31

\* Days and months count from 0 here: the day after the last is day 0 of the
\* next month.  carry_over stays as the hours left it unless the year ends.
inc_day_and_month(t, carry) ==
  LET last == t.monthday = max_monthday(t.year, t.month)
      end  == last /\ t.month = 12
  IN  [time  |-> [t EXCEPT !.monthday = IF last THEN 0 ELSE (@ + 1) % BYTE,
                           !.month = IF end THEN 0 ELSE IF last THEN (@ + 1) % BYTE ELSE @],
       carry |-> carry \/ end]

\* time.<field> = inc_unit_of_time(time.<field>, max), if (carry_over)
Inc(t, field, max) ==
  LET r == inc_unit_of_time(t.time[field], max)
  IN  IF t.carry
      THEN [time  |-> [t.time EXCEPT ![field] = r.unit % (IF field = "year" THEN MaxYear + 1 ELSE BYTE)],
            carry |-> r.carry]
      ELSE t

\* Wrong on purpose: the year is never counted.
NextSecondNoYear(t) ==
  LET s == Inc([time |-> t, carry |-> TRUE], "seconds", MaxSecond)
      h == Inc(Inc(s, "minutes", MaxMinute), "hours", MaxHour)
  IN  IF h.carry THEN inc_day_and_month(h.time, TRUE) ELSE h

\* The end of IRQ_time_handler.
NextSecond(t) ==
  LET s == Inc([time |-> t, carry |-> TRUE], "seconds", MaxSecond)
      h == Inc(Inc(s, "minutes", MaxMinute), "hours", MaxHour)
      d == IF h.carry THEN inc_day_and_month(h.time, TRUE) ELSE h
  IN  Inc(d, "year", MaxYear)

-----------------------------------------------------------------------------
(* Counting back (rtc.c)                                                   *)

\* The carry it sets when the year begins is not read by anyone.
RTC_sub_month_and_day(t) ==
  LET month == IF t.month # 0 THEN t.month - 1 ELSE 12
  IN  IF t.monthday # 0 THEN [t EXCEPT !.monthday = @ - 1]
      ELSE [t EXCEPT !.month = month, !.monthday = max_monthday(t.year, month)]

\* Wrong on purpose: the day is over, but the hours are not of the day before.
RTC_sub_hours_kept(t, num_hours) ==
  IF t.hours >= num_hours THEN [t EXCEPT !.hours = @ - num_hours]
  ELSE RTC_sub_month_and_day([t EXCEPT !.hours = 0])

\* `if (carry) --time->year' tests a local carry, which is 0.
RTC_sub_hours(t, num_hours) ==
  IF t.hours >= num_hours THEN [t EXCEPT !.hours = @ - num_hours]
  ELSE RTC_sub_month_and_day([t EXCEPT !.hours = ((@ + MaxHour + 1) - num_hours) % BYTE])

-----------------------------------------------------------------------------
(* The registers of the chip                                               *)

Bcd(n) == ((n \div 10) * 16) + (n % 10)

BCD_to_bin(x) == (x % 16) + ((x \div 16) * 10)

PmBit == 128
Half  == (MaxHour + 1) \div 2

\* What a register holds; in 12-hour format the afternoon has the high bit set.
Register(c, f) ==
  LET n == IF f = "hours" /\ ~format[2] THEN ((c.hours + Half - 1) % Half) + 1 ELSE c[f]
  IN  (IF format[1] THEN n ELSE Bcd(n))
      + (IF f = "hours" /\ ~format[2] /\ c.hours >= Half THEN PmBit ELSE 0)

\* The day after, as the chip counts (only days inside of a month are used).
ChipSecond ==
  LET s == Inc([time |-> chip, carry |-> TRUE], "seconds", MaxSecond)
      h == Inc(Inc(s, "minutes", MaxMinute), "hours", MaxHour)
  IN  IF h.carry THEN [h.time EXCEPT !.monthday = @ + 1] ELSE h.time

-----------------------------------------------------------------------------
(* RTC_init.  RTC_wait_update waits for bit 6 of status register A to be   *)
(* clear, which it is: the update flag of the chip is bit 7.               *)

ChipCounts ==
  /\ ~booted
  /\ chipTicks < 1
  /\ chipTicks' = chipTicks + 1
  /\ chip' = ChipSecond /\ before' = chip
  /\ UNCHANGED <<format, time, tmp_time, reg, start, booted>>

\* RTC_read_time; each register is read by a port access of its own.
CMOS_read ==
  /\ ~booted /\ reg < 6
  /\ reg' = reg + 1
  /\ time' = [time EXCEPT ![Registers[reg + 1]] = Register(chip, Registers[reg + 1])]
  /\ UNCHANGED <<chip, before, format, chipTicks, tmp_time, start, booted>>

\* The readings differ, or this was the first: tmp_time = time, read again.
Reread ==
  /\ ~booted /\ reg = 6
  /\ tmp_time # time
  /\ tmp_time' = time
  /\ reg' = 0
  /\ UNCHANGED <<chip, before, format, chipTicks, time, start, booted>>

Decode(t) ==
  LET plain == IF format[1] THEN t ELSE [f \in DOMAIN t |-> BCD_to_bin(t[f]) % BYTE]
      pm    == ~format[2] /\ (plain.hours \div PmBit) % 2 = 1
      hour  == IF pm THEN [plain EXCEPT !.hours = ((@ % PmBit) + Half) % (MaxHour + 1)] ELSE plain
      year  == hour.year + (CURR_YEAR \div CENTURY) * CENTURY
  IN  [hour EXCEPT !.year = IF year < CURR_YEAR THEN year + CENTURY ELSE year]

SecondOfDay(t) == (t.hours * (MaxMinute + 1) + t.minutes) * (MaxSecond + 1) + t.seconds
SecondsADay == (MaxHour + 1) * (MaxMinute + 1) * (MaxSecond + 1)

\* What RTC_read_time returns when nothing changes under it.
Reading(c) == [f \in DOMAIN c |-> Register(c, f)]

Finish ==
  LET c == IF time = Reading(chip) THEN chip ELSE before
  IN  /\ time' = RTC_sub_hours(Decode(time), UTC_OFFSET)
      /\ start' = (SecondOfDay(c) - UTC_OFFSET * (MaxMinute + 1) * (MaxSecond + 1)) % SecondsADay
      /\ booted' = TRUE
      /\ chip' = NoTime /\ before' = NoTime /\ tmp_time' = NoTime  \* not used again
      /\ format' = <<TRUE, TRUE>> /\ chipTicks' = 0 /\ reg' = 0

\* Wrong on purpose: one reading is enough.
AgreeAtOnce == ~booted /\ reg = 6 /\ Finish

Agree == ~booted /\ reg = 6 /\ tmp_time = time /\ Finish

ClockInit ==
  /\ chip \in Boots /\ before = chip /\ format \in Formats /\ chipTicks = 0
  /\ time = NoTime /\ tmp_time = NoTime /\ reg = 0
  /\ start = 0 /\ booted = FALSE

RTC_init == CMOS_read \/ Reread \/ Agree
=============================================================================
