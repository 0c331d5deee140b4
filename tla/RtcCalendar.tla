----------------------------- MODULE RtcCalendar -----------------------------
(***************************************************************************)
(* The calendar of the PCF8563 driver (lib/rtc/pcf8563.cpp): dates and     *)
(* Unix times, the BCD registers of the chip's clock, and which schedules  *)
(* its alarm, which knows no month, can stand for.                         *)
(*                                                                         *)
(* A Unix time is kept as the pair the driver splits it into: [day |->     *)
(* unixTime / 86400, second |-> unixTime % 86400].  A register is a pair   *)
(* <<tens, units>> of BCD digits, and the clock registers are a sequence   *)
(* in the order of their addresses, the VL bit apart.                      *)
(* The chip counts by itself, digit by digit and with its own leap rule:   *)
(* ChipAdvanced owes nothing to the driver's conversions.                  *)
(***************************************************************************)
EXTENDS Integers, Sequences

DaySeconds == 86400

Years == 2000..2099
FirstDay == 10957          \* kUnix2000 / 86400
LastDay == 47481           \* (kUnix2100 - 1) / 86400
HorizonDays == 27          \* kMaximumScheduleHorizonSec / 86400
MinuteSeconds == 60

\* The register addresses from kRegSeconds on.
ClockRegisters == <<"second", "minute", "hour", "day", "weekday", "month", "year">>
Position(name) == CHOOSE i \in DOMAIN ClockRegisters : ClockRegisters[i] = name

Never == [day |-> 0, second |-> 0]     \* unixTime 0

-----------------------------------------------------------------------------
(* Times *)

Before(s, t) == s.day < t.day \/ (s.day = t.day /\ s.second < t.second)

Later(t, seconds) ==
  LET sum == t.second + seconds
  IN  [day |-> t.day + sum \div DaySeconds, second |-> sum % DaySeconds]

\* How far apart two times of neighbouring days are; more than that is Ages.
Ages == 2 * DaySeconds
Apart(s, t) ==
  LET difference == (t.day - s.day) * DaySeconds + t.second - s.second
  IN  IF t.day - s.day \notin -1..1 THEN Ages
      ELSE IF difference < 0 THEN -difference ELSE difference

-----------------------------------------------------------------------------
(* The civil calendar *)

\* Defect: the rule of the 400 years is forgotten.
LeapYearNoEra(year) == year % 4 = 0 /\ year % 100 # 0

LeapYear(year) == year % 4 = 0 /\ (year % 100 # 0 \/ year % 400 = 0)

DaysInMonth(year, month) ==
  CASE month \in {4, 6, 9, 11} -> 30
    [] month = 2 -> IF LeapYear(year) THEN 29 ELSE 28
    [] OTHER -> 31

\* daysFromCivil: years begin in March, and 400 of them are an era.
DaysFromCivil(year, month, day) ==
  LET y == IF month <= 2 THEN year - 1 ELSE year
      yearOfEra == y % 400
      dayOfYear == (153 * (month + (IF month > 2 THEN -3 ELSE 9)) + 2) \div 5 + day - 1
      dayOfEra == yearOfEra * 365 + yearOfEra \div 4 - yearOfEra \div 100 + dayOfYear
  IN  (y \div 400) * 146097 + dayOfEra - 719468

CivilFromDays(days) ==
  LET z == days + 719468
      dayOfEra == z % 146097
      yearOfEra == (dayOfEra - dayOfEra \div 1460 + dayOfEra \div 36524
                    - dayOfEra \div 146096) \div 365
      dayOfYear == dayOfEra - (365 * yearOfEra + yearOfEra \div 4 - yearOfEra \div 100)
      month == (5 * dayOfYear + 2) \div 153
  IN  [year |-> yearOfEra + (z \div 146097) * 400 + (IF month >= 10 THEN 1 ELSE 0),
       month |-> IF month < 10 THEN month + 3 ELSE month - 9,
       day |-> dayOfYear - (153 * month + 2) \div 5 + 1]

DateTimeValid(d) ==
  /\ d.year \in Years /\ d.month \in 1..12
  /\ d.day \in 1..DaysInMonth(d.year, d.month)
  /\ d.weekday \in 0..6 /\ d.hour \in 0..23 /\ d.minute \in 0..59 /\ d.second \in 0..59

\* unixToDateTime has an answer.
Supported(t) == t.day \in FirstDay..LastDay

\* unixToDateTime of a supported time; 1970-01-01 was a Thursday.
UnixToDateTime(t) ==
  LET civil == CivilFromDays(t.day)
  IN  [year |-> civil.year, month |-> civil.month, day |-> civil.day,
       weekday |-> (t.day + 4) % 7,
       hour |-> t.second \div 3600, minute |-> (t.second % 3600) \div 60,
       second |-> t.second % 60]

\* dateTimeToUnix of a valid date.
DateTimeToUnix(d) ==
  [day |-> DaysFromCivil(d.year, d.month, d.day),
   second |-> d.hour * 3600 + d.minute * 60 + d.second]

-----------------------------------------------------------------------------
(* The registers of the clock *)

BcdEncode(value) == <<value \div 10, value % 10>>

BcdValue(register) == register[1] * 10 + register[2]

BcdDecodes(register, maximum) ==
  register[1] <= 9 /\ register[2] <= 9 /\ BcdValue(register) <= maximum

\* The bytes writeDateTime sends; the year counts from 2000.
Encoded(d) ==
  [i \in DOMAIN ClockRegisters |->
     IF ClockRegisters[i] = "year" THEN BcdEncode(d.year - 2000)
     ELSE BcdEncode(d[ClockRegisters[i]])]

Maximum(name) ==
  CASE name \in {"second", "minute"} -> 59
    [] name = "hour" -> 23
    [] name = "day" -> 31
    [] name = "weekday" -> 6
    [] name = "month" -> 12
    [] name = "year" -> 99

Decoded(registers) ==
  LET value(name) == BcdValue(registers[Position(name)])
  IN  [year |-> 2000 + value("year"), month |-> value("month"), day |-> value("day"),
       weekday |-> value("weekday"), hour |-> value("hour"),
       minute |-> value("minute"), second |-> value("second")]

\* readDateTime over I2C that works: the time state, and the time if it is valid.
ReadDateTime(registers, voltageLow) ==
  IF \/ \E i \in DOMAIN ClockRegisters :
          ~BcdDecodes(registers[i], Maximum(ClockRegisters[i]))
     \/ ~DateTimeValid(Decoded(registers))
  THEN [state |-> "uninitialized", time |-> Never]
  ELSE IF voltageLow THEN [state |-> "invalidVl", time |-> Never]
       ELSE [state |-> "valid", time |-> DateTimeToUnix(Decoded(registers))]

-----------------------------------------------------------------------------
(* Schedules: the alarm compares the minute, the hour and the day of month *)

\* Defect: a target up to a month ahead is taken.
WithinMonth(now, target) == ~Before(Later(now, 31 * DaySeconds), target)

WithinHorizon(now, target) == ~Before(Later(now, HorizonDays * DaySeconds), target)

\* Defect: nobody asks whether the chip's century has a date for the target.
RepresentableUnsupported(now, target) ==
  /\ target.second % 60 = 0
  /\ ~Before(target, Later(now, MinuteSeconds))
  /\ WithinHorizon(now, target)

ScheduleRepresentable(now, target) ==
  /\ Supported(now) /\ Supported(target)
  /\ target.second % 60 = 0
  /\ ~Before(target, Later(now, MinuteSeconds))
  /\ WithinHorizon(now, target)

\* What configureAlarmForUtc writes to the alarm registers.
AlarmFor(target) ==
  LET d == UnixToDateTime(target)
  IN  [day |-> d.day, second |-> d.hour * 3600 + d.minute * 60]

NoAlarmSet == [day |-> 0, second |-> 0]

-----------------------------------------------------------------------------
(* The chip counts *)

ChipMonthLength(year, month) ==
  CASE month \in {4, 6, 9, 11} -> 30
    [] month = 2 -> IF year % 4 = 0 THEN 29 ELSE 28
    [] OTHER -> 31

Digits(value) == <<value \div 10, value % 10>>

\* Field by field, with the carry each field hands to the next.
ChipAdvanced(registers, seconds) ==
  LET v == [i \in DOMAIN registers |-> BcdValue(registers[i])]
      sum == v[3] * 3600 + v[2] * 60 + v[1] + seconds
      inDay == sum % DaySeconds
      midnight == sum >= DaySeconds
      monthEnds == midnight /\ v[4] >= ChipMonthLength(v[7], v[6])
      yearEnds == monthEnds /\ v[6] >= 12
  IN  <<Digits(inDay % 60), Digits((inDay % 3600) \div 60), Digits(inDay \div 3600),
        Digits(IF monthEnds THEN 1 ELSE IF midnight THEN v[4] + 1 ELSE v[4]),
        Digits(IF midnight THEN (v[5] + 1) % 7 ELSE v[5]),
        Digits(IF yearEnds THEN 1 ELSE IF monthEnds THEN v[6] + 1 ELSE v[6]),
        Digits(IF yearEnds THEN (v[7] + 1) % 100 ELSE v[7])>>

\* In how many seconds the alarm matches next, or Ages if not within a day.
AlarmIn(registers, alarm) ==
  LET inDay(r) == BcdValue(r[3]) * 3600 + BcdValue(r[2]) * 60 + BcdValue(r[1])
      today == BcdValue(registers[4])
      tomorrow == BcdValue(ChipAdvanced(registers, DaySeconds)[4])
  IN  CASE alarm.day = today /\ alarm.second > inDay(registers) ->
             alarm.second - inDay(registers)
        [] alarm.day = tomorrow /\ alarm.second <= inDay(registers) ->
             DaySeconds - inDay(registers) + alarm.second
        [] OTHER -> Ages

=============================================================================
