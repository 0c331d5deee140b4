-------------------------- MODULE RtcCalendarProofs --------------------------
(***************************************************************************)
(* What is proved of the calendar of RtcCalendar, for every day of the     *)
(* chip's century.  Years are counted from 1 March 2000, as the driver's   *)
(* algorithms do: a day is                                                 *)
(*   FirstMarch + 365 * Y + Y \div 4 + start of its month + day - 1        *)
(* and no multiple of 100 that is not one of 400 lies in between.          *)
(***************************************************************************)
EXTENDS RtcCalendar, TLAPS

FirstMarch == 11017     \* 1 March 2000

\* The year of a date that begins in March, from 2000 on.
MarchYear(year, month) == IF month <= 2 THEN year - 2001 ELSE year - 2000

\* The first day of a month in such a year, counted from 0.
MonthStart(month) ==
  CASE month = 1 -> 306 [] month = 2 -> 337 [] month = 3 -> 0 [] month = 4 -> 31
    [] month = 5 -> 61 [] month = 6 -> 92 [] month = 7 -> 122 [] month = 8 -> 153
    [] month = 9 -> 184 [] month = 10 -> 214 [] month = 11 -> 245 [] month = 12 -> 275

-----------------------------------------------------------------------------
(* Quotients and remainders *)

LEMMA Quarter ==
  ASSUME NEW x \in Int
  PROVE  x \div 4 \in Int /\ 4 * (x \div 4) <= x /\ x <= 4 * (x \div 4) + 3
  OBVIOUS

\* Cited instead of the definitions, lest the provers spell out an interval.
LEMMA DayLength == DaySeconds \in Nat \ {0} /\ DaySeconds >= 86400 /\ DaySeconds <= 86400
  BY DEF DaySeconds

LEMMA CenturyDays ==
  /\ FirstDay \in Int /\ FirstDay >= 10957 /\ FirstDay <= 10957
  /\ LastDay \in Int /\ LastDay >= 47481 /\ LastDay <= 47481
  BY DEF FirstDay, LastDay

LEMMA MinusOne ==
  ASSUME NEW x \in Int, x < 0, x >= -1
  PROVE  x \div 4 = -1
  <1>. DEFINE q == x \div 4
  <1>1. q \in Int /\ 4 * q <= x /\ x <= 4 * q + 3
    BY Quarter
  <1>. HIDE DEF q
  <1>2. q = -1
    BY <1>1
  <1>. QED  BY <1>2 DEF q

LEMMA DaySplit ==
  ASSUME NEW x \in Nat
  PROVE  /\ x \div DaySeconds \in Nat /\ (x % DaySeconds) \in 0..DaySeconds - 1
         /\ x = 86400 * (x \div DaySeconds) + (x % DaySeconds)
  <1>. DEFINE q == x \div 86400
              r == x % 86400
  <1>1. /\ 0 <= q /\ q \in Int
        /\ 0 <= r /\ r <= 86399 /\ r \in Int
    OBVIOUS
  <1>2. x = 86400 * q + r
    OBVIOUS
  <1>3. x \div DaySeconds = q /\ (x % DaySeconds) = r
    BY DEF DaySeconds
  <1>. HIDE DEF q, r
  <1>4. q \in Nat /\ r \in 0..DaySeconds - 1
    BY <1>1, DayLength
  <1>. QED  BY <1>2, <1>3, <1>4

LEMMA MonthStartRange ==
  ASSUME NEW month \in 1..12
  PROVE  /\ MonthStart(month) \in Int
         /\ MonthStart(month) >= 0 /\ MonthStart(month) <= 337
         /\ month > 2 => MonthStart(month) <= 275
         /\ month <= 2 => MonthStart(month) >= 306
         /\ month > 2 /\ month < 12 => MonthStart(month) <= 245
  <1>1. MonthStart(month) \in {306, 337, 0, 31, 61, 92, 122, 153, 184, 214, 245, 275}
    BY DEF MonthStart
  <1>2. month > 2 => MonthStart(month) \in {0, 31, 61, 92, 122, 153, 184, 214, 245, 275}
    BY DEF MonthStart
  <1>3. month <= 2 => MonthStart(month) \in {306, 337}
    BY DEF MonthStart
  <1>4. month > 2 /\ month < 12
          => MonthStart(month) \in {0, 31, 61, 92, 122, 153, 184, 214, 245}
    BY DEF MonthStart
  <1>. QED  BY <1>1, <1>2, <1>3, <1>4

LEMMA MonthStarts ==
  ASSUME NEW month \in 1..12
  PROVE  (153 * (month + (IF month > 2 THEN -3 ELSE 9)) + 2) \div 5 = MonthStart(month)
  BY DEF MonthStart

\* daysFromCivil in the years of the chip.
LEMMA DayNumber ==
  ASSUME NEW year \in Years, NEW month \in 1..12, NEW day \in Int
  PROVE  DaysFromCivil(year, month, day) =
           FirstMarch + 365 * MarchYear(year, month) + MarchYear(year, month) \div 4
           + MonthStart(month) + day - 1
  <1>. DEFINE y == IF month <= 2 THEN year - 1 ELSE year
              Y == MarchYear(year, month)
              start == MonthStart(month)
  <1>1. start \in Int
    BY DEF MonthStart
  <1>2. Y \in -1..99 /\ y = Y + 2000
    BY DEF MarchYear, Years
  <1>3. DaysFromCivil(year, month, day) =
          (y \div 400) * 146097
          + ((y % 400) * 365 + (y % 400) \div 4 - (y % 400) \div 100 + (start + day - 1)) - 719468
    BY MonthStarts DEF DaysFromCivil
  <1>. SUFFICES DaysFromCivil(year, month, day)
                  = FirstMarch + 365 * Y + (Y \div 4) + start + day - 1
    OBVIOUS
  <1>. HIDE DEF y, Y, start
  <1>4. CASE Y < 0
    <2>1. /\ 1999 \div 400 = 4 /\ 1999 % 400 = 399
          /\ Y \div 4 = -1 /\ y = 1999
      <3>1. y = 1999
        BY <1>2, <1>4
      <3>2. 1999 \div 400 = 4 /\ 1999 % 400 = 399
        OBVIOUS
      <3>3. Y \div 4 = -1
        BY <1>2, <1>4, MinusOne
      <3>. QED  BY <3>1, <3>2, <3>3
    <2>2. 399 \div 4 = 99 /\ 399 \div 100 = 3
      OBVIOUS
    <2>. QED  BY <1>1, <1>2, <1>3, <1>4, <2>1, <2>2 DEF FirstMarch
  <1>5. CASE Y >= 0
    <2>1. y \div 400 = 5 /\ y % 400 = Y /\ Y \div 100 = 0 /\ Y \div 4 \in Int
      BY <1>2, <1>5
    <2>. QED  BY <1>1, <1>2, <1>3, <1>5, <2>1 DEF FirstMarch
  <1>. QED  BY <1>2, <1>4, <1>5

-----------------------------------------------------------------------------
(* From days to dates and back *)

LEMMA LeapInCentury ==
  ASSUME NEW year \in Years
  PROVE  LeapYear(year) <=> year = 4 * (year \div 4)
  <1>1. /\ (year % 4 = 0) <=> year = 4 * (year \div 4)
        /\ year % 100 = 0 => year = 2000
        /\ 2000 % 400 = 0
    BY DEF Years
  <1>. QED  BY <1>1 DEF LeapYear

\* Where a day of the year falls.
LEMMA MonthSplit ==
  ASSUME NEW d \in 0..365
  PROVE  LET mp == (5 * d + 2) \div 153
             month == IF mp < 10 THEN mp + 3 ELSE mp - 9
         IN  /\ mp \in 0..11 /\ month \in 1..12 /\ (month <= 2 <=> mp >= 10)
             /\ (153 * mp + 2) \div 5 = MonthStart(month)
             /\ MonthStart(month) <= d
             /\ d <= MonthStart(month) + (CASE month \in {4, 6, 9, 11} -> 29
                                            [] month = 2 -> 28 [] OTHER -> 30)
  <1>. DEFINE mp == (5 * d + 2) \div 153
  <1>1. mp \in Int /\ 153 * mp <= 5 * d + 2 /\ 5 * d + 2 <= 153 * mp + 152
    OBVIOUS
  <1>. HIDE DEF mp
  <1>2. mp \in 0..11
    BY <1>1
  <1>. DEFINE month == IF mp < 10 THEN mp + 3 ELSE mp - 9
  <1>3. month \in 1..12 /\ (month <= 2 <=> mp >= 10)
    BY <1>2
  <1>4. (153 * mp + 2) \div 5 = MonthStart(month)
    <2>1. mp = month + (IF month > 2 THEN -3 ELSE 9)
      BY <1>2
    <2>. QED  BY <1>3, <2>1, MonthStarts
  <1>5. /\ MonthStart(month) <= d
        /\ d <= MonthStart(month) + (CASE month \in {4, 6, 9, 11} -> 29
                                       [] month = 2 -> 28 [] OTHER -> 30)
    BY <1>1, <1>2 DEF MonthStart
  <1>. QED  BY <1>2, <1>3, <1>4, <1>5 DEF mp

\* civilFromDays in years that begin in March: t is day d of such a year, and
\* that day 365 exists in leap years only.
IsMarchDay(t, Y, d) ==
  LET mp == (5 * d + 2) \div 153
  IN  /\ t = FirstMarch + 365 * Y + (Y \div 4) + d
      /\ d = 365 => Y + 1 = 4 * ((Y + 1) \div 4)
      /\ Y < 0 => d >= 306
      /\ Y = 99 => d <= 305
      /\ CivilFromDays(t) = [year |-> 2000 + Y + (IF mp >= 10 THEN 1 ELSE 0),
                             month |-> IF mp < 10 THEN mp + 3 ELSE mp - 9,
                             day |-> d - (153 * mp + 2) \div 5 + 1]

LEMMA MarchDay ==
  ASSUME NEW t \in FirstDay..LastDay
  PROVE  \E Y \in -1..99, d \in 0..365 : IsMarchDay(t, Y, d)
  <1>. DEFINE n == t - FirstMarch
              z == t + 719468
              era == z \div 146097
              e == z % 146097
              Y == (e - e \div 1460 + e \div 36524 - e \div 146096) \div 365
              d == e - (365 * Y + Y \div 4 - Y \div 100)
              mp == (5 * d + 2) \div 153
  <1>1. n \in Int /\ -60 <= n /\ n <= 36464 /\ z = 730485 + n /\ t = FirstMarch + n
    BY CenturyDays DEF FirstMarch
  <1>2. CivilFromDays(t) =
          [year |-> Y + era * 400 + (IF mp >= 10 THEN 1 ELSE 0),
           month |-> IF mp < 10 THEN mp + 3 ELSE mp - 9,
           day |-> d - (153 * mp + 2) \div 5 + 1]
    BY DEF CivilFromDays
  <1>3. mp = (5 * d + 2) \div 153
    OBVIOUS
  <1>. HIDE DEF n, mp
  <1>4. CASE n < 0
    <2>1. era = 4 /\ e = 146097 + n
      BY <1>1, <1>4
    <2>2. d = e - (365 * Y + Y \div 4 - Y \div 100)
      OBVIOUS
    <2>3. e \div 1460 = 100 /\ e \div 36524 - e \div 146096 = 3
      <3>. HIDE DEF e
      <3>1. e \div 1460 = 100
        BY <1>1, <1>4, <2>1
      <3>2. CASE e = 146096
        <4>1. 146096 \div 36524 = 4 /\ 146096 \div 146096 = 1
          OBVIOUS
        <4>. QED  BY <3>1, <3>2, <4>1
      <3>3. CASE e # 146096
        <4>1. e \div 36524 = 3 /\ e \div 146096 = 0
          BY <1>1, <1>4, <2>1, <3>3
        <4>. QED  BY <3>1, <4>1
      <3>. QED  BY <3>2, <3>3
    <2>4. Y = 399
      <3>. DEFINE a == e \div 1460
                  b == e \div 36524
                  c == e \div 146096
      <3>1. a \in Int /\ b \in Int /\ c \in Int /\ e \in Int
        BY <1>1, <2>1
      <3>2. Y = (e - a + b - c) \div 365
        OBVIOUS
      <3>. HIDE DEF a, b, c, e, Y
      <3>3. e - a + b - c = e - 97
        BY <2>3, <3>1 DEF a, b, c
      <3>4. (e - 97) \div 365 = 399
        BY <1>1, <1>4, <2>1
      <3>. QED  BY <3>2, <3>3, <3>4
    <2>. HIDE DEF Y, e, era, d
    <2>5. d = e - 145731 /\ d \in 306..365
      <3>1. 399 \div 4 = 99 /\ 399 \div 100 = 3
        OBVIOUS
      <3>. QED  BY <1>1, <1>4, <2>1, <2>2, <2>4, <3>1
    <2>6. ASSUME NEW X \in -1..99, X < 0
          PROVE  IsMarchDay(t, X, d)
      <3>1. X \div 4 = -1 /\ X + 1 = 4 * ((X + 1) \div 4)
        BY <2>6, MinusOne
      <3>2. t = FirstMarch + 365 * X + (X \div 4) + d
        BY <1>1, <2>1, <2>5, <2>6, <3>1 DEF FirstMarch
      <3>3. Y + era * 400 + (IF mp >= 10 THEN 1 ELSE 0) = 2000 + X + (IF mp >= 10 THEN 1 ELSE 0)
        BY <2>1, <2>4, <2>6
      <3>4. CivilFromDays(t) =
              [year |-> 2000 + X + (IF mp >= 10 THEN 1 ELSE 0),
               month |-> IF mp < 10 THEN mp + 3 ELSE mp - 9,
               day |-> d - (153 * mp + 2) \div 5 + 1]
        BY <1>2, <3>3
      <3>5. d >= 306 /\ X # 99
        BY <2>5, <2>6
      <3>. QED  BY <1>3, <3>1, <3>2, <3>4, <3>5 DEF IsMarchDay
    <2>7. \E X \in -1..99 : X < 0
      OBVIOUS
    <2>. QED  BY <2>5, <2>6, <2>7
  <1>5. CASE n >= 0
    <2>1. era = 5 /\ e = n
      BY <1>1, <1>5
    <2>2. d = e - (365 * Y + Y \div 4 - Y \div 100)
      OBVIOUS
    <2>. DEFINE a == e \div 1460
    <2>3. e \div 36524 = 0 /\ e \div 146096 = 0 /\ a \in 0..24
          /\ 1460 * a <= e /\ e <= 1460 * a + 1459
      BY <1>1, <1>5, <2>1
    <2>4. Y \in Int /\ 365 * Y <= e - a /\ e - a <= 365 * Y + 364
      <3>. DEFINE x == e - a + e \div 36524 - e \div 146096
      <3>1. Y = x \div 365
        OBVIOUS
      <3>. HIDE DEF e, a, Y
      <3>2. x = e - a /\ e \in Int /\ a \in Int
        BY <1>1, <2>1, <2>3
      <3>. HIDE DEF x
      <3>. QED  BY <3>1, <3>2
    <2>. HIDE DEF Y, a, e, era, d
    <2>5. Y \in 0..99 /\ Y \div 100 = 0
      BY <1>1, <1>5, <2>1, <2>3, <2>4
    <2>. DEFINE q == Y \div 4
    <2>6. q \in Int /\ 4 * q <= Y /\ Y <= 4 * q + 3
      BY <2>5, Quarter
    <2>7. d = n - 365 * Y - q
      BY <1>1, <2>1, <2>2, <2>5, <2>6
    <2>. HIDE DEF q
    <2>8. d \in 0..365 /\ (d = 365 => Y = 4 * q + 3) /\ (Y = 99 => d <= 305)
      BY <1>1, <1>5, <2>1, <2>3, <2>4, <2>5, <2>6, <2>7
    <2>9. d = 365 => Y + 1 = 4 * ((Y + 1) \div 4)
      BY <2>5, <2>6, <2>8
    <2>10. t = FirstMarch + 365 * Y + (Y \div 4) + d
      BY <1>1, <2>5, <2>6, <2>7 DEF q, FirstMarch
    <2>11. Y + era * 400 + (IF mp >= 10 THEN 1 ELSE 0) = 2000 + Y + (IF mp >= 10 THEN 1 ELSE 0)
      BY <2>1, <2>5
    <2>12. CivilFromDays(t) =
             [year |-> 2000 + Y + (IF mp >= 10 THEN 1 ELSE 0),
              month |-> IF mp < 10 THEN mp + 3 ELSE mp - 9,
              day |-> d - (153 * mp + 2) \div 5 + 1]
      BY <1>2, <2>11
    <2>13. Y \in -1..99 /\ Y # -1
      BY <2>5
    <2>14. IsMarchDay(t, Y, d)
      BY <1>3, <2>8, <2>9, <2>10, <2>12, <2>13 DEF IsMarchDay
    <2>. QED  BY <2>8, <2>13, <2>14
  <1>6. n < 0 \/ n >= 0
    BY <1>1
  <1>. QED  BY <1>4, <1>5, <1>6

\* On every day of the chip's century civilFromDays gives a valid date, and
\* daysFromCivil gives the day back (pcf8563.cpp:29-49).
THEOREM CivilInverse ==
  ASSUME NEW t \in FirstDay..LastDay
  PROVE  LET c == CivilFromDays(t)
         IN  /\ c.year \in Years /\ c.month \in 1..12
             /\ c.day \in 1..DaysInMonth(c.year, c.month)
             /\ DaysFromCivil(c.year, c.month, c.day) = t
  <1>1. PICK Y \in -1..99, d \in 0..365 : IsMarchDay(t, Y, d)
    BY MarchDay
  <1>. DEFINE mp == (5 * d + 2) \div 153
              year == 2000 + Y + (IF mp >= 10 THEN 1 ELSE 0)
              month == IF mp < 10 THEN mp + 3 ELSE mp - 9
              day == d - (153 * mp + 2) \div 5 + 1
              start == MonthStart(month)
  <1>2. /\ mp \in 0..11 /\ month \in 1..12 /\ (month <= 2 <=> mp >= 10)
        /\ (153 * mp + 2) \div 5 = start /\ start <= d
        /\ d <= start + (CASE month \in {4, 6, 9, 11} -> 29 [] month = 2 -> 28 [] OTHER -> 30)
    BY MonthSplit
  <1>3. /\ CivilFromDays(t) = [year |-> year, month |-> month, day |-> day]
        /\ t = FirstMarch + 365 * Y + (Y \div 4) + d
        /\ d = 365 => Y + 1 = 4 * ((Y + 1) \div 4)
        /\ Y < 0 => d >= 306
        /\ Y = 99 => d <= 305
    BY <1>1 DEF IsMarchDay
  <1>4. start \in Int
    BY <1>2 DEF MonthStart
  <1>5. /\ mp >= 10 <=> d >= 306
        /\ month = 2 => start = 337
    BY <1>2 DEF MonthStart
  <1>. HIDE DEF mp
  <1>6. day = d - start + 1
    BY <1>2
  <1>7. /\ mp >= 10 => year = 2001 + Y
        /\ mp < 10 => year = 2000 + Y
        /\ year \in Int
    BY <1>2
  <1>. HIDE DEF month, start, day, year
  <1>8. year >= 2000 /\ year <= 2099
    BY <1>2, <1>3, <1>5, <1>7
  <1>9. year \in Years
    BY <1>7, <1>8 DEF Years
  <1>10. day \in 1..DaysInMonth(year, month)
    <2>1. CASE month \in {4, 6, 9, 11}
      <3>1. DaysInMonth(year, month) = 30 /\ d <= start + 29
        BY <1>2, <2>1 DEF DaysInMonth
      <3>. QED  BY <1>2, <1>4, <1>6, <3>1
    <2>2. CASE month = 2
      <3>1. d <= 365 /\ start = 337 /\ mp >= 10
        BY <1>2, <1>5, <2>2
      <3>2. d = 365 => LeapYear(year)
        <4>1. d = 365 => year = 2000 + 4 * ((Y + 1) \div 4)
          BY <1>3, <1>7, <3>1
        <4>2. d = 365 => year = 4 * (year \div 4)
          BY <1>7, <4>1
        <4>. QED  BY <1>9, <4>2, LeapInCentury
      <3>3. DaysInMonth(year, month) = IF LeapYear(year) THEN 29 ELSE 28
        BY <2>2 DEF DaysInMonth
      <3>4. LeapYear(year) => d - start + 1 \in 1..29
        BY <1>2, <3>1
      <3>5. ~LeapYear(year) => d - start + 1 \in 1..28
        BY <1>2, <3>1, <3>2
      <3>. QED  BY <1>6, <3>3, <3>4, <3>5
    <2>3. CASE month \notin {2, 4, 6, 9, 11}
      <3>1. DaysInMonth(year, month) = 31 /\ d <= start + 30
        BY <1>2, <2>3 DEF DaysInMonth
      <3>. QED  BY <1>2, <1>4, <1>6, <3>1
    <2>. QED  BY <2>1, <2>2, <2>3
  <1>11. DaysFromCivil(year, month, day) = t
    <2>1. MarchYear(year, month) = Y
      BY <1>2, <1>7 DEF MarchYear
    <2>2. DaysFromCivil(year, month, day) = FirstMarch + 365 * Y + (Y \div 4) + start + day - 1
      <3>1. day \in Int
        BY <1>4, <1>6
      <3>. QED  BY <1>2, <1>9, <2>1, <3>1, DayNumber DEF start
    <2>3. FirstMarch \in Int /\ Y \div 4 \in Int
      BY DEF FirstMarch
    <2>. QED  BY <1>3, <1>4, <1>6, <2>2, <2>3
  <1>. QED  BY <1>2, <1>3, <1>9, <1>10, <1>11

-----------------------------------------------------------------------------
(* Neighbouring days *)

\* A date of the chip's century.
IsDate(year, month, day) ==
  year \in Years /\ month \in 1..12 /\ day \in 1..DaysInMonth(year, month)

LEMMA MonthLengths ==
  ASSUME NEW year \in Years, NEW month \in 1..12
  PROVE  /\ DaysInMonth(year, month) \in 28..31
         /\ ChipMonthLength(year - 2000, month) = DaysInMonth(year, month)
         /\ month # 2 => MonthStart(month) + DaysInMonth(year, month) =
                           IF month = 12 THEN MonthStart(1) ELSE MonthStart(month + 1)
  <1>1. LeapYear(year) <=> (year - 2000) % 4 = 0
    <2>1. year \in Int /\ year >= 2000 /\ year <= 2099
      BY DEF Years
    <2>2. ((year - 2000) % 4 = 0) <=> year = 4 * (year \div 4)
      BY <2>1
    <2>. QED  BY <2>2, LeapInCentury
  <1>2. /\ DaysInMonth(year, month) \in 28..31
        /\ ChipMonthLength(year - 2000, month) = DaysInMonth(year, month)
    BY <1>1 DEF DaysInMonth, ChipMonthLength
  <1>. QED  BY <1>2 DEF DaysInMonth, MonthStart

\* Within a year that begins in March each month follows the one before it.
LEMMA NextDate ==
  ASSUME NEW year \in Years, NEW month \in 1..12
  PROVE  LET days == DaysInMonth(year, month)
         IN  /\ month < 12 => DaysFromCivil(year, month + 1, 1)
                              = DaysFromCivil(year, month, days) + 1
             /\ month = 12 /\ year + 1 \in Years =>
                  DaysFromCivil(year + 1, 1, 1) = DaysFromCivil(year, month, days) + 1
  <1>. DEFINE days == DaysInMonth(year, month)
              Y == MarchYear(year, month)
              q == Y \div 4
  <1>1. days \in 28..31 /\ Y \in -1..99 /\ q \in Int /\ 4 * q <= Y /\ Y <= 4 * q + 3
    <2>1. Y \in -1..99
      BY DEF MarchYear, Years
    <2>. HIDE DEF Y
    <2>. QED  BY <2>1, MonthLengths, Quarter
  <1>2. DaysFromCivil(year, month, days) = FirstMarch + 365 * Y + q + MonthStart(month) + days - 1
    BY <1>1, DayNumber
  <1>3. MonthStart(month) \in Int /\ FirstMarch \in Int
    BY DEF MonthStart, FirstMarch
  <1>. SUFFICES
         /\ month < 12 => DaysFromCivil(year, month + 1, 1) = DaysFromCivil(year, month, days) + 1
         /\ month = 12 /\ year + 1 \in Years =>
              DaysFromCivil(year + 1, 1, 1) = DaysFromCivil(year, month, days) + 1
    OBVIOUS
  <1>4. CASE month < 12 /\ month # 2
    <2>1. /\ MarchYear(year, month + 1) = Y
          /\ MonthStart(month + 1) = MonthStart(month) + days
      BY <1>4, MonthLengths DEF MarchYear
    <2>2. DaysFromCivil(year, month + 1, 1) = FirstMarch + 365 * Y + q + MonthStart(month + 1) + 1 - 1
      BY <1>4, <2>1, DayNumber
    <2>. HIDE DEF days, Y, q
    <2>. QED  BY <1>1, <1>2, <1>3, <1>4, <2>1, <2>2
  <1>5. CASE month = 2
    <2>. DEFINE Z == year - 2000
                p == Z \div 4
    <2>1. /\ Z = Y + 1 /\ Z \in 0..99 /\ p \in Int /\ 4 * p <= Z /\ Z <= 4 * p + 3
          /\ MonthStart(month) = 337 /\ MonthStart(3) = 0 /\ MarchYear(year, 3) = Z
      <3>1. Z = Y + 1 /\ Z \in 0..99 /\ MarchYear(year, 3) = Z
        BY <1>5 DEF MarchYear, Years
      <3>2. MonthStart(month) = 337 /\ MonthStart(3) = 0
        BY <1>5 DEF MonthStart
      <3>. HIDE DEF Z
      <3>. QED  BY <3>1, <3>2, Quarter
    <2>2. DaysFromCivil(year, 3, 1) = FirstMarch + 365 * Z + p + 0 + 1 - 1
      BY <2>1, DayNumber
    <2>3. days = IF 4 * p = Z THEN 29 ELSE 28
      <3>1. LeapYear(year) <=> year = 4 * (year \div 4)
        BY LeapInCentury
      <3>2. year \in Int /\ year = 2000 + Z
        BY DEF Years
      <3>3. year = 4 * (year \div 4) <=> 4 * p = Z
        BY <3>2
      <3>. QED  BY <1>5, <3>1, <3>3 DEF DaysInMonth
    <2>. HIDE DEF days, Y, q, Z, p
    <2>4. q + (IF 4 * p = Z THEN 1 ELSE 0) = p
      BY <1>1, <2>1
    <2>5. month + 1 = 3
      BY <1>5
    <2>6. DaysFromCivil(year, 3, 1) = DaysFromCivil(year, month, days) + 1
      BY <1>1, <1>2, <1>3, <2>1, <2>2, <2>3, <2>4
    <2>. QED  BY <1>5, <2>5, <2>6
  <1>6. CASE month = 12
    <2>. SUFFICES ASSUME year + 1 \in Years
                  PROVE  DaysFromCivil(year + 1, 1, 1) = DaysFromCivil(year, month, days) + 1
      BY <1>6
    <2>1. /\ MarchYear(year + 1, 1) = Y /\ days = 31
          /\ MonthStart(month) = 275 /\ MonthStart(1) = 306
      <3>1. MarchYear(year + 1, 1) = Y
        BY <1>6 DEF MarchYear, Years
      <3>. QED  BY <1>6, <3>1 DEF MonthStart, DaysInMonth
    <2>2. DaysFromCivil(year + 1, 1, 1) = FirstMarch + 365 * Y + q + MonthStart(1) + 1 - 1
      BY <2>1, DayNumber
    <2>. HIDE DEF days, Y, q
    <2>. QED  BY <1>1, <1>2, <1>3, <2>1, <2>2
  <1>. QED  BY <1>4, <1>5, <1>6

LEMMA DateRange ==
  ASSUME NEW year, NEW month, NEW day, IsDate(year, month, day)
  PROVE  /\ DaysFromCivil(year, month, day) \in FirstDay..LastDay
         /\ DaysFromCivil(year, month, day) < LastDay /\ month = 12 /\ day = 31
              => year + 1 \in Years
         /\ DaysFromCivil(year, month, day) = LastDay => month = 12 /\ day = 31
         /\ day \in 1..31
  <1>. DEFINE Y == MarchYear(year, month)
              q == Y \div 4
              n == DaysFromCivil(year, month, day)
  <1>1. year \in Int /\ year >= 2000 /\ year <= 2099 /\ year \in Years
    BY DEF IsDate, Years
  <1>2. month \in 1..12 /\ day \in 1..DaysInMonth(year, month) /\ day \in 1..31 /\ day \in Int
    <2>1. DaysInMonth(year, month) \in 28..31
      BY MonthLengths DEF IsDate
    <2>. QED  BY <2>1 DEF IsDate
  <1>3. Y \in -1..99 /\ (month > 2 => Y = year - 2000) /\ (month <= 2 => Y = year - 2001)
    BY <1>1, <1>2 DEF MarchYear
  <1>4. q \in Int /\ 4 * q <= Y /\ Y <= 4 * q + 3
    <2>. HIDE DEF Y
    <2>. QED  BY <1>3, Quarter
  <1>5. n = FirstMarch + 365 * Y + q + MonthStart(month) + day - 1
    BY <1>1, <1>2, DayNumber
  <1>6. /\ MonthStart(month) \in Int /\ MonthStart(month) >= 0 /\ MonthStart(month) <= 337
        /\ month > 2 => MonthStart(month) <= 275
        /\ month <= 2 => MonthStart(month) >= 306
        /\ month = 2 => day <= 29
        /\ month > 2 /\ month < 12 => MonthStart(month) <= 245
    <2>1. month = 2 => day <= 29
      <3>. SUFFICES ASSUME month = 2  PROVE day <= 29
        OBVIOUS
      <3>1. DaysInMonth(year, month) \in 28..29
        BY DEF DaysInMonth
      <3>. QED  BY <1>2, <3>1
    <2>2. /\ MonthStart(month) \in Int /\ MonthStart(month) >= 0 /\ MonthStart(month) <= 337
          /\ month > 2 => MonthStart(month) <= 275
          /\ month <= 2 => MonthStart(month) >= 306
          /\ month > 2 /\ month < 12 => MonthStart(month) <= 245
      BY <1>2, MonthStartRange
    <2>. QED  BY <2>1, <2>2
  <1>. HIDE DEF Y, q, n
  <1>7. n \in Int /\ n >= 10957 /\ n <= 47481
    BY <1>1, <1>2, <1>3, <1>4, <1>5, <1>6 DEF FirstMarch
  <1>8. month = 12 /\ day = 31 /\ n < 47481 => year <= 2098
    <2>. SUFFICES ASSUME month = 12, day = 31, year >= 2099
                  PROVE  n >= 47481
      BY <1>1, <1>7
    <2>1. MonthStart(month) = 275 /\ Y >= 99
      BY <1>3 DEF MonthStart
    <2>. QED  BY <1>3, <1>4, <1>5, <2>1 DEF FirstMarch
  <1>9. n >= 47481 => month = 12 /\ day = 31
    <2>1. n >= 47481 => month = 12
      BY <1>1, <1>2, <1>3, <1>4, <1>5, <1>6 DEF FirstMarch
    <2>2. month = 12 => MonthStart(month) = 275
      BY DEF MonthStart
    <2>. QED  BY <1>1, <1>2, <1>3, <1>4, <1>5, <2>1, <2>2 DEF FirstMarch
  <1>10. n \in FirstDay..LastDay
    BY <1>7, CenturyDays
  <1>11. n < LastDay /\ month = 12 /\ day = 31 => year + 1 \in Years
    <2>1. n < LastDay => n < 47481
      BY <1>7, CenturyDays
    <2>2. year <= 2098 => year + 1 \in Years
      BY <1>1 DEF Years
    <2>. QED  BY <1>8, <2>1, <2>2
  <1>12. n = LastDay => n >= 47481
    BY <1>7, CenturyDays
  <1>. QED  BY <1>2, <1>9, <1>10, <1>11, <1>12 DEF n

\* Two dates with the same day of the month are the same, or more than the
\* horizon of 27 days apart: why an alarm that knows no month can be trusted for
\* so long (pcf8563.cpp:14).
THEOREM SameDayOfMonth ==
  ASSUME NEW y1, NEW m1, NEW y2, NEW m2, NEW day,
         IsDate(y1, m1, day), IsDate(y2, m2, day),
         DaysFromCivil(y1, m1, day) <= DaysFromCivil(y2, m2, day),
         DaysFromCivil(y2, m2, day) <= DaysFromCivil(y1, m1, day) + HorizonDays
  PROVE  DaysFromCivil(y1, m1, day) = DaysFromCivil(y2, m2, day)
  <1>. DEFINE A == MarchYear(y1, m1)
              B == MarchYear(y2, m2)
              p == A \div 4
              q == B \div 4
              s == MonthStart(m1)
              t == MonthStart(m2)
  <1>1. /\ y1 \in Years /\ m1 \in 1..12 /\ y2 \in Years /\ m2 \in 1..12 /\ day \in 1..31
    BY DateRange DEF IsDate
  <1>2. A \in -1..99 /\ B \in -1..99
    BY <1>1 DEF MarchYear, Years
  <1>3. /\ p \in Int /\ 4 * p <= A /\ A <= 4 * p + 3
        /\ q \in Int /\ 4 * q <= B /\ B <= 4 * q + 3
    <2>. HIDE DEF A, B
    <2>. QED  BY <1>2, Quarter
  <1>4. /\ DaysFromCivil(y1, m1, day) = FirstMarch + 365 * A + p + s + day - 1
        /\ DaysFromCivil(y2, m2, day) = FirstMarch + 365 * B + q + t + day - 1
    BY <1>1, DayNumber
  <1>5. /\ s \in 0..337 /\ t \in 0..337
        /\ s = t \/ s - t >= 30 \/ t - s >= 30
    BY <1>1 DEF MonthStart
  <1>6. FirstMarch \in Int /\ HorizonDays = 27
    BY DEF FirstMarch, HorizonDays
  <1>. DEFINE m == DaysFromCivil(y1, m1, day)
              n == DaysFromCivil(y2, m2, day)
  <1>7. m <= n /\ n <= m + 27
    BY <1>6
  <1>. SUFFICES m = n
    OBVIOUS
  <1>. HIDE DEF A, B, p, q, s, t, m, n
  <1>8. /\ m = FirstMarch + 365 * A + p + s + day - 1
        /\ n = FirstMarch + 365 * B + q + t + day - 1
    BY <1>4 DEF m, n
  <1>9. CASE A = B
    <2>1. p = q
      BY <1>2, <1>3, <1>9
    <2>. QED  BY <1>1, <1>2, <1>3, <1>5, <1>6, <1>7, <1>8, <1>9, <2>1
  <1>10. CASE A < B
    <2>1. p <= q
      BY <1>2, <1>3, <1>10
    <2>. QED  BY <1>1, <1>2, <1>3, <1>5, <1>6, <1>7, <1>8, <1>10, <2>1
  <1>11. CASE A > B
    <2>1. p >= q
      BY <1>2, <1>3, <1>11
    <2>. QED  BY <1>1, <1>2, <1>3, <1>5, <1>6, <1>7, <1>8, <1>11, <2>1
  <1>. QED  BY <1>2, <1>9, <1>10, <1>11

LEMMA DayOfMonth ==
  ASSUME NEW year \in Years, NEW month \in 1..12, NEW day \in Int
  PROVE  DaysFromCivil(year, month, day) = DaysFromCivil(year, month, 1) + day - 1
  <1>. DEFINE Y == MarchYear(year, month)
              q == Y \div 4
              start == MonthStart(month)
  <1>1. DaysFromCivil(year, month, day) = FirstMarch + 365 * Y + q + start + day - 1
    BY DayNumber
  <1>2. DaysFromCivil(year, month, 1) = FirstMarch + 365 * Y + q + start + 1 - 1
    BY DayNumber
  <1>3. Y \in Int
    BY DEF MarchYear, Years
  <1>4. q \in Int /\ start \in Int /\ FirstMarch \in Int
    BY <1>3, Quarter, MonthStartRange DEF FirstMarch
  <1>. HIDE DEF Y, q, start
  <1>. QED  BY <1>1, <1>2, <1>3, <1>4

\* The day after a date, as the chip counts it.
NextOf(year, month, day) ==
  LET monthEnds == day >= DaysInMonth(year, month)
      yearEnds == monthEnds /\ month >= 12
  IN  [year |-> IF yearEnds THEN year + 1 ELSE year,
       month |-> IF yearEnds THEN 1 ELSE IF monthEnds THEN month + 1 ELSE month,
       day |-> IF monthEnds THEN 1 ELSE day + 1]

LEMMA NextDay ==
  ASSUME NEW year, NEW month, NEW day, IsDate(year, month, day),
         DaysFromCivil(year, month, day) < LastDay
  PROVE  LET next == NextOf(year, month, day)
         IN  /\ IsDate(next.year, next.month, next.day)
             /\ DaysFromCivil(next.year, next.month, next.day)
                  = DaysFromCivil(year, month, day) + 1
  <1>. DEFINE days == DaysInMonth(year, month)
              next == NextOf(year, month, day)
  <1>1. /\ year \in Years /\ month \in 1..12 /\ day \in 1..days
        /\ year \in Int /\ month \in Int /\ day \in Int /\ days \in Int
        /\ 1 <= month /\ month <= 12 /\ 1 <= day /\ day <= days
    BY MonthLengths DEF IsDate, Years
  <1>2. CASE day < days
    <2>1. next.year = year /\ next.month = month /\ next.day = day + 1
      BY <1>1, <1>2 DEF NextOf
    <2>2. IsDate(year, month, day + 1)
      <3>. HIDE DEF days
      <3>. QED  BY <1>1, <1>2 DEF IsDate, days
    <2>3. DaysFromCivil(year, month, day + 1) = DaysFromCivil(year, month, day) + 1
      <3>1. /\ DaysFromCivil(year, month, day) = DaysFromCivil(year, month, 1) + day - 1
            /\ DaysFromCivil(year, month, day + 1) = DaysFromCivil(year, month, 1) + (day + 1) - 1
        BY <1>1, DayOfMonth
      <3>2. DaysFromCivil(year, month, 1) \in Int
        <4>1. IsDate(year, month, 1)
          <5>. HIDE DEF days
          <5>. QED  BY <1>1 DEF IsDate, days
        <4>. QED  BY <4>1, DateRange, CenturyDays
      <3>. QED  BY <1>1, <3>1, <3>2
    <2>. QED  BY <2>1, <2>2, <2>3
  <1>3. CASE day = days /\ month < 12
    <2>1. next.year = year /\ next.month = month + 1 /\ next.day = 1
      BY <1>1, <1>3 DEF NextOf
    <2>2. IsDate(year, month + 1, 1)
      <3>1. month + 1 \in 1..12
        BY <1>1, <1>3
      <3>2. DaysInMonth(year, month + 1) \in 28..31
        BY <1>1, <3>1, MonthLengths
      <3>. QED  BY <1>1, <3>1, <3>2 DEF IsDate
    <2>3. DaysFromCivil(year, month + 1, 1) = DaysFromCivil(year, month, days) + 1
      BY <1>1, <1>3, NextDate
    <2>. QED  BY <1>3, <2>1, <2>2, <2>3
  <1>4. CASE day = days /\ month = 12
    <2>1. next.year = year + 1 /\ next.month = 1 /\ next.day = 1
      BY <1>1, <1>4 DEF NextOf
    <2>2. days = 31
      BY <1>4 DEF DaysInMonth
    <2>3. year + 1 \in Years
      BY <1>4, <2>2, DateRange
    <2>4. IsDate(year + 1, 1, 1)
      <3>1. DaysInMonth(year + 1, 1) \in 28..31
        BY <2>3, MonthLengths
      <3>. QED  BY <2>3, <3>1 DEF IsDate
    <2>5. DaysFromCivil(year + 1, 1, 1) = DaysFromCivil(year, month, days) + 1
      BY <1>1, <1>4, <2>3, NextDate
    <2>. QED  BY <1>4, <2>1, <2>4, <2>5
  <1>. QED  BY <1>1, <1>2, <1>3, <1>4

-----------------------------------------------------------------------------
(* The registers *)

ClockDigits == [1..7 -> (0..9) \X (0..9)]

LEMMA Positions ==
  /\ DOMAIN ClockRegisters = 1..7 /\ Len(ClockRegisters) = 7
  /\ Position("second") = 1 /\ Position("minute") = 2 /\ Position("hour") = 3
  /\ Position("day") = 4 /\ Position("weekday") = 5 /\ Position("month") = 6
  /\ Position("year") = 7
  BY DEF ClockRegisters, Position

LEMMA RegisterValue ==
  ASSUME NEW registers \in ClockDigits, NEW i \in 1..7
  PROVE  /\ BcdValue(registers[i]) \in Int
         /\ BcdValue(registers[i]) >= 0 /\ BcdValue(registers[i]) <= 99
         /\ registers[i][1] <= 9 /\ registers[i][2] <= 9
  BY DEF ClockDigits, BcdValue

\* What the registers show, if it is a time at all.
Value(registers, i) == BcdValue(registers[i])

ShownDay(registers) ==
  DaysFromCivil(2000 + Value(registers, 7), Value(registers, 6), Value(registers, 4))

ShownSecond(registers) ==
  Value(registers, 3) * 3600 + Value(registers, 2) * 60 + Value(registers, 1)

Shows(registers) ==
  /\ Value(registers, 1) <= 59 /\ Value(registers, 2) <= 59 /\ Value(registers, 3) <= 23
  /\ Value(registers, 5) <= 6
  /\ IsDate(2000 + Value(registers, 7), Value(registers, 6), Value(registers, 4))

LEMMA ShownRange ==
  ASSUME NEW registers \in ClockDigits, Shows(registers)
  PROVE  /\ ShownDay(registers) \in FirstDay..LastDay
         /\ ShownSecond(registers) \in 0..DaySeconds - 1
  <1>1. ShownDay(registers) \in FirstDay..LastDay
    BY DateRange DEF Shows, ShownDay
  <1>2. \A i \in 1..3 : Value(registers, i) \in Int /\ Value(registers, i) >= 0
    BY RegisterValue DEF Value
  <1>3. ShownSecond(registers) \in Int /\ ShownSecond(registers) >= 0 /\ ShownSecond(registers) <= 86399
    BY <1>2 DEF ShownSecond, Shows
  <1>4. ShownSecond(registers) \in 0..DaySeconds - 1
    <2>. DEFINE s == ShownSecond(registers)
    <2>. HIDE DEF s
    <2>1. s \in Int /\ s >= 0 /\ s <= DaySeconds - 1
      BY <1>3, DayLength DEF s
    <2>. QED  BY <2>1, DayLength DEF s
  <1>. QED  BY <1>1, <1>4

LEMMA DecodedFields ==
  ASSUME NEW registers
  PROVE  /\ Decoded(registers).year = 2000 + Value(registers, 7)
         /\ Decoded(registers).month = Value(registers, 6)
         /\ Decoded(registers).day = Value(registers, 4)
         /\ Decoded(registers).weekday = Value(registers, 5)
         /\ Decoded(registers).hour = Value(registers, 3)
         /\ Decoded(registers).minute = Value(registers, 2)
         /\ Decoded(registers).second = Value(registers, 1)
  BY Positions DEF Decoded, Value

\* The driver finds a valid time if and only if the registers show one.
LEMMA Reading ==
  ASSUME NEW registers \in ClockDigits, NEW low \in BOOLEAN
  PROVE  LET reading == ReadDateTime(registers, low)
         IN  /\ reading \in [state : {"valid", "invalidVl", "uninitialized"},
                             time : [day : Nat, second : 0..DaySeconds - 1]]
             /\ reading.state = "valid" <=> ~low /\ Shows(registers)
             /\ reading.state = "valid" =>
                  reading.time = [day |-> ShownDay(registers), second |-> ShownSecond(registers)]
  <1>. DEFINE v(i) == Value(registers, i)
              d == Decoded(registers)
              reading == ReadDateTime(registers, low)
              broken == \E i \in DOMAIN ClockRegisters :
                          ~BcdDecodes(registers[i], Maximum(ClockRegisters[i]))
  <1>1. \A i \in 1..7 : v(i) \in Int /\ v(i) >= 0 /\ v(i) <= 99
    BY RegisterValue DEF Value
  <1>2. \A i \in 1..7 : BcdDecodes(registers[i], Maximum(ClockRegisters[i]))
                          <=> v(i) <= Maximum(ClockRegisters[i])
    BY RegisterValue DEF BcdDecodes, Value
  <1>3. /\ Maximum(ClockRegisters[1]) = 59 /\ Maximum(ClockRegisters[2]) = 59
        /\ Maximum(ClockRegisters[3]) = 23 /\ Maximum(ClockRegisters[4]) = 31
        /\ Maximum(ClockRegisters[5]) = 6 /\ Maximum(ClockRegisters[6]) = 12
        /\ Maximum(ClockRegisters[7]) = 99
    BY DEF Maximum, ClockRegisters
  <1>4. broken <=> ~(/\ v(1) <= 59 /\ v(2) <= 59 /\ v(3) <= 23 /\ v(4) <= 31
                     /\ v(5) <= 6 /\ v(6) <= 12 /\ v(7) <= 99)
    <2>. SUFFICES ~broken <=> /\ v(1) <= 59 /\ v(2) <= 59 /\ v(3) <= 23 /\ v(4) <= 31
                              /\ v(5) <= 6 /\ v(6) <= 12 /\ v(7) <= 99
      OBVIOUS
    <2>1. ~broken <=> \A i \in 1..7 : v(i) <= Maximum(ClockRegisters[i])
      BY <1>2, Positions
    <2>. HIDE DEF v, broken
    <2>. QED  BY <1>3, <2>1
  <1>5. DateTimeValid(d) <=>
          /\ IsDate(2000 + v(7), v(6), v(4))
          /\ v(5) \in 0..6 /\ v(3) \in 0..23 /\ v(2) \in 0..59 /\ v(1) \in 0..59
    BY DecodedFields DEF DateTimeValid, IsDate
  <1>6. DateTimeValid(d) => v(4) <= 31 /\ v(6) <= 12
    BY <1>5, DateRange DEF IsDate
  <1>7. /\ v(5) \in 0..6 <=> v(5) <= 6 
        /\ v(3) \in 0..23 <=> v(3) <= 23
        /\ v(2) \in 0..59 <=> v(2) <= 59
        /\ v(1) \in 0..59 <=> v(1) <= 59
        /\ v(7) <= 99
    <2>. HIDE DEF v
    <2>. QED  BY <1>1
  <1>8. DateTimeValid(d) /\ ~broken <=> Shows(registers)
    BY <1>4, <1>5, <1>6, <1>7 DEF Shows
  <1>9. DateTimeToUnix(d) = [day |-> ShownDay(registers), second |-> ShownSecond(registers)]
    BY DecodedFields DEF DateTimeToUnix, ShownDay, ShownSecond
  <1>10. reading = IF broken \/ ~DateTimeValid(d) THEN [state |-> "uninitialized", time |-> Never]
                   ELSE IF low THEN [state |-> "invalidVl", time |-> Never]
                   ELSE [state |-> "valid",
                         time |-> [day |-> ShownDay(registers), second |-> ShownSecond(registers)]]
    BY <1>9 DEF ReadDateTime
  <1>11. Never \in [day : Nat, second : 0..DaySeconds - 1]
    BY DayLength DEF Never
  <1>12. Shows(registers) => [day |-> ShownDay(registers), second |-> ShownSecond(registers)]
                               \in [day : Nat, second : 0..DaySeconds - 1]
    <2>1. Shows(registers) => ShownDay(registers) \in Nat
      BY ShownRange, CenturyDays
    <2>. QED  BY <2>1, ShownRange
  <1>. HIDE DEF broken, d, reading
  <1>. SUFFICES /\ reading \in [state : {"valid", "invalidVl", "uninitialized"},
                                time : [day : Nat, second : 0..DaySeconds - 1]]
                /\ reading.state = "valid" <=> ~low /\ Shows(registers)
                /\ reading.state = "valid" =>
                     reading.time = [day |-> ShownDay(registers), second |-> ShownSecond(registers)]
    BY DEF reading
  <1>13. CASE ~Shows(registers)
    BY <1>8, <1>10, <1>11, <1>13
  <1>14. CASE Shows(registers) /\ low
    BY <1>8, <1>10, <1>11, <1>14
  <1>15. CASE Shows(registers) /\ ~low
    BY <1>8, <1>10, <1>12, <1>15
  <1>. QED  BY <1>13, <1>14, <1>15

LEMMA HourSplit ==
  ASSUME NEW x \in Int, x >= 0, x <= 86399
  PROVE  /\ x \div 3600 \in Int /\ x \div 3600 >= 0 /\ x \div 3600 <= 23
         /\ (x % 3600) \div 60 \in Int /\ (x % 3600) \div 60 >= 0 /\ (x % 3600) \div 60 <= 59
         /\ (x % 60) \in Int /\ (x % 60) >= 0 /\ (x % 60) <= 59
         /\ x = 3600 * (x \div 3600) + 60 * ((x % 3600) \div 60) + (x % 60)
  <1>. DEFINE h == x \div 3600
              r == x % 3600
              m == r \div 60
              s == x % 60
  <1>1. h \in Int /\ h >= 0 /\ h <= 23 /\ r \in Int /\ r >= 0 /\ r <= 3599 /\ x = 3600 * h + r
    OBVIOUS
  <1>2. s \in Int /\ s >= 0 /\ s <= 59
    OBVIOUS
  <1>3. \E u \in Int : x = 60 * u + s
    <2>1. x = 60 * (x \div 60) + s /\ x \div 60 \in Int
      OBVIOUS
    <2>. QED  BY <2>1
  <1>. SUFFICES /\ h \in Int /\ h >= 0 /\ h <= 23
                /\ m \in Int /\ m >= 0 /\ m <= 59
                /\ s \in Int /\ s >= 0 /\ s <= 59
                /\ x = 3600 * h + 60 * m + s
    OBVIOUS
  <1>. HIDE DEF h, r, s
  <1>4. m \in Int /\ m >= 0 /\ m <= 59 /\ 60 * m <= r /\ r <= 60 * m + 59
    BY <1>1
  <1>. HIDE DEF m
  <1>5. PICK u \in Int : x = 60 * u + s
    BY <1>3
  <1>6. u = 60 * h + m
    BY <1>1, <1>2, <1>4, <1>5
  <1>. QED  BY <1>1, <1>2, <1>4, <1>5, <1>6

LEMMA DigitsValue ==
  ASSUME NEW x \in Int, x >= 0, x <= 99
  PROVE  Digits(x) \in (0..9) \X (0..9) /\ BcdValue(Digits(x)) = x
  <1>. DEFINE q == x \div 10
              r == x % 10
  <1>1. /\ q \in Int /\ q >= 0 /\ q <= 9 /\ r \in Int /\ r >= 0 /\ r <= 9
        /\ x = 10 * q + r
    OBVIOUS
  <1>2. Digits(x) = <<q, r>>
    BY DEF Digits
  <1>. HIDE DEF q, r
  <1>. QED  BY <1>1, <1>2 DEF BcdValue

\* The registers after the chip has counted, one by one.
LEMMA Counted ==
  ASSUME NEW registers \in ClockDigits, NEW seconds \in Nat
  PROVE  LET v(i) == Value(registers, i)
             r == ChipAdvanced(registers, seconds)
             sum == ShownSecond(registers) + seconds
             inDay == sum % DaySeconds
             midnight == sum >= DaySeconds
             monthEnds == midnight /\ v(4) >= ChipMonthLength(v(7), v(6))
             yearEnds == monthEnds /\ v(6) >= 12
         IN  /\ r \in ClockDigits
             /\ Value(r, 1) = inDay % 60
             /\ Value(r, 2) = (inDay % 3600) \div 60
             /\ Value(r, 3) = inDay \div 3600
             /\ Value(r, 4) = IF monthEnds THEN 1 ELSE IF midnight THEN v(4) + 1 ELSE v(4)
             /\ Value(r, 5) = IF midnight THEN (v(5) + 1) % 7 ELSE v(5)
             /\ Value(r, 6) = IF yearEnds THEN 1 ELSE IF monthEnds THEN v(6) + 1 ELSE v(6)
             /\ Value(r, 7) = IF yearEnds THEN (v(7) + 1) % 100 ELSE v(7)
  <1>. DEFINE v(i) == Value(registers, i)
              r == ChipAdvanced(registers, seconds)
              sum == ShownSecond(registers) + seconds
              inDay == sum % DaySeconds
              midnight == sum >= DaySeconds
              length == ChipMonthLength(v(7), v(6))
              monthEnds == midnight /\ v(4) >= length
              yearEnds == monthEnds /\ v(6) >= 12
              w == <<inDay % 60, (inDay % 3600) \div 60, inDay \div 3600,
                     IF monthEnds THEN 1 ELSE IF midnight THEN v(4) + 1 ELSE v(4),
                     IF midnight THEN (v(5) + 1) % 7 ELSE v(5),
                     IF yearEnds THEN 1 ELSE IF monthEnds THEN v(6) + 1 ELSE v(6),
                     IF yearEnds THEN (v(7) + 1) % 100 ELSE v(7)>>
  <1>1. \A i \in 1..7 : v(i) \in Int /\ v(i) >= 0 /\ v(i) <= 99
    BY RegisterValue DEF Value
  <1>2. length \in 28..31
    BY DEF ChipMonthLength
  <1>3. r = <<Digits(w[1]), Digits(w[2]), Digits(w[3]), Digits(w[4]), Digits(w[5]),
              Digits(w[6]), Digits(w[7])>>
    <2>1. DOMAIN registers = 1..7
      BY DEF ClockDigits
    <2>. QED  BY <2>1 DEF ChipAdvanced, Value, ShownSecond
  <1>4. sum \in Nat
    BY <1>1 DEF ShownSecond
  <1>5. inDay \in Int /\ inDay >= 0 /\ inDay <= 86399
    <2>1. inDay \in 0..DaySeconds - 1
      BY <1>4, DaySplit
    <2>. HIDE DEF inDay
    <2>. QED  BY <2>1, DayLength
  <1>6. /\ w[1] \in Int /\ w[1] >= 0 /\ w[1] <= 99
        /\ w[2] \in Int /\ w[2] >= 0 /\ w[2] <= 99
        /\ w[3] \in Int /\ w[3] >= 0 /\ w[3] <= 99
    <2>. HIDE DEF inDay
    <2>1. /\ inDay \div 3600 \in Int /\ inDay \div 3600 >= 0 /\ inDay \div 3600 <= 23
          /\ (inDay % 3600) \div 60 \in Int /\ (inDay % 3600) \div 60 >= 0
          /\ (inDay % 3600) \div 60 <= 59
          /\ (inDay % 60) \in Int /\ (inDay % 60) >= 0 /\ (inDay % 60) <= 59
      BY <1>5, HourSplit
    <2>2. w[1] = (inDay % 60) /\ w[2] = (inDay % 3600) \div 60 /\ w[3] = inDay \div 3600
      OBVIOUS
    <2>. HIDE DEF w
    <2>. QED  BY <2>1, <2>2
  <1>7. w[4] \in Int /\ w[4] >= 0 /\ w[4] <= 99
    <2>1. w[4] = IF monthEnds THEN 1 ELSE IF midnight THEN v(4) + 1 ELSE v(4)
      OBVIOUS
    <2>. HIDE DEF w, v, midnight, length
    <2>. QED  BY <1>1, <1>2, <2>1
  <1>8. w[5] \in Int /\ w[5] >= 0 /\ w[5] <= 99
    <2>1. w[5] = IF midnight THEN (v(5) + 1) % 7 ELSE v(5)
      OBVIOUS
    <2>. HIDE DEF w, v, midnight
    <2>2. (v(5) + 1) % 7 \in 0..6
      BY <1>1
    <2>. QED  BY <1>1, <2>1, <2>2
  <1>9. w[6] \in Int /\ w[6] >= 0 /\ w[6] <= 99
    <2>1. w[6] = IF yearEnds THEN 1 ELSE IF monthEnds THEN v(6) + 1 ELSE v(6)
      OBVIOUS
    <2>. HIDE DEF w, v, monthEnds
    <2>. QED  BY <1>1, <2>1
  <1>10. w[7] \in Int /\ w[7] >= 0 /\ w[7] <= 99
    <2>1. w[7] = IF yearEnds THEN (v(7) + 1) % 100 ELSE v(7)
      OBVIOUS
    <2>. HIDE DEF w, v, yearEnds
    <2>2. (v(7) + 1) % 100 \in Int /\ (v(7) + 1) % 100 >= 0 /\ (v(7) + 1) % 100 <= 99
      BY <1>1
    <2>. QED  BY <1>1, <2>1, <2>2
  <1>11. \A i \in 1..7 : /\ Digits(w[i]) \in (0..9) \X (0..9)
                         /\ BcdValue(Digits(w[i])) = w[i]
    <2>. HIDE DEF w
    <2>1. \A i \in 1..7 : w[i] \in Int /\ w[i] >= 0 /\ w[i] <= 99
      BY <1>6, <1>7, <1>8, <1>9, <1>10
    <2>. QED  BY <2>1, DigitsValue
  <1>12. r = [i \in 1..7 |-> Digits(w[i])]
    <2>. HIDE DEF w
    <2>. QED  BY <1>3
  <1>13. r \in ClockDigits
    <2>. HIDE DEF w, r
    <2>. QED  BY <1>11, <1>12 DEF ClockDigits
  <1>14. \A i \in 1..7 : Value(r, i) = w[i]
    <2>. HIDE DEF w, r
    <2>. QED  BY <1>11, <1>12 DEF Value
  <1>15. /\ Value(r, 1) = w[1] /\ Value(r, 2) = w[2] /\ Value(r, 3) = w[3] /\ Value(r, 4) = w[4]
         /\ Value(r, 5) = w[5] /\ Value(r, 6) = w[6] /\ Value(r, 7) = w[7]
    <2>. HIDE DEF w, r
    <2>. QED  BY <1>14
  <1>. QED  BY <1>13, <1>15

Shown(registers) == [day |-> ShownDay(registers), second |-> ShownSecond(registers)]

\* Counting up to a day on, digit by digit and with its own leap rule, the chip
\* shows what the driver's calendar gives for the later time, until the century
\* ends.
THEOREM ChipCounts ==
  ASSUME NEW registers \in ClockDigits, Shows(registers),
         NEW seconds \in Nat, seconds <= DaySeconds,
         Later(Shown(registers), seconds).day <= LastDay
  PROVE  /\ Shows(ChipAdvanced(registers, seconds))
         /\ Shown(ChipAdvanced(registers, seconds)) = Later(Shown(registers), seconds)
  <1>. DEFINE v(i) == Value(registers, i)
              r == ChipAdvanced(registers, seconds)
              s == ShownSecond(registers)
              sum == s + seconds
              inDay == sum % DaySeconds
              carry == sum \div DaySeconds
              length == DaysInMonth(2000 + v(7), v(6))
              next == NextOf(2000 + v(7), v(6), v(4))
  <1>1. \A i \in 1..7 : v(i) \in Int /\ v(i) >= 0 /\ v(i) <= 99
    BY RegisterValue DEF Value
  <1>2. IsDate(2000 + v(7), v(6), v(4))
    BY DEF Shows
  <1>3. length = ChipMonthLength(v(7), v(6)) /\ length \in 28..31
    <2>1. (2000 + v(7)) - 2000 = v(7)
      BY <1>1
    <2>. QED  BY <1>2, <2>1, MonthLengths DEF IsDate
  <1>4. s \in 0..DaySeconds - 1 /\ s \in Nat /\ sum \in Nat
    <2>1. s \in 0..DaySeconds - 1
      BY ShownRange
    <2>. HIDE DEF s
    <2>. QED  BY <2>1, DayLength
  <1>5. /\ inDay \in 0..DaySeconds - 1
        /\ sum >= DaySeconds => carry = 1
        /\ ~(sum >= DaySeconds) => carry = 0
    <2>1. carry \in Nat /\ inDay \in 0..DaySeconds - 1 /\ sum = 86400 * carry + inDay
      BY <1>4, DaySplit
    <2>. HIDE DEF inDay, carry, s
    <2>. QED  BY <1>4, <2>1, DayLength
  <1>6. inDay \in Int /\ inDay >= 0 /\ inDay <= 86399
    <2>. HIDE DEF inDay
    <2>. QED  BY <1>5, DayLength
  <1>7. Later(Shown(registers), seconds) = [day |-> ShownDay(registers) + carry, second |-> inDay]
    BY DEF Later, Shown
  <1>8. /\ r \in ClockDigits
        /\ Value(r, 1) = inDay % 60
        /\ Value(r, 2) = (inDay % 3600) \div 60
        /\ Value(r, 3) = inDay \div 3600
        /\ Value(r, 4) = IF sum >= DaySeconds THEN next.day ELSE v(4)
        /\ Value(r, 5) = IF sum >= DaySeconds THEN (v(5) + 1) % 7 ELSE v(5)
        /\ Value(r, 6) = IF sum >= DaySeconds THEN next.month ELSE v(6)
        /\ 2000 + Value(r, 7) = IF sum >= DaySeconds
                                THEN 2000 + ((next.year - 2000) % 100) ELSE 2000 + v(7)
    <2>. DEFINE midnight == sum >= DaySeconds
                monthEnds == midnight /\ v(4) >= ChipMonthLength(v(7), v(6))
                yearEnds == monthEnds /\ v(6) >= 12
    <2>1. /\ r \in ClockDigits
          /\ Value(r, 1) = inDay % 60
          /\ Value(r, 2) = (inDay % 3600) \div 60
          /\ Value(r, 3) = inDay \div 3600
          /\ Value(r, 4) = IF monthEnds THEN 1 ELSE IF midnight THEN v(4) + 1 ELSE v(4)
          /\ Value(r, 5) = IF midnight THEN (v(5) + 1) % 7 ELSE v(5)
          /\ Value(r, 6) = IF yearEnds THEN 1 ELSE IF monthEnds THEN v(6) + 1 ELSE v(6)
          /\ Value(r, 7) = IF yearEnds THEN (v(7) + 1) % 100 ELSE v(7)
      BY Counted
    <2>2. /\ next.day = IF v(4) >= length THEN 1 ELSE v(4) + 1
          /\ next.month = IF v(4) >= length /\ v(6) >= 12 THEN 1
                          ELSE IF v(4) >= length THEN v(6) + 1 ELSE v(6)
          /\ next.year = IF v(4) >= length /\ v(6) >= 12 THEN 2000 + v(7) + 1 ELSE 2000 + v(7)
      BY DEF NextOf
    <2>3. /\ (2000 + v(7) + 1) - 2000 = v(7) + 1 /\ (2000 + v(7)) - 2000 = v(7)
          /\ (v(7)) % 100 = v(7)
      <3>1. v(7) \in Int /\ v(7) >= 0 /\ v(7) <= 99
        BY <1>1
      <3>. HIDE DEF v
      <3>. QED  BY <3>1
    <2>. HIDE DEF v, r, s, inDay, length, next
    <2>. QED  BY <1>3, <2>1, <2>2, <2>3
  <1>9. /\ Value(r, 1) <= 59 /\ Value(r, 2) <= 59 /\ Value(r, 3) <= 23 /\ Value(r, 5) <= 6
        /\ ShownSecond(r) = inDay
    <2>1. /\ Value(r, 1) <= 59 /\ Value(r, 2) <= 59 /\ Value(r, 3) <= 23
          /\ inDay = 3600 * Value(r, 3) + 60 * Value(r, 2) + Value(r, 1)
          /\ Value(r, 3) \in Int /\ Value(r, 2) \in Int /\ Value(r, 1) \in Int
      <3>. HIDE DEF inDay, r
      <3>. QED  BY <1>6, <1>8, HourSplit
    <2>2. Value(r, 5) <= 6
      <3>1. v(5) <= 6 /\ v(5) \in Int /\ v(5) >= 0
        BY <1>1 DEF Shows
      <3>2. (v(5) + 1) % 7 <= 6
        <4>. HIDE DEF v
        <4>. QED  BY <3>1
      <3>. HIDE DEF v, r, sum
      <3>. QED  BY <1>8, <3>1, <3>2
    <2>. QED  BY <2>1, <2>2 DEF ShownSecond
  <1>10. CASE ~(sum >= DaySeconds)
    <2>1. ShownDay(r) = ShownDay(registers)
      BY <1>8, <1>10 DEF ShownDay
    <2>2. IsDate(2000 + Value(r, 7), Value(r, 6), Value(r, 4))
      BY <1>2, <1>8, <1>10
    <2>3. ShownDay(registers) + carry = ShownDay(registers)
      BY <1>5, <1>10, ShownRange, CenturyDays
    <2>. QED  BY <1>7, <1>9, <2>1, <2>2, <2>3 DEF Shows, Shown
  <1>11. CASE sum >= DaySeconds
    <2>1. ShownDay(registers) \in Int /\ ShownDay(registers) < LastDay /\ carry = 1
      BY <1>5, <1>7, <1>11, ShownRange, CenturyDays
    <2>2. /\ IsDate(next.year, next.month, next.day)
          /\ DaysFromCivil(next.year, next.month, next.day) = ShownDay(registers) + 1
      BY <1>2, <2>1, NextDay DEF ShownDay
    <2>3. next.year = 2000 + ((next.year - 2000) % 100)
      <3>1. next.year \in Int /\ next.year >= 2000 /\ next.year <= 2099
        BY <2>2 DEF IsDate, Years
      <3>. HIDE DEF next
      <3>2. (next.year - 2000) % 100 = next.year - 2000
        BY <3>1
      <3>. QED  BY <3>1, <3>2
    <2>4. 2000 + Value(r, 7) = next.year /\ Value(r, 6) = next.month /\ Value(r, 4) = next.day
      BY <1>8, <1>11, <2>3
    <2>. QED  BY <1>7, <1>9, <2>1, <2>2, <2>4 DEF Shows, Shown, ShownDay
  <1>. QED  BY <1>10, <1>11

TimePairs == [day : Nat, second : 0..DaySeconds - 1]

LEMMA PairFacts ==
  ASSUME NEW t \in TimePairs
  PROVE  /\ t.day \in Nat /\ t.second \in Nat /\ t.second >= 0 /\ t.second <= 86399
         /\ t = [day |-> t.day, second |-> t.second]
  <1>1. t.day \in Nat /\ t.second \in 0..DaySeconds - 1
        /\ t = [day |-> t.day, second |-> t.second]
    BY DEF TimePairs
  <1>. DEFINE s == t.second
  <1>2. s \in 0..DaySeconds - 1
    BY <1>1
  <1>. HIDE DEF s
  <1>3. s \in Nat /\ s >= 0 /\ s <= 86399
    BY <1>2, DayLength
  <1>. QED  BY <1>1, <1>3 DEF s

\* The fields of the date of a supported time.
LEMMA DateFields ==
  ASSUME NEW t \in TimePairs, Supported(t)
  PROVE  LET d == UnixToDateTime(t)
         IN  /\ IsDate(d.year, d.month, d.day)
             /\ DaysFromCivil(d.year, d.month, d.day) = t.day
             /\ d.weekday \in 0..6
             /\ d.hour \in Int /\ d.hour >= 0 /\ d.hour <= 23
             /\ d.minute \in Int /\ d.minute >= 0 /\ d.minute <= 59
             /\ d.second \in Int /\ d.second >= 0 /\ d.second <= 59
             /\ t.second = 3600 * d.hour + 60 * d.minute + d.second
             /\ d.second = (t.second % 60)
  <1>. DEFINE d == UnixToDateTime(t)
              c == CivilFromDays(t.day)
  <1>1. t.day \in FirstDay..LastDay /\ t.day \in Nat
    BY PairFacts DEF Supported
  <1>2. IsDate(c.year, c.month, c.day) /\ DaysFromCivil(c.year, c.month, c.day) = t.day
    BY <1>1, CivilInverse DEF IsDate
  <1>3. /\ d.year = c.year /\ d.month = c.month /\ d.day = c.day
        /\ d.weekday = (t.day + 4) % 7
        /\ d.hour = t.second \div 3600 /\ d.minute = (t.second % 3600) \div 60
        /\ d.second = (t.second % 60)
    BY DEF UnixToDateTime
  <1>4. (t.day + 4) % 7 \in 0..6
    BY <1>1
  <1>. HIDE DEF d, c
  <1>5. /\ d.hour \in Int /\ d.hour >= 0 /\ d.hour <= 23
        /\ d.minute \in Int /\ d.minute >= 0 /\ d.minute <= 59
        /\ d.second \in Int /\ d.second >= 0 /\ d.second <= 59
        /\ t.second = 3600 * d.hour + 60 * d.minute + d.second
    <2>1. t.second \in Int /\ t.second >= 0 /\ t.second <= 86399
      BY PairFacts
    <2>. QED  BY <1>3, <2>1, HourSplit
  <1>. QED  BY <1>2, <1>3, <1>4, <1>5 DEF d

\* What the driver writes into the registers of a supported time is a date the
\* driver accepts, and it reads the same time out of them (pcf8563.cpp:112-143, 197-230).
THEOREM RegistersInverse ==
  ASSUME NEW t \in TimePairs, Supported(t)
  PROVE  LET registers == Encoded(UnixToDateTime(t))
         IN  registers \in ClockDigits /\ Shows(registers) /\ Shown(registers) = t
  <1>. DEFINE d == UnixToDateTime(t)
              r == Encoded(d)
              w == <<d.second, d.minute, d.hour, d.day, d.weekday, d.month, d.year - 2000>>
  <1>1. /\ IsDate(d.year, d.month, d.day)
        /\ DaysFromCivil(d.year, d.month, d.day) = t.day
        /\ d.weekday \in 0..6
        /\ d.hour \in Int /\ d.hour >= 0 /\ d.hour <= 23
        /\ d.minute \in Int /\ d.minute >= 0 /\ d.minute <= 59
        /\ d.second \in Int /\ d.second >= 0 /\ d.second <= 59
        /\ t.second = 3600 * d.hour + 60 * d.minute + d.second
    BY DateFields
  <1>2. /\ d.year \in Int /\ d.year >= 2000 /\ d.year <= 2099
        /\ d.month \in 1..12 /\ d.day \in 1..31
    BY <1>1, DateRange DEF IsDate, Years
  <1>3. r = [i \in 1..7 |-> Digits(w[i])]
    <2>1. r = [i \in 1..7 |-> IF ClockRegisters[i] = "year" THEN BcdEncode(d.year - 2000)
                              ELSE BcdEncode(d[ClockRegisters[i]])]
      BY Positions DEF Encoded
    <2>2. \A i \in 1..7 : (IF ClockRegisters[i] = "year" THEN BcdEncode(d.year - 2000)
                           ELSE BcdEncode(d[ClockRegisters[i]])) = Digits(w[i])
      BY DEF ClockRegisters, BcdEncode, Digits
    <2>. HIDE DEF r, w, d
    <2>. QED  BY <2>1, <2>2
  <1>4. \A i \in 1..7 : w[i] \in Int /\ w[i] >= 0 /\ w[i] <= 99
    <2>. HIDE DEF d
    <2>. QED  BY <1>1, <1>2
  <1>5. \A i \in 1..7 : Digits(w[i]) \in (0..9) \X (0..9) /\ BcdValue(Digits(w[i])) = w[i]
    <2>. HIDE DEF w
    <2>. QED  BY <1>4, DigitsValue
  <1>6. r \in ClockDigits /\ \A i \in 1..7 : Value(r, i) = w[i]
    <2>. HIDE DEF w, r
    <2>. QED  BY <1>3, <1>5 DEF ClockDigits, Value
  <1>7. /\ Value(r, 1) = d.second /\ Value(r, 2) = d.minute /\ Value(r, 3) = d.hour
        /\ Value(r, 4) = d.day /\ Value(r, 5) = d.weekday /\ Value(r, 6) = d.month
        /\ Value(r, 7) = d.year - 2000
    <2>. HIDE DEF r, d
    <2>. QED  BY <1>6
  <1>8. 2000 + (d.year - 2000) = d.year
    BY <1>2
  <1>9. Shows(r)
    <2>1. d.weekday <= 6
      BY <1>1
    <2>. QED  BY <1>1, <1>7, <1>8, <2>1 DEF Shows
  <1>10. ShownDay(r) = t.day
    BY <1>1, <1>7, <1>8 DEF ShownDay
  <1>11. ShownSecond(r) = t.second
    <2>. HIDE DEF r, d
    <2>. QED  BY <1>1, <1>7 DEF ShownSecond
  <1>. HIDE DEF r
  <1>12. Shown(r) = t
    BY <1>10, <1>11, PairFacts DEF Shown
  <1>. QED  BY <1>6, <1>9, <1>12 DEF r

\* The alarm registers hold the day of the month and the minute of the target.
LEMMA AlarmFields ==
  ASSUME NEW t \in TimePairs, Supported(t), (t.second % 60) = 0
  PROVE  /\ AlarmFor(t) = [day |-> UnixToDateTime(t).day, second |-> t.second]
         /\ AlarmFor(t) \in [day : 0..31, second : 0..DaySeconds - 1]
  <1>. DEFINE d == UnixToDateTime(t)
  <1>1. /\ IsDate(d.year, d.month, d.day)
        /\ d.hour \in Int /\ d.minute \in Int /\ d.second = 0
        /\ t.second = 3600 * d.hour + 60 * d.minute + d.second
    BY DateFields
  <1>2. d.day \in 1..31
    BY <1>1, DateRange
  <1>3. AlarmFor(t) = [day |-> d.day, second |-> d.hour * 3600 + d.minute * 60]
    BY DEF AlarmFor
  <1>. HIDE DEF d
  <1>4. d.hour * 3600 + d.minute * 60 = t.second
    BY <1>1
  <1>5. d.day \in 0..31 /\ t.second \in 0..DaySeconds - 1
    BY <1>2 DEF TimePairs
  <1>6. AlarmFor(t) = [day |-> d.day, second |-> t.second]
    BY <1>3, <1>4
  <1>. QED  BY <1>5, <1>6 DEF d

-----------------------------------------------------------------------------
(* The alarm *)

\* The days of a month end where the next month starts, those of the year that
\* begins in March with the last of February.
LEMMA WithinYear ==
  ASSUME NEW year, NEW month, NEW day, IsDate(year, month, day)
  PROVE  LET Y == MarchYear(year, month)
         IN  /\ day \in Int /\ day >= 1 /\ day <= 31
             /\ month \in {4, 6, 9, 11} => day <= 30
             /\ month = 2 => day <= 29
             /\ month = 2 /\ day = 29 => Y + 1 = 4 * ((Y + 1) \div 4)
  <1>1. year \in Years /\ month \in 1..12 /\ day \in 1..DaysInMonth(year, month)
    BY DEF IsDate
  <1>2. /\ month \in {4, 6, 9, 11} => DaysInMonth(year, month) = 30
        /\ month = 2 => DaysInMonth(year, month) = IF LeapYear(year) THEN 29 ELSE 28
    BY DEF DaysInMonth
  <1>3. day \in Int /\ day >= 1 /\ day <= DaysInMonth(year, month)
        /\ DaysInMonth(year, month) \in 28..31
    BY <1>1, MonthLengths
  <1>4. LeapYear(year) /\ month = 2
          => MarchYear(year, month) + 1 = 4 * ((MarchYear(year, month) + 1) \div 4)
    <2>. SUFFICES ASSUME LeapYear(year), month = 2
                  PROVE  year - 2000 = 4 * ((year - 2000) \div 4)
      <3>1. month = 2 => MarchYear(year, month) + 1 = year - 2000
        BY <1>1 DEF MarchYear, Years
      <3>. QED  BY <3>1
    <2>1. year = 4 * (year \div 4)
      BY <1>1, LeapInCentury
    <2>2. year \in Int
      BY <1>1 DEF Years
    <2>. QED  BY <2>1, <2>2
  <1>. QED  BY <1>2, <1>3, <1>4

LEMMA DateUnique ==
  ASSUME NEW y1, NEW m1, NEW d1, NEW y2, NEW m2, NEW d2,
         IsDate(y1, m1, d1), IsDate(y2, m2, d2),
         DaysFromCivil(y1, m1, d1) = DaysFromCivil(y2, m2, d2)
  PROVE  m1 = m2 /\ d1 = d2
  <1>. DEFINE A == MarchYear(y1, m1)
              B == MarchYear(y2, m2)
              p == A \div 4
              q == B \div 4
              s == MonthStart(m1)
              t == MonthStart(m2)
  <1>1. y1 \in Years /\ m1 \in 1..12 /\ y2 \in Years /\ m2 \in 1..12
    BY DEF IsDate
  <1>2. A \in Int /\ B \in Int
    BY <1>1 DEF MarchYear, Years
  <1>3. /\ p \in Int /\ 4 * p <= A /\ A <= 4 * p + 3
        /\ q \in Int /\ 4 * q <= B /\ B <= 4 * q + 3
    <2>. HIDE DEF A, B
    <2>. QED  BY <1>2, Quarter
  <1>4. /\ s \in Int /\ 0 <= s /\ s <= 337 /\ t \in Int /\ 0 <= t /\ t <= 337
        /\ m1 # 2 => s <= 306
        /\ m2 # 2 => t <= 306
        /\ m1 = 2 => s = 337
        /\ m2 = 2 => t = 337
    <2>1. \A m \in 1..12 : m # 2 => MonthStart(m) <= 306
      BY DEF MonthStart
    <2>2. MonthStart(2) = 337
      BY DEF MonthStart
    <2>. QED  BY <1>1, <2>1, <2>2, MonthStartRange
  <1>5. /\ d1 \in Int /\ d1 >= 1 /\ d1 <= 31 /\ d2 \in Int /\ d2 >= 1 /\ d2 <= 31
        /\ m1 = 2 => d1 <= 29
        /\ m2 = 2 => d2 <= 29
        /\ m1 = 2 /\ d1 = 29 => \E e \in Int : A + 1 = 4 * e
        /\ m2 = 2 /\ d2 = 29 => \E e \in Int : B + 1 = 4 * e
    <2>1. (A + 1) \div 4 \in Int /\ (B + 1) \div 4 \in Int
      <3>. HIDE DEF A, B
      <3>. QED  BY <1>2
    <2>. QED  BY <2>1, WithinYear
  <1>6. /\ m1 \in {4, 6, 9, 11} => d1 <= 30
        /\ m2 \in {4, 6, 9, 11} => d2 <= 30
    BY WithinYear
  <1>7. 365 * A + p + s + d1 = 365 * B + q + t + d2
    <2>1. /\ DaysFromCivil(y1, m1, d1) = FirstMarch + 365 * A + p + s + d1 - 1
          /\ DaysFromCivil(y2, m2, d2) = FirstMarch + 365 * B + q + t + d2 - 1
      BY <1>1, <1>5, DayNumber
    <2>2. FirstMarch \in Int
      BY DEF FirstMarch
    <2>3. /\ A \in Int /\ p \in Int /\ s \in Int /\ d1 \in Int
          /\ B \in Int /\ q \in Int /\ t \in Int /\ d2 \in Int
      BY <1>2, <1>3, <1>4, <1>5
    <2>. HIDE DEF A, B, p, q, s, t
    <2>4. FirstMarch + 365 * A + p + s + d1 - 1 = FirstMarch + 365 * B + q + t + d2 - 1
      BY <2>1
    <2>. QED  BY <2>2, <2>3, <2>4
  <1>8. ~(A < B)
    <2>. HIDE DEF A, B, p, q, s, t
    <2>. SUFFICES ASSUME A < B PROVE FALSE
      OBVIOUS
    <2>1. q >= p /\ (B = A + 1 /\ q = p => ~(\E e \in Int : A + 1 = 4 * e))
      BY <1>2, <1>3
    <2>. QED  BY <1>2, <1>3, <1>4, <1>5, <1>7, <2>1
  <1>9. ~(B < A)
    <2>. HIDE DEF A, B, p, q, s, t
    <2>. SUFFICES ASSUME B < A PROVE FALSE
      OBVIOUS
    <2>1. p >= q /\ (A = B + 1 /\ q = p => ~(\E e \in Int : B + 1 = 4 * e))
      BY <1>2, <1>3
    <2>. QED  BY <1>2, <1>3, <1>4, <1>5, <1>7, <2>1
  <1>10. s + d1 = t + d2
    <2>1. A = B
      <3>. HIDE DEF A, B
      <3>. QED  BY <1>2, <1>8, <1>9
    <2>2. p = q
      BY <2>1
    <2>. HIDE DEF A, B, p, q, s, t
    <2>. QED  BY <1>2, <1>3, <1>4, <1>5, <1>7, <2>1, <2>2
  <1>11. m1 = m2
    <2>1. \A m \in 1..12, n \in 1..12 :
            \/ m = n
            \/ MonthStart(m) >= MonthStart(n) + (IF n \in {4, 6, 9, 11} THEN 30 ELSE IF n = 2 THEN 29 ELSE 31)
            \/ MonthStart(n) >= MonthStart(m) + (IF m \in {4, 6, 9, 11} THEN 30 ELSE IF m = 2 THEN 29 ELSE 31)
      BY DEF MonthStart
    <2>. HIDE DEF s, t
    <2>2. \/ m1 = m2
          \/ s >= t + (IF m2 \in {4, 6, 9, 11} THEN 30 ELSE IF m2 = 2 THEN 29 ELSE 31)
          \/ t >= s + (IF m1 \in {4, 6, 9, 11} THEN 30 ELSE IF m1 = 2 THEN 29 ELSE 31)
      BY <1>1, <2>1 DEF s, t
    <2>. QED  BY <1>4, <1>5, <1>6, <1>10, <2>2
  <1>12. d1 = d2
    <2>1. s = t
      BY <1>11
    <2>. HIDE DEF s, t
    <2>. QED  BY <1>4, <1>5, <1>10, <2>1
  <1>. QED  BY <1>11, <1>12

LEMMA LaterFacts ==
  ASSUME NEW t \in TimePairs, NEW c \in Nat, c <= DaySeconds
  PROVE  /\ Later(t, c) \in TimePairs
         /\ \/ /\ Later(t, c).day = t.day /\ Later(t, c).second = t.second + c
               /\ t.second + c <= 86399
            \/ /\ Later(t, c).day = t.day + 1 /\ Later(t, c).second = t.second + c - 86400
               /\ t.second + c >= 86400
  <1>. DEFINE sum == t.second + c
              k == sum \div DaySeconds
              z == sum % DaySeconds
  <1>1. t.day \in Nat /\ t.second \in Nat /\ t.second <= 86399
    BY PairFacts
  <1>2. sum \in Nat
    BY <1>1
  <1>3. k \in Nat /\ z \in 0..DaySeconds - 1 /\ sum = 86400 * k + z
    <2>. HIDE DEF sum
    <2>. QED  BY <1>2, DaySplit, DayLength
  <1>4. Later(t, c) = [day |-> t.day + k, second |-> z]
    BY DEF Later
  <1>. HIDE DEF k, z
  <1>5. z \in Nat /\ z <= 86399 /\ c <= 86400
    BY <1>3, DayLength
  <1>6. Later(t, c) \in TimePairs
    BY <1>1, <1>3, <1>4 DEF TimePairs
  <1>7. \/ k = 0 /\ z = sum /\ sum <= 86399
        \/ k = 1 /\ z = sum - 86400 /\ sum >= 86400
    <2>1. sum <= 86399 + 86400 /\ sum = 86400 * k + z
      BY <1>1, <1>3, <1>5
    <2>. HIDE DEF sum
    <2>. QED  BY <1>2, <1>3, <1>5, <2>1
  <1>. QED  BY <1>1, <1>4, <1>6, <1>7

LEMMA NextDaySameTime ==
  ASSUME NEW t \in TimePairs
  PROVE  Later(t, DaySeconds).day = t.day + 1
  <1>1. \A c \in Nat : c <= DaySeconds =>
          \/ Later(t, c).day = t.day /\ t.second + c <= 86399
          \/ Later(t, c).day = t.day + 1
    BY LaterFacts, DayLength
  <1>2. DaySeconds \in Nat /\ DaySeconds <= DaySeconds
    BY DayLength
  <1>3. \/ Later(t, DaySeconds).day = t.day /\ t.second + DaySeconds <= 86399
        \/ Later(t, DaySeconds).day = t.day + 1
    BY <1>1, <1>2
  <1>4. t.second \in Nat
    BY PairFacts
  <1>. QED  BY <1>3, <1>4, DayLength

LEMMA HorizonFacts ==
  ASSUME NEW now \in TimePairs, NEW target \in TimePairs, WithinHorizon(now, target)
  PROVE  \/ target.day < now.day + 27
         \/ target.day = now.day + 27 /\ target.second <= now.second
  <1>1. /\ now.day \in Nat /\ now.second \in Nat /\ now.second <= 86399
        /\ target.day \in Nat /\ target.second \in Nat /\ target.second <= 86399
    BY PairFacts
  <1>2. HorizonDays * DaySeconds \in Nat /\ HorizonDays * DaySeconds = 27 * 86400
    BY DEF HorizonDays, DaySeconds
  <1>. DEFINE sum == now.second + HorizonDays * DaySeconds
              k == sum \div DaySeconds
              z == sum % DaySeconds
  <1>3. k \in Nat /\ z \in 0..DaySeconds - 1 /\ sum = 86400 * k + z
    <2>1. sum \in Nat
      BY <1>1, <1>2
    <2>. HIDE DEF sum
    <2>. QED  BY <2>1, DaySplit
  <1>4. ~Before([day |-> now.day + k, second |-> z], target)
    BY DEF WithinHorizon, Later
  <1>5. z \in Nat /\ z <= 86399
    <2>. HIDE DEF z
    <2>. QED  BY <1>3, DayLength
  <1>6. ~(now.day + k < target.day) /\ ~(now.day + k = target.day /\ z < target.second)
    BY <1>4 DEF Before
  <1>7. sum = now.second + 27 * 86400
    BY <1>2
  <1>. HIDE DEF k, z, sum
  <1>8. k = 27 /\ z = now.second
    BY <1>1, <1>3, <1>5, <1>7
  <1>. QED  BY <1>1, <1>6, <1>8

\* The alarm configureAlarmForUtc sets for a target at most 27 days away matches
\* when the chip's clock reaches the target: not on an earlier day, not later.
THEOREM AlarmMatches ==
  ASSUME NEW registers \in ClockDigits, Shows(registers),
         NEW target \in TimePairs, Supported(target), (target.second % 60) = 0,
         Before(Shown(registers), target), WithinHorizon(Shown(registers), target),
         NEW c \in Nat, c <= DaySeconds
  PROVE  LET in == AlarmIn(registers, AlarmFor(target))
         IN  /\ in \in Nat \ {0}
             /\ in <= c <=> ~Before(Later(Shown(registers), c), target)
  <1>. DEFINE d == ShownDay(registers)
              x == ShownSecond(registers)
              n == target.day
              y == target.second
              date == UnixToDateTime(target)
              today == Value(registers, 4)
              r == ChipAdvanced(registers, DaySeconds)
              tomorrow == Value(r, 4)
              in == AlarmIn(registers, AlarmFor(target))
              later == Later(Shown(registers), c)
  <1>1. Shown(registers) \in TimePairs /\ Shown(registers).day = d /\ Shown(registers).second = x
    BY ShownRange, CenturyDays DEF Shown, TimePairs
  <1>2. /\ d \in Nat /\ x \in Nat /\ x <= 86399 /\ n \in Nat /\ y \in Nat /\ y <= 86399
        /\ DaySeconds >= 86400 /\ DaySeconds <= 86400 /\ DaySeconds \in Nat
    BY <1>1, PairFacts, DayLength
  <1>3. d < n \/ (d = n /\ x < y)
    BY <1>1 DEF Before
  <1>4. n < d + 27 \/ (n = d + 27 /\ y <= x)
    BY <1>1, HorizonFacts
  <1>5. IsDate(date.year, date.month, date.day) /\ DaysFromCivil(date.year, date.month, date.day) = n
    BY DateFields
  <1>6. /\ IsDate(2000 + Value(registers, 7), Value(registers, 6), today)
        /\ DaysFromCivil(2000 + Value(registers, 7), Value(registers, 6), today) = d
    BY DEF Shows, ShownDay
  <1>7. d = n => date.day = today
    BY <1>5, <1>6, DateUnique
  <1>8. d < n => date.day # today
    <2>. SUFFICES ASSUME d < n, date.day = today PROVE FALSE
      OBVIOUS
    <2>. HIDE DEF date, today, d, n
    <2>1. d <= n /\ n <= d + HorizonDays
      BY <1>2, <1>4 DEF HorizonDays
    <2>2. d = n
      BY <1>5, <1>6, <2>1, SameDayOfMonth
    <2>. QED  BY <1>2, <2>2
  <1>9. d < n => /\ IsDate(2000 + Value(r, 7), Value(r, 6), tomorrow)
                 /\ DaysFromCivil(2000 + Value(r, 7), Value(r, 6), tomorrow) = d + 1
    <2>. SUFFICES ASSUME d < n
                  PROVE  /\ IsDate(2000 + Value(r, 7), Value(r, 6), tomorrow)
                         /\ DaysFromCivil(2000 + Value(r, 7), Value(r, 6), tomorrow) = d + 1
      OBVIOUS
    <2>1. Later(Shown(registers), DaySeconds).day = d + 1
      <3>. HIDE DEF d, x
      <3>. QED  BY <1>1, NextDaySameTime
    <2>2. n \in FirstDay..LastDay
      BY DEF Supported
    <2>3. d + 1 <= LastDay
      <3>. HIDE DEF d, n
      <3>. QED  BY <1>2, <2>2, CenturyDays
    <2>4. Shows(r) /\ Shown(r) = Later(Shown(registers), DaySeconds)
      <3>. HIDE DEF d, r
      <3>. QED  BY <1>2, <2>1, <2>3, ChipCounts DEF r
    <2>5. ShownDay(r) = d + 1
      <3>. HIDE DEF d, r
      <3>. QED  BY <2>1, <2>4 DEF Shown
    <2>. QED  BY <2>4, <2>5 DEF Shows, ShownDay
  <1>10. d + 1 = n => date.day = tomorrow
    <2>. SUFFICES ASSUME d + 1 = n PROVE date.day = tomorrow
      OBVIOUS
    <2>1. d < n
      BY <1>2
    <2>. HIDE DEF d, n, date, r, tomorrow
    <2>. QED  BY <1>5, <1>9, <2>1, DateUnique
  <1>11. d + 1 < n => date.day # tomorrow
    <2>. SUFFICES ASSUME d + 1 < n, date.day = tomorrow PROVE FALSE
      OBVIOUS
    <2>. HIDE DEF date, r, tomorrow, d, n
    <2>1. d < n /\ d + 1 <= n /\ n <= d + 1 + HorizonDays
      BY <1>2, <1>4 DEF HorizonDays
    <2>2. d + 1 = n
      BY <1>5, <1>9, <2>1, SameDayOfMonth
    <2>. QED  BY <1>2, <2>2
  <1>12. in = CASE date.day = today /\ y > x -> y - x
                [] date.day = tomorrow /\ y <= x -> DaySeconds - x + y
                [] OTHER -> Ages
    <2>1. AlarmFor(target) = [day |-> date.day, second |-> y]
      BY AlarmFields
    <2>. QED  BY <2>1 DEF AlarmIn, ShownSecond, Value
  <1>13. \/ later.day = d /\ later.second = x + c /\ x + c <= 86399
         \/ later.day = d + 1 /\ later.second = x + c - 86400 /\ x + c >= 86400
    <2>. HIDE DEF d, x
    <2>. QED  BY <1>1, LaterFacts
  <1>14. Before(later, target) <=> (later.day < n \/ (later.day = n /\ later.second < y))
    BY DEF Before
  <1>15. Ages = 2 * DaySeconds
    BY DEF Ages
  <1>. SUFFICES in \in Nat \ {0} /\ (in <= c <=> ~Before(later, target))
    OBVIOUS
  <1>. HIDE DEF d, x, n, y, date, today, r, tomorrow, in, later
  <1>16. CASE d = n
    <2>1. in = y - x
      BY <1>3, <1>7, <1>12, <1>16, <1>2
    <2>. QED  BY <1>2, <1>3, <1>13, <1>14, <1>16, <2>1
  <1>17. CASE d + 1 = n /\ y <= x
    <2>1. in = DaySeconds - x + y
      BY <1>2, <1>8, <1>10, <1>12, <1>17
    <2>. QED  BY <1>2, <1>13, <1>14, <1>17, <2>1
  <1>18. CASE d + 1 = n /\ y > x
    <2>1. in = 2 * DaySeconds
      BY <1>2, <1>8, <1>10, <1>12, <1>15, <1>18
    <2>. QED  BY <1>2, <1>13, <1>14, <1>18, <2>1
  <1>19. CASE d + 1 < n
    <2>1. in = 2 * DaySeconds
      BY <1>2, <1>8, <1>11, <1>12, <1>15, <1>19
    <2>. QED  BY <1>2, <1>13, <1>14, <1>19, <2>1
  <1>. QED  BY <1>2, <1>3, <1>16, <1>17, <1>18, <1>19
=============================================================================
