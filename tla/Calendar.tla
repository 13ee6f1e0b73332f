------------------------------ MODULE Calendar ------------------------------
(***************************************************************************)
(* The calendar (timeutil.cpp): dates of the proleptic Gregorian calendar, *)
(* years before 1 included, as days from 1 January 1601 and back, with     *)
(* the division of C, which rounds towards zero.                           *)
(***************************************************************************)
EXTENDS Integers

LOCAL INSTANCE FiniteSetsExt

CONSTANT DayTicks   \* bound: the clock times told apart in a day

Abs(x) == IF x < 0 THEN -x ELSE x

\* x / y and x % y of C.
Quot(x, y) == IF (x < 0) = (y < 0) THEN Abs(x) \div Abs(y) ELSE -(Abs(x) \div Abs(y))
Rem(x, y) == x - y * Quot(x, y)

-----------------------------------------------------------------------------
(* Division that rounds down.                                              *)

\* Mutant: the remainder of C.
iMod_C(x, y) == Rem(x, y)

iMod(x, y) ==
  CASE y < 0 /\ x > 0 -> Rem(x - 1, y) + y + 1
    [] y > 0 /\ x < 0 -> Rem(x + 1, y) + y - 1
    [] OTHER -> Rem(x, y)

iFloorDivision(x, y) ==
  CASE y < 0 /\ x > 0 -> Quot(x - y - 1, y)
    [] y > 0 /\ x < 0 -> Quot(x - y + 1, y)
    [] OTHER -> Quot(x, y)

-----------------------------------------------------------------------------
(* Dates, as [year, month, day].                                           *)

isLeapYear(year) == iMod(year, 4) = 0 /\ iMod(year, 400) \notin {100, 200, 300}

daystab == <<31, 29, 31, 30, 31, 30, 31, 31, 30, 31, 30, 31>>

isValidDate(t) ==
  /\ t.year \in -27256 .. 30826
  /\ t.month \in 1 .. 12
  /\ t.day \in 1 .. daystab[t.month]
  /\ t.month = 2 /\ t.day = 29 => isLeapYear(t.year)

\* Mutant: the months after February are not corrected in a leap year.
FixedFromGregorian_Common(t) ==
  LET y == t.year - 1
  IN 365 * y + iFloorDivision(y, 4) - iFloorDivision(y, 100) + iFloorDivision(y, 400)
       + iFloorDivision(367 * t.month - 362, 12) + t.day - (IF t.month > 2 THEN 2 ELSE 0)

\* The number of a day, 1 for 1 January 1.
FixedFromGregorian(t) ==
  LET y == t.year - 1
  IN 365 * y + iFloorDivision(y, 4) - iFloorDivision(y, 100) + iFloorDivision(y, 400)
       + iFloorDivision(367 * t.month - 362, 12) + t.day
       - (IF t.month <= 2 THEN 0 ELSE IF isLeapYear(t.year) THEN 1 ELSE 2)

\* The year, from the whole cycles of 400, 100, 4 and 1 years before a day, and what is
\* left of the day in each cycle.
In1(n400, n100, n4, n1) ==
  400 * n400 + 100 * n100 + 4 * n4 + n1 + (IF n100 # 4 /\ n1 # 4 THEN 1 ELSE 0)
In4(n400, n100, d2) == In1(n400, n100, iFloorDivision(d2, 1461), iFloorDivision(iMod(d2, 1461), 365))
In100(n400, d1) == In4(n400, iFloorDivision(d1, 36524), iMod(d1, 36524))
YearOf(d0) == In100(iFloorDivision(d0, 146097), iMod(d0, 146097))

DateIn(year, fixed) ==
  LET First(month) == FixedFromGregorian([year |-> year, month |-> month, day |-> 1])
      prior == fixed - First(1)
      correction == IF fixed < First(3) THEN 0 ELSE IF isLeapYear(year) THEN 1 ELSE 2
      month == Quot(12 * (prior + correction) + 373, 367)
  IN [year |-> year, month |-> month, day |-> fixed - First(month) + 1,
      dayOfYear |-> prior + 1, dayOfWeek |-> iMod(fixed, 7)]

GregorianFromFixed(fixed) == DateIn(YearOf(fixed - 1), fixed)

-----------------------------------------------------------------------------
(* Linear times count clock ticks from 1 January 1601.                     *)

Epoch == 584389

FieldedTimeToLinearTime(t) == (FixedFromGregorian(t) - Epoch) * DayTicks + t.tick

DayOfWeek(t) == iMod(FixedFromGregorian(t) - Epoch + 1, 7)

\* Not bound to succeed: the caller asks isValidDate.
LinearTimeToFieldedTime(lt) ==
  LET g == GregorianFromFixed(iFloorDivision(lt, DayTicks) + Epoch)
  IN [year |-> g.year, month |-> g.month, day |-> g.day, tick |-> iMod(lt, DayTicks),
      dayOfYear |-> g.dayOfYear, dayOfWeek |-> g.dayOfWeek]

\* The fourteen patterns of a year: the day it starts on, and whether it is a leap year.
YearType(year) ==
  DayOfWeek([year |-> year, month |-> 1, day |-> 1]) + (IF isLeapYear(year) THEN 8 ELSE 1)

\* The last year before upper of each type.
NearestYearOfType(type, upper) == Max({y \in upper - 41 .. upper - 1 : YearType(y) = type})

-----------------------------------------------------------------------------
\* The two divisions round down and the rest has the sign of the divisor, whatever the
\* signs of the operands (timeutil.cpp:36-52, 122).
DivisionFloors(x) ==
  \A y \in -7 .. 7 \ {0} :
    LET q == iFloorDivision(x, y)
        r == iMod(x, y)
    IN q * y + r = x /\ (IF y > 0 THEN r \in 0 .. y - 1 ELSE r \in y + 1 .. 0)

\* What a calendar hung on the wall says.
Dates(year) ==
  {t \in [year : {year}, month : 1 .. 12, day : 1 .. 31] : isValidDate(t)}

Tomorrow(t) ==
  CASE isValidDate([t EXCEPT !.day = @ + 1]) -> [t EXCEPT !.day = @ + 1]
    [] t.month < 12 -> [t EXCEPT !.month = @ + 1, !.day = 1]
    [] OTHER -> [year |-> t.year + 1, month |-> 1, day |-> 1]

\* The number of tomorrow is one more, and the date of a number is the date that has it,
\* with its day of the year and of the week, for times of the day also before 1601
\* (timeutil.cpp:835, 875, 1347).
DatesInvert(year) ==
  LET first == FixedFromGregorian([year |-> year, month |-> 1, day |-> 1])
  IN \A t \in Dates(year) :
       LET number == FixedFromGregorian(t)
           At(tick) == [year |-> t.year, month |-> t.month, day |-> t.day, tick |-> tick]
       IN /\ FixedFromGregorian(Tomorrow(t)) = number + 1
          /\ \A tick \in 0 .. DayTicks - 1 :
               LinearTimeToFieldedTime(FieldedTimeToLinearTime(At(tick))) =
                 [year |-> t.year, month |-> t.month, day |-> t.day, tick |-> tick,
                  dayOfYear |-> number - first + 1, dayOfWeek |-> DayOfWeek(t)]

\* A year and the one TIME_Initialize finds for it have the same days of the week, so the
\* rules of summer time, which name days of the week, fall on the same dates.
YearsAlike(year, upper) ==
  LET near == NearestYearOfType(YearType(year), upper)
  IN \A t \in Dates(year) : DayOfWeek(t) = DayOfWeek([t EXCEPT !.year = near])
=============================================================================
