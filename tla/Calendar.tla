------------------------------ MODULE Calendar ------------------------------
(***************************************************************************)
(* The DATE functions of internal/functions/date and their helpers.  A date *)
(* is the number of days since 1970-01-01.  Two dates are held: `day` walks *)
(* through the calendar one day at a time and `origin` stays, so that every *)
(* function is evaluated on every day of the walk and between it and each   *)
(* origin.                                                                 *)
(***************************************************************************)
EXTENDS Integers, Sequences, FiniteSets

CONSTANTS FirstDay, LastDay,  \* bounds of the walk
          Origins,            \* the dates the walk is compared with
          Steps,              \* the amounts added
          MaxSeries,          \* bound on the elements of a generated array
          DateError,          \* a call that fails
          NoDate              \* no date: the query calls no date function

ASSUME DaysAssumption == FirstDay \in Int /\ LastDay \in Int /\ Origins \subseteq Int
ASSUME StepsAssumption == Steps \subseteq Int /\ MaxSeries \in Nat

VARIABLES day, origin
dateVars == <<day, origin>>

(***************************************************************************)
(* Go's time package in UTC, at midnight.                                  *)
(***************************************************************************)
\* time.Date: a month outside 1..12 carries into the year, a day outside its
\* month into the months.
Date(year, month, d) ==
  LET DaysBefore(y) == 365 * y + y \div 4 - y \div 100 + y \div 400
  IN  DaysBefore(year + (month - 3) \div 12)
      + (153 * ((month - 3) % 12) + 2) \div 5 + d - 1 - 719468

\* Year, month and day; years are counted from March, and 400 years are an era.
OfMonth(year, doy, mp) == [y |-> year + mp \div 10,
                           m |-> ((mp + 2) % 12) + 1,
                           d |-> doy - (153 * mp + 2) \div 5 + 1]
OfYear(year, doy) == OfMonth(year, doy, (5 * doy + 2) \div 153)
OfEra(era, doe, yoe) ==
  OfYear(400 * era + yoe, doe - (365 * yoe + yoe \div 4 - yoe \div 100))
OfDay(era, doe) ==
  OfEra(era, doe, (doe - doe \div 1460 + doe \div 36524 - doe \div 146096) \div 365)
Civil(t) == OfDay((t + 719468) \div 146097, (t + 719468) % 146097)

Year(t)    == Civil(t).y
Month(t)   == Civil(t).m
Weekday(t) == (t + 4) % 7
YearDay(t) == t - Date(Year(t), 1, 1) + 1
AddDate(t, y, m, d) ==
  LET From(c) == Date(c.y + y, c.m + m, c.d + d) IN From(Civil(t))
FirstOf(c) == Date(c.y, c.m, 1)
\* Time.Sub, in whole days rounded down: a Duration holds 2^63 nanoseconds, a
\* little less than MaxDuration + 1 days, and a longer one is cut off there.
MaxDuration == 106751
Sub(t, u) == IF t - u > MaxDuration THEN MaxDuration
             ELSE IF t - u < -MaxDuration THEN -MaxDuration - 1
             ELSE t - u
Reaches(t, u) == t - u <= MaxDuration /\ u - t <= MaxDuration
ISOThursday(t) == t + 3 - ((Weekday(t) + 6) % 7)
ISOYear(t) == Year(ISOThursday(t))
ISOWeek(t) == (YearDay(ISOThursday(t)) - 1) \div 7 + 1

-----------------------------------------------------------------------------
(***************************************************************************)
(* Parts.                                                                  *)
(***************************************************************************)
WeekPartToOffset == [WEEK |-> 0, WEEK_MONDAY |-> 1, WEEK_TUESDAY |-> 2,
                     WEEK_WEDNESDAY |-> 3, WEEK_THURSDAY |-> 4,
                     WEEK_FRIDAY |-> 5, WEEK_SATURDAY |-> 6]
WeekParts == DOMAIN WeekPartToOffset
Parts == WeekParts \cup {"DAY", "ISOWEEK", "MONTH", "QUARTER", "YEAR", "ISOYEAR"}

\* Mutant: the overflow of a short month is left to time.AddDate.
AddMonthCarried(t, m) == AddDate(t, 0, m, 0)
\* The month there holds no such day: the last day of that month.
Landed(t, c, there, y, m) ==
  IF there.m # Month(Date(there.y, there.m, c.d)) THEN AddDate(FirstOf(c), y, m + 1, -1)
  ELSE AddDate(t, y, m, 0)
AddMonth(t, m) ==
  LET From(c) == Landed(t, c, Civil(AddDate(FirstOf(c), 0, m, 0)), 0, m) IN From(Civil(t))
AddYear(t, y) ==
  LET From(c) == Landed(t, c, Civil(AddDate(FirstOf(c), y, 0, 0)), y, 0) IN From(Civil(t))

\* A QUARTER is three months whatever v is.
DATE_ADD(t, v, part) ==
  CASE part = "DAY"     -> AddDate(t, 0, 0, v)
    [] part = "WEEK"    -> AddDate(t, 0, 0, v * 7)
    [] part = "MONTH"   -> AddMonth(t, v)
    [] part = "YEAR"    -> AddYear(t, v)
    [] part = "QUARTER" -> AddMonth(t, 3)
    [] OTHER            -> DateError

DATE_SUB(t, v, part) ==
  CASE part = "DAY"   -> AddDate(t, 0, 0, -v)
    [] part = "WEEK"  -> AddDate(t, 0, 0, -v * 7)
    [] part = "MONTH" -> AddMonth(t, -v)
    [] part = "YEAR"  -> AddYear(t, -v)
    [] OTHER          -> DateError

\* DateValue.AddDateWithInterval, which date arrays and INTERVALs use.
addMonthsClamped(t, m) ==
  LET Clamped(first, d, last) == Date(first.y, first.m, IF d > last THEN last ELSE d)
      To(first, d) == Clamped(first, d, Civil(Date(first.y, first.m + 1, 0)).d)
      From(c) == To(Civil(AddDate(FirstOf(c), 0, m, 0)), c.d)
  IN  From(Civil(t))
AddDateWithInterval(t, v, part) ==
  CASE part = "WEEK"    -> AddDate(t, 0, 0, v * 7)
    [] part = "MONTH"   -> addMonthsClamped(t, v)
    [] part = "QUARTER" -> addMonthsClamped(t, 3 * v)
    [] part = "YEAR"    -> addMonthsClamped(t, 12 * v)
    [] OTHER            -> AddDate(t, 0, 0, v)

\* Mutant: the first day counts in place of the last.
WeekBoundariesShifted(start, end, boundary) ==
  LET days == end - start
  IN  days \div 7
      + IF \E r \in 0..((days % 7) - 1) : (Weekday(start) + r) % 7 = boundary
        THEN 1 ELSE 0
\* Weeks: whole weeks between the two dates, and one more when the boundary
\* lies in the days that are left.
WeekBoundaries(start, end, boundary) ==
  LET days == end - start
  IN  days \div 7
      + IF \E r \in 1..(days % 7) : (Weekday(start) + r) % 7 = boundary
        THEN 1 ELSE 0

Quarter(t) == (Month(t) - 1) \div 3
DATE_DIFF(a, b, part) ==
  CASE part \in WeekParts ->
         IF b > a THEN -WeekBoundaries(a, b, WeekPartToOffset[part])
                  ELSE WeekBoundaries(b, a, WeekPartToOffset[part])
    [] part = "DAY"     -> IF Sub(a, b) < -MaxDuration THEN -MaxDuration ELSE Sub(a, b)
    [] part = "ISOWEEK" -> (Year(a) - Year(b)) * 48 + ISOWeek(a) - ISOWeek(b)
    [] part = "MONTH"   -> (Year(a) * 12 + Month(a)) - (Year(b) * 12 + Month(b))
    [] part = "QUARTER" -> (Year(a) * 4 + Quarter(a)) - (Year(b) * 4 + Quarter(b))
    [] part = "YEAR"    -> Year(a) - Year(b)
    [] part = "ISOYEAR" -> ISOYear(a) - ISOYear(b)
    [] OTHER            -> DateError

\* The walk back to the day a week starts on.
WalkBack(t, weekday) == t - ((Weekday(t) - weekday) % 7)
DATE_TRUNC(t, part) ==
  CASE part \in WeekParts -> WalkBack(t, WeekPartToOffset[part])
    [] part = "DAY"     -> t
    [] part = "ISOWEEK" -> WalkBack(t, 1)
    [] part = "MONTH"   -> Date(Year(t), Month(t), 1)
    [] part = "QUARTER" -> Date(Year(t), <<1, 4, 7, 10>>[Quarter(t) + 1], 1)
    [] part = "YEAR"    -> Date(Year(t), 1, 1)
    [] part = "ISOYEAR" -> LET firstDay == Date(ISOYear(t), 1, 1)
                           IN  firstDay + 1 - Weekday(firstDay)
    [] OTHER            -> DateError

\* Mutant: the week of January 1 opens the ISO year.
ISOYearEndJan1(year) == LET jan1 == Date(year + 1, 1, 1)
                        IN  jan1 - ((Weekday(jan1) + 6) % 7) - 1
\* The day before the Monday of the week of January 4.
ISOYearEnd(year) == LET jan4 == Date(year + 1, 1, 4)
                    IN  jan4 - ((Weekday(jan4) + 6) % 7) - 1
LAST_DAY(t, part) ==
  CASE part = "YEAR"    -> Date(Year(t) + 1, 1, 0)
    [] part = "QUARTER" -> Date(Year(t), Quarter(t) * 3 + 4, 0)
    [] part = "MONTH"   -> Date(Year(t), Month(t) + 1, 0)
    [] part = "ISOYEAR" -> ISOYearEnd(ISOYear(t))
    [] part = "ISOWEEK" -> t + ((1 + 6 - Weekday(t) + 7) % 7)
    [] part \in WeekParts -> t + ((WeekPartToOffset[part] + 6 - Weekday(t) + 7) % 7)
    [] OTHER            -> DateError
\* Mutant: the year's first start day opens week 0 when it is January 1.
weekOfYearLate(t, start) ==
  LET offset == (Weekday(t) - start + 7) % 7
  IN  (YearDay(t) - 2 + 7 - offset) \div 7
\* EXTRACT(WEEK(<start>)).
weekOfYear(t, start) ==
  LET offset == (Weekday(t) - start + 7) % 7
  IN  (YearDay(t) - 1 + 7 - offset) \div 7

\* EXTRACT from a DATE.  A quarter is taken for 91 days.
EXTRACT(t, part) ==
  CASE part = "ISOYEAR"   -> ISOYear(t)
    [] part = "ISOWEEK"   -> ISOWeek(t)
    [] part = "YEAR"      -> Year(t)
    [] part = "MONTH"     -> Month(t)
    [] part = "DAY"       -> Civil(t).d
    [] part = "DAYOFYEAR" -> YearDay(t)
    [] part = "DAYOFWEEK" -> Weekday(t) + 1
    [] part = "QUARTER"   -> IF YearDay(t) <= 91 THEN 1
                             ELSE IF YearDay(t) <= 182 THEN 2
                             ELSE IF YearDay(t) <= 273 THEN 3 ELSE 4
    [] part \in WeekParts -> weekOfYear(t, WeekPartToOffset[part])
    [] OTHER              -> DateError

(***************************************************************************)
(* Buckets, anchored on an origin.                                         *)
(***************************************************************************)
floorDivInt(a, b) == a \div b
addMonthsPreserveTimeOfMonth(t, m) ==
  LET Kept(after, candidate) ==
        IF Month(candidate) # after.m THEN Date(after.y, after.m + 1, 0) ELSE candidate
      To(after, d) == Kept(after, Date(after.y, after.m, d))
      From(c) == To(Civil(AddDate(FirstOf(c), 0, m, 0)), c.d)
  IN  From(Civil(t))
\* Mutant: the day of the month is not looked at.
monthBucketFloorWhole(target, from, width) ==
  LET delta == (Year(target) * 12 + Month(target)) - (Year(from) * 12 + Month(from))
  IN  addMonthsPreserveTimeOfMonth(from, floorDivInt(delta, width) * width)
monthBucketFloor(target, from, width) ==
  LET delta == (Year(target) * 12 + Month(target)) - (Year(from) * 12 + Month(from))
      at(k) == addMonthsPreserveTimeOfMonth(from, k * width)
      Ahead(n) == IF at(n + 1) > target THEN at(n) ELSE at(n + 1)
      Floor(n) == Ahead(IF at(n) > target THEN n - 1 ELSE n)
  IN  Floor(floorDivInt(delta, width))
\* A width is at most MaxDuration days.  The offset of a bucket that begins
\* longer before the origin wraps around by 2^64 nanoseconds, 213503 days and
\* a part of one that the conversion to a DATE drops.
nanosBucketFloor(target, from, width) ==
  LET offset == floorDivInt(Sub(target, from), width) * width
  IN  from + (IF offset < -MaxDuration THEN offset + 213503 ELSE offset)
DATE_BUCKET(target, from, months, days) ==
  CASE months > 0 /\ days = 0 -> monthBucketFloor(target, from, months)
    [] months = 0 /\ days > 0 -> nanosBucketFloor(target, from, days)
    [] OTHER -> DateError

(***************************************************************************)
(* GENERATE_DATE_ARRAY adds the step to the last element until it passes    *)
(* the end; an array may not grow beyond MaxSeries.                         *)
(***************************************************************************)
\* Mutant: an element equal to the end is left out.
generateDateArrayOpen(start, end, step, part) ==
  LET isLT == start <= end
      Within(t) == IF isLT THEN t < end ELSE t > end
      elem[k \in 1..(MaxSeries + 1)] ==
        IF k = 1 THEN start ELSE AddDateWithInterval(elem[k - 1], step, part)
      Cut(e, n) == IF n > MaxSeries THEN DateError ELSE SubSeq(e, 1, n)
      Grown(e) == Cut(e, CHOOSE k \in 1..(MaxSeries + 1) :
                           /\ \A j \in 2..k : Within(e[j])
                           /\ k = MaxSeries + 1 \/ ~Within(e[k + 1]))
  IN  CASE step = 0 -> DateError
        [] step # 0 /\ isLT # (step > 0) -> <<>>
        [] OTHER -> Grown(elem)
generateDateArray(start, end, step, part) ==
  LET isLT == start <= end
      Within(t) == IF isLT THEN t <= end ELSE t >= end
      elem[k \in 1..(MaxSeries + 1)] ==
        IF k = 1 THEN start ELSE AddDateWithInterval(elem[k - 1], step, part)
      Cut(e, n) == IF n > MaxSeries THEN DateError ELSE SubSeq(e, 1, n)
      Grown(e) == Cut(e, CHOOSE k \in 1..(MaxSeries + 1) :
                           /\ \A j \in 2..k : Within(e[j])
                           /\ k = MaxSeries + 1 \/ ~Within(e[k + 1]))
  IN  CASE step = 0 -> DateError
        [] step # 0 /\ isLT # (step > 0) -> <<>>
        [] OTHER -> Grown(elem)

-----------------------------------------------------------------------------
DateInit == day = FirstDay /\ origin \in Origins
Tomorrow == /\ day # NoDate /\ day < LastDay
            /\ day' = DATE_ADD(day, 1, "DAY")
            /\ UNCHANGED origin
DateNext == Tomorrow
DateSpec == DateInit /\ [][DateNext]_dateVars

-----------------------------------------------------------------------------
(***************************************************************************)
(* A part divides the calendar into stretches; Opens says on which days one *)
(* begins.  An ISO year begins on the Monday of the week whose Thursday is  *)
(* the first of its year.                                                  *)
(***************************************************************************)
Opens(t, part) ==
  LET c == Civil(t)
  IN  CASE part = "DAY"       -> TRUE
        [] part \in WeekParts -> Weekday(t) = WeekPartToOffset[part]
        [] part = "ISOWEEK"   -> Weekday(t) = 1
        [] part = "MONTH"     -> c.d = 1
        [] part = "QUARTER"   -> c.d = 1 /\ c.m \in {1, 4, 7, 10}
        [] part = "YEAR"      -> c.d = 1 /\ c.m = 1
        [] part = "ISOYEAR"   -> Weekday(t) = 1 /\ YearDay(t + 3) <= 7
\* DATE_DIFF counts the stretches opened between two dates: it is 0 from a date
\* to itself, changes sign with the order, and grows by one on exactly the days
\* that open a stretch.  (ISOWEEK takes a year for 48 weeks: left out.  DAY
\* counts no further than a Duration reaches.)
BoundariesCounted ==
  [][day # NoDate => \A part \in Parts \ {"ISOWEEK"} :
       part # "DAY" \/ (Reaches(day, origin) /\ Reaches(day', origin)) =>
       /\ DATE_DIFF(day, day, part) = 0
       /\ DATE_DIFF(origin, day, part) = -DATE_DIFF(day, origin, part)
       /\ DATE_DIFF(day', origin, part) =
            DATE_DIFF(day, origin, part) + IF Opens(day', part) THEN 1 ELSE 0]_dateVars

\* DATE_TRUNC goes back to the day that opened the current stretch and LAST_DAY
\* on to the day before the next one opens.  (DATE_TRUNC to ISOYEAR takes the
\* week of January 1 for the first: wrong when that is a Friday or Saturday.)
StretchEnclosed ==
  day # NoDate =>
    \A part \in Parts :
      /\ part # "ISOYEAR" => /\ Opens(DATE_TRUNC(day, part), part)
                             /\ DATE_DIFF(day, DATE_TRUNC(day, part), "DAY") \in 0..365
                             /\ \A t \in (DATE_TRUNC(day, part) + 1)..day : ~Opens(t, part)
      /\ part # "DAY" => /\ Opens(LAST_DAY(day, part) + 1, part)
                         /\ LAST_DAY(day, part) >= day
                         /\ \A t \in (day + 1)..LAST_DAY(day, part) : ~Opens(t, part)

\* The ways of adding months agree: DATE_ADD and DATE_SUB, the step of a date
\* array and the bucket grid end in the month asked for, on the same day of it
\* or on its last, and keep dates in order.  (DATE_ADD takes every
\* number of quarters for one.)
MonthsAgree ==
  day # NoDate =>
    \A n \in Steps :
      LET there == DATE_ADD(day, n, "MONTH")
          same  == Civil(day).d
      IN  /\ there = AddDateWithInterval(day, n, "MONTH")
          /\ there = addMonthsPreserveTimeOfMonth(day, n)
          /\ there = DATE_SUB(day, -n, "MONTH")
          /\ DATE_ADD(day, n, "YEAR") = DATE_ADD(day, 12 * n, "MONTH")
          /\ DATE_ADD(day, n, "YEAR") = AddDateWithInterval(day, n, "YEAR")
          /\ n = 1 => DATE_ADD(day, n, "QUARTER") = AddDateWithInterval(day, n, "QUARTER")
          /\ DATE_DIFF(there, day, "MONTH") = n
          /\ there <= DATE_ADD(day + 1, n, "MONTH")
          /\ Civil(there).d = same \/ (Civil(there).d < same /\ Opens(there + 1, "MONTH"))

\* EXTRACT(WEEK(start)) is the number of start days of the year so far, and
\* the ISO year and week count the Mondays since the ISO year began.
WeeksNumbered ==
  day # NoDate =>
    /\ \A part \in WeekParts :
         EXTRACT(day, part) =
           Cardinality({t \in Date(EXTRACT(day, "YEAR"), 1, 1)..day : Opens(t, part)})
    /\ LET began == LAST_DAY(day, "ISOYEAR") + 1 - 7 * 53
           opened == {t \in (began - 7)..day : Opens(t, "ISOYEAR")}
           year  == CHOOSE t \in opened : \A u \in opened : u <= t
       IN  EXTRACT(day, "ISOWEEK") =
             Cardinality({t \in year..day : Opens(t, "ISOWEEK")})

\* The months around an origin that the bucket property looks at.
Horizon == 30

\* DATE_BUCKET finds the last point of the origin's grid that is not after the
\* date, on either side of the origin and where months clamp the grid's days:
\* a grid of months within the horizon, one of days as far as a Duration reaches.
BucketHolds ==
  day # NoDate =>
    \A w \in Steps \ {0} : w > 0 =>
      /\ LET grid == {addMonthsClamped(origin, w * k) :
                        k \in -Horizon..Horizon}
             b    == DATE_BUCKET(day, origin, w, 0)
         IN  DATE_DIFF(day, origin, "MONTH") \in (1 - Horizon)..(Horizon - 1) =>
               /\ b \in grid /\ b <= day
               /\ \A g \in grid : ~(b < g /\ g <= day)
      /\ LET b == DATE_BUCKET(day, origin, 0, w)
         IN  Reaches(day, origin) /\ Reaches(day - w, origin) =>
               b <= day /\ day < b + w /\ (b - origin) % w = 0

\* A date array runs from its start towards its end in equal steps and stops
\* only where one more step would pass the end.  (From a day that a month may
\* lack, every step starts from the clamped day before it: left out.)
SeriesRegular ==
  LET Regular(s, n, part, beyond) ==
        s # DateError /\ s # <<>> =>
          /\ \A k \in DOMAIN s : s[k] = AddDateWithInterval(origin, n * (k - 1), part)
          /\ IF n > 0 THEN s[Len(s)] <= day /\ day < beyond
                      ELSE s[Len(s)] >= day /\ day > beyond
      Check(s, n, part) ==
        Regular(s, n, part, AddDateWithInterval(origin, n * Len(s), part))
  IN  day # NoDate /\ Civil(origin).d <= 28 =>
        \A n \in Steps \ {0}, part \in {"DAY", "WEEK", "MONTH", "QUARTER", "YEAR"} :
          Check(generateDateArray(origin, day, n, part), n, part)

\* Property: the functions that cut the calendar into stretches, DATE_TRUNC,
\* LAST_DAY and EXTRACT, agree on where every stretch begins, ends and counts.
StretchesExact == StretchEnclosed /\ WeeksNumbered

\* Property: the functions that step along the calendar, DATE_ADD, DATE_SUB,
\* DATE_BUCKET and GENERATE_DATE_ARRAY, agree on where n steps lead, also across
\* month ends that lack the day (DATE_BUCKET as far as BucketHolds says).
StepsExact == MonthsAgree /\ BucketHolds /\ SeriesRegular
=============================================================================
