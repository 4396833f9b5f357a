--------------------------- MODULE FunctionsProofs ---------------------------
(***************************************************************************)
(* Proofs about the SQL functions: INTERVAL and DATE arithmetic for any       *)
(* lengths of the units, any intervals, steps and divisors and any two dates;*)
(* RANGE values and RANGE_SESSIONIZE for any finite set of bounds; the       *)
(* aggregates for any call, any values and any group of rows; the window     *)
(* aggregators for any frame clause and any partition of rows.               *)
(***************************************************************************)
EXTENDS Ranges, Calendar, Aggregates, WindowFrame, FiniteSetTheorems, SequenceTheorems,
        WellFoundedInduction, TLAPS

USE PartsAssumption, DaysAssumption

-----------------------------------------------------------------------------
(* Induction over numbers, for sets of numbers.                           *)

\* The least element of a set of natural numbers.
LEMMA LeastNat ==
    ASSUME NEW T, T \subseteq Nat, T # {}
    PROVE  \E x \in T : \A y \in T : x <= y
<1> DEFINE R == {ss \in Nat \X Nat : ss[1] < ss[2]}
<1>1. IsWellFoundedOn(R, Nat)
  BY NatLessThanWellFounded DEF OpToRel
<1> HIDE DEF R
<1>2. PICK x \in T : \A y \in T : ~ (<<y, x>> \in R)
  BY <1>1, WFMin
<1>3. \A a, b \in Nat : <<b, a>> \in R <=> b < a
  BY DEF R
<1>4. ASSUME NEW y \in T PROVE x <= y
  <2>1. x \in Nat /\ y \in Nat /\ <<y, x>> \notin R
    BY <1>2, <1>4
  <2> QED
    BY <1>3, <2>1
<1> QED
  BY <1>4

\* Induction: a set that holds 0 and with n also n + 1 holds every number.
LEMMA NatSet ==
    ASSUME NEW S, 0 \in S, \A n \in Nat : n \in S => n + 1 \in S
    PROVE  Nat \subseteq S
<1> SUFFICES ASSUME Nat \ S # {} PROVE FALSE
  OBVIOUS
<1>1. PICK x \in Nat \ S : \A y \in Nat \ S : x <= y
  BY LeastNat
<1>2. x # 0 /\ x - 1 \in Nat
  BY <1>1
<1>3. x - 1 \in S
  BY <1>1, <1>2
<1> QED
  BY <1>1, <1>2, <1>3

-----------------------------------------------------------------------------
(* Division that truncates towards zero.                                   *)

Size(x) == IF x < 0 THEN -x ELSE x

LEMMA Divided ==
    ASSUME NEW a \in Nat, NEW b \in Nat \ {0}
    PROVE  /\ a \div b \in Nat
           /\ b * (a \div b) <= a /\ a < b * (a \div b) + b
OBVIOUS

LEMMA QuoRem ==
    ASSUME NEW a \in Int, NEW b \in Int, b # 0
    PROVE  /\ Quo(a, b) \in Int /\ Rem(a, b) \in Int
           /\ b * Quo(a, b) + Rem(a, b) = a
           /\ Small(Rem(a, b), Size(b))
           /\ a >= 0 => Rem(a, b) >= 0
           /\ a <= 0 => Rem(a, b) <= 0
<1> DEFINE p == Size(a)
           q == Size(b)
           d == p \div q
<1>1. p \in Nat /\ q \in Nat \ {0}
  BY DEF Size
<1>2. d \in Nat /\ q * d <= p /\ p < q * d + q
  BY <1>1, Divided
<1>3. Quo(a, b) = IF (a < 0) = (b < 0) THEN d ELSE -d
  BY DEF Quo, Size
<1> HIDE DEF d
<1>4. Quo(a, b) \in Int
  BY <1>2, <1>3
<1>5. b * Quo(a, b) = IF a < 0 THEN -(q * d) ELSE q * d
  BY <1>1, <1>2, <1>3 DEF Size
<1>6. Rem(a, b) = IF a < 0 THEN q * d - p ELSE p - q * d
  BY <1>1, <1>2, <1>5 DEF Size, Rem
<1>7. q * d \in Int
  BY <1>1, <1>2
<1> QED
  BY <1>1, <1>2, <1>4, <1>5, <1>6, <1>7 DEF Small, Size

\* What is smaller than the divisor stays as it is.
LEMMA QuoSmall ==
    ASSUME NEW a \in Int, NEW b \in Nat \ {0}, Small(a, b)
    PROVE  Quo(a, b) = 0 /\ Rem(a, b) = a
<1>1. Size(a) \in Nat /\ Size(a) < b
  BY DEF Size, Small
<1>2. Size(a) \div b = 0
  BY <1>1
<1>3. Quo(a, b) = 0
  BY <1>2 DEF Quo, Size
<1> QED
  BY <1>3 DEF Rem

-----------------------------------------------------------------------------
(* JUSTIFY_DAYS, JUSTIFY_HOURS and JUSTIFY_INTERVAL.                       *)

\* The pair j is worth as much as large units and small, with nothing to carry.
JustifiedAs(j, large, small, unit) ==
    /\ j[1] \in Int /\ j[2] \in Int /\ j = <<j[1], j[2]>>
    /\ j[1] * unit + j[2] = large * unit + small
    /\ Small(j[2], unit) /\ Agree(j[1], j[2])

LEMMA Carried ==
    ASSUME NEW large \in Int, NEW small \in Int, NEW unit \in Int, NEW q \in Int, NEW s \in Int,
           unit * q + s = small
    PROVE  (large + q) * unit + s = large * unit + small
OBVIOUS

LEMMA PairIs ==
    ASSUME NEW x \in Int, NEW y \in Int, NEW large, NEW small, NEW unit,
           x * unit + y = large * unit + small, Small(y, unit), Agree(x, y)
    PROVE  JustifiedAs(<<x, y>>, large, small, unit)
<1>1. <<x, y>>[1] = x /\ <<x, y>>[2] = y
  OBVIOUS
<1> QED
  BY <1>1 DEF JustifiedAs

LEMMA JustifyIs ==
    ASSUME NEW large \in Int, NEW small \in Int, NEW unit \in Nat \ {0}
    PROVE  JustifiedAs(justify(large, small, unit), large, small, unit)
<1>1. PICK q, s : q = Quo(small, unit) /\ s = Rem(small, unit)
  OBVIOUS
<1>2. q \in Int /\ s \in Int /\ unit * q + s = small /\ Small(s, unit)
  <2>1. Size(unit) = unit /\ unit \in Int /\ unit # 0
    BY DEF Size
  <2> QED
    BY <1>1, <2>1, QuoRem
<1>3. PICK l \in Int : l = large + q
  BY <1>2
<1>4. l * unit + s = large * unit + small
  <2>1. unit \in Int
    OBVIOUS
  <2> QED
    BY <1>2, <1>3, <2>1, Carried
<1>5. justify(large, small, unit) = CASE l > 0 /\ s < 0 -> <<l - 1, s + unit>>
                                      [] l < 0 /\ s > 0 -> <<l + 1, s - unit>>
                                      [] OTHER          -> <<l, s>>
  BY <1>1, <1>3 DEF justify
<1>6. CASE l > 0 /\ s < 0
  <2>1. justify(large, small, unit) = <<l - 1, s + unit>>
    BY <1>2, <1>5, <1>6
  <2>2. (l - 1) * unit + (s + unit) = large * unit + small
    BY <1>2, <1>4
  <2>3. Small(s + unit, unit) /\ Agree(l - 1, s + unit) /\ l - 1 \in Int /\ s + unit \in Int
    BY <1>2, <1>6 DEF Small, Agree, Sign
  <2> QED
    BY <2>1, <2>2, <2>3, PairIs
<1>7. CASE l < 0 /\ s > 0
  <2>1. justify(large, small, unit) = <<l + 1, s - unit>>
    BY <1>2, <1>5, <1>7
  <2>2. (l + 1) * unit + (s - unit) = large * unit + small
    BY <1>2, <1>4
  <2>3. Small(s - unit, unit) /\ Agree(l + 1, s - unit) /\ l + 1 \in Int /\ s - unit \in Int
    BY <1>2, <1>7 DEF Small, Agree, Sign
  <2> QED
    BY <2>1, <2>2, <2>3, PairIs
<1>8. CASE ~(l > 0 /\ s < 0) /\ ~(l < 0 /\ s > 0)
  <2>1. justify(large, small, unit) = <<l, s>>
    BY <1>5, <1>8
  <2>2. Agree(l, s)
    BY <1>2, <1>8 DEF Agree, Sign
  <2> QED
    BY <1>2, <1>4, <2>1, <2>2, PairIs
<1> QED
  BY <1>6, <1>7, <1>8

\* A smaller part below its unit only gives its sign away.
LEMMA JustifySmall ==
    ASSUME NEW large \in Int, NEW small \in Int, NEW unit \in Nat \ {0}, Small(small, unit),
           NEW j, j = justify(large, small, unit)
    PROVE  /\ large >= 0 => 0 <= j[1] /\ j[1] <= large
           /\ large <= 0 => large <= j[1] /\ j[1] <= 0
           /\ Agree(large, small) => j[1] = large /\ j[2] = small
<1>1. Quo(small, unit) = 0 /\ Rem(small, unit) = small
  BY QuoSmall
<1>2. j = CASE large > 0 /\ small < 0 -> <<large - 1, small + unit>>
            [] large < 0 /\ small > 0 -> <<large + 1, small - unit>>
            [] OTHER          -> <<large, small>>
  <2>1. large + Quo(small, unit) = large
    BY <1>1
  <2> QED
    BY <1>1, <2>1 DEF justify
<1>3. CASE large > 0 /\ small < 0
  BY <1>2, <1>3 DEF Agree, Sign
<1>4. CASE large < 0 /\ small > 0
  <2>1. j = <<large + 1, small - unit>>
    BY <1>2, <1>4
  <2> QED
    BY <1>4, <2>1 DEF Agree, Sign
<1>5. CASE ~(large > 0 /\ small < 0) /\ ~(large < 0 /\ small > 0)
  BY <1>2, <1>5
<1> QED
  BY <1>3, <1>4, <1>5

LEMMA JoinedIs ==
    ASSUME NEW a, NEW b, NEW c
    PROVE  /\ (<<a, b>> \o <<c>>)[1] = a /\ (<<a, b>> \o <<c>>)[2] = b /\ (<<a, b>> \o <<c>>)[3] = c
           /\ (<<a>> \o <<b, c>>)[1] = a /\ (<<a>> \o <<b, c>>)[2] = b /\ (<<a>> \o <<b, c>>)[3] = c
OBVIOUS

IsInterval(v) == v[1] \in Int /\ v[2] \in Int /\ v[3] \in Int

LEMMA DaysJustified ==
    ASSUME IsInterval(iv), NEW v, v = JUSTIFY_DAYS(iv), v # RangeError
    PROVE  compareKey(v) = compareKey(iv) /\ Small(v[2], 30) /\ Agree(v[1], v[2])
<1>1. PICK j : j = justify(iv[1], iv[2], 30)
  OBVIOUS
<1>2. /\ j[1] \in Int /\ j[2] \in Int /\ j = <<j[1], j[2]>>
      /\ j[1] * 30 + j[2] = iv[1] * 30 + iv[2]
      /\ Small(j[2], 30) /\ Agree(j[1], j[2])
  <2>1. 30 \in Nat \ {0}
    OBVIOUS
  <2>2. JustifiedAs(j, iv[1], iv[2], 30)
    BY <1>1, <2>1, JustifyIs DEF IsInterval
  <2> QED
    BY <2>2 DEF JustifiedAs
<1>3. v = <<j[1], j[2]>> \o <<iv[3]>>
  BY <1>1, <1>2 DEF JUSTIFY_DAYS, justifyDays, NewIntervalFromParts
<1>4. v[1] = j[1] /\ v[2] = j[2] /\ v[3] = iv[3]
  BY <1>3, JoinedIs
<1> QED
  BY <1>2, <1>4 DEF compareKey

LEMMA HoursJustified ==
    ASSUME IsInterval(iv), NEW v, v = JUSTIFY_HOURS(iv), v # RangeError
    PROVE  compareKey(v) = compareKey(iv) /\ Small(v[3], DayTicks) /\ Agree(v[2], v[3])
<1>1. PICK j : j = justify(iv[2], iv[3], DayTicks)
  OBVIOUS
<1>2. /\ j[1] \in Int /\ j[2] \in Int /\ j = <<j[1], j[2]>>
      /\ j[1] * DayTicks + j[2] = iv[2] * DayTicks + iv[3]
      /\ Small(j[2], DayTicks) /\ Agree(j[1], j[2])
  <2>1. JustifiedAs(j, iv[2], iv[3], DayTicks)
    BY <1>1, JustifyIs DEF IsInterval
  <2> QED
    BY <2>1 DEF JustifiedAs
<1>3. v = <<iv[1]>> \o <<j[1], j[2]>>
  BY <1>1, <1>2 DEF JUSTIFY_HOURS, justifyHours, NewIntervalFromParts
<1>4. v[1] = iv[1] /\ v[2] = j[1] /\ v[3] = j[2]
  BY <1>3, JoinedIs
<1>5. ASSUME NEW m \in Int, NEW d \in Int, NEW t \in Int
      PROVE  (m * 30 + d) * DayTicks + t = (m * 30) * DayTicks + (d * DayTicks + t)
  OBVIOUS
<1> QED
  BY <1>2, <1>4, <1>5 DEF compareKey, IsInterval

\* The value of an interval does not depend on which part holds it.
LEMMA KeyCarried ==
    ASSUME NEW m \in Int, NEW d \in Int, NEW q \in Int, NEW r \in Int, NEW t \in Int,
           NEW m1 \in Int, NEW d1 \in Int, NEW d2 \in Int, NEW t2 \in Int, NEW unit \in Int,
           unit * q + r = t, m1 * 30 + d1 = m * 30 + (d + q), d2 * unit + t2 = d1 * unit + r
    PROVE  (m1 * 30 + d2) * unit + t2 = (m * 30 + d) * unit + t
<1>1. (m1 * 30 + d2) * unit + t2 = (m1 * 30) * unit + (d2 * unit + t2)
  OBVIOUS
<1>2. (m1 * 30) * unit + (d1 * unit + r) = (m1 * 30 + d1) * unit + r
  OBVIOUS
<1>3. (m * 30 + (d + q)) * unit + r = (m * 30 + d) * unit + (unit * q + r)
  OBVIOUS
<1> QED
  BY <1>1, <1>2, <1>3

LEMMA IntervalJustified ==
    ASSUME IsInterval(iv), NEW v, v = JUSTIFY_INTERVAL(iv), v # RangeError
    PROVE  /\ compareKey(v) = compareKey(iv)
           /\ Small(v[2], 30) /\ Small(v[3], DayTicks)
           /\ Agree(v[1], v[2]) /\ Agree(v[2], v[3])
<1>0. 30 \in Nat \ {0} /\ DayTicks \in Nat \ {0} /\ DayTicks \in Int /\ DayTicks # 0
      /\ Size(DayTicks) = DayTicks
  BY DEF Size
<1>1. PICK m \in Int, d \in Int, t \in Int : m = iv[1] /\ d = iv[2] /\ t = iv[3]
  BY DEF IsInterval
<1>2. PICK q, r : q = Quo(t, DayTicks) /\ r = Rem(t, DayTicks)
  OBVIOUS
<1>3. q \in Int /\ r \in Int /\ DayTicks * q + r = t /\ Small(r, DayTicks)
  BY <1>0, <1>2, QuoRem
<1>4. PICK carried : carried = justify(m, d + q, 30)
  OBVIOUS
<1>5. PICK hours : hours = justify(carried[2], r, DayTicks)
  OBVIOUS
<1>6. PICK again : again = justify(carried[1], hours[1], 30)
  OBVIOUS
<1>7. v = again \o <<hours[2]>>
  BY <1>1, <1>2, <1>4, <1>5, <1>6
  DEF JUSTIFY_INTERVAL, justifyDays, justifyHours, NewIntervalFromParts
<1>8. JustifiedAs(carried, m, d + q, 30)
  <2>1. d + q \in Int
    BY <1>3
  <2> QED
    BY <1>0, <1>4, <2>1, JustifyIs
<1>9. /\ carried[1] \in Int /\ carried[2] \in Int
      /\ carried[1] * 30 + carried[2] = m * 30 + (d + q)
      /\ Small(carried[2], 30) /\ Agree(carried[1], carried[2])
  BY <1>8 DEF JustifiedAs
<1>10. JustifiedAs(hours, carried[2], r, DayTicks)
  BY <1>0, <1>3, <1>5, <1>9, JustifyIs
<1>11. /\ hours[1] \in Int /\ hours[2] \in Int
       /\ hours[1] * DayTicks + hours[2] = carried[2] * DayTicks + r
       /\ Small(hours[2], DayTicks) /\ Agree(hours[1], hours[2])
  BY <1>10 DEF JustifiedAs
\* The days lose at most their last one, and so have nothing to give back.
<1>12. /\ carried[2] >= 0 => 0 <= hours[1] /\ hours[1] <= carried[2]
       /\ carried[2] <= 0 => carried[2] <= hours[1] /\ hours[1] <= 0
  BY <1>3, <1>5, <1>9, JustifySmall
<1>13. Small(hours[1], 30) /\ Agree(carried[1], hours[1])
  BY <1>9, <1>11, <1>12 DEF Small, Agree, Sign
<1>14. again[1] = carried[1] /\ again[2] = hours[1]
  BY <1>0, <1>6, <1>9, <1>11, <1>13, JustifySmall
<1>15. again = <<again[1], again[2]>>
  <2>1. JustifiedAs(again, carried[1], hours[1], 30)
    BY <1>0, <1>6, <1>9, <1>11, JustifyIs
  <2> QED
    BY <2>1 DEF JustifiedAs
<1>16. v[1] = carried[1] /\ v[2] = hours[1] /\ v[3] = hours[2]
  <2>1. PICK x, y, z : x = again[1] /\ y = again[2] /\ z = hours[2]
    OBVIOUS
  <2>2. v = <<x, y>> \o <<z>>
    BY <1>7, <1>15, <2>1
  <2>3. v[1] = x /\ v[2] = y /\ v[3] = z
    BY <2>2, JoinedIs
  <2> QED
    BY <1>14, <2>1, <2>3
<1>17. (carried[1] * 30 + hours[1]) * DayTicks + hours[2] = (m * 30 + d) * DayTicks + t
  <2>1. PICK m1 \in Int, d1 \in Int, d2 \in Int, t2 \in Int :
             m1 = carried[1] /\ d1 = carried[2] /\ d2 = hours[1] /\ t2 = hours[2]
    BY <1>9, <1>11
  <2>2. m1 * 30 + d1 = m * 30 + (d + q) /\ d2 * DayTicks + t2 = d1 * DayTicks + r
    BY <1>9, <1>11, <2>1
  <2>3. (m1 * 30 + d2) * DayTicks + t2 = (m * 30 + d) * DayTicks + t
    BY <1>0, <1>3, <2>2, KeyCarried
  <2> QED
    BY <2>1, <2>3
<1>18. compareKey(v) = compareKey(iv)
  BY <1>1, <1>16, <1>17 DEF compareKey
<1> QED
  BY <1>11, <1>13, <1>16, <1>18

-----------------------------------------------------------------------------
(* Division of an interval.                                                *)

\* What n shares lack of the whole: r3 of the last division, and n times what
\* was cut below the microsecond.
LEMMA SharesOf ==
    ASSUME NEW n \in Int, NEW unit \in Int, NEW a \in Int, NEW d \in Int, NEW t \in Int,
           NEW q1 \in Int, NEW r1 \in Int, n * q1 + r1 = a,
           NEW q2 \in Int, NEW r2 \in Int, n * q2 + r2 = d + r1 * 30,
           NEW q3 \in Int, NEW r3 \in Int, n * q3 + r3 = t + r2 * unit,
           NEW cut \in Int, NEW r4 \in Int, cut + r4 = q3
    PROVE  (a * 30 + d) * unit + t - n * ((q1 * 30 + q2) * unit + cut) = r3 + n * r4
<1>1. n * ((q1 * 30 + q2) * unit + cut) = ((n * q1) * 30 + n * q2) * unit + n * cut
  <2>1. n * ((q1 * 30 + q2) * unit + cut) = n * ((q1 * 30 + q2) * unit) + n * cut
    OBVIOUS
  <2>2. n * ((q1 * 30 + q2) * unit) = (n * (q1 * 30 + q2)) * unit
    OBVIOUS
  <2>3. n * (q1 * 30 + q2) = (n * q1) * 30 + n * q2
    OBVIOUS
  <2> QED
    BY <2>1, <2>2, <2>3
<1>2. a * 30 + d - ((n * q1) * 30 + n * q2) = r2
  OBVIOUS
<1>3. PICK w \in Int, s \in Int : w = a * 30 + d /\ s = (n * q1) * 30 + n * q2
  OBVIOUS
<1>4. w * unit - s * unit = r2 * unit
  <2>1. w = s + r2
    BY <1>2, <1>3
  <2>2. (s + r2) * unit = s * unit + r2 * unit
    BY <1>3
  <2>3. s * unit \in Int /\ r2 * unit \in Int
    BY <1>3
  <2> QED
    BY <2>1, <2>2, <2>3
<1>5. n * cut = n * q3 - n * r4
  <2>1. n * (cut + r4) = n * cut + n * r4
    OBVIOUS
  <2> QED
    BY <2>1
<1>6. w * unit \in Int /\ s * unit \in Int /\ n * cut \in Int /\ n * q3 \in Int /\ n * r4 \in Int
      /\ r2 * unit \in Int
  BY <1>3
<1> QED
  BY <1>1, <1>3, <1>4, <1>5, <1>6

\* It is less than a microsecond for each share.
LEMMA Lost ==
    ASSUME NEW n \in Int, n # 0, NEW unit \in Nat \ {0}, NEW r3 \in Int, NEW r4 \in Int,
           Small(r3, Size(n)), Small(r4, unit)
    PROVE  Small(r3 + n * r4, Size(n) * unit)
<1>1. PICK c \in Nat : c = Size(n)
  BY DEF Size
<1>2. r4 <= unit - 1 /\ -r4 <= unit - 1
  BY DEF Small
<1>3. c * r4 <= c * (unit - 1) /\ c * (-r4) <= c * (unit - 1)
  BY <1>2
<1>4. c * (unit - 1) = c * unit - c /\ c * (-r4) = -(c * r4)
  OBVIOUS
<1>5. n * r4 = c * r4 \/ n * r4 = -(c * r4)
  BY <1>1 DEF Size
<1>6. c * r4 \in Int /\ c * unit \in Int /\ n * r4 \in Int
  OBVIOUS
<1>7. -c < r3 /\ r3 < c
  BY <1>1 DEF Small
<1>8. -(c * unit) < r3 + n * r4 /\ r3 + n * r4 < c * unit
  BY <1>3, <1>4, <1>5, <1>6, <1>7
<1> QED
  BY <1>1, <1>8 DEF Small

LEMMA DivisionIs ==
    ASSUME IsInterval(iv), NEW n \in Divisors, NEW share,
           share = DivideIntervalParts(iv, n), share # RangeError
    PROVE  Small(compareKey(iv) - n * compareKey(share), Size(n) * Micro)
<1>0. n \in Int /\ n # 0 /\ Micro \in Int /\ Micro # 0 /\ Size(Micro) = Micro /\ DayTicks \in Int
  BY DEF Size
<1>1. PICK a \in Int, d \in Int, t \in Int : a = iv[1] /\ d = iv[2] /\ t = iv[3]
  BY DEF IsInterval
<1>2. PICK q1, r1 : q1 = Quo(a, n) /\ r1 = Rem(a, n)
  OBVIOUS
<1>3. q1 \in Int /\ r1 \in Int /\ n * q1 + r1 = a
  BY <1>0, <1>2, QuoRem
<1>4. PICK dd \in Int : dd = d + r1 * 30
  BY <1>3
<1>5. PICK q2, r2 : q2 = Quo(dd, n) /\ r2 = Rem(dd, n)
  OBVIOUS
<1>6. q2 \in Int /\ r2 \in Int /\ n * q2 + r2 = dd
  BY <1>0, <1>5, QuoRem
<1>7. PICK nn \in Int : nn = t + r2 * DayTicks
  BY <1>0, <1>6
<1>8. PICK q3, r3 : q3 = Quo(nn, n) /\ r3 = Rem(nn, n)
  OBVIOUS
<1>9. q3 \in Int /\ r3 \in Int /\ n * q3 + r3 = nn /\ Small(r3, Size(n))
  BY <1>0, <1>8, QuoRem
<1>10. PICK q4, r4 : q4 = Quo(q3, Micro) /\ r4 = Rem(q3, Micro)
  OBVIOUS
<1>11. q4 \in Int /\ r4 \in Int /\ Micro * q4 + r4 = q3 /\ Small(r4, Micro)
  BY <1>0, <1>9, <1>10, QuoRem
<1>12. PICK cut \in Int : cut = q4 * Micro
  BY <1>0, <1>11
<1>13. cut + r4 = q3
  BY <1>0, <1>11, <1>12
<1>14. share = <<q1, q2, cut>>
  BY <1>1, <1>2, <1>4, <1>5, <1>7, <1>8, <1>10, <1>12 DEF DivideIntervalParts, NewIntervalFromParts
<1>15. share[1] = q1 /\ share[2] = q2 /\ share[3] = cut
  BY <1>14
<1>16. (a * 30 + d) * DayTicks + t - n * ((q1 * 30 + q2) * DayTicks + cut) = r3 + n * r4
  <2>1. n * q2 + r2 = d + r1 * 30 /\ n * q3 + r3 = t + r2 * DayTicks
    BY <1>4, <1>6, <1>7, <1>9
  <2> QED
    BY <1>0, <1>3, <1>6, <1>9, <1>11, <1>13, <2>1, SharesOf
<1>17. compareKey(iv) - n * compareKey(share) = r3 + n * r4
  <2>1. compareKey(iv) = (a * 30 + d) * DayTicks + t
    BY <1>1 DEF compareKey
  <2>2. compareKey(share) = (q1 * 30 + q2) * DayTicks + cut
    BY <1>15 DEF compareKey
  <2>3. PICK x \in Int, y \in Int : /\ x = (a * 30 + d) * DayTicks
                                   /\ y = (q1 * 30 + q2) * DayTicks + cut
    BY <1>0, <1>3, <1>6
  <2>4. x + t - n * y = r3 + n * r4
    BY <1>16, <2>3
  <2>5. n * y \in Int
    BY <1>0
  <2>6. x + (t - n * y) = (x + t) - n * y
    BY <2>5
  <2> QED
    BY <2>1, <2>2, <2>3, <2>4, <2>6
<1>18. Small(r3 + n * r4, Size(n) * Micro)
  BY <1>0, <1>9, <1>11, Lost
<1> QED
  BY <1>17, <1>18

-----------------------------------------------------------------------------
\* JUSTIFY_DAYS, JUSTIFY_HOURS and JUSTIFY_INTERVAL (justify.go) keep an
\* interval's place in the INTERVAL order, leave no whole unit in a smaller part
\* and give adjacent parts one sign; dividing an interval by an integer
\* (DivideIntervalParts, value_interval.go) loses less than a microsecond of each share.  For every
\* interval and every divisor but 0, whatever the length of a day.
THEOREM IntervalsKeepPlace == RangeSpec => []IntervalOrderKept
<1>1. RangeInit => IsInterval(iv)
  <2>1. SUFFICES ASSUME NEW m \in Months, NEW d \in Days, NEW t \in Ticks, iv = <<m, d, t>>
                 PROVE  IsInterval(iv)
    BY DEF RangeInit
  <2> QED
    BY <2>1 DEF IsInterval
<1>2. IsInterval(iv) /\ [RangeNext]_rangeVars => IsInterval(iv)'
  BY DEF RangeNext, Insert, rangeVars, IsInterval
<1>3. IsInterval(iv) => IntervalOrderKept
  <2>1. ASSUME IsInterval(iv)
        PROVE  Justified
    <3>1. PICK d, h, i : d = JUSTIFY_DAYS(iv) /\ h = JUSTIFY_HOURS(iv) /\ i = JUSTIFY_INTERVAL(iv)
      OBVIOUS
    <3>2. d # RangeError =>
             compareKey(d) = compareKey(iv) /\ Small(d[2], 30) /\ Agree(d[1], d[2])
      BY <2>1, <3>1, DaysJustified
    <3>3. h # RangeError =>
             compareKey(h) = compareKey(iv) /\ Small(h[3], DayTicks) /\ Agree(h[2], h[3])
      BY <2>1, <3>1, HoursJustified
    <3>4. i # RangeError =>
             /\ compareKey(i) = compareKey(iv) /\ Small(i[2], 30) /\ Small(i[3], DayTicks)
             /\ Agree(i[1], i[2]) /\ Agree(i[2], i[3])
      BY <2>1, <3>1, IntervalJustified
    <3> QED
      BY <3>1, <3>2, <3>3, <3>4 DEF Justified
  <2>2. ASSUME IsInterval(iv)
        PROVE  DivisionExact
    BY <2>2, DivisionIs DEF DivisionExact, Size
  <2> QED
    BY <2>1, <2>2 DEF IntervalOrderKept
<1> QED
  BY <1>1, <1>2, <1>3, PTL DEF RangeSpec

-----------------------------------------------------------------------------
(* The calendar.  A year Y begins on March 1; its months are 0..11, of     *)
(* which the last is February.                                             *)

\* The days before year Y and, in a year, before month p.
YearStart(Y) == 365 * Y + Y \div 4 - Y \div 100 + Y \div 400
MonthStart(p) == (153 * p + 2) \div 5

LEMMA YearLength ==
    ASSUME NEW Y \in Int
    PROVE  /\ YearStart(Y) \in Int
           /\ YearStart(Y + 1) - YearStart(Y) \in {365, 366}
BY DEF YearStart

\* Centuries, four years and years of an era of 400 years, of which only those
\* before a leap day have a day 365.
EraParts(doe, c, f, g, k) ==
    /\ c \in 0..3 /\ f \in 0..24 /\ g \in 0..3 /\ k \in 0..365
    /\ k = 365 => g = 3 /\ (f = 24 => c = 3)
    /\ doe = 36524 * c + 1461 * f + 365 * g + k

LEMMA EraYear ==
    ASSUME NEW doe, NEW c, NEW f, NEW g, NEW k, EraParts(doe, c, f, g, k)
    PROVE  (doe - doe \div 1460 + doe \div 36524 - doe \div 146096) \div 365 = 100 * c + 4 * f + g
<1>1. /\ c \in 0..3 /\ f \in 0..24 /\ g \in 0..3 /\ k \in 0..365
      /\ k = 365 => g = 3 /\ (f = 24 => c = 3)
      /\ doe = 36524 * c + 1461 * f + 365 * g + k /\ doe \in Int
  BY SMT DEF EraParts
<1>2. doe \div 36524 - doe \div 146096 = c
  BY <1>1, SMT
<1>3. doe \div 1460 = 25 * c + f + (24 * c + f + 365 * g + k) \div 1460
  BY <1>1, SMT
<1>4. PICK e \in Int : e = (24 * c + f + 365 * g + k) \div 1460
  BY <1>1, SMT
<1>5. e \in {0, 1} /\ 0 <= k - e /\ k - e < 365
  BY <1>1, <1>4, SMT
<1>6. doe - doe \div 1460 + doe \div 36524 - doe \div 146096
        = 365 * (100 * c + 4 * f + g) + (k - e)
  BY <1>1, <1>2, <1>3, <1>4, SMT
<1>7. (365 * (100 * c + 4 * f + g) + (k - e)) \div 365 = 100 * c + 4 * f + g
  BY <1>1, <1>5, SMT
<1> QED
  BY <1>6, <1>7, SMT

LEMMA EraDay ==
    ASSUME NEW doe \in Int, 0 <= doe, doe <= 146096
    PROVE  \E c, f, g, k : EraParts(doe, c, f, g, k)
<1>1. PICK c \in Int : c = IF doe >= 109572 THEN 3 ELSE doe \div 36524
  BY SMT
<1>2. PICK r \in Int : r = doe - 36524 * c
  BY SMT
<1>3. c \in 0..3 /\ 0 <= r /\ r <= 36524 /\ (r = 36524 => c = 3)
  BY <1>1, <1>2, SMT
<1>4. PICK f \in Int, s \in Int : f = r \div 1461 /\ s = r - 1461 * f
  BY SMT
<1>5. f \in 0..24 /\ 0 <= s /\ s <= 1460 /\ (f = 24 /\ s = 1460 => c = 3)
  BY <1>3, <1>4, SMT
<1>6. PICK g \in Int, k \in Int : g = (IF s = 1460 THEN 3 ELSE s \div 365) /\ k = s - 365 * g
  BY SMT
<1>7. g \in 0..3 /\ k \in 0..365 /\ (k = 365 => g = 3 /\ s = 1460)
  BY <1>5, <1>6, SMT
<1>8. doe = 36524 * c + 1461 * f + 365 * g + k
  BY <1>2, <1>3, <1>4, <1>5, <1>6, <1>7, SMT
<1>9. EraParts(doe, c, f, g, k)
  BY <1>3, <1>5, <1>7, <1>8, SMT DEF EraParts
<1> QED
  BY <1>9

\* t is day e of month p of year Y.
On(t, Y, p, e) ==
    /\ Y \in Int /\ p \in 0..11 /\ e \in Nat
    /\ t + 719468 = YearStart(Y) + MonthStart(p) + e
    /\ IF p < 11 THEN MonthStart(p) + e < MonthStart(p + 1)
       ELSE YearStart(Y) + MonthStart(p) + e < YearStart(Y + 1)

LEMMA MonthIs ==
    ASSUME NEW k \in 0..365
    PROVE  /\ (5 * k + 2) \div 153 \in 0..11
           /\ MonthStart((5 * k + 2) \div 153) <= k
           /\ (5 * k + 2) \div 153 < 11 => k < MonthStart((5 * k + 2) \div 153 + 1)
BY DEF MonthStart

\* The days of an era.
YearOf(era, c, f, g) == 400 * era + 100 * c + 4 * f + g

StartsAt(Y, era, c, f, g) ==
    /\ YearStart(Y) = 146097 * era + 36524 * c + 1461 * f + 365 * g
    /\ YearStart(Y + 1) - YearStart(Y) = IF g = 3 /\ (f = 24 => c = 3) THEN 366 ELSE 365

LEMMA EraStart ==
    ASSUME NEW era \in Int, NEW c \in 0..3, NEW f \in 0..24, NEW g \in 0..3
    PROVE  StartsAt(YearOf(era, c, f, g), era, c, f, g)
<1>0. PICK Y : Y = YearOf(era, c, f, g)
  OBVIOUS
<1>1. Y \in Int /\ Y = 400 * era + 100 * c + 4 * f + g
  BY <1>0, SMT DEF YearOf
<1>2. Y \div 4 = 100 * era + 25 * c + f /\ Y \div 100 = 4 * era + c /\ Y \div 400 = era
  BY <1>1, SMT
<1>3. (Y + 1) \div 4 = 100 * era + 25 * c + f + IF g = 3 THEN 1 ELSE 0
  BY <1>1, SMT
<1>4. (Y + 1) \div 100 = 4 * era + c + IF g = 3 /\ f = 24 THEN 1 ELSE 0
  BY <1>1, SMT
<1>5. (Y + 1) \div 400 = era + IF g = 3 /\ f = 24 /\ c = 3 THEN 1 ELSE 0
  BY <1>1, SMT
<1> QED
  BY <1>0, <1>1, <1>2, <1>3, <1>4, <1>5, SMT DEF YearStart, StartsAt

CivilOf(Y, p, e) == [y |-> Y + p \div 10, m |-> ((p + 2) % 12) + 1, d |-> e + 1]

\* Civil finds the year, the month and the day.
LEMMA CivilFound ==
    ASSUME NEW t \in Int
    PROVE  \E Y, p, e : On(t, Y, p, e) /\ Civil(t) = CivilOf(Y, p, e)
<1>1. PICK era \in Int, doe \in Int : era = (t + 719468) \div 146097 /\ doe = (t + 719468) % 146097
  BY SMT
<1>2. t + 719468 = 146097 * era + doe /\ 0 <= doe /\ doe <= 146096
  BY <1>1, SMT
<1>3. PICK c, f, g, k : EraParts(doe, c, f, g, k)
  BY <1>2, EraDay
<1>4. /\ c \in 0..3 /\ f \in 0..24 /\ g \in 0..3 /\ k \in 0..365
      /\ k = 365 => g = 3 /\ (f = 24 => c = 3)
      /\ doe = 36524 * c + 1461 * f + 365 * g + k
  BY <1>3, SMT DEF EraParts
<1>5. PICK yoe \in Int : yoe = 100 * c + 4 * f + g
  BY <1>4, SMT
<1>6. (doe - doe \div 1460 + doe \div 36524 - doe \div 146096) \div 365 = yoe
  BY <1>3, <1>5, EraYear, SMT
<1>7. doe - (365 * yoe + yoe \div 4 - yoe \div 100) = k
  <2>1. yoe \div 4 = 25 * c + f /\ yoe \div 100 = c
    BY <1>4, <1>5, SMT
  <2> QED
    BY <1>4, <1>5, <2>1, SMT
<1>8. PICK Y \in Int : Y = 400 * era + yoe
  BY SMT
<1>9. /\ YearStart(Y) = 146097 * era + 36524 * c + 1461 * f + 365 * g
      /\ YearStart(Y + 1) - YearStart(Y) = IF g = 3 /\ (f = 24 => c = 3) THEN 366 ELSE 365
  <2>1. Y = YearOf(era, c, f, g)
    BY <1>4, <1>5, <1>8, SMT DEF YearOf
  <2>2. c \in 0..3 /\ f \in 0..24 /\ g \in 0..3
    BY <1>4
  <2>3. StartsAt(Y, era, c, f, g)
    BY <2>1, <2>2, EraStart, SMT
  <2> QED
    BY <2>3, SMT DEF StartsAt
<1>10. PICK p \in Int, e \in Int : p = (5 * k + 2) \div 153 /\ e = k - MonthStart(p)
  BY <1>4, SMT DEF MonthStart
<1>11. p \in 0..11 /\ MonthStart(p) <= k /\ (p < 11 => k < MonthStart(p + 1)) /\ MonthStart(p) \in Int
  <2>1. p \in 0..11 /\ MonthStart(p) <= k /\ (p < 11 => k < MonthStart(p + 1))
    BY <1>4, <1>10, MonthIs, SMT
  <2> QED
    BY <2>1, SMT DEF MonthStart
<1>12. t + 719468 = YearStart(Y) + k /\ YearStart(Y) + k < YearStart(Y + 1) /\ YearStart(Y) \in Int
       /\ YearStart(Y + 1) \in Int
  BY <1>2, <1>4, <1>9, YearLength, SMT
<1>13. On(t, Y, p, e)
  <2>1. e \in Nat /\ t + 719468 = YearStart(Y) + MonthStart(p) + e
    BY <1>4, <1>10, <1>11, <1>12, SMT
  <2>2. MonthStart(p) + e = k
    BY <1>4, <1>10, <1>11, SMT
  <2>3. YearStart(Y) + MonthStart(p) + e = YearStart(Y) + k
    BY <1>4, <1>10, <1>11, <1>12, SMT
  <2> QED
    BY <1>11, <1>12, <2>1, <2>2, <2>3, SMT DEF On
<1>14. Civil(t) = [y |-> Y + p \div 10, m |-> ((p + 2) % 12) + 1, d |-> k - (153 * p + 2) \div 5 + 1]
  <2>1. Civil(t) = OfDay(era, doe)
    BY <1>1, SMT DEF Civil
  <2>2. Civil(t) = OfEra(era, doe, yoe)
    BY <1>6, <2>1, SMT DEF OfDay
  <2>3. Civil(t) = OfYear(Y, k)
    BY <1>7, <1>8, <2>2, SMT DEF OfEra
  <2>4. Civil(t) = OfMonth(Y, k, p)
    BY <1>10, <2>3, SMT DEF OfYear
  <2> QED
    BY <2>4, SMT DEF OfMonth
<1>15. k - (153 * p + 2) \div 5 + 1 = e + 1
  BY <1>4, <1>10, SMT DEF MonthStart
<1>16. Civil(t) = CivilOf(Y, p, e)
  BY <1>14, <1>15, SMT DEF CivilOf
<1> QED
  BY <1>13, <1>16

LEMMA YearsInOrder ==
    ASSUME NEW Y \in Int, NEW Z \in Int, Y < Z
    PROVE  YearStart(Y + 1) <= YearStart(Z)
<1>1. /\ (Y + 1) \div 4 <= Z \div 4 /\ (Y + 1) \div 100 - Z \div 100 <= 0
      /\ (Y + 1) \div 400 <= Z \div 400
      /\ Z \div 100 - (Y + 1) \div 100 <= Z - (Y + 1)
  BY SMT
<1> QED
  BY <1>1, SMT DEF YearStart

LEMMA MonthsInOrder ==
    ASSUME NEW p \in 0..11
    PROVE  /\ MonthStart(p) \in Nat /\ MonthStart(p) <= 337
           /\ \A r \in 0..11 : p < r => MonthStart(p + 1) <= MonthStart(r)
BY SMT DEF MonthStart

-----------------------------------------------------------------------------
(* Months are numbered from March of year 0: month M has first day Begin(M). *)

Begin(M) == YearStart(M \div 12) + MonthStart(M % 12) - 719468
\* Month M is month p of year Y.
IsMonth(M, Y, p) == Y \in Int /\ p \in 0..11 /\ M = 12 * Y + p

LEMMA BeginIs ==
    ASSUME NEW M, NEW Y, NEW p, IsMonth(M, Y, p)
    PROVE  /\ Begin(M) = YearStart(Y) + MonthStart(p) - 719468
           /\ Begin(M) \in Int /\ YearStart(Y) \in Int /\ MonthStart(p) \in Nat /\ MonthStart(p) <= 337
<1>1. Y \in Int /\ p \in 0..11 /\ M \in Int /\ M \div 12 = Y /\ M % 12 = p
  BY SMT DEF IsMonth
<1>2. YearStart(Y) \in Int /\ MonthStart(p) \in Nat /\ MonthStart(p) <= 337
  BY <1>1, YearLength, MonthsInOrder, SMT
<1> QED
  BY <1>1, <1>2, SMT DEF Begin

LEMMA MonthPlace ==
    ASSUME NEW M \in Int
    PROVE  \E Y \in Int, p \in 0..11 : IsMonth(M, Y, p)
<1>1. M \div 12 \in Int /\ M % 12 \in 0..11 /\ M = 12 * (M \div 12) + (M % 12)
  BY SMT
<1>2. IsMonth(M, M \div 12, M % 12)
  BY <1>1 DEF IsMonth
<1> QED
  BY <1>1, <1>2

LEMMA BeginNext ==
    ASSUME NEW M \in Int
    PROVE  /\ Begin(M) \in Int
           /\ Begin(M + 1) - Begin(M) \in {28, 29, 30, 31}
           /\ Begin(M + 12) - Begin(M) \in {365, 366}
<1>0. PICK Y \in Int, p \in 0..11 : IsMonth(M, Y, p)
  BY MonthPlace
<1>1. M = 12 * Y + p
  BY <1>0 DEF IsMonth
<1>2. /\ Begin(M) = YearStart(Y) + MonthStart(p) - 719468
      /\ Begin(M) \in Int /\ YearStart(Y) \in Int /\ MonthStart(p) \in Nat /\ MonthStart(p) <= 337
  BY <1>0, BeginIs, SMT
<1>3. PICK Z \in Int : Z = Y + 1
  BY <1>0, SMT
<1>4. YearStart(Z) - YearStart(Y) \in {365, 366} /\ YearStart(Z) \in Int
  BY <1>0, <1>3, YearLength, SMT
<1>5. Begin(M + 12) = YearStart(Z) + MonthStart(p) - 719468
  <2>1. IsMonth(M + 12, Z, p)
    BY <1>0, <1>1, <1>3, SMT DEF IsMonth
  <2> QED
    BY <2>1, BeginIs, SMT
<1>6. CASE p < 11
  <2>1. PICK r \in 0..11 : r = p + 1
    BY <1>0, <1>6, SMT
  <2>2. IsMonth(M + 1, Y, r)
    BY <1>0, <1>1, <2>1, SMT DEF IsMonth
  <2>3. Begin(M + 1) = YearStart(Y) + MonthStart(r) - 719468
    BY <2>2, BeginIs, SMT
  <2>4. MonthStart(r) - MonthStart(p) \in 30..31 /\ MonthStart(r) \in Int
    BY <1>0, <2>1, SMT DEF MonthStart
  <2> QED
    BY <1>2, <1>4, <1>5, <2>3, <2>4, SMT
<1>7. CASE p = 11
  <2>1. IsMonth(M + 1, Z, 0)
    BY <1>0, <1>1, <1>3, <1>7, SMT DEF IsMonth
  <2>2. Begin(M + 1) = YearStart(Z) + MonthStart(0) - 719468
    BY <2>1, BeginIs, SMT
  <2>3. MonthStart(0) = 0 /\ MonthStart(p) = 337
    BY <1>7, SMT DEF MonthStart
  <2> QED
    BY <1>2, <1>4, <1>5, <2>2, <2>3, SMT
<1> QED
  BY <1>0, <1>6, <1>7, SMT

LEMMA BeginOrder ==
    ASSUME NEW M \in Int, NEW N \in Int, M < N
    PROVE  Begin(M + 1) <= Begin(N)
<1>0. PICK Y \in Int, p \in 0..11, Z \in Int, r \in 0..11 : IsMonth(M, Y, p) /\ IsMonth(N, Z, r)
  BY MonthPlace
<1>1. /\ M = 12 * Y + p /\ N = 12 * Z + r
      /\ Y \in Int /\ Z \in Int /\ p \in 0..11 /\ r \in 0..11
  BY <1>0 DEF IsMonth
<1>2. /\ Begin(M) = YearStart(Y) + MonthStart(p) - 719468
      /\ Begin(N) = YearStart(Z) + MonthStart(r) - 719468
      /\ Begin(M) \in Int /\ Begin(N) \in Int /\ Begin(M + 1) \in Int
      /\ YearStart(Y) \in Int /\ YearStart(Z) \in Int
      /\ MonthStart(p) \in Nat /\ MonthStart(p) <= 337 /\ MonthStart(r) \in Nat /\ MonthStart(r) <= 337
  <2>1. M + 1 \in Int
    BY SMT
  <2> QED
    BY <1>0, <2>1, BeginIs, BeginNext, SMT
<1>3. CASE Y < Z
  <2>1. YearStart(Y + 1) <= YearStart(Z) /\ YearStart(Y + 1) - YearStart(Y) \in {365, 366}
        /\ YearStart(Y + 1) \in Int
    <3>1. Y + 1 \in Int
      BY <1>1, SMT
    <3> QED
      BY <1>1, <1>3, <3>1, YearsInOrder, YearLength
  <2>2. CASE p < 11
    <3>1. Begin(M + 1) - Begin(M) \in {28, 29, 30, 31}
      BY BeginNext
    <3>2. MonthStart(p) <= 306
      BY <1>1, <2>2, SMT DEF MonthStart
    <3> QED
      BY <1>2, <2>1, <3>1, <3>2, SMT
  <2>3. CASE p = 11
    <3>1. PICK X \in Int : X = Y + 1
      BY <1>1, SMT
    <3>2. IsMonth(M + 1, X, 0)
      BY <1>1, <2>3, <3>1, SMT DEF IsMonth
    <3>3. Begin(M + 1) = YearStart(X) + MonthStart(0) - 719468 /\ YearStart(X) \in Int
      BY <3>2, BeginIs, SMT
    <3>4. MonthStart(0) = 0
      BY SMT DEF MonthStart
    <3> QED
      BY <1>2, <2>1, <3>1, <3>3, <3>4, SMT
  <2> QED
    BY <1>1, <2>2, <2>3, SMT
<1>4. CASE Y = Z
  <2>1. p < r
    BY <1>1, <1>4, SMT
  <2>2. PICK q \in 0..11 : q = p + 1
    BY <1>1, <2>1, SMT
  <2>3. IsMonth(M + 1, Y, q)
    BY <1>1, <2>2, SMT DEF IsMonth
  <2>4. Begin(M + 1) = YearStart(Y) + MonthStart(q) - 719468 /\ MonthStart(q) \in Nat /\ MonthStart(q) <= 337
    BY <2>3, BeginIs, SMT
  <2>5. MonthStart(q) <= MonthStart(r)
    BY <1>1, <2>1, <2>2, MonthsInOrder
  <2> QED
    BY <1>2, <1>4, <2>4, <2>5, SMT
<1>5. ~(Z < Y)
  BY <1>1, SMT
<1> QED
  BY <1>1, <1>3, <1>4, <1>5, SMT

\* time.Date: months outside the year carry into it.
LEMMA DateIs ==
    ASSUME NEW y \in Int, NEW m \in Int, NEW d \in Int
    PROVE  Date(y, m, d) = Begin(12 * y + m - 3) + d - 1
<1>1. PICK v \in Int, q \in 0..11 : v = (m - 3) \div 12 /\ q = (m - 3) % 12
  BY SMT
<1>2. IsMonth(12 * y + m - 3, y + v, q)
  BY <1>1, SMT DEF IsMonth
<1>3. /\ Begin(12 * y + m - 3) = YearStart(y + v) + MonthStart(q) - 719468
      /\ YearStart(y + v) \in Int /\ MonthStart(q) \in Nat /\ MonthStart(q) <= 337
  BY <1>2, BeginIs, SMT
<1>4. Date(y, m, d) = YearStart(y + v) + MonthStart(q) + d - 1 - 719468
  BY <1>1, SMT DEF Date, YearStart, MonthStart
<1> QED
  BY <1>3, <1>4, SMT

\* The parts of a date from the month it lies in.
InMonth(t, M) ==
    /\ M \in Int /\ Begin(M) <= t /\ t < Begin(M + 1)
    /\ Year(t) = (M + 2) \div 12 /\ Month(t) = ((M + 2) % 12) + 1
    /\ Civil(t).y = Year(t) /\ Civil(t).m = Month(t) /\ Civil(t).d = t - Begin(M) + 1

LEMMA MonthFound ==
    ASSUME NEW t \in Int
    PROVE  \E M \in Int : InMonth(t, M)
<1>1. PICK Y, p, e : On(t, Y, p, e) /\ Civil(t) = CivilOf(Y, p, e)
  BY CivilFound
<1>2. Y \in Int /\ p \in 0..11 /\ e \in Nat /\ t + 719468 = YearStart(Y) + MonthStart(p) + e
  BY <1>1, SMT DEF On
<1>3. PICK M \in Int : M = 12 * Y + p
  BY <1>2, SMT
<1>4. /\ Begin(M) = YearStart(Y) + MonthStart(p) - 719468
      /\ Begin(M) \in Int /\ YearStart(Y) \in Int /\ MonthStart(p) \in Nat /\ MonthStart(p) <= 337
  <2>1. IsMonth(M, Y, p)
    BY <1>2, <1>3 DEF IsMonth
  <2> QED
    BY <2>1, BeginIs, SMT
<1>5. Begin(M) <= t /\ e = t - Begin(M)
  BY <1>2, <1>4, SMT
<1>6. t < Begin(M + 1)
  <2>1. CASE p < 11
    <3>1. PICK r \in 0..11 : r = p + 1
      BY <1>2, <2>1, SMT
    <3>2. IsMonth(M + 1, Y, r)
      BY <1>2, <1>3, <3>1, SMT DEF IsMonth
    <3>3. Begin(M + 1) = YearStart(Y) + MonthStart(r) - 719468 /\ MonthStart(r) \in Nat /\ MonthStart(r) <= 337
      BY <3>2, BeginIs, SMT
    <3>4. MonthStart(p) + e < MonthStart(r)
      BY <1>1, <2>1, <3>1, SMT DEF On
    <3>5. PICK b \in Int : b = Begin(M + 1)
      BY <1>4, <3>3, SMT
    <3>6. e < MonthStart(r) - MonthStart(p) /\ b - Begin(M) = MonthStart(r) - MonthStart(p)
      BY <1>2, <1>4, <3>3, <3>4, <3>5, SMT
    <3> QED
      BY <1>4, <1>5, <3>5, <3>6, SMT
  <2>2. CASE p = 11
    <3>1. PICK Z \in Int : Z = Y + 1
      BY <1>2, SMT
    <3>2. IsMonth(M + 1, Z, 0)
      BY <1>2, <1>3, <2>2, <3>1, SMT DEF IsMonth
    <3>3. Begin(M + 1) = YearStart(Z) + MonthStart(0) - 719468 /\ YearStart(Z) \in Int
      BY <3>2, BeginIs, SMT
    <3>4. MonthStart(0) = 0
      BY SMT DEF MonthStart
    <3>5. YearStart(Y) + MonthStart(p) + e < YearStart(Z)
      BY <1>1, <2>2, <3>1, SMT DEF On
    <3> QED
      BY <1>2, <1>4, <3>3, <3>4, <3>5, SMT
  <2> QED
    BY <1>2, <2>1, <2>2, SMT
<1>7. /\ Civil(t).y = Y + p \div 10 /\ Civil(t).m = ((p + 2) % 12) + 1 /\ Civil(t).d = e + 1
      /\ Year(t) = Civil(t).y /\ Month(t) = Civil(t).m
  BY <1>1, SMT DEF CivilOf, Year, Month
<1>8. Y + p \div 10 = (M + 2) \div 12 /\ (p + 2) % 12 = (M + 2) % 12
  BY <1>2, <1>3, SMT
<1>9. InMonth(t, M)
  BY <1>3, <1>4, <1>5, <1>6, <1>7, <1>8, SMT DEF InMonth
<1> QED
  BY <1>9

LEMMA MonthUnique ==
    ASSUME NEW t \in Int, NEW M \in Int, Begin(M) <= t, t < Begin(M + 1)
    PROVE  InMonth(t, M)
<1>1. PICK N \in Int : InMonth(t, N)
  BY MonthFound
<1>2. Begin(N) <= t /\ t < Begin(N + 1)
  BY <1>1 DEF InMonth
<1>3. /\ M + 1 \in Int /\ N + 1 \in Int
      /\ Begin(M) \in Int /\ Begin(N) \in Int /\ Begin(M + 1) \in Int /\ Begin(N + 1) \in Int
  BY BeginNext, SMT
<1>4. (M < N => Begin(M + 1) <= Begin(N)) /\ (N < M => Begin(N + 1) <= Begin(M))
  BY BeginOrder
<1>5. M = N
  BY <1>2, <1>3, <1>4, SMT
<1> QED
  BY <1>1, <1>5

LEMMA BeginMonotone ==
    ASSUME NEW M \in Int, NEW N \in Int, M <= N
    PROVE  Begin(M) <= Begin(N)
<1>1. Begin(M) \in Int /\ Begin(N) \in Int /\ Begin(M + 1) - Begin(M) \in {28, 29, 30, 31} /\ Begin(M + 1) \in Int
  BY BeginNext, SMT
<1>2. M < N => Begin(M + 1) <= Begin(N)
  BY BeginOrder
<1> QED
  BY <1>1, <1>2, SMT

\* A month's first day lies in it.
LEMMA OpensMonth ==
    ASSUME NEW M \in Int, NEW t, t = Begin(M)
    PROVE  t \in Int /\ InMonth(t, M)
<1>1. Begin(M) \in Int /\ Begin(M + 1) - Begin(M) \in {28, 29, 30, 31} /\ Begin(M + 1) \in Int
  BY BeginNext, SMT
<1>2. t \in Int /\ Begin(M) <= t /\ t < Begin(M + 1)
  BY <1>1, SMT
<1> QED
  BY <1>2, MonthUnique

LEMMA FieldsOf ==
    ASSUME NEW t \in Int, NEW M \in Int, InMonth(t, M)
    PROVE  /\ Begin(M) \in Int /\ Begin(M + 1) \in Int /\ Begin(M) <= t /\ t < Begin(M + 1)
           /\ Year(t) = (M + 2) \div 12 /\ Year(t) \in Int
           /\ Month(t) = ((M + 2) % 12) + 1 /\ Month(t) \in 1..12
           /\ Civil(t).y = Year(t) /\ Civil(t).m = Month(t) /\ Civil(t).d = t - Begin(M) + 1
           /\ 12 * Year(t) + Month(t) - 3 = M
<1>1. M + 1 \in Int
  BY SMT
<1>2. Begin(M) \in Int /\ Begin(M + 1) \in Int
  BY <1>1, BeginNext
<1>3. Year(t) = (M + 2) \div 12 /\ Month(t) = ((M + 2) % 12) + 1
  BY DEF InMonth
<1>4. Year(t) \in Int /\ Month(t) \in 1..12 /\ 12 * Year(t) + Month(t) - 3 = M
  BY <1>3, SMT
<1> QED
  BY <1>2, <1>3, <1>4 DEF InMonth

\* time.AddDate by one day.
LEMMA NextDay ==
    ASSUME NEW t \in Int
    PROVE  DATE_ADD(t, 1, "DAY") = t + 1
<1>1. PICK M \in Int : InMonth(t, M)
  BY MonthFound
<1>2. PICK y \in Int, m \in Int, d \in Int : y = Civil(t).y + 0 /\ m = Civil(t).m + 0 /\ d = Civil(t).d + 1
  <2>1. Civil(t).y + 0 \in Int /\ Civil(t).m + 0 \in Int /\ Civil(t).d + 1 \in Int
    BY <1>1, FieldsOf, SMT
  <2> QED
    BY <2>1
<1>3. 12 * y + m - 3 = M /\ d = t - Begin(M) + 2 /\ Begin(M) \in Int
  BY <1>1, <1>2, FieldsOf, SMT
<1>4. DATE_ADD(t, 1, "DAY") = Date(y, m, d)
  BY <1>2 DEF DATE_ADD, AddDate
<1>5. Date(y, m, d) = Begin(12 * y + m - 3) + d - 1
  <2>1. y \in Int /\ m \in Int /\ d \in Int
    BY <1>2
  <2> QED
    BY <2>1, DateIs
<1> QED
  BY <1>3, <1>4, <1>5, SMT

\* The first of January opens a year.
LEMMA January ==
    ASSUME NEW y \in Int
    PROVE  Date(y, 1, 1) = Begin(12 * y - 2) /\ Begin(12 * y - 2) \in Int /\ 12 * y - 2 \in Int
<1>1. Date(y, 1, 1) = Begin(12 * y + 1 - 3) + 1 - 1
  BY DateIs
<1>2. 12 * y + 1 - 3 = 12 * y - 2 /\ 12 * y - 2 \in Int
  BY SMT
<1>3. Begin(12 * y - 2) \in Int
  BY <1>2, BeginNext
<1> QED
  BY <1>1, <1>2, <1>3, SMT

LEMMA YearHolds ==
    ASSUME NEW t \in Int
    PROVE  /\ Year(t) \in Int
           /\ Date(Year(t), 1, 1) <= t /\ t < Date(Year(t) + 1, 1, 1)
<1>1. PICK M \in Int : InMonth(t, M)
  BY MonthFound
<1>2. PICK y \in Int, a \in Int, b \in Int, n \in Int :
        y = Year(t) /\ a = 12 * y - 2 /\ b = 12 * (y + 1) - 2 /\ n = M + 1
  BY <1>1, FieldsOf, SMT
<1>3. a <= M /\ n <= b /\ y + 1 \in Int
  BY <1>1, <1>2, FieldsOf, SMT
<1>4. Begin(a) <= Begin(M) /\ Begin(n) <= Begin(b)
  BY <1>1, <1>2, <1>3, BeginMonotone
<1>5. Begin(M) <= t /\ t < Begin(n) /\ Begin(M) \in Int /\ Begin(n) \in Int
  BY <1>1, <1>2, FieldsOf
<1>6. Date(y, 1, 1) = Begin(a) /\ Date(y + 1, 1, 1) = Begin(b) /\ Begin(a) \in Int /\ Begin(b) \in Int
  BY <1>2, <1>3, January
<1> QED
  BY <1>2, <1>4, <1>5, <1>6, SMT

LEMMA YearsApart ==
    ASSUME NEW y \in Int, NEW z \in Int
    PROVE  /\ Date(y, 1, 1) \in Int
           /\ Date(y + 1, 1, 1) - Date(y, 1, 1) \in {365, 366}
           /\ y <= z => Date(y, 1, 1) <= Date(z, 1, 1)
<1>1. PICK a \in Int, b \in Int : a = 12 * y - 2 /\ b = 12 * z - 2
  BY SMT
<1>2. Date(y, 1, 1) = Begin(a) /\ Date(z, 1, 1) = Begin(b)
  BY <1>1, January
<1>3. Date(y + 1, 1, 1) = Begin(a + 12)
  <2>1. y + 1 \in Int /\ 12 * (y + 1) - 2 = a + 12
    BY <1>1, SMT
  <2> QED
    BY <2>1, January
<1>4. Begin(a) \in Int /\ Begin(a + 12) - Begin(a) \in {365, 366}
  BY <1>1, BeginNext
<1>5. y <= z => Begin(a) <= Begin(b)
  <2>1. y <= z => a <= b
    BY <1>1, SMT
  <2> QED
    BY <1>1, <2>1, BeginMonotone
<1> QED
  BY <1>2, <1>3, <1>4, <1>5

LEMMA YearIs ==
    ASSUME NEW t \in Int, NEW y \in Int, Date(y, 1, 1) <= t, t < Date(y + 1, 1, 1)
    PROVE  Year(t) = y
<1>1. PICK z \in Int : z = Year(t)
  BY YearHolds
<1>2. Date(z, 1, 1) <= t /\ t < Date(z + 1, 1, 1)
  BY <1>1, YearHolds
<1>3. /\ Date(y, 1, 1) \in Int /\ Date(z, 1, 1) \in Int
      /\ Date(y + 1, 1, 1) \in Int /\ Date(z + 1, 1, 1) \in Int
      /\ y + 1 <= z => Date(y + 1, 1, 1) <= Date(z, 1, 1)
      /\ z + 1 <= y => Date(z + 1, 1, 1) <= Date(y, 1, 1)
  <2>1. y + 1 \in Int /\ z + 1 \in Int
    BY SMT
  <2> QED
    BY <2>1, YearsApart
<1> QED
  BY <1>1, <1>2, <1>3, SMT

\* A week later the year is another one when the day is one of its first seven.
LEMMA YearAfterWeek ==
    ASSUME NEW t \in Int
    PROVE  Year(t) = Year(t - 7) + IF YearDay(t) <= 7 THEN 1 ELSE 0
<1>1. PICK y \in Int : y = Year(t)
  BY YearHolds
<1>2. /\ Date(y, 1, 1) <= t /\ t < Date(y + 1, 1, 1)
      /\ Date(y, 1, 1) \in Int /\ Date(y + 1, 1, 1) \in Int
      /\ Date(y - 1, 1, 1) \in Int /\ Date(y, 1, 1) - Date(y - 1, 1, 1) \in {365, 366}
  <2>1. y + 1 \in Int /\ y - 1 \in Int /\ y - 1 + 1 = y
    BY SMT
  <2> QED
    BY <1>1, <2>1, YearHolds, YearsApart
<1>3. YearDay(t) = t - Date(y, 1, 1) + 1
  BY <1>1 DEF YearDay
<1>4. CASE t - 7 >= Date(y, 1, 1)
  <2>1. t - 7 \in Int /\ Date(y, 1, 1) <= t - 7 /\ t - 7 < Date(y + 1, 1, 1)
    BY <1>2, <1>4, SMT
  <2>2. Year(t - 7) = y
    BY <2>1, YearIs
  <2> QED
    BY <1>1, <1>2, <1>3, <1>4, <2>2, SMT
<1>5. CASE t - 7 < Date(y, 1, 1)
  <2>1. /\ t - 7 \in Int /\ y - 1 \in Int /\ Date(y - 1, 1, 1) <= t - 7
        /\ t - 7 < Date(y - 1 + 1, 1, 1)
    <3>1. y - 1 + 1 = y /\ y - 1 \in Int
      BY SMT
    <3>2. t - 7 \in Int /\ Date(y - 1, 1, 1) <= t - 7 /\ t - 7 < Date(y, 1, 1)
      BY <1>2, <1>5, SMT
    <3> QED
      BY <3>1, <3>2
  <2>2. Year(t - 7) = y - 1
    BY <2>1, YearIs
  <2> QED
    BY <1>1, <1>2, <1>3, <1>5, <2>2, SMT
<1> QED
  BY <1>2, <1>4, <1>5, SMT

\* The number of the stretch a date lies in.
Stretch(t, part) ==
    CASE part \in WeekParts -> (t + 4 - WeekPartToOffset[part]) \div 7
      [] part = "DAY"       -> t
      [] part = "MONTH"     -> Year(t) * 12 + Month(t)
      [] part = "QUARTER"   -> Year(t) * 4 + Quarter(t)
      [] part = "YEAR"      -> Year(t)
      [] part = "ISOYEAR"   -> ISOYear(t)

LEMMA WeekPartsApart ==
    ASSUME NEW part \in WeekParts
    PROVE  part \notin {"DAY", "ISOWEEK", "MONTH", "QUARTER", "YEAR", "ISOYEAR"}
BY SMT DEF WeekParts, WeekPartToOffset

LEMMA WeeksAre ==
    ASSUME NEW s \in Int, NEW t \in Int, s <= t, NEW w \in 0..6
    PROVE  WeekBoundaries(s, t, w) = (t + 4 - w) \div 7 - (s + 4 - w) \div 7
<1>1. PICK q \in Int, r \in 0..6 : q = (t - s) \div 7 /\ r = (t - s) % 7
  BY SMT
<1>2. t = s + 7 * q + r
  BY <1>1, SMT
<1>3. WeekBoundaries(s, t, w) = q + IF \E k \in 1..r : (((s + 4) % 7) + k) % 7 = w THEN 1 ELSE 0
  BY <1>1 DEF WeekBoundaries, Weekday
<1>4. PICK v \in 0..6 : v = (s + 4 - w) % 7
  BY SMT
<1>5. (\E k \in 1..r : (((s + 4) % 7) + k) % 7 = w) <=> v + r >= 7
  <2>1. ASSUME NEW k \in 1..r, (((s + 4) % 7) + k) % 7 = w
        PROVE  v + r >= 7
    <3>1. (v + k) % 7 = 0 /\ k >= 1 /\ k <= r /\ k \in Int
      BY <1>4, <2>1, SMT
    <3> QED
      BY <3>1, SMT
  <2>2. ASSUME v + r >= 7
        PROVE  7 - v \in 1..r /\ (((s + 4) % 7) + (7 - v)) % 7 = w
    BY <1>4, <2>2, SMT
  <2> QED
    BY <2>1, <2>2
<1>6. (t + 4 - w) \div 7 - (s + 4 - w) \div 7 = q + IF v + r >= 7 THEN 1 ELSE 0
  BY <1>2, <1>4, SMT
<1> QED
  BY <1>3, <1>5, <1>6

LEMMA StretchTyped ==
    ASSUME NEW t \in Int, NEW part \in Parts \ {"ISOWEEK"}
    PROVE  /\ Stretch(t, part) \in Int
           /\ Year(t) \in Int /\ Month(t) \in 1..12 /\ Quarter(t) \in 0..3 /\ ISOYear(t) \in Int
<1>1. PICK M \in Int : InMonth(t, M)
  BY MonthFound
<1>2. Year(t) \in Int /\ Month(t) \in 1..12
  BY <1>1, FieldsOf
<1>3. Quarter(t) \in 0..3
  BY <1>2, SMT DEF Quarter
<1>4. ISOThursday(t) \in Int
  BY SMT DEF ISOThursday, Weekday
<1>5. ISOYear(t) \in Int
  BY <1>4, YearHolds DEF ISOYear
<1>6. part \in WeekParts => WeekPartToOffset[part] \in 0..6
  BY SMT DEF WeekParts, WeekPartToOffset
<1>7. Stretch(t, part) \in Int
  BY <1>2, <1>3, <1>5, <1>6, SMT DEF Stretch, Parts
<1> QED
  BY <1>2, <1>3, <1>5, <1>7

\* DATE_DIFF subtracts the numbers of two stretches.
LEMMA DiffIs ==
    ASSUME NEW a \in Int, NEW b \in Int, NEW part \in Parts \ {"ISOWEEK"},
           part # "DAY" \/ Reaches(a, b)
    PROVE  DATE_DIFF(a, b, part) = Stretch(a, part) - Stretch(b, part)
<1>1. CASE part \in WeekParts
  <2>1. PICK w \in 0..6 : w = WeekPartToOffset[part]
    BY <1>1, SMT DEF WeekParts, WeekPartToOffset
  <2>2. DATE_DIFF(a, b, part) = IF b > a THEN -WeekBoundaries(a, b, w) ELSE WeekBoundaries(b, a, w)
    BY <1>1, <2>1, WeekPartsApart, SMT DEF DATE_DIFF
  <2>3. Stretch(a, part) = (a + 4 - w) \div 7 /\ Stretch(b, part) = (b + 4 - w) \div 7
    BY <1>1, <2>1, WeekPartsApart, SMT DEF Stretch
  <2>4. b > a => WeekBoundaries(a, b, w) = (b + 4 - w) \div 7 - (a + 4 - w) \div 7
    <3>1. b > a => a <= b
      BY SMT
    <3> QED
      BY <2>1, <3>1, WeeksAre, Zenon
  <2>5. ~(b > a) => WeekBoundaries(b, a, w) = (a + 4 - w) \div 7 - (b + 4 - w) \div 7
    <3>1. ~(b > a) => b <= a
      BY SMT
    <3> QED
      BY <2>1, <3>1, WeeksAre, Zenon
  <2> QED
    BY <2>2, <2>3, <2>4, <2>5, SMT
<1>2. CASE part \notin WeekParts
  <2>1. part \in {"DAY", "MONTH", "QUARTER", "YEAR", "ISOYEAR"}
    BY <1>2, SMT DEF Parts
  <2>2. CASE part = "DAY"
    <3>1. Sub(a, b) = a - b /\ ~(a - b < -MaxDuration)
      BY <2>2, SMT DEF Sub, Reaches, MaxDuration
    <3>2. DATE_DIFF(a, b, part) = IF Sub(a, b) < -MaxDuration THEN -MaxDuration ELSE Sub(a, b)
      BY <1>2, <2>2, SMT DEF DATE_DIFF
    <3>3. Stretch(a, part) = a /\ Stretch(b, part) = b
      BY <1>2, <2>2, SMT DEF Stretch
    <3> QED
      BY <3>1, <3>2, <3>3
  <2>3. CASE part # "DAY"
    BY <1>2, <2>1, <2>3, SMT DEF DATE_DIFF, Stretch
  <2> QED
    BY <2>2, <2>3
<1> QED
  BY <1>1, <1>2

LEMMA ThursdayNext ==
    ASSUME NEW t \in Int
    PROVE  /\ Weekday(t + 1) = 1 => /\ ISOThursday(t + 1) = t + 1 + 3
                                    /\ ISOThursday(t) = t + 1 + 3 - 7
           /\ Weekday(t + 1) # 1 => ISOThursday(t + 1) = ISOThursday(t)
BY SMT DEF ISOThursday, Weekday

MonthParts == {"MONTH", "QUARTER", "YEAR"}

LEMMA WeekStretch ==
    ASSUME NEW part \in WeekParts, NEW t \in Int
    PROVE  /\ WeekPartToOffset[part] \in Nat /\ WeekPartToOffset[part] <= 6
           /\ Stretch(t, part) = (t + 4 - WeekPartToOffset[part]) \div 7
           /\ Opens(t, part) <=> (t + 4) % 7 = WeekPartToOffset[part]
<1>1. part # "DAY" /\ part # "ISOWEEK" /\ part # "MONTH" /\ part # "QUARTER"
      /\ part # "YEAR" /\ part # "ISOYEAR"
  BY WeekPartsApart
<1>2. WeekPartToOffset[part] \in Nat /\ WeekPartToOffset[part] <= 6
  BY SMT DEF WeekParts, WeekPartToOffset
<1>3. PICK w : w = WeekPartToOffset[part]
  OBVIOUS
<1>4. Stretch(t, part) = (t + 4 - w) \div 7
  BY <1>1, <1>3, SMT DEF Stretch
<1>5. Opens(t, part) <=> Weekday(t) = w
  BY <1>1, <1>3, SMT DEF Opens
<1> QED
  BY <1>2, <1>3, <1>4, <1>5 DEF Weekday

\* Stretches of months: where they lie and when they open.
LEMMA MonthStretch ==
    ASSUME NEW t \in Int, NEW M \in Int, InMonth(t, M), NEW part \in MonthParts
    PROVE  /\ Stretch(t, part) = IF part = "MONTH" THEN M + 3
                                 ELSE IF part = "QUARTER" THEN (M + 2) \div 3
                                 ELSE (M + 2) \div 12
           /\ Opens(t, part) <=> /\ t = Begin(M)
                                 /\ part = "QUARTER" => (M + 2) % 3 = 0
                                 /\ part = "YEAR" => (M + 2) % 12 = 0
<1>1. /\ Begin(M) \in Int
      /\ Year(t) = (M + 2) \div 12 /\ Month(t) = ((M + 2) % 12) + 1
      /\ Civil(t).m = ((M + 2) % 12) + 1 /\ Civil(t).d = t - Begin(M) + 1
  BY FieldsOf
<1>2. part \notin WeekParts
  BY SMT DEF WeekParts, WeekPartToOffset, MonthParts
<1>3. CASE part = "MONTH"
  <2>1. Stretch(t, part) = Year(t) * 12 + Month(t) /\ (Opens(t, part) <=> Civil(t).d = 1)
    BY <1>2, <1>3, SMT DEF Stretch, Opens
  <2> QED
    BY <1>1, <1>3, <2>1, SMT
<1>4. CASE part = "QUARTER"
  <2>1. /\ Stretch(t, part) = Year(t) * 4 + (Month(t) - 1) \div 3
        /\ Opens(t, part) <=> Civil(t).d = 1 /\ Civil(t).m \in {1, 4, 7, 10}
    BY <1>2, <1>4, SMT DEF Stretch, Opens, Quarter
  <2> QED
    BY <1>1, <1>4, <2>1, SMT
<1>5. CASE part = "YEAR"
  <2>1. Stretch(t, part) = Year(t) /\ (Opens(t, part) <=> Civil(t).d = 1 /\ Civil(t).m = 1)
    BY <1>2, <1>5, SMT DEF Stretch, Opens
  <2> QED
    BY <1>1, <1>5, <2>1, SMT
<1> QED
  BY <1>3, <1>4, <1>5 DEF MonthParts

LEMMA IsoStretch ==
    ASSUME NEW t \in Int
    PROVE  /\ Stretch(t, "ISOYEAR") = Year(ISOThursday(t))
           /\ Opens(t, "ISOYEAR") <=> Weekday(t) = 1 /\ YearDay(t + 3) <= 7
           /\ ISOThursday(t) \in Int
<1>1. "ISOYEAR" \notin WeekParts
  BY SMT DEF WeekParts, WeekPartToOffset
<1>2. ISOThursday(t) \in Int
  BY SMT DEF ISOThursday, Weekday
<1> QED
  BY <1>1, <1>2, Zenon DEF Stretch, Opens, ISOYear

LEMMA DayStretch ==
    ASSUME NEW t \in Int
    PROVE  Stretch(t, "DAY") = t /\ Opens(t, "DAY")
<1>1. "DAY" \notin WeekParts
  BY SMT DEF WeekParts, WeekPartToOffset
<1> QED
  BY <1>1, SMT DEF Stretch, Opens

\* From one day to the next the number grows by one when a stretch opens.
LEMMA StretchNext ==
    ASSUME NEW t \in Int, NEW part \in Parts \ {"ISOWEEK"}
    PROVE  Stretch(t + 1, part) = Stretch(t, part) + IF Opens(t + 1, part) THEN 1 ELSE 0
<1>0. t + 1 \in Int
  BY SMT
<1>1. CASE part \in WeekParts
  <2>1. PICK w : w = WeekPartToOffset[part]
    OBVIOUS
  <2>2. /\ w \in Nat /\ w <= 6
        /\ Stretch(t, part) = (t + 4 - w) \div 7 /\ Stretch(t + 1, part) = (t + 1 + 4 - w) \div 7
        /\ Opens(t + 1, part) <=> (t + 1 + 4) % 7 = w
    BY <1>0, <1>1, <2>1, WeekStretch
  <2>3. (t + 1 + 4 - w) \div 7 = (t + 4 - w) \div 7 + IF (t + 1 + 4) % 7 = w THEN 1 ELSE 0
    BY <2>2, SMT
  <2> QED
    BY <2>2, <2>3
<1>2. CASE part = "DAY"
  BY <1>0, <1>2, DayStretch
<1>3. CASE part \in MonthParts
  <2>0. PICK M \in Int : InMonth(t, M)
    BY MonthFound
  <2>1. /\ Begin(M) \in Int /\ Begin(M + 1) \in Int /\ Begin(M) <= t /\ t < Begin(M + 1)
    BY <2>0, FieldsOf
  <2>2. PICK N \in Int : /\ InMonth(t + 1, N)
                         /\ \/ N = M /\ t + 1 # Begin(N)
                            \/ N = M + 1 /\ t + 1 = Begin(N)
    <3>1. CASE t + 1 < Begin(M + 1)
      <4>1. Begin(M) <= t + 1 /\ t + 1 # Begin(M)
        BY <2>1, SMT
      <4>2. InMonth(t + 1, M)
        BY <1>0, <2>0, <3>1, <4>1, MonthUnique
      <4> QED
        BY <2>0, <4>1, <4>2
    <3>2. CASE t + 1 = Begin(M + 1)
      <4>1. M + 1 \in Int
        BY <2>0, SMT
      <4>2. InMonth(t + 1, M + 1)
        BY <3>2, <4>1, OpensMonth
      <4> QED
        BY <3>2, <4>1, <4>2
    <3> QED
      BY <2>1, <3>1, <3>2, SMT
  <2>3. /\ Stretch(t, part) = IF part = "MONTH" THEN M + 3
                              ELSE IF part = "QUARTER" THEN (M + 2) \div 3
                              ELSE (M + 2) \div 12
        /\ Stretch(t + 1, part) = IF part = "MONTH" THEN N + 3
                                  ELSE IF part = "QUARTER" THEN (N + 2) \div 3
                                  ELSE (N + 2) \div 12
        /\ Opens(t + 1, part) <=> /\ t + 1 = Begin(N)
                                  /\ part = "QUARTER" => (N + 2) % 3 = 0
                                  /\ part = "YEAR" => (N + 2) % 12 = 0
    BY <1>0, <1>3, <2>0, <2>2, MonthStretch
  <2>4. part = "MONTH" \/ part = "QUARTER" \/ part = "YEAR"
    BY <1>3 DEF MonthParts
  <2> QED
    BY <2>0, <2>2, <2>3, <2>4, SMT
<1>4. CASE part = "ISOYEAR"
  <2>1. Opens(t + 1, part) <=> Weekday(t + 1) = 1 /\ YearDay(t + 1 + 3) <= 7
    BY <1>0, <1>4, IsoStretch
  <2>2. /\ Stretch(t, part) = Year(ISOThursday(t))
        /\ Stretch(t + 1, part) = Year(ISOThursday(t + 1))
        /\ Year(ISOThursday(t)) \in Int
    BY <1>0, <1>4, IsoStretch, YearHolds
  <2>3. CASE Weekday(t + 1) = 1
    <3>1. t + 1 + 3 \in Int
      BY SMT
    <3>2. Year(t + 1 + 3) = Year(t + 1 + 3 - 7) + IF YearDay(t + 1 + 3) <= 7 THEN 1 ELSE 0
      BY <3>1, YearAfterWeek
    <3>3. ISOThursday(t + 1) = t + 1 + 3 /\ ISOThursday(t) = t + 1 + 3 - 7
      BY <2>3, ThursdayNext
    <3> QED
      BY <2>1, <2>2, <2>3, <3>2, <3>3
  <2>4. CASE Weekday(t + 1) # 1
    <3>1. ISOThursday(t + 1) = ISOThursday(t)
      BY <2>4, ThursdayNext
    <3> QED
      BY <2>1, <2>2, <2>4, <3>1, SMT
  <2> QED
    BY <2>3, <2>4
<1> QED
  BY <1>1, <1>2, <1>3, <1>4, SMT DEF Parts, MonthParts

DatesAre == day \in Int /\ origin \in Int

LEMMA DatesStay == DatesAre /\ [DateNext]_dateVars => DatesAre'
<1> SUFFICES ASSUME DatesAre, [DateNext]_dateVars PROVE DatesAre'
  OBVIOUS
<1>1. CASE Tomorrow
  <2>1. day' = day + 1 /\ origin' = origin
    BY <1>1, NextDay DEF Tomorrow, DatesAre
  <2> QED
    BY <2>1, SMT DEF DatesAre
<1>2. CASE UNCHANGED dateVars
  BY <1>2 DEF DatesAre, dateVars
<1> QED
  BY <1>1, <1>2 DEF DateNext

\* For every range of days and every set of origins, DATE_DIFF counts the
\* stretches that open between two dates (date_diff.go), for each part but ISOWEEK:
\* from one day to the next it grows by one exactly when a week, month, quarter,
\* year or ISO year begins, it is 0 from a date to itself and changes sign with
\* the order of the dates.  The days are counted as far as Time.Sub measures.
THEOREM BoundariesAreCounted == DateSpec => BoundariesCounted
<1>1. DateInit => DatesAre
  BY DEF DateInit, DatesAre
<1>2. DatesAre /\ [DateNext]_dateVars => DatesAre'
  BY DatesStay
<1>3. DatesAre /\ [DateNext]_dateVars =>
        [day # NoDate => \A part \in Parts \ {"ISOWEEK"} :
           part # "DAY" \/ (Reaches(day, origin) /\ Reaches(day', origin)) =>
           /\ DATE_DIFF(day, day, part) = 0
           /\ DATE_DIFF(origin, day, part) = -DATE_DIFF(day, origin, part)
           /\ DATE_DIFF(day', origin, part) =
                DATE_DIFF(day, origin, part) + IF Opens(day', part) THEN 1 ELSE 0]_dateVars
  <2> SUFFICES ASSUME DatesAre, Tomorrow, NEW part \in Parts \ {"ISOWEEK"},
                      part # "DAY" \/ (Reaches(day, origin) /\ Reaches(day', origin))
               PROVE  /\ DATE_DIFF(day, day, part) = 0
                      /\ DATE_DIFF(origin, day, part) = -DATE_DIFF(day, origin, part)
                      /\ DATE_DIFF(day', origin, part) =
                           DATE_DIFF(day, origin, part) + IF Opens(day', part) THEN 1 ELSE 0
    BY DEF DateNext
  <2>1. PICK t \in Int, s \in Int : t = day /\ s = origin
    BY DEF DatesAre
  <2>2. day' = t + 1 /\ t + 1 \in Int
    BY <2>1, NextDay, SMT DEF Tomorrow
  <2>a. Reaches(t, t) /\ (Reaches(t, s) => Reaches(s, t))
    BY SMT DEF Reaches, MaxDuration
  <2>3. /\ DATE_DIFF(t, t, part) = Stretch(t, part) - Stretch(t, part)
        /\ DATE_DIFF(s, t, part) = Stretch(s, part) - Stretch(t, part)
        /\ DATE_DIFF(t, s, part) = Stretch(t, part) - Stretch(s, part)
        /\ DATE_DIFF(t + 1, s, part) = Stretch(t + 1, part) - Stretch(s, part)
    <3>1. part # "DAY" \/ (Reaches(t, s) /\ Reaches(t + 1, s))
      BY <2>1, <2>2
    <3> QED
      BY <2>2, <2>a, <3>1, DiffIs
  <2>4. Stretch(t + 1, part) = Stretch(t, part) + IF Opens(t + 1, part) THEN 1 ELSE 0
    BY StretchNext
  <2>5. Stretch(t, part) \in Int /\ Stretch(s, part) \in Int
    BY StretchTyped
  <2>6. /\ DATE_DIFF(t, t, part) = 0
        /\ DATE_DIFF(s, t, part) = -DATE_DIFF(t, s, part)
        /\ DATE_DIFF(t + 1, s, part) =
             DATE_DIFF(t, s, part) + IF Opens(t + 1, part) THEN 1 ELSE 0
    BY <2>3, <2>4, <2>5, SMT
  <2> QED
    BY <2>1, <2>2, <2>6
<1> QED
  BY <1>1, <1>2, <1>3, PTL DEF DateSpec, BoundariesCounted

-----------------------------------------------------------------------------
(* Where stretches begin and end.                                          *)

LEMMA YearOrder ==
    ASSUME NEW s \in Int, NEW t \in Int, s <= t
    PROVE  Year(s) <= Year(t)
<1>1. PICK y \in Int, z \in Int : y = Year(s) /\ z = Year(t)
  BY YearHolds
<1>2. Date(y, 1, 1) <= s /\ t < Date(z + 1, 1, 1)
  BY <1>1, YearHolds
<1>3. /\ z + 1 \in Int /\ Date(y, 1, 1) \in Int /\ Date(z + 1, 1, 1) \in Int
      /\ z + 1 <= y => Date(z + 1, 1, 1) <= Date(y, 1, 1)
  <2>1. z + 1 \in Int
    BY SMT
  <2> QED
    BY <1>1, <2>1, YearsApart
<1> QED
  BY <1>1, <1>2, <1>3, SMT

LEMMA MonthOrder ==
    ASSUME NEW s \in Int, NEW t \in Int, s <= t,
           NEW M \in Int, NEW N \in Int, InMonth(s, M), InMonth(t, N)
    PROVE  M <= N
<1>1. Begin(M) \in Int /\ Begin(M) <= s /\ t < Begin(N + 1) /\ Begin(N + 1) \in Int
  BY FieldsOf
<1>2. N < M => Begin(N + 1) <= Begin(M)
  BY BeginOrder
<1> QED
  BY <1>1, <1>2, SMT

LEMMA StretchOrder ==
    ASSUME NEW s \in Int, NEW t \in Int, s <= t, NEW part \in Parts \ {"ISOWEEK"}
    PROVE  Stretch(s, part) <= Stretch(t, part)
<1>1. CASE part \in WeekParts
  <2>1. PICK w : w = WeekPartToOffset[part]
    OBVIOUS
  <2>2. /\ w \in Nat /\ Stretch(s, part) = (s + 4 - w) \div 7
        /\ Stretch(t, part) = (t + 4 - w) \div 7
    BY <1>1, <2>1, WeekStretch
  <2> QED
    BY <2>2, SMT
<1>2. CASE part = "DAY"
  BY <1>2, DayStretch
<1>3. CASE part \in MonthParts
  <2>1. PICK M \in Int, N \in Int : InMonth(s, M) /\ InMonth(t, N)
    BY MonthFound
  <2>2. M <= N
    BY <2>1, MonthOrder
  <2>3. /\ Stretch(s, part) = IF part = "MONTH" THEN M + 3
                              ELSE IF part = "QUARTER" THEN (M + 2) \div 3
                              ELSE (M + 2) \div 12
        /\ Stretch(t, part) = IF part = "MONTH" THEN N + 3
                              ELSE IF part = "QUARTER" THEN (N + 2) \div 3
                              ELSE (N + 2) \div 12
    BY <1>3, <2>1, MonthStretch
  <2> QED
    BY <2>1, <2>2, <2>3, SMT
<1>4. CASE part = "ISOYEAR"
  <2>1. ISOThursday(s) <= ISOThursday(t)
    BY SMT DEF ISOThursday, Weekday
  <2> QED
    BY <1>4, <2>1, IsoStretch, YearOrder
<1> QED
  BY <1>1, <1>2, <1>3, <1>4, SMT DEF Parts, MonthParts

\* Between two days of one stretch no other opens.
LEMMA NoneOpens ==
    ASSUME NEW s \in Int, NEW t \in Int, NEW part \in Parts \ {"ISOWEEK"},
           Stretch(s, part) = Stretch(t, part),
           NEW u \in (s + 1)..t
    PROVE  ~Opens(u, part)
<1>1. PICK v \in Int : v + 1 = u
  <2>1. u - 1 \in Int /\ u - 1 + 1 = u
    BY SMT
  <2> QED
    BY <2>1
<1>2. s <= v /\ u <= t /\ u \in Int
  BY <1>1, SMT
<1>3. Stretch(s, part) <= Stretch(v, part) /\ Stretch(u, part) <= Stretch(t, part)
  BY <1>1, <1>2, StretchOrder
<1>4. Stretch(v + 1, part) = Stretch(v, part) + IF Opens(v + 1, part) THEN 1 ELSE 0
  BY <1>1, StretchNext
<1>5. /\ Stretch(s, part) \in Int /\ Stretch(v, part) \in Int
      /\ Stretch(u, part) \in Int /\ Stretch(t, part) \in Int
  BY <1>1, <1>2, StretchTyped
<1> QED
  BY <1>1, <1>3, <1>4, <1>5, SMT

\* day s opens the stretch that t lies in, and day f ends it.
OpenedBy(s, t, part) ==
    /\ s \in Int /\ s <= t /\ t - s <= 365
    /\ Opens(s, part) /\ Stretch(s, part) = Stretch(t, part)
EndsOn(f, t, part) ==
    /\ f \in Int /\ t <= f
    /\ Opens(f + 1, part) /\ Stretch(f, part) = Stretch(t, part)

LEMMA WeekBack ==
    ASSUME NEW t \in Int, NEW w \in Nat, w <= 6
    PROVE  /\ WalkBack(t, w) \in Int /\ WalkBack(t, w) <= t /\ t - WalkBack(t, w) <= 365
           /\ (WalkBack(t, w) + 4) % 7 = w
           /\ (WalkBack(t, w) + 4 - w) \div 7 = (t + 4 - w) \div 7
<1>1. PICK v \in Int, r \in Int : v = (t + 4) % 7 /\ r = (v - w) % 7
  BY SMT
<1>2. WalkBack(t, w) = t - r
  BY <1>1 DEF WalkBack, Weekday
<1>3. r >= 0 /\ r <= 6 /\ (t - r + 4) % 7 = w
  BY <1>1, SMT
<1>4. (t - r + 4 - w) \div 7 = (t + 4 - w) \div 7
  BY <1>1, <1>3, SMT
<1> QED
  BY <1>2, <1>3, <1>4, SMT

LEMMA WeekOn ==
    ASSUME NEW t \in Int, NEW w \in Nat, w <= 6,
           NEW f, f = t + ((w + 6 - Weekday(t) + 7) % 7)
    PROVE  /\ f \in Int /\ t <= f /\ (f + 1 + 4) % 7 = w
           /\ (f + 4 - w) \div 7 = (t + 4 - w) \div 7
<1>1. PICK v \in Int, r \in Int : v = (t + 4) % 7 /\ r = (w + 6 - v + 7) % 7
  BY SMT
<1>2. f = t + r
  BY <1>1 DEF Weekday
<1>3. r >= 0 /\ r <= 6 /\ (t + r + 1 + 4) % 7 = w
  BY <1>1, SMT
<1>4. (t + r + 4 - w) \div 7 = (t + 4 - w) \div 7
  BY <1>1, <1>3, SMT
<1> QED
  BY <1>2, <1>3, <1>4, SMT

\* The first month of the quarter or year that month M lies in, and the month
\* after its last.
FirstMonth(M, part) == IF part = "MONTH" THEN M
                       ELSE IF part = "QUARTER" THEN 3 * ((M + 2) \div 3) - 2
                       ELSE 12 * ((M + 2) \div 12) - 2
NextMonth(M, part) == IF part = "MONTH" THEN M + 1
                      ELSE IF part = "QUARTER" THEN 3 * ((M + 2) \div 3) + 1
                      ELSE 12 * ((M + 2) \div 12) + 10

\* Month K is month m of year y of the calendar.
Numbered(K, y, m) == K \in Int /\ y \in Int /\ m \in Int /\ K = 12 * y + m - 3

LEMMA DateAt ==
    ASSUME NEW K, NEW y, NEW m, Numbered(K, y, m), NEW d \in Int
    PROVE  Date(y, m, d) = Begin(K) + d - 1 /\ Begin(K) \in Int
<1>1. y \in Int /\ m \in Int /\ K \in Int
  BY DEF Numbered
<1>2. Date(y, m, d) = Begin(12 * y + m - 3) + d - 1
  BY <1>1, DateIs
<1>3. K = 12 * y + m - 3
  BY DEF Numbered
<1> QED
  BY <1>1, <1>2, <1>3, BeginNext

LEMMA TruncDates ==
    ASSUME NEW t \in Int, NEW M \in Int, InMonth(t, M), NEW part \in MonthParts
    PROVE  /\ DATE_TRUNC(t, part) = Begin(FirstMonth(M, part))
           /\ LAST_DAY(t, part) = Begin(NextMonth(M, part)) - 1
<1>1. PICK y \in Int, m \in Int : y = Year(t) /\ m = Month(t)
  BY FieldsOf, SMT
<1>2. y = (M + 2) \div 12 /\ m = ((M + 2) % 12) + 1 /\ 12 * y + m - 3 = M
  BY <1>1, FieldsOf
<1>3. part \notin WeekParts
  BY SMT DEF WeekParts, WeekPartToOffset, MonthParts
<1>4. PICK q \in Int : q = (m - 1) \div 3
  BY <1>1, SMT
<1>5. q \in {0, 1, 2, 3} /\ Quarter(t) = q
  BY <1>1, <1>2, <1>4, SMT DEF Quarter
<1>6. 0 \in Int /\ 1 \in Int
  BY SMT
<1>7. CASE part = "MONTH"
  <2>1. DATE_TRUNC(t, part) = Date(y, m, 1) /\ LAST_DAY(t, part) = Date(y, m + 1, 0)
    BY <1>1, <1>3, <1>7, SMT DEF DATE_TRUNC, LAST_DAY
  <2>2. Numbered(M, y, m) /\ Numbered(M + 1, y, m + 1)
    BY <1>1, <1>2, SMT DEF Numbered
  <2>3. /\ Date(y, m, 1) = Begin(M) + 1 - 1 /\ Begin(M) \in Int
        /\ Date(y, m + 1, 0) = Begin(M + 1) + 0 - 1 /\ Begin(M + 1) \in Int
    BY <1>6, <2>2, DateAt
  <2> QED
    BY <1>7, <2>1, <2>3, SMT DEF FirstMonth, NextMonth
<1>8. CASE part = "QUARTER"
  <2>1. /\ DATE_TRUNC(t, part) = Date(y, <<1, 4, 7, 10>>[q + 1], 1)
        /\ LAST_DAY(t, part) = Date(y, q * 3 + 4, 0)
    BY <1>1, <1>3, <1>5, <1>8, SMT DEF DATE_TRUNC, LAST_DAY
  <2>2. <<1, 4, 7, 10>>[q + 1] = 3 * q + 1
    BY <1>5, SMT
  <2>3. PICK K, L : K = FirstMonth(M, part) /\ L = NextMonth(M, part)
    OBVIOUS
  <2>4. Numbered(K, y, 3 * q + 1) /\ Numbered(L, y, q * 3 + 4)
    BY <1>1, <1>2, <1>4, <1>8, <2>3, SMT DEF FirstMonth, NextMonth, Numbered
  <2>5. /\ Date(y, 3 * q + 1, 1) = Begin(K) + 1 - 1 /\ Begin(K) \in Int
        /\ Date(y, q * 3 + 4, 0) = Begin(L) + 0 - 1 /\ Begin(L) \in Int
    BY <1>6, <2>4, DateAt
  <2> QED
    BY <2>1, <2>2, <2>3, <2>5, SMT
<1>9. CASE part = "YEAR"
  <2>1. DATE_TRUNC(t, part) = Date(y, 1, 1) /\ LAST_DAY(t, part) = Date(y + 1, 1, 0)
    BY <1>1, <1>3, <1>9, SMT DEF DATE_TRUNC, LAST_DAY
  <2>2. PICK K, L : K = FirstMonth(M, part) /\ L = NextMonth(M, part)
    OBVIOUS
  <2>3. Numbered(K, y, 1) /\ Numbered(L, y + 1, 1)
    BY <1>1, <1>2, <1>9, <2>2, SMT DEF FirstMonth, NextMonth, Numbered
  <2>4. /\ Date(y, 1, 1) = Begin(K) + 1 - 1 /\ Begin(K) \in Int
        /\ Date(y + 1, 1, 0) = Begin(L) + 0 - 1 /\ Begin(L) \in Int
    BY <1>6, <2>3, DateAt
  <2> QED
    BY <2>1, <2>2, <2>4, SMT
<1> QED
  BY <1>7, <1>8, <1>9 DEF MonthParts

LEMMA MonthsOpened ==
    ASSUME NEW t \in Int, NEW part \in MonthParts
    PROVE  OpenedBy(DATE_TRUNC(t, part), t, part) /\ EndsOn(LAST_DAY(t, part), t, part)
<1>1. PICK M \in Int : InMonth(t, M)
  BY MonthFound
<1>2. PICK K, L : K = FirstMonth(M, part) /\ L = NextMonth(M, part)
  OBVIOUS
<1>3. part = "MONTH" \/ part = "QUARTER" \/ part = "YEAR"
  BY DEF MonthParts
<1>4. /\ K \in Int /\ K <= M /\ M < K + 12
      /\ part = "QUARTER" => (K + 2) % 3 = 0 /\ (K + 2) \div 3 = (M + 2) \div 3
      /\ part = "YEAR" => (K + 2) % 12 = 0 /\ (K + 2) \div 12 = (M + 2) \div 12
      /\ part = "MONTH" => K = M
  BY <1>1, <1>2, <1>3, SMT DEF FirstMonth
<1>5. PICK N \in Int : N + 1 = L
  <2>1. L - 1 \in Int /\ L - 1 + 1 = L
    BY <1>1, <1>2, <1>3, SMT DEF NextMonth
  <2> QED
    BY <2>1
<1>6. /\ L \in Int /\ M <= N
      /\ part = "QUARTER" => (L + 2) % 3 = 0 /\ (N + 2) \div 3 = (M + 2) \div 3
      /\ part = "YEAR" => (L + 2) % 12 = 0 /\ (N + 2) \div 12 = (M + 2) \div 12
      /\ part = "MONTH" => N = M
  BY <1>1, <1>2, <1>3, <1>5, SMT DEF NextMonth
<1>7. PICK s, f : s = DATE_TRUNC(t, part) /\ f = LAST_DAY(t, part)
  OBVIOUS
<1>8. s = Begin(K) /\ f = Begin(L) - 1 /\ Begin(L) \in Int
  BY <1>1, <1>2, <1>6, <1>7, TruncDates, BeginNext
<1>9. s \in Int /\ InMonth(s, K)
  BY <1>4, <1>8, OpensMonth
<1>10. s <= t /\ t - s <= 365
  <2>1. Begin(M) <= t /\ t < Begin(M + 1) /\ Begin(M) \in Int /\ Begin(M + 1) \in Int
    BY <1>1, FieldsOf
  <2>2. Begin(K) <= Begin(M)
    BY <1>1, <1>4, BeginMonotone
  <2>3. Begin(M + 1) <= Begin(K + 12)
    <3>1. M + 1 \in Int /\ K + 12 \in Int /\ M + 1 <= K + 12
      BY <1>1, <1>4, SMT
    <3> QED
      BY <3>1, BeginMonotone
  <2>4. Begin(K + 12) - Begin(K) \in {365, 366} /\ Begin(K + 12) \in Int
    <3>1. K + 12 \in Int
      BY <1>4, SMT
    <3> QED
      BY <1>4, <3>1, BeginNext
  <2> QED
    BY <1>8, <1>9, <2>1, <2>2, <2>3, <2>4, SMT
<1>11. Opens(s, part) /\ Stretch(s, part) = Stretch(t, part)
  <2>1. Opens(s, part) <=> /\ s = Begin(K)
                           /\ part = "QUARTER" => (K + 2) % 3 = 0
                           /\ part = "YEAR" => (K + 2) % 12 = 0
    BY <1>4, <1>9, MonthStretch
  <2>2. /\ Stretch(s, part) = IF part = "MONTH" THEN K + 3
                              ELSE IF part = "QUARTER" THEN (K + 2) \div 3
                              ELSE (K + 2) \div 12
        /\ Stretch(t, part) = IF part = "MONTH" THEN M + 3
                              ELSE IF part = "QUARTER" THEN (M + 2) \div 3
                              ELSE (M + 2) \div 12
    BY <1>1, <1>4, <1>9, MonthStretch
  <2> QED
    BY <1>3, <1>4, <1>8, <2>1, <2>2
<1>12. f \in Int /\ f + 1 = Begin(L) /\ t <= f /\ InMonth(f, N)
  <2>1. f \in Int /\ f + 1 = Begin(L)
    BY <1>8, SMT
  <2>2. t < Begin(M + 1) /\ Begin(M + 1) \in Int
    BY <1>1, FieldsOf
  <2>3. Begin(M + 1) <= Begin(L)
    <3>1. M + 1 \in Int /\ M + 1 <= L
      BY <1>1, <1>5, <1>6, SMT
    <3> QED
      BY <1>6, <3>1, BeginMonotone
  <2>4. Begin(N) \in Int /\ Begin(L) - Begin(N) \in {28, 29, 30, 31}
    BY <1>5, BeginNext
  <2>5. t <= f /\ Begin(N) <= f /\ f < Begin(N + 1)
    BY <1>5, <1>8, <2>1, <2>2, <2>3, <2>4, SMT
  <2> QED
    BY <1>5, <2>1, <2>5, MonthUnique
<1>13. Opens(f + 1, part)
  <2>1. f + 1 \in Int /\ InMonth(f + 1, L)
    BY <1>6, <1>12, OpensMonth
  <2>2. Opens(f + 1, part) <=> /\ f + 1 = Begin(L)
                               /\ part = "QUARTER" => (L + 2) % 3 = 0
                               /\ part = "YEAR" => (L + 2) % 12 = 0
    BY <1>6, <2>1, MonthStretch
  <2> QED
    BY <1>6, <1>12, <2>2
<1>14. Stretch(f, part) = Stretch(t, part)
  <2>1. /\ Stretch(f, part) = IF part = "MONTH" THEN N + 3
                              ELSE IF part = "QUARTER" THEN (N + 2) \div 3
                              ELSE (N + 2) \div 12
        /\ Stretch(t, part) = IF part = "MONTH" THEN M + 3
                              ELSE IF part = "QUARTER" THEN (M + 2) \div 3
                              ELSE (M + 2) \div 12
    BY <1>1, <1>5, <1>12, MonthStretch
  <2> QED
    BY <1>3, <1>6, <2>1
<1> QED
  BY <1>7, <1>9, <1>10, <1>11, <1>12, <1>13, <1>14 DEF OpenedBy, EndsOn

LEMMA WeeksOpened ==
    ASSUME NEW t \in Int, NEW part \in WeekParts
    PROVE  OpenedBy(DATE_TRUNC(t, part), t, part) /\ EndsOn(LAST_DAY(t, part), t, part)
<1>1. PICK w : w = WeekPartToOffset[part]
  OBVIOUS
<1>2. w \in Nat /\ w <= 6
  BY <1>1, WeekStretch
<1>3. PICK s, f : s = DATE_TRUNC(t, part) /\ f = LAST_DAY(t, part)
  OBVIOUS
<1>4. s = WalkBack(t, w) /\ f = t + ((w + 6 - Weekday(t) + 7) % 7)
  <2>1. part # "DAY" /\ part # "ISOWEEK" /\ part # "MONTH" /\ part # "QUARTER"
        /\ part # "YEAR" /\ part # "ISOYEAR"
    BY WeekPartsApart
  <2>2. s = WalkBack(t, w)
    BY <1>1, <1>3, <2>1, SMT DEF DATE_TRUNC
  <2>3. f = t + ((w + 6 - Weekday(t) + 7) % 7)
    BY <1>1, <1>3, <2>1, SMT DEF LAST_DAY
  <2> QED
    BY <2>2, <2>3
<1>5. /\ s \in Int /\ s <= t /\ t - s <= 365
      /\ (s + 4) % 7 = w /\ (s + 4 - w) \div 7 = (t + 4 - w) \div 7
  BY <1>2, <1>4, WeekBack
<1>6. /\ f \in Int /\ t <= f /\ (f + 1 + 4) % 7 = w
      /\ (f + 4 - w) \div 7 = (t + 4 - w) \div 7
  BY <1>2, <1>4, WeekOn
<1>7. f + 1 \in Int
  BY <1>6, SMT
<1> QED
  BY <1>1, <1>3, <1>5, <1>6, <1>7, WeekStretch DEF OpenedBy, EndsOn

\* LAST_DAY finds the Monday of the week of January 4 of the next year.
LEMMA IsoMonday ==
    ASSUME NEW j \in Int, NEW a, a = j + 3 - ((Weekday(j + 3) + 6) % 7)
    PROVE  a \in Int /\ Weekday(a) = 1 /\ j <= a + 3 /\ a + 3 < j + 7
<1>1. PICK r \in Int : r = (((j + 3 + 4) % 7) + 6) % 7
  BY SMT
<1>2. a = j + 3 - r
  BY <1>1 DEF Weekday
<1>3. r >= 0 /\ r <= 6 /\ (j + 3 - r + 4) % 7 = 1
  BY <1>1, SMT
<1>4. a \in Int /\ j <= a + 3 /\ a + 3 < j + 7
  BY <1>2, <1>3, SMT
<1> QED
  BY <1>2, <1>3, <1>4 DEF Weekday

\* s opens the ISO year y.
IsoOpens(s, y) ==
    /\ s \in Int /\ y \in Int /\ Weekday(s) = 1
    /\ Date(y, 1, 1) <= s + 3 /\ s + 3 < Date(y, 1, 1) + 7

LEMMA IsoOpened ==
    ASSUME NEW s, NEW y, IsoOpens(s, y)
    PROVE  Opens(s, "ISOYEAR") /\ Stretch(s, "ISOYEAR") = y
<1>1. /\ s \in Int /\ y \in Int /\ Weekday(s) = 1
      /\ Date(y, 1, 1) <= s + 3 /\ s + 3 < Date(y, 1, 1) + 7
  BY DEF IsoOpens
<1>2. /\ Date(y, 1, 1) \in Int /\ Date(y + 1, 1, 1) \in Int
      /\ Date(y + 1, 1, 1) - Date(y, 1, 1) \in {365, 366}
  <2>1. y + 1 \in Int
    BY <1>1, SMT
  <2> QED
    BY <1>1, <2>1, YearsApart
<1>3. s + 3 \in Int /\ s + 3 < Date(y + 1, 1, 1)
  BY <1>1, <1>2, SMT
<1>4. Year(s + 3) = y
  BY <1>1, <1>3, YearIs
<1>5. ISOThursday(s) = s + 3
  BY <1>1, SMT DEF ISOThursday
<1>6. YearDay(s + 3) = s + 3 - Date(y, 1, 1) + 1
  BY <1>1, <1>2, <1>3, <1>4, SMT DEF YearDay
<1>7. YearDay(s + 3) <= 7
  BY <1>1, <1>2, <1>6, SMT
<1> QED
  BY <1>1, <1>4, <1>5, <1>7, IsoStretch

LEMMA IsoFrom ==
    ASSUME NEW s \in Int, Opens(s, "ISOYEAR")
    PROVE  \E y \in Int : IsoOpens(s, y)
<1>1. Weekday(s) = 1 /\ YearDay(s + 3) <= 7 /\ s + 3 \in Int
  BY IsoStretch, SMT
<1>2. PICK y \in Int : y = Year(s + 3)
  BY <1>1, YearHolds
<1>3. Date(y, 1, 1) <= s + 3 /\ Date(y, 1, 1) \in Int
  BY <1>1, <1>2, YearHolds, YearsApart
<1>4. YearDay(s + 3) = s + 3 - Date(y, 1, 1) + 1
  BY <1>1, <1>2, <1>3, SMT DEF YearDay
<1>5. s + 3 < Date(y, 1, 1) + 7
  BY <1>1, <1>3, <1>4, SMT
<1> QED
  BY <1>1, <1>2, <1>3, <1>5 DEF IsoOpens

\* The days of an ISO year, from the one that opens it to the one before the
\* next opens.
LEMMA IsoHolds ==
    ASSUME NEW t \in Int
    PROVE  \E y \in Int, s \in Int, e \in Int :
             /\ y = ISOYear(t) /\ y = Stretch(t, "ISOYEAR")
             /\ IsoOpens(s, y) /\ IsoOpens(e, y + 1)
             /\ LAST_DAY(t, "ISOYEAR") = e - 1
             /\ s <= t /\ t < e
             /\ ISOThursday(t) = t + 3 - ((t + 3) % 7)
<1>1. PICK u \in Int : u = ISOThursday(t)
  BY IsoStretch
<1>2. u = t + 3 - ((t + 3) % 7)
  BY <1>1, SMT DEF ISOThursday, Weekday
<1>3. PICK y \in Int : y = Year(u)
  BY <1>1, YearHolds
<1>4. y = ISOYear(t) /\ y = Stretch(t, "ISOYEAR")
  BY <1>1, <1>3, IsoStretch DEF ISOYear
<1>5. PICK z \in Int : z = y + 1
  BY <1>3, SMT
<1>6. PICK i \in Int, j \in Int : i = Date(y, 1, 1) /\ j = Date(z, 1, 1)
  BY <1>3, <1>5, YearsApart
<1>7. i <= u /\ u < j
  BY <1>1, <1>3, <1>5, <1>6, YearHolds
<1>8. PICK s, e : /\ s = i + 3 - ((Weekday(i + 3) + 6) % 7)
                  /\ e = j + 3 - ((Weekday(j + 3) + 6) % 7)
  OBVIOUS
<1>9. /\ s \in Int /\ Weekday(s) = 1 /\ i <= s + 3 /\ s + 3 < i + 7
      /\ e \in Int /\ Weekday(e) = 1 /\ j <= e + 3 /\ e + 3 < j + 7
  BY <1>6, <1>8, IsoMonday
<1>10. IsoOpens(s, y) /\ IsoOpens(e, y + 1)
  BY <1>3, <1>5, <1>6, <1>9 DEF IsoOpens
<1>11. LAST_DAY(t, "ISOYEAR") = e - 1
  <2>1. LAST_DAY(t, "ISOYEAR") = ISOYearEnd(y)
    <3>1. "ISOYEAR" \notin WeekParts
      BY SMT DEF WeekParts, WeekPartToOffset
    <3> QED
      BY <1>4, <3>1, SMT DEF LAST_DAY
  <2>2. Date(z, 1, 4) = j + 3
    <3>1. PICK K \in Int : Numbered(K, z, 1)
      <4>1. 12 * z + 1 - 3 \in Int /\ 1 \in Int
        BY <1>5, SMT
      <4>2. Numbered(12 * z + 1 - 3, z, 1)
        BY <1>5, <4>1 DEF Numbered
      <4> QED
        BY <4>1, <4>2
    <3>2. 1 \in Int /\ 4 \in Int
      BY SMT
    <3>3. Date(z, 1, 4) = Begin(K) + 4 - 1 /\ Date(z, 1, 1) = Begin(K) + 1 - 1 /\ Begin(K) \in Int
      BY <3>1, <3>2, DateAt
    <3> QED
      BY <1>6, <3>3, SMT
  <2>3. ISOYearEnd(y) = Date(z, 1, 4) - ((Weekday(Date(z, 1, 4)) + 6) % 7) - 1
    BY <1>5 DEF ISOYearEnd
  <2>4. LAST_DAY(t, "ISOYEAR") = (j + 3) - ((Weekday(j + 3) + 6) % 7) - 1
    BY <2>1, <2>2, <2>3
  <2>5. PICK x : x = (Weekday(j + 3) + 6) % 7
    OBVIOUS
  <2>6. x \in Int
    BY <1>6, <2>5, SMT DEF Weekday
  <2>7. e = j + 3 - x
    BY <1>8, <2>5
  <2>8. LAST_DAY(t, "ISOYEAR") = j + 3 - x - 1
    BY <2>4, <2>5
  <2> QED
    BY <1>6, <2>6, <2>7, <2>8, SMT
<1>12. s <= t /\ t < e
  <2>1. (s + 4) % 7 = 1 /\ (e + 4) % 7 = 1
    BY <1>9 DEF Weekday
  <2> QED
    BY <1>1, <1>2, <1>7, <1>9, <2>1, SMT
<1> QED
  BY <1>1, <1>2, <1>3, <1>4, <1>9, <1>10, <1>11, <1>12

LEMMA IsoYearEnded ==
    ASSUME NEW t \in Int
    PROVE  EndsOn(LAST_DAY(t, "ISOYEAR"), t, "ISOYEAR")
<1>1. PICK y \in Int, s \in Int, e \in Int :
        /\ y = Stretch(t, "ISOYEAR")
        /\ IsoOpens(e, y + 1)
        /\ LAST_DAY(t, "ISOYEAR") = e - 1
        /\ t < e
  BY IsoHolds
<1>2. PICK f \in Int : f = e - 1
  BY <1>1, SMT
<1>3. f + 1 = e /\ t <= f
  BY <1>1, <1>2, SMT
<1>4. Opens(f + 1, "ISOYEAR") /\ Stretch(f + 1, "ISOYEAR") = y + 1
  BY <1>1, <1>3, IsoOpened
<1>5. Stretch(f, "ISOYEAR") \in Int
  BY <1>2, StretchTyped DEF Parts
<1>6. Stretch(f + 1, "ISOYEAR") = Stretch(f, "ISOYEAR") + 1
  BY <1>2, <1>4, StretchNext DEF Parts
<1>7. Stretch(f, "ISOYEAR") = y
  BY <1>1, <1>4, <1>5, <1>6, SMT
<1> QED
  BY <1>1, <1>2, <1>3, <1>4, <1>7 DEF EndsOn

LEMMA Enclosed ==
    ASSUME NEW t \in Int
    PROVE  \A part \in Parts :
             /\ part # "ISOYEAR" => /\ Opens(DATE_TRUNC(t, part), part)
                                    /\ DATE_DIFF(t, DATE_TRUNC(t, part), "DAY") \in 0..365
                                    /\ \A u \in (DATE_TRUNC(t, part) + 1)..t : ~Opens(u, part)
             /\ part # "DAY" => /\ Opens(LAST_DAY(t, part) + 1, part)
                                /\ LAST_DAY(t, part) >= t
                                /\ \A u \in (t + 1)..LAST_DAY(t, part) : ~Opens(u, part)
<1>1. ASSUME NEW part \in Parts \ {"ISOWEEK"}, NEW s, OpenedBy(s, t, part)
      PROVE  /\ Opens(s, part) /\ DATE_DIFF(t, s, "DAY") \in 0..365
             /\ \A u \in (s + 1)..t : ~Opens(u, part)
  <2>1. /\ s \in Int /\ s <= t /\ t - s <= 365
        /\ Opens(s, part) /\ Stretch(s, part) = Stretch(t, part)
    BY <1>1 DEF OpenedBy
  <2>2. DATE_DIFF(t, s, "DAY") = t - s
    <3>1. "DAY" \in Parts \ {"ISOWEEK"}
      BY DEF Parts
    <3>2. Reaches(t, s)
      BY <2>1, SMT DEF Reaches, MaxDuration
    <3> QED
      BY <2>1, <3>1, <3>2, DiffIs, DayStretch
  <2> QED
    BY <1>1, <2>1, <2>2, NoneOpens
<1>2. ASSUME NEW part \in Parts \ {"ISOWEEK"}, NEW f, EndsOn(f, t, part)
      PROVE  Opens(f + 1, part) /\ f >= t /\ \A u \in (t + 1)..f : ~Opens(u, part)
  <2>1. /\ f \in Int /\ t <= f /\ Opens(f + 1, part) /\ Stretch(f, part) = Stretch(t, part)
    BY <1>2 DEF EndsOn
  <2> QED
    BY <1>2, <2>1, NoneOpens
<1>3. ASSUME NEW part \in Parts \ {"ISOWEEK"}
      PROVE  /\ part # "ISOYEAR" => OpenedBy(DATE_TRUNC(t, part), t, part)
             /\ part # "DAY" => EndsOn(LAST_DAY(t, part), t, part)
  <2>1. CASE part \in WeekParts
    BY <2>1, WeeksOpened
  <2>2. CASE part \in MonthParts
    BY <2>2, MonthsOpened
  <2>3. CASE part = "DAY"
    <3>1. part \notin WeekParts
      BY <2>3, SMT DEF WeekParts, WeekPartToOffset
    <3>2. DATE_TRUNC(t, part) = t
      BY <2>3, <3>1, SMT DEF DATE_TRUNC
    <3> QED
      BY <2>3, <3>2, DayStretch, SMT DEF OpenedBy
  <2>4. CASE part = "ISOYEAR"
    BY <2>4, IsoYearEnded
  <2> QED
    BY <2>1, <2>2, <2>3, <2>4, SMT DEF Parts, MonthParts
<1>4. /\ DATE_TRUNC(t, "ISOWEEK") = DATE_TRUNC(t, "WEEK_MONDAY")
      /\ LAST_DAY(t, "ISOWEEK") = LAST_DAY(t, "WEEK_MONDAY")
      /\ \A u : Opens(u, "ISOWEEK") = Opens(u, "WEEK_MONDAY")
      /\ "WEEK_MONDAY" \in Parts \ {"ISOWEEK"}
  <2>1. /\ "ISOWEEK" \notin WeekParts /\ "WEEK_MONDAY" \in WeekParts
        /\ WeekPartToOffset["WEEK_MONDAY"] = 1
    BY SMT DEF WeekParts, WeekPartToOffset
  <2>2. DATE_TRUNC(t, "ISOWEEK") = DATE_TRUNC(t, "WEEK_MONDAY")
    BY <2>1, SMT DEF DATE_TRUNC
  <2>3. LAST_DAY(t, "ISOWEEK") = LAST_DAY(t, "WEEK_MONDAY")
    BY <2>1, SMT DEF LAST_DAY
  <2>4. ASSUME NEW u
        PROVE  Opens(u, "ISOWEEK") = Opens(u, "WEEK_MONDAY")
    BY <2>1, SMT DEF Opens
  <2> QED
    BY <2>1, <2>2, <2>3, <2>4 DEF Parts
<1> SUFFICES ASSUME NEW part \in Parts
             PROVE  /\ part # "ISOYEAR" => /\ Opens(DATE_TRUNC(t, part), part)
                                           /\ DATE_DIFF(t, DATE_TRUNC(t, part), "DAY") \in 0..365
                                           /\ \A u \in (DATE_TRUNC(t, part) + 1)..t : ~Opens(u, part)
                    /\ part # "DAY" => /\ Opens(LAST_DAY(t, part) + 1, part)
                                       /\ LAST_DAY(t, part) >= t
                                       /\ \A u \in (t + 1)..LAST_DAY(t, part) : ~Opens(u, part)
  OBVIOUS
<1>5. CASE part # "ISOWEEK"
  BY <1>1, <1>2, <1>3, <1>5
<1>6. CASE part = "ISOWEEK"
  <2>1. /\ OpenedBy(DATE_TRUNC(t, "WEEK_MONDAY"), t, "WEEK_MONDAY")
        /\ EndsOn(LAST_DAY(t, "WEEK_MONDAY"), t, "WEEK_MONDAY")
    BY <1>3, <1>4
  <2>2. /\ Opens(DATE_TRUNC(t, part), "WEEK_MONDAY")
        /\ DATE_DIFF(t, DATE_TRUNC(t, part), "DAY") \in 0..365
        /\ \A u \in (DATE_TRUNC(t, part) + 1)..t : ~Opens(u, "WEEK_MONDAY")
    BY <1>1, <1>4, <1>6, <2>1
  <2>3. /\ Opens(LAST_DAY(t, part) + 1, "WEEK_MONDAY") /\ LAST_DAY(t, part) >= t
        /\ \A u \in (t + 1)..LAST_DAY(t, part) : ~Opens(u, "WEEK_MONDAY")
    BY <1>2, <1>4, <1>6, <2>1
  <2> QED
    BY <1>4, <1>6, <2>2, <2>3
<1> QED
  BY <1>5, <1>6

\* The number of days of a span that fall on one day of the week.
LEMMA WeekdaysCounted ==
    ASSUME NEW a \in Int, NEW b \in Int, a <= b, NEW w \in Nat, w <= 6
    PROVE  Cardinality({u \in a..b : (u + 4) % 7 = w}) = (b + 4 - w) \div 7 - (a + 3 - w) \div 7
<1>1. PICK K \in Int, n \in Int : K = (a + 3 - w) \div 7 /\ n = (b + 4 - w) \div 7 - K
  BY SMT
<1>2. n \in Nat
  BY <1>1, SMT
<1> DEFINE S == {u \in a..b : (u + 4) % 7 = w}
           f == [k \in 1..n |-> 7 * (k + K) + w - 4]
<1>3. f \in [1..n -> S]
  <2> SUFFICES ASSUME NEW k \in 1..n
               PROVE  7 * (k + K) + w - 4 \in S
    OBVIOUS
  <2>1. 7 * (k + K) + w - 4 \in Int /\ (7 * (k + K) + w - 4 + 4) % 7 = w
    BY <1>1, SMT
  <2>2. a <= 7 * (k + K) + w - 4 /\ 7 * (k + K) + w - 4 <= b
    BY <1>1, SMT
  <2> QED
    BY <2>1, <2>2
<1>4. \A k, l \in 1..n : f[k] = f[l] => k = l
  BY <1>1, SMT
<1>5. \A u \in S : \E k \in 1..n : f[k] = u
  <2> SUFFICES ASSUME NEW u \in S
               PROVE  \E k \in 1..n : f[k] = u
    OBVIOUS
  <2>1. u \in Int /\ a <= u /\ u <= b /\ (u + 4) % 7 = w
    BY SMT
  <2>2. PICK k \in Int : k = (u + 4 - w) \div 7 - K
    BY <1>1, <2>1, SMT
  <2>3. u = 7 * (k + K) + w - 4
    BY <1>1, <2>1, <2>2, SMT
  <2>4. k \in 1..n
    BY <1>1, <2>1, <2>2, <2>3, SMT
  <2> QED
    BY <2>3, <2>4
<1> HIDE DEF f, S
<1>6. ExistsBijection(1..n, S)
  BY <1>3, <1>4, <1>5 DEF ExistsBijection, Bijection, Injection, Surjection, IsInjective
<1>7. Cardinality(S) = n
  BY <1>2, <1>6, FS_CountingElements
<1> QED
  BY <1>1, <1>7 DEF S

LEMMA WeekdaysOpen ==
    ASSUME NEW a \in Int, NEW b \in Int, a <= b, NEW part \in WeekParts, NEW w,
           w = WeekPartToOffset[part]
    PROVE  Cardinality({u \in a..b : Opens(u, part)}) = (b + 4 - w) \div 7 - (a + 3 - w) \div 7
<1>1. w \in Nat /\ w <= 6
  BY WeekStretch
<1>2. ASSUME NEW u \in a..b
      PROVE  Opens(u, part) <=> (u + 4) % 7 = w
  <2>1. u \in Int
    BY SMT
  <2> QED
    BY <2>1, WeekStretch
<1>3. {u \in a..b : Opens(u, part)} = {u \in a..b : (u + 4) % 7 = w}
  BY <1>2
<1>4. Cardinality({u \in a..b : (u + 4) % 7 = w}) = (b + 4 - w) \div 7 - (a + 3 - w) \div 7
  BY <1>1, WeekdaysCounted, Zenon
<1> QED
  BY <1>3, <1>4

LEMMA WeekNumber ==
    ASSUME NEW t \in Int, NEW part \in WeekParts
    PROVE  EXTRACT(t, part) = Cardinality({u \in Date(EXTRACT(t, "YEAR"), 1, 1)..t : Opens(u, part)})
<1>1. PICK w : w = WeekPartToOffset[part]
  OBVIOUS
<1>2. w \in Nat /\ w <= 6
  BY <1>1, WeekStretch
<1>3. PICK j \in Int : j = Date(Year(t), 1, 1) /\ j <= t
  BY YearHolds, YearsApart
<1>4. EXTRACT(t, "YEAR") = Year(t)
  <2>1. "YEAR" \notin WeekParts
    BY SMT DEF WeekParts, WeekPartToOffset
  <2> QED
    BY <2>1, SMT DEF EXTRACT
<1>5. EXTRACT(t, part) = weekOfYear(t, w)
  <2>1. /\ part # "ISOYEAR" /\ part # "ISOWEEK" /\ part # "YEAR" /\ part # "MONTH" /\ part # "DAY"
        /\ part # "DAYOFYEAR" /\ part # "DAYOFWEEK" /\ part # "QUARTER"
    BY SMT DEF WeekParts, WeekPartToOffset
  <2> QED
    BY <1>1, <2>1, SMT DEF EXTRACT
<1>6. YearDay(t) = t - j + 1
  BY <1>3 DEF YearDay
<1>7. PICK r \in Int : r = (((t + 4) % 7) - w + 7) % 7
  BY <1>2, SMT
<1>8. weekOfYear(t, w) = (t - j + 1 - 1 + 7 - r) \div 7
  BY <1>6, <1>7 DEF weekOfYear, Weekday
<1>9. r = (t + 4 - w) % 7
  BY <1>2, <1>7, SMT
<1>10. (t - j + 1 - 1 + 7 - r) \div 7 = (t + 4 - w) \div 7 - (j + 3 - w) \div 7
  BY <1>2, <1>3, <1>9, SMT
<1>11. Cardinality({u \in j..t : Opens(u, part)}) = (t + 4 - w) \div 7 - (j + 3 - w) \div 7
  BY <1>1, <1>3, WeekdaysOpen
<1> QED
  BY <1>3, <1>4, <1>5, <1>8, <1>10, <1>11

LEMMA IsoWeekNumber ==
    ASSUME NEW t \in Int
    PROVE  LET began == LAST_DAY(t, "ISOYEAR") + 1 - 7 * 53
               opened == {u \in (began - 7)..t : Opens(u, "ISOYEAR")}
               year  == CHOOSE u \in opened : \A v \in opened : v <= u
           IN  EXTRACT(t, "ISOWEEK") = Cardinality({u \in year..t : Opens(u, "ISOWEEK")})
<1>1. PICK y \in Int, s \in Int, e \in Int :
        /\ y = ISOYear(t) /\ y = Stretch(t, "ISOYEAR")
        /\ IsoOpens(s, y) /\ IsoOpens(e, y + 1)
        /\ LAST_DAY(t, "ISOYEAR") = e - 1
        /\ s <= t /\ t < e
        /\ ISOThursday(t) = t + 3 - ((t + 3) % 7)
  BY IsoHolds
<1>2. PICK i \in Int, j \in Int : i = Date(y, 1, 1) /\ j = Date(y + 1, 1, 1) /\ j - i \in {365, 366}
  <2>1. y + 1 \in Int
    BY <1>1, SMT
  <2> QED
    BY <1>1, <2>1, YearsApart
<1>3. /\ (s + 4) % 7 = 1 /\ i <= s + 3 /\ s + 3 < i + 7
      /\ (e + 4) % 7 = 1 /\ j <= e + 3 /\ e + 3 < j + 7
  BY <1>1, <1>2 DEF IsoOpens, Weekday
<1> DEFINE began == LAST_DAY(t, "ISOYEAR") + 1 - 7 * 53
           opened == {u \in (began - 7)..t : Opens(u, "ISOYEAR")}
           year == CHOOSE u \in opened : \A v \in opened : v <= u
<1>4. began - 7 = e - 378
  BY <1>1, SMT
<1>5. s \in opened
  <2>1. e - 378 <= s
    BY <1>1, <1>2, <1>3, SMT
  <2>2. Opens(s, "ISOYEAR")
    BY <1>1, IsoOpened
  <2>3. s \in (began - 7)..t
    BY <1>1, <1>4, <2>1, SMT
  <2> QED
    BY <2>2, <2>3
<1>6. ASSUME NEW u \in opened
      PROVE  u = s
  <2>1. u \in Int /\ e - 378 <= u /\ u <= t /\ Opens(u, "ISOYEAR")
    BY <1>1, <1>4, <1>6, SMT
  <2>2. ~(s < u)
    <3>1. Stretch(s, "ISOYEAR") = Stretch(t, "ISOYEAR") /\ "ISOYEAR" \in Parts \ {"ISOWEEK"}
      BY <1>1, IsoOpened DEF Parts
    <3>2. u \in (s + 1)..t => ~Opens(u, "ISOYEAR")
      BY <1>1, <3>1, NoneOpens
    <3>3. s < u => u \in (s + 1)..t
      BY <1>1, <2>1, SMT
    <3> QED
      BY <2>1, <3>2, <3>3
  <2>3. ~(u < s)
    <3>1. PICK z \in Int : IsoOpens(u, z)
      BY <2>1, IsoFrom
    <3>2. PICK k \in Int : k = Date(z, 1, 1)
      BY <3>1, YearsApart
    <3>3. (u + 4) % 7 = 1 /\ k <= u + 3 /\ u + 3 < k + 7
      BY <3>1, <3>2 DEF IsoOpens, Weekday
    <3>4. y <= z => i <= k
      BY <1>1, <1>2, <3>1, <3>2, YearsApart
    <3>5. z < y => k + 365 <= i
      <4>1. /\ z + 1 \in Int /\ Date(z + 1, 1, 1) \in Int
            /\ Date(z + 1, 1, 1) - Date(z, 1, 1) \in {365, 366}
            /\ z + 1 <= y => Date(z + 1, 1, 1) <= Date(y, 1, 1)
        <5>1. z + 1 \in Int
          BY <3>1, SMT
        <5> QED
          BY <1>1, <3>1, <5>1, YearsApart
      <4>2. z < y => z + 1 <= y
        BY <1>1, <3>1, SMT
      <4> QED
        BY <1>2, <3>2, <4>1, <4>2, SMT
    <3>6. y <= z \/ z < y
      BY <1>1, <3>1, SMT
    <3>7. CASE y <= z
      BY <1>1, <1>2, <1>3, <2>1, <3>2, <3>3, <3>4, <3>7, SMT
    <3>8. CASE z < y
      BY <1>1, <1>2, <1>3, <2>1, <3>2, <3>3, <3>5, <3>8, SMT
    <3> QED
      BY <3>6, <3>7, <3>8
  <2> QED
    BY <1>1, <2>1, <2>2, <2>3, SMT
<1>7. year = s
  <2>1. \A v \in opened : v <= s
    BY <1>1, <1>6
  <2>2. \E u \in opened : \A v \in opened : v <= u
    BY <1>5, <2>1
  <2>3. year \in opened
    BY <2>2
  <2> QED
    BY <1>6, <2>3
<1>8. EXTRACT(t, "ISOWEEK") = ISOWeek(t)
  <2>1. "ISOWEEK" \notin WeekParts
    BY SMT DEF WeekParts, WeekPartToOffset
  <2> QED
    BY <2>1, SMT DEF EXTRACT
<1>9. PICK c \in Int : c = ISOThursday(t)
  BY IsoStretch
<1>10. ISOWeek(t) = (c - i + 1 - 1) \div 7 + 1
  BY <1>1, <1>2, <1>9 DEF ISOWeek, YearDay, ISOYear
<1>11. (c - i + 1 - 1) \div 7 + 1 = (t + 4 - 1) \div 7 - (s + 3 - 1) \div 7
  <2>1. PICK q \in Int, x \in Int, g \in Int :
          q = (s + 3) \div 7 /\ x = (t + 3) \div 7 /\ g = (t + 3) % 7
    BY <1>1, SMT
  <2>2. s + 3 = 7 * q /\ t + 3 = 7 * x + g /\ 0 <= g /\ g <= 6 /\ c = 7 * x
    BY <1>1, <1>3, <1>9, <2>1, SMT
  <2>3. (c - i + 1 - 1) \div 7 = x - q
    BY <1>1, <1>2, <1>3, <2>1, <2>2, SMT
  <2>4. (t + 4 - 1) \div 7 = x /\ (s + 3 - 1) \div 7 = q - 1
    BY <1>1, <2>1, <2>2, SMT
  <2> QED
    BY <2>1, <2>3, <2>4, SMT
<1>12. Cardinality({u \in s..t : Opens(u, "ISOWEEK")}) = (t + 4 - 1) \div 7 - (s + 3 - 1) \div 7
  <2>1. /\ "ISOWEEK" \notin WeekParts /\ "WEEK_MONDAY" \in WeekParts
        /\ WeekPartToOffset["WEEK_MONDAY"] = 1
    BY SMT DEF WeekParts, WeekPartToOffset
  <2>2. ASSUME NEW u
        PROVE  Opens(u, "ISOWEEK") = Opens(u, "WEEK_MONDAY")
    BY <2>1, SMT DEF Opens
  <2>3. {u \in s..t : Opens(u, "ISOWEEK")} = {u \in s..t : Opens(u, "WEEK_MONDAY")}
    BY <2>2
  <2> QED
    BY <1>1, <2>1, <2>3, WeekdaysOpen
<1> QED
  BY <1>7, <1>8, <1>10, <1>11, <1>12

\* For every range of days, DATE_TRUNC, LAST_DAY and EXTRACT (date_trunc.go,
\* last_day.go, extract.go) agree on the stretches of the calendar: truncating
\* goes back to the day that opened the current week, month, quarter or year and
\* LAST_DAY on to the day before the next opens, with no opening in between, and
\* the week numbers count the weeks opened since the year, or the ISO year, began.
THEOREM StretchesAreExact == DateSpec => []StretchesExact
<1>1. DateInit => DatesAre
  BY DEF DateInit, DatesAre
<1>2. DatesAre /\ [DateNext]_dateVars => DatesAre'
  BY DatesStay
<1>3. DatesAre => StretchesExact
  <2> SUFFICES ASSUME DatesAre
               PROVE  StretchEnclosed /\ WeeksNumbered
    BY DEF StretchesExact
  <2>1. day \in Int
    BY DEF DatesAre
  <2>2. StretchEnclosed
    BY <2>1, Enclosed DEF StretchEnclosed
  <2>3. WeeksNumbered
    <3>1. \A part \in WeekParts :
            EXTRACT(day, part) =
              Cardinality({t \in Date(EXTRACT(day, "YEAR"), 1, 1)..day : Opens(t, part)})
      BY <2>1, WeekNumber
    <3>2. LET began == LAST_DAY(day, "ISOYEAR") + 1 - 7 * 53
              opened == {t \in (began - 7)..day : Opens(t, "ISOYEAR")}
              year  == CHOOSE t \in opened : \A u \in opened : u <= t
          IN  EXTRACT(day, "ISOWEEK") = Cardinality({t \in year..day : Opens(t, "ISOWEEK")})
      BY <2>1, IsoWeekNumber
    <3> QED
      BY <3>1, <3>2 DEF WeeksNumbered
  <2> QED
    BY <2>2, <2>3
<1> QED
  BY <1>1, <1>2, <1>3, PTL DEF DateSpec

-----------------------------------------------------------------------------
(* Steps along the calendar.                                               *)

HIDE PartsAssumption

\* Month N is y years and m months after month M.
After(N, M, y, m) == N \in Int /\ M \in Int /\ y \in Int /\ m \in Int /\ N = M + 12 * y + m

\* time.AddDate in terms of months.
LEMMA AddDateIs ==
    ASSUME NEW t \in Int, NEW M, InMonth(t, M), NEW y, NEW m, NEW d \in Int, NEW N, After(N, M, y, m)
    PROVE  AddDate(t, y, m, d) = Begin(N) + (t - Begin(M)) + d /\ Begin(N) \in Int
<1>0. N \in Int /\ M \in Int /\ y \in Int /\ m \in Int /\ N = M + 12 * y + m
  BY DEF After
<1>1. PICK cy \in Int, cm \in Int, cd \in Int :
        cy = Civil(t).y + y /\ cm = Civil(t).m + m /\ cd = Civil(t).d + d
  <2>1. Civil(t).y + y \in Int /\ Civil(t).m + m \in Int /\ Civil(t).d + d \in Int
    BY <1>0, FieldsOf, SMT
  <2> QED
    BY <2>1
<1>2. Numbered(N, cy, cm)
  <2>1. 12 * Year(t) + Month(t) - 3 = M /\ Year(t) \in Int /\ Month(t) \in Int
        /\ Civil(t).y = Year(t) /\ Civil(t).m = Month(t)
    BY <1>0, FieldsOf
  <2>2. PICK a \in Int, b \in Int : a = Year(t) /\ b = Month(t)
    BY <2>1
  <2>3. cy = a + y /\ cm = b + m /\ 12 * a + b - 3 = M
    BY <1>1, <2>1, <2>2
  <2>4. N = 12 * cy + cm - 3
    BY <1>0, <1>1, <2>2, <2>3, SMT
  <2> QED
    BY <1>0, <1>1, <2>4 DEF Numbered
<1>3. AddDate(t, y, m, d) = Date(cy, cm, cd)
  BY <1>1 DEF AddDate
<1>4. Date(cy, cm, cd) = Begin(N) + cd - 1 /\ Begin(N) \in Int
  BY <1>1, <1>2, DateAt
<1>5. cd = t - Begin(M) + 1 + d /\ Begin(M) \in Int
  BY <1>0, <1>1, FieldsOf, SMT
<1> QED
  BY <1>3, <1>4, <1>5, SMT

\* The first day of a date's month and, from it, of the month y years and m
\* months on.
LEMMA FirstDays ==
    ASSUME NEW t \in Int, NEW M, InMonth(t, M), NEW y, NEW m, NEW N, After(N, M, y, m)
    PROVE  /\ FirstOf(Civil(t)) = Begin(M) /\ Begin(M) \in Int /\ InMonth(Begin(M), M)
           /\ AddDate(FirstOf(Civil(t)), y, m, 0) = Begin(N)
           /\ Begin(N) \in Int /\ InMonth(Begin(N), N)
           /\ Numbered(N, Civil(Begin(N)).y, Civil(Begin(N)).m)
<1>0. N \in Int /\ M \in Int /\ y \in Int /\ m \in Int
  BY DEF After
<1>1. Numbered(M, Civil(t).y, Civil(t).m)
  BY <1>0, FieldsOf, SMT DEF Numbered
<1>2. FirstOf(Civil(t)) = Begin(M) + 1 - 1 /\ Begin(M) \in Int
  BY <1>1, DateAt DEF FirstOf
<1>3. InMonth(Begin(M), M) /\ InMonth(Begin(N), N) /\ Begin(N) \in Int
  BY <1>0, <1>2, OpensMonth
<1>4. AddDate(Begin(M), y, m, 0) = Begin(N) + (Begin(M) - Begin(M)) + 0
  BY <1>2, <1>3, AddDateIs
<1>5. Numbered(N, Civil(Begin(N)).y, Civil(Begin(N)).m)
  BY <1>0, <1>3, FieldsOf, SMT DEF Numbered
<1>6. FirstOf(Civil(t)) = Begin(M)
  BY <1>2, SMT
<1> QED
  BY <1>2, <1>3, <1>4, <1>5, <1>6, SMT

\* The day of month N with the place that t has in month M, or its last.
Landing(t, M, N) == IF t - Begin(M) < Begin(N + 1) - Begin(N) THEN Begin(N) + (t - Begin(M))
                    ELSE Begin(N + 1) - 1

\* A month's length, and what a day beyond it becomes.
LEMMA LandsIn ==
    ASSUME NEW t \in Int, NEW M \in Int, InMonth(t, M), NEW N \in Int
    PROVE  /\ Begin(M) \in Int /\ Begin(N) \in Int /\ Begin(N + 1) \in Int /\ N + 1 \in Int
           /\ 0 <= t - Begin(M) /\ t - Begin(M) <= 30
           /\ Begin(N + 1) - Begin(N) \in {28, 29, 30, 31}
           /\ Landing(t, M, N) \in Int /\ InMonth(Landing(t, M, N), N)
           /\ IF t - Begin(M) < Begin(N + 1) - Begin(N)
              THEN InMonth(Begin(N) + (t - Begin(M)), N)
              ELSE InMonth(Begin(N) + (t - Begin(M)), N + 1)
<1>1. N + 1 \in Int /\ N + 1 + 1 \in Int
  BY SMT
<1>2. /\ Begin(M) \in Int /\ Begin(N) \in Int /\ Begin(N + 1) \in Int /\ Begin(N + 1 + 1) \in Int
      /\ Begin(M + 1) - Begin(M) \in {28, 29, 30, 31}
      /\ Begin(N + 1) - Begin(N) \in {28, 29, 30, 31}
      /\ Begin(N + 1 + 1) - Begin(N + 1) \in {28, 29, 30, 31}
  BY <1>1, BeginNext
<1>3. Begin(M) <= t /\ t < Begin(M + 1) /\ Begin(M + 1) \in Int
  BY FieldsOf
<1>4. 0 <= t - Begin(M) /\ t - Begin(M) <= 30
  BY <1>2, <1>3, SMT
<1>5. Landing(t, M, N) \in Int /\ Begin(N) <= Landing(t, M, N) /\ Landing(t, M, N) < Begin(N + 1)
  BY <1>2, <1>4, SMT DEF Landing
<1>6. InMonth(Landing(t, M, N), N)
  BY <1>5, MonthUnique
<1>7. PICK u \in Int : u = Begin(N) + (t - Begin(M))
  BY <1>2, SMT
<1>8. CASE t - Begin(M) < Begin(N + 1) - Begin(N)
  BY <1>1, <1>2, <1>4, <1>5, <1>6, <1>8 DEF Landing
<1>9. CASE ~(t - Begin(M) < Begin(N + 1) - Begin(N))
  <2>1. Begin(N + 1) <= u /\ u < Begin(N + 1 + 1)
    BY <1>2, <1>4, <1>7, <1>9, SMT
  <2>2. InMonth(u, N + 1)
    BY <1>1, <2>1, MonthUnique
  <2> QED
    BY <1>1, <1>2, <1>4, <1>5, <1>6, <1>7, <1>9, <2>2
<1> QED
  BY <1>8, <1>9

LEMMA MonthsDiffer ==
    ASSUME NEW t \in Int, NEW u \in Int, NEW M \in Int, InMonth(t, M), InMonth(u, M + 1)
    PROVE  Month(t) # Month(u)
<1>1. M + 1 \in Int
  BY SMT
<1>2. Month(t) = ((M + 2) % 12) + 1 /\ Month(u) = ((M + 1 + 2) % 12) + 1
  BY <1>1, FieldsOf
<1> QED
  BY <1>2, SMT

\* All four ways of adding months land there (AddMonth, AddYear,
\* addMonthsClamped and addMonthsPreserveTimeOfMonth).
LEMMA LandedIs ==
    ASSUME NEW t \in Int, NEW M, InMonth(t, M), NEW y, NEW m, NEW N, After(N, M, y, m)
    PROVE  Landed(t, Civil(t), Civil(AddDate(FirstOf(Civil(t)), y, m, 0)), y, m) = Landing(t, M, N)
<1>0. N \in Int /\ M \in Int /\ y \in Int /\ m \in Int /\ N = M + 12 * y + m
  BY DEF After
<1>1. /\ FirstOf(Civil(t)) = Begin(M) /\ Begin(M) \in Int /\ InMonth(Begin(M), M)
      /\ AddDate(FirstOf(Civil(t)), y, m, 0) = Begin(N)
      /\ Begin(N) \in Int /\ InMonth(Begin(N), N)
      /\ Numbered(N, Civil(Begin(N)).y, Civil(Begin(N)).m)
  BY FirstDays
<1>2. /\ Begin(N + 1) \in Int /\ N + 1 \in Int
      /\ 0 <= t - Begin(M) /\ t - Begin(M) <= 30
      /\ Begin(N + 1) - Begin(N) \in {28, 29, 30, 31}
      /\ Landing(t, M, N) \in Int /\ InMonth(Landing(t, M, N), N)
      /\ IF t - Begin(M) < Begin(N + 1) - Begin(N)
         THEN InMonth(Begin(N) + (t - Begin(M)), N)
         ELSE InMonth(Begin(N) + (t - Begin(M)), N + 1)
  BY <1>0, LandsIn
<1>3. PICK u \in Int : u = Begin(N) + (t - Begin(M))
  BY <1>1, SMT
<1>4. Civil(t).d \in Int /\ Civil(t).d = t - Begin(M) + 1
  BY <1>0, <1>1, FieldsOf, SMT
<1>5. Date(Civil(Begin(N)).y, Civil(Begin(N)).m, Civil(t).d) = u
  <2>1. Date(Civil(Begin(N)).y, Civil(Begin(N)).m, Civil(t).d) = Begin(N) + Civil(t).d - 1
    BY <1>1, <1>4, DateAt
  <2> QED
    BY <1>1, <1>3, <1>4, <2>1, SMT
<1>6. Civil(Begin(N)).m = Month(Begin(N))
  BY <1>0, <1>1, FieldsOf
<1>7. CASE t - Begin(M) < Begin(N + 1) - Begin(N)
  <2>1. InMonth(u, N)
    BY <1>2, <1>3, <1>7
  <2>2. Month(u) = Month(Begin(N))
    BY <1>0, <1>1, <2>1, FieldsOf
  <2>3. AddDate(t, y, m, 0) = u
    <3>1. AddDate(t, y, m, 0) = Begin(N) + (t - Begin(M)) + 0
      BY AddDateIs
    <3> QED
      BY <1>3, <3>1, SMT
  <2> QED
    BY <1>1, <1>3, <1>5, <1>6, <1>7, <2>2, <2>3 DEF Landed, Landing
<1>8. CASE ~(t - Begin(M) < Begin(N + 1) - Begin(N))
  <2>1. InMonth(u, N + 1)
    BY <1>2, <1>3, <1>8
  <2>2. Month(Begin(N)) # Month(u)
    BY <1>0, <1>1, <2>1, MonthsDiffer
  <2>3. AddDate(Begin(M), y, m + 1, -1) = Begin(N + 1) - 1
    <3>1. After(N + 1, M, y, m + 1)
      BY <1>0, SMT DEF After
    <3>2. AddDate(Begin(M), y, m + 1, -1) = Begin(N + 1) + (Begin(M) - Begin(M)) + (-1)
      BY <1>1, <1>2, <3>1, AddDateIs
    <3> QED
      BY <1>1, <1>2, <3>2, SMT
  <2> QED
    BY <1>1, <1>5, <1>6, <1>8, <2>2, <2>3 DEF Landed, Landing
<1> QED
  BY <1>7, <1>8

Lands(t, M, n) ==
    /\ M + n \in Int /\ M + 12 * n \in Int /\ 12 * n \in Int
    /\ AddMonth(t, n) = Landing(t, M, M + n)
    /\ AddYear(t, n) = Landing(t, M, M + 12 * n)
    /\ addMonthsClamped(t, n) = Landing(t, M, M + n)
    /\ addMonthsPreserveTimeOfMonth(t, n) = Landing(t, M, M + n)

LEMMA MonthsLand ==
    ASSUME NEW t \in Int, NEW M \in Int, InMonth(t, M), NEW n \in Int
    PROVE  Lands(t, M, n)
<1>1. PICK N \in Int : N = M + n
  BY SMT
<1>2. After(N, M, 0, n) /\ After(M + 12 * n, M, n, 0) /\ 12 * n \in Int /\ M + 12 * n \in Int
  BY <1>1, SMT DEF After
<1>3. AddMonth(t, n) = Landing(t, M, N)
  BY <1>2, LandedIs DEF AddMonth
<1>4. AddYear(t, n) = Landing(t, M, M + 12 * n)
  BY <1>2, LandedIs DEF AddYear
<1>5. /\ AddDate(FirstOf(Civil(t)), 0, n, 0) = Begin(N)
      /\ Begin(N) \in Int /\ InMonth(Begin(N), N)
      /\ Numbered(N, Civil(Begin(N)).y, Civil(Begin(N)).m)
  BY <1>2, FirstDays
<1>6. PICK y \in Int, m \in Int, d \in Int : y = Civil(Begin(N)).y /\ m = Civil(Begin(N)).m /\ d = Civil(t).d
  <2>1. Civil(t).d \in Int
    BY FieldsOf, SMT
  <2> QED
    BY <1>5, <2>1 DEF Numbered
<1>7. /\ Begin(N + 1) \in Int /\ N + 1 \in Int /\ Begin(M) \in Int
      /\ 0 <= t - Begin(M) /\ t - Begin(M) <= 30
      /\ Begin(N + 1) - Begin(N) \in {28, 29, 30, 31}
      /\ Landing(t, M, N) \in Int /\ InMonth(Landing(t, M, N), N)
      /\ IF t - Begin(M) < Begin(N + 1) - Begin(N)
         THEN InMonth(Begin(N) + (t - Begin(M)), N)
         ELSE InMonth(Begin(N) + (t - Begin(M)), N + 1)
  BY <1>1, LandsIn
<1>8. d = t - Begin(M) + 1
  BY <1>6, FieldsOf
<1>9. Numbered(N, y, m) /\ Numbered(N + 1, y, m + 1)
  <2>1. N = 12 * y + m - 3 /\ Numbered(N, y, m)
    BY <1>5, <1>6 DEF Numbered
  <2>2. N + 1 = 12 * y + (m + 1) - 3 /\ m + 1 \in Int
    BY <1>6, <2>1, SMT
  <2> QED
    BY <1>6, <1>7, <2>1, <2>2 DEF Numbered
<1>10. \A e \in Int : Date(y, m, e) = Begin(N) + e - 1
  BY <1>9, DateAt
<1>11. Date(y, m + 1, 0) = Begin(N + 1) - 1
  <2>1. Date(y, m + 1, 0) = Begin(N + 1) + 0 - 1
    BY <1>9, DateAt
  <2> QED
    BY <1>7, <2>1, SMT
<1>12. addMonthsClamped(t, n) = Landing(t, M, N)
  <2>1. PICK e \in Int : e = Begin(N + 1) - 1
    BY <1>7, SMT
  <2>2. Begin(N) <= e /\ e < Begin(N + 1)
    BY <1>5, <1>7, <2>1, SMT
  <2>3. Civil(e).d = e - Begin(N) + 1
    BY <1>1, <2>1, <2>2, MonthUnique, FieldsOf
  <2>4. PICK l \in Int : l = Civil(e).d
    BY <1>5, <2>1, <2>3, SMT
  <2>5. addMonthsClamped(t, n) = Date(y, m, IF d > l THEN l ELSE d)
    BY <1>5, <1>6, <1>11, <2>1, <2>4 DEF addMonthsClamped
  <2>6. Date(y, m, IF d > l THEN l ELSE d) = Begin(N) + (IF d > l THEN l ELSE d) - 1
    BY <1>6, <1>10, <2>4
  <2>7. l = Begin(N + 1) - Begin(N)
    BY <1>5, <1>7, <2>1, <2>3, <2>4, SMT
  <2> QED
    BY <1>5, <1>7, <1>8, <2>5, <2>6, <2>7, SMT DEF Landing
<1>13. addMonthsPreserveTimeOfMonth(t, n) = Landing(t, M, N)
  <2>1. PICK u \in Int : u = Begin(N) + (t - Begin(M))
    BY <1>5, <1>7, SMT
  <2>2. Date(y, m, d) = u
    BY <1>5, <1>6, <1>7, <1>8, <1>10, <2>1, SMT
  <2>3. addMonthsPreserveTimeOfMonth(t, n) = IF Month(u) # m THEN Date(y, m + 1, 0) ELSE u
    BY <1>5, <1>6, <2>2 DEF addMonthsPreserveTimeOfMonth
  <2>4. m = Month(Begin(N))
    BY <1>5, <1>6, FieldsOf
  <2>5. CASE t - Begin(M) < Begin(N + 1) - Begin(N)
    <3>1. Month(u) = m
      BY <1>5, <1>7, <2>1, <2>4, <2>5, FieldsOf
    <3> QED
      BY <2>1, <2>3, <2>5, <3>1 DEF Landing
  <2>6. CASE ~(t - Begin(M) < Begin(N + 1) - Begin(N))
    <3>1. Month(u) # m
      BY <1>5, <1>7, <2>1, <2>4, <2>6, MonthsDiffer
    <3> QED
      BY <1>11, <2>3, <2>6, <3>1 DEF Landing
  <2> QED
    BY <2>5, <2>6
<1> QED
  BY <1>1, <1>2, <1>3, <1>4, <1>12, <1>13 DEF Lands

\* A later day never lands before an earlier one, and later months land later.
LEMMA LandingOrder ==
    ASSUME NEW t \in Int, NEW M \in Int, InMonth(t, M), NEW n \in Int, NEW L \in Int, InMonth(t + 1, L)
    PROVE  Landing(t, M, M + n) <= Landing(t + 1, L, L + n)
<1>1. M + 1 \in Int /\ t + 1 \in Int /\ M + n \in Int /\ L + n \in Int
  BY SMT
<1>2. /\ Begin(M) <= t /\ t < Begin(M + 1) /\ Begin(L) <= t + 1 /\ t + 1 < Begin(L + 1)
      /\ Begin(M) \in Int /\ Begin(M + 1) \in Int /\ Begin(L) \in Int /\ Begin(L + 1) \in Int
  BY <1>1, FieldsOf
<1>3. (L < M => Begin(L + 1) <= Begin(M)) /\ (M < L => Begin(M + 1) <= Begin(L))
  BY BeginOrder
<1>4. M <= L
  BY <1>2, <1>3, SMT
<1>5. /\ Landing(t, M, M + n) \in Int /\ InMonth(Landing(t, M, M + n), M + n)
      /\ Landing(t + 1, L, L + n) \in Int /\ InMonth(Landing(t + 1, L, L + n), L + n)
      /\ Begin(M + n) \in Int /\ Begin(M + n + 1) \in Int
  BY <1>1, LandsIn
<1>6. CASE L = M
  BY <1>2, <1>5, <1>6, SMT DEF Landing
<1>7. CASE M < L
  <2>1. PICK A \in Int, B \in Int : A = M + n /\ B = L + n /\ A < B
    BY <1>1, <1>7, SMT
  <2>2. Begin(A + 1) <= Begin(B) /\ Begin(B) \in Int
    <3>1. Begin(A + 1) <= Begin(B)
      BY <2>1, BeginOrder
    <3>2. Begin(B) \in Int
      BY <2>1, BeginNext
    <3> QED
      BY <3>1, <3>2
  <2>3. Landing(t, M, M + n) < Begin(M + n + 1) /\ Begin(L + n) <= Landing(t + 1, L, L + n)
    BY <1>1, <1>5, FieldsOf
  <2> QED
    BY <1>5, <2>1, <2>2, <2>3, SMT
<1> QED
  BY <1>4, <1>6, <1>7, SMT

LEMMA LaterMonth ==
    ASSUME NEW t \in Int, NEW u \in Int, NEW M \in Int, NEW N \in Int, InMonth(t, M), InMonth(u, N), M < N
    PROVE  t < u
<1>1. Begin(M + 1) <= Begin(N)
  BY BeginOrder
<1>2. t < Begin(M + 1) /\ Begin(N) <= u /\ Begin(M + 1) \in Int /\ Begin(N) \in Int
  BY FieldsOf
<1> QED
  BY <1>1, <1>2, SMT

LEMMA MonthsAgreed ==
    ASSUME NEW t \in Int, NEW n \in Int
    PROVE  /\ DATE_ADD(t, n, "MONTH") = AddDateWithInterval(t, n, "MONTH")
           /\ DATE_ADD(t, n, "MONTH") = addMonthsPreserveTimeOfMonth(t, n)
           /\ DATE_ADD(t, n, "MONTH") = DATE_SUB(t, -n, "MONTH")
           /\ DATE_ADD(t, n, "YEAR") = DATE_ADD(t, 12 * n, "MONTH")
           /\ DATE_ADD(t, n, "YEAR") = AddDateWithInterval(t, n, "YEAR")
           /\ n = 1 => DATE_ADD(t, n, "QUARTER") = AddDateWithInterval(t, n, "QUARTER")
           /\ DATE_DIFF(DATE_ADD(t, n, "MONTH"), t, "MONTH") = n
           /\ DATE_ADD(t, n, "MONTH") <= DATE_ADD(t + 1, n, "MONTH")
           /\ \/ Civil(DATE_ADD(t, n, "MONTH")).d = Civil(t).d
              \/ Civil(DATE_ADD(t, n, "MONTH")).d < Civil(t).d /\ Opens(DATE_ADD(t, n, "MONTH") + 1, "MONTH")
<1>1. PICK M \in Int, L \in Int : InMonth(t, M) /\ InMonth(t + 1, L) /\ t + 1 \in Int
  <2>1. t + 1 \in Int
    BY SMT
  <2> QED
    BY <2>1, MonthFound
<1>2. /\ M + n \in Int /\ 12 * n \in Int
      /\ AddMonth(t, n) = Landing(t, M, M + n) /\ AddMonth(t + 1, n) = Landing(t + 1, L, L + n)
      /\ AddYear(t, n) = Landing(t, M, M + 12 * n)
      /\ addMonthsClamped(t, n) = Landing(t, M, M + n)
      /\ addMonthsPreserveTimeOfMonth(t, n) = Landing(t, M, M + n)
  <2>1. Lands(t, M, n) /\ Lands(t + 1, L, n)
    BY <1>1, MonthsLand
  <2> QED
    BY <2>1 DEF Lands
<1>3. AddMonth(t, 12 * n) = Landing(t, M, M + 12 * n) /\ addMonthsClamped(t, 12 * n) = Landing(t, M, M + 12 * n)
  <2>1. Lands(t, M, 12 * n)
    BY <1>1, <1>2, MonthsLand
  <2> QED
    BY <2>1 DEF Lands
<1>4. AddMonth(t, 3) = addMonthsClamped(t, 3)
  <2>1. Lands(t, M, 3)
    BY <1>1, MonthsLand
  <2> QED
    BY <2>1 DEF Lands
<1>5. PICK u \in Int, N \in Int : u = Landing(t, M, M + n) /\ N = M + n
  BY <1>1, <1>2, LandsIn
<1>6. DATE_ADD(t, n, "MONTH") = u /\ DATE_ADD(t + 1, n, "MONTH") = Landing(t + 1, L, L + n)
  BY <1>2, <1>5 DEF DATE_ADD
<1>7. AddDateWithInterval(t, n, "MONTH") = u /\ addMonthsPreserveTimeOfMonth(t, n) = u
  BY <1>2, <1>5 DEF AddDateWithInterval
<1>8. DATE_SUB(t, -n, "MONTH") = u
  <2>1. -(-n) = n
    BY SMT
  <2> QED
    BY <1>2, <1>5, <2>1 DEF DATE_SUB
<1>9. /\ DATE_ADD(t, n, "YEAR") = DATE_ADD(t, 12 * n, "MONTH")
      /\ DATE_ADD(t, n, "YEAR") = AddDateWithInterval(t, n, "YEAR")
  BY <1>2, <1>3 DEF DATE_ADD, AddDateWithInterval
<1>10. n = 1 => DATE_ADD(t, n, "QUARTER") = AddDateWithInterval(t, n, "QUARTER")
  <2>1. n = 1 => 3 * n = 3
    BY SMT
  <2> QED
    BY <1>4, <2>1 DEF DATE_ADD, AddDateWithInterval
<1>11. u <= Landing(t + 1, L, L + n)
  BY <1>1, <1>5, LandingOrder
<1>12. InMonth(u, N)
  BY <1>1, <1>5, LandsIn
<1>13. DATE_DIFF(u, t, "MONTH") = n
  <2>1. DATE_DIFF(u, t, "MONTH") = (Year(u) * 12 + Month(u)) - (Year(t) * 12 + Month(t))
    BY DEF DATE_DIFF, WeekParts, WeekPartToOffset
  <2>2. /\ 12 * Year(u) + Month(u) - 3 = N /\ 12 * Year(t) + Month(t) - 3 = M
        /\ Year(u) \in Int /\ Year(t) \in Int /\ Month(u) \in Int /\ Month(t) \in Int
    BY <1>1, <1>12, FieldsOf
  <2>3. PICK a \in Int, b \in Int, c \in Int, d \in Int :
          a = Year(u) /\ b = Month(u) /\ c = Year(t) /\ d = Month(t)
    BY <2>2
  <2>4. 12 * a + b - 3 = N /\ 12 * c + d - 3 = M /\ N = M + n
    BY <1>5, <2>2, <2>3
  <2>5. (a * 12 + b) - (c * 12 + d) = n
    BY <2>4, SMT
  <2> QED
    BY <2>1, <2>3, <2>5
<1>14. /\ Begin(M) \in Int /\ Begin(N) \in Int /\ Begin(N + 1) \in Int /\ N + 1 \in Int
  BY <1>1, <1>5, LandsIn
<1>15. Civil(u).d = u - Begin(N) + 1 /\ Civil(t).d = t - Begin(M) + 1
  BY <1>1, <1>12, FieldsOf
<1>16. CASE t - Begin(M) < Begin(N + 1) - Begin(N)
  <2>1. u = Begin(N) + (t - Begin(M))
    BY <1>5, <1>16 DEF Landing
  <2>2. Civil(u).d = Civil(t).d
    BY <1>14, <1>15, <2>1, SMT
  <2> QED
    BY <1>6, <1>7, <1>8, <1>9, <1>10, <1>11, <1>13, <2>2
<1>17. CASE ~(t - Begin(M) < Begin(N + 1) - Begin(N))
  <2>1. u = Begin(N + 1) - 1
    BY <1>5, <1>17 DEF Landing
  <2>2. Civil(u).d < Civil(t).d
    BY <1>14, <1>15, <1>17, <2>1, SMT
  <2>3. u + 1 = Begin(N + 1)
    BY <1>14, <2>1, SMT
  <2>4. Civil(u + 1).d = Begin(N + 1) - Begin(N + 1) + 1
    BY <1>14, <2>3, OpensMonth, FieldsOf
  <2>5. Civil(u + 1).d = 1
    BY <1>14, <2>4, SMT
  <2>6. Opens(u + 1, "MONTH")
    BY <2>5 DEF Opens, WeekParts, WeekPartToOffset
  <2> QED
    BY <1>6, <1>7, <1>8, <1>9, <1>10, <1>11, <1>13, <2>2, <2>6
<1> QED
  BY <1>16, <1>17

\* The months of the grid around the origin.
LEMMA GridOrder ==
    ASSUME NEW o \in Int, NEW M \in Int, InMonth(o, M), NEW a \in Int, NEW b \in Int, a < b
    PROVE  Landing(o, M, M + a) < Landing(o, M, M + b)
<1>1. PICK A \in Int, B \in Int : A = M + a /\ B = M + b /\ A < B
  BY SMT
<1>2. /\ Landing(o, M, A) \in Int /\ InMonth(Landing(o, M, A), A)
      /\ Landing(o, M, B) \in Int /\ InMonth(Landing(o, M, B), B)
  BY <1>1, LandsIn
<1> QED
  BY <1>1, <1>2, LaterMonth

LEMMA FloorDivided ==
    ASSUME NEW a \in Int, NEW w \in Nat \ {0}
    PROVE  a \div w \in Int /\ w * (a \div w) <= a /\ a < w * (a \div w) + w
OBVIOUS

\* The bucket of a date: the last point of the grid not after it.
BucketAt(t, o, T, M, w, k) ==
    /\ k \in {(T - M) \div w - 1, (T - M) \div w}
    /\ k \in Int /\ k * w \in Int /\ (k + 1) * w \in Int
    /\ monthBucketFloor(t, o, w) = Landing(o, M, M + k * w)
    /\ Landing(o, M, M + k * w) <= t /\ t < Landing(o, M, M + (k + 1) * w)

LEMMA BucketFound ==
    ASSUME NEW t \in Int, NEW o \in Int, NEW T \in Int, NEW M \in Int, InMonth(t, T), InMonth(o, M),
           NEW w \in Nat \ {0}
    PROVE  \E k : BucketAt(t, o, T, M, w, k)
<1>1. PICK n \in Int : n = (T - M) \div w
  BY FloorDivided
<1>2. w * n <= T - M /\ T - M < w * n + w
  <2>1. T - M \in Int
    BY SMT
  <2> QED
    BY <1>1, <2>1, FloorDivided
<1>3. (Year(t) * 12 + Month(t)) - (Year(o) * 12 + Month(o)) = T - M
  <2>1. /\ 12 * Year(t) + Month(t) - 3 = T /\ 12 * Year(o) + Month(o) - 3 = M
        /\ Year(t) \in Int /\ Year(o) \in Int /\ Month(t) \in Int /\ Month(o) \in Int
    BY FieldsOf
  <2>2. PICK a \in Int, b \in Int, c \in Int, d \in Int :
          a = Year(t) /\ b = Month(t) /\ c = Year(o) /\ d = Month(o)
    BY <2>1
  <2>3. 12 * a + b - 3 = T /\ 12 * c + d - 3 = M
    BY <2>1, <2>2
  <2>4. (a * 12 + b) - (c * 12 + d) = T - M
    BY <2>3, SMT
  <2> QED
    BY <2>2, <2>4
<1> DEFINE at(k) == Landing(o, M, M + k * w)
           Ahead(k) == IF at(k + 1) > t THEN at(k) ELSE at(k + 1)
<1>4. \A k \in Int : /\ k * w \in Int /\ k + 1 \in Int /\ addMonthsPreserveTimeOfMonth(o, k * w) = at(k)
                     /\ M + k * w \in Int /\ at(k) \in Int /\ InMonth(at(k), M + k * w)
  <2> TAKE k \in Int
  <2>1. k * w \in Int /\ k + 1 \in Int
    BY SMT
  <2>2. Lands(o, M, k * w)
    BY <2>1, MonthsLand
  <2>3. M + k * w \in Int /\ addMonthsPreserveTimeOfMonth(o, k * w) = at(k)
    BY <2>2 DEF Lands
  <2>4. at(k) \in Int /\ InMonth(at(k), M + k * w)
    BY <2>3, LandsIn
  <2> QED
    BY <2>1, <2>3, <2>4
<1>5. monthBucketFloor(t, o, w) = Ahead(IF at(n) > t THEN n - 1 ELSE n)
  <2>1. floorDivInt((Year(t) * 12 + Month(t)) - (Year(o) * 12 + Month(o)), w) = n
    BY <1>1, <1>3 DEF floorDivInt
  <2>2. n - 1 \in Int /\ n - 1 + 1 \in Int /\ n + 1 \in Int
    BY SMT
  <2>3. /\ addMonthsPreserveTimeOfMonth(o, n * w) = at(n)
        /\ addMonthsPreserveTimeOfMonth(o, (n - 1) * w) = at(n - 1)
        /\ addMonthsPreserveTimeOfMonth(o, (n - 1 + 1) * w) = at(n - 1 + 1)
        /\ addMonthsPreserveTimeOfMonth(o, (n + 1) * w) = at(n + 1)
    BY <1>4, <2>2
  <2> HIDE DEF at
  <2> QED
    BY <2>1, <2>3 DEF monthBucketFloor
<1> HIDE DEF at
<1>6. n - 1 \in Int /\ n + 1 \in Int /\ n - 1 + 1 = n
  BY SMT
<1>7. (n + 1) * w = w * n + w /\ (n - 1) * w = w * n - w /\ n * w = w * n /\ w * n \in Int
  BY SMT
<1>8. t < at(n + 1)
  <2>1. PICK K \in Int : K = M + (n + 1) * w
    BY <1>4, <1>6
  <2>2. T < K
    BY <1>2, <1>7, <2>1, SMT
  <2>3. at(n + 1) \in Int /\ InMonth(at(n + 1), K)
    BY <1>4, <1>6, <2>1
  <2> QED
    BY <2>2, <2>3, LaterMonth
<1>9. at(n - 1) <= t
  <2>1. PICK K \in Int : K = M + (n - 1) * w
    BY <1>4, <1>6
  <2>2. K < T
    BY <1>2, <1>7, <2>1, SMT
  <2>3. at(n - 1) \in Int /\ InMonth(at(n - 1), K)
    BY <1>4, <1>6, <2>1
  <2>4. at(n - 1) < t
    BY <2>2, <2>3, LaterMonth
  <2> QED
    BY <2>3, <2>4, SMT
<1>10. at(n) \in Int /\ at(n + 1) \in Int /\ at(n - 1) \in Int
  BY <1>4, <1>6
<1>11. CASE at(n) > t
  <2>1. monthBucketFloor(t, o, w) = at(n - 1)
    BY <1>5, <1>6, <1>11
  <2>2. t < at(n - 1 + 1)
    BY <1>6, <1>10, <1>11, SMT
  <2>3. (n - 1) * w \in Int /\ (n - 1 + 1) * w \in Int
    BY <1>4, <1>6
  <2>4. BucketAt(t, o, T, M, w, n - 1)
    BY <1>1, <1>6, <1>9, <2>1, <2>2, <2>3 DEF at, BucketAt
  <2> QED
    BY <2>4
<1>12. CASE ~(at(n) > t)
  <2>1. monthBucketFloor(t, o, w) = at(n)
    BY <1>5, <1>8, <1>10, <1>12, SMT
  <2>2. at(n) <= t
    BY <1>10, <1>12, SMT
  <2>3. n * w \in Int /\ (n + 1) * w \in Int
    BY <1>4, <1>6
  <2>4. BucketAt(t, o, T, M, w, n)
    BY <1>1, <1>8, <2>1, <2>2, <2>3 DEF at, BucketAt
  <2> QED
    BY <2>4
<1> QED
  BY <1>11, <1>12

LEMMA MonthBucket ==
    ASSUME NEW t \in Int, NEW o \in Int, NEW w \in Nat \ {0},
           DATE_DIFF(t, o, "MONTH") \in (1 - Horizon)..(Horizon - 1)
    PROVE  LET grid == {addMonthsClamped(o, w * k) : k \in -Horizon..Horizon}
               b    == DATE_BUCKET(t, o, w, 0)
           IN  b \in grid /\ b <= t /\ \A g \in grid : ~(b < g /\ g <= t)
<1> DEFINE grid == {addMonthsClamped(o, w * k) : k \in -Horizon..Horizon}
           b    == DATE_BUCKET(t, o, w, 0)
<1>1. PICK T \in Int, M \in Int : InMonth(t, T) /\ InMonth(o, M)
  BY MonthFound
<1>12. PICK k : BucketAt(t, o, T, M, w, k)
  BY <1>1, BucketFound
<1>2. /\ k \in {(T - M) \div w - 1, (T - M) \div w}
      /\ k \in Int /\ k * w \in Int /\ (k + 1) * w \in Int
      /\ monthBucketFloor(t, o, w) = Landing(o, M, M + k * w)
      /\ Landing(o, M, M + k * w) <= t /\ t < Landing(o, M, M + (k + 1) * w)
  BY <1>12 DEF BucketAt
<1>3. b = monthBucketFloor(t, o, w)
  BY DEF DATE_BUCKET
<1>4. \A j \in Int : addMonthsClamped(o, w * j) = Landing(o, M, M + j * w) /\ j * w \in Int
                     /\ Landing(o, M, M + j * w) \in Int
  <2> TAKE j \in Int
  <2>1. j * w \in Int /\ w * j = j * w
    BY SMT
  <2>2. Lands(o, M, j * w)
    BY <1>1, <2>1, MonthsLand
  <2>3. M + j * w \in Int
    BY <2>2 DEF Lands
  <2>4. Landing(o, M, M + j * w) \in Int
    BY <1>1, <2>3, LandsIn
  <2> QED
    BY <2>1, <2>2, <2>4 DEF Lands
<1>5. T - M \in -29..29
  <2>1. DATE_DIFF(t, o, "MONTH") = (Year(t) * 12 + Month(t)) - (Year(o) * 12 + Month(o))
    BY DEF DATE_DIFF, WeekParts, WeekPartToOffset
  <2>2. /\ 12 * Year(t) + Month(t) - 3 = T /\ 12 * Year(o) + Month(o) - 3 = M
        /\ Year(t) \in Int /\ Year(o) \in Int /\ Month(t) \in Int /\ Month(o) \in Int
    BY <1>1, FieldsOf
  <2>3. PICK y \in Int, m \in Int, c \in Int, d \in Int :
          y = Year(t) /\ m = Month(t) /\ c = Year(o) /\ d = Month(o)
    BY <2>2
  <2>4. 12 * y + m - 3 = T /\ 12 * c + d - 3 = M
    BY <2>2, <2>3
  <2>5. (y * 12 + m) - (c * 12 + d) \in -29..29
    BY <2>1, <2>3 DEF Horizon
  <2> QED
    BY <2>4, <2>5, SMT
<1>6. k \in -Horizon..Horizon
  <2>1. PICK n \in Int : n = (T - M) \div w
    BY FloorDivided
  <2>2. PICK a \in Int : a = T - M
    BY SMT
  <2>3. w * n <= a /\ a < w * n + w
    BY <2>1, <2>2, FloorDivided
  <2>4. -29 <= a /\ a <= 29
    BY <1>5, <2>2, SMT
  <2>5. n <= 29
    <3>1. n >= 30 => w * n >= n
      BY SMT
    <3> QED
      BY <2>3, <2>4, <3>1, SMT
  <2>6. n >= -29
    <3>1. n + 1 <= 0 => w * (n + 1) <= n + 1
      BY SMT
    <3>2. w * (n + 1) = w * n + w
      BY SMT
    <3> QED
      BY <2>3, <2>4, <3>1, <3>2, SMT
  <2> QED
    BY <1>2, <2>1, <2>5, <2>6, SMT DEF Horizon
<1>7. b = addMonthsClamped(o, w * k)
  BY <1>2, <1>3, <1>4
<1>8. b \in grid
  BY <1>6, <1>7
<1>9. b <= t
  BY <1>2, <1>3
<1>10. ASSUME NEW j \in -Horizon..Horizon
       PROVE  ~(b < addMonthsClamped(o, w * j) /\ addMonthsClamped(o, w * j) <= t)
  <2>1. j \in Int /\ k + 1 \in Int
    BY <1>2, <1>10, SMT DEF Horizon
  <2>2. addMonthsClamped(o, w * j) = Landing(o, M, M + j * w) /\ j * w \in Int
        /\ Landing(o, M, M + j * w) \in Int /\ Landing(o, M, M + k * w) \in Int
        /\ Landing(o, M, M + (k + 1) * w) \in Int
    BY <1>2, <1>4, <2>1
  <2>3. CASE j = k
    BY <1>2, <1>3, <2>2, <2>3
  <2>4. CASE j < k
    <3>1. j * w < k * w
      BY <1>2, <2>1, <2>4, SMT
    <3>2. Landing(o, M, M + j * w) < Landing(o, M, M + k * w)
      BY <1>1, <1>2, <2>2, <3>1, GridOrder
    <3> QED
      BY <1>2, <1>3, <2>2, <3>2, SMT
  <2>5. CASE j = k + 1
    BY <1>2, <2>2, <2>5, SMT
  <2>6. CASE j > k + 1
    <3>1. (k + 1) * w < j * w
      BY <1>2, <2>1, <2>6, SMT
    <3>2. Landing(o, M, M + (k + 1) * w) < Landing(o, M, M + j * w)
      BY <1>1, <1>2, <2>2, <3>1, GridOrder
    <3> QED
      BY <1>2, <2>2, <3>2, SMT
  <2> QED
    BY <1>2, <2>1, <2>3, <2>4, <2>5, <2>6, SMT
<1>11. \A g \in grid : ~(b < g /\ g <= t)
  BY <1>10
<1> QED
  BY <1>8, <1>9, <1>11

LEMMA DayBucket ==
    ASSUME NEW t \in Int, NEW o \in Int, NEW w \in Nat \ {0},
           Reaches(t, o), Reaches(t - w, o)
    PROVE  LET b == DATE_BUCKET(t, o, 0, w)
           IN  b <= t /\ t < b + w /\ (b - o) % w = 0
<1>1. PICK n \in Int : n = (t - o) \div w
  <2>1. t - o \in Int
    BY SMT
  <2>2. (t - o) \div w \in Int
    BY <2>1, FloorDivided
  <2> QED
    BY <2>2
<1>2. w * n <= t - o /\ t - o < w * n + w
  <2>1. t - o \in Int
    BY SMT
  <2> QED
    BY <1>1, <2>1, FloorDivided
<1>3. DATE_BUCKET(t, o, 0, w) = o + n * w
  <2>1. Sub(t, o) = t - o
    BY SMT DEF Sub, Reaches, MaxDuration
  <2>2. -MaxDuration <= t - o - w
    BY SMT DEF Reaches, MaxDuration
  <2>3. n * w = w * n /\ n * w \in Int
    BY SMT
  <2>4. ~(n * w < -MaxDuration)
    BY <1>2, <2>2, <2>3, SMT DEF MaxDuration
  <2>5. nanosBucketFloor(t, o, w) = o + n * w
    BY <1>1, <2>1, <2>4 DEF nanosBucketFloor, floorDivInt
  <2> QED
    BY <2>5 DEF DATE_BUCKET
<1>4. n * w = w * n /\ n * w \in Int /\ o + n * w - o = n * w
  BY SMT
<1>5. (n * w) % w = 0
  BY SMT
<1> QED
  BY <1>2, <1>3, <1>4, <1>5, SMT

-----------------------------------------------------------------------------
(* Date arrays.                                                            *)

DayParts == {"DAY", "WEEK"}
SeriesParts == {"DAY", "WEEK", "MONTH", "QUARTER", "YEAR"}
\* The days or months in one unit of a part.
Unit(part) == CASE part = "WEEK" -> 7 [] part = "QUARTER" -> 3 [] part = "YEAR" -> 12 [] OTHER -> 1
\* The date j days or months on, from a day that every month has.
Along(o, M, part, j) == IF part \in DayParts THEN o + j ELSE Begin(M + j) + (o - Begin(M))
Regular(o, M) == o \in Int /\ M \in Int /\ InMonth(o, M) /\ o - Begin(M) <= 27

LEMMA StepFrom ==
    ASSUME NEW o, NEW M, Regular(o, M), NEW v \in Int, NEW part \in SeriesParts, NEW j, j = Unit(part) * v
    PROVE  j \in Int /\ AddDateWithInterval(o, v, part) = Along(o, M, part, j)
<1>0. o \in Int /\ M \in Int /\ InMonth(o, M) /\ o - Begin(M) <= 27
  BY DEF Regular
<1>1. /\ part \in DayParts => Unit(part) = (IF part = "WEEK" THEN 7 ELSE 1)
      /\ part = "MONTH" => Unit(part) = 1
      /\ part = "QUARTER" => Unit(part) = 3
      /\ part = "YEAR" => Unit(part) = 12
      /\ Unit(part) \in Int
  BY DEF Unit, SeriesParts, DayParts
<1>2. j \in Int
  BY <1>1, SMT
<1>3. CASE part \in DayParts
  <2>1. AddDateWithInterval(o, v, part) = AddDate(o, 0, 0, j)
    BY <1>1, <1>3, SMT DEF AddDateWithInterval, DayParts
  <2>2. After(M, M, 0, 0)
    BY <1>0, SMT DEF After
  <2>3. AddDate(o, 0, 0, j) = Begin(M) + (o - Begin(M)) + j /\ Begin(M) \in Int
    BY <1>0, <1>2, <2>2, AddDateIs
  <2> QED
    BY <1>0, <1>2, <1>3, <2>1, <2>3, SMT DEF Along
<1>4. CASE part \notin DayParts
  <2>1. AddDateWithInterval(o, v, part) = addMonthsClamped(o, j)
    BY <1>1, <1>4, SMT DEF AddDateWithInterval, DayParts, SeriesParts
  <2>2. Lands(o, M, j)
    BY <1>0, <1>2, MonthsLand
  <2>3. PICK N \in Int : N = M + j
    BY <1>0, <1>2, SMT
  <2>4. addMonthsClamped(o, j) = Landing(o, M, N)
    BY <2>2, <2>3 DEF Lands
  <2>5. Begin(N + 1) - Begin(N) \in {28, 29, 30, 31} /\ Begin(N + 1) \in Int /\ Begin(N) \in Int /\ Begin(M) \in Int
    BY <1>0, <2>3, LandsIn
  <2>6. Landing(o, M, N) = Begin(N) + (o - Begin(M))
    BY <1>0, <2>5, SMT DEF Landing
  <2> QED
    BY <1>2, <1>4, <2>1, <2>3, <2>4, <2>6 DEF Along
<1> QED
  BY <1>3, <1>4

LEMMA StepsAdd ==
    ASSUME NEW o, NEW M, Regular(o, M), NEW a \in Int, NEW b \in Int, NEW part \in SeriesParts
    PROVE  AddDateWithInterval(AddDateWithInterval(o, a, part), b, part) = AddDateWithInterval(o, a + b, part)
<1>0. o \in Int /\ M \in Int /\ InMonth(o, M) /\ o - Begin(M) <= 27 /\ Begin(M) \in Int
  BY FieldsOf DEF Regular
<1>1. PICK u \in Int : u = Unit(part)
  BY DEF Unit
<1>2. PICK i \in Int, j \in Int, c \in Int : i = u * a /\ j = u * b /\ c = a + b
  BY SMT
<1>3. u * c = i + j
  BY <1>2, SMT
<1>4. AddDateWithInterval(o, a, part) = Along(o, M, part, i)
  BY <1>1, <1>2, StepFrom
<1>5. AddDateWithInterval(o, c, part) = Along(o, M, part, i + j)
  BY <1>1, <1>2, <1>3, StepFrom
<1>6. PICK p : p = Along(o, M, part, i)
  OBVIOUS
<1>7. CASE part \in DayParts
  <2>1. p = o + i /\ p \in Int
    BY <1>0, <1>2, <1>6, <1>7 DEF Along
  <2>2. AddDateWithInterval(p, b, part) = AddDate(p, 0, 0, j)
    BY <1>1, <1>2, <1>7, SMT DEF AddDateWithInterval, DayParts, Unit
  <2>3. PICK K \in Int : InMonth(p, K)
    BY <2>1, MonthFound
  <2>4. After(K, K, 0, 0)
    BY <2>3, SMT DEF After
  <2>5. AddDate(p, 0, 0, j) = Begin(K) + (p - Begin(K)) + j /\ Begin(K) \in Int
    BY <1>2, <2>1, <2>3, <2>4, AddDateIs
  <2>6. AddDate(p, 0, 0, j) = o + (i + j)
    BY <1>0, <1>2, <2>1, <2>5, SMT
  <2> QED
    BY <1>2, <1>4, <1>5, <1>6, <1>7, <2>2, <2>6 DEF Along
<1>8. CASE part \notin DayParts
  <2>1. PICK N \in Int : N = M + i
    BY <1>0, <1>2, SMT
  <2>2. p = Begin(N) + (o - Begin(M))
    BY <1>6, <1>8, <2>1 DEF Along
  <2>3. /\ Begin(N) \in Int /\ Begin(N + 1) - Begin(N) \in {28, 29, 30, 31} /\ Begin(N + 1) \in Int
        /\ 0 <= o - Begin(M)
    BY <1>0, <2>1, LandsIn
  <2>4. p \in Int /\ Begin(N) <= p /\ p < Begin(N + 1) /\ p - Begin(N) = o - Begin(M)
    BY <1>0, <2>2, <2>3, SMT
  <2>5. Regular(p, N)
    BY <1>0, <2>1, <2>4, MonthUnique DEF Regular
  <2>6. AddDateWithInterval(p, b, part) = Along(p, N, part, j)
    BY <1>1, <1>2, <2>5, StepFrom
  <2>7. N + j = M + (i + j)
    BY <1>0, <1>2, <2>1, SMT
  <2> QED
    BY <1>2, <1>4, <1>5, <1>6, <1>8, <2>4, <2>6, <2>7 DEF Along
<1> QED
  BY <1>7, <1>8

\* The elements that a date array is cut from.
Elems(e, o, n, part, N) ==
    e = [k \in 1..N |-> IF k = 1 THEN o ELSE AddDateWithInterval(e[k - 1], n, part)]

LEMMA ElemsExist ==
    ASSUME NEW o, NEW n, NEW part, NEW N \in Nat
    PROVE  \E e : Elems(e, o, n, part, N)
<1> DEFINE S == {l \in Nat : \E e : Elems(e, o, n, part, l)}
<1>1. 0 \in S
  <2> DEFINE e == [k \in 1..0 |-> o]
  <2>1. Elems(e, o, n, part, 0)
    BY DEF Elems
  <2> QED
    BY <2>1
<1>2. ASSUME NEW l \in Nat, l \in S PROVE l + 1 \in S
  <2>1. PICK e : Elems(e, o, n, part, l)
    BY <1>2
  <2> DEFINE g == [k \in 1..(l + 1) |-> IF k = 1 THEN o ELSE AddDateWithInterval(e[k - 1], n, part)]
  <2>2. \A k \in 1..l : g[k] = e[k]
    BY <2>1 DEF Elems
  <2>3. \A k \in 1..(l + 1) : k # 1 => k - 1 \in 1..l
    BY SMT
  <2>4. g = [k \in 1..(l + 1) |-> IF k = 1 THEN o ELSE AddDateWithInterval(g[k - 1], n, part)]
    BY <2>2, <2>3
  <2>5. Elems(g, o, n, part, l + 1)
    BY <2>4 DEF Elems
  <2> QED
    BY <2>5
<1> HIDE DEF S
<1>3. N \in S
  BY <1>1, <1>2, NatSet
<1> QED
  BY <1>3 DEF S

LEMMA ElemsAre ==
    ASSUME NEW o, NEW M, Regular(o, M), NEW n \in Int, NEW part \in SeriesParts, NEW N \in Nat,
           NEW e, Elems(e, o, n, part, N)
    PROVE  \A k \in 1..N : e[k] = AddDateWithInterval(o, n * (k - 1), part)
<1> DEFINE S == {l \in Nat : l + 1 \in 1..N => e[l + 1] = AddDateWithInterval(o, n * l, part)}
<1>1. 0 \in S
  <2>1. 0 + 1 \in 1..N => e[0 + 1] = o
    BY DEF Elems
  <2>2. Unit(part) * 0 = 0 /\ n * 0 = 0
    BY SMT DEF Unit
  <2>3. AddDateWithInterval(o, 0, part) = Along(o, M, part, 0)
    BY <2>2, StepFrom
  <2>4. Along(o, M, part, 0) = o
    BY FieldsOf, SMT DEF Along, Regular
  <2> QED
    BY <2>1, <2>2, <2>3, <2>4
<1>2. ASSUME NEW l \in Nat, l \in S PROVE l + 1 \in S
  <2> SUFFICES ASSUME l + 1 + 1 \in 1..N PROVE e[l + 1 + 1] = AddDateWithInterval(o, n * (l + 1), part)
    OBVIOUS
  <2>1. l + 1 \in 1..N /\ l + 1 + 1 # 1 /\ l + 1 + 1 - 1 = l + 1
    BY SMT
  <2>2. e[l + 1] = AddDateWithInterval(o, n * l, part)
    BY <1>2, <2>1
  <2>3. e[l + 1 + 1] = AddDateWithInterval(e[l + 1], n, part)
    BY <2>1 DEF Elems
  <2>4. n * l \in Int /\ n * (l + 1) = n * l + n
    BY SMT
  <2>5. AddDateWithInterval(AddDateWithInterval(o, n * l, part), n, part) = AddDateWithInterval(o, n * l + n, part)
    BY <2>4, StepsAdd
  <2> QED
    BY <2>2, <2>3, <2>4, <2>5
<1> HIDE DEF S
<1>3. Nat \subseteq S
  BY <1>1, <1>2, NatSet
<1>4. ASSUME NEW k \in 1..N PROVE e[k] = AddDateWithInterval(o, n * (k - 1), part)
  <2>1. k - 1 \in Nat /\ k - 1 + 1 = k
    BY SMT
  <2> QED
    BY <1>3, <2>1 DEF S
<1> QED
  BY <1>4

\* A date array is cut where one more element would pass the end.
Inside(o, t, x) == IF o <= t THEN x <= t ELSE x >= t
Stops(e, o, t, k) == /\ k \in 1..(MaxSeries + 1)
                     /\ \A j \in 2..k : Inside(o, t, e[j])
                     /\ k = MaxSeries + 1 \/ ~Inside(o, t, e[k + 1])

LEMMA ArrayIs ==
    ASSUME NEW o \in Int, NEW t \in Int, NEW n \in Int, n # 0, NEW part, (o <= t) = (n > 0)
    PROVE  \E e, k : /\ Elems(e, o, n, part, MaxSeries + 1) /\ Stops(e, o, t, k)
                     /\ generateDateArray(o, t, n, part) = IF k > MaxSeries THEN DateError ELSE SubSeq(e, 1, k)
<1>1. MaxSeries \in Nat /\ MaxSeries + 1 \in Nat
  BY StepsAssumption, SMT
<1> DEFINE e == CHOOSE f : Elems(f, o, n, part, MaxSeries + 1)
<1>2. Elems(e, o, n, part, MaxSeries + 1)
  BY <1>1, ElemsExist
<1> DEFINE k == CHOOSE k \in 1..(MaxSeries + 1) :
                  /\ \A j \in 2..k : Inside(o, t, e[j])
                  /\ k = MaxSeries + 1 \/ ~Inside(o, t, e[k + 1])
<1>3. generateDateArray(o, t, n, part) = IF k > MaxSeries THEN DateError ELSE SubSeq(e, 1, k)
  BY DEF generateDateArray, Elems, Inside
<1> HIDE DEF e
<1>4. \E l : Stops(e, o, t, l)
  <2> DEFINE T == {l \in 1..(MaxSeries + 1) : l = MaxSeries + 1 \/ ~Inside(o, t, e[l + 1])}
  <2>1. T \subseteq Nat /\ MaxSeries + 1 \in T
    BY <1>1, SMT
  <2>2. PICK l \in T : \A x \in T : l <= x
    BY <2>1, LeastNat
  <2>3. ASSUME NEW j \in 2..l PROVE Inside(o, t, e[j])
    <3>1. j - 1 \in 1..(MaxSeries + 1) /\ j - 1 < l /\ j - 1 + 1 = j /\ j - 1 # MaxSeries + 1 /\ ~(l <= j - 1)
      BY <1>1, <2>2, SMT
    <3>2. j - 1 \notin T
      BY <2>2, <3>1
    <3> QED
      BY <3>1, <3>2
  <2>4. Stops(e, o, t, l)
    BY <2>2, <2>3 DEF Stops
  <2> QED
    BY <2>4
<1>5. Stops(e, o, t, k)
  BY <1>4 DEF Stops
<1> HIDE DEF k
<1> QED
  BY <1>2, <1>3, <1>5

Series(s, o, t, n, part) == s = generateDateArray(o, t, n, part) /\ s # DateError /\ s # <<>>

LEMMA SeriesOf ==
    ASSUME NEW o, NEW M, Regular(o, M), NEW t \in Int, NEW n \in Int, n # 0, NEW part \in SeriesParts,
           NEW s, Series(s, o, t, n, part)
    PROVE  /\ \A k \in DOMAIN s : s[k] = AddDateWithInterval(o, n * (k - 1), part)
           /\ IF n > 0 THEN s[Len(s)] <= t /\ t < AddDateWithInterval(o, n * Len(s), part)
                       ELSE s[Len(s)] >= t /\ t > AddDateWithInterval(o, n * Len(s), part)
<1>0. o \in Int /\ MaxSeries \in Nat /\ MaxSeries + 1 \in Nat
  BY StepsAssumption, SMT DEF Regular
<1>1. (o <= t) = (n > 0)
  BY <1>0 DEF generateDateArray, Series
<1>2. PICK e, k : /\ Elems(e, o, n, part, MaxSeries + 1) /\ Stops(e, o, t, k)
                  /\ s = IF k > MaxSeries THEN DateError ELSE SubSeq(e, 1, k)
  BY <1>0, <1>1, ArrayIs DEF Series
<1>3. k \in 1..MaxSeries /\ s = SubSeq(e, 1, k) /\ k + 1 \in 1..(MaxSeries + 1) /\ k # MaxSeries + 1
  BY <1>0, <1>2, SMT DEF Stops, Series
<1>4. \A j \in 1..(MaxSeries + 1) : e[j] = AddDateWithInterval(o, n * (j - 1), part)
  BY <1>0, <1>2, ElemsAre
<1>5. DOMAIN s = 1..k /\ Len(s) = k /\ \A j \in 1..k : s[j] = e[j] /\ j \in 1..(MaxSeries + 1)
  <2>1. s = [j \in 1..(1 + k - 1) |-> e[1 + j - 1]]
    BY <1>3
  <2>2. 1 + k - 1 = k /\ k \in Nat /\ \A j \in 1..k : 1 + j - 1 = j /\ j \in 1..(MaxSeries + 1)
    BY <1>0, <1>3, SMT
  <2>3. s = [j \in 1..k |-> e[j]]
    BY <2>1, <2>2
  <2> QED
    BY <2>2, <2>3
<1>6. \A j \in DOMAIN s : s[j] = AddDateWithInterval(o, n * (j - 1), part)
  BY <1>4, <1>5
<1>7. ~Inside(o, t, e[k + 1]) /\ \A j \in 2..k : Inside(o, t, e[j])
  BY <1>2, <1>3 DEF Stops
<1>8. Inside(o, t, s[k])
  <2>1. CASE k = 1
    <3>1. s[1] = o
      BY <1>2, <1>3, <1>5, <2>1 DEF Elems
    <3> QED
      BY <1>0, <2>1, <3>1, SMT DEF Inside
  <2>2. CASE k # 1
    <3>1. k \in 2..k /\ k \in 1..k
      BY <1>3, <2>2, SMT
    <3> QED
      BY <1>5, <1>7, <3>1
  <2> QED
    BY <2>1, <2>2
<1>9. e[k + 1] = AddDateWithInterval(o, n * k, part)
  <2>1. k + 1 - 1 = k
    BY <1>3, SMT
  <2> QED
    BY <1>3, <1>4, <2>1
<1>10. AddDateWithInterval(o, n * k, part) \in Int
  <2>1. n * k \in Int /\ Unit(part) * (n * k) \in Int
    BY <1>3, SMT DEF Unit
  <2>2. PICK j \in Int : j = Unit(part) * (n * k)
    BY <2>1
  <2>3. AddDateWithInterval(o, n * k, part) = Along(o, M, part, j)
    BY <2>1, <2>2, StepFrom
  <2>4. M \in Int /\ InMonth(o, M)
    BY DEF Regular
  <2>5. M + j \in Int /\ Begin(M) \in Int
    BY <2>2, <2>4, BeginNext, SMT
  <2>6. Begin(M + j) \in Int
    BY <2>5, BeginNext
  <2> QED
    BY <1>0, <2>2, <2>3, <2>5, <2>6, SMT DEF Along
<1>11. CASE n > 0
  <2>1. s[k] <= t
    BY <1>1, <1>8, <1>11 DEF Inside
  <2>2. t < AddDateWithInterval(o, n * k, part)
    BY <1>1, <1>7, <1>9, <1>10, <1>11, SMT DEF Inside
  <2> QED
    BY <1>5, <1>6, <1>11, <2>1, <2>2
<1>12. CASE ~(n > 0)
  <2>1. s[k] >= t
    BY <1>1, <1>8, <1>12 DEF Inside
  <2>2. t > AddDateWithInterval(o, n * k, part)
    BY <1>1, <1>7, <1>9, <1>10, <1>12, SMT DEF Inside
  <2> QED
    BY <1>5, <1>6, <1>12, <2>1, <2>2
<1> QED
  BY <1>11, <1>12

\* For every range of days, every set of steps and every bound on the length of
\* an array, the functions that step along the calendar agree (date_add.go,
\* date_sub.go, date_bucket.go, generate_date_array.go): the four ways of adding
\* months end on the same day of the month asked for or on its last and keep the
\* order of dates; DATE_BUCKET finds the last point of the origin's grid that is
\* not after the date, for a grid of months when the two are less than Horizon
\* months apart, for a grid of days when they and the day one width earlier are
\* no further from the origin than Time.Sub measures (about 292 years); a date
\* array has equal steps and ends where one more would pass the end.
THEOREM StepsAreExact == DateSpec => []StepsExact
<1>1. DateInit => DatesAre
  BY DEF DateInit, DatesAre
<1>2. DatesAre /\ [DateNext]_dateVars => DatesAre'
  BY DatesStay
<1>3. DatesAre => StepsExact
  <2> SUFFICES ASSUME DatesAre
               PROVE  MonthsAgree /\ BucketHolds /\ SeriesRegular
    BY DEF StepsExact
  <2>1. day \in Int /\ origin \in Int /\ Steps \subseteq Int
    BY StepsAssumption DEF DatesAre
  <2>2. MonthsAgree
    BY <2>1, MonthsAgreed DEF MonthsAgree
  <2>3. BucketHolds
    <3> SUFFICES ASSUME NEW w \in Steps \ {0}, w > 0
                 PROVE  /\ LET grid == {addMonthsClamped(origin, w * k) : k \in -Horizon..Horizon}
                               b    == DATE_BUCKET(day, origin, w, 0)
                           IN  DATE_DIFF(day, origin, "MONTH") \in (1 - Horizon)..(Horizon - 1) =>
                                 /\ b \in grid /\ b <= day
                                 /\ \A g \in grid : ~(b < g /\ g <= day)
                        /\ LET b == DATE_BUCKET(day, origin, 0, w)
                           IN  Reaches(day, origin) /\ Reaches(day - w, origin) =>
                                 b <= day /\ day < b + w /\ (b - origin) % w = 0
      BY DEF BucketHolds
    <3>1. w \in Nat \ {0}
      BY <2>1, SMT
    <3>2. DATE_DIFF(day, origin, "MONTH") \in (1 - Horizon)..(Horizon - 1) =>
            LET grid == {addMonthsClamped(origin, w * k) : k \in -Horizon..Horizon}
                b    == DATE_BUCKET(day, origin, w, 0)
            IN  b \in grid /\ b <= day /\ \A g \in grid : ~(b < g /\ g <= day)
      BY <2>1, <3>1, MonthBucket
    <3>3. LET b == DATE_BUCKET(day, origin, 0, w)
          IN  Reaches(day, origin) /\ Reaches(day - w, origin) =>
                b <= day /\ day < b + w /\ (b - origin) % w = 0
      BY <2>1, <3>1, DayBucket
    <3> QED
      BY <3>2, <3>3
  <2>4. SeriesRegular
    <3> SUFFICES ASSUME Civil(origin).d <= 28, NEW n \in Steps \ {0}, NEW part \in SeriesParts,
                        NEW s, Series(s, origin, day, n, part)
                 PROVE  /\ \A k \in DOMAIN s : s[k] = AddDateWithInterval(origin, n * (k - 1), part)
                        /\ IF n > 0 THEN s[Len(s)] <= day /\ day < AddDateWithInterval(origin, n * Len(s), part)
                                    ELSE s[Len(s)] >= day /\ day > AddDateWithInterval(origin, n * Len(s), part)
      BY DEF SeriesRegular, SeriesParts, Series
    <3>1. PICK M \in Int : InMonth(origin, M)
      BY <2>1, MonthFound
    <3>2. Civil(origin).d = origin - Begin(M) + 1 /\ Begin(M) \in Int
      BY <2>1, <3>1, FieldsOf
    <3>3. origin - Begin(M) <= 27
      BY <2>1, <3>2, SMT
    <3>4. Regular(origin, M)
      BY <2>1, <3>1, <3>3 DEF Regular
    <3> QED
      BY <2>1, <3>4, SeriesOf
  <2> QED
    BY <2>2, <2>3, <2>4
<1> QED
  BY <1>1, <1>2, <1>3, PTL DEF DateSpec

-----------------------------------------------------------------------------
(* RANGE values as sets of elements.                                       *)

HIDE DaysAssumption
USE PointsAssumption

\* A sequence of integers has a greatest and a least element.
LEMMA ArgMax ==
    ASSUME NEW n \in Nat \ {0}, NEW f \in [1..n -> Int]
    PROVE  \E i \in 1..n : \A j \in 1..n : f[j] <= f[i]
<1> DEFINE S == {m \in Nat : m + 1 <= n => \E i \in 1..(m + 1) : \A j \in 1..(m + 1) : f[j] <= f[i]}
<1>1. 0 \in S
  OBVIOUS
<1>2. ASSUME NEW m \in Nat, m \in S PROVE m + 1 \in S
  <2> SUFFICES ASSUME m + 2 <= n
               PROVE  \E i \in 1..(m + 2) : \A j \in 1..(m + 2) : f[j] <= f[i]
    OBVIOUS
  <2>1. PICK i \in 1..(m + 1) : \A j \in 1..(m + 1) : f[j] <= f[i]
    BY <1>2
  <2>2. f[i] \in Int /\ f[m + 2] \in Int
    OBVIOUS
  <2>3. \A j \in 1..(m + 2) : j \in 1..(m + 1) \/ j = m + 2
    OBVIOUS
  <2>4. CASE f[i] <= f[m + 2]
    <3>1. ASSUME NEW j \in 1..(m + 2) PROVE f[j] <= f[m + 2]
      <4>1. f[j] \in Int
        OBVIOUS
      <4> QED
        BY <2>1, <2>2, <2>3, <2>4, <4>1
    <3> QED
      BY <3>1
  <2>5. CASE ~(f[i] <= f[m + 2])
    BY <2>1, <2>2, <2>3, <2>5
  <2> QED
    BY <2>4, <2>5
<1>3. \A m \in Nat : m \in S => m + 1 \in S
  BY <1>2
<1> HIDE DEF S
<1>4. Nat \subseteq S
  BY <1>1, <1>3, NatSet
<1>5. n - 1 \in S
  BY <1>4
<1> QED
  BY <1>5 DEF S

\* So does a finite set of integers.
LEMMA Extremes ==
    ASSUME NEW T, T \subseteq Int, IsFiniteSet(T), T # {}
    PROVE  /\ \E x \in T : \A y \in T : y <= x
           /\ \E x \in T : \A y \in T : x <= y
<1>1. PICK n \in Nat : ExistsSurjection(1..n, T)
  BY FS_NatSurjection
<1>2. PICK f \in [1..n -> T] : \A t \in T : \E i \in 1..n : f[i] = t
  BY <1>1 DEF ExistsSurjection, Surjection
<1>3. n # 0 /\ \A k \in 1..n : f[k] \in T /\ f[k] \in Int
  <2>1. PICK t : t \in T
    OBVIOUS
  <2>2. \E k \in 1..n : f[k] = t
    BY <1>2, <2>1
  <2>3. \A k \in 1..n : f[k] \in T
    BY <1>2
  <2>4. n # 0
    BY <1>1, <2>2
  <2>5. \A k \in 1..n : f[k] \in Int
    BY <2>3
  <2> QED
    BY <2>3, <2>4, <2>5
<1>4. PICK i \in 1..n : \A j \in 1..n : f[j] <= f[i]
  <2>1. f \in [1..n -> Int]
    BY <1>2
  <2> QED
    BY <1>3, <2>1, ArgMax
<1> DEFINE g == [j \in 1..n |-> -f[j]]
<1>5. g \in [1..n -> Int]
  BY <1>3
<1>6. PICK h \in 1..n : \A j \in 1..n : g[j] <= g[h]
  <2> HIDE DEF g
  <2> QED
    BY <1>3, <1>5, ArgMax
<1>7. \A j \in 1..n : f[h] <= f[j]
  <2>1. ASSUME NEW j \in 1..n PROVE f[h] <= f[j]
    <3>1. f[h] \in Int /\ f[j] \in Int /\ g[j] = -f[j] /\ g[h] = -f[h] /\ g[j] <= g[h]
      BY <1>3, <1>6
    <3> HIDE DEF g
    <3> QED
      BY <3>1
  <2> QED
    BY <2>1
<1>8. \A y \in T : y <= f[i] /\ f[h] <= y
  <2>1. ASSUME NEW y \in T PROVE y <= f[i] /\ f[h] <= y
    <3>1. PICK j \in 1..n : f[j] = y
      BY <1>2
    <3> QED
      BY <1>4, <1>7, <3>1
  <2> QED
    BY <2>1
<1>9. f[i] \in T /\ f[h] \in T
  BY <1>3
<1> HIDE DEF g
<1> QED
  BY <1>8, <1>9

LEMMA UniverseIs ==
    \E lo, hi \in Points : /\ \A p \in Points : lo <= p /\ p <= hi
                           /\ \A p : p \in Universe <=> p \in Int /\ lo - 1 <= p /\ p <= hi + 1
<1> DEFINE lo == CHOOSE p \in Points : \A q \in Points : p <= q
           hi == CHOOSE p \in Points : \A q \in Points : q <= p
<1>1. (\E p \in Points : \A q \in Points : p <= q) /\ (\E p \in Points : \A q \in Points : q <= p)
  BY Extremes
<1>2. lo \in Points /\ hi \in Points /\ \A p \in Points : lo <= p /\ p <= hi
  BY <1>1
<1>3. Universe = (lo - 1)..(hi + 1)
  BY DEF Universe
<1> HIDE DEF lo, hi
<1>4. lo \in Int /\ hi \in Int
  BY <1>2
<1> QED
  BY <1>2, <1>3, <1>4

\* A range whose bounds are among the points and in order.
Ends == {Unbounded} \cup Points
IsRange(r) == /\ r.s \in Ends /\ r.e \in Ends
              /\ r.s # Unbounded /\ r.e # Unbounded => r.s < r.e
RangesAre == /\ ranges \in Seq([s : Ends, e : Ends])
             /\ \A k \in DOMAIN ranges : IsRange(ranges[k])

LEMMA RangesStay == RangesAre /\ [RangeNext]_rangeVars => RangesAre'
<1> SUFFICES ASSUME RangesAre, Insert PROVE RangesAre'
  BY DEF RangeNext, rangeVars, RangesAre
<1>1. PICK s, e \in Ends : RANGE(s, e) # RangeError /\ ranges' = Append(ranges, RANGE(s, e))
  BY DEF Insert, Ends
<1>2. RANGE(s, e) = [s |-> s, e |-> e] /\ (s # Unbounded /\ e # Unbounded => s < e)
  BY <1>1 DEF RANGE
<1> DEFINE new == [s |-> s, e |-> e]
<1>3. new \in [s : Ends, e : Ends] /\ IsRange(new)
  BY <1>1, <1>2 DEF IsRange
<1> HIDE DEF new
<1>4. ranges' = Append(ranges, new)
  BY <1>1, <1>2 DEF new
<1>5. ranges' \in Seq([s : Ends, e : Ends])
  BY <1>3, <1>4 DEF RangesAre
<1>6. \A k \in DOMAIN ranges' : IsRange(ranges'[k])
  BY <1>3, <1>4 DEF RangesAre
<1> QED
  BY <1>5, <1>6 DEF RangesAre, IsRange, Ends

\* The points of a range.
LEMMA HoldsPoint ==
    ASSUME NEW r, NEW p \in Int
    PROVE  RangeContainsPoint(r, p) <=> /\ r.s # Unbounded => r.s <= p
                                        /\ r.e # Unbounded => p < r.e
BY DEF RangeContainsPoint, rangeBoundLEQ

LEMMA ElementsAre ==
    ASSUME NEW lo \in Int, NEW hi \in Int, NEW r,
           \A p : p \in Universe <=> p \in Int /\ lo - 1 <= p /\ p <= hi + 1
    PROVE  \A p : p \in Elements(r) <=> /\ p \in Int /\ lo - 1 <= p /\ p <= hi + 1
                                        /\ r.s # Unbounded => r.s <= p
                                        /\ r.e # Unbounded => p < r.e
BY HoldsPoint DEF Elements

\* The bounds of a range in integers.
LEMMA BoundsAre ==
    ASSUME NEW lo \in Int, NEW hi \in Int, \A p \in Points : lo <= p /\ p <= hi,
           NEW r, IsRange(r)
    PROVE  /\ r.s # Unbounded => r.s \in Int /\ lo <= r.s /\ r.s <= hi
           /\ r.e # Unbounded => r.e \in Int /\ lo <= r.e /\ r.e <= hi
           /\ r.s # Unbounded /\ r.e # Unbounded => r.s < r.e
BY DEF IsRange, Ends

LEMMA Overlapping ==
    ASSUME NEW lo \in Int, NEW hi \in Int, \A p \in Points : lo <= p /\ p <= hi,
           \A p : p \in Universe <=> p \in Int /\ lo - 1 <= p /\ p <= hi + 1,
           NEW a, NEW b, IsRange(a), IsRange(b)
    PROVE  /\ RangeOverlaps(a, b) <=> Elements(a) \cap Elements(b) # {}
           /\ RangeOverlaps(a, b) =>
                Elements(RangeIntersect(a, b)) = Elements(a) \cap Elements(b)
<1>1. /\ a.s # Unbounded => a.s \in Int /\ lo <= a.s /\ a.s <= hi
      /\ a.e # Unbounded => a.e \in Int /\ lo <= a.e /\ a.e <= hi
      /\ a.s # Unbounded /\ a.e # Unbounded => a.s < a.e
  BY BoundsAre
<1>2. /\ b.s # Unbounded => b.s \in Int /\ lo <= b.s /\ b.s <= hi
      /\ b.e # Unbounded => b.e \in Int /\ lo <= b.e /\ b.e <= hi
      /\ b.s # Unbounded /\ b.e # Unbounded => b.s < b.e
  BY BoundsAre
<1>3. \A r : \A p : p \in Elements(r) <=> /\ p \in Int /\ lo - 1 <= p /\ p <= hi + 1
                                          /\ r.s # Unbounded => r.s <= p
                                          /\ r.e # Unbounded => p < r.e
  BY ElementsAre
<1>4. ASSUME RangeOverlaps(a, b) PROVE Elements(a) \cap Elements(b) # {}
  <2>1. lo <= hi
    <3>1. PICK p : p \in Points
      OBVIOUS
    <3> QED
      BY <3>1
  <2> SUFFICES \E p \in Int : p \in Elements(a) /\ p \in Elements(b)
    OBVIOUS
  <2>2. CASE a.s = Unbounded /\ b.s = Unbounded
    <3>1. lo - 1 \in Elements(a) /\ lo - 1 \in Elements(b)
      BY <1>1, <1>2, <1>3, <2>1, <2>2
    <3> QED
      BY <3>1
  <2>3. CASE a.s # Unbounded /\ (b.s = Unbounded \/ (b.s # Unbounded /\ b.s <= a.s))
    <3>1. a.s \in Elements(a) /\ a.s \in Elements(b)
      BY <1>1, <1>2, <1>3, <1>4, <2>3 DEF RangeOverlaps
    <3> QED
      BY <1>1, <2>3, <3>1
  <2>4. CASE b.s # Unbounded /\ (a.s = Unbounded \/ (a.s # Unbounded /\ a.s <= b.s))
    <3>1. b.s \in Elements(a) /\ b.s \in Elements(b)
      BY <1>1, <1>2, <1>3, <1>4, <2>4 DEF RangeOverlaps
    <3> QED
      BY <1>2, <2>4, <3>1
  <2> QED
    BY <1>1, <1>2, <2>2, <2>3, <2>4
<1>5. ASSUME Elements(a) \cap Elements(b) # {} PROVE RangeOverlaps(a, b)
  <2>1. PICK p : p \in Elements(a) /\ p \in Elements(b)
    BY <1>5
  <2> QED
    BY <1>1, <1>2, <1>3, <2>1 DEF RangeOverlaps
<1>6. ASSUME RangeOverlaps(a, b)
      PROVE  Elements(RangeIntersect(a, b)) = Elements(a) \cap Elements(b)
  <2> DEFINE c == [s |-> maxBound(a.s, b.s), e |-> minBound(a.e, b.e)]
  <2>1. RangeIntersect(a, b) = c
    BY <1>6 DEF RangeIntersect
  <2>2. /\ c.s = IF a.s = Unbounded THEN b.s ELSE IF b.s = Unbounded THEN a.s
                 ELSE IF a.s > b.s THEN a.s ELSE b.s
        /\ c.e = IF a.e = Unbounded THEN b.e ELSE IF b.e = Unbounded THEN a.e
                 ELSE IF a.e < b.e THEN a.e ELSE b.e
    BY DEF maxBound, minBound
  <2> HIDE DEF c
  <2>3. ASSUME NEW p PROVE p \in Elements(c) <=> p \in Elements(a) /\ p \in Elements(b)
    <3> SUFFICES ASSUME p \in Int, lo - 1 <= p, p <= hi + 1
                 PROVE  p \in Elements(c) <=> p \in Elements(a) /\ p \in Elements(b)
      BY <1>3
    <3>1. (c.s # Unbounded => c.s <= p) <=> /\ a.s # Unbounded => a.s <= p
                                            /\ b.s # Unbounded => b.s <= p
      BY <1>1, <1>2, <2>2
    <3>2. (c.e # Unbounded => p < c.e) <=> /\ a.e # Unbounded => p < a.e
                                           /\ b.e # Unbounded => p < b.e
      BY <1>1, <1>2, <2>2
    <3> QED
      BY <1>3, <3>1, <3>2
  <2> QED
    BY <2>1, <2>3
<1> QED
  BY <1>4, <1>5, <1>6

LEMMA Containing ==
    ASSUME NEW lo \in Int, NEW hi \in Int, \A p \in Points : lo <= p /\ p <= hi,
           \A p : p \in Universe <=> p \in Int /\ lo - 1 <= p /\ p <= hi + 1,
           NEW a, NEW b, IsRange(a), IsRange(b), ~(a.e = Unbounded /\ b.e = Unbounded)
    PROVE  RangeContains(a, b) <=> Elements(b) \subseteq Elements(a)
<1>1. /\ a.s # Unbounded => a.s \in Int /\ lo <= a.s /\ a.s <= hi
      /\ a.e # Unbounded => a.e \in Int /\ lo <= a.e /\ a.e <= hi
      /\ a.s # Unbounded /\ a.e # Unbounded => a.s < a.e
  BY BoundsAre
<1>2. /\ b.s # Unbounded => b.s \in Int /\ lo <= b.s /\ b.s <= hi
      /\ b.e # Unbounded => b.e \in Int /\ lo <= b.e /\ b.e <= hi
      /\ b.s # Unbounded /\ b.e # Unbounded => b.s < b.e
  BY BoundsAre
<1>3. \A r : \A p : p \in Elements(r) <=> /\ p \in Int /\ lo - 1 <= p /\ p <= hi + 1
                                          /\ r.s # Unbounded => r.s <= p
                                          /\ r.e # Unbounded => p < r.e
  BY ElementsAre
<1>4. RangeContains(a, b) <=> /\ a.s = Unbounded \/ (b.s # Unbounded /\ a.s <= b.s)
                              /\ b.e # Unbounded /\ (a.e = Unbounded \/ b.e <= a.e)
  BY DEF RangeContains, rangeBoundLEQ
<1>5. lo <= hi
  <2>1. PICK p : p \in Points
    OBVIOUS
  <2> QED
    BY <2>1
<1>6. ASSUME RangeContains(a, b), NEW p \in Elements(b) PROVE p \in Elements(a)
  BY <1>1, <1>2, <1>3, <1>4, <1>6
<1>7. ASSUME Elements(b) \subseteq Elements(a) PROVE RangeContains(a, b)
  <2>1. CASE b.s = Unbounded
    <3>1. lo - 1 \in Elements(b)
      BY <1>2, <1>3, <1>5, <2>1
    <3>2. lo - 1 \in Elements(a)
      BY <1>7, <3>1
    <3> QED
      <4>1. a.s = Unbounded
        BY <1>1, <1>3, <3>2
      <4>2. CASE b.e = Unbounded
        <5>1. hi + 1 \in Elements(b)
          BY <1>3, <1>5, <2>1, <4>2
        <5>2. hi + 1 \in Elements(a)
          BY <1>7, <5>1
        <5> QED
          BY <1>1, <1>3, <4>2, <5>2
      <4>3. CASE b.e # Unbounded
        <5>1. b.e - 1 \in Elements(b)
          BY <1>2, <1>3, <2>1, <4>3
        <5>2. b.e - 1 \in Elements(a)
          BY <1>7, <5>1
        <5> QED
          BY <1>1, <1>2, <1>3, <1>4, <4>1, <4>3, <5>2
      <4> QED
        BY <4>2, <4>3
  <2>2. CASE b.s # Unbounded
    <3>1. b.s \in Elements(b)
      BY <1>2, <1>3, <2>2
    <3>2. b.s \in Elements(a)
      BY <1>7, <3>1
    <3>3. a.s = Unbounded \/ (b.s # Unbounded /\ a.s <= b.s)
      BY <1>3, <2>2, <3>2
    <3>4. CASE b.e = Unbounded
      <4>1. hi + 1 \in Elements(b)
        BY <1>2, <1>3, <1>5, <2>2, <3>4
      <4>2. hi + 1 \in Elements(a)
        BY <1>7, <4>1
      <4> QED
        BY <1>1, <1>3, <3>4, <4>2
    <3>5. CASE b.e # Unbounded
      <4>1. b.e - 1 \in Elements(b)
        BY <1>2, <1>3, <2>2, <3>5
      <4>2. b.e - 1 \in Elements(a)
        BY <1>7, <4>1
      <4> QED
        BY <1>1, <1>2, <1>3, <1>4, <3>3, <3>5, <4>2
    <3> QED
      BY <3>4, <3>5
  <2> QED
    BY <2>1, <2>2
<1> QED
  BY <1>6, <1>7

LEMMA TableRanges == RangesAre => \A r \in Table : IsRange(r)
BY DEF RangesAre, Table, ToSet

LEMMA RelationsHold == RangesAre => SetRelations
<1> SUFFICES ASSUME RangesAre, NEW a \in Table, NEW b \in Table
             PROVE  /\ RangeOverlaps(a, b) <=> Elements(a) \cap Elements(b) # {}
                    /\ Elements(a) \cap Elements(b) # {} =>
                         Elements(RangeIntersect(a, b)) = Elements(a) \cap Elements(b)
                    /\ ~(a.e = Unbounded /\ b.e = Unbounded) =>
                         (RangeContains(a, b) <=> Elements(b) \subseteq Elements(a))
  BY DEF SetRelations
<1>1. IsRange(a) /\ IsRange(b)
  BY TableRanges
<1>2. PICK lo, hi \in Points :
             /\ \A p \in Points : lo <= p /\ p <= hi
             /\ \A p : p \in Universe <=> p \in Int /\ lo - 1 <= p /\ p <= hi + 1
  BY UniverseIs
<1>3. lo \in Int /\ hi \in Int
  BY <1>2
<1> QED
  BY <1>1, <1>2, <1>3, Overlapping, Containing

\* Where GENERATE_RANGE_ARRAY cuts a range.
Cut(r, step, k) == r.s + k * step

LEMMA CutsAre ==
    ASSUME NEW r, r.s \in Int, NEW step \in Nat \ {0}
    PROVE  /\ \A k \in Int : Cut(r, step, k) \in Int
           /\ \A k \in Int : Cut(r, step, k) = Cut(r, step, k - 1) + step
           /\ Cut(r, step, 0) = r.s
<1>1. PICK s \in Int : s = r.s
  OBVIOUS
<1>2. \A k \in Int : k * step \in Int /\ (k - 1) * step \in Int /\ (k - 1) * step + step = k * step
  OBVIOUS
<1>3. 0 * step = 0
  OBVIOUS
<1>4. \A k \in Int : Cut(r, step, k) = s + k * step
  BY <1>1 DEF Cut
<1>5. ASSUME NEW k \in Int
      PROVE  Cut(r, step, k) \in Int /\ Cut(r, step, k) = Cut(r, step, k - 1) + step
  <2>1. PICK x \in Int, y \in Int : x = k * step /\ y = (k - 1) * step /\ y + step = x
    BY <1>2
  <2>2. Cut(r, step, k) = s + x /\ Cut(r, step, k - 1) = s + y
    BY <1>4, <2>1
  <2> QED
    BY <2>1, <2>2
<1>6. Cut(r, step, 0) = r.s
  BY <1>1, <1>3, <1>4
<1> QED
  BY <1>5, <1>6

LEMMA CutsOrdered ==
    ASSUME NEW r, r.s \in Int, NEW step \in Nat \ {0}, NEW j \in Int, NEW k \in Int, j <= k
    PROVE  Cut(r, step, j) <= Cut(r, step, k)
<1>1. PICK s \in Int : s = r.s
  OBVIOUS
<1>2. PICK d \in Nat : d = k - j
  OBVIOUS
<1>3. PICK x \in Int, y \in Int, z \in Int :
         x = k * step /\ y = j * step /\ z = d * step /\ x = y + z /\ z >= 0
  BY <1>2
<1>4. Cut(r, step, k) = s + x /\ Cut(r, step, j) = s + y
  BY <1>1, <1>3 DEF Cut
<1> QED
  BY <1>3, <1>4

\* Every point from the start on lies between two cuts.
LEMMA CutFound ==
    ASSUME NEW r, r.s \in Int, NEW step \in Nat \ {0}, NEW p \in Int, r.s <= p
    PROVE  \E k \in Nat \ {0} : Cut(r, step, k - 1) <= p /\ p < Cut(r, step, k)
<1>1. PICK s \in Int : s = r.s
  OBVIOUS
<1>2. PICK d \in Nat : d = p - s
  BY <1>1
<1>3. PICK q \in Nat : step * q <= d /\ d < step * q + step
  BY Divided
<1>4. PICK x \in Int : x = q * step /\ x <= d /\ d < x + step
  BY <1>3
<1>5. Cut(r, step, q) = s + x
  BY <1>1, <1>4 DEF Cut
<1>6. q + 1 \in Int /\ (q + 1) - 1 = q /\ q + 1 \in Nat \ {0}
  OBVIOUS
<1>7. Cut(r, step, q + 1) = Cut(r, step, q) + step
  BY <1>6, CutsAre
<1>8. Cut(r, step, q) <= p /\ p < Cut(r, step, q + 1)
  BY <1>2, <1>4, <1>5, <1>7
<1> QED
  BY <1>6, <1>8

LEMMA InitialPart ==
    ASSUME NEW n \in Nat, NEW T, T \subseteq 1..n, \A k \in T : \A j \in 1..k : j \in T
    PROVE  \E c \in Nat : c <= n /\ T = 1..c /\ Cardinality(T) = c
<1> DEFINE R == (Nat \ {0}) \ T
<1>1. n + 1 \in R
  OBVIOUS
<1>2. PICK x \in R : \A y \in R : x <= y
  BY <1>1, LeastNat
<1>3. PICK c \in Nat : c + 1 = x /\ c <= n
  BY <1>1, <1>2
<1>4. ASSUME NEW k \in 1..c PROVE k \in T
  BY <1>2, <1>3
<1>5. ASSUME NEW k \in T PROVE k \in 1..c
  <2>1. k \in Nat /\ k >= 1
    OBVIOUS
  <2>2. ~(x <= k)
    BY <1>2, <2>1
  <2> QED
    BY <1>2, <1>3, <2>1, <2>2
<1>6. T = 1..c
  BY <1>4, <1>5
<1>7. Cardinality(1..c) = c
  BY FS_Interval
<1> QED
  BY <1>3, <1>6, <1>7

\* Pieces 1 to c of a range are the parts between its cuts, and there are no
\* more of them.
CutInto(pieces, c, r, step, partial) ==
  /\ DOMAIN pieces = 1..c
  /\ \A k \in Nat \ {0} :
       k <= c <=> /\ k <= MaxBuckets
                  /\ IF partial THEN Cut(r, step, k - 1) < r.e ELSE Cut(r, step, k) <= r.e
  /\ \A k \in 1..c : /\ pieces[k].s = Cut(r, step, k - 1)
                     /\ pieces[k].e = IF Cut(r, step, k) < r.e THEN Cut(r, step, k) ELSE r.e

LEMMA PiecesAre ==
    ASSUME NEW r, Bounded(r), r.s \in Int, r.e \in Int, r.s < r.e,
           NEW step \in Nat \ {0}, NEW partial \in BOOLEAN
    PROVE  \E c \in Nat : CutInto(GenerateRangeArray(r, step, partial), c, r, step, partial)
<1> DEFINE pieces == GenerateRangeArray(r, step, partial)
           kept == {k \in 1..MaxBuckets : IF partial THEN Cut(r, step, k - 1) < r.e ELSE Cut(r, step, k) <= r.e}
<1>1. pieces = [k \in 1..Cardinality(kept) |->
                  [s |-> Cut(r, step, k - 1), e |-> minBound(Cut(r, step, k), r.e)]]
  BY DEF GenerateRangeArray, Cut
<1> HIDE DEF pieces
<1>2. ASSUME NEW k \in kept, NEW j \in 1..k PROVE j \in kept
  <2>1. k \in Int /\ j \in Int /\ j <= k /\ j - 1 <= k - 1 /\ j - 1 \in Int /\ k - 1 \in Int /\ j \in 1..MaxBuckets
    OBVIOUS
  <2>2. Cut(r, step, j) <= Cut(r, step, k) /\ Cut(r, step, j - 1) <= Cut(r, step, k - 1)
    BY <2>1, CutsOrdered
  <2>3. /\ Cut(r, step, j) \in Int /\ Cut(r, step, k) \in Int
        /\ Cut(r, step, j - 1) \in Int /\ Cut(r, step, k - 1) \in Int
    BY <2>1, CutsAre
  <2>4. IF partial THEN Cut(r, step, k - 1) < r.e ELSE Cut(r, step, k) <= r.e
    OBVIOUS
  <2>5. IF partial THEN Cut(r, step, j - 1) < r.e ELSE Cut(r, step, j) <= r.e
    <3> HIDE DEF kept
    <3> QED
      BY <2>2, <2>3, <2>4
  <2> QED
    BY <2>1, <2>5
<1>3. kept \subseteq 1..MaxBuckets
  OBVIOUS
<1>4. \A k : k \in kept <=> /\ k \in 1..MaxBuckets
                            /\ IF partial THEN Cut(r, step, k - 1) < r.e ELSE Cut(r, step, k) <= r.e
  OBVIOUS
<1> HIDE DEF kept
<1>5. PICK c \in Nat : c <= MaxBuckets /\ kept = 1..c /\ Cardinality(kept) = c
  BY <1>2, <1>3, InitialPart
<1>6. DOMAIN pieces = 1..c
  BY <1>1, <1>5
<1>7. ASSUME NEW k \in 1..c
      PROVE  /\ pieces[k].s = Cut(r, step, k - 1)
             /\ pieces[k].e = IF Cut(r, step, k) < r.e THEN Cut(r, step, k) ELSE r.e
  <2>1. pieces[k] = [s |-> Cut(r, step, k - 1), e |-> minBound(Cut(r, step, k), r.e)]
    BY <1>1, <1>5
  <2>2. Cut(r, step, k) \in Int
    BY CutsAre
  <2>3. Cut(r, step, k) # Unbounded /\ r.e # Unbounded
    BY <2>2
  <2>4. minBound(Cut(r, step, k), r.e) = IF Cut(r, step, k) < r.e THEN Cut(r, step, k) ELSE r.e
    BY <2>3 DEF minBound
  <2> QED
    BY <2>1, <2>4
<1>8. ASSUME NEW k \in Nat \ {0}
      PROVE  k <= c <=> /\ k <= MaxBuckets
                        /\ IF partial THEN Cut(r, step, k - 1) < r.e ELSE Cut(r, step, k) <= r.e
  <2>1. k <= c <=> k \in kept
    BY <1>5
  <2>2. k \in 1..MaxBuckets <=> k <= MaxBuckets
    OBVIOUS
  <2> QED
    BY <1>4, <2>1, <2>2
<1> QED
  BY <1>6, <1>7, <1>8 DEF pieces, CutInto

\* The pieces of one range: what PiecesCover says of it.
LEMMA PiecesOf ==
    ASSUME NEW r, Bounded(r), r.s \in Int, r.e \in Int, r.s < r.e,
           NEW step \in Nat \ {0}, NEW partial \in BOOLEAN
    PROVE  LET pieces == GenerateRangeArray(r, step, partial)
               whole  == r.e - r.s <= step * MaxBuckets
           IN  /\ \A p \in Elements(r) :
                    LET holders == {k \in DOMAIN pieces : RangeContainsPoint(pieces[k], p)}
                    IN  IF partial /\ whole THEN Cardinality(holders) = 1
                        ELSE Cardinality(holders) <= 1
               /\ \A k \in DOMAIN pieces :
                    /\ Elements(pieces[k]) \subseteq Elements(r)
                    /\ ~partial => pieces[k].e - pieces[k].s = step
               /\ ~partial /\ whole =>
                    Elements(r) \ UNION {Elements(pieces[k]) : k \in DOMAIN pieces}
                      \subseteq (r.e - step + 1)..(r.e - 1)
<1> DEFINE pieces == GenerateRangeArray(r, step, partial)
           whole  == r.e - r.s <= step * MaxBuckets
           Edge(k) == Cut(r, step, k)
<1>0. PICK c \in Nat : CutInto(pieces, c, r, step, partial)
  BY PiecesAre
<1>1. /\ DOMAIN pieces = 1..c
      /\ \A k \in Nat \ {0} :
           k <= c <=> /\ k <= MaxBuckets
                      /\ IF partial THEN Edge(k - 1) < r.e ELSE Edge(k) <= r.e
      /\ \A k \in 1..c : /\ pieces[k].s = Edge(k - 1)
                         /\ pieces[k].e = IF Edge(k) < r.e THEN Edge(k) ELSE r.e
  BY <1>0 DEF CutInto
<1>2. \A k \in Int : Edge(k) \in Int
  BY CutsAre
<1>12. \A k \in Int : Edge(k) = Edge(k - 1) + step
  BY CutsAre
<1>13. Edge(0) = r.s /\ \A j, k \in Int : j <= k => Edge(j) <= Edge(k)
  BY CutsAre, CutsOrdered
<1>3. whole => r.e <= Edge(MaxBuckets)
  <2>1. PICK s \in Int, e \in Int, x \in Int : s = r.s /\ e = r.e /\ x = MaxBuckets * step /\ x = step * MaxBuckets
    OBVIOUS
  <2>2. Edge(MaxBuckets) = s + x
    BY <2>1 DEF Cut
  <2> QED
    BY <2>1, <2>2
<1> HIDE DEF pieces, whole, Edge
<1>4. ASSUME NEW k \in 1..c, NEW p \in Int
      PROVE  RangeContainsPoint(pieces[k], p) <=> Edge(k - 1) <= p /\ p < Edge(k) /\ p < r.e
  <2>1. k \in Int /\ k - 1 \in Int
    OBVIOUS
  <2>2. Edge(k) \in Int /\ Edge(k - 1) \in Int
    BY <1>2, <2>1
  <2>3. pieces[k].s = Edge(k - 1) /\ pieces[k].e = IF Edge(k) < r.e THEN Edge(k) ELSE r.e
    BY <1>1
  <2>4. pieces[k].s # Unbounded /\ pieces[k].e # Unbounded
    BY <2>2, <2>3
  <2>5. RangeContainsPoint(pieces[k], p) <=> pieces[k].s <= p /\ p < pieces[k].e
    BY <2>4, HoldsPoint
  <2> QED
    BY <2>2, <2>3, <2>5
<1>5. \A p : p \in Elements(r) <=> p \in Universe /\ p \in Int /\ r.s <= p /\ p < r.e
  <2>1. \A p \in Universe : p \in Int
    BY UniverseIs
  <2> QED
    BY <2>1, HoldsPoint DEF Elements, Bounded
<1>6. ASSUME NEW p \in Int, NEW j \in Nat \ {0}, NEW k \in Nat \ {0},
             Edge(j - 1) <= p, p < Edge(j), Edge(k - 1) <= p, p < Edge(k)
      PROVE  j = k
  <2>1. ASSUME NEW a \in Nat \ {0}, NEW b \in Nat \ {0}, Edge(b - 1) <= p, p < Edge(a) PROVE ~(a < b)
    <3>0. PICK x \in Int : x = b - 1
      OBVIOUS
    <3>1. a <= x => Edge(a) <= Edge(x)
      BY <1>13
    <3>2. Edge(a) \in Int /\ Edge(x) \in Int
      BY <1>2
    <3> QED
      BY <2>1, <3>0, <3>1, <3>2
  <2> QED
    BY <1>6, <2>1
<1>7. ASSUME NEW k \in Nat \ {0}, NEW p \in Int, Edge(k - 1) <= p, p < r.e, whole PROVE k <= MaxBuckets
  <2>1. r.e <= Edge(MaxBuckets)
    BY <1>3, <1>7
  <2>0. PICK x \in Int : x = k - 1
    OBVIOUS
  <2>2. MaxBuckets <= x => Edge(MaxBuckets) <= Edge(x)
    BY <1>13
  <2>3. Edge(x) \in Int /\ Edge(MaxBuckets) \in Int
    BY <1>2
  <2> QED
    BY <1>7, <2>0, <2>1, <2>2, <2>3
<1>8. ASSUME NEW p \in Elements(r)
      PROVE  LET holders == {k \in DOMAIN pieces : RangeContainsPoint(pieces[k], p)}
             IN  IF partial /\ whole THEN Cardinality(holders) = 1
                 ELSE Cardinality(holders) <= 1
  <2>1. p \in Int /\ r.s <= p /\ p < r.e
    BY <1>5
  <2>2. PICK k \in Nat \ {0} : Edge(k - 1) <= p /\ p < Edge(k)
    BY <2>1, CutFound DEF Edge
  <2> DEFINE holders == {j \in DOMAIN pieces : RangeContainsPoint(pieces[j], p)}
  <2>3. ASSUME NEW j \in holders PROVE j = k
    <3>1. j \in 1..c /\ RangeContainsPoint(pieces[j], p)
      BY <1>1
    <3>2. Edge(j - 1) <= p /\ p < Edge(j)
      BY <1>4, <2>1, <3>1
    <3>3. j \in Nat \ {0}
      BY <3>1
    <3> QED
      BY <1>6, <2>1, <2>2, <3>2, <3>3
  <2>4. k \in 1..c => k \in holders
    BY <1>1, <1>4, <2>1, <2>2
  <2>5. partial /\ whole => k \in 1..c
    <3> SUFFICES ASSUME partial, whole PROVE k <= c
      OBVIOUS
    <3>1. k <= MaxBuckets
      BY <1>7, <2>1, <2>2
    <3>2. k - 1 \in Int /\ Edge(k - 1) \in Int
      BY <1>2
    <3>3. Edge(k - 1) < r.e
      BY <2>1, <2>2, <3>2
    <3> QED
      BY <1>1, <3>1, <3>3
  <2> HIDE DEF holders
  <2>6. holders = {} \/ holders = {k}
    BY <2>3
  <2>7. partial /\ whole => holders = {k}
    BY <2>4, <2>5, <2>6
  <2>8. Cardinality({k}) = 1 /\ Cardinality({}) = 0
    BY FS_Singleton, FS_EmptySet
  <2> QED
    BY <2>6, <2>7, <2>8 DEF holders
<1>9. ASSUME NEW k \in DOMAIN pieces
      PROVE  /\ Elements(pieces[k]) \subseteq Elements(r)
             /\ ~partial => pieces[k].e - pieces[k].s = step
  <2>1. k \in 1..c /\ k \in Int /\ k - 1 \in Int /\ 0 <= k - 1 /\ k \in Nat \ {0} /\ k <= c
    BY <1>1
  <2>2. Edge(k) \in Int /\ Edge(k - 1) \in Int /\ r.s <= Edge(k - 1) /\ Edge(k) = Edge(k - 1) + step
    <3>1. Edge(0) <= Edge(k - 1)
      BY <1>13, <2>1
    <3> QED
      BY <1>2, <1>12, <1>13, <2>1, <3>1
  <2>3. ASSUME NEW p \in Elements(pieces[k]) PROVE p \in Elements(r)
    <3>1. p \in Universe /\ p \in Int /\ RangeContainsPoint(pieces[k], p)
      BY UniverseIs DEF Elements
    <3>2. Edge(k - 1) <= p /\ p < r.e
      BY <1>4, <2>1, <3>1
    <3> QED
      BY <1>5, <2>2, <3>1, <3>2
  <2>4. ~partial => Edge(k) <= r.e
    BY <1>1, <2>1
  <2>5. pieces[k].s = Edge(k - 1) /\ pieces[k].e = IF Edge(k) < r.e THEN Edge(k) ELSE r.e
    BY <1>1, <2>1
  <2>6. ~partial => pieces[k].e - pieces[k].s = step
    BY <2>2, <2>4, <2>5
  <2> QED
    BY <2>3, <2>6
<1>10. ASSUME ~partial, whole,
              NEW p \in Elements(r) \ UNION {Elements(pieces[k]) : k \in DOMAIN pieces}
       PROVE  p \in (r.e - step + 1)..(r.e - 1)
  <2>1. p \in Universe /\ p \in Int /\ r.s <= p /\ p < r.e
    BY <1>5
  <2>2. PICK k \in Nat \ {0} : Edge(k - 1) <= p /\ p < Edge(k)
    BY <2>1, CutFound DEF Edge
  <2>3. k <= MaxBuckets
    BY <1>7, <1>10, <2>1, <2>2
  <2>4. ~(k <= c)
    <3> SUFFICES ASSUME k <= c PROVE FALSE
      OBVIOUS
    <3>1. k \in 1..c /\ k \in DOMAIN pieces
      BY <1>1
    <3>2. p \in Elements(pieces[k])
      BY <1>4, <2>1, <2>2, <3>1 DEF Elements
    <3> QED
      BY <3>1, <3>2
  <2>5. ~(Edge(k) <= r.e)
    BY <1>1, <1>10, <2>3, <2>4
  <2>6. Edge(k) \in Int /\ Edge(k - 1) \in Int /\ Edge(k) = Edge(k - 1) + step
    BY <1>2, <1>12
  <2>7. r.e - step + 1 <= p /\ p <= r.e - 1
    BY <2>1, <2>2, <2>5, <2>6
  <2> QED
    BY <2>1, <2>7
<1>11. ~partial /\ whole =>
          Elements(r) \ UNION {Elements(pieces[k]) : k \in DOMAIN pieces}
             \subseteq (r.e - step + 1)..(r.e - 1)
  BY <1>10
<1> QED
  BY <1>8, <1>9, <1>11 DEF pieces, whole

LEMMA PiecesHold == RangesAre => PiecesCover
<1> SUFFICES ASSUME RangesAre, NEW r \in Table, Bounded(r), NEW step \in 1..3, NEW partial \in BOOLEAN
             PROVE  PiecesCover!(r, step, partial)
  BY DEF PiecesCover
<1>1. IsRange(r)
  BY TableRanges
<1>2. r.s \in Int /\ r.e \in Int /\ r.s < r.e
  BY <1>1 DEF IsRange, Ends, Bounded
<1>3. step \in Nat \ {0}
  OBVIOUS
<1> QED
  BY <1>2, <1>3, PiecesOf

-----------------------------------------------------------------------------
(* RANGE_SESSIONIZE.                                                       *)

\* p lists the numbers 1 to m in the order of their keys.
SortedBy(p, key, m) ==
  /\ p \in [1..m -> 1..m]
  /\ \A j \in 1..m : \E i \in 1..m : p[i] = j
  /\ \A i, j \in 1..m : i < j => key[p[i]] <= key[p[j]]

LEMMA SortedNext ==
    ASSUME NEW m \in Nat, NEW n \in Nat, m + 1 <= n, NEW key \in [1..n -> Int],
           NEW p, SortedBy(p, key, m)
    PROVE  \E q : SortedBy(q, key, m + 1)
<1> DEFINE T == {i \in 1..(m + 1) : i = m + 1 \/ key[m + 1] < key[p[i]]}
<1>1. T \subseteq Nat /\ m + 1 \in T
  OBVIOUS
<1>2. PICK x \in T : \A y \in T : x <= y
  BY <1>1, LeastNat
<1>3. x \in 1..(m + 1) /\ x \in Nat /\ (x = m + 1 \/ key[m + 1] < key[p[x]])
  BY <1>2
<1>4. ASSUME NEW i \in 1..m, i < x PROVE key[p[i]] <= key[m + 1]
  <2>1. i \notin T
    BY <1>2, <1>4
  <2>2. p[i] \in 1..n
    BY DEF SortedBy
  <2> QED
    BY <2>1, <2>2
<1> HIDE DEF T
<1>5. ASSUME NEW i \in 1..m, x <= i PROVE key[m + 1] <= key[p[i]]
  <2>1. x \in 1..m /\ p[x] \in 1..n /\ p[i] \in 1..n /\ x # m + 1
    <3>1. x \in 1..m /\ x # m + 1
      BY <1>3, <1>5
    <3>2. \A j \in 1..m : p[j] \in 1..m
      BY DEF SortedBy
    <3>3. \A j \in 1..m : j \in 1..n
      OBVIOUS
    <3> QED
      BY <3>1, <3>2, <3>3
  <2>2. key[p[x]] \in Int /\ key[p[i]] \in Int /\ key[m + 1] \in Int /\ key[m + 1] < key[p[x]]
    BY <1>3, <2>1
  <2>3. x = i \/ key[p[x]] <= key[p[i]]
    BY <1>5, <2>1, <1>3 DEF SortedBy
  <2> QED
    BY <2>2, <2>3
<1> DEFINE q == [i \in 1..(m + 1) |-> IF i < x THEN p[i] ELSE IF i = x THEN m + 1 ELSE p[i - 1]]
<1>6. \A i \in 1..(m + 1) : i < x => i \in 1..m /\ q[i] = p[i]
  BY <1>3
<1>7. q[x] = m + 1
  BY <1>3
<1>8. \A i \in 1..(m + 1) : x < i => i - 1 \in 1..m /\ q[i] = p[i - 1] /\ x <= i - 1
  BY <1>3
<1>9. DOMAIN q = 1..(m + 1) /\ q = [i \in 1..(m + 1) |-> q[i]]
  OBVIOUS
<1> HIDE DEF q
<1>10. \A i \in 1..(m + 1) : i < x \/ i = x \/ x < i
  BY <1>3
<1>11. \A i \in 1..(m + 1) : q[i] \in 1..(m + 1)
  <2>1. \A i \in 1..m : p[i] \in 1..(m + 1)
    BY DEF SortedBy
  <2>2. m + 1 \in 1..(m + 1)
    OBVIOUS
  <2> QED
    BY <1>6, <1>7, <1>8, <1>10, <2>1, <2>2
<1>12. q \in [1..(m + 1) -> 1..(m + 1)]
  BY <1>9, <1>11
<1>13. ASSUME NEW j \in 1..(m + 1) PROVE \E i \in 1..(m + 1) : q[i] = j
  <2>1. CASE j = m + 1
    BY <1>3, <1>7, <2>1
  <2>2. CASE j # m + 1
    <3>1. PICK i \in 1..m : p[i] = j
      BY <2>2 DEF SortedBy
    <3>2. i < x => q[i] = j /\ i \in 1..(m + 1)
      BY <1>6, <3>1
    <3>3. x <= i => q[i + 1] = j /\ i + 1 \in 1..(m + 1)
      <4> SUFFICES ASSUME x <= i PROVE q[i + 1] = j /\ i + 1 \in 1..(m + 1)
        OBVIOUS
      <4>1. i + 1 \in 1..(m + 1) /\ x < i + 1 /\ (i + 1) - 1 = i
        BY <1>3
      <4> QED
        BY <1>8, <3>1, <4>1
    <3>4. i < x \/ x <= i
      BY <1>3
    <3> QED
      BY <3>2, <3>3, <3>4
  <2> QED
    BY <2>1, <2>2
<1>14. ASSUME NEW i \in 1..(m + 1), NEW j \in 1..(m + 1), i < j PROVE key[q[i]] <= key[q[j]]
  <2>1. CASE j < x
    <3>1. i < x /\ i \in 1..m /\ j \in 1..m /\ q[i] = p[i] /\ q[j] = p[j]
      BY <1>3, <1>6, <1>14, <2>1
    <3> QED
      BY <1>14, <3>1 DEF SortedBy
  <2>2. CASE j = x
    <3>1. i < x /\ i \in 1..m /\ q[i] = p[i] /\ q[j] = m + 1
      BY <1>6, <1>7, <1>14, <2>2
    <3> QED
      BY <1>4, <3>1
  <2>3. CASE x < j
    <3>1. j - 1 \in 1..m /\ q[j] = p[j - 1] /\ x <= j - 1
      BY <1>8, <2>3
    <3>2. CASE i < x
      <4>1. i \in 1..m /\ q[i] = p[i] /\ i < j - 1
        BY <1>3, <1>6, <3>1, <3>2
      <4> QED
        BY <3>1, <4>1 DEF SortedBy
    <3>3. CASE i = x
      BY <1>5, <1>7, <3>1, <3>3
    <3>4. CASE x < i
      <4>1. i - 1 \in 1..m /\ q[i] = p[i - 1] /\ i - 1 < j - 1
        BY <1>8, <1>14, <3>4
      <4> QED
        BY <3>1, <4>1 DEF SortedBy
    <3> QED
      BY <1>10, <3>2, <3>3, <3>4
  <2> QED
    BY <1>10, <2>1, <2>2, <2>3
<1>15. SortedBy(q, key, m + 1)
  BY <1>12, <1>13, <1>14 DEF SortedBy
<1> QED
  BY <1>15

LEMMA Sorts ==
    ASSUME NEW n \in Nat, NEW key \in [1..n -> Int]
    PROVE  \E p : SortedBy(p, key, n)
<1> DEFINE S == {m \in Nat : m <= n => \E p : SortedBy(p, key, m)}
<1>1. 0 \in S
  <2> DEFINE p == [i \in 1..0 |-> 0]
  <2>1. SortedBy(p, key, 0)
    BY DEF SortedBy
  <2> QED
    BY <2>1
<1>2. ASSUME NEW m \in Nat, m \in S PROVE m + 1 \in S
  <2> SUFFICES ASSUME m + 1 <= n PROVE \E p : SortedBy(p, key, m + 1)
    OBVIOUS
  <2>1. PICK p : SortedBy(p, key, m)
    BY <1>2
  <2> QED
    BY <2>1, SortedNext
<1>3. \A m \in Nat : m \in S => m + 1 \in S
  BY <1>2
<1> HIDE DEF S
<1>4. Nat \subseteq S
  BY <1>1, <1>3, NatSet
<1>5. n \in S
  BY <1>4
<1> QED
  BY <1>5 DEF S

\* The rows as RANGE_SESSIONIZE reads them: bounded ranges by their start.
Lined(rs, n) ==
  /\ n \in Nat /\ DOMAIN rs = 1..n
  /\ \A k \in 1..n : rs[k].s \in Int /\ rs[k].e \in Int /\ rs[k].s < rs[k].e
  /\ \A i, j \in 1..n : i <= j => rs[i].s <= rs[j].s

LEMMA ExtractedLined ==
    ASSUME NEW n \in Nat, NEW rs, DOMAIN rs = 1..n,
           \A k \in 1..n : rs[k].s \in Int /\ rs[k].e \in Int /\ rs[k].s < rs[k].e
    PROVE  Lined(extracted(rs), n)
<1> DEFINE key == [k \in 1..n |-> rs[k].s]
<1>1. key \in [1..n -> Int] /\ \A k \in 1..n : key[k] = rs[k].s
  OBVIOUS
<1> HIDE DEF key
<1>2. PICK q : SortedBy(q, key, n)
  BY <1>1, Sorts
<1>3. ASSUME NEW p \in [1..n -> 1..n]
      PROVE  InOrderOf(rs, p) <=> /\ \A j \in 1..n : \E i \in 1..n : p[i] = j
                                  /\ \A i, j \in 1..n : i < j => rs[p[i]].s <= rs[p[j]].s
  <2>1. \A k \in 1..n : p[k] \in 1..n
    OBVIOUS
  <2>2. \A k \in 1..n : rs[p[k]].s # Unbounded
    BY <2>1
  <2> QED
    BY <2>2 DEF InOrderOf, NullsFirst
<1>4. q \in [1..n -> 1..n] /\ InOrderOf(rs, q)
  <2>1. q \in [1..n -> 1..n]
    BY <1>2 DEF SortedBy
  <2>2. \A i, j \in 1..n : i < j => rs[q[i]].s <= rs[q[j]].s
    BY <1>1, <1>2, <2>1 DEF SortedBy
  <2> QED
    BY <1>2, <1>3, <2>1, <2>2 DEF SortedBy
<1> DEFINE p == CHOOSE p \in [DOMAIN rs -> DOMAIN rs] : InOrderOf(rs, p)
<1>5. p \in [1..n -> 1..n] /\ InOrderOf(rs, p)
  BY <1>4
<1>6. extracted(rs) = [k \in 1..n |-> rs[p[k]]]
  BY DEF extracted
<1> HIDE DEF p
<1>7. \A i, j \in 1..n : i <= j => rs[p[i]].s <= rs[p[j]].s
  <2>1. \A i, j \in 1..n : i < j => rs[p[i]].s <= rs[p[j]].s
    BY <1>3, <1>5
  <2>2. \A i \in 1..n : rs[p[i]].s \in Int
    BY <1>5
  <2>3. ASSUME NEW i \in 1..n, NEW j \in 1..n, i <= j PROVE rs[p[i]].s <= rs[p[j]].s
    <3>1. i = j \/ i < j
      BY <2>3
    <3> QED
      BY <2>1, <2>2, <3>1
  <2> QED
    BY <2>3
<1>8. \A k \in 1..n : p[k] \in 1..n
  BY <1>5
<1> QED
  BY <1>6, <1>7, <1>8 DEF Lined

\* The extremes of a finite set of integers.
LEMMA LeastGreatest ==
    ASSUME NEW T, T \subseteq Int, IsFiniteSet(T), T # {}
    PROVE  /\ Least(T) \in T /\ \A y \in T : Least(T) <= y
           /\ Greatest(T) \in T /\ \A y \in T : y <= Greatest(T)
<1>1. SkipNulls(T) = T
  BY DEF SkipNulls
<1>2. Least(T) = CHOOSE x \in T : \A y \in T : x <= y
  BY <1>1 DEF Least
<1>3. Greatest(T) = CHOOSE x \in T : \A y \in T : y <= x
  BY <1>1 DEF Greatest
<1>4. \E x \in T : \A y \in T : x <= y
  BY Extremes
<1>5. \E x \in T : \A y \in T : y <= x
  BY Extremes
<1>6. Least(T) \in T /\ \A y \in T : Least(T) <= y
  BY <1>2, <1>4
<1>7. Greatest(T) \in T /\ \A y \in T : y <= Greatest(T)
  BY <1>3, <1>5
<1> QED
  BY <1>6, <1>7

LEMMA FiniteImage ==
    ASSUME NEW T, IsFiniteSet(T), NEW f
    PROVE  IsFiniteSet({f[t] : t \in T})
<1> DEFINE g == [t \in T |-> f[t]]
           I == {f[t] : t \in T}
<1>1. g \in Surjection(T, I)
  BY DEF Surjection
<1> HIDE DEF g, I
<1>2. IsFiniteSet(I)
  BY <1>1, FS_Surjection
<1> QED
  BY <1>2 DEF I

\* The running maximum of the ends.
LEMMA PrevMaxEndIs ==
    ASSUME NEW rs, NEW n, Lined(rs, n), NEW k \in 1..n
    PROVE  /\ k = 1 => prevMaxEnd(rs, k) = Unbounded
           /\ k # 1 => /\ prevMaxEnd(rs, k) \in Int
                       /\ \E l \in 1..(k - 1) : prevMaxEnd(rs, k) = rs[l].e
                       /\ \A j \in 1..(k - 1) : rs[j].e <= prevMaxEnd(rs, k)
<1> DEFINE ends == {rs[j].e : j \in 1..(k - 1)}
           f == [j \in 1..(k - 1) |-> rs[j].e]
<1>1. prevMaxEnd(rs, k) = Greatest(ends)
  BY DEF prevMaxEnd
<1>2. n \in Nat /\ k \in Nat /\ \A j \in 1..(k - 1) : j \in 1..n
  BY DEF Lined
<1>3. CASE k = 1
  <2>1. ends = {}
    BY <1>3
  <2> QED
    BY <1>1, <1>3, <2>1 DEF Greatest, SkipNulls
<1>4. CASE k # 1
  <2>1. ends = {f[j] : j \in 1..(k - 1)}
    OBVIOUS
  <2>2. IsFiniteSet(1..(k - 1))
    BY <1>2, FS_Interval
  <2>3. IsFiniteSet({f[j] : j \in 1..(k - 1)})
    <3> HIDE DEF f
    <3> QED
      BY <2>2, FiniteImage
  <2>4. ends \subseteq Int
    BY <1>2 DEF Lined
  <2>5. 1 \in 1..(k - 1)
    BY <1>2, <1>4
  <2>6. ends # {}
    BY <2>5
  <2>7. Greatest(ends) \in ends /\ \A y \in ends : y <= Greatest(ends)
    <3> HIDE DEF ends, f
    <3> QED
      BY <2>1, <2>3, <2>4, <2>6, LeastGreatest
  <2>8. Greatest(ends) \in Int
    BY <2>4, <2>7
  <2>9. \E l \in 1..(k - 1) : Greatest(ends) = rs[l].e
    BY <2>7
  <2>10. \A j \in 1..(k - 1) : rs[j].e <= Greatest(ends)
    BY <2>7
  <2> HIDE DEF ends
  <2> QED
    BY <1>1, <1>4, <2>8, <2>9, <2>10
<1> QED
  BY <1>3, <1>4

\* Two rows that meet or overlap.
Meet(rs, mode, j, k) ==
  IF mode = "OVERLAPS" THEN rs[k].s < rs[j].e /\ rs[j].s < rs[k].e
                       ELSE rs[j].s <= rs[k].e /\ rs[k].s <= rs[j].e

\* Rows from one to another that it meets start no session.
LEMMA MeetTogether ==
    ASSUME NEW rs, NEW n, Lined(rs, n), NEW mode, NEW j \in 1..n, NEW k \in 1..n,
           Meet(rs, mode, j, k), NEW m \in 1..n, j < m, m <= k
    PROVE  ~newSession(rs, m, mode)
<1>1. /\ rs[j].e \in Int /\ rs[j].s \in Int /\ rs[m].s \in Int /\ rs[k].s \in Int /\ rs[k].e \in Int
      /\ rs[m].s <= rs[k].s /\ rs[k].s < rs[k].e
      /\ j \in Nat /\ m \in Nat
  BY DEF Lined
<1>2. m # 1 /\ j \in 1..(m - 1)
  BY <1>1
<1>3. prevMaxEnd(rs, m) \in Int /\ rs[j].e <= prevMaxEnd(rs, m)
  BY <1>2, PrevMaxEndIs
<1>4. prevMaxEnd(rs, m) # Unbounded
  BY <1>3
<1>5. mode = "OVERLAPS" => ~(rs[m].s >= prevMaxEnd(rs, m))
  BY <1>1, <1>3 DEF Meet
<1>6. mode # "OVERLAPS" => ~(rs[m].s > prevMaxEnd(rs, m))
  BY <1>1, <1>3 DEF Meet
<1> QED
  BY <1>4, <1>5, <1>6 DEF newSession

\* A row that starts no session meets an earlier one, as does every row in between.
LEMMA MeetsEarlier ==
    ASSUME NEW rs, NEW n, Lined(rs, n), NEW mode, NEW k \in 1..n, ~newSession(rs, k, mode)
    PROVE  \E l \in 1..n : /\ l < k /\ Meet(rs, mode, l, k)
                           /\ \A i \in 1..n : l < i /\ i < k => Meet(rs, mode, i, l)
<1>1. k # 1
  BY PrevMaxEndIs DEF newSession
<1>2. PICK l \in 1..(k - 1) : /\ prevMaxEnd(rs, k) = rs[l].e /\ prevMaxEnd(rs, k) \in Int
  BY <1>1, PrevMaxEndIs
<1>3. l \in 1..n /\ l < k /\ n \in Nat /\ l <= k
  BY <1>2 DEF Lined
<1>4. /\ rs[l].s \in Int /\ rs[l].e \in Int /\ rs[k].s \in Int /\ rs[k].e \in Int
      /\ rs[l].s <= rs[k].s /\ rs[k].s < rs[k].e /\ rs[l].s < rs[l].e
  BY <1>3 DEF Lined
<1>5. rs[k].s # Unbounded /\ prevMaxEnd(rs, k) # Unbounded
  BY <1>2, <1>4
<1>6. IF mode = "OVERLAPS" THEN rs[k].s < rs[l].e ELSE rs[k].s <= rs[l].e
  BY <1>2, <1>4, <1>5 DEF newSession
<1>7. Meet(rs, mode, l, k)
  BY <1>4, <1>6 DEF Meet
<1>8. ASSUME NEW i \in 1..n, l < i, i < k PROVE Meet(rs, mode, i, l)
  <2>1. /\ rs[i].s \in Int /\ rs[i].e \in Int /\ rs[i].s < rs[i].e
        /\ rs[l].s <= rs[i].s /\ rs[i].s <= rs[k].s
    <3>1. l <= i /\ i <= k
      BY <1>3, <1>8
    <3> QED
      BY <1>3, <3>1 DEF Lined
  <2> QED
    BY <1>4, <1>6, <2>1 DEF Meet
<1> QED
  BY <1>3, <1>7, <1>8

\* Two rows have one session number when no session starts between them.
LEMMA SameSession ==
    ASSUME NEW rs, NEW n \in Nat, NEW mode, NEW i \in 1..n, NEW k \in 1..n, i <= k
    PROVE  sessionId(rs, i, mode) = sessionId(rs, k, mode) <=>
             \A m \in 1..n : i < m /\ m <= k => ~newSession(rs, m, mode)
<1> DEFINE A == {j \in 1..i : newSession(rs, j, mode)}
           B == {j \in 1..k : newSession(rs, j, mode)}
<1>1. sessionId(rs, i, mode) = Cardinality(A) /\ sessionId(rs, k, mode) = Cardinality(B)
  BY DEF sessionId
<1>2. IsFiniteSet(1..k)
  BY FS_Interval
<1>3. B \in SUBSET (1..k)
  OBVIOUS
<1>4. A \in SUBSET B
  OBVIOUS
<1>5. A = B <=> \A m \in 1..n : i < m /\ m <= k => ~newSession(rs, m, mode)
  <2>1. ASSUME A = B, NEW m \in 1..n, i < m, m <= k PROVE ~newSession(rs, m, mode)
    <3>1. m \in 1..k /\ m \notin 1..i
      BY <2>1
    <3> QED
      BY <2>1, <3>1
  <2>2. ASSUME \A m \in 1..n : i < m /\ m <= k => ~newSession(rs, m, mode) PROVE B \subseteq A
    <3>1. ASSUME NEW m \in B PROVE m \in A
      <4>1. m \in 1..n /\ m <= k /\ newSession(rs, m, mode)
        OBVIOUS
      <4>2. ~(i < m)
        BY <2>2, <4>1
      <4>3. m \in 1..i
        BY <4>1, <4>2
      <4> QED
        BY <4>1, <4>3
    <3> QED
      BY <3>1
  <2> QED
    BY <1>4, <2>1, <2>2
<1> HIDE DEF A, B
<1>6. IsFiniteSet(B)
  BY <1>2, <1>3, FS_Subset
<1>7. Cardinality(B) = Cardinality(A) => B = A
  BY <1>4, <1>6, FS_Subset
<1> QED
  BY <1>1, <1>5, <1>7

\* The pairs of rows joined by chains, hop by hop.
Touching(res, mode, j, k) ==
  IF mode = "OVERLAPS" THEN RangeOverlaps(res[j].row, res[k].row)
  ELSE res[j].row.s <= res[k].row.e /\ res[k].row.s <= res[j].row.e
Hops(R, res, mode, n, N) ==
  R = [h \in 0..N |->
         IF h = 0 THEN {<<k, k>> : k \in 1..n}
         ELSE LET r == R[h - 1]
              IN  {jk \in (1..n) \X (1..n) :
                     \E i \in 1..n : <<jk[1], i>> \in r /\ Touching(res, mode, i, jk[2])}]

LEMMA HopsExist ==
    ASSUME NEW res, NEW mode, NEW n, NEW N \in Nat
    PROVE  \E R : Hops(R, res, mode, n, N)
<1> DEFINE HopOn(r) == {jk \in (1..n) \X (1..n) :
                       \E i \in 1..n : <<jk[1], i>> \in r /\ Touching(res, mode, i, jk[2])}
           Alone == {<<k, k>> : k \in 1..n}
           S == {l \in Nat : \E R : R = [h \in 0..l |-> IF h = 0 THEN Alone ELSE HopOn(R[h - 1])]}
<1>0. \A R, l : Hops(R, res, mode, n, l) <=> R = [h \in 0..l |-> IF h = 0 THEN Alone ELSE HopOn(R[h - 1])]
  BY DEF Hops
<1> HIDE DEF On, Alone
<1>1. 0 \in S
  <2> DEFINE R == [h \in 0..0 |-> Alone]
  <2>1. R = [h \in 0..0 |-> IF h = 0 THEN Alone ELSE HopOn(R[h - 1])]
    OBVIOUS
  <2> HIDE DEF R
  <2> QED
    BY <2>1
<1>2. ASSUME NEW l \in Nat, l \in S PROVE l + 1 \in S
  <2>1. PICK R : R = [h \in 0..l |-> IF h = 0 THEN Alone ELSE HopOn(R[h - 1])]
    BY <1>2
  <2> DEFINE g == [h \in 0..(l + 1) |-> IF h = 0 THEN Alone ELSE HopOn(R[h - 1])]
  <2>2. \A h \in 0..l : g[h] = R[h]
    <3>1. \A h \in 0..l : R[h] = IF h = 0 THEN Alone ELSE HopOn(R[h - 1])
      BY <2>1
    <3>2. \A h \in 0..l : h \in 0..(l + 1)
      OBVIOUS
    <3> QED
      BY <3>1, <3>2
  <2>3. \A h \in 0..(l + 1) : h # 0 => h - 1 \in 0..l
    OBVIOUS
  <2>4. g = [h \in 0..(l + 1) |-> IF h = 0 THEN Alone ELSE HopOn(g[h - 1])]
    <3>1. \A h \in 0..(l + 1) : h # 0 => g[h - 1] = R[h - 1]
      BY <2>2, <2>3
    <3> QED
      BY <3>1
  <2> HIDE DEF g
  <2>5. \E f : f = [h \in 0..(l + 1) |-> IF h = 0 THEN Alone ELSE HopOn(f[h - 1])]
    BY <2>4
  <2> QED
    BY <2>5
<1>3. \A l \in Nat : l \in S => l + 1 \in S
  BY <1>2
<1> HIDE DEF S
<1>4. Nat \subseteq S
  BY <1>1, <1>3, NatSet
<1>5. N \in S
  BY <1>4
<1> QED
  BY <1>0, <1>5 DEF S

NoHop(R, n) == \A j, k : <<j, k>> \in R[0] <=> j \in 1..n /\ j = k

LEMMA HopNone ==
    ASSUME NEW res, NEW mode, NEW n, NEW N \in Nat, NEW R, Hops(R, res, mode, n, N)
    PROVE  NoHop(R, n)
<1>1. R[0] = {<<k, k>> : k \in 1..n}
  BY DEF Hops
<1>2. \A j, k : <<j, k>> \in R[0] <=> j \in 1..n /\ j = k
  BY <1>1
<1> QED
  BY <1>2 DEF NoHop

\* Chains of h + 1 hops are those of h with one more at the end.
LastHop(R, res, mode, n, h) ==
  \A j, k : <<j, k>> \in R[h + 1] <=>
              /\ j \in 1..n /\ k \in 1..n
              /\ \E i \in 1..n : <<j, i>> \in R[h] /\ Touching(res, mode, i, k)

LEMMA HopOn ==
    ASSUME NEW res, NEW mode, NEW n, NEW N \in Nat, NEW R, Hops(R, res, mode, n, N),
           NEW h \in Nat, h + 1 <= N
    PROVE  LastHop(R, res, mode, n, h)
<1>1. h + 1 \in 0..N /\ h + 1 # 0 /\ (h + 1) - 1 = h
  OBVIOUS
<1>2. R[h + 1] = {jk \in (1..n) \X (1..n) :
                    \E i \in 1..n : <<jk[1], i>> \in R[h] /\ Touching(res, mode, i, jk[2])}
  BY <1>1 DEF Hops
<1>3. ASSUME NEW j, NEW k
      PROVE  <<j, k>> \in R[h + 1] <=>
               /\ j \in 1..n /\ k \in 1..n
               /\ \E i \in 1..n : <<j, i>> \in R[h] /\ Touching(res, mode, i, k)
  BY <1>2
<1> QED
  BY <1>3 DEF LastHop

\* Touching is symmetric and every row touches itself.
Touchable(res, mode, n) ==
  /\ \A j \in 1..n : Touching(res, mode, j, j)
  /\ \A j, k \in 1..n : Touching(res, mode, j, k) => Touching(res, mode, k, j)

\* Chains may be longer than needed.
LEMMA HopsGrow ==
    ASSUME NEW res, NEW mode, NEW n \in Nat, NEW N \in Nat, NEW R, Hops(R, res, mode, n, N),
           Touchable(res, mode, n), NEW j, NEW k, NEW h \in Nat, <<j, k>> \in R[h],
           NEW g \in Nat, h <= g, g <= N
    PROVE  <<j, k>> \in R[g]
<1>a. NoHop(R, n)
  BY HopNone
<1>b. \A x \in Nat : x + 1 <= N => LastHop(R, res, mode, n, x)
  BY HopOn
<1> DEFINE S == {d \in Nat : h + d <= N => <<j, k>> \in R[h + d]}
<1>1. 0 \in S
  OBVIOUS
<1>2. ASSUME NEW d \in Nat, d \in S PROVE d + 1 \in S
  <2> SUFFICES ASSUME h + (d + 1) <= N PROVE <<j, k>> \in R[h + (d + 1)]
    OBVIOUS
  <2>1. <<j, k>> \in R[h + d]
    BY <1>2
  <2>2. h + d \in Nat /\ (h + d) + 1 = h + (d + 1) /\ (h + d) + 1 <= N
    OBVIOUS
  <2>3. j \in 1..n /\ k \in 1..n
    <3>1. CASE h + d = 0
      <4>1. <<j, k>> \in R[0]
        BY <2>1, <3>1
      <4> QED
        BY <1>a, <4>1 DEF NoHop
    <3>2. CASE h + d # 0
      <4>1. PICK x \in Nat : x + 1 = h + d /\ x + 1 <= N
        BY <2>2, <3>2
      <4> QED
        BY <1>b, <2>1, <4>1 DEF LastHop
    <3> QED
      BY <3>1, <3>2
  <2>4. Touching(res, mode, k, k)
    BY <2>3 DEF Touchable
  <2>5. <<j, k>> \in R[(h + d) + 1]
    BY <1>b, <2>1, <2>2, <2>3, <2>4 DEF LastHop
  <2> QED
    BY <2>2, <2>5
<1>3. \A d \in Nat : d \in S => d + 1 \in S
  BY <1>2
<1> HIDE DEF S
<1>4. Nat \subseteq S
  BY <1>1, <1>3, NatSet
<1>5. g - h \in S /\ h + (g - h) = g
  BY <1>4
<1> QED
  BY <1>5 DEF S

\* A hop may be put before a chain.
LEMMA HopBefore ==
    ASSUME NEW res, NEW mode, NEW n \in Nat, NEW N \in Nat, NEW R, Hops(R, res, mode, n, N)
    PROVE  \A h \in Nat : h + 1 <= N =>
             \A a, b \in 1..n : \A c : Touching(res, mode, a, b) /\ <<b, c>> \in R[h] => <<a, c>> \in R[h + 1]
<1>a. NoHop(R, n)
  BY HopNone
<1>b. \A x \in Nat : x + 1 <= N => LastHop(R, res, mode, n, x)
  BY HopOn
<1> DEFINE P(h) == \A a, b \in 1..n : \A c : Touching(res, mode, a, b) /\ <<b, c>> \in R[h] => <<a, c>> \in R[h + 1]
           S == {h \in Nat : h + 1 <= N => P(h)}
<1>1. 0 \in S
  <2> SUFFICES ASSUME 0 + 1 <= N, NEW a \in 1..n, NEW b \in 1..n, NEW c,
                      Touching(res, mode, a, b), <<b, c>> \in R[0]
               PROVE  <<a, c>> \in R[0 + 1]
    OBVIOUS
  <2>1. b = c /\ <<a, a>> \in R[0]
    BY <1>a DEF NoHop
  <2> QED
    BY <1>b, <2>1 DEF LastHop
<1>2. ASSUME NEW h \in Nat, h \in S PROVE h + 1 \in S
  <2> SUFFICES ASSUME (h + 1) + 1 <= N, NEW a \in 1..n, NEW b \in 1..n, NEW c,
                      Touching(res, mode, a, b), <<b, c>> \in R[h + 1]
               PROVE  <<a, c>> \in R[(h + 1) + 1]
    OBVIOUS
  <2>1. h + 1 <= N /\ h + 1 \in Nat
    OBVIOUS
  <2>2. P(h)
    BY <1>2, <2>1
  <2>3. PICK i \in 1..n : <<b, i>> \in R[h] /\ Touching(res, mode, i, c) /\ c \in 1..n
    BY <1>b, <2>1 DEF LastHop
  <2>4. <<a, i>> \in R[h + 1]
    BY <2>2, <2>3
  <2> QED
    BY <1>b, <2>1, <2>3, <2>4 DEF LastHop
<1>3. \A h \in Nat : h \in S => h + 1 \in S
  BY <1>2
<1> HIDE DEF S
<1>4. Nat \subseteq S
  BY <1>1, <1>3, NatSet
<1> QED
  BY <1>4 DEF S

\* A chain may be walked back.
LEMMA HopsBack ==
    ASSUME NEW res, NEW mode, NEW n \in Nat, NEW N \in Nat, NEW R, Hops(R, res, mode, n, N),
           Touchable(res, mode, n)
    PROVE  \A h \in Nat : h <= N => \A a, c : <<a, c>> \in R[h] => <<c, a>> \in R[h]
<1>a. NoHop(R, n)
  BY HopNone
<1>b. \A x \in Nat : x + 1 <= N => LastHop(R, res, mode, n, x)
  BY HopOn
<1> DEFINE P(h) == \A a, c : <<a, c>> \in R[h] => <<c, a>> \in R[h]
           S == {h \in Nat : h <= N => P(h)}
<1>1. 0 \in S
  BY <1>a DEF NoHop
<1>2. ASSUME NEW h \in Nat, h \in S PROVE h + 1 \in S
  <2> SUFFICES ASSUME h + 1 <= N, NEW a, NEW c, <<a, c>> \in R[h + 1]
               PROVE  <<c, a>> \in R[h + 1]
    OBVIOUS
  <2>1. PICK i \in 1..n : <<a, i>> \in R[h] /\ Touching(res, mode, i, c) /\ c \in 1..n
    BY <1>b DEF LastHop
  <2>2. P(h)
    BY <1>2
  <2>3. <<i, a>> \in R[h]
    BY <2>1, <2>2
  <2>4. Touching(res, mode, c, i)
    BY <2>1 DEF Touchable
  <2> QED
    BY <2>1, <2>3, <2>4, HopBefore
<1>3. \A h \in Nat : h \in S => h + 1 \in S
  BY <1>2
<1> HIDE DEF S
<1>4. Nat \subseteq S
  BY <1>1, <1>3, NatSet
<1> QED
  BY <1>4 DEF S

\* The rows of a result are those of rs.
RowsOf(res, rs, n) == \A k \in 1..n : res[k].row = rs[k]

LEMMA TouchIsMeet ==
    ASSUME NEW rs, NEW n, Lined(rs, n), NEW res, RowsOf(res, rs, n), NEW mode
    PROVE  /\ \A j, k \in 1..n : Touching(res, mode, j, k) <=> Meet(rs, mode, j, k)
           /\ Touchable(res, mode, n)
<1>1. ASSUME NEW j \in 1..n, NEW k \in 1..n PROVE Touching(res, mode, j, k) <=> Meet(rs, mode, j, k)
  <2>1. res[j].row = rs[j] /\ res[k].row = rs[k]
    BY DEF RowsOf
  <2>2. rs[j].s # Unbounded /\ rs[j].e # Unbounded /\ rs[k].s # Unbounded /\ rs[k].e # Unbounded
    BY DEF Lined
  <2> QED
    BY <2>1, <2>2 DEF Touching, Meet, RangeOverlaps
<1>2. ASSUME NEW j \in 1..n PROVE Meet(rs, mode, j, j)
  BY DEF Meet, Lined
<1>3. ASSUME NEW j \in 1..n, NEW k \in 1..n, Meet(rs, mode, j, k) PROVE Meet(rs, mode, k, j)
  BY <1>3 DEF Meet
<1> QED
  BY <1>1, <1>2, <1>3 DEF Touchable

LEMMA MeetSame ==
    ASSUME NEW rs, NEW n, Lined(rs, n), NEW mode, NEW j \in 1..n, NEW k \in 1..n, Meet(rs, mode, j, k)
    PROVE  sessionId(rs, j, mode) = sessionId(rs, k, mode)
<1>0. n \in Nat
  BY DEF Lined
<1>1. CASE j <= k
  <2>1. \A m \in 1..n : j < m /\ m <= k => ~newSession(rs, m, mode)
    BY MeetTogether
  <2> QED
    BY <1>0, <1>1, <2>1, SameSession
<1>2. CASE ~(j <= k)
  <2>1. k <= j /\ Meet(rs, mode, k, j)
    BY <1>2 DEF Meet
  <2>2. \A m \in 1..n : k < m /\ m <= j => ~newSession(rs, m, mode)
    BY <2>1, MeetTogether
  <2> QED
    BY <1>0, <2>1, <2>2, SameSession
<1> QED
  BY <1>1, <1>2

\* A chain stays in a session.
LEMMA ChainsSame ==
    ASSUME NEW rs, NEW n, Lined(rs, n), NEW res, RowsOf(res, rs, n), NEW mode,
           NEW R, Hops(R, res, mode, n, n)
    PROVE  \A i, k : <<i, k>> \in R[n] => i \in 1..n /\ sessionId(rs, i, mode) = sessionId(rs, k, mode)
<1>0. n \in Nat
  BY DEF Lined
<1>a. NoHop(R, n)
  BY <1>0, HopNone
<1>b. \A x \in Nat : x + 1 <= n => LastHop(R, res, mode, n, x)
  BY <1>0, HopOn
<1>c. \A j, k \in 1..n : Touching(res, mode, j, k) => sessionId(rs, j, mode) = sessionId(rs, k, mode)
  BY TouchIsMeet, MeetSame
<1> DEFINE P(h) == \A i, k : <<i, k>> \in R[h] => i \in 1..n /\ sessionId(rs, i, mode) = sessionId(rs, k, mode)
           S == {h \in Nat : h <= n => P(h)}
<1>1. 0 \in S
  BY <1>a DEF NoHop
<1>2. ASSUME NEW h \in Nat, h \in S PROVE h + 1 \in S
  <2> SUFFICES ASSUME h + 1 <= n, NEW i, NEW k, <<i, k>> \in R[h + 1]
               PROVE  i \in 1..n /\ sessionId(rs, i, mode) = sessionId(rs, k, mode)
    OBVIOUS
  <2>1. PICK l \in 1..n : <<i, l>> \in R[h] /\ Touching(res, mode, l, k) /\ k \in 1..n
    BY <1>b DEF LastHop
  <2>2. P(h)
    BY <1>0, <1>2
  <2>3. i \in 1..n /\ sessionId(rs, i, mode) = sessionId(rs, l, mode)
    BY <2>1, <2>2
  <2> QED
    BY <1>c, <2>1, <2>3
<1>3. \A h \in Nat : h \in S => h + 1 \in S
  BY <1>2
<1> HIDE DEF S
<1>4. Nat \subseteq S
  BY <1>1, <1>3, NatSet
<1>5. n \in S
  BY <1>0, <1>4
<1> QED
  BY <1>0, <1>5 DEF S

\* Rows of a session are joined by a chain.
LEMMA SessionChained ==
    ASSUME NEW rs, NEW n, Lined(rs, n), NEW res, RowsOf(res, rs, n), NEW mode,
           NEW R, Hops(R, res, mode, n, n)
    PROVE  \A k \in 1..n : \A i \in 1..n :
             i <= k /\ sessionId(rs, i, mode) = sessionId(rs, k, mode) => <<i, k>> \in R[k - i + 1]
<1>0. n \in Nat
  BY DEF Lined
<1>a. NoHop(R, n)
  BY <1>0, HopNone
<1>b. ASSUME NEW h \in Nat, h + 1 <= n, NEW i \in 1..n, NEW l \in 1..n, NEW k \in 1..n,
             <<i, l>> \in R[h], Meet(rs, mode, l, k)
      PROVE  <<i, k>> \in R[h + 1]
  <2>1. LastHop(R, res, mode, n, h)
    BY <1>0, <1>b, HopOn
  <2>2. Touching(res, mode, l, k)
    BY <1>b, TouchIsMeet
  <2> QED
    BY <1>b, <2>1, <2>2 DEF LastHop
<1>c. Touchable(res, mode, n)
  BY TouchIsMeet
<1>d. \A i \in 1..n : Meet(rs, mode, i, i)
  BY DEF Meet, Lined
<1> DEFINE Q(m) == \A i \in 1..n : i <= m /\ sessionId(rs, i, mode) = sessionId(rs, m, mode) => <<i, m>> \in R[m - i + 1]
           S == {k \in Nat : \A m \in 1..n : m <= k => Q(m)}
<1>1. 0 \in S
  OBVIOUS
<1>2. ASSUME NEW k \in Nat, k \in S PROVE k + 1 \in S
  <2>1. ASSUME k + 1 \in 1..n, NEW i \in 1..n, i <= k + 1,
               sessionId(rs, i, mode) = sessionId(rs, k + 1, mode)
        PROVE  <<i, k + 1>> \in R[(k + 1) - i + 1]
    <3> DEFINE m == k + 1
    <3>1. m \in 1..n /\ m \in Nat /\ i \in Nat /\ i >= 1 /\ i <= m
      BY <1>0, <2>1
    <3>2. \A x \in 1..n : x <= k => Q(x)
      BY <1>2
    <3>3. \A x \in 1..n : x < m => x <= k
      OBVIOUS
    <3>4. sessionId(rs, i, mode) = sessionId(rs, m, mode)
      BY <2>1
    <3> HIDE DEF m
    <3>5. CASE i = m
      <4>1. <<i, i>> \in R[0]
        BY <1>a DEF NoHop
      <4>2. 0 + 1 <= n /\ m - i + 1 = 0 + 1
        BY <1>0, <3>1, <3>5
      <4>3. <<i, i>> \in R[0 + 1]
        BY <1>b, <1>d, <4>1, <4>2
      <4>4. <<i, m>> \in R[m - i + 1]
        BY <3>5, <4>2, <4>3
      <4> QED
        BY <4>4 DEF m
    <3>6. CASE i < m
      <4>1. \A x \in 1..n : i < x /\ x <= m => ~newSession(rs, x, mode)
        BY <1>0, <3>1, <3>4, SameSession
      <4>2. ~newSession(rs, m, mode)
        BY <3>1, <3>6, <4>1
      <4>3. PICK l \in 1..n : /\ l < m /\ Meet(rs, mode, l, m)
                              /\ \A x \in 1..n : l < x /\ x < m => Meet(rs, mode, x, l)
        BY <3>1, <4>2, MeetsEarlier
      <4>4. l \in Nat /\ l >= 1 /\ m <= n
        BY <1>0, <3>1
      <4>5. CASE i <= l
        <5>1. \A x \in 1..n : i < x /\ x <= l => ~newSession(rs, x, mode)
          BY <4>1, <4>3, <3>1, <4>4
        <5>2. sessionId(rs, i, mode) = sessionId(rs, l, mode)
          BY <1>0, <4>5, <5>1, SameSession
        <5>3. <<i, l>> \in R[l - i + 1]
          BY <3>2, <3>3, <4>3, <4>5, <5>2
        <5>4. PICK h \in Nat : h = l - i + 1 /\ h + 1 <= n /\ h + 1 <= m - i + 1 /\ m - i + 1 <= n
          BY <1>0, <3>1, <4>3, <4>4, <4>5
        <5>5. <<i, m>> \in R[h + 1]
          BY <1>b, <3>1, <4>3, <5>3, <5>4
        <5>6. m - i + 1 \in Nat /\ h + 1 \in Nat
          BY <3>1
        <5>7. <<i, m>> \in R[m - i + 1]
          BY <1>0, <1>c, <5>4, <5>5, <5>6, HopsGrow
        <5> QED
          BY <5>7 DEF m
      <4>6. CASE l < i
        <5>1. Meet(rs, mode, i, l)
          BY <3>6, <4>3, <4>6
        <5>2. <<i, i>> \in R[0]
          BY <1>a DEF NoHop
        <5>3. 0 + 1 <= n /\ 1 \in Nat /\ 1 + 1 <= n /\ 1 + 1 <= m - i + 1 /\ m - i + 1 <= n /\ m - i + 1 \in Nat /\ 1 + 1 \in Nat
          BY <1>0, <3>1, <3>6, <4>4, <4>6
        <5>4. <<i, l>> \in R[1]
          <6>1. <<i, l>> \in R[0 + 1]
            BY <1>b, <5>1, <5>2, <5>3
          <6> QED
            BY <6>1
        <5>5. <<i, m>> \in R[1 + 1]
          BY <1>b, <3>1, <4>3, <5>3, <5>4
        <5>6. <<i, m>> \in R[m - i + 1]
          BY <1>0, <1>c, <5>3, <5>5, HopsGrow
        <5> QED
          BY <5>6 DEF m
      <4> QED
        BY <3>1, <4>4, <4>5, <4>6
    <3>7. i = m \/ i < m
      BY <3>1
    <3> QED
      BY <3>5, <3>6, <3>7
  <2>2. ASSUME NEW m \in 1..n, m <= k + 1 PROVE Q(m)
    <3>1. CASE m <= k
      BY <1>2, <3>1
    <3>2. CASE m = k + 1
      BY <2>1, <3>2
    <3> QED
      BY <1>0, <2>2, <3>1, <3>2
  <2> QED
    BY <2>2
<1>3. \A k \in Nat : k \in S => k + 1 \in S
  BY <1>2
<1> HIDE DEF S
<1>4. Nat \subseteq S
  BY <1>1, <1>3, NatSet
<1>5. n \in S
  BY <1>0, <1>4
<1>6. \A m \in 1..n : m <= n
  BY <1>0
<1> QED
  BY <1>5, <1>6 DEF S

LEMMA ChainIsSession ==
    ASSUME NEW rs, NEW n, Lined(rs, n), NEW res, RowsOf(res, rs, n), NEW mode,
           NEW R, Hops(R, res, mode, n, n), NEW i \in 1..n, NEW k \in 1..n
    PROVE  <<i, k>> \in R[n] <=> sessionId(rs, i, mode) = sessionId(rs, k, mode)
<1>0. n \in Nat /\ i \in Nat /\ k \in Nat /\ i >= 1 /\ k >= 1 /\ i <= n /\ k <= n
  BY DEF Lined
<1>1. <<i, k>> \in R[n] => sessionId(rs, i, mode) = sessionId(rs, k, mode)
  BY ChainsSame
<1>2. Touchable(res, mode, n)
  BY TouchIsMeet
<1>3. ASSUME NEW a \in 1..n, NEW b \in 1..n, a <= b, sessionId(rs, a, mode) = sessionId(rs, b, mode)
      PROVE  <<a, b>> \in R[n]
  <2>1. PICK h \in Nat : h = b - a + 1 /\ h <= n
    BY <1>0, <1>3
  <2>2. <<a, b>> \in R[h]
    BY <1>3, <2>1, SessionChained
  <2> QED
    BY <1>0, <1>2, <2>1, <2>2, HopsGrow
<1>4. ASSUME sessionId(rs, i, mode) = sessionId(rs, k, mode) PROVE <<i, k>> \in R[n]
  <2>1. CASE i <= k
    BY <1>3, <1>4, <2>1
  <2>2. CASE k <= i
    <3>1. <<k, i>> \in R[n]
      BY <1>3, <1>4, <2>2
    <3>2. \A a, c : <<a, c>> \in R[n] => <<c, a>> \in R[n]
      BY <1>0, <1>2, HopsBack
    <3> QED
      BY <3>1, <3>2
  <2> QED
    BY <1>0, <2>1, <2>2
<1> QED
  BY <1>1, <1>4

IsSession(merged, rs, n, mode, k) ==
  merged = {j \in 1..n : sessionId(rs, j, mode) = sessionId(rs, k, mode)}

\* The range of a session is what its rows cover, and no error.
LEMMA SessionRangeIs ==
    ASSUME NEW rs, NEW n, Lined(rs, n), NEW mode, NEW k \in 1..n,
           NEW merged, IsSession(merged, rs, n, mode, k)
    PROVE  sessionRange(rs, k, mode) = [s |-> Least({rs[j].s : j \in merged}),
                                        e |-> Greatest({rs[j].e : j \in merged})]
<1> DEFINE fs == [j \in merged |-> rs[j].s]
           fe == [j \in merged |-> rs[j].e]
           starts == {rs[j].s : j \in merged}
           ends == {rs[j].e : j \in merged}
<1>0. n \in Nat /\ merged = {j \in 1..n : sessionId(rs, j, mode) = sessionId(rs, k, mode)}
  BY DEF Lined, IsSession
<1>1. sessionRange(rs, k, mode) = RANGE(Least(starts), Greatest(ends))
  BY <1>0 DEF sessionRange, Lined
<1>2. IsFiniteSet(merged)
  <2>1. IsFiniteSet(1..n) /\ merged \in SUBSET (1..n)
    BY <1>0, FS_Interval
  <2> QED
    BY <2>1, FS_Subset
<1>3. starts = {fs[j] : j \in merged} /\ ends = {fe[j] : j \in merged}
  OBVIOUS
<1>4. starts \subseteq Int /\ ends \subseteq Int
  BY <1>0 DEF Lined
<1>5. rs[k].s \in starts /\ rs[k].e \in ends /\ rs[k].s < rs[k].e
  BY <1>0 DEF Lined
<1> HIDE DEF fs, fe, starts, ends
<1>6. IsFiniteSet(starts) /\ IsFiniteSet(ends)
  BY <1>2, <1>3, FiniteImage
<1>7. Least(starts) \in Int /\ Least(starts) <= rs[k].s
  BY <1>4, <1>5, <1>6, LeastGreatest
<1>8. Greatest(ends) \in Int /\ rs[k].e <= Greatest(ends)
  BY <1>4, <1>5, <1>6, LeastGreatest
<1>9. rs[k].s \in Int /\ rs[k].e \in Int
  BY <1>4, <1>5
<1>10. Least(starts) < Greatest(ends)
  BY <1>5, <1>7, <1>8, <1>9
<1>11. sessionRange(rs, k, mode) = [s |-> Least(starts), e |-> Greatest(ends)]
  BY <1>1, <1>10 DEF RANGE
<1> QED
  BY <1>11 DEF starts, ends

LEMMA SessionsHold == RangesAre => SessionsConnected
<1> SUFFICES ASSUME RangesAre, \A r \in Table : Bounded(r), NEW mode \in {"MEETS", "OVERLAPS"}
             PROVE  LET result == RangeSessionize(ranges, mode)
                        n == Len(result)
                        reach == CHOOSE R : Hops(R, result, mode, n, n)
                        mates(k) == {result[j].row : j \in {i \in 1..n : <<i, k>> \in reach[n]}}
                    IN  \A k \in 1..n :
                          result[k].session = [s |-> Least({r.s : r \in mates(k)}),
                                               e |-> Greatest({r.e : r \in mates(k)})]
  BY DEF SessionsConnected, Hops, Touching
<1> DEFINE result == RangeSessionize(ranges, mode)
           n == Len(result)
           reach == CHOOSE R : Hops(R, result, mode, n, n)
           rs == extracted(ranges)
           mates(k) == {result[j].row : j \in {i \in 1..n : <<i, k>> \in reach[n]}}
           merged(k) == {j \in 1..n : sessionId(rs, j, mode) = sessionId(rs, k, mode)}
<1>1. PICK len \in Nat : DOMAIN ranges = 1..len
  BY DEF RangesAre
<1>2. \A i \in 1..len : ranges[i].s \in Int /\ ranges[i].e \in Int /\ ranges[i].s < ranges[i].e
  <2>1. ASSUME NEW i \in 1..len PROVE ranges[i].s \in Int /\ ranges[i].e \in Int /\ ranges[i].s < ranges[i].e
    <3>1. IsRange(ranges[i])
      BY <1>1 DEF RangesAre
    <3>2. ranges[i] \in Table
      BY <1>1 DEF Table, ToSet
    <3> QED
      BY <3>1, <3>2 DEF IsRange, Ends, Bounded
  <2> QED
    BY <2>1
<1> HIDE DEF result, n, reach, rs, mates, merged
<1>3. Lined(rs, len)
  BY <1>1, <1>2, ExtractedLined DEF rs
<1>4. result = [i \in 1..len |-> [row |-> rs[i], session |-> sessionRange(rs, i, mode)]]
  BY <1>3 DEF RangeSessionize, Lined, result, rs
<1>5. n = len
  <2>1. DOMAIN result = 1..len
    BY <1>4
  <2> QED
    BY <1>1, <2>1 DEF n
<1>6. RowsOf(result, rs, n)
  BY <1>4, <1>5 DEF RowsOf
<1>7. Hops(reach, result, mode, n, n)
  <2>1. \E R : Hops(R, result, mode, n, n)
    BY <1>5, HopsExist
  <2> QED
    BY <2>1 DEF reach
<1>8. ASSUME NEW k \in 1..n
      PROVE  result[k].session = [s |-> Least({r.s : r \in mates(k)}),
                                  e |-> Greatest({r.e : r \in mates(k)})]
  <2>1. \A i \in 1..n : <<i, k>> \in reach[n] <=> i \in merged(k)
    BY <1>3, <1>5, <1>6, <1>7, ChainIsSession DEF merged
  <2>2. {i \in 1..n : <<i, k>> \in reach[n]} = merged(k)
    <3>1. merged(k) \subseteq 1..n
      BY DEF merged
    <3> QED
      BY <2>1, <3>1
  <2>3. \A j \in merged(k) : result[j].row = rs[j]
    BY <1>6 DEF RowsOf, merged
  <2>4. mates(k) = {rs[j] : j \in merged(k)}
    BY <2>2, <2>3 DEF mates
  <2>5. {r.s : r \in mates(k)} = {rs[j].s : j \in merged(k)} /\ {r.e : r \in mates(k)} = {rs[j].e : j \in merged(k)}
    BY <2>4
  <2>6. result[k].session = sessionRange(rs, k, mode)
    BY <1>4, <1>5
  <2>7. sessionRange(rs, k, mode) = [s |-> Least({rs[j].s : j \in merged(k)}),
                                     e |-> Greatest({rs[j].e : j \in merged(k)})]
    <3>1. Lined(rs, n)
      BY <1>3, <1>5
    <3>2. IsSession(merged(k), rs, n, mode, k)
      BY DEF merged, IsSession
    <3> QED
      BY <3>1, <3>2, SessionRangeIs
  <2> QED
    BY <2>5, <2>6, <2>7
<1> QED
  BY <1>8 DEF result, n, reach, mates

\* RANGE_OVERLAPS, RANGE_INTERSECT, RANGE_CONTAINS, GENERATE_RANGE_ARRAY and
\* RANGE_SESSIONIZE treat a range as the set of its elements, for tables of any
\* size with bounds from any finite set of integers.
THEOREM RangesAreSets == RangeSpec => []RangesAsSets
<1>1. RangeInit => RangesAre
  BY DEF RangeInit, RangesAre
<1>2. RangesAre /\ [RangeNext]_rangeVars => RangesAre'
  BY RangesStay
<1>3. RangesAre => RangesAsSets
  BY RelationsHold, PiecesHold, SessionsHold DEF RangesAsSets
<1> QED
  BY <1>1, <1>2, <1>3, PTL DEF RangeSpec

-----------------------------------------------------------------------------
(* Folds over sequences.                                                   *)
HIDE PointsAssumption

\* The largest of a set of numbers.
LEMMA MaxTop ==
    ASSUME NEW m \in Nat, NEW s \in SUBSET (1..m), m \in s
    PROVE  Max(s) = m
<1>1. m \in s /\ \A y \in s : m >= y
  OBVIOUS
<1>2. \A x \in s : (\A y \in s : x >= y) => x = m
  OBVIOUS
<1> QED
  BY <1>1, <1>2 DEF Max

LEMMA MaxIn ==
    ASSUME NEW m \in Nat, NEW s \in SUBSET (1..m), s # {}
    PROVE  Max(s) \in s
<1>1. IsFiniteSet(s)
  <2>1. IsFiniteSet(1..m)
    BY FS_Interval
  <2> QED
    BY <2>1, FS_Subset
<1>2. s \subseteq Int
  OBVIOUS
<1>3. \E x \in s : \A y \in s : y <= x
  BY <1>1, <1>2, Extremes
<1>4. \E x \in s : \A y \in s : x >= y
  <2>1. PICK x \in s : \A y \in s : y <= x
    BY <1>3
  <2>2. \A y \in s : x >= y
    BY <1>2, <2>1
  <2> QED
    BY <2>2
<1> QED
  BY <1>4 DEF Max

\* The bodies of the loops over rows and values: aggMinMax, sort.Slice and
\* replayHaving; Step and Inverse of the window aggregators over the rows that
\* enter and leave a frame, and the non-NULL values of a frame.
Pick(picked, v, wantMin) ==
  IF v # NullValue /\ (picked = NullValue \/ (IF wantMin THEN LT(v, picked) ELSE GT(v, picked)))
  THEN v ELSE picked
Replay(b, r, best) == IF AtBest(r, best) THEN process(b, r) ELSE b
Keep(held, v) == IF v = Null THEN held ELSE Append(held, v)
Body(loop, c, acc, x) == CASE loop = "pick"  -> Pick(acc, x, c)
                           [] loop = "slide" -> Slide(acc, x)
                           [] loop = "enter" -> StepRow(acc, x)
                           [] loop = "leave" -> InverseRow(acc, x)
                           [] loop = "keep"  -> Keep(acc, x)
                           [] OTHER          -> Replay(acc, x, c)
Folds(f, loop, c, base, seq, m) ==
  f = [s \in SUBSET (1..m) |-> IF s = {} THEN base
                               ELSE Body(loop, c, f[s \ {Max(s)}], seq[Max(s)])]

LEMMA FoldsExist ==
    ASSUME NEW loop, NEW c, NEW base, NEW seq, NEW n \in Nat
    PROVE  \E f : Folds(f, loop, c, base, seq, n)
<1> DEFINE S == {m \in Nat : \E f : Folds(f, loop, c, base, seq, m)}
<1>1. 0 \in S
  <2> DEFINE f == [s \in SUBSET (1..0) |-> base]
  <2>1. \A s \in SUBSET (1..0) : s = {}
    OBVIOUS
  <2>2. Folds(f, loop, c, base, seq, 0)
    BY <2>1 DEF Folds
  <2> QED
    BY <2>2
<1>2. ASSUME NEW m \in Nat, m \in S PROVE m + 1 \in S
  <2>1. PICK f : Folds(f, loop, c, base, seq, m)
    BY <1>2
  <2> DEFINE g == [s \in SUBSET (1..(m + 1)) |->
                     IF s = {} THEN base
                     ELSE IF m + 1 \in s THEN Body(loop, c, f[s \ {m + 1}], seq[m + 1]) ELSE f[s]]
  <2>2. \A s \in SUBSET (1..m) : s \in SUBSET (1..(m + 1)) /\ m + 1 \notin s
    OBVIOUS
  <2>3. \A s \in SUBSET (1..m) : f[s] = IF s = {} THEN base ELSE Body(loop, c, f[s \ {Max(s)}], seq[Max(s)])
    BY <2>1 DEF Folds
  <2>4. \A s \in SUBSET (1..m) : g[s] = f[s]
    BY <2>2, <2>3
  <2>5. ASSUME NEW s \in SUBSET (1..(m + 1)), s # {}
        PROVE  g[s] = Body(loop, c, g[s \ {Max(s)}], seq[Max(s)])
    <3>1. CASE m + 1 \in s
      <4>1. Max(s) = m + 1
        BY <3>1, MaxTop
      <4>2. s \ {m + 1} \in SUBSET (1..m)
        OBVIOUS
      <4>3. g[s] = Body(loop, c, f[s \ {m + 1}], seq[m + 1])
        BY <2>5, <3>1
      <4> HIDE DEF g
      <4> QED
        BY <2>4, <4>1, <4>2, <4>3
    <3>2. CASE m + 1 \notin s
      <4>1. s \in SUBSET (1..m)
        BY <3>2
      <4>2. s \ {Max(s)} \in SUBSET (1..m)
        BY <4>1
      <4> HIDE DEF g
      <4> QED
        BY <2>3, <2>4, <2>5, <4>1, <4>2
    <3> QED
      BY <3>1, <3>2
  <2>6. g[{}] = base /\ {} \in SUBSET (1..(m + 1))
    OBVIOUS
  <2>7. g = [s \in SUBSET (1..(m + 1)) |-> g[s]]
    OBVIOUS
  <2> HIDE DEF g
  <2>8. \A s \in SUBSET (1..(m + 1)) :
          g[s] = IF s = {} THEN base ELSE Body(loop, c, g[s \ {Max(s)}], seq[Max(s)])
    BY <2>5, <2>6
  <2>9. Folds(g, loop, c, base, seq, m + 1)
    BY <2>7, <2>8 DEF Folds
  <2> QED
    BY <2>9
<1>3. \A m \in Nat : m \in S => m + 1 \in S
  BY <1>2
<1> HIDE DEF S
<1>4. Nat \subseteq S
  BY <1>1, <1>3, NatSet
<1>5. n \in S
  BY <1>4
<1> QED
  BY <1>5 DEF S

\* The accumulator after k elements.
LoopOf(S, loop, c, base, seq, n) == /\ S[0] = base
                                    /\ \A k \in 1..n : S[k] = Body(loop, c, S[k - 1], seq[k])

LEMMA FoldsLoop ==
    ASSUME NEW n \in Nat, NEW loop, NEW c, NEW base, NEW seq, NEW f, Folds(f, loop, c, base, seq, n)
    PROVE  \E S : LoopOf(S, loop, c, base, seq, n) /\ S[n] = f[1..n]
<1> DEFINE S == [k \in 0..n |-> f[1..k]]
<1>1. \A s \in SUBSET (1..n) : f[s] = IF s = {} THEN base ELSE Body(loop, c, f[s \ {Max(s)}], seq[Max(s)])
  BY DEF Folds
<1>2. f[1..0] = base
  <2>1. 1..0 = {} /\ {} \in SUBSET (1..n)
    OBVIOUS
  <2> QED
    BY <1>1, <2>1
<1>3. ASSUME NEW k \in 1..n PROVE f[1..k] = Body(loop, c, f[1..(k - 1)], seq[k])
  <2>1. 1..k \in SUBSET (1..n) /\ 1..k # {} /\ k \in Nat /\ 1..k \in SUBSET (1..k) /\ k \in 1..k
    OBVIOUS
  <2>2. Max(1..k) = k
    BY <2>1, MaxTop
  <2>3. (1..k) \ {k} = 1..(k - 1)
    OBVIOUS
  <2> QED
    BY <1>1, <2>1, <2>2, <2>3
<1>4. S[0] = f[1..0] /\ S[n] = f[1..n] /\ \A k \in 1..n : S[k] = f[1..k] /\ S[k - 1] = f[1..(k - 1)]
  OBVIOUS
<1> HIDE DEF S
<1>5. LoopOf(S, loop, c, base, seq, n)
  BY <1>2, <1>3, <1>4 DEF LoopOf
<1> QED
  BY <1>4, <1>5

LEMMA MinMaxLoop ==
    ASSUME NEW n \in Nat, NEW vs, DOMAIN vs = 1..n, NEW wantMin
    PROVE  \E S : LoopOf(S, "pick", wantMin, NullValue, vs, n) /\ aggMinMax(vs, wantMin) = S[n]
<1> DEFINE Is(f) == f = [s \in SUBSET (1..n) |-> IF s = {} THEN NullValue
                                                 ELSE Pick(f[s \ {Max(s)}], vs[Max(s)], wantMin)]
           f == CHOOSE f : Is(f)
<1>1. aggMinMax(vs, wantMin) = f[1..n]
  BY DEF aggMinMax, FoldLeft, MapThenFoldSet, Pick
<1>2. \A a, x : Body("pick", wantMin, a, x) = Pick(a, x, wantMin)
  BY DEF Body
<1>3. ASSUME NEW g PROVE Is(g) <=> Folds(g, "pick", wantMin, NullValue, vs, n)
  BY <1>2 DEF Folds
<1> HIDE DEF Is
<1>4. \E g : Is(g)
  BY <1>3, FoldsExist
<1>5. Is(f)
  BY <1>4
<1> HIDE DEF f
<1> QED
  BY <1>1, <1>3, <1>5, FoldsLoop

LEMMA SlideLoop ==
    ASSUME NEW n \in Nat, NEW list, DOMAIN list = 1..n
    PROVE  \E S : LoopOf(S, "slide", 0, <<>>, list, n) /\ FoldLeft(Slide, <<>>, list) = S[n]
<1> DEFINE Is(f) == f = [s \in SUBSET (1..n) |-> IF s = {} THEN <<>>
                                                 ELSE Slide(f[s \ {Max(s)}], list[Max(s)])]
           f == CHOOSE f : Is(f)
<1>1. FoldLeft(Slide, <<>>, list) = f[1..n]
  BY DEF FoldLeft, MapThenFoldSet
<1>2. \A a, x : Body("slide", 0, a, x) = Slide(a, x)
  BY DEF Body
<1>3. ASSUME NEW g PROVE Is(g) <=> Folds(g, "slide", 0, <<>>, list, n)
  BY <1>2 DEF Folds
<1> HIDE DEF Is
<1>4. \E g : Is(g)
  BY <1>3, FoldsExist
<1>5. Is(f)
  BY <1>4
<1> HIDE DEF f
<1> QED
  BY <1>1, <1>3, <1>5, FoldsLoop

LEMMA ReplayLoop ==
    ASSUME NEW n \in Nat, NEW a, DOMAIN a.having = 1..n, NEW best, best = bestKey(a.having, call.having = "MIN")
    PROVE  \E S : /\ LoopOf(S, "replay", best, [a EXCEPT !.having = <<>>], a.having, n)
                  /\ replayHaving(a) = S[n]
<1> DEFINE base == [a EXCEPT !.having = <<>>]
           Is(f) == f = [s \in SUBSET (1..n) |-> IF s = {} THEN base
                                                 ELSE Replay(f[s \ {Max(s)}], a.having[Max(s)], best)]
           f == CHOOSE f : Is(f)
<1>1. replayHaving(a) = f[1..n]
  BY DEF replayHaving, FoldLeft, MapThenFoldSet, Replay
<1>2. \A b, x : Body("replay", best, b, x) = Replay(b, x, best)
  BY DEF Body
<1> HIDE DEF base
<1>3. ASSUME NEW g PROVE Is(g) <=> Folds(g, "replay", best, base, a.having, n)
  <2>1. \A s : Body("replay", best, g[s \ {Max(s)}], a.having[Max(s)]) = Replay(g[s \ {Max(s)}], a.having[Max(s)], best)
    BY <1>2
  <2> QED
    BY <2>1, Zenon DEF Folds
<1> HIDE DEF Is
<1>4. \E g : Is(g)
  BY <1>3, FoldsExist
<1>5. Is(f)
  BY <1>4
<1> HIDE DEF f
<1> QED
  BY <1>1, <1>3, <1>5, FoldsLoop DEF base

-----------------------------------------------------------------------------
(* The extreme of a set of integers.                                       *)

Top(m, W, low) == IF W = {} THEN m = NullValue
                  ELSE m \in W /\ \A w \in W : IF low THEN m <= w ELSE w <= m

Picked(x, m, v, low) == x = IF m = NullValue \/ (IF low THEN v < m ELSE v > m) THEN v ELSE m

LEMMA TopNext ==
    ASSUME NEW W, W \subseteq Int, NEW low \in BOOLEAN, NEW m, Top(m, W, low), NEW v \in Int,
           NEW x, Picked(x, m, v, low)
    PROVE  Top(x, W \cup {v}, low)
<1>1. CASE W = {}
  BY <1>1 DEF Top, Picked
<1>2. CASE W # {}
  <2>1. m \in W /\ m \in Int /\ \A w \in W : IF low THEN m <= w ELSE w <= m
    BY <1>2 DEF Top
  <2>2. m # NullValue
    BY <2>1, CallsAssumption
  <2>3. CASE ~low
    <3>1. CASE v > m
      <4>1. \A w \in W : w <= v
        BY <2>1, <2>3, <3>1
      <4> QED
        BY <2>3, <3>1, <4>1 DEF Top, Picked
    <3>2. CASE ~(v > m)
      BY <2>1, <2>2, <2>3, <3>2 DEF Top, Picked
    <3> QED
      BY <3>1, <3>2
  <2>4. CASE low
    <3>1. CASE v < m
      <4>1. \A w \in W : v <= w
        BY <2>1, <2>4, <3>1
      <4> QED
        BY <2>4, <3>1, <4>1 DEF Top, Picked
    <3>2. CASE ~(v < m)
      BY <2>1, <2>2, <2>4, <3>2 DEF Top, Picked
    <3> QED
      BY <3>1, <3>2
  <2> QED
    BY <2>3, <2>4
<1> QED
  BY <1>1, <1>2

\* The comparisons of integers.
LEMMA IntGT ==
    ASSUME NEW x \in Int, NEW y \in Int
    PROVE  /\ GT(x, y) <=> x > y
           /\ LT(x, y) <=> x < y
           /\ EQ(x, y) <=> x = y
BY CallsAssumption DEF GT, LT, EQ

\* aggMinMax without NaN.
LEMMA MinMaxIs ==
    ASSUME NEW n \in Nat, NEW vs, DOMAIN vs = 1..n, \A k \in 1..n : vs[k] \in Int \cup {NullValue},
           NEW wantMin \in BOOLEAN
    PROVE  Top(aggMinMax(vs, wantMin), {vs[k] : k \in 1..n} \ {NullValue}, wantMin)
<1>1. PICK S : LoopOf(S, "pick", wantMin, NullValue, vs, n) /\ aggMinMax(vs, wantMin) = S[n]
  BY MinMaxLoop
<1> DEFINE W(k) == {vs[j] : j \in 1..k} \ {NullValue}
           T == {k \in Nat : k <= n => Top(S[k], W(k), wantMin)}
<1>2. 0 \in T
  BY <1>1 DEF LoopOf, Top
<1>3. ASSUME NEW k \in Nat, k \in T PROVE k + 1 \in T
  <2> SUFFICES ASSUME k + 1 <= n PROVE Top(S[k + 1], W(k + 1), wantMin)
    OBVIOUS
  <2>1. Top(S[k], W(k), wantMin)
    BY <1>3
  <2>2. k + 1 \in 1..n /\ (k + 1) - 1 = k
    OBVIOUS
  <2>3. S[k + 1] = Pick(S[k], vs[k + 1], wantMin)
    BY <1>1, <2>2 DEF LoopOf, Body
  <2>4. W(k) \subseteq Int
    <3>1. \A j \in 1..k : j \in 1..n
      OBVIOUS
    <3> QED
      BY <3>1
  <2>5. W(k + 1) = W(k) \cup ({vs[k + 1]} \ {NullValue})
    <3>1. \A j : j \in 1..(k + 1) <=> j \in 1..k \/ j = k + 1
      OBVIOUS
    <3> QED
      BY <3>1
  <2> HIDE DEF W
  <2>6. CASE vs[k + 1] = NullValue
    <3>1. S[k + 1] = S[k] /\ W(k + 1) = W(k)
      BY <2>3, <2>5, <2>6 DEF Pick
    <3> QED
      BY <2>1, <3>1
  <2>7. CASE vs[k + 1] # NullValue
    <3>1. PICK v \in Int : v = vs[k + 1]
      BY <2>2, <2>7
    <3>2. S[k] = NullValue \/ S[k] \in Int
      BY <2>1, <2>4 DEF Top
    <3>3. S[k] \in Int => (GT(v, S[k]) <=> v > S[k]) /\ (LT(v, S[k]) <=> v < S[k])
      BY IntGT
    <3>4. Picked(S[k + 1], S[k], v, wantMin)
      BY <2>3, <2>7, <3>1, <3>2, <3>3 DEF Pick, Picked
    <3>5. W(k + 1) = W(k) \cup {v}
      BY <2>5, <2>7, <3>1
    <3> QED
      BY <2>1, <2>4, <3>4, <3>5, TopNext
  <2> QED
    BY <2>6, <2>7
<1>4. \A k \in Nat : k \in T => k + 1 \in T
  BY <1>3
<1> HIDE DEF T
<1>5. Nat \subseteq T
  BY <1>2, <1>4, NatSet
<1>6. n \in T
  BY <1>5
<1>7. Top(S[n], W(n), wantMin)
  BY <1>6 DEF T
<1> QED
  BY <1>1, <1>7

-----------------------------------------------------------------------------
(* Rows in the order of the group.                                         *)

\* q lists the numbers of I, from 1 to m, in increasing order.
Listed(q, m, I) == /\ m \in Nat /\ q \in [1..m -> I]
                   /\ \A i \in I : \E j \in 1..m : q[j] = i
                   /\ \A a, b \in 1..m : a < b => q[a] < q[b]

LEMMA ListedNone == Listed(<<>>, 0, {})
BY DEF Listed

ListedOn(p, q, m, I, i) == /\ Listed(p, m + 1, I \cup {i}) /\ p[m + 1] = i
                           /\ \A j \in 1..m : p[j] = q[j]

LEMMA ListedNext ==
    ASSUME NEW q, NEW m, NEW I, Listed(q, m, I), I \subseteq Int, NEW i \in Int, \A j \in I : j < i
    PROVE  \E p : ListedOn(p, q, m, I, i)
<1>0. m \in Nat /\ q \in [1..m -> I]
  BY DEF Listed
<1> DEFINE p == [j \in 1..(m + 1) |-> IF j = m + 1 THEN i ELSE q[j]]
<1>1. p[m + 1] = i /\ \A j \in 1..m : p[j] = q[j] /\ j \in 1..(m + 1)
  BY <1>0
<1>2. \A j \in 1..(m + 1) : j \in 1..m \/ j = m + 1
  BY <1>0
<1>3. p \in [1..(m + 1) -> I \cup {i}]
  BY <1>0, <1>2
<1> HIDE DEF p
<1>4. \A x \in I \cup {i} : \E j \in 1..(m + 1) : p[j] = x
  <2>1. m + 1 \in 1..(m + 1)
    BY <1>0
  <2>2. ASSUME NEW x \in I PROVE \E j \in 1..(m + 1) : p[j] = x
    <3>1. PICK j \in 1..m : q[j] = x
      BY DEF Listed
    <3> QED
      BY <1>1, <3>1
  <2> QED
    BY <1>1, <2>1, <2>2
<1>5. ASSUME NEW a \in 1..(m + 1), NEW b \in 1..(m + 1), a < b PROVE p[a] < p[b]
  <2>1. a \in 1..m
    BY <1>0, <1>5
  <2>2. CASE b = m + 1
    BY <1>0, <1>1, <2>1, <2>2
  <2>3. CASE b \in 1..m
    BY <1>1, <1>5, <2>1, <2>3 DEF Listed
  <2> QED
    BY <1>2, <2>2, <2>3
<1>6. Listed(p, m + 1, I \cup {i})
  BY <1>0, <1>3, <1>4, <1>5 DEF Listed
<1> QED
  BY <1>1, <1>6 DEF ListedOn

LEMMA ListedSize ==
    ASSUME NEW q, NEW m, NEW I, Listed(q, m, I), I \subseteq Int
    PROVE  IsFiniteSet(I) /\ Cardinality(I) = m /\ m \in Nat
<1>1. m \in Nat /\ q \in [1..m -> I] /\ \A i \in I : \E j \in 1..m : q[j] = i
  BY DEF Listed
<1>2. \A a, b \in 1..m : q[a] = q[b] => a = b
  <2>1. ASSUME NEW a \in 1..m, NEW b \in 1..m, q[a] = q[b] PROVE a = b
    <3>1. q[a] \in Int /\ q[b] \in Int
      BY <1>1
    <3>2. ~(q[a] < q[b]) /\ ~(q[b] < q[a])
      BY <2>1, <3>1
    <3>3. ~(a < b) /\ ~(b < a)
      BY <3>2 DEF Listed
    <3> QED
      BY <1>1, <3>3
  <2> QED
    BY <2>1
<1>3. q \in Bijection(1..m, I)
  <2>1. q \in Injection(1..m, I)
    BY <1>1, <1>2 DEF Injection, IsInjective
  <2>2. q \in Surjection(1..m, I)
    BY <1>1 DEF Surjection
  <2> QED
    BY <2>1, <2>2 DEF Bijection
<1>4. ExistsBijection(1..m, I)
  BY <1>3 DEF ExistsBijection
<1>5. IsFiniteSet(1..m) /\ Cardinality(1..m) = m
  BY <1>1, FS_Interval
<1> QED
  BY <1>1, <1>4, <1>5, FS_Bijection

\* s holds the rows of the group with the numbers of I, or their arguments.
RowsAt(s, I) == \E q, m : Listed(q, m, I) /\ s = [j \in 1..m |-> group[q[j]]]
ArgumentsAt(s, I) == \E q, m : Listed(q, m, I) /\ s = [j \in 1..m |-> group[q[j]].v]

LEMMA RowsNone == RowsAt(<<>>, {}) /\ ArgumentsAt(<<>>, {})
<1>1. <<>> = [j \in 1..0 |-> group[<<>>[j]]] /\ <<>> = [j \in 1..0 |-> group[<<>>[j]].v]
  OBVIOUS
<1> QED
  BY <1>1, ListedNone DEF RowsAt, ArgumentsAt

LEMMA RowsNext ==
    ASSUME NEW I, I \subseteq Int, NEW i \in Int, \A j \in I : j < i, NEW s
    PROVE  /\ RowsAt(s, I) => RowsAt(Append(s, group[i]), I \cup {i})
           /\ ArgumentsAt(s, I) => ArgumentsAt(Append(s, group[i].v), I \cup {i})
<1>1. ASSUME RowsAt(s, I) PROVE RowsAt(Append(s, group[i]), I \cup {i})
  <2>1. PICK q, m : Listed(q, m, I) /\ s = [j \in 1..m |-> group[q[j]]]
    BY <1>1 DEF RowsAt
  <2>0. PICK p : ListedOn(p, q, m, I, i)
    BY <2>1, ListedNext
  <2>2. Listed(p, m + 1, I \cup {i}) /\ p[m + 1] = i /\ \A j \in 1..m : p[j] = q[j]
    BY <2>0 DEF ListedOn
  <2>3. m \in Nat
    BY <2>1 DEF Listed
  <2>4. Append(s, group[i]) = [j \in 1..(m + 1) |-> IF j = m + 1 THEN group[i] ELSE s[j]]
    BY <2>1, <2>3
  <2>5. Append(s, group[i]) = [j \in 1..(m + 1) |-> group[p[j]]]
    BY <2>1, <2>2, <2>3, <2>4
  <2> QED
    BY <2>2, <2>5 DEF RowsAt
<1>2. ASSUME ArgumentsAt(s, I) PROVE ArgumentsAt(Append(s, group[i].v), I \cup {i})
  <2>1. PICK q, m : Listed(q, m, I) /\ s = [j \in 1..m |-> group[q[j]].v]
    BY <1>2 DEF ArgumentsAt
  <2>0. PICK p : ListedOn(p, q, m, I, i)
    BY <2>1, ListedNext
  <2>2. Listed(p, m + 1, I \cup {i}) /\ p[m + 1] = i /\ \A j \in 1..m : p[j] = q[j]
    BY <2>0 DEF ListedOn
  <2>3. m \in Nat
    BY <2>1 DEF Listed
  <2>4. Append(s, group[i].v) = [j \in 1..(m + 1) |-> IF j = m + 1 THEN group[i].v ELSE s[j]]
    BY <2>1, <2>3
  <2>5. Append(s, group[i].v) = [j \in 1..(m + 1) |-> group[p[j]].v]
    BY <2>1, <2>2, <2>3, <2>4
  <2> QED
    BY <2>2, <2>5 DEF ArgumentsAt
<1> QED
  BY <1>1, <1>2

-----------------------------------------------------------------------------
(* The functions of one argument, row by row.                              *)

\* A group of n rows without a deferred error.
Sound(n) ==
  /\ n \in Nat /\ DOMAIN group = 1..n /\ call \in Calls
  /\ \A i \in 1..n : /\ group[i].v \in Int \cup {NullValue, NaNValue}
                     /\ group[i].k \in Int \cup {NullValue, NaNValue}

Fields == {"count", "any", "max", "min", "nan", "array", "strings", "maxKey", "maxBy",
           "minKey", "minBy", "nanKey", "having", "seen", "measures"}

LEMMA NewFields == DOMAIN NewFunctions = Fields
BY DEF NewFunctions, Fields

\* The steps field by field.
LEMMA StepOneNull ==
    ASSUME NEW f, DOMAIN f = Fields, NEW r, r.v = NullValue
    PROVE  /\ DOMAIN StepOne(f, r) = Fields
           /\ StepOne(f, r).array = Append(f.array, r)
           /\ StepOne(f, r).count = f.count /\ StepOne(f, r).any = f.any
           /\ StepOne(f, r).nan = f.nan /\ StepOne(f, r).max = f.max /\ StepOne(f, r).min = f.min
           /\ StepOne(f, r).strings = f.strings
<1>1. StepOne(f, r) = [f EXCEPT !.array = Append(@, r)]
  BY DEF StepOne, StepArray
<1> QED
  BY <1>1 DEF Fields

LEMMA StepOneIs ==
    ASSUME NEW f, DOMAIN f = Fields, NEW r, r.v # NullValue
    PROVE  /\ DOMAIN StepOne(f, r) = Fields
           /\ StepOne(f, r).array = Append(f.array, r)
           /\ StepOne(f, r).count = f.count + 1
           /\ StepOne(f, r).any = IF f.any = NullValue THEN r.v ELSE f.any
           /\ StepOne(f, r).nan = (f.nan \/ r.v = NaNValue)
           /\ StepOne(f, r).max = IF r.v = NaNValue \/ (f.max # NullValue /\ ~GT(r.v, f.max)) THEN f.max ELSE r.v
           /\ StepOne(f, r).min = IF r.v = NaNValue \/ (f.min # NullValue /\ ~LT(r.v, f.min)) THEN f.min ELSE r.v
           /\ StepOne(f, r).strings = Append(f.strings, r)
<1> DEFINE f1 == StepArray(f, r)
           f2 == StepCount(f1)
           f3 == StepAny(f2, r.v)
           f4 == StepString(f3, r)
           f5 == StepMax(f4, r.v)
           f6 == StepMin(f5, r.v)
<1>0. StepOne(f, r) = f6
  BY DEF StepOne
<1>1. DOMAIN f1 = Fields /\ f1.array = Append(f.array, r) /\ \A x \in Fields \ {"array"} : f1[x] = f[x]
  BY DEF StepArray, Fields
<1> HIDE DEF f1
<1>2. DOMAIN f2 = Fields /\ f2.count = f1.count + 1 /\ \A x \in Fields \ {"count"} : f2[x] = f1[x]
  BY <1>1 DEF StepCount, Fields
<1> HIDE DEF f2
<1>3. /\ DOMAIN f3 = Fields /\ f3.any = IF f2.any = NullValue THEN r.v ELSE f2.any
      /\ \A x \in Fields \ {"any"} : f3[x] = f2[x]
  BY <1>2 DEF StepAny, Fields
<1> HIDE DEF f3
<1>4. DOMAIN f4 = Fields /\ f4.strings = Append(f3.strings, r) /\ \A x \in Fields \ {"strings"} : f4[x] = f3[x]
  BY <1>3 DEF StepString, Fields
<1> HIDE DEF f4
<1>5. /\ DOMAIN f5 = Fields
      /\ f5.nan = (f4.nan \/ r.v = NaNValue)
      /\ f5.max = IF r.v = NaNValue \/ (f4.max # NullValue /\ ~GT(r.v, f4.max)) THEN f4.max ELSE r.v
      /\ \A x \in Fields \ {"nan", "max"} : f5[x] = f4[x]
  BY <1>4 DEF StepMax, Fields
<1> HIDE DEF f5
<1>6. /\ DOMAIN f6 = Fields
      /\ f6.min = IF r.v = NaNValue \/ (f5.min # NullValue /\ ~LT(r.v, f5.min)) THEN f5.min ELSE r.v
      /\ \A x \in Fields \ {"min"} : f6[x] = f5[x]
  BY <1>5 DEF StepMin, Fields
<1> HIDE DEF f6
<1>7. f4.nan = f.nan /\ f4.max = f.max /\ f5.min = f.min
  BY <1>1, <1>2, <1>3, <1>4, <1>5 DEF Fields
<1>8. f6.array = Append(f.array, r) /\ f6.count = f.count + 1 /\ f6.strings = Append(f.strings, r)
  BY <1>1, <1>2, <1>3, <1>4, <1>5, <1>6 DEF Fields
<1>9. f6.any = IF f.any = NullValue THEN r.v ELSE f.any
  BY <1>1, <1>2, <1>3, <1>4, <1>5, <1>6 DEF Fields
<1>10. f6.nan = f5.nan /\ f6.max = f5.max
  BY <1>6 DEF Fields
<1> QED
  BY <1>0, <1>5, <1>6, <1>7, <1>8, <1>9, <1>10

\* f holds the results of the rows K.
Numbers(K) == ValuesIn(K) \ {NullValue, NaNValue}
ExactOne(f, K) ==
  /\ DOMAIN f = Fields
  /\ f.count = Cardinality(NonNull(K)) /\ IsFiniteSet(NonNull(K))
  /\ f.any \in ValuesIn(K) \cup {NullValue} /\ (f.any = NullValue <=> NonNull(K) = {})
  /\ f.nan \in BOOLEAN /\ (f.nan <=> NaNValue \in ValuesIn(K))
  /\ Top(f.max, Numbers(K), FALSE) /\ Top(f.min, Numbers(K), TRUE)
  /\ RowsAt(f.array, K) /\ RowsAt(f.strings, NonNull(K))

LEMMA NewExactOne == ExactOne(NewFunctions, {})
<1>1. /\ NewFunctions.count = 0 /\ NewFunctions.any = NullValue /\ NewFunctions.nan = FALSE
      /\ NewFunctions.max = NullValue /\ NewFunctions.min = NullValue
      /\ NewFunctions.array = <<>> /\ NewFunctions.strings = <<>>
  BY DEF NewFunctions
<1>2. NonNull({}) = {} /\ ValuesIn({}) = {} /\ Numbers({}) = {}
  BY DEF NonNull, ValuesIn, Numbers
<1>3. IsFiniteSet({}) /\ Cardinality({}) = 0
  BY FS_EmptySet
<1>4. RowsAt(<<>>, {})
  BY RowsNone
<1>5. NewFunctions.nan \in BOOLEAN /\ (NewFunctions.nan <=> NaNValue \in ValuesIn({}))
  BY <1>1, <1>2
<1>6. Top(NewFunctions.max, Numbers({}), FALSE) /\ Top(NewFunctions.min, Numbers({}), TRUE)
  BY <1>1, <1>2 DEF Top
<1>7. NewFunctions.any \in ValuesIn({}) \cup {NullValue} /\ (NewFunctions.any = NullValue <=> NonNull({}) = {})
  BY <1>1, <1>2
<1> QED
  BY <1>1, <1>2, <1>3, <1>4, <1>5, <1>6, <1>7, NewFields DEF ExactOne

LEMMA ExactOneNext ==
    ASSUME NEW n, Sound(n), NEW K \in SUBSET (1..n), NEW i \in 1..n, \A j \in K : j < i,
           NEW f, ExactOne(f, K)
    PROVE  ExactOne(StepOne(f, group[i]), K \cup {i})
<1> DEFINE r == group[i]
           g == StepOne(f, r)
           L == K \cup {i}
<1>0. n \in Nat /\ i \in Int /\ K \subseteq Int /\ i \notin K /\ r.v \in Int \cup {NullValue, NaNValue}
  BY DEF Sound
<1>1. ValuesIn(L) = ValuesIn(K) \cup {r.v}
  BY DEF ValuesIn
<1>2. NonNull(L) = IF r.v = NullValue THEN NonNull(K) ELSE NonNull(K) \cup {i}
  BY DEF NonNull
<1>3. NonNull(K) \subseteq K
  BY DEF NonNull
<1>4. Numbers(K) \subseteq Int
  BY DEF Numbers, ValuesIn, Sound
<1>5. RowsAt(Append(f.array, r), L)
  BY <1>0, RowsNext DEF ExactOne
<1> HIDE DEF r, L
<1>6. CASE r.v = NullValue
  <2>1. /\ DOMAIN g = Fields /\ g.array = Append(f.array, r)
        /\ g.count = f.count /\ g.any = f.any /\ g.nan = f.nan /\ g.max = f.max /\ g.min = f.min
        /\ g.strings = f.strings
    BY <1>6, StepOneNull DEF ExactOne
  <2>2. NonNull(L) = NonNull(K) /\ Numbers(L) = Numbers(K) /\ ValuesIn(L) \cup {NullValue} = ValuesIn(K) \cup {NullValue}
    BY <1>1, <1>2, <1>6 DEF Numbers
  <2>3. NaNValue \in ValuesIn(L) <=> NaNValue \in ValuesIn(K)
    BY <1>1, <1>6, CallsAssumption
  <2> HIDE DEF g
  <2>4. g.nan \in BOOLEAN /\ (g.nan <=> NaNValue \in ValuesIn(L))
    BY <2>1, <2>3 DEF ExactOne
  <2>5. ExactOne(g, L)
    BY <1>5, <2>1, <2>2, <2>4 DEF ExactOne
  <2> QED
    BY <2>5 DEF g, r, L
<1>7. CASE r.v # NullValue
  <2>1. /\ DOMAIN g = Fields /\ g.array = Append(f.array, r)
        /\ g.count = f.count + 1
        /\ g.any = IF f.any = NullValue THEN r.v ELSE f.any
        /\ g.strings = Append(f.strings, r)
    BY <1>7, StepOneIs DEF ExactOne
  <2>2. g.nan = (f.nan \/ r.v = NaNValue)
    BY <1>7, StepOneIs DEF ExactOne
  <2>3. g.max = IF r.v = NaNValue \/ (f.max # NullValue /\ ~GT(r.v, f.max)) THEN f.max ELSE r.v
    BY <1>7, StepOneIs DEF ExactOne
  <2>4. g.min = IF r.v = NaNValue \/ (f.min # NullValue /\ ~LT(r.v, f.min)) THEN f.min ELSE r.v
    BY <1>7, StepOneIs DEF ExactOne
  <2> HIDE DEF g
  <2>5. NonNull(L) = NonNull(K) \cup {i} /\ i \notin NonNull(K)
    BY <1>0, <1>2, <1>3, <1>7
  <2>6. g.count = Cardinality(NonNull(L)) /\ IsFiniteSet(NonNull(L))
    <3>1. f.count = Cardinality(NonNull(K)) /\ IsFiniteSet(NonNull(K))
      BY DEF ExactOne
    <3> QED
      BY <2>1, <2>5, <3>1, FS_AddElement
  <2>7. g.any \in ValuesIn(L) \cup {NullValue} /\ (g.any = NullValue <=> NonNull(L) = {})
    BY <1>1, <1>7, <2>1, <2>5 DEF ExactOne
  <2>8. g.nan \in BOOLEAN /\ (g.nan <=> NaNValue \in ValuesIn(L))
    <3>1. f.nan \in BOOLEAN /\ (f.nan <=> NaNValue \in ValuesIn(K))
      BY DEF ExactOne
    <3>2. NaNValue \in ValuesIn(L) <=> NaNValue \in ValuesIn(K) \/ r.v = NaNValue
      BY <1>1
    <3> QED
      BY <2>2, <3>1, <3>2
  <2>9. Top(g.max, Numbers(L), FALSE) /\ Top(g.min, Numbers(L), TRUE)
    <3>0. Top(f.max, Numbers(K), FALSE) /\ Top(f.min, Numbers(K), TRUE)
      BY DEF ExactOne
    <3>1. CASE r.v = NaNValue
      <4>1. Numbers(L) = Numbers(K) /\ g.max = f.max /\ g.min = f.min
        BY <1>1, <2>3, <2>4, <3>1 DEF Numbers
      <4> QED
        BY <3>0, <4>1
    <3>2. CASE r.v # NaNValue
      <4>1. PICK v \in Int : v = r.v
        BY <1>0, <1>7, <3>2
      <4>2. Numbers(L) = Numbers(K) \cup {v}
        BY <1>1, <1>7, <3>2, <4>1 DEF Numbers
      <4>3. (f.max = NullValue \/ f.max \in Int) /\ (f.min = NullValue \/ f.min \in Int)
        BY <1>4, <3>0 DEF Top
      <4>4. (f.max \in Int => (GT(v, f.max) <=> v > f.max)) /\ (f.min \in Int => (LT(v, f.min) <=> v < f.min))
        BY IntGT
      <4>5. Picked(g.max, f.max, v, FALSE)
        BY <2>3, <3>2, <4>1, <4>3, <4>4 DEF Picked
      <4>6. Picked(g.min, f.min, v, TRUE)
        BY <2>4, <3>2, <4>1, <4>3, <4>4 DEF Picked
      <4>7. Top(g.max, Numbers(K) \cup {v}, FALSE)
        BY <1>4, <3>0, <4>5, TopNext, FALSE \in BOOLEAN
      <4>8. Top(g.min, Numbers(K) \cup {v}, TRUE)
        BY <1>4, <3>0, <4>6, TopNext, TRUE \in BOOLEAN
      <4> QED
        BY <4>2, <4>7, <4>8
    <3> QED
      BY <3>1, <3>2
  <2>10. RowsAt(g.strings, NonNull(L))
    <3>1. RowsAt(f.strings, NonNull(K)) /\ NonNull(K) \subseteq Int /\ \A j \in NonNull(K) : j < i
      BY <1>0, <1>3 DEF ExactOne
    <3>2. RowsAt(Append(f.strings, group[i]), NonNull(K) \cup {i})
      BY <1>0, <3>1, RowsNext
    <3> QED
      BY <2>1, <2>5, <3>2 DEF r
  <2>11. ExactOne(g, L)
    BY <1>5, <2>1, <2>6, <2>7, <2>8, <2>9, <2>10 DEF ExactOne
  <2> QED
    BY <2>11 DEF g, r, L
<1> QED
  BY <1>6, <1>7

-----------------------------------------------------------------------------
(* The functions of two arguments, row by row.                             *)

Keyed(K) == {i \in K : group[i].k \notin {NullValue, NaNValue}}
KeysIn(K) == {group[i].k : i \in K}
Firsts(K) == {i \in K : \A j \in K : j < i => group[j].k # group[i].k}

\* key and v are those of the first row of K with the extreme key.
LeadsIn(i, K, low) == \A j \in K : /\ IF low THEN group[i].k <= group[j].k ELSE group[j].k <= group[i].k
                                   /\ group[j].k = group[i].k => i <= j
FirstTop(key, v, K, low) ==
  IF K = {} THEN key = NullValue /\ v = NullValue
  ELSE \E i \in K : key = group[i].k /\ v = group[i].v /\ LeadsIn(i, K, low)

Better(k, key, low) == key = NullValue \/ (IF low THEN k < key ELSE k > key)
Leads(nk, nv, key, v, low, r) == /\ nk = IF Better(r.k, key, low) THEN r.k ELSE key
                                 /\ nv = IF Better(r.k, key, low) THEN r.v ELSE v

LEMMA FirstTopNext ==
    ASSUME NEW K, K \subseteq Int, NEW i \in Int, \A j \in K : j < i, \A j \in K \cup {i} : group[j].k \in Int,
           NEW low \in BOOLEAN, NEW key, NEW v, FirstTop(key, v, K, low),
           NEW nk, NEW nv, Leads(nk, nv, key, v, low, group[i])
    PROVE  FirstTop(nk, nv, K \cup {i}, low)
<1>1. CASE K = {}
  <2>1. nk = group[i].k /\ nv = group[i].v
    BY <1>1 DEF FirstTop, Leads, Better
  <2>2. LeadsIn(i, K \cup {i}, low)
    BY <1>1 DEF LeadsIn
  <2> QED
    BY <2>1, <2>2 DEF FirstTop
<1>2. CASE K # {}
  <2>1. PICK h \in K : key = group[h].k /\ v = group[h].v /\ LeadsIn(h, K, low)
    BY <1>2 DEF FirstTop
  <2>2. key \in Int /\ key # NullValue
    BY <2>1, CallsAssumption
  <2>3. h < i /\ h \in Int
    BY <2>1
  <2>4. CASE Better(group[i].k, key, low)
    <3>1. nk = group[i].k /\ nv = group[i].v
      BY <2>4 DEF Leads
    <3>2. LeadsIn(i, K \cup {i}, low)
      <4>1. ASSUME NEW j \in K PROVE /\ IF low THEN group[i].k <= group[j].k ELSE group[j].k <= group[i].k
                                     /\ group[j].k # group[i].k
        <5>1. IF low THEN group[h].k <= group[j].k ELSE group[j].k <= group[h].k
          BY <2>1 DEF LeadsIn
        <5>2. IF low THEN group[i].k < group[h].k ELSE group[i].k > group[h].k
          BY <2>1, <2>2, <2>4 DEF Better
        <5>3. group[i].k \in Int /\ group[h].k \in Int /\ group[j].k \in Int
          OBVIOUS
        <5> QED
          BY <5>1, <5>2, <5>3
      <4> QED
        BY <4>1 DEF LeadsIn
    <3> QED
      BY <3>1, <3>2 DEF FirstTop
  <2>5. CASE ~Better(group[i].k, key, low)
    <3>1. nk = group[h].k /\ nv = group[h].v
      BY <2>1, <2>5 DEF Leads
    <3>2. LeadsIn(h, K \cup {i}, low)
      <4>1. IF low THEN group[h].k <= group[i].k ELSE group[i].k <= group[h].k
        <5>1. group[i].k \in Int /\ group[h].k \in Int
          OBVIOUS
        <5>2. IF low THEN ~(group[i].k < group[h].k) ELSE ~(group[i].k > group[h].k)
          BY <2>1, <2>2, <2>5 DEF Better
        <5> QED
          BY <5>1, <5>2
      <4> QED
        BY <2>1, <2>3, <4>1 DEF LeadsIn
    <3> QED
      BY <3>1, <3>2 DEF FirstTop
  <2> QED
    BY <2>4, <2>5
<1> QED
  BY <1>1, <1>2

Appended(t, s, x) == t = Append(s, x)

LEMMA StepPairIs ==
    ASSUME NEW f, DOMAIN f = Fields, NEW r
    PROVE  /\ DOMAIN StepPair(f, r) = Fields
           /\ Appended(StepPair(f, r).having, f.having, r)
           /\ StepPair(f, r).seen = f.seen \cup {r.k}
           /\ IF r.k \in f.seen THEN StepPair(f, r).measures = f.measures
              ELSE Appended(StepPair(f, r).measures, f.measures, r.v)
           /\ StepPair(f, r).nanKey = StepBy(f, r).nanKey
           /\ StepPair(f, r).maxKey = StepBy(f, r).maxKey /\ StepPair(f, r).maxBy = StepBy(f, r).maxBy
           /\ StepPair(f, r).minKey = StepBy(f, r).minKey /\ StepPair(f, r).minBy = StepBy(f, r).minBy
<1> DEFINE b == StepBy(f, r)
<1>1. DOMAIN b = Fields /\ b.having = f.having /\ b.seen = f.seen /\ b.measures = f.measures
  <2>1. CASE r.k = NullValue
    BY <2>1 DEF StepBy
  <2>2. CASE r.k # NullValue /\ r.k = NaNValue
    BY <2>2 DEF StepBy, Fields
  <2>3. CASE r.k # NullValue /\ r.k # NaNValue
    BY <2>3 DEF StepBy, Fields
  <2> QED
    BY <2>1, <2>2, <2>3
<1>2. StepPair(f, r) = [b EXCEPT !.having = Append(@, r), !.seen = @ \union {r.k},
                                 !.measures = IF r.k \in f.seen THEN @ ELSE Append(@, r.v)]
  BY DEF StepPair
<1> HIDE DEF b
<1>3. /\ DOMAIN StepPair(f, r) = Fields
      /\ StepPair(f, r).having = Append(b.having, r)
      /\ StepPair(f, r).seen = b.seen \cup {r.k}
      /\ StepPair(f, r).measures = IF r.k \in f.seen THEN b.measures ELSE Append(b.measures, r.v)
  BY <1>1, <1>2 DEF Fields
<1>4. /\ StepPair(f, r).nanKey = b.nanKey
      /\ StepPair(f, r).maxKey = b.maxKey /\ StepPair(f, r).maxBy = b.maxBy
      /\ StepPair(f, r).minKey = b.minKey /\ StepPair(f, r).minBy = b.minBy
  BY <1>1, <1>2 DEF Fields
<1> QED
  BY <1>1, <1>3, <1>4 DEF b, Appended

ExactPair(f, K) ==
  /\ DOMAIN f = Fields
  /\ f.nanKey \in BOOLEAN /\ (f.nanKey <=> NaNValue \in KeysIn(K))
  /\ FirstTop(f.maxKey, f.maxBy, Keyed(K), FALSE) /\ FirstTop(f.minKey, f.minBy, Keyed(K), TRUE)
  /\ RowsAt(f.having, K) /\ f.seen = KeysIn(K) /\ ArgumentsAt(f.measures, Firsts(K))

LEMMA NewExactPair == ExactPair(NewFunctions, {})
<1>1. /\ NewFunctions.nanKey = FALSE /\ NewFunctions.maxKey = NullValue /\ NewFunctions.maxBy = NullValue
      /\ NewFunctions.minKey = NullValue /\ NewFunctions.minBy = NullValue
      /\ NewFunctions.having = <<>> /\ NewFunctions.seen = {} /\ NewFunctions.measures = <<>>
  BY DEF NewFunctions
<1>2. Keyed({}) = {} /\ KeysIn({}) = {} /\ Firsts({}) = {}
  BY DEF Keyed, KeysIn, Firsts
<1>3. NewFunctions.nanKey \in BOOLEAN /\ (NewFunctions.nanKey <=> NaNValue \in KeysIn({}))
  BY <1>1, <1>2
<1>4. /\ FirstTop(NewFunctions.maxKey, NewFunctions.maxBy, {}, FALSE)
      /\ FirstTop(NewFunctions.minKey, NewFunctions.minBy, {}, TRUE)
  BY <1>1 DEF FirstTop
<1> QED
  BY <1>1, <1>2, <1>3, <1>4, RowsNone, NewFields DEF ExactPair

LEMMA ExactPairNext ==
    ASSUME NEW n, Sound(n), NEW K \in SUBSET (1..n), NEW i \in 1..n, \A j \in K : j < i,
           NEW f, ExactPair(f, K)
    PROVE  ExactPair(StepPair(f, group[i]), K \cup {i})
<1> DEFINE r == group[i]
           g == StepPair(f, r)
           b == StepBy(f, r)
           L == K \cup {i}
<1>0. n \in Nat /\ i \in Int /\ K \subseteq Int /\ i \notin K /\ r.k \in Int \cup {NullValue, NaNValue}
  BY DEF Sound
<1>1. KeysIn(L) = KeysIn(K) \cup {r.k}
  BY DEF KeysIn
<1>2. Keyed(L) = IF r.k \in {NullValue, NaNValue} THEN Keyed(K) ELSE Keyed(K) \cup {i}
  BY DEF Keyed
<1>3. RowsAt(Append(f.having, r), L)
  BY <1>0, RowsNext DEF ExactPair
<1>4. DOMAIN f = Fields /\ f.seen = KeysIn(K)
  BY DEF ExactPair
<1> HIDE DEF r, L
<1>14. /\ DOMAIN g = Fields /\ Appended(g.having, f.having, r) /\ g.seen = f.seen \cup {r.k}
       /\ IF r.k \in f.seen THEN g.measures = f.measures ELSE Appended(g.measures, f.measures, r.v)
  BY <1>4, StepPairIs
<1>5. /\ DOMAIN g = Fields /\ g.having = Append(f.having, r) /\ g.seen = f.seen \cup {r.k}
      /\ g.measures = IF r.k \in f.seen THEN f.measures ELSE Append(f.measures, r.v)
  BY <1>14 DEF Appended
<1>6. /\ g.nanKey = b.nanKey /\ g.maxKey = b.maxKey /\ g.maxBy = b.maxBy
      /\ g.minKey = b.minKey /\ g.minBy = b.minBy
  <2>1. g.nanKey = b.nanKey
    BY <1>4, StepPairIs
  <2>2. g.maxKey = b.maxKey
    BY <1>4, StepPairIs
  <2>3. g.maxBy = b.maxBy
    BY <1>4, StepPairIs
  <2>4. g.minKey = b.minKey
    BY <1>4, StepPairIs
  <2>5. g.minBy = b.minBy
    BY <1>4, StepPairIs
  <2> HIDE DEF g, b
  <2> QED
    BY <2>1, <2>2, <2>3, <2>4, <2>5
<1> USE DEF r, L
<1>7. ArgumentsAt(g.measures, Firsts(L))
  <2>0. ArgumentsAt(f.measures, Firsts(K)) /\ Firsts(K) \subseteq Int /\ \A j \in Firsts(K) : j < i
    BY <1>0 DEF ExactPair, Firsts
  <2>2. \A j \in K : ~(i < j)
    BY <1>0
  <2>1. \A x : x \in Firsts(L) <=> x \in Firsts(K) \/ (x = i /\ r.k \notin KeysIn(K))
    <3>1. ASSUME NEW x \in K PROVE x \in Firsts(L) <=> x \in Firsts(K)
      BY <2>2 DEF Firsts
    <3>2. i \in Firsts(L) <=> r.k \notin KeysIn(K)
      <4>1. i \in Firsts(L) <=> \A j \in L : j < i => group[j].k # r.k
        BY DEF Firsts
      <4>2. (\A j \in L : j < i => group[j].k # r.k) <=> \A j \in K : group[j].k # r.k
        BY <1>0
      <4> QED
        BY <4>1, <4>2 DEF KeysIn
    <3>3. \A x : x \in Firsts(L) \/ x \in Firsts(K) => x \in K \/ x = i
      BY DEF Firsts
    <3> HIDE DEF L, r
    <3>4. i \notin Firsts(K)
      BY <1>0 DEF Firsts
    <3> QED
      BY <1>0, <3>1, <3>2, <3>3, <3>4
  <2>3. CASE r.k \in KeysIn(K)
    <3>1. Firsts(L) = Firsts(K)
      BY <2>1, <2>3
    <3> QED
      BY <1>4, <1>5, <2>0, <2>3, <3>1
  <2>4. CASE r.k \notin KeysIn(K)
    <3>1. Firsts(L) = Firsts(K) \cup {i}
      BY <2>1, <2>4
    <3>2. ArgumentsAt(Append(f.measures, group[i].v), Firsts(K) \cup {i})
      BY <1>0, <2>0, RowsNext
    <3> QED
      BY <1>4, <1>5, <2>4, <3>1, <3>2
  <2> QED
    BY <2>3, <2>4
<1>8. f.nanKey \in BOOLEAN /\ (f.nanKey <=> NaNValue \in KeysIn(K))
  BY DEF ExactPair
<1>9. FirstTop(f.maxKey, f.maxBy, Keyed(K), FALSE) /\ FirstTop(f.minKey, f.minBy, Keyed(K), TRUE)
  BY DEF ExactPair
<1>10. Keyed(K) \subseteq Int /\ (\A j \in Keyed(K) : j < i) /\ \A j \in Keyed(K) : group[j].k \in Int
  BY <1>0 DEF Keyed, Sound
<1> HIDE DEF r, L, g
<1>11. /\ g.nanKey \in BOOLEAN /\ (g.nanKey <=> NaNValue \in KeysIn(L))
       /\ FirstTop(g.maxKey, g.maxBy, Keyed(L), FALSE) /\ FirstTop(g.minKey, g.minBy, Keyed(L), TRUE)
  <2>1. CASE r.k = NullValue
    <3>1. b = f
      BY <2>1, CallsAssumption DEF StepBy
    <3>2. Keyed(L) = Keyed(K) /\ (NaNValue \in KeysIn(L) <=> NaNValue \in KeysIn(K))
      BY <1>1, <1>2, <2>1, CallsAssumption
    <3> HIDE DEF b
    <3> QED
      BY <1>6, <1>8, <1>9, <3>1, <3>2
  <2>2. CASE r.k = NaNValue
    <3>1. b = [f EXCEPT !.nanKey = TRUE]
      BY <2>2, CallsAssumption DEF StepBy
    <3>2. Keyed(L) = Keyed(K) /\ NaNValue \in KeysIn(L)
      BY <1>1, <1>2, <2>2
    <3> HIDE DEF b
    <3>3. b.nanKey = TRUE /\ b.maxKey = f.maxKey /\ b.maxBy = f.maxBy /\ b.minKey = f.minKey /\ b.minBy = f.minBy
      BY <1>4, <3>1 DEF Fields
    <3> QED
      BY <1>6, <1>9, <3>2, <3>3
  <2>3. CASE r.k \in Int
    <3>0. r.k # NullValue /\ r.k # NaNValue
      BY <2>3, CallsAssumption
    <3> DEFINE larger  == f.maxKey = NullValue \/ GT(r.k, f.maxKey)
               smaller == f.minKey = NullValue \/ LT(r.k, f.minKey)
    <3>1. b = [f EXCEPT !.maxKey = IF larger THEN r.k ELSE @, !.maxBy = IF larger THEN r.v ELSE @,
                        !.minKey = IF smaller THEN r.k ELSE @, !.minBy = IF smaller THEN r.v ELSE @]
      BY <3>0 DEF StepBy
    <3>2. Keyed(L) = Keyed(K) \cup {i} /\ (NaNValue \in KeysIn(L) <=> NaNValue \in KeysIn(K))
      BY <1>1, <1>2, <3>0
    <3>3. (f.maxKey = NullValue \/ f.maxKey \in Int) /\ (f.minKey = NullValue \/ f.minKey \in Int)
      BY <1>9, <1>10 DEF FirstTop
    <3>4. larger <=> Better(r.k, f.maxKey, FALSE)
      BY <2>3, <3>3, IntGT DEF Better
    <3>5. smaller <=> Better(r.k, f.minKey, TRUE)
      BY <2>3, <3>3, IntGT DEF Better
    <3> HIDE DEF larger, smaller, b
    <3>6. /\ b.nanKey = f.nanKey
          /\ b.maxKey = IF larger THEN r.k ELSE f.maxKey
          /\ b.maxBy = IF larger THEN r.v ELSE f.maxBy
          /\ b.minKey = IF smaller THEN r.k ELSE f.minKey
          /\ b.minBy = IF smaller THEN r.v ELSE f.minBy
      BY <1>4, <3>1 DEF Fields
    <3>7. Leads(b.maxKey, b.maxBy, f.maxKey, f.maxBy, FALSE, r) /\ Leads(b.minKey, b.minBy, f.minKey, f.minBy, TRUE, r)
      BY <3>4, <3>5, <3>6 DEF Leads
    <3>8. \A j \in Keyed(K) \cup {i} : group[j].k \in Int
      BY <1>10, <2>3 DEF r
    <3>9. FirstTop(b.maxKey, b.maxBy, Keyed(K) \cup {i}, FALSE)
      BY <1>0, <1>9, <1>10, <3>7, <3>8, FirstTopNext, FALSE \in BOOLEAN DEF r
    <3>10. FirstTop(b.minKey, b.minBy, Keyed(K) \cup {i}, TRUE)
      BY <1>0, <1>9, <1>10, <3>7, <3>8, FirstTopNext, TRUE \in BOOLEAN DEF r
    <3> QED
      BY <1>6, <1>8, <3>2, <3>6, <3>9, <3>10
  <2> QED
    BY <1>0, <2>1, <2>2, <2>3
<1>12. g.seen = KeysIn(L)
  BY <1>1, <1>4, <1>5
<1>13. ExactPair(g, L)
  BY <1>3, <1>5, <1>7, <1>11, <1>12 DEF ExactPair
<1> QED
  BY <1>13 DEF g, r, L

-----------------------------------------------------------------------------
(* The wrapper: IGNORE NULLS and DISTINCT.                                 *)

NotNull(I) == {i \in I : call.ignoreNulls => NullValue \notin Args(group[i])}
OnceIn(N) == {i \in N : call.distinct => \A j \in N : j < i => group[j].v # group[i].v}
KeptOf(I) == OnceIn(NotNull(I))

Exact(f, K) == IF call.args = 1 THEN ExactOne(f, K) ELSE ExactPair(f, K)

\* a has processed the rows I, in their order.
Wrapper == {"distinct", "having", "deferred", "f"}
Processed(a, I) == /\ DOMAIN a = Wrapper /\ (call.distinct => a.distinct = ValuesIn(NotNull(I)))
                   /\ Exact(a.f, KeptOf(I))

LEMMA NewProcessed == Processed(NewAggregator, {})
<1>1. NotNull({}) = {} /\ KeptOf({}) = {} /\ ValuesIn({}) = {}
  BY DEF NotNull, KeptOf, OnceIn, ValuesIn
<1>2. DOMAIN NewAggregator = Wrapper /\ NewAggregator.distinct = {} /\ NewAggregator.f = NewFunctions
  BY DEF NewAggregator, Wrapper
<1>3. Exact(NewFunctions, {})
  BY NewExactOne, NewExactPair DEF Exact
<1> QED
  BY <1>1, <1>2, <1>3 DEF Processed

LEMMA OnceNext ==
    ASSUME NEW N, N \subseteq Int, NEW i \in Int, \A j \in N : j < i
    PROVE  OnceIn(N \cup {i}) = IF call.distinct /\ group[i].v \in ValuesIn(N) THEN OnceIn(N)
                                ELSE OnceIn(N) \cup {i}
<1>1. i \notin N /\ \A j \in N : ~(i < j)
  OBVIOUS
<1>2. ASSUME NEW x \in N PROVE x \in OnceIn(N \cup {i}) <=> x \in OnceIn(N)
  BY <1>1 DEF OnceIn
<1>3. i \in OnceIn(N \cup {i}) <=> ~(call.distinct /\ group[i].v \in ValuesIn(N))
  <2>1. i \in OnceIn(N \cup {i}) <=> (call.distinct => \A j \in N \cup {i} : j < i => group[j].v # group[i].v)
    BY DEF OnceIn
  <2>2. (\A j \in N \cup {i} : j < i => group[j].v # group[i].v) <=> \A j \in N : group[j].v # group[i].v
    OBVIOUS
  <2>3. group[i].v \in ValuesIn(N) <=> \E j \in N : group[j].v = group[i].v
    BY DEF ValuesIn
  <2> QED
    BY <2>1, <2>2, <2>3
<1>4. OnceIn(N) \subseteq N /\ OnceIn(N \cup {i}) \subseteq N \cup {i}
  BY DEF OnceIn
<1> DEFINE hit == call.distinct /\ group[i].v \in ValuesIn(N)
           P == OnceIn(N \cup {i})
           Q == OnceIn(N)
<1>5. \A x : x \in P => x \in N \/ x = i
  BY <1>4
<1>6. \A x : x \in Q => x \in N
  BY <1>4
<1>7. \A x \in N : x \in P <=> x \in Q
  BY <1>2
<1>8. i \in P <=> ~hit
  BY <1>3
<1> HIDE DEF hit, P, Q
<1>9. CASE hit
  <2>1. \A x : x \in P <=> x \in Q
    BY <1>1, <1>5, <1>6, <1>7, <1>8, <1>9
  <2>2. P = Q
    BY <2>1
  <2> QED
    BY <1>9, <2>2 DEF hit, P, Q
<1>10. CASE ~hit
  <2>1. \A x : x \in P <=> x \in Q \/ x = i
    BY <1>1, <1>5, <1>6, <1>7, <1>8, <1>10
  <2>2. P = Q \cup {i}
    BY <2>1
  <2> QED
    BY <1>10, <2>2 DEF hit, P, Q
<1> QED
  BY <1>9, <1>10

LEMMA ExactNext ==
    ASSUME NEW n, Sound(n), NEW K \in SUBSET (1..n), NEW i \in 1..n, \A j \in K : j < i,
           NEW f, Exact(f, K)
    PROVE  Exact(StepFunctions(f, group[i]), K \cup {i})
<1>1. CASE call.args = 1
  BY <1>1, ExactOneNext DEF Exact, StepFunctions
<1>2. CASE call.args # 1
  BY <1>2, ExactPairNext DEF Exact, StepFunctions
<1> QED
  BY <1>1, <1>2

LEMMA ProcessNext ==
    ASSUME NEW n, Sound(n), NEW I \in SUBSET (1..n), NEW i \in 1..n, \A j \in I : j < i,
           NEW a, Processed(a, I)
    PROVE  Processed(process(a, group[i]), I \cup {i})
<1> DEFINE r == group[i]
           J == I \cup {i}
           N == NotNull(I)
<1>0. n \in Nat /\ i \in Int /\ I \subseteq Int /\ i \notin I
  BY DEF Sound
<1>1. N \subseteq I /\ N \subseteq Int /\ \A j \in N : j < i
  BY <1>0 DEF NotNull
<1>2. NotNull(J) = IF call.ignoreNulls /\ NullValue \in Args(r) THEN N ELSE N \cup {i}
  BY DEF NotNull
<1>3. DOMAIN a = Wrapper /\ (call.distinct => a.distinct = ValuesIn(N)) /\ Exact(a.f, OnceIn(N))
  BY DEF Processed, KeptOf
<1>4. ValuesIn(N \cup {i}) = ValuesIn(N) \cup {r.v}
  BY DEF ValuesIn
<1>5. OnceIn(N \cup {i}) = IF call.distinct /\ r.v \in ValuesIn(N) THEN OnceIn(N) ELSE OnceIn(N) \cup {i}
  BY <1>0, <1>1, OnceNext
<1>6. OnceIn(N) \in SUBSET (1..n) /\ \A j \in OnceIn(N) : j < i
  BY <1>1 DEF OnceIn
<1>7. Exact(StepFunctions(a.f, group[i]), OnceIn(N) \cup {i})
  BY <1>3, <1>6, ExactNext
<1> HIDE DEF r, J, N
<1>8. CASE call.ignoreNulls /\ NullValue \in Args(r)
  <2>1. process(a, r) = a
    BY <1>8 DEF process
  <2>2. NotNull(J) = N
    BY <1>2, <1>8
  <2>3. Processed(a, J)
    BY <1>3, <2>2 DEF Processed, KeptOf
  <2> QED
    BY <2>1, <2>3 DEF r, J
<1>9. CASE ~(call.ignoreNulls /\ NullValue \in Args(r)) /\ call.distinct /\ r.v \in a.distinct
  <2>1. process(a, r) = a
    BY <1>9 DEF process
  <2>2. NotNull(J) = N \cup {i} /\ r.v \in ValuesIn(N)
    BY <1>2, <1>3, <1>9
  <2>3. ValuesIn(NotNull(J)) = ValuesIn(N)
    BY <1>4, <2>2
  <2>4. KeptOf(J) = OnceIn(N)
    BY <1>5, <1>9, <2>2 DEF KeptOf
  <2>5. Processed(a, J)
    BY <1>3, <2>3, <2>4 DEF Processed
  <2> QED
    BY <2>1, <2>5 DEF r, J
<1>10. CASE ~(call.ignoreNulls /\ NullValue \in Args(r)) /\ ~(call.distinct /\ r.v \in a.distinct)
  <2> DEFINE b == process(a, r)
  <2>1. b = [a EXCEPT !.distinct = IF call.distinct THEN @ \union {r.v} ELSE @,
                      !.f = StepFunctions(@, r)]
    BY <1>10 DEF process
  <2> HIDE DEF b
  <2>2. /\ DOMAIN b = Wrapper /\ (call.distinct => b.distinct = a.distinct \cup {r.v})
        /\ b.f = StepFunctions(a.f, r)
    BY <1>3, <2>1 DEF Wrapper
  <2>3. NotNull(J) = N \cup {i} /\ ~(call.distinct /\ r.v \in ValuesIn(N))
    BY <1>2, <1>3, <1>10
  <2>4. KeptOf(J) = OnceIn(N) \cup {i}
    BY <1>5, <2>3 DEF KeptOf
  <2>5. call.distinct => b.distinct = ValuesIn(NotNull(J))
    BY <1>3, <1>4, <2>2, <2>3
  <2>6. Exact(b.f, KeptOf(J))
    BY <1>7, <2>2, <2>4 DEF r
  <2>7. Processed(b, J)
    BY <2>2, <2>5, <2>6 DEF Processed
  <2> QED
    BY <2>7 DEF b, r, J
<1> QED
  BY <1>8, <1>9, <1>10

\* Running through the rows, those of H are processed.
Passes(S, n, H) == \A k \in 1..n : S[k] = IF k \in H THEN process(S[k - 1], group[k]) ELSE S[k - 1]

LEMMA Passing ==
    ASSUME NEW n, Sound(n), NEW H \in SUBSET (1..n), NEW S, Processed(S[0], {}), Passes(S, n, H)
    PROVE  Processed(S[n], H)
<1> DEFINE T == {k \in Nat : k <= n => Processed(S[k], H \cap 1..k)}
<1>0. n \in Nat
  BY DEF Sound
<1>1. 0 \in T
  <2>1. H \cap 1..0 = {}
    OBVIOUS
  <2> QED
    BY <2>1
<1>2. ASSUME NEW k \in Nat, k \in T PROVE k + 1 \in T
  <2> SUFFICES ASSUME k + 1 <= n PROVE Processed(S[k + 1], H \cap 1..(k + 1))
    OBVIOUS
  <2>1. Processed(S[k], H \cap 1..k)
    BY <1>0, <1>2
  <2>2. k + 1 \in 1..n /\ (k + 1) - 1 = k
    BY <1>0
  <2>3. S[k + 1] = IF k + 1 \in H THEN process(S[k], group[k + 1]) ELSE S[k]
    BY <2>2 DEF Passes
  <2>4. \A j : j \in 1..(k + 1) <=> j \in 1..k \/ j = k + 1
    OBVIOUS
  <2>5. CASE k + 1 \in H
    <3>1. H \cap 1..(k + 1) = (H \cap 1..k) \cup {k + 1}
      BY <2>4, <2>5
    <3>2. H \cap 1..k \in SUBSET (1..n) /\ \A j \in H \cap 1..k : j < k + 1
      OBVIOUS
    <3>3. Processed(process(S[k], group[k + 1]), (H \cap 1..k) \cup {k + 1})
      BY <2>1, <2>2, <3>2, ProcessNext
    <3> QED
      BY <2>3, <2>5, <3>1, <3>3
  <2>6. CASE k + 1 \notin H
    <3>1. H \cap 1..(k + 1) = H \cap 1..k
      BY <2>4, <2>6
    <3> QED
      BY <2>1, <2>3, <2>6, <3>1
  <2> QED
    BY <2>5, <2>6
<1>3. \A k \in Nat : k \in T => k + 1 \in T
  BY <1>2
<1> HIDE DEF T
<1>4. Nat \subseteq T
  BY <1>1, <1>3, NatSet
<1>5. n \in T
  BY <1>0, <1>4
<1>6. Processed(S[n], H \cap 1..n)
  BY <1>0, <1>5 DEF T
<1>7. H \cap 1..n = H
  OBVIOUS
<1> QED
  BY <1>6, <1>7

-----------------------------------------------------------------------------
(* The wrapper along a group.                                              *)

\* process, with the call as an argument.
ProcessedBy(c, a, r) ==
  CASE c.ignoreNulls /\ NullValue \in (IF c.args = 1 THEN {r.v} ELSE {r.v, r.k}) -> a
    [] c.distinct /\ r.v \in a.distinct -> a
    [] OTHER -> [a EXCEPT !.distinct = IF c.distinct THEN @ \union {r.v} ELSE @,
                          !.f = IF c.args = 1 THEN StepOne(@, r) ELSE StepPair(@, r)]

LEMMA ProcessIs == \A a, r : process(a, r) = ProcessedBy(call, a, r)
BY DEF process, ProcessedBy, Args, StepFunctions

LEMMA ProcessKeeps ==
    ASSUME NEW c, NEW a, DOMAIN a = Wrapper, NEW r
    PROVE  /\ DOMAIN ProcessedBy(c, a, r) = Wrapper
           /\ ProcessedBy(c, a, r).having = a.having
           /\ ProcessedBy(c, a, r).deferred = a.deferred
<1>1. CASE c.ignoreNulls /\ NullValue \in (IF c.args = 1 THEN {r.v} ELSE {r.v, r.k})
  BY <1>1 DEF ProcessedBy
<1>2. CASE /\ ~(c.ignoreNulls /\ NullValue \in (IF c.args = 1 THEN {r.v} ELSE {r.v, r.k}))
           /\ c.distinct /\ r.v \in a.distinct
  BY <1>2 DEF ProcessedBy
<1>3. CASE /\ ~(c.ignoreNulls /\ NullValue \in (IF c.args = 1 THEN {r.v} ELSE {r.v, r.k}))
           /\ ~(c.distinct /\ r.v \in a.distinct)
  <2>1. ProcessedBy(c, a, r) = [a EXCEPT !.distinct = IF c.distinct THEN @ \union {r.v} ELSE @,
                                         !.f = IF c.args = 1 THEN StepOne(@, r) ELSE StepPair(@, r)]
    BY <1>3 DEF ProcessedBy
  <2> QED
    BY <2>1 DEF Wrapper
<1> QED
  BY <1>1, <1>2, <1>3

\* The wrapper without HAVING has processed every row; with HAVING it has kept
\* them; a deferred error in any row is held.
Chain(c, S, g, n) == S[0] = NewAggregator /\ \A k \in 1..n : S[k] = ProcessedBy(c, S[k - 1], g[k])
WrapperInv(c, g, a) ==
  /\ DOMAIN a = Wrapper
  /\ a.deferred \in BOOLEAN /\ (a.deferred <=> \E j \in DOMAIN g : g[j].v = Deferred)
  /\ ~a.deferred /\ c.having = "none" => a.having = <<>> /\ \E S : Chain(c, S, g, Len(g)) /\ a = S[Len(g)]
  /\ ~a.deferred /\ c.having # "none" => a = [NewAggregator EXCEPT !.having = g]
SortKeys(c, g) == \A j \in DOMAIN g, i \in DOMAIN c.orderBy : OrderKey(g[j], c.orderBy[i]) # NaNValue
AggInv == /\ call \in Calls /\ group \in Seq([v : Arguments, k : RowKeys])
          /\ SortKeys(call, group) /\ WrapperInv(call, group, agg)

LEMMA ChainNext ==
    ASSUME NEW c, NEW g, NEW n \in Nat, NEW S, Chain(c, S, g, n), NEW h, \A k \in 1..n : h[k] = g[k]
    PROVE  \E T : Chain(c, T, h, n + 1) /\ T[n + 1] = ProcessedBy(c, S[n], h[n + 1])
<1> DEFINE T == [k \in 0..(n + 1) |-> IF k = n + 1 THEN ProcessedBy(c, S[n], h[n + 1]) ELSE S[k]]
<1>1. T[n + 1] = ProcessedBy(c, S[n], h[n + 1]) /\ \A k \in 0..n : T[k] = S[k]
  OBVIOUS
<1> HIDE DEF T
<1>2. ASSUME NEW k \in 1..(n + 1) PROVE k - 1 \in 0..n /\ ((k \in 1..n /\ k \in 0..n) \/ (k = n + 1 /\ k - 1 = n))
  <2>1. k - 1 \in 0..n
    OBVIOUS
  <2>2. k \in 1..n \/ k = n + 1
    OBVIOUS
  <2>3. k \in 1..n => k \in 0..n
    OBVIOUS
  <2>4. k = n + 1 => k - 1 = n
    OBVIOUS
  <2> QED
    BY <2>1, <2>2, <2>3, <2>4
<1>3. ASSUME NEW k \in 1..(n + 1) PROVE T[k] = ProcessedBy(c, T[k - 1], h[k])
  <2>1. T[k - 1] = S[k - 1]
    BY <1>1, <1>2
  <2>2. CASE k \in 1..n /\ k \in 0..n
    <3>1. T[k] = S[k] /\ S[k] = ProcessedBy(c, S[k - 1], g[k]) /\ h[k] = g[k]
      BY <1>1, <2>2 DEF Chain
    <3> QED
      BY <2>1, <3>1
  <2>3. CASE k = n + 1 /\ k - 1 = n
    BY <1>1, <2>1, <2>3
  <2> QED
    BY <1>2, <2>2, <2>3
<1>4. T[0] = NewAggregator
  BY <1>1 DEF Chain
<1>5. Chain(c, T, h, n + 1)
  BY <1>3, <1>4 DEF Chain
<1> QED
  BY <1>1, <1>5

LEMMA WrapperInit == ASSUME NEW c PROVE WrapperInv(c, <<>>, NewAggregator)
<1>1. /\ DOMAIN NewAggregator = Wrapper /\ NewAggregator.deferred = FALSE /\ NewAggregator.having = <<>>
  BY DEF NewAggregator, Wrapper
<1>2. [NewAggregator EXCEPT !.having = <<>>] = NewAggregator
  <2>1. \A R : DOMAIN R = Wrapper /\ R.having = <<>> /\ R = [x \in Wrapper |-> R[x]] => [R EXCEPT !.having = <<>>] = R
    OBVIOUS
  <2>2. NewAggregator = [x \in Wrapper |-> NewAggregator[x]]
    BY DEF NewAggregator, Wrapper
  <2> QED
    BY <1>1, <2>1, <2>2
<1>3. Chain(c, [k \in {0} |-> NewAggregator], <<>>, 0) /\ [k \in {0} |-> NewAggregator][0] = NewAggregator
  BY DEF Chain
<1>4. Len(<<>>) = 0 /\ DOMAIN <<>> = {}
  OBVIOUS
<1>5. \E S : Chain(c, S, <<>>, Len(<<>>)) /\ NewAggregator = S[Len(<<>>)]
  BY <1>3, <1>4
<1> HIDE DEF NewAggregator
<1>6. NewAggregator.deferred \in BOOLEAN /\ (NewAggregator.deferred <=> \E j \in DOMAIN <<>> : <<>>[j].v = Deferred)
  BY <1>1, <1>4
<1> QED
  BY <1>1, <1>2, <1>5, <1>6 DEF WrapperInv

LEMMA WrapperNext ==
    ASSUME NEW g \in Seq([v : Arguments, k : RowKeys]), NEW a, WrapperInv(call, g, a),
           NEW r \in [v : Arguments, k : RowKeys]
    PROVE  WrapperInv(call, Append(g, r), Stepped(a, r))
<1> DEFINE h == Append(g, r)
           b == Stepped(a, r)
           n == Len(g)
<1>1. n \in Nat /\ DOMAIN g = 1..n /\ DOMAIN h = 1..(n + 1) /\ Len(h) = n + 1
  OBVIOUS
<1>2. h[n + 1] = r /\ \A k \in 1..n : h[k] = g[k]
  OBVIOUS
<1>3. (\E j \in DOMAIN h : h[j].v = Deferred) <=> (\E j \in DOMAIN g : g[j].v = Deferred) \/ r.v = Deferred
  <2>1. \A j : j \in 1..(n + 1) <=> j \in 1..n \/ j = n + 1
    BY <1>1
  <2> HIDE DEF h, n
  <2> QED
    BY <1>1, <1>2, <2>1
<1>4. DOMAIN a = Wrapper /\ a.deferred \in BOOLEAN /\ (a.deferred <=> \E j \in DOMAIN g : g[j].v = Deferred)
  BY DEF WrapperInv
<1> HIDE DEF h, n
<1>5. CASE a.deferred
  <2>1. b = a
    BY <1>5 DEF Stepped
  <2> HIDE DEF b
  <2>2. WrapperInv(call, h, b)
    BY <1>3, <1>4, <1>5, <2>1 DEF WrapperInv
  <2> QED
    BY <2>2 DEF b, h
<1>6. CASE ~a.deferred /\ r.v = Deferred
  <2>1. b = [a EXCEPT !.deferred = TRUE]
    BY <1>6 DEF Stepped
  <2> HIDE DEF b
  <2>2. DOMAIN b = Wrapper /\ b.deferred = TRUE
    BY <1>4, <2>1 DEF Wrapper
  <2>3. WrapperInv(call, h, b)
    BY <1>3, <1>6, <2>2 DEF WrapperInv
  <2> QED
    BY <2>3 DEF b, h
<1>7. CASE ~a.deferred /\ r.v # Deferred /\ call.having # "none"
  <2>1. b = [a EXCEPT !.having = Append(@, r)]
    BY <1>7 DEF Stepped
  <2>2. a = [NewAggregator EXCEPT !.having = g]
    BY <1>7 DEF WrapperInv
  <2>3. b = [NewAggregator EXCEPT !.having = h]
    BY <2>1, <2>2 DEF h, NewAggregator
  <2>4. DOMAIN b = Wrapper /\ b.deferred = FALSE
    BY <2>3 DEF NewAggregator, Wrapper
  <2> HIDE DEF b
  <2>5. ~\E j \in DOMAIN h : h[j].v = Deferred
    BY <1>3, <1>4, <1>7
  <2>6. WrapperInv(call, h, b)
    BY <1>7, <2>3, <2>4, <2>5 DEF WrapperInv
  <2> QED
    BY <2>6 DEF b, h
<1>8. CASE ~a.deferred /\ r.v # Deferred /\ call.having = "none"
  <2>1. b = ProcessedBy(call, a, r)
    BY <1>8, ProcessIs DEF Stepped
  <2> HIDE DEF b
  <2>2. a.having = <<>> /\ \E S : Chain(call, S, g, n) /\ a = S[n]
    BY <1>8 DEF WrapperInv, n
  <2>3. PICK S : Chain(call, S, g, n) /\ a = S[n]
    BY <2>2
  <2>4. \E T : Chain(call, T, h, n + 1) /\ T[n + 1] = ProcessedBy(call, S[n], h[n + 1])
    BY <1>1, <1>2, <2>3, ChainNext
  <2>5. \E T : Chain(call, T, h, Len(h)) /\ b = T[Len(h)]
    BY <1>1, <1>2, <2>1, <2>3, <2>4
  <2>6. DOMAIN b = Wrapper /\ b.having = <<>> /\ b.deferred = a.deferred
    BY <1>4, <2>1, <2>2, ProcessKeeps
  <2>7. ~\E j \in DOMAIN h : h[j].v = Deferred
    BY <1>3, <1>4, <1>8
  <2>8. b.deferred = FALSE
    BY <1>4, <1>8, <2>6
  <2>9. WrapperInv(call, h, b)
    BY <1>8, <2>5, <2>6, <2>7, <2>8 DEF WrapperInv
  <2> QED
    BY <2>9 DEF b, h
<1> QED
  BY <1>4, <1>5, <1>6, <1>7, <1>8

LEMMA AggInvHolds == AggSpec => []AggInv
<1>1. AggInit => AggInv
  <2> SUFFICES ASSUME AggInit PROVE AggInv
    OBVIOUS
  <2>1. call \in Calls /\ group = <<>> /\ agg = NewAggregator
    BY DEF AggInit
  <2>2. WrapperInv(call, group, agg)
    BY <2>1, WrapperInit
  <2>3. group \in Seq([v : Arguments, k : RowKeys]) /\ SortKeys(call, group)
    BY <2>1 DEF SortKeys
  <2> QED
    BY <2>1, <2>2, <2>3 DEF AggInv
<1>2. AggInv /\ [AggStep]_aggVars => AggInv'
  <2> SUFFICES ASSUME AggInv, [AggStep]_aggVars PROVE AggInv'
    OBVIOUS
  <2>1. CASE AggStep
    <3>1. PICK v \in Arguments, k \in RowKeys :
            LET r == [v |-> v, k |-> k]
            IN /\ \A i \in DOMAIN call.orderBy : MarkerKeeps(OrderKey(r, call.orderBy[i]))
               /\ group' = Append(group, r)
               /\ agg' = Stepped(agg, r)
               /\ UNCHANGED call
      BY <2>1 DEF AggStep
    <3>2. PICK r \in [v : Arguments, k : RowKeys] : r = [v |-> v, k |-> k]
      OBVIOUS
    <3>3. /\ \A i \in DOMAIN call.orderBy : OrderKey(r, call.orderBy[i]) # NaNValue
          /\ group' = Append(group, r) /\ agg' = Stepped(agg, r) /\ call' = call
      BY <3>1, <3>2 DEF MarkerKeeps
    <3>4. group \in Seq([v : Arguments, k : RowKeys]) /\ WrapperInv(call, group, agg) /\ SortKeys(call, group)
      BY DEF AggInv
    <3>5. WrapperInv(call, Append(group, r), Stepped(agg, r))
      BY <3>4, WrapperNext
    <3>6. WrapperInv(call', group', agg')
      BY <3>3, <3>5
    <3>7. group' \in Seq([v : Arguments, k : RowKeys])
      BY <3>3, <3>4
    <3>8. SortKeys(call', group')
      <4>1. ASSUME NEW j \in DOMAIN group', NEW i \in DOMAIN call.orderBy
            PROVE  OrderKey(group'[j], call.orderBy[i]) # NaNValue
        <5>1. (j \in DOMAIN group /\ group'[j] = group[j]) \/ group'[j] = r
          BY <3>3, <3>4
        <5> QED
          BY <3>3, <3>4, <5>1 DEF SortKeys
      <4> QED
        BY <3>3, <4>1 DEF SortKeys
    <3> QED
      BY <3>3, <3>6, <3>7, <3>8 DEF AggInv
  <2>2. CASE UNCHANGED aggVars
    BY <2>2 DEF AggInv, aggVars
  <2> QED
    BY <2>1, <2>2
<1> QED
  BY <1>1, <1>2, PTL DEF AggSpec

-----------------------------------------------------------------------------
(* The rows that HAVING keeps.                                             *)

\* The rows of I whose key is the extreme one.
WithKey(I) == {i \in I : group[i].k # NullValue}
ExtremeIn(I, low) ==
  {i \in WithKey(I) : \A j \in WithKey(I) : IF low THEN group[i].k <= group[j].k ELSE group[j].k <= group[i].k}

\* best is the extreme of the keys of the rows I.
BestOf(best, I, low) == Top(best, KeysIn(I) \ {NullValue}, low)

LEMMA AtBestIs ==
    ASSUME NEW I, \A i \in I : group[i].k \in Int \cup {NullValue}, NEW low \in BOOLEAN, NEW best, BestOf(best, I, low)
    PROVE  ExtremeIn(I, low) = {i \in I : AtBest(group[i], best)}
<1>1. ASSUME NEW i \in I PROVE i \in ExtremeIn(I, low) <=> AtBest(group[i], best)
  <2>1. CASE group[i].k = NullValue
    BY <2>1 DEF ExtremeIn, WithKey, AtBest
  <2>2. CASE group[i].k # NullValue
    <3>1. PICK x \in Int : x = group[i].k
      BY <2>2
    <3>2. x \in KeysIn(I) \ {NullValue}
      BY <2>2, <3>1 DEF KeysIn
    <3>3. best \in KeysIn(I) \ {NullValue} /\ \A w \in KeysIn(I) \ {NullValue} : IF low THEN best <= w ELSE w <= best
      BY <3>2 DEF BestOf, Top
    <3>4. PICK h \in I : group[h].k = best /\ group[h].k # NullValue
      BY <3>3 DEF KeysIn
    <3>5. best \in Int /\ best # NullValue
      BY <3>4
    <3>6. AtBest(group[i], best) <=> x = best
      BY <2>2, <3>1, <3>5, IntGT DEF AtBest
    <3>7. ASSUME x = best PROVE i \in ExtremeIn(I, low)
      <4>1. ASSUME NEW j \in WithKey(I) PROVE IF low THEN group[i].k <= group[j].k ELSE group[j].k <= group[i].k
        <5>1. group[j].k \in KeysIn(I) \ {NullValue}
          BY DEF WithKey, KeysIn
        <5> QED
          BY <3>1, <3>3, <3>7, <5>1
      <4>2. i \in WithKey(I)
        BY <2>2 DEF WithKey
      <4> QED
        BY <4>1, <4>2 DEF ExtremeIn
    <3>8. ASSUME i \in ExtremeIn(I, low) PROVE x = best
      <4>1. h \in WithKey(I)
        BY <3>4 DEF WithKey
      <4>2. IF low THEN x <= best ELSE best <= x
        BY <3>1, <3>4, <3>8, <4>1 DEF ExtremeIn
      <4>3. IF low THEN best <= x ELSE x <= best
        BY <3>2, <3>3
      <4> QED
        BY <3>5, <4>2, <4>3
    <3> QED
      BY <3>6, <3>7, <3>8
  <2> QED
    BY <2>1, <2>2
<1>2. ExtremeIn(I, low) \subseteq I
  BY DEF ExtremeIn, WithKey
<1> QED
  BY <1>1, <1>2

\* bestKey is the extreme of the keys of the rows it is given.
RowsBy(list, q, n) == list = [j \in 1..n |-> group[q[j]]]
LEMMA BestKeyIs ==
    ASSUME NEW n \in Nat, NEW q, NEW I, q \in [1..n -> I], \A i \in I : \E j \in 1..n : q[j] = i,
           \A i \in I : group[i].k \in Int \cup {NullValue}, NEW low \in BOOLEAN,
           NEW list, RowsBy(list, q, n)
    PROVE  BestOf(bestKey(list, low), I, low)
<1> DEFINE vs == [j \in DOMAIN list |-> list[j].k]
<1>1. DOMAIN vs = 1..n /\ \A j \in 1..n : vs[j] = group[q[j]].k
  BY DEF RowsBy
<1>2. \A j \in 1..n : vs[j] \in Int \cup {NullValue}
  BY <1>1
<1>4. bestKey(list, low) = aggMinMax(vs, low)
  BY DEF bestKey
<1> HIDE DEF vs
<1>3. {vs[j] : j \in 1..n} = KeysIn(I)
  <2>1. \A j \in 1..n : vs[j] \in KeysIn(I)
    BY <1>1 DEF KeysIn
  <2>2. ASSUME NEW x \in KeysIn(I) PROVE \E j \in 1..n : vs[j] = x
    <3>1. PICK i \in I : x = group[i].k
      BY DEF KeysIn
    <3>2. PICK j \in 1..n : q[j] = i
      OBVIOUS
    <3> QED
      BY <1>1, <3>1, <3>2
  <2> QED
    BY <2>1, <2>2
<1>5. Top(aggMinMax(vs, low), {vs[k] : k \in 1..n} \ {NullValue}, low)
  BY <1>1, <1>2, MinMaxIs
<1> QED
  BY <1>3, <1>4, <1>5 DEF BestOf

LEMMA KeptIs == Kept = KeptOf(HavingRows)
BY DEF Kept, KeptOf, OnceIn, NotNull

LEMMA HavingIs ==
    ASSUME call.having \in {"MAX", "MIN"}, \A i \in DOMAIN group : group[i].k \in Int \cup {NullValue}
    PROVE  HavingRows = ExtremeIn(DOMAIN group, call.having = "MIN")
<1>1. \A i \in WithKey(DOMAIN group) : group[i].k \in Int
  BY DEF WithKey
<1>2. CASE call.having = "MAX"
  BY <1>1, <1>2 DEF HavingRows, ExtremeIn, WithKey
<1>3. CASE call.having = "MIN"
  BY <1>1, <1>3 DEF HavingRows, ExtremeIn, WithKey
<1> QED
  BY <1>2, <1>3

\* What Done has replayed is exact for the rows kept.
Clean == \A i \in DOMAIN group : group[i].v # Deferred
Asked == call.having # "none" => \A i \in DOMAIN group : group[i].k # NaNValue

LEMMA GroupSound ==
    ASSUME AggInv, Clean
    PROVE  Sound(Len(group)) /\ call.having \in {"none", "MAX", "MIN"} /\ call.args \in {1, 2}
<1>1. group \in Seq([v : Arguments, k : RowKeys]) /\ call \in Calls
  BY DEF AggInv
<1>2. Len(group) \in Nat /\ DOMAIN group = 1..Len(group)
  BY <1>1
<1>3. ASSUME NEW i \in 1..Len(group)
      PROVE  group[i].v \in Int \cup {NullValue, NaNValue} /\ group[i].k \in Int \cup {NullValue, NaNValue}
  <2>1. group[i] \in [v : Arguments, k : RowKeys]
    <3>1. \A T : \A s \in Seq(T) : \A j \in 1..Len(s) : s[j] \in T
      OBVIOUS
    <3> QED
      BY <1>1, <3>1
  <2> QED
    BY <1>2, <2>1, CallsAssumption DEF Clean
<1>4. call.having \in {"none", "MAX", "MIN"} /\ call.args \in {1, 2}
  BY <1>1, CallsAssumption
<1> QED
  BY <1>1, <1>2, <1>3, <1>4 DEF Sound

LEMMA ReplayedIs ==
    ASSUME AggInv, Clean, Asked
    PROVE  ~agg.deferred /\ Exact(replayHaving(agg).f, Kept)
<1> DEFINE n == Len(group)
<1>1. Sound(n) /\ call.having \in {"none", "MAX", "MIN"}
  BY GroupSound
<1>2. n \in Nat /\ DOMAIN group = 1..n
  BY <1>1 DEF Sound
<1>3. WrapperInv(call, group, agg)
  BY DEF AggInv
<1>4. DOMAIN agg = Wrapper /\ ~agg.deferred
  BY <1>3 DEF WrapperInv, Clean
<1>5. CASE call.having = "none"
  <2>1. agg.having = <<>>
    BY <1>3, <1>4, <1>5 DEF WrapperInv
  <2>2. PICK S : Chain(call, S, group, n) /\ agg = S[n]
    BY <1>3, <1>4, <1>5 DEF WrapperInv
  <2>3. Passes(S, n, 1..n)
    BY <2>2, ProcessIs DEF Passes, Chain
  <2>4. Processed(S[0], {})
    BY <2>2, NewProcessed DEF Chain
  <2>5. Processed(S[n], 1..n)
    BY <1>1, <2>3, <2>4, Passing
  <2>6. HavingRows = 1..n
    BY <1>2, <1>5 DEF HavingRows
  <2>7. Exact(agg.f, Kept)
    BY <2>2, <2>5, <2>6, KeptIs DEF Processed
  <2>8. \E T : LoopOf(T, "replay", bestKey(agg.having, call.having = "MIN"), [agg EXCEPT !.having = <<>>], agg.having, 0)
               /\ replayHaving(agg) = T[0]
    <3>1. DOMAIN agg.having = 1..0
      BY <2>1
    <3> QED
      BY <3>1, ReplayLoop
  <2>9. replayHaving(agg) = [agg EXCEPT !.having = <<>>]
    BY <2>8 DEF LoopOf
  <2>10. replayHaving(agg).f = agg.f
    BY <1>4, <2>9 DEF Wrapper
  <2> QED
    BY <1>4, <2>7, <2>10
<1>6. CASE call.having \in {"MAX", "MIN"}
  <2> DEFINE low == call.having = "MIN"
             best == bestKey(group, low)
             H == {i \in 1..n : AtBest(group[i], best)}
  <2>1. agg = [NewAggregator EXCEPT !.having = group]
    BY <1>3, <1>4, <1>6 DEF WrapperInv
  <2>2. agg.having = group
    BY <2>1 DEF NewAggregator
  <2>3. [agg EXCEPT !.having = <<>>] = NewAggregator
    <3>1. \A R : DOMAIN R = Wrapper /\ R.having = <<>> /\ R = [x \in Wrapper |-> R[x]]
                 => [[R EXCEPT !.having = group] EXCEPT !.having = <<>>] = R
      OBVIOUS
    <3>2. NewAggregator = [x \in Wrapper |-> NewAggregator[x]]
      BY DEF NewAggregator, Wrapper
    <3>3. DOMAIN NewAggregator = Wrapper /\ NewAggregator.having = <<>>
      BY DEF NewAggregator, Wrapper
    <3> QED
      BY <2>1, <3>1, <3>2, <3>3
  <2>4. \A i \in 1..n : group[i].k \in Int \cup {NullValue}
    BY <1>1, <1>2, <1>6 DEF Sound, Asked
  <2>5. BestOf(best, 1..n, low)
    <3> DEFINE q == [j \in 1..n |-> j]
    <3>1. q \in [1..n -> 1..n] /\ \A i \in 1..n : q[i] = i
      OBVIOUS
    <3>2. RowsBy(group, q, n)
      BY <1>2, <3>1, GroupSound DEF AggInv, RowsBy
    <3> HIDE DEF q
    <3>3. low \in BOOLEAN
      OBVIOUS
    <3>5. \A i \in 1..n : \E j \in 1..n : q[j] = i
      BY <3>1
    <3> HIDE DEF low, n
    <3> QED
      BY <1>2, <2>4, <3>1, <3>2, <3>3, <3>5, BestKeyIs
  <2>6. HavingRows = H
    <3>1. HavingRows = ExtremeIn(1..n, low)
      BY <1>2, <1>6, <2>4, HavingIs
    <3>2. low \in BOOLEAN
      OBVIOUS
    <3> HIDE DEF low, best
    <3>3. ExtremeIn(1..n, low) = {i \in 1..n : AtBest(group[i], best)}
      BY <2>4, <2>5, <3>2, AtBestIs
    <3> QED
      BY <3>1, <3>3
  <2>7. PICK S : /\ LoopOf(S, "replay", best, NewAggregator, group, n)
                 /\ replayHaving(agg) = S[n]
    <3>1. DOMAIN agg.having = 1..n /\ best = bestKey(agg.having, call.having = "MIN")
      BY <1>2, <2>2
    <3> HIDE DEF best
    <3>2. \E S : /\ LoopOf(S, "replay", best, [agg EXCEPT !.having = <<>>], agg.having, n)
                 /\ replayHaving(agg) = S[n]
      BY <1>2, <3>1, ReplayLoop
    <3> QED
      BY <2>2, <2>3, <3>2
  <2> HIDE DEF best, low
  <2>8. Passes(S, n, H)
    <3>1. ASSUME NEW k \in 1..n PROVE S[k] = IF k \in H THEN process(S[k - 1], group[k]) ELSE S[k - 1]
      <4>1. S[k] = Replay(S[k - 1], group[k], best)
        BY <2>7 DEF LoopOf, Body
      <4> QED
        BY <4>1 DEF Replay
    <3> QED
      BY <3>1 DEF Passes
  <2>9. Processed(S[0], {})
    BY <2>7, NewProcessed DEF LoopOf
  <2>10. Processed(S[n], H)
    BY <1>1, <2>8, <2>9, Passing
  <2> QED
    BY <1>4, <2>6, <2>7, <2>10, KeptIs DEF Processed
<1> QED
  BY <1>1, <1>5, <1>6

-----------------------------------------------------------------------------
(* The order of the rows.                                                  *)

KeyAt(r, i) == OrderKey(r, call.orderBy[i])
EqualAt(x, y, i) == KeyAt(x, i) = KeyAt(y, i) /\ KeyAt(x, i) # NullValue
DecidesAt(x, y, i) == ~EqualAt(x, y, i) /\ \A j \in 1..(i - 1) : EqualAt(x, y, j)
SmallerKey(a, b) == a = NullValue \/ (b # NullValue /\ a < b)
RanksAt(x, y, i) == \/ KeyAt(x, i) = NullValue /\ KeyAt(y, i) = NullValue
                    \/ IF call.orderBy[i].asc THEN SmallerKey(KeyAt(x, i), KeyAt(y, i))
                                              ELSE SmallerKey(KeyAt(y, i), KeyAt(x, i))
LessAt(x, y, i) == IF KeyAt(x, i) = NullValue THEN call.orderBy[i].asc
                   ELSE IF KeyAt(y, i) = NullValue THEN ~call.orderBy[i].asc
                   ELSE IF call.orderBy[i].asc THEN LT(KeyAt(x, i), KeyAt(y, i))
                                               ELSE GT(KeyAt(x, i), KeyAt(y, i))

\* A row without NaN among its sort keys.
Sortable(r) == \A i \in DOMAIN call.orderBy : KeyAt(r, i) \in Int \cup {NullValue}
OrderIs(n) == n \in Nat /\ DOMAIN call.orderBy = 1..n /\ \A i \in 1..n : call.orderBy[i].asc \in BOOLEAN

LEMMA BeforeIs == \A x, y : Before(x, y) <=> \A i \in DOMAIN call.orderBy : DecidesAt(x, y, i) => RanksAt(x, y, i)
BY DEF Before, DecidesAt, EqualAt, RanksAt, SmallerKey, KeyAt

LEMMA LessIs == \A x, y : less(x, y) <=> \E i \in DOMAIN call.orderBy : DecidesAt(x, y, i) /\ LessAt(x, y, i)
<1> SUFFICES ASSUME NEW x, NEW y
             PROVE  less(x, y) <=> \E i \in DOMAIN call.orderBy : DecidesAt(x, y, i) /\ LessAt(x, y, i)
  OBVIOUS
<1> DEFINE Dec(j) == KeyAt(x, j) = NullValue \/ KeyAt(y, j) = NullValue \/ KeyAt(x, j) # KeyAt(y, j)
           By(a, b, asc) == CASE a = NullValue -> asc
                              [] a # NullValue /\ b = NullValue -> ~asc
                              [] OTHER -> IF asc THEN LT(a, b) ELSE GT(a, b)
<1>1. less(x, y) <=> \E i \in DOMAIN call.orderBy : /\ Dec(i) /\ \A j \in 1..(i - 1) : ~Dec(j)
                                                    /\ By(KeyAt(x, i), KeyAt(y, i), call.orderBy[i].asc)
  BY DEF less, KeyAt
<1>2. \A j : Dec(j) <=> ~EqualAt(x, y, j)
  BY DEF EqualAt
<1>3. ASSUME NEW i PROVE By(KeyAt(x, i), KeyAt(y, i), call.orderBy[i].asc) <=> LessAt(x, y, i)
  <2>1. CASE KeyAt(x, i) = NullValue
    BY <2>1 DEF LessAt
  <2>2. CASE KeyAt(x, i) # NullValue /\ KeyAt(y, i) = NullValue
    BY <2>2 DEF LessAt
  <2>3. CASE KeyAt(x, i) # NullValue /\ KeyAt(y, i) # NullValue
    BY <2>3 DEF LessAt
  <2> QED
    BY <2>1, <2>2, <2>3
<1> HIDE DEF Dec, By
<1>4. ASSUME NEW i PROVE (Dec(i) /\ \A j \in 1..(i - 1) : ~Dec(j)) <=> DecidesAt(x, y, i)
  BY <1>2 DEF DecidesAt
<1> QED
  BY <1>1, <1>3, <1>4

LEMMA LessBefore ==
    ASSUME NEW n, OrderIs(n), NEW x, NEW y, Sortable(x), Sortable(y)
    PROVE  (less(x, y) => Before(x, y)) /\ (~less(x, y) => Before(y, x))
<1>0. n \in Nat /\ DOMAIN call.orderBy = 1..n /\ \A i \in 1..n : call.orderBy[i].asc \in BOOLEAN
  BY DEF OrderIs
<1>1. ASSUME NEW i \in 1..n
      PROVE  (LessAt(x, y, i) => RanksAt(x, y, i)) /\ (~LessAt(x, y, i) /\ ~EqualAt(x, y, i) => RanksAt(y, x, i))
  <2>1. KeyAt(x, i) \in Int \cup {NullValue} /\ KeyAt(y, i) \in Int \cup {NullValue} /\ call.orderBy[i].asc \in BOOLEAN
    BY <1>0 DEF Sortable
  <2>2. PICK a, b, asc : a = KeyAt(x, i) /\ b = KeyAt(y, i) /\ asc = call.orderBy[i].asc
    OBVIOUS
  <2>3. a \in Int \cup {NullValue} /\ b \in Int \cup {NullValue} /\ asc \in BOOLEAN
    BY <2>1, <2>2
  <2>4. LessAt(x, y, i) <=> IF a = NullValue THEN asc ELSE IF b = NullValue THEN ~asc
                            ELSE IF asc THEN LT(a, b) ELSE GT(a, b)
    BY <2>2 DEF LessAt
  <2>5. RanksAt(x, y, i) <=> (a = NullValue /\ b = NullValue) \/ IF asc THEN SmallerKey(a, b) ELSE SmallerKey(b, a)
    BY <2>2 DEF RanksAt
  <2>6. RanksAt(y, x, i) <=> (a = NullValue /\ b = NullValue) \/ IF asc THEN SmallerKey(b, a) ELSE SmallerKey(a, b)
    BY <2>2 DEF RanksAt
  <2>7. EqualAt(x, y, i) <=> a = b /\ a # NullValue
    BY <2>2 DEF EqualAt
  <2>8. a \in Int /\ b \in Int => (GT(a, b) <=> a > b) /\ (LT(a, b) <=> a < b)
    BY IntGT
  <2> QED
    BY <2>3, <2>4, <2>5, <2>6, <2>7, <2>8 DEF SmallerKey
<1>2. \A i \in 1..n : DecidesAt(x, y, i) => DecidesAt(y, x, i)
  BY DEF DecidesAt, EqualAt
<1>6. \A i \in 1..n : DecidesAt(y, x, i) => DecidesAt(x, y, i)
  BY DEF DecidesAt, EqualAt
<1>3. ASSUME NEW i \in 1..n, NEW j \in 1..n, DecidesAt(x, y, i), DecidesAt(x, y, j) PROVE i = j
  <2>1. ~(i < j)
    BY <1>0, <1>3 DEF DecidesAt
  <2>2. ~(j < i)
    BY <1>0, <1>3 DEF DecidesAt
  <2> QED
    BY <1>0, <2>1, <2>2
<1>4. ASSUME less(x, y) PROVE Before(x, y)
  <2>1. PICK i \in 1..n : DecidesAt(x, y, i) /\ LessAt(x, y, i)
    BY <1>0, <1>4, LessIs
  <2>2. \A j \in 1..n : DecidesAt(x, y, j) => RanksAt(x, y, j)
    BY <1>1, <1>3, <2>1
  <2> QED
    BY <1>0, <2>2, BeforeIs
<1>5. ASSUME ~less(x, y) PROVE Before(y, x)
  <2>1. \A i \in 1..n : DecidesAt(x, y, i) => ~LessAt(x, y, i) /\ ~EqualAt(x, y, i)
    BY <1>0, <1>5, LessIs DEF DecidesAt
  <2>2. \A j \in 1..n : DecidesAt(y, x, j) => RanksAt(y, x, j)
    BY <1>1, <1>6, <2>1
  <2> QED
    BY <1>0, <2>2, BeforeIs
<1> QED
  BY <1>4, <1>5

LEMMA BeforeTrans ==
    ASSUME NEW n, OrderIs(n), NEW x, NEW y, NEW z, Sortable(x), Sortable(y), Sortable(z),
           Before(x, y), Before(y, z)
    PROVE  Before(x, z)
<1>0. n \in Nat /\ DOMAIN call.orderBy = 1..n /\ \A i \in 1..n : call.orderBy[i].asc \in BOOLEAN
  BY DEF OrderIs
<1>1. /\ \A i \in 1..n : DecidesAt(x, y, i) => RanksAt(x, y, i)
      /\ \A i \in 1..n : DecidesAt(y, z, i) => RanksAt(y, z, i)
  BY <1>0, BeforeIs
<1>2. ASSUME NEW i \in 1..n, DecidesAt(x, z, i) PROVE RanksAt(x, z, i)
  <2>0. PICK a, b, c, asc : a = KeyAt(x, i) /\ b = KeyAt(y, i) /\ c = KeyAt(z, i) /\ asc = call.orderBy[i].asc
    OBVIOUS
  <2>1. a \in Int \cup {NullValue} /\ b \in Int \cup {NullValue} /\ c \in Int \cup {NullValue} /\ asc \in BOOLEAN
    BY <1>0, <2>0 DEF Sortable
  <2>2. \A l \in 1..(i - 1) : EqualAt(x, z, l) /\ l \in 1..n
    BY <1>0, <1>2 DEF DecidesAt
  <2>3. \A l \in 1..(i - 1) : EqualAt(x, y, l)
    <3> SUFFICES ASSUME ~\A l \in 1..(i - 1) : EqualAt(x, y, l) PROVE FALSE
      OBVIOUS
    <3> DEFINE M == {l \in 1..(i - 1) : ~EqualAt(x, y, l)}
    <3>1. M \subseteq Nat /\ M # {}
      BY <1>0
    <3>2. PICK l \in M : \A m \in M : l <= m
      BY <3>1, LeastNat
    <3>3. l \in 1..(i - 1) /\ l \in 1..n /\ ~EqualAt(x, y, l)
      BY <2>2, <3>2
    <3>4. \A h \in 1..(l - 1) : EqualAt(x, y, h) /\ EqualAt(x, z, h)
      <4>1. ASSUME NEW h \in 1..(l - 1) PROVE h \in 1..(i - 1) /\ h < l
        BY <1>0, <3>3
      <4> QED
        BY <1>0, <2>2, <3>2, <3>3, <4>1
    <3>5. \A h \in 1..(l - 1) : EqualAt(y, z, h)
      BY <3>4 DEF EqualAt
    <3>6. EqualAt(x, z, l)
      BY <2>2, <3>3
    <3>7. ~EqualAt(y, z, l)
      BY <3>3, <3>6 DEF EqualAt
    <3>8. RanksAt(x, y, l) /\ RanksAt(y, z, l)
      BY <1>1, <3>3, <3>4, <3>5, <3>7 DEF DecidesAt
    <3>9. PICK d, e : d = KeyAt(x, l) /\ e = KeyAt(y, l)
      OBVIOUS
    <3>10. d = KeyAt(z, l) /\ d # NullValue /\ d # e
      BY <3>3, <3>6, <3>9 DEF EqualAt
    <3>11. d \in Int /\ e \in Int \cup {NullValue}
      BY <1>0, <3>3, <3>9, <3>10 DEF Sortable
    <3>12. IF call.orderBy[l].asc THEN SmallerKey(d, e) ELSE SmallerKey(e, d)
      BY <3>8, <3>9, <3>10 DEF RanksAt
    <3>13. IF call.orderBy[l].asc THEN SmallerKey(e, d) ELSE SmallerKey(d, e)
      BY <3>8, <3>9, <3>10 DEF RanksAt
    <3>14. SmallerKey(d, e) /\ SmallerKey(e, d)
      BY <3>12, <3>13
    <3> QED
      BY <3>10, <3>11, <3>14 DEF SmallerKey
  <2>4. \A l \in 1..(i - 1) : EqualAt(y, z, l)
    BY <2>2, <2>3 DEF EqualAt
  <2>5. (~EqualAt(x, y, i) => RanksAt(x, y, i)) /\ (~EqualAt(y, z, i) => RanksAt(y, z, i))
    BY <1>1, <2>3, <2>4 DEF DecidesAt
  <2>6. ~EqualAt(x, z, i)
    BY <1>2 DEF DecidesAt
  <2>7. (EqualAt(x, y, i) <=> a = b /\ a # NullValue) /\ (EqualAt(y, z, i) <=> b = c /\ b # NullValue)
    BY <2>0 DEF EqualAt
  <2>8. /\ RanksAt(x, y, i) <=> (a = NullValue /\ b = NullValue) \/ IF asc THEN SmallerKey(a, b) ELSE SmallerKey(b, a)
        /\ RanksAt(y, z, i) <=> (b = NullValue /\ c = NullValue) \/ IF asc THEN SmallerKey(b, c) ELSE SmallerKey(c, b)
        /\ RanksAt(x, z, i) <=> (a = NullValue /\ c = NullValue) \/ IF asc THEN SmallerKey(a, c) ELSE SmallerKey(c, a)
    BY <2>0 DEF RanksAt
  <2>9. ~(a = c /\ a # NullValue)
    BY <2>0, <2>6 DEF EqualAt
  <2>10. CASE asc
    BY <2>1, <2>5, <2>7, <2>8, <2>9, <2>10 DEF SmallerKey
  <2>11. CASE ~asc
    BY <2>1, <2>5, <2>7, <2>8, <2>9, <2>11 DEF SmallerKey
  <2> QED
    BY <2>10, <2>11
<1> QED
  BY <1>0, <1>2, BeforeIs

-----------------------------------------------------------------------------
(* Sorting.                                                                *)

\* t holds k rows of the group with numbers of I, each once, in order.
Arranged(t, k, I) ==
  \E p \in [1..k -> I] : /\ \A a, b \in 1..k : a < b => p[a] # p[b] /\ Before(group[p[a]], group[p[b]])
                         /\ t = [j \in 1..k |-> group[p[j]]]

Inserts(u, t, k, x, c) == u = [j \in 1..(k + 1) |-> IF j <= c THEN t[j] ELSE IF j = c + 1 THEN x ELSE t[j - 1]]

LEMMA SlidePlaces ==
    ASSUME NEW k \in Nat, NEW t, NEW R, t \in Seq(R), Len(t) = k, NEW x \in R
    PROVE  \E c \in 0..k : /\ c > 0 => ~less(x, t[c])
                           /\ \A j \in (c + 1)..k : less(x, t[j])
                           /\ Inserts(Slide(t, x), t, k, x, c)
<1> DEFINE Fit(c) == (c > 0 => ~less(x, t[c])) /\ \A j \in (c + 1)..k : less(x, t[j])
           c == CHOOSE c \in 0..k : Fit(c)
<1>1. Slide(t, x) = SubSeq(t, 1, c) \o <<x>> \o SubSeq(t, c + 1, k)
  BY DEF Slide
<1>2. \E d \in 0..k : Fit(d)
  <2> DEFINE D == {d \in 0..k : \A j \in (d + 1)..k : less(x, t[j])}
  <2>1. k \in D /\ D \subseteq Nat
    OBVIOUS
  <2>2. PICK d \in D : \A e \in D : d <= e
    BY <2>1, LeastNat
  <2>3. ASSUME d > 0 PROVE ~less(x, t[d])
    <3> SUFFICES ASSUME less(x, t[d]) PROVE FALSE
      OBVIOUS
    <3>1. d - 1 \in 0..k
      BY <2>2, <2>3
    <3>2. \A j \in ((d - 1) + 1)..k : less(x, t[j])
      <4>1. \A j \in ((d - 1) + 1)..k : j = d \/ j \in (d + 1)..k
        BY <2>2
      <4> QED
        BY <2>2, <4>1
    <3>3. d - 1 \in D
      BY <3>1, <3>2
    <3>4. d <= d - 1 /\ d \in Int
      BY <2>1, <2>2, <3>3
    <3> QED
      BY <3>4
  <2>4. d \in 0..k /\ \A j \in (d + 1)..k : less(x, t[j])
    BY <2>2
  <2> QED
    BY <2>3, <2>4
<1> HIDE DEF Fit
<1>3. c \in 0..k /\ Fit(c)
  BY <1>2
<1> HIDE DEF c
<1>4. SubSeq(t, 1, c) \in Seq(R) /\ Len(SubSeq(t, 1, c)) = c /\ \A j \in 1..c : SubSeq(t, 1, c)[j] = t[j]
  BY <1>3
<1>5. /\ SubSeq(t, c + 1, k) \in Seq(R) /\ Len(SubSeq(t, c + 1, k)) = k - c
      /\ \A j \in 1..(k - c) : SubSeq(t, c + 1, k)[j] = t[c + j]
  BY <1>3
<1>6. PICK A \in Seq(R), B \in Seq(R) : A = SubSeq(t, 1, c) /\ B = SubSeq(t, c + 1, k)
  BY <1>4, <1>5
<1>7. Len(A) = c /\ Len(B) = k - c /\ (\A j \in 1..c : A[j] = t[j]) /\ \A j \in 1..(k - c) : B[j] = t[c + j]
  BY <1>4, <1>5, <1>6
<1> DEFINE AX == A \o <<x>>
           u == AX \o B
<1>8. AX \in Seq(R) /\ Len(AX) = c + 1 /\ (\A j \in 1..c : AX[j] = A[j]) /\ AX[c + 1] = x
  BY <1>3, <1>7
<1> HIDE DEF AX
<1>14. u \in Seq(R) /\ Len(u) = Len(AX) + Len(B)
  BY <1>6, <1>8
<1>15. \A j \in 1..Len(AX) : u[j] = AX[j]
  BY <1>6, <1>8
<1>16. ASSUME NEW j \in 1..Len(B) PROVE u[Len(AX) + j] = B[j]
  <2>1. PICK h \in Int : h = Len(AX) + j
    BY <1>8
  <2>2. h \in 1..(Len(AX) + Len(B)) /\ ~(h <= Len(AX)) /\ h - Len(AX) = j
    BY <1>6, <1>8, <2>1
  <2>3. \A s1, s2 \in Seq(R) : \A l \in 1..(Len(s1) + Len(s2)) : l > Len(s1) => (s1 \o s2)[l] = s2[l - Len(s1)]
    OBVIOUS
  <2>5. AX \in Seq(R) /\ B \in Seq(R) /\ Len(AX) \in Nat
    BY <1>6, <1>8
  <2>6. h > Len(AX)
    BY <2>2, <2>5
  <2>4. u[h] = B[j]
    BY <2>2, <2>3, <2>5, <2>6
  <2> QED
    BY <2>1, <2>4
<1> HIDE DEF u
<1>17. Len(AX) = c + 1 /\ Len(B) = k - c /\ Len(AX) + Len(B) = k + 1
  BY <1>3, <1>7, <1>8
<1>9. u \in Seq(R) /\ Len(u) = k + 1 /\ (\A j \in 1..(c + 1) : u[j] = AX[j]) /\ \A j \in 1..(k - c) : u[(c + 1) + j] = B[j]
  BY <1>14, <1>15, <1>16, <1>17
<1>10. u = [j \in 1..(k + 1) |-> u[j]]
  BY <1>9
<1>11. ASSUME NEW j \in 1..(k + 1) PROVE u[j] = IF j <= c THEN t[j] ELSE IF j = c + 1 THEN x ELSE t[j - 1]
  <2>1. CASE j <= c
    <3>1. j \in 1..c /\ j \in 1..(c + 1)
      BY <1>3, <2>1
    <3> QED
      BY <1>7, <1>8, <1>9, <2>1, <3>1
  <2>2. CASE j = c + 1
    <3>1. c + 1 \in 1..(c + 1) /\ ~(j <= c)
      BY <1>3, <2>2
    <3> QED
      BY <1>8, <1>9, <2>2, <3>1
  <2>3. CASE j > c + 1
    <3>1. PICK h \in Int : h = j - (c + 1)
      BY <1>3
    <3>2. h \in 1..(k - c) /\ (c + 1) + h = j /\ c + h = j - 1 /\ ~(j <= c) /\ j # c + 1
      BY <1>3, <2>3, <3>1
    <3>3. u[(c + 1) + h] = B[h] /\ B[h] = t[c + h]
      BY <1>7, <1>9, <3>2
    <3> QED
      BY <3>2, <3>3
  <2> QED
    BY <1>3, <2>1, <2>2, <2>3
<1>12. Inserts(u, t, k, x, c)
  BY <1>10, <1>11 DEF Inserts
<1>13. Slide(t, x) = u
  BY <1>1, <1>6 DEF u, AX
<1> QED
  BY <1>3, <1>12, <1>13 DEF Fit

LEMMA ArrangedNext ==
    ASSUME NEW n, OrderIs(n), NEW J, \A i \in J : Sortable(group[i]), NEW k \in Nat, NEW I, I \subseteq J,
           NEW t, Arranged(t, k, I), NEW i \in J, i \notin I
    PROVE  Arranged(Slide(t, group[i]), k + 1, I \cup {i})
<1> DEFINE x == group[i]
           u == Slide(t, x)
<1>1. PICK p \in [1..k -> I] : /\ \A a, b \in 1..k : a < b => p[a] # p[b] /\ Before(group[p[a]], group[p[b]])
                               /\ t = [j \in 1..k |-> group[p[j]]]
  BY DEF Arranged
<1>2. PICK R : R = {group[j] : j \in J}
  OBVIOUS
<1>3. t \in Seq(R) /\ Len(t) = k /\ x \in R /\ \A j \in 1..k : t[j] = group[p[j]]
  <2>1. \A j \in 1..k : group[p[j]] \in R
    BY <1>1, <1>2
  <2>2. t \in [1..k -> R]
    BY <1>1, <2>1
  <2>3. x \in R
    BY <1>2
  <2> HIDE DEF x
  <2> QED
    BY <1>1, <2>2, <2>3
<1> HIDE DEF x
<1>4. PICK c \in 0..k : /\ c > 0 => ~less(x, t[c])
                        /\ \A j \in (c + 1)..k : less(x, t[j])
                        /\ Inserts(u, t, k, x, c)
  BY <1>3, SlidePlaces
<1>5. Sortable(x) /\ \A j \in 1..k : Sortable(t[j])
  BY <1>1, <1>3 DEF x
<1>6. \A a, b \in 1..k : a < b => Before(t[a], t[b])
  BY <1>1, <1>3
<1>7. \A j \in (c + 1)..k : Before(x, t[j])
  <2>1. \A j \in (c + 1)..k : j \in 1..k
    BY <1>4
  <2> QED
    BY <1>4, <1>5, <2>1, LessBefore
<1>8. ASSUME NEW j \in 1..c PROVE Before(t[j], x)
  <2>1. c \in 1..k /\ c > 0 /\ j \in 1..k
    BY <1>4, <1>8
  <2>2. Before(t[c], x)
    BY <1>4, <1>5, <2>1, LessBefore
  <2>3. CASE j = c
    BY <2>2, <2>3
  <2>4. CASE j # c
    <3>1. j < c
      BY <1>4, <2>4
    <3>2. Before(t[j], t[c])
      BY <1>6, <2>1, <3>1
    <3> QED
      BY <1>5, <2>1, <2>2, <3>2, BeforeTrans
  <2> QED
    BY <2>3, <2>4
<1> DEFINE r == [j \in 1..(k + 1) |-> IF j <= c THEN p[j] ELSE IF j = c + 1 THEN i ELSE p[j - 1]]
<1>9. ASSUME NEW j \in 1..(k + 1)
      PROVE  \/ j \in 1..c /\ j \in 1..k /\ r[j] = p[j] /\ u[j] = t[j]
             \/ j = c + 1 /\ r[j] = i /\ u[j] = x
             \/ j > c + 1 /\ j - 1 \in (c + 1)..k /\ j - 1 \in 1..k /\ r[j] = p[j - 1] /\ u[j] = t[j - 1]
  <2>0. u[j] = IF j <= c THEN t[j] ELSE IF j = c + 1 THEN x ELSE t[j - 1]
    BY <1>4 DEF Inserts
  <2>1. CASE j <= c
    BY <1>4, <2>0, <2>1
  <2>2. CASE j = c + 1
    BY <1>4, <2>0, <2>2
  <2>3. CASE j > c + 1
    BY <1>4, <2>0, <2>3
  <2> QED
    BY <1>4, <2>1, <2>2, <2>3
<1>10. u = [j \in 1..(k + 1) |-> u[j]]
  BY <1>4 DEF Inserts
<1>11. DOMAIN r = 1..(k + 1) /\ r = [j \in 1..(k + 1) |-> r[j]]
  OBVIOUS
<1> HIDE DEF r, u
<1>12. r \in [1..(k + 1) -> I \cup {i}]
  <2>1. \A j \in 1..(k + 1) : r[j] \in I \cup {i}
    BY <1>1, <1>9
  <2> QED
    BY <1>11, <2>1
<1>13. \A j \in 1..(k + 1) : u[j] = group[r[j]]
  BY <1>3, <1>9 DEF x
<1>14. ASSUME NEW a \in 1..(k + 1), NEW b \in 1..(k + 1), a < b
       PROVE  r[a] # r[b] /\ Before(u[a], u[b])
  <2>1. CASE a \in 1..c /\ a \in 1..k /\ r[a] = p[a] /\ u[a] = t[a]
    <3>1. CASE b \in 1..c /\ b \in 1..k /\ r[b] = p[b] /\ u[b] = t[b]
      BY <1>1, <1>6, <1>14, <2>1, <3>1
    <3>2. CASE b = c + 1 /\ r[b] = i /\ u[b] = x
      BY <1>1, <1>8, <2>1, <3>2
    <3>3. CASE b > c + 1 /\ b - 1 \in (c + 1)..k /\ b - 1 \in 1..k /\ r[b] = p[b - 1] /\ u[b] = t[b - 1]
      <4>1. a < b - 1
        BY <1>4, <2>1, <3>3
      <4> QED
        BY <1>1, <1>6, <2>1, <3>3, <4>1
    <3> QED
      BY <1>9, <3>1, <3>2, <3>3
  <2>2. CASE a = c + 1 /\ r[a] = i /\ u[a] = x
    <3>1. b > c + 1 /\ b - 1 \in (c + 1)..k /\ b - 1 \in 1..k /\ r[b] = p[b - 1] /\ u[b] = t[b - 1]
      BY <1>4, <1>9, <1>14, <2>2
    <3> QED
      BY <1>1, <1>7, <2>2, <3>1
  <2>3. CASE a > c + 1 /\ a - 1 \in (c + 1)..k /\ a - 1 \in 1..k /\ r[a] = p[a - 1] /\ u[a] = t[a - 1]
    <3>1. b > c + 1 /\ b - 1 \in (c + 1)..k /\ b - 1 \in 1..k /\ r[b] = p[b - 1] /\ u[b] = t[b - 1]
      BY <1>4, <1>9, <1>14, <2>3
    <3>2. a - 1 < b - 1
      BY <1>4, <1>14
    <3> QED
      BY <1>1, <1>6, <2>3, <3>1, <3>2
  <2> QED
    BY <1>9, <2>1, <2>2, <2>3
<1>15. u = [j \in 1..(k + 1) |-> group[r[j]]]
  BY <1>10, <1>13
<1>16. Arranged(u, k + 1, I \cup {i})
  BY <1>12, <1>13, <1>14, <1>15 DEF Arranged
<1> QED
  BY <1>16 DEF u, x

\* t holds the m rows I in the order asked for.
OrderedRows(t, m, I, p) ==
  /\ p \in [1..m -> I] /\ t = [j \in 1..m |-> group[p[j]]]
  /\ \A a, b \in 1..m : a < b => /\ p[a] # p[b]
                                 /\ IF call.orderBy = <<>> THEN p[a] < p[b] ELSE Before(group[p[a]], group[p[b]])

LEMMA SortingOrders ==
    ASSUME NEW n, OrderIs(n), NEW I, I \subseteq Int, \A i \in I : Sortable(group[i]),
           NEW q, NEW m, Listed(q, m, I), NEW s, RowsBy(s, q, m)
    PROVE  \E p : OrderedRows(SortAggregatedValues(s), m, I, p)
<1>0. m \in Nat /\ q \in [1..m -> I] /\ \A a, b \in 1..m : a < b => q[a] < q[b]
  BY DEF Listed
<1>1. DOMAIN s = 1..m /\ \A j \in 1..m : s[j] = group[q[j]]
  BY DEF RowsBy
<1>2. ASSUME NEW a \in 1..m, NEW b \in 1..m, a < b PROVE q[a] # q[b]
  <2>1. q[a] < q[b] /\ q[a] \in Int /\ q[b] \in Int
    BY <1>0, <1>2
  <2> QED
    BY <2>1
<1>3. CASE call.orderBy = <<>>
  <2>1. SortAggregatedValues(s) = s
    BY <1>3 DEF SortAggregatedValues
  <2>2. OrderedRows(s, m, I, q)
    BY <1>0, <1>2, <1>3 DEF OrderedRows, RowsBy
  <2> QED
    BY <2>1, <2>2
<1>4. CASE call.orderBy # <<>>
  <2>1. PICK S : LoopOf(S, "slide", 0, <<>>, s, m) /\ FoldLeft(Slide, <<>>, s) = S[m]
    BY <1>0, <1>1, SlideLoop
  <2> DEFINE Q(k) == {q[j] : j \in 1..k}
             T == {k \in Nat : k <= m => Arranged(S[k], k, Q(k))}
  <2>2. 0 \in T
    <3>1. S[0] = <<>>
      BY <2>1 DEF LoopOf
    <3>2. <<>> \in [1..0 -> Q(0)] /\ <<>> = [j \in 1..0 |-> group[<<>>[j]]] /\ 1..0 = {}
      OBVIOUS
    <3>3. Arranged(<<>>, 0, Q(0))
      BY <3>2 DEF Arranged
    <3> QED
      BY <3>1, <3>3
  <2>3. ASSUME NEW k \in Nat, k \in T PROVE k + 1 \in T
    <3> SUFFICES ASSUME k + 1 <= m PROVE Arranged(S[k + 1], k + 1, Q(k + 1))
      OBVIOUS
    <3>1. Arranged(S[k], k, Q(k))
      BY <1>0, <2>3
    <3>2. k + 1 \in 1..m /\ (k + 1) - 1 = k
      BY <1>0
    <3>3. S[k + 1] = Slide(S[k], group[q[k + 1]])
      BY <1>1, <2>1, <3>2 DEF LoopOf, Body
    <3>4. Q(k) \subseteq I /\ q[k + 1] \in I /\ q[k + 1] \notin Q(k)
      <4>1. \A j \in 1..k : j \in 1..m /\ j < k + 1
        BY <1>0
      <4> QED
        BY <1>0, <1>2, <3>2, <4>1
    <3>5. Q(k + 1) = Q(k) \cup {q[k + 1]}
      <4>1. \A j : j \in 1..(k + 1) <=> j \in 1..k \/ j = k + 1
        OBVIOUS
      <4> QED
        BY <4>1
    <3> HIDE DEF Q
    <3>6. Arranged(Slide(S[k], group[q[k + 1]]), k + 1, Q(k) \cup {q[k + 1]})
      BY <3>1, <3>4, ArrangedNext
    <3> QED
      BY <3>3, <3>5, <3>6
  <2>4. \A k \in Nat : k \in T => k + 1 \in T
    BY <2>3
  <2> HIDE DEF T
  <2>5. Nat \subseteq T
    BY <2>2, <2>4, NatSet
  <2>6. m \in T
    BY <1>0, <2>5
  <2>12. Q(m) \subseteq I
    BY <1>0
  <2> HIDE DEF Q
  <2>13. Arranged(S[m], m, Q(m))
    BY <1>0, <2>6 DEF T
  <2>7. Arranged(S[m], m, Q(m)) /\ Q(m) \subseteq I
    BY <2>12, <2>13
  <2>8. PICK p \in [1..m -> Q(m)] :
          /\ \A a, b \in 1..m : a < b => p[a] # p[b] /\ Before(group[p[a]], group[p[b]])
          /\ S[m] = [j \in 1..m |-> group[p[j]]]
    BY <2>7 DEF Arranged
  <2>9. p \in [1..m -> I]
    BY <2>7, <2>8
  <2>10. OrderedRows(S[m], m, I, p)
    BY <1>4, <2>8, <2>9 DEF OrderedRows
  <2>11. SortAggregatedValues(s) = S[m]
    BY <1>4, <2>1 DEF SortAggregatedValues
  <2> QED
    BY <2>10, <2>11
<1> QED
  BY <1>3, <1>4

\* What LIMIT leaves of m rows.
Left(m) == IF call.limit = NoLimit THEN m ELSE IF call.limit < m THEN call.limit ELSE m

LEMMA CutsOff ==
    ASSUME call.limit \in Nat \cup {NoLimit}, NEW m \in Nat, NEW I, NEW p, NEW s,
           OrderedRows(SortAggregatedValues(s), m, I, p)
    PROVE  Left(m) \in 0..m /\ Column(First(s)) = [i \in 1..Left(m) |-> group[p[i]].v]
<1> DEFINE t == SortAggregatedValues(s)
<1>1. t = [j \in 1..m |-> group[p[j]]]
  BY DEF OrderedRows
<1>2. First(s) = IF call.limit = NoLimit \/ call.limit > Len(t) THEN t ELSE SubSeq(t, 1, call.limit)
  BY DEF First
<1> HIDE DEF t
<1>3. Len(t) = m /\ DOMAIN t = 1..m /\ \A j \in 1..m : t[j] = group[p[j]]
  BY <1>1
<1>4. CASE call.limit = NoLimit \/ call.limit > m
  <2>1. Left(m) = m
    BY <1>4, CallsAssumption DEF Left
  <2>2. First(s) = t
    BY <1>2, <1>3, <1>4
  <2>3. Column(t) = [i \in 1..m |-> group[p[i]].v]
    BY <1>3 DEF Column
  <2> QED
    BY <2>1, <2>2, <2>3
<1>5. CASE ~(call.limit = NoLimit \/ call.limit > m)
  <2>1. PICK l \in Nat : l = call.limit
    BY <1>5
  <2>2. l \in 0..m /\ Left(m) = l
    BY <1>5, <2>1 DEF Left
  <2>3. First(s) = SubSeq(t, 1, l)
    BY <1>2, <1>3, <1>5, <2>1
  <2>4. DOMAIN SubSeq(t, 1, l) = 1..l /\ \A j \in 1..l : SubSeq(t, 1, l)[j] = t[j]
    <3>1. PICK R : R = {group[p[j]] : j \in 1..m}
      OBVIOUS
    <3>2. t \in Seq(R)
      BY <1>1, <3>1
    <3>3. SubSeq(t, 1, l) \in Seq(R) /\ Len(SubSeq(t, 1, l)) = l
      BY <1>3, <2>2, <3>2
    <3> QED
      BY <1>3, <2>2, <3>2, <3>3
  <2>5. PICK u : u = SubSeq(t, 1, l)
    OBVIOUS
  <2>6. DOMAIN u = 1..l /\ \A j \in 1..l : u[j] = group[p[j]]
    BY <1>3, <2>2, <2>4, <2>5
  <2>7. Column(u) = [i \in 1..l |-> group[p[i]].v]
    BY <2>6 DEF Column
  <2> QED
    BY <2>2, <2>3, <2>5, <2>7
<1> QED
  BY <1>4, <1>5

LEMMA FirstInOrder ==
    ASSUME AggInv, Clean, NEW I \in SUBSET DOMAIN group, NEW s, RowsAt(s, I)
    PROVE  /\ InOrder(Column(First(s)), I)
           /\ s = <<>> <=> I = {}
           /\ Column(First(s)) = <<>> <=> I = {} \/ call.limit = 0
<1>1. Sound(Len(group)) /\ call \in Calls /\ SortKeys(call, group)
  BY GroupSound DEF AggInv
<1>2. DOMAIN group \subseteq Int
  BY <1>1 DEF Sound
<1>3. call.limit \in Nat \cup {NoLimit} /\ call.orderBy \in Seq([by : {"v", "k"}, asc : BOOLEAN])
  BY <1>1, CallsAssumption
<1>4. OrderIs(Len(call.orderBy))
  <2>1. \A T : \A o \in Seq(T) : Len(o) \in Nat /\ DOMAIN o = 1..Len(o) /\ \A i \in 1..Len(o) : o[i] \in T
    OBVIOUS
  <2>2. PICK o \in Seq([by : {"v", "k"}, asc : BOOLEAN]) : o = call.orderBy
    BY <1>3
  <2>3. Len(o) \in Nat /\ DOMAIN o = 1..Len(o) /\ \A i \in 1..Len(o) : o[i] \in [by : {"v", "k"}, asc : BOOLEAN]
    BY <2>1
  <2>4. \A i \in 1..Len(o) : o[i].asc \in BOOLEAN
    BY <2>3
  <2> QED
    BY <2>2, <2>3, <2>4 DEF OrderIs
<1>5. ASSUME NEW i \in I PROVE Sortable(group[i])
  <2>1. /\ group[i].v \in Int \cup {NullValue, NaNValue} /\ group[i].k \in Int \cup {NullValue, NaNValue}
    BY <1>1 DEF Sound
  <2>2. \A o : OrderKey(group[i], o) \in Int \cup {NullValue, NaNValue}
    BY <2>1 DEF OrderKey
  <2> QED
    BY <1>1, <2>2 DEF Sortable, KeyAt, SortKeys
<1>6. PICK q, m : Listed(q, m, I) /\ s = [j \in 1..m |-> group[q[j]]]
  BY DEF RowsAt
<1>7. RowsBy(s, q, m)
  BY <1>6 DEF RowsBy
<1>8. Cardinality(I) = m /\ m \in Nat
  BY <1>2, <1>6, ListedSize
<1>9. PICK p : OrderedRows(SortAggregatedValues(s), m, I, p)
  BY <1>2, <1>4, <1>5, <1>6, <1>7, SortingOrders
<1>10. Left(m) \in 0..m /\ Column(First(s)) = [i \in 1..Left(m) |-> group[p[i]].v]
  BY <1>3, <1>8, <1>9, CutsOff
<1>11. I = {} <=> m = 0
  <2>1. (\A i \in I : \E j \in 1..m : q[j] = i) /\ q \in [1..m -> I]
    BY <1>6 DEF Listed
  <2>2. m = 0 => I = {}
    BY <2>1
  <2>3. m # 0 => 1 \in 1..m
    BY <1>8
  <2> QED
    BY <2>1, <2>2, <2>3
<1>12. s = <<>> <=> I = {}
  <2>1. s = <<>> <=> m = 0
    BY <1>6, <1>8
  <2> QED
    BY <1>11, <2>1
<1>13. Left(m) = 0 <=> m = 0 \/ call.limit = 0
  <2>1. call.limit = NoLimit => call.limit # 0
    BY CallsAssumption
  <2> QED
    BY <1>3, <1>8, <2>1 DEF Left
<1>14. Column(First(s)) = <<>> <=> I = {} \/ call.limit = 0
  <2>1. Column(First(s)) = <<>> <=> Left(m) = 0
    BY <1>8, <1>10
  <2> QED
    BY <1>11, <1>13, <2>1
<1>15. /\ p \in [1..Cardinality(I) -> I]
       /\ \A i, j \in 1..m : i < j => /\ p[i] # p[j]
                                      /\ IF call.orderBy = <<>> THEN p[i] < p[j] ELSE Before(group[p[i]], group[p[j]])
  BY <1>8, <1>9 DEF OrderedRows
<1>16. DOMAIN p = 1..m
  BY <1>8, <1>15
<1>17. Column(First(s)) = [i \in 1..Left(Cardinality(I)) |-> group[p[i]].v]
  BY <1>8, <1>10
<1>18. InOrder(Column(First(s)), I)
  BY <1>15, <1>16, <1>17 DEF InOrder, Left
<1> QED
  BY <1>12, <1>14, <1>18

-----------------------------------------------------------------------------
(* The results of Done.                                                    *)

LEMMA ExtremeIs ==
    ASSUME NEW V, V \subseteq Int \cup {NullValue, NaNValue}, NEW nan \in BOOLEAN, nan <=> NaNValue \in V,
           NEW m, NEW low \in BOOLEAN, Top(m, V \ {NullValue, NaNValue}, low), NEW x, x = IF nan THEN NaNValue ELSE m
    PROVE  IsExtreme(x, V, ~low)
<1>0. NullValue # NaNValue
  BY CallsAssumption
<1>1. CASE V \subseteq {NullValue}
  <2>1. V \ {NullValue, NaNValue} = {} /\ ~nan
    BY <1>0, <1>1
  <2> QED
    BY <1>0, <1>1, <2>1 DEF IsExtreme, Top
<1>2. CASE NaNValue \in V
  <2>1. ~(V \subseteq {NullValue}) /\ x = NaNValue
    BY <1>0, <1>2
  <2> QED
    BY <1>2, <2>1 DEF IsExtreme
<1>3. CASE ~(V \subseteq {NullValue}) /\ NaNValue \notin V
  <2>1. V \ {NullValue, NaNValue} = V \ {NullValue} /\ V \ {NullValue} # {} /\ x = m
    BY <1>3
  <2>2. m \in V \ {NullValue} /\ \A w \in V \ {NullValue} : IF low THEN m <= w ELSE w <= m
    BY <2>1 DEF Top
  <2>3. V \ {NullValue} \subseteq Int
    BY <1>3
  <2>4. \A w \in V \ {NullValue} : IF ~low THEN m >= w ELSE m <= w
    BY <2>2, <2>3
  <2> QED
    BY <1>3, <2>1, <2>2, <2>4 DEF IsExtreme
<1> QED
  BY <1>1, <1>2, <1>3

LEMMA OneIsExact ==
    ASSUME AggInv, Clean, NEW K \in SUBSET DOMAIN group, NEW f, ExactOne(f, K)
    PROVE  AggregateExact(DoneOne(f), K)
<1> DEFINE d == DoneOne(f)
<1>1. d.count = Cardinality(NonNull(K)) /\ d.any \in ValuesIn(K) \cup {NullValue} /\ (d.any = NullValue <=> NonNull(K) = {})
  BY DEF DoneOne, ExactOne
<1>2. ValuesIn(K) \subseteq Int \cup {NullValue, NaNValue}
  BY GroupSound DEF Sound, ValuesIn
<1>3. IsExtreme(d.max, ValuesIn(K), TRUE) /\ IsExtreme(d.min, ValuesIn(K), FALSE)
  <2>1. f.nan \in BOOLEAN /\ (f.nan <=> NaNValue \in ValuesIn(K))
    BY DEF ExactOne
  <2>2. Top(f.max, ValuesIn(K) \ {NullValue, NaNValue}, FALSE) /\ Top(f.min, ValuesIn(K) \ {NullValue, NaNValue}, TRUE)
    BY DEF ExactOne, Numbers
  <2>3. d.max = (IF f.nan THEN NaNValue ELSE f.max) /\ d.min = (IF f.nan THEN NaNValue ELSE f.min)
    BY DEF DoneOne
  <2> HIDE DEF d
  <2>4. IsExtreme(d.max, ValuesIn(K), ~FALSE)
    BY <1>2, <2>1, <2>2, <2>3, ExtremeIs, FALSE \in BOOLEAN
  <2>5. IsExtreme(d.min, ValuesIn(K), ~TRUE)
    BY <1>2, <2>1, <2>2, <2>3, ExtremeIs, TRUE \in BOOLEAN
  <2> QED
    BY <2>4, <2>5
<1>4. IF K = {} THEN d.array = NullValue ELSE InOrder(d.array, K)
  <2>1. RowsAt(f.array, K)
    BY DEF ExactOne
  <2>2. InOrder(Column(First(f.array)), K) /\ (f.array = <<>> <=> K = {})
    BY <2>1, FirstInOrder
  <2>3. d.array = IF f.array = <<>> THEN NullValue ELSE Column(First(f.array))
    BY DEF DoneOne
  <2> HIDE DEF d
  <2> QED
    BY <2>2, <2>3
<1>5. IF NonNull(K) = {} \/ call.limit = 0 THEN d.string = NullValue ELSE InOrder(d.string, NonNull(K))
  <2>1. RowsAt(f.strings, NonNull(K)) /\ NonNull(K) \in SUBSET DOMAIN group
    BY DEF ExactOne, NonNull
  <2>2. /\ InOrder(Column(First(f.strings)), NonNull(K))
        /\ Column(First(f.strings)) = <<>> <=> NonNull(K) = {} \/ call.limit = 0
    BY <2>1, FirstInOrder
  <2>3. d.string = IF Column(First(f.strings)) = <<>> THEN NullValue ELSE Column(First(f.strings))
    BY DEF DoneOne, OrNull
  <2> HIDE DEF d
  <2> QED
    BY <2>2, <2>3
<1> HIDE DEF d
<1>6. AggregateExact(d, K)
  BY <1>1, <1>3, <1>4, <1>5 DEF AggregateExact
<1> QED
  BY <1>6 DEF d

\* The first row of an extreme key.
FirstRow(v, E) == IF E = {} THEN v = NullValue ELSE \E i \in E : v = group[i].v /\ \A j \in E : i <= j

LEMMA FirstTopIs ==
    ASSUME NEW I, I \subseteq Int, \A i \in I : group[i].k \in Int \cup {NullValue}, NEW low \in BOOLEAN,
           NEW key, NEW v, FirstTop(key, v, WithKey(I), low)
    PROVE  FirstRow(v, ExtremeIn(I, low))
<1>0. \A i \in WithKey(I) : group[i].k \in Int /\ i \in Int
  BY DEF WithKey
<1>1. CASE WithKey(I) = {}
  <2>1. ExtremeIn(I, low) = {}
    BY <1>1 DEF ExtremeIn
  <2> QED
    BY <1>1, <2>1 DEF FirstRow, FirstTop
<1>2. CASE WithKey(I) # {}
  <2>1. PICK i \in WithKey(I) : v = group[i].v /\ LeadsIn(i, WithKey(I), low)
    BY <1>2 DEF FirstTop
  <2>2. i \in ExtremeIn(I, low)
    BY <2>1 DEF ExtremeIn, LeadsIn
  <2>3. ASSUME NEW j \in ExtremeIn(I, low) PROVE i <= j
    <3>1. j \in WithKey(I) /\ IF low THEN group[j].k <= group[i].k ELSE group[i].k <= group[j].k
      BY <2>1 DEF ExtremeIn
    <3>2. /\ IF low THEN group[i].k <= group[j].k ELSE group[j].k <= group[i].k
          /\ group[j].k = group[i].k => i <= j
      BY <2>1, <3>1 DEF LeadsIn
    <3>3. group[i].k \in Int /\ group[j].k \in Int
      BY <1>0, <2>1, <3>1
    <3> QED
      BY <3>1, <3>2, <3>3
  <2> QED
    BY <2>1, <2>2, <2>3 DEF FirstRow
<1> QED
  BY <1>1, <1>2

\* ANY_VALUE with HAVING.
AnyOf(v, W) == IF W = {} THEN v = NullValue ELSE v \in W

LEMMA HavingAnyIs ==
    ASSUME NEW I, I \subseteq Int, \A i \in I : group[i].k \in Int \cup {NullValue}, NEW low \in BOOLEAN,
           NEW s, RowsAt(s, I)
    PROVE  AnyOf(havingAnyValue(s, low), ValuesIn(ExtremeIn(I, low)) \ {NullValue})
<1>1. PICK q, m : Listed(q, m, I) /\ s = [j \in 1..m |-> group[q[j]]]
  BY DEF RowsAt
<1>2. m \in Nat /\ q \in [1..m -> I] /\ \A i \in I : \E j \in 1..m : q[j] = i
  BY <1>1 DEF Listed
<1>3. RowsBy(s, q, m)
  BY <1>1 DEF RowsBy
<1>4. DOMAIN s = 1..m /\ \A j \in 1..m : s[j] = group[q[j]] /\ q[j] \in I
  BY <1>1, <1>2
<1> DEFINE best == bestKey(s, low)
           at == {j \in DOMAIN s : AtBest(s[j], best) /\ s[j].v # NullValue}
<1>5. havingAnyValue(s, low) = IF at = {} THEN NullValue ELSE s[Min(at)].v
  BY DEF havingAnyValue
<1> HIDE DEF best
<1>6. BestOf(best, I, low)
  BY <1>2, <1>3, BestKeyIs DEF best
<1>7. ExtremeIn(I, low) = {i \in I : AtBest(group[i], best)}
  BY <1>6, AtBestIs
<1>8. ASSUME NEW j \in at PROVE s[j].v \in ValuesIn(ExtremeIn(I, low)) \ {NullValue}
  <2>1. j \in 1..m /\ AtBest(s[j], best) /\ s[j].v # NullValue
    BY <1>4
  <2>2. s[j] = group[q[j]] /\ q[j] \in I
    BY <1>4, <2>1
  <2>3. q[j] \in ExtremeIn(I, low)
    BY <1>7, <2>1, <2>2
  <2> QED
    BY <2>1, <2>2, <2>3 DEF ValuesIn
<1>9. ASSUME NEW w \in ValuesIn(ExtremeIn(I, low)) \ {NullValue} PROVE at # {}
  <2>1. PICK i \in ExtremeIn(I, low) : w = group[i].v
    BY DEF ValuesIn
  <2>2. i \in I /\ AtBest(group[i], best) /\ group[i].v # NullValue
    BY <1>7, <2>1
  <2>3. PICK j \in 1..m : q[j] = i
    BY <1>2, <2>2
  <2>4. s[j] = group[i]
    BY <1>4, <2>3
  <2>5. j \in at
    BY <1>4, <2>2, <2>4
  <2> QED
    BY <2>5
<1>10. ASSUME at # {} PROVE Min(at) \in at
  <2>1. at \subseteq Nat
    BY <1>2, <1>4
  <2>2. \E x \in at : \A y \in at : x <= y
    BY <1>10, <2>1, LeastNat
  <2> HIDE DEF at
  <2> QED
    BY <2>2 DEF Min
<1> HIDE DEF at
<1> QED
  BY <1>5, <1>8, <1>9, <1>10 DEF AnyOf

\* AGG's values.
LEMMA MeasureIs ==
    ASSUME NEW F, F \subseteq Int, \A i \in F : group[i].v \in Int \cup {NullValue, NaNValue},
           NEW vs, ArgumentsAt(vs, F)
    PROVE  /\ (\A i \in F : group[i].v # NaNValue) => /\ IsExtreme(measure(vs).max, ValuesIn(F), TRUE)
                                                      /\ IsExtreme(measure(vs).min, ValuesIn(F), FALSE)
           /\ F # {} => /\ measure(vs).count = Cardinality(F)
                        /\ measure(vs).countDistinct = Cardinality(ValuesIn(F) \ {NullValue})
                        /\ FirstRow(measure(vs).any, F)
<1>1. PICK q, m : Listed(q, m, F) /\ vs = [j \in 1..m |-> group[q[j]].v]
  BY DEF ArgumentsAt
<1>2. /\ m \in Nat /\ q \in [1..m -> F] /\ (\A i \in F : \E j \in 1..m : q[j] = i)
      /\ \A a, b \in 1..m : a < b => q[a] < q[b]
  BY <1>1 DEF Listed
<1>3. DOMAIN vs = 1..m /\ \A j \in 1..m : vs[j] = group[q[j]].v /\ q[j] \in F
  BY <1>1, <1>2
<1>4. {vs[j] : j \in 1..m} = ValuesIn(F)
  <2>1. \A j \in 1..m : vs[j] \in ValuesIn(F)
    BY <1>3 DEF ValuesIn
  <2>2. ASSUME NEW x \in ValuesIn(F) PROVE \E j \in 1..m : vs[j] = x
    <3>1. PICK i \in F : x = group[i].v
      BY DEF ValuesIn
    <3>2. PICK j \in 1..m : q[j] = i
      BY <1>2
    <3> QED
      BY <1>3, <3>1, <3>2
  <2> QED
    BY <2>1, <2>2
<1>5. /\ measure(vs).max = aggMinMax(vs, FALSE) /\ measure(vs).min = aggMinMax(vs, TRUE)
      /\ vs # <<>> => /\ measure(vs).countDistinct = Cardinality(ToSet(vs) \ {NullValue})
                      /\ measure(vs).any = vs[1] /\ measure(vs).count = Len(vs)
  BY DEF measure
<1>6. ASSUME \A i \in F : group[i].v # NaNValue
      PROVE  IsExtreme(aggMinMax(vs, FALSE), ValuesIn(F), TRUE) /\ IsExtreme(aggMinMax(vs, TRUE), ValuesIn(F), FALSE)
  <2>1. \A j \in 1..m : vs[j] \in Int \cup {NullValue}
    BY <1>3, <1>6
  <2>2. Top(aggMinMax(vs, FALSE), {vs[j] : j \in 1..m} \ {NullValue}, FALSE)
    BY <1>2, <1>3, <2>1, MinMaxIs, FALSE \in BOOLEAN
  <2>3. Top(aggMinMax(vs, TRUE), {vs[j] : j \in 1..m} \ {NullValue}, TRUE)
    BY <1>2, <1>3, <2>1, MinMaxIs, TRUE \in BOOLEAN
  <2>4. NaNValue \notin ValuesIn(F) /\ ValuesIn(F) \subseteq Int \cup {NullValue, NaNValue}
    BY <1>6 DEF ValuesIn
  <2>5. ValuesIn(F) \ {NullValue, NaNValue} = {vs[j] : j \in 1..m} \ {NullValue}
    BY <1>4, <2>4
  <2>6. PICK nan \in BOOLEAN : nan = FALSE
    OBVIOUS
  <2>7. /\ Top(aggMinMax(vs, FALSE), ValuesIn(F) \ {NullValue, NaNValue}, FALSE)
        /\ Top(aggMinMax(vs, TRUE), ValuesIn(F) \ {NullValue, NaNValue}, TRUE)
    BY <2>2, <2>3, <2>5
  <2>8. IsExtreme(aggMinMax(vs, FALSE), ValuesIn(F), ~FALSE)
    BY <2>4, <2>6, <2>7, ExtremeIs, FALSE \in BOOLEAN
  <2>9. IsExtreme(aggMinMax(vs, TRUE), ValuesIn(F), ~TRUE)
    BY <2>4, <2>6, <2>7, ExtremeIs, TRUE \in BOOLEAN
  <2> QED
    BY <2>8, <2>9
<1>7. ToSet(vs) = ValuesIn(F)
  BY <1>3, <1>4 DEF ToSet
<1>8. ASSUME F # {}
      PROVE  /\ measure(vs).count = Cardinality(F)
             /\ measure(vs).countDistinct = Cardinality(ValuesIn(F) \ {NullValue})
             /\ FirstRow(measure(vs).any, F)
  <2>1. 1 \in 1..m
    <3>1. PICK i \in F : TRUE
      BY <1>8
    <3>2. PICK j \in 1..m : q[j] = i
      BY <1>2
    <3> QED
      BY <1>2, <3>2
  <2>4. vs # <<>>
    <3>1. DOMAIN <<>> = {}
      OBVIOUS
    <3> QED
      BY <1>3, <2>1, <3>1
  <2>2. vs # <<>> /\ vs[1] = group[q[1]].v /\ q[1] \in F
    BY <1>3, <2>1, <2>4
  <2>3. ASSUME NEW i \in F PROVE q[1] <= i
    <3>1. PICK j \in 1..m : q[j] = i
      BY <1>2
    <3>2. j = 1 \/ 1 < j
      BY <1>2
    <3>3. q[1] = i \/ q[1] < i
      BY <1>2, <2>1, <3>1, <3>2
    <3>4. q[1] \in Int /\ i \in Int
      BY <2>2
    <3> QED
      BY <3>3, <3>4
  <2>5. FirstRow(measure(vs).any, F)
    BY <1>5, <1>8, <2>2, <2>3 DEF FirstRow
  <2>6. Len(vs) = m
    BY <1>1, <1>2
  <2>7. Cardinality(F) = m
    BY <1>1, ListedSize
  <2> QED
    BY <1>5, <1>7, <2>4, <2>5, <2>6, <2>7
<1> QED
  BY <1>5, <1>6, <1>8

LEMMA PairIsExact ==
    ASSUME AggInv, Clean, NEW K \in SUBSET DOMAIN group, NEW f, ExactPair(f, K)
    PROVE  PairExact(DonePair(f), K)
<1> DEFINE d == DonePair(f)
           noNaN == \A i \in DOMAIN group : group[i].k # NaNValue /\ group[i].v # NaNValue
           nanKeys == \E i \in K : group[i].k = NaNValue
<1>1. Sound(Len(group))
  BY GroupSound
<1>2. /\ K \subseteq Int
      /\ \A i \in K : /\ group[i].v \in Int \cup {NullValue, NaNValue}
                      /\ group[i].k \in Int \cup {NullValue, NaNValue}
  BY <1>1 DEF Sound
<1>3. /\ d.maxBy = (IF f.nanKey THEN NullValue ELSE f.maxBy) /\ d.minBy = (IF f.nanKey THEN NullValue ELSE f.minBy)
      /\ d.havingMax = havingAnyValue(f.having, FALSE) /\ d.havingMin = havingAnyValue(f.having, TRUE)
      /\ d.measure = measure(f.measures)
  BY DEF DonePair
<1> HIDE DEF d
<1>4. IF nanKeys THEN d.maxBy = NullValue /\ d.minBy = NullValue
      ELSE FirstRow(d.maxBy, ExtremeIn(K, FALSE)) /\ FirstRow(d.minBy, ExtremeIn(K, TRUE))
  <2>1. f.nanKey \in BOOLEAN /\ (f.nanKey <=> nanKeys)
    BY DEF ExactPair, KeysIn
  <2>2. CASE nanKeys
    <3> HIDE DEF nanKeys
    <3> QED
      BY <1>3, <2>1, <2>2
  <2>3. CASE ~nanKeys
    <3>1. Keyed(K) = WithKey(K) /\ \A i \in K : group[i].k \in Int \cup {NullValue}
      BY <1>2, <2>3 DEF Keyed, WithKey
    <3>2. FirstTop(f.maxKey, f.maxBy, WithKey(K), FALSE) /\ FirstTop(f.minKey, f.minBy, WithKey(K), TRUE)
      BY <3>1 DEF ExactPair
    <3> HIDE DEF nanKeys
    <3>3. d.maxBy = f.maxBy /\ d.minBy = f.minBy
      BY <1>3, <2>1, <2>3
    <3>4. FirstRow(f.maxBy, ExtremeIn(K, FALSE))
      BY <1>2, <3>1, <3>2, FirstTopIs, FALSE \in BOOLEAN
    <3>5. FirstRow(f.minBy, ExtremeIn(K, TRUE))
      BY <1>2, <3>1, <3>2, FirstTopIs, TRUE \in BOOLEAN
    <3> QED
      BY <2>3, <3>3, <3>4, <3>5
  <2> QED
    BY <2>2, <2>3
<1>5. ASSUME noNaN
      PROVE  /\ AnyOf(d.havingMax, ValuesIn(ExtremeIn(K, FALSE)) \ {NullValue})
             /\ AnyOf(d.havingMin, ValuesIn(ExtremeIn(K, TRUE)) \ {NullValue})
  <2>1. \A i \in K : group[i].k \in Int \cup {NullValue}
    BY <1>2, <1>5
  <2>2. RowsAt(f.having, K)
    BY DEF ExactPair
  <2>3. AnyOf(havingAnyValue(f.having, FALSE), ValuesIn(ExtremeIn(K, FALSE)) \ {NullValue})
    BY <1>2, <2>1, <2>2, HavingAnyIs, FALSE \in BOOLEAN
  <2>4. AnyOf(havingAnyValue(f.having, TRUE), ValuesIn(ExtremeIn(K, TRUE)) \ {NullValue})
    BY <1>2, <2>1, <2>2, HavingAnyIs, TRUE \in BOOLEAN
  <2> QED
    BY <1>3, <2>3, <2>4
<1>6. /\ noNaN => /\ IsExtreme(d.measure.max, ValuesIn(Firsts(K)), TRUE)
                  /\ IsExtreme(d.measure.min, ValuesIn(Firsts(K)), FALSE)
      /\ Firsts(K) # {} => /\ d.measure.count = Cardinality(Firsts(K))
                           /\ d.measure.countDistinct = Cardinality(ValuesIn(Firsts(K)) \ {NullValue})
                           /\ FirstRow(d.measure.any, Firsts(K))
  <2>1. ArgumentsAt(f.measures, Firsts(K))
    BY DEF ExactPair
  <2>2. /\ Firsts(K) \subseteq K /\ Firsts(K) \subseteq Int
        /\ \A i \in Firsts(K) : group[i].v \in Int \cup {NullValue, NaNValue}
    BY <1>2 DEF Firsts
  <2>3. noNaN => \A i \in Firsts(K) : group[i].v # NaNValue
    BY <2>2
  <2> HIDE DEF noNaN
  <2>4. noNaN => /\ IsExtreme(measure(f.measures).max, ValuesIn(Firsts(K)), TRUE)
                 /\ IsExtreme(measure(f.measures).min, ValuesIn(Firsts(K)), FALSE)
    BY <2>1, <2>2, <2>3, MeasureIs
  <2>5. Firsts(K) # {} =>
          /\ measure(f.measures).count = Cardinality(Firsts(K))
          /\ measure(f.measures).countDistinct = Cardinality(ValuesIn(Firsts(K)) \ {NullValue})
          /\ FirstRow(measure(f.measures).any, Firsts(K))
    BY <2>1, <2>2, MeasureIs
  <2> QED
    BY <1>3, <2>4, <2>5
<1> DEFINE W == {i \in K : group[i].k # NullValue}
           E(asc) == {i \in W : \A j \in W : IF asc THEN group[j].k <= group[i].k ELSE group[j].k >= group[i].k}
<1>7. E(TRUE) = ExtremeIn(K, FALSE)
  BY DEF ExtremeIn, WithKey
<1>8. nanKeys \/ E(FALSE) = ExtremeIn(K, TRUE)
  <2>1. CASE ~nanKeys
    <3>1. \A i \in W : group[i].k \in Int
      BY <1>2, <2>1
    <3>2. W = WithKey(K)
      BY DEF WithKey
    <3>3. \A i \in W : \A j \in W : group[j].k >= group[i].k <=> group[i].k <= group[j].k
      BY <3>1
    <3> QED
      BY <3>2, <3>3 DEF ExtremeIn
  <2> QED
    BY <2>1
<1>9. noNaN => ~nanKeys
  OBVIOUS
<1> DEFINE IsBy(v, Z) == IF Z = {} THEN v = NullValue
                         ELSE \E i \in Z : v = group[i].v /\ \A j \in Z : i <= j
           IsAny(v, best) == IF best = {} THEN v = NullValue ELSE v \in best
<1>10. IF nanKeys THEN d.maxBy = NullValue /\ d.minBy = NullValue
       ELSE IsBy(d.maxBy, E(TRUE)) /\ IsBy(d.minBy, E(FALSE))
  <2>1. \A v, Z : FirstRow(v, Z) <=> IsBy(v, Z)
    BY DEF FirstRow
  <2> HIDE DEF IsBy, E, nanKeys
  <2> QED
    BY <1>4, <1>7, <1>8, <2>1
<1>11. noNaN => /\ IsAny(d.havingMax, ValuesIn(E(TRUE)) \ {NullValue})
                /\ IsAny(d.havingMin, ValuesIn(E(FALSE)) \ {NullValue})
  <2>1. \A v, Z : AnyOf(v, Z) <=> IsAny(v, Z)
    BY DEF AnyOf
  <2> HIDE DEF IsAny, E, nanKeys, noNaN
  <2> QED
    BY <1>5, <1>7, <1>8, <1>9, <2>1
<1>12. Firsts(K) # {} => IsBy(d.measure.any, Firsts(K))
  BY <1>6 DEF FirstRow
<1>13. Firsts(K) = {i \in K : \A j \in K : j < i => group[j].k # group[i].k}
  BY DEF Firsts
<1> HIDE DEF IsBy, IsAny, noNaN, nanKeys, E, W
<1>14. PairExact(d, K)
  BY <1>6, <1>10, <1>11, <1>12, <1>13 DEF PairExact, IsBy, IsAny, noNaN, nanKeys, E, W
<1> QED
  BY <1>14 DEF d

\* Whatever the options and the order of the rows, the result of an aggregate is
\* the one of the rows that HAVING, IGNORE NULLS and DISTINCT keep
\* (Aggregator.Step, process, Done and replayHaving, SortAggregatedValues and
\* the functions they drive), and a deferred error of a row is the result.  The
\* group may have any number of rows; with ORDER BY at most the twelve that
\* sort.Slice inserts one by one, with keys that are NULL or integers the
\* marker keeps, up to 2^53.
THEOREM AggregatesAreExact == AggSpec => []AggregatesExact
<1>1. AggInv => AggregatesExact
  <2> SUFFICES ASSUME AggInv PROVE AggregatesExact
    OBVIOUS
  <2> DEFINE d == AggDone(agg)
  <2>1. agg.deferred \in BOOLEAN /\ (agg.deferred <=> \E i \in DOMAIN group : group[i].v = Deferred)
    BY DEF AggInv, WrapperInv
  <2>2. CASE \E i \in DOMAIN group : group[i].v = Deferred
    <3>1. d = Deferred
      BY <2>1, <2>2 DEF AggDone
    <3> QED
      BY <2>2, <3>1 DEF AggregatesExact
  <2>3. CASE ~\E i \in DOMAIN group : group[i].v = Deferred
    <3>1. Clean
      BY <2>3 DEF Clean
    <3>2. Kept \in SUBSET DOMAIN group
      <4>1. HavingRows \subseteq DOMAIN group
        BY DEF HavingRows
      <4> QED
        BY <4>1 DEF Kept
    <3>3. d = IF call.args = 1 THEN DoneOne(replayHaving(agg).f) ELSE DonePair(replayHaving(agg).f)
      BY <2>1, <2>3 DEF AggDone
    <3> HIDE DEF d
    <3>4. AggregateExact(d, Kept)
      <4> SUFFICES ASSUME call.args = 1, Asked PROVE AggregateExact(d, Kept)
        BY DEF AggregateExact, Asked
      <4>1. ExactOne(replayHaving(agg).f, Kept)
        BY <3>1, ReplayedIs DEF Exact
      <4>2. AggregateExact(DoneOne(replayHaving(agg).f), Kept)
        BY <3>1, <3>2, <4>1, OneIsExact
      <4> QED
        BY <3>3, <4>2
    <3>5. PairExact(d, Kept)
      <4> SUFFICES ASSUME call.args = 2, Asked PROVE PairExact(d, Kept)
        BY DEF PairExact, Asked
      <4>1. ExactPair(replayHaving(agg).f, Kept)
        BY <3>1, ReplayedIs DEF Exact
      <4>2. PairExact(DonePair(replayHaving(agg).f), Kept)
        BY <3>1, <3>2, <4>1, PairIsExact
      <4> QED
        BY <3>3, <4>2
    <3> QED
      BY <2>3, <3>4, <3>5 DEF AggregatesExact, d
  <2> QED
    BY <2>2, <2>3
<1> QED
  BY <1>1, AggInvHolds, PTL

-----------------------------------------------------------------------------
(* The loops over the rows of a frame.                                      *)

LEMMA KeepLoop ==
    ASSUME NEW n \in Nat, NEW b, DOMAIN b = 1..n
    PROVE  \E S : LoopOf(S, "keep", 0, <<>>, b, n) /\ NonNulls(b) = S[n]
<1> DEFINE Is(f) == f = [s \in SUBSET (1..n) |-> IF s = {} THEN <<>>
                                                 ELSE Keep(f[s \ {Max(s)}], b[Max(s)])]
           f == CHOOSE f : Is(f)
<1>1. NonNulls(b) = f[1..n]
  BY DEF NonNulls, FoldLeft, MapThenFoldSet, Keep
<1>2. \A a, x : Body("keep", 0, a, x) = Keep(a, x)
  BY DEF Body
<1>3. ASSUME NEW g PROVE Is(g) <=> Folds(g, "keep", 0, <<>>, b, n)
  <2>1. \A s : Body("keep", 0, g[s \ {Max(s)}], b[Max(s)]) = Keep(g[s \ {Max(s)}], b[Max(s)])
    BY <1>2
  <2> QED
    BY <2>1, Zenon DEF Folds
<1> HIDE DEF Is
<1>4. \E g : Is(g)
  BY <1>3, FoldsExist
<1>5. Is(f)
  BY <1>4
<1> HIDE DEF f
<1> QED
  BY <1>1, <1>3, <1>5, FoldsLoop

LEMMA EnterLoop ==
    ASSUME NEW n \in Nat, NEW a, NEW b, DOMAIN b = 1..n
    PROVE  \E S : LoopOf(S, "enter", 0, a, b, n) /\ FoldLeft(StepRow, a, b) = S[n]
<1> DEFINE Is(f) == f = [s \in SUBSET (1..n) |-> IF s = {} THEN a
                                                 ELSE StepRow(f[s \ {Max(s)}], b[Max(s)])]
           f == CHOOSE f : Is(f)
<1>1. FoldLeft(StepRow, a, b) = f[1..n]
  BY DEF FoldLeft, MapThenFoldSet
<1>2. \A c, x : Body("enter", 0, c, x) = StepRow(c, x)
  BY DEF Body
<1>3. ASSUME NEW g PROVE Is(g) <=> Folds(g, "enter", 0, a, b, n)
  <2>1. \A s : Body("enter", 0, g[s \ {Max(s)}], b[Max(s)]) = StepRow(g[s \ {Max(s)}], b[Max(s)])
    BY <1>2
  <2> QED
    BY <2>1, Zenon DEF Folds
<1> HIDE DEF Is
<1>4. \E g : Is(g)
  BY <1>3, FoldsExist
<1>5. Is(f)
  BY <1>4
<1> HIDE DEF f
<1> QED
  BY <1>1, <1>3, <1>5, FoldsLoop

LEMMA LeaveLoop ==
    ASSUME NEW n \in Nat, NEW a, NEW b, DOMAIN b = 1..n
    PROVE  \E S : LoopOf(S, "leave", 0, a, b, n) /\ FoldLeft(InverseRow, a, b) = S[n]
<1> DEFINE Is(f) == f = [s \in SUBSET (1..n) |-> IF s = {} THEN a
                                                 ELSE InverseRow(f[s \ {Max(s)}], b[Max(s)])]
           f == CHOOSE f : Is(f)
<1>1. FoldLeft(InverseRow, a, b) = f[1..n]
  BY DEF FoldLeft, MapThenFoldSet
<1>2. \A c, x : Body("leave", 0, c, x) = InverseRow(c, x)
  BY DEF Body
<1>3. ASSUME NEW g PROVE Is(g) <=> Folds(g, "leave", 0, a, b, n)
  <2>1. \A s : Body("leave", 0, g[s \ {Max(s)}], b[Max(s)]) = InverseRow(g[s \ {Max(s)}], b[Max(s)])
    BY <1>2
  <2> QED
    BY <2>1, Zenon DEF Folds
<1> HIDE DEF Is
<1>4. \E g : Is(g)
  BY <1>3, FoldsExist
<1>5. Is(f)
  BY <1>4
<1> HIDE DEF f
<1> QED
  BY <1>1, <1>3, <1>5, FoldsLoop

\* Keep never leaves the sequences.
LEMMA KeepSeq ==
    ASSUME NEW U, NEW n \in Nat, NEW b, \A k \in 1..n : b[k] \in U, NEW S, LoopOf(S, "keep", 0, <<>>, b, n)
    PROVE  \A k \in 0..n : S[k] \in Seq(U)
<1>1. S[0] = <<>> /\ \A k \in 1..n : S[k] = IF b[k] = Null THEN S[k - 1] ELSE Append(S[k - 1], b[k])
  BY DEF LoopOf, Body, Keep
<1> DEFINE T == {k \in Nat : k <= n => S[k] \in Seq(U)}
<1>2. 0 \in T
  <2>1. <<>> \in Seq(U)
    BY EmptySeq
  <2>2. S[0] \in Seq(U) /\ 0 \in Nat
    BY <1>1, <2>1
  <2> QED
    BY <2>2
<1>3. ASSUME NEW k \in Nat, k \in T PROVE k + 1 \in T
  <2>1. CASE k + 1 <= n
    <3>1. k + 1 \in 1..n /\ S[k] \in Seq(U) /\ (k + 1) - 1 = k
      BY <1>3, <2>1
    <3>2. S[k + 1] = IF b[k + 1] = Null THEN S[k] ELSE Append(S[k], b[k + 1])
      BY <1>1, <3>1
    <3>3. S[k + 1] \in Seq(U)
      BY <3>1, <3>2
    <3> QED
      BY <3>3
  <2> QED
    BY <2>1
<1>4. \A k \in Nat : k \in T => k + 1 \in T
  BY <1>3
<1> HIDE DEF T
<1>5. Nat \subseteq T
  BY <1>2, <1>4, NatSet
<1> QED
  BY <1>5 DEF T

\* What NonNulls makes of the empty sequence, of a longer one and of a tail.
LEMMA NonNullsEmpty == NonNulls(<<>>) = <<>>
<1>1. DOMAIN <<>> = 1..0
  OBVIOUS
<1>2. PICK S : LoopOf(S, "keep", 0, <<>>, <<>>, 0) /\ NonNulls(<<>>) = S[0]
  BY <1>1, KeepLoop, Zenon
<1> QED
  BY <1>2 DEF LoopOf

LEMMA NonNullsSeq ==
    ASSUME NEW U, NEW b \in Seq(U)
    PROVE  NonNulls(b) \in Seq(U)
<1> DEFINE n == Len(b)
<1>1. n \in Nat /\ DOMAIN b = 1..n /\ \A k \in 1..n : b[k] \in U
  OBVIOUS
<1> HIDE DEF n
<1>2. PICK S : LoopOf(S, "keep", 0, <<>>, b, n) /\ NonNulls(b) = S[n]
  BY <1>1, KeepLoop
<1>3. \A k \in 0..n : S[k] \in Seq(U)
  BY <1>1, <1>2, KeepSeq
<1>4. n \in 0..n
  BY <1>1
<1> QED
  BY <1>2, <1>3, <1>4

LEMMA NonNullsAppend ==
    ASSUME NEW U, NEW b \in Seq(U), NEW v \in U
    PROVE  NonNulls(Append(b, v)) = IF v = Null THEN NonNulls(b) ELSE Append(NonNulls(b), v)
<1> DEFINE n == Len(b)
           c == Append(b, v)
<1>1. n \in Nat /\ DOMAIN b = 1..n /\ \A k \in 1..n : b[k] \in U
  OBVIOUS
<1>2. c \in Seq(U) /\ DOMAIN c = 1..(n + 1) /\ c[n + 1] = v /\ \A k \in 1..n : c[k] = b[k]
  BY AppendProperties
<1> HIDE DEF n, c
<1>3. PICK S : LoopOf(S, "keep", 0, <<>>, b, n) /\ NonNulls(b) = S[n]
  BY <1>1, KeepLoop
<1>4. PICK T : LoopOf(T, "keep", 0, <<>>, c, n + 1) /\ NonNulls(c) = T[n + 1]
  BY <1>1, <1>2, KeepLoop
<1>5. S[0] = <<>> /\ \A k \in 1..n : S[k] = Keep(S[k - 1], b[k])
  BY <1>3 DEF LoopOf, Body
<1>6. T[0] = <<>> /\ \A k \in 1..(n + 1) : T[k] = Keep(T[k - 1], c[k])
  BY <1>4 DEF LoopOf, Body
<1> DEFINE E == {k \in Nat : k <= n => S[k] = T[k]}
<1>7. 0 \in E
  BY <1>5, <1>6
<1>8. ASSUME NEW k \in Nat, k \in E PROVE k + 1 \in E
  <2>1. CASE k + 1 <= n
    <3>1. k + 1 \in 1..n /\ k + 1 \in 1..(n + 1) /\ S[k] = T[k] /\ (k + 1) - 1 = k
      BY <1>1, <1>8, <2>1
    <3>2. S[k + 1] = Keep(S[k], b[k + 1])
      BY <1>5, <3>1
    <3>3. T[k + 1] = Keep(T[k], c[k + 1])
      BY <1>6, <3>1
    <3>4. S[k + 1] = T[k + 1]
      BY <1>2, <3>1, <3>2, <3>3
    <3> QED
      BY <3>4
  <2> QED
    BY <2>1
<1>9. \A k \in Nat : k \in E => k + 1 \in E
  BY <1>8
<1> HIDE DEF E
<1>10. Nat \subseteq E
  BY <1>7, <1>9, NatSet
<1>11. S[n] = T[n]
  BY <1>1, <1>10 DEF E
<1>12. n + 1 \in 1..(n + 1) /\ (n + 1) - 1 = n
  BY <1>1
<1>13. T[n + 1] = Keep(T[n], c[n + 1])
  BY <1>6, <1>12
<1>14. NonNulls(c) = Keep(NonNulls(b), v)
  BY <1>2, <1>3, <1>4, <1>11, <1>13
<1> QED
  BY <1>14 DEF Keep, c

LEMMA NonNullsTail ==
    ASSUME NEW U, NEW b \in Seq(U), b # <<>>, Head(b) # Null
    PROVE  NonNulls(b) # <<>> /\ Tail(NonNulls(b)) = NonNulls(Tail(b))
<1> DEFINE n == Len(b)
           c == Tail(b)
<1>1. n \in Nat /\ n >= 1 /\ DOMAIN b = 1..n /\ (\A k \in 1..n : b[k] \in U) /\ b[1] # Null
  OBVIOUS
<1>2. c \in Seq(U) /\ DOMAIN c = 1..(n - 1) /\ \A k \in 1..(n - 1) : c[k] = b[k + 1]
  BY HeadTailProperties
<1> HIDE DEF n, c
<1>3. PICK S : LoopOf(S, "keep", 0, <<>>, b, n) /\ NonNulls(b) = S[n]
  BY <1>1, KeepLoop
<1>4. PICK T : LoopOf(T, "keep", 0, <<>>, c, n - 1) /\ NonNulls(c) = T[n - 1]
  BY <1>1, <1>2, KeepLoop
<1>5. S[0] = <<>> /\ \A k \in 1..n : S[k] = Keep(S[k - 1], b[k])
  BY <1>3 DEF LoopOf, Body
<1>6. T[0] = <<>> /\ \A k \in 1..(n - 1) : T[k] = Keep(T[k - 1], c[k])
  BY <1>4 DEF LoopOf, Body
<1>15. \A k \in 0..n : S[k] \in Seq(U)
  BY <1>1, <1>3, KeepSeq
<1> DEFINE E == {k \in Nat : k + 1 <= n => S[k + 1] # <<>> /\ Tail(S[k + 1]) = T[k]}
<1>7. 0 \in E
  <2>1. 1 \in 1..n /\ 1 - 1 = 0
    BY <1>1
  <2>2. S[1] = Append(<<>>, b[1])
    BY <1>1, <1>5, <2>1 DEF Keep
  <2>3. S[1] # <<>> /\ Tail(S[1]) = <<>>
    BY <2>2
  <2>4. 0 + 1 = 1 /\ 0 \in Nat
    OBVIOUS
  <2> QED
    BY <1>6, <2>3, <2>4
<1>8. ASSUME NEW k \in Nat, k \in E PROVE k + 1 \in E
  <2>1. CASE (k + 1) + 1 <= n
    <3>1. /\ k + 1 \in 1..(n - 1) /\ (k + 1) + 1 \in 1..n /\ k + 1 \in 0..n
          /\ (k + 1) - 1 = k /\ ((k + 1) + 1) - 1 = k + 1 /\ k + 1 <= n
      BY <1>1, <1>8, <2>1
    <3>5. S[k + 1] # <<>> /\ Tail(S[k + 1]) = T[k]
      BY <1>8, <3>1
    <3>2. S[(k + 1) + 1] = Keep(S[k + 1], b[(k + 1) + 1])
      BY <1>5, <3>1
    <3>3. T[k + 1] = Keep(T[k], b[(k + 1) + 1])
      BY <1>2, <1>6, <3>1
    <3>6. S[k + 1] \in Seq(U)
      BY <1>15, <3>1
    <3>4. S[(k + 1) + 1] # <<>> /\ Tail(S[(k + 1) + 1]) = T[k + 1]
      <4>1. CASE b[(k + 1) + 1] = Null
        BY <3>2, <3>3, <3>5, <4>1 DEF Keep
      <4>2. CASE b[(k + 1) + 1] # Null
        <5>1. Tail(Append(S[k + 1], b[(k + 1) + 1])) = Append(Tail(S[k + 1]), b[(k + 1) + 1])
          BY <3>5, <3>6, HeadTailAppend
        <5>2. Append(S[k + 1], b[(k + 1) + 1]) # <<>>
          BY <1>1, <3>1, <3>6, AppendProperties
        <5> QED
          BY <3>2, <3>3, <3>5, <4>2, <5>1, <5>2 DEF Keep
      <4> QED
        BY <4>1, <4>2
    <3> QED
      BY <3>4
  <2> QED
    BY <2>1
<1>9. \A k \in Nat : k \in E => k + 1 \in E
  BY <1>8
<1> HIDE DEF E
<1>10. Nat \subseteq E
  BY <1>7, <1>9, NatSet
<1>11. n - 1 \in Nat /\ (n - 1) + 1 = n
  BY <1>1
<1>12. S[n] # <<>> /\ Tail(S[n]) = T[n - 1]
  BY <1>10, <1>11 DEF E
<1> QED
  BY <1>3, <1>4, <1>12 DEF c

-----------------------------------------------------------------------------
(* The state of the aggregators over the rows of a frame.                   *)

InnerFields == {"buf", "n", "trues", "stars", "sum", "bits"}

LEMMA StepRowFields ==
    ASSUME NEW a, DOMAIN a = InnerFields, NEW v
    PROVE  /\ DOMAIN StepRow(a, v) = InnerFields
           /\ StepRow(a, v).buf = Append(a.buf, v)
           /\ StepRow(a, v).bits = Keep(a.bits, v)
BY DEF StepRow, InnerFields, Keep

LEMMA InverseRowFields ==
    ASSUME NEW a, DOMAIN a = InnerFields, NEW v
    PROVE  /\ DOMAIN InverseRow(a, v) = InnerFields
           /\ InverseRow(a, v).buf = popFront(a.buf)
           /\ InverseRow(a, v).bits = popFront(a.bits)
BY DEF InverseRow, InnerFields

-----------------------------------------------------------------------------
(* Moved instances and fresh ones.                                         *)

Fresh(b) == FoldLeft(StepRow, NewInner, b)
ValueOK(v) == v \in {Null, NaN} \/ v \in Int
SummerFields == {"n", "total", "nan", "posInf", "negInf"}
IsFunction(s) == s = [x \in DOMAIN s |-> s[x]]
SummerOK(s) == IsFunction(s) /\ DOMAIN s = SummerFields /\ \A x \in SummerFields : s[x] \in Int

One(b) == IF b THEN 1 ELSE 0
\* What a value adds to each field of Summer.
Part(v, x) == CASE x = "n" -> One(v # Null)
                [] x = "nan" -> One(v = NaN)
                [] x = "posInf" -> One(v = PosInf)
                [] x = "negInf" -> One(v = NegInf)
                [] OTHER -> IF v \in {Null, NaN, PosInf, NegInf} THEN 0 ELSE v

LEMMA PartInt ==
    ASSUME NEW v, ValueOK(v), NEW x \in SummerFields
    PROVE  Part(v, x) \in Int
BY FloatAssumption DEF Part, ValueOK, SummerFields, One

LEMMA UpdateAdds ==
    ASSUME NEW s, SummerOK(s), NEW v, ValueOK(v), NEW sign \in {1, -1}
    PROVE  /\ SummerOK(update(s, v, sign))
           /\ \A x \in SummerFields : update(s, v, sign)[x] = s[x] + sign * Part(v, x)
<1>0. /\ NaN # Null /\ PosInf # NegInf /\ PosInf # Null /\ PosInf # NaN /\ NegInf # Null /\ NegInf # NaN
      /\ Null \notin Int /\ NaN \notin Int
  BY FloatAssumption DEF NegInf
<1> USE DEF SummerOK, SummerFields, ValueOK
<1>1. CASE v = Null
  <2>1. update(s, v, sign) = s
    BY <1>0, <1>1 DEF update
  <2>2. IsFunction(update(s, v, sign))
    BY <2>1 DEF IsFunction
  <2> QED
    BY <1>0, <1>1, <2>1, <2>2 DEF Part, One
<1>2. CASE v = NaN
  <2>1. update(s, v, sign) = [s EXCEPT !.n = @ + sign, !.nan = @ + sign]
    BY <1>0, <1>2 DEF update
  <2>2. IsFunction(update(s, v, sign))
    BY <2>1 DEF IsFunction
  <2> QED
    BY <1>0, <1>2, <2>1, <2>2 DEF Part, One
<1>3. CASE v = PosInf
  <2>1. update(s, v, sign) = [s EXCEPT !.n = @ + sign, !.posInf = @ + sign]
    BY <1>0, <1>3 DEF update
  <2>2. IsFunction(update(s, v, sign))
    BY <2>1 DEF IsFunction
  <2> QED
    BY <1>0, <1>3, <2>1, <2>2 DEF Part, One
<1>4. CASE v = NegInf
  <2>1. update(s, v, sign) = [s EXCEPT !.n = @ + sign, !.negInf = @ + sign]
    BY <1>0, <1>4 DEF update
  <2>2. IsFunction(update(s, v, sign))
    BY <2>1 DEF IsFunction
  <2> QED
    BY <1>0, <1>4, <2>1, <2>2 DEF Part, One
<1>5. CASE v \in Int /\ v # PosInf /\ v # NegInf
  <2>1. update(s, v, sign) = [s EXCEPT !.n = @ + sign, !.total = @ + sign * v]
    BY <1>0, <1>5 DEF update
  <2>2. IsFunction(update(s, v, sign))
    BY <2>1 DEF IsFunction
  <2> QED
    BY <1>0, <1>5, <2>1, <2>2 DEF Part, One
<1> QED
  BY <1>1, <1>2, <1>3, <1>4, <1>5

LEMMA UpdateBoth ==
    ASSUME NEW s, SummerOK(s), NEW v, ValueOK(v), NEW x \in SummerFields
    PROVE  update(s, v, 1)[x] = s[x] + Part(v, x) /\ update(s, v, -1)[x] = s[x] - Part(v, x)
<1>1. 1 \in {1, -1} /\ -1 \in {1, -1}
  OBVIOUS
<1>2. update(s, v, 1)[x] = s[x] + 1 * Part(v, x)
  BY <1>1, UpdateAdds
<1>3. update(s, v, -1)[x] = s[x] + (-1) * Part(v, x)
  BY <1>1, UpdateAdds
<1>4. s[x] \in Int /\ Part(v, x) \in Int
  BY PartInt DEF SummerOK
<1> QED
  BY <1>2, <1>3, <1>4

LEMMA NewSummerOK == SummerOK(NewSummer)
BY DEF SummerOK, NewSummer, SummerFields, IsFunction

\* The fields that count, as functions of the values.
CountsOK(a) == /\ DOMAIN a = InnerFields
               /\ a.n \in Int /\ a.trues \in Nat /\ a.stars \in Nat /\ SummerOK(a.sum)

LEMMA StepCounts ==
    ASSUME NEW a, CountsOK(a), NEW v, ValueOK(v)
    PROVE  /\ CountsOK(StepRow(a, v))
           /\ StepRow(a, v).n = a.n + One(v # Null)
           /\ StepRow(a, v).trues = a.trues + One(Truth(v))
           /\ StepRow(a, v).stars = a.stars + 1
           /\ StepRow(a, v).sum = update(a.sum, v, 1)
<1> DEFINE u == update(a.sum, v, 1)
<1>1. SummerOK(u)
  BY UpdateAdds DEF CountsOK
<1> HIDE DEF u
<1>2. StepRow(a, v) = [a EXCEPT !.buf = Append(@, v), !.n = @ + One(v # Null), !.trues = @ + One(Truth(v)),
                                !.stars = @ + 1, !.sum = u, !.bits = IF v = Null THEN @ ELSE Append(@, v)]
  BY DEF StepRow, One, u
<1>3. One(v # Null) \in {0, 1} /\ One(Truth(v)) \in {0, 1}
  BY DEF One
<1> DEFINE b == StepRow(a, v)
<1>4. /\ DOMAIN b = InnerFields /\ b.n = a.n + One(v # Null) /\ b.trues = a.trues + One(Truth(v))
      /\ b.stars = a.stars + 1 /\ b.sum = u
  BY <1>2 DEF CountsOK, InnerFields
<1> HIDE DEF b
<1>5. b.n \in Int /\ b.trues \in Nat /\ b.stars \in Nat
  BY <1>3, <1>4 DEF CountsOK
<1> QED
  BY <1>1, <1>4, <1>5 DEF CountsOK, b, u

LEMMA InverseCounts ==
    ASSUME NEW a, CountsOK(a), a.buf # <<>>, NEW v, v = Head(a.buf), ValueOK(v), a.stars > 0,
           Truth(v) => a.trues > 0
    PROVE  /\ CountsOK(InverseRow(a, v))
           /\ InverseRow(a, v).n = a.n - One(v # Null)
           /\ InverseRow(a, v).trues = a.trues - One(Truth(v))
           /\ InverseRow(a, v).stars = a.stars - 1
           /\ InverseRow(a, v).sum = update(a.sum, v, -1)
<1> DEFINE u == update(a.sum, v, -1)
<1>1. SummerOK(u)
  BY UpdateAdds DEF CountsOK
<1> HIDE DEF u
<1>2. InverseRow(a, v) = [a EXCEPT !.buf = popFront(@), !.n = @ - One(v # Null), !.trues = @ - One(Truth(v)),
                                   !.stars = @ - 1, !.sum = u, !.bits = popFront(@)]
  BY DEF InverseRow, One, u
<1>3. One(v # Null) \in {0, 1} /\ One(Truth(v)) \in {0, 1} /\ (One(Truth(v)) = 1 => a.trues > 0)
  BY DEF One
<1> DEFINE b == InverseRow(a, v)
<1>4. /\ DOMAIN b = InnerFields /\ b.n = a.n - One(v # Null) /\ b.trues = a.trues - One(Truth(v))
      /\ b.stars = a.stars - 1 /\ b.sum = u
  BY <1>2 DEF CountsOK, InnerFields
<1> HIDE DEF b
<1>5. b.n \in Int /\ b.trues \in Nat /\ b.stars \in Nat
  BY <1>3, <1>4 DEF CountsOK
<1> QED
  BY <1>1, <1>4, <1>5 DEF CountsOK, b, u

\* x is in the state of y with the value h in front.
OneAhead(x, y, h) ==
  /\ CountsOK(x) /\ CountsOK(y)
  /\ x.n = y.n + One(h # Null) /\ x.trues = y.trues + One(Truth(h)) /\ x.stars = y.stars + 1
  /\ \A f \in SummerFields : x.sum[f] = y.sum[f] + Part(h, f)

LEMMA AheadStep ==
    ASSUME NEW x, NEW y, NEW h, ValueOK(h), NEW v, ValueOK(v), OneAhead(x, y, h)
    PROVE  OneAhead(StepRow(x, v), StepRow(y, v), h)
<1> DEFINE x1 == StepRow(x, v)
           y1 == StepRow(y, v)
<1>1. /\ CountsOK(x1) /\ x1.n = x.n + One(v # Null) /\ x1.trues = x.trues + One(Truth(v))
      /\ x1.stars = x.stars + 1 /\ x1.sum = update(x.sum, v, 1)
  BY StepCounts DEF OneAhead
<1>2. /\ CountsOK(y1) /\ y1.n = y.n + One(v # Null) /\ y1.trues = y.trues + One(Truth(v))
      /\ y1.stars = y.stars + 1 /\ y1.sum = update(y.sum, v, 1)
  BY StepCounts DEF OneAhead
<1> HIDE DEF x1, y1
<1>3. One(v # Null) \in Int /\ One(Truth(v)) \in Int /\ One(h # Null) \in Int /\ One(Truth(h)) \in Int
  BY DEF One
<1>4. /\ y.n \in Int /\ y.trues \in Int /\ y.stars \in Int
      /\ x.n = y.n + One(h # Null) /\ x.trues = y.trues + One(Truth(h)) /\ x.stars = y.stars + 1
  BY DEF OneAhead, CountsOK
<1>5. x1.n = y1.n + One(h # Null) /\ x1.trues = y1.trues + One(Truth(h)) /\ x1.stars = y1.stars + 1
  BY <1>1, <1>2, <1>3, <1>4
<1>6. ASSUME NEW f \in SummerFields PROVE x1.sum[f] = y1.sum[f] + Part(h, f)
  <2>1. SummerOK(x.sum) /\ SummerOK(y.sum)
    BY DEF OneAhead, CountsOK
  <2>2. x1.sum[f] = x.sum[f] + Part(v, f)
    BY <1>1, <2>1, UpdateBoth
  <2>3. y1.sum[f] = y.sum[f] + Part(v, f)
    BY <1>2, <2>1, UpdateBoth
  <2>4. x.sum[f] = y.sum[f] + Part(h, f) /\ y.sum[f] \in Int
    BY <2>1 DEF OneAhead, SummerOK
  <2>5. Part(v, f) \in Int /\ Part(h, f) \in Int
    BY PartInt
  <2> QED
    BY <2>2, <2>3, <2>4, <2>5
<1> QED
  BY <1>1, <1>2, <1>5, <1>6 DEF OneAhead, x1, y1

LEMMA NewCounts == CountsOK(NewInner) /\ NewInner.stars = 0 /\ NewInner.buf = <<>>
BY NewSummerOK DEF CountsOK, NewInner, InnerFields

LEMMA FreshEmpty == Fresh(<<>>) = NewInner
<1>1. DOMAIN <<>> = 1..0
  OBVIOUS
<1>2. PICK S : LoopOf(S, "enter", 0, NewInner, <<>>, 0) /\ Fresh(<<>>) = S[0]
  BY <1>1, EnterLoop, Zenon DEF Fresh
<1> QED
  BY <1>2 DEF LoopOf

LEMMA FreshAppend ==
    ASSUME NEW U, NEW b \in Seq(U), NEW v \in U
    PROVE  Fresh(Append(b, v)) = StepRow(Fresh(b), v)
<1> DEFINE n == Len(b)
           c == Append(b, v)
<1>1. n \in Nat /\ DOMAIN b = 1..n
  OBVIOUS
<1>2. DOMAIN c = 1..(n + 1) /\ c[n + 1] = v /\ \A k \in 1..n : c[k] = b[k]
  BY AppendProperties
<1> HIDE DEF n, c
<1>3. PICK S : LoopOf(S, "enter", 0, NewInner, b, n) /\ Fresh(b) = S[n]
  BY <1>1, EnterLoop DEF Fresh
<1>4. PICK T : LoopOf(T, "enter", 0, NewInner, c, n + 1) /\ Fresh(c) = T[n + 1]
  BY <1>1, <1>2, EnterLoop DEF Fresh
<1>5. S[0] = NewInner /\ \A k \in 1..n : S[k] = StepRow(S[k - 1], b[k])
  BY <1>3 DEF LoopOf, Body
<1>6. T[0] = NewInner /\ \A k \in 1..(n + 1) : T[k] = StepRow(T[k - 1], c[k])
  BY <1>4 DEF LoopOf, Body
<1> DEFINE E == {k \in Nat : k <= n => S[k] = T[k]}
<1>7. 0 \in E
  BY <1>5, <1>6
<1>8. ASSUME NEW k \in Nat, k \in E PROVE k + 1 \in E
  <2>1. CASE k + 1 <= n
    <3>1. k + 1 \in 1..n /\ k + 1 \in 1..(n + 1) /\ S[k] = T[k] /\ (k + 1) - 1 = k
      BY <1>1, <1>8, <2>1
    <3>2. S[k + 1] = StepRow(S[k], b[k + 1])
      BY <1>5, <3>1
    <3>3. T[k + 1] = StepRow(T[k], c[k + 1])
      BY <1>6, <3>1
    <3>4. S[k + 1] = T[k + 1]
      BY <1>2, <3>1, <3>2, <3>3
    <3> QED
      BY <3>4
  <2> QED
    BY <2>1
<1>9. \A k \in Nat : k \in E => k + 1 \in E
  BY <1>8
<1> HIDE DEF E
<1>10. Nat \subseteq E
  BY <1>7, <1>9, NatSet
<1>11. S[n] = T[n]
  BY <1>1, <1>10 DEF E
<1>12. n + 1 \in 1..(n + 1) /\ (n + 1) - 1 = n
  BY <1>1
<1>13. T[n + 1] = StepRow(T[n], c[n + 1])
  BY <1>6, <1>12
<1>14. Fresh(c) = StepRow(Fresh(b), v)
  BY <1>2, <1>3, <1>4, <1>11, <1>13
<1> QED
  BY <1>14 DEF c

LEMMA FreshBuf ==
    ASSUME NEW U, NEW b \in Seq(U)
    PROVE  DOMAIN Fresh(b) = InnerFields /\ Fresh(b).buf = b
<1> DEFINE P(c) == DOMAIN Fresh(c) = InnerFields /\ Fresh(c).buf = c
           E == {k \in Nat : \A c \in Seq(U) : Len(c) = k => P(c)}
<1>1. 0 \in E
  <2>1. P(<<>>)
    BY FreshEmpty, NewCounts DEF CountsOK
  <2>2. \A c \in Seq(U) : Len(c) = 0 => c = <<>>
    BY EmptySeq
  <2> HIDE DEF P
  <2> QED
    BY <2>1, <2>2
<1>2. ASSUME NEW k \in Nat, k \in E PROVE k + 1 \in E
  <2>1. ASSUME NEW c \in Seq(U), Len(c) = k + 1 PROVE P(c)
    <3>1. c # <<>>
      BY <1>2, <2>1
    <3>2. PICK d \in Seq(U), v \in U : c = Append(d, v)
      BY <3>1, SequenceEmptyOrAppend
    <3>3. Len(c) = Len(d) + 1 /\ Len(d) \in Nat
      BY <3>2, AppendProperties
    <3>4. Len(d) = k
      BY <1>2, <2>1, <3>3
    <3>5. P(d)
      BY <1>2, <3>4
    <3>6. Fresh(c) = StepRow(Fresh(d), v)
      BY <3>2, FreshAppend
    <3> QED
      BY <3>2, <3>5, <3>6, StepRowFields
  <2> HIDE DEF P
  <2> QED
    BY <2>1
<1>3. \A k \in Nat : k \in E => k + 1 \in E
  BY <1>2
<1> HIDE DEF E
<1>4. Nat \subseteq E
  BY <1>1, <1>3, NatSet
<1>5. Len(b) \in E
  BY <1>4
<1> QED
  BY <1>5 DEF E

LEMMA FreshTail ==
    ASSUME NEW U, \A v \in U : ValueOK(v), NEW b \in Seq(U), b # <<>>
    PROVE  OneAhead(Fresh(b), Fresh(Tail(b)), Head(b))
<1> DEFINE n == Len(b)
           c == Tail(b)
           h == Head(b)
<1>1. n \in Nat /\ n >= 1 /\ DOMAIN b = 1..n /\ (\A k \in 1..n : b[k] \in U) /\ h = b[1] /\ h \in U
  OBVIOUS
<1>2. DOMAIN c = 1..(n - 1) /\ \A k \in 1..(n - 1) : c[k] = b[k + 1]
  BY HeadTailProperties
<1> HIDE DEF n, c, h
<1>3. PICK S : LoopOf(S, "enter", 0, NewInner, b, n) /\ Fresh(b) = S[n]
  BY <1>1, EnterLoop DEF Fresh
<1>4. PICK T : LoopOf(T, "enter", 0, NewInner, c, n - 1) /\ Fresh(c) = T[n - 1]
  BY <1>1, <1>2, EnterLoop DEF Fresh
<1>5. S[0] = NewInner /\ \A k \in 1..n : S[k] = StepRow(S[k - 1], b[k])
  BY <1>3 DEF LoopOf, Body
<1>6. T[0] = NewInner /\ \A k \in 1..(n - 1) : T[k] = StepRow(T[k - 1], c[k])
  BY <1>4 DEF LoopOf, Body
<1>7. ValueOK(h)
  BY <1>1
<1> DEFINE E == {k \in Nat : k + 1 <= n => OneAhead(S[k + 1], T[k], h)}
<1>8. 0 \in E
  <2>1. 1 \in 1..n /\ 1 - 1 = 0
    BY <1>1
  <2>2. S[1] = StepRow(NewInner, h)
    BY <1>1, <1>5, <2>1
  <2> DEFINE x == S[1]
             y == NewInner
  <2>3. CountsOK(y)
    BY NewCounts
  <2>4. /\ CountsOK(x) /\ x.n = y.n + One(h # Null) /\ x.trues = y.trues + One(Truth(h))
        /\ x.stars = y.stars + 1 /\ x.sum = update(y.sum, h, 1)
    BY <1>7, <2>2, <2>3, StepCounts
  <2> HIDE DEF x, y
  <2>5. SummerOK(y.sum)
    BY <2>3 DEF CountsOK
  <2>6. ASSUME NEW f \in SummerFields PROVE x.sum[f] = y.sum[f] + Part(h, f)
    BY <1>7, <2>4, <2>5, UpdateBoth
  <2>7. OneAhead(x, y, h)
    BY <2>3, <2>4, <2>6 DEF OneAhead
  <2>8. 0 + 1 = 1 /\ 0 \in Nat /\ T[0] = y /\ S[1] = x
    BY <1>6 DEF x, y
  <2>9. OneAhead(S[0 + 1], T[0], h)
    BY <2>7, <2>8
  <2> QED
    BY <2>8, <2>9
<1>9. ASSUME NEW k \in Nat, k \in E PROVE k + 1 \in E
  <2>1. CASE (k + 1) + 1 <= n
    <3>1. /\ k + 1 \in 1..(n - 1) /\ (k + 1) + 1 \in 1..n
          /\ (k + 1) - 1 = k /\ ((k + 1) + 1) - 1 = k + 1 /\ k + 1 <= n
      BY <1>1, <1>9, <2>1
    <3>2. OneAhead(S[k + 1], T[k], h)
      BY <1>9, <3>1
    <3>3. S[(k + 1) + 1] = StepRow(S[k + 1], b[(k + 1) + 1])
      BY <1>5, <3>1
    <3>4. T[k + 1] = StepRow(T[k], b[(k + 1) + 1])
      BY <1>2, <1>6, <3>1
    <3>5. ValueOK(b[(k + 1) + 1])
      BY <1>1, <3>1
    <3>6. OneAhead(S[(k + 1) + 1], T[k + 1], h)
      BY <1>7, <3>2, <3>3, <3>4, <3>5, AheadStep
    <3> QED
      BY <3>6
  <2> QED
    BY <2>1
<1>10. \A k \in Nat : k \in E => k + 1 \in E
  BY <1>9
<1> HIDE DEF E
<1>11. Nat \subseteq E
  BY <1>8, <1>10, NatSet
<1>12. n - 1 \in Nat /\ (n - 1) + 1 = n
  BY <1>1
<1>13. OneAhead(S[n], T[n - 1], h)
  BY <1>11, <1>12 DEF E
<1> QED
  BY <1>3, <1>4, <1>13 DEF c, h

\* The counting fields of two instances agree.
Alike(a, b) == /\ CountsOK(a) /\ CountsOK(b)
               /\ a.n = b.n /\ a.trues = b.trues /\ a.stars = b.stars /\ a.sum = b.sum

LEMMA AlikeStep ==
    ASSUME NEW U, \A w \in U : ValueOK(w), NEW a, a.buf \in Seq(U), Alike(a, Fresh(a.buf)), NEW v \in U
    PROVE  Alike(StepRow(a, v), Fresh(StepRow(a, v).buf))
<1> DEFINE b == a.buf
           y == Fresh(b)
<1>1. b \in Seq(U) /\ ValueOK(v) /\ CountsOK(a) /\ CountsOK(y)
  BY DEF Alike
<1>2. StepRow(a, v).buf = Append(b, v)
  BY <1>1, StepRowFields DEF CountsOK
<1> HIDE DEF b
<1>3. Fresh(Append(b, v)) = StepRow(y, v)
  BY <1>1, FreshAppend
<1>4. a.n = y.n /\ a.trues = y.trues /\ a.stars = y.stars /\ a.sum = y.sum
  BY DEF Alike, b
<1> HIDE DEF y
<1>5. Alike(StepRow(a, v), StepRow(y, v))
  BY <1>1, <1>4, StepCounts DEF Alike
<1> QED
  BY <1>2, <1>3, <1>5

LEMMA AlikeInverse ==
    ASSUME NEW U, \A w \in U : ValueOK(w), NEW a, a.buf \in Seq(U), a.buf # <<>>, Alike(a, Fresh(a.buf)),
           NEW v, v = Head(a.buf)
    PROVE  Alike(InverseRow(a, v), Fresh(InverseRow(a, v).buf))
<1> DEFINE b == a.buf
           x == Fresh(b)
           y == Fresh(Tail(b))
           z == InverseRow(a, v)
<1>1. b \in Seq(U) /\ b # <<>> /\ v \in U /\ ValueOK(v) /\ CountsOK(a) /\ v = Head(b)
  BY HeadTailProperties DEF Alike
<1>2. z.buf = Tail(b)
  BY <1>1, InverseRowFields DEF CountsOK, popFront
<1>3. a.n = x.n /\ a.trues = x.trues /\ a.stars = x.stars /\ a.sum = x.sum
  BY DEF Alike
<1> HIDE DEF b
<1>4. OneAhead(x, y, v)
  BY <1>1, FreshTail
<1> HIDE DEF x, y
<1>5. /\ x.n = y.n + One(v # Null) /\ x.trues = y.trues + One(Truth(v)) /\ x.stars = y.stars + 1
      /\ y.n \in Int /\ y.trues \in Nat /\ y.stars \in Nat /\ SummerOK(y.sum) /\ SummerOK(x.sum)
      /\ CountsOK(y) /\ \A f \in SummerFields : x.sum[f] = y.sum[f] + Part(v, f)
  BY <1>4 DEF OneAhead, CountsOK
<1>6. a.stars > 0 /\ (Truth(v) => a.trues > 0) /\ One(v # Null) \in Int /\ One(Truth(v)) \in Int
  BY <1>3, <1>5 DEF One
<1>7. /\ CountsOK(z) /\ z.n = a.n - One(v # Null) /\ z.trues = a.trues - One(Truth(v))
      /\ z.stars = a.stars - 1 /\ z.sum = update(a.sum, v, -1)
  BY <1>1, <1>6, InverseCounts DEF b
<1> HIDE DEF z
<1>8. z.n = y.n /\ z.trues = y.trues /\ z.stars = y.stars
  BY <1>3, <1>5, <1>6, <1>7
<1>9. z.sum = y.sum
  <2> DEFINE s == z.sum
             t == y.sum
  <2>1. ASSUME NEW f \in SummerFields PROVE s[f] = t[f]
    <3>1. s[f] = x.sum[f] - Part(v, f)
      BY <1>1, <1>3, <1>5, <1>7, UpdateBoth
    <3>2. x.sum[f] = t[f] + Part(v, f) /\ t[f] \in Int /\ Part(v, f) \in Int
      BY <1>1, <1>5, PartInt DEF SummerOK
    <3> QED
      BY <3>1, <3>2
  <2>2. SummerOK(s) /\ SummerOK(t)
    BY <1>5, <1>7 DEF CountsOK
  <2> HIDE DEF s, t
  <2>3. s = t
    BY <2>1, <2>2 DEF SummerOK, IsFunction
  <2> QED
    BY <2>3 DEF s, t
<1>10. Alike(z, y)
  BY <1>5, <1>7, <1>8, <1>9 DEF Alike
<1> QED
  BY <1>2, <1>10 DEF y, z

-----------------------------------------------------------------------------
(* The rows of a frame, and moves from one frame to the next.               *)

\* The aggregators hold the rows s+1..e, and count like fresh ones.
Holds(a, U, vals, s, e) ==
  /\ DOMAIN a = InnerFields
  /\ a.buf \in Seq(U) /\ Len(a.buf) = e - s
  /\ \A k \in 1..(e - s) : a.buf[k] = vals[s + k]
  /\ Alike(a, Fresh(a.buf))
\* BIT_AND and its kin hold what NULLs leave of them.
BitsSound(a) == a.bits = NonNulls(a.buf)

LEMMA StepRowHolds ==
    ASSUME NEW U, \A w \in U : ValueOK(w), NEW n \in Nat, NEW vals \in [1..n -> U],
           NEW s \in 0..n, NEW e \in s..n, e < n, NEW a, Holds(a, U, vals, s, e)
    PROVE  /\ Holds(StepRow(a, vals[e + 1]), U, vals, s, e + 1)
           /\ BitsSound(a) => BitsSound(StepRow(a, vals[e + 1]))
<1> DEFINE v == vals[e + 1]
           b == StepRow(a, v)
<1>1. v \in U
  OBVIOUS
<1>2. DOMAIN a = InnerFields /\ a.buf \in Seq(U) /\ Len(a.buf) = e - s /\ \A k \in 1..(e - s) : a.buf[k] = vals[s + k]
  BY DEF Holds
<1>3. DOMAIN b = InnerFields /\ b.buf = Append(a.buf, v) /\ b.bits = Keep(a.bits, v)
  BY <1>2, StepRowFields
<1> HIDE DEF b
<1>4. /\ b.buf \in Seq(U) /\ Len(b.buf) = Len(a.buf) + 1
      /\ \A k \in 1..Len(a.buf) : b.buf[k] = a.buf[k]
      /\ b.buf[Len(a.buf) + 1] = v
  <2> DEFINE old == a.buf
             new == b.buf
  <2>1. old \in Seq(U) /\ new = Append(old, v)
    BY <1>2, <1>3
  <2> HIDE DEF old, new, v
  <2>2. /\ new \in Seq(U) /\ Len(new) = Len(old) + 1 /\ new[Len(old) + 1] = v
        /\ \A k \in 1..Len(old) : new[k] = old[k]
    BY <1>1, <2>1, AppendProperties
  <2> QED
    BY <2>2 DEF old, new
<1>5. Len(b.buf) = (e + 1) - s
  BY <1>2, <1>4
<1>6. ASSUME NEW k \in 1..((e + 1) - s) PROVE b.buf[k] = vals[s + k]
  <2>1. CASE k = Len(a.buf) + 1
    BY <1>2, <1>4, <2>1
  <2>2. CASE k # Len(a.buf) + 1
    <3>1. k \in 1..Len(a.buf) /\ k \in 1..(e - s)
      BY <1>2, <2>2
    <3> QED
      BY <1>2, <1>4, <3>1
  <2> QED
    BY <2>1, <2>2
<1>9. Alike(b, Fresh(b.buf))
  BY <1>1, <1>2, AlikeStep DEF Holds, b
<1>7. Holds(b, U, vals, s, e + 1)
  BY <1>3, <1>4, <1>5, <1>6, <1>9 DEF Holds
<1>8. ASSUME BitsSound(a) PROVE BitsSound(b)
  <2>1. NonNulls(Append(a.buf, v)) = Keep(NonNulls(a.buf), v)
    BY <1>1, <1>2, NonNullsAppend DEF Keep
  <2> QED
    BY <1>3, <1>8, <2>1 DEF BitsSound
<1> QED
  BY <1>7, <1>8 DEF b

LEMMA InverseRowHolds ==
    ASSUME NEW U, \A w \in U : ValueOK(w), NEW n \in Nat, NEW vals \in [1..n -> U],
           NEW e \in 0..n, NEW s \in 0..e, s < e, NEW a, Holds(a, U, vals, s, e), NEW v, v = vals[s + 1]
    PROVE  /\ Holds(InverseRow(a, v), U, vals, s + 1, e)
           /\ BitsSound(a) /\ vals[s + 1] # Null => BitsSound(InverseRow(a, v))
<1> DEFINE b == InverseRow(a, v)
<1>2. DOMAIN a = InnerFields /\ a.buf \in Seq(U) /\ Len(a.buf) = e - s /\ \A k \in 1..(e - s) : a.buf[k] = vals[s + k]
  BY DEF Holds
<1>3. DOMAIN b = InnerFields /\ b.buf = popFront(a.buf) /\ b.bits = popFront(a.bits)
  BY <1>2, InverseRowFields
<1> HIDE DEF b
<1>4. a.buf # <<>>
  BY <1>2
<1>5. b.buf = Tail(a.buf)
  BY <1>3, <1>4 DEF popFront
<1>6. b.buf \in Seq(U) /\ Len(b.buf) = Len(a.buf) - 1 /\ \A k \in 1..Len(b.buf) : b.buf[k] = a.buf[k + 1]
  BY <1>2, <1>4, <1>5, HeadTailProperties
<1>7. ASSUME NEW k \in 1..(e - (s + 1)) PROVE b.buf[k] = vals[(s + 1) + k]
  <2>1. k \in 1..Len(b.buf) /\ k + 1 \in 1..(e - s) /\ s + (k + 1) = (s + 1) + k
    BY <1>2, <1>6
  <2> QED
    BY <1>2, <1>6, <2>1
<1>10. Head(a.buf) = a.buf[1] /\ a.buf[1] = vals[s + 1]
  <2>1. 1 \in 1..(e - s)
    OBVIOUS
  <2> QED
    BY <1>2, <1>4, <2>1
<1>11. Alike(b, Fresh(b.buf))
  BY <1>2, <1>4, <1>10, AlikeInverse DEF Holds, b
<1>8. Holds(b, U, vals, s + 1, e)
  BY <1>2, <1>3, <1>6, <1>7, <1>11 DEF Holds
<1>9. ASSUME BitsSound(a), vals[s + 1] # Null PROVE BitsSound(b)
  <2>3. NonNulls(a.buf) # <<>> /\ Tail(NonNulls(a.buf)) = NonNulls(Tail(a.buf))
    BY <1>2, <1>4, <1>9, <1>10, NonNullsTail
  <2> QED
    BY <1>3, <1>5, <1>9, <2>3 DEF BitsSound, popFront
<1> QED
  BY <1>8, <1>9 DEF b

\* After the fold over the rows that enter, and over the rows that leave.
LEMMA EnterHolds ==
    ASSUME NEW U, \A w \in U : ValueOK(w), NEW n \in Nat, NEW vals \in [1..n -> U],
           NEW s \in 0..n, NEW e \in s..n, NEW f \in e..n, NEW a, Holds(a, U, vals, s, e)
    PROVE  LET b == FoldLeft(StepRow, a, SubSeq(vals, e + 1, f))
           IN  Holds(b, U, vals, s, f) /\ (BitsSound(a) => BitsSound(b))
<1> DEFINE d == f - e
           q == SubSeq(vals, e + 1, f)
<1>1. d \in Nat /\ DOMAIN q = 1..d /\ \A k \in 1..d : q[k] = vals[e + k]
  <2>1. \A i \in (e + 1)..f : vals[i] \in U
    OBVIOUS
  <2>2. /\ q \in Seq(U) /\ Len(q) = IF e + 1 <= f THEN f - (e + 1) + 1 ELSE 0
        /\ \A i \in 1..(f - (e + 1) + 1) : q[i] = vals[(e + 1) + i - 1]
    BY <2>1, SubSeqProperties
  <2> HIDE DEF q
  <2>3. d \in Nat /\ Len(q) = d /\ f - (e + 1) + 1 = d /\ \A i \in 1..d : (e + 1) + i - 1 = e + i
    BY <2>2
  <2> QED
    BY <2>2, <2>3
<1>2. f = e + d /\ \A k \in Nat : e + k = e + (k + 0)
  OBVIOUS
<1> HIDE DEF d, q
<1>3. PICK S : LoopOf(S, "enter", 0, a, q, d) /\ FoldLeft(StepRow, a, q) = S[d]
  BY <1>1, EnterLoop
<1>4. S[0] = a /\ \A k \in 1..d : S[k] = StepRow(S[k - 1], q[k])
  BY <1>3 DEF LoopOf, Body
<1> DEFINE E == {k \in Nat : k <= d => Holds(S[k], U, vals, s, e + k) /\ (BitsSound(a) => BitsSound(S[k]))}
<1>5. 0 \in E
  <2>1. e + 0 = e
    OBVIOUS
  <2> QED
    BY <1>4, <2>1
<1>6. ASSUME NEW k \in Nat, k \in E PROVE k + 1 \in E
  <2>1. CASE k + 1 <= d
    <3>1. /\ k + 1 \in 1..d /\ (k + 1) - 1 = k /\ k <= d /\ e + k \in s..n /\ e + k < n
          /\ (e + k) + 1 = e + (k + 1)
      BY <1>1, <1>2, <2>1
    <3>2. Holds(S[k], U, vals, s, e + k) /\ (BitsSound(a) => BitsSound(S[k]))
      BY <1>6, <3>1
    <3>3. S[k + 1] = StepRow(S[k], vals[(e + k) + 1])
      BY <1>1, <1>4, <3>1
    <3>4. /\ Holds(S[k + 1], U, vals, s, (e + k) + 1)
          /\ BitsSound(S[k]) => BitsSound(S[k + 1])
      BY <3>1, <3>2, <3>3, StepRowHolds
    <3>5. Holds(S[k + 1], U, vals, s, e + (k + 1)) /\ (BitsSound(a) => BitsSound(S[k + 1]))
      BY <3>1, <3>2, <3>4
    <3> QED
      BY <3>5
  <2> QED
    BY <2>1
<1>7. \A k \in Nat : k \in E => k + 1 \in E
  BY <1>6
<1> HIDE DEF E
<1>8. Nat \subseteq E
  BY <1>5, <1>7, NatSet
<1>9. Holds(S[d], U, vals, s, e + d) /\ (BitsSound(a) => BitsSound(S[d]))
  BY <1>1, <1>8 DEF E
<1>10. Holds(FoldLeft(StepRow, a, q), U, vals, s, f) /\ (BitsSound(a) => BitsSound(FoldLeft(StepRow, a, q)))
  BY <1>2, <1>3, <1>9
<1> QED
  BY <1>10 DEF q

LEMMA LeaveHolds ==
    ASSUME NEW U, \A w \in U : ValueOK(w), NEW n \in Nat, NEW vals \in [1..n -> U],
           NEW e \in 0..n, NEW t \in 0..e, NEW s \in 0..t, NEW a, Holds(a, U, vals, s, e)
    PROVE  LET b == FoldLeft(InverseRow, a, SubSeq(vals, s + 1, t))
           IN  /\ Holds(b, U, vals, t, e)
               /\ BitsSound(a) /\ (\A k \in 1..t : vals[k] # Null) => BitsSound(b)
<1> DEFINE d == t - s
           q == SubSeq(vals, s + 1, t)
           Clear == \A k \in 1..t : vals[k] # Null
<1>1. d \in Nat /\ DOMAIN q = 1..d /\ \A k \in 1..d : q[k] = vals[s + k]
  <2>1. \A i \in (s + 1)..t : vals[i] \in U
    OBVIOUS
  <2>2. /\ q \in Seq(U) /\ Len(q) = IF s + 1 <= t THEN t - (s + 1) + 1 ELSE 0
        /\ \A i \in 1..(t - (s + 1) + 1) : q[i] = vals[(s + 1) + i - 1]
    BY <2>1, SubSeqProperties
  <2> HIDE DEF q
  <2>3. d \in Nat /\ Len(q) = d /\ t - (s + 1) + 1 = d /\ \A i \in 1..d : (s + 1) + i - 1 = s + i
    BY <2>2
  <2> QED
    BY <2>2, <2>3
<1>2. t = s + d
  OBVIOUS
<1> HIDE DEF d, q
<1>3. PICK S : LoopOf(S, "leave", 0, a, q, d) /\ FoldLeft(InverseRow, a, q) = S[d]
  BY <1>1, LeaveLoop
<1>4. S[0] = a /\ \A k \in 1..d : S[k] = InverseRow(S[k - 1], q[k])
  BY <1>3 DEF LoopOf, Body
<1> DEFINE E == {k \in Nat : k <= d => Holds(S[k], U, vals, s + k, e) /\ (BitsSound(a) /\ Clear => BitsSound(S[k]))}
<1>5. 0 \in E
  <2>1. s + 0 = s
    OBVIOUS
  <2> QED
    BY <1>4, <2>1
<1>6. ASSUME NEW k \in Nat, k \in E PROVE k + 1 \in E
  <2>1. CASE k + 1 <= d
    <3>1. /\ k + 1 \in 1..d /\ (k + 1) - 1 = k /\ k <= d /\ s + k \in 0..e /\ s + k < e
          /\ (s + k) + 1 = s + (k + 1) /\ (s + k) + 1 \in 1..t
      BY <1>1, <1>2, <2>1
    <3>2. Holds(S[k], U, vals, s + k, e) /\ (BitsSound(a) /\ Clear => BitsSound(S[k]))
      BY <1>6, <3>1
    <3>3. S[k + 1] = InverseRow(S[k], q[k + 1])
      BY <1>4, <3>1
    <3>4. /\ Holds(S[k + 1], U, vals, (s + k) + 1, e)
          /\ BitsSound(S[k]) /\ vals[(s + k) + 1] # Null => BitsSound(S[k + 1])
      <4> DEFINE a1 == S[k]
                 v1 == q[k + 1]
                 s1 == s + k
      <4>1. Holds(a1, U, vals, s1, e) /\ s1 \in 0..e /\ s1 < e /\ S[k + 1] = InverseRow(a1, v1)
        BY <3>1, <3>2, <3>3
      <4>3. v1 = vals[s1 + 1]
        BY <1>1, <3>1
      <4> HIDE DEF a1, v1, s1
      <4>2. /\ Holds(InverseRow(a1, v1), U, vals, s1 + 1, e)
            /\ BitsSound(a1) /\ vals[s1 + 1] # Null => BitsSound(InverseRow(a1, v1))
        BY <4>1, <4>3, InverseRowHolds
      <4> QED
        BY <4>1, <4>2 DEF a1, s1
    <3>6. Clear => vals[(s + k) + 1] # Null
      BY <3>1
    <3> HIDE DEF Clear
    <3>5. Holds(S[k + 1], U, vals, s + (k + 1), e) /\ (BitsSound(a) /\ Clear => BitsSound(S[k + 1]))
      BY <3>1, <3>2, <3>4, <3>6
    <3> QED
      BY <3>5
  <2> QED
    BY <2>1
<1>7. \A k \in Nat : k \in E => k + 1 \in E
  BY <1>6
<1> HIDE DEF E
<1>8. Nat \subseteq E
  BY <1>5, <1>7, NatSet
<1>9. Holds(S[d], U, vals, s + d, e) /\ (BitsSound(a) /\ Clear => BitsSound(S[d]))
  BY <1>1, <1>8 DEF E
<1>10. Holds(FoldLeft(InverseRow, a, q), U, vals, t, e) /\ (BitsSound(a) /\ Clear => BitsSound(FoldLeft(InverseRow, a, q)))
  BY <1>2, <1>3, <1>9
<1> QED
  BY <1>10 DEF q

\* An instance that is moved forward holds the rows of its new frame.
LEMMA MovedHolds ==
    ASSUME NEW U, \A w \in U : ValueOK(w), NEW n \in Nat, NEW vals \in [1..n -> U],
           NEW s \in 0..n, NEW e \in s..n, NEW a, Holds(a, U, vals, s, e), NEW f, f.e \in e..n, f.s \in s..f.e
    PROVE  LET b == Moved(a, vals, s, e, f)
           IN  /\ Holds(b, U, vals, f.s, f.e)
               /\ BitsSound(a) /\ (\A k \in 1..f.s : vals[k] # Null) => BitsSound(b)
<1> DEFINE x == f.s
           y == f.e
           b == FoldLeft(StepRow, a, SubSeq(vals, e + 1, y))
<1>1. x \in 0..y /\ y \in 0..n /\ y \in e..n /\ s \in 0..x
  OBVIOUS
<1> HIDE DEF x, y
<1>2. Holds(b, U, vals, s, y) /\ (BitsSound(a) => BitsSound(b))
  BY <1>1, EnterHolds
<1> HIDE DEF b
<1>3. /\ Holds(FoldLeft(InverseRow, b, SubSeq(vals, s + 1, x)), U, vals, x, y)
      /\ BitsSound(b) /\ (\A k \in 1..x : vals[k] # Null) => BitsSound(FoldLeft(InverseRow, b, SubSeq(vals, s + 1, x)))
  BY <1>1, <1>2, LeaveHolds
<1> QED
  BY <1>2, <1>3 DEF Moved, b, x, y

LEMMA NewHolds ==
    ASSUME NEW U, NEW vals, NEW s \in Int
    PROVE  Holds(NewInner, U, vals, s, s) /\ BitsSound(NewInner)
<1>1. DOMAIN NewInner = InnerFields /\ NewInner.buf = <<>> /\ NewInner.bits = <<>>
  BY DEF NewInner, InnerFields
<1>2. Alike(NewInner, Fresh(NewInner.buf))
  BY <1>1, FreshEmpty, NewCounts DEF Alike
<1> QED
  BY <1>1, <1>2, NonNullsEmpty, EmptySeq DEF Holds, BitsSound

-----------------------------------------------------------------------------
(* sort.Search.                                                            *)

Half(p) == (p[1] + p[2]) \div 2
Bisect(go, holds, p) == IF p[1] >= p[2] THEN p[1]
                        ELSE IF holds[Half(p)] THEN go[<<p[1], Half(p)>>] ELSE go[<<Half(p) + 1, p[2]>>]
Bisects(go, n, holds) == go = [p \in (0..n) \X (0..n) |-> Bisect(go, holds, p)]

LEMMA SearchBisects ==
    ASSUME NEW n, NEW holds
    PROVE  Search(n, holds) = (CHOOSE go : Bisects(go, n, holds))[<<0, n>>]
BY DEF Search, Bisects, Bisect, Half

LEMMA HalfBetween ==
    ASSUME NEW n \in Nat, NEW p \in (0..n) \X (0..n), p[1] < p[2]
    PROVE  /\ Half(p) \in 0..n /\ p[1] <= Half(p) /\ Half(p) < p[2] /\ Half(p) + 1 \in 0..n
           /\ <<p[1], Half(p)>> \in (0..n) \X (0..n)
           /\ <<Half(p) + 1, p[2]>> \in (0..n) \X (0..n)
<1> DEFINE i == p[1]
           j == p[2]
           h == Half(p)
<1>1. i \in 0..n /\ j \in 0..n /\ i < j /\ h = (i + j) \div 2
  BY DEF Half
<1> HIDE DEF i, j, h
<1>2. h \in Nat /\ i <= h /\ h < j
  BY <1>1
<1>3. h \in 0..n /\ h + 1 \in 0..n
  BY <1>1, <1>2
<1> QED
  BY <1>1, <1>2, <1>3 DEF i, j, h

Apart(p) == p[2] - p[1]

LEMMA HalvesCloser ==
    ASSUME NEW n \in Nat, NEW p \in (0..n) \X (0..n), p[1] < p[2]
    PROVE  /\ <<p[1], Half(p)>> \in (0..n) \X (0..n) /\ Apart(<<p[1], Half(p)>>) < Apart(p)
           /\ <<Half(p) + 1, p[2]>> \in (0..n) \X (0..n) /\ Apart(<<Half(p) + 1, p[2]>>) < Apart(p)
<1>1. /\ Half(p) \in 0..n /\ p[1] <= Half(p) /\ Half(p) < p[2] /\ Half(p) + 1 \in 0..n
      /\ <<p[1], Half(p)>> \in (0..n) \X (0..n) /\ <<Half(p) + 1, p[2]>> \in (0..n) \X (0..n)
  BY HalfBetween
<1>2. Apart(<<p[1], Half(p)>>) = Half(p) - p[1] /\ Apart(<<Half(p) + 1, p[2]>>) = p[2] - (Half(p) + 1)
  BY DEF Apart
<1>3. Apart(p) = p[2] - p[1]
  BY DEF Apart
<1> DEFINE i == p[1]
           j == p[2]
           h == Half(p)
<1>4. i \in 0..n /\ j \in 0..n /\ h \in 0..n /\ i <= h /\ h < j
  BY <1>1
<1> HIDE DEF i, j, h
<1>5. h - i < j - i /\ j - (h + 1) < j - i
  BY <1>4
<1> QED
  BY <1>1, <1>2, <1>3, <1>5 DEF i, j, h

LEMMA BisectsExist ==
    ASSUME NEW n \in Nat, NEW holds
    PROVE  \E go : Bisects(go, n, holds)
<1> DEFINE P == (0..n) \X (0..n)
<1>0. \A p \in P : p[1] \in 0..n /\ p[2] \in 0..n /\ Apart(p) \in Int /\ Apart(p) < n + 1
  BY DEF Apart
<1>h. ASSUME NEW p \in P, p[1] < p[2]
      PROVE  /\ <<p[1], Half(p)>> \in P /\ Apart(<<p[1], Half(p)>>) < Apart(p)
             /\ <<Half(p) + 1, p[2]>> \in P /\ Apart(<<Half(p) + 1, p[2]>>) < Apart(p)
  BY <1>h, HalvesCloser
<1> HIDE DEF P
<1> DEFINE S == {d \in Nat : \E g : g = [p \in P |-> g[p]] /\ \A p \in P : Apart(p) < d => g[p] = Bisect(g, holds, p)}
<1>1. 0 \in S
  <2> DEFINE g == [p \in P |-> p[1]]
  <2>1. g = [p \in P |-> g[p]]
    OBVIOUS
  <2>2. ASSUME NEW p \in P, Apart(p) < 0 PROVE g[p] = Bisect(g, holds, p)
    <3>1. p[1] >= p[2]
      BY <1>0, <2>2 DEF Apart
    <3> QED
      BY <3>1 DEF Bisect
  <2> HIDE DEF g
  <2> QED
    BY <2>1, <2>2
<1>2. ASSUME NEW d \in Nat, d \in S PROVE d + 1 \in S
  <2>1. PICK g : g = [p \in P |-> g[p]] /\ \A p \in P : Apart(p) < d => g[p] = Bisect(g, holds, p)
    BY <1>2
  <2> DEFINE k == [p \in P |-> IF Apart(p) < d THEN g[p] ELSE Bisect(g, holds, p)]
  <2>2. k = [p \in P |-> k[p]]
    OBVIOUS
  <2>3. \A p \in P : k[p] = IF Apart(p) < d THEN g[p] ELSE Bisect(g, holds, p)
    OBVIOUS
  <2> HIDE DEF k
  <2>4. ASSUME NEW p \in P, Apart(p) < d + 1 PROVE k[p] = Bisect(k, holds, p)
    <3>1. k[p] = Bisect(g, holds, p)
      BY <2>1, <2>3
    <3>2. CASE p[1] >= p[2]
      BY <3>1, <3>2 DEF Bisect
    <3>3. CASE p[1] < p[2]
      <4>1. /\ <<p[1], Half(p)>> \in P /\ Apart(<<p[1], Half(p)>>) < d
            /\ <<Half(p) + 1, p[2]>> \in P /\ Apart(<<Half(p) + 1, p[2]>>) < d
        BY <1>0, <1>h, <2>4, <3>3
      <4>2. k[<<p[1], Half(p)>>] = g[<<p[1], Half(p)>>] /\ k[<<Half(p) + 1, p[2]>>] = g[<<Half(p) + 1, p[2]>>]
        BY <2>3, <4>1
      <4> QED
        BY <3>1, <4>2 DEF Bisect
    <3> QED
      BY <1>0, <3>2, <3>3
  <2>5. \E x : x = [p \in P |-> x[p]] /\ \A p \in P : Apart(p) < d + 1 => x[p] = Bisect(x, holds, p)
    BY <2>2, <2>4
  <2> QED
    BY <2>5
<1>3. \A d \in Nat : d \in S => d + 1 \in S
  BY <1>2
<1> HIDE DEF S
<1>4. Nat \subseteq S
  BY <1>1, <1>3, NatSet
<1>5. n + 1 \in S
  BY <1>4
<1>6. PICK g : g = [p \in P |-> g[p]] /\ \A p \in P : Apart(p) < n + 1 => g[p] = Bisect(g, holds, p)
  BY <1>5 DEF S
<1>7. \A p \in P : g[p] = Bisect(g, holds, p)
  BY <1>0, <1>6
<1>8. g = [p \in P |-> Bisect(g, holds, p)]
  BY <1>6, <1>7
<1> QED
  BY <1>8 DEF Bisects, P

\* The search stays between the ends of its interval.
LEMMA SearchRange ==
    ASSUME NEW n \in Nat, NEW holds
    PROVE  Search(n, holds) \in 0..n
<1> DEFINE P == (0..n) \X (0..n)
<1>1. PICK go : Bisects(go, n, holds) /\ Search(n, holds) = go[<<0, n>>]
  <2>1. Bisects(CHOOSE go : Bisects(go, n, holds), n, holds)
    BY BisectsExist
  <2> QED
    BY <2>1, SearchBisects
<1>2. \A p \in P : go[p] = Bisect(go, holds, p)
  BY <1>1 DEF Bisects
<1>3. \A p \in P : p[1] \in 0..n /\ p[2] \in 0..n /\ Apart(p) \in Int /\ Apart(p) < n + 1
  BY DEF Apart
<1>h. ASSUME NEW p \in P, p[1] < p[2]
      PROVE  /\ <<p[1], Half(p)>> \in P /\ Apart(<<p[1], Half(p)>>) < Apart(p)
             /\ <<Half(p) + 1, p[2]>> \in P /\ Apart(<<Half(p) + 1, p[2]>>) < Apart(p)
  BY <1>h, HalvesCloser
<1> HIDE DEF P
<1> DEFINE S == {d \in Nat : \A p \in P : Apart(p) < d => go[p] \in 0..n}
<1>4. 0 \in S
  <2>1. ASSUME NEW p \in P, Apart(p) < 0 PROVE go[p] \in 0..n
    <3>1. p[1] >= p[2]
      BY <1>3, <2>1 DEF Apart
    <3> QED
      BY <1>2, <1>3, <3>1 DEF Bisect
  <2> QED
    BY <2>1
<1>5. ASSUME NEW d \in Nat, d \in S PROVE d + 1 \in S
  <2>1. ASSUME NEW p \in P, Apart(p) < d + 1 PROVE go[p] \in 0..n
    <3>1. CASE p[1] >= p[2]
      BY <1>2, <1>3, <3>1 DEF Bisect
    <3>2. CASE p[1] < p[2]
      <4>1. /\ <<p[1], Half(p)>> \in P /\ Apart(<<p[1], Half(p)>>) < d
            /\ <<Half(p) + 1, p[2]>> \in P /\ Apart(<<Half(p) + 1, p[2]>>) < d
        BY <1>3, <1>h, <2>1, <3>2
      <4>2. go[<<p[1], Half(p)>>] \in 0..n /\ go[<<Half(p) + 1, p[2]>>] \in 0..n
        BY <1>5, <4>1
      <4>3. go[p] = go[<<p[1], Half(p)>>] \/ go[p] = go[<<Half(p) + 1, p[2]>>]
        BY <1>2, <1>3, <3>2 DEF Bisect
      <4> QED
        BY <4>2, <4>3
    <3> QED
      BY <1>3, <3>1, <3>2
  <2> QED
    BY <2>1
<1>6. \A d \in Nat : d \in S => d + 1 \in S
  BY <1>5
<1> HIDE DEF S
<1>7. Nat \subseteq S
  BY <1>4, <1>6, NatSet
<1>8. n + 1 \in S
  BY <1>7
<1>9. <<0, n>> \in P /\ Apart(<<0, n>>) < n + 1
  BY DEF P, Apart
<1> QED
  BY <1>1, <1>8, <1>9 DEF S

-----------------------------------------------------------------------------
(* The frames.                                                             *)

Delta(b) == CASE b = "preceding" -> -1 [] b = "current" -> 0 [] b = "following" -> 1
Clamp(x, n) == IF x < 0 THEN 0 ELSE IF x > n THEN n ELSE x
RowStart(i, n) == IF over.start = "unboundedPreceding" THEN 0 ELSE Clamp(i + Delta(over.start), n)
RowEnd(i, n) == IF over.end = "unboundedFollowing" THEN n ELSE Clamp(i + Delta(over.end) + 1, n)

LEMMA RowsFrameIs ==
    ASSUME NEW i
    PROVE  /\ rowsFrame(i).s = RowStart(i, Len(input.keys))
           /\ rowsFrame(i).e = RowEnd(i, Len(input.keys))
BY DEF rowsFrame, RowStart, RowEnd, Clamp, Delta

LEMMA ClampOrder ==
    ASSUME NEW n \in Nat, NEW x \in Int, NEW y \in Int, x <= y
    PROVE  Clamp(x, n) \in 0..n /\ Clamp(x, n) <= Clamp(y, n)
BY DEF Clamp

\* A ROWS frame lies in the partition and only moves forward.
LEMMA RowsFrameOrder ==
    ASSUME over \in C!FrameClauses, NEW n \in Nat, NEW i \in Nat
    PROVE  /\ RowStart(i, n) \in 0..n /\ RowEnd(i, n) \in 0..n
           /\ RowStart(i, n) <= RowEnd(i, n)
           /\ RowStart(i, n) <= RowStart(i + 1, n) /\ RowEnd(i, n) <= RowEnd(i + 1, n)
<1> DEFINE a == Delta(over.start)
           b == Delta(over.end)
<1>1. /\ over.start \in {"unboundedPreceding", "preceding", "current", "following"}
      /\ over.end \in {"preceding", "current", "following", "unboundedFollowing"}
      /\ \/ over.start = "unboundedPreceding"
         \/ over.end = "unboundedFollowing"
         \/ C!Offset(over.start) <= C!Offset(over.end)
  BY DEF C!FrameClauses, C!Starts, C!Ends
<1>2. over.start # "unboundedPreceding" => a \in -1..1 /\ a = C!Offset(over.start)
  BY <1>1 DEF Delta, C!Offset
<1>3. over.end # "unboundedFollowing" => b \in -1..1 /\ b = C!Offset(over.end)
  BY <1>1 DEF Delta, C!Offset
<1>4. over.start # "unboundedPreceding" /\ over.end # "unboundedFollowing" => a <= b
  BY <1>1, <1>2, <1>3
<1> HIDE DEF a, b
<1>5. over.start # "unboundedPreceding" =>
        /\ RowStart(i, n) = Clamp(i + a, n) /\ RowStart(i + 1, n) = Clamp((i + 1) + a, n)
        /\ i + a \in Int /\ (i + 1) + a \in Int /\ i + a <= (i + 1) + a
  BY <1>2 DEF RowStart, a
<1>6. over.end # "unboundedFollowing" =>
        /\ RowEnd(i, n) = Clamp(i + b + 1, n) /\ RowEnd(i + 1, n) = Clamp((i + 1) + b + 1, n)
        /\ i + b + 1 \in Int /\ (i + 1) + b + 1 \in Int /\ i + b + 1 <= (i + 1) + b + 1
  BY <1>3 DEF RowEnd, b
<1>7. over.start = "unboundedPreceding" => RowStart(i, n) = 0 /\ RowStart(i + 1, n) = 0
  BY DEF RowStart
<1>8. over.end = "unboundedFollowing" => RowEnd(i, n) = n /\ RowEnd(i + 1, n) = n
  BY DEF RowEnd
<1>9. RowStart(i, n) \in 0..n /\ RowStart(i, n) <= RowStart(i + 1, n)
  BY <1>5, <1>7, ClampOrder
<1>10. RowEnd(i, n) \in 0..n /\ RowEnd(i, n) <= RowEnd(i + 1, n)
  BY <1>6, <1>8, ClampOrder
<1>11. over.start # "unboundedPreceding" /\ over.end # "unboundedFollowing" => i + a <= i + b + 1
  BY <1>2, <1>3, <1>4
<1>12. RowStart(i, n) <= RowEnd(i, n)
  BY <1>5, <1>6, <1>7, <1>8, <1>9, <1>10, <1>11, ClampOrder
<1> QED
  BY <1>9, <1>10, <1>12

\* A RANGE frame lies in the partition.
LEMMA RangeFrameIn ==
    ASSUME NEW i, Len(keys) \in Nat
    PROVE  frame(i).s \in 0..Len(keys) /\ frame(i).e \in frame(i).s..Len(keys)
<1> DEFINE n == Len(keys)
           k == keys[i + 1]
           x == IF over.start = "unboundedPreceding" THEN 0
                ELSE Search(n, [j \in 0..(n - 1) |-> cmp(keys[j + 1], bound(k, over.start)) >= 0])
           y == IF over.end = "unboundedFollowing" THEN n
                ELSE Search(n, [j \in 0..(n - 1) |-> cmp(keys[j + 1], bound(k, over.end)) > 0])
<1>1. n \in Nat
  OBVIOUS
<1>2. x \in 0..n /\ y \in 0..n
  <2> HIDE DEF n, k
  <2>1. \A h : Search(n, h) \in 0..n
    BY <1>1, SearchRange
  <2>2. 0 \in 0..n /\ n \in 0..n
    BY <1>1
  <2> QED
    BY <2>1, <2>2, Zenon
<1>3. frame(i) = [s |-> x, e |-> IF y < x THEN x ELSE y]
  BY DEF frame
<1> HIDE DEF n, x, y
<1>4. x \in 0..n /\ (IF y < x THEN x ELSE y) \in x..n
  BY <1>1, <1>2
<1> QED
  BY <1>3, <1>4 DEF n

-----------------------------------------------------------------------------
(* Binary search finds the first index at which a predicate that does not   *)
(* turn FALSE again is TRUE.                                                *)

LEMMA SearchFinds ==
    ASSUME NEW n \in Nat, NEW holds, \A j, k \in 0..(n - 1) : j <= k /\ holds[j] => holds[k]
    PROVE  /\ Search(n, holds) \in 0..n
           /\ \A j \in 0..(n - 1) : holds[j] <=> Search(n, holds) <= j
<1> DEFINE P == (0..n) \X (0..n)
           Below(i) == \A j \in 0..(n - 1) : j < i => ~holds[j]
           Above(i) == \A j \in 0..(n - 1) : i <= j => holds[j]
           Right(p, x) == p[1] <= p[2] /\ Below(p[1]) /\ Above(p[2]) => Below(x) /\ Above(x)
<1>1. PICK go : Bisects(go, n, holds) /\ Search(n, holds) = go[<<0, n>>]
  <2>1. Bisects(CHOOSE go : Bisects(go, n, holds), n, holds)
    BY BisectsExist
  <2> QED
    BY <2>1, SearchBisects
<1>2. \A p \in P : go[p] = Bisect(go, holds, p)
  BY <1>1 DEF Bisects
<1>3. \A p \in P : p[1] \in 0..n /\ p[2] \in 0..n /\ Apart(p) \in Int /\ Apart(p) < n + 1
  BY DEF Apart
<1>h. ASSUME NEW p \in P, p[1] < p[2]
      PROVE  /\ <<p[1], Half(p)>> \in P /\ Apart(<<p[1], Half(p)>>) < Apart(p)
             /\ <<Half(p) + 1, p[2]>> \in P /\ Apart(<<Half(p) + 1, p[2]>>) < Apart(p)
             /\ Half(p) \in 0..(n - 1) /\ p[1] <= Half(p) /\ Half(p) + 1 <= p[2] /\ Half(p) \in Nat
  <2>1. /\ <<p[1], Half(p)>> \in P /\ Apart(<<p[1], Half(p)>>) < Apart(p)
        /\ <<Half(p) + 1, p[2]>> \in P /\ Apart(<<Half(p) + 1, p[2]>>) < Apart(p)
    BY <1>h, HalvesCloser
  <2>2. Half(p) \in 0..n /\ p[1] <= Half(p) /\ Half(p) < p[2]
    BY <1>h, HalfBetween
  <2>3. Half(p) \in 0..(n - 1) /\ Half(p) + 1 <= p[2]
    BY <1>3, <2>2
  <2> QED
    BY <2>1, <2>2, <2>3
<1> HIDE DEF P
<1> DEFINE S == {d \in Nat : \A p \in P : Apart(p) < d => Right(p, go[p])}
<1>4. 0 \in S
  <2>1. ASSUME NEW p \in P, Apart(p) < 0 PROVE Right(p, go[p])
    <3>1. ~(p[1] <= p[2])
      BY <1>3, <2>1 DEF Apart
    <3> QED
      BY <3>1
  <2> HIDE DEF Right
  <2> QED
    BY <2>1
<1>5. ASSUME NEW d \in Nat, d \in S PROVE d + 1 \in S
  <2>1. ASSUME NEW p \in P, Apart(p) < d + 1, p[1] <= p[2], Below(p[1]), Above(p[2])
        PROVE  Below(go[p]) /\ Above(go[p])
    <3>1. CASE p[1] = p[2]
      <4>0. p[1] >= p[2]
        BY <1>3, <3>1
      <4>1. go[p] = p[1]
        BY <1>2, <4>0 DEF Bisect
      <4> QED
        BY <2>1, <3>1, <4>1
    <3>2. CASE p[1] < p[2]
      <4> DEFINE h == Half(p)
                 l == <<p[1], h>>
                 r == <<h + 1, p[2]>>
      <4>1. /\ l \in P /\ Apart(l) < d /\ r \in P /\ Apart(r) < d
            /\ h \in 0..(n - 1) /\ p[1] <= h /\ h + 1 <= p[2] /\ h \in Nat
        BY <1>3, <1>h, <2>1, <3>2
      <4>2. go[p] = IF holds[h] THEN go[l] ELSE go[r]
        BY <1>2, <1>3, <3>2 DEF Bisect
      <4>3. l[1] = p[1] /\ l[2] = h /\ r[1] = h + 1 /\ r[2] = p[2]
        OBVIOUS
      <4> HIDE DEF h, l, r
      <4>4. Right(l, go[l]) /\ Right(r, go[r])
        <5> HIDE DEF Right
        <5> QED
          BY <1>5, <4>1
      <4>5. CASE holds[h]
        <5>1. Above(h)
          BY <4>1, <4>5
        <5> HIDE DEF Above, Below
        <5> QED
          BY <2>1, <4>1, <4>2, <4>3, <4>4, <4>5, <5>1
      <4>6. CASE ~holds[h]
        <5>1. Below(h + 1)
          <6>1. ASSUME NEW j \in 0..(n - 1), j < h + 1 PROVE ~holds[j]
            <7>1. j <= h
              BY <4>1, <6>1
            <7> QED
              BY <4>1, <4>6, <7>1
          <6> QED
            BY <6>1
        <5> HIDE DEF Above, Below
        <5> QED
          BY <2>1, <4>1, <4>2, <4>3, <4>4, <4>6, <5>1
      <4> QED
        BY <4>5, <4>6
    <3> QED
      BY <1>3, <2>1, <3>1, <3>2
  <2>2. \A p \in P : Apart(p) < d + 1 => Right(p, go[p])
    <3> HIDE DEF Above, Below
    <3> QED
      BY <2>1
  <2> HIDE DEF Right
  <2> QED
    BY <2>2
<1>6. \A d \in Nat : d \in S => d + 1 \in S
  BY <1>5
<1> HIDE DEF S, Right
<1>7. Nat \subseteq S
  BY <1>4, <1>6, NatSet
<1>8. n + 1 \in S
  BY <1>7
<1> DEFINE w == <<0, n>>
<1>9. w \in P /\ Apart(w) < n + 1 /\ w[1] = 0 /\ w[2] = n
  BY DEF P, Apart
<1> HIDE DEF w
<1>10. Right(w, go[w])
  BY <1>8, <1>9 DEF S
<1>11. Below(0) /\ Above(n) /\ 0 <= n
  OBVIOUS
<1>12. Below(go[w]) /\ Above(go[w])
  <2> HIDE DEF Above, Below
  <2> QED
    BY <1>9, <1>10, <1>11 DEF Right
<1>13. go[w] \in 0..n /\ Search(n, holds) = go[w]
  BY <1>1, SearchRange DEF w
<1> DEFINE x == go[w]
<1> HIDE DEF x
<1>14. x \in 0..n /\ Search(n, holds) = x /\ Below(x) /\ Above(x)
  BY <1>12, <1>13 DEF x
<1> QED
  BY <1>14

-----------------------------------------------------------------------------
(* The order of the keys: a key's place in the order of the clause.          *)

KeyOK(k) == k \in {Null, NaN} \/ k \in -PosInf..PosInf
Place(k) == CASE k = Null -> IF over.nullsLast THEN PosInf + 2 ELSE -(PosInf + 2)
              [] k = NaN  -> IF over.desc THEN PosInf + 1 ELSE -(PosInf + 1)
              [] OTHER    -> IF over.desc THEN -k ELSE k

LEMMA PlaceInt ==
    ASSUME over \in C!FrameClauses, NEW k, KeyOK(k)
    PROVE  /\ Place(k) \in Int
           /\ k \notin {Null, NaN} => k \in Int /\ Place(k) = IF over.desc THEN -k ELSE k
<1>1. Null \notin Int /\ NaN \notin Int /\ Null # NaN /\ PosInf \in Nat
  BY FloatAssumption
<1> QED
  BY <1>1 DEF Place, KeyOK

LEMMA ComparePlaces ==
    ASSUME over \in C!FrameClauses, NEW a, KeyOK(a), NEW b, KeyOK(b)
    PROVE  /\ cmp(a, b) >= 0 <=> Place(a) >= Place(b)
           /\ cmp(a, b) > 0 <=> Place(a) > Place(b)
           /\ C!Before(a, b, over) <=> Place(a) < Place(b)
<1>1. Null \notin Int /\ NaN \notin Int /\ Null # NaN /\ PosInf \in Nat
  BY FloatAssumption
<1>2. over.desc \in BOOLEAN /\ over.nullsLast \in BOOLEAN
  BY DEF C!FrameClauses
<1> USE DEF cmp, compareValues, C!Before, C!Level, Place, KeyOK
<1>3. CASE a = Null
  <2>1. CASE b = Null
    BY <1>1, <1>2, <1>3, <2>1
  <2>2. CASE b = NaN
    BY <1>1, <1>2, <1>3, <2>2
  <2>3. CASE b \in -PosInf..PosInf
    BY <1>1, <1>2, <1>3, <2>3
  <2> QED
    BY <2>1, <2>2, <2>3
<1>4. CASE a = NaN
  <2>1. CASE b = Null
    BY <1>1, <1>2, <1>4, <2>1
  <2>2. CASE b = NaN
    BY <1>1, <1>2, <1>4, <2>2
  <2>3. CASE b \in -PosInf..PosInf
    BY <1>1, <1>2, <1>4, <2>3
  <2> QED
    BY <2>1, <2>2, <2>3
<1>5. CASE a \in -PosInf..PosInf
  <2>1. CASE b = Null
    BY <1>1, <1>2, <1>5, <2>1
  <2>2. CASE b = NaN
    BY <1>1, <1>2, <1>5, <2>2
  <2>3. CASE b \in -PosInf..PosInf
    BY <1>1, <1>2, <1>5, <2>3
  <2> QED
    BY <2>1, <2>2, <2>3
<1> QED
  BY <1>3, <1>4, <1>5

\* A key that occurs, and the boundary at the offset type of it.
KeySet == {Null, NaN, PosInf, NegInf} \cup ((1 - MaxFloat)..(MaxFloat - 1))
Inner(k) == k \in (1 - MaxFloat)..(MaxFloat - 1)

LEMMA BoundOK ==
    ASSUME over \in C!FrameClauses, NEW k \in KeySet, NEW type \in {"preceding", "current", "following"}
    PROVE  KeyOK(k) /\ KeyOK(bound(k, type))
<1>1. Null \notin Int /\ NaN \notin Int /\ Null # NaN /\ PosInf \in Nat /\ MaxFloat \in Nat /\ PosInf > MaxFloat
      /\ RangeOffset \in 0..MaxFloat
  BY FloatAssumption
<1>2. over.desc \in BOOLEAN
  BY DEF C!FrameClauses
<1> QED
  BY <1>1, <1>2 DEF KeySet, KeyOK, bound, shift, NegInf

\* The distance a boundary lies from its row, in sort direction.
Far(type) == CASE type = "preceding" -> -RangeOffset [] type = "current" -> 0 [] OTHER -> RangeOffset
Clip(x) == IF x > MaxFloat THEN MaxFloat ELSE IF x < -MaxFloat THEN -MaxFloat ELSE x

LEMMA FarOffset ==
    ASSUME NEW type \in {"preceding", "current", "following"}
    PROVE  Far(type) \in Int /\ RangeOffset * C!Offset(type) = Far(type)
<1>1. RangeOffset \in Nat
  BY FloatAssumption
<1>2. CASE type = "preceding"
  <2>1. C!Offset(type) = -1 /\ Far(type) = -RangeOffset
    BY <1>2 DEF C!Offset, Far
  <2> QED
    BY <1>1, <2>1
<1>3. CASE type = "current"
  <2>1. C!Offset(type) = 0 /\ Far(type) = 0
    BY <1>3 DEF C!Offset, Far
  <2> QED
    BY <1>1, <2>1
<1>4. CASE type = "following"
  <2>1. C!Offset(type) = 1 /\ Far(type) = RangeOffset
    BY <1>4 DEF C!Offset, Far
  <2> QED
    BY <1>1, <2>1
<1> QED
  BY <1>2, <1>3, <1>4

LEMMA InnerPlace ==
    ASSUME over \in C!FrameClauses, NEW k, Inner(k)
    PROVE  /\ k \in Int /\ Place(k) \in Int /\ Place(k) = IF over.desc THEN -k ELSE k
           /\ Place(k) < MaxFloat /\ Place(k) > -MaxFloat
<1>1. Null \notin Int /\ NaN \notin Int /\ MaxFloat \in Nat
  BY FloatAssumption
<1>2. k \in Int /\ k # Null /\ k # NaN /\ k < MaxFloat /\ k > -MaxFloat
  BY <1>1 DEF Inner
<1>3. Place(k) = IF over.desc THEN -k ELSE k
  BY <1>2 DEF Place
<1> QED
  BY <1>1, <1>2, <1>3

\* The boundary of a finite key lies at its distance, clamped to the finite numbers.
LEMMA BoundPlace ==
    ASSUME over \in C!FrameClauses, NEW k, Inner(k), NEW type \in {"preceding", "current", "following"}
    PROVE  Place(bound(k, type)) = Clip(Place(k) + Far(type))
<1> DEFINE B == bound(k, type)
           sg == IF (type = "preceding") # over.desc THEN -1 ELSE 1
           o == sg * RangeOffset
<1>1. /\ Null \notin Int /\ NaN \notin Int /\ PosInf \in Nat /\ MaxFloat \in Nat /\ PosInf > MaxFloat
      /\ RangeOffset \in Nat
  BY FloatAssumption
<1>2. over.desc \in BOOLEAN
  BY DEF C!FrameClauses
<1>3. /\ k \in Int /\ k < MaxFloat /\ k > -MaxFloat /\ Place(k) = IF over.desc THEN -k ELSE k
  BY <1>1, InnerPlace DEF Inner
<1>4. k \notin {Null, NaN, PosInf, NegInf}
  BY <1>1, <1>3 DEF NegInf
<1>5. \A x \in Int : Place(x) = IF over.desc THEN -x ELSE x
  BY <1>1 DEF Place
<1>6. type # "current" => (over.desc => o = -Far(type)) /\ (~over.desc => o = Far(type))
  <2>1. CASE type = "preceding"
    BY <1>1, <1>2, <2>1 DEF Far
  <2>2. CASE type = "following"
    BY <1>1, <1>2, <2>2 DEF Far
  <2> QED
    BY <2>1, <2>2
<1>7. B = IF type = "current" THEN k ELSE IF k + o > MaxFloat THEN MaxFloat
          ELSE IF k + o < -MaxFloat THEN -MaxFloat ELSE k + o
  BY <1>4 DEF bound, shift
<1>8. Far(type) \in Int /\ (type = "current" => Far(type) = 0)
  BY FarOffset DEF Far
<1> HIDE DEF B, o, sg
<1>9. CASE type = "current"
  <2>1. B = k /\ Far(type) = 0
    BY <1>7, <1>8, <1>9
  <2> QED
    BY <1>1, <1>2, <1>3, <2>1 DEF Clip, B
<1>10. CASE type # "current" /\ over.desc
  <2>1. o = -Far(type) /\ Place(k) = -k
    BY <1>3, <1>6, <1>10
  <2>2. B = Clip(k + o) /\ k + o \in Int
    BY <1>3, <1>7, <1>8, <1>10, <2>1 DEF Clip
  <2>3. B \in Int /\ -B = Clip(-k + Far(type))
    BY <1>1, <1>3, <1>8, <2>1, <2>2 DEF Clip
  <2> QED
    BY <1>5, <1>10, <2>1, <2>3 DEF B
<1>11. CASE type # "current" /\ ~over.desc
  <2>1. o = Far(type) /\ Place(k) = k
    BY <1>3, <1>6, <1>11
  <2>2. B = Clip(k + o) /\ k + o \in Int
    BY <1>3, <1>7, <1>8, <1>11, <2>1 DEF Clip
  <2>3. B \in Int
    BY <1>1, <2>2 DEF Clip
  <2> QED
    BY <1>5, <1>11, <2>1, <2>2, <2>3 DEF B
<1> QED
  BY <1>9, <1>10, <1>11

\* The key of another row lies beyond, at or before the boundary as its distance says.
LEMMA BoundDistance ==
    ASSUME over \in C!FrameClauses, NEW ki \in KeySet, NEW kj \in KeySet,
           NEW type \in {"preceding", "current", "following"}
    PROVE  LET B == bound(ki, type)
           IN  /\ C!Special(ki) <=> ~Inner(ki)
               /\ C!Special(kj) <=> ~Inner(kj)
               /\ Inner(ki) /\ Inner(kj) =>
                    /\ Place(kj) >= Place(B) <=> Place(kj) - Place(ki) >= Far(type)
                    /\ Place(kj) > Place(B) <=> Place(kj) - Place(ki) > Far(type)
               /\ ~(Inner(ki) /\ Inner(kj)) =>
                    /\ Place(kj) >= Place(B) <=> Place(kj) >= Place(ki)
                    /\ Place(kj) > Place(B) <=> Place(kj) > Place(ki)
<1> DEFINE B == bound(ki, type)
<1>0. /\ Null \notin Int /\ NaN \notin Int /\ Null # NaN /\ PosInf \in Nat /\ MaxFloat \in Nat /\ PosInf > MaxFloat
      /\ RangeOffset \in 0..MaxFloat
  BY FloatAssumption
<1>1. KeyOK(ki) /\ KeyOK(kj) /\ KeyOK(B)
  BY BoundOK
<1>2. Place(ki) \in Int /\ Place(kj) \in Int /\ Place(B) \in Int /\ Far(type) \in Int
  BY <1>1, PlaceInt, FarOffset
<1>3. C!Special(ki) <=> ~Inner(ki)
  BY <1>0 DEF C!Special, C!NegInf, KeySet, NegInf, Inner
<1>4. C!Special(kj) <=> ~Inner(kj)
  BY <1>0 DEF C!Special, C!NegInf, KeySet, NegInf, Inner
<1>5. ~Inner(ki) => B = ki
  BY <1>3 DEF bound, shift, C!Special, C!NegInf, NegInf
<1>6. \A k \in KeySet : ~Inner(k) => Place(k) >= PosInf \/ Place(k) <= -PosInf
  <2> SUFFICES ASSUME NEW k \in KeySet, ~Inner(k) PROVE Place(k) >= PosInf \/ Place(k) <= -PosInf
    OBVIOUS
  <2>1. k \in {Null, NaN, PosInf, NegInf}
    BY DEF KeySet, Inner
  <2> QED
    BY <1>0, <2>1 DEF Place, NegInf
<1>7. Inner(ki) => /\ Place(ki) < MaxFloat /\ Place(ki) > -MaxFloat
                   /\ Place(B) = Clip(Place(ki) + Far(type))
  BY InnerPlace, BoundPlace
<1>8. Inner(kj) => Place(kj) < MaxFloat /\ Place(kj) > -MaxFloat
  BY InnerPlace
<1>9. ~Inner(kj) => Place(kj) >= PosInf \/ Place(kj) <= -PosInf
  BY <1>6
<1> HIDE DEF B
<1>10. CASE ~Inner(ki)
  <2>1. Place(B) = Place(ki)
    BY <1>5, <1>10
  <2> QED
    BY <1>3, <1>4, <1>10, <2>1 DEF B
<1>11. CASE Inner(ki)
  <2> DEFINE x == Place(ki)
             y == Place(kj)
             z == Place(B)
             d == Far(type)
  <2>1. x \in Int /\ y \in Int /\ z \in Int /\ d \in Int /\ z = Clip(x + d) /\ x < MaxFloat /\ x > -MaxFloat
    BY <1>2, <1>7, <1>11
  <2> HIDE DEF x, y, z, d
  <2>2. z <= MaxFloat /\ z >= -MaxFloat
    BY <1>0, <2>1 DEF Clip
  <2>3. CASE Inner(kj)
    <3>1. y < MaxFloat /\ y > -MaxFloat
      BY <1>8, <2>3 DEF y
    <3>2. (y >= z <=> y - x >= d) /\ (y > z <=> y - x > d)
      BY <1>0, <2>1, <3>1 DEF Clip
    <3> QED
      BY <1>3, <1>4, <1>11, <2>3, <3>2 DEF x, y, z, d, B
  <2>4. CASE ~Inner(kj)
    <3>1. y >= PosInf \/ y <= -PosInf
      BY <1>9, <2>4 DEF y
    <3>2. (y >= z <=> y >= x) /\ (y > z <=> y > x)
      BY <1>0, <2>1, <2>2, <3>1
    <3> QED
      BY <1>3, <1>4, <1>11, <2>4, <3>2 DEF x, y, z, d, B
  <2> QED
    BY <2>3, <2>4
<1> QED
  BY <1>10, <1>11

\* The partition as the clause sees it.
Clause == [c |-> over, keys |-> input.keys, vals |-> input.vals]

\* The rows at or after the start boundary are those the clause says are reached.
LEMMA StartReached ==
    ASSUME over \in C!FrameClauses, over.unit = "range", over.start # "unboundedPreceding", NEW i, NEW j,
           input.keys[i] \in KeySet, input.keys[j] \in KeySet
    PROVE  Place(input.keys[j]) >= Place(bound(input.keys[i], over.start)) <=> C!Reached(Clause, i, j)
<1> DEFINE ki == input.keys[i]
           kj == input.keys[j]
           type == over.start
           B == bound(ki, type)
<1>1. type \in {"preceding", "current", "following"} /\ over.desc \in BOOLEAN
  BY DEF C!FrameClauses, C!Starts
<1>2. C!Reached(Clause, i, j) <=>
        IF ~C!Special(ki) /\ ~C!Special(kj)
        THEN (IF over.desc THEN ki - kj ELSE kj - ki) >= RangeOffset * C!Offset(type)
        ELSE ~C!Before(kj, ki, over)
  BY DEF C!Reached, C!Measurable, C!Distance, Clause
<1>3. ki \in KeySet /\ kj \in KeySet
  OBVIOUS
<1> HIDE DEF ki, kj, type
<1>4. KeyOK(ki) /\ KeyOK(kj)
  BY <1>1, <1>3, BoundOK
<1>5. Place(ki) \in Int /\ Place(kj) \in Int /\ (C!Before(kj, ki, over) <=> Place(kj) < Place(ki))
  BY <1>4, ComparePlaces, PlaceInt
<1>6. RangeOffset * C!Offset(type) = Far(type)
  BY <1>1, FarOffset
<1>7. /\ C!Special(ki) <=> ~Inner(ki)
      /\ C!Special(kj) <=> ~Inner(kj)
      /\ Inner(ki) /\ Inner(kj) => (Place(kj) >= Place(B) <=> Place(kj) - Place(ki) >= Far(type))
      /\ ~(Inner(ki) /\ Inner(kj)) => (Place(kj) >= Place(B) <=> Place(kj) >= Place(ki))
  BY <1>1, <1>3, BoundDistance
<1>8. Inner(ki) /\ Inner(kj) => Place(kj) - Place(ki) = IF over.desc THEN ki - kj ELSE kj - ki
  BY <1>1, InnerPlace
<1> HIDE DEF B
<1>9. Place(kj) >= Place(B) <=> C!Reached(Clause, i, j)
  <2>1. CASE Inner(ki) /\ Inner(kj)
    BY <1>2, <1>6, <1>7, <1>8, <2>1
  <2>2. CASE ~(Inner(ki) /\ Inner(kj))
    BY <1>2, <1>5, <1>7, <2>2
  <2> QED
    BY <2>1, <2>2
<1> QED
  BY <1>9 DEF B, ki, kj, type

\* The rows beyond the end boundary are those the clause says are passed.
LEMMA EndPassed ==
    ASSUME over \in C!FrameClauses, over.unit = "range", over.end # "unboundedFollowing", NEW i, NEW j,
           input.keys[i] \in KeySet, input.keys[j] \in KeySet
    PROVE  Place(input.keys[j]) > Place(bound(input.keys[i], over.end)) <=> ~C!NotPassed(Clause, i, j)
<1> DEFINE ki == input.keys[i]
           kj == input.keys[j]
           type == over.end
           B == bound(ki, type)
<1>1. type \in {"preceding", "current", "following"} /\ over.desc \in BOOLEAN
  BY DEF C!FrameClauses, C!Ends
<1>2. C!NotPassed(Clause, i, j) <=>
        IF ~C!Special(ki) /\ ~C!Special(kj)
        THEN (IF over.desc THEN ki - kj ELSE kj - ki) <= RangeOffset * C!Offset(type)
        ELSE ~C!Before(ki, kj, over)
  BY DEF C!NotPassed, C!Measurable, C!Distance, Clause
<1>3. ki \in KeySet /\ kj \in KeySet
  OBVIOUS
<1> HIDE DEF ki, kj, type
<1>4. KeyOK(ki) /\ KeyOK(kj)
  BY <1>1, <1>3, BoundOK
<1>5. Place(ki) \in Int /\ Place(kj) \in Int /\ (C!Before(ki, kj, over) <=> Place(ki) < Place(kj))
  BY <1>4, ComparePlaces, PlaceInt
<1>6. RangeOffset * C!Offset(type) = Far(type) /\ Far(type) \in Int
  BY <1>1, FarOffset
<1>7. /\ C!Special(ki) <=> ~Inner(ki)
      /\ C!Special(kj) <=> ~Inner(kj)
      /\ Inner(ki) /\ Inner(kj) => (Place(kj) > Place(B) <=> Place(kj) - Place(ki) > Far(type))
      /\ ~(Inner(ki) /\ Inner(kj)) => (Place(kj) > Place(B) <=> Place(kj) > Place(ki))
  BY <1>1, <1>3, BoundDistance
<1>8. Inner(ki) /\ Inner(kj) => Place(kj) - Place(ki) = IF over.desc THEN ki - kj ELSE kj - ki
  BY <1>1, InnerPlace
<1> HIDE DEF B
<1>9. Place(kj) > Place(B) <=> ~C!NotPassed(Clause, i, j)
  <2>1. CASE Inner(ki) /\ Inner(kj)
    BY <1>2, <1>5, <1>6, <1>7, <1>8, <2>1
  <2>2. CASE ~(Inner(ki) /\ Inner(kj))
    BY <1>2, <1>5, <1>7, <2>2
  <2> QED
    BY <2>1, <2>2
<1> QED
  BY <1>9 DEF B, ki, kj, type

\* The keys arrive in the order of the clause.
Sorted == \A j \in 1..Len(input.keys) :
            /\ input.keys[j] \in KeySet
            /\ j # 1 => ~C!Before(input.keys[j], input.keys[j - 1], over)

LEMMA SortedPlaces ==
    ASSUME over \in C!FrameClauses, Len(input.keys) \in Nat, Sorted,
           NEW j \in 1..Len(input.keys), NEW k \in 1..Len(input.keys), j <= k
    PROVE  Place(input.keys[j]) <= Place(input.keys[k])
<1> DEFINE n == Len(input.keys)
           q(x) == Place(input.keys[x])
           S == {d \in Nat : j + d <= n => q(j) <= q(j + d)}
<1>1. ASSUME NEW x \in 1..n PROVE q(x) \in Int /\ (x # 1 => q(x - 1) <= q(x))
  <2>1. KeyOK(input.keys[x]) /\ (x # 1 => KeyOK(input.keys[x - 1]) /\ ~C!Before(input.keys[x], input.keys[x - 1], over))
    <3>1. x # 1 => x - 1 \in 1..n
      OBVIOUS
    <3>2. "current" \in {"preceding", "current", "following"}
      OBVIOUS
    <3> HIDE DEF n
    <3> QED
      BY <1>1, <3>1, <3>2, BoundOK DEF Sorted, n
  <2>2. q(x) \in Int /\ (x # 1 => q(x - 1) \in Int)
    BY <2>1, PlaceInt
  <2>3. x # 1 => ~(q(x) < q(x - 1))
    BY <2>1, ComparePlaces
  <2> HIDE DEF q
  <2> QED
    BY <2>2, <2>3
<1> HIDE DEF q
<1>2. n \in Nat /\ j \in 1..n /\ k \in 1..n
  OBVIOUS
<1> HIDE DEF n
<1>3. 0 \in S
  BY <1>1, <1>2
<1>4. ASSUME NEW d \in Nat, d \in S PROVE d + 1 \in S
  <2>1. CASE j + (d + 1) <= n
    <3>1. j + d \in 1..n /\ j + (d + 1) \in 1..n /\ (j + (d + 1)) - 1 = j + d /\ j + (d + 1) # 1 /\ j + d <= n
      BY <1>2, <2>1
    <3>2. q(j) <= q(j + d)
      BY <1>4, <3>1
    <3>3. q(j + d) <= q(j + (d + 1)) /\ q(j + d) \in Int /\ q(j + (d + 1)) \in Int /\ q(j) \in Int
      BY <1>1, <1>2, <3>1
    <3> QED
      BY <3>2, <3>3
  <2> QED
    BY <2>1
<1>5. \A d \in Nat : d \in S => d + 1 \in S
  BY <1>4
<1> HIDE DEF S
<1>6. Nat \subseteq S
  BY <1>3, <1>5, NatSet
<1>7. k - j \in Nat /\ j + (k - j) = k /\ j + (k - j) <= n
  BY <1>2
<1>8. q(j) <= q(j + (k - j))
  BY <1>6, <1>7 DEF S
<1> QED
  BY <1>7, <1>8 DEF q

\* Binary search over the sorted keys finds the frame that distances define.
LEMMA RangeFrameExact ==
    ASSUME over \in C!FrameClauses, over.unit = "range", Len(input.keys) \in Nat, DOMAIN input.keys = 1..Len(input.keys),
           Sorted, keys = input.keys, NEW i \in Nat, i < Len(keys)
    PROVE  (frame(i).s + 1)..frame(i).e = C!Frame(Clause, i + 1)
<1> DEFINE n == Len(keys)
           k == keys[i + 1]
           X == [j \in 0..(n - 1) |-> cmp(keys[j + 1], bound(k, over.start)) >= 0]
           Y == [j \in 0..(n - 1) |-> cmp(keys[j + 1], bound(k, over.end)) > 0]
           x == IF over.start = "unboundedPreceding" THEN 0 ELSE Search(n, X)
           y == IF over.end = "unboundedFollowing" THEN n ELSE Search(n, Y)
<1>1. n \in Nat /\ i + 1 \in 1..n
  OBVIOUS
<1>2. frame(i) = [s |-> x, e |-> IF y < x THEN x ELSE y]
  BY DEF frame
<1>3. \A j \in 0..(n - 1) : j + 1 \in 1..n
  OBVIOUS
<1>4. \A j \in 1..n : keys[j] \in KeySet /\ KeyOK(keys[j])
  <2>1. "current" \in {"preceding", "current", "following"}
    OBVIOUS
  <2> QED
    BY <2>1, BoundOK DEF Sorted
<1>5. \A j, l \in 1..n : j <= l => Place(keys[j]) <= Place(keys[l])
  BY <1>1, SortedPlaces
<1>6. \A j \in 1..n : Place(keys[j]) \in Int
  BY <1>4, PlaceInt
<1>7. over.start # "unboundedPreceding" => KeyOK(bound(k, over.start))
  <2>1. over.start # "unboundedPreceding" => over.start \in {"preceding", "current", "following"}
    BY DEF C!FrameClauses, C!Starts
  <2> QED
    BY <1>1, <1>4, <2>1, BoundOK
<1>8. over.end # "unboundedFollowing" => KeyOK(bound(k, over.end))
  <2>1. over.end # "unboundedFollowing" => over.end \in {"preceding", "current", "following"}
    BY DEF C!FrameClauses, C!Ends
  <2> QED
    BY <1>1, <1>4, <2>1, BoundOK
<1>9. ASSUME over.start # "unboundedPreceding", NEW j \in 0..(n - 1)
      PROVE  /\ X[j] <=> Place(keys[j + 1]) >= Place(bound(k, over.start))
             /\ X[j] <=> C!Reached(Clause, i + 1, j + 1)
  <2>1. X[j] <=> Place(keys[j + 1]) >= Place(bound(k, over.start))
    BY <1>3, <1>4, <1>7, <1>9, ComparePlaces
  <2> HIDE DEF X
  <2>2. input.keys[i + 1] \in KeySet /\ input.keys[j + 1] \in KeySet
    BY <1>1, <1>3, <1>4
  <2> QED
    BY <1>9, <2>1, <2>2, StartReached
<1>10. ASSUME over.end # "unboundedFollowing", NEW j \in 0..(n - 1)
       PROVE  /\ Y[j] <=> Place(keys[j + 1]) > Place(bound(k, over.end))
              /\ Y[j] <=> ~C!NotPassed(Clause, i + 1, j + 1)
  <2>1. Y[j] <=> Place(keys[j + 1]) > Place(bound(k, over.end))
    BY <1>3, <1>4, <1>8, <1>10, ComparePlaces
  <2> HIDE DEF Y
  <2>2. input.keys[i + 1] \in KeySet /\ input.keys[j + 1] \in KeySet
    BY <1>1, <1>3, <1>4
  <2> QED
    BY <1>10, <2>1, <2>2, EndPassed
<1>11. over.start # "unboundedPreceding" => Place(bound(k, over.start)) \in Int
  BY <1>7, PlaceInt
<1>12. over.end # "unboundedFollowing" => Place(bound(k, over.end)) \in Int
  BY <1>8, PlaceInt
<1> HIDE DEF X, Y, n, k
<1>13. x \in 0..n /\ \A j \in 0..(n - 1) : C!Reached(Clause, i + 1, j + 1) <=> x <= j
  <2>1. CASE over.start = "unboundedPreceding"
    <3>1. \A j : C!Reached(Clause, i + 1, j)
      BY <2>1 DEF C!Reached, Clause
    <3> QED
      BY <1>1, <2>1, <3>1
  <2>2. CASE over.start # "unboundedPreceding"
    <3>1. ASSUME NEW j \in 0..(n - 1), NEW l \in 0..(n - 1), j <= l, X[j] PROVE X[l]
      <4>1. Place(keys[j + 1]) <= Place(keys[l + 1]) /\ Place(keys[j + 1]) \in Int /\ Place(keys[l + 1]) \in Int
        BY <1>3, <1>5, <1>6, <3>1
      <4>2. Place(keys[j + 1]) >= Place(bound(k, over.start))
        BY <1>9, <2>2, <3>1
      <4>3. Place(keys[l + 1]) >= Place(bound(k, over.start))
        BY <1>11, <2>2, <4>1, <4>2
      <4> QED
        BY <1>9, <2>2, <4>3
    <3>2. \A j, l \in 0..(n - 1) : j <= l /\ X[j] => X[l]
      BY <3>1
    <3>3. Search(n, X) \in 0..n /\ \A j \in 0..(n - 1) : X[j] <=> Search(n, X) <= j
      BY <1>1, <3>2, SearchFinds
    <3> QED
      BY <1>9, <2>2, <3>3
  <2> QED
    BY <2>1, <2>2
<1>14. y \in 0..n /\ \A j \in 0..(n - 1) : C!NotPassed(Clause, i + 1, j + 1) <=> ~(y <= j)
  <2>1. CASE over.end = "unboundedFollowing"
    <3>1. \A j : C!NotPassed(Clause, i + 1, j)
      BY <2>1 DEF C!NotPassed, Clause
    <3> QED
      BY <1>1, <2>1, <3>1
  <2>2. CASE over.end # "unboundedFollowing"
    <3>1. ASSUME NEW j \in 0..(n - 1), NEW l \in 0..(n - 1), j <= l, Y[j] PROVE Y[l]
      <4>1. Place(keys[j + 1]) <= Place(keys[l + 1]) /\ Place(keys[j + 1]) \in Int /\ Place(keys[l + 1]) \in Int
        BY <1>3, <1>5, <1>6, <3>1
      <4>2. Place(keys[j + 1]) > Place(bound(k, over.end))
        BY <1>10, <2>2, <3>1
      <4>3. Place(keys[l + 1]) > Place(bound(k, over.end))
        BY <1>12, <2>2, <4>1, <4>2
      <4> QED
        BY <1>10, <2>2, <4>3
    <3>2. \A j, l \in 0..(n - 1) : j <= l /\ Y[j] => Y[l]
      BY <3>1
    <3>3. Search(n, Y) \in 0..n /\ \A j \in 0..(n - 1) : Y[j] <=> Search(n, Y) <= j
      BY <1>1, <3>2, SearchFinds
    <3> QED
      BY <1>10, <2>2, <3>3
  <2> QED
    BY <2>1, <2>2
<1> HIDE DEF x, y
<1>15. C!Frame(Clause, i + 1) = {j \in 1..n : C!Reached(Clause, i + 1, j) /\ C!NotPassed(Clause, i + 1, j)}
  BY DEF C!Frame, Clause, n
<1>16. ASSUME NEW j \in 1..n
       PROVE  /\ C!Reached(Clause, i + 1, j) <=> x + 1 <= j
              /\ C!NotPassed(Clause, i + 1, j) <=> j <= y
  <2>1. j - 1 \in 0..(n - 1) /\ (j - 1) + 1 = j
    BY <1>1
  <2>2. (C!Reached(Clause, i + 1, j) <=> x <= j - 1) /\ (C!NotPassed(Clause, i + 1, j) <=> ~(y <= j - 1))
    BY <1>13, <1>14, <2>1
  <2> QED
    BY <1>1, <1>13, <1>14, <2>2
<1>17. C!Frame(Clause, i + 1) = {j \in 1..n : x + 1 <= j /\ j <= y}
  BY <1>15, <1>16
<1>18. {j \in 1..n : x + 1 <= j /\ j <= y} = (x + 1)..(IF y < x THEN x ELSE y)
  BY <1>1, <1>13, <1>14
<1>19. frame(i).s = x /\ frame(i).e = IF y < x THEN x ELSE y
  BY <1>2
<1> QED
  BY <1>17, <1>18, <1>19

\* SQLite's ROWS frame is the one that counting rows defines.
LEMMA RowsFrameExact ==
    ASSUME over \in C!FrameClauses, over.unit = "rows", NEW n \in Nat, DOMAIN input.keys = 1..n,
           NEW i \in Nat, i < n
    PROVE  (RowStart(i, n) + 1)..RowEnd(i, n) = C!Frame(Clause, i + 1)
<1>1. /\ over.start \in {"unboundedPreceding", "preceding", "current", "following"}
      /\ over.end \in {"preceding", "current", "following", "unboundedFollowing"}
  BY DEF C!FrameClauses, C!Starts, C!Ends
<1>2. over.start # "unboundedPreceding" => Delta(over.start) \in -1..1 /\ Delta(over.start) = C!Offset(over.start)
  BY <1>1 DEF Delta, C!Offset
<1>3. over.end # "unboundedFollowing" => Delta(over.end) \in -1..1 /\ Delta(over.end) = C!Offset(over.end)
  BY <1>1 DEF Delta, C!Offset
<1>4. ASSUME NEW j \in 1..n
      PROVE  C!Reached(Clause, i + 1, j) <=> RowStart(i, n) + 1 <= j
  <2>1. CASE over.start = "unboundedPreceding"
    BY <2>1 DEF C!Reached, Clause, RowStart
  <2>2. CASE over.start # "unboundedPreceding"
    <3>1. C!Reached(Clause, i + 1, j) <=> j - (i + 1) >= C!Offset(over.start)
      BY <2>2 DEF C!Reached, Clause
    <3>2. RowStart(i, n) = Clamp(i + Delta(over.start), n)
      BY <2>2 DEF RowStart
    <3> QED
      BY <1>2, <2>2, <3>1, <3>2 DEF Clamp
  <2> QED
    BY <2>1, <2>2
<1>5. ASSUME NEW j \in 1..n
      PROVE  C!NotPassed(Clause, i + 1, j) <=> j <= RowEnd(i, n)
  <2>1. CASE over.end = "unboundedFollowing"
    BY <2>1 DEF C!NotPassed, Clause, RowEnd
  <2>2. CASE over.end # "unboundedFollowing"
    <3>1. C!NotPassed(Clause, i + 1, j) <=> j - (i + 1) <= C!Offset(over.end)
      BY <2>2 DEF C!NotPassed, Clause
    <3>2. RowEnd(i, n) = Clamp(i + Delta(over.end) + 1, n)
      BY <2>2 DEF RowEnd
    <3> QED
      BY <1>3, <2>2, <3>1, <3>2 DEF Clamp
  <2> QED
    BY <2>1, <2>2
<1>6. RowStart(i, n) \in 0..n /\ RowEnd(i, n) \in 0..n
  BY RowsFrameOrder
<1>7. C!Frame(Clause, i + 1) = {j \in 1..n : C!Reached(Clause, i + 1, j) /\ C!NotPassed(Clause, i + 1, j)}
  BY DEF C!Frame, Clause
<1>8. C!Frame(Clause, i + 1) = {j \in 1..n : RowStart(i, n) + 1 <= j /\ j <= RowEnd(i, n)}
  BY <1>4, <1>5, <1>7
<1> DEFINE a == RowStart(i, n)
           b == RowEnd(i, n)
<1>9. a \in 0..n /\ b \in 0..n
  BY <1>6
<1> HIDE DEF a, b
<1>10. {j \in 1..n : a + 1 <= j /\ j <= b} = (a + 1)..b
  BY <1>9
<1> QED
  BY <1>8, <1>10 DEF a, b

-----------------------------------------------------------------------------
(* The inductive invariant.                                                *)

\* The partition SQLite delivers.
PartitionOK ==
  /\ over \in C!FrameClauses
  /\ input.keys \in Seq(Keys \cup {0}) /\ Len(input.keys) \in Nat
  /\ input.vals \in [1..Len(input.keys) -> Values[over.unit]]
  /\ over.unit = "range" => Sorted
\* The rows that rangeFrameWindow has buffered are those SQLite has stepped.
BufferOK ==
  /\ Len(keys) \in Nat /\ keys \in Seq(Keys \cup {0}) /\ Len(keys) <= Len(input.keys)
  /\ rows \in Seq(Values[over.unit]) /\ Len(rows) = Len(keys)
  /\ \A k \in 1..Len(keys) : keys[k] = input.keys[k] /\ rows[k] = input.vals[k]
\* The aggregators hold the rows of the frame of the last output row.
InnerOK ==
  /\ innerS \in 0..Len(input.keys) /\ innerE \in innerS..Len(input.keys)
  /\ (innerS + 1)..innerE = C!Frame(Clause, Len(out))
  /\ Holds(inner, Values[over.unit], input.vals, innerS, innerE)
  /\ (\A k \in 1..innerS : input.vals[k] # Null) => BitsSound(inner)
WindowInv ==
  /\ PartitionOK /\ BufferOK
  /\ cur \in Nat /\ \E T : out \in Seq(T)
  /\ inner # None => InnerOK
  /\ over.unit = "rows" => Len(out) = cur
  /\ over.unit = "rows" =>
       IF inner = None THEN cur = 0 /\ innerS = 0 /\ innerE = 0
       ELSE \E i \in Nat : /\ cur = i + 1
                           /\ innerS = RowStart(i, Len(input.keys)) /\ innerE = RowEnd(i, Len(input.keys))

LEMMA FunctionSeq ==
    ASSUME NEW n \in Nat, NEW U, NEW f \in [1..n -> U]
    PROVE  f \in Seq(U) /\ Len(f) = n
OBVIOUS

LEMMA WindowBegins == FrameInit => WindowInv
<1> SUFFICES ASSUME FrameInit PROVE WindowInv
  OBVIOUS
<1>1. over \in C!FrameClauses /\ keys = <<>> /\ rows = <<>> /\ cur = 0 /\ inner = None /\ innerS = 0 /\ innerE = 0
      /\ out = <<>>
  BY DEF FrameInit, Partition
<1>2. over.unit \in {"rows", "range"}
  BY <1>1 DEF C!FrameClauses
<1>3. PICK n \in Sizes[over.unit] :
        input \in [keys : IF over.unit = "range" THEN [1..n -> Keys] ELSE {[j \in 1..n |-> 0]},
                   vals : [1..n -> Values[over.unit]]]
  BY DEF FrameInit, Partition
<1>4. n \in Nat
  BY <1>2, <1>3, FloatAssumption
<1>5. input.keys \in [1..n -> Keys] \/ input.keys \in [1..n -> {0}]
  BY <1>3
<1>6. input.vals \in [1..n -> Values[over.unit]]
  BY <1>3
<1>7. Len(input.keys) = n /\ input.keys \in Seq(Keys \cup {0})
  <2>1. input.keys \in [1..n -> Keys \cup {0}]
    BY <1>5
  <2> QED
    BY <1>4, <2>1, FunctionSeq
<1>s. over.unit = "range" => Sorted
  <2>1. SUFFICES ASSUME over.unit = "range" PROVE Sorted
    OBVIOUS
  <2>2. input.keys \in [1..n -> Keys] /\ Keys \subseteq KeySet
    BY <1>3, <2>1, FloatAssumption DEF KeySet, NegInf
  <2>3. \A j \in DOMAIN input.keys \ {1} : ~C!Before(input.keys[j], input.keys[j - 1], over)
    BY <2>1 DEF FrameInit, Partition, C!WellFormed
  <2> QED
    BY <1>7, <2>2, <2>3 DEF Sorted
<1>8. PartitionOK
  BY <1>1, <1>4, <1>6, <1>7, <1>s DEF PartitionOK
<1>o. out \in Seq({}) /\ Len(out) = 0
  BY <1>1, EmptySeq
<1>9. BufferOK
  <2>1. keys \in Seq(Keys \cup {0}) /\ rows \in Seq(Values[over.unit]) /\ Len(keys) = 0 /\ Len(rows) = 0
    BY <1>1, EmptySeq
  <2> QED
    BY <1>4, <1>7, <2>1 DEF BufferOK
<1> QED
  BY <1>1, <1>8, <1>9, <1>o DEF WindowInv

LEMMA HeldNotNone ==
    ASSUME NEW a, DOMAIN a = InnerFields
    PROVE  a # None
<1>1. DOMAIN None = {}
  BY DEF None
<1> QED
  BY <1>1 DEF InnerFields

\* An instance moved forward to the frame f.
LEMMA MovedOK ==
    ASSUME PartitionOK, NEW a, NEW s \in 0..Len(input.keys), NEW e \in s..Len(input.keys),
           Holds(a, Values[over.unit], input.vals, s, e),
           (\A k \in 1..s : input.vals[k] # Null) => BitsSound(a),
           NEW f, f.e \in e..Len(input.keys), f.s \in s..f.e
    PROVE  LET b == Moved(a, input.vals, s, e, f)
           IN  /\ Holds(b, Values[over.unit], input.vals, f.s, f.e)
               /\ (\A k \in 1..f.s : input.vals[k] # Null) => BitsSound(b)
<1> DEFINE b == Moved(a, input.vals, s, e, f)
           n == Len(input.keys)
           U == Values[over.unit]
           vals == input.vals
<1>1. n \in Nat /\ vals \in [1..n -> U] /\ s \in 0..n /\ e \in s..n /\ f.e \in e..n /\ f.s \in s..f.e
  BY DEF PartitionOK
<1>2. Holds(a, U, vals, s, e)
  OBVIOUS
<1>3. (\A k \in 1..f.s : vals[k] # Null) => \A k \in 1..s : vals[k] # Null
  BY <1>1
<1>5. \A w \in U : ValueOK(w)
  BY FloatAssumption DEF PartitionOK, ValueOK, C!FrameClauses
<1> HIDE DEF n, U, b
<1>4. /\ Holds(Moved(a, vals, s, e, f), U, vals, f.s, f.e)
      /\ BitsSound(a) /\ (\A k \in 1..f.s : vals[k] # Null) => BitsSound(Moved(a, vals, s, e, f))
  <2> HIDE DEF vals
  <2> QED
    BY <1>1, <1>2, <1>5, MovedHolds
<1> QED
  BY <1>3, <1>4 DEF b, U

LEMMA StepKeeps == WindowInv /\ Step => WindowInv'
<1> SUFFICES ASSUME WindowInv, Step PROVE WindowInv'
  OBVIOUS
<1>1. /\ over' = over /\ input' = input /\ cur' = cur /\ inner' = inner /\ innerS' = innerS /\ innerE' = innerE
      /\ over.unit # "rows" /\ Len(keys) < Len(input.keys) /\ out' = out
      /\ keys' = Append(keys, input.keys[Len(keys) + 1])
      /\ rows' = Append(rows, input.vals[Len(keys) + 1])
  BY DEF Step
<1>2. PartitionOK /\ BufferOK /\ cur \in Nat /\ (inner # None => InnerOK) /\ \E T : out \in Seq(T)
  BY DEF WindowInv
<1>3. BufferOK'
  <2> DEFINE n == Len(keys)
             U == Values[over.unit]
             K == Keys \cup {0}
             x == input.keys[n + 1]
             v == input.vals[n + 1]
  <2>1. n \in Nat /\ n + 1 <= Len(input.keys) /\ keys \in Seq(K) /\ rows \in Seq(U) /\ Len(rows) = n
    BY <1>1, <1>2 DEF BufferOK, PartitionOK
  <2>2. x \in K /\ v \in U
    <3> HIDE DEF n, K, U
    <3>1. n + 1 \in 1..Len(input.keys)
      BY <1>2, <2>1 DEF PartitionOK
    <3> QED
      BY <1>2, <3>1 DEF PartitionOK, K, U
  <2>3. \A k \in 1..n : keys[k] = input.keys[k] /\ rows[k] = input.vals[k]
    BY <1>2 DEF BufferOK
  <2>4. keys' = Append(keys, x) /\ rows' = Append(rows, v)
    BY <1>1
  <2> HIDE DEF x, U, K
  <2>5. keys' \in Seq(K) /\ Len(keys') = n + 1 /\ keys'[n + 1] = x /\ \A k \in 1..n : keys'[k] = keys[k]
    <3> HIDE DEF v
    <3> QED
      BY <2>1, <2>2, <2>4, AppendProperties
  <2>6. rows' \in Seq(U) /\ Len(rows') = n + 1 /\ rows'[n + 1] = v /\ \A k \in 1..n : rows'[k] = rows[k]
    <3> HIDE DEF v
    <3> QED
      BY <2>1, <2>2, <2>4, AppendProperties
  <2>7. ASSUME NEW k \in 1..(n + 1) PROVE keys'[k] = input.keys[k] /\ rows'[k] = input.vals[k]
    <3>1. CASE k = n + 1
      BY <2>5, <2>6, <3>1 DEF x
    <3>2. CASE k # n + 1
      <4>1. k \in 1..n
        BY <2>1, <3>2
      <4> QED
        BY <2>3, <2>5, <2>6, <4>1
    <3> QED
      BY <3>1, <3>2
  <2> HIDE DEF n
  <2> QED
    BY <1>1, <2>1, <2>5, <2>6, <2>7 DEF BufferOK, U, K
<1>4. PartitionOK' /\ (inner' # None => InnerOK')
  BY <1>1, <1>2 DEF PartitionOK, InnerOK, Sorted, Clause
<1> QED
  BY <1>1, <1>2, <1>3, <1>4 DEF WindowInv

LEMMA InverseCallKeeps == WindowInv /\ InverseCall => WindowInv'
<1> SUFFICES ASSUME WindowInv, InverseCall PROVE WindowInv'
  OBVIOUS
<1>1. /\ over' = over /\ input' = input /\ cur' = cur + 1 /\ inner' = inner /\ innerS' = innerS /\ innerE' = innerE
      /\ over.unit # "rows" /\ keys' = keys /\ rows' = rows /\ out' = out
  BY DEF InverseCall
<1> QED
  BY <1>1 DEF WindowInv, PartitionOK, BufferOK, InnerOK, Sorted, Clause

LEMMA ValueRangeKeeps == WindowInv /\ ValueRange => WindowInv'
<1> SUFFICES ASSUME WindowInv, ValueRange PROVE WindowInv'
  OBVIOUS
<1> DEFINE f == frame(cur)
           n == Len(input.keys)
<1>1. /\ over' = over /\ input' = input /\ cur' = cur /\ keys' = keys /\ rows' = rows
      /\ over.unit = "range" /\ Len(keys) = n
      /\ inner' = IF Reusable(f) THEN Moved(inner, rows, innerS, innerE, f)
                                 ELSE Moved(NewInner, rows, f.s, f.s, f)
      /\ innerS' = f.s /\ innerE' = f.e
      /\ Len(out) = cur /\ cur < Len(keys) /\ out' = Append(out, Done(inner'))
  BY DEF ValueRange
<1>2. PartitionOK /\ BufferOK /\ cur \in Nat /\ (inner # None => InnerOK) /\ \E T : out \in Seq(T)
  BY DEF WindowInv
<1>3. n \in Nat
  BY <1>2 DEF PartitionOK
<1>4. rows = input.vals
  <2>1. rows \in Seq(Values[over.unit]) /\ Len(rows) = n /\ \A k \in 1..n : rows[k] = input.vals[k]
    BY <1>1, <1>2 DEF BufferOK
  <2>2. input.vals \in [1..n -> Values[over.unit]]
    BY <1>2 DEF PartitionOK
  <2> HIDE DEF n
  <2>3. rows \in [1..n -> Values[over.unit]]
    BY <2>1
  <2> QED
    BY <2>1, <2>2, <2>3
<1>5. f.s \in 0..n /\ f.e \in f.s..n
  BY <1>1, <1>3, RangeFrameIn
<1>k. keys = input.keys
  <2>1. keys \in Seq(Keys \cup {0}) /\ Len(keys) = n /\ \A k \in 1..n : keys[k] = input.keys[k]
    BY <1>1, <1>2 DEF BufferOK
  <2>2. input.keys \in Seq(Keys \cup {0})
    BY <1>2 DEF PartitionOK
  <2>3. keys \in [1..n -> Keys \cup {0}] /\ input.keys \in [1..n -> Keys \cup {0}]
    BY <2>1, <2>2
  <2> HIDE DEF n
  <2> QED
    BY <2>1, <2>3
<1>x. (f.s + 1)..f.e = C!Frame(Clause, cur + 1)
  <2>1. DOMAIN input.keys = 1..Len(input.keys)
    BY <1>2 DEF PartitionOK
  <2>2. over \in C!FrameClauses /\ Sorted
    BY <1>1, <1>2 DEF PartitionOK
  <2> QED
    BY <1>1, <1>2, <1>3, <1>k, <2>1, <2>2, RangeFrameExact
<1>o. Len(out') = cur + 1 /\ \E T : out' \in Seq(T)
  <2> DEFINE d == Done(inner')
  <2>1. PICK T : out \in Seq(T)
    BY <1>2
  <2>2. out' = Append(out, d)
    BY <1>1
  <2> HIDE DEF d
  <2>3. out \in Seq(T \cup {d}) /\ d \in T \cup {d}
    BY <2>1
  <2>4. out' \in Seq(T \cup {d}) /\ Len(out') = Len(out) + 1
    BY <2>2, <2>3, AppendProperties
  <2> QED
    BY <1>1, <2>4
<1>c. (innerS' + 1)..innerE' = C!Frame(Clause, Len(out))'
  BY <1>1, <1>x, <1>o DEF Clause
<1> HIDE DEF f
<1>6. InnerOK'
  <2>1. CASE Reusable(f)
    <3>1. inner # None /\ f.s >= innerS /\ f.e >= innerE /\ f.s <= innerE
      BY <2>1 DEF Reusable
    <3>2. /\ innerS \in 0..n /\ innerE \in innerS..n
          /\ Holds(inner, Values[over.unit], input.vals, innerS, innerE)
          /\ (\A k \in 1..innerS : input.vals[k] # Null) => BitsSound(inner)
      BY <1>2, <3>1 DEF InnerOK
    <3>3. f.e \in innerE..n /\ f.s \in innerS..f.e
      BY <1>3, <1>5, <3>1, <3>2
    <3>4. /\ Holds(inner', Values[over.unit], input.vals, f.s, f.e)
          /\ (\A k \in 1..f.s : input.vals[k] # Null) => BitsSound(inner')
      BY <1>1, <1>2, <1>4, <2>1, <3>2, <3>3, MovedOK
    <3> QED
      BY <1>1, <1>5, <1>c, <3>4 DEF InnerOK
  <2>2. CASE ~Reusable(f)
    <3> DEFINE s == f.s
    <3>1. s \in 0..n /\ s \in s..n /\ f.e \in s..n /\ f.s \in s..f.e /\ s \in Int
      BY <1>3, <1>5
    <3>2. Holds(NewInner, Values[over.unit], input.vals, s, s) /\ BitsSound(NewInner)
      BY <3>1, NewHolds
    <3>5. inner' = Moved(NewInner, input.vals, s, s, f)
      BY <1>1, <1>4, <2>2
    <3> HIDE DEF s
    <3>3. /\ Holds(inner', Values[over.unit], input.vals, f.s, f.e)
          /\ (\A k \in 1..f.s : input.vals[k] # Null) => BitsSound(inner')
      BY <1>2, <3>1, <3>2, <3>5, MovedOK
    <3> QED
      BY <1>1, <1>5, <1>c, <3>3 DEF InnerOK
  <2> QED
    BY <2>1, <2>2
<1>7. PartitionOK' /\ BufferOK'
  BY <1>1, <1>2 DEF PartitionOK, BufferOK, Sorted
<1> QED
  BY <1>1, <1>2, <1>6, <1>7, <1>o DEF WindowInv

LEMMA ValueRowsKeeps == WindowInv /\ ValueRows => WindowInv'
<1> SUFFICES ASSUME WindowInv, ValueRows PROVE WindowInv'
  OBVIOUS
<1> DEFINE f == rowsFrame(cur)
           n == Len(input.keys)
           a == IF inner = None THEN NewInner ELSE inner
<1>1. /\ over' = over /\ input' = input /\ cur' = cur + 1 /\ keys' = keys /\ rows' = rows
      /\ over.unit = "rows" /\ inner' = Moved(a, input.vals, innerS, innerE, f)
      /\ innerS' = f.s /\ innerE' = f.e
      /\ cur < Len(input.keys) /\ out' = Append(out, Done(inner'))
  BY DEF ValueRows
<1>2. PartitionOK /\ BufferOK /\ cur \in Nat /\ (inner # None => InnerOK) /\ \E T : out \in Seq(T)
  BY DEF WindowInv
<1>3. n \in Nat /\ over \in C!FrameClauses
  BY <1>2 DEF PartitionOK
<1>4. f.s = RowStart(cur, n) /\ f.e = RowEnd(cur, n)
  BY RowsFrameIs
<1> HIDE DEF f
<1>5. f.s \in 0..n /\ f.e \in 0..n /\ f.s <= f.e
  BY <1>2, <1>3, <1>4, RowsFrameOrder
<1>6. IF inner = None THEN cur = 0 /\ innerS = 0 /\ innerE = 0
      ELSE \E i \in Nat : cur = i + 1 /\ innerS = RowStart(i, n) /\ innerE = RowEnd(i, n)
  BY <1>1 DEF WindowInv
<1>7. /\ innerS \in 0..n /\ innerE \in innerS..n /\ f.e \in innerE..n /\ f.s \in innerS..f.e
      /\ Holds(a, Values[over.unit], input.vals, innerS, innerE)
      /\ (\A k \in 1..innerS : input.vals[k] # Null) => BitsSound(a)
  <2>1. CASE inner = None
    <3>1. innerS = 0 /\ innerE = 0 /\ a = NewInner
      BY <1>6, <2>1
    <3>2. Holds(NewInner, Values[over.unit], input.vals, 0, 0) /\ BitsSound(NewInner)
      BY NewHolds
    <3> HIDE DEF a
    <3> QED
      BY <1>3, <1>5, <3>1, <3>2
  <2>2. CASE inner # None
    <3>1. a = inner /\ InnerOK
      BY <1>2, <2>2
    <3>2. PICK i \in Nat : cur = i + 1 /\ innerS = RowStart(i, n) /\ innerE = RowEnd(i, n)
      BY <1>6, <2>2
    <3>3. RowStart(i, n) <= RowStart(i + 1, n) /\ RowEnd(i, n) <= RowEnd(i + 1, n)
      BY <1>3, RowsFrameOrder
    <3>4. innerS <= f.s /\ innerE <= f.e
      BY <1>4, <3>2, <3>3
    <3>5. /\ innerS \in 0..n /\ innerE \in innerS..n
          /\ Holds(inner, Values[over.unit], input.vals, innerS, innerE)
          /\ (\A k \in 1..innerS : input.vals[k] # Null) => BitsSound(inner)
      BY <3>1 DEF InnerOK
    <3> HIDE DEF a, n
    <3> QED
      BY <1>3, <1>5, <3>1, <3>4, <3>5
  <2> QED
    BY <2>1, <2>2
<1> HIDE DEF a
<1>8. /\ Holds(inner', Values[over.unit], input.vals, f.s, f.e)
      /\ (\A k \in 1..f.s : input.vals[k] # Null) => BitsSound(inner')
  BY <1>1, <1>2, <1>7, MovedOK
<1>o. Len(out') = cur + 1 /\ \E T : out' \in Seq(T)
  <2> DEFINE d == Done(inner')
  <2>1. PICK T : out \in Seq(T)
    BY <1>2
  <2>2. out' = Append(out, d) /\ Len(out) = cur
    BY <1>1 DEF WindowInv
  <2> HIDE DEF d
  <2>3. out \in Seq(T \cup {d}) /\ d \in T \cup {d}
    BY <2>1
  <2>4. out' \in Seq(T \cup {d}) /\ Len(out') = Len(out) + 1
    BY <2>2, <2>3, AppendProperties
  <2> QED
    BY <2>2, <2>4
<1>x. (f.s + 1)..f.e = C!Frame(Clause, cur + 1)
  <2>1. DOMAIN input.keys = 1..n
    BY <1>2 DEF PartitionOK
  <2> HIDE DEF n
  <2> QED
    BY <1>1, <1>2, <1>3, <1>4, <2>1, RowsFrameExact DEF n
<1>c. (innerS' + 1)..innerE' = C!Frame(Clause, Len(out))'
  BY <1>1, <1>x, <1>o DEF Clause
<1>9. InnerOK'
  BY <1>1, <1>3, <1>5, <1>8, <1>c DEF InnerOK
<1>10. inner' # None
  BY <1>8, HeldNotNone DEF Holds
<1>11. \E i \in Nat : cur' = i + 1 /\ innerS' = RowStart(i, n)' /\ innerE' = RowEnd(i, n)'
  <2>1. ASSUME NEW i PROVE RowStart(i, n)' = RowStart(i, n) /\ RowEnd(i, n)' = RowEnd(i, n)
    BY <1>1 DEF RowStart, RowEnd, Clamp, Delta
  <2>2. cur \in Nat /\ cur' = cur + 1 /\ innerS' = RowStart(cur, n) /\ innerE' = RowEnd(cur, n)
    BY <1>1, <1>2, <1>4
  <2> QED
    BY <2>1, <2>2
<1>12. PartitionOK' /\ BufferOK'
  BY <1>1, <1>2 DEF PartitionOK, BufferOK, Sorted
<1> QED
  BY <1>1, <1>2, <1>9, <1>10, <1>11, <1>12, <1>o DEF WindowInv

LEMMA WindowSteps == WindowInv /\ [FrameNext]_vars => WindowInv'
<1> SUFFICES ASSUME WindowInv, [FrameNext]_vars PROVE WindowInv'
  OBVIOUS
<1>1. CASE Step
  BY <1>1, StepKeeps
<1>2. CASE ValueRange
  BY <1>2, ValueRangeKeeps
<1>3. CASE InverseCall
  BY <1>3, InverseCallKeeps
<1>4. CASE ValueRows
  BY <1>4, ValueRowsKeeps
<1>5. CASE UNCHANGED vars
  BY <1>5 DEF vars, WindowInv, PartitionOK, BufferOK, InnerOK, Sorted, Clause, RowStart, RowEnd
<1> QED
  BY <1>1, <1>2, <1>3, <1>4, <1>5 DEF FrameNext

LEMMA WindowHeld == WindowInv => BitsHeld
<1> SUFFICES ASSUME WindowInv, over.unit # "match", inner # None,
                    \A k \in DOMAIN SubSeq(input.vals, 1, innerS) : SubSeq(input.vals, 1, innerS)[k] # Null
             PROVE  inner.bits = NonNulls(inner.buf)
  BY DEF BitsHeld
<1> DEFINE n == Len(input.keys)
           vals == input.vals
           q == SubSeq(vals, 1, innerS)
           U == Values[over.unit]
<1>1. /\ n \in Nat /\ vals \in [1..n -> U] /\ innerS \in 0..n
      /\ (\A k \in 1..innerS : vals[k] # Null) => BitsSound(inner)
  BY DEF WindowInv, PartitionOK, InnerOK
<1>2. DOMAIN q = 1..innerS /\ \A k \in 1..innerS : q[k] = vals[k]
  <2> HIDE DEF n, vals, U
  <2>1. \A i \in 1..innerS : vals[i] \in U
    BY <1>1
  <2>2. /\ q \in Seq(U) /\ Len(q) = IF 1 <= innerS THEN innerS - 1 + 1 ELSE 0
        /\ \A i \in 1..(innerS - 1 + 1) : q[i] = vals[1 + i - 1]
    BY <1>1, <2>1, SubSeqProperties
  <2> HIDE DEF q
  <2>3. Len(q) = innerS /\ innerS - 1 + 1 = innerS /\ \A i \in 1..innerS : 1 + i - 1 = i
    BY <1>1, <2>2
  <2> QED
    BY <2>2, <2>3
<1>3. \A k \in DOMAIN q : q[k] # Null
  OBVIOUS
<1> HIDE DEF q, vals, n
<1> QED
  BY <1>1, <1>2, <1>3 DEF BitsSound

LEMMA SameRows ==
    ASSUME NEW D, NEW U, NEW a \in [D -> U], NEW b \in [D -> U], \A k \in D : a[k] = b[k]
    PROVE  a = b
OBVIOUS

LEMMA WindowExact == WindowInv => FrameHeld
<1> SUFFICES ASSUME WindowInv, over.unit # "match", inner # None
             PROVE  FrameHeld
  BY DEF FrameHeld
<1> DEFINE n == Len(input.keys)
           vals == input.vals
           U == Values[over.unit]
           q == SubSeq(vals, innerS + 1, innerE)
           b == inner.buf
           m == innerE - innerS
<1>1. /\ n \in Nat /\ vals \in [1..n -> U] /\ innerS \in 0..n /\ innerE \in innerS..n
      /\ Holds(inner, U, vals, innerS, innerE)
      /\ (innerS + 1)..innerE = C!Frame(Clause, Len(out))
  BY DEF WindowInv, PartitionOK, InnerOK
<1>2. /\ DOMAIN inner = InnerFields /\ b \in Seq(U) /\ Len(b) = m /\ Alike(inner, Fresh(b))
      /\ \A k \in 1..m : b[k] = vals[innerS + k]
  BY <1>1 DEF Holds
<1>3. q = b
  <2> HIDE DEF n, vals, U, b
  <2>0. m \in Nat /\ innerS + 1 \in Int /\ innerE \in Int
    BY <1>1
  <2>1. \A i \in (innerS + 1)..innerE : vals[i] \in U
    BY <1>1
  <2>2. /\ q \in Seq(U) /\ Len(q) = IF innerS + 1 <= innerE THEN innerE - (innerS + 1) + 1 ELSE 0
        /\ \A i \in 1..(innerE - (innerS + 1) + 1) : q[i] = vals[(innerS + 1) + i - 1]
    BY <2>0, <2>1, SubSeqProperties
  <2> HIDE DEF q
  <2>3. /\ Len(q) = m /\ innerE - (innerS + 1) + 1 = m
        /\ \A i \in 1..m : (innerS + 1) + i - 1 = innerS + i
    BY <1>1, <2>2
  <2>4. \A i \in 1..m : q[i] = b[i]
    BY <1>2, <2>2, <2>3
  <2>5. q \in [1..m -> U] /\ b \in [1..m -> U]
    BY <1>2, <2>2, <2>3
  <2> DEFINE D == 1..m
  <2>6. q \in [D -> U] /\ b \in [D -> U] /\ \A i \in D : q[i] = b[i]
    BY <2>4, <2>5
  <2> HIDE DEF D, m
  <2> QED
    BY <2>6, SameRows
<1> DEFINE x == Fresh(q)
<1>4. /\ DOMAIN x = InnerFields /\ x.buf = inner.buf
      /\ inner.n = x.n /\ inner.trues = x.trues /\ inner.stars = x.stars /\ inner.sum = x.sum
  <2>1. DOMAIN Fresh(b) = InnerFields /\ Fresh(b).buf = b
    BY <1>2, FreshBuf
  <2> HIDE DEF b, q
  <2>2. Fresh(q) = Fresh(b)
    BY <1>3
  <2> QED
    BY <1>2, <2>1, <2>2 DEF Alike, b
<1>5. x = FoldLeft(StepRow, NewInner, SubSeq(input.vals, innerS + 1, innerE))
  BY DEF Fresh
<1> HIDE DEF x
<1>6. ASSUME NEW field \in DOMAIN inner \ {"bits"} PROVE inner[field] = x[field]
  <2>1. field \in {"buf", "n", "trues", "stars", "sum"}
    BY <1>2 DEF InnerFields
  <2> QED
    BY <1>4, <2>1
<1>7. (innerS + 1)..innerE = C!Frame([c |-> over, keys |-> input.keys, vals |-> input.vals], Len(out))
  BY <1>1 DEF Clause
<1> HIDE DEF n, vals, U, q, b, m
<1> QED
  BY <1>5, <1>6, <1>7 DEF FrameHeld

\* For partitions of any length, any keys, values and frame clause: the rows the
\* aggregators hold are those of the frame the clause asks for, an instance moved
\* to it with Step and Inverse counts and sums like one stepped through it afresh
\* (addition being exact, as for INT64 and NUMERIC),
\* and BIT_AND and its kin hold its non-NULL values as long as no NULL row precedes
\* it (frame's binary search with clamped boundaries, rangeFrameWindow.Done's reuse
\* of its inner instance, SQLite's ROWS frames).
THEOREM FramesAreExact == FrameSpec => []FrameExact
<1>1. FrameInit => WindowInv
  BY WindowBegins
<1>2. WindowInv /\ [FrameNext]_vars => WindowInv'
  BY WindowSteps
<1>3. WindowInv => FrameExact
  BY WindowExact, WindowHeld DEF FrameExact
<1> QED
  BY <1>1, <1>2, <1>3, PTL DEF FrameSpec

=============================================================================
