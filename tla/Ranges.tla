------------------------------- MODULE Ranges -------------------------------
(***************************************************************************)
(* RANGE and INTERVAL values: internal/functions/rangefn, interval and      *)
(* value/value_interval.go, and the windowed query that RANGE_SESSIONIZE is *)
(* rewritten to (internal/range_sessionize.go).                             *)
(*                                                                         *)
(* A range is [s, e) with Unbounded for an absent bound; its elements are   *)
(* integers.  `ranges` is the table of ranges built so far, `iv` an         *)
(* interval <<months, days, time>>.                                        *)
(***************************************************************************)
EXTENDS Integers, Sequences, FiniteSets, SequencesExt

CONSTANTS Points,         \* the bounds ranges are built from
          Unbounded,      \* a NULL bound
          RangeError,     \* a call that fails
          MaxRanges,      \* bound on the table
          MaxBuckets,     \* bound on the pieces of a range, maxBuckets
          DayTicks,       \* the length of a day, nanosPerDay
          Micro,          \* the length of a microsecond
          MaxParts,       \* the largest months, days and time of an interval
          Months, Days, Ticks, Divisors  \* the intervals that occur

ASSUME PartsAssumption ==
  /\ DayTicks \in Nat \ {0} /\ Micro \in Nat \ {0}
  /\ Months \subseteq Int /\ Days \subseteq Int /\ Ticks \subseteq Int
  /\ Divisors \subseteq Int \ {0}
ASSUME PointsAssumption ==
  /\ Points \subseteq Int /\ IsFiniteSet(Points) /\ Points # {}
  /\ Unbounded \notin Int /\ MaxBuckets \in Nat

VARIABLES ranges, iv
rangeVars == <<ranges, iv>>

Bounded(r) == r.s # Unbounded /\ r.e # Unbounded

-----------------------------------------------------------------------------
(***************************************************************************)
(* RANGE functions.                                                        *)
(***************************************************************************)
RANGE(s, e) == IF s # Unbounded /\ e # Unbounded /\ ~(s < e) THEN RangeError
               ELSE [s |-> s, e |-> e]

rangeBoundLEQ(x, y, startSide) == CASE x = Unbounded -> startSide
                                    [] x # Unbounded /\ y = Unbounded -> ~startSide
                                    [] OTHER -> x <= y
RangeContains(outer, inner) == /\ rangeBoundLEQ(outer.s, inner.s, TRUE)
                               /\ rangeBoundLEQ(inner.e, outer.e, FALSE)
RangeContainsPoint(outer, p) == /\ rangeBoundLEQ(outer.s, p, TRUE)
                                /\ outer.e # Unbounded => p < outer.e

\* Mutant: ranges that only meet overlap.
RangeOverlapsMeeting(a, b) ==
  /\ a.e # Unbounded /\ b.s # Unbounded => b.s <= a.e
  /\ b.e # Unbounded /\ a.s # Unbounded => a.s <= b.e
RangeOverlaps(a, b) == /\ a.e # Unbounded /\ b.s # Unbounded => b.s < a.e
                       /\ b.e # Unbounded /\ a.s # Unbounded => a.s < b.e

\* A NULL bound yields to the other one.
maxBound(x, y) == CASE x = Unbounded -> y
                    [] x # Unbounded /\ y = Unbounded -> x
                    [] OTHER -> IF x > y THEN x ELSE y
minBound(x, y) == CASE x = Unbounded -> y
                    [] x # Unbounded /\ y = Unbounded -> x
                    [] OTHER -> IF x < y THEN x ELSE y
RangeIntersect(a, b) ==
  IF ~RangeOverlaps(a, b) THEN RangeError
  ELSE [s |-> maxBound(a.s, b.s), e |-> minBound(a.e, b.e)]

\* Mutant: the last partial piece is not cut at the end.
GenerateRangeArrayUncut(r, step, includePartial) ==
  LET cut(k) == r.s + k * step
      kept   == {k \in 1..MaxBuckets : IF includePartial THEN cut(k - 1) < r.e
                                                         ELSE cut(k) <= r.e}
  IN  IF ~Bounded(r) THEN RangeError
      ELSE [k \in 1..Cardinality(kept) |-> [s |-> cut(k - 1), e |-> cut(k)]]
\* GENERATE_RANGE_ARRAY: the range is cut into pieces of one step.  What is
\* left at the end is a piece of its own or dropped; the loop ends after
\* MaxBuckets pieces.  A step is a positive number of elements: days of a DATE
\* range, a time without months of the others.  Steps of months, which are
\* clamped to the end of each month in turn, of part of a day on dates, which
\* coerceRangeBound cuts off, and steps that do not lead on are not modelled.
GenerateRangeArray(r, step, includePartial) ==
  LET cut(k) == r.s + k * step
      kept   == {k \in 1..MaxBuckets : IF includePartial THEN cut(k - 1) < r.e
                                                         ELSE cut(k) <= r.e}
  IN  IF ~Bounded(r) THEN RangeError
      ELSE [k \in 1..Cardinality(kept) |-> [s |-> cut(k - 1), e |-> minBound(cut(k), r.e)]]

(***************************************************************************)
(* RANGE_SESSIONIZE, level by level.  ORDER BY puts a NULL start first;     *)
(* MIN and MAX skip NULLs; a comparison with NULL is not true.              *)
(***************************************************************************)
NullsFirst(x, y) == x = Unbounded \/ (y # Unbounded /\ x <= y)
SkipNulls(S) == S \ {Unbounded}
Least(S)    == IF SkipNulls(S) = {} THEN Unbounded
               ELSE CHOOSE x \in SkipNulls(S) : \A y \in SkipNulls(S) : x <= y
Greatest(S) == IF SkipNulls(S) = {} THEN Unbounded
               ELSE CHOOSE x \in SkipNulls(S) : \A y \in SkipNulls(S) : y <= x

\* ORDER BY the start; rows with the same start come in any order.
InOrderOf(rs, p) ==
  /\ \A j \in DOMAIN rs : \E i \in DOMAIN rs : p[i] = j
  /\ \A i, j \in DOMAIN rs : i < j => NullsFirst(rs[p[i]].s, rs[p[j]].s)
extracted(rs) ==
  LET Ordered(p) == [k \in DOMAIN rs |-> rs[p[k]]]
  IN  Ordered(CHOOSE p \in [DOMAIN rs -> DOMAIN rs] : InOrderOf(rs, p))
prevMaxEnd(rs, k) == Greatest({rs[j].e : j \in 1..(k - 1)})
\* Mutant: the bounds are compared as in the other mode.
newSessionSwapped(rs, k, mode) ==
  \/ prevMaxEnd(rs, k) = Unbounded
  \/ /\ prevMaxEnd(rs, k) # Unbounded /\ rs[k].s # Unbounded
     /\ IF mode = "MEETS" THEN rs[k].s >= prevMaxEnd(rs, k)
                          ELSE rs[k].s > prevMaxEnd(rs, k)
newSession(rs, k, mode) ==
  \/ prevMaxEnd(rs, k) = Unbounded
  \/ /\ prevMaxEnd(rs, k) # Unbounded /\ rs[k].s # Unbounded
     /\ IF mode = "OVERLAPS" THEN rs[k].s >= prevMaxEnd(rs, k)
                             ELSE rs[k].s > prevMaxEnd(rs, k)
sessionId(rs, k, mode) == Cardinality({j \in 1..k : newSession(rs, j, mode)})
sessionRange(rs, k, mode) ==
  LET group == {j \in DOMAIN rs : sessionId(rs, j, mode) = sessionId(rs, k, mode)}
  IN  RANGE(Least({rs[j].s : j \in group}), Greatest({rs[j].e : j \in group}))
RangeSessionize(table, mode) ==
  LET rs == extracted(table)
  IN  [k \in DOMAIN rs |-> [row |-> rs[k], session |-> sessionRange(rs, k, mode)]]

-----------------------------------------------------------------------------
(***************************************************************************)
(* INTERVAL functions.  Go's integer division truncates towards zero.       *)
(***************************************************************************)
Quo(a, b) == IF (a < 0) = (b < 0) THEN (IF a < 0 THEN (-a) \div (-b) ELSE a \div b)
             ELSE -((IF a < 0 THEN -a ELSE a) \div (IF b < 0 THEN -b ELSE b))
Rem(a, b) == a - b * Quo(a, b)

\* A part beyond its limit is refused.
NewIntervalFromParts(v) ==
  IF \A k \in 1..3 : v[k] \in -MaxParts[k]..MaxParts[k] THEN v ELSE RangeError

compareKey(v) == (v[1] * 30 + v[2]) * DayTicks + v[3]

\* Carry whole units of the smaller part into the larger and give both the
\* same sign: <<larger, smaller>>.
justify(large, small, unit) ==
  LET l == large + Quo(small, unit)
      s == Rem(small, unit)
  IN  CASE l > 0 /\ s < 0 -> <<l - 1, s + unit>>
        [] l < 0 /\ s > 0 -> <<l + 1, s - unit>>
        [] OTHER          -> <<l, s>>
justifyHours(days, ticks) == justify(days, ticks, DayTicks)
\* Mutant: the days borrow nothing from the months.
justifyDaysCarried(months, days) == <<months + Quo(days, 30), Rem(days, 30)>>
justifyDays(months, days) == justify(months, days, 30)

JUSTIFY_DAYS(v)  == NewIntervalFromParts(justifyDays(v[1], v[2]) \o <<v[3]>>)
JUSTIFY_HOURS(v) == NewIntervalFromParts(<<v[1]>> \o justifyHours(v[2], v[3]))
JUSTIFY_INTERVAL(v) ==
  LET carried == justifyDays(v[1], v[2] + Quo(v[3], DayTicks))
      hours   == justifyHours(carried[2], Rem(v[3], DayTicks))
      again   == justifyDays(carried[1], hours[1])
  IN  NewIntervalFromParts(again \o <<hours[2]>>)

\* Mutant: the days left over by the months are lost.
DivideIntervalPartsLossy(v, n) ==
  LET m  == Quo(v[1], n)
      d  == Quo(v[2], n)
      nn == v[3] + Rem(v[2], n) * DayTicks
  IN  NewIntervalFromParts(<<m, d, Quo(Quo(nn, n), Micro) * Micro>>)
\* INTERVAL / INT64: what is left of the months is divided as days of 30 to the
\* month, what is left of the days as time, which is cut to microseconds.
DivideIntervalParts(v, n) ==
  LET m  == Quo(v[1], n)
      dd == v[2] + Rem(v[1], n) * 30
      nn == v[3] + Rem(dd, n) * DayTicks
  IN  NewIntervalFromParts(<<m, Quo(dd, n), Quo(Quo(nn, n), Micro) * Micro>>)

-----------------------------------------------------------------------------
NoInterval == <<0, 0, 0>>
RangeInit == /\ ranges = <<>>
             /\ iv \in {<<m, d, t>> : m \in Months, d \in Days, t \in Ticks}

\* A row with a range is inserted; RANGE refuses bounds out of order.
Insert == /\ iv = NoInterval
          /\ Len(ranges) < MaxRanges
          /\ \E s, e \in {Unbounded} \cup Points :
               /\ RANGE(s, e) # RangeError
               /\ ranges' = Append(ranges, RANGE(s, e))
          /\ UNCHANGED iv
RangeNext == Insert
RangeSpec == RangeInit /\ [][RangeNext]_rangeVars

-----------------------------------------------------------------------------
\* The elements of a range among the points and one more on either side,
\* which stand for everything beyond the bounds that occur.
Universe == LET least == CHOOSE p \in Points : \A q \in Points : p <= q
                greatest == CHOOSE p \in Points : \A q \in Points : q <= p
            IN  (least - 1)..(greatest + 1)
Elements(r) == {p \in Universe : RangeContainsPoint(r, p)}
Table == ToSet(ranges)

\* RANGE_OVERLAPS, RANGE_INTERSECT and RANGE_CONTAINS are the set relations of
\* the elements.  (A range unbounded at its end is said to contain no range that
\* is, itself included: left out.)
SetRelations ==
  \A a, b \in Table :
    LET both == Elements(a) \cap Elements(b)
    IN  /\ RangeOverlaps(a, b) <=> both # {}
        /\ both # {} => Elements(RangeIntersect(a, b)) = both
        /\ ~(a.e = Unbounded /\ b.e = Unbounded) =>
             (RangeContains(a, b) <=> Elements(b) \subseteq Elements(a))

\* GENERATE_RANGE_ARRAY cuts a range into pieces that together hold its
\* elements, each once; without the last partial piece all have full size.
\* (A range of more than MaxBuckets steps is cut short: left out.)
PiecesCover ==
  \A r \in {x \in Table : Bounded(x)}, step \in 1..3, partial \in BOOLEAN :
    LET pieces == GenerateRangeArray(r, step, partial)
        whole  == r.e - r.s <= step * MaxBuckets
    IN  /\ \A p \in Elements(r) :
             LET holders == {k \in DOMAIN pieces : RangeContainsPoint(pieces[k], p)}
             IN  IF partial /\ whole THEN Cardinality(holders) = 1
                 ELSE Cardinality(holders) <= 1
        /\ \A k \in DOMAIN pieces :
             /\ Elements(pieces[k]) \subseteq Elements(r)
             /\ ~partial => pieces[k].e - pieces[k].s = step
        /\ ~partial /\ whole => Elements(r) \ UNION {Elements(pieces[k]) : k \in DOMAIN pieces}
                                 \subseteq (r.e - step + 1)..(r.e - 1)

\* RANGE_SESSIONIZE joins two rows exactly when a chain of rows, each meeting or
\* overlapping the next, leads from one to the other, and a session's range is
\* what its rows cover.  (MIN and MAX skip an unbounded bound: left out.)
SessionsConnected ==
  \A mode \in {"MEETS", "OVERLAPS"} :
    LET result == RangeSessionize(ranges, mode)
        n == Len(result)
        row(k) == result[k].row
        touch(j, k) == IF mode = "OVERLAPS" THEN RangeOverlaps(row(j), row(k))
                       ELSE row(j).s <= row(k).e /\ row(k).s <= row(j).e
        reach[hops \in 0..n] ==
          IF hops = 0 THEN {<<k, k>> : k \in 1..n}
          ELSE LET r == reach[hops - 1]
               IN  {jk \in (1..n) \X (1..n) :
                      \E i \in 1..n : <<jk[1], i>> \in r /\ touch(i, jk[2])}
        mates(k) == {row(j) : j \in {i \in 1..n : <<i, k>> \in reach[n]}}
    IN  (\A r \in Table : Bounded(r)) =>
          \A k \in 1..n :
            result[k].session = [s |-> Least({r.s : r \in mates(k)}),
                                 e |-> Greatest({r.e : r \in mates(k)})]

Sign(x) == IF x > 0 THEN 1 ELSE IF x < 0 THEN -1 ELSE 0
Agree(x, y) == Sign(x) * Sign(y) >= 0
Small(x, unit) == -unit < x /\ x < unit

\* The JUSTIFY functions keep an interval's place in the INTERVAL order, leave
\* no whole unit in the smaller part and give adjacent parts one sign.  (With
\* no days in between, JUSTIFY_INTERVAL may leave months and time of different
\* signs.)
Justified ==
  LET d == JUSTIFY_DAYS(iv)
      h == JUSTIFY_HOURS(iv)
      i == JUSTIFY_INTERVAL(iv)
  IN  /\ \A v \in {d, h, i} \ {RangeError} : compareKey(v) = compareKey(iv)
      /\ d # RangeError => Small(d[2], 30) /\ Agree(d[1], d[2])
      /\ h # RangeError => Small(h[3], DayTicks) /\ Agree(h[2], h[3])
      /\ i # RangeError => /\ Small(i[2], 30) /\ Small(i[3], DayTicks)
                           /\ Agree(i[1], i[2]) /\ Agree(i[2], i[3])

\* Dividing an interval loses less than one microsecond of every share: n
\* shares come back to the interval's place in the order.
DivisionExact ==
  \A n \in Divisors :
    LET share == DivideIntervalParts(iv, n)
        size  == IF n < 0 THEN -n ELSE n
    IN  share # RangeError => 
          Small(compareKey(iv) - n * compareKey(share), size * Micro)

\* Property: the range functions treat a range as the set of its elements, for
\* every table of ranges, with bounds missing on either side.
RangesAsSets == SetRelations /\ PiecesCover /\ SessionsConnected

\* Property: normalising and dividing keep the place of an interval in the
\* INTERVAL order, also with parts of different signs.
IntervalOrderKept == Justified /\ DivisionExact
=============================================================================
