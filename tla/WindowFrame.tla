----------------------------- MODULE WindowFrame -----------------------------
(***************************************************************************)
(* The window aggregators of internal/functions/window as SQLite drives     *)
(* them.  A ROWS frame is maintained by SQLite itself: it calls Step for a  *)
(* row that enters the frame and Inverse for a row that leaves it, always   *)
(* on the same instance.  A RANGE frame over a typed key is maintained by   *)
(* rangeFrameWindow: SQLite steps the whole partition into it before it     *)
(* asks for the first value, and inverses one row after each output row;    *)
(* the frame is found by binary search over the buffered keys and an inner  *)
(* aggregator is either moved to it or built anew.                         *)
(*                                                                         *)
(* All aggregators run side by side on the same rows: `inner` holds the     *)
(* state of one instance of each.  Those that keep the frame's rows and     *)
(* recompute at Done share the field buf.                                  *)
(***************************************************************************)
EXTENDS Integers, Sequences, SequencesExt, FiniteSets, TLC

CONSTANTS Null, NaN, Overflow, MaxFloat, PosInf, Keys, RangeOffset, Values, Sizes, Patterns

ASSUME FloatAssumption ==
  /\ MaxFloat \in Nat \ {0} /\ PosInf \in Nat /\ PosInf > MaxFloat
  /\ Null \notin Int /\ NaN \notin Int /\ Null # NaN
  /\ \A u \in {"rows", "range"} :
       /\ \A n \in Sizes[u] : n \in Nat /\ PosInf > n * MaxFloat
       /\ \A v \in Values[u] : v \in {Null, NaN} \/ v \in Int
  /\ RangeOffset \in 0..MaxFloat
  \* a key at the very edge is its own clamped boundary
  /\ \A k \in Keys : k \in {Null, NaN, PosInf, -PosInf} \/ k \in (1 - MaxFloat)..(MaxFloat - 1)

VARIABLES over,         \* the OVER clause
          input,        \* the rows SQLite's sorter delivers
          keys, rows,   \* the rows stepped so far
          cur,          \* Inverse calls so far: the index of the current row
          inner,        \* the inner aggregator, or None
          innerS, innerE, \* the rows inner was last evaluated over
          out           \* the results SQLite got

vars == <<over, input, keys, rows, cur, inner, innerS, innerE, out>>

C == INSTANCE WindowClause

NegInf == -PosInf
None == <<>>

(***************************************************************************)
(* Keys: rangeKey.                                                         *)
(***************************************************************************)
compareValues(a, b) == CASE a = NaN /\ b = NaN -> 0
                         [] a = NaN /\ b # NaN -> -1
                         [] a # NaN /\ b = NaN -> 1
                         [] OTHER -> IF a < b THEN -1 ELSE IF a > b THEN 1 ELSE 0

cmp(a, b) == CASE a = Null /\ b = Null -> 0
               [] a = Null /\ b # Null -> IF over.nullsLast THEN 1 ELSE -1
               [] a # Null /\ b = Null -> IF over.nullsLast THEN -1 ELSE 1
               [] OTHER -> IF over.desc THEN -compareValues(a, b)
                                        ELSE compareValues(a, b)

\* Mutant: the sum overflows to an infinity.
shiftOverflowing(k, o) == IF k \in {Null, NaN, PosInf, NegInf} THEN k
                          ELSE IF k + o > MaxFloat THEN PosInf
                          ELSE IF k + o < -MaxFloat THEN NegInf ELSE k + o
\* A finite sum that overflows is clamped to the largest finite DOUBLE.
shift(k, o) == IF k \in {Null, NaN, PosInf, NegInf} THEN k
               ELSE IF k + o > MaxFloat THEN MaxFloat
               ELSE IF k + o < -MaxFloat THEN -MaxFloat ELSE k + o

bound(k, type) ==
  LET sign == IF (type = "preceding") # over.desc THEN -1 ELSE 1
  IN  IF type = "current" THEN k ELSE shift(k, sign * RangeOffset)

\* sort.Search: the least index in 0..n at which holds is TRUE, by bisection.
Search(n, holds) ==
  LET go[p \in (0..n) \X (0..n)] ==
        LET i == p[1]
            j == p[2]
            h == (i + j) \div 2
        IN  IF i >= j THEN i ELSE IF holds[h] THEN go[<<i, h>>] ELSE go[<<h + 1, j>>]
  IN  go[<<0, n>>]

\* Mutant: the end is the first row that is not before the boundary.
frameShort(i) ==
  LET n == Len(keys)
      k == keys[i + 1]
      s == IF over.start = "unboundedPreceding" THEN 0
           ELSE Search(n, [j \in 0..(n - 1) |-> cmp(keys[j + 1], bound(k, over.start)) >= 0])
      e == IF over.end = "unboundedFollowing" THEN n
           ELSE Search(n, [j \in 0..(n - 1) |-> cmp(keys[j + 1], bound(k, over.end)) >= 0])
  IN  [s |-> s, e |-> IF e < s THEN s ELSE e]

\* The RANGE frame of row i as a half-open interval of indices from 0.
frame(i) ==
  LET n == Len(keys)
      k == keys[i + 1]
      s == IF over.start = "unboundedPreceding" THEN 0
           ELSE Search(n, [j \in 0..(n - 1) |-> cmp(keys[j + 1], bound(k, over.start)) >= 0])
      e == IF over.end = "unboundedFollowing" THEN n
           ELSE Search(n, [j \in 0..(n - 1) |-> cmp(keys[j + 1], bound(k, over.end)) > 0])
  IN  [s |-> s, e |-> IF e < s THEN s ELSE e]

\* The ROWS frame of row i, which SQLite maintains.
rowsFrame(i) ==
  LET n == Len(input.keys)
      clamp(x) == IF x < 0 THEN 0 ELSE IF x > n THEN n ELSE x
      delta(b) == CASE b = "preceding" -> -1 [] b = "current" -> 0
                    [] b = "following" -> 1
  IN  [s |-> IF over.start = "unboundedPreceding" THEN 0
             ELSE clamp(i + delta(over.start)),
       e |-> IF over.end = "unboundedFollowing" THEN n
             ELSE clamp(i + delta(over.end) + 1)]

(***************************************************************************)
(* Aggregators.  Summer counts NaN and infinities apart from the finite     *)
(* total, so that removing one restores the sum of the others.  The total is *)
(* exact, as it is for INT64, NUMERIC and INTERVAL; that of finite DOUBLEs   *)
(* below 1e300 is a compensated float64 sum, which is exact only while the   *)
(* compensation is, and is left out otherwise.                               *)
(***************************************************************************)
NewSummer == [n |-> 0, total |-> 0, nan |-> 0, posInf |-> 0, negInf |-> 0]
\* Mutant: an infinity that leaves the frame stays in the sum.
updateSticky(s, v, sign) ==
  CASE v \in {Null, PosInf, NegInf} /\ (v = Null \/ sign < 0) -> s
    [] v = NaN    -> [s EXCEPT !.n = @ + sign, !.nan = @ + sign]
    [] v = PosInf /\ sign > 0 -> [s EXCEPT !.n = @ + sign, !.posInf = @ + sign]
    [] v = NegInf /\ sign > 0 -> [s EXCEPT !.n = @ + sign, !.negInf = @ + sign]
    [] OTHER      -> [s EXCEPT !.n = @ + sign, !.total = @ + sign * v]
update(s, v, sign) ==
  CASE v = Null   -> s
    [] v = NaN    -> [s EXCEPT !.n = @ + sign, !.nan = @ + sign]
    [] v = PosInf -> [s EXCEPT !.n = @ + sign, !.posInf = @ + sign]
    [] v = NegInf -> [s EXCEPT !.n = @ + sign, !.negInf = @ + sign]
    [] OTHER      -> [s EXCEPT !.n = @ + sign, !.total = @ + sign * v]

floatSpecial(s) == CASE s.nan > 0 \/ (s.posInf > 0 /\ s.negInf > 0) -> NaN
                     [] s.nan = 0 /\ s.posInf > 0 /\ s.negInf = 0 -> PosInf
                     [] s.nan = 0 /\ s.posInf = 0 /\ s.negInf > 0 -> NegInf
                     [] OTHER -> Null
Sum(s) == IF s.n = 0 THEN Null
          ELSE IF floatSpecial(s) # Null THEN floatSpecial(s)
          ELSE IF s.total \in -MaxFloat..MaxFloat THEN s.total ELSE Overflow
Avg(s) == IF s.n = 0 THEN Null
          ELSE [num |-> IF floatSpecial(s) # Null THEN floatSpecial(s) ELSE s.total,
                den |-> s.n]

Truth(v) == v \notin {Null, NaN} /\ v > 0
NewInner == [buf |-> <<>>, n |-> 0, trues |-> 0, stars |-> 0,
             sum |-> NewSummer, bits |-> <<>>]

\* One row enters the frame.  BIT_AND, BIT_OR, BIT_XOR and ARRAY_CONCAT_AGG
\* keep only non-NULL rows (bits).
StepRow(a, v) ==
  [a EXCEPT !.buf = Append(@, v),
            !.n = @ + (IF v # Null THEN 1 ELSE 0),
            !.trues = @ + (IF Truth(v) THEN 1 ELSE 0),
            !.stars = @ + 1,
            !.sum = update(@, v, 1),
            !.bits = IF v = Null THEN @ ELSE Append(@, v)]

popFront(s) == IF s = <<>> THEN s ELSE Tail(s)
\* Mutant: BIT_AND and its kin drop their newest entry.
InverseRowNewest(a, v) ==
  LET oldest == IF a.buf = <<>> THEN Null ELSE Head(a.buf)
  IN [a EXCEPT !.buf = popFront(@),
               !.n = @ - (IF oldest # Null THEN 1 ELSE 0),
               !.trues = @ - (IF Truth(v) /\ @ > 0 THEN 1 ELSE 0),
               !.stars = @ - (IF @ > 0 THEN 1 ELSE 0),
               !.sum = update(@, oldest, -1),
               !.bits = IF @ = <<>> THEN @ ELSE Front(@)]
\* One row leaves the frame.  The aggregators that buffer drop their oldest
\* entry whatever the row was; COUNTIF looks at the row's value.
InverseRow(a, v) ==
  LET oldest == IF a.buf = <<>> THEN Null ELSE Head(a.buf)
  IN [a EXCEPT !.buf = popFront(@),
               !.n = @ - (IF oldest # Null THEN 1 ELSE 0),
               !.trues = @ - (IF Truth(v) /\ @ > 0 THEN 1 ELSE 0),
               !.stars = @ - (IF @ > 0 THEN 1 ELSE 0),
               !.sum = update(@, oldest, -1),
               !.bits = popFront(@)]

\* The rows a frame [s, e) gains and loses when it moves to f.
Moved(a, vals, s, e, f) ==
  FoldLeft(InverseRow, FoldLeft(StepRow, a, SubSeq(vals, e + 1, f.e)),
           SubSeq(vals, s + 1, f.s))

-----------------------------------------------------------------------------
\* The results of Done over the buffered frame.
NonNulls(b) == FoldLeft(LAMBDA held, v : IF v = Null THEN held ELSE Append(held, v), <<>>, b)
At(b, k)    == IF k \in 1..Len(b) THEN b[k] ELSE Null
minMax(b, wantMin) ==
  FoldLeft(LAMBDA best, v : IF v = Null \/ best = NaN THEN best
                            ELSE IF v = NaN \/ best = Null THEN v
                            ELSE IF (wantMin /\ v < best) \/ (~wantMin /\ v > best) THEN v ELSE best,
           Null, b)
activeDistinct(b) ==
  FoldLeft(LAMBDA seen, v : IF v = Null \/ v \in ToSet(seen) THEN seen
                            ELSE Append(seen, v),
           <<>>, b)
summer(vs) == FoldLeft(LAMBDA s, v : update(s, v, 1), NewSummer, vs)
logical(b, decisive) ==
  LET known == NonNulls(b)
  IN  IF known = <<>> THEN Null
      ELSE IF \E k \in DOMAIN known : Truth(known[k]) = decisive THEN decisive
      ELSE ~decisive
activeSorted(b) ==
  SortSeq(NonNulls(b), LAMBDA v, w : IF NaN \in {v, w} THEN v = NaN /\ w # NaN
                                     ELSE v < w)
\* PERCENTILE_DISC and PERCENTILE_CONT at 1/2.
percentileDisc(b) ==
  LET xs == activeSorted(b)
      ceil == (Len(xs) + 1) \div 2
  IN  IF xs = <<>> THEN Null ELSE xs[IF ceil > 0 THEN ceil ELSE 1]
percentileCont(b) ==
  LET xs == activeSorted(b)
      pos == Len(xs) - 1
      lo == pos \div 2
      hi == IF pos % 2 > 0 /\ lo + 1 < Len(xs) THEN lo + 1 ELSE lo
  IN  IF xs = <<>> THEN Null
      ELSE [num |-> C!Plus(xs[lo + 1], xs[hi + 1]), den |-> 2]

Done(a) ==
  [ array |-> a.buf, countStar |-> a.stars, count |-> a.n, countif |-> a.trues,
    first |-> At(a.buf, 1), firstIgnore |-> At(NonNulls(a.buf), 1),
    last |-> At(a.buf, Len(a.buf)),
    lastIgnore |-> At(NonNulls(a.buf), Len(NonNulls(a.buf))),
    second |-> At(a.buf, 2), secondIgnore |-> At(NonNulls(a.buf), 2),
    or |-> logical(a.buf, TRUE), and |-> logical(a.buf, FALSE),
    min |-> minMax(a.buf, TRUE),
    max |-> minMax(a.buf, FALSE),
    sum |-> Sum(a.sum), avg |-> Avg(a.sum),
    distinct |-> Len(activeDistinct(a.buf)),
    sumDistinct |-> Sum(summer(activeDistinct(a.buf))),
    disc |-> percentileDisc(a.buf), cont |-> percentileCont(a.buf) ]

-----------------------------------------------------------------------------
\* A partition and its clause.  An offset is the number RangeOffset: init
\* refuses NULL, NaN and negative ones, and no infinite one occurs.
Partition(clauses) ==
  /\ over \in clauses
  /\ \E n \in Sizes[over.unit] :
       input \in [keys : IF over.unit = "range" THEN [1..n -> Keys]
                                               ELSE {[j \in 1..n |-> 0]},
                 vals : [1..n -> Values[over.unit]]]
  /\ C!WellFormed([c |-> over, keys |-> input.keys, vals |-> input.vals])
  /\ keys = <<>> /\ rows = <<>> /\ cur = 0
  /\ inner = None /\ innerS = 0 /\ innerE = 0
  /\ out = <<>>

\* SQLite steps every row of the partition into rangeFrameWindow or
\* matchRecognizeWindow.
Step == /\ over.unit # "rows"
        /\ cur = 0 /\ Len(keys) < Len(input.keys)
        /\ keys' = Append(keys, input.keys[Len(keys) + 1])
        /\ rows' = Append(rows, input.vals[Len(keys) + 1])
        /\ UNCHANGED <<over, input, cur, inner, innerS, innerE, out>>

\* An instance that can take rows back is moved to the next frame when that
\* lies ahead of and overlaps (or touches) the last one.
Reusable(f) == inner # None /\ f.s >= innerS /\ f.e >= innerE /\ f.s <= innerE

\* rangeFrameWindow.Done for the current row.
ValueRange ==
  /\ over.unit = "range"
  /\ Len(keys) = Len(input.keys) /\ Len(out) = cur /\ cur < Len(keys)
  /\ LET f == frame(cur)
     IN /\ inner' = IF Reusable(f) THEN Moved(inner, rows, innerS, innerE, f)
                     ELSE Moved(NewInner, rows, f.s, f.s, f)
        /\ innerS' = f.s /\ innerE' = f.e
  /\ out' = Append(out, Done(inner'))
  /\ UNCHANGED <<over, input, keys, rows, cur>>

\* Inverse of both: SQLite's frame starts at the current row.
InverseCall == /\ over.unit # "rows"
               /\ cur < Len(out)
               /\ cur' = cur + 1
               /\ UNCHANGED <<over, input, keys, rows, inner, innerS, innerE, out>>

\* SQLite moves a ROWS frame to the next row and asks for its value.
ValueRows ==
  /\ over.unit = "rows"
  /\ cur < Len(input.keys)
  /\ LET f == rowsFrame(cur)
     IN /\ inner' = Moved(IF inner = None THEN NewInner ELSE inner,
                         input.vals, innerS, innerE, f)
        /\ innerS' = f.s /\ innerE' = f.e
  /\ out' = Append(out, Done(inner'))
  /\ cur' = cur + 1
  /\ UNCHANGED <<over, input, keys, rows>>

FrameInit == Partition(C!FrameClauses)
FrameNext == Step \/ ValueRange \/ InverseCall \/ ValueRows
FrameSpec == FrameInit /\ [][FrameNext]_vars

-----------------------------------------------------------------------------
\* BIT_AND, BIT_OR, BIT_XOR and ARRAY_CONCAT_AGG hold the non-NULL values of
\* the frame as long as no NULL row precedes it.  (Inverse drops an entry even
\* for a row that Step skipped, so once a NULL row has left they are short.)
BitsHeld ==
  over.unit # "match" /\ inner # None =>
    LET vals == SubSeq(input.vals, 1, innerS)
    IN  (\A k \in DOMAIN vals : vals[k] # Null) => inner.bits = NonNulls(inner.buf)

\* The rows the aggregators hold are those of the frame the clause asks for,
\* found by distances between keys, and an instance that was moved to it with
\* Step and Inverse is in the state of one stepped through it afresh (frame,
\* rangeFrameWindow.Done, Summer, COUNT, COUNTIF; all but BIT_AND and its kin).
FrameHeld ==
  over.unit # "match" /\ inner # None =>
    LET p == [c |-> over, keys |-> input.keys, vals |-> input.vals]
        fresh == FoldLeft(StepRow, NewInner, SubSeq(input.vals, innerS + 1, innerE))
    IN  /\ (innerS + 1)..innerE = C!Frame(p, Len(out))
        /\ \A field \in DOMAIN inner \ {"bits"} : inner[field] = fresh[field]

\* Both: no row of the frame is missed, kept or counted twice by an instance
\* that goes from frame to frame (rangeFrameWindow.Done and SQLite's callbacks).
\* Of sums it says so where addition is exact.
FrameExact == FrameHeld /\ BitsHeld
=============================================================================
