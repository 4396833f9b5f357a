----------------------------- MODULE Aggregates -----------------------------
(***************************************************************************)
(* The aggregate functions of internal/functions/aggregate under the        *)
(* wrapper that SQLite drives, helper.Aggregator: one instance per group,   *)
(* Step for every row, Done once.  DISTINCT, IGNORE NULLS, HAVING MAX/MIN,  *)
(* ORDER BY and LIMIT reach the wrapper as marker arguments.                *)
(*                                                                         *)
(* A row is [v, k]: v is the argument; k is the key of HAVING, of ORDER BY, *)
(* of MAX_BY and MIN_BY, and the locking key of AGG.  All functions of one  *)
(* number of arguments run side by side on the rows.  SQLite may call Done  *)
(* after any row, so the results are compared in every state.               *)
(***************************************************************************)
EXTENDS Integers, Sequences, FiniteSets, SequencesExt

CONSTANTS NullValue, NaNValue,
          Deferred,     \* an argument that carries a deferred error
          NoLimit,
          Arguments, RowKeys, \* the values of v and k
          Calls,        \* the calls, with their options
          MaxGroup,     \* bound on the rows of a group
          MaxExact      \* the integers up to it are float64s: 2^53

ASSUME CallsAssumption ==
  /\ NullValue \notin Int /\ NaNValue \notin Int /\ Deferred \notin Int /\ NoLimit \notin Int
  /\ NullValue # NaNValue /\ NullValue # Deferred /\ NaNValue # Deferred
  /\ Arguments \subseteq Int \cup {NullValue, NaNValue, Deferred}
  /\ RowKeys \subseteq Int \cup {NullValue, NaNValue} /\ MaxExact \in Nat
  /\ Calls \subseteq [args : {1, 2}, ignoreNulls : BOOLEAN, distinct : BOOLEAN,
                     having : {"none", "MAX", "MIN"},
                     orderBy : Seq([by : {"v", "k"}, asc : BOOLEAN]), limit : Nat \cup {NoLimit}]

VARIABLES call,   \* the call: its number of arguments and its options
          group,  \* the rows stepped so far
          agg     \* the Aggregator

aggVars == <<call, group, agg>>

-----------------------------------------------------------------------------
(***************************************************************************)
(* The functions.  `f` holds the state of one instance of each.             *)
(***************************************************************************)
NewFunctions ==
  [count |-> 0, any |-> NullValue,
   max |-> NullValue, min |-> NullValue, nan |-> FALSE,
   array |-> <<>>, strings |-> <<>>,
   maxKey |-> NullValue, maxBy |-> NullValue,
   minKey |-> NullValue, minBy |-> NullValue, nanKey |-> FALSE,
   having |-> <<>>, seen |-> {}, measures |-> <<>>]

\* FloatValue.GT and LT: false when either side is NaN.
GT(x, y) == x # NaNValue /\ y # NaNValue /\ x > y
LT(x, y) == GT(y, x)
EQ(x, y) == x # NaNValue /\ y # NaNValue /\ x = y

\* MAX.Step and MIN.Step
StepMax(f, v) == [f EXCEPT !.nan = @ \/ v = NaNValue,
                           !.max = IF v = NaNValue \/ (@ # NullValue /\ ~GT(v, @)) THEN @ ELSE v]
StepMin(f, v) == [f EXCEPT !.min = IF v = NaNValue \/ (@ # NullValue /\ ~LT(v, @)) THEN @ ELSE v]

\* COUNT.Step, ANY_VALUE.Step, STRING_AGG.Step and ARRAY_AGG.Step
StepCount(f)     == [f EXCEPT !.count = @ + 1]
StepAny(f, v)    == [f EXCEPT !.any = IF @ = NullValue THEN v ELSE @]
StepString(f, r) == [f EXCEPT !.strings = Append(@, r)]
StepArray(f, r)  == [f EXCEPT !.array = Append(@, r)]

\* All but ARRAY_AGG pass NULL over.
StepOne(f, r) ==
  LET Rest(g) == IF r.v = NullValue THEN g
                 ELSE StepMin(StepMax(StepString(StepAny(StepCount(g), r.v), r), r.v), r.v)
  IN Rest(StepArray(f, r))

\* Mutant: a later row with an equal key wins.
StepByLast(f, r) ==
  IF r.k = NullValue THEN f
  ELSE IF r.k = NaNValue THEN [f EXCEPT !.nanKey = TRUE]
  ELSE [f EXCEPT !.maxKey = IF @ = NullValue \/ ~LT(r.k, @) THEN r.k ELSE @,
                 !.maxBy  = IF f.maxKey = NullValue \/ ~LT(r.k, f.maxKey) THEN r.v ELSE @]

\* MAX_BY.Step and MIN_BY.Step: a later row wins only with a better key.
StepBy(f, r) ==
  CASE r.k = NullValue -> f
    [] r.k = NaNValue  -> [f EXCEPT !.nanKey = TRUE]
    [] OTHER ->
       LET larger  == f.maxKey = NullValue \/ GT(r.k, f.maxKey)
           smaller == f.minKey = NullValue \/ LT(r.k, f.minKey)
       IN [f EXCEPT !.maxKey = IF larger THEN r.k ELSE @, !.maxBy = IF larger THEN r.v ELSE @,
                    !.minKey = IF smaller THEN r.k ELSE @, !.minBy = IF smaller THEN r.v ELSE @]

\* HAVING_ANY_VALUE.Step keeps every row; AGG.Step the first of each key.
StepPair(f, r) ==
  [StepBy(f, r) EXCEPT !.having = Append(@, r), !.seen = @ \union {r.k},
                       !.measures = IF r.k \in f.seen THEN @ ELSE Append(@, r.v)]

StepFunctions(f, r) == IF call.args = 1 THEN StepOne(f, r) ELSE StepPair(f, r)

-----------------------------------------------------------------------------
(***************************************************************************)
(* helper.Aggregator.                                                      *)
(***************************************************************************)
NewAggregator == [distinct |-> {}, having |-> <<>>, deferred |-> FALSE, f |-> NewFunctions]

Args(r) == IF call.args = 1 THEN {r.v} ELSE {r.v, r.k}

\* process: DistinctKey is the same for two NaN, and NULL has a flag of its own.
process(a, r) ==
  CASE call.ignoreNulls /\ NullValue \in Args(r) -> a
    [] call.distinct /\ r.v \in a.distinct -> a
    [] OTHER -> [a EXCEPT !.distinct = IF call.distinct THEN @ \union {r.v} ELSE @,
                          !.f = StepFunctions(@, r)]

\* Mutant: DISTINCT is applied to the rows as they come, before HAVING.
SteppedEager(a, r) ==
  CASE a.deferred -> a
    [] ~a.deferred /\ r.v = Deferred -> [a EXCEPT !.deferred = TRUE]
    [] ~a.deferred /\ r.v # Deferred /\ call.having # "none" ->
         IF call.distinct /\ \E i \in DOMAIN a.having : a.having[i].v = r.v THEN a
         ELSE [a EXCEPT !.having = Append(@, r)]
    [] OTHER -> process(a, r)

\* Step: rows of a call with HAVING wait for Done.
Stepped(a, r) ==
  CASE a.deferred -> a
    [] ~a.deferred /\ r.v = Deferred -> [a EXCEPT !.deferred = TRUE]
    [] ~a.deferred /\ r.v # Deferred /\ call.having # "none" ->
         [a EXCEPT !.having = Append(@, r)]
    [] OTHER -> process(a, r)

\* aggMinMax.  replayHaving and HAVING_ANY_VALUE.Done find the extreme key with
\* the same loop.
aggMinMax(vs, wantMin) ==
  LET Better(v, picked) == IF wantMin THEN LT(v, picked) ELSE GT(v, picked)
      Pick(picked, v) == IF v # NullValue /\ (picked = NullValue \/ Better(v, picked))
                         THEN v ELSE picked
  IN FoldLeft(Pick, NullValue, vs)

bestKey(rows, wantMin) == aggMinMax([i \in DOMAIN rows |-> rows[i].k], wantMin)
AtBest(r, best) == best # NullValue /\ r.k # NullValue /\ EQ(r.k, best)

replayHaving(a) ==
  LET best == bestKey(a.having, call.having = "MIN")
      Replay(b, r) == IF AtBest(r, best) THEN process(b, r) ELSE b
  IN FoldLeft(Replay, [a EXCEPT !.having = <<>>], a.having)

-----------------------------------------------------------------------------
(***************************************************************************)
(* ORDER BY and LIMIT.                                                     *)
(***************************************************************************)
OrderKey(r, o) == IF o.by = "v" THEN r.v ELSE r.k

\* A key reaches the Aggregator in the plain JSON of the ORDER_BY marker, which
\* keeps the integers that are float64s; larger ones run together and NaN
\* cannot be written.  Keys of other types are not modelled.
MarkerKeeps(x) == x # NaNValue /\ (x \in Int => x \in (-MaxExact)..MaxExact)

\* The comparison of SortAggregatedValues: the first key that differs, or is
\* NULL on either side, decides.
less(x, y) ==
  LET LessBy(a, b, asc) == CASE a = NullValue -> asc
                             [] a # NullValue /\ b = NullValue -> ~asc
                             [] OTHER -> IF asc THEN LT(a, b) ELSE GT(a, b)
  IN \E i \in DOMAIN call.orderBy :
       LET Decides(j) == LET a == OrderKey(x, call.orderBy[j])
                             b == OrderKey(y, call.orderBy[j])
                         IN a = NullValue \/ b = NullValue \/ a # b
       IN /\ Decides(i) /\ \A j \in 1..(i - 1) : ~Decides(j)
          /\ LessBy(OrderKey(x, call.orderBy[i]), OrderKey(y, call.orderBy[i]),
                    call.orderBy[i].asc)

\* sort.Slice moves each element left past the larger ones when there are at
\* most twelve; what it does with more is not modelled.
MaxInsertion == 12
Slide(s, x) ==
  LET Placed(p) == SubSeq(s, 1, p) \o <<x>> \o SubSeq(s, p + 1, Len(s))
  IN Placed(CHOOSE p \in 0..Len(s) : /\ p > 0 => ~less(x, s[p])
                                     /\ \A j \in (p + 1)..Len(s) : less(x, s[j]))

SortAggregatedValues(rows) ==
  IF call.orderBy = <<>> THEN rows ELSE FoldLeft(Slide, <<>>, rows)

\* Mutant: the limit is taken before the rows are sorted.
FirstUnsorted(rows) ==
  SortAggregatedValues(IF call.limit = NoLimit \/ call.limit > Len(rows) THEN rows
                       ELSE SubSeq(rows, 1, call.limit))

\* ARRAY_AGG.Done and STRING_AGG.Done
First(rows) ==
  LET Cut(s) == IF call.limit = NoLimit \/ call.limit > Len(s) THEN s
                ELSE SubSeq(s, 1, call.limit)
  IN Cut(SortAggregatedValues(rows))

Column(rows) == [i \in DOMAIN rows |-> rows[i].v]

-----------------------------------------------------------------------------
(***************************************************************************)
(* Done.                                                                   *)
(***************************************************************************)
\* HAVING_ANY_VALUE.Done
havingAnyValue(rows, wantMin) ==
  LET best == bestKey(rows, wantMin)
      at == {i \in DOMAIN rows : AtBest(rows[i], best) /\ rows[i].v # NullValue}
  IN IF at = {} THEN NullValue ELSE rows[Min(at)].v

\* AGG.Done, by kind.  COUNT counts NULL too, and all kinds are NULL when no
\* row was kept.  SUM and AVG, which add float64s, are left out.
measure(vs) ==
  [any   |-> IF vs = <<>> THEN NullValue ELSE vs[1],
   count |-> IF vs = <<>> THEN NullValue ELSE Len(vs),
   countDistinct |-> IF vs = <<>> THEN NullValue ELSE Cardinality(ToSet(vs) \ {NullValue}),
   min |-> aggMinMax(vs, TRUE), max |-> aggMinMax(vs, FALSE)]

OrNull(s) == IF s = <<>> THEN NullValue ELSE s
DoneOne(f) ==
  [count |-> f.count, any |-> f.any,
   max |-> IF f.nan THEN NaNValue ELSE f.max,
   min |-> IF f.nan THEN NaNValue ELSE f.min,
   array |-> IF f.array = <<>> THEN NullValue ELSE Column(First(f.array)),
   string |-> OrNull(Column(First(f.strings)))]

DonePair(f) ==
  [maxBy |-> IF f.nanKey THEN NullValue ELSE f.maxBy,
   minBy |-> IF f.nanKey THEN NullValue ELSE f.minBy,
   havingMax |-> havingAnyValue(f.having, FALSE), havingMin |-> havingAnyValue(f.having, TRUE),
   measure |-> measure(f.measures)]

\* Aggregator.Done
AggDone(a) ==
  LET Result(f) == IF call.args = 1 THEN DoneOne(f) ELSE DonePair(f)
  IN IF a.deferred THEN Deferred ELSE Result(replayHaving(a).f)

-----------------------------------------------------------------------------
AggInit == call \in Calls /\ group = <<>> /\ agg = NewAggregator

\* SQLite steps the next row of the group.  Where rows are sorted, groups of
\* more than MaxInsertion rows and keys that the marker loses are left out.
AggStep ==
  \E v \in Arguments, k \in RowKeys :
    LET r == [v |-> v, k |-> k]
    IN /\ Len(group) < MaxGroup
       /\ call.orderBy # <<>> => Len(group) < MaxInsertion
       /\ \A i \in DOMAIN call.orderBy : MarkerKeeps(OrderKey(r, call.orderBy[i]))
       /\ group' = Append(group, r)
       /\ agg' = Stepped(agg, r)
       /\ UNCHANGED call

AggSpec == AggInit /\ [][AggStep]_aggVars

-----------------------------------------------------------------------------
(***************************************************************************)
(* What SQL says of the group.                                             *)
(***************************************************************************)
\* The rows whose HAVING key is the extreme one.
HavingRows ==
  IF call.having = "none" THEN DOMAIN group
  ELSE LET K == {i \in DOMAIN group : group[i].k # NullValue}
       IN {i \in K : \A j \in K : IF call.having = "MAX" THEN group[j].k <= group[i].k
                                                          ELSE group[j].k >= group[i].k}

\* Of those, the rows without a NULL argument, and one of each distinct value.
Kept ==
  LET Once(N) == {i \in N : call.distinct => \A j \in N : j < i => group[j].v # group[i].v}
  IN Once({i \in HavingRows : call.ignoreNulls => NullValue \notin Args(group[i])})

\* x may stand before y: NULL is the least value.  Nothing is asked of rows
\* whose first key is NULL on both sides: the code compares no further.
Before(x, y) ==
  LET Key(r, i) == OrderKey(r, call.orderBy[i])
      Smaller(a, b) == a = NullValue \/ (b # NullValue /\ a < b)
      Equal(i) == Key(x, i) = Key(y, i) /\ Key(x, i) # NullValue
      Decides(i) == ~Equal(i) /\ \A j \in 1..(i - 1) : Equal(j)
  IN \A i \in DOMAIN call.orderBy :
       Decides(i) => \/ Key(x, i) = NullValue /\ Key(y, i) = NullValue
                   \/ IF call.orderBy[i].asc THEN Smaller(Key(x, i), Key(y, i))
                                             ELSE Smaller(Key(y, i), Key(x, i))

\* s is the column of the first of the rows I, in the order asked for.
InOrder(s, I) ==
  LET n == IF call.limit = NoLimit THEN Cardinality(I)
           ELSE IF call.limit < Cardinality(I) THEN call.limit ELSE Cardinality(I)
  IN \E p \in [1..Cardinality(I) -> I] :
       /\ \A i, j \in DOMAIN p :
            i < j => /\ p[i] # p[j]
                     /\ IF call.orderBy = <<>> THEN p[i] < p[j]
                        ELSE Before(group[p[i]], group[p[j]])
       /\ s = [i \in 1..n |-> group[p[i]].v]

NonNull(I) == {i \in I : group[i].v # NullValue}
ValuesIn(I) == {group[i].v : i \in I}
\* m is the extreme of the non-NULL values of V, NaN if one of them is.
IsExtreme(m, V, asc) ==
  CASE V \subseteq {NullValue} -> m = NullValue
    [] NaNValue \in V -> m = NaNValue
    [] OTHER -> m \in V \ {NullValue} /\ \A w \in V \ {NullValue} : IF asc THEN m >= w ELSE m <= w

\* Whatever the options and the order of the rows, the result of an
\* aggregate is the one of the rows that HAVING, IGNORE NULLS and DISTINCT keep,
\* each counted once, in the order of ORDER BY and cut off by LIMIT
\* (Aggregator.Step, process, Done, replayHaving and SortAggregatedValues with
\* COUNT, ANY_VALUE, MAX, MIN, ARRAY_AGG and STRING_AGG).  Not asked of NaN
\* keys of HAVING, for which the result depends on the order of the rows.
\* (AggStep says which sorted groups there are.)
AggregateExact(d, rows) ==
  call.args = 1 /\ (call.having # "none" => \A i \in DOMAIN group : group[i].k # NaNValue) =>
    /\ d.count = Cardinality(NonNull(rows))
    /\ d.any \in ValuesIn(rows) \union {NullValue}
    /\ d.any = NullValue <=> NonNull(rows) = {}
    /\ IsExtreme(d.max, ValuesIn(rows), TRUE) /\ IsExtreme(d.min, ValuesIn(rows), FALSE)
    /\ IF rows = {} THEN d.array = NullValue ELSE InOrder(d.array, rows)
    /\ IF NonNull(rows) = {} \/ call.limit = 0 THEN d.string = NullValue
                                                ELSE InOrder(d.string, NonNull(rows))

\* MAX_BY and MIN_BY give the argument of the first row with the
\* extreme key and NULL when a key is NaN; ANY_VALUE with HAVING gives a
\* non-NULL argument of a row with the extreme key; AGG counts the first row of
\* every locking key and no other, in its kinds ANY_VALUE, COUNT,
\* COUNT_DISTINCT, MIN and MAX (max_by.go, having_any_value.go, agg.go).
\* Again not asked of NaN keys of HAVING.
PairExact(d, rows) ==
  LET K == {i \in rows : group[i].k # NullValue}
      Extreme(asc) == {i \in K : \A j \in K : IF asc THEN group[j].k <= group[i].k
                                                     ELSE group[j].k >= group[i].k}
      IsBy(v, E) == IF E = {} THEN v = NullValue
                    ELSE \E i \in E : v = group[i].v /\ \A j \in E : i <= j
      IsAny(v, best) == IF best = {} THEN v = NullValue ELSE v \in best
      noNaN == \A i \in DOMAIN group : group[i].k # NaNValue /\ group[i].v # NaNValue
      Counted(firsts) ==
        /\ noNaN => /\ IsExtreme(d.measure.max, ValuesIn(firsts), TRUE)
                    /\ IsExtreme(d.measure.min, ValuesIn(firsts), FALSE)
        /\ firsts # {} => /\ d.measure.count = Cardinality(firsts)
                          /\ d.measure.countDistinct = Cardinality(ValuesIn(firsts) \ {NullValue})
                          /\ IsBy(d.measure.any, firsts)
      asked == call.having # "none" => \A i \in DOMAIN group : group[i].k # NaNValue
  IN call.args = 2 /\ asked =>
     /\ IF \E i \in rows : group[i].k = NaNValue
        THEN d.maxBy = NullValue /\ d.minBy = NullValue
        ELSE IsBy(d.maxBy, Extreme(TRUE)) /\ IsBy(d.minBy, Extreme(FALSE))
     /\ noNaN => /\ IsAny(d.havingMax, ValuesIn(Extreme(TRUE)) \ {NullValue})
                 /\ IsAny(d.havingMin, ValuesIn(Extreme(FALSE)) \ {NullValue})
     /\ Counted({i \in rows : \A j \in rows : j < i => group[j].k # group[i].k})

\* Property: both of the above, for functions of one and of two arguments; a
\* deferred error in any row becomes the result.
AggregatesExact ==
  LET Exact(d) == IF \E i \in DOMAIN group : group[i].v = Deferred THEN d = Deferred
                  ELSE AggregateExact(d, Kept) /\ PairExact(d, Kept)
  IN Exact(AggDone(agg))
=============================================================================
