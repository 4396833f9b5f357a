----------------------------- MODULE MCFunctions -----------------------------
(***************************************************************************)
(* One query evaluates functions of one family: window functions and row    *)
(* patterns, dates, ranges and intervals, or aggregates.  The families share  *)
(* no state.                                                               *)
(***************************************************************************)
EXTENDS Windows, Calendar, Ranges, Aggregates

VARIABLE family
functionVars == <<family, vars, dateVars, rangeVars, aggVars>>

MCKeys == {Null, NaN, 0, 2, PosInf}
MCValues == [rows  |-> {Null, NaN, NegInf, 1, 2, PosInf},
             range |-> {Null, 2},
             match |-> SUBSET {1, 2}]
MCSizes == [rows |-> {1, 4}, range |-> {1, 3}, match |-> {3}]

Node(t, v, c, lo, hi, r) == [t |-> t, v |-> v, c |-> c, lo |-> lo, hi |-> hi, r |-> r]
Leaf(t) == Node(t, 0, <<>>, 0, NoBound, FALSE)
A == Node("v", 1, <<>>, 0, NoBound, FALSE)
B == Node("v", 2, <<>>, 0, NoBound, FALSE)
Cat(ps) == Node("cat", 0, ps, 0, NoBound, FALSE)
Alt(ps) == Node("alt", 0, ps, 0, NoBound, FALSE)
Times(p, lo, hi, r) == Node("q", 0, <<p>>, lo, hi, r)
Star(p) == Times(p, 0, NoBound, FALSE)

MCPatterns == {
  Leaf("empty"),
  Cat(<<A, B>>),
  Cat(<<Star(A), B>>),
  Cat(<<Times(A, 0, NoBound, TRUE), B>>),
  Alt(<<A, Cat(<<A, B>>), B>>),
  Star(Alt(<<A, B>>)),
  Star(Alt(<<Cat(<<A, B>>), A, B>>)),
  Cat(<<Times(A, 1, 2, FALSE), Times(Alt(<<B, A>>), 0, 1, TRUE)>>),
  Times(A, 1, 3, TRUE),
  Cat(<<Leaf("start"), Star(A)>>),
  Cat(<<Times(A, 0, 1, TRUE), B, Leaf("end")>>),
  Star(Times(A, 0, 1, FALSE)),
  Star(Times(A, 0, 1, TRUE)),
  Star(Star(Alt(<<A, B>>))),
  Cat(<<Star(Alt(<<Leaf("empty"), A>>)), B>>),
  Times(Times(A, 0, 1, FALSE), 2, NoBound, FALSE),
  Times(A, 2, 1, FALSE)}

\* 2000 and 2004 are leap years; January 1 falls on five different weekdays.
\* From the first origin a Duration reaches only part of the walk.
MCFirstDay == Date(1999, 12, 1)
MCLastDay  == Date(2004, 3, 2)
MCOrigins  == {Date(1708, 3, 31), Date(2000, 1, 31), Date(2003, 5, 18)}
MCSteps    == {-13, -1, 0, 1, 3}

MCPoints   == 0..4
MCMonths   == -2..2
MCDays     == {-61, -60, -59, -31, -30, -29, -2, -1, 0, 1, 2, 29, 30, 31, 59, 60, 61}
MCTicks    == -9..9
MCMaxParts == <<3, 61, 12>>
MCDivisors == {-7, -2, 1, 3, 4}

OrderBy(by, asc) == [by |-> by, asc |-> asc]
Call(n, ignoreNulls, distinct, having, orderBy, limit) ==
  [args |-> n, ignoreNulls |-> ignoreNulls, distinct |-> distinct, having |-> having,
   orderBy |-> orderBy, limit |-> limit]
PlainCall == Call(2, FALSE, FALSE, "none", <<>>, NoLimit)
MCCalls ==
  {Call(1, i, d, h, <<>>, NoLimit) : i \in BOOLEAN, d \in BOOLEAN, h \in {"none", "MAX", "MIN"}}
  \union {Call(1, i, FALSE, "none", o, l) : i \in BOOLEAN, l \in {NoLimit, 2},
             o \in {<<OrderBy("k", TRUE), OrderBy("v", FALSE)>>,
                    <<OrderBy("k", FALSE), OrderBy("v", TRUE)>>}}
  \union {Call(1, FALSE, TRUE, "none", <<OrderBy("v", TRUE)>>, 1),
          Call(1, TRUE, FALSE, "MAX", <<OrderBy("v", FALSE)>>, 0), PlainCall}
MCRowKeys   == {NullValue, NaNValue, 1, 2}
MCArguments == MCRowKeys \union {Deferred}

-----------------------------------------------------------------------------
WindowIdle == /\ over = [unit |-> "rows", start |-> "current", end |-> "current",
                         desc |-> FALSE, nullsLast |-> FALSE]
              /\ input = [keys |-> <<0>>, vals |-> <<1>>]
              /\ keys = <<>> /\ rows = <<>> /\ cur = 0
              /\ inner = None /\ innerS = 0 /\ innerE = 0 /\ out = <<>>
DateIdle  == day = NoDate /\ origin = NoDate
RangeIdle == ranges = <<>> /\ iv = NoInterval

AggIdle   == call = PlainCall /\ group = <<>> /\ agg = NewAggregator

FunctionsInit ==
  \/ family = "window" /\ Init /\ DateIdle /\ RangeIdle /\ AggIdle
  \/ family = "date" /\ WindowIdle /\ DateInit /\ RangeIdle /\ AggIdle
  \/ family = "range" /\ WindowIdle /\ DateIdle /\ RangeInit /\ AggIdle
  \/ family = "aggregate" /\ WindowIdle /\ DateIdle /\ RangeIdle /\ AggInit
WindowStep == family = "window" /\ Next /\ UNCHANGED <<dateVars, rangeVars, aggVars>>
DateStep   == family = "date" /\ DateNext /\ UNCHANGED <<vars, rangeVars, aggVars>>
RangeStep  == family = "range" /\ RangeNext /\ UNCHANGED <<vars, dateVars, aggVars>>
AggregateStep == family = "aggregate" /\ AggStep /\ UNCHANGED <<vars, dateVars, rangeVars>>
\* The walk, the table and the group end at their bounds.
BoundReached == family # "window" /\ UNCHANGED <<vars, dateVars, rangeVars, aggVars>>
FunctionsNext ==
  /\ WindowStep \/ DateStep \/ RangeStep \/ AggregateStep \/ BoundReached
  /\ UNCHANGED family
FunctionsSpec == FunctionsInit /\ [][FunctionsNext]_functionVars
=============================================================================
