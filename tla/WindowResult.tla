---------------------------- MODULE WindowResult ----------------------------
(***************************************************************************)
(* What `f(x) OVER (PARTITION BY ... ORDER BY k ... frame)` promises: one   *)
(* result per row of the partition, in ORDER BY order, each computed from   *)
(* the rows of that row's frame and from nothing else.  Results are defined *)
(* by quantifying over the frame, so that nothing here depends on how the   *)
(* engine maintains it.                                                    *)
(***************************************************************************)
EXTENDS WindowClause, SequencesExt, FiniteSets

VARIABLES part,         \* the partition and the OVER clause
          out           \* the results delivered so far

(***************************************************************************)
(* The results over a frame F.                                             *)
(***************************************************************************)
NonNull(p, F) == {j \in F : p.vals[j] # Null}
True(p, F)    == {j \in NonNull(p, F) : p.vals[j] # NaN /\ p.vals[j] > 0}
FirstOf(p, F)   == IF F = {} THEN Null ELSE p.vals[CHOOSE j \in F : \A k \in F : j <= k]
LastOf(p, F)    == IF F = {} THEN Null ELSE p.vals[CHOOSE j \in F : \A k \in F : k <= j]
SecondOf(p, F)  == FirstOf(p, F \ {j \in F : \A k \in F : j <= k})

\* The sum of the values at a set of rows: special values win over finite ones.
Total(p, F) ==
  LET occurs(x) == \E j \in F : p.vals[j] = x
      finite    == {j \in F : ~Special(p.vals[j])}
      weight(v) == v * Cardinality({j \in finite : p.vals[j] = v})
      sum[S \in SUBSET (-MaxFloat..MaxFloat)] ==
        IF S = {} THEN 0
        ELSE LET v == CHOOSE x \in S : TRUE IN weight(v) + sum[S \ {v}]
  IN CASE occurs(NaN) \/ (occurs(PosInf) /\ occurs(NegInf)) -> NaN
       [] occurs(PosInf) /\ ~occurs(NegInf) /\ ~occurs(NaN) -> PosInf
       [] occurs(NegInf) /\ ~occurs(PosInf) /\ ~occurs(NaN) -> NegInf
       [] OTHER -> sum[{p.vals[j] : j \in finite}]
InRange(t) == IF Special(t) \/ t \in -MaxFloat..MaxFloat THEN t ELSE Overflow

\* NaN if any value is NaN, else the value no other one beats.
Extreme(p, F, beats(_, _)) ==
  CASE NonNull(p, F) = {} -> Null
    [] \E j \in F : p.vals[j] = NaN -> NaN
    [] OTHER -> LET vs == {p.vals[j] : j \in NonNull(p, F)}
                IN  CHOOSE v \in vs : \A w \in vs : ~beats(w, v)

\* The k-th smallest of the non-NULL values, NaN counting as the smallest.
Ranked(p, F, k) ==
  LET vs == {p.vals[j] : j \in NonNull(p, F)}
      leq(v, w) == v = NaN \/ (v # NaN /\ w # NaN /\ v <= w)
      upTo(v) == Cardinality({j \in NonNull(p, F) : leq(p.vals[j], v)})
      below(v) == Cardinality({j \in NonNull(p, F) :
                                 leq(p.vals[j], v) /\ p.vals[j] # v})
  IN  CHOOSE v \in vs : below(v) < k /\ k <= upTo(v)

OneRowEach(p, F) == {j \in NonNull(p, F) :
                       \A k \in F : p.vals[k] = p.vals[j] => j <= k}

FrameResult(p, i) ==
  LET F == Frame(p, i)
      N == NonNull(p, F)
      n == Cardinality(N)
  IN [ array    |-> [k \in 1..Cardinality(F) |->
                       p.vals[CHOOSE j \in F : Cardinality({m \in F : m <= j}) = k]],
       countStar|-> Cardinality(F),
       count    |-> n,
       countif  |-> Cardinality(True(p, F)),
       first    |-> FirstOf(p, F),   firstIgnore |-> FirstOf(p, N),
       last     |-> LastOf(p, F),    lastIgnore  |-> LastOf(p, N),
       second   |-> SecondOf(p, F),  secondIgnore |-> SecondOf(p, N),
       or       |-> IF N = {} THEN Null ELSE True(p, F) # {},
       and      |-> IF N = {} THEN Null ELSE True(p, F) = N,
       min      |-> Extreme(p, F, LAMBDA v, w : v < w),
       max      |-> Extreme(p, F, LAMBDA v, w : v > w),
       sum      |-> IF N = {} THEN Null ELSE InRange(Total(p, N)),
       avg      |-> IF N = {} THEN Null ELSE [num |-> Total(p, N), den |-> n],
       distinct |-> Cardinality({p.vals[j] : j \in N}),
       sumDistinct |-> IF N = {} THEN Null ELSE InRange(Total(p, OneRowEach(p, F))),
       \* PERCENTILE_DISC(x, 0.5) and PERCENTILE_CONT(x, 0.5), which ignore NULLs.
       disc     |-> IF N = {} THEN Null ELSE Ranked(p, F, (n + 1) \div 2),
       cont     |-> IF N = {} THEN Null
                    ELSE [num |-> Plus(Ranked(p, F, (n + 1) \div 2),
                                       Ranked(p, F, (n + 2) \div 2)),
                          den |-> 2] ]

(***************************************************************************)
(* Row patterns.  Ways lists, in order of preference, the ways a pattern    *)
(* can match from a row on: where it ends and which variable each row is    *)
(* mapped to.  An alternative is preferred to those after it, a greedy      *)
(* quantifier prefers another round and a reluctant one prefers to stop; an *)
(* unbounded one takes no round that matches nothing.                      *)
(***************************************************************************)
RECURSIVE Ways(_, _, _), InTurn(_, _, _), Rounds(_, _, _, _)
Here(pos) == <<[end |-> pos, path |-> <<>>]>>
Continued(ways, rest(_)) ==
  FoldLeft(LAMBDA all, w :
             LET after == rest(w.end)
             IN  all \o [k \in DOMAIN after |->
                           [end |-> after[k].end, path |-> w.path \o after[k].path]],
           <<>>, ways)
InTurn(ps, rows, pos) ==
  IF ps = <<>> THEN Here(pos)
  ELSE Continued(Ways(ps[1], rows, pos), LAMBDA e : InTurn(Tail(ps), rows, e))
Rounds(p, k, rows, pos) ==
  LET unbounded == p.hi < 0
      round == SelectSeq(Ways(p.c[1], rows, pos),
                         LAMBDA w : unbounded /\ k >= p.lo => w.end > pos)
      more  == Continued(round, LAMBDA e : Rounds(p, k + 1, rows, e))
  IN  CASE k < p.lo -> more
        [] k >= p.lo /\ ~unbounded /\ k >= p.hi -> Here(pos)
        [] OTHER -> IF p.r THEN Here(pos) \o more ELSE more \o Here(pos)
Ways(p, rows, pos) ==
  CASE p.t = "v" -> IF pos < Len(rows) /\ p.v \in rows[pos + 1]
                    THEN <<[end |-> pos + 1, path |-> <<p.v>>]>> ELSE <<>>
    [] p.t = "empty" -> Here(pos)
    [] p.t = "start" -> IF pos = 0 THEN Here(pos) ELSE <<>>
    [] p.t = "end"   -> IF pos = Len(rows) THEN Here(pos) ELSE <<>>
    [] p.t = "cat"   -> InTurn(p.c, rows, pos)
    [] p.t = "alt"   -> FoldLeft(LAMBDA all, q : all \o Ways(q, rows, pos), <<>>, p.c)
    [] p.t = "q"     -> Rounds(p, 0, rows, pos)

NoMatch == [end |-> -1, path |-> <<>>]
\* The match that starts at row s, if any: the first, or the first longest.
Preferred(p, s) ==
  LET ways == Ways(p.c.pattern, p.vals, s)
      best == CHOOSE k \in DOMAIN ways :
                IF p.c.longest
                THEN /\ \A m \in DOMAIN ways : ways[m].end <= ways[k].end
                     /\ \A m \in 1..(k - 1) : ways[m].end < ways[k].end
                ELSE k = 1
  IN  IF ways = <<>> THEN NoMatch ELSE ways[best]

\* The memberships of row i, in the order of the matches.  A match is looked
\* for at row s unless s lies inside an earlier match, or wherever the search
\* is to go on at the next row.
MatchResult(p, i) ==
  LET rows == 0..(Len(p.vals) - 1)
      at == [s \in rows |-> Preferred(p, s)]
      searched[s \in rows] ==
        p.c.toNextRow \/ \A r \in 0..(s - 1) : searched[r] => at[r].end <= s
      starts == {s \in rows : searched[s] /\ at[s] # NoMatch}
      mine   == {s \in starts : IF at[s].end = s THEN s = i - 1
                                ELSE i - 1 \in s..(at[s].end - 1)}
      nth(k) == CHOOSE s \in mine : Cardinality({r \in mine : r <= s}) = k
      entry(s) == [mn  |-> Cardinality({r \in starts : r <= s}),
                   mrn |-> IF at[s].end = s THEN 0 ELSE i - s,
                   v   |-> IF at[s].end = s THEN 0 ELSE at[s].path[i - s]]
  IN  [k \in 1..Cardinality(mine) |-> entry(nth(k))]

Result(p, i) == IF p.c.unit = "match" THEN MatchResult(p, i) ELSE FrameResult(p, i)

-----------------------------------------------------------------------------
Init == WellFormed(part) /\ out = <<>>
Deliver == /\ Len(out) < Len(part.keys)
           /\ out' = Append(out, Result(part, Len(out) + 1))
           /\ UNCHANGED part
Spec == Init /\ [][Deliver]_<<part, out>>
=============================================================================
