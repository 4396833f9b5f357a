---------------------------- MODULE WindowClause ----------------------------
(***************************************************************************)
(* The OVER clause of a window function, the order of its rows and the frame *)
(* each row asks for.  Frames are defined by distances between keys, so that *)
(* nothing here depends on how the engine finds them.                       *)
(*                                                                         *)
(* Numbers stand for DOUBLE values: the finite ones are -MaxFloat..MaxFloat *)
(* and far beyond them lie the infinities.  Null and NaN are values of      *)
(* their own.                                                              *)
(***************************************************************************)
EXTENDS Integers, Sequences

CONSTANTS Null,         \* SQL NULL
          NaN,          \* DOUBLE NaN
          Overflow,     \* the result of a call that fails with an overflow
          MaxFloat,     \* the largest finite DOUBLE
          PosInf,       \* DOUBLE +inf, an integer beyond every sum of finite values
          Keys,         \* the ORDER BY keys that occur
          RangeOffset,  \* the offset of a RANGE boundary
          Values,       \* the argument values that occur, for each unit
          Sizes,        \* the partition sizes that occur, for each unit
          Patterns      \* the row patterns that occur

NegInf == -PosInf
Special(x) == x \in {Null, NaN, PosInf, NegInf}

(***************************************************************************)
(* The frame clause: the offsets of a ROWS frame are 1, those of a RANGE     *)
(* frame RangeOffset.  A start may not lie after its end.                   *)
(***************************************************************************)
Starts == {"unboundedPreceding", "preceding", "current", "following"}
Ends   == {"preceding", "current", "following", "unboundedFollowing"}
Offset(b) == [preceding |-> -1, current |-> 0, following |-> 1][b]
FrameClauses ==
  {c \in [unit : {"rows", "range"}, start : Starts, end : Ends,
          desc : BOOLEAN, nullsLast : BOOLEAN] :
     \/ c.start = "unboundedPreceding"
     \/ c.end = "unboundedFollowing"
     \/ Offset(c.start) <= Offset(c.end)}

\* MATCH_RECOGNIZE: the pattern, where to go on after a match, and which of
\* the possible matches to take.
MatchClauses == [unit : {"match"}, pattern : Patterns,
                 toNextRow : BOOLEAN, longest : BOOLEAN]
Clauses == FrameClauses \cup MatchClauses

\* The order the ORDER BY clause asks for: NULLs at one end, NaN before every
\* number when ascending.
Level(k, c) == CASE k = Null -> IF c.nullsLast THEN 2 ELSE -2
                 [] k = NaN  -> IF c.desc THEN 1 ELSE -1
                 [] OTHER    -> 0
Before(a, b, c) ==
  \/ Level(a, c) < Level(b, c)
  \/ /\ Level(a, c) = 0 /\ Level(b, c) = 0
     /\ IF c.desc THEN b < a ELSE a < b

\* The rows arrive in that order; only a RANGE frame looks at the keys.
WellFormed(p) ==
  /\ p.c \in Clauses
  /\ \E n \in Sizes[p.c.unit] : /\ p.keys \in [1..n -> Keys]
                                /\ p.vals \in [1..n -> Values[p.c.unit]]
  /\ IF p.c.unit # "range"
     THEN /\ \A j \in DOMAIN p.keys : p.keys[j] = 0
          /\ p.c.unit = "rows" => ~p.c.desc /\ ~p.c.nullsLast
     ELSE \A j \in DOMAIN p.keys \ {1} : ~Before(p.keys[j], p.keys[j - 1], p.c)

(***************************************************************************)
(* The frame of row i.  A ROWS frame counts rows.  A RANGE frame measures   *)
(* key distance in sort direction between finite keys; a NULL, NaN or       *)
(* infinite key is at no distance from anything but its peers, so only      *)
(* which of the two comes first decides.                                   *)
(***************************************************************************)
Distance(p, i, j) == IF p.c.desc THEN p.keys[i] - p.keys[j]
                                 ELSE p.keys[j] - p.keys[i]
Measurable(p, i, j) == ~Special(p.keys[i]) /\ ~Special(p.keys[j])

Reached(p, i, j) ==
  \/ p.c.start = "unboundedPreceding"
  \/ /\ p.c.start # "unboundedPreceding"
     /\ IF p.c.unit = "rows" THEN j - i >= Offset(p.c.start)
        ELSE IF Measurable(p, i, j) THEN Distance(p, i, j) >= RangeOffset * Offset(p.c.start)
        ELSE ~Before(p.keys[j], p.keys[i], p.c)
NotPassed(p, i, j) ==
  \/ p.c.end = "unboundedFollowing"
  \/ /\ p.c.end # "unboundedFollowing"
     /\ IF p.c.unit = "rows" THEN j - i <= Offset(p.c.end)
        ELSE IF Measurable(p, i, j) THEN Distance(p, i, j) <= RangeOffset * Offset(p.c.end)
        ELSE ~Before(p.keys[i], p.keys[j], p.c)

Frame(p, i) == {j \in DOMAIN p.keys : Reached(p, i, j) /\ NotPassed(p, i, j)}

\* a + b as a DOUBLE operation whose finite results stay in range.
Plus(a, b) == CASE NaN \in {a, b} \/ {a, b} = {NegInf, PosInf} -> NaN
                [] NaN \notin {a, b} /\ {a, b} # {NegInf, PosInf}
                   /\ ({a, b} \cap {NegInf, PosInf} # {}) ->
                     IF PosInf \in {a, b} THEN PosInf ELSE NegInf
                [] OTHER -> a + b
=============================================================================
