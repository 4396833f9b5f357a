----------------------------- MODULE MCSessions -----------------------------
(* Instances of Sessions: each table is altered by one session at most. *)
EXTENDS Sessions

CONSTANTS s1, s2, s3, a, b, c, x, y

Use(k, t) == [kind |-> k, table |-> t, adds |-> <<>>, skip |-> FALSE]
Add(t, cs, skip) == [kind |-> "alter", table |-> t, adds |-> cs, skip |-> skip]

MCStatements ==
    [s \in Sessions |->
        CASE s = s1 -> {Add(a, <<x, y>>, FALSE), Add(a, <<x>>, TRUE)}
          [] s = s2 -> {Add(b, <<x>>, FALSE)}
          [] OTHER  -> {Use("select", a), Use("dml", c), Use("info", a)}]

MCMaxStmts == [s \in Sessions |-> IF s = s1 THEN 2 ELSE 1]
=============================================================================
