------------------------- MODULE MCStatementClock -------------------------
(* Finite instances of StatementClock for TLC.                             *)
EXTENDS StatementClock, TLC

\* The sets are interchangeable in every action and property.
MCSymmetry == Permutations(Conns) \cup Permutations(InnerConns) \cup Permutations(Stmts)
=============================================================================
