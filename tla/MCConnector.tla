---------------------------- MODULE MCConnector ----------------------------
(* Finite instances of Connector for TLC.                                  *)
EXTENDS Connector, TLC

\* The sets are interchangeable in every action and property.
MCSymmetry == Permutations(Connectors) \cup Permutations(Conns) \cup Permutations(Inners)
=============================================================================
