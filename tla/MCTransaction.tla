-------------------------- MODULE MCTransaction --------------------------
(* Finite instances of Transaction for TLC.                                *)
EXTENDS Transaction, TLC

\* Writes differ in nothing.
MCSymmetry == Permutations(Writes)
=============================================================================
