----------------------------- MODULE MCScript -----------------------------
(* Finite instances of Script for TLC.                                     *)
EXTENDS Script, TLC

\* No action or property compares a definition with a constant.
MCSymmetry == Permutations(Bodies)
=============================================================================
