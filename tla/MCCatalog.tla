----------------------------- MODULE MCCatalog -----------------------------
(* Finite instances of Catalog for TLC.                                    *)
EXTENDS Catalog, TLC

\* Two tables that share the short name "t".
MCPaths == {<<"d1", "t">>, <<"d2", "t">>}

\* Instances are interchangeable in every action and property.
MCSymmetry == Permutations(Instances)
=============================================================================
