--------------------------- MODULE MCEntryLifetime ---------------------------
(* An instance of EntryLifetime for TLC: one account that two flows may    *)
(* claim, a promoted key and one that is not.                              *)
EXTENDS EntryLifetime, TLC

CONSTANTS f1, f2

MCFlows  == {f1, f2}
Symmetry == Permutations(MCFlows)
=============================================================================
