---------------------------- MODULE MCArrayStore ----------------------------
(* Constants for checking ArrayStore. Rows, keys and contents are alike: *)
(* the code only compares them. *)
EXTENDS ArrayStore, TLC

Symmetry ==
    Permutations(SourceRows) \cup Permutations(Keys) \cup Permutations(Values)
=============================================================================
