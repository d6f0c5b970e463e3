----------------------------- MODULE MCSimLoop -----------------------------
(* Small instances of SimLoop for TLC.                                     *)
EXTENDS SimLoop, TLC

Symmetry == Permutations(Handles)
=============================================================================
