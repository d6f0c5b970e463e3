------------------------------ MODULE MCRunner ------------------------------
(* Small runs: tasks are model values.                                       *)
EXTENDS Runner, TLC

Symmetry == Permutations(Workers)
=============================================================================
