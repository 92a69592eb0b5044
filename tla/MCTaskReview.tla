---------------------------- MODULE MCTaskReview ----------------------------
(* TaskReview on small instances: completions and request slots are model  *)
(* values and interchangeable, so safety runs identify their permutations. *)
EXTENDS TaskReview, TLC

Symmetry == Permutations(Completions) \cup Permutations(Requests)
=============================================================================
