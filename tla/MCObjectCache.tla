---------------------------- MODULE MCObjectCache ----------------------------
(* Instances of ObjectCache for TLC; the runs are interchangeable.          *)
EXTENDS ObjectCache, TLC

RunSymmetry == Permutations(Run)
=============================================================================
