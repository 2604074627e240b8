------------------------------- MODULE MCStore -------------------------------
(***************************************************************************)
(* Store on small instances: record keys and verbs are interchangeable, so *)
(* their permutations are a symmetry of the model.                         *)
(***************************************************************************)
EXTENDS Store, TLC

Symmetric == Permutations(Keys) \cup Permutations(Verbs)
==============================================================================
