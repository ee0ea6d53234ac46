----------------------------- MODULE MCAicModel -----------------------------
(* Small instances of AicModel. *)
EXTENDS AicModel, TLC

\* Goals are interchangeable: nothing in AicModel orders them.
GoalSymmetry == Permutations(Goals)
=============================================================================
