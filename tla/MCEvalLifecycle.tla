-------------------------- MODULE MCEvalLifecycle --------------------------
(***************************************************************************)
(* Instances of EvalLifecycle for TLC.                                     *)
(***************************************************************************)
EXTENDS EvalLifecycle, TLC

CONSTANTS s1, s2, pr, h1, h2

Symmetry == Permutations(Handler) \cup Permutations(Sha)
=============================================================================
