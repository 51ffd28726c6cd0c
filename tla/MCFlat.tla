------------------------------- MODULE MCFlat -------------------------------
(* An instance of FlatStrategy for TLC: four Jobs of two repositories and  *)
(* two evaluations; a configured weight of 0 is raised to 1.               *)
EXTENDS FlatStrategy, TLC

CONSTANTS r1, r2, t1, t2, t3, t4, e1, e2

MCRepoOf == (t1 :> r1) @@ (t2 :> r1) @@ (t3 :> r1) @@ (t4 :> r2)
MCEvalOf == (t1 :> e1) @@ (t2 :> e1) @@ (t3 :> e2) @@ (t4 :> e1)
=============================================================================
