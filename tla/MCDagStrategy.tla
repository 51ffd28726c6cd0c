--------------------------- MODULE MCDagStrategy ---------------------------
(***************************************************************************)
(* Instances of DagStrategy for TLC.  The graph is a chain a <- b <- c     *)
(* with c also needing a; four Jobs, the last an alias of c's.             *)
(***************************************************************************)
EXTENDS DagStrategy, TLC

CONSTANTS a, b, c, j1, j2, j3, j4, e1, e2

MCDrv == {a, b, c}
MCJob == {j1, j2, j3, j4}
MCInputs == (a :> {}) @@ (b :> {a}) @@ (c :> {a, b})
MCHeadDrv == (j1 :> a) @@ (j2 :> b) @@ (j3 :> c) @@ (j4 :> c)

MCOneEval  == [j \in MCJob |-> e1]
MCTwoEvals == (j1 :> e1) @@ (j2 :> e2) @@ (j3 :> e1) @@ (j4 :> e2)

MCNoCap == -1

(* The daemon's use: only head derivations, no closure.                    *)
MCNoClosure == [j \in MCJob |-> {{}}]

(* The use dag.rs is written for: every Job with its whole closure.        *)
MCFullClosure == [j \in MCJob |-> {MCInputs[MCHeadDrv[j]]}]
=============================================================================
