---------------------------- MODULE MCBuildPhase ----------------------------
(***************************************************************************)
(* Instances of BuildPhase for TLC: two derivations, b built from a; the   *)
(* job of a and two jobs that are aliases of b, one of which may fail to   *)
(* evaluate.                                                               *)
(***************************************************************************)
EXTENDS BuildPhase, TLC

CONSTANTS a, b, j1, j2, j3, e1

MCDrv     == {a, b}
MCJob     == {j1, j2, j3}
MCInputs  == (a :> {}) @@ (b :> {a})
MCHeadDrv == (j1 :> a) @@ (j2 :> b) @@ (j3 :> b)
MCEvalOf  == [j \in MCJob |-> e1]
MCClosures == [j \in MCJob |-> {{}}]
MCNoCap   == -1
=============================================================================
