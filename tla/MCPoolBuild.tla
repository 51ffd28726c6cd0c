---------------------------- MODULE MCPoolBuild ----------------------------
(* Small instances of PoolBuild.                                           *)
EXTENDS PoolBuild, TLC

CONSTANTS n, e, j1, j2

MCMaxJobs == [b \in Builder |-> 1]
MCCapable == [k \in Job |-> Builder]

(* Bound of the run with two Jobs: they compete on the first connection,   *)
(* and the next one is accepted when j1 is done.  The Jobs are alike, so   *)
(* that this stands for `when either is done'.  Connections are owed to    *)
(* nobody, and so the fairness conditions are those of PoolFairSpec.       *)
Reconnect == \E k \in Conn \ {1} : stage[k] = "unborn" /\ stage'[k] # "unborn"
DuelNext  == PoolNext /\ (Reconnect => At(j1, "done"))
DuelSpec  == PoolInit /\ [][DuelNext]_poolvars /\ PoolFairness
=============================================================================
