------------------------------ MODULE TagPool ------------------------------
(***************************************************************************)
(* What the scheduling strategies rely on of the queue below them: a pool  *)
(* of pending tags from which any one may be popped while the concurrency  *)
(* cap leaves room, and which forgets a popped tag when it is completed.   *)
(***************************************************************************)
EXTENDS Integers, FiniteSets

CONSTANTS
  Tag,     \* what a strategy enqueues: job ids or dispatch tokens
  Cap      \* concurrency cap; any value below 0 is the code's None

VARIABLES
  pool,    \* tags enqueued and neither popped nor removed
  busy     \* tags popped and not completed

HasRoom == Cap < 0 \/ Cardinality(busy) < Cap

PoolInit == pool = {} /\ busy = {}

Put(t) == pool' = pool \cup {t} /\ UNCHANGED busy

Take(t) ==
  /\ t \in pool
  /\ HasRoom
  /\ pool' = pool \ {t}
  /\ busy' = busy \cup {t}

Finish(t) == busy' = busy \ {t} /\ UNCHANGED pool

Drop(S) == pool' = pool \ S /\ UNCHANGED busy

PoolNext ==
  \/ \E t \in Tag : Put(t) \/ Take(t) \/ Finish(t)
  \/ \E S \in SUBSET Tag : Drop(S)

PoolSpec == PoolInit /\ [][PoolNext]_<<pool, busy>>
=============================================================================
