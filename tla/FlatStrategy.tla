---------------------------- MODULE FlatStrategy ----------------------------
(***************************************************************************)
(* The flat strategy of argunix-sched (flat.rs): the weighted-fair queue   *)
(* with job ids as tags, no dependency gating.                             *)
(***************************************************************************)
EXTENDS Wfq

CONSTANTS
  RepoOf,   \* [Tag -> Repo], ScheduleItem::repo_id
  EvalOf    \* [Tag -> evaluation], ScheduleItem::eval_id

VARIABLES
  items,     \* keys of the `pending' map: Jobs with a FlatPending entry
  tokens,    \* in_flight_token_to_job, a set of <<token, job>> pairs
  next_token,
  submitted, \* history: Jobs enqueued so far
  closed     \* history: [Tag -> Nat], completions and skips reported

flatVars == <<vars, items, tokens, next_token, submitted, closed>>

FlatInit ==
  /\ Init
  /\ items = {}
  /\ tokens = {}
  /\ next_token = 0
  /\ submitted = {}
  /\ closed = [j \in Tag |-> 0]

FlatEnqueue(j) ==
  /\ j \notin submitted
  /\ enqueue(RepoOf[j], j)
  /\ items' = items \cup {j}
  /\ submitted' = submitted \cup {j}
  /\ UNCHANGED <<tokens, next_token, closed>>

FlatDispatch(r) ==
  /\ dispatch(r)
  /\ tokens' = tokens \cup {<<next_token, queues[r][1].tag>>}
  /\ next_token' = next_token + 1
  /\ UNCHANGED <<items, submitted, closed>>

FlatComplete(token, j) ==
  /\ tokens' = tokens \ {<<token, j>>}
  /\ items' = items \ {j}
  /\ complete(j)
  /\ closed' = [closed EXCEPT ![j] = @ + 1]
  /\ UNCHANGED <<next_token, submitted>>

(* Slip: Jobs in flight are dropped too.                                   *)
Removable_all(e) == {j \in items : EvalOf[j] = e}

(* The Jobs of the eval that are still in the queue.                       *)
Removable(e) == {j \in PendingTags \cap items : EvalOf[j] = e}

FlatCancelEval(e) ==
  LET removed == Removable(e)
  IN  /\ cancel_pending(removed)
      /\ items' = items \ removed
      /\ closed' = [j \in Tag |-> closed[j] + IF j \in removed THEN 1 ELSE 0]
      /\ UNCHANGED <<tokens, next_token, submitted>>

FlatNext ==
  \/ \E r \in Repo, w \in Weights :
       set_weight(r, w) /\ UNCHANGED <<items, tokens, next_token, submitted, closed>>
  \/ \E j \in Tag : FlatEnqueue(j)
  \/ \E r \in Repo : FlatDispatch(r)
  \/ \E p \in tokens : FlatComplete(p[1], p[2])
  \/ \E e \in {EvalOf[j] : j \in Tag} : FlatCancelEval(e)

FlatSpec == FlatInit /\ [][FlatNext]_flatVars
-----------------------------------------------------------------------------
(* Whatever the queue hands out has its metadata: the `expect' in dispatch *)
(* (flat.rs:88-92) cannot fail, cancellation included.                     *)
PoppedHasEntry == PendingTags \cup RunningTags \subseteq items

(* A Job is tracked until it has been reported, and reported once: by its  *)
(* own completion or as a skip of cancel_eval, never by both.              *)
ClosedOnce ==
  \A j \in submitted : closed[j] = IF j \in items THEN 0 ELSE 1
=============================================================================
