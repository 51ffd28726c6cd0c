---------------------------- MODULE DagStrategy ----------------------------
(***************************************************************************)
(* The dependency-aware scheduling strategy of argunix-sched (dag.rs): an  *)
(* in-memory graph of Steps, one per derivation, whose dispatch is gated   *)
(* on the completion of their in-graph inputs.                             *)
(*                                                                         *)
(* The weighted-fair queue underneath (wfq.rs) is seen through what it     *)
(* promises, module TagPool: a set of pending tags, any of which may be    *)
(* popped next, and a set of tags in flight.  Module Wfq shows that the    *)
(* queue keeps that promise; nothing here depends on which tag it picks.   *)
(*                                                                         *)
(* `token[d]' stands for the pair of maps the code keeps in step with each *)
(* other, Step::in_flight_token and token_to_drv: a tag t is known to the  *)
(* strategy iff t = token[d] for some d.                                   *)
(***************************************************************************)
EXTENDS Integers, Sequences, FiniteSets, Functions

CONSTANTS
  Drv,         \* derivation paths
  Job,         \* ids of top-level Jobs
  Eval,        \* ids of evaluations
  Inputs,      \* [Drv -> SUBSET Drv], DerivationInfo::input_drvs
  HeadDrv,     \* [Job -> Drv], ScheduleItem::head_drv
  EvalOf,      \* [Job -> Eval], ScheduleItem::eval_id
  Closures,    \* [Job -> SUBSET SUBSET Drv], the closures a Job may come with
  Cap,         \* concurrency cap; any value below 0 is the code's None
  LoadFirst    \* TRUE iff the caller enqueues everything before dispatching

ASSUME DrvFinite  == IsFiniteSet(Drv)
ASSUME InputsType == Inputs \in [Drv -> SUBSET Drv]
ASSUME JobTypes   == /\ HeadDrv \in [Job -> Drv]
                     /\ EvalOf \in [Job -> Eval]
                     /\ Closures \in [Job -> SUBSET SUBSET Drv]
ASSUME CapType    == Cap \in Int
ASSUME LoadFirstType == LoadFirst \in BOOLEAN

(* A derivation is built from derivations that exist before it.            *)
ASSUME InputsAcyclic ==
  \E rank \in [Drv -> 0 .. Cardinality(Drv)] :
    \A d \in Drv : \A i \in Inputs[d] : rank[i] < rank[d]

VARIABLES
  by_drv,           \* derivations that have a Step
  state,            \* [Drv -> StepState]
  deps_unfinished,  \* [Drv -> Nat]
  rdeps,            \* [Drv -> SUBSET Drv]
  head_jobs,        \* [Drv -> Seq(Job)]
  token,            \* [Drv -> Nat \cup {NoToken}]
  next_token,       \* DispatchToken counter
  job_meta,         \* Jobs the strategy tracks
  pending,          \* tags in the queue
  in_flight,        \* tags popped and not completed
  cancelling,       \* Jobs a running cancel_eval has still to visit
  enqueued,         \* history: JobIds handed to the strategy so far
  reports           \* history: [Job -> Nat], verdicts handed to the caller

graph == <<by_drv, deps_unfinished, rdeps>>
queue == <<pending, in_flight>>
vars  == <<by_drv, state, deps_unfinished, rdeps, head_jobs, token, next_token,
           job_meta, pending, in_flight, cancelling, enqueued, reports>>

NoToken == -1

Successful == {"Success", "Cached"}
Failed     == {"Failure", "Cancelled", "Skipped"}
Terminal   == Successful \cup Failed
StepState  == {"Pending", "Ready", "Running"} \cup Terminal

(* What `complete' may be told: the terminal JobStatus values, and         *)
(* Interrupted, the give-up of build_one.                                  *)
Reportable == {"Success", "Cached", "Failure", "Cancelled",
               "SkippedNoBuilder", "Interrupted"}

(* Slip: statuses are stored unmapped.                                     *)
from_status_raw(s) == s

from_status(s) ==
  CASE s = "SkippedNoBuilder" -> "Skipped"
    [] s = "Interrupted"      -> "Failure"
    [] OTHER                  -> s

Live == {token[d] : d \in by_drv} \ {NoToken}

Once(S) == [j \in Job |-> IF j \in S THEN 1 ELSE 0]
-----------------------------------------------------------------------------
(* Slip: the terminal-state check of the cascade is forgotten.             *)
Open_all(st, S) == S

(* The Steps that `cascade_skip' reaches from `from': the least set that   *)
(* holds the non-terminal dependents of `from' and of its own members.     *)
Open(st, S) == {x \in S : st[x] \notin Terminal}

CascadeClosed(st, from, S) ==
  /\ Open(st, rdeps[from]) \subseteq S
  /\ \A x \in S : Open(st, rdeps[x]) \subseteq S

(* Slip: nothing is skipped.                                               *)
cascade_skip_none(st, from) == {}

cascade_skip(st, from) ==
  {x \in by_drv : \A S \in SUBSET by_drv : CascadeClosed(st, from, S) => x \in S}

(* Slip: a cascade reports no Job.                                         *)
SkippedJobs_none(S) == {}

(* The Jobs a cascade over S reports.                                      *)
SkippedJobs(S) == {j \in job_meta : \E x \in S : j \in Range(head_jobs[x])}

(* Slip: off by one in the readiness test.                                 *)
ReadySteps_early(known, st, unfinished) ==
  {d \in known : st[d] = "Pending" /\ unfinished[d] <= 1}

(* The Steps that wait for nothing.                                        *)
ReadySteps(known, st, unfinished) ==
  {d \in known : st[d] = "Pending" /\ unfinished[d] = 0}

(* promote_ready_steps, over the graph the calling operation has built so  *)
(* far.  HashMap iteration decides which Step gets which fresh token.      *)
promote_ready_steps(known, st, unfinished, tok) ==
  LET ready == ReadySteps(known, st, unfinished)
      fresh == next_token .. (next_token + Cardinality(ready) - 1)
  IN  \E mint \in Injection(ready, fresh) :
        /\ state' = [d \in Drv |-> IF d \in ready THEN "Ready" ELSE st[d]]
        /\ token' = [d \in Drv |-> IF d \in ready THEN mint[d] ELSE tok[d]]
        /\ next_token' = next_token + Cardinality(ready)
        /\ pending' = pending \cup {mint[d] : d \in ready}
-----------------------------------------------------------------------------
Init ==
  /\ by_drv = {}
  /\ state = [d \in Drv |-> "Pending"]
  /\ deps_unfinished = [d \in Drv |-> 0]
  /\ rdeps = [d \in Drv |-> {}]
  /\ head_jobs = [d \in Drv |-> <<>>]
  /\ token = [d \in Drv |-> NoToken]
  /\ next_token = 0
  /\ job_meta = {}
  /\ pending = {}
  /\ in_flight = {}
  /\ cancelling = {}
  /\ enqueued = {}
  /\ reports = [j \in Job |-> 0]

(* Nothing has been dispatched or cancelled yet.                           *)
Loading == \A d \in by_drv : state[d] \in {"Pending", "Ready"}

(* Slip: inputs that have succeeded already are counted.                   *)
build_edges_counting(new, known) == [d \in new |-> Inputs[d] \cap known]

(* Slip: inputs that were in the graph before get no edge.                 *)
build_edges_inside(new, known) ==
  [d \in new |-> {i \in Inputs[d] \cap new : state[i] \notin Successful}]

(* The edges of the Steps an `enqueue' inserts: inputs that are in the     *)
(* graph by then and have not succeeded already.                           *)
build_edges_for(new, known) ==
  [d \in new |-> {i \in Inputs[d] \cap known : state[i] \notin Successful}]

enqueue(j, closure) ==
  LET new   == ({HeadDrv[j]} \cup closure) \ by_drv
      known == by_drv \cup new
      edges == build_edges_for(new, known)
      unfinished == [d \in Drv |-> IF d \in new THEN Cardinality(edges[d])
                                                ELSE deps_unfinished[d]]
  IN  /\ cancelling = {}
      /\ LoadFirst => Loading
      /\ j \notin enqueued
      /\ enqueued' = enqueued \cup {j}
      /\ job_meta' = job_meta \cup {j}
      /\ by_drv' = known
      /\ head_jobs' = [head_jobs EXCEPT ![HeadDrv[j]] = Append(@, j)]
      /\ deps_unfinished' = unfinished
      /\ rdeps' = [i \in Drv |-> rdeps[i] \cup {d \in new : i \in edges[d]}]
      /\ promote_ready_steps(known, state, unfinished, token)
      /\ UNCHANGED <<in_flight, cancelling, reports>>

(* WfqCore::dispatch refuses when the cap is reached.                      *)
HasRoom == Cap < 0 \/ Cardinality(in_flight) < Cap

(* `dispatch' returns the Step of d, having swallowed the stale tags the   *)
(* queue handed out first.                                                 *)
dispatch(d, stale) ==
  /\ cancelling = {}
  /\ HasRoom
  /\ token[d] \in pending
  /\ state' = [state EXCEPT ![d] = "Running"]
  /\ pending' = pending \ (stale \cup {token[d]})
  /\ in_flight' = in_flight \cup {token[d]}
  /\ UNCHANGED <<graph, head_jobs, token, next_token, job_meta, cancelling,
                 enqueued, reports>>

(* `dispatch' returns None after swallowing nothing but stale tags.        *)
dispatch_none ==
  /\ cancelling = {}
  /\ HasRoom
  /\ pending # {}
  /\ pending \cap Live = {}
  /\ pending' = {}
  /\ UNCHANGED <<graph, state, head_jobs, token, next_token, job_meta,
                 in_flight, cancelling, enqueued, reports>>

(* Slip: the aliases are forgotten.                                        *)
CompletedJobs_primary(d) == {head_jobs[d][1]}

(* The Jobs of d's Step that `complete' has the caller finalise: the       *)
(* primary, which the caller got from `dispatch', and the tracked aliases. *)
CompletedJobs(d) ==
  {head_jobs[d][i] : i \in {k \in DOMAIN head_jobs[d] :
                               k = 1 \/ head_jobs[d][k] \in job_meta}}

(* Slip: the dependents are not counted down.                              *)
Released_lost(d) == deps_unfinished

(* One unfinished input less for each dependent of d.                      *)
Released(d) ==
  [x \in Drv |-> IF x \in rdeps[d] /\ deps_unfinished[x] > 0
                 THEN deps_unfinished[x] - 1 ELSE deps_unfinished[x]]

complete(d, status) ==
  LET st == [state EXCEPT ![d] = from_status(status)]
      ok == st[d] \in Successful
      unfinished == Released(d)
      skipped == cascade_skip(st, d)
      tok == [token EXCEPT ![d] = NoToken]
  IN  /\ cancelling = {}
      /\ token[d] \in in_flight
      /\ in_flight' = in_flight \ {token[d]}
      /\ \/ /\ ok
            /\ deps_unfinished' = unfinished
            /\ promote_ready_steps(by_drv, st, unfinished, tok)
            /\ reports' = [j \in Job |-> reports[j] + Once(CompletedJobs(d))[j]]
         \/ /\ ~ok
            /\ state' = [x \in Drv |-> IF x \in skipped THEN "Skipped" ELSE st[x]]
            /\ token' = [x \in Drv |-> IF x \in skipped THEN NoToken ELSE tok[x]]
            /\ reports' = [j \in Job |-> reports[j] + Once(CompletedJobs(d))[j]
                                                    + Once(SkippedJobs(skipped))[j]]
            /\ UNCHANGED <<deps_unfinished, next_token, pending>>
      /\ UNCHANGED <<by_drv, rdeps, head_jobs, job_meta, cancelling, enqueued>>
-----------------------------------------------------------------------------
(* cancel_eval is one call; its loop over the tracked Jobs of the eval is  *)
(* taken one Job at a time, in any order (job_meta is a HashMap), and      *)
(* every other operation waits until the loop is over.                     *)
cancel_eval(e) ==
  /\ cancelling = {}
  /\ cancelling' = {j \in job_meta : EvalOf[j] = e}
  /\ UNCHANGED <<graph, state, head_jobs, token, next_token, job_meta, queue,
                 enqueued, reports>>

LinkedTo(j, d) == d \in by_drv /\ j \in Range(head_jobs[d])

(* The head Step has not been dispatched: it and its dependents go.        *)
cancel_waiting(j, d) ==
  LET st == [state EXCEPT ![d] = "Cancelled"]
      skipped == cascade_skip(st, d)
  IN  /\ LinkedTo(j, d)
      /\ state[d] \in {"Pending", "Ready"}
      /\ state' = [x \in Drv |-> IF x \in skipped THEN "Skipped" ELSE st[x]]
      /\ token' = [x \in Drv |-> IF x \in skipped \cup {d} THEN NoToken ELSE token[x]]
      /\ head_jobs' = [head_jobs EXCEPT ![d] = <<>>]
      /\ reports' = [k \in Job |-> reports[k] + Once(Range(head_jobs[d]))[k]
                                              + Once(SkippedJobs(skipped))[k]]

(* The head Step is running or over: only the Job's metadata goes.         *)
cancel_started(j, d) ==
  /\ LinkedTo(j, d)
  /\ state[d] \notin {"Pending", "Ready"}
  /\ UNCHANGED <<state, token, head_jobs, reports>>

(* No Step is linked to the Job any more.                                  *)
cancel_unlinked(j) ==
  /\ \A d \in by_drv : ~LinkedTo(j, d)
  /\ reports' = [reports EXCEPT ![j] = @ + 1]
  /\ UNCHANGED <<state, token, head_jobs>>

cancel_job(j) ==
  /\ cancelling' = cancelling \ {j}
  /\ job_meta' = job_meta \ {j}
  /\ \/ \E d \in Drv : cancel_waiting(j, d)
     \/ \E d \in Drv : cancel_started(j, d)
     \/ cancel_unlinked(j)
  /\ UNCHANGED <<graph, next_token, queue, enqueued>>
-----------------------------------------------------------------------------
Next ==
  \/ \E j \in Job : \E closure \in Closures[j] : enqueue(j, closure)
  \/ \E d \in by_drv : \E stale \in SUBSET (pending \ Live) : dispatch(d, stale)
  \/ dispatch_none
  \/ \E d \in by_drv : \E status \in Reportable : complete(d, status)
  \/ \E e \in Eval : cancel_eval(e)
  \/ \E j \in cancelling : cancel_job(j)

Spec == Init /\ [][Next]_vars
-----------------------------------------------------------------------------
TypeOK ==
  /\ by_drv \subseteq Drv
  /\ state \in [Drv -> StepState]
  /\ deps_unfinished \in [Drv -> Nat]
  /\ rdeps \in [Drv -> SUBSET Drv]
  /\ head_jobs \in [Drv -> Seq(Job)]
  /\ token \in [Drv -> Nat \cup {NoToken}]
  /\ next_token \in Nat
  /\ job_meta \subseteq enqueued
  /\ pending \subseteq Nat
  /\ in_flight \subseteq Nat
  /\ cancelling \subseteq job_meta
  /\ enqueued \subseteq Job
  /\ reports \in [Job -> Nat]

(* The in-graph inputs a Step waits for: those it has an edge from.        *)
EdgeDeps(d) == {x \in by_drv : d \in rdeps[x]}

(* A Step that was handed to the queue, to a builder, or that a build has  *)
(* decided, had every dependency it has an edge to built successfully      *)
(* (dag.rs:6-9, dispatch gated on dependency completion).                  *)
Gated ==
  \A d \in by_drv : state[d] \in {"Ready", "Running", "Failure"} \cup Successful
                       => \A x \in EdgeDeps(d) : state[x] \in Successful

(* deps_unfinished counts exactly the edges that still hold a Step back,   *)
(* through every interleaving of enqueue, complete and cancel_eval: the    *)
(* saturating_sub of `complete' never has to saturate, and no edge is      *)
(* counted down twice or left uncounted.                                   *)
CountExact ==
  \A d \in by_drv : deps_unfinished[d]
                       = Cardinality({x \in EdgeDeps(d) : state[x] \notin Successful})

(* Every dependency that is in the graph gates, not only those with an     *)
(* edge: a Step runs only when all its in-graph inputs have succeeded      *)
(* (dag.rs:6-9).  Needs every Job to be enqueued with its whole closure.   *)
GatedOnGraph ==
  \A d \in by_drv : state[d] = "Running"
                       => \A x \in Inputs[d] \cap by_drv : state[x] \in Successful

(* When a Step fails, is cancelled or is skipped, no dependent of it is    *)
(* left waiting or is ever built: the cascade reaches all of them.         *)
FailurePropagates ==
  LoadFirst => \A x \in by_drv : state[x] \in Failed
                                   => \A d \in rdeps[x] : state[d] \in Failed

(* What the worker's termination test relies on (worker.rs:928): when the  *)
(* queue is empty and nothing is in flight, every Step has been decided;   *)
(* no Step is stranded behind a dependency that will never complete.       *)
DrainedMeansDone ==
  (LoadFirst /\ pending = {} /\ in_flight = {} /\ cancelling = {})
    => \A d \in by_drv : state[d] \in Terminal

Unaliased(j) == \A k \in Job \ {j} : HeadDrv[k] # HeadDrv[j]

(* Every Job is reported to the caller exactly once, at the moment its     *)
(* head Step is decided: by its own completion, as an alias, or as a skip. *)
(* With cancel_eval in play this is so for Jobs that share no derivation.  *)
VerdictExactlyOnce ==
  LoadFirst => \A j \in enqueued :
    (Unaliased(j) \/ job_meta = enqueued)
      => reports[j] = IF state[HeadDrv[j]] \in Terminal THEN 1 ELSE 0

(* A derivation is realised at most once and its verdict stands: a Step    *)
(* never leaves a terminal state, and a running Step is decided by its own *)
(* completion only, never skipped or cancelled underneath the builder.     *)
StepForward(d) ==
  /\ state[d] \in Terminal => state'[d] = state[d]
  /\ state[d] = "Running" => \/ state'[d] = "Running"
                             \/ state'[d] \in Terminal /\ token[d] \notin in_flight'
RealisedOnce == [][\A d \in Drv : StepForward(d)]_vars
=============================================================================
