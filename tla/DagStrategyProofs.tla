------------------------- MODULE DagStrategyProofs -------------------------
(***************************************************************************)
(* Proofs about DagStrategy for every graph of derivations, every set of   *)
(* Jobs and every order of calls.  The inductive invariant IInv ties the   *)
(* three views the code keeps of a Step together: its state, its token and *)
(* where the token is in the queue, and its count of unfinished inputs.    *)
(***************************************************************************)
EXTENDS DagStrategy, FiniteSetTheorems, WellFoundedInduction, TLAPS

(* Derivations without a Step are blank, edges run between Steps, from an  *)
(* input to its user.                                                      *)
GraphOK ==
  /\ \A d \in Drv \ by_drv : state[d] = "Pending" /\ rdeps[d] = {}
  /\ \A x \in Drv : rdeps[x] \subseteq by_drv
  /\ \A x \in Drv : \A d \in rdeps[x] : x \in Inputs[d]

(* A Step has a token exactly while it is queued or running, the queue has *)
(* it accordingly, and no two Steps ever share one.                        *)
TokensFor(st, tok, next, queued, running) ==
  /\ \A d \in Drv : tok[d] # NoToken <=> st[d] \in {"Ready", "Running"}
  /\ \A d \in Drv : tok[d] < next
  /\ \A d, x \in Drv : tok[d] = tok[x] /\ tok[d] # NoToken => d = x
  /\ \A d \in Drv : st[d] = "Ready" => tok[d] \in queued
  /\ \A d \in Drv : st[d] = "Running" => tok[d] \in running
  /\ queued \cap running = {}
  /\ \A t \in queued \cup running : t < next

TokensOK == TokensFor(state, token, next_token, pending, in_flight)

(* Whoever was let go has no unfinished input; whoever waits has one.      *)
CountsOK ==
  /\ CountExact
  /\ \A d \in by_drv : state[d] \in {"Ready", "Running", "Failure"} \cup Successful
                         => deps_unfinished[d] = 0
  /\ \A d \in by_drv : state[d] = "Pending" => deps_unfinished[d] > 0

IInv == TypeOK /\ GraphOK /\ TokensOK /\ CountsOK

(* Edges into a Step come from finitely many derivations.                  *)
LEMMA EdgesFinite ==
  ASSUME TypeOK, NEW d, NEW S, S \subseteq EdgeDeps(d)
  PROVE  IsFiniteSet(S) /\ Cardinality(S) \in Nat
<1>1. S \in SUBSET Drv
  BY DEF TypeOK, EdgeDeps
<1>2. IsFiniteSet(S)
  BY <1>1, FS_Subset, DrvFinite
<1> QED
  BY <1>2, FS_CardinalityType

(* Dispatch is gated: what the counter says is what the graph says         *)
(* (dag.rs:6-9).                                                           *)
LEMMA GatedByCount ==
  ASSUME IInv
  PROVE  Gated
<1> SUFFICES ASSUME NEW d \in by_drv,
                    state[d] \in {"Ready", "Running", "Failure"} \cup Successful,
                    NEW x \in EdgeDeps(d)
             PROVE  state[x] \in Successful
  BY DEF Gated
<1> DEFINE U == {y \in EdgeDeps(d) : state[y] \notin Successful}
<1>1. IsFiniteSet(U)
  BY EdgesFinite DEF IInv
<1>2. Cardinality(U) = 0
  BY DEF IInv, CountsOK, CountExact
<1>3. U = {}
  BY <1>1, <1>2, FS_EmptySet
<1> QED
  BY <1>3

(* A Step that has not succeeded holds all its dependents back.            *)
LEMMA HoldsBack ==
  ASSUME IInv, NEW x \in by_drv, state[x] \notin Successful, NEW d \in rdeps[x]
  PROVE  d \in by_drv /\ state[d] \in {"Pending", "Cancelled", "Skipped"}
<1>1. d \in by_drv /\ x \in EdgeDeps(d)
  BY DEF IInv, TypeOK, GraphOK, EdgeDeps
<1>2. state[d] \in StepState
  BY <1>1 DEF IInv, TypeOK
<1>3. state[d] \notin {"Ready", "Running", "Failure"} \cup Successful
  BY <1>1, GatedByCount DEF Gated
<1> QED
  BY <1>1, <1>2, <1>3 DEF StepState, Terminal, Failed, Successful

(* cascade_skip is the least set closed under open dependents: it is       *)
(* itself closed, ...                                                      *)
LEMMA CascadeIsClosed ==
  ASSUME TypeOK, GraphOK, NEW st, NEW from \in Drv
  PROVE  CascadeClosed(st, from, cascade_skip(st, from))
<1> DEFINE C == cascade_skip(st, from)
<1>1. ASSUME NEW x \in Open(st, rdeps[from]) PROVE x \in C
  BY <1>1 DEF cascade_skip, CascadeClosed, Open, GraphOK
<1>2. ASSUME NEW y \in C, NEW x \in Open(st, rdeps[y]) PROVE x \in C
  <2>1. y \in by_drv /\ y \in Drv /\ x \in by_drv
    BY <1>2 DEF cascade_skip, TypeOK, GraphOK, Open
  <2>2. ASSUME NEW S \in SUBSET by_drv, CascadeClosed(st, from, S) PROVE x \in S
    <3>1. y \in S
      BY <2>2 DEF cascade_skip
    <3> QED
      BY <2>2, <3>1, <1>2 DEF CascadeClosed
  <2> QED
    BY <2>1, <2>2 DEF cascade_skip
<1> QED
  BY <1>1, <1>2 DEF CascadeClosed

(* ... and it skips waiting Steps only, never one that was let go.         *)
LEMMA CascadeIsWaiting ==
  ASSUME IInv, NEW from \in by_drv, state[from] \notin Successful,
         NEW st \in [Drv -> StepState],
         \A x \in Drv \ {from} : st[x] = state[x],
         st[from] \in Terminal
  PROVE  \A x \in cascade_skip(st, from) :
           x \in by_drv /\ x # from /\ state[x] = "Pending"
<1> DEFINE P == {x \in by_drv \ {from} : state[x] = "Pending"}
<1>1. ASSUME NEW y \in by_drv, state[y] \notin Successful, NEW x \in Open(st, rdeps[y])
      PROVE  x \in P
  <2>1. x \in rdeps[y] /\ st[x] \notin Terminal /\ x # from
    BY <1>1 DEF Open
  <2>2. x \in by_drv /\ x \in Drv /\ state[x] \in {"Pending", "Cancelled", "Skipped"}
    BY SMTT(30), <1>1, <2>1, HoldsBack DEF IInv, TypeOK
  <2> QED
    BY <2>1, <2>2 DEF Terminal, Failed
<1>2. CascadeClosed(st, from, P)
  BY <1>1 DEF CascadeClosed, Successful
<1> QED
  BY <1>2 DEF cascade_skip

(* promote_ready_steps hands out fresh tokens, and nothing else.           *)
LEMMA Promoted ==
  ASSUME TypeOK,
         NEW known \in SUBSET Drv, NEW st \in [Drv -> StepState],
         NEW unfinished \in [Drv -> Nat],
         NEW tok \in [Drv -> Nat \cup {NoToken}],
         in_flight' \subseteq Nat,
         TokensFor(st, tok, next_token, pending, in_flight'),
         promote_ready_steps(known, st, unfinished, tok)
  PROVE  /\ state' \in [Drv -> StepState]
         /\ token' \in [Drv -> Nat \cup {NoToken}]
         /\ next_token' \in Nat
         /\ pending' \subseteq Nat
         /\ TokensOK'
         /\ \A d \in Drv : state'[d] = IF d \in known /\ st[d] = "Pending"
                                         /\ unfinished[d] = 0
                                    THEN "Ready" ELSE st[d]
<1> DEFINE ready == ReadySteps(known, st, unfinished)
           n     == Cardinality(ready)
           fresh == next_token .. (next_token + n - 1)
<1>1. n \in Nat /\ next_token \in Nat /\ ready \subseteq Drv
  <2>1. ready \in SUBSET Drv
    BY DEF ReadySteps
  <2>2. IsFiniteSet(ready)
    BY <2>1, FS_Subset, DrvFinite
  <2> QED
    BY <2>1, <2>2, FS_CardinalityType DEF TypeOK
<1>2. PICK mint \in Injection(ready, fresh) :
        /\ state' = [d \in Drv |-> IF d \in ready THEN "Ready" ELSE st[d]]
        /\ token' = [d \in Drv |-> IF d \in ready THEN mint[d] ELSE tok[d]]
        /\ next_token' = next_token + n
        /\ pending' = pending \cup {mint[d] : d \in ready}
  BY DEF promote_ready_steps
<1> HIDE DEF n
<1>3. /\ \A d \in ready : mint[d] \in Nat /\ mint[d] >= next_token /\ mint[d] < next_token'
      /\ \A d, x \in ready : mint[d] = mint[x] => d = x
  BY <1>1, <1>2 DEF Injection, IsInjective
<1>4. /\ state' \in [Drv -> StepState]
      /\ token' \in [Drv -> Nat \cup {NoToken}]
      /\ next_token' \in Nat /\ next_token' >= next_token
      /\ pending' \subseteq Nat
  <2>1. state' \in [Drv -> StepState]
    BY <1>1, <1>2 DEF StepState
  <2>2. token' \in [Drv -> Nat \cup {NoToken}]
    BY <1>1, <1>2, <1>3
  <2>3. next_token' \in Nat /\ next_token' >= next_token
    BY <1>1, <1>2
  <2>4. pending' \subseteq Nat
    <3>1. pending \subseteq Nat
      BY DEF TypeOK
    <3>2. pending' = pending \cup {mint[d] : d \in ready}
      BY <1>2
    <3> QED
      BY ZenonT(30), <1>3, <3>1, <3>2
  <2> QED
    BY <2>1, <2>2, <2>3, <2>4
<1>5. \A d \in Drv : /\ d \in ready => state'[d] = "Ready" /\ token'[d] = mint[d]
                     /\ d \notin ready => state'[d] = st[d] /\ token'[d] = tok[d]
  BY <1>2
<1>6. \A d \in ready : st[d] = "Pending" /\ d \in Drv
  BY <1>1 DEF ReadySteps
<1> HIDE DEF ready
<1>7. TokensOK'
  <2>1. \A d \in Drv : token'[d] # NoToken <=> state'[d] \in {"Ready", "Running"}
    BY <1>3, <1>5 DEF TokensFor, NoToken
  <2>2. \A d \in Drv : token'[d] < next_token'
    <3>1. \A d \in Drv : tok[d] \in Int /\ tok[d] < next_token
      BY DEF TokensFor, NoToken
    <3>2. ASSUME NEW d \in Drv, d \notin ready PROVE token'[d] < next_token'
      BY <3>1, <3>2, <1>1, <1>4, <1>5
    <3> QED
      BY <3>2, <1>3, <1>5
  <2>3. \A d, x \in Drv : token'[d] = token'[x] /\ token'[d] # NoToken => d = x
    BY <1>1, <1>3, <1>4, <1>5 DEF TokensFor, NoToken
  <2>4. \A d \in Drv : /\ state'[d] = "Ready" => token'[d] \in pending'
                       /\ state'[d] = "Running" => token'[d] \in in_flight'
    BY <1>2, <1>5 DEF TokensFor
  <2>5. pending' \cap in_flight' = {}
    <3>1. \A t \in in_flight' : t < next_token
      BY DEF TokensFor
    <3>2. \A d \in ready : mint[d] \notin in_flight'
      BY <3>1, <1>1, <1>3
    <3> QED
      BY <1>2, <3>2 DEF TokensFor
  <2>6. \A t \in pending' \cup in_flight' : t < next_token'
    <3>1. \A t \in pending \cup in_flight' : t < next_token
      BY DEF TokensFor
    <3>2. ASSUME NEW t \in in_flight' PROVE t < next_token'
      BY <3>1, <1>4, <1>1
    <3> QED
      BY <1>1, <1>2, <1>3, <1>4, <3>1, <3>2 DEF TypeOK
  <2> QED
    BY <2>1, <2>2, <2>3, <2>4, <2>5, <2>6 DEF TokensOK, TokensFor
<1> QED
  BY <1>4, <1>5, <1>7 DEF ready, ReadySteps

(* Where no Step starts or stops being successful, the counts stay exact.  *)
LEMMA SameCounts ==
  ASSUME TypeOK, CountExact,
         by_drv' = by_drv, rdeps' = rdeps, deps_unfinished' = deps_unfinished,
         \A x \in by_drv : state'[x] \in Successful <=> state[x] \in Successful
  PROVE  CountExact'
<1> SUFFICES ASSUME NEW d \in by_drv
             PROVE  deps_unfinished[d] = Cardinality({x \in EdgeDeps(d)' : state'[x] \notin Successful})
  BY DEF CountExact, EdgeDeps
<1>1. {x \in EdgeDeps(d)' : state'[x] \notin Successful}
        = {x \in EdgeDeps(d) : state[x] \notin Successful}
  BY DEF EdgeDeps
<1> QED
  BY <1>1 DEF CountExact

(* The token tells where a Step is.                                        *)
LEMMA TokenTells ==
  ASSUME IInv, NEW d \in by_drv
  PROVE  /\ token[d] \in pending => state[d] = "Ready"
         /\ token[d] \in in_flight => state[d] = "Running"
<1>1. d \in Drv /\ (token[d] \in pending \cup in_flight => token[d] # NoToken)
  BY DEF IInv, TypeOK, NoToken
<1> QED
  BY <1>1 DEF IInv, TokensOK, TokensFor

LEMMA DispatchKeeps ==
  ASSUME IInv, NEW d \in by_drv, NEW stale \in SUBSET (pending \ Live),
         dispatch(d, stale)
  PROVE  IInv'
<1>1. d \in Drv /\ token[d] \in pending /\ token[d] # NoToken /\ state[d] = "Ready"
  BY TokenTells DEF IInv, TypeOK, dispatch, NoToken
<1>2. TypeOK'
  BY Zenon, <1>1 DEF IInv, TypeOK, dispatch, graph, StepState
<1>3. \A x \in Drv : state'[x] = IF x = d THEN "Running" ELSE state[x]
  BY <1>1 DEF IInv, TypeOK, dispatch
<1>4. GraphOK'
  BY <1>1, <1>3 DEF IInv, TypeOK, GraphOK, dispatch, graph
<1>5. TokensOK'
  <2>1. \A x \in Drv : token[x] # NoToken <=> state'[x] \in {"Ready", "Running"}
    BY <1>1, <1>3 DEF IInv, TokensOK, TokensFor
  <2>2. \A x \in Drv : token[x] # NoToken => x \in by_drv /\ token[x] \in Live
    BY Zenon DEF IInv, TypeOK, GraphOK, TokensOK, TokensFor, Live
  <2>3. \A x \in Drv : state'[x] = "Ready" => token[x] \in pending'
    <3> SUFFICES ASSUME NEW x \in Drv, state'[x] = "Ready"
                 PROVE  token[x] \in pending'
      OBVIOUS
    <3>1. x # d /\ state[x] = "Ready"
      BY <1>3
    <3>2. token[x] # NoToken /\ token[x] \in pending /\ token[x] # token[d]
      BY <3>1, <1>1 DEF IInv, TokensOK, TokensFor
    <3>3. token[x] \notin stale
      BY <3>2, <2>2
    <3> QED
      BY <3>2, <3>3 DEF dispatch
  <2>4. \A x \in Drv : state'[x] = "Running" => token[x] \in in_flight'
    BY <1>1, <1>3 DEF IInv, TokensOK, TokensFor, dispatch
  <2>5. pending' \cap in_flight' = {} /\ pending' \cup in_flight' \subseteq pending \cup in_flight
    BY <1>1 DEF IInv, TokensOK, TokensFor, dispatch
  <2>6. token' = token /\ next_token' = next_token
    BY DEF dispatch
  <2> QED
    BY <2>1, <2>3, <2>4, <2>5, <2>6 DEF IInv, TokensOK, TokensFor
<1>6. CountsOK'
  <2>1. by_drv' = by_drv /\ rdeps' = rdeps /\ deps_unfinished' = deps_unfinished
    BY DEF dispatch, graph
  <2>2. \A x \in Drv : state'[x] \in Successful <=> state[x] \in Successful
    BY <1>1, <1>3 DEF Successful
  <2>3. CountExact'
    BY <2>1, <2>2, SameCounts DEF IInv, CountsOK, TypeOK
  <2> QED
    BY <1>1, <1>3, <2>1, <2>3 DEF IInv, TypeOK, CountsOK, Successful
<1> QED
  BY <1>2, <1>4, <1>5, <1>6 DEF IInv

LEMMA DispatchNoneKeeps ==
  ASSUME IInv, dispatch_none
  PROVE  IInv'
<1>1. TypeOK' /\ GraphOK' /\ CountsOK'
  BY Zenon DEF IInv, TypeOK, GraphOK, CountsOK, CountExact, EdgeDeps, dispatch_none, graph
<1>2. \A x \in Drv : state[x] # "Ready"
  <2> SUFFICES ASSUME NEW x \in Drv, state[x] = "Ready" PROVE FALSE
    OBVIOUS
  <2>1. token[x] \in pending /\ token[x] # NoToken /\ x \in by_drv
    BY DEF IInv, GraphOK, TokensOK, TokensFor
  <2> QED
    BY <2>1 DEF dispatch_none, Live
<1>3. TokensOK'
  BY <1>2 DEF IInv, TokensOK, TokensFor, dispatch_none
<1> QED
  BY <1>1, <1>3 DEF IInv

(* Steps that are let go without success, and the waiting Steps skipped    *)
(* with them, give up their tokens and change no count.                    *)
LEMMA CascadeKeeps ==
  ASSUME IInv, NEW d \in by_drv, state[d] \notin Terminal,
         NEW v \in Failed, v = "Failure" => state[d] = "Running",
         NEW C, C = cascade_skip([state EXCEPT ![d] = v], d),
         state' = [x \in Drv |-> IF x \in C THEN "Skipped"
                                 ELSE IF x = d THEN v ELSE state[x]],
         token' = [x \in Drv |-> IF x \in C \cup {d} THEN NoToken ELSE token[x]],
         in_flight' \subseteq in_flight,
         \A x \in Drv \ {d} : token[x] \in in_flight => token[x] \in in_flight',
         UNCHANGED <<by_drv, rdeps, deps_unfinished, next_token, pending>>
  PROVE  /\ state' \in [Drv -> StepState] /\ token' \in [Drv -> Nat \cup {NoToken}]
         /\ GraphOK' /\ TokensOK' /\ CountsOK'
<1>1. \A x \in C : x \in by_drv /\ x # d /\ state[x] = "Pending"
  <2> DEFINE st == [state EXCEPT ![d] = v]
  <2>1. /\ st \in [Drv -> StepState] /\ st[d] \in Terminal
        /\ \A x \in Drv \ {d} : st[x] = state[x]
    BY DEF IInv, TypeOK, StepState, Terminal
  <2>2. state[d] \notin Successful
    BY DEF Terminal
  <2> QED
    BY Zenon, <2>1, <2>2, CascadeIsWaiting
<1>2. d \in Drv /\ C \subseteq by_drv /\ by_drv \subseteq Drv
  BY Zenon, <1>1 DEF IInv, TypeOK
<1>3. state' \in [Drv -> StepState] /\ token' \in [Drv -> Nat \cup {NoToken}]
  BY DEF IInv, TypeOK, StepState, Terminal, Failed
<1>4. \A x \in Drv : /\ x \in C => state'[x] = "Skipped"
                     /\ x = d => state'[x] = v
                     /\ x \notin C \cup {d} => state'[x] = state[x]
                     /\ x \in C \cup {d} => token'[x] = NoToken
                     /\ x \notin C \cup {d} => token'[x] = token[x]
  BY Zenon, <1>1
<1>5. GraphOK'
  BY ZenonT(30), <1>2, <1>4 DEF IInv, GraphOK
<1>6. TokensOK'
  <2>1. next_token' \in Nat /\ -1 < next_token'
    BY DEF IInv, TypeOK
  <2> QED
    BY <1>2, <1>4, <2>1 DEF IInv, TokensOK, TokensFor, Failed, NoToken
<1>7. CountsOK'
  <2>1. \A x \in by_drv : state'[x] \in Successful <=> state[x] \in Successful
    BY Zenon, <1>1, <1>2, <1>4 DEF Successful, Failed, Terminal
  <2>2. CountExact'
    BY Zenon, <2>1, SameCounts DEF IInv, CountsOK
  <2>3. \A x \in by_drv : state'[x] \in {"Ready", "Running", "Failure"} \cup Successful
                              => deps_unfinished[x] = 0
    BY <1>1, <1>2, <1>4 DEF IInv, CountsOK, Failed, Successful
  <2>4. \A x \in by_drv : state'[x] = "Pending" => deps_unfinished[x] > 0
    BY <1>1, <1>2, <1>4 DEF IInv, CountsOK, Failed
  <2> QED
    BY Zenon, <2>2, <2>3, <2>4 DEF CountsOK
<1> QED
  BY Zenon, <1>3, <1>5, <1>6, <1>7

LEMMA CompleteKeeps ==
  ASSUME IInv, NEW d \in by_drv, NEW status \in Reportable, complete(d, status)
  PROVE  IInv'
<1> DEFINE v  == from_status(status)
           st == [state EXCEPT ![d] = v]
           unfinished == Released(d)
           skipped == cascade_skip(st, d)
           tok == [token EXCEPT ![d] = NoToken]
<1>1. /\ d \in Drv /\ token[d] \in in_flight /\ state[d] = "Running"
      /\ by_drv' = by_drv /\ rdeps' = rdeps
      /\ in_flight' = in_flight \ {token[d]}
  <2>1. /\ token[d] \in in_flight /\ in_flight' = in_flight \ {token[d]}
        /\ by_drv' = by_drv /\ rdeps' = rdeps
    BY DEF complete
  <2> QED
    BY <2>1, TokenTells DEF IInv, TypeOK
<1>2. v \in Terminal
  BY DEF Reportable, from_status, Terminal, Successful, Failed
<1>3. /\ st \in [Drv -> StepState] /\ st[d] = v
      /\ \A x \in Drv \ {d} : st[x] = state[x]
  BY <1>1, <1>2 DEF IInv, TypeOK, StepState
<1>4. /\ head_jobs' \in [Drv -> Seq(Job)] /\ job_meta' \subseteq enqueued'
      /\ in_flight' \subseteq Nat /\ cancelling' \subseteq job_meta'
      /\ enqueued' \subseteq Job
  BY Zenon, <1>1 DEF IInv, TypeOK, complete
<1>5. reports' \in [Job -> Nat]
  <2>1. ASSUME NEW S, NEW j \in Job PROVE Once(S)[j] \in Nat
    BY DEF Once
  <2> HIDE DEF skipped
  <2>2. \/ reports' = [j \in Job |-> reports[j] + Once(CompletedJobs(d))[j]]
        \/ reports' = [j \in Job |-> reports[j] + Once(CompletedJobs(d))[j]
                                                + Once(SkippedJobs(skipped))[j]]
    BY Zenon DEF complete, skipped
  <2>3. \A j \in Job : /\ reports[j] \in Nat
                       /\ Once(CompletedJobs(d))[j] \in Nat
                       /\ Once(SkippedJobs(skipped))[j] \in Nat
    BY SMTT(30), <2>1 DEF IInv, TypeOK
  <2> QED
    BY <2>2, <2>3
<1> HIDE DEF v
<1>6. CASE v \in Successful
  <2>1. /\ deps_unfinished' = unfinished
        /\ promote_ready_steps(by_drv, st, unfinished, tok)
    BY <1>3, <1>6 DEF complete, v
  <2>2. unfinished \in [Drv -> Nat] /\ tok \in [Drv -> Nat \cup {NoToken}]
    BY <1>1 DEF IInv, TypeOK, Released
  <2>3. TokensFor(st, tok, next_token, pending, in_flight')
    <3>1. next_token \in Nat /\ -1 < next_token
      BY DEF IInv, TypeOK
    <3>2. \A x \in Drv : tok[x] = IF x = d THEN NoToken ELSE token[x]
      BY <1>1 DEF IInv, TypeOK
    <3> HIDE DEF tok, st
    <3> QED
      BY <1>1, <1>3, <1>6, <3>1, <3>2 DEF IInv, TokensOK, TokensFor, Successful, NoToken
  <2>4. by_drv \in SUBSET Drv
    BY DEF IInv, TypeOK
  <2> HIDE DEF st, tok, unfinished
  <2>5. /\ state' \in [Drv -> StepState] /\ token' \in [Drv -> Nat \cup {NoToken}]
        /\ next_token' \in Nat /\ pending' \subseteq Nat /\ TokensOK'
        /\ \A x \in Drv : state'[x] = IF x \in by_drv /\ st[x] = "Pending"
                                          /\ unfinished[x] = 0
                                       THEN "Ready" ELSE st[x]
    BY Zenon, <1>3, <1>4, <2>1, <2>2, <2>3, <2>4, Promoted DEF IInv
  <2>6. TypeOK'
    BY <1>1, <1>4, <1>5, <2>1, <2>2, <2>5 DEF IInv, TypeOK
  <2>7. GraphOK'
    BY <1>1, <1>3, <2>5 DEF IInv, GraphOK
  <2>8. CountExact'
    <3> SUFFICES ASSUME NEW x \in by_drv
                 PROVE  deps_unfinished'[x]
                          = Cardinality({y \in EdgeDeps(x)' : state'[y] \notin Successful})
      BY <1>1 DEF CountExact
    <3> DEFINE U == {y \in EdgeDeps(x) : state[y] \notin Successful}
    <3>1. \A y \in by_drv : state'[y] \in Successful <=> y = d \/ state[y] \in Successful
      BY <1>3, <1>6, <2>4, <2>5 DEF Successful
    <3>2. {y \in EdgeDeps(x)' : state'[y] \notin Successful} = U \ {d}
      BY <1>1, <3>1 DEF EdgeDeps
    <3>3. IsFiniteSet(U) /\ Cardinality(U) \in Nat
      BY EdgesFinite DEF IInv
    <3>4. deps_unfinished[x] = Cardinality(U) /\ x \in Drv
      BY <2>4 DEF IInv, CountsOK, CountExact
    <3>5. d \in U <=> x \in rdeps[d]
      BY <1>1 DEF EdgeDeps, Successful
    <3>6. d \in U => Cardinality(U \ {d}) = Cardinality(U) - 1
      BY Zenon, <3>3, FS_RemoveElement
    <3>7. d \notin U => U \ {d} = U
      OBVIOUS
    <3>8. d \in U => Cardinality(U) > 0
      <4>1. d \in U => Cardinality(U \ {d}) \in Nat
        BY <3>3, FS_RemoveElement, FS_CardinalityType
      <4> HIDE DEF U
      <4> QED
        BY <4>1, <3>3, <3>6
    <3> HIDE DEF U
    <3> QED
      BY Zenon, <2>1, <3>2, <3>3, <3>4, <3>5, <3>6, <3>7, <3>8 DEF unfinished, Released
  <2>9. \A x \in by_drv : /\ x \notin rdeps[d] => deps_unfinished'[x] = deps_unfinished[x]
                          /\ x \in rdeps[d] => state[x] \in {"Pending", "Cancelled", "Skipped"}
    <3>1. state[d] \notin Successful
      BY <1>1 DEF Successful
    <3> QED
      BY <2>1, <2>4, <3>1, HoldsBack DEF unfinished, Released
  <2>10. \A x \in by_drv : state'[x] \in {"Ready", "Running", "Failure"} \cup Successful
                               => deps_unfinished'[x] = 0
    BY <1>1, <1>3, <1>6, <2>1, <2>4, <2>5, <2>9 DEF IInv, CountsOK, Successful
  <2>11. \A x \in by_drv : state'[x] = "Pending" => deps_unfinished'[x] > 0
    BY <2>1, <2>2, <2>4, <2>5
  <2> QED
    BY SMTT(30), <1>1, <2>5, <2>6, <2>7, <2>8, <2>10, <2>11 DEF IInv, CountsOK
<1>7. CASE v \in Failed
  <2>1. v \notin Successful
    BY <1>7 DEF Failed, Successful
  <2>2. /\ state' = [x \in Drv |-> IF x \in skipped THEN "Skipped" ELSE st[x]]
        /\ token' = [x \in Drv |-> IF x \in skipped THEN NoToken ELSE tok[x]]
        /\ UNCHANGED <<deps_unfinished, next_token, pending>>
    BY Zenon, <1>3, <2>1 DEF complete, v
  <2>3. /\ state' = [x \in Drv |-> IF x \in skipped THEN "Skipped"
                                   ELSE IF x = d THEN v ELSE state[x]]
        /\ token' = [x \in Drv |-> IF x \in skipped \cup {d} THEN NoToken ELSE token[x]]
    <3> HIDE DEF skipped
    <3>1. \A x \in Drv : st[x] = IF x = d THEN v ELSE state[x]
      BY <1>3
    <3>2. \A x \in Drv : tok[x] = IF x = d THEN NoToken ELSE token[x]
      BY <1>1 DEF IInv, TypeOK
    <3> HIDE DEF st, tok
    <3> QED
      BY <2>2, <3>1, <3>2
  <2>4. \A x \in Drv \ {d} : token[x] \in in_flight => token[x] \in in_flight'
    BY <1>1 DEF IInv, TypeOK, TokensOK, TokensFor, NoToken
  <2>5. /\ state' \in [Drv -> StepState] /\ token' \in [Drv -> Nat \cup {NoToken}]
        /\ GraphOK' /\ TokensOK' /\ CountsOK'
    <3>1. state[d] \notin Terminal
      BY <1>1 DEF Terminal, Successful, Failed
    <3>2. skipped = cascade_skip([state EXCEPT ![d] = v], d)
      OBVIOUS
    <3>3. UNCHANGED <<by_drv, rdeps, deps_unfinished, next_token, pending>>
      BY <1>1, <2>2
    <3>4. in_flight' \subseteq in_flight /\ (v = "Failure" => state[d] = "Running")
      BY <1>1
    <3> HIDE DEF skipped
    <3> QED
      BY Zenon, <1>7, <2>3, <2>4, <3>1, <3>2, <3>3, <3>4, CascadeKeeps
  <2> QED
    BY Zenon, <1>1, <1>4, <1>5, <2>2, <2>5 DEF IInv, TypeOK
<1> QED
  BY <1>2, <1>6, <1>7 DEF Terminal

LEMMA EnqueueKeeps ==
  ASSUME IInv, NEW j \in Job, NEW closure \in Closures[j], enqueue(j, closure)
  PROVE  IInv'
<1> DEFINE new   == ({HeadDrv[j]} \cup closure) \ by_drv
           known == by_drv \cup new
           edges == build_edges_for(new, known)
           unfinished == [d \in Drv |-> IF d \in new THEN Cardinality(edges[d])
                                                     ELSE deps_unfinished[d]]
<1>1. /\ HeadDrv[j] \in Drv /\ closure \subseteq Drv
      /\ new \subseteq Drv /\ known \subseteq Drv
      /\ new \cap by_drv = {}
  BY SMTT(30), JobTypes DEF IInv, TypeOK
<1>2. /\ by_drv' = known
      /\ deps_unfinished' = unfinished
      /\ rdeps' = [i \in Drv |-> rdeps[i] \cup {d \in new : i \in edges[d]}]
      /\ promote_ready_steps(known, state, unfinished, token)
      /\ in_flight' = in_flight /\ cancelling' = cancelling /\ reports' = reports
      /\ enqueued' = enqueued \cup {j} /\ job_meta' = job_meta \cup {j}
      /\ head_jobs' = [head_jobs EXCEPT ![HeadDrv[j]] = Append(@, j)]
  BY DEF enqueue
<1>3. \A d \in new : /\ edges[d] = {i \in Inputs[d] \cap known : state[i] \notin Successful}
                     /\ Cardinality(edges[d]) \in Nat
  <2>1. \A d \in new : edges[d] = {i \in Inputs[d] \cap known : state[i] \notin Successful}
    BY ZenonT(60) DEF build_edges_for
  <2>2. ASSUME NEW d \in new PROVE IsFiniteSet(edges[d])
    <3>1. edges[d] \in SUBSET Drv
      BY ZenonT(30), <1>1, <2>1
    <3> QED
      BY Zenon, <3>1, FS_Subset, DrvFinite
  <2> QED
    BY ZenonT(30), <2>1, <2>2, FS_CardinalityType
<1>4. known = by_drv \cup new
  OBVIOUS
<1> HIDE DEF edges, new, known
<1>5. unfinished \in [Drv -> Nat]
  BY <1>3 DEF IInv, TypeOK
<1>6. \A d \in Drv : /\ d \in new => unfinished[d] = Cardinality(edges[d])
                     /\ d \notin new => unfinished[d] = deps_unfinished[d]
  OBVIOUS
<1> HIDE DEF unfinished
<1>7. /\ state' \in [Drv -> StepState] /\ token' \in [Drv -> Nat \cup {NoToken}]
      /\ next_token' \in Nat /\ pending' \subseteq Nat /\ TokensOK'
      /\ \A d \in Drv : state'[d] = IF d \in known /\ state[d] = "Pending"
                                        /\ unfinished[d] = 0
                                     THEN "Ready" ELSE state[d]
  <2>1. TokensFor(state, token, next_token, pending, in_flight') /\ in_flight' \subseteq Nat
    BY <1>2 DEF IInv, TypeOK, TokensOK
  <2>2. state \in [Drv -> StepState] /\ token \in [Drv -> Nat \cup {NoToken}]
    BY DEF IInv, TypeOK
  <2>3. known \in SUBSET Drv /\ TypeOK
    BY SMTT(30), <1>1 DEF IInv
  <2> QED
    BY Zenon, <1>2, <1>5, <2>1, <2>2, <2>3, Promoted
<1>8. \A x \in Drv : rdeps'[x] = rdeps[x] \cup {d \in new : x \in edges[d]}
  BY SMTT(30), <1>2
<1>9. TypeOK'
  <2>1. rdeps' \in [Drv -> SUBSET Drv]
    BY <1>1, <1>2 DEF IInv, TypeOK
  <2>2. head_jobs' \in [Drv -> Seq(Job)]
    <3>1. Append(head_jobs[HeadDrv[j]], j) \in Seq(Job)
      BY SMTT(30), <1>1 DEF IInv, TypeOK
    <3> QED
      BY Zenon, <1>2, <3>1 DEF IInv, TypeOK
  <2> QED
    BY SMTT(30), <1>1, <1>2, <1>5, <1>7, <2>1, <2>2 DEF IInv, TypeOK
<1>10. GraphOK'
  <2>1. \A d \in Drv \ known : state'[d] = "Pending" /\ rdeps'[d] = {}
    <3> SUFFICES ASSUME NEW d \in Drv \ known
                 PROVE  state'[d] = "Pending" /\ rdeps'[d] = {}
      OBVIOUS
    <3>1. state[d] = "Pending" /\ rdeps[d] = {}
      BY <1>4 DEF IInv, GraphOK
    <3>2. {e \in new : d \in edges[e]} = {}
      BY <1>3
    <3> QED
      BY <1>7, <1>8, <3>1, <3>2
  <2>2. \A x \in Drv : rdeps'[x] \subseteq known
    BY <1>4, <1>8 DEF IInv, GraphOK
  <2>3. \A x \in Drv : \A d \in rdeps'[x] : x \in Inputs[d]
    BY <1>3, <1>8 DEF IInv, GraphOK
  <2> QED
    BY <1>2, <2>1, <2>2, <2>3 DEF GraphOK
<1>11. \A x \in Drv : state'[x] \in Successful <=> state[x] \in Successful
  BY <1>7 DEF Successful
<1>12. CountExact'
  <2> SUFFICES ASSUME NEW d \in known
               PROVE  unfinished[d]
                        = Cardinality({x \in EdgeDeps(d)' : state'[x] \notin Successful})
    BY SMTT(30), <1>2 DEF CountExact
  <2>1. EdgeDeps(d)' = {x \in known : d \in rdeps[x] \/ (d \in new /\ d \in {e \in new : x \in edges[e]})}
    BY <1>1, <1>2, <1>8 DEF EdgeDeps
  <2>2. CASE d \in new
    <3>1. \A x \in known : d \notin rdeps[x]
      BY <1>1, <2>2 DEF IInv, GraphOK
    <3>2. EdgeDeps(d)' = edges[d]
      BY <1>3, <2>1, <2>2, <3>1
    <3>3. {x \in EdgeDeps(d)' : state'[x] \notin Successful} = edges[d]
      BY <1>1, <1>3, <1>11, <2>2, <3>2
    <3> QED
      BY Zenon, <1>1, <1>6, <2>2, <3>3
  <2>3. CASE d \notin new
    <3>1. d \in by_drv
      BY <1>4, <2>3
    <3>2. EdgeDeps(d)' = EdgeDeps(d)
      BY <1>1, <1>4, <2>1, <2>3 DEF IInv, GraphOK, EdgeDeps
    <3>3. {x \in EdgeDeps(d)' : state'[x] \notin Successful}
            = {x \in EdgeDeps(d) : state[x] \notin Successful}
      BY <1>1, <1>4, <1>11, <3>2 DEF EdgeDeps
    <3> QED
      BY <1>1, <1>6, <2>3, <3>1, <3>3 DEF IInv, CountsOK, CountExact
  <2> QED
    BY <2>2, <2>3
<1>13. \A d \in known : state'[d] \in {"Ready", "Running", "Failure"} \cup Successful
                           => unfinished[d] = 0
  <2>1. \A d \in new : state[d] = "Pending"
    BY <1>1 DEF IInv, GraphOK
  <2> QED
    BY <1>1, <1>4, <1>6, <1>7, <2>1 DEF IInv, CountsOK, Successful
<1>14. \A d \in known : state'[d] = "Pending" => unfinished[d] > 0
  BY <1>1, <1>5, <1>7
<1> QED
  BY <1>2, <1>7, <1>9, <1>10, <1>12, <1>13, <1>14 DEF IInv, CountsOK

LEMMA CancelJobKeeps ==
  ASSUME IInv, NEW j \in cancelling, cancel_job(j)
  PROVE  IInv'
<1>1. /\ by_drv' = by_drv /\ deps_unfinished' = deps_unfinished /\ rdeps' = rdeps
      /\ next_token' = next_token /\ pending' = pending /\ in_flight' = in_flight
      /\ enqueued' = enqueued
      /\ cancelling' = cancelling \ {j} /\ job_meta' = job_meta \ {j}
  BY DEF cancel_job, graph, queue
<1>2. ASSUME NEW d \in Drv, cancel_waiting(j, d) PROVE IInv'
  <2> DEFINE C == cascade_skip([state EXCEPT ![d] = "Cancelled"], d)
  <2>1. d \in by_drv /\ state[d] \in {"Pending", "Ready"}
    BY <1>2 DEF cancel_waiting, LinkedTo
  <2>2. /\ state' = [x \in Drv |-> IF x \in C THEN "Skipped"
                                   ELSE [state EXCEPT ![d] = "Cancelled"][x]]
        /\ token' = [x \in Drv |-> IF x \in C \cup {d} THEN NoToken ELSE token[x]]
        /\ head_jobs' = [head_jobs EXCEPT ![d] = <<>>]
        /\ reports' = [k \in Job |-> reports[k] + Once(Range(head_jobs[d]))[k]
                                                + Once(SkippedJobs(C))[k]]
    BY <1>2 DEF cancel_waiting
  <2>3. C = cascade_skip([state EXCEPT ![d] = "Cancelled"], d)
    OBVIOUS
  <2> HIDE DEF C
  <2>4. state' = [x \in Drv |-> IF x \in C THEN "Skipped"
                                ELSE IF x = d THEN "Cancelled" ELSE state[x]]
    BY <2>2 DEF IInv, TypeOK
  <2>5. state[d] \notin Terminal /\ "Cancelled" \in Failed
    BY <2>1 DEF Terminal, Successful, Failed
  <2>6. /\ state' \in [Drv -> StepState] /\ token' \in [Drv -> Nat \cup {NoToken}]
        /\ GraphOK' /\ TokensOK' /\ CountsOK'
    <3>1. "Cancelled" = "Failure" => state[d] = "Running"
      OBVIOUS
    <3>2. /\ in_flight' \subseteq in_flight
          /\ \A x \in Drv \ {d} : token[x] \in in_flight => token[x] \in in_flight'
          /\ UNCHANGED <<by_drv, rdeps, deps_unfinished, next_token, pending>>
      BY <1>1
    <3>3. token' = [x \in Drv |-> IF x \in C \cup {d} THEN NoToken ELSE token[x]]
      BY <2>2
    <3>4. PICK v : v = "Cancelled"
      OBVIOUS
    <3>5. /\ v \in Failed /\ (v = "Failure" => state[d] = "Running")
          /\ C = cascade_skip([state EXCEPT ![d] = v], d)
          /\ state' = [x \in Drv |-> IF x \in C THEN "Skipped"
                                     ELSE IF x = d THEN v ELSE state[x]]
      BY <2>3, <2>4, <2>5, <3>1, <3>4
    <3> QED
      BY Zenon, <2>1, <2>5, <3>2, <3>3, <3>5, CascadeKeeps
  <2>7. \A k \in Job : /\ reports[k] \in Nat
                       /\ Once(Range(head_jobs[d]))[k] \in Nat
                       /\ Once(SkippedJobs(C))[k] \in Nat
    BY DEF IInv, TypeOK, Once
  <2>8. reports' \in [Job -> Nat]
    BY <2>2, <2>7
  <2>9. head_jobs' \in [Drv -> Seq(Job)]
    <3>1. <<>> \in Seq(Job)
      OBVIOUS
    <3> QED
      BY <2>2, <3>1 DEF IInv, TypeOK
  <2> QED
    BY SMTT(30), <1>1, <2>6, <2>8, <2>9 DEF IInv, TypeOK
<1>3. ASSUME state' = state, token' = token, head_jobs' = head_jobs,
             reports' \in [Job -> Nat]
      PROVE  IInv'
  <2>1. TypeOK'
    BY <1>1, <1>3 DEF IInv, TypeOK
  <2>2. GraphOK'
    BY <1>1, <1>3 DEF IInv, GraphOK
  <2>3. TokensOK'
    BY <1>1, <1>3 DEF IInv, TokensOK, TokensFor
  <2>4. CountsOK'
    BY <1>1, <1>3 DEF IInv, CountsOK, CountExact, EdgeDeps
  <2> QED
    BY <2>1, <2>2, <2>3, <2>4 DEF IInv
<1>4. ASSUME NEW d \in Drv, cancel_started(j, d) PROVE IInv'
  BY <1>3, <1>4 DEF cancel_started, IInv, TypeOK
<1>5. CASE cancel_unlinked(j)
  BY SMTT(30), <1>3, <1>5 DEF cancel_unlinked, IInv, TypeOK
<1> QED
  BY <1>2, <1>4, <1>5 DEF cancel_job

(* The six operations of the strategy, and a step that touches nothing.    *)
LEMMA StepKeeps ==
  ASSUME IInv, [Next]_vars
  PROVE  IInv'
<1>1. ASSUME UNCHANGED <<by_drv, state, deps_unfinished, rdeps, head_jobs, token,
                         next_token, job_meta, pending, in_flight, enqueued, reports>>,
             cancelling' \subseteq job_meta
      PROVE  IInv'
  <2>1. TypeOK'
    BY <1>1 DEF IInv, TypeOK
  <2>2. GraphOK' /\ TokensOK'
    BY <1>1 DEF IInv, GraphOK, TokensOK, TokensFor
  <2>3. CountsOK'
    BY <1>1 DEF IInv, CountsOK, CountExact, EdgeDeps
  <2> QED
    BY <2>1, <2>2, <2>3 DEF IInv
<1>2. ASSUME NEW e \in Eval, cancel_eval(e) PROVE IInv'
  BY <1>1, <1>2 DEF cancel_eval, graph, queue
<1>3. CASE UNCHANGED vars
  BY <1>1, <1>3 DEF vars, IInv, TypeOK
<1> QED
  BY <1>2, <1>3, EnqueueKeeps, DispatchKeeps, DispatchNoneKeeps, CompleteKeeps,
     CancelJobKeeps DEF Next

LEMMA InitEstablishes ==
  ASSUME Init
  PROVE  IInv
<1>1. TypeOK
  <2>1. <<>> \in Seq(Job)
    OBVIOUS
  <2> QED
    BY <2>1 DEF Init, TypeOK, StepState
<1>2. GraphOK /\ TokensOK /\ CountsOK
  BY DEF Init, GraphOK, TokensOK, TokensFor, CountsOK, CountExact, NoToken
<1> QED
  BY <1>1, <1>2 DEF IInv

(* The inductive invariant holds in every reachable state.                 *)
THEOREM Invariance == Spec => []IInv
<1>1. Init => IInv
  BY InitEstablishes
<1>2. IInv /\ [Next]_vars => IInv'
  BY StepKeeps
<1> QED
  BY <1>1, <1>2, PTL DEF Spec

(* Every field keeps its type, whatever is enqueued, completed or          *)
(* cancelled and in whatever order.                                        *)
THEOREM TypeCorrect == Spec => []TypeOK
<1>1. IInv => TypeOK
  BY DEF IInv
<1> QED
  BY <1>1, Invariance, PTL

(* The dependency gate of dag.rs:6-9 for every graph: no Step is queued,   *)
(* run or decided by a build before all the Steps it has an edge from have *)
(* succeeded.                                                              *)
THEOREM DispatchIsGated == Spec => []Gated
<1>1. IInv => Gated
  BY GatedByCount
<1> QED
  BY <1>1, Invariance, PTL

(* deps_unfinished is exact for every graph: no edge is counted down twice *)
(* and none is forgotten, so that no Step is promoted early or never.      *)
THEOREM CountsAreExact == Spec => []CountExact
<1>1. IInv => CountExact
  BY DEF IInv, CountsOK
<1> QED
  BY <1>1, Invariance, PTL

(* What each step may do to the state of a Step: queue a waiting one, run  *)
(* a queued one, decide a running one by its own completion, or give up    *)
(* ones that were not dispatched.                                          *)
LEMMA StepsMoveForward ==
  ASSUME IInv, Next
  PROVE  \A d \in Drv : StepForward(d)
<1>1. ASSUME NEW j \in Job, NEW closure \in Closures[j], enqueue(j, closure)
      PROVE  \A d \in Drv : StepForward(d)
  <2>1. \A d \in Drv : state[d] # "Pending" => state'[d] = state[d]
    BY ZenonT(60), <1>1 DEF enqueue, promote_ready_steps, ReadySteps, IInv, TypeOK
  <2> QED
    BY SMTT(30), <2>1 DEF StepForward, Terminal, Successful, Failed
<1>2. ASSUME NEW e \in by_drv, NEW stale \in SUBSET (pending \ Live), dispatch(e, stale)
      PROVE  \A d \in Drv : StepForward(d)
  <2>1. e \in Drv /\ state[e] = "Ready"
    BY <1>2, TokenTells DEF IInv, TypeOK, dispatch
  <2>2. \A d \in Drv : state'[d] = IF d = e THEN "Running" ELSE state[d]
    BY SMTT(30), <1>2, <2>1 DEF IInv, TypeOK, dispatch
  <2> QED
    BY <2>1, <2>2 DEF StepForward, Terminal, Successful, Failed
<1>3. ASSUME state' = state
      PROVE  \A d \in Drv : StepForward(d)
  BY <1>3 DEF StepForward
<1>4. ASSUME NEW e \in by_drv, NEW status \in Reportable, complete(e, status)
      PROVE  \A d \in Drv : StepForward(d)
  <2> DEFINE v  == from_status(status)
             st == [state EXCEPT ![e] = v]
             C  == cascade_skip(st, e)
  <2>1. token[e] \in in_flight /\ in_flight' = in_flight \ {token[e]} /\ e \in Drv
    BY <1>4 DEF complete, IInv, TypeOK
  <2>2. state[e] = "Running"
    BY <2>1, TokenTells
  <2>3. v \in Terminal
    BY DEF Reportable, from_status, Terminal, Successful, Failed
  <2>4. /\ st \in [Drv -> StepState] /\ st[e] = v
        /\ \A x \in Drv \ {e} : st[x] = state[x]
    BY SMTT(30), <2>1, <2>3 DEF IInv, TypeOK, StepState
  <2> HIDE DEF v
  <2>5. \A d \in Drv \ {e} : state[d] # "Pending" => state'[d] = state[d]
    <3>1. CASE v \in Successful
      BY Zenon, <1>4, <2>4, <3>1 DEF complete, promote_ready_steps, ReadySteps, v, IInv, TypeOK
    <3>2. CASE v \notin Successful
      <4>1. state' = [x \in Drv |-> IF x \in C THEN "Skipped" ELSE st[x]]
        BY Zenon, <1>4, <2>4, <3>2 DEF complete, v
      <4>2. \A x \in C : state[x] = "Pending"
        <5> HIDE DEF st
        <5> QED
          BY <2>2, <2>3, <2>4, CascadeIsWaiting DEF Successful
      <4> QED
        BY Zenon, <2>4, <4>1, <4>2
    <3> QED
      BY SMTT(30), <3>1, <3>2
  <2>6. state'[e] = v
    <3>1. CASE v \in Successful
      <4>1. st[e] # "Pending"
        BY <2>4, <3>1 DEF Successful
      <4> QED
        BY Zenon, <1>4, <2>1, <2>4, <3>1, <4>1 DEF complete, promote_ready_steps, ReadySteps, v
    <3>2. CASE v \notin Successful
      <4>1. state' = [x \in Drv |-> IF x \in C THEN "Skipped" ELSE st[x]]
        BY Zenon, <1>4, <2>4, <3>2 DEF complete, v
      <4>2. e \notin C
        <5> HIDE DEF st
        <5> QED
          BY <2>2, <2>3, <2>4, CascadeIsWaiting DEF Successful
      <4> QED
        BY <2>1, <2>4, <4>1, <4>2
    <3> QED
      BY <3>1, <3>2
  <2> QED
    BY SMTT(30), <2>1, <2>2, <2>3, <2>5, <2>6 DEF StepForward, Terminal, Successful, Failed
<1>5. ASSUME NEW j \in cancelling, NEW e \in Drv, cancel_waiting(j, e)
      PROVE  \A d \in Drv : StepForward(d)
  <2> DEFINE st == [state EXCEPT ![e] = "Cancelled"]
             C  == cascade_skip(st, e)
  <2>1. e \in by_drv /\ state[e] \in {"Pending", "Ready"}
    BY SMTT(30), <1>5 DEF cancel_waiting, LinkedTo
  <2>2. state' = [x \in Drv |-> IF x \in C THEN "Skipped" ELSE st[x]]
    BY <1>5 DEF cancel_waiting
  <2>3. /\ st \in [Drv -> StepState] /\ st[e] \in Terminal
        /\ \A x \in Drv \ {e} : st[x] = state[x]
    BY DEF IInv, TypeOK, StepState, Terminal, Failed
  <2> HIDE DEF st
  <2>4. \A x \in C : state[x] = "Pending"
    <3>1. state[e] \notin Successful
      BY <2>1 DEF Successful
    <3> QED
      BY <2>1, <2>3, <3>1, CascadeIsWaiting
  <2>5. \A d \in Drv : state[d] \notin {"Pending", "Ready"} => state'[d] = state[d]
    BY <2>1, <2>2, <2>3, <2>4
  <2> QED
    BY <2>5 DEF StepForward, Terminal, Successful, Failed
<1>6. ASSUME NEW j \in cancelling, cancel_job(j)
      PROVE  \A d \in Drv : StepForward(d)
  BY <1>3, <1>5, <1>6 DEF cancel_job, cancel_started, cancel_unlinked
<1>7. (dispatch_none \/ \E e \in Eval : cancel_eval(e)) => state' = state
  BY DEF dispatch_none, cancel_eval
<1> QED
  BY <1>1, <1>2, <1>3, <1>4, <1>6, <1>7 DEF Next

(* A derivation is realised at most once and a verdict stands, for every   *)
(* graph: no completion, cascade or cancellation reopens a decided Step or *)
(* decides a running one underneath its builder.                           *)
THEOREM VerdictsStand == Spec => RealisedOnce
<1>1. IInv /\ [Next]_vars => [\A d \in Drv : StepForward(d)]_vars
  BY StepsMoveForward
<1> QED
  BY <1>1, Invariance, PTL DEF Spec, RealisedOnce

(* A cascade leaves no dependent of a failed Step behind.                  *)
LEMMA CascadePropagates ==
  ASSUME IInv, FailurePropagates,
         NEW d \in by_drv, state[d] \notin Terminal, NEW v \in Failed,
         NEW C, C = cascade_skip([state EXCEPT ![d] = v], d),
         \A x \in Drv : state'[x] = IF x \in C THEN "Skipped"
                                   ELSE IF x = d THEN v ELSE state[x],
         UNCHANGED <<by_drv, rdeps>>
  PROVE  FailurePropagates'
<1> DEFINE st == [state EXCEPT ![d] = v]
<1> SUFFICES ASSUME LoadFirst, NEW x \in by_drv, state'[x] \in Failed, NEW y \in rdeps[x]
             PROVE  state'[y] \in Failed
  BY DEF FailurePropagates
<1>1. /\ st \in [Drv -> StepState] /\ st[d] = v /\ st[d] \in Terminal
      /\ \A z \in Drv \ {d} : st[z] = state[z]
      /\ by_drv \subseteq Drv
  BY SMTT(30) DEF IInv, TypeOK, StepState, Terminal
<1>2. state[d] \notin Successful
  BY DEF Terminal
<1>3. \A z \in C : z \in by_drv /\ z # d /\ state[z] = "Pending"
  BY Zenon, <1>1, <1>2, CascadeIsWaiting
<1>4. CascadeClosed(st, d, C)
  BY <1>1, CascadeIsClosed DEF IInv
<1> HIDE DEF st
<1>5. y \in by_drv /\ y \in Drv /\ x \in Drv
  BY <1>1 DEF IInv, GraphOK
<1>6. \A z \in Drv : state'[z] = IF z \in C THEN "Skipped" ELSE st[z]
  BY Zenon, <1>1
<1>7. CASE x \in C \cup {d}
  <2>1. state[x] \notin Successful
    BY Zenon, <1>2, <1>3, <1>7 DEF Successful
  <2>2. state[y] \in {"Pending", "Cancelled", "Skipped"}
    BY <2>1, HoldsBack
  <2>3. st[y] \notin Terminal => y \in C
    BY Zenon, <1>4, <1>7 DEF CascadeClosed, Open
  <2>4. CASE y \in C
    BY Zenon, <1>5, <1>6, <2>4 DEF Failed
  <2>5. CASE y \notin C
    BY <1>1, <1>5, <1>6, <2>2, <2>3, <2>5 DEF Terminal, Failed, Successful
  <2> QED
    BY <2>4, <2>5
<1>8. CASE x \notin C \cup {d}
  <2>1. state[x] \in Failed
    BY Zenon, <1>1, <1>5, <1>6, <1>8
  <2>2. state[y] \in Failed
    BY <2>1 DEF FailurePropagates
  <2>3. y \notin C /\ y # d
    BY Zenon, <1>3, <2>2 DEF Failed, Terminal
  <2> QED
    BY Zenon, <1>1, <1>5, <1>6, <2>2, <2>3
<1> QED
  BY <1>7, <1>8

(* A step that neither fails a Step nor changes a failed one.              *)
LEMMA NoFailure ==
  ASSUME IInv, FailurePropagates, UNCHANGED <<by_drv, rdeps>>,
         \A x \in Drv : state'[x] = state[x] \/ (state[x] \notin Failed /\ state'[x] \notin Failed)
  PROVE  FailurePropagates'
<1> SUFFICES ASSUME LoadFirst, NEW x \in by_drv, state'[x] \in Failed, NEW y \in rdeps[x]
             PROVE  state'[y] \in Failed
  BY DEF FailurePropagates
<1>1. x \in Drv /\ y \in Drv
  BY DEF IInv, TypeOK, GraphOK
<1>2. state[x] \in Failed
  BY <1>1
<1>3. state[y] \in Failed
  BY SMTT(30), <1>2 DEF FailurePropagates
<1> QED
  BY <1>1, <1>3

LEMMA FailureStep ==
  ASSUME IInv, FailurePropagates, [Next]_vars
  PROVE  FailurePropagates'
<1>1. ASSUME NEW j \in Job, NEW closure \in Closures[j], enqueue(j, closure), LoadFirst
      PROVE  \A x \in by_drv' : state'[x] \notin Failed
  <2>1. by_drv' \subseteq Drv
    <3>1. by_drv \subseteq Drv /\ HeadDrv[j] \in Drv /\ closure \subseteq Drv
      BY SMTT(30), <1>1, JobTypes DEF IInv, TypeOK
    <3>2. by_drv' = by_drv \cup (({HeadDrv[j]} \cup closure) \ by_drv)
      BY ZenonT(60), <1>1 DEF enqueue
    <3> QED
      BY <3>1, <3>2
  <2>2. \A x \in Drv : state[x] \in {"Pending", "Ready"}
    BY ZenonT(60), <1>1 DEF enqueue, Loading, IInv, GraphOK
  <2>3. \A x \in Drv : state'[x] \in {state[x], "Ready"}
    BY ZenonT(60), <1>1 DEF enqueue, promote_ready_steps, ReadySteps
  <2> QED
    BY <2>1, <2>2, <2>3 DEF Failed
<1>2. ASSUME NEW d \in by_drv, NEW stale \in SUBSET (pending \ Live), dispatch(d, stale)
      PROVE  FailurePropagates'
  <2>1. d \in Drv /\ state[d] = "Ready"
    BY <1>2, TokenTells DEF IInv, TypeOK, dispatch
  <2>2. \A x \in Drv : state'[x] = IF x = d THEN "Running" ELSE state[x]
    BY <1>2, <2>1 DEF IInv, TypeOK, dispatch
  <2>3. \A x \in Drv : state'[x] = state[x] \/ (state[x] \notin Failed /\ state'[x] \notin Failed)
    BY <2>1, <2>2 DEF Failed
  <2>4. UNCHANGED <<by_drv, rdeps>>
    BY <1>2 DEF dispatch, graph
  <2> QED
    BY <2>3, <2>4, NoFailure
<1>3. ASSUME NEW d \in by_drv, NEW status \in Reportable, complete(d, status)
      PROVE  FailurePropagates'
  <2> DEFINE v  == from_status(status)
             st == [state EXCEPT ![d] = v]
  <2>1. token[d] \in in_flight /\ d \in Drv /\ UNCHANGED <<by_drv, rdeps>>
    BY <1>3 DEF complete, IInv, TypeOK
  <2>2. state[d] = "Running"
    BY <2>1, TokenTells
  <2>3. v \in Terminal
    BY DEF Reportable, from_status, Terminal, Successful, Failed
  <2>4. \A x \in Drv : st[x] = IF x = d THEN v ELSE state[x]
    BY <2>1 DEF IInv, TypeOK
  <2>5. CASE v \in Successful
    <3>1. \A x \in Drv : \/ state'[x] = st[x]
                         \/ st[x] = "Pending" /\ state'[x] = "Ready"
      BY Zenon, <1>3, <2>1, <2>4, <2>5 DEF complete, promote_ready_steps, ReadySteps
    <3> HIDE DEF v, st
    <3>2. \A x \in Drv : state'[x] = state[x] \/ (state[x] \notin Failed /\ state'[x] \notin Failed)
      BY <2>2, <2>4, <2>5, <3>1 DEF Failed, Successful
    <3> QED
      BY <2>1, <3>2, NoFailure
  <2>6. CASE v \in Failed
    <3>1. v \notin Successful /\ state[d] \notin Terminal
      BY <2>2, <2>6 DEF Failed, Successful, Terminal
    <3> DEFINE C == cascade_skip(st, d)
    <3>2. state' = [x \in Drv |-> IF x \in C THEN "Skipped" ELSE st[x]]
      BY Zenon, <1>3, <2>1, <2>4, <3>1 DEF complete
    <3>3. C = cascade_skip([state EXCEPT ![d] = v], d)
      OBVIOUS
    <3> HIDE DEF v, st, C
    <3>4. \A x \in Drv : state'[x] = IF x \in C THEN "Skipped"
                                    ELSE IF x = d THEN v ELSE state[x]
      BY <2>4, <3>2
    <3> QED
      BY <2>1, <2>6, <3>1, <3>3, <3>4, CascadePropagates
  <2> QED
    BY SMTT(30), <2>3, <2>5, <2>6 DEF Terminal
<1>4. ASSUME NEW j \in cancelling, cancel_job(j), NEW d \in Drv, cancel_waiting(j, d)
      PROVE  FailurePropagates'
  <2>a. d \in by_drv /\ state[d] \in {"Pending", "Ready"}
    BY Zenon, <1>4 DEF cancel_waiting, LinkedTo
  <2>b. UNCHANGED <<by_drv, rdeps>>
    BY Zenon, <1>4 DEF cancel_job, graph
  <2>c. state[d] \notin Terminal
    BY <2>a DEF Terminal, Successful, Failed
  <2>1. d \in by_drv /\ state[d] \notin Terminal /\ UNCHANGED <<by_drv, rdeps>>
    BY Zenon, <2>a, <2>b, <2>c
  <2> DEFINE C == cascade_skip([state EXCEPT ![d] = "Cancelled"], d)
  <2>2. state' = [x \in Drv |-> IF x \in C THEN "Skipped"
                                ELSE [state EXCEPT ![d] = "Cancelled"][x]]
    BY <1>4 DEF cancel_waiting
  <2>3. PICK v : v = "Cancelled"
    OBVIOUS
  <2>4. C = cascade_skip([state EXCEPT ![d] = v], d) /\ v \in Failed
    BY <2>3 DEF Failed
  <2> HIDE DEF C
  <2>5. \A x \in Drv : state'[x] = IF x \in C THEN "Skipped"
                                  ELSE IF x = d THEN v ELSE state[x]
    BY <2>2, <2>3 DEF IInv, TypeOK
  <2> QED
    BY SMTT(30), <2>1, <2>4, <2>5, CascadePropagates
<1>5. ASSUME UNCHANGED <<by_drv, rdeps, state>>
      PROVE  FailurePropagates'
  BY <1>5, NoFailure
<1>6. ASSUME NEW j \in cancelling, cancel_job(j)
      PROVE  FailurePropagates'
  BY <1>4, <1>5, <1>6 DEF cancel_job, cancel_started, cancel_unlinked, graph
<1>7. (dispatch_none \/ (\E e \in Eval : cancel_eval(e)) \/ UNCHANGED vars)
        => UNCHANGED <<by_drv, rdeps, state>>
  BY DEF dispatch_none, cancel_eval, vars, graph
<1> QED
  BY SMTT(30), <1>1, <1>2, <1>3, <1>5, <1>6, <1>7 DEF Next, FailurePropagates

(* When a Step fails, is cancelled or is skipped, every Step that depends  *)
(* on it, however far away, is given up too: none is built, none is left   *)
(* waiting.                                                                *)
THEOREM FailuresPropagate == Spec => []FailurePropagates
<1>1. Init => FailurePropagates
  BY DEF Init, FailurePropagates
<1>2. IInv /\ FailurePropagates /\ [Next]_vars => FailurePropagates'
  BY FailureStep
<1> QED
  BY <1>1, <1>2, Invariance, PTL DEF Spec

(* Among finitely many ranked derivations there is one of least rank: the  *)
(* sets of those ranked below a derivation are well-founded by inclusion.  *)
LEMMA LeastRanked ==
  ASSUME NEW rank \in [Drv -> 0 .. Cardinality(Drv)], NEW W \in SUBSET Drv, W # {}
  PROVE  \E d \in W : \A x \in W : ~(rank[x] < rank[d])
<1> DEFINE Below(d) == {y \in Drv : rank[y] < rank[d]}
           T == {Below(d) : d \in W}
<1>1. IsWellFoundedOn(StrictSubsetOrdering(Drv), SUBSET Drv)
  BY Zenon, FS_StrictSubsetOrderingWellFounded, FS_FiniteSubsetsOfFinite, DrvFinite
<1>2. T \subseteq SUBSET Drv /\ T # {}
  BY ZenonT(30)
<1>3. PICK B \in T : \A A \in T : ~(<<A, B>> \in StrictSubsetOrdering(Drv))
  <2> HIDE DEF T
  <2> QED
    BY <1>1, <1>2, WFMin
<1>4. PICK d \in W : B = Below(d)
  OBVIOUS
<1>5. ASSUME NEW x \in W, rank[x] < rank[d] PROVE FALSE
  <2>1. Cardinality(Drv) \in Nat
    BY FS_CardinalityType, DrvFinite
  <2>2. \A y \in Drv : rank[y] \in Nat
    BY <2>1
  <2>3. x \in Below(d) /\ x \notin Below(x)
    BY <1>5, <2>2
  <2>4. Below(x) \subseteq Below(d)
    BY <1>5, <2>2
  <2>5. <<Below(x), Below(d)>> \in StrictSubsetOrdering(Drv)
    <3>1. Below(x) \in SUBSET Drv /\ Below(d) \in SUBSET Drv /\ Below(x) # Below(d)
      BY <2>3
    <3> HIDE DEF Below
    <3> QED
      BY <2>4, <3>1 DEF StrictSubsetOrdering
  <2> QED
    BY <1>3, <1>4, <2>5
<1> QED
  BY <1>5

(* An empty queue with nothing in flight means that every Step is decided, *)
(* for every acyclic graph: among the Steps that would still wait, one of  *)
(* least rank waits for an input that neither succeeded nor failed, hence  *)
(* waits itself.  run_build_phase ends on this test (worker.rs:928).       *)
THEOREM DrainedIsDone == Spec => []DrainedMeansDone
<1>1. ASSUME IInv, FailurePropagates PROVE DrainedMeansDone
  <2> SUFFICES ASSUME LoadFirst, pending = {}, in_flight = {},
                      NEW e \in by_drv, state[e] \notin Terminal
               PROVE  FALSE
    BY DEF DrainedMeansDone
  <2> DEFINE W == {d \in by_drv : state[d] = "Pending"}
  <2>1. by_drv \subseteq Drv
    BY <1>1 DEF IInv, TypeOK
  <2>2. \A d \in by_drv : state[d] \notin Terminal => d \in W
    <3>1. \A d \in by_drv : state[d] \notin {"Ready", "Running"}
      BY <1>1, <2>1 DEF IInv, TokensOK, TokensFor
    <3> QED
      BY SMTT(30), <1>1, <2>1, <3>1 DEF IInv, TypeOK, StepState
  <2>3. PICK rank \in [Drv -> 0 .. Cardinality(Drv)] :
          \A d \in Drv : \A i \in Inputs[d] : rank[i] < rank[d]
    BY InputsAcyclic
  <2>4. PICK d \in W : \A x \in W : ~(rank[x] < rank[d])
    <3>1. W \in SUBSET Drv /\ W # {}
      BY <2>1, <2>2
    <3> HIDE DEF W
    <3> QED
      BY <2>3, <3>1, LeastRanked
  <2> DEFINE U == {x \in EdgeDeps(d) : state[x] \notin Successful}
  <2>5. Cardinality(U) # 0
    BY <1>1 DEF IInv, CountsOK, CountExact
  <2>6. PICK x \in U : TRUE
    BY SMTT(30), <2>5, FS_EmptySet
  <2>7. x \in by_drv /\ d \in rdeps[x] /\ x \in Inputs[d]
    BY <1>1, <2>1 DEF EdgeDeps, IInv, GraphOK
  <2>8. state[x] \notin Failed
    BY <1>1, <2>7 DEF FailurePropagates, Failed
  <2>9. x \in W
    BY <2>2, <2>6, <2>7, <2>8 DEF Terminal
  <2> QED
    BY <2>1, <2>3, <2>4, <2>7, <2>9
<1> QED
  BY <1>1, Invariance, FailuresPropagate, PTL
=============================================================================
