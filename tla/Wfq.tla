-------------------------------- MODULE Wfq --------------------------------
(***************************************************************************)
(* The weighted-fair queue of argunix-sched (wfq.rs): one FIFO of tags per *)
(* repository, and a virtual time per repository that decides whose turn   *)
(* it is.                                                                  *)
(*                                                                         *)
(* Virtual times are multiples of 1/Unit, where Unit is a common multiple  *)
(* of the weights in use, so that 1.0/weight is the integer Unit \div      *)
(* weight.  (The code's f64 sums are exact for weights that are powers of  *)
(* two.)  An unknown repository is one of weight NoWeight.                 *)
(***************************************************************************)
EXTENDS Integers, Sequences, FiniteSets, FiniteSetsExt

CONSTANTS
  Repo,     \* repositories
  Tag,      \* tags
  Cap,      \* concurrency cap; any value below 0 is the code's None
  Weights,  \* weights the configuration may ask for
  Unit      \* a common multiple of 1 and of the weights

ASSUME WeightsDivideUnit ==
  /\ Unit \in Nat \ {0}
  /\ \A w \in Weights : w \in Nat /\ (w > 0 => Unit % w = 0)

VARIABLES
  weight,        \* [Repo -> Nat], NoWeight for a repository not registered
  virtual_time,  \* [Repo -> Nat]
  queues,        \* [Repo -> Seq([seq : Nat, tag : Tag])]
  running,       \* the in_flight map: a set of <<tag, repo>> pairs
  next_seq,      \* enqueue sequence number
  idled          \* history: the queue was once emptied after its first enqueue

vars == <<weight, virtual_time, queues, running, next_seq, idled>>

NoWeight == 0
DEFAULT_WEIGHT == 1

AtLeast(w, floor) == IF w < floor THEN floor ELSE w

has_pending(r) == queues[r] # <<>>
Backlogged == {r \in Repo : has_pending(r)}

TagsOf(r) == {queues[r][i].tag : i \in DOMAIN queues[r]}
PendingTags == UNION {TagsOf(r) : r \in Repo}
RunningTags == {p[1] : p \in running}

(* The history variable's value once the queues are q.                     *)
Idled(q) == idled \/ (next_seq > 0 /\ \A r \in Repo : q[r] = <<>>)

Init ==
  /\ weight = [r \in Repo |-> NoWeight]
  /\ virtual_time = [r \in Repo |-> 0]
  /\ queues = [r \in Repo |-> <<>>]
  /\ running = {}
  /\ next_seq = 0
  /\ idled = FALSE

set_weight(r, w) ==
  /\ weight' = [weight EXCEPT ![r] = AtLeast(w, 1)]
  /\ UNCHANGED <<virtual_time, queues, running, next_seq, idled>>

(* Slip: an idle repository keeps its old virtual time.                    *)
Snapped_never(r) == virtual_time[r]

(* The repository is pulled forward to the system virtual time, the least  *)
(* of the backlogged repositories', if it was idle and any other was not.  *)
Snapped(r) ==
  IF ~has_pending(r) /\ Backlogged # {}
  THEN AtLeast(virtual_time[r], Min({virtual_time[s] : s \in Backlogged}))
  ELSE virtual_time[r]

(* Slip: a new entry goes to the front.                                    *)
enqueue_front(r, t) ==
  /\ weight' = [weight EXCEPT ![r] = IF @ = NoWeight THEN DEFAULT_WEIGHT ELSE @]
  /\ virtual_time' = [virtual_time EXCEPT ![r] = Snapped(r)]
  /\ queues' = [queues EXCEPT ![r] = <<[seq |-> next_seq, tag |-> t]>> \o @]
  /\ next_seq' = next_seq + 1
  /\ UNCHANGED <<running, idled>>

enqueue(r, t) ==
  /\ weight' = [weight EXCEPT ![r] = IF @ = NoWeight THEN DEFAULT_WEIGHT ELSE @]
  /\ virtual_time' = [virtual_time EXCEPT ![r] = Snapped(r)]
  /\ queues' = [queues EXCEPT ![r] = Append(@, [seq |-> next_seq, tag |-> t])]
  /\ next_seq' = next_seq + 1
  /\ UNCHANGED <<running, idled>>

(* Slip: off by one at the cap.                                            *)
HasRoom_late == Cap < 0 \/ Cardinality(running) <= Cap

HasRoom == Cap < 0 \/ Cardinality(running) < Cap

(* Slip: no tie-break between equal virtual times.                         *)
Before_strict(r, s) == virtual_time[r] < virtual_time[s]

(* r is served before s: lower virtual time, then older head entry.        *)
Before(r, s) ==
  \/ virtual_time[r] < virtual_time[s]
  \/ virtual_time[r] = virtual_time[s] /\ queues[r][1].seq < queues[s][1].seq

Turn(r) == r \in Backlogged /\ \A s \in Backlogged \ {r} : Before(r, s)

(* Slip: the charge has the wrong sign.                                    *)
Charge_back(r) == -(Unit \div weight[r])

(* What a dispatch costs the repository: 1.0 / weight.                     *)
Charge(r) == Unit \div weight[r]

dispatch(r) ==
  /\ HasRoom
  /\ Turn(r)
  /\ queues' = [queues EXCEPT ![r] = Tail(@)]
  /\ virtual_time' = [virtual_time EXCEPT ![r] = @ + Charge(r)]
  /\ running' = {p \in running : p[1] # queues[r][1].tag} \cup {<<queues[r][1].tag, r>>}
  /\ idled' = Idled(queues')
  /\ UNCHANGED <<weight, next_seq>>

complete(t) ==
  /\ running' = {p \in running : p[1] # t}
  /\ UNCHANGED <<weight, virtual_time, queues, next_seq, idled>>

cancel_pending(S) ==
  /\ queues' = [r \in Repo |-> SelectSeq(queues[r], LAMBDA e : e.tag \notin S)]
  /\ idled' = Idled(queues')
  /\ UNCHANGED <<weight, virtual_time, running, next_seq>>
-----------------------------------------------------------------------------
TypeOK ==
  /\ weight \in [Repo -> Nat]
  /\ virtual_time \in [Repo -> Nat]
  /\ \A r \in Repo : \A i \in DOMAIN queues[r] : queues[r][i] \in [seq : Nat, tag : Tag]
  /\ running \subseteq Tag \X Repo
  /\ next_seq \in Nat

(* Until the queue first runs empty, two repositories with work waiting    *)
(* are never further apart than one dispatch of a weight-1 repository,     *)
(* whatever the weights and however enqueues, dispatches and cancellations *)
(* interleave: none can monopolise the scheduler (wfq.rs:23-28).           *)
FairWhileBusy ==
  ~idled => \A r, s \in Backlogged : virtual_time[r] - virtual_time[s] <= Unit

(* Somebody can always be served: the order on backlogged repositories has *)
(* a unique first, so HashMap iteration order cannot change the outcome.   *)
TurnUnique ==
  Backlogged # {} => Cardinality({r \in Repo : Turn(r)}) = 1

(* Within one repository dispatch order is enqueue order.                  *)
FifoPerRepo ==
  \A r \in Repo : \A i, k \in DOMAIN queues[r] :
    i < k => queues[r][i].seq < queues[r][k].seq

(* The queue implements the pool of tags that the strategies rely on: it   *)
(* hands out only what was put in, once, and respects the cap.             *)
Pool == INSTANCE TagPool WITH pool <- PendingTags, busy <- RunningTags
RefinesPool == Pool!PoolSpec
=============================================================================
