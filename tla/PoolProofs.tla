----------------------------- MODULE PoolProofs -----------------------------
(***************************************************************************)
(* Proofs about PoolBuild, for any number of Jobs, builders, connections   *)
(* and permits: what the in_flight gauge says of a builder never exceeds   *)
(* the slots that are held on it.                                          *)
(***************************************************************************)
EXTENDS PoolBuild, FiniteSetTheorems, TLAPS

(* Where build_one holds no BuilderSlot.                                   *)
Unslotted == {"start", "top", "pick", "match", "capacity", "enrol", "reserve", "record", "done"}

SlotOK ==
  /\ in_flight \in [Builder -> Nat]
  /\ pc \in [Job -> Where]
  /\ target \in [Job -> Builder \cup {None}]
  /\ slot \in [Job -> Builder \cup {None}]
  /\ \A j \in Job : pc[j] \in Unslotted => slot[j] = None

GaugeInv == SlotOK /\ GaugeNeverLeaks

(* The three ways in which a step of Job j touches slots: it keeps the one *)
(* it has, drops it, or reserves one.                                      *)
Keeps(j) ==
  /\ UNCHANGED <<in_flight, slot>>
  /\ target' \in [Job -> Builder \cup {None}]
  /\ \E w \in Where : Goto(j, w) /\ (w \in Unslotted => pc[j] \in Unslotted)

Drops(j) == leave(j) /\ \E w \in {"top", "record"} : Goto(j, w)

LEMMA NoneIsNoBuilder == None \notin Builder
  BY Zenon, PoolConstants DEF None

LEMMA HoldersFinite ==
  ASSUME NEW b
  PROVE  /\ IsFiniteSet(Holders(b)) /\ Cardinality(Holders(b)) \in Nat
         /\ Holders(b) \subseteq Job
<1>1. Holders(b) \subseteq Job /\ IsFiniteSet(Job)
  BY Zenon, RegistryConstants DEF Holders
<1>2. IsFiniteSet(Holders(b))
  BY Zenon, <1>1, FS_Subset
<1> QED
  BY Zenon, <1>1, <1>2, FS_CardinalityType

(* A step that lowers gauges, or leaves them, and keeps the slots.         *)
LEMMA GaugeKept ==
  ASSUME GaugeInv, UNCHANGED slot, in_flight' \in [Builder -> Nat],
         \A b \in Builder : in_flight'[b] <= in_flight[b]
  PROVE  GaugeNeverLeaks'
<1> SUFFICES ASSUME NEW b \in Builder PROVE in_flight'[b] <= Cardinality(Holders(b)')
  BY DEF GaugeNeverLeaks
<1>1. Holders(b)' = Holders(b)
  BY Zenon DEF Holders
<1>2. in_flight[b] \in Nat /\ in_flight'[b] \in Nat /\ in_flight[b] <= Cardinality(Holders(b))
  BY DEF GaugeInv, SlotOK, GaugeNeverLeaks
<1>3. Cardinality(Holders(b)) \in Nat
  BY Zenon, HoldersFinite
<1> QED
  BY <1>1, <1>2, <1>3

LEMMA KeepsStep ==
  ASSUME GaugeInv, NEW j \in Job, Keeps(j)
  PROVE  GaugeInv'
<1>1. PICK w \in Where : pc' = [pc EXCEPT ![j] = w] /\ (w \in Unslotted => pc[j] \in Unslotted)
  BY Zenon DEF Keeps, Goto
<1>2. SlotOK'
  BY <1>1 DEF GaugeInv, SlotOK, Keeps
<1>3. GaugeNeverLeaks'
  BY GaugeKept DEF GaugeInv, SlotOK, Keeps
<1> QED
  BY Zenon, <1>2, <1>3 DEF GaugeInv

LEMMA DropsStep ==
  ASSUME GaugeInv, NEW j \in Job, Drops(j)
  PROVE  GaugeInv'
<1>1. PICK w \in {"top", "record"} : pc' = [pc EXCEPT ![j] = w]
  BY Zenon DEF Drops, Goto
<1>2. /\ target' = [target EXCEPT ![j] = None] /\ slot' = [slot EXCEPT ![j] = None]
      /\ in_flight' = IF slot[j] = None THEN in_flight ELSE dec_in_flight(slot[j])
  BY Zenon DEF Drops, leave
<1>3. in_flight' \in [Builder -> Nat]
  BY <1>2 DEF GaugeInv, SlotOK, dec_in_flight
<1>4. SlotOK'
  BY <1>1, <1>2, <1>3 DEF GaugeInv, SlotOK, Where, Unslotted
<1>5. GaugeNeverLeaks'
  <2>1. CASE slot[j] = None
    <3>1. UNCHANGED <<slot, in_flight>>
      BY <1>2, <2>1 DEF GaugeInv, SlotOK
    <3> QED
      BY <3>1, <1>3, GaugeKept DEF GaugeInv, SlotOK
  <2>2. CASE slot[j] # None
    <3> SUFFICES ASSUME NEW b \in Builder PROVE in_flight'[b] <= Cardinality(Holders(b)')
      BY DEF GaugeNeverLeaks
    <3>1. /\ in_flight[b] \in Nat /\ in_flight[b] <= Cardinality(Holders(b))
          /\ Cardinality(Holders(b)) \in Nat
      BY HoldersFinite DEF GaugeInv, SlotOK, GaugeNeverLeaks
    <3>2. CASE slot[j] = b
      <4>1. j \in Holders(b)
        BY Zenon, <3>2 DEF Holders
      <4>2. Holders(b)' = Holders(b) \ {j}
        BY <1>2, <3>2, NoneIsNoBuilder DEF GaugeInv, SlotOK, Holders
      <4>3. Cardinality(Holders(b)') = Cardinality(Holders(b)) - 1
        BY Zenon, <4>1, <4>2, HoldersFinite, FS_RemoveElement
      <4>4. in_flight'[b] = IF in_flight[b] > 0 THEN in_flight[b] - 1 ELSE 0
        BY <1>2, <2>2, <3>2 DEF GaugeInv, SlotOK, dec_in_flight
      <4>5. Cardinality(Holders(b)) # 0
        BY Zenon, <4>1, HoldersFinite, FS_EmptySet
      <4> QED
        BY <3>1, <4>3, <4>4, <4>5
    <3>3. CASE slot[j] # b
      <4>1. Holders(b)' = Holders(b)
        BY <1>2, <3>3, NoneIsNoBuilder DEF GaugeInv, SlotOK, Holders
      <4>2. in_flight'[b] = in_flight[b]
        BY <1>2, <2>2, <3>3 DEF GaugeInv, SlotOK, dec_in_flight
      <4> QED
        BY Zenon, <3>1, <4>1, <4>2
    <3> QED
      BY Zenon, <3>2, <3>3
  <2> QED
    BY Zenon, <2>1, <2>2
<1> QED
  BY Zenon, <1>4, <1>5 DEF GaugeInv

LEMMA ReserveStep ==
  ASSUME GaugeInv, NEW j \in Job, reserve(j)
  PROVE  GaugeInv'
<1>1. /\ pc[j] = "reserve" /\ pc' = [pc EXCEPT ![j] = "reserved"]
      /\ in_flight' = inc_in_flight(target[j])
      /\ slot' = [slot EXCEPT ![j] = target[j]] /\ target' = target
  BY Zenon DEF reserve, At, Goto
<1>2. slot[j] = None
  BY <1>1 DEF GaugeInv, SlotOK, Unslotted
<1>3. SlotOK'
  <2>1. in_flight' \in [Builder -> Nat]
    <3>1. in_flight' = [in_flight EXCEPT ![target[j]] = in_flight[target[j]] + 1]
      BY Zenon, <1>1 DEF inc_in_flight
    <3>2. CASE target[j] \in Builder
      BY <3>1, <3>2 DEF GaugeInv, SlotOK
    <3>3. CASE target[j] \notin Builder
      BY <3>1, <3>3 DEF GaugeInv, SlotOK
    <3> QED
      BY Zenon, <3>2, <3>3
  <2>2. pc' \in [Job -> Where] /\ "reserved" \notin Unslotted
    BY <1>1 DEF GaugeInv, SlotOK, Where, Unslotted
  <2>3. slot' \in [Job -> Builder \cup {None}]
    BY <1>1 DEF GaugeInv, SlotOK
  <2>4. \A k \in Job : pc'[k] \in Unslotted => slot'[k] = None
    BY <1>1, <2>2 DEF GaugeInv, SlotOK
  <2> QED
    BY Zenon, <1>1, <2>1, <2>2, <2>3, <2>4 DEF GaugeInv, SlotOK
<1>4. GaugeNeverLeaks'
  <2> SUFFICES ASSUME NEW b \in Builder PROVE in_flight'[b] <= Cardinality(Holders(b)')
    BY DEF GaugeNeverLeaks
  <2>1. /\ in_flight[b] \in Nat /\ in_flight[b] <= Cardinality(Holders(b))
        /\ Cardinality(Holders(b)) \in Nat
    BY HoldersFinite DEF GaugeInv, SlotOK, GaugeNeverLeaks
  <2>2. j \notin Holders(b)
    BY Zenon, <1>2, NoneIsNoBuilder DEF Holders
  <2>3. CASE target[j] = b
    <3>1. Holders(b)' = Holders(b) \cup {j}
      BY <1>1, <2>3 DEF GaugeInv, SlotOK, Holders
    <3>2. Cardinality(Holders(b)') = Cardinality(Holders(b)) + 1
      BY Zenon, <2>2, <3>1, HoldersFinite, FS_AddElement
    <3>3. in_flight'[b] = in_flight[b] + 1
      BY <1>1, <2>3 DEF GaugeInv, SlotOK, inc_in_flight
    <3> QED
      BY <2>1, <3>2, <3>3
  <2>4. CASE target[j] # b
    <3>1. Holders(b)' = Holders(b)
      BY <1>1, <1>2, <2>4, NoneIsNoBuilder DEF GaugeInv, SlotOK, Holders
    <3>2. in_flight'[b] = in_flight[b]
      BY <1>1, <2>4 DEF GaugeInv, SlotOK, inc_in_flight
    <3> QED
      BY Zenon, <2>1, <3>1, <3>2
  <2> QED
    BY Zenon, <2>3, <2>4
<1> QED
  BY Zenon, <1>3, <1>4 DEF GaugeInv
-----------------------------------------------------------------------------
(* Every step of a Job is of one of the three kinds.                       *)
LEMMA FinishDrops ==
  ASSUME NEW j \in Job, NEW status, finish(j, status)
  PROVE  Drops(j)
  BY Zenon DEF finish, Drops

LEMMA FailureDrops ==
  ASSUME NEW j \in Job, transport_failure(j)
  PROVE  Drops(j)
  BY Zenon DEF transport_failure, Drops

LEMMA MoveKeeps ==
  ASSUME GaugeInv, NEW j \in Job, NEW w \in Where, Goto(j, w),
         w \in Unslotted => pc[j] \in Unslotted,
         UNCHANGED <<in_flight, slot, target>>
  PROVE  Keeps(j)
  BY Zenon DEF Keeps, GaugeInv, SlotOK

LEMMA SettleKeeps ==
  ASSUME GaugeInv, NEW j \in Job, NEW outcome, settle(j, outcome)
  PROVE  Keeps(j)
<1>1. Goto(j, "log") /\ UNCHANGED <<in_flight, slot, target>>
  BY Zenon DEF settle, attempt
<1>2. "log" \in Where /\ "log" \notin Unslotted
  BY DEF Where, Unslotted
<1> QED
  BY Zenon, <1>1, <1>2, MoveKeeps

LEMMA JobMoves ==
  ASSUME GaugeInv, NEW j \in Job, DaemonStep(j) \/ CopyStep(j)
  PROVE  Keeps(j) \/ Drops(j) \/ reserve(j) \/ UNCHANGED <<in_flight, pc, target, slot>>
<1> DEFINE Goal == Keeps(j) \/ Drops(j) \/ reserve(j) \/ UNCHANGED <<in_flight, pc, target, slot>>
<1> USE DEF At, Quiet, regvars, attempt
<1>w. /\ {"top", "pick", "match", "capacity", "enrol", "reserve"} \subseteq Where \cap Unslotted
      /\ {"push", "session", "insert", "write", "drain", "grace", "await_pull", "pull"}
           \subseteq Where \ Unslotted
      /\ "start" \in Unslotted /\ "done" \in Where /\ "record" \in Unslotted
  BY DEF Where, Unslotted
<1>1. ASSUME build_one(j) \/ acquire(j) PROVE Goal
  BY Zenon, <1>1, <1>w, MoveKeeps DEF build_one, acquire
<1>2. ASSUME \/ acquire_cancelled(j) \/ enrol_deadline(j) \/ copy_cancelled(j)
             \/ builder_gone(j) \/ copy_error(j) \/ pull_done(j) \/ write_log(j)
      PROVE  Goal
  BY Zenon, <1>2, FinishDrops, FailureDrops
     DEF acquire_cancelled, enrol_deadline, copy_cancelled, builder_gone, copy_error,
         pull_done, write_log
<1>3. ASSUME pick_builder_for_spec(j) PROVE Goal
  <2>1. UNCHANGED <<in_flight, slot>> /\ pc[j] = "pick"
    BY Zenon, <1>3 DEF pick_builder_for_spec
  <2>2. CASE target' = target /\ Goto(j, "match")
    BY Zenon, <1>w, <2>1, <2>2, MoveKeeps
  <2>3. ASSUME NEW b \in Builder, target' = [target EXCEPT ![j] = b], Goto(j, "reserve")
        PROVE  Goal
    <3>1. target' \in [Job -> Builder \cup {None}]
      BY <2>3 DEF GaugeInv, SlotOK
    <3> QED
      BY Zenon, <1>w, <2>1, <2>3, <3>1 DEF Keeps
  <2>4. eligible(j, excluded[j]) \subseteq Builder
    BY Zenon DEF eligible, system_candidates
  <2> QED
    BY Zenon, <1>3, <2>2, <2>3, <2>4 DEF pick_builder_for_spec
<1>4. ASSUME no_builder(j) PROVE Goal
  BY Zenon, <1>4, <1>w, FinishDrops, MoveKeeps DEF no_builder
<1>5. ASSUME capacity_poll(j) \/ enrol_poll(j) PROVE Goal
  BY Zenon, <1>5, <1>w, FinishDrops, MoveKeeps DEF capacity_poll, enrol_poll
<1>6. ASSUME start_push(j) \/ push_done(j) \/ start_pull(j) PROVE Goal
  BY Zenon, <1>6, <1>w, MoveKeeps DEF start_push, push_done, start_pull, set_phase
<1>7. ASSUME session(j) PROVE Goal
  BY Zenon, <1>7, <1>w, FailureDrops, MoveKeeps DEF session
<1>8. ASSUME register_in_flight_build(j) PROVE Goal
  BY Zenon, <1>8, <1>w, MoveKeeps DEF register_in_flight_build
<1>9. ASSUME dispatch_build(j) PROVE Goal
  BY Zenon, <1>9, <1>w, FailureDrops, MoveKeeps DEF dispatch_build
<1>10. ASSUME recv_finished(j) PROVE Goal
  BY Zenon, <1>10, <1>w, SettleKeeps, MoveKeeps DEF recv_finished, conclude
<1>11. ASSUME recv_closed(j) \/ grace_over(j) PROVE Goal
  BY Zenon, <1>11, SettleKeeps DEF recv_closed, grace_over
<1>12. ASSUME recv_cancel(j) PROVE Goal
  BY Zenon, <1>12 DEF recv_cancel
<1>13. ASSUME timeout(j) PROVE Goal
  BY Zenon, <1>13, <1>w, MoveKeeps DEF timeout
<1>14. ASSUME record(j) PROVE Goal
  BY Zenon, <1>14, <1>w, MoveKeeps DEF record
<1> QED
  BY Zenon, <1>1, <1>2, <1>3, <1>4, <1>5, <1>6, <1>7, <1>8, <1>9, <1>10, <1>11, <1>12,
     <1>13, <1>14 DEF DaemonStep, CopyStep

(* The registry's own steps reset gauges and raise none.                   *)
LEMMA RegistryLowers ==
  ASSUME in_flight \in [Builder -> Nat], PoolStep
  PROVE  /\ in_flight' \in [Builder -> Nat]
         /\ \A b \in Builder : in_flight'[b] <= in_flight[b]
<1> DEFINE Goal == /\ in_flight' \in [Builder -> Nat]
                   /\ \A b \in Builder : in_flight'[b] <= in_flight[b]
<1>1. ASSUME UNCHANGED in_flight PROVE Goal
  BY <1>1
<1>2. ASSUME NEW b, remove(b) PROVE Goal
  <2>1. in_flight' = [in_flight EXCEPT ![b] = 0]
    BY Zenon, <1>2 DEF remove
  <2>2. /\ in_flight' \in [Builder -> Nat]
        /\ \A a \in Builder : in_flight'[a] = 0 \/ in_flight'[a] = in_flight[a]
    BY <2>1
  <2> QED
    BY <2>2
<1>3. ASSUME NEW c \in Conn, ConnStep(c) PROVE Goal
  <2>1. CASE close(c)
    <3>1. remove(registered_name[c]) \/ UNCHANGED in_flight
      BY Zenon, <2>1 DEF close, remove_if_matches
    <3> QED
      BY Zenon, <1>1, <1>2, <3>1
  <2>2. CASE ~close(c)
    BY Zenon, <1>1, <1>3, <2>2
       DEF ConnStep, new_client, register, frame, shutdown, close_note, close_drain, builds
  <2> QED
    BY Zenon, <2>1, <2>2
<1>4. ASSUME NEW b \in Builder, stay_silent(b) \/ evict_dead(b) PROVE Goal
  BY Zenon, <1>1, <1>2, <1>4 DEF stay_silent, evict_dead, builds
<1>5. ASSUME grace_expires \/ stale_builders \/ evict_drain PROVE Goal
  BY Zenon, <1>1, <1>5 DEF grace_expires, stale_builders, evict_drain, builds
<1> QED
  BY Zenon, <1>3, <1>4, <1>5 DEF PoolStep, Watchdog

LEMMA GaugeStep ==
  ASSUME GaugeInv, [PoolNext]_poolvars
  PROVE  GaugeInv'
<1>1. ASSUME UNCHANGED <<in_flight, pc, target, slot>> PROVE GaugeInv'
  BY Zenon, <1>1 DEF GaugeInv, SlotOK, GaugeNeverLeaks, Holders
<1>2. ASSUME NEW j \in Job, DaemonStep(j) \/ CopyStep(j) PROVE GaugeInv'
  BY Zenon, <1>1, <1>2, JobMoves, KeepsStep, DropsStep, ReserveStep
<1>3. ASSUME NEW j \in Job, cancel(j) PROVE GaugeInv'
  BY Zenon, <1>1, <1>3 DEF cancel, regvars, attempt
<1>4. ASSUME NEW t \in agent, NEW status \in BuildOutcome, forward_finished(t, status)
      PROVE  GaugeInv'
  BY Zenon, <1>1, <1>4 DEF forward_finished, builds, attempt
<1>5. ASSUME pool(PoolStep) PROVE GaugeInv'
  <2>1. PoolStep /\ UNCHANGED <<pc, target, slot>>
    BY Zenon, <1>5 DEF pool, attempt
  <2>2. /\ in_flight' \in [Builder -> Nat]
        /\ \A b \in Builder : in_flight'[b] <= in_flight[b]
    BY Zenon, <2>1, RegistryLowers DEF GaugeInv, SlotOK
  <2>3. SlotOK'
    BY Zenon, <2>1, <2>2 DEF GaugeInv, SlotOK
  <2> QED
    BY Zenon, <2>1, <2>2, <2>3, GaugeKept DEF GaugeInv
<1>6. CASE UNCHANGED poolvars
  BY Zenon, <1>1, <1>6 DEF poolvars, regvars, jobvars
<1> QED
  BY Zenon, <1>2, <1>3, <1>4, <1>5, <1>6 DEF PoolNext

LEMMA GaugeStarts == PoolInit => GaugeInv
<1> SUFFICES ASSUME PoolInit PROVE GaugeInv
  OBVIOUS
<1>1. SlotOK
  BY DEF PoolInit, RegInit, SlotOK, Where, Unslotted
<1>2. GaugeNeverLeaks
  <2> SUFFICES ASSUME NEW b \in Builder PROVE in_flight[b] <= Cardinality(Holders(b))
    BY DEF GaugeNeverLeaks
  <2>1. Cardinality(Holders(b)) \in Nat /\ in_flight[b] = 0
    BY HoldersFinite DEF PoolInit, RegInit
  <2> QED
    BY <2>1
<1> QED
  BY Zenon, <1>1, <1>2 DEF GaugeInv

(* No sequence of failed attempts, reconnects, evictions and late drops of *)
(* BuilderSlots leaves a gauge above the slots held, so that none eats a   *)
(* builder's capacity for good (registry.rs:635-656), for any number of    *)
(* Jobs, builders and connections.                                         *)
THEOREM GaugesNeverLeak == PoolSpec => []GaugeNeverLeaks
<1>1. GaugeInv => GaugeNeverLeaks
  BY DEF GaugeInv
<1>2. GaugeInv /\ [PoolNext]_poolvars => GaugeInv'
  BY GaugeStep
<1> QED
  BY <1>1, <1>2, GaugeStarts, PTL DEF PoolSpec
=============================================================================
