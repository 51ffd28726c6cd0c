----------------------------- MODULE PoolBuild -----------------------------
(***************************************************************************)
(* Building Jobs on the builder pool: the dispatch loop of build_one and   *)
(* the orchestration of one attempt, dispatch_pool_build (argunix-daemon,  *)
(* worker.rs), with the wire side of dispatcher.rs and the lifecycle       *)
(* messages of the agents, over the registry of module BuilderRegistry.    *)
(*                                                                         *)
(* A Job runs: take a transfer permit, pick a builder, reserve a slot on   *)
(* it, push the closure, give the permit back, send Build and drain the    *)
(* build's lifecycle channel, take a permit again, pull the outputs.  A    *)
(* broken connection ends the attempt, excludes the connection that was    *)
(* picked and starts over.  Each await of the code separates two actions.  *)
(*                                                                         *)
(* An attempt is known by the connection it picked, which is excluded when *)
(* it fails; a task of an agent by the attempt, the connection that Build  *)
(* was written to, and the Job.                                            *)
(***************************************************************************)
EXTENDS BuilderRegistry

CONSTANTS
  Permits,     \* schedule.build_concurrency
  BuilderWait, \* FALSE iff schedule.builder_wait_seconds = 0
  MayCancel    \* whether evaluations get cancelled

ASSUME PoolConstants ==
  /\ Permits \in Nat \ {0}
  /\ BuilderWait \in BOOLEAN
  /\ MayCancel \in BOOLEAN
  /\ "none" \notin Builder

VARIABLES
  pc,         \* [Job -> Where]
  target,     \* [Job -> Builder or "none"], the builder picked
  picked,     \* [Job -> Conn or NoConn], connection id in the picked snapshot
  sent,       \* [Job -> Conn or NoConn], connection whose session is used
  excluded,   \* [Job -> SUBSET Conn]
  slot,       \* [Job -> Builder or "none"], the BuilderSlot held
  permit,     \* Jobs whose TransferSlot holds a permit
  waited,     \* Jobs that have used up the enrolment wait
  cancelled,  \* Jobs whose cancel token has fired
  aborted,    \* Jobs that have sent Abort because of it
  inbox,      \* [Job -> BuildOutcomeStatus or "none"], Finished event queued
  agent,      \* <<picked, sent, Job>>, the tasks in which agents build
  senders,    \* the tasks whose abort sender is in their agent's in_flight
  reported,   \* tasks that reported while their Job was under way
  verdict,    \* [Job -> outcome of the attempt], once there is one
  row,        \* [Job -> JobStatus], what build_one wrote
  said        \* history: [Job -> SUBSET], what the Job's worker was told

attempt == <<target, picked, sent, slot>>
agents  == <<agent, senders, reported>>
jobvars == <<pc, target, picked, sent, excluded, slot, permit, waited, cancelled,
             aborted, inbox, agent, senders, reported, verdict, row, said>>
poolvars == <<regvars, jobvars>>

Where == {"start", "top", "pick", "match", "capacity", "enrol", "reserve",
          "reserved", "push", "session", "insert", "write", "drain", "grace",
          "log", "await_pull", "pull", "record", "done"}
None == "none"
BuildOutcome == {"Success", "Failure", "Killed"}
-----------------------------------------------------------------------------
At(j, w)   == pc[j] = w
Goto(j, w) == pc' = [pc EXCEPT ![j] = w]

Free == Permits - Cardinality(permit)

(* A step of one Job that touches neither the registry nor the attempt.    *)
Quiet == UNCHANGED <<regvars, attempt, excluded, waited, cancelled, aborted,
                     inbox, agents, verdict, row, said>>

(* Slip: the sender stays behind.                                          *)
unregister_never(j) == in_flight_builds

unregister_in_flight_build(j) == in_flight_builds \ {<<target[j], j>>}

(* dispatch_pool_build returns, however it ended: the sender is gone, the  *)
(* PhaseGuard and the BuilderSlot are dropped.                             *)
leave(j) ==
  LET b == target[j]
  IN  /\ in_flight' = IF slot[j] = None THEN in_flight ELSE dec_in_flight(slot[j])
      /\ in_flight_builds' = unregister_in_flight_build(j)
      /\ phases' = IF b = None THEN phases ELSE with_phase(b, j, None)
      /\ target' = [target EXCEPT ![j] = None]
      /\ picked' = [picked EXCEPT ![j] = NoConn]
      /\ sent' = [sent EXCEPT ![j] = NoConn]
      /\ slot' = [slot EXCEPT ![j] = None]
      /\ inbox' = [inbox EXCEPT ![j] = None]
      /\ UNCHANGED <<registry, handlers>>

(* The loop is left with a status, which is then written to the row.       *)
finish(j, status) ==
  /\ leave(j)
  /\ Goto(j, "record")
  /\ verdict' = [verdict EXCEPT ![j] = status]
  /\ UNCHANGED <<excluded, permit, waited, cancelled, aborted, agents, row, said>>

(* The drain loop is left: the sender is unregistered, then the log is     *)
(* written.                                                                *)
settle(j, outcome) ==
  /\ in_flight_builds' = unregister_in_flight_build(j)
  /\ inbox' = [inbox EXCEPT ![j] = None]
  /\ verdict' = [verdict EXCEPT ![j] = outcome]
  /\ Goto(j, "log")
  /\ UNCHANGED <<registry, handlers, in_flight, phases, attempt, excluded, permit,
                 waited, cancelled, aborted, agents, row, said>>

(* Slip: the broken connection is not excluded.                            *)
transport_failure_again(j) ==
  /\ leave(j)
  /\ Goto(j, "top")
  /\ verdict' = [verdict EXCEPT ![j] = None]
  /\ UNCHANGED <<permit, excluded, waited, cancelled, aborted, agents, row, said>>

(* PoolAttempt::TransportFailure: exclude the connection and start over.   *)
transport_failure(j) ==
  /\ leave(j)
  /\ Goto(j, "top")
  /\ excluded' = [excluded EXCEPT ![j] = @ \cup {picked[j]}]
  /\ verdict' = [verdict EXCEPT ![j] = None]
  /\ UNCHANGED <<permit, waited, cancelled, aborted, agents, row, said>>
-----------------------------------------------------------------------------
PoolInit ==
  /\ RegInit
  /\ pc = [j \in Job |-> "start"]
  /\ target = [j \in Job |-> None]
  /\ picked = [j \in Job |-> NoConn]
  /\ sent = [j \in Job |-> NoConn]
  /\ excluded = [j \in Job |-> {}]
  /\ slot = [j \in Job |-> None]
  /\ permit = {}
  /\ waited = {}
  /\ cancelled = {}
  /\ aborted = {}
  /\ inbox = [j \in Job |-> None]
  /\ agent = {}
  /\ senders = {}
  /\ reported = {}
  /\ verdict = [j \in Job |-> None]
  /\ row = [j \in Job |-> "Queued"]
  /\ said = [j \in Job |-> {}]

(* The build phase starts build_one with a permit in hand.                 *)
build_one(j) ==
  /\ At(j, "start") /\ Free > 0
  /\ permit' = permit \cup {j}
  /\ Goto(j, "top")
  /\ Quiet

cancel(j) ==
  /\ MayCancel
  /\ pc[j] \notin {"start", "done"}
  /\ j \notin cancelled
  /\ cancelled' = cancelled \cup {j}
  /\ UNCHANGED <<regvars, pc, attempt, excluded, permit, waited, aborted, inbox,
                 agents, verdict, row, said>>

(* TransferSlot::acquire, at the top of the loop; start_pull has the other *)
(* one.  It looks at the token only when it has to wait.                   *)
acquire(j) ==
  /\ At(j, "top")
  /\ j \in permit \/ (j \notin cancelled /\ Free > 0)
  /\ permit' = permit \cup {j}
  /\ Goto(j, "pick")
  /\ Quiet

acquire_cancelled(j) ==
  /\ pc[j] \in {"top", "await_pull"}
  /\ j \notin permit /\ j \in cancelled
  /\ finish(j, "Cancelled")

(* pick_builder_for_spec: the least loaded eligible builder.               *)
pick_builder_for_spec(j) ==
  LET found == eligible(j, excluded[j])
  IN  /\ At(j, "pick")
      /\ \/ \E b \in found :
              /\ \A a \in found : in_flight[b] <= in_flight[a]
              /\ target' = [target EXCEPT ![j] = b]
              /\ picked' = [picked EXCEPT ![j] = inner[b]]
              /\ Goto(j, "reserve")
         \/ /\ found = {}
            /\ Goto(j, "match")
            /\ UNCHANGED <<target, picked>>
      /\ UNCHANGED <<regvars, sent, slot, excluded, permit, waited, cancelled,
                     aborted, inbox, agents, verdict, row, said>>

(* Nothing eligible: wait for capacity, wait for a builder, or give up.    *)
no_builder(j) ==
  LET has_match == any_matching_builder(j, excluded[j])
  IN  /\ At(j, "match")
      /\ \/ /\ has_match
            /\ permit' = permit \ {j}
            /\ Goto(j, "capacity")
            /\ Quiet
         \/ /\ ~has_match /\ BuilderWait /\ j \notin waited
            /\ permit' = permit \ {j}
            /\ waited' = waited \cup {j}
            /\ Goto(j, "enrol")
            /\ UNCHANGED <<regvars, attempt, excluded, cancelled, aborted, inbox,
                           agents, verdict, row, said>>
         \/ /\ ~has_match /\ ~(BuilderWait /\ j \notin waited)
            /\ finish(j, "Interrupted")

(* One poll of the capacity wait, and of the enrolment wait.               *)
capacity_poll(j) ==
  /\ At(j, "capacity")
  /\ \/ /\ j \in cancelled
        /\ finish(j, "Cancelled")
     \/ /\ j \notin cancelled
        /\ eligible(j, excluded[j]) # {} \/ ~any_matching_builder(j, excluded[j])
        /\ Goto(j, "top")
        /\ UNCHANGED permit
        /\ Quiet

enrol_poll(j) ==
  /\ At(j, "enrol")
  /\ \/ /\ j \in cancelled
        /\ finish(j, "Cancelled")
     \/ /\ any_matching_builder(j, excluded[j])
        /\ Goto(j, "top")
        /\ UNCHANGED permit
        /\ Quiet

enrol_deadline(j) ==
  /\ At(j, "enrol")
  /\ ~any_matching_builder(j, excluded[j])
  /\ finish(j, "Interrupted")
-----------------------------------------------------------------------------
(* BuilderSlot::reserve, under the builder's name.                         *)
reserve(j) ==
  /\ At(j, "reserve")
  /\ in_flight' = inc_in_flight(target[j])
  /\ slot' = [slot EXCEPT ![j] = target[j]]
  /\ row' = [row EXCEPT ![j] = "Running"]
  /\ Goto(j, "reserved")
  /\ UNCHANGED <<registry, handlers, in_flight_builds, phases, target, picked, sent,
                 excluded, permit, waited, cancelled, aborted, inbox, agents, verdict,
                 said>>

(* Slip: the phase counts as a sign of life.                               *)
set_phase_touching(j, p) ==
  /\ phases' = with_phase(target[j], j, p)
  /\ touch_activity(target[j])
  /\ UNCHANGED <<inner, conn_state, native_seen, handlers, in_flight,
                 in_flight_builds, attempt, excluded, waited, cancelled, aborted,
                 inbox, agents, verdict, row, said>>

set_phase(j, p) ==
  /\ phases' = with_phase(target[j], j, p)
  /\ UNCHANGED <<registry, handlers, in_flight, in_flight_builds, attempt, excluded,
                 waited, cancelled, aborted, inbox, agents, verdict, row, said>>

start_push(j) ==
  /\ At(j, "reserved")
  /\ set_phase(j, "Push")
  /\ Goto(j, "push")
  /\ UNCHANGED permit

(* nix_copy_phase: the copy is raced against the cancel token and against  *)
(* the builder's presence, by name, in the registry.                       *)
copy_cancelled(j) ==
  /\ pc[j] \in {"push", "pull"} /\ j \in cancelled
  /\ finish(j, "Cancelled")

(* BuilderGone: the poll of the registry, every two seconds.               *)
builder_gone(j) ==
  /\ pc[j] \in {"push", "pull"} /\ j \notin cancelled /\ ~Registered(target[j])
  /\ transport_failure(j)

(* Done(Err).                                                              *)
copy_error(j) ==
  /\ pc[j] \in {"push", "pull"} /\ j \notin cancelled
  /\ transport_failure(j)

(* Slip: the permit is kept while the builder builds.                      *)
push_done_keeping(j) ==
  /\ At(j, "push") /\ j \notin cancelled
  /\ set_phase(j, "Build")
  /\ Goto(j, "session")
  /\ UNCHANGED permit

push_done(j) ==
  /\ At(j, "push") /\ j \notin cancelled
  /\ set_phase(j, "Build")
  /\ permit' = permit \ {j}
  /\ Goto(j, "session")

(* dispatch_build: look the session up, install the sender, write Build.   *)
session(j) ==
  /\ At(j, "session")
  /\ \/ /\ ~Registered(target[j])
        /\ transport_failure(j)
     \/ /\ Registered(target[j])
        /\ sent' = [sent EXCEPT ![j] = inner[target[j]]]
        /\ Goto(j, "insert")
        /\ UNCHANGED <<regvars, target, picked, slot, excluded, permit, waited,
                       cancelled, aborted, inbox, agents, verdict, row, said>>

register_in_flight_build(j) ==
  /\ At(j, "insert")
  /\ in_flight_builds' = in_flight_builds \cup {<<target[j], j>>}
  /\ Goto(j, "write")
  /\ UNCHANGED <<registry, handlers, in_flight, phases, attempt, excluded, permit,
                 waited, cancelled, aborted, inbox, agents, verdict, row, said>>

(* The agent's in_flight map has one sender per build id.  That of a task  *)
(* still at work on the Job is replaced, and so dropped; a task that has   *)
(* reported removes the entry, before or after the new one is put there.   *)
Entry(t) == <<t[2], t[3]>>
Of(e, tasks) == {t \in tasks : Entry(t) = e}

dispatch_build(j) ==
  LET t == <<picked[j], sent[j], j>>
      others == senders \ Of(Entry(t), senders)
      repeated == Of(Entry(t), agent \cup reported) # {}
  IN  /\ At(j, "write")
      /\ \/ /\ stage[sent[j]] = "closed"
            /\ transport_failure(j)
         \/ /\ stage[sent[j]] # "closed"
            /\ agent' = agent \cup {t}
            /\ \/ senders' = others \cup {t}
               \/ senders' = others /\ Of(Entry(t), reported) # {}
            /\ said' = IF repeated THEN [said EXCEPT ![j] = @ \cup {"repeated"}] ELSE said
            /\ Goto(j, "drain")
            /\ UNCHANGED <<regvars, attempt, excluded, permit, waited, cancelled,
                           aborted, inbox, reported, verdict, row>>
-----------------------------------------------------------------------------
(* abort_build goes to whoever is registered under the name by now; an     *)
(* agent ignores it if it has no sender for the Job.                       *)
abort_build(j) == senders' = senders \ Of(<<inner[target[j]], j>>, senders)

ChannelOpen(j) == <<target[j], j>> \in in_flight_builds

(* What a finished build comes to; a Success with outputs is pulled first. *)
conclude(j, status) ==
  \/ /\ j \in aborted \/ status = "Killed"
     /\ settle(j, "Cancelled")
  \/ /\ j \notin aborted /\ status \in {"Failure", "Success"}
     /\ settle(j, status)
  \/ /\ j \notin aborted /\ status = "Success"
     /\ in_flight_builds' = unregister_in_flight_build(j)
     /\ inbox' = [inbox EXCEPT ![j] = None]
     /\ Goto(j, "await_pull")
     /\ UNCHANGED <<registry, handlers, in_flight, phases, attempt, excluded, permit,
                    waited, cancelled, aborted, agents, verdict, row, said>>

(* The select of the drain loop: events first, then the token, then the    *)
(* wall clock, which is off once Abort has been sent.                      *)
recv_finished(j) ==
  /\ At(j, "drain") /\ inbox[j] # None
  /\ conclude(j, inbox[j])

(* Slip: a closed channel is taken for a failed build.                     *)
recv_closed_failing(j) ==
  /\ At(j, "drain") /\ inbox[j] = None /\ ~ChannelOpen(j)
  /\ settle(j, IF j \in aborted THEN "Cancelled" ELSE "Failure")

recv_closed(j) ==
  /\ At(j, "drain") /\ inbox[j] = None /\ ~ChannelOpen(j)
  /\ settle(j, IF j \in aborted THEN "Cancelled" ELSE "transport")

recv_cancel(j) ==
  /\ At(j, "drain") /\ inbox[j] = None /\ ChannelOpen(j)
  /\ j \in cancelled /\ j \notin aborted
  /\ aborted' = aborted \cup {j}
  /\ abort_build(j)
  /\ UNCHANGED <<regvars, pc, attempt, excluded, permit, waited, cancelled, inbox,
                 agent, reported, verdict, row, said>>

timeout(j) ==
  /\ At(j, "drain") /\ inbox[j] = None /\ ChannelOpen(j)
  /\ j \notin cancelled /\ j \notin aborted
  /\ abort_build(j)
  /\ said' = [said EXCEPT ![j] = @ \cup {"timeout"}]
  /\ Goto(j, "grace")
  /\ UNCHANGED <<regvars, attempt, excluded, permit, waited, cancelled, aborted,
                 inbox, agent, reported, verdict, row>>

(* The genuine Finished, the closed channel or a minute of silence: after  *)
(* a timeout all of them read as a failure.                                *)
grace_over(j) ==
  /\ At(j, "grace")
  /\ settle(j, "Failure")

write_log(j) ==
  /\ At(j, "log")
  /\ IF verdict[j] = "transport" THEN transport_failure(j) ELSE finish(j, verdict[j])

start_pull(j) ==
  /\ At(j, "await_pull") /\ j \notin cancelled /\ Free > 0
  /\ permit' = permit \cup {j}
  /\ set_phase(j, "Pull")
  /\ Goto(j, "pull")

pull_done(j) ==
  /\ At(j, "pull") /\ j \notin cancelled
  /\ finish(j, "Success")

(* build_one writes the row and returns; the TransferSlot is dropped.  The *)
(* agents' memory of its tasks is of no more consequence.                  *)
record(j) ==
  /\ At(j, "record")
  /\ row' = [row EXCEPT ![j] = verdict[j]]
  /\ verdict' = [verdict EXCEPT ![j] = None]
  /\ permit' = permit \ {j}
  /\ excluded' = [excluded EXCEPT ![j] = {}]
  /\ waited' = waited \ {j}
  /\ senders' = {t \in senders : t[3] # j}
  /\ reported' = {t \in reported : t[3] # j}
  /\ said' = [said EXCEPT ![j] = {}]
  /\ Goto(j, "done")
  /\ UNCHANGED <<regvars, attempt, cancelled, aborted, inbox, agent>>
-----------------------------------------------------------------------------
(* The agents.  A task ends with its child: killed, if the abort receiver  *)
(* fired, which it does when the sender is used and when it is dropped.    *)
handle_build(t, status) ==
  /\ t \in agent
  /\ status = "Killed" => t \notin senders

(* What connection c reports of Job j is forwarded by name; any frame      *)
(* refreshes the builder's liveness clock.                                 *)
forward_finished(t, status) ==
  LET c == t[2]
      j == t[3]
      b == registered_name[c]
  IN  /\ stage[c] = "registered"
      /\ handle_build(t, status)
      /\ agent' = agent \ {t}
      /\ senders' = senders \ Of(Entry(t), senders)
      /\ reported' = IF At(j, "done") THEN reported ELSE reported \cup {t}
      /\ touch_activity(b)
      /\ \/ /\ <<b, j>> \in in_flight_builds /\ inbox[j] = None
            /\ inbox' = [inbox EXCEPT ![j] = status]
            /\ said' = [said EXCEPT ![j] = @ \cup {status}]
         \/ /\ <<b, j>> \notin in_flight_builds \/ inbox[j] # None
            /\ UNCHANGED <<inbox, said>>
      /\ UNCHANGED <<inner, conn_state, native_seen, builds, handlers, pc, attempt,
                     excluded, permit, waited, cancelled, aborted, verdict, row>>

(* A connection that closes takes its agent's memory of the builds along.  *)
pool(A) ==
  /\ A
  /\ agent' = {t \in agent : stage'[t[2]] # "closed"}
  /\ senders' = {t \in senders : stage'[t[2]] # "closed"}
  /\ reported' = {t \in reported : stage'[t[2]] # "closed"}
  /\ UNCHANGED <<pc, attempt, excluded, permit, waited, cancelled, aborted, inbox,
                 verdict, row, said>>

DaemonStep(j) ==
  \/ build_one(j)
  \/ acquire(j) \/ acquire_cancelled(j)
  \/ pick_builder_for_spec(j) \/ no_builder(j)
  \/ capacity_poll(j) \/ enrol_poll(j) \/ enrol_deadline(j)
  \/ reserve(j) \/ start_push(j)
  \/ builder_gone(j) \/ copy_cancelled(j)
  \/ session(j) \/ register_in_flight_build(j) \/ dispatch_build(j)
  \/ recv_finished(j) \/ recv_closed(j) \/ recv_cancel(j)
  \/ timeout(j) \/ grace_over(j) \/ write_log(j)
  \/ start_pull(j) \/ record(j)

CopyStep(j) == push_done(j) \/ pull_done(j) \/ copy_error(j)

PoolNext ==
  \/ \E j \in Job : DaemonStep(j) \/ CopyStep(j) \/ cancel(j)
  \/ \E t \in agent, status \in BuildOutcome : forward_finished(t, status)
  \/ pool(PoolStep)

PoolSpec == PoolInit /\ [][PoolNext]_poolvars

(* Fairness.  Every future of build_one is polled until it is done and its *)
(* sleeps and timeouts elapse, a control frame is written or fails (the    *)
(* keepalive of server.rs:70-79), and the spill grace runs out.  Nothing   *)
(* is assumed of nix copy, which has no timeout (closure_xfer.rs:255), of  *)
(* the agents, or of connections coming and going.                         *)
PoolFairness ==
  /\ \A j \in Job : WF_poolvars(DaemonStep(j))
  /\ WF_poolvars(pool(grace_expires))

PoolFairSpec == PoolSpec /\ PoolFairness
-----------------------------------------------------------------------------
PoolTypeOK ==
  /\ RegTypeOK
  /\ pc \in [Job -> Where]
  /\ target \in [Job -> Builder \cup {None}]
  /\ picked \in [Job -> Conn \cup {NoConn}]
  /\ sent \in [Job -> Conn \cup {NoConn}]
  /\ excluded \in [Job -> SUBSET Conn]
  /\ slot \in [Job -> Builder \cup {None}]
  /\ permit \subseteq Job
  /\ waited \subseteq Job
  /\ cancelled \subseteq Job
  /\ aborted \subseteq cancelled
  /\ inbox \in [Job -> BuildOutcome \cup {None}]
  /\ agent \cup senders \cup reported \subseteq Conn \X Conn \X Job
  /\ verdict \in [Job -> {"Success", "Failure", "Cancelled", "Interrupted", "transport", None}]
  /\ row \in [Job -> {"Queued", "Running", "Success", "Failure", "Cancelled", "Interrupted"}]
  /\ said \in [Job -> SUBSET (BuildOutcome \cup {"timeout", "repeated"})]

Holders(b) == {j \in Job : slot[j] = b}

Genuine(j, status) ==
  /\ status = "Success" => "Success" \in said[j]
  /\ status = "Failure" => said[j] \cap {"Failure", "timeout"} # {}
  /\ status = "Cancelled" => j \in cancelled \/ {"repeated", "Killed"} \subseteq said[j]

(* A row is given the status that an agent reported, whatever connections  *)
(* broke, reconnected or answered late: a broken transport is never        *)
(* recorded as a failed build ("the derivation never actually failed to    *)
(* build", worker.rs:2707-2710).  A Job is recorded Cancelled because it   *)
(* was, or because an agent reported Killed unasked (worker.rs:3154-3157); *)
(* that happens only when the Build of a retry reached a connection on     *)
(* which an earlier task of the Job was still known (agent.rs:553-556,     *)
(* 593-596).                                                               *)
VerdictIsGenuine == [][\A j \in Job : row'[j] # row[j] => Genuine(j, row'[j])]_poolvars

(* The in_flight gauge never exceeds the slots held: no sequence of        *)
(* failures, evictions and late drops of BuilderSlots eats a builder's     *)
(* capacity for good (registry.rs:635-656).                                *)
GaugeNeverLeaks == \A b \in Builder : in_flight[b] <= Cardinality(Holders(b))

(* A lifecycle sender and a phase belong to a Job that is at that builder  *)
(* now; every exit path of dispatch_pool_build takes them away again.      *)
EntriesHaveOwners ==
  \A b \in Builder, j \in Job :
    /\ <<b, j>> \in in_flight_builds => target[j] = b /\ pc[j] \in {"write", "drain", "grace"}
    /\ phases[<<b, j>>] # None => target[j] = b /\ slot[j] = b

(* A transfer permit is held for coordinator work only: not by a Job that  *)
(* waits, drains a remote build or is over (worker.rs:64-73).              *)
PermitOnlyForTransfers ==
  \A j \in permit : pc[j] \in {"top", "pick", "match", "reserve", "reserved", "push",
                               "pull", "record"}

(* The registry's promises survive the workers: PoolBuild implements       *)
(* BuilderRegistry, whose workers may call anything at any time.           *)
ImplementsRegistry == RegSpec

Copying(j) == pc[j] \in {"push", "pull"}

(* The capacity wait of a Job whose native builder is connected but was    *)
(* excluded, or lacks the features: the holdoff keeps others away.         *)
HeldOff(j) ==
  /\ At(j, "capacity")
  /\ Grace
  /\ \E b \in Native : Active(b) /\ (inner[b] \in excluded[j] \/ b \notin Capable[j])

CopyStalls == \E j \in Job : <>[]Copying(j)

(* Every dispatch loop ends, with an answer or Interrupted when no builder *)
(* is left, whatever breaks and however the Jobs queue for permits and     *)
(* slots (worker.rs:2083-2090): only a nix copy that hangs on a builder    *)
(* that stays connected, or the holdoff above, can keep a Job for ever.    *)
DispatchEnds ==
  \/ CopyStalls
  \/ \E j \in Job : <>[]HeldOff(j)
  \/ \A j \in Job : At(j, "top") ~> At(j, "done")

(* worker.rs:2083-2085: "each transport-failed builder is excluded after   *)
(* at most one attempt, so the loop terminates once the matching set is    *)
(* exhausted via that path".                                               *)
ExhaustionEnds == CopyStalls \/ \A j \in Job : At(j, "top") ~> At(j, "done")

(* worker.rs:1018-1021: after a cancel, "the per-build wall-clock timeout  *)
(* bounds how long a wedged agent can keep us here".                       *)
CancelEnds == \A j \in Job : j \in cancelled ~> At(j, "done")
=============================================================================
