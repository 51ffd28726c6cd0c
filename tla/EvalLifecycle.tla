--------------------------- MODULE EvalLifecycle ---------------------------
(***************************************************************************)
(* The life of evaluations, from the webhook to the last verdict and       *)
(* across restarts of the daemon.  Components: the webhook handlers        *)
(* (argunix-web webhook.rs `persist', coalesce.rs, cancel.rs), the status  *)
(* columns of the evaluations and jobs tables (argunix-store sqlite.rs),   *)
(* the serial worker and the build phases it detaches (worker.rs           *)
(* `process'), and the recovery passes at boot (main.rs `serve').          *)
(*                                                                         *)
(* One repository.  A run is one pickup of an evaluation by the worker: it *)
(* owns a CancelToken (`flag') and, once detached, a build phase, seen     *)
(* through the verdicts it writes; BuildPhase models its inside.  The      *)
(* CancelRegistry holds one token per evaluation: `registered' is TRUE in  *)
(* the run whose token that is.  Every database call is one atomic step    *)
(* and succeeds.                                                           *)
(***************************************************************************)
EXTENDS Naturals, Sequences, FiniteSets, SequencesExt

CONSTANTS
  Sha, Branch, Handler,
  Attrs,       \* how many attributes every evaluation yields
  MaxPushes,   \* bound: webhook deliveries, hence evaluations
  MaxCrashes   \* bound: deaths of the daemon

ASSUME LifecycleConstants ==
  /\ Attrs \in Nat \ {0}
  /\ {MaxPushes, MaxCrashes} \subseteq Nat

VARIABLES
  status,      \* [EvalId -> status], "None" before the row exists
  of,          \* [EvalId -> [branch, sha]]
  rows,        \* [EvalId -> Seq(job status)], the rows of the jobs table
  admitted,    \* the shas the CoalescePool has seen
  chan,        \* the mpsc channel to the worker
  runs,        \* the runs in progress, in the order of their pickup
  handler,     \* [Handler -> the webhook handler's locals]
  boot,        \* the recovery passes: [pc, todo]
  overlapped,  \* history: two deliveries were handled at a time
  pushes, crashes

store  == <<status, of, rows>>
memory == <<admitted, chan, runs, handler, boot>>
counts == <<overlapped, pushes, crashes>>
vars   == <<status, of, rows, admitted, chan, runs, handler, boot,
            overlapped, pushes, crashes>>

EvalId       == 1 .. MaxPushes
Active       == {"Queued", "Evaluating", "Building"}
EvalTerminal == {"EvaluationFailed", "Done", "Cancelled"}
JobTerminal  == {"Success", "Failure", "Cancelled"}
JobStatus    == JobTerminal \cup {"Queued", "Running", "Interrupted"}

None == "none"
Idle == [pc |-> "idle", branch |-> None, sha |-> None, todo |-> {}, id |-> 0]

Asc(S) == SetToSortSeq(S, <)

With(s) == {i \in EvalId : status[i] = s}

(* Slip: a terminal row is overwritten.                                    *)
guarded_any(i, s) == status' = [status EXCEPT ![i] = s]

(* EvalStore::start, finish, fail_with_reason, mark_building: the update   *)
(* of a row that is not terminal.                                          *)
guarded(i, s) ==
  status' = IF status[i] \in EvalTerminal THEN status ELSE [status EXCEPT ![i] = s]

(* Slip: a terminal row is overwritten.                                    *)
job_guarded_any(i, n, s) == rows' = [rows EXCEPT ![i][n] = s]

(* JobStore::dispatch and finish, guarded the same way.                    *)
job_guarded(i, n, s) ==
  rows' = IF rows[i][n] \in JobTerminal THEN rows ELSE [rows EXCEPT ![i][n] = s]
-----------------------------------------------------------------------------
Init ==
  /\ status = [i \in EvalId |-> "None"]
  /\ of = [i \in EvalId |-> [branch |-> None, sha |-> None]]
  /\ rows = [i \in EvalId |-> <<>>]
  /\ admitted = {}
  /\ chan = <<>>
  /\ runs = <<>>
  /\ handler = [h \in Handler |-> Idle]
  /\ boot = [pc |-> "serving", todo |-> {}]
  /\ overlapped = FALSE
  /\ pushes = 0
  /\ crashes = 0

Serving == boot.pc = "serving"
-----------------------------------------------------------------------------
(* The webhook handlers, `persist'.  Handlers of concurrent deliveries     *)
(* interleave at their database calls.                                     *)
Deliver(h, b, s) ==
  /\ Serving
  /\ pushes < MaxPushes
  /\ handler[h].pc = "idle"
  /\ handler' = [handler EXCEPT ![h] = [Idle EXCEPT !.pc = "admit", !.branch = b, !.sha = s]]
  /\ overlapped' = (overlapped \/ \E g \in Handler : handler[g].pc # "idle")
  /\ pushes' = pushes + 1
  /\ UNCHANGED <<store, admitted, chan, runs, boot, crashes>>

(* CoalescePool::admit: the first delivery of a sha within the window goes *)
(* on.  An entry older than the window is swept by the next `admit', so    *)
(* whether it still counts is decided there.                               *)
admit(h) ==
  /\ handler[h].pc = "admit"
  /\ admitted' = admitted \cup {handler[h].sha}
  /\ \/ /\ handler[h].sha \in admitted
        /\ handler' = [handler EXCEPT ![h] = Idle]
     \/ handler' = [handler EXCEPT ![h].pc = "list"]
  /\ UNCHANGED <<store, chan, runs, boot, counts>>

(* Slip: evaluations that build are overlooked.                            *)
list_active_not_building(b) ==
  {i \in EvalId : status[i] \in Active \ {"Building"} /\ of[i].branch = b}

list_active_by_branch_key(b) ==
  {i \in EvalId : status[i] \in Active /\ of[i].branch = b}

list_superseded(h) ==
  /\ handler[h].pc = "list"
  /\ handler' = [handler EXCEPT ![h].pc = "cancel",
                   ![h].todo = {i \in list_active_by_branch_key(handler[h].branch) :
                                  of[i].sha # handler[h].sha}]
  /\ UNCHANGED <<store, admitted, chan, runs, boot, counts>>

supersede_row(h) ==
  /\ handler[h].pc = "cancel"
  /\ handler[h].todo # {}
  /\ guarded(Min(handler[h].todo), "Cancelled")
  /\ handler' = [handler EXCEPT ![h].pc = "token"]
  /\ UNCHANGED <<of, rows, admitted, chan, runs, boot, counts>>

(* CancelRegistry::cancel: a no-op when no run is registered.              *)
supersede_token(h) ==
  LET i == Min(handler[h].todo) IN
  /\ handler[h].pc = "token"
  /\ runs' = [k \in DOMAIN runs |->
                [runs[k] EXCEPT !.flag = @ \/ (runs[k].id = i /\ runs[k].registered)]]
  /\ handler' = [handler EXCEPT ![h].pc = "cancel", ![h].todo = @ \ {i}]
  /\ UNCHANGED <<store, admitted, chan, boot, counts>>

(* Slip: the handler keeps no id to send.                                  *)
create_anonymous(h) ==
  LET i == Min(With("None")) IN
  /\ handler[h].pc = "cancel"
  /\ handler[h].todo = {}
  /\ status' = [status EXCEPT ![i] = "Queued"]
  /\ of' = [of EXCEPT ![i] = [branch |-> handler[h].branch, sha |-> handler[h].sha]]
  /\ handler' = [handler EXCEPT ![h].pc = "send"]
  /\ UNCHANGED <<rows, admitted, chan, runs, boot, counts>>

create(h) ==
  LET i == Min(With("None")) IN
  /\ handler[h].pc = "cancel"
  /\ handler[h].todo = {}
  /\ status' = [status EXCEPT ![i] = "Queued"]
  /\ of' = [of EXCEPT ![i] = [branch |-> handler[h].branch, sha |-> handler[h].sha]]
  /\ handler' = [handler EXCEPT ![h].pc = "send", ![h].id = i]
  /\ UNCHANGED <<rows, admitted, chan, runs, boot, counts>>

send(h) ==
  /\ handler[h].pc = "send"
  /\ chan' = Append(chan, handler[h].id)
  /\ handler' = [handler EXCEPT ![h] = Idle]
  /\ UNCHANGED <<store, admitted, runs, boot, counts>>
-----------------------------------------------------------------------------
(* The worker, `process': one evaluation at a time, up to the point where  *)
(* the build phase is detached.                                            *)
InWorker == {"read", "load", "start", "evaluate", "fail", "mark", "persist", "error"}

At(k, where) == k \in DOMAIN runs /\ runs[k].pc = where
Goto(k, where) == runs' = [runs EXCEPT ![k].pc = where]

(* CancelRegistry::deregister: whatever token is registered for evaluation *)
(* i by then is forgotten.                                                 *)
deregister(rs, i) ==
  [k \in DOMAIN rs |-> [rs[k] EXCEPT !.registered = @ /\ rs[k].id # i]]

(* The end of a run drops its CancelGuard.                                 *)
Leave(k) == runs' = deregister(RemoveAt(runs, k), runs[k].id)

Pickup ==
  /\ chan # <<>>
  /\ \A k \in DOMAIN runs : runs[k].pc \notin InWorker
  /\ chan' = Tail(chan)
  /\ runs' = Append(deregister(runs, Head(chan)),
                    [id |-> Head(chan), pc |-> "read", flag |-> FALSE, todo |-> {},
                     registered |-> TRUE])
  /\ UNCHANGED <<store, admitted, handler, boot, counts>>

(* Slip: only the token is looked at.                                      *)
Superseded_token(k) == runs[k].flag

(* What a run finds on pickup: its evaluation was cancelled meanwhile.     *)
Superseded(k) == status[runs[k].id] = "Cancelled" \/ runs[k].flag

Read(k) ==
  LET i == runs[k].id IN
  /\ At(k, "read")
  /\ \/ /\ Superseded(k)
        /\ Leave(k)
     \/ /\ ~Superseded(k)
        /\ Goto(k, IF status[i] = "Building" THEN "load" ELSE "start")
  /\ UNCHANGED <<store, admitted, chan, handler, boot, counts>>

load_jobs_for_resume(k) ==
  LET i == runs[k].id IN
  /\ At(k, "load")
  /\ runs' = [runs EXCEPT ![k].pc = "phase",
                ![k].todo = {n \in DOMAIN rows[i] : rows[i][n] = "Queued"}]
  /\ UNCHANGED <<store, admitted, chan, handler, boot, counts>>

start(k) ==
  /\ At(k, "start")
  /\ guarded(runs[k].id, "Evaluating")
  /\ Goto(k, "evaluate")
  /\ UNCHANGED <<of, rows, admitted, chan, handler, boot, counts>>

(* Clone and nix-eval-jobs: success, failure, or the token first.  An      *)
(* error leaves `process', which drops the CancelGuard; fail_with_reason   *)
(* is called on it afterwards.                                             *)
evaluate(k) ==
  /\ At(k, "evaluate")
  /\ \/ /\ Goto(k, "mark")
        /\ UNCHANGED status
     \/ /\ runs' = [deregister(runs, runs[k].id) EXCEPT ![k].pc = "fail", ![k].flag = FALSE]
        /\ UNCHANGED status
     \/ /\ runs[k].flag
        /\ guarded(runs[k].id, "Cancelled")
        /\ Leave(k)
  /\ UNCHANGED <<of, rows, admitted, chan, handler, boot, counts>>

fail_with_reason(k) ==
  /\ At(k, "fail")
  /\ guarded(runs[k].id, "EvaluationFailed")
  /\ runs' = RemoveAt(runs, k)
  /\ UNCHANGED <<of, rows, admitted, chan, handler, boot, counts>>

mark_building(k) ==
  /\ At(k, "mark")
  /\ guarded(runs[k].id, "Building")
  /\ Goto(k, "persist")
  /\ UNCHANGED <<of, rows, admitted, chan, handler, boot, counts>>

(* The rows are created one by one; after the last, the phase is detached. *)
AfterPersist(todo) == IF Cardinality(todo) = Attrs THEN "phase" ELSE "persist"

persist_job(k) ==
  LET i    == runs[k].id
      todo == runs[k].todo \cup {Len(rows[i]) + 1}
  IN  /\ At(k, "persist")
      /\ rows' = [rows EXCEPT ![i] = Append(@, "Queued")]
      /\ \E where \in {AfterPersist(todo), "error"} :
           runs' = [runs EXCEPT ![k].todo = todo, ![k].pc = where]
      /\ UNCHANGED <<status, of, admitted, chan, handler, boot, counts>>

(* An attribute that did not evaluate: its row is finished right away.     *)
persist_error(k) ==
  LET i == runs[k].id IN
  /\ At(k, "error")
  /\ job_guarded(i, Len(rows[i]), "Failure")
  /\ Goto(k, AfterPersist(runs[k].todo))
  /\ UNCHANGED <<status, of, admitted, chan, handler, boot, counts>>
-----------------------------------------------------------------------------
(* The detached build phase of run k.                                      *)
phase_dispatch(k, n) ==
  /\ At(k, "phase")
  /\ ~runs[k].flag
  /\ n \in runs[k].todo
  /\ rows[runs[k].id][n] = "Queued"
  /\ job_guarded(runs[k].id, n, "Running")
  /\ UNCHANGED <<status, of, memory, counts>>

(* A verdict; the cancel only ends jobs of a run whose token is set.       *)
phase_verdict(k, n, s) ==
  /\ At(k, "phase")
  /\ n \in runs[k].todo
  /\ s = "Cancelled" => runs[k].flag
  /\ job_guarded(runs[k].id, n, s)
  /\ runs' = [runs EXCEPT ![k].todo = @ \ {n}]
  /\ UNCHANGED <<status, of, admitted, chan, handler, boot, counts>>

(* The loop is over: every job has its verdict, or the token was found set *)
(* while nothing was in flight.                                            *)
phase_done(k) ==
  /\ At(k, "phase")
  /\ \/ runs[k].todo = {}
     \/ runs[k].flag /\ \A n \in runs[k].todo : rows[runs[k].id][n] # "Running"
  /\ guarded(runs[k].id, "Done")
  /\ Leave(k)
  /\ UNCHANGED <<of, rows, admitted, chan, handler, boot, counts>>

(* The cancel arm, once the builds in flight have been drained.            *)
phase_cancelled(k) ==
  /\ At(k, "phase")
  /\ runs[k].flag
  /\ \A n \in runs[k].todo : rows[runs[k].id][n] # "Running"
  /\ guarded(runs[k].id, "Cancelled")
  /\ Leave(k)
  /\ UNCHANGED <<of, rows, admitted, chan, handler, boot, counts>>
-----------------------------------------------------------------------------
(* The daemon dies; what is left is the database.                          *)
Crash ==
  /\ crashes < MaxCrashes
  /\ crashes' = crashes + 1
  /\ admitted' = {}
  /\ chan' = <<>>
  /\ runs' = <<>>
  /\ handler' = [h \in Handler |-> Idle]
  /\ boot' = [pc |-> "down", todo |-> {}]
  /\ UNCHANGED <<store, overlapped, pushes>>

(* `serve': mark_running_interrupted, then the worker is spawned, then the *)
(* three recovery passes run beside it, then the listener opens.           *)
mark_running_interrupted ==
  /\ boot.pc = "down"
  /\ rows' = [i \in EvalId |-> [n \in DOMAIN rows[i] |->
                IF rows[i][n] = "Running" THEN "Interrupted" ELSE rows[i][n]]]
  /\ boot' = [pc |-> "list_evaluating", todo |-> {}]
  /\ UNCHANGED <<status, of, admitted, chan, runs, handler, counts>>

list_evaluating_ids ==
  /\ boot.pc = "list_evaluating"
  /\ boot' = [pc |-> "evaluating", todo |-> With("Evaluating")]
  /\ UNCHANGED <<store, admitted, chan, runs, handler, counts>>

(* set_status is the one update that is not guarded.                       *)
requeue_evaluating ==
  LET i == Min(boot.todo) IN
  /\ boot.pc = "evaluating"
  /\ boot.todo # {}
  /\ status' = [status EXCEPT ![i] = "Queued"]
  /\ chan' = Append(chan, i)
  /\ boot' = [boot EXCEPT !.todo = @ \ {i}]
  /\ UNCHANGED <<of, rows, admitted, runs, handler, counts>>

(* Slip: queued evaluations are not redriven.                              *)
redrive_none ==
  /\ boot.pc = "evaluating"
  /\ boot.todo = {}
  /\ boot' = [pc |-> "list_building", todo |-> {}]
  /\ UNCHANGED <<store, admitted, chan, runs, handler, counts>>

redrive_queued ==
  /\ boot.pc = "evaluating"
  /\ boot.todo = {}
  /\ chan' = chan \o Asc(With("Queued"))
  /\ boot' = [pc |-> "list_building", todo |-> {}]
  /\ UNCHANGED <<store, admitted, runs, handler, counts>>

(* Slip: evaluations that were building are not resumed.                   *)
list_building_none ==
  /\ boot.pc = "list_building"
  /\ boot' = [pc |-> "building", todo |-> {}]
  /\ UNCHANGED <<store, admitted, chan, runs, handler, counts>>

list_building_ids ==
  /\ boot.pc = "list_building"
  /\ boot' = [pc |-> "building", todo |-> With("Building")]
  /\ UNCHANGED <<store, admitted, chan, runs, handler, counts>>

resume_building ==
  LET i == Min(boot.todo) IN
  /\ boot.pc = "building"
  /\ boot.todo # {}
  /\ rows' = [rows EXCEPT ![i] = [n \in DOMAIN @ |->
                IF @[n] = "Interrupted" THEN "Queued" ELSE @[n]]]
  /\ chan' = Append(chan, i)
  /\ boot' = [boot EXCEPT !.todo = @ \ {i}]
  /\ UNCHANGED <<status, of, admitted, runs, handler, counts>>

open_listener ==
  /\ boot.pc = "building"
  /\ boot.todo = {}
  /\ boot' = [pc |-> "serving", todo |-> {}]
  /\ UNCHANGED <<store, admitted, chan, runs, handler, counts>>
-----------------------------------------------------------------------------
HandlerStep(h) ==
  \/ admit(h)
  \/ list_superseded(h)
  \/ supersede_row(h)
  \/ supersede_token(h)
  \/ create(h)
  \/ send(h)

RunStep(k) ==
  \/ Read(k)
  \/ load_jobs_for_resume(k)
  \/ start(k)
  \/ evaluate(k)
  \/ fail_with_reason(k)
  \/ mark_building(k)
  \/ persist_job(k)
  \/ persist_error(k)
  \/ \E n \in runs[k].todo : phase_dispatch(k, n)
  \/ phase_done(k)
  \/ phase_cancelled(k)

BuildEnds(k) ==
  \E n \in runs[k].todo : \E s \in JobTerminal \cup {"Interrupted"} : phase_verdict(k, n, s)

BootStep ==
  \/ mark_running_interrupted
  \/ list_evaluating_ids
  \/ requeue_evaluating
  \/ redrive_queued
  \/ list_building_ids
  \/ resume_building
  \/ open_listener

Next ==
  \/ \E h \in Handler : \E b \in Branch : \E s \in Sha : Deliver(h, b, s)
  \/ \E h \in Handler : HandlerStep(h)
  \/ Pickup
  \/ \E k \in DOMAIN runs : RunStep(k)
  \/ \E k \in DOMAIN runs : BuildEnds(k)
  \/ Crash
  \/ BootStep

(* The runtime polls every task; cloning and nix-eval-jobs are bounded by  *)
(* their timeouts.  Nothing is assumed of builds, pushes and crashes.      *)
Fairness ==
  /\ \A h \in Handler : WF_vars(HandlerStep(h))
  /\ WF_vars(Pickup)
  /\ WF_vars(\E k \in DOMAIN runs : RunStep(k))
  /\ WF_vars(BootStep)

Spec == Init /\ [][Next]_vars /\ Fairness
-----------------------------------------------------------------------------
TypeOK ==
  /\ status \in [EvalId -> Active \cup EvalTerminal \cup {"None"}]
  /\ of \in [EvalId -> [branch : Branch \cup {None}, sha : Sha \cup {None}]]
  /\ rows \in [EvalId -> Seq(JobStatus)]
  /\ admitted \subseteq Sha
  /\ chan \in Seq(EvalId)
  /\ runs \in Seq([id : EvalId, pc : InWorker \cup {"phase"},
                   flag : BOOLEAN, todo : SUBSET Nat, registered : BOOLEAN])
  /\ handler \in [Handler -> [pc : {"idle", "admit", "list", "cancel", "token", "send"},
                              branch : Branch \cup {None}, sha : Sha \cup {None},
                              todo : SUBSET EvalId, id : EvalId \cup {0}]]
  /\ overlapped \in BOOLEAN

Driven(i) ==
  \/ \E n \in DOMAIN chan : chan[n] = i
  \/ \E k \in DOMAIN runs : runs[k].id = i
  \/ \E h \in Handler : handler[h].pc = "send" /\ handler[h].id = i

(* While the daemon serves, every evaluation that is not decided is in the *)
(* hands of somebody who will go on with it: the handler that created it,  *)
(* the channel, the worker or a build phase.  No crash, at whatever step,  *)
(* leaves one behind.                                                      *)
NobodyForgotten == Serving => \A i \in EvalId : status[i] \in Active => Driven(i)

(* The first terminal verdict on an evaluation wins, whichever of webhook, *)
(* worker, build phase and boot writes last (sqlite.rs:461-463).           *)
VerdictStands ==
  [][\A i \in EvalId : status[i] \in EvalTerminal => status'[i] = status[i]]_vars

(* A terminal job row is immutable, also when two runs of an evaluation    *)
(* drive the same rows (sqlite.rs:869-872).                                *)
RowStands ==
  [][\A i \in EvalId : \A n \in DOMAIN rows[i] :
       rows[i][n] \in JobTerminal => rows'[i][n] = rows[i][n]]_vars

(* Until the daemon first restarts no cancel is lost: a run that goes on   *)
(* with a superseded evaluation has its token set, or the handler is about *)
(* to set it, or the run has yet to look at the row (cancel.rs:98-102,     *)
(* worker.rs:385-390).                                                     *)
SupersededIsSignalled ==
  crashes = 0 => \A k \in DOMAIN runs :
    (runs[k].pc \notin {"read", "fail"} /\ status[runs[k].id] = "Cancelled")
      => \/ runs[k].flag
         \/ \E h \in Handler : handler[h].pc = "token" /\ Min(handler[h].todo) = runs[k].id

Quiet == Serving /\ \A h \in Handler : handler[h].pc = "idle"

(* When deliveries are handled one after the other, a new push on a branch *)
(* leaves no evaluation of another sha of the branch active, also when the *)
(* daemon dies in the middle.  This is what cancel-on-push.md:3-6 asks for *)
(* pull requests; the code does it for every branch, although :12-14 of    *)
(* the same document exempts the watched ones.                             *)
OneShaPerBranch ==
  (Quiet /\ ~overlapped) => \A i, j \in EvalId :
    (status[i] \in Active /\ status[j] \in Active /\ of[i].branch = of[j].branch)
      => of[i].sha = of[j].sha

(* main.rs:423-425: the jobs of an evaluation resumed as Building "are     *)
(* already persisted", so that a Done evaluation has all its jobs.         *)
DoneHasAllJobs == \A i \in EvalId : status[i] = "Done" => Len(rows[i]) >= Attrs

BuildPending == \E k \in DOMAIN runs : At(k, "phase") /\ runs[k].todo # {}

(* Every evaluation is decided in the end, however the crashes fall,       *)
(* unless a build phase waits for a build that never ends.                 *)
EveryEvalDecided ==
  \/ <>[]BuildPending
  \/ \A i \in EvalId : status[i] = "Queued" ~> status[i] \in EvalTerminal
=============================================================================
