----------------------------- MODULE BuildPhase -----------------------------
(***************************************************************************)
(* The build phase of one evaluation (worker.rs, run_build_phase): the     *)
(* loop that drives a private DagStrategy, spawns a build task per         *)
(* dispatched Step under the daemon-wide permit semaphore, writes the job  *)
(* rows, counts verdicts and posts the overall forge check.  Around it:    *)
(* the webhook that cancels the evaluation, the other evaluations that     *)
(* compete for permits, and the daemon's death and restart.                *)
(*                                                                         *)
(* A build task (build_one) is seen through what the loop can tell: when   *)
(* it holds a permit, what it leaves in its job row and what it returns.   *)
(* Database calls succeed.                                                 *)
(***************************************************************************)
EXTENDS DagStrategy

CONSTANTS
  ErrJob,      \* Jobs whose attribute may fail to evaluate: no drv then
  Permits,     \* schedule.build_concurrency
  MaxOther,    \* bound: permits other evaluations take during this phase
  MaxCrashes,  \* bound: daemon deaths during this phase
  MayCancel    \* FALSE leaves the superseding push out

ASSUME PhaseConstants ==
  /\ ErrJob \subseteq Job
  /\ Permits \in Nat \ {0}
  /\ MaxOther \in Nat
  /\ MaxCrashes \in Nat
  /\ MayCancel \in BOOLEAN

VARIABLES
  pc,         \* where the loop is
  persisted,  \* the Jobs this run of the phase was given
  drained,    \* strategy_drained_with_permit
  task,       \* [Drv -> TaskState], the JoinSet
  result,     \* [Drv -> Reportable], what a task in "over" returned
  row,        \* [Job -> job status], the jobs table
  eval_row,   \* the status column of the evaluation
  cancelled,  \* the evaluation's CancelToken
  tally,      \* [Reportable -> Nat], JobTally
  overall,    \* the overall check last handed to the forge
  wedged,     \* the "build scheduler wedged" branch was taken
  other,      \* permits held by other evaluations
  other_left, \* permits they may still take
  crashes

dag   == vars
phase == <<pc, persisted, drained, task, result, row, eval_row, cancelled,
           tally, overall, wedged, other, other_left, crashes>>
all   == <<dag, phase>>

JobTerminal == {"Cached", "Success", "Failure", "Cancelled", "SkippedNoBuilder"}
JobStatus   == JobTerminal \cup {"Queued", "Interrupted"}

(* A task starts with the permit it was spawned under, releases it while   *)
(* it waits or the builder works, and takes one again to push or pull.     *)
Holding   == {"start", "back"}
TaskState == {"none", "away", "over"} \cup Holding

Tasks  == {d \in Drv : task[d] # "none"}
Free   == Permits - other - Cardinality({d \in Drv : task[d] \in Holding})

NoTally == [s \in Reportable |-> 0]

Queued(r) == {j \in Job : r[j] = "Queued"}

(* JobStore::finish: only a row that is not terminal yet is written.       *)
finish(r, S, s) ==
  [j \in Job |-> IF j \in S /\ r[j] \notin JobTerminal THEN s ELSE r[j]]

(* Slip: what a cancel stopped is started again as well.                   *)
requeue_stopped(r) ==
  [j \in Job |-> IF r[j] \in {"Interrupted", "Cancelled"} THEN "Queued" ELSE r[j]]

requeue_interrupted_for_eval(r) ==
  [j \in Job |-> IF r[j] = "Interrupted" THEN "Queued" ELSE r[j]]

(* EvalStore::finish, guarded the same way.                                *)
finish_eval(s) ==
  eval_row' = IF eval_row = "Building" THEN s ELSE eval_row
-----------------------------------------------------------------------------
(* The evaluation has been evaluated, its jobs are persisted (persist_job  *)
(* finishes the rows of the attributes that failed to evaluate) and the    *)
(* phase starts.                                                           *)
PhaseInit ==
  /\ Init
  /\ \E failed \in SUBSET ErrJob :
       /\ row = [j \in Job |-> IF j \in failed THEN "Failure" ELSE "Queued"]
       /\ tally = [NoTally EXCEPT !["Failure"] = Cardinality(failed)]
  /\ pc = "load"
  /\ persisted = Job
  /\ drained = FALSE
  /\ task = [d \in Drv |-> "none"]
  /\ result = [d \in Drv |-> "Failure"]
  /\ eval_row = "Building"
  /\ cancelled = FALSE
  /\ overall = "Pending"
  /\ wedged = FALSE
  /\ other = 0
  /\ other_left = MaxOther
  /\ crashes = 0

(* The jobs that have a drv: their rows are still Queued.                  *)
Load(j) ==
  /\ pc = "load"
  /\ row[j] = "Queued"
  /\ enqueue(j, {})
  /\ UNCHANGED phase

Loaded ==
  /\ pc = "load"
  /\ Queued(row) \subseteq enqueued
  /\ pc' = "top"
  /\ UNCHANGED <<dag, persisted, drained, task, result, row, eval_row, cancelled,
                 tally, overall, wedged, other, other_left, crashes>>

(* Slip: the flag of the last round is not reset.                          *)
Top_stale ==
  /\ pc = "top"
  /\ pc' = IF cancelled THEN "decide" ELSE "spawn"
  /\ UNCHANGED <<dag, persisted, drained, task, result, row, eval_row, cancelled,
                 tally, overall, wedged, other, other_left, crashes>>

(* The head of the loop: a cancelled evaluation spawns nothing.            *)
Top ==
  /\ pc = "top"
  /\ drained' = FALSE
  /\ pc' = IF cancelled THEN "decide" ELSE "spawn"
  /\ UNCHANGED <<dag, persisted, task, result, row, eval_row, cancelled, tally,
                 overall, wedged, other, other_left, crashes>>

Spawn(d) ==
  /\ pc = "spawn"
  /\ Free > 0
  /\ \E stale \in SUBSET (pending \ Live) : dispatch(d, stale)
  /\ task' = [task EXCEPT ![d] = "start"]
  /\ UNCHANGED <<pc, persisted, drained, result, row, eval_row, cancelled, tally,
                 overall, wedged, other, other_left, crashes>>

SpawnDrained ==
  /\ pc = "spawn"
  /\ Free > 0
  /\ pending \cap Live = {}
  /\ dispatch_none \/ (pending = {} /\ UNCHANGED dag)
  /\ drained' = TRUE
  /\ pc' = "decide"
  /\ UNCHANGED <<persisted, task, result, row, eval_row, cancelled, tally,
                 overall, wedged, other, other_left, crashes>>

SpawnNoPermit ==
  /\ pc = "spawn"
  /\ Free = 0
  /\ pc' = "decide"
  /\ UNCHANGED <<dag, persisted, drained, task, result, row, eval_row, cancelled,
                 tally, overall, wedged, other, other_left, crashes>>

(* The termination tests and the spin guard.                               *)
Decide ==
  /\ pc = "decide"
  /\ \/ /\ Tasks = {}
        /\ pending = {} \/ cancelled
        /\ pc' = "finish"
        /\ UNCHANGED wedged
     \/ /\ Tasks = {} /\ pending # {} /\ ~cancelled
        /\ pc' = IF drained THEN "finish" ELSE "permit"
        /\ wedged' = drained
     \/ /\ Tasks # {}
        /\ pc' = "select"
        /\ UNCHANGED wedged
  /\ UNCHANGED <<dag, persisted, drained, task, result, row, eval_row, cancelled,
                 tally, overall, other, other_left, crashes>>

(* Slip: a freed permit does not wake the loop.                            *)
AwaitPermit_deaf ==
  /\ pc = "permit"
  /\ cancelled
  /\ pc' = "top"
  /\ UNCHANGED <<dag, persisted, drained, task, result, row, eval_row, cancelled,
                 tally, overall, wedged, other, other_left, crashes>>

(* Nothing in flight and no permit: sleep until one is free.               *)
AwaitPermit ==
  /\ pc = "permit"
  /\ cancelled \/ Free > 0
  /\ pc' = "top"
  /\ UNCHANGED <<dag, persisted, drained, task, result, row, eval_row, cancelled,
                 tally, overall, wedged, other, other_left, crashes>>
-----------------------------------------------------------------------------
(* The select of the loop is biased: the cancel arm first, then a finished *)
(* task, then a free permit.                                               *)
Over == {d \in Drv : task[d] = "over"}

(* A task has finished.  The strategy is told; the Jobs it gave up on are  *)
(* failed (handle_cascade_skip), the aliases get the primary's status      *)
(* (handle_alias_completion), and all of them are counted.                 *)
Join(d) ==
  LET s       == result[d]
      st      == [state EXCEPT ![d] = from_status(s)]
      skips   == IF st[d] \in Successful THEN {} ELSE SkippedJobs(cascade_skip(st, d))
      aliases == CompletedJobs(d) \ {Head(head_jobs[d])}
      counted == [NoTally EXCEPT ![s] = 1 + Cardinality(aliases)]
  IN  /\ pc = "select"
      /\ ~cancelled
      /\ d \in Over
      /\ complete(d, s)
      /\ row' = finish(finish(row, skips, "Failure"), aliases, s)
      /\ tally' = [x \in Reportable |->
                     tally[x] + counted[x] + IF x = "Failure" THEN Cardinality(skips) ELSE 0]
      /\ task' = [task EXCEPT ![d] = "none"]
      /\ pc' = "top"
      /\ UNCHANGED <<persisted, drained, result, eval_row, cancelled, overall,
                     wedged, other, other_left, crashes>>

(* A permit was freed while tasks run and Steps are ready.                 *)
PermitFreed ==
  /\ pc = "select"
  /\ ~cancelled
  /\ Over = {}
  /\ ~drained
  /\ pending # {}
  /\ Free > 0
  /\ pc' = "top"
  /\ UNCHANGED <<dag, persisted, drained, task, result, row, eval_row, cancelled,
                 tally, overall, wedged, other, other_left, crashes>>

CancelArm ==
  /\ pc = "select"
  /\ cancelled
  /\ \E e \in Eval : cancel_eval(e)
  /\ pc' = "cancelling"
  /\ UNCHANGED <<persisted, drained, task, result, row, eval_row, cancelled, tally,
                 overall, wedged, other, other_left, crashes>>

(* Each skip cancel_eval returns goes through handle_cascade_skip.  The    *)
(* tally is dropped on this path and no longer counted.                    *)
CancelArmJob(j) ==
  /\ pc = "cancelling"
  /\ cancel_job(j)
  /\ row' = finish(row, {k \in Job : reports'[k] > reports[k]}, "Failure")
  /\ UNCHANGED <<pc, persisted, drained, task, result, eval_row, cancelled, tally,
                 overall, wedged, other, other_left, crashes>>

(* Slip: the strategy is not told of a drained task.                       *)
CancelArmDrain_untold(d) ==
  /\ pc = "cancelling"
  /\ d \in Over
  /\ task' = [task EXCEPT ![d] = "none"]
  /\ UNCHANGED <<dag, pc, persisted, drained, result, row, eval_row, cancelled,
                 tally, overall, wedged, other, other_left, crashes>>

(* The drain: tasks are awaited and what `complete' returns is dropped.    *)
CancelArmDrain(d) ==
  /\ pc = "cancelling"
  /\ d \in Over
  /\ complete(d, "Cancelled")
  /\ task' = [task EXCEPT ![d] = "none"]
  /\ UNCHANGED <<pc, persisted, drained, result, row, eval_row, cancelled, tally,
                 overall, wedged, other, other_left, crashes>>

CancelArmEnd ==
  /\ pc = "cancelling"
  /\ cancelling = {}
  /\ Tasks = {}
  /\ finish_eval("Cancelled")
  /\ pc' = "ended"
  /\ UNCHANGED <<dag, persisted, drained, task, result, row, cancelled, tally,
                 overall, wedged, other, other_left, crashes>>

(* After the loop: the evaluation is Done, then the overall check.         *)
FinishDone ==
  /\ pc = "finish"
  /\ finish_eval("Done")
  /\ pc' = "post"
  /\ UNCHANGED <<dag, persisted, drained, task, result, row, cancelled, tally,
                 overall, wedged, other, other_left, crashes>>

(* Slip: Jobs that were given up on are not looked at.                     *)
overall_state_two(t) == IF t["Failure"] > 0 THEN "Failure" ELSE "Success"

overall_state(t) ==
  CASE t["Failure"] > 0     -> "Failure"
    [] t["Failure"] = 0 /\ t["Interrupted"] > 0 -> "Error"
    [] OTHER                -> "Success"

PostOverall ==
  /\ pc = "post"
  /\ overall' = overall_state(tally)
  /\ pc' = "ended"
  /\ UNCHANGED <<dag, persisted, drained, task, result, row, eval_row, cancelled,
                 tally, wedged, other, other_left, crashes>>
-----------------------------------------------------------------------------
(* The build tasks.                                                        *)
TaskRelease(d) ==
  /\ task[d] \in Holding
  /\ task' = [task EXCEPT ![d] = "away"]
  /\ UNCHANGED <<dag, pc, persisted, drained, result, row, eval_row, cancelled,
                 tally, overall, wedged, other, other_left, crashes>>

(* Slip: a task goes on without a permit.                                  *)
TaskAcquire_free(d) ==
  /\ task[d] = "away"
  /\ task' = [task EXCEPT ![d] = "back"]
  /\ UNCHANGED <<dag, pc, persisted, drained, result, row, eval_row, cancelled,
                 tally, overall, wedged, other, other_left, crashes>>

TaskAcquire(d) ==
  /\ task[d] = "away"
  /\ Free > 0
  /\ task' = [task EXCEPT ![d] = "back"]
  /\ UNCHANGED <<dag, pc, persisted, drained, result, row, eval_row, cancelled,
                 tally, overall, wedged, other, other_left, crashes>>

(* What a task may leave in its row and return, by where it ends: a cache  *)
(* hit or the feature pre-flight at once; a verdict, the give-up when no   *)
(* builder ever matches, a build killed by the agent, a panic (the row is  *)
(* then interrupted by RunningJobGuard) or the cancel while it waits; the  *)
(* success once the outputs are pulled.                                    *)
Ends(where) ==
  CASE where = "start" -> {<<"Cached", "Cached">>, <<"Failure", "Failure">>}
    [] where = "away"  -> {<<"Failure", "Failure">>, <<"Interrupted", "Interrupted">>,
                           <<"Cancelled", "Failure">>, <<"Interrupted", "Failure">>}
                          \cup IF cancelled THEN {<<"Cancelled", "Cancelled">>} ELSE {}
    [] where = "back"  -> {<<"Success", "Success">>}

TaskEnd(d) ==
  /\ task[d] \in {"start", "away", "back"}
  /\ \E end \in Ends(task[d]) :
       /\ row' = finish(row, {Head(head_jobs[d])}, end[1])
       /\ result' = [result EXCEPT ![d] = end[2]]
  /\ task' = [task EXCEPT ![d] = "over"]
  /\ UNCHANGED <<dag, pc, persisted, drained, eval_row, cancelled, tally, overall,
                 wedged, other, other_left, crashes>>
-----------------------------------------------------------------------------
(* A push supersedes the evaluation (webhook.rs): the row, then the token. *)
SupersedeRow ==
  /\ MayCancel
  /\ eval_row = "Building"
  /\ eval_row' = "Cancelled"
  /\ UNCHANGED <<dag, pc, persisted, drained, task, result, row, cancelled, tally,
                 overall, wedged, other, other_left, crashes>>

SupersedeToken ==
  /\ MayCancel
  /\ eval_row = "Cancelled"
  /\ ~cancelled
  /\ pc # "ended"
  /\ cancelled' = TRUE
  /\ UNCHANGED <<dag, pc, persisted, drained, task, result, row, eval_row, tally,
                 overall, wedged, other, other_left, crashes>>

OtherTake ==
  /\ other_left > 0
  /\ Free > 0
  /\ other' = other + 1
  /\ other_left' = other_left - 1
  /\ UNCHANGED <<dag, pc, persisted, drained, task, result, row, eval_row,
                 cancelled, tally, overall, wedged, crashes>>

OtherGive ==
  /\ other > 0
  /\ other' = other - 1
  /\ UNCHANGED <<dag, pc, persisted, drained, task, result, row, eval_row,
                 cancelled, tally, overall, wedged, other_left, crashes>>

(* A new phase makes a new strategy.                                       *)
NewStrategy ==
  /\ by_drv' = {}
  /\ state' = [d \in Drv |-> "Pending"]
  /\ deps_unfinished' = [d \in Drv |-> 0]
  /\ rdeps' = [d \in Drv |-> {}]
  /\ head_jobs' = [d \in Drv |-> <<>>]
  /\ token' = [d \in Drv |-> NoToken]
  /\ next_token' = 0
  /\ job_meta' = {}
  /\ pending' = {}
  /\ in_flight' = {}
  /\ cancelling' = {}
  /\ enqueued' = {}
  /\ reports' = [j \in Job |-> 0]

(* The daemon dies and comes back.  Boot requeues the interrupted jobs of  *)
(* an evaluation still Building and resumes it with the Queued ones, their *)
(* tally starting from zero; any other evaluation is left as it is.        *)
Restart ==
  LET resumed == eval_row = "Building"
      rows == IF resumed THEN requeue_interrupted_for_eval(row) ELSE row
  IN  /\ crashes < MaxCrashes
      /\ pc # "ended"
      /\ crashes' = crashes + 1
      /\ NewStrategy
      /\ row' = rows
      /\ pc' = IF resumed THEN "load" ELSE "ended"
      /\ persisted' = IF resumed THEN Queued(rows) ELSE {}
      /\ tally' = NoTally
      /\ task' = [d \in Drv |-> "none"]
      /\ drained' = FALSE
      /\ cancelled' = FALSE
      /\ other' = 0
      /\ UNCHANGED <<result, eval_row, overall, wedged, other_left>>
-----------------------------------------------------------------------------
LoopStep ==
  \/ \E j \in Job : Load(j)
  \/ Loaded
  \/ Top
  \/ \E d \in by_drv : Spawn(d)
  \/ SpawnDrained
  \/ SpawnNoPermit
  \/ Decide
  \/ AwaitPermit
  \/ \E d \in by_drv : Join(d)
  \/ PermitFreed
  \/ CancelArm
  \/ \E j \in cancelling : CancelArmJob(j)
  \/ \E d \in by_drv : CancelArmDrain(d)
  \/ CancelArmEnd
  \/ FinishDone
  \/ PostOverall

PhaseNext ==
  \/ LoopStep
  \/ \E d \in Drv : TaskRelease(d)
  \/ \E d \in Drv : TaskAcquire(d)
  \/ \E d \in Drv : TaskEnd(d)
  \/ SupersedeRow
  \/ SupersedeToken
  \/ OtherTake
  \/ OtherGive
  \/ Restart

(* The runtime keeps polling the loop, and a webhook handler that wrote    *)
(* the row goes on to the token.  Nothing is assumed of build tasks, here  *)
(* or in other evaluations: a transfer has no timeout (closure_xfer.rs     *)
(* 255), the wait for capacity has none (worker.rs:2195-2243), nor has the *)
(* drain of a cancelled build (worker.rs:3072).                            *)
PhaseFairness ==
  /\ WF_all(LoopStep)
  /\ WF_all(SupersedeToken)

PhaseSpec == PhaseInit /\ [][PhaseNext]_all /\ PhaseFairness
-----------------------------------------------------------------------------
PhaseTypeOK ==
  /\ TypeOK
  /\ pc \in {"load", "top", "spawn", "decide", "permit", "select", "cancelling",
             "finish", "post", "ended"}
  /\ persisted \subseteq Job
  /\ drained \in BOOLEAN
  /\ task \in [Drv -> TaskState]
  /\ result \in [Drv -> Reportable]
  /\ row \in [Job -> JobStatus]
  /\ eval_row \in {"Building", "Done", "Cancelled"}
  /\ tally \in [Reportable -> Nat]
  /\ overall \in {"Pending", "Success", "Failure", "Error"}
  /\ other \in 0 .. MaxOther
  /\ Free \in 0 .. Permits

(* A set of tasks and the strategy's Running Steps are the same thing, so  *)
(* every token a task brings back is one the strategy is waiting for.      *)
TasksAreRunning ==
  \A d \in Drv : (task[d] # "none") <=> (d \in by_drv /\ state[d] = "Running")

(* The branch worker.rs:951-957 calls a scheduler bug is never reached: a  *)
(* strategy with work pending hands it out whenever a permit is free.      *)
NeverWedged == ~wedged

(* When the phase of an evaluation nobody cancelled is over, every job has *)
(* a row that says how it ended, also when the daemon restarted meanwhile. *)
EveryRowDecided ==
  (pc = "ended" /\ eval_row = "Done") => Queued(row) = {}

(* The tally the overall check is made from is what the rows say: of the   *)
(* jobs this run of the phase was given, each is counted once, and the     *)
(* successes are the jobs whose row is a success.                          *)
TallyIsRows ==
  (pc = "post" /\ ~cancelled) =>
    /\ \A s \in Successful :
         tally[s] = Cardinality({j \in persisted : row[j] = s})
    /\ tally["Success"] + tally["Cached"] + tally["Failure"] + tally["Interrupted"]
         = Cardinality(persisted)

(* The overall check is green only when every job of the evaluation was    *)
(* built (worker.rs:1191-1195, "must not read as green").                  *)
GreenMeansBuilt ==
  overall = "Success" => \A j \in Job : row[j] \in Successful

(* The same, of an evaluation nobody cancelled and no restart interrupted. *)
GreenMeansBuiltUndisturbed ==
  (crashes = 0 /\ ~cancelled) => GreenMeansBuilt

(* A verdict stands: neither a late cancel, nor the mirror of an alias,    *)
(* nor a restart rewrites the row of a job that was decided                *)
(* (cancel-on-push.md:31-32, "the success is honored").                    *)
VerdictStands ==
  [][\A j \in Job : row[j] \in JobTerminal => row'[j] = row[j]]_all

(* The loop itself never keeps a phase from ending (worker.rs:936-989):    *)
(* unless a build task never returns or other evaluations sit on all the   *)
(* permits for good, the phase ends, cancelled or not.  No Step waits for  *)
(* ever for a dependency, or for a wake-up that was lost.                  *)
PhaseEnds ==
  \/ <>(pc = "ended")
  \/ \E d \in Drv : <>[](task[d] \in {"start", "away", "back"})
  \/ <>[](other = Permits)
=============================================================================
