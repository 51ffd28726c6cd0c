# Verification of argunix

argunix is a CI daemon for Nix flakes. This directory holds TLA+ models of its
core, translated from the Rust source, TLC runs that check them on small
instances, and TLAPS proofs of the central invariants for instances of any size.
Paths below are relative to `src/`. `PROJECT.json` lists, for every definition
that models code, the lines it stands for.

## The system

A webhook arrives (`argunix-web/src/webhook.rs`), is coalesced, supersedes the
evaluations of older pushes of its branch, becomes an *evaluation* row and is
sent over a channel to the serial worker (`argunix-daemon/src/worker.rs`,
`process`). The worker clones and evaluates the flake, writes one *job* row per
attribute and detaches a *build phase* (`run_build_phase`). The phase loads its
jobs into a scheduling strategy (`argunix-sched`), spawns one task per
dispatched Step while it can get a *transfer permit* from a semaphore shared by
all evaluations, and each task (`build_one`) picks a remote builder from the
*registry* (`argunix-builders/src/registry.rs`), pushes the closure, has the
builder's *agent* build it and pulls the outputs. Rows live in SQLite
(`argunix-store`); after a crash the recovery passes in `main.rs` (`serve`)
resume what was left.

| Part | Source | Module |
|---|---|---|
| DAG strategy | `argunix-sched/src/dag.rs` | `DagStrategy`, proofs in `DagStrategyProofs` |
| weighted fair queue | `argunix-sched/src/wfq.rs` | `Wfq`, implements `TagPool` |
| flat strategy | `argunix-sched/src/flat.rs` | `FlatStrategy` (on `Wfq`) |
| build phase | `worker.rs` `run_build_phase` | `BuildPhase` (on `DagStrategy`) |
| webhook, worker, store, recovery | `webhook.rs`, `coalesce.rs`, `cancel.rs`, `worker.rs` `process`, `sqlite.rs`, `main.rs` | `EvalLifecycle` |
| registry, connection handlers, watchdog | `registry.rs`, `server.rs` | `BuilderRegistry`, proofs in `RegistryProofs` |
| dispatch to the pool | `worker.rs` `build_one`, `dispatch_pool_build`; `dispatcher.rs` | `PoolBuild` (on `BuilderRegistry`), proofs in `PoolProofs` |
| agent | `argunix-builder/src/agent.rs` | partly, as the environment of `PoolBuild` |
| closure transfer | `closure_xfer.rs`, `side_channel.rs` | partly, as the outcomes of a copy in `PoolBuild` |
| forge checks | `argunix-forge` | only the overall check's state, in `BuildPhase` |
| everything else | see `PROJECT.json`, components | not modelled |

`MCDagStrategy`, `MCFlat`, `MCBuildPhase`, `MCEvalLifecycle` and `MCPoolBuild`
give the constants values for TLC. An operator commented "Slip" is the definition
after it with a plausible mistake; each property is violated under one of them
(`PROJECT.json`, mutants), which shows that the property depends on that code.

## How the modules correspond to the code

**DagStrategy.** The maps of the struct are functions over derivations
(`state`, `deps_unfinished`, `rdeps`, `head_jobs`, `token`) and sets
(`by_drv`, `job_meta`, `pending`, `in_flight`). One action per trait method;
`cancel_eval` walks its jobs in HashMap order, so it is one action that opens
the walk (`cancelling`) and one step per job, during which no other action is
enabled, because the strategy is behind a mutex. `dispatch_none` is a dispatch
that finds the queue empty or the cap reached. The queue is a set here: the order
in which the fair queue serves it is the subject of `Wfq`, which implements the
same abstract pool. `reports` is a history variable: how often a job was
reported to the caller.

**Wfq, TagPool, FlatStrategy.** Virtual time is a float in the code; here it is
counted in units so that `1/weight` is an integer for the weights of the run.
`TagPool` is the promise (tags wait, run up to the cap, end or are dropped);
`RefinesPool` shows that `Wfq`, driven by `FlatStrategy`, keeps it. `Wfq` holds
the queue's operations and properties; `FlatStrategy` is the specification that
calls them.

**BuildPhase.** The loop's program counter follows its await points: load,
spawn pass, decide, wait for a permit, select, cancel drain, finish, post. Tasks
are seen from outside: they hold a permit, give it back, take it again and end
with a result. Other evaluations take and return permits (`other`). A
superseding handler writes the row and then fires the token in two steps. A
`Restart` is a crash, the boot passes and the resume with the jobs that are Queued.

**EvalLifecycle.** Handlers, worker, build phases and boot as separate processes
over one store; every database call is one step with the guard of its SQL
(`guarded`, `job_guarded`). A run is one pickup by the worker and leaves `runs` when
it ends; its field `registered` says that the CancelRegistry holds its token, and a
second run of the evaluation, or the end of any of them, takes that away. A failed evaluation
first loses its cancel registration and is then marked failed by the worker's error
trap; the row of an attribute that does not evaluate is created and then finished.
The build phase is reduced to the verdicts it writes (`BuildEnds`).

**BuilderRegistry.** One action per critical section: a connection that closes is
removed, its departure is noted and its builds are drained in three steps, as the
locks are taken. Clocks are reduced to the
facts that code derives from them: how many liveness thresholds a builder's
silence has passed, and whether a native builder was seen within the grace.
`worker` lets workers call anything at any time; `PoolBuild` is shown to
implement that.

**PoolBuild.** One program counter per job, one action between two awaits. An
attempt that ends drops its sender, writes its log, drops slot and phase, and the
row is written last, each in a step of its own. A task of an agent is known by the
connection the job picked, the one Build was written to, and the job. It reports
once, late or never. It reports Killed only after its abort sender was used or
dropped: by an Abort, if the connection that gets it is the one that builds, or by
a second Build of the job on the same connection, which replaces the sender in the
agent's map; a task that has reported removes the entry of the map before or after
that. `said` is a history variable: what the worker of a job was told.

## Runs

Deadlock checking is off everywhere: the runs bound the number of pushes, crashes,
tags or connections, so a bounded system stops when it is through. Progress is
checked as liveness instead.

| Run | Instance | Shows |
|---|---|---|
| `MCDag_daemon` | a chain a←b←c with a shortcut, 4 jobs, two of them aliases; loaded first, as the daemon does | gating, exact counts, cascades, one verdict per job, no Step realised twice |
| `MCDag_open` | the same graph, 2 evaluations, full closures, cap 1, enqueues at any time | counts stay exact, dispatch respects the graph when closures are complete |
| `MCFlat` | 2 repositories, 4 tags in 2 evaluations, cap 2, weights 0 and 2 | fairness in a busy period, one turn, FIFO, entries and queue in step, refinement of `TagPool` |
| `MCPhase` | 2 derivations, 3 jobs (2 aliases, one of which may fail to evaluate), 1 permit and a competitor for it, a cancel, a crash | no wedge, every row decided, tally equals rows, green means built, verdicts final, a phase ends unless a build or the permits are held for ever |
| `MCLife` | 2 handlers, 2 shas of a branch, 2 pushes, 1 crash | nothing is forgotten, no cancel is lost while the daemon is up, one sha per branch unless webhooks overlap, verdicts final |
| `MCLife_live` | 1 push, 2 attributes, 2 crashes | every evaluation is decided unless a build of it never ends |
| `MCPool` | 2 jobs, a native and an emulating builder with one slot each, 2 connections, 1 permit, grace on | no leaked slot, permits for transfers only, every dispatch loop ends unless a copy hangs or the holdoff parks it |
| `MCPool_watch` | 1 job, 1 builder, 2 connections, watchdog, cancel, grace, enrolment wait | registry entries are live and the live are listed, senders and phases have owners, a row gets the status an agent reported, `BuilderRegistry` is implemented |

Why the bounds are enough: two jobs of one derivation make an alias; a chain of
three makes a cascade of a cascade; two connections of a name make a takeover and
a stale handler; two handlers make every race of `persist`; a second crash hits
recovery itself. One permit makes every task compete. Handlers and shas are
interchangeable in `MCLife`: this run uses symmetry, and checks invariants and action
properties only. In `MCPool` both jobs compete on the first connection, and the second
one is accepted once a job is done (`DuelSpec`); since the jobs are alike it is `j1`.
The job that is left then waits for, retries on or spills to the second connection.
That no gauge leaks with two jobs and any number of reconnects is proved. The
enrolment wait, which has a deadline, is off in `MCPool` and on in `MCPool_watch`.

### Disagreements

These runs check a sentence of the repository and TLC finds a behaviour of the
code that contradicts it. The quotations are in `PROJECT.json`, findings.

| Run | What happens |
|---|---|
| `MCPhase_green` | the token fires while no task runs: the loop leaves past the cancel arm, rows stay Queued and the overall check is green |
| `MCLife_partial` | a crash while job rows are written: the resumed evaluation ends Done without the missing jobs |
| `MCPool_wedged` | after Abort the wall clock is off: an agent that stays connected and never answers keeps the build waiting |
| `MCPool_parked` | a native builder fails one transfer and stays connected: excluded, it still holds every other builder off, and the job waits for capacity for ever |

The models contain further behaviours a reader may not expect; the hazards in
`PROJECT.json` give their lines and the document or comment that says otherwise. A
job enqueued before its dependency gets no edge to it. `cancel_eval` may report a
job twice, and never reports an alias of a running Step. A repository that wakes
while the fair queue is empty keeps its old clock. A failure from before a restart
is not in the tally of the resumed phase. An evaluation sent twice by a handler and
by recovery runs twice, and the second run replaces the first one's cancel token.
Jobs interrupted in an evaluation that ends Done are not resumed. Overlapping pushes
can leave two shas of a branch active. The watchdog evicts from a list it took
earlier. A job can be recorded Cancelled although nobody cancelled it: a retry that
reaches the connection of an earlier task of the job makes the agent kill one of the
two and report it (`VerdictIsGenuine` shows that this is the only way). Between the
removal of a native builder and the note of its departure jobs may spill.

## Fairness

- `BuildPhase`: the loop is polled, and a handler that wrote the row fires the token.
  Nothing is assumed of builds or of other evaluations: a copy has no timeout
  (`closure_xfer.rs:255`), the capacity wait no deadline, and an aborted build no wall
  clock. `PhaseEnds` therefore says that a phase ends, or one of its tasks never does,
  or other evaluations keep all permits for ever.
- `EvalLifecycle`: handlers, worker, runs and boot are tokio tasks that are polled;
  cloning and evaluating have timeouts. Nothing is assumed of builds, pushes and
  crashes: `EveryEvalDecided` leaves out behaviours in which a build phase stays
  waiting for a build.
- `PoolBuild`: every job's future is polled and its timers fire (`DaemonStep`), a
  control frame is written or its connection fails (the keepalive of `server.rs:67-79`),
  and the spill grace elapses. Nothing is assumed of nix copy (`CopyStep`), of agents or
  of the network. `DispatchEnds` names what may keep a job: a copy that never ends, and
  the native holdoff (`HeldOff`), which `MCPool_parked` exhibits.

## Proofs

`DagStrategyProofs` proves, for any finite set of jobs, any graph and any cap, the
theorems `TypeCorrect`, `DispatchIsGated`, `CountsAreExact`, `VerdictsStand`,
`FailuresPropagate` and `DrainedIsDone`. Gating is not inductive: it follows from
the exact count (a Step is promoted when its count is zero), and the count is kept
only because a Step's dependencies are counted down once, at the completion that
ends them. So the inductive invariant `IInv` joins types, exact counts, and the
correspondence of state, token, `pending` and `in_flight`. `FailuresPropagate` adds
that a cascade ends in a set closed under `rdeps`; the cascade is defined as the
least such set, so no induction over data is needed. `DrainedIsDone` takes a Step
of least rank among the undecided ones; it assumes the graph is acyclic
(`InputsAcyclic`: a rank function exists, as Nix derivations guarantee) and, like
`FailuresPropagate`, that the evaluation is loaded before the first dispatch.

`RegistryProofs` proves `EntriesAreLive` and `TheLiveAreListed` for any number of
builders and connections. The invariant `RegInv` adds what a handler's stage says
about its name and id, and which connections have been displaced or evicted.

`PoolProofs` proves `GaugesNeverLeak` for any number of jobs, builders, connections
and permits. The bound of a gauge by the slots held is not inductive: reserving raises
both only if the job held no slot before. So `GaugeInv` adds where `build_one` holds
none (`Unslotted`). Each step of a job keeps its slot, drops it, or reserves one
(`JobMoves`), and the registry only resets gauges (`RegistryLowers`).

Only model-checked: liveness, the refinements, `VerdictExactlyOnce`, `GatedOnGraph`,
everything about `Wfq`, `BuildPhase` and `EvalLifecycle`, and of `PoolBuild` all but
the gauges.

## Not modelled

Rendering, configuration parsing, log formats, nix subprocesses and the OCI registry
are input and output. The AgentFlow workspace shares no code with the daemon. Database
calls are taken to succeed. Graceful shutdown is seen as a crash. Whether the
coalesce window of a sha has expired is a choice made at the next `admit`.

## Plan

1. Proofs: `EntriesHaveOwners`, `PermitOnlyForTransfers` and
   `ImplementsRegistry` of `PoolBuild`; `VerdictStands` and `RowStands` of
   `EvalLifecycle`; `VerdictExactlyOnce`; `TasksAreRunning` of `BuildPhase`.
2. Modules: the agent's connection loop, composed with
   `BuilderRegistry`; forge checks with pause, reconciliation and reordering; retention
   GC against the worker; the closure proxy; the live-log tap and the chunked parser.
3. Webhook policy and allowlist as operators against a reference definition; control
   socket and reload; effects and the multi-arch fan-in; the build runner's kill protocol.
4. AgentFlow: message bus, task states, scheduler.
