# A verification development for the MoP execution agent

The agent executes *methods of procedure* (MoPs): a plan of phases and steps that
changes one Kubernetes namespace (manifests applied, Helm releases installed).
A plan is dry-run first; a person approves it; an outside LLM decides, by
instructions, what happens whenever something is unclear; and a deterministic
worker carries it out, under a lock on the namespace, with an audit trail. This
directory holds TLA+ models of that machinery, TLC configurations that check
them on small instances, and TLAPS proofs about them.

Paths below are relative to `src/src/bosgenesis_mop_execution_agent/`.

## 1. The system

| component | state it keeps | operations | what makes it correct |
|---|---|---|---|
| job lifecycle (`state/machine.py`) | the state of a job | checked transitions | a job moves only along the table; terminal states are final |
| worker runtime (`runtime/worker.py`) | jobs, phases, steps in the repository; queue, flags and locks in memory | a turn per job state: validate, lock, dry-run, await approval, mutate, wait, decide; recovery after a restart | no mutation without lock, dry run, approval, instruction; none repeated after an unknown outcome; the job comes to rest |
| scheduler (`runtime/scheduler.py`) | none | next step, next mutation, ready phases, phase complete | the least step whose dependencies are done |
| job queue (`runtime/queue.py`) | a deque, a set of ids | enqueue, dequeue, rehydrate | a job whose enqueue was called gets a turn afterwards (it may not, section 3) |
| instruction gate (`runtime/instructions.py`) | instructions; writes jobs and steps | CONTINUE, RETRY, WAIT, SKIP, ABORT, REFRESH | an instruction changes only a job that waits for one |
| job operations (`api/service.py`) | an own cache of jobs, the worker thread | create, start, pause, resume, cancel, approve, instruct, roll back, validate, revert | a request never undoes what the worker did meanwhile |
| executors (`runtime/dry_run.py`, `mutation.py`, `rollback.py`, `validation.py`) | the cluster | per manifest or release: gates, then a call | what a step changed is recorded or declared unknown; nothing lands without its dry run |
| policy (`policy/`) | none | dry-run, approval, limits, scope, secrets, audit gates | a mutation is blocked unless every gate passes |
| namespace lock (`persistence/locks.py`) | a key per namespace with a lease | acquire, renew, release | one holder; nobody releases another's lease |
| repository, audit, idempotency (`persistence/`) | one JSON file, whole, per process | save, load | what was saved is found after a restart |
| processes (`entrypoints/`) | own snapshot of the file, own lock store | API, worker loop, reconciler loop | one process does not undo another's work |
| namespace twin (`namespace_twin/`) | a database row per twin, shared by replicas; dry-run jobs of each replica | create, read, attach evidence, decide, refresh drift and runtime, replay, link, cancel | one verdict, backed by the evidence in the row; an unread namespace is not an empty one |
| plan and bundle parsing (`plans/`, `artifacts/`) | none | read, validate, order | dependencies exist and are acyclic |
| MCP clients, routes, MCP server, reports, memory, observability, security | none that a job depends on | transport, rendering, logging | |

**Interaction.** The API's handlers run on one event loop and are serial with
respect to each other. The worker is a thread of the same process (or a process
of its own, started by `worker_main.py`). The two share the repository, the
queue and the worker's flags and notes. Nothing they share is locked across more
than one record: both sides read a job, work on the copy and save the whole copy
back. Mutations, waits and dry runs are calls out of the worker in the middle of
a turn. A crash loses the queue, the flags, the locks and the cache; the
repository stays.

**What is hard.** Stale copies saved over newer records; requests and crashes in
the middle of a mutation whose outcome is then unknown; instructions that rewrite
step states; recovery that must not repeat a mutation yet must resume the rest; a
lease that lapses while its holder works; a job that no queue holds any more.
`PROJECT.json` lists these hazards at their lines.

## 2. The modules

| module | models | notes |
|---|---|---|
| `JobStates` | `state/machine.py` | states, transition table, terminal and runnable sets |
| `Scheduler` | `runtime/scheduler.py` | the plan as constants, the selectors as operators over stored steps and phases |
| `JobRuntime` | worker, instruction gate, API job operations, crash and restart | the core, see below |
| `JobLifecycle` | abstract: what clients are promised of a job's state | `JobRuntime` is shown to implement it where it does |
| `GovernedMutation` | abstract: a mutation needs a grant, a permit and a retry | implemented by `JobRuntime`, proved |
| `JobQueue` | the queue, statement by statement, under two threads | shows why `JobRuntime` cannot take an enqueue for one step |
| `NamespaceLock` | the lock stores, leases, and the worker's notes | |
| `StepExecutor` | dry run, mutation, policy gates, REST calls, revert and rollback of a namespace | what `JobRuntime` leaves to a free choice |
| `SharedRepository` | the JSON file and the snapshots of three processes | what `JobRuntime` takes as one atomic store |
| `NamespaceTwin` | the rows of the twins, the requests of several replicas, their dry-run jobs | extends `TwinRuntime`, `TwinEvidence` |
| `TwinVerdict` | abstract: evidence, verdict and withdrawal of a twin | implemented by `NamespaceTwin` |
| `TwinSnapshot`, `TwinDelta`, `TwinDrift` | the collector, the release delta, drift against a baseline | pure operators |
| `TwinObservation` | the three composed over a cluster that others change | |
| `TwinPolicy`, `TwinRuntime`, `TwinRollback`, `TwinEvidence`, `TwinGraph` | policy, runtime and rollback twins, release notes and replays, dependency graph | pure operators |
| `TwinRules` | one case of one rule at a time | each rule against what it must guarantee |
| `MC*` | small instances for TLC | |
| `*_proofs` | theorems | section 5 |

### JobRuntime and the code

One job. Its records are `job` (state and `dry_run_satisfied`), `step` (per step:
state, `dry_run_status`, attempt number), `phase`, `approval` and `continues`
(stored CONTINUE instructions by target). The process holds `entries` (how many
entries of the deque are the job's) and `noted` (its id is in `_queued_job_ids`),
`flags` (`_pause_requested`, `_cancel_requested`), `lock` (an entry of
`_active_locks`), the worker `wk`, the request in flight `api`, and `cache` (the state
of the API's own copy in `_jobs`). `overtaken`, `calls`, `spent`, `previewed` and
`overridden` are history, read by no action.

*Worker.* A turn begins with `Dequeue`; `ReadJob` then takes the local copy, and the
turn dispatches on the copied state. Every action saves at most one record, because a request or a
crash may come between two saves; a handler that saves more, or calls an executor in
between, is several: `BeginDryRun`, `DryRunSucceeds | DryRunFails`, `Commit` (the
phase), `SaveJob`; `BeginMutation`,
`MutationBlocked | MutationExcluded | MutationCalled`, `MutationReturns`, `Commit`,
`SaveJob`; `ScheduleWait`, `WaitScheduled`; `CancelFlagged`, `CancelSteps`; and every
decision about a step, `DecideStep` then `DecideJob`. Only the loop of `CancelSteps`
saves all steps at once. Releasing a lock changes memory and belongs to the save before
it; `Requeue` puts the job back at the end of a turn.
`Transition` checks the transition against the *copy* and overwrites the *store*,
as `_transition` does. `wk.rec` is the step record in hand.

*API.* A request is a read (`Request...`), which checks its guard on what it
read, and a write (`ApiWrite`) of the copy: the worker runs between the two. An
instruction saves up to three records, in `InstructionGate`'s order:
`StoreInstruction`, `ApplyToStep`, `ApplyToJob`, and then enqueues the job:
`AppendEntry` and `NoteId`, or `FindIdNoted` if the id is noted; `EnsureWorker` starts
the thread. The worker runs, and a crash may come, after each. A `resume` picks its target
from the API's cache. `start` only enqueues in the modes the worker runs by itself
(`RequestStart`) and is a plain transition in the others.

*Crash and restart.* `Crash` may come at any time. `Restart...` follows
`recover_restartable_jobs`: running dry runs are reset, one step after the
other, and enqueued; a running mutation becomes a decision (`RestartUnknownMutation`
for the step, `RestartDecide` for the job); other runnable jobs are rehydrated. A thread is
started if rehydrating added a job (`StartService`). After a restart the stored
steps are listed in the order of their ids, which is unrelated to plan order:
`FirstListed` is then any of them.

*Abstractions.* A manifest, an approval's fields and an instruction's text are
reduced to what a property tells apart: an approval covers a set of steps, is
given, and may expire. Content guards (secrets, scope, production data) are the
free choice `MutationBlocked`. Executor outcomes are free choices; `StepExecutor`
has what is behind them. A step's executors are configured or not, also a free choice. The session of an
instruction always owns the job. Audit events and observations are left out.

### NamespaceLock and JobQueue

`NamespaceLock` gives each process an in-memory store and a worker that runs one
mutation at a time. `Acquire` is `set nx` plus the note; later turns trust the
note. `Lapse` is the expiry of the key; `renew` exists and is never called.

`JobQueue` cuts `enqueue` after its membership test, after `append` and after
`add`, and `dequeue` after `popleft`, for both threads. What it shows is a flaw
(section 3): an id may be noted after its entry was dequeued, and stays noted.

`JobRuntime` keeps what matters of this for one job and makes larger steps of the rest.
Only the worker removes anything from the deque or the set, so:

* `Dequeue` is one step, at the `discard`. Before it the event loop may test, append or
  add, and each has the same effect before the `popleft` as after it. The job is read
  after both, in a step of its own.
* The event loop's test and append are one step, `AppendEntry`, at the test. Until the
  append the model has one entry more than the code and the same noted id, so that the
  worker's tests answer alike and what it can dequeue in the code it can dequeue here.
  The add is a step of its own, `NoteId`: the worker's `Dequeue` may come before it,
  which is what `overtaken` records.
* The worker's `Enqueue` is one step. A refused one is its test. Otherwise it is the
  first add, of either thread, after the test: until then both threads find the id
  not noted, from then on noted, and as the worker is the only one to dequeue nobody
  sees before its next turn when the entry came.

### StepExecutor

One mutating step: `BeginDryRun`, `Rehearse` per manifest, `BeginMutation`, the
gates, and per manifest or release a request that is `Send`-ed and that the server
serves, refuses or loses, at any time after it was sent. `step` is the stored step,
`report` what the stored observations say of it, `cluster` what the server has.
A client may revert the namespace meanwhile (`BeginRevert` .. `EndRevert`): the
code takes no namespace lock for it. `JobRuntime` decides *which* step is called
and when; here the job has one step, and every decision it asks for is answered
by a retry, so that attempts overlap with late requests of earlier ones.

The model keeps what the code does where one might expect otherwise: a failed
listing of releases is taken for an empty one (`ListReleases`), a revert in the
Helm revision mode still deletes every collection, a manifest whose request timed
out is reported as failed but recorded, a crash between saving a finished step and
saving its observation loses the record (the step is then not up for a decision).

### SharedRepository

A process loads the file once. A move (`_transition`) is three saves, each of which
changes the snapshot of the process (`Save`), opens the file, which empties it
(`Open`), and writes the text made before (`Write`), under a lock of the process
only. A write may raise, a process may crash in any of them. The reconciler and the
worker process are off by default in the chart but mount the same volume as the
API. The model shows that a change whose write failed stays in the snapshot and is
persisted by a later save, and that a torn file stops every later start.

### NamespaceTwin and its rules

A replica serves one request at a time (coroutines that never await), but each
transaction of the repository is an action, so that other replicas, workers and
crashes come between the transactions of a request: `Create`, `Generate`,
`AwaitDryRun`, `Supersede`, `EnsureJob`, `StartJob`, `LinkJob`; `ReadTwin`,
`PollEvidence`, `MergeEvidence`, `MarkAttached`, `Calculate`, `Decide`; a read
(`Get`) reconciles the twin with its job. `recorded` is history: the assessments as
they were last written. The dry-run job of a replica is reduced to the states a
twin tells apart: `running` stands for the worker's states between `created` and
rest.

The rules are operators on records that keep what their branches test: kinds,
health and identity of an object, the outcome of a listing, the checks of a policy.
`TwinObservation` composes collector, delta and drift over a cluster edited in
between; `TwinRules` takes one input of one rule at a time. Where the code is odd the
model is too: a summary row without an API version gets a `v1` identity (so
`NoFalseCreate` asks for a given version), a payload of the wrong shape counts as a
complete empty listing, deleting a path of several documents marks the last of them,
a change of a workload's status alone is major drift, the number of cycles depends
on the order of visits (that there is one does not), and a rollback that is not
defined keeps its gap `ROLLBACK_NOT_PROVEN` when patched.

## 3. Runs

Each passing run explores its instance completely. Two more runs show where the code
does not do what its documents say.

| run | instance | shows |
|---|---|---|
| `JobRuntimeGoverned` | 2 chained mutations; start, continue, retry, pause, resume, cancel and approvals that expire; 3 requests, 1 crash, retry limit 2 (2.8M states) | `TypeOK`, `AttemptsAccounted`, `NoReplay`, `MutationUnderLock`; `GovernedSpec`, the refinement of `GovernedMutation` |
| `JobRuntimePlan` | 3 steps in 3 phases, one of them empty, with phase dependencies and a wait for the mutation; start, continue, retry; 4 requests; fairness; contended lock (425k) | `LostOnlyIfOvertaken`, `RestingUnlocked`, `LifecycleSpec`, `RestsUnlessOvertaken` |
| `JobRuntimeReadOnly` | 2 chained steps in a mode that does not execute; all instructions, approvals, cancel, rollback request, both flags; 3 requests (241k) | `CompletedMeansSettled`, `NonExecutingIsReadOnly` |
| `BugQueueStranded` (violated) | `JobQueue`: 1 job, deque of 3, weak fairness of both threads (115) | `EveryCallIsServed` fails, see below |
| `NamespaceLock` | 2 processes, 2 jobs, 4 leases, lapses and crashes (10k) | `TypeOK`, `ExclusiveUnlessLapsed`, `OnlyHolderReleases` |
| `StepExecutor` | two or three manifests, some excluded, out of scope or secret, or a release installed or upgraded; 4 attempts, 2 crashes, 1 revert (954k) | `TypeOK`, `EffectsAccounted`, `OnlyRehearsed`, `SuccessIsReal`, `RevertClears` |
| `SharedRepository` | API with two threads, reconciler with one; 3 moves, 2 crashes or failing writes (682k) | `TypeOK`, `OwnSavesStand`, `TrailOrdered` |
| `TwinObservation` | a deployment and a service in several forms, calls that fail in parts, 3 plans, 2 edits in between (67k) | `TypeOK`, `NoFalseCreate`, `DeletionShown`, `DriftHasCause`, `LossIsSeen` |
| `TwinRules` | every input of a small set for each rule (22k) | `FinalizeMatchesFresh`, `WorseIsNeverGreener`, `MoreSignalsNeverCalmer`, `EnrichAgreesWithAssess`, `NoSilentCategory`, `CycleIsReported`, `PlannedIsNeverMissing` |
| `NamespaceTwin` | 2 symmetric replicas, 1 twin, a foreign dry run; 2 requests, a crash or a passing day (331k) | `TypeOK`, `DecisionStands`, `EvidenceKept`; `VerdictSpec`, the refinement of `TwinVerdict` |
| `NamespaceTwinPolled` | 1 replica, 2 twins one of which may replace the other; 3 requests; fairness (161k) | `DecisionComes` |

**Bounds.** `MaxRequests`, `MaxCrashes`, `MaxReverts` and `MaxMishaps` bound the
environment; `MaxQueue`, `MaxLeases`, `MaxAttempts` and `MaxMoves` the queue, the
lease tokens, the attempts and the moves. For `JobRuntime` a start and two
instructions are the shortest history in which an approved mutation fails, is retried
and exceeds the limit; the runs without mutations, and the counterexamples below, take
four requests. One
crash reaches every state recovery can meet, since recovery leaves no state a run
without a crash could not leave except the order of the steps, which `FirstListed`
covers. Two chained steps are the least for a dependency between mutations.
Four attempts of a step are a dry run and mutations up to one more than a lost
request needs to meet a later one; two crashes let one of them hit the recovery of
the other. Three moves by three threads fill the file from both processes with one
cut off half way. Two requests at a twin are its creation and one that
comes between the transactions of its decision (evidence a client attaches, a drift, a
cancellation); the reads that carry the decision are not counted, and two replicas are
the least that can disagree. Three are needed where one twin replaces another whose
dry run a client repeats. The proofs cover every plan, every number
of attempts, reverts, crashes, processes, moves, jobs and leases.

**Fairness.** `JobRuntime!FairSpec`: weak fairness of the worker (its loop never
returns), of a request in flight (handlers do not block), and of the restart (the
process is supervised by Kubernetes). Strong fairness of `WaitTimesOut`: the clock
passes the timeout, and polling only happens once per turn. `NamespaceTwin!PolledSpec`:
weak fairness of the steps of a request begun (`Serve`) and of the workers
(`JobRuns`), and strong fairness of `Get`: nothing but a read carries a rested dry
run to a decision, the user interface polls, and requests queue at the replica in the
order they come, so a read that waits has its turn between others. No other request
is fair.

**Disagreements.** `BugQueueStranded` (expected violation, `EveryCallIsServed`):
`enqueue` promises to "queue a job once" (`runtime/queue.py:43`). The event loop appends
the entry; the worker pops it and discards the id, which is not there yet; the event
loop adds the id. From then on the id is noted and no entry is there: every later
enqueue is refused, the one the worker itself makes at the end of the turn included, and
the job, whatever its state, gets no turn until the process restarts. `JobRuntime` has
this behaviour. What its runs show and its proofs prove is that, for clients that start
a job and answer its questions, this is the only way a wakeup is lost
(`LostOnlyIfOvertaken`) and the only reason not to come to rest
(`RestsUnlessOvertaken`); the plain promises `NoLostWakeup` and `ComesToRest` are false.

`BugUpgradeReconciled` (expected violation, `AnySuccessIsReal`):
after a timeout, `install_upgrade` looks up the release by name and declares the step
done if one is deployed. For an upgrade that is the release it should have
replaced: when the registration of the chart repository times out, the upgrade was
never sent and the step still succeeds. The documents ask to stop for a decision
whenever the output is ambiguous. The run `StepExecutor` states the same of
installations and manifests, where it holds (`SuccessIsReal`).

Further configurations keep other counterexamples for reference. TLC finds each of
them violated; they are not part of the listed runs:

| configuration | property | what happens |
|---|---|---|
| `BugDryRunSkipped` | `DryRunBeforeMutation` | one successful dry run marks the job; CONTINUE then passes a step that never had one |
| `BugDryRunOnlyMutates` | `NonExecutingIsReadOnly` | pause, resume, continue mutates in a dry-run-only job |
| `BugCancelOverwritten` | `TerminalIsFinal` | a turn in progress overwrites a cancel |
| `BugCancelMidMutation` | `CancelAtSafePoint` | a cancel is stored in the middle of a mutation |
| `BugRecoveryStranded` | `ResumesAfterRestart` | recovery enqueues the job and starts no thread |
| `BugSkippedMutated` | `SkippedIsNotMutated` | the mutation selector does not exclude skipped steps |
| `BugLockLapse` | `OneHolder` | a lapsed lease is granted again while its first holder goes on |
| `BugTornFile` | `RestartSafe` | a crash in the middle of a write leaves a file no process can start from |
| `BugLostUpdate` | `AllSavesStand` | a process rewrites the file from a snapshot that lacks another's saves |
| `BugDriftOverwritten` | `DriftStopsExecution` | drift that could not be told, recorded between merge and decision, is overwritten by the decision |
| `BugTwinStuck` | `DecisionComes` | a crash between two transitions leaves a twin no read can move |

More need no configuration of their own:

* `TwinObservation.cfg` with the property `DeletedIsGone` added: a kind that was not
  listed the second time is reported as deleted.
* `JobRuntimePlan.cfg` with `NoMutationsRemain` added: an instruction aimed at another
  step than the one that asked moves the job to `executing`, and it completes while a
  mutating step still awaits its decision.
* `JobRuntimePlan.cfg` with `NoLostWakeup` or `ComesToRest` added: an enqueue is
  overtaken, as above.
* `JobRuntimePlan.cfg` with a "pause" or "cancel" added to `ApiOps`: `LifecycleSpec`
  fails, since a turn in progress overwrites it. Also, without `LifecycleSpec`:
  with "pause" and "resume" added, `LostOnlyIfOvertaken` fails, since `resume_job`
  stores `executing` and enqueues nothing. With "cancel" or "pause" added, `RestingUnlocked` fails: a job cancelled or
  paused by the API between two turns is not runnable at the next one, and its lock is
  not given back.
* `JobRuntimeReadOnly.cfg` with `MaxCrashes = 1`: a failed dry run is saved before the
  decision about it (`worker.py:408` and `:429`), so a crash between the two leaves a
  failed step that no selector takes and recovery does not reset; the next turn finds
  nothing to run and completes the job, against `CompletedMeansSettled`.

The passing runs therefore leave out what these need: `JobRuntimePlan` has no pause,
resume, cancel or late approval, `JobRuntimeReadOnly` no resume and no crash, and
`NamespaceTwinPolled` no crash and no passing day. `JobRuntimeGoverned`, whose properties
hold for every request, has neither late approvals nor worker flags nor the other instructions
for the size of the run only; the theorems cover them. `EvidenceKept` speaks of undecided
twins and `DriftHasCause` of withdrawal, where the code is careful. Within those
limits the properties hold. `PlannedIsNeverMissing` takes plans with cluster-scoped
objects, as the contract test of `build_dependency_graph` does; the manifest loader
(`artifacts/manifest_loader.py:88`) blocks these kinds before the service builds a
graph.

Operators whose comment begins with *Fault:* are the mutants of `PROJECT.json`:
plausible mistakes, each of which makes a property fail.


## 4. What is only model-checked

* Liveness (`RestsUnlessOvertaken`, `DecisionComes`): TLAPS has no rules for
  fairness that need ENABLED.
* `CompletedMeansSettled` is proved while nothing crashes, as the run checks it; after
  a crash it is false (section 3).

## 5. What is proved

*From `PlanAssumption` and `RuntimeAssumption`* (constants are typed, steps are
numbered by phase), for every plan, mode, set of requests, retry limit and bound:

* `JobRuntime_proofs!TypeCorrect`. `TypeOK` says more than types: in a pc inside a
  step, `wk.s` is a step. It rests on `LeastIsIn` (the selectors, which choose the
  least member of a set of naturals, return a member).
* The lemmas `WorkerEffects`, `ClientEffects` and `ProcessEffects` sort the actions into
  a few kinds by what they do to steps, attempts and history; the next four theorems are
  then short arguments over kinds.
  * `AttemptsAreAccounted`: `AttemptsAccounted` is strengthened by `AttemptInv`, that
    the record in the worker's hands counts as many attempts as the stored one and,
    at the gate, one more than the calls.
  * `MutationsAreLocked`, from `LockHeld`.
  * `DecisionIsQuiet`: while a job, or the copy a request read, awaits a decision,
    the worker has no step in hand. This is why an instruction cannot meet a turn
    that would overwrite it, and everything below needs it.
  * `NoMutationIsReplayed`, from `SpentInv`: a step whose mutation was sent stays in a
    state the selector refuses until an instruction changes it. A crash leaves it
    `mutation_running`, which recovery turns into a decision.
* The lemma `WorkerTurns` sorts the worker's actions a second time, by what they do to
  the stored job: a turn begins, goes on, ends with a save, ends without one, or obeys a
  flag. Five theorems rest on it, each with a hypothesis on the clients.
  * Under `GuidedClients` (requests are only start, in a mode the worker runs by itself,
    continue, retry, wait, skip and refresh): `LifecycleIsKept`, that `JobRuntime`
    implements `JobLifecycle`; `WakeupsLostOnlyIfOvertaken` (`LostOnlyIfOvertaken`);
    `RestIsUnlocked` (`RestingUnlocked`). One invariant, `GuidedInv`, carries the three: what a request in
    flight may rely on (`RequestInv`), that the worker's copy has the stored state while
    it handles a job (`CopyInv`), and that work in progress is attended to, or the id is
    noted for good (`WorkInv`). That an id is noted without an entry only after an
    overtaken enqueue is `DequeInv`, which holds for all clients.
    Crashes and recoveries are included. The hypothesis is needed: pause, resume,
    cancel, abort, approval and rollback requests save a copy read before the worker's
    last save, or end the job over a turn in progress (`BugCancelOverwritten`).
  * Under `ReadOnlyClients` (the mode is not `execute_after_approval`, no request is
    resume): `NothingIsMutated` (`NonExecutingIsReadOnly`), from `ReadOnlyInv`, that no
    copy of the job reaches a state from which mutations start. All instructions,
    approvals, flags, cancels and crashes are included; resume is left out because it puts
    the job in `executing` whatever its mode is (`BugDryRunOnlyMutates`).
    `CompletedIsSettled`, `Spec => [](crashes = 0 => CompletedMeansSettled)`, from
    `SettledInv`: every step is in the worker's hands, runnable, done, or in a state that
    stands behind a decision of the job.
* `GovernedMutation_proofs!RuntimeIsGoverned`: `Spec => GovernedSpec`, using `PermitInv`
  (a dry-run status of success was earned by a dry run or given by an instruction): every
  call has a CONTINUE, an approval on record, an unspent permit and a retry left.

*From `LockAssumption`*, for any number of processes, jobs and leases:
`NamespaceLock_proofs`: `TypeCorrect`, `Exclusion`, `ReleaseIsOwn`, from `LockInv` (a
stored lease is noted by its owner; a note is the stored lease or has lapsed).

*From `RepositoryAssumption`*, for any number of processes, threads, moves and
mishaps, `SharedRepository_proofs`:

* `SavesStand` (`OwnSavesStand`). The strengthening says that one thread of a process
  flushes at a time (`OneFlush`), that what it is about to write is the snapshot of
  its process (`TextIsSnapshot`), and that a snapshot keeps every save of its own
  process (`KeptInMemory`).
* `TrailStands` (`TrailOrdered`), from `InOrder`: a thread's three saves reach the
  snapshot in the order of the code, so that an event is never there without the
  state it tells of.

*From `ExecutorAssumption`*, for any bundle, any number of attempts, crashes and
reverts, `StepExecutor_proofs`:

* `TypeCorrect`, with `Located`: a call that is awaited is one of the step's.
* `Stages` ties the pc of a call to the stored state of the step; the next three rest
  on it.
* `EffectsAreAccounted`, from `Account`: what landed, and what requests on their way may
  still change, is in a stored observation, in the record in hand or the call awaited,
  or the outcome is declared unknown, unless the step was saved as finished and its
  observation was lost in a crash.
* `NothingUnrehearsedLands`, from `Rehearsals`: rehearsals go in order, a step that
  counts as rehearsed is, and every request on its way was rehearsed and admitted.
* `SuccessIsEarned`, from `Progress`: requests go in order, an answer tells of its own
  request, and where no release was deployed before, a deployed one is the step's.
* `RevertIsThorough`, from `RevertInv`: a sweep that has gone well so far left nothing
  of the collections it passed but what was applied again.

*From `AssessmentsAssumption`*, for any number of replicas, twins, idempotency keys
and jobs, `NamespaceTwin_proofs`: `TypeCorrect`, `DecisionIsBacked`
(`DecisionStands`), `EvidenceIsKept` (`EvidenceKept`) and `VerdictIsKept`, that
`NamespaceTwin` implements `TwinVerdict`. One invariant carries them: `TypeOK`,
`RowInv` (what the columns of a row say together: a green decision has passed
evidence and a green policy beside it) and `ReqInv` (what a request carries between
two transactions, and what it may rely on in the row whatever other transactions did
to it). `EvidenceIsKept` adds `NothingLost`. `EffectOfStep` sorts all steps into six
kinds by what they do to a row (kept, born, moved, noted, merged, given a decision);
the four theorems are arguments over kinds.

*From `ObservationAssumption`* (the calls answer for the same kinds, which are those the
collector asks for, objects are of those kinds, a plan is a sequence, no release is named
"none"), for every namespace, edit, plan and reading, `TwinObservation_proofs`:
`ObservationTyped` (`TypeOK`), `CreationsAreReal` (`NoFalseCreate`), `DeletionsAreShown`
(`DeletionShown`), `DriftIsCaused` (`DriftHasCause`) and `LossesAreSeen`
(`LossIsSeen`). The invariant `Kept` only says that the twin keeps what it read; the
substance is in the lemmas about the operators: what a collection holds in terms of
what was heard (`CollectIs`), which changes count (`NothingChanged`, `LossIsMajor`)
and which status the worst of them gives (`StatusIs`). That an identity has one row
(`OneRow`) rests on `SameDeletion`: deletions of one identity make the same row.

*From `RulesAssumption`* (the inputs of the policy have their Boolean fields and a number
of missing nodes, pods and events are sequences, the objects of a plan are finitely many
and none is of a kind the graph makes up itself, an order of a graph lists its nodes), for
every input, `TwinRules_proofs`. A case never changes, so the content is in the rules:

* `PatchedIsFresh` (`FinalizeMatchesFresh`), from `MissingIs` and `MatchedIs`: what the
  dry run changes is one check and one risk rule.
* `WorseDecidesNoBetter` (`WorseIsNeverGreener`): `Worse` orders inputs by how much care
  they ask for; findings, missing evidence and matched rules grow along it
  (`FindingsGrow`, `MissingGrows`, `MatchedGrows`), the score with them (`RiskGrows`), and
  the first of the ordered rules that holds gives a level (`ProjectionIs`).
* `SignalsNeverCalm` (`MoreSignalsNeverCalmer`): every signal is a count of positions, and
  appending keeps the positions there are (`SignalsGrow`).
* `EnrichedIsDirect` (`EnrichAgreesWithAssess`): score and confidence are written out as
  conditions on the costs of the plan (`AssessmentIs`, `ScoreIs`), the rest is arithmetic.
* `NothingChangesSilently` (`NoSilentCategory`) and `PlannedIsFound`
  (`PlannedIsNeverMissing`); the latter from `NodesAccounted`, that every missing node is
  made up or a reference, and `MissingIsAbsent`, that a reference is missing only if
  nothing planned answers to it.
* `CyclesAreReported` (`CycleIsReported`), for any finite graph and order. The search is a
  recursive function, so it must first be shown to be one (`VisitDefined`): every call has
  less to do than its caller (`WorkLeft`: nodes neither open nor done come first, nodes left
  to visit second; `CallsWeighLess`), which needs to know what a call returns (`Keeps`),
  so `BodyKeeps` shows the two together. The induction is over numbers as a set
  (`AllNumbers`, from `LeastOf`). `Explored` says what a search does: if no back edge is
  met, the nodes done are `Settled`, that is closed and without a cycle (`NodeSettles`);
  if one is met, its target reaches its source (`Reaches`) and there is a cycle
  (`BackEdgeIsCycle`).

The strengthened invariants of `JobRuntime` and `NamespaceLock` were checked with TLC
before they were proved; those of the other modules were found from failing
obligations. The properties they imply were all checked first.

## 6. Not modelled

* *Plan and bundle parsing*: a translation of files into the plan that is a constant
  here, with no state and nothing concurrent. Its release notes and its cycle check
  are modelled with the twin.
* *MCP clients, routes, MCP server*: transport. What a call may do (answer, refuse,
  time out, be lost and take effect later) is in `StepExecutor`; the payloads are not.
* *Reports, memory, observability, redaction, read models of the twin, exports*: they
  read state and render it; nothing depends on what they produce.
* `run_validation` stores one observation and no state. `expire_due` of the approvals
  and the idempotency store have no caller.
* Hazards without a property keep a note in `PROJECT.json`: a flag that raises out of
  the worker's loop, which ends the thread, and the two observations of a rollback
  that are written after the job's transition.

What would add most from here: a composition of `JobRuntime` with `StepExecutor` in
place of the free outcomes of `MutationCalled` and `MutationReturns`, and weaker
hypotheses than `GuidedClients`: what of the lifecycle survives a pause or an approval.
