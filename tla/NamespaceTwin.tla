---------------------------- MODULE NamespaceTwin ----------------------------
(***************************************************************************)
(* The life of a namespace twin: rows of a database that several replicas  *)
(* of the service share, the requests they serve, and the dry-run jobs     *)
(* each of them runs in its own store (namespace_twin/service.py,          *)
(* persistence.py, models.py).                                             *)
(*                                                                         *)
(* A replica serves one request at a time: the routes are coroutines that  *)
(* call the service without awaiting. Every transaction of the repository  *)
(* locks the row, so it is one action; other replicas, the workers and     *)
(* crashes come between the transactions of a request.                     *)
(***************************************************************************)
EXTENDS TwinRuntime, TwinEvidence

CONSTANTS Replicas,
          Twins,
          Keys,         \* idempotency keys, of one actor and one namespace
          OtherJobs,    \* dry runs of the same bundle that no twin started
          Payloads,     \* replay results a client may send
          Policies,     \* what the policy, runtime and drift twins may say
          Effects,
          Drifts,
          MaxRequests,  \* requests that change something
          MaxMishaps    \* crashes, and days that pass

VARIABLES row, jobs, req, spent, mishaps, recorded

vars == <<row, jobs, req, spent, mishaps, recorded>>

Active == {"requested", "generating", "awaiting_dry_run", "dry_run_evidence_attached",
           "decision_calculating"}
Decided == {"green", "amber", "red"}
Withdrawn == {"failed", "cancelled", "superseded", "expired"}
Terminal == Decided \cup Withdrawn

Allowed ==
    [requested |-> {"generating"} \cup Withdrawn,
     generating |-> {"awaiting_dry_run"} \cup Withdrawn,
     awaiting_dry_run |-> {"dry_run_evidence_attached", "decision_calculating"} \cup Withdrawn,
     dry_run_evidence_attached |-> {"decision_calculating"} \cup Withdrawn,
     decision_calculating |-> Terminal]

CanTransition(from, to) == from \in Active /\ to \in Allowed[from]

Names == Twins \cup OtherJobs
NoFacts == [job |-> "none", sim |-> "none", evidence |-> "none", policy |-> "none",
            effect |-> "none", drift |-> "none", kept |-> {}]
NoTwin == [key |-> "none", status |-> "none", decision |-> "pending", expired |-> FALSE, facts |-> NoFacts]
NoJob == [state |-> "none", steps |-> "none", queued |-> FALSE, old |-> FALSE]
Idle == [pc |-> "idle", twin |-> "none", old |-> "none", run |-> FALSE, job |-> "none",
         evidence |-> "none", facts |-> NoFacts]

Exists(t) == row[t].status # "none"
Final(t) == row[t].decision # "pending"
Pc(r) == req[r].pc
Twin(r) == req[r].twin

(* Drift that is "unread" disables the execution without withdrawing the    *)
(* twin.                                                                    *)
ASSUME AssessmentsAssumption ==
    /\ Policies \subseteq Decided
    /\ Effects \subseteq {"no_uplift", "force_amber", "force_red"}
    /\ Drifts \subseteq {"none", "unread", "material"}

Init ==
    /\ row = [t \in Twins |-> NoTwin]
    /\ \E state \in {"completed", "decision_required"} :
          jobs = [r \in Replicas |-> [j \in Names |->
                    IF j \in Twins THEN NoJob
                    ELSE [NoJob EXCEPT !.state = state,
                                       !.steps = IF state = "completed" THEN "done" ELSE "failed"]]]
    /\ req = [r \in Replicas |-> Idle]
    /\ spent = 0 /\ mishaps = 0
    /\ recorded = [t \in Twins |-> NoFacts]

Then(r, pc) == req' = [req EXCEPT ![r] = IF pc = "idle" THEN Idle ELSE [@ EXCEPT !.pc = pc]]
Finish(r) == Then(r, "idle")

(* A new request that may change something. *)
Begin(r) == Pc(r) = "idle" /\ spent < MaxRequests /\ spent' = spent + 1

---------------------------------------------------------------------------
(* create: the bundle is read and assessed, then stored under its key, or   *)
(* the twin that has the key is returned.                                   *)
Replay(r, t, run) ==
    /\ Begin(r)
    /\ Exists(t)
    /\ req' = [req EXCEPT ![r] = IF run THEN [Idle EXCEPT !.pc = "ensure", !.twin = t, !.job = row[t].facts.job]
                                 ELSE Idle]
    /\ UNCHANGED <<row, jobs, mishaps, recorded>>

Create(r, t, key, old, run) ==
    /\ Begin(r)
    /\ ~Exists(t)
    /\ \A u \in Twins : row[u].key # key
    /\ \E policy \in Policies, effect \in Effects :
          LET facts == [NoFacts EXCEPT !.policy = policy, !.effect = effect]
          IN /\ row' = [row EXCEPT ![t] = [NoTwin EXCEPT !.key = key, !.status = "requested", !.facts = facts]]
             /\ recorded' = [recorded EXCEPT ![t] = facts]
    /\ req' = [req EXCEPT ![r] = [Idle EXCEPT !.pc = "generate", !.twin = t, !.old = old, !.run = run]]
    /\ UNCHANGED <<jobs, mishaps>>

(* A transition of the repository; a refused one ends the request. *)
Transition(r, to, next) ==
    /\ IF CanTransition(row[Twin(r)].status, to) \/ row[Twin(r)].status = to
       THEN row' = [row EXCEPT ![Twin(r)].status = to] /\ req' = [req EXCEPT ![r] = next]
       ELSE Finish(r) /\ UNCHANGED row
    /\ UNCHANGED <<jobs, spent, mishaps, recorded>>

At(r, pc) == [req[r] EXCEPT !.pc = pc]

Generate(r) == Pc(r) = "generate" /\ Transition(r, "generating", At(r, "await"))

(* A job linked by now is kept. *)
AwaitDryRun(r) ==
    /\ Pc(r) = "await"
    /\ Transition(r, "awaiting_dry_run",
                  IF req[r].old = "none" /\ ~req[r].run THEN Idle
                  ELSE [At(r, IF req[r].old # "none" THEN "supersede" ELSE "ensure")
                           EXCEPT !.job = row[Twin(r)].facts.job])

(* The database refuses one of the two transitions; the twin is marked as   *)
(* failed when it still can be.                                             *)
GenerationFails(r) ==
    /\ Pc(r) \in {"generate", "await"}
    /\ row' = [row EXCEPT ![Twin(r)].status = IF CanTransition(@, "failed") THEN "failed" ELSE @]
    /\ Finish(r)
    /\ UNCHANGED <<jobs, spent, mishaps, recorded>>

(* The twin this one replaces is withdrawn, unless it is terminal: then the *)
(* request ends here.                                                       *)
Supersede(r) ==
    /\ Pc(r) = "supersede"
    /\ IF row[req[r].old].status \in Active
       THEN /\ row' = [row EXCEPT ![req[r].old].status = "superseded"]
            /\ Then(r, IF req[r].run THEN "ensure" ELSE "idle")
       ELSE Finish(r) /\ UNCHANGED row
    /\ UNCHANGED <<jobs, spent, mishaps, recorded>>

---------------------------------------------------------------------------
(* The dry run of a twin: one job of a fixed name, made once, started, and  *)
(* then linked.                                                             *)
EnsureJob(r) ==
    /\ Pc(r) = "ensure"
    /\ IF req[r].job # "none" THEN Finish(r) /\ UNCHANGED jobs
       ELSE /\ \E steps \in {"todo", "none"} :
                  jobs' = IF jobs[r][Twin(r)].state # "none" THEN jobs
                          ELSE [jobs EXCEPT ![r][Twin(r)] = [NoJob EXCEPT !.state = "created", !.steps = steps]]
            /\ Then(r, "start")
    /\ UNCHANGED <<row, spent, mishaps, recorded>>

(* A job with steps is enqueued, whatever its state. One without steps can  *)
(* only be started once, and no worker takes it.                            *)
StartJob(r) ==
    /\ Pc(r) = "start"
    /\ LET job == jobs[r][Twin(r)]
       IN \/ /\ job.steps # "none"
             /\ jobs' = [jobs EXCEPT ![r][Twin(r)].queued = TRUE]
             /\ Then(r, "link")
          \/ /\ job.steps = "none" /\ job.state = "created"
             /\ jobs' = [jobs EXCEPT ![r][Twin(r)].state = "validating"]
             /\ Then(r, "link")
          \/ /\ job.steps = "none" /\ job.state # "created"
             /\ Finish(r) /\ UNCHANGED jobs
    /\ UNCHANGED <<row, spent, mishaps, recorded>>

(* Fault: evidence is merged into twins already decided. *)
AlwaysMergeable(t) == row[t].status \notin Withdrawn

(* merge_facts: the given facts over those of the row, unless the twin is   *)
(* final or terminal.                                                       *)
Mergeable(t) == ~Final(t) /\ row[t].status \notin Terminal

LinkJob(r) ==
    /\ Pc(r) = "link"
    /\ row' = IF Mergeable(Twin(r))
              THEN [row EXCEPT ![Twin(r)].facts.job = Twin(r), ![Twin(r)].facts.sim = "queued"] ELSE row
    /\ Finish(r)
    /\ UNCHANGED <<jobs, spent, mishaps, recorded>>

---------------------------------------------------------------------------
(* Fault: the state of the job is attached instead of its outcome. *)
StateAsEvidence(job) == IF job.state = "none" THEN "pending" ELSE job.state

(* What the service makes of a job. *)
EvidenceStatus(job) ==
    CASE job.state = "cancelled" \/ job.steps = "failed" -> "failed"
      [] job.steps = "done" -> "passed"
      [] job.steps = "todo" -> IF job.state = "running" THEN "running" ELSE "partial"
      [] job.steps = "none" /\ job.state # "cancelled" -> "pending"

RestingStates == {"completed", "decision_required", "failed", "cancelled"}

(* Fault: only a completed dry run is attached on a read. *)
AttachWhenCompleted(r, t) ==
    LET facts == row[t].facts
        state == IF jobs[r][facts.job].state = "none" THEN "unavailable" ELSE jobs[r][facts.job].state
    IN IF Final(t) \/ row[t].status \in Withdrawn \/ facts.job = "none" THEN Finish(r)
       ELSE IF state = "completed"
       THEN req' = [req EXCEPT ![r] = [Idle EXCEPT !.pc = "attach", !.twin = t, !.job = facts.job]]
       ELSE IF state # facts.sim
       THEN req' = [req EXCEPT ![r] = [Idle EXCEPT !.pc = "progress", !.twin = t, !.evidence = state]]
       ELSE Finish(r)

(* Every read of a twin first reconciles it with its job: progress is       *)
(* merged, a job that rests is attached. `follow' is the read a recording   *)
(* request ends with.                                                       *)
Reconcile(r, t) ==
    LET facts == row[t].facts
        state == IF jobs[r][facts.job].state = "none" THEN "unavailable" ELSE jobs[r][facts.job].state
    IN IF Final(t) \/ row[t].status \in Withdrawn \/ facts.job = "none" THEN Finish(r)
       ELSE IF state \in RestingStates
       THEN req' = [req EXCEPT ![r] = [Idle EXCEPT !.pc = "attach", !.twin = t, !.job = facts.job]]
       ELSE IF state # facts.sim
       THEN req' = [req EXCEPT ![r] = [Idle EXCEPT !.pc = "progress", !.twin = t, !.evidence = state]]
       ELSE Finish(r)

Get(r, t) ==
    /\ Pc(r) = "idle" /\ Exists(t)
    /\ Reconcile(r, t)
    /\ UNCHANGED <<row, jobs, spent, mishaps, recorded>>

Follow(r) ==
    /\ Pc(r) = "get"
    /\ Reconcile(r, Twin(r))
    /\ UNCHANGED <<row, jobs, spent, mishaps, recorded>>

Progress(r) ==
    /\ Pc(r) = "progress"
    /\ row' = IF Mergeable(Twin(r)) THEN [row EXCEPT ![Twin(r)].facts.sim = req[r].evidence] ELSE row
    /\ Finish(r)
    /\ UNCHANGED <<jobs, spent, mishaps, recorded>>

---------------------------------------------------------------------------
(* attach_dry_run_evidence: by a reconciliation or by a client. *)
RequestAttach(r, t, j) ==
    /\ Begin(r)
    /\ Exists(t)
    /\ req' = [req EXCEPT ![r] = [Idle EXCEPT !.pc = "attach", !.twin = t, !.job = j]]
    /\ UNCHANGED <<row, jobs, mishaps, recorded>>

ReadTwin(r) ==
    /\ Pc(r) = "attach"
    /\ IF Final(Twin(r)) \/ row[Twin(r)].status \in Withdrawn THEN Finish(r)
       ELSE req' = [req EXCEPT ![r].pc = "poll", ![r].facts = row[Twin(r)].facts]
    /\ UNCHANGED <<row, jobs, spent, mishaps, recorded>>

(* The evidence is polled for a while and checked: it must be there, fresh  *)
(* and terminal.                                                            *)
PollEvidence(r) ==
    /\ Pc(r) = "poll"
    /\ LET job == jobs[r][req[r].job]
           status == EvidenceStatus(job)
       IN IF job.state = "none" \/ job.old \/ status \in {"pending", "running"} THEN Finish(r)
          ELSE req' = [req EXCEPT ![r].pc = "merge", ![r].evidence = status]
    /\ UNCHANGED <<row, jobs, spent, mishaps, recorded>>

(* Fault: the merge writes the facts read before the poll. *)
MergeStale(r) ==
    /\ Pc(r) = "merge"
    /\ LET t == Twin(r)
           facts == [req[r].facts EXCEPT !.job = req[r].job, !.evidence = req[r].evidence]
       IN IF Mergeable(t)
          THEN /\ row' = [row EXCEPT ![t].facts = facts]
               /\ req' = [req EXCEPT ![r].pc = "mark", ![r].facts = facts]
          ELSE Finish(r) /\ UNCHANGED row
    /\ UNCHANGED <<jobs, spent, mishaps, recorded>>

(* What is read before the poll comes back with the merge: the simulation.  *)
MergeEvidence(r) ==
    /\ Pc(r) = "merge"
    /\ LET t == Twin(r)
           facts == [row[t].facts EXCEPT !.job = req[r].job, !.evidence = req[r].evidence,
                        !.sim = IF req[r].facts.sim = "none" THEN "none"
                                ELSE IF req[r].evidence = "passed" THEN "completed" ELSE "completed_with_findings"]
       IN IF Mergeable(t)
          THEN /\ row' = [row EXCEPT ![t].facts = facts]
               /\ req' = [req EXCEPT ![r].pc = "mark", ![r].facts = facts]
          ELSE Finish(r) /\ UNCHANGED row
    /\ UNCHANGED <<jobs, spent, mishaps, recorded>>

MarkAttached(r) == Pc(r) = "mark" /\ Transition(r, "dry_run_evidence_attached", At(r, "calculate"))

Calculate(r) == Pc(r) = "calculate" /\ Transition(r, "decision_calculating", At(r, "decide"))

(* Fault: the decision is made whatever became of the twin since. *)
DecideAnyway(r) ==
    /\ Pc(r) = "decide"
    /\ LET t == Twin(r)
           facts == req[r].facts
           d == CombineDecision(facts.evidence, facts.policy, facts.effect)
       IN row' = [row EXCEPT ![t].facts = facts, ![t].decision = d, ![t].status = d]
    /\ Finish(r)
    /\ UNCHANGED <<jobs, spent, mishaps, recorded>>

(* The decision replaces the facts of the row by those of the merge. *)
Decide(r) ==
    /\ Pc(r) = "decide"
    /\ LET t == Twin(r)
           facts == req[r].facts
       IN row' = IF ~Final(t) /\ row[t].status = "decision_calculating"
                 THEN LET d == CombineDecision(facts.evidence, facts.policy, facts.effect)
                      IN [row EXCEPT ![t].facts = facts, ![t].decision = d, ![t].status = d]
                 ELSE row
    /\ Finish(r)
    /\ UNCHANGED <<jobs, spent, mishaps, recorded>>

---------------------------------------------------------------------------
(* Assessments made later. Each is one transaction, whatever the state of   *)
(* the twin, followed by a read.                                            *)
Recording(r, t) == Begin(r) /\ Exists(t) /\ req' = [req EXCEPT ![r] = [Idle EXCEPT !.pc = "get", !.twin = t]]

(* Material drift withdraws the twin, decided or not. *)
RefreshDrift(r, t) ==
    /\ Recording(r, t)
    /\ \E drift \in Drifts :
          /\ row' = [row EXCEPT ![t].facts.drift = drift,
                                ![t].status = IF drift = "material" THEN "superseded" ELSE @]
          /\ recorded' = [recorded EXCEPT ![t].drift = drift]
    /\ UNCHANGED <<jobs, mishaps>>

RefreshRuntime(r, t) ==
    /\ Recording(r, t)
    /\ \E effect \in Effects : /\ row' = [row EXCEPT ![t].facts.effect = effect]
                               /\ recorded' = [recorded EXCEPT ![t].effect = effect]
    /\ UNCHANGED <<jobs, mishaps>>

Keep(t, what) ==
    /\ row' = [row EXCEPT ![t].facts.kept = @ \cup {what}]
    /\ recorded' = [recorded EXCEPT ![t].kept = @ \cup {what}]
    /\ UNCHANGED <<jobs, mishaps>>

RecordReplay(r, t) ==
    /\ Recording(r, t)
    /\ \E p \in Payloads : /\ ReplayAccepted(p)
                           /\ Keep(t, IF ReplayStatus(p) = "passed" THEN "replay_passed" ELSE "replay_failed")

ValidateReleaseNote(r, t) == Recording(r, t) /\ Keep(t, "release_note")

(* An execution is linked to a decided twin, whether or not it has been     *)
(* withdrawn since; nothing is read afterwards.                             *)
RecordExecutionLink(r, t) ==
    /\ Begin(r)
    /\ Final(t)
    /\ Keep(t, "execution_link")
    /\ UNCHANGED req

Cancel(r, t) ==
    /\ Begin(r)
    /\ row[t].status \in Active
    /\ row' = [row EXCEPT ![t].status = "cancelled"]
    /\ UNCHANGED <<jobs, req, mishaps, recorded>>

---------------------------------------------------------------------------
(* The worker of a replica and the clients of its jobs. A job has the       *)
(* states a twin tells apart: "running" stands for all the worker has       *)
(* between created and rest.                                                *)
JobIs(r, j, state, steps) ==
    jobs' = [jobs EXCEPT ![r][j] = [@ EXCEPT !.state = state, !.steps = steps, !.old = FALSE]]

JobRuns(r, j) ==
    /\ jobs[r][j].queued
    /\ \/ jobs[r][j].state = "created" /\ JobIs(r, j, "running", "todo")
       \/ /\ jobs[r][j].state = "running"
          /\ \/ JobIs(r, j, "completed", "done")
             \/ \E steps \in {"failed", "todo"} : JobIs(r, j, "decision_required", steps)
    /\ UNCHANGED <<row, req, spent, mishaps, recorded>>

(* A client cancels the job, or has its dry run repeated. *)
JobIsChanged(r, j) ==
    /\ spent < MaxRequests /\ spent' = spent + 1
    /\ \/ /\ jobs[r][j].state \notin {"none", "completed", "cancelled"}
          /\ JobIs(r, j, "cancelled", jobs[r][j].steps)
       \/ /\ jobs[r][j].state = "decision_required"
          /\ JobIs(r, j, "running", "todo")
    /\ UNCHANGED <<row, req, mishaps, recorded>>

(* The rows and the jobs survive; the request in flight does not. Recovery  *)
(* adds an event to every unfinished twin and resumes none of them.         *)
Crash(r) ==
    /\ mishaps < MaxMishaps /\ mishaps' = mishaps + 1
    /\ Pc(r) # "idle"
    /\ Finish(r)
    /\ UNCHANGED <<row, jobs, spent, recorded>>

(* A day later evidence is stale and twins are past their window. *)
DayPasses ==
    /\ mishaps < MaxMishaps /\ mishaps' = mishaps + 1
    /\ row' = [t \in Twins |-> [row[t] EXCEPT !.expired = Exists(t)]]
    /\ jobs' = [r \in Replicas |-> [j \in Names |->
                    [jobs[r][j] EXCEPT !.old = jobs[r][j].state # "none"]]]
    /\ UNCHANGED <<req, spent, recorded>>

Request(r) ==
    \/ \E t \in Twins, run \in BOOLEAN : Replay(r, t, run)
    \/ \E t \in Twins, key \in Keys, run \in BOOLEAN, old \in {"none"} \cup {u \in Twins : Exists(u)} :
            Create(r, t, key, old, run)
    \/ \E t \in Twins, j \in Names : RequestAttach(r, t, j)
    \/ \E t \in Twins : \/ RefreshDrift(r, t) \/ RefreshRuntime(r, t)
                        \/ RecordReplay(r, t) \/ ValidateReleaseNote(r, t)
                        \/ RecordExecutionLink(r, t) \/ Cancel(r, t)

(* The steps of a request in flight. *)
Serve(r) ==
    \/ Generate(r) \/ AwaitDryRun(r) \/ GenerationFails(r) \/ Supersede(r)
    \/ EnsureJob(r) \/ StartJob(r) \/ LinkJob(r)
    \/ Follow(r) \/ Progress(r)
    \/ ReadTwin(r) \/ PollEvidence(r) \/ MergeEvidence(r) \/ MarkAttached(r) \/ Calculate(r) \/ Decide(r)

Next ==
    \/ \E r \in Replicas : Request(r) \/ Serve(r) \/ Crash(r)
    \/ \E r \in Replicas, t \in Twins : Get(r, t)
    \/ \E r \in Replicas, j \in Names : JobRuns(r, j) \/ JobIsChanged(r, j)
    \/ DayPasses

Spec == Init /\ [][Next]_vars

(* A replica serves what it has begun, its worker runs the jobs, and        *)
(* clients keep reading the twins they asked for: their requests queue at   *)
(* the replica in the order they come, so each has its turn.                *)
PolledSpec ==
    /\ Spec
    /\ \A r \in Replicas : WF_vars(Serve(r))
    /\ \A r \in Replicas, j \in Names : WF_vars(JobRuns(r, j))
    /\ \A r \in Replicas, t \in Twins : SF_vars(Get(r, t))

---------------------------------------------------------------------------
Fact == [job : Names \cup {"none"}, sim : {"none", "queued", "unavailable", "created", "validating",
             "running", "completed", "completed_with_findings"},
         evidence : {"none", "passed", "failed", "partial"}, policy : Policies \cup {"none"},
         effect : Effects \cup {"none"}, drift : Drifts \cup {"none"},
         kept : SUBSET {"replay_passed", "replay_failed", "release_note", "execution_link"}]

Row == [key : Keys \cup {"none"}, status : Active \cup Terminal \cup {"none"},
        decision : Decided \cup {"pending"}, expired : BOOLEAN, facts : Fact]
Job == [state : RestingStates \cup {"none", "created", "validating", "running"},
        steps : {"none", "todo", "done", "failed"}, queued : BOOLEAN, old : BOOLEAN]
InFlight == [pc : {"idle", "generate", "await", "supersede", "ensure", "start", "link", "get",
                   "progress", "attach", "poll", "merge", "mark", "calculate", "decide"},
             twin : Twins \cup {"none"}, old : Twins \cup {"none"}, run : BOOLEAN,
             job : Names \cup {"none"},
             evidence : {"none", "unavailable", "created", "validating", "running",
                         "passed", "failed", "partial"},
             facts : Fact]

(* Rows, jobs and requests in flight hold values of their domains: what a   *)
(* request carries across transactions is itself a fact of the repository   *)
(* (models.py, the columns of namespace_twin_runs).                         *)
TypeOK ==
    /\ row \in [Twins -> Row] /\ jobs \in [Replicas -> [Names -> Job]] /\ req \in [Replicas -> InFlight]
    /\ recorded \in [Twins -> Fact]
    /\ spent \in Nat /\ mishaps \in Nat

(* A final decision is backed by the row it stands in: the twin is in the   *)
(* state of its decision or was superseded since, nothing else ever gets    *)
(* there, and green rests on a dry run that passed and a green policy, with *)
(* whatever other replicas, cancellations and drifts came between the       *)
(* transactions that led to it (persist_terminal_decision, merge_facts,     *)
(* record_drift).                                                           *)
DecisionStands ==
    \A t \in Twins :
        /\ Final(t) => row[t].status \in {row[t].decision, "superseded"}
        /\ row[t].status \in Decided => Final(t)
        /\ row[t].decision = "green" => row[t].facts.evidence = "passed" /\ row[t].facts.policy = "green"

(* While a twin is undecided no assessment, replay or release note recorded *)
(* for it is lost to a request that read the facts before                   *)
(* (merge_facts against record_drift, record_runtime_behavior, ...).        *)
EvidenceKept ==
    \A t \in Twins : Exists(t) /\ ~Final(t) =>
        /\ row[t].facts.drift = recorded[t].drift
        /\ row[t].facts.effect = recorded[t].effect
        /\ row[t].facts.kept = recorded[t].kept

(* A twin whose start_execution action is eligible (_project, _actions). *)
Startable(t) ==
    /\ row[t].decision = "green"
    /\ row[t].status # "superseded" /\ ~row[t].expired
    /\ row[t].facts.drift = "none"
    /\ row[t].facts.effect = "no_uplift"

(* While the last drift assessment says that drift is material or cannot be *)
(* told, execution is not eligible (record_drift: "supersede execution      *)
(* eligibility atomically").                                                *)
DriftStopsExecution == \A t \in Twins : recorded[t].drift # "none" => ~Startable(t)

(* What any one server promises of a twin (TwinVerdict). *)
V == INSTANCE TwinVerdict WITH
        evidence  <- [t \in Twins |-> row[t].facts.evidence],
        verdict   <- [t \in Twins |-> IF Final(t) THEN row[t].decision ELSE "none"],
        withdrawn <- [t \in Twins |-> row[t].status \in Withdrawn]
VerdictSpec == V!VerdictSpec

(* The evidence a linked twin waits for is there. *)
Conclusive(t) ==
    \E r \in Replicas, j \in Names :
        /\ row[t].facts.job = j
        /\ jobs[r][j].state \in RestingStates /\ ~jobs[r][j].old
        /\ EvidenceStatus(jobs[r][j]) # "pending"

Closed(t) == Final(t) \/ row[t].status \in Withdrawn

(* A twin whose dry run rests is decided or withdrawn in the end, if its    *)
(* evidence stays: the reads that clients make carry it through every       *)
(* transaction (_reconcile_authoritative_dry_run, attach_dry_run_evidence). *)
DecisionComes ==
    \A t \in Twins :
        (~Closed(t) /\ Conclusive(t)) ~> (Closed(t) \/ ~Conclusive(t))
=============================================================================
