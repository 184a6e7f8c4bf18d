---------------------------- MODULE StepExecutor ----------------------------
(***************************************************************************)
(* One mutating step carried to the cluster: its dry run                   *)
(* (runtime/dry_run.py), its mutation behind the policy                    *)
(* (runtime/mutation.py, policy/), the HTTP calls both make                *)
(* (runtime/mcp_rest_adapters.py), and the revert of the namespace that a  *)
(* client may ask for at any time (runtime/rollback.py, api/service.py).   *)
(*                                                                         *)
(* A call is a request the server may serve, refuse or lose, at any time   *)
(* after it was sent, also when its sender has given up. Which step runs   *)
(* when is the matter of JobRuntime; here the job has one step and every   *)
(* decision it asks for is answered by a retry.                            *)
(***************************************************************************)
EXTENDS Naturals, Sequences, FiniteSets

CONSTANTS
    Bundles,      \* sequences of manifests a k8s_apply step may refer to
    Excluded,     \* manifests excluded by configuration
    OutOfScope,   \* manifests that are cluster-scoped or of another namespace
    Secrets,      \* manifests with secret content
    Sweep,        \* NAMESPACE_REVERT_RESOURCES: what each collection deletes, in order
    MaxRetries,   \* PolicyLimits.max_retry_attempts
    MaxAttempts,  \* bound: attempts at the step
    MaxCrashes,   \* bound: crashes of the worker
    MaxReverts    \* bound: reverts of the namespace

Release == "release"
Elements(s) == {s[i] : i \in DOMAIN s}
Manifests == UNION {Elements(b) : b \in Bundles}
Targets == Manifests \cup {Release}

ASSUME ExecutorAssumption ==
    /\ \A b \in Bundles : b \in Seq(Manifests)
    /\ Release \notin Manifests /\ "template" \notin Manifests
    /\ Excluded \cup OutOfScope \cup Secrets \subseteq Manifests
    /\ Sweep \in Seq(SUBSET Manifests)
    /\ MaxRetries \in Nat /\ MaxAttempts \in Nat /\ MaxCrashes \in Nat /\ MaxReverts \in Nat

VARIABLES
    plan,      \* the step: [type, documents], and whether the release is deployed before it
    step,      \* the stored step: [state, dry, attempts]
    call,      \* the executor's local state
    report,    \* what the stored observations say: [mutations, unknown]
    sent,      \* requests on their way: <<target, attempt>>
    cluster,   \* [applied, release, was, by]: an install of `by` is under way over `was`
    revert,    \* the revert in progress, or the outcome of the last one
    bounds,    \* crashes and reverts so far
    landed,    \* history: the targets this step ever changed
    done,      \* history: the targets this step applied or deployed
    since,     \* history: the manifests applied since the last revert began
    rehearsed  \* history: the targets whose dry run succeeded

vars == <<plan, step, call, report, sent, cluster, revert, bounds, landed, done, since,
          rehearsed>>
history == <<landed, done, since, rehearsed>>

StepStates == {"pending", "dry_run_running", "dry_run_succeeded", "dry_run_failed",
               "mutation_running", "mutation_succeeded", "mutation_failed", "decision_required"}
Deployed == {"old", "new"}
Nobody == <<"none", 0>>
Tokens == Targets \X (0..MaxAttempts)

IsHelm == plan.type = "helm_upgrade"

Previews == IF IsHelm THEN <<"template", Release>> ELSE plan.documents
Changes == IF IsHelm THEN <<Release>> ELSE plan.documents

(* What is left of a sequence from position i on: both executors leave the  *)
(* excluded manifests out (_manifest_excluded).                             *)
Left(s, i) == {k \in DOMAIN s : k >= i /\ s[k] \notin Excluded}
IsFirst(k, S) == k \in S /\ \A l \in S : k <= l
Wanted == {Changes[k] : k \in Left(Changes, 1)}

Calling(pc, mutations, unknown) ==
    [pc |-> pc, i |-> 1, reply |-> "none", mutations |-> mutations, unknown |-> unknown]
Quiet == Calling("idle", {}, FALSE)
Reverting(pc, dry, before, outcome) ==
    [pc |-> pc, i |-> 1, dry |-> dry, ok |-> TRUE, before |-> before, outcome |-> outcome]
NoRevert == Reverting("idle", FALSE, {}, "none")
Token == <<Changes[call.i], step.attempts>>

Init ==
    /\ plan \in {[type |-> "k8s_apply", documents |-> b, upgrade |-> u] : b \in Bundles, u \in BOOLEAN}
                \cup {[type |-> "helm_upgrade", documents |-> <<>>, upgrade |-> u] : u \in BOOLEAN}
    /\ step = [state |-> "pending", dry |-> "none", attempts |-> 0]
    /\ call = Quiet
    /\ report = [mutations |-> {}, unknown |-> FALSE]
    /\ sent = {}
    /\ cluster = [applied |-> {}, release |-> IF plan.upgrade THEN "old" ELSE "absent",
                  was |-> "absent", by |-> Nobody]
    /\ revert = NoRevert
    /\ bounds = [crashes |-> 0, reverts |-> 0]
    /\ landed = {} /\ done = {} /\ since = {} /\ rehearsed = {}

-----------------------------------------------------------------------------
(* The worker: it saves the running step, calls the executor, and saves     *)
(* what came of it.                                                         *)

WorkerFrame == UNCHANGED <<plan, cluster, revert, bounds>>

Begin(from, to, dry, pc) ==
    /\ call.pc = "idle"
    /\ step.state = from
    /\ step.attempts < MaxAttempts
    /\ step' = [state |-> to, dry |-> dry, attempts |-> step.attempts + 1]
    /\ call' = Calling(pc, {}, FALSE)
    /\ UNCHANGED <<report, sent, history>> /\ WorkerFrame

BeginDryRun == Begin("pending", "dry_run_running", "dry_run_running", "rehearse")

BeginMutation == Begin("dry_run_succeeded", "mutation_running", step.dry, "gate")

\* Fault: the rest of the manifests is taken for rehearsed.
RehearseOnce ==
    /\ call.pc = "rehearse"
    /\ \E k \in DOMAIN Previews :
          /\ IsFirst(k, Left(Previews, call.i))
          /\ rehearsed' = rehearsed \cup {Previews[k]}
    /\ call' = [call EXCEPT !.i = Len(Previews) + 1]
    /\ UNCHANGED <<step, report, sent, landed, done, since>> /\ WorkerFrame

(* The next dry run of DryRunExecutor.execute: it changes nothing.          *)
Rehearse ==
    /\ call.pc = "rehearse"
    /\ \E k \in DOMAIN Previews :
          /\ IsFirst(k, Left(Previews, call.i))
          /\ rehearsed' = rehearsed \cup {Previews[k]}
          /\ call' = [call EXCEPT !.i = k + 1]
    /\ UNCHANGED <<step, report, sent, landed, done, since>> /\ WorkerFrame

RehearsalSucceeds ==
    /\ call.pc = "rehearse"
    /\ Left(Previews, call.i) = {}
    /\ step' = [step EXCEPT !.state = "dry_run_succeeded", !.dry = "dry_run_succeeded"]
    /\ call' = Quiet
    /\ UNCHANGED <<report, sent, history>> /\ WorkerFrame

(* A file that is missing, a client that is, a dry run that is refused.     *)
RehearsalFails ==
    /\ call.pc = "rehearse"
    /\ step' = [step EXCEPT !.state = "dry_run_failed", !.dry = "dry_run_failed"]
    /\ call' = [call EXCEPT !.pc = "report"]
    /\ UNCHANGED <<report, sent, history>> /\ WorkerFrame

(* MutationActionResult of a failure; the step is saved before the          *)
(* observation that carries the result.                                     *)
Fail(mutations, unknown) ==
    /\ step' = [step EXCEPT !.state = "mutation_failed"]
    /\ call' = Calling("report", mutations, unknown)

Succeed(mutations) ==
    /\ step' = [step EXCEPT !.state = "mutation_succeeded"]
    /\ call' = Calling("report", mutations, FALSE)

(* The observation, and the decision a failure asks for.                    *)
Report ==
    /\ call.pc = "report"
    /\ report' = [mutations |-> report.mutations \cup call.mutations,
                  unknown |-> report.unknown \/ call.unknown]
    /\ step' = IF step.state = "mutation_succeeded" THEN step
               ELSE [step EXCEPT !.state = "decision_required"]
    /\ call' = Quiet
    /\ UNCHANGED <<sent, history>> /\ WorkerFrame

(* A CONTINUE or RETRY: the job's dry run, once satisfied, is not repeated. *)
Retry ==
    /\ call.pc = "idle"
    /\ step.state = "decision_required"
    /\ step' = IF step.dry = "dry_run_succeeded"
               THEN [step EXCEPT !.state = "dry_run_succeeded"]
               ELSE [step EXCEPT !.state = "pending", !.dry = "none"]
    /\ UNCHANGED <<call, report, sent, history>> /\ WorkerFrame

(* A crash of the worker and the reconciliation of the next start, which    *)
(* finds a failed step as it was left.                                      *)
Crash ==
    /\ call.pc # "idle"
    /\ bounds.crashes < MaxCrashes
    /\ bounds' = [bounds EXCEPT !.crashes = @ + 1]
    /\ call' = Quiet
    /\ step' = CASE step.state = "mutation_running" -> [step EXCEPT !.state = "decision_required"]
                 [] step.state = "dry_run_running" -> [step EXCEPT !.state = "pending", !.dry = "none"]
                 [] OTHER -> step
    /\ report' = [report EXCEPT !.unknown = @ \/ step.state = "mutation_running"]
    /\ UNCHANGED <<plan, sent, cluster, revert, history>>

-----------------------------------------------------------------------------
(* MutationExecutor.execute                                                 *)

(* evaluate_policy, on the manifests that are not excluded.                 *)
WithinLimits == step.attempts <= MaxRetries
InScope == Wanted \cap OutOfScope = {}
NoSecrets == Wanted \cap Secrets = {}

PolicyAllows ==
    /\ step.dry = "dry_run_succeeded"
    /\ WithinLimits
    /\ InScope
    /\ NoSecrets

(* No instruction, no file, a policy block; approvals and the command may   *)
(* always be at fault.                                                      *)
Refused ==
    /\ call.pc = "gate"
    /\ Fail({}, FALSE)
    /\ UNCHANGED <<report, sent, history>> /\ WorkerFrame

AllExcluded ==
    /\ call.pc = "gate"
    /\ Wanted = {}
    /\ Succeed({})
    /\ UNCHANGED <<report, sent, history>> /\ WorkerFrame

Admitted ==
    /\ call.pc = "gate"
    /\ Wanted # {}
    /\ PolicyAllows
    /\ call' = [call EXCEPT !.pc = IF IsHelm THEN "repo" ELSE "send"]
    /\ UNCHANGED <<step, report, sent, history>> /\ WorkerFrame

(* install_upgrade registers the chart's repository first; what comes of    *)
(* that is taken for the answer to the install.                             *)
AddRepo ==
    /\ call.pc = "repo"
    /\ \/ call' = [call EXCEPT !.pc = "send"] /\ UNCHANGED step
       \/ Fail({Release}, FALSE)
       \/ call' = [call EXCEPT !.pc = "status"] /\ UNCHANGED step
    /\ UNCHANGED <<report, sent, history>> /\ WorkerFrame

Send ==
    /\ call.pc = "send"
    /\ \E k \in DOMAIN Changes :
          /\ IsFirst(k, Left(Changes, call.i))
          /\ sent' = sent \cup {<<Changes[k], step.attempts>>}
          /\ call' = [call EXCEPT !.pc = "await", !.i = k, !.reply = "none"]
    /\ UNCHANGED <<step, report, history>> /\ WorkerFrame

\* Fault: a mutation is recorded once it succeeded.
RecordedOnSuccess == call.mutations \cup (IF call.reply = "ok" THEN {Changes[call.i]} ELSE {})

Recorded == call.mutations \cup {Changes[call.i]}

Answered ==
    /\ call.pc = "await"
    /\ call.reply = "ok"
    /\ IF Left(Changes, call.i + 1) = {}
       THEN Succeed(Recorded)
       ELSE /\ call' = [call EXCEPT !.pc = "send", !.i = @ + 1, !.mutations = Recorded]
            /\ UNCHANGED step
    /\ UNCHANGED <<report, sent, history>> /\ WorkerFrame

(* _is_ambiguous_helm_transport_failure: a gateway's 502, 503 or 504 too.   *)
Ambiguous ==
    /\ IsHelm
    /\ call' = [call EXCEPT !.pc = "status"]
    /\ UNCHANGED step

(* A refusal, or the client's timeout whatever the server does: a manifest  *)
(* is recorded and reported as failed, a release is looked up.              *)
NotAnswered ==
    /\ call.pc = "await"
    /\ \/ call.reply = "refused" /\ Fail(Recorded, FALSE)
       \/ ~IsHelm /\ Fail(Recorded, FALSE)
       \/ Ambiguous
    /\ UNCHANGED <<report, sent, history>> /\ WorkerFrame

(* The call raises, whatever the server does.                               *)
Raised ==
    /\ call.pc = "await"
    /\ Fail(call.mutations, TRUE)
    /\ UNCHANGED <<report, sent, history>> /\ WorkerFrame

\* Fault: any release of that name is taken for a deployed one.
StatusAnyRelease ==
    /\ call.pc = "status"
    /\ \/ cluster.release # "absent" /\ Succeed({Release})
       \/ Fail({Release}, TRUE)
    /\ UNCHANGED <<report, sent, history>> /\ WorkerFrame

(* The status of a release after an ambiguous failure; it may fail itself.  *)
Status ==
    /\ call.pc = "status"
    /\ \/ cluster.release \in Deployed /\ Succeed({Release})
       \/ Fail({Release}, TRUE)
    /\ UNCHANGED <<report, sent, history>> /\ WorkerFrame

-----------------------------------------------------------------------------
(* The servers of the cluster.                                              *)

ServerFrame == UNCHANGED <<plan, step, report, revert, bounds, rehearsed>>
Expected(t) == call.pc = "await" /\ t = Token
Reply(t, r) == call' = IF Expected(t) THEN [call EXCEPT !.reply = r] ELSE call

Apply(t) ==
    /\ t \in sent /\ t[1] # Release
    /\ cluster' = [cluster EXCEPT !.applied = @ \cup {t[1]}]
    /\ sent' = sent \ {t}
    /\ landed' = landed \cup {t[1]} /\ done' = done \cup {t[1]} /\ since' = since \cup {t[1]}
    /\ Reply(t, "ok") /\ ServerFrame

(* One operation on a release at a time.                                    *)
StartInstall(t) ==
    /\ t \in sent /\ t[1] = Release
    /\ cluster.by = Nobody
    /\ cluster' = [cluster EXCEPT !.release = "pending", !.was = cluster.release, !.by = t]
    /\ sent' = sent \ {t}
    /\ landed' = landed \cup {Release}
    /\ UNCHANGED <<call, done, since>> /\ ServerFrame

(* An install that fails is rolled back when the job's client is atomic.    *)
FinishInstall ==
    /\ cluster.by # Nobody
    /\ \/ /\ cluster' = [cluster EXCEPT !.release = "new", !.by = Nobody]
          /\ Reply(cluster.by, "ok")
          /\ done' = done \cup {Release}
       \/ /\ \E r \in {"failed", cluster.was} :
                cluster' = [cluster EXCEPT !.release = r, !.by = Nobody]
          /\ Reply(cluster.by, "refused")
          /\ UNCHANGED done
    /\ UNCHANGED <<sent, landed, since>> /\ ServerFrame

Refuse(t) ==
    /\ t \in sent
    /\ sent' = sent \ {t}
    /\ Reply(t, "refused")
    /\ UNCHANGED <<cluster, landed, done, since>> /\ ServerFrame

Lose(t) ==
    /\ t \in sent
    /\ sent' = sent \ {t}
    /\ UNCHANGED <<call, cluster, landed, done, since>> /\ ServerFrame

-----------------------------------------------------------------------------
(* RollbackExecutor.revert_namespace. It runs on the thread of the request, *)
(* without the namespace lock, next to the worker.                          *)

RevertFrame == UNCHANGED <<plan, step, call, report, sent, landed, done, rehearsed>>

\* A dry run makes the same calls, which then delete nothing.
BeginRevert ==
    /\ revert.pc = "idle"
    /\ bounds.reverts < MaxReverts
    /\ bounds' = [bounds EXCEPT !.reverts = @ + 1]
    /\ \E dry \in BOOLEAN :
          revert' = Reverting("list", dry, cluster.applied, "running")
    /\ since' = {}
    /\ UNCHANGED cluster /\ RevertFrame

(* A rollback lacks its approval or its instruction: no call is made.       *)
RollbackUnauthorized ==
    /\ revert.pc = "idle"
    /\ bounds.reverts < MaxReverts
    /\ bounds' = [bounds EXCEPT !.reverts = @ + 1]
    /\ revert' = Reverting("idle", FALSE, {}, "failed")
    /\ UNCHANGED <<cluster, since>> /\ RevertFrame

(* A listing that fails is a listing without releases.                      *)
ListReleases ==
    /\ revert.pc = "list"
    /\ \/ cluster.release # "absent" /\ revert' = [revert EXCEPT !.pc = "uninstall"]
       \/ revert' = [revert EXCEPT !.pc = "sweep"]
    /\ UNCHANGED <<cluster, bounds, since>> /\ RevertFrame

\* What a call of the revert may come to: it may time out after it took effect.
Outcomes == {o \in [ok : BOOLEAN, deleted : BOOLEAN] :
                (o.ok /\ ~revert.dry => o.deleted) /\ (o.deleted => ~revert.dry)}

(* The release is uninstalled or, in the mode of that name, rolled back to  *)
(* the revision before.                                                     *)
Uninstall ==
    /\ revert.pc = "uninstall"
    /\ \E o \in Outcomes, r \in {"absent"} \cup (IF plan.upgrade THEN {"old"} ELSE {}) :
          /\ cluster' = IF o.deleted THEN [cluster EXCEPT !.release = r, !.was = "absent", !.by = Nobody]
                        ELSE cluster
          /\ revert' = [revert EXCEPT !.pc = "sweep", !.ok = @ /\ o.ok]
    /\ UNCHANGED <<bounds, since>> /\ RevertFrame

\* Fault: a revert succeeds when its last call does.
DeleteCollectionForgets ==
    /\ revert.pc = "sweep"
    /\ revert.i <= Len(Sweep)
    /\ \E o \in Outcomes :
          /\ cluster' = IF o.deleted THEN [cluster EXCEPT !.applied = @ \ Sweep[revert.i]] ELSE cluster
          /\ revert' = [revert EXCEPT !.i = @ + 1, !.ok = o.ok]
    /\ UNCHANGED <<bounds, since>> /\ RevertFrame

DeleteCollection ==
    /\ revert.pc = "sweep"
    /\ revert.i <= Len(Sweep)
    /\ \E o \in Outcomes :
          /\ cluster' = IF o.deleted THEN [cluster EXCEPT !.applied = @ \ Sweep[revert.i]] ELSE cluster
          /\ revert' = [revert EXCEPT !.i = @ + 1, !.ok = @ /\ o.ok]
    /\ UNCHANGED <<bounds, since>> /\ RevertFrame

\* Fault: the outcome is the state the job moves to.
EndRevertAsJob ==
    /\ revert.pc = "sweep"
    /\ revert.i > Len(Sweep)
    /\ revert' = [revert EXCEPT !.pc = "idle", !.outcome = "completed"]
    /\ UNCHANGED <<cluster, bounds, since>> /\ RevertFrame

EndRevert ==
    /\ revert.pc = "sweep"
    /\ revert.i > Len(Sweep)
    /\ revert' = [revert EXCEPT !.pc = "idle",
                                !.outcome = IF revert.ok THEN "succeeded" ELSE "failed"]
    /\ UNCHANGED <<cluster, bounds, since>> /\ RevertFrame

-----------------------------------------------------------------------------
Executor ==
    \/ BeginDryRun \/ Rehearse \/ RehearsalSucceeds \/ RehearsalFails
    \/ BeginMutation \/ Refused \/ AllExcluded \/ Admitted \/ AddRepo \/ Send
    \/ Answered \/ NotAnswered \/ Raised \/ Status \/ Report \/ Retry \/ Crash

Servers ==
    \/ FinishInstall
    \/ \E t \in sent : Apply(t) \/ StartInstall(t) \/ Refuse(t) \/ Lose(t)

Reverter == BeginRevert \/ RollbackUnauthorized \/ ListReleases \/ Uninstall \/ DeleteCollection \/ EndRevert

Next == Executor \/ Servers \/ Reverter

Spec == Init /\ [][Next]_vars

-----------------------------------------------------------------------------
(* Types.                                                                   *)
Plan == [type : {"k8s_apply", "helm_upgrade"}, documents : Bundles \cup {<<>>}, upgrade : BOOLEAN]
StepRecord == [state : StepStates, dry : {"none"} \cup StepStates, attempts : 0..MaxAttempts]
CallRecord == [pc : {"idle", "rehearse", "gate", "repo", "send", "await", "status", "report"},
               i : Nat \ {0}, reply : {"none", "ok", "refused"},
               mutations : SUBSET Targets, unknown : BOOLEAN]
ReportRecord == [mutations : SUBSET Targets, unknown : BOOLEAN]
ReleaseStates == {"absent", "old", "pending", "failed", "new"}
ClusterRecord == [applied : SUBSET Manifests, release : ReleaseStates, was : ReleaseStates,
                  by : Tokens \cup {Nobody}]
RevertRecord == [pc : {"idle", "list", "uninstall", "sweep"}, i : Nat \ {0}, dry : BOOLEAN,
                 ok : BOOLEAN, before : SUBSET Manifests,
                 outcome : {"none", "running", "succeeded", "failed"}]
Bounds == [crashes : 0..MaxCrashes, reverts : 0..MaxReverts]

TypeOK ==
    /\ plan \in Plan /\ step \in StepRecord /\ call \in CallRecord /\ report \in ReportRecord
    /\ sent \subseteq Tokens
    /\ cluster \in ClusterRecord /\ revert \in RevertRecord /\ bounds \in Bounds
    /\ landed \subseteq Targets /\ done \subseteq landed /\ since \subseteq Manifests
    /\ rehearsed \subseteq Targets \cup {"template"}

(* Whoever is asked for a decision on the step reads an account of it: each *)
(* object it changed is among the recorded mutations, or the outcome is     *)
(* declared unknown, however the calls were lost and wherever a worker      *)
(* crashed. A request that lands later was recorded by who gave it up.      *)
EffectsAccounted ==
    step.state = "decision_required" => landed \subseteq report.mutations \/ report.unknown

(* Whatever reached the cluster, late requests included, passed its own dry *)
(* run before, and neither the configuration nor a guard held it back.      *)
OnlyRehearsed == landed \subseteq rehearsed \ (Excluded \cup OutOfScope \cup Secrets)

(* A step is declared done when each of its manifests was applied, or its   *)
(* release deployed; the latter where none was deployed before, as an       *)
(* upgrade that got lost is taken for done when the release it should have  *)
(* replaced is found deployed.                                              *)
SuccessIsReal ==
    step.state = "mutation_succeeded" /\ ~(IsHelm /\ plan.upgrade) => Wanted \subseteq done

(* The same of every step (NFR-001: a mutation whose outcome is not known   *)
(* stops for a decision).                                                   *)
AnySuccessIsReal == step.state = "mutation_succeeded" => Wanted \subseteq done

(* After a revert that reports success nothing is left of what it found in  *)
(* the collections it deletes but what was applied again meanwhile.         *)
RevertClears ==
    revert.outcome = "succeeded" /\ ~revert.dry
        => revert.before \cap (UNION Elements(Sweep)) \cap cluster.applied \subseteq since
=============================================================================
