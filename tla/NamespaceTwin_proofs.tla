------------------------ MODULE NamespaceTwin_proofs ------------------------
(***************************************************************************)
(* Proofs about NamespaceTwin for any number of replicas, twins, keys and  *)
(* jobs, and whatever the assessments say.  The steps are sorted into a    *)
(* few kinds by what they do to the row of a twin (EffectOfStep); the      *)
(* invariants and the refinement are arguments over the kinds.             *)
(***************************************************************************)
EXTENDS NamespaceTwin, TLAPS

-----------------------------------------------------------------------------
Outcomes == {"passed", "failed", "partial"}
Live == {"unavailable", "created", "validating", "running"}

\* What the columns of one row say together.
GoodRow(w) ==
    /\ w.status = "none" => w.decision = "pending" /\ w.facts.evidence = "none"
    /\ w.status # "none" => w.facts.policy \in Policies
    /\ w.decision # "pending" => w.status \in {w.decision, "superseded"}
    /\ w.status \in Decided => w.decision # "pending"
    /\ w.decision = "green" => w.facts.evidence = "passed" /\ w.facts.policy = "green"
    /\ w.status \in {"dry_run_evidence_attached", "decision_calculating"} \cup Decided
          => w.facts.evidence # "none"

RowInv == \A t \in Twins : GoodRow(row[t])

\* What a request in flight carries.
Carries(q) ==
    /\ q.pc # "idle" => q.twin \in Twins
    /\ q.pc = "supersede" => q.old \in Twins
    /\ q.pc = "progress" => q.evidence \in Live
    /\ q.pc = "merge" => q.evidence \in Outcomes
    /\ q.pc \in {"attach", "poll", "merge"} => q.job \in Names
    /\ q.pc \in {"mark", "calculate", "decide"}
          => q.facts.evidence \in Outcomes /\ q.facts.policy \in Policies

\* What it knows of its row, whatever came between its transactions.
Knows(r) ==
    /\ req[r].pc # "idle" => row[req[r].twin].status # "none"
    /\ req[r].pc \in {"mark", "calculate", "decide"} => row[req[r].twin].facts.evidence # "none"

ReqInv == \A r \in Replicas : Carries(req[r]) /\ Knows(r)

IInv == TypeOK /\ RowInv /\ ReqInv

-----------------------------------------------------------------------------
(* The kinds of steps, by what they do to the row of a twin.                *)

\* At most the passing of its window is noted.
Kept(t) ==
    /\ row'[t].status = row[t].status /\ row'[t].decision = row[t].decision
    /\ row'[t].facts = row[t].facts
    /\ recorded'[t] = recorded[t]

Born(t) ==
    /\ row[t].status = "none"
    /\ row'[t].status = "requested" /\ row'[t].decision = "pending"
    /\ row'[t].facts.evidence = "none" /\ row'[t].facts.policy \in Policies
    /\ recorded'[t] = row'[t].facts

\* An active twin moves on, or is withdrawn.
Moved(t) ==
    /\ row[t].status \in Active
    /\ \/ row'[t].status \in (Active \ {"dry_run_evidence_attached", "decision_calculating"}) \cup Withdrawn
       \/ row'[t].status \in Active /\ row[t].facts.evidence # "none"
    /\ row'[t].decision = row[t].decision /\ row'[t].facts = row[t].facts
    /\ recorded'[t] = recorded[t]

Agrees(facts, noted) ==
    facts.drift = noted.drift /\ facts.effect = noted.effect /\ facts.kept = noted.kept

\* Something is noted in its facts, which may withdraw it.
Noted(t) ==
    /\ row[t].status # "none"
    /\ row'[t].status \in {row[t].status, "superseded"}
    /\ row'[t].decision = row[t].decision
    /\ row'[t].facts.evidence = row[t].facts.evidence /\ row'[t].facts.policy = row[t].facts.policy
    /\ Agrees(row[t].facts, recorded[t]) => Agrees(row'[t].facts, recorded'[t])

Merged(t) ==
    /\ row[t].decision = "pending" /\ row[t].status \in Active
    /\ row'[t].status = row[t].status /\ row'[t].decision = row[t].decision
    /\ row'[t].facts.evidence \in Outcomes /\ row'[t].facts.policy = row[t].facts.policy
    /\ Agrees(row[t].facts, recorded[t]) => Agrees(row'[t].facts, recorded'[t])

Given(t) ==
    /\ row[t].decision = "pending" /\ row[t].status = "decision_calculating"
    /\ row'[t].decision \in Decided /\ row'[t].status = row'[t].decision
    /\ row'[t].facts.evidence \in Outcomes /\ row'[t].facts.policy \in Policies
    /\ row'[t].facts.evidence # "passed" => row'[t].decision = "red"
    /\ row'[t].decision = "green" => row'[t].facts.policy = "green"

Changed(t) == Born(t) \/ Moved(t) \/ Noted(t) \/ Merged(t) \/ Given(t)

\* One step changes one row at most.
Effect ==
    \/ \A t \in Twins : Kept(t)
    \/ \E t \in Twins : Changed(t) /\ \A u \in Twins \ {t} : Kept(u)

-----------------------------------------------------------------------------
(* Records.                                                                 *)

LEMMA NoFactsType == NoFacts \in Fact
  BY DEF NoFacts, Fact

LEMMA IdleType == Idle \in InFlight /\ Idle.pc = "idle"
  BY NoFactsType DEF Idle, InFlight

LEMMA StatusOf ==
  ASSUME NEW w \in Row, NEW s \in Active \cup Terminal
  PROVE  LET v == [w EXCEPT !.status = s]
         IN v \in Row /\ v.status = s /\ v.decision = w.decision /\ v.facts = w.facts
  BY DEF Row

LEMMA FactsOf ==
  ASSUME NEW w \in Row, NEW f \in Fact
  PROVE  LET v == [w EXCEPT !.facts = f]
         IN v \in Row /\ v.status = w.status /\ v.decision = w.decision /\ v.facts = f
  BY DEF Row

LEMMA RowSet ==
  ASSUME TypeOK, NEW t \in Twins, NEW w \in Row, row' = [row EXCEPT ![t] = w]
  PROVE  /\ row' \in [Twins -> Row] /\ row'[t] = w
         /\ \A u \in Twins \ {t} : row'[u] = row[u]
  BY DEF TypeOK

LEMMA StatusSet ==
  ASSUME TypeOK, NEW t \in Twins, NEW s \in Active \cup Terminal, row' = [row EXCEPT ![t].status = s]
  PROVE  /\ row' \in [Twins -> Row]
         /\ row'[t].status = s /\ row'[t].decision = row[t].decision /\ row'[t].facts = row[t].facts
         /\ \A u \in Twins \ {t} : row'[u] = row[u]
<1>1. row[t] \in Row /\ row' = [row EXCEPT ![t] = [row[t] EXCEPT !.status = s]]
  BY DEF TypeOK
<1>2. [row[t] EXCEPT !.status = s] \in Row
  BY <1>1, StatusOf
<1>3. row'[t] = [row[t] EXCEPT !.status = s] /\ row' \in [Twins -> Row]
      /\ \A u \in Twins \ {t} : row'[u] = row[u]
  BY <1>1, <1>2, RowSet
<1> QED
  BY <1>1, <1>3, StatusOf

LEMMA FactsSet ==
  ASSUME TypeOK, NEW t \in Twins, NEW f \in Fact, row' = [row EXCEPT ![t] = [row[t] EXCEPT !.facts = f]]
  PROVE  /\ row' \in [Twins -> Row]
         /\ row'[t].status = row[t].status /\ row'[t].decision = row[t].decision /\ row'[t].facts = f
         /\ \A u \in Twins \ {t} : row'[u] = row[u]
<1>1. row[t] \in Row
  BY DEF TypeOK
<1>2. [row[t] EXCEPT !.facts = f] \in Row
  BY <1>1, FactsOf
<1>3. row'[t] = [row[t] EXCEPT !.facts = f] /\ row' \in [Twins -> Row]
      /\ \A u \in Twins \ {t} : row'[u] = row[u]
  BY <1>2, RowSet
<1> QED
  BY <1>1, <1>3, FactsOf

LEMMA NotedFact ==
  ASSUME NEW f \in Fact
  PROVE  /\ \A d \in Drifts : LET g == [f EXCEPT !.drift = d]
                              IN g \in Fact /\ g.drift = d /\ g.effect = f.effect /\ g.kept = f.kept
                                 /\ g.evidence = f.evidence /\ g.policy = f.policy
         /\ \A e \in Effects : LET g == [f EXCEPT !.effect = e]
                               IN g \in Fact /\ g.drift = f.drift /\ g.effect = e /\ g.kept = f.kept
                                  /\ g.evidence = f.evidence /\ g.policy = f.policy
         /\ \A k \in {"replay_passed", "replay_failed", "release_note", "execution_link"} :
               LET g == [f EXCEPT !.kept = @ \cup {k}]
               IN g \in Fact /\ g.drift = f.drift /\ g.effect = f.effect /\ g.kept = f.kept \cup {k}
                  /\ g.evidence = f.evidence /\ g.policy = f.policy
<1>1. ASSUME NEW d \in Drifts
      PROVE  LET g == [f EXCEPT !.drift = d]
             IN g \in Fact /\ g.drift = d /\ g.effect = f.effect /\ g.kept = f.kept
                /\ g.evidence = f.evidence /\ g.policy = f.policy
  BY DEF Fact
<1>2. ASSUME NEW e \in Effects
      PROVE  LET g == [f EXCEPT !.effect = e]
             IN g \in Fact /\ g.drift = f.drift /\ g.effect = e /\ g.kept = f.kept
                /\ g.evidence = f.evidence /\ g.policy = f.policy
  BY DEF Fact
<1>3. ASSUME NEW k \in {"replay_passed", "replay_failed", "release_note", "execution_link"}
      PROVE  LET g == [f EXCEPT !.kept = @ \cup {k}]
             IN g \in Fact /\ g.drift = f.drift /\ g.effect = f.effect /\ g.kept = f.kept \cup {k}
                /\ g.evidence = f.evidence /\ g.policy = f.policy
  BY DEF Fact
<1> QED
  BY <1>1, <1>2, <1>3

-----------------------------------------------------------------------------
(* What each step does to the rows.                                         *)

RowTypes == row' \in [Twins -> Row] /\ recorded' \in [Twins -> Fact]

\* A step that leaves the rows alone.
LEMMA NoEffect == TypeOK /\ row' = row /\ recorded' = recorded => RowTypes /\ Effect
  BY DEF TypeOK, RowTypes, Effect, Kept

\* A step that changes one row and no other.
LEMMA OneEffect ==
  ASSUME TypeOK, NEW t \in Twins, Changed(t), recorded' \in [Twins -> Fact], row' \in [Twins -> Row],
         \A u \in Twins \ {t} : row'[u] = row[u] /\ recorded'[u] = recorded[u]
  PROVE  RowTypes /\ Effect
  BY DEF RowTypes, Effect, Kept

\* A transition of the repository.
LEMMA TransitionEffect ==
  ASSUME IInv, NEW r \in Replicas, Pc(r) # "idle", NEW to \in Active \ {"requested"}, NEW next,
         to \in {"dry_run_evidence_attached", "decision_calculating"}
            => row[Twin(r)].facts.evidence # "none",
         Transition(r, to, next)
  PROVE  RowTypes /\ Effect
<1>1. Twin(r) \in Twins /\ TypeOK
  BY DEF IInv, ReqInv, Carries, Pc, Twin
<1>2. recorded' = recorded /\ recorded \in [Twins -> Fact]
  BY <1>1 DEF Transition, TypeOK
<1>3. CASE CanTransition(row[Twin(r)].status, to) \/ row[Twin(r)].status = to
  <2>1. row' = [row EXCEPT ![Twin(r)].status = to]
    BY <1>3 DEF Transition
  <2>2. /\ row' \in [Twins -> Row]
        /\ row'[Twin(r)].status = to /\ row'[Twin(r)].decision = row[Twin(r)].decision
        /\ row'[Twin(r)].facts = row[Twin(r)].facts
        /\ \A u \in Twins \ {Twin(r)} : row'[u] = row[u]
    BY <1>1, <2>1, StatusSet
  <2>3. row[Twin(r)].status \in Active
    BY <1>3 DEF CanTransition
  <2>4. Moved(Twin(r))
    BY <1>2, <2>2, <2>3 DEF Moved
  <2> QED
    BY <1>1, <1>2, <2>2, <2>4, OneEffect DEF Changed
<1>4. CASE ~(CanTransition(row[Twin(r)].status, to) \/ row[Twin(r)].status = to)
  BY <1>1, <1>2, <1>4, NoEffect DEF Transition
<1> QED
  BY <1>3, <1>4

\* A fact other than the outcome, the policy and the assessments is set.
LEMMA FactEffect ==
  ASSUME TypeOK, NEW t \in Twins, NEW f \in Fact, row[t].status # "none", recorded' = recorded,
         row' = [row EXCEPT ![t] = [row[t] EXCEPT !.facts = f]],
         f.evidence = row[t].facts.evidence, f.policy = row[t].facts.policy,
         f.drift = row[t].facts.drift, f.effect = row[t].facts.effect, f.kept = row[t].facts.kept
  PROVE  RowTypes /\ Effect
<1>1. /\ row' \in [Twins -> Row]
      /\ row'[t].status = row[t].status /\ row'[t].decision = row[t].decision /\ row'[t].facts = f
      /\ \A u \in Twins \ {t} : row'[u] = row[u]
  BY FactsSet
<1>2. Noted(t)
  BY <1>1 DEF Noted, Agrees
<1> QED
  BY <1>1, <1>2, OneEffect DEF Changed, TypeOK

\* What Create stores.
LEMMA CreateEffect ==
  ASSUME IInv, NEW r \in Replicas, NEW t \in Twins, NEW key \in Keys, NEW old, NEW run,
         Create(r, t, key, old, run)
  PROVE  RowTypes /\ Effect
<1>1. TypeOK /\ row[t].status = "none"
  BY DEF IInv, Create, Exists
<1>2. PICK policy \in Policies, effect \in Effects :
        LET facts == [NoFacts EXCEPT !.policy = policy, !.effect = effect]
        IN /\ row' = [row EXCEPT ![t] = [NoTwin EXCEPT !.key = key, !.status = "requested", !.facts = facts]]
           /\ recorded' = [recorded EXCEPT ![t] = facts]
  BY DEF Create
<1> DEFINE facts == [NoFacts EXCEPT !.policy = policy, !.effect = effect]
           w == [NoTwin EXCEPT !.key = key, !.status = "requested", !.facts = facts]
<1>3. facts \in Fact /\ facts.policy = policy /\ facts.evidence = "none"
  BY DEF NoFacts, Fact
<1>4. w \in Row /\ w.status = "requested" /\ w.decision = "pending" /\ w.facts = facts
  <2> HIDE DEF facts
  <2> QED
    BY <1>3 DEF NoTwin, Row, Active, Decided, Terminal
<1>5. row' = [row EXCEPT ![t] = w] /\ recorded' = [recorded EXCEPT ![t] = facts]
  BY <1>2
<1> HIDE DEF w, facts
<1>6. row' \in [Twins -> Row] /\ row'[t] = w /\ \A u \in Twins \ {t} : row'[u] = row[u]
  BY <1>1, <1>4, <1>5, RowSet
<1>7. recorded' \in [Twins -> Fact] /\ recorded'[t] = facts
      /\ \A u \in Twins \ {t} : recorded'[u] = recorded[u]
  BY <1>1, <1>3, <1>5 DEF TypeOK
<1>8. Born(t)
  BY <1>1, <1>3, <1>4, <1>6, <1>7 DEF Born
<1> QED
  BY <1>1, <1>6, <1>7, <1>8, OneEffect DEF Changed

LEMMA GenerateEffect ==
  ASSUME IInv, NEW r \in Replicas, Generate(r)
  PROVE  RowTypes /\ Effect
<1>1. Pc(r) # "idle" /\ Transition(r, "generating", At(r, "await"))
  BY DEF Generate
<1>2. "generating" \in Active \ {"requested"}
  BY DEF Active
<1> QED
  BY <1>1, <1>2, TransitionEffect

LEMMA AwaitEffect ==
  ASSUME IInv, NEW r \in Replicas, AwaitDryRun(r)
  PROVE  RowTypes /\ Effect
<1> DEFINE next == IF req[r].old = "none" /\ ~req[r].run THEN Idle
                   ELSE [At(r, IF req[r].old # "none" THEN "supersede" ELSE "ensure")
                            EXCEPT !.job = row[Twin(r)].facts.job]
<1>1. Pc(r) # "idle" /\ Transition(r, "awaiting_dry_run", next)
  BY DEF AwaitDryRun
<1>2. "awaiting_dry_run" \in Active \ {"requested"}
  BY DEF Active
<1> HIDE DEF next
<1> QED
  BY <1>1, <1>2, TransitionEffect

LEMMA MarkEffect ==
  ASSUME IInv, NEW r \in Replicas, MarkAttached(r)
  PROVE  RowTypes /\ Effect
<1>1. Pc(r) = "mark" /\ Transition(r, "dry_run_evidence_attached", At(r, "calculate"))
  BY DEF MarkAttached
<1>2. "dry_run_evidence_attached" \in Active \ {"requested"}
  BY DEF Active
<1>3. row[Twin(r)].facts.evidence # "none"
  BY <1>1 DEF IInv, ReqInv, Knows, Pc, Twin
<1> QED
  BY <1>1, <1>2, <1>3, TransitionEffect

LEMMA CalculateEffect ==
  ASSUME IInv, NEW r \in Replicas, Calculate(r)
  PROVE  RowTypes /\ Effect
<1>1. Pc(r) = "calculate" /\ Transition(r, "decision_calculating", At(r, "decide"))
  BY DEF Calculate
<1>2. "decision_calculating" \in Active \ {"requested"}
  BY DEF Active
<1>3. row[Twin(r)].facts.evidence # "none"
  BY <1>1 DEF IInv, ReqInv, Knows, Pc, Twin
<1> QED
  BY <1>1, <1>2, <1>3, TransitionEffect

\* Withdrawals: of a generation that failed, by a successor, by a client.
LEMMA WithdrawEffect ==
  ASSUME TypeOK, NEW t \in Twins, NEW s \in Withdrawn, row[t].status \in Active,
         row' = [row EXCEPT ![t].status = s], recorded' = recorded
  PROVE  RowTypes /\ Effect
<1>1. s \in Active \cup Terminal
  BY DEF Terminal
<1>2. /\ row' \in [Twins -> Row]
      /\ row'[t].status = s /\ row'[t].decision = row[t].decision /\ row'[t].facts = row[t].facts
      /\ \A u \in Twins \ {t} : row'[u] = row[u]
  BY <1>1, StatusSet
<1>3. Moved(t)
  BY <1>2 DEF Moved
<1> QED
  BY <1>2, <1>3, OneEffect DEF Changed, TypeOK

LEMMA FailureEffect ==
  ASSUME IInv, NEW r \in Replicas, GenerationFails(r)
  PROVE  RowTypes /\ Effect
<1>1. Twin(r) \in Twins /\ TypeOK
  BY DEF IInv, ReqInv, Carries, GenerationFails, Pc, Twin
<1>2. recorded' = recorded
  BY DEF GenerationFails
<1>3. CASE CanTransition(row[Twin(r)].status, "failed")
  <2>1. row[Twin(r)].status \in Active
    BY <1>3 DEF CanTransition
  <2>2. row' = [row EXCEPT ![Twin(r)].status = "failed"]
    BY <1>1, <1>3 DEF GenerationFails
  <2>3. "failed" \in Withdrawn
    BY DEF Withdrawn
  <2> QED
    BY <1>1, <1>2, <2>1, <2>2, <2>3, WithdrawEffect
<1>4. CASE ~CanTransition(row[Twin(r)].status, "failed")
  <2>1. row' = row
    BY <1>1, <1>4 DEF GenerationFails, TypeOK, Row
  <2> QED
    BY <1>1, <1>2, <2>1, NoEffect
<1> QED
  BY <1>3, <1>4

LEMMA SupersedeEffect ==
  ASSUME IInv, NEW r \in Replicas, Supersede(r)
  PROVE  RowTypes /\ Effect
<1>1. req[r].old \in Twins /\ TypeOK /\ recorded' = recorded
  BY DEF IInv, ReqInv, Carries, Supersede, Pc
<1>2. "superseded" \in Withdrawn
  BY DEF Withdrawn
<1>3. CASE row[req[r].old].status \in Active
  <2>1. row' = [row EXCEPT ![req[r].old].status = "superseded"]
    BY <1>3 DEF Supersede
  <2> QED
    BY <1>1, <1>2, <1>3, <2>1, WithdrawEffect
<1>4. CASE row[req[r].old].status \notin Active
  BY <1>1, <1>4, NoEffect DEF Supersede
<1> QED
  BY <1>3, <1>4

LEMMA CancelEffect ==
  ASSUME IInv, NEW r \in Replicas, NEW t \in Twins, Cancel(r, t)
  PROVE  RowTypes /\ Effect
<1>1. TypeOK /\ row[t].status \in Active /\ row' = [row EXCEPT ![t].status = "cancelled"]
      /\ recorded' = recorded
  BY DEF IInv, Cancel
<1>2. "cancelled" \in Withdrawn
  BY DEF Withdrawn
<1> QED
  BY <1>1, <1>2, WithdrawEffect

LEMMA LinkEffect ==
  ASSUME IInv, NEW r \in Replicas, LinkJob(r)
  PROVE  RowTypes /\ Effect
<1> DEFINE t == Twin(r)
           f == [row[t].facts EXCEPT !.job = t, !.sim = "queued"]
<1>1. t \in Twins /\ TypeOK /\ recorded' = recorded /\ row[t].status # "none"
  BY DEF IInv, ReqInv, Carries, Knows, LinkJob, Pc, Twin
<1>2. row[t].facts \in Fact
  BY <1>1 DEF TypeOK, Row
<1>3. /\ f \in Fact /\ f.evidence = row[t].facts.evidence /\ f.policy = row[t].facts.policy
      /\ f.drift = row[t].facts.drift /\ f.effect = row[t].facts.effect /\ f.kept = row[t].facts.kept
  BY <1>1, <1>2 DEF Fact, Names
<1>4. CASE Mergeable(t)
  <2>1. row' = [row EXCEPT ![t] = [row[t] EXCEPT !.facts = f]]
    BY <1>1, <1>4 DEF LinkJob, TypeOK, Row
  <2> HIDE DEF f, t
  <2> QED
    BY <1>1, <1>3, <2>1, FactEffect
<1>5. CASE ~Mergeable(t)
  BY <1>1, <1>5, NoEffect DEF LinkJob
<1> QED
  BY <1>4, <1>5

LEMMA ProgressEffect ==
  ASSUME IInv, NEW r \in Replicas, Progress(r)
  PROVE  RowTypes /\ Effect
<1> DEFINE t == Twin(r)
           f == [row[t].facts EXCEPT !.sim = req[r].evidence]
<1>1. t \in Twins /\ TypeOK /\ recorded' = recorded /\ row[t].status # "none" /\ req[r].evidence \in Live
  BY DEF IInv, ReqInv, Carries, Knows, Progress, Pc, Twin
<1>2. row[t].facts \in Fact
  BY <1>1 DEF TypeOK, Row
<1>3. /\ f \in Fact /\ f.evidence = row[t].facts.evidence /\ f.policy = row[t].facts.policy
      /\ f.drift = row[t].facts.drift /\ f.effect = row[t].facts.effect /\ f.kept = row[t].facts.kept
  BY <1>1, <1>2 DEF Fact, Live
<1>4. CASE Mergeable(t)
  <2>1. row' = [row EXCEPT ![t] = [row[t] EXCEPT !.facts = f]]
    BY <1>1, <1>4 DEF Progress, TypeOK, Row
  <2> HIDE DEF f, t
  <2> QED
    BY <1>1, <1>3, <2>1, FactEffect
<1>5. CASE ~Mergeable(t)
  BY <1>1, <1>5, NoEffect DEF Progress
<1> QED
  BY <1>4, <1>5

\* The facts that a merge writes.
MergedFacts(r) ==
    [row[Twin(r)].facts EXCEPT !.job = req[r].job, !.evidence = req[r].evidence,
        !.sim = IF req[r].facts.sim = "none" THEN "none"
                ELSE IF req[r].evidence = "passed" THEN "completed" ELSE "completed_with_findings"]

LEMMA MergedFactsType ==
  ASSUME IInv, NEW r \in Replicas, Pc(r) = "merge"
  PROVE  /\ MergedFacts(r) \in Fact /\ MergedFacts(r).evidence \in Outcomes
         /\ MergedFacts(r).policy = row[Twin(r)].facts.policy
         /\ MergedFacts(r).drift = row[Twin(r)].facts.drift
         /\ MergedFacts(r).effect = row[Twin(r)].facts.effect
         /\ MergedFacts(r).kept = row[Twin(r)].facts.kept
<1>1. Twin(r) \in Twins /\ req[r].job \in Names /\ req[r].evidence \in Outcomes
  BY DEF IInv, ReqInv, Carries, Pc, Twin
<1>2. row[Twin(r)].facts \in Fact
  BY <1>1 DEF IInv, TypeOK, Row
<1> DEFINE sim == IF req[r].facts.sim = "none" THEN "none"
                  ELSE IF req[r].evidence = "passed" THEN "completed" ELSE "completed_with_findings"
<1>3. sim \in {"none", "completed", "completed_with_findings"}
  OBVIOUS
<1>4. MergedFacts(r) = [row[Twin(r)].facts EXCEPT !.job = req[r].job, !.evidence = req[r].evidence, !.sim = sim]
  BY DEF MergedFacts
<1> HIDE DEF sim
<1>5. MergedFacts(r).evidence = req[r].evidence
      /\ MergedFacts(r).policy = row[Twin(r)].facts.policy
      /\ MergedFacts(r).drift = row[Twin(r)].facts.drift
      /\ MergedFacts(r).effect = row[Twin(r)].facts.effect
      /\ MergedFacts(r).kept = row[Twin(r)].facts.kept
  BY <1>2, <1>4 DEF Fact
<1>6. MergedFacts(r) \in Fact
  BY <1>1, <1>2, <1>3, <1>4 DEF Fact, Outcomes
<1> QED
  BY <1>1, <1>5, <1>6

LEMMA MergeEffect ==
  ASSUME IInv, NEW r \in Replicas, MergeEvidence(r)
  PROVE  RowTypes /\ Effect
<1> DEFINE t == Twin(r)
<1>1. t \in Twins /\ TypeOK /\ recorded' = recorded /\ row[t].status # "none" /\ Pc(r) = "merge"
  BY DEF IInv, ReqInv, Carries, Knows, MergeEvidence, Pc, Twin
<1>2. CASE Mergeable(t)
  <2>1. row' = [row EXCEPT ![t].facts = MergedFacts(r)]
    BY <1>2 DEF MergeEvidence, MergedFacts
  <2>2. row' = [row EXCEPT ![t] = [row[t] EXCEPT !.facts = MergedFacts(r)]]
    BY <1>1, <2>1 DEF TypeOK
  <2>3. /\ row' \in [Twins -> Row]
        /\ row'[t].status = row[t].status /\ row'[t].decision = row[t].decision
        /\ row'[t].facts = MergedFacts(r)
        /\ \A u \in Twins \ {t} : row'[u] = row[u]
    BY <1>1, <2>2, MergedFactsType, FactsSet
  <2>4. row[t].decision = "pending" /\ row[t].status \in Active
    BY <1>1, <1>2 DEF Mergeable, Final, TypeOK, Row
  <2>5. Merged(t)
    BY <1>1, <2>3, <2>4, MergedFactsType DEF Merged, Agrees
  <2> QED
    BY <1>1, <2>3, <2>5, OneEffect DEF Changed, TypeOK
<1>3. CASE ~Mergeable(t)
  BY <1>1, <1>3, NoEffect DEF MergeEvidence
<1> QED
  BY <1>2, <1>3

\* The verdict is one, and favourable only on a dry run that passed.
LEMMA Combined ==
  ASSUME NEW e \in Outcomes, NEW p \in Policies, NEW x
  PROVE  LET d == CombineDecision(e, p, x)
         IN /\ d \in Decided
            /\ e # "passed" => d = "red"
            /\ d = "green" => e = "passed" /\ p = "green"
<1>1. p \in Decided
  BY AssessmentsAssumption
<1> QED
  BY <1>1 DEF CombineDecision, Decided, Outcomes

LEMMA DecideEffect ==
  ASSUME IInv, NEW r \in Replicas, Decide(r)
  PROVE  RowTypes /\ Effect
<1> DEFINE t == Twin(r)
           f == req[r].facts
           d == CombineDecision(f.evidence, f.policy, f.effect)
<1>1. t \in Twins /\ TypeOK /\ recorded' = recorded /\ Pc(r) = "decide"
  BY DEF IInv, ReqInv, Carries, Decide, Pc, Twin
<1>2. f \in Fact /\ f.evidence \in Outcomes /\ f.policy \in Policies
  BY <1>1 DEF IInv, TypeOK, InFlight, ReqInv, Carries, Pc
<1>3. d \in Decided /\ (f.evidence # "passed" => d = "red") /\ (d = "green" => f.policy = "green")
  BY <1>2, Combined
<1>4. CASE ~Final(t) /\ row[t].status = "decision_calculating"
  <2> DEFINE w == [[[row[t] EXCEPT !.facts = f] EXCEPT !.decision = d] EXCEPT !.status = d]
  <2>1. row' = [row EXCEPT ![t] = w]
    BY <1>1, <1>4 DEF Decide, TypeOK
  <2>2. row[t] \in Row
    BY <1>1 DEF TypeOK
  <2> HIDE DEF f, d
  <2>3. w \in Row /\ w.status = d /\ w.decision = d /\ w.facts = f
    BY <1>2, <1>3, <2>2 DEF Row, Terminal
  <2> HIDE DEF w
  <2>4. row' \in [Twins -> Row] /\ row'[t] = w /\ \A u \in Twins \ {t} : row'[u] = row[u]
    BY <1>1, <2>1, <2>3, RowSet
  <2>5. Given(t)
    BY <1>2, <1>3, <1>4, <2>3, <2>4 DEF Given, Final
  <2> QED
    BY <1>1, <2>4, <2>5, OneEffect DEF Changed, TypeOK
<1>5. CASE ~(~Final(t) /\ row[t].status = "decision_calculating")
  BY <1>1, <1>5, NoEffect DEF Decide
<1> QED
  BY <1>4, <1>5

\* Assessments made later.
LEMMA DriftEffect ==
  ASSUME IInv, NEW r \in Replicas, NEW t \in Twins, RefreshDrift(r, t)
  PROVE  RowTypes /\ Effect
<1>1. TypeOK /\ row[t].status # "none"
  BY DEF IInv, RefreshDrift, Recording, Exists
<1>2. row[t] \in Row /\ row[t].facts \in Fact /\ recorded[t] \in Fact
  BY <1>1 DEF TypeOK, Row
<1>3. PICK drift \in Drifts :
        /\ row' = [row EXCEPT ![t].facts.drift = drift,
                              ![t].status = IF drift = "material" THEN "superseded" ELSE @]
        /\ recorded' = [recorded EXCEPT ![t].drift = drift]
  BY DEF RefreshDrift
<1> DEFINE f == [row[t].facts EXCEPT !.drift = drift]
           s == IF drift = "material" THEN "superseded" ELSE row[t].status
           w == [[row[t] EXCEPT !.facts = f] EXCEPT !.status = s]
           g == [recorded[t] EXCEPT !.drift = drift]
<1>4. row' = [row EXCEPT ![t] = w] /\ recorded' = [recorded EXCEPT ![t] = g]
  BY <1>1, <1>2, <1>3 DEF TypeOK, Row
<1>5. f \in Fact /\ f.drift = drift /\ f.effect = row[t].facts.effect /\ f.kept = row[t].facts.kept
      /\ f.evidence = row[t].facts.evidence /\ f.policy = row[t].facts.policy
  BY <1>2, NotedFact
<1>6. g \in Fact /\ g.drift = drift /\ g.effect = recorded[t].effect /\ g.kept = recorded[t].kept
  BY <1>2, NotedFact
<1>7. s \in {row[t].status, "superseded"} /\ s \in Active \cup Terminal
  BY <1>1, <1>2 DEF Row, Terminal, Withdrawn
<1> HIDE DEF f, s, g
<1>8. w \in Row /\ w.status = s /\ w.decision = row[t].decision /\ w.facts = f
  BY <1>2, <1>5, <1>7 DEF Row
<1> HIDE DEF w
<1>9. row' \in [Twins -> Row] /\ row'[t] = w /\ \A u \in Twins \ {t} : row'[u] = row[u]
  BY <1>1, <1>4, <1>8, RowSet
<1>10. recorded' \in [Twins -> Fact] /\ recorded'[t] = g
       /\ \A u \in Twins \ {t} : recorded'[u] = recorded[u]
  BY <1>1, <1>4, <1>6 DEF TypeOK
<1>11. Noted(t)
  BY <1>1, <1>5, <1>6, <1>7, <1>8, <1>9, <1>10 DEF Noted, Agrees
<1> QED
  BY <1>1, <1>9, <1>10, <1>11, OneEffect DEF Changed

\* A fact and its record change together.
LEMMA RecordEffect ==
  ASSUME TypeOK, NEW t \in Twins, NEW f \in Fact, NEW g \in Fact, row[t].status # "none",
         row' = [row EXCEPT ![t] = [row[t] EXCEPT !.facts = f]],
         recorded' = [recorded EXCEPT ![t] = g],
         f.evidence = row[t].facts.evidence, f.policy = row[t].facts.policy,
         Agrees(row[t].facts, recorded[t]) => Agrees(f, g)
  PROVE  RowTypes /\ Effect
<1>1. /\ row' \in [Twins -> Row]
      /\ row'[t].status = row[t].status /\ row'[t].decision = row[t].decision /\ row'[t].facts = f
      /\ \A u \in Twins \ {t} : row'[u] = row[u]
  BY FactsSet
<1>2. recorded' \in [Twins -> Fact] /\ recorded'[t] = g
      /\ \A u \in Twins \ {t} : recorded'[u] = recorded[u]
  BY DEF TypeOK
<1>3. Noted(t)
  BY <1>1, <1>2 DEF Noted
<1> QED
  BY <1>1, <1>2, <1>3, OneEffect DEF Changed

LEMMA RuntimeEffect ==
  ASSUME IInv, NEW r \in Replicas, NEW t \in Twins, RefreshRuntime(r, t)
  PROVE  RowTypes /\ Effect
<1>1. TypeOK /\ row[t].status # "none"
  BY DEF IInv, RefreshRuntime, Recording, Exists
<1>2. row[t] \in Row /\ row[t].facts \in Fact /\ recorded[t] \in Fact
  BY <1>1 DEF TypeOK, Row
<1>3. PICK e \in Effects : /\ row' = [row EXCEPT ![t].facts.effect = e]
                           /\ recorded' = [recorded EXCEPT ![t].effect = e]
  BY DEF RefreshRuntime
<1> DEFINE f == [row[t].facts EXCEPT !.effect = e]
           g == [recorded[t] EXCEPT !.effect = e]
<1>4. row' = [row EXCEPT ![t] = [row[t] EXCEPT !.facts = f]] /\ recorded' = [recorded EXCEPT ![t] = g]
  BY <1>1, <1>2, <1>3 DEF TypeOK, Row
<1>5. f \in Fact /\ f.evidence = row[t].facts.evidence /\ f.policy = row[t].facts.policy /\ g \in Fact
  BY <1>2, NotedFact
<1>6. Agrees(row[t].facts, recorded[t]) => Agrees(f, g)
  BY <1>2, NotedFact DEF Agrees
<1> HIDE DEF f, g
<1> QED
  BY <1>1, <1>4, <1>5, <1>6, RecordEffect

LEMMA KeepEffect ==
  ASSUME TypeOK, NEW t \in Twins, row[t].status # "none",
         NEW what \in {"replay_passed", "replay_failed", "release_note", "execution_link"}, Keep(t, what)
  PROVE  RowTypes /\ Effect
<1>2. row[t] \in Row /\ row[t].facts \in Fact /\ recorded[t] \in Fact
  BY DEF TypeOK, Row
<1> DEFINE f == [row[t].facts EXCEPT !.kept = @ \cup {what}]
           g == [recorded[t] EXCEPT !.kept = @ \cup {what}]
<1>4. row' = [row EXCEPT ![t] = [row[t] EXCEPT !.facts = f]] /\ recorded' = [recorded EXCEPT ![t] = g]
  BY <1>2 DEF Keep, TypeOK, Row
<1>5. f \in Fact /\ f.evidence = row[t].facts.evidence /\ f.policy = row[t].facts.policy /\ g \in Fact
  BY <1>2, NotedFact
<1>6. Agrees(row[t].facts, recorded[t]) => Agrees(f, g)
  BY <1>2, NotedFact DEF Agrees
<1> HIDE DEF f, g
<1> QED
  BY <1>4, <1>5, <1>6, RecordEffect

LEMMA KeepingEffect ==
  ASSUME IInv, NEW r \in Replicas, NEW t \in Twins,
         RecordReplay(r, t) \/ ValidateReleaseNote(r, t) \/ RecordExecutionLink(r, t)
  PROVE  RowTypes /\ Effect
<1>1. TypeOK /\ RowInv
  BY DEF IInv
<1>2. CASE RecordReplay(r, t)
  <2>1. row[t].status # "none"
    BY <1>2 DEF RecordReplay, Recording, Exists
  <2>2. \E what \in {"replay_passed", "replay_failed"} : Keep(t, what)
    BY <1>2 DEF RecordReplay
  <2> QED
    BY <1>1, <2>1, <2>2, KeepEffect
<1>3. CASE ValidateReleaseNote(r, t)
  <2>1. row[t].status # "none" /\ Keep(t, "release_note")
    BY <1>3 DEF ValidateReleaseNote, Recording, Exists
  <2> QED
    BY <1>1, <2>1, KeepEffect
<1>4. CASE RecordExecutionLink(r, t)
  <2>1. row[t].status # "none"
    BY <1>1, <1>4 DEF RecordExecutionLink, Final, RowInv, GoodRow
  <2>2. Keep(t, "execution_link")
    BY <1>4 DEF RecordExecutionLink
  <2> QED
    BY <1>1, <2>1, <2>2, KeepEffect
<1> QED
  BY <1>2, <1>3, <1>4

LEMMA DayEffect == IInv /\ DayPasses => RowTypes /\ Effect
<1> SUFFICES ASSUME IInv, DayPasses PROVE RowTypes /\ Effect
  OBVIOUS
<1>1. TypeOK /\ RowInv
  BY DEF IInv
<1>2. ASSUME NEW t \in Twins PROVE row'[t] \in Row /\ Kept(t)
  <2>1. row[t] \in Row /\ Exists(t) \in BOOLEAN
    BY <1>1 DEF TypeOK, Exists
  <2>2. row'[t] = [row[t] EXCEPT !.expired = Exists(t)] /\ recorded' = recorded
    BY DEF DayPasses
  <2>3. row'[t] \in Row /\ row'[t].status = row[t].status /\ row'[t].decision = row[t].decision
        /\ row'[t].facts = row[t].facts
    BY <2>1, <2>2 DEF Row
  <2> QED
    BY <2>2, <2>3 DEF Kept
<1>3. row' \in [Twins -> Row]
  BY <1>2 DEF DayPasses
<1>4. recorded' \in [Twins -> Fact]
  BY <1>1 DEF DayPasses, TypeOK
<1> QED
  BY <1>2, <1>3, <1>4 DEF RowTypes, Effect

\* Requests that leave the rows alone, and the workers and clients of the jobs.
LEMMA ServeQuietly ==
  ASSUME IInv, NEW r \in Replicas,
         \/ EnsureJob(r) \/ StartJob(r) \/ Follow(r) \/ ReadTwin(r) \/ PollEvidence(r) \/ Crash(r)
         \/ \E t \in Twins, run \in BOOLEAN : Replay(r, t, run)
         \/ \E t \in Twins, j \in Names : RequestAttach(r, t, j)
         \/ \E t \in Twins : Get(r, t)
         \/ \E j \in Names : JobRuns(r, j) \/ JobIsChanged(r, j)
  PROVE  RowTypes /\ Effect
<1>1. row' = row /\ recorded' = recorded
  BY DEF EnsureJob, StartJob, Follow, ReadTwin, PollEvidence, Crash, Replay, RequestAttach, Get,
         JobRuns, JobIsChanged
<1> QED
  BY <1>1, NoEffect DEF IInv

LEMMA EffectOfStep == IInv /\ [Next]_vars => RowTypes /\ Effect
<1> SUFFICES ASSUME IInv, [Next]_vars PROVE RowTypes /\ Effect
  OBVIOUS
<1>1. ASSUME NEW r \in Replicas, Request(r) PROVE RowTypes /\ Effect
  <2>1. CASE \E t \in Twins, run \in BOOLEAN : Replay(r, t, run)
    BY <2>1, ServeQuietly
  <2>2. CASE \E t \in Twins, key \in Keys, run \in BOOLEAN, old \in {"none"} \cup {u \in Twins : Exists(u)} :
                Create(r, t, key, old, run)
    BY <2>2, CreateEffect
  <2>3. CASE \E t \in Twins, j \in Names : RequestAttach(r, t, j)
    BY <2>3, ServeQuietly
  <2>4. ASSUME NEW t \in Twins,
               \/ RefreshDrift(r, t) \/ RefreshRuntime(r, t) \/ RecordReplay(r, t)
               \/ ValidateReleaseNote(r, t) \/ RecordExecutionLink(r, t) \/ Cancel(r, t)
        PROVE  RowTypes /\ Effect
    BY <2>4, DriftEffect, RuntimeEffect, KeepingEffect, CancelEffect
  <2> QED
    BY <1>1, <2>1, <2>2, <2>3, <2>4 DEF Request
<1>2. ASSUME NEW r \in Replicas, Serve(r) PROVE RowTypes /\ Effect
  BY <1>2, GenerateEffect, AwaitEffect, FailureEffect, SupersedeEffect, LinkEffect, ProgressEffect,
     MergeEffect, MarkEffect, CalculateEffect, DecideEffect, ServeQuietly DEF Serve
<1>3. ASSUME NEW r \in Replicas, Crash(r) PROVE RowTypes /\ Effect
  BY <1>3, ServeQuietly
<1>4. ASSUME NEW r \in Replicas, NEW t \in Twins, Get(r, t) PROVE RowTypes /\ Effect
  BY <1>4, ServeQuietly
<1>5. ASSUME NEW r \in Replicas, NEW j \in Names, JobRuns(r, j) \/ JobIsChanged(r, j)
      PROVE  RowTypes /\ Effect
  BY <1>5, ServeQuietly
<1>6. CASE DayPasses
  BY <1>6, DayEffect
<1>7. CASE UNCHANGED vars
  BY <1>7, NoEffect DEF vars, IInv
<1> QED
  BY <1>1, <1>2, <1>3, <1>4, <1>5, <1>6, <1>7 DEF Next

-----------------------------------------------------------------------------
(* The rows keep together.                                                  *)

LEMMA RowKept ==
  ASSUME TypeOK, NEW t \in Twins, GoodRow(row[t]), Kept(t)
  PROVE  GoodRow(row'[t])
  BY DEF GoodRow, Kept

LEMMA RowChanged ==
  ASSUME TypeOK, NEW t \in Twins, row'[t] \in Row, GoodRow(row[t]), Changed(t)
  PROVE  GoodRow(row'[t])
<1>1. row[t] \in Row
  BY DEF TypeOK
<1>2. /\ "none" \notin Active /\ "none" \notin Withdrawn /\ "none" \notin Decided
      /\ Active \cap Withdrawn = {} /\ Active \cap Decided = {} /\ Decided \cap Withdrawn = {}
      /\ "superseded" \in Withdrawn /\ "pending" \notin Decided
      /\ {"dry_run_evidence_attached", "decision_calculating", "requested"} \subseteq Active
  BY DEF Active, Withdrawn, Decided
<1>3. CASE Born(t)
  BY <1>2, <1>3 DEF Born, GoodRow
<1>4. CASE Moved(t)
  <2>1. row[t].decision = "pending"
    BY <1>1, <1>2, <1>4 DEF Moved, GoodRow, Row
  <2> QED
    BY <1>2, <1>4, <2>1 DEF Moved, GoodRow
<1>5. CASE Noted(t)
  BY <1>2, <1>5 DEF Noted, GoodRow
<1>6. CASE Merged(t)
  BY <1>2, <1>6 DEF Merged, GoodRow, Outcomes
<1>7. CASE Given(t)
  BY <1>2, <1>7 DEF Given, GoodRow, Outcomes
<1> QED
  BY <1>3, <1>4, <1>5, <1>6, <1>7 DEF Changed

LEMMA NextRowInv == IInv /\ [Next]_vars => RowInv'
<1> SUFFICES ASSUME IInv, [Next]_vars, NEW t \in Twins PROVE GoodRow(row'[t])
  BY DEF RowInv
<1>1. TypeOK /\ GoodRow(row[t])
  BY DEF IInv, RowInv
<1>2. row'[t] \in Row /\ (Kept(t) \/ Changed(t))
  BY EffectOfStep DEF RowTypes, Effect
<1> QED
  BY <1>1, <1>2, RowKept, RowChanged

\* A twin that exists, or has evidence, does so for good.
LEMMA Lasting ==
  ASSUME IInv, [Next]_vars, NEW t \in Twins
  PROVE  /\ row[t].status # "none" => row'[t].status # "none"
         /\ row[t].facts.evidence # "none" => row'[t].facts.evidence # "none"
<1>1. TypeOK /\ GoodRow(row[t])
  BY DEF IInv, RowInv
<1>2. Kept(t) \/ Changed(t)
  BY EffectOfStep DEF Effect
<1>3. "none" \notin Active /\ "none" \notin Withdrawn /\ "none" \notin Decided
  BY DEF Active, Withdrawn, Decided
<1>4. row[t].facts.evidence # "none" => row[t].status # "none"
  BY <1>1 DEF GoodRow
<1>5. CASE Kept(t)
  BY <1>5 DEF Kept
<1>6. CASE Born(t)
  BY <1>3, <1>4, <1>6 DEF Born
<1>7. CASE Moved(t)
  BY <1>3, <1>7 DEF Moved
<1>8. CASE Noted(t)
  BY <1>8 DEF Noted
<1>9. CASE Merged(t)
  BY <1>9 DEF Merged, Outcomes
<1>10. CASE Given(t)
  BY <1>3, <1>10 DEF Given, Outcomes
<1> QED
  BY <1>2, <1>5, <1>6, <1>7, <1>8, <1>9, <1>10 DEF Changed

-----------------------------------------------------------------------------
(* The jobs keep their types.                                               *)

JobTypes == jobs' \in [Replicas -> [Names -> Job]]

LEMMA JobSet ==
  ASSUME TypeOK, NEW r \in Replicas, NEW j \in Names, NEW b \in Job, jobs' = [jobs EXCEPT ![r][j] = b]
  PROVE  JobTypes
  BY DEF TypeOK, JobTypes

\* The worker of a replica, or a client of its job.
LEMMA JobIsType ==
  ASSUME TypeOK, NEW r \in Replicas, NEW j \in Names,
         NEW state \in RestingStates \cup {"running"}, NEW steps \in {"none", "todo", "done", "failed"},
         JobIs(r, j, state, steps)
  PROVE  JobTypes
<1>1. jobs[r][j] \in Job
  BY DEF TypeOK
<1> DEFINE b == [jobs[r][j] EXCEPT !.state = state, !.steps = steps, !.old = FALSE]
<1>2. b \in Job
  BY <1>1 DEF Job
<1>3. jobs' = [jobs EXCEPT ![r][j] = b]
  BY DEF JobIs, TypeOK
<1> HIDE DEF b
<1> QED
  BY <1>2, <1>3, JobSet

LEMMA EnsureTypes ==
  ASSUME IInv, NEW r \in Replicas, EnsureJob(r)
  PROVE  JobTypes
<1>1. TypeOK /\ Twin(r) \in Names
  BY DEF IInv, ReqInv, Carries, EnsureJob, Pc, Twin, Names
<1>2. CASE jobs' = jobs
  BY <1>1, <1>2 DEF TypeOK, JobTypes
<1>3. CASE jobs' # jobs
  <2>1. PICK steps \in {"todo", "none"} :
          jobs' = [jobs EXCEPT ![r][Twin(r)] = [NoJob EXCEPT !.state = "created", !.steps = steps]]
    BY <1>3 DEF EnsureJob
  <2>2. [NoJob EXCEPT !.state = "created", !.steps = steps] \in Job
    BY DEF NoJob, Job
  <2> QED
    BY <1>1, <2>1, <2>2, JobSet
<1> QED
  BY <1>2, <1>3

LEMMA StartTypes ==
  ASSUME IInv, NEW r \in Replicas, StartJob(r)
  PROVE  JobTypes
<1> DEFINE j == Twin(r)
<1>1. TypeOK /\ j \in Names
  BY DEF IInv, ReqInv, Carries, StartJob, Pc, Twin, Names
<1>2. jobs[r][j] \in Job
  BY <1>1 DEF TypeOK
<1>3. CASE jobs' = [jobs EXCEPT ![r][j].queued = TRUE]
  <2>1. jobs' = [jobs EXCEPT ![r][j] = [jobs[r][j] EXCEPT !.queued = TRUE]]
    BY <1>1, <1>3 DEF TypeOK
  <2>2. [jobs[r][j] EXCEPT !.queued = TRUE] \in Job
    BY <1>2 DEF Job
  <2> QED
    BY <1>1, <2>1, <2>2, JobSet
<1>4. CASE jobs' = [jobs EXCEPT ![r][j].state = "validating"]
  <2>1. jobs' = [jobs EXCEPT ![r][j] = [jobs[r][j] EXCEPT !.state = "validating"]]
    BY <1>1, <1>4 DEF TypeOK
  <2>2. [jobs[r][j] EXCEPT !.state = "validating"] \in Job
    BY <1>2 DEF Job
  <2> QED
    BY <1>1, <2>1, <2>2, JobSet
<1>5. CASE jobs' = jobs
  BY <1>1, <1>5 DEF TypeOK, JobTypes
<1> QED
  BY <1>3, <1>4, <1>5 DEF StartJob

LEMMA RunTypes ==
  ASSUME IInv, NEW r \in Replicas, NEW j \in Names, JobRuns(r, j) \/ JobIsChanged(r, j)
  PROVE  JobTypes
<1>1. TypeOK /\ jobs[r][j].steps \in {"none", "todo", "done", "failed"}
  BY DEF IInv, TypeOK, Job
<1>2. {"completed", "decision_required", "cancelled"} \subseteq RestingStates
  BY DEF RestingStates
<1>3. CASE JobRuns(r, j)
  BY <1>1, <1>2, <1>3, JobIsType DEF JobRuns
<1>4. CASE JobIsChanged(r, j)
  BY <1>1, <1>2, <1>4, JobIsType DEF JobIsChanged
<1> QED
  BY <1>3, <1>4

LEMMA DayTypes == IInv /\ DayPasses => JobTypes
<1> SUFFICES ASSUME IInv, DayPasses PROVE JobTypes
  OBVIOUS
<1>1. ASSUME NEW r \in Replicas, NEW j \in Names PROVE jobs'[r][j] \in Job
  <2>1. jobs[r][j] \in Job /\ (jobs[r][j].state # "none") \in BOOLEAN
    BY DEF IInv, TypeOK
  <2>2. jobs'[r][j] = [jobs[r][j] EXCEPT !.old = jobs[r][j].state # "none"]
    BY DEF DayPasses
  <2> QED
    BY <2>1, <2>2 DEF Job
<1> QED
  BY <1>1 DEF DayPasses, JobTypes

LEMMA NextJobTypes == IInv /\ [Next]_vars => JobTypes
<1> SUFFICES ASSUME IInv, [Next]_vars PROVE JobTypes
  OBVIOUS
<1>K. jobs' = jobs => JobTypes
  BY DEF IInv, TypeOK, JobTypes
<1>1. ASSUME NEW r \in Replicas, Request(r) PROVE jobs' = jobs
  BY <1>1 DEF Request, Replay, Create, RequestAttach, RefreshDrift, RefreshRuntime, RecordReplay,
     ValidateReleaseNote, RecordExecutionLink, Keep, Cancel
<1>2. ASSUME NEW r \in Replicas, Serve(r) PROVE JobTypes
  <2>1. CASE EnsureJob(r) \/ StartJob(r)
    BY <2>1, EnsureTypes, StartTypes
  <2>2. CASE ~(EnsureJob(r) \/ StartJob(r))
    <3>1. jobs' = jobs
      BY <1>2, <2>2 DEF Serve, Generate, AwaitDryRun, GenerationFails, Supersede, LinkJob, Follow, Progress,
         ReadTwin, PollEvidence, MergeEvidence, MarkAttached, Calculate, Decide, Transition
    <3> QED
      BY <3>1, <1>K
  <2> QED
    BY <2>1, <2>2
<1>3. ASSUME NEW r \in Replicas, Crash(r) \/ \E t \in Twins : Get(r, t) PROVE jobs' = jobs
  BY <1>3 DEF Crash, Get
<1>4. ASSUME NEW r \in Replicas, NEW j \in Names, JobRuns(r, j) \/ JobIsChanged(r, j) PROVE JobTypes
  BY <1>4, RunTypes
<1>5. CASE DayPasses
  BY <1>5, DayTypes
<1>6. CASE UNCHANGED vars
  BY <1>6, <1>K DEF vars
<1> QED
  BY <1>K, <1>1, <1>2, <1>3, <1>4, <1>5, <1>6 DEF Next

-----------------------------------------------------------------------------
(* The requests keep what they carry, and it stays true of their rows.      *)

ReqTypes == req' \in [Replicas -> InFlight]
ReqKept == ReqTypes /\ ReqInv'

LEMMA ReqSame ==
  ASSUME IInv, [Next]_vars, req' = req
  PROVE  ReqKept
<1>1. ReqTypes
  BY DEF IInv, TypeOK, ReqTypes
<1>2. ASSUME NEW r \in Replicas PROVE Carries(req'[r]) /\ Knows(r)'
  BY Lasting DEF IInv, ReqInv, Carries, Knows
<1> QED
  BY <1>1, <1>2 DEF ReqKept, ReqInv

\* One request goes on as q.
LEMMA ReqSet ==
  ASSUME IInv, [Next]_vars, NEW r \in Replicas, NEW q \in InFlight, Carries(q), req' = [req EXCEPT ![r] = q],
         q.pc # "idle" => row'[q.twin].status # "none",
         q.pc \in {"mark", "calculate", "decide"} => row'[q.twin].facts.evidence # "none"
  PROVE  ReqKept
<1>1. ReqTypes /\ req'[r] = q
  BY DEF IInv, TypeOK, ReqTypes
<1>2. Carries(req'[r]) /\ Knows(r)'
  BY <1>1 DEF Knows
<1>3. ASSUME NEW x \in Replicas \ {r} PROVE Carries(req'[x]) /\ Knows(x)'
  <2>1. req'[x] = req[x] /\ Carries(req[x]) /\ Knows(x)
    BY DEF IInv, TypeOK, ReqInv
  <2>2. req[x].pc # "idle" => req[x].twin \in Twins
    BY <2>1 DEF Carries
  <2>3. req[x].pc \in {"mark", "calculate", "decide"} => req[x].pc # "idle"
    OBVIOUS
  <2> QED
    BY <2>1, <2>2, <2>3, Lasting DEF Knows
<1> QED
  BY <1>1, <1>2, <1>3 DEF ReqKept, ReqInv

LEMMA ReqEnds ==
  ASSUME IInv, [Next]_vars, NEW r \in Replicas, req' = [req EXCEPT ![r] = Idle]
  PROVE  ReqKept
<1>1. Carries(Idle)
  BY IdleType DEF Carries
<1> QED
  BY <1>1, IdleType, ReqSet

LEMMA Finishes ==
  ASSUME IInv, [Next]_vars, NEW r \in Replicas, Finish(r)
  PROVE  ReqKept
<1>1. req' = [req EXCEPT ![r] = Idle]
  BY DEF Finish, Then
<1> QED
  BY <1>1, ReqEnds

\* A request goes on with its twin.
LEMMA ReqOn ==
  ASSUME IInv, [Next]_vars, NEW r \in Replicas, Pc(r) # "idle", NEW q \in InFlight, Carries(q),
         q.twin = Twin(r), req' = [req EXCEPT ![r] = q],
         q.pc \in {"mark", "calculate", "decide"} => row'[Twin(r)].facts.evidence # "none"
  PROVE  ReqKept
<1>1. Twin(r) \in Twins /\ row[Twin(r)].status # "none"
  BY DEF IInv, ReqInv, Carries, Knows, Pc, Twin
<1>2. row'[Twin(r)].status # "none"
  BY <1>1, Lasting
<1> QED
  BY <1>2, ReqSet

LEMMA Goes ==
  ASSUME IInv, [Next]_vars, NEW r \in Replicas, Pc(r) # "idle", NEW pc \in {"idle", "ensure", "start", "link"},
         Then(r, pc)
  PROVE  ReqKept
<1>1. CASE pc = "idle"
  BY <1>1, Finishes DEF Finish
<1>2. CASE pc # "idle"
  <2> DEFINE q == [req[r] EXCEPT !.pc = pc]
  <2>1. req' = [req EXCEPT ![r] = q]
    BY <1>2 DEF Then, IInv, TypeOK
  <2>2. req[r] \in InFlight /\ Twin(r) \in Twins
    BY DEF IInv, TypeOK, ReqInv, Carries, Pc, Twin
  <2>3. q \in InFlight /\ q.pc = pc /\ q.twin = req[r].twin
    BY <1>2, <2>2 DEF InFlight
  <2> HIDE DEF q
  <2>4. Carries(q)
    BY <1>2, <2>2, <2>3 DEF Carries, Twin
  <2> QED
    BY <1>2, <2>1, <2>3, <2>4, ReqOn DEF Twin
<1> QED
  BY <1>1, <1>2

\* A request begins, or a read goes on, with a twin that exists.
LEMMA Asks ==
  ASSUME IInv, [Next]_vars, NEW r \in Replicas, NEW t \in Twins, row[t].status # "none",
         NEW q \in InFlight, req' = [req EXCEPT ![r] = q], q.twin = t,
         q.pc \in {"ensure", "get", "attach", "progress"},
         q.pc = "attach" => q.job \in Names, q.pc = "progress" => q.evidence \in Live
  PROVE  ReqKept
<1>1. Carries(q)
  BY DEF Carries
<1>2. row'[t].status # "none"
  BY Lasting
<1> QED
  BY <1>1, <1>2, ReqSet

\* The forms of such a request.
LEMMA ProgressForm ==
  ASSUME NEW t \in Twins, NEW e \in Live
  PROVE  LET q == [Idle EXCEPT !.pc = "progress", !.twin = t, !.evidence = e]
         IN q \in InFlight /\ q.pc = "progress" /\ q.twin = t /\ q.evidence = e
  BY NoFactsType DEF Idle, InFlight, Live

LEMMA GetForm ==
  ASSUME NEW t \in Twins
  PROVE  LET q == [Idle EXCEPT !.pc = "get", !.twin = t]
         IN q \in InFlight /\ q.pc = "get" /\ q.twin = t
  BY NoFactsType DEF Idle, InFlight

LEMMA ReplayReq ==
  ASSUME IInv, [Next]_vars, NEW r \in Replicas, NEW t \in Twins, NEW run \in BOOLEAN, Replay(r, t, run)
  PROVE  ReqKept
<1>1. row[t].status # "none" /\ row[t].facts.job \in Names \cup {"none"}
  BY DEF Replay, Exists, IInv, TypeOK, Row, Fact
<1>2. CASE run
  <2>1. req' = [req EXCEPT ![r] = [Idle EXCEPT !.pc = "ensure", !.twin = t, !.job = row[t].facts.job]]
    BY <1>2 DEF Replay
  <2> DEFINE q == [Idle EXCEPT !.pc = "ensure", !.twin = t, !.job = row[t].facts.job]
  <2>2. q \in InFlight /\ q.pc = "ensure" /\ q.twin = t
    BY <1>1, NoFactsType DEF Idle, InFlight
  <2>3. req' = [req EXCEPT ![r] = q]
    BY <2>1
  <2> HIDE DEF q
  <2> QED
    BY <1>1, <2>2, <2>3, Asks
<1>3. CASE ~run
  BY <1>3, ReqEnds DEF Replay
<1> QED
  BY <1>2, <1>3

LEMMA CreateReq ==
  ASSUME IInv, [Next]_vars, NEW r \in Replicas, NEW t \in Twins, NEW key \in Keys, NEW run \in BOOLEAN,
         NEW old \in {"none"} \cup Twins, Create(r, t, key, old, run)
  PROVE  ReqKept
<1> DEFINE q == [Idle EXCEPT !.pc = "generate", !.twin = t, !.old = old, !.run = run]
<1>1. q \in InFlight /\ q.pc = "generate" /\ q.twin = t
  BY NoFactsType DEF Idle, InFlight
<1>2. req' = [req EXCEPT ![r] = q]
  BY DEF Create
<1> HIDE DEF q
<1>3. Carries(q)
  BY <1>1 DEF Carries
<1>4. row'[t].status = "requested"
  <2>1. PICK facts : \E key2 \in Keys :
          row' = [row EXCEPT ![t] = [NoTwin EXCEPT !.key = key2, !.status = "requested", !.facts = facts]]
    BY DEF Create
  <2> QED
    BY <2>1 DEF NoTwin, IInv, TypeOK
<1> QED
  BY <1>1, <1>2, <1>3, <1>4, ReqSet

LEMMA RecordingReq ==
  ASSUME IInv, [Next]_vars, NEW r \in Replicas, NEW t \in Twins, Recording(r, t)
  PROVE  ReqKept
<1>1. row[t].status # "none" /\ req' = [req EXCEPT ![r] = [Idle EXCEPT !.pc = "get", !.twin = t]]
  BY DEF Recording, Exists
<1> QED
  BY <1>1, GetForm, Asks

LEMMA AttachReq ==
  ASSUME IInv, [Next]_vars, NEW r \in Replicas, NEW t \in Twins, NEW j \in Names, RequestAttach(r, t, j)
  PROVE  ReqKept
<1>1. row[t].status # "none"
      /\ req' = [req EXCEPT ![r] = [Idle EXCEPT !.pc = "attach", !.twin = t, !.job = j]]
  BY DEF RequestAttach, Exists
<1> DEFINE q == [Idle EXCEPT !.pc = "attach", !.twin = t, !.job = j]
<1>2. q \in InFlight /\ q.pc = "attach" /\ q.twin = t /\ q.job = j
  BY NoFactsType DEF Idle, InFlight
<1>3. req' = [req EXCEPT ![r] = q]
  BY <1>1
<1> HIDE DEF q
<1> QED
  BY <1>1, <1>2, <1>3, Asks

LEMMA ReconcileReq ==
  ASSUME IInv, [Next]_vars, NEW r \in Replicas, NEW t \in Twins, row[t].status # "none", Reconcile(r, t)
  PROVE  ReqKept
<1> DEFINE facts == row[t].facts
           state == IF jobs[r][facts.job].state = "none" THEN "unavailable" ELSE jobs[r][facts.job].state
<1>1. facts.job \in Names \cup {"none"}
  BY DEF IInv, TypeOK, Row, Fact
<1>2. CASE Final(t) \/ row[t].status \in Withdrawn \/ facts.job = "none"
  BY <1>2, Finishes DEF Reconcile
<1>3. CASE ~(Final(t) \/ row[t].status \in Withdrawn \/ facts.job = "none")
  <2>1. facts.job \in Names /\ jobs[r][facts.job] \in Job
    BY <1>1, <1>3 DEF IInv, TypeOK
  <2>2. state \in RestingStates \cup Live
    BY <2>1 DEF Job, Live
  <2>3. CASE state \in RestingStates
    <3>1. req' = [req EXCEPT ![r] = [Idle EXCEPT !.pc = "attach", !.twin = t, !.job = facts.job]]
      BY <1>3, <2>3 DEF Reconcile
    <3> DEFINE q == [Idle EXCEPT !.pc = "attach", !.twin = t, !.job = facts.job]
    <3>2. q \in InFlight /\ q.pc = "attach" /\ q.twin = t /\ q.job = facts.job
      BY <2>1, NoFactsType DEF Idle, InFlight
    <3>3. req' = [req EXCEPT ![r] = q]
      BY <3>1
    <3> HIDE DEF q
    <3> QED
      BY <2>1, <3>2, <3>3, Asks
  <2>4. CASE state \notin RestingStates /\ state # facts.sim
    <3>1. req' = [req EXCEPT ![r] = [Idle EXCEPT !.pc = "progress", !.twin = t, !.evidence = state]]
      BY <1>3, <2>4 DEF Reconcile
    <3>2. state \in Live
      BY <2>2, <2>4
    <3> DEFINE q == [Idle EXCEPT !.pc = "progress", !.twin = t, !.evidence = state]
    <3> HIDE DEF state
    <3>3. q \in InFlight /\ q.pc = "progress" /\ q.twin = t /\ q.evidence = state
      BY <3>2, ProgressForm
    <3>4. req' = [req EXCEPT ![r] = q]
      BY <3>1
    <3> HIDE DEF q
    <3> QED
      BY <3>2, <3>3, <3>4, Asks
  <2>5. CASE state \notin RestingStates /\ state = facts.sim
    BY <1>3, <2>5, Finishes DEF Reconcile
  <2> QED
    BY <2>3, <2>4, <2>5
<1> QED
  BY <1>2, <1>3

\* A transition of the repository, after which the request goes on as q.
LEMMA TransitionReq ==
  ASSUME IInv, [Next]_vars, NEW r \in Replicas, Pc(r) # "idle", NEW to, NEW q \in InFlight, Carries(q),
         q.pc # "idle" => q.twin = Twin(r),
         q.pc \in {"mark", "calculate", "decide"} => Pc(r) \in {"mark", "calculate", "decide"},
         Transition(r, to, q)
  PROVE  ReqKept
<1>1. CASE Finish(r)
  BY <1>1, Finishes
<1>2. CASE req' = [req EXCEPT ![r] = q]
  <2>1. Twin(r) \in Twins /\ row[Twin(r)].status # "none"
    BY DEF IInv, ReqInv, Carries, Knows, Pc, Twin
  <2>2. Pc(r) \in {"mark", "calculate", "decide"} => row[Twin(r)].facts.evidence # "none"
    BY DEF IInv, ReqInv, Knows, Pc, Twin
  <2>3. row'[Twin(r)].status # "none"
        /\ (Pc(r) \in {"mark", "calculate", "decide"} => row'[Twin(r)].facts.evidence # "none")
    BY <2>1, <2>2, Lasting
  <2>4. q.pc # "idle" => row'[q.twin].status # "none"
    BY <2>3
  <2>5. q.pc \in {"mark", "calculate", "decide"} => row'[q.twin].facts.evidence # "none"
    BY <2>3
  <2> QED
    BY <1>2, <2>4, <2>5, ReqSet
<1> QED
  BY <1>1, <1>2 DEF Transition

LEMMA AtForm ==
  ASSUME IInv, NEW r \in Replicas, Pc(r) # "idle",
         NEW pc \in {"generate", "await", "supersede", "ensure", "start", "link", "poll", "merge", "mark",
                     "calculate", "decide"}
  PROVE  LET q == At(r, pc)
         IN /\ q \in InFlight /\ q.pc = pc /\ q.twin = Twin(r) /\ q.old = req[r].old /\ q.job = req[r].job
            /\ q.evidence = req[r].evidence /\ q.facts = req[r].facts /\ q.twin \in Twins
<1>1. req[r] \in InFlight /\ Twin(r) \in Twins
  BY DEF IInv, TypeOK, ReqInv, Carries, Pc, Twin
<1>2. At(r, pc) = [req[r] EXCEPT !.pc = pc]
  BY DEF At
<1>3. /\ At(r, pc) \in InFlight /\ At(r, pc).pc = pc /\ At(r, pc).twin = req[r].twin
      /\ At(r, pc).old = req[r].old /\ At(r, pc).job = req[r].job
      /\ At(r, pc).evidence = req[r].evidence /\ At(r, pc).facts = req[r].facts
  BY <1>1, <1>2 DEF InFlight
<1> QED
  BY <1>1, <1>3 DEF Twin

LEMMA GenerateReq ==
  ASSUME IInv, [Next]_vars, NEW r \in Replicas, Generate(r)
  PROVE  ReqKept
<1>1. Pc(r) # "idle" /\ Transition(r, "generating", At(r, "await"))
  BY DEF Generate
<1>2. At(r, "await") \in InFlight /\ At(r, "await").pc = "await" /\ At(r, "await").twin = Twin(r)
      /\ At(r, "await").twin \in Twins
  BY <1>1, AtForm
<1>3. Carries(At(r, "await"))
  BY <1>2 DEF Carries
<1> QED
  BY <1>1, <1>2, <1>3, TransitionReq

LEMMA AwaitReq ==
  ASSUME IInv, [Next]_vars, NEW r \in Replicas, AwaitDryRun(r)
  PROVE  ReqKept
<1> DEFINE pc == IF req[r].old # "none" THEN "supersede" ELSE "ensure"
           p == At(r, pc)
           q == [p EXCEPT !.job = row[Twin(r)].facts.job]
           next == IF req[r].old = "none" /\ ~req[r].run THEN Idle ELSE q
<1>1. Pc(r) # "idle" /\ Transition(r, "awaiting_dry_run", next)
  BY DEF AwaitDryRun
<1>2. pc \in {"supersede", "ensure"} /\ (pc = "supersede" => req[r].old # "none")
  OBVIOUS
<1> HIDE DEF pc
<1>3. p \in InFlight /\ p.pc = pc /\ p.twin = Twin(r) /\ p.old = req[r].old /\ p.twin \in Twins
  BY <1>1, <1>2, AtForm
<1>4. row[Twin(r)].facts.job \in Names \cup {"none"}
  BY <1>3 DEF IInv, TypeOK, Row, Fact
<1>5. q \in InFlight /\ q.pc = pc /\ q.twin = Twin(r) /\ q.old = req[r].old /\ q.twin \in Twins
  <2> HIDE DEF p
  <2> QED
    BY <1>3, <1>4 DEF InFlight
<1> HIDE DEF p
<1>6. Carries(q)
  <2>1. req[r].old \in Twins \cup {"none"}
    BY DEF IInv, TypeOK, InFlight
  <2> HIDE DEF q
  <2> QED
    BY <1>2, <1>5, <2>1 DEF Carries
<1> HIDE DEF q
<1>7. next \in InFlight /\ Carries(next) /\ (next.pc # "idle" => next.twin = Twin(r))
      /\ next.pc \notin {"mark", "calculate", "decide"}
  BY <1>2, <1>5, <1>6, IdleType DEF Carries
<1> HIDE DEF next
<1> QED
  BY <1>1, <1>7, TransitionReq

LEMMA MarkReq ==
  ASSUME IInv, [Next]_vars, NEW r \in Replicas, MarkAttached(r)
  PROVE  ReqKept
<1> DEFINE q == At(r, "calculate")
<1>1. Pc(r) = "mark" /\ Transition(r, "dry_run_evidence_attached", q)
  BY DEF MarkAttached
<1>2. q \in InFlight /\ q.pc = "calculate" /\ q.twin = Twin(r) /\ q.twin \in Twins /\ q.facts = req[r].facts
  BY <1>1, AtForm
<1> HIDE DEF q
<1>3. Carries(q)
  BY <1>1, <1>2 DEF Carries, IInv, ReqInv, Pc
<1> QED
  BY <1>1, <1>2, <1>3, TransitionReq

LEMMA CalculateReq ==
  ASSUME IInv, [Next]_vars, NEW r \in Replicas, Calculate(r)
  PROVE  ReqKept
<1> DEFINE q == At(r, "decide")
<1>1. Pc(r) = "calculate" /\ Transition(r, "decision_calculating", q)
  BY DEF Calculate
<1>2. q \in InFlight /\ q.pc = "decide" /\ q.twin = Twin(r) /\ q.twin \in Twins /\ q.facts = req[r].facts
  BY <1>1, AtForm
<1> HIDE DEF q
<1>3. Carries(q)
  BY <1>1, <1>2 DEF Carries, IInv, ReqInv, Pc
<1> QED
  BY <1>1, <1>2, <1>3, TransitionReq

LEMMA ReadReq ==
  ASSUME IInv, [Next]_vars, NEW r \in Replicas, ReadTwin(r)
  PROVE  ReqKept
<1>1. Pc(r) = "attach" /\ req[r] \in InFlight /\ Twin(r) \in Twins /\ req[r].job \in Names
  BY DEF ReadTwin, IInv, TypeOK, ReqInv, Carries, Pc, Twin
<1>2. CASE Finish(r)
  BY <1>2, Finishes
<1>3. CASE req' = [req EXCEPT ![r].pc = "poll", ![r].facts = row[Twin(r)].facts]
  <2> DEFINE q == [[req[r] EXCEPT !.pc = "poll"] EXCEPT !.facts = row[Twin(r)].facts]
  <2>1. req' = [req EXCEPT ![r] = q]
    BY <1>3 DEF IInv, TypeOK
  <2>2. row[Twin(r)].facts \in Fact
    BY <1>1 DEF IInv, TypeOK, Row
  <2>3. q \in InFlight /\ q.pc = "poll" /\ q.twin = req[r].twin /\ q.job = req[r].job
    BY <1>1, <2>2 DEF InFlight
  <2> HIDE DEF q
  <2>4. Carries(q)
    BY <1>1, <2>3 DEF Carries, Twin
  <2> QED
    BY <1>1, <2>1, <2>3, <2>4, ReqOn DEF Twin
<1> QED
  BY <1>2, <1>3 DEF ReadTwin

LEMMA PollReq ==
  ASSUME IInv, [Next]_vars, NEW r \in Replicas, PollEvidence(r)
  PROVE  ReqKept
<1> DEFINE job == jobs[r][req[r].job]
<1>1. Pc(r) = "poll" /\ req[r] \in InFlight /\ Twin(r) \in Twins /\ req[r].job \in Names
  BY DEF PollEvidence, IInv, TypeOK, ReqInv, Carries, Pc, Twin
<1>2. job \in Job
  BY <1>1 DEF IInv, TypeOK
<1>3. CASE Finish(r)
  BY <1>3, Finishes
<1>4. CASE ~Finish(r)
  <2> DEFINE status == EvidenceStatus(job)
             q == [[req[r] EXCEPT !.pc = "merge"] EXCEPT !.evidence = status]
  <2>1. /\ status \notin {"pending", "running"} /\ job.state # "none"
        /\ req' = [req EXCEPT ![r].pc = "merge", ![r].evidence = status]
    BY <1>4 DEF PollEvidence
  <2>2. status \in Outcomes
    BY <1>2, <2>1 DEF EvidenceStatus, Job, Outcomes
  <2>3. req' = [req EXCEPT ![r] = q]
    BY <2>1 DEF IInv, TypeOK
  <2> HIDE DEF status
  <2>4. q \in InFlight /\ q.pc = "merge" /\ q.twin = req[r].twin /\ q.job = req[r].job /\ q.evidence = status
    BY <1>1, <2>2 DEF InFlight, Outcomes
  <2> HIDE DEF q
  <2>5. Carries(q)
    BY <1>1, <2>2, <2>4 DEF Carries, Twin
  <2> QED
    BY <1>1, <2>3, <2>4, <2>5, ReqOn DEF Twin
<1> QED
  BY <1>3, <1>4

LEMMA MergeReq ==
  ASSUME IInv, [Next]_vars, NEW r \in Replicas, MergeEvidence(r)
  PROVE  ReqKept
<1>1. Pc(r) = "merge" /\ req[r] \in InFlight /\ Twin(r) \in Twins /\ row[Twin(r)].status # "none"
  BY DEF MergeEvidence, IInv, TypeOK, ReqInv, Carries, Knows, Pc, Twin
<1>2. CASE Mergeable(Twin(r))
  <2> DEFINE q == [[req[r] EXCEPT !.pc = "mark"] EXCEPT !.facts = MergedFacts(r)]
  <2>1. row' = [row EXCEPT ![Twin(r)].facts = MergedFacts(r)]
        /\ req' = [req EXCEPT ![r].pc = "mark", ![r].facts = MergedFacts(r)]
    BY <1>2 DEF MergeEvidence, MergedFacts
  <2>2. req' = [req EXCEPT ![r] = q]
    BY <2>1 DEF IInv, TypeOK
  <2>3. MergedFacts(r) \in Fact /\ MergedFacts(r).evidence \in Outcomes
        /\ MergedFacts(r).policy = row[Twin(r)].facts.policy
    BY <1>1, MergedFactsType
  <2>4. q \in InFlight /\ q.pc = "mark" /\ q.twin = req[r].twin /\ q.facts = MergedFacts(r)
    BY <1>1, <2>3 DEF InFlight
  <2>5. row[Twin(r)].facts.policy \in Policies
    BY <1>1 DEF IInv, RowInv, GoodRow
  <2>6. row'[Twin(r)].facts = MergedFacts(r)
    BY <1>1, <2>1 DEF IInv, TypeOK, Row
  <2>7. row'[Twin(r)].facts.evidence # "none"
    BY <2>3, <2>6 DEF Outcomes
  <2> HIDE DEF q
  <2>8. Carries(q)
    BY <1>1, <2>3, <2>4, <2>5 DEF Carries, Twin
  <2> QED
    BY <1>1, <2>2, <2>4, <2>7, <2>8, ReqOn DEF Twin
<1>3. CASE ~Mergeable(Twin(r))
  BY <1>3, Finishes DEF MergeEvidence
<1> QED
  BY <1>2, <1>3

LEMMA NextReqInv == IInv /\ [Next]_vars => ReqKept
<1> SUFFICES ASSUME IInv, [Next]_vars PROVE ReqKept
  OBVIOUS
<1>1. ASSUME NEW r \in Replicas, Request(r) PROVE ReqKept
  <2>1. CASE \E t \in Twins, run \in BOOLEAN : Replay(r, t, run)
    BY <2>1, ReplayReq
  <2>2. CASE \E t \in Twins, key \in Keys, run \in BOOLEAN, old \in {"none"} \cup {u \in Twins : Exists(u)} :
                Create(r, t, key, old, run)
    BY <2>2, CreateReq
  <2>3. CASE \E t \in Twins, j \in Names : RequestAttach(r, t, j)
    BY <2>3, AttachReq
  <2>4. ASSUME NEW t \in Twins,
               RefreshDrift(r, t) \/ RefreshRuntime(r, t) \/ RecordReplay(r, t) \/ ValidateReleaseNote(r, t)
        PROVE  ReqKept
    <3>1. Recording(r, t)
      BY <2>4 DEF RefreshDrift, RefreshRuntime, RecordReplay, ValidateReleaseNote
    <3> QED
      BY <3>1, RecordingReq
  <2>5. ASSUME NEW t \in Twins, RecordExecutionLink(r, t) \/ Cancel(r, t)
        PROVE  ReqKept
    BY <2>5, ReqSame DEF RecordExecutionLink, Cancel
  <2> QED
    BY <1>1, <2>1, <2>2, <2>3, <2>4, <2>5 DEF Request
<1>2. ASSUME NEW r \in Replicas, Serve(r) PROVE ReqKept
  <2>1. CASE GenerationFails(r) \/ LinkJob(r) \/ Progress(r) \/ Decide(r)
    BY <2>1, Finishes DEF GenerationFails, LinkJob, Progress, Decide
  <2>2. CASE Supersede(r)
    BY <2>2, Finishes, Goes DEF Supersede
  <2>3. CASE EnsureJob(r)
    BY <2>3, Finishes, Goes DEF EnsureJob
  <2>4. CASE StartJob(r)
    BY <2>4, Finishes, Goes DEF StartJob
  <2>5. CASE Follow(r)
    <3>1. Twin(r) \in Twins /\ row[Twin(r)].status # "none" /\ Reconcile(r, Twin(r))
      BY <2>5 DEF Follow, IInv, ReqInv, Carries, Knows, Pc, Twin
    <3> QED
      BY <3>1, ReconcileReq
  <2> QED
    BY <1>2, <2>1, <2>2, <2>3, <2>4, <2>5, GenerateReq, AwaitReq, ReadReq, PollReq, MergeReq, MarkReq,
       CalculateReq DEF Serve
<1>3. ASSUME NEW r \in Replicas, Crash(r) PROVE ReqKept
  BY <1>3, Finishes DEF Crash
<1>4. ASSUME NEW r \in Replicas, NEW t \in Twins, Get(r, t) PROVE ReqKept
  BY <1>4, ReconcileReq DEF Get, Exists
<1>5. ASSUME NEW r \in Replicas, NEW j \in Names, JobRuns(r, j) \/ JobIsChanged(r, j) PROVE ReqKept
  BY <1>5, ReqSame DEF JobRuns, JobIsChanged
<1>6. CASE DayPasses
  BY <1>6, ReqSame DEF DayPasses
<1>7. CASE UNCHANGED vars
  BY <1>7, ReqSame DEF vars
<1> QED
  BY <1>1, <1>2, <1>3, <1>4, <1>5, <1>6, <1>7 DEF Next

-----------------------------------------------------------------------------
(* The invariant.                                                           *)

LEMMA NoTwinType == NoTwin \in Row /\ NoTwin.status = "none" /\ NoTwin.decision = "pending"
                    /\ NoTwin.facts = NoFacts
  BY NoFactsType DEF NoTwin, Row

LEMMA InitIInv == Init => IInv
<1> SUFFICES ASSUME Init PROVE IInv
  OBVIOUS
<1>1. row \in [Twins -> Row] /\ recorded \in [Twins -> Fact]
  BY NoTwinType, NoFactsType DEF Init
<1>2. jobs \in [Replicas -> [Names -> Job]]
  <2>1. PICK state \in {"completed", "decision_required"} :
          jobs = [r \in Replicas |-> [j \in Names |->
                    IF j \in Twins THEN NoJob
                    ELSE [NoJob EXCEPT !.state = state,
                                       !.steps = IF state = "completed" THEN "done" ELSE "failed"]]]
    BY DEF Init
  <2>2. NoJob \in Job
    BY DEF NoJob, Job
  <2> DEFINE steps == IF state = "completed" THEN "done" ELSE "failed"
  <2>3. [NoJob EXCEPT !.state = state, !.steps = steps] \in Job
    BY DEF NoJob, Job, RestingStates
  <2> QED
    BY <2>1, <2>2, <2>3
<1>3. req \in [Replicas -> InFlight] /\ \A r \in Replicas : req[r] = Idle
  BY IdleType DEF Init
<1>4. TypeOK
  BY <1>1, <1>2, <1>3 DEF TypeOK, Init
<1>5. RowInv
  <2> SUFFICES ASSUME NEW t \in Twins PROVE GoodRow(row[t])
    BY DEF RowInv
  <2>1. row[t] = NoTwin
    BY DEF Init
  <2>2. NoFacts.evidence = "none"
    BY DEF NoFacts
  <2> QED
    BY <2>1, <2>2, NoTwinType DEF GoodRow, Decided
<1>6. ReqInv
  BY <1>3, IdleType DEF ReqInv, Carries, Knows
<1> QED
  BY <1>4, <1>5, <1>6 DEF IInv

LEMMA NextCounters == IInv /\ [Next]_vars => spent' \in Nat /\ mishaps' \in Nat
<1> SUFFICES ASSUME IInv, [Next]_vars PROVE spent' \in Nat /\ mishaps' \in Nat
  OBVIOUS
<1>1. spent \in Nat /\ mishaps \in Nat
  BY DEF IInv, TypeOK
<1>2. spent' \in {spent, spent + 1} /\ mishaps' \in {mishaps, mishaps + 1}
  <2>1. ASSUME NEW r \in Replicas, Request(r) PROVE spent' = spent + 1 /\ mishaps' = mishaps
    BY <2>1 DEF Request, Replay, Create, RequestAttach, RefreshDrift, RefreshRuntime, RecordReplay,
       ValidateReleaseNote, RecordExecutionLink, Recording, Begin, Keep, Cancel
  <2>2. ASSUME NEW r \in Replicas, Serve(r) PROVE spent' = spent /\ mishaps' = mishaps
    BY <2>2 DEF Serve, Generate, AwaitDryRun, GenerationFails, Supersede, EnsureJob, StartJob, LinkJob,
       Follow, Progress, ReadTwin, PollEvidence, MergeEvidence, MarkAttached, Calculate, Decide, Transition
  <2>3. ASSUME NEW r \in Replicas, Crash(r) \/ \E t \in Twins : Get(r, t)
        PROVE  spent' = spent /\ mishaps' \in {mishaps, mishaps + 1}
    BY <2>3 DEF Crash, Get
  <2>4. ASSUME NEW r \in Replicas, NEW j \in Names, JobRuns(r, j) \/ JobIsChanged(r, j)
        PROVE  spent' \in {spent, spent + 1} /\ mishaps' = mishaps
    BY <2>4 DEF JobRuns, JobIsChanged
  <2>5. CASE DayPasses
    BY <2>5 DEF DayPasses
  <2>6. CASE UNCHANGED vars
    BY <2>6 DEF vars
  <2> QED
    BY <2>1, <2>2, <2>3, <2>4, <2>5, <2>6 DEF Next
<1> QED
  BY <1>1, <1>2

LEMMA NextIInv == IInv /\ [Next]_vars => IInv'
<1> SUFFICES ASSUME IInv, [Next]_vars PROVE IInv'
  OBVIOUS
<1>1. TypeOK'
  BY EffectOfStep, NextJobTypes, NextReqInv, NextCounters DEF TypeOK, RowTypes, JobTypes, ReqKept, ReqTypes
<1> QED
  BY <1>1, NextRowInv, NextReqInv DEF IInv, ReqKept

LEMMA Invariance == Spec => []IInv
<1> QED
  BY InitIInv, NextIInv, PTL DEF Spec

\* Rows, jobs and requests keep their types.
THEOREM TypeCorrect == Spec => []TypeOK
<1>1. IInv => TypeOK
  BY DEF IInv
<1> QED
  BY <1>1, Invariance, PTL

\* Whatever came between the transactions of the replicas, a decision is
\* backed by the row it stands in.
THEOREM DecisionIsBacked == Spec => []DecisionStands
<1>1. IInv => DecisionStands
  BY DEF IInv, RowInv, GoodRow, DecisionStands, Final
<1> QED
  BY <1>1, Invariance, PTL

-----------------------------------------------------------------------------
(* What was recorded of an undecided twin is still there.                   *)

Agreeing(t) == row[t].status # "none" /\ row[t].decision = "pending" => Agrees(row[t].facts, recorded[t])
NothingLost == \A t \in Twins : Agreeing(t)

LEMMA NextNothingLost == IInv /\ NothingLost /\ [Next]_vars => NothingLost'
<1> SUFFICES ASSUME IInv, NothingLost, [Next]_vars, NEW t \in Twins PROVE Agreeing(t)'
  BY DEF NothingLost
<1>1. Agreeing(t)
  BY DEF NothingLost
<1>2. Kept(t) \/ Changed(t)
  BY EffectOfStep DEF Effect
<1>3. "none" \notin Active /\ "pending" \notin Decided
  BY DEF Active, Decided
<1>4. CASE Kept(t)
  BY <1>1, <1>4 DEF Agreeing, Kept
<1>5. CASE Born(t)
  BY <1>5 DEF Agreeing, Born, Agrees
<1>6. CASE Moved(t)
  BY <1>1, <1>3, <1>6 DEF Agreeing, Moved
<1>7. CASE Noted(t)
  BY <1>1, <1>7 DEF Agreeing, Noted
<1>8. CASE Merged(t)
  BY <1>1, <1>3, <1>8 DEF Agreeing, Merged
<1>9. CASE Given(t)
  BY <1>3, <1>9 DEF Agreeing, Given
<1> QED
  BY <1>2, <1>4, <1>5, <1>6, <1>7, <1>8, <1>9 DEF Changed

\* No request that read the facts of an undecided twin earlier loses what was
\* recorded since.
THEOREM EvidenceIsKept == Spec => []EvidenceKept
<1>1. Init => NothingLost
  BY NoTwinType DEF Init, NothingLost, Agreeing
<1>2. NothingLost => EvidenceKept
  BY DEF NothingLost, Agreeing, Agrees, EvidenceKept, Exists, Final
<1> QED
  BY <1>1, <1>2, NextNothingLost, Invariance, PTL DEF Spec

-----------------------------------------------------------------------------
(* The rows implement the verdict.                                          *)

Evidence == [t \in Twins |-> row[t].facts.evidence]
Verdict == [t \in Twins |-> IF Final(t) THEN row[t].decision ELSE "none"]
Gone == [t \in Twins |-> row[t].status \in Withdrawn]

LEMMA InitVerdict == Init => V!Init
<1> SUFFICES ASSUME Init PROVE V!Init
  OBVIOUS
<1>1. \A t \in Twins : row[t] = NoTwin /\ row[t].facts.evidence = "none" /\ ~Final(t)
                       /\ row[t].status \notin Withdrawn
  BY NoTwinType DEF Init, NoFacts, Final, Withdrawn
<1>2. \A t \in Twins : (row[t].status \in Withdrawn) = FALSE
  BY <1>1
<1>3. Gone = [t \in Twins |-> FALSE]
  BY <1>2, Zenon DEF Gone
<1>4. Evidence = [t \in Twins |-> "none"] /\ Verdict = [t \in Twins |-> "none"]
  BY <1>1 DEF Evidence, Verdict
<1> QED
  BY <1>3, <1>4 DEF V!Init, Evidence, Verdict, Gone

\* What the clients of a row see of it does not change.
Same(t) ==
    /\ row'[t].facts.evidence = row[t].facts.evidence
    /\ row'[t].decision = row[t].decision
    /\ (row'[t].status \in Withdrawn) <=> (row[t].status \in Withdrawn)

LEMMA SameVerdict ==
  ASSUME \A t \in Twins : Same(t)
  PROVE  UNCHANGED V!vars
<1>1. \A t \in Twins : (row'[t].status \in Withdrawn) = (row[t].status \in Withdrawn)
  BY DEF Same
<1>2. Evidence' = Evidence /\ Verdict' = Verdict /\ Gone' = Gone
  BY <1>1 DEF Evidence, Verdict, Gone, Same, Final
<1> QED
  BY <1>2 DEF V!vars, Evidence, Verdict, Gone

\* A step that changes one row changes what is seen of one twin.
LEMMA OneVerdict ==
  ASSUME NEW t \in Twins, \A u \in Twins \ {t} : Same(u)
  PROVE  /\ Evidence' = [Evidence EXCEPT ![t] = row'[t].facts.evidence]
         /\ Verdict' = [Verdict EXCEPT ![t] = IF Final(t)' THEN row'[t].decision ELSE "none"]
         /\ Gone' = [Gone EXCEPT ![t] = (row'[t].status \in Withdrawn)]
<1>1. \A u \in Twins \ {t} : (row'[u].status \in Withdrawn) = (row[u].status \in Withdrawn)
  BY DEF Same
<1>2. Evidence' = [Evidence EXCEPT ![t] = row'[t].facts.evidence]
  BY DEF Evidence, Same
<1>3. Verdict' = [Verdict EXCEPT ![t] = IF Final(t)' THEN row'[t].decision ELSE "none"]
  BY DEF Verdict, Same, Final
<1>4. Gone' = [Gone EXCEPT ![t] = (row'[t].status \in Withdrawn)]
  BY <1>1 DEF Gone
<1> QED
  BY <1>2, <1>3, <1>4

\* A row that is withdrawn, with its evidence and its decision.
LEMMA Withdraws ==
  ASSUME NEW t \in Twins, \A u \in Twins \ {t} : Same(u),
         row[t].status \notin Withdrawn, row'[t].status \in Withdrawn,
         row'[t].facts.evidence = row[t].facts.evidence, row'[t].decision = row[t].decision
  PROVE  V!Withdraw(t)
<1>1. Evidence' = [Evidence EXCEPT ![t] = row[t].facts.evidence]
      /\ Verdict' = [Verdict EXCEPT ![t] = IF Final(t) THEN row[t].decision ELSE "none"]
      /\ Gone' = [Gone EXCEPT ![t] = (row'[t].status \in Withdrawn)]
  BY OneVerdict DEF Final
<1>2. Evidence' = Evidence /\ Verdict' = Verdict
  BY <1>1 DEF Evidence, Verdict
<1>3. (row'[t].status \in Withdrawn) = TRUE
  OBVIOUS
<1>4. Gone' = [Gone EXCEPT ![t] = TRUE] /\ ~Gone[t]
  BY <1>1, <1>3, Zenon DEF Gone
<1> QED
  BY <1>2, <1>4 DEF V!Withdraw, Evidence, Verdict, Gone

LEMMA StepVerdict == IInv /\ [Next]_vars => [V!Next]_V!vars
<1> SUFFICES ASSUME IInv, [Next]_vars PROVE V!Next \/ UNCHANGED V!vars
  OBVIOUS
<1>1. /\ "none" \notin Withdrawn /\ "requested" \notin Withdrawn /\ "superseded" \in Withdrawn
      /\ Active \cap Withdrawn = {} /\ Decided \cap Withdrawn = {} /\ "decision_calculating" \in Active
  BY DEF Active, Withdrawn, Decided
<1>2. ASSUME NEW t \in Twins, Kept(t) PROVE Same(t)
  BY <1>2 DEF Kept, Same
<1>3. CASE \A t \in Twins : Kept(t)
  BY <1>2, <1>3, SameVerdict
<1>4. ASSUME NEW t \in Twins, Changed(t), \A u \in Twins \ {t} : Kept(u)
      PROVE  V!Next \/ UNCHANGED V!vars
  <2>1. \A u \in Twins \ {t} : Same(u)
    BY <1>2, <1>4
  <2>2. GoodRow(row[t])
    BY DEF IInv, RowInv
  <2>3. Same(t) => UNCHANGED V!vars
    BY <2>1, SameVerdict
  <2>4. CASE Born(t)
    BY <1>1, <2>2, <2>3, <2>4 DEF Born, Same, GoodRow
  <2>5. CASE Moved(t)
    <3>1. row[t].status \notin Withdrawn
      BY <1>1, <2>5 DEF Moved
    <3>2. CASE row'[t].status \in Withdrawn
      BY <2>1, <2>5, <3>1, <3>2, Withdraws DEF Moved, V!Next
    <3>3. CASE row'[t].status \notin Withdrawn
      BY <2>3, <2>5, <3>1, <3>3 DEF Moved, Same
    <3> QED
      BY <3>2, <3>3
  <2>6. CASE Noted(t)
    <3>1. CASE row[t].status \notin Withdrawn /\ row'[t].status \in Withdrawn
      BY <2>1, <2>6, <3>1, Withdraws DEF Noted, V!Next
    <3>2. CASE ~(row[t].status \notin Withdrawn /\ row'[t].status \in Withdrawn)
      BY <1>1, <2>3, <2>6, <3>2 DEF Noted, Same
    <3> QED
      BY <3>1, <3>2
  <2>7. CASE Merged(t)
    <3>1. ~Final(t) /\ ~Final(t)' /\ row[t].status \notin Withdrawn /\ row'[t].status \notin Withdrawn
      BY <1>1, <2>7 DEF Merged, Final
    <3>2. (row'[t].status \in Withdrawn) = (row[t].status \in Withdrawn)
      BY <3>1
    <3>3. Evidence' = [Evidence EXCEPT ![t] = row'[t].facts.evidence]
      BY <2>1, OneVerdict
    <3>4. Verdict' = [Verdict EXCEPT ![t] = "none"]
      BY <2>1, <3>1, OneVerdict
    <3>5. Gone' = [Gone EXCEPT ![t] = (row[t].status \in Withdrawn)]
      BY <2>1, <3>2, OneVerdict
    <3>6. Verdict' = Verdict /\ Verdict[t] = "none"
      BY <3>1, <3>4 DEF Verdict
    <3>7. Gone' = Gone /\ ~Gone[t]
      BY <3>1, <3>5, Zenon DEF Gone
    <3>8. row'[t].facts.evidence \in Outcomes
      BY <2>7 DEF Merged
    <3>9. V!Attach(t)
      BY <3>3, <3>6, <3>7, <3>8 DEF V!Attach, V!Open, Evidence, Verdict, Gone, Outcomes
    <3> QED
      BY <3>9 DEF V!Next
  <2>8. CASE Given(t)
    <3>1. ~Final(t) /\ Final(t)' /\ row[t].status \notin Withdrawn /\ row'[t].status \notin Withdrawn
      BY <1>1, <2>8 DEF Given, Final, Decided
    <3>2. (row'[t].status \in Withdrawn) = (row[t].status \in Withdrawn)
      BY <3>1
    <3>3. Evidence' = [Evidence EXCEPT ![t] = row'[t].facts.evidence]
      BY <2>1, OneVerdict
    <3>4. Verdict' = [Verdict EXCEPT ![t] = row'[t].decision] /\ Verdict[t] = "none"
      BY <2>1, <3>1, OneVerdict DEF Verdict
    <3>5. Gone' = [Gone EXCEPT ![t] = (row[t].status \in Withdrawn)]
      BY <2>1, <3>2, OneVerdict
    <3>6. Gone' = Gone /\ ~Gone[t]
      BY <3>1, <3>5, Zenon DEF Gone
    <3>7. Evidence[t] # "none"
      BY <2>2, <2>8 DEF Given, GoodRow, Evidence
    <3>8. /\ row'[t].facts.evidence \in Outcomes /\ row'[t].decision \in Decided
          /\ row'[t].facts.evidence # "passed" => row'[t].decision = "red"
      BY <2>8 DEF Given
    <3>9. V!Decide(t)
      BY <3>3, <3>4, <3>6, <3>7, <3>8 DEF V!Decide, V!Open, Evidence, Verdict, Gone, Outcomes, Decided
    <3> QED
      BY <3>9 DEF V!Next
  <2> QED
    BY <1>4, <2>4, <2>5, <2>6, <2>7, <2>8 DEF Changed
<1> QED
  BY <1>3, <1>4, EffectOfStep DEF Effect

\* However many replicas serve the twins, together they promise what one
\* server would: one verdict, on evidence, while the question is open.
THEOREM VerdictIsKept == Spec => VerdictSpec
<1> QED
  BY InitVerdict, StepVerdict, Invariance, PTL DEF Spec, VerdictSpec, V!VerdictSpec
=============================================================================
