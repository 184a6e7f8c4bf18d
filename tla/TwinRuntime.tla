---------------------------- MODULE TwinRuntime ----------------------------
(***************************************************************************)
(* The runtime behaviour twin: pods and recent events scored by rules      *)
(* (namespace_twin/runtime_behavior_twin.py), and what its effect does to  *)
(* a decision (NamespaceTwinService.attach_dry_run_evidence).              *)
(*                                                                         *)
(* An input holds: available, podsComplete, warned (of the snapshot),      *)
(* collected (were events read), pods and events (sequences).              *)
(*   pod   [shape, cur, total, phase, restarts]  shape: flag, ratio, none  *)
(*   event [reason, warning, age]                age: recent, old, unknown *)
(***************************************************************************)
EXTENDS Integers, FiniteSets, SequencesExt

CrashReasons == {"crashloopbackoff", "oomkilled"}
ImageReasons == {"imagepullbackoff"}
PressureReasons == {"oomkilled", "evicted"}
HighPressure == {"oomkilled"}

PodReady(p) ==
    CASE p.shape = "flag"  -> p.cur = 1
      [] p.shape = "ratio" -> p.total > 0 /\ p.cur = p.total /\ p.phase = "Running"
      [] p.shape = "none"  -> p.phase \in {"Succeeded", "Completed"}

(* The recent events, by position; one without a readable timestamp is one. *)
RecentEvents(in) == {i \in DOMAIN in.events : in.collected /\ in.events[i].age # "old"}

Pressing(events, recent) == {i \in recent : events[i].reason \in PressureReasons}

(* Fault: only the newest event decides the pressure. *)
LastPressure(events, recent) ==
    LET under == Pressing(events, recent)
    IN CASE under = {} -> "none"
         [] under # {} -> IF events[Max(under)].reason \in HighPressure THEN "high"
                          ELSE IF Cardinality(under) >= 2 THEN "medium" ELSE "low"

ResourcePressure(events, recent) ==
    LET under == Pressing(events, recent)
    IN CASE under = {} -> "none"
         [] \E i \in under : events[i].reason \in HighPressure -> "high"
         [] OTHER -> IF Cardinality(under) >= 2 THEN "medium" ELSE "low"

Signals(in) ==
    LET recent == RecentEvents(in)
        Pods(P(_))   == Cardinality({i \in DOMAIN in.pods : P(in.pods[i])})
        Events(P(_)) == Cardinality({i \in recent : P(in.events[i])})
    IN [notReady   |-> Pods(LAMBDA p : ~PodReady(p)),
        restarting |-> Pods(LAMBDA p : p.restarts > 0),
        highRestart |-> Pods(LAMBDA p : p.restarts >= 5),
        crash   |-> Events(LAMBDA e : e.reason \in CrashReasons),
        image   |-> Events(LAMBDA e : e.reason \in ImageReasons),
        warnings |-> Events(LAMBDA e : e.warning),
        pressure |-> ResourcePressure(in.events, recent)]

PressureScore == [none |-> 0, low |-> 8, medium |-> 18, high |-> 30]

RuntimeScore(s) ==
    LET raw == (IF s.notReady > 0 THEN Min({30, 10 + (s.notReady - 1) * 5}) ELSE 0)
             + (IF s.restarting > 0 THEN IF s.highRestart > 0 THEN 20 ELSE 10 ELSE 0)
             + (IF s.crash > 0 THEN 30 ELSE 0)
             + (IF s.image > 0 THEN 25 ELSE 0)
             + (IF s.warnings > 0 THEN Min({15, 3 + s.warnings}) ELSE 0)
             + PressureScore[s.pressure]
    IN Min({raw, 100})

RuntimeRisk(score, available) ==
    CASE ~available -> "unknown"
      [] available /\ score >= 75 -> "critical"
      [] available /\ score \in 50..74 -> "high"
      [] available /\ score \in 25..49 -> "medium"
      [] available /\ score < 25 -> "low"

RuntimeHealth(s, available) ==
    IF ~available THEN "unknown"
    ELSE IF s.crash > 0 \/ s.image > 0 \/ s.pressure = "high" \/ s.notReady >= 3 THEN "unhealthy"
    ELSE IF s.notReady > 0 \/ s.restarting > 0 \/ s.pressure # "none" THEN "degraded"
    ELSE "healthy"

(* In hundredths. *)
RuntimeConfidence(in) ==
    Max({10, 25 + (IF in.available THEN 30 ELSE 0) + (IF in.podsComplete THEN 25 ELSE 0)
                + (IF in.collected THEN 20 ELSE 0) - (IF in.warned THEN 10 ELSE 0)})

ExecutionEffect == [critical |-> "force_red", high |-> "force_amber", medium |-> "force_amber",
                    low |-> "no_uplift", unknown |-> "no_uplift"]

AssessRuntime(in) ==
    LET s == Signals(in)
        risk == RuntimeRisk(RuntimeScore(s), in.available)
    IN [score |-> RuntimeScore(s), risk |-> risk, health |-> RuntimeHealth(s, in.available),
        confidence |-> RuntimeConfidence(in), effect |-> ExecutionEffect[risk]]

(* The decision after a dry run with this outcome, policy projection and    *)
(* runtime effect.                                                          *)
CombineDecision(status, projected, effect) ==
    LET decision == IF status # "passed" THEN "red" ELSE projected
    IN IF effect = "force_red" THEN "red"
       ELSE IF effect \in {"force_amber", "require_review"} /\ decision = "green" THEN "amber"
       ELSE decision
=============================================================================
